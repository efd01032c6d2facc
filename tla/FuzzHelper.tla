----------------------------- MODULE FuzzHelper -----------------------------
(***************************************************************************)
(* The fuzzing helper (util/symcc_fuzzing_helper): a loop that takes the   *)
(* best input AFL has found and SymCC has not seen, runs SymCC on it,      *)
(* asks afl-showmap what each generated test case does, and copies the     *)
(* useful ones into the queue, crashes and hangs directories, from which   *)
(* AFL imports them.                                                       *)
(*                                                                         *)
(* AFL runs at the same time and adds files to its queue.  Copies and      *)
(* child processes may fail.                                               *)
(***************************************************************************)
EXTENDS Integers, Sequences, FiniteSets, SequencesExt

CONSTANTS
  Inputs,      \* the files that may appear in AFL's queue
  NoInput,     \* no file
  Score,       \* Score[i]: what TestcaseScore derives from the file i
  Named,       \* the inputs whose name starts with a proper "id:"
  Tests,       \* test cases SymCC may generate
  Edges,       \* entries of the coverage map
  Cov,         \* Cov[t]: the edges test case t covers
  Outcome,     \* Outcome[t]: "success", "hang" or "crash" under afl-showmap
  Statuses,    \* how the SymCC process may end
  MaxTests,    \* bound on the test cases of one run of SymCC
  MaxVanish    \* bound on the files that disappear from AFL's queue

ASSUME HelperAssumption ==
  /\ NoInput \notin Inputs
  /\ MaxTests \in Nat /\ MaxVanish \in Nat
  /\ Named \subseteq Inputs
  /\ Cov \in [Tests -> SUBSET Edges]
  /\ Outcome \in [Tests -> {"success", "hang", "crash"}]
  /\ Score \in [Inputs -> [cov : BOOLEAN, seed : BOOLEAN, size : Nat, name : Nat]]
  /\ Statuses \subseteq {"exit", "124", "137", "signal"}

VARIABLES
  skipShowmap, \* the command-line option dont_use_showmap
  aflQueue,    \* the files in AFL's queue now
  processed,   \* processed_files
  pc,          \* where the main loop stands
  input,       \* the input being tested
  status,      \* how the current run of SymCC ended
  todo,        \* generated test cases not processed yet
  bitmap,      \* current_bitmap: its set bits
  loaded,      \* current_bitmap is not empty any more
  queue,       \* the test cases in symcc/queue, by ID
  crashes,     \* those in symcc/crashes
  hangs,       \* the files in symcc/hangs
  stats,       \* the counters of Stats
  vanished,    \* files that disappeared from AFL's queue
  runs,        \* history: how often SymCC ran on an input
  lost         \* history: test cases that should have been enqueued, but the
               \* copy failed

vars == <<skipShowmap, aflQueue, processed, pc, input, status, todo, bitmap,
          loaded, queue, crashes, hangs, stats, vanished, runs, lost>>

aflVars == <<aflQueue, vanished>>
results == <<bitmap, loaded, queue, crashes, hangs, lost>>

\* The derived order of TestcaseScore: lexicographic, larger is better, and a
\* smaller file scores higher.
Better(a, b) ==
  LET A == Score[a]
      B == Score[b]
  IN  \/ A.cov /\ ~B.cov
      \/ A.cov = B.cov /\ A.seed /\ ~B.seed
      \/ A.cov = B.cov /\ A.seed = B.seed /\ A.size < B.size
      \/ /\ A.cov = B.cov /\ A.seed = B.seed /\ A.size = B.size
         /\ A.name > B.name

Init ==
  /\ skipShowmap \in BOOLEAN
  /\ aflQueue = {} /\ vanished = {}
  /\ processed = {}
  /\ pc = "choose" /\ input = NoInput /\ status = "exit" /\ todo = {}
  /\ bitmap = {} /\ loaded = FALSE
  /\ queue = <<>> /\ crashes = <<>> /\ hangs = <<>>
  /\ stats = [total |-> 0, failed |-> 0]
  /\ runs = [i \in Inputs |-> 0]
  /\ lost = {}

-----------------------------------------------------------------------------
(* AFL, running in parallel *)

AflAdds(i) ==
  /\ i \notin aflQueue \cup vanished
  /\ aflQueue' = aflQueue \cup {i}
  /\ UNCHANGED <<skipShowmap, processed, pc, input, status, todo, results,
                 stats, vanished, runs>>

AflRemoves(i) ==
  /\ i \in aflQueue
  /\ Cardinality(vanished) < MaxVanish
  /\ aflQueue' = aflQueue \ {i}
  /\ vanished' = vanished \cup {i}
  /\ UNCHANGED <<skipShowmap, processed, pc, input, status, todo, results,
                 stats, runs>>

-----------------------------------------------------------------------------
(* The main loop *)

\* Mutants: processed files count again, or only those marked +cov count.
AllFiles == aflQueue
CoverageFiles == {i \in aflQueue \ processed : Score[i].cov}

\* The files best_new_testcase chooses from
Unseen == aflQueue \ processed

\* best_new_testcase; with no candidate the loop sleeps and looks again.
Choose ==
  /\ pc = "choose"
  /\ \E i \in Unseen :
       /\ \A j \in Unseen : j = i \/ Better(i, j)
       /\ input' = i
  /\ pc' = "run"
  /\ UNCHANGED <<skipShowmap, aflVars, processed, status, todo, results, stats,
                 runs>>

(***************************************************************************)
(* SymCC::run: SymCC ends under timeout(1) by itself, by one of timeout's  *)
(* two signals (124, or 137 if it took the second, SIGKILL) or by another  *)
(* signal.  Test cases written before the process was killed count.  An    *)
(* error, such as an input that has disappeared, ends the helper.          *)
(***************************************************************************)
Run ==
  /\ pc = "run"
  /\ input \in aflQueue
  /\ \E s \in Statuses, T \in SUBSET Tests :
       /\ Cardinality(T) <= MaxTests
       /\ status' = s
       /\ todo' = T
  /\ runs' = [runs EXCEPT ![input] = @ + 1]
  /\ pc' = "tests"
  /\ UNCHANGED <<skipShowmap, aflVars, processed, input, results, stats>>

Fail(step) ==
  /\ pc = step
  /\ pc' = "error"
  /\ UNCHANGED <<skipShowmap, aflVars, processed, input, status, todo, results,
                 stats, runs>>

\* copy_testcase, which needs the ID in the parent's name
CopyFails(dir) == UNCHANGED dir
CopyWorks(t, dir) == input \in Named /\ dir' = Append(dir, t)

\* Mutant: the parent is copied instead of the test case.
EnqueueParent(t) ==
  \/ CopyWorks(input, queue) /\ UNCHANGED lost
  \/ CopyFails(queue) /\ lost' = lost \cup {t}

Enqueue(t) ==
  \/ CopyWorks(t, queue) /\ UNCHANGED lost
  \/ CopyFails(queue) /\ lost' = lost \cup {t}

MergeReplaces(t) == Cov[t]                    \* mutant: a clone every time
Differs(t) == ~loaded \/ Cov[t] # bitmap      \* mutant: any difference counts

\* AflMap::merge: the first map is always interesting.
Merged(t) == bitmap \cup Cov[t]
Interesting(t) == ~loaded \/ ~(Cov[t] \subseteq bitmap)

\* process_new_testcase, when afl-showmap is not used
ProcessUnchecked(t) ==
  /\ skipShowmap
  /\ Enqueue(t)
  /\ UNCHANGED <<bitmap, loaded, crashes, hangs>>

ProcessSuccess(t) ==
  /\ ~skipShowmap /\ Outcome[t] = "success"
  /\ loaded' = TRUE
  /\ bitmap' = Merged(t)
  /\ IF Interesting(t) THEN Enqueue(t) ELSE UNCHANGED <<queue, lost>>
  /\ UNCHANGED <<crashes, hangs>>

\* A test case that times out is ignored; hangs is for inputs of SymCC.
ProcessHang(t) ==
  /\ ~skipShowmap /\ Outcome[t] = "hang"
  /\ UNCHANGED results

\* Mutant: the copies in the other order.
QueueFirst(t) ==
  /\ ~skipShowmap /\ Outcome[t] = "crash"
  /\ \/ /\ CopyWorks(t, queue) /\ UNCHANGED lost
        /\ CopyWorks(t, crashes) \/ CopyFails(crashes)
     \/ CopyFails(queue) /\ UNCHANGED crashes /\ lost' = lost \cup {t}
  /\ UNCHANGED <<bitmap, loaded, hangs>>

\* The copy to crashes comes first; if it fails there is none to the queue.
ProcessCrash(t) ==
  /\ ~skipShowmap /\ Outcome[t] = "crash"
  /\ \/ CopyWorks(t, crashes) /\ Enqueue(t)
     \/ CopyFails(crashes) /\ UNCHANGED queue /\ lost' = lost \cup {t}
  /\ UNCHANGED <<bitmap, loaded, hangs>>

\* afl-showmap could not be run or left no map: the error is dropped.
ProcessError(t) ==
  /\ ~skipShowmap
  /\ UNCHANGED results

\* One round of the loop over test_cases in test_input.
ProcessTest ==
  /\ pc = "tests"
  /\ \E t \in todo :
       /\ todo' = todo \ {t}
       /\ \/ ProcessUnchecked(t)
          \/ ProcessSuccess(t)
          \/ ProcessHang(t)
          \/ ProcessCrash(t)
          \/ ProcessError(t)
  /\ UNCHANGED <<skipShowmap, aflVars, processed, pc, input, status, stats,
                 runs>>

\* afl-showmap ended with an unexpected code or a signal.
Panic == todo # {} /\ ~skipShowmap /\ Fail("tests")

\* What run takes for a kill: exit code 124, the impossible exit code -9, or
\* death by a signal.
LooksKilled(s) == s \in {"124", "signal"}

\* Mutant: every run counts, and the failed ones twice.
CountTwice ==
  [total |-> stats.total + 1,
   failed |-> IF LooksKilled(status) THEN stats.failed + 1 ELSE stats.failed]

\* Stats::add_execution
AddExecution ==
  IF LooksKilled(status)
  THEN [stats EXCEPT !.failed = @ + 1]
  ELSE [stats EXCEPT !.total = @ + 1]

\* The end of test_input: archive a killed input, record it as processed.
Finish ==
  /\ pc = "tests" /\ todo = {}
  /\ IF LooksKilled(status)
     THEN input \in aflQueue /\ CopyWorks(input, hangs)
     ELSE UNCHANGED hangs
  /\ processed' = processed \cup {input}
  /\ stats' = AddExecution
  /\ pc' = "choose"
  /\ input' = NoInput /\ status' = "exit"
  /\ UNCHANGED <<skipShowmap, aflVars, todo, bitmap, loaded, queue, crashes,
                 runs, lost>>

\* Archiving failed: the error ends the helper.
FinishFails == todo = {} /\ LooksKilled(status) /\ Fail("tests")

Helper == \/ Choose \/ Run \/ Fail("run") \/ ProcessTest \/ Panic
          \/ Finish \/ FinishFails

Next ==
  \/ \E i \in Inputs : AflAdds(i)
  \/ \E i \in Inputs : AflRemoves(i)
  \/ Helper
  \/ Fail("choose")

\* The loop goes on as long as the process lives: its children end, by
\* themselves or through the timeouts it sets for them.
Spec == Init /\ [][Next]_vars /\ WF_vars(Helper)

-----------------------------------------------------------------------------
Enqueued == {queue[n] : n \in 1 .. Len(queue)}
CovOf(T) == UNION {Cov[t] : t \in T}

TypeOK ==
  /\ aflQueue \subseteq Inputs /\ processed \subseteq Inputs
  /\ pc \in {"choose", "run", "tests", "error"}
  /\ input \in Inputs \cup {NoInput}
  /\ (pc \in {"run", "tests"}) => input \in Inputs
  /\ todo \subseteq Tests /\ bitmap \subseteq Edges
  /\ Enqueued \subseteq Tests
  /\ {crashes[n] : n \in 1 .. Len(crashes)} \subseteq Tests
  /\ stats \in [total : Nat, failed : Nat]

\* What the bitmap claims to know was seen in a test case that AFL can import
\* or in one whose copy failed, and every checked test case in the queue is
\* reflected in it (process_new_testcase merges before it copies).
BitmapExplained ==
  ~skipShowmap =>
    /\ bitmap \subseteq CovOf(Enqueued \cup lost)
    /\ \A t \in Enqueued : Outcome[t] = "success" => Cov[t] \subseteq bitmap

\* Apart from the first, each checked test case in the queue added an edge
\* that no earlier one covers, whatever input it came from.
EntriesBringCoverage ==
  ~skipShowmap =>
    \A n \in 2 .. Len(queue) :
      LET before == {queue[m] : m \in {k \in 1 .. n - 1 :
                                         Outcome[queue[k]] = "success"}}
      IN  Outcome[queue[n]] = "success" /\ before # {} =>
            ~(Cov[queue[n]] \subseteq CovOf(before))

\* A crashing test case that AFL may import is in the crashes directory.
CrashesArchived ==
  ~skipShowmap =>
    \A t \in Enqueued : Outcome[t] = "crash" =>
      \E n \in 1 .. Len(crashes) : crashes[n] = t

\* SymCC never runs twice on an input.
RunOnce == \A i \in Inputs : runs[i] <= 1

\* Between two inputs every run is accounted for in exactly one counter, and
\* each run that is counted as failed has its input in hangs (test_input).
StatsAgree ==
  pc = "choose" =>
    /\ \A i \in Inputs : runs[i] = 1 <=> i \in processed
    /\ stats.total + stats.failed = Cardinality(processed)
    /\ stats.failed = Cardinality(ToSet(hangs))

\* Every input AFL finds is tested in the end, unless it disappears or the
\* helper dies.
EveryInputTested ==
  \A i \in Inputs :
    (i \in aflQueue) ~> (i \in processed \/ i \in vanished \/ pc = "error")
=============================================================================
