---------------------------- MODULE PureConcolic ----------------------------
(***************************************************************************)
(* The history that the Qsym backend keeps of its exploration when         *)
(* SYMCC_PURE_CONCOLIC is set (runtime/qsym_backend/Runtime.cpp).  Every   *)
(* process loads the history from four files when it pushes its first path *)
(* constraint, decides with it which branches are worth solving, extends   *)
(* it and writes the files back when it exits.  A process may be killed at *)
(* any time (the scripts run it under timeout -k), also while it writes.   *)
(*                                                                         *)
(* The target is a deterministic program: Program[i] is the sequence of    *)
(* its instrumented events on input i.  What is made of a saved branch is  *)
(* the solver's affair: it finds one of the inputs that take the other     *)
(* direction, or none.                                                     *)
(***************************************************************************)
EXTENDS Integers, Sequences, FiniteSets, SequencesExt, FiniteSetsExt

CONSTANTS
  Inputs,      \* contents of input files
  Program,     \* [Inputs -> Seq(event)]
  Blocks,      \* the IDs given to basic blocks
  TraceSize,   \* curr_trace_map wraps around here; 2^32 in the code
  Trouble      \* what may happen to a process, once each: "killed", "torn"

\* A visit of a basic block, and the push of a symbolic path constraint
CovEvents == [kind : {"cov"}, block : Blocks]
PushEvents == [kind : {"push"}, taken : BOOLEAN, site : Nat,
               flips : SUBSET Inputs]

ASSUME ConcolicAssumption ==
  /\ IsFiniteSet(Blocks) /\ Blocks \subseteq Nat \ {0}
  /\ TraceSize \in Nat \ {0}
  /\ Trouble \subseteq {"killed", "torn"}
  /\ Inputs # {}
  /\ DOMAIN Program = Inputs
  /\ \A i \in Inputs : Program[i] \in Seq(CovEvents \cup PushEvents)

\* curr_trace_map of a process that visited the blocks in S
TraceOf(S) == SumSet(S) % TraceSize

\* No block has the ID that another set of blocks sums up to.  The code draws
\* the first ID of every function at random and counts up from there.
ASSUME IDAssumption ==
  \A S \in SUBSET Blocks : TraceOf(S) \in Blocks => S = {TraceOf(S)}

\* The trace of a set of blocks can be kept up to date block by block (proved in
\* GenerationLoopProofs).
SumLaw ==
  /\ TraceOf({}) = 0
  /\ \A S \in SUBSET Blocks : \A b \in Blocks \ S :
       TraceOf(S \cup {b}) = (TraceOf(S) + b) % TraceSize

\* The compiler pass marks every block at its beginning, so that no branch comes
\* before the first mark.
CovFirst ==
  \A i \in Inputs : Program[i] # <<>> => Program[i][1].kind = "cov"

VARIABLES
  history,     \* is SYMCC_PURE_CONCOLIC set?
  disk,        \* the four files
  proc,        \* the state of the process: "down", "running" or "exiting"
  input,       \* the input it runs on
  at,          \* the next event of the program
  loaded,      \* the three flags ..._initialised
  mem,         \* old_counter_map, takens_0, takens_1 and trace_maps
  count,       \* counter_map
  trace,       \* curr_trace_map
  last,        \* just_visited_bb
  sites,       \* site_ids
  blocked,     \* previosuly_blocked_a_save
  written,     \* how many of the files the destructor has written
  outdir,      \* SYMCC_OUTPUT_DIR: the test cases 000000, 000001, ...
  generated,   \* how many of them this process wrote
  \* what happened, for the properties
  own,         \* what this process contributes to the history
  ideal,       \* the contributions of all processes that exited
  mishaps,     \* what befell the history
  seen,        \* the branches, by block and direction, that were reached
  solved       \* those that were handed to the solver

procVars == <<history, disk, proc, input, at, loaded, mem, count, trace, last,
              sites, blocked, written, outdir, generated, own, ideal, mishaps,
              seen, solved>>

\* The four files, in the order the destructor writes them
Files == <<"counters", "zeros", "ones", "traces">>

\* A counter of 0 stands for a key the map does not have.
NoHistory == [counters |-> [b \in Blocks |-> 0],
              zeros |-> {}, ones |-> {}, traces |-> {}]

Higher(f, g) == [b \in Blocks |-> IF g[b] > f[b] THEN g[b] ELSE f[b]]

Merge(h, k) == [counters |-> Higher(h.counters, k.counters),
                zeros    |-> h.zeros \cup k.zeros,
                ones     |-> h.ones \cup k.ones,
                traces   |-> h.traces \cup k.traces]

ProcInit ==
  /\ history \in BOOLEAN
  /\ disk = NoHistory
  /\ proc = "down"
  /\ input = CHOOSE i \in Inputs : TRUE
  /\ at = 1 /\ loaded = FALSE /\ mem = NoHistory
  /\ count = NoHistory.counters /\ trace = 0 /\ last = 0
  /\ sites = {} /\ blocked = FALSE /\ written = 0
  /\ outdir = <<>> /\ generated = 0
  /\ own = NoHistory /\ ideal = NoHistory
  /\ mishaps = {} /\ seen = {} /\ solved = {}

\* A new process: its globals have their initial values.
Start(i) ==
  /\ proc = "down"
  /\ proc' = "running"
  /\ input' = i
  /\ at' = 1 /\ loaded' = FALSE /\ mem' = NoHistory
  /\ count' = NoHistory.counters /\ trace' = 0 /\ last' = 0
  /\ sites' = {} /\ blocked' = FALSE /\ written' = 0
  /\ generated' = 0 /\ own' = NoHistory
  /\ UNCHANGED <<disk, outdir, ideal, mishaps, seen, solved, history>>

-----------------------------------------------------------------------------
Event == Program[input][at]

AtEvent(kind) ==
  /\ proc = "running"
  /\ at <= Len(Program[input])
  /\ Event.kind = kind

\* Every process numbers its test cases from 0 and overwrites.
Save(i) ==
  /\ generated' = generated + 1
  /\ outdir' = IF generated < Len(outdir)
               THEN [outdir EXCEPT ![generated + 1] = i]
               ELSE Append(outdir, i)

SaveNothing == UNCHANGED <<outdir, generated>>

\* Some input that satisfies the current path condition, or none
SavePath ==
  \/ \E i \in Inputs :
       /\ Len(Program[i]) >= at - 1
       /\ SubSeq(Program[i], 1, at - 1) = SubSeq(Program[input], 1, at - 1)
       /\ Save(i)
  \/ SaveNothing

SummedWide(b) == trace + b     \* mutant: no wrap-around

\* curr_trace_map after the first visit of a block
Summed(b) == (trace + b) % TraceSize

\* _symcc_cov_cb
CovCb ==
  /\ AtEvent("cov")
  /\ LET b == Event.block
     IN  /\ count' = [count EXCEPT ![b] = @ + 1]
         /\ trace' = IF count[b] = 0 THEN Summed(b) ELSE trace
         /\ IF count[b] = 0 /\ mem.counters[b] = 0 /\ blocked
            THEN SavePath
            ELSE SaveNothing
         /\ last' = b
         /\ own' = [own EXCEPT !.counters[b] = @ + 1]
  /\ at' = at + 1
  /\ UNCHANGED <<disk, proc, input, loaded, mem, sites, blocked, written,
                 ideal, mishaps, seen, solved, history>>

\* The history once it has been loaded
Loaded == IF loaded THEN mem ELSE disk

SideIgnored(taken) == "zeros"     \* mutant: one list for both directions

\* takens_1 or takens_0
Side(taken) == IF taken THEN "ones" ELSE "zeros"
Marks == {last, trace}

Extended(h, taken) ==
  [h EXCEPT ![Side(taken)] = @ \cup Marks, !.traces = @ \cup {trace}]

AlwaysSave(h) == TRUE     \* mutant: the debugging aid force_check

\* pure_concolic_should_save: a counter went up, the block or the trace is new
\* for this direction, the trace is new, or this site has been saved before.
ShouldSave(h) ==
  \/ \E b \in Blocks : count[b] > h.counters[b]
  \/ ~(Marks \subseteq h[Side(Event.taken)])
  \/ trace \notin h.traces
  \/ Event.site \in sites

\* _sym_push_path_constraint
PushPathConstraint ==
  /\ AtEvent("push")
  /\ LET save == ~history \/ ShouldSave(Loaded)
     IN  /\ IF history
            THEN /\ loaded' = TRUE
                 /\ mem' = Extended(Loaded, Event.taken)
                 /\ sites' = IF save THEN sites \cup {Event.site} ELSE sites
                 /\ blocked' = ~save
                 /\ own' = Extended(own, Event.taken)
            ELSE UNCHANGED <<loaded, mem, sites, blocked, own>>
         /\ \/ save /\ \E i \in Event.flips : Save(i)
            \/ SaveNothing
         /\ seen' = seen \cup {<<last, Event.taken>>}
         /\ solved' = IF save THEN solved \cup {<<last, Event.taken>>} ELSE solved
  /\ at' = at + 1
  /\ UNCHANGED <<disk, proc, input, count, trace, last, written, ideal,
                 mishaps, history>>

\* The program is over: __dtor_runtime first merges the counters.
Exit ==
  /\ proc = "running"
  /\ at > Len(Program[input])
  /\ IF history
     THEN /\ proc' = "exiting"
          /\ mem' = [mem EXCEPT !.counters = Higher(@, count)]
          /\ mishaps' = IF loaded THEN mishaps ELSE mishaps \cup {"pushless"}
     ELSE /\ proc' = "down"
          /\ UNCHANGED <<mem, mishaps>>
  /\ UNCHANGED <<disk, input, at, loaded, count, trace, last, sites, blocked,
                 written, outdir, generated, own, ideal, seen, solved, history>>

\* Mutant: the counters of this run replace the merged ones.
Dumped(f) == IF f = "counters" THEN count ELSE mem[f]

\* What the destructor writes to a file
Contents(f) == mem[f]

\* __dtor_runtime writes the next file.
WriteFile ==
  /\ proc = "exiting"
  /\ LET f == Files[written + 1]
     IN  disk' = [disk EXCEPT ![f] = Contents(f)]
  /\ written' = written + 1
  /\ IF written + 1 = Len(Files)
     THEN proc' = "down" /\ ideal' = Merge(ideal, own)
     ELSE UNCHANGED <<proc, ideal>>
  /\ UNCHANGED <<input, at, loaded, mem, count, trace, last, sites, blocked,
                 outdir, generated, own, mishaps, seen, solved, history>>

Down(m) ==
  /\ m \in Trouble \ mishaps
  /\ proc' = "down"
  /\ mishaps' = mishaps \cup {m}
  /\ UNCHANGED <<input, at, loaded, mem, count, trace, last, sites, blocked,
                 written, outdir, generated, own, ideal, seen, solved, history>>

\* timeout(1) or a crash ends the program: no destructor runs.
Kill ==
  /\ proc = "running"
  /\ Down("killed")
  /\ UNCHANGED disk

\* The process dies before it opens the next file, or while it writes it: then
\* some of the entries remain.
KillWriting ==
  /\ proc = "exiting"
  /\ Down("torn")
  /\ LET f == Files[written + 1]
     IN  \/ UNCHANGED disk
         \/ /\ f = "counters"
            /\ \E S \in SUBSET Blocks :
                 disk' = [disk EXCEPT !.counters =
                            [b \in Blocks |-> IF b \in S THEN mem[f][b] ELSE 0]]
         \/ /\ f # "counters"
            /\ \E S \in SUBSET mem[f] : disk' = [disk EXCEPT ![f] = S]

Progress == CovCb \/ PushPathConstraint \/ Exit \/ WriteFile

\* One process after the other, on any inputs
ProcNext == Progress \/ Kill \/ KillWriting \/ \E i \in Inputs : Start(i)

ProcSpec == ProcInit /\ [][ProcNext]_procVars

-----------------------------------------------------------------------------
IsHistory(h) ==
  /\ DOMAIN h = {"counters", "zeros", "ones", "traces"}
  /\ h.counters \in [Blocks -> Nat]
  /\ \A f \in {"zeros", "ones", "traces"} : \A t \in h[f] : t \in Nat

\* The variables keep their types; curr_trace_map stays within its width.
ProcTypeOK ==
  /\ history \in BOOLEAN
  /\ IsHistory(disk) /\ IsHistory(mem) /\ IsHistory(own) /\ IsHistory(ideal)
  /\ proc \in {"down", "running", "exiting"}
  /\ input \in Inputs
  /\ at \in 1 .. Len(Program[input]) + 1
  /\ last \in Blocks \cup {0} /\ trace \in 0 .. TraceSize - 1
  /\ written \in 0 .. Len(Files)
  /\ generated \in 0 .. Len(outdir)

\* Unless a process exited without having pushed a constraint, or died while
\* it wrote, the files hold exactly what the processes that exited found: the
\* highest counters and all branch and trace marks (__dtor_runtime).
CorpusExact ==
  proc = "down" /\ mishaps \subseteq {"killed"} => disk = ideal

\* Every branch that any process ever reached was, in each direction, given to
\* the solver at least once, whatever was killed, torn or truncated in between
\* ("we must ensure we have a true/false for each previous branch").
BranchesSolved == seen \subseteq solved

\* The branches solved so far, which pure_concolic_should_save goes through,
\* include those of every process that exited; only a torn file loses some.
SolvedRemembered ==
  (loaded /\ proc = "running" /\ "torn" \notin mishaps) =>
    ideal.zeros \subseteq mem.zeros /\ ideal.ones \subseteq mem.ones
=============================================================================
