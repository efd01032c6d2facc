--------------------------- MODULE FuzzHelperProofs ---------------------------
(***************************************************************************)
(* The safety properties of the fuzzing helper, proved for any inputs,     *)
(* test cases, coverage and scores, and for any bounds.                    *)
(*                                                                         *)
(* Two arguments run side by side.  The bitmap: whatever is in the queue   *)
(* has been merged before, so that a test case that is interesting now was *)
(* not covered by an earlier one.  The accounts: an input is chosen only   *)
(* if it is not among the processed files, and joins them when its run is  *)
(* counted.                                                                *)
(***************************************************************************)
EXTENDS FuzzHelper, FiniteSetTheorems, SequenceTheorems, TLAPS

Typed ==
  /\ aflQueue \subseteq Inputs /\ processed \subseteq Inputs
  /\ pc \in {"choose", "run", "tests", "error"}
  /\ input \in Inputs \cup {NoInput}
  /\ pc \in {"run", "tests"} => input \in Inputs
  /\ todo \subseteq Tests /\ bitmap \subseteq Edges
  /\ queue \in Seq(Tests) /\ crashes \in Seq(Tests) /\ hangs \in Seq(Inputs)
  /\ stats \in [total : Nat, failed : Nat]
  /\ runs \in [Inputs -> Nat]

\* The input under test has not been processed, and has been run if its test cases
\* are being looked at.
RunCounts ==
  /\ \A i \in Inputs : runs[i] <= 1
  /\ pc \in {"run", "tests"} => input \notin processed
  /\ pc # "error" =>
       \A i \in Inputs : runs[i] = 1 <=> i \in processed \/ (pc = "tests" /\ i = input)

\* Each processed file is in one of the two counters, and the failed ones in hangs.
StatsCount ==
  /\ IsFiniteSet(processed)
  /\ ToSet(hangs) \subseteq processed
  /\ stats.total + stats.failed = Cardinality(processed)
  /\ stats.failed = Cardinality(ToSet(hangs))

\* A queue that holds a checked test case has been preceded by a map.
LoadedFirst ==
  ~skipShowmap => \A t \in Enqueued : Outcome[t] = "success" => loaded

Accounts == RunCounts /\ StatsCount

Results == BitmapExplained /\ EntriesBringCoverage /\ CrashesArchived /\ LoadedFirst

Inv == Typed /\ Accounts /\ Results

-----------------------------------------------------------------------------
(***************************************************************************)
(* Sequences and coverage                                                  *)
(***************************************************************************)

LEMMA Appended ==
  ASSUME NEW S, NEW s \in Seq(S), NEW e \in S
  PROVE  LET t == Append(s, e)
         IN  /\ t \in Seq(S)
             /\ Len(t) = Len(s) + 1
             /\ t[Len(s) + 1] = e
             /\ \A n \in 1 .. Len(s) : t[n] = s[n]
             /\ {t[n] : n \in 1 .. Len(t)} = {s[n] : n \in 1 .. Len(s)} \cup {e}
             /\ ToSet(t) = ToSet(s) \cup {e}
  <1>. DEFINE t == Append(s, e)
  <1>1. /\ t \in Seq(S) /\ Len(t) = Len(s) + 1 /\ t[Len(s) + 1] = e
        /\ \A n \in 1 .. Len(s) : t[n] = s[n]
        /\ Len(s) \in Nat
    OBVIOUS
  <1>2. DOMAIN t = 1 .. Len(t) /\ DOMAIN s = 1 .. Len(s)
    BY <1>1
  <1>. HIDE DEF t
  <1>3. {t[n] : n \in 1 .. Len(t)} = {s[n] : n \in 1 .. Len(s)} \cup {e}
    <2>1. \A n \in 1 .. Len(t) : n = Len(s) + 1 \/ n \in 1 .. Len(s)
      BY <1>1
    <2>2. 1 .. Len(s) \subseteq 1 .. Len(t) /\ Len(s) + 1 \in 1 .. Len(t)
      BY <1>1
    <2>. QED  BY <2>1, <2>2, <1>1
  <1>4. ToSet(t) = ToSet(s) \cup {e}
    BY <1>2, <1>3 DEF ToSet
  <1>. QED  BY <1>1, <1>3, <1>4 DEF t

LEMMA CovOfGrows ==
  ASSUME NEW A, NEW B, A \subseteq B
  PROVE  CovOf(A) \subseteq CovOf(B)
  BY DEF CovOf

LEMMA CovOfMember ==
  ASSUME NEW A, NEW t \in A
  PROVE  Cov[t] \subseteq CovOf(A)
  BY DEF CovOf

-----------------------------------------------------------------------------
(***************************************************************************)
(* The main loop                                                           *)
(***************************************************************************)

LEMMA Start == Init => Inv
  <1>. SUFFICES ASSUME Init PROVE Inv
    OBVIOUS
  <1>1. Typed
    BY DEF Init, Typed
  <1>2. RunCounts
    BY DEF Init, RunCounts
  <1>3. StatsCount
    <2>1. processed = {} /\ stats.total = 0 /\ stats.failed = 0 /\ ToSet(hangs) = {}
      BY DEF Init, ToSet
    <2>2. Cardinality({}) = 0 /\ IsFiniteSet({})
      BY FS_EmptySet
    <2>. QED  BY <2>1, <2>2 DEF StatsCount
  <1>4. Enqueued = {}
    BY DEF Init, Enqueued
  <1>5. Results
    BY <1>4 DEF Init, Results, BitmapExplained, EntriesBringCoverage, CrashesArchived,
                LoadedFirst
  <1>. QED  BY <1>1, <1>2, <1>3, <1>5 DEF Inv, Accounts

LEMMA SameEntries ==
  ASSUME EntriesBringCoverage, UNCHANGED <<skipShowmap, queue>>
  PROVE  EntriesBringCoverage'
  BY DEF EntriesBringCoverage, CovOf

\* Nothing but ProcessTest touches the results.
LEMMA SameResults ==
  ASSUME Results, UNCHANGED <<skipShowmap, bitmap, loaded, queue, crashes, lost>>
  PROVE  Results'
  <1>1. Enqueued' = Enqueued
    BY DEF Enqueued
  <1>2. BitmapExplained'
    BY <1>1 DEF Results, BitmapExplained, CovOf
  <1>3. EntriesBringCoverage'
    BY SameEntries DEF Results
  <1>4. CrashesArchived' /\ LoadedFirst'
    BY <1>1 DEF Results, CrashesArchived, LoadedFirst
  <1>. QED  BY <1>2, <1>3, <1>4 DEF Results

LEMMA ChooseKeeps ==
  ASSUME Inv, Choose
  PROVE  Inv'
  <1>1. PICK i \in aflQueue \ processed : input' = i
    BY DEF Choose, Unseen
  <1>2. Typed'
    BY <1>1 DEF Inv, Typed, Choose, aflVars, results
  <1>3. RunCounts'
    BY <1>1 DEF Inv, Accounts, RunCounts, Choose
  <1>4. StatsCount'
    BY DEF Inv, Accounts, StatsCount, Choose, results, ToSet
  <1>5. Results'
    BY SameResults DEF Inv, Choose, results
  <1>. QED  BY <1>2, <1>3, <1>4, <1>5 DEF Inv, Accounts

LEMMA RunKeeps ==
  ASSUME Inv, Run
  PROVE  Inv'
  <1>1. /\ pc = "run" /\ pc' = "tests" /\ input \in Inputs /\ input' = input
        /\ runs' = [runs EXCEPT ![input] = @ + 1] /\ runs \in [Inputs -> Nat]
        /\ processed' = processed /\ input \notin processed
    BY DEF Run, Inv, Typed, Accounts, RunCounts
  <1>2. runs[input] = 0
    BY <1>1 DEF Inv, Accounts, RunCounts
  <1>3. runs' \in [Inputs -> Nat] /\ runs'[input] = 1
        /\ \A i \in Inputs \ {input} : runs'[i] = runs[i]
    BY <1>1, <1>2
  <1>4. Typed'
    BY <1>1, <1>3 DEF Inv, Typed, Run, aflVars, results
  <1>5. RunCounts'
    BY <1>1, <1>3 DEF Inv, Accounts, RunCounts
  <1>6. StatsCount'
    BY DEF Inv, Accounts, StatsCount, Run, results, ToSet
  <1>7. Results'
    BY SameResults DEF Inv, Run, results
  <1>. QED  BY <1>4, <1>5, <1>6, <1>7 DEF Inv, Accounts

LEMMA FailKeeps ==
  ASSUME Inv, NEW step, Fail(step)
  PROVE  Inv'
  <1>1. Typed'
    BY DEF Inv, Typed, Fail, aflVars, results
  <1>2. RunCounts'
    BY DEF Inv, Accounts, RunCounts, Fail
  <1>3. StatsCount'
    BY DEF Inv, Accounts, StatsCount, Fail, results, ToSet
  <1>4. Results'
    BY SameResults DEF Inv, Fail, results
  <1>. QED  BY <1>1, <1>2, <1>3, <1>4 DEF Inv, Accounts

LEMMA FinishKeeps ==
  ASSUME Inv, Finish
  PROVE  Inv'
  <1>1. /\ pc = "tests" /\ pc' = "choose" /\ input \in Inputs /\ input \notin processed
        /\ processed' = processed \cup {input} /\ runs' = runs /\ input' = NoInput
    BY DEF Inv, Typed, Accounts, RunCounts, Finish
  <1>2. /\ IsFiniteSet(processed')
        /\ Cardinality(processed') = Cardinality(processed) + 1
    BY <1>1, FS_AddElement DEF Inv, Accounts, StatsCount
  <1>3. /\ hangs' \in Seq(Inputs) /\ stats' \in [total : Nat, failed : Nat]
        /\ ToSet(hangs') \subseteq processed'
        /\ stats'.total + stats'.failed = Cardinality(processed')
        /\ stats'.failed = Cardinality(ToSet(hangs'))
    <2>1. /\ hangs \in Seq(Inputs) /\ stats \in [total : Nat, failed : Nat]
          /\ ToSet(hangs) \subseteq processed
          /\ stats.total + stats.failed = Cardinality(processed)
          /\ stats.failed = Cardinality(ToSet(hangs))
      BY DEF Inv, Typed, Accounts, StatsCount
    <2>2. CASE LooksKilled(status)
      <3>1. hangs' = Append(hangs, input) /\ stats' = [stats EXCEPT !.failed = @ + 1]
        BY <2>2 DEF Finish, CopyWorks, AddExecution
      <3>2. hangs' \in Seq(Inputs) /\ ToSet(hangs') = ToSet(hangs) \cup {input}
        BY <3>1, <2>1, <1>1, Appended
      <3>3. input \notin ToSet(hangs) /\ IsFiniteSet(ToSet(hangs))
        BY <2>1, <1>1, FS_Subset DEF Inv, Accounts, StatsCount
      <3>4. Cardinality(ToSet(hangs')) = Cardinality(ToSet(hangs)) + 1
        BY <3>2, <3>3, FS_AddElement
      <3>5. /\ stats' \in [total : Nat, failed : Nat]
            /\ stats'.total = stats.total /\ stats'.failed = stats.failed + 1
        BY <3>1, <2>1
      <3>6. stats.total \in Nat /\ stats.failed \in Nat
        BY <2>1
      <3>. QED  BY <3>2, <3>4, <3>5, <3>6, <2>1, <1>1, <1>2
    <2>3. CASE ~LooksKilled(status)
      <3>1. hangs' = hangs /\ stats' = [stats EXCEPT !.total = @ + 1]
        BY <2>3 DEF Finish, AddExecution
      <3>2. /\ stats' \in [total : Nat, failed : Nat]
            /\ stats'.total = stats.total + 1 /\ stats'.failed = stats.failed
        BY <3>1, <2>1
      <3>3. stats.total \in Nat /\ stats.failed \in Nat
        BY <2>1
      <3>. QED  BY <3>1, <3>2, <3>3, <2>1, <1>1, <1>2
    <2>. QED  BY <2>2, <2>3
  <1>4. Typed'
    BY <1>1, <1>3 DEF Inv, Typed, Finish, aflVars
  <1>5. RunCounts'
    BY <1>1 DEF Inv, Accounts, RunCounts
  <1>6. StatsCount'
    BY <1>2, <1>3 DEF StatsCount
  <1>7. Results'
    BY SameResults DEF Inv, Finish
  <1>. QED  BY <1>4, <1>5, <1>6, <1>7 DEF Inv, Accounts

-----------------------------------------------------------------------------
(***************************************************************************)
(* One test case                                                           *)
(***************************************************************************)

\* A test case that covers what the bitmap now has is enqueued, or its copy fails.
LEMMA EnqueueType ==
  ASSUME Typed, NEW t \in Tests, Enqueue(t)
  PROVE  /\ queue' \in Seq(Tests)
         /\ \/ queue' = Append(queue, t) /\ lost' = lost
            \/ queue' = queue /\ lost' = lost \cup {t}
         /\ Enqueued \subseteq Enqueued' /\ Enqueued' \subseteq Enqueued \cup {t}
         /\ t \in Enqueued' \cup lost'
         /\ Enqueued \cup lost \subseteq Enqueued' \cup lost'
  <1>1. CASE queue' = Append(queue, t) /\ lost' = lost
    <2>1. queue' \in Seq(Tests) /\ Enqueued' = Enqueued \cup {t}
      BY <1>1, Appended DEF Typed, Enqueued
    <2>. QED  BY <1>1, <2>1
  <1>2. CASE queue' = queue /\ lost' = lost \cup {t}
    BY <1>2 DEF Typed, Enqueued
  <1>. QED  BY <1>1, <1>2 DEF Enqueue, CopyWorks, CopyFails

LEMMA UncheckedKeeps ==
  ASSUME HelperAssumption, Inv, NEW t \in Tests, ProcessUnchecked(t),
         UNCHANGED skipShowmap
  PROVE  /\ queue' \in Seq(Tests) /\ crashes' \in Seq(Tests) /\ bitmap' \subseteq Edges
         /\ Results'
  <1>1. queue' \in Seq(Tests)
    BY EnqueueType DEF ProcessUnchecked, Inv
  <1>2. skipShowmap'
    BY DEF ProcessUnchecked
  <1>. QED
    BY <1>1, <1>2 DEF ProcessUnchecked, Inv, Typed, Results, BitmapExplained,
                      EntriesBringCoverage, CrashesArchived, LoadedFirst

\* A new entry brings coverage if it covers what the checked ones do not.
LEMMA OneMoreEntry ==
  ASSUME EntriesBringCoverage, ~skipShowmap, queue \in Seq(Tests),
         NEW t \in Tests, queue' = Append(queue, t),
         LET checked == {u \in Enqueued : Outcome[u] = "success"}
         IN  Outcome[t] = "success" /\ checked # {} => ~(Cov[t] \subseteq CovOf(checked))
  PROVE  EntriesBringCoverage'
  <1>. DEFINE before(q, n) == {q[m] : m \in {k \in 1 .. n - 1 : Outcome[q[k]] = "success"}}
              checked == {u \in Enqueued : Outcome[u] = "success"}
  <1>. SUFFICES ASSUME NEW n \in 2 .. Len(queue'),
                       Outcome[queue'[n]] = "success", before(queue', n) # {}
                PROVE  ~(Cov[queue'[n]] \subseteq CovOf(before(queue', n)))
    BY DEF EntriesBringCoverage, CovOf
  <1>1. /\ Len(queue) \in Nat /\ Len(queue') = Len(queue) + 1
        /\ queue'[Len(queue) + 1] = t
        /\ \A m \in 1 .. Len(queue) : queue'[m] = queue[m]
    BY Appended
  <1>2. \A m \in 1 .. n - 1 : m \in 1 .. Len(queue) /\ queue'[m] = queue[m]
    BY <1>1
  <1>3. before(queue', n) = before(queue, n)
    BY <1>2
  <1>4. CASE n \in 2 .. Len(queue)
    <2>1. queue'[n] = queue[n]
      BY <1>1, <1>4
    <2>. QED  BY <2>1, <1>3, <1>4 DEF EntriesBringCoverage
  <1>5. CASE n = Len(queue) + 1
    <2>1. queue'[n] = t
      BY <1>1, <1>5
    <2>2. before(queue, n) = checked
      <3>1. n - 1 = Len(queue)
        BY <1>1, <1>5
      <3>. QED  BY <3>1 DEF Enqueued
    <2>. HIDE DEF before, checked
    <2>3. checked # {} /\ Outcome[t] = "success"
      BY <1>3, <2>1, <2>2
    <2>4. ~(Cov[t] \subseteq CovOf(checked))
      BY <2>3 DEF checked
    <2>. QED  BY <1>3, <2>1, <2>2, <2>4
  <1>6. n \in 2 .. Len(queue) \/ n = Len(queue) + 1
    BY <1>1
  <1>. QED  BY <1>4, <1>5, <1>6

LEMMA SuccessKeeps ==
  ASSUME HelperAssumption, Inv, NEW t \in Tests, ProcessSuccess(t),
         UNCHANGED skipShowmap
  PROVE  /\ queue' \in Seq(Tests) /\ crashes' \in Seq(Tests) /\ bitmap' \subseteq Edges
         /\ Results'
  <1>1. /\ ~skipShowmap /\ Outcome[t] = "success" /\ loaded'
        /\ bitmap' = bitmap \cup Cov[t] /\ crashes' = crashes
        /\ crashes \in Seq(Tests) /\ queue \in Seq(Tests) /\ bitmap \subseteq Edges
        /\ Cov[t] \subseteq Edges /\ skipShowmap' = skipShowmap
    BY DEF ProcessSuccess, Merged, Inv, Typed, HelperAssumption
  <1>2. /\ queue' \in Seq(Tests)
        /\ Enqueued \subseteq Enqueued' /\ Enqueued' \subseteq Enqueued \cup {t}
        /\ Enqueued \cup lost \subseteq Enqueued' \cup lost'
    <2>1. CASE Enqueue(t)
      BY <2>1, EnqueueType DEF Inv
    <2>2. CASE UNCHANGED <<queue, lost>>
      BY <2>2, <1>1 DEF Enqueued
    <2>. QED  BY <2>1, <2>2 DEF ProcessSuccess
  <1>3. BitmapExplained'
    <2>1. CovOf(Enqueued \cup lost) \subseteq CovOf(Enqueued' \cup lost')
      BY <1>2, CovOfGrows
    <2>2. bitmap \subseteq CovOf(Enqueued \cup lost)
      BY <1>1 DEF Inv, Results, BitmapExplained
    <2>3. Cov[t] \subseteq CovOf(Enqueued' \cup lost') \cup bitmap
      <3>1. CASE Interesting(t)
        <4>1. t \in Enqueued' \cup lost'
          BY <3>1, EnqueueType DEF ProcessSuccess, Inv
        <4>. QED  BY <4>1, CovOfMember
      <3>2. CASE ~Interesting(t)
        BY <3>2 DEF Interesting
      <3>. QED  BY <3>1, <3>2
    <2>4. CovOf(Enqueued \cup lost)' = CovOf(Enqueued' \cup lost')
      BY DEF CovOf
    <2>5. bitmap' \subseteq CovOf(Enqueued \cup lost)'
      BY <2>1, <2>2, <2>3, <2>4, <1>1
    <2>6. \A u \in Enqueued' : Outcome[u] = "success" => Cov[u] \subseteq bitmap'
      BY <1>1, <1>2 DEF Inv, Results, BitmapExplained
    <2>. QED  BY <2>5, <2>6 DEF BitmapExplained
  <1>4. EntriesBringCoverage'
    <2>1. CASE queue' = queue
      BY <2>1, <1>1, SameEntries DEF Inv, Results
    <2>2. CASE Interesting(t) /\ queue' = Append(queue, t)
      <3>. DEFINE checked == {u \in Enqueued : Outcome[u] = "success"}
      <3>1. checked # {} => loaded
        BY <1>1 DEF Inv, Results, LoadedFirst
      <3>2. \A u \in checked : Cov[u] \subseteq bitmap
        BY <1>1 DEF Inv, Results, BitmapExplained
      <3>. HIDE DEF checked
      <3>3. CovOf(checked) \subseteq bitmap
        BY <3>2 DEF CovOf
      <3>4. loaded => ~(Cov[t] \subseteq bitmap)
        BY <2>2 DEF Interesting
      <3>5. checked # {} => ~(Cov[t] \subseteq CovOf(checked))
        BY <3>1, <3>3, <3>4
      <3>. QED  BY <2>2, <1>1, <3>5, OneMoreEntry DEF Inv, Results, checked
    <2>. QED  BY <2>1, <2>2 DEF ProcessSuccess, Enqueue, CopyWorks, CopyFails
  <1>5. CrashesArchived'
    BY <1>1, <1>2 DEF Inv, Results, CrashesArchived
  <1>6. LoadedFirst'
    BY <1>1 DEF LoadedFirst
  <1>. QED  BY <1>1, <1>2, <1>3, <1>4, <1>5, <1>6 DEF Results

LEMMA CrashKeeps ==
  ASSUME HelperAssumption, Inv, NEW t \in Tests, ProcessCrash(t),
         UNCHANGED skipShowmap
  PROVE  /\ queue' \in Seq(Tests) /\ crashes' \in Seq(Tests) /\ bitmap' \subseteq Edges
         /\ Results'
  <1>1. /\ ~skipShowmap /\ Outcome[t] = "crash" /\ loaded' = loaded /\ bitmap' = bitmap
        /\ crashes \in Seq(Tests) /\ queue \in Seq(Tests) /\ bitmap \subseteq Edges
        /\ skipShowmap' = skipShowmap /\ Outcome[t] # "success"
    BY DEF ProcessCrash, Inv, Typed
  <1>2. /\ queue' \in Seq(Tests)
        /\ queue' = queue \/ queue' = Append(queue, t)
        /\ Enqueued \subseteq Enqueued' /\ Enqueued' \subseteq Enqueued \cup {t}
        /\ Enqueued \cup lost \subseteq Enqueued' \cup lost'
    <2>1. CASE Enqueue(t)
      BY <2>1, EnqueueType DEF Inv
    <2>2. CASE queue' = queue /\ lost' = lost \cup {t}
      BY <2>2, <1>1 DEF Enqueued
    <2>. QED  BY <2>1, <2>2 DEF ProcessCrash
  <1>. DEFINE Archive(s) == {s[n] : n \in 1 .. Len(s)}
  <1>3. /\ crashes' \in Seq(Tests) /\ Archive(crashes) \subseteq Archive(crashes')
        /\ t \in Archive(crashes') \/ queue' = queue
    <2>1. CASE crashes' = Append(crashes, t)
      <3>1. crashes' \in Seq(Tests) /\ Archive(crashes') = Archive(crashes) \cup {t}
        BY <2>1, <1>1, Appended
      <3>. QED  BY <3>1
    <2>2. CASE crashes' = crashes /\ queue' = queue
      BY <2>2, <1>1
    <2>. QED  BY <2>1, <2>2 DEF ProcessCrash, CopyWorks, CopyFails
  <1>4. BitmapExplained'
    <2>1. CovOf(Enqueued \cup lost) \subseteq CovOf(Enqueued' \cup lost')
      BY <1>2, CovOfGrows
    <2>2. CovOf(Enqueued \cup lost)' = CovOf(Enqueued' \cup lost')
      BY DEF CovOf
    <2>. QED  BY <2>1, <2>2, <1>1, <1>2 DEF Inv, Results, BitmapExplained
  <1>5. EntriesBringCoverage'
    <2>1. CASE queue' = queue
      BY <2>1, <1>1, SameEntries DEF Inv, Results
    <2>2. CASE queue' = Append(queue, t)
      BY <2>2, <1>1, OneMoreEntry DEF Inv, Results
    <2>. QED  BY <2>1, <2>2, <1>2
  <1>6. CrashesArchived'
    <2>. SUFFICES ASSUME NEW u \in Enqueued', Outcome[u] = "crash"
                  PROVE  u \in Archive(crashes')
      BY DEF CrashesArchived
    <2>1. CASE u \in Enqueued
      <3>1. u \in Archive(crashes)
        BY <2>1, <1>1 DEF Inv, Results, CrashesArchived
      <3>. QED  BY <3>1, <1>3
    <2>2. CASE u = t /\ queue' # queue
      BY <2>2, <1>3
    <2>. QED  BY <2>1, <2>2, <1>2 DEF Enqueued
  <1>7. LoadedFirst'
    BY <1>1, <1>2 DEF Inv, Results, LoadedFirst
  <1>. QED  BY <1>1, <1>2, <1>3, <1>4, <1>5, <1>6, <1>7 DEF Results

LEMMA ProcessTestKeeps ==
  ASSUME HelperAssumption, Inv, ProcessTest
  PROVE  Inv'
  <1>1. PICK t \in Tests :
          /\ todo' = todo \ {t}
          /\ \/ ProcessUnchecked(t) \/ ProcessSuccess(t) \/ ProcessHang(t)
             \/ ProcessCrash(t) \/ ProcessError(t)
    BY DEF ProcessTest, Inv, Typed
  <1>2. /\ queue' \in Seq(Tests) /\ crashes' \in Seq(Tests) /\ bitmap' \subseteq Edges
        /\ Results'
        /\ hangs' = hangs
    <2>0. skipShowmap' = skipShowmap
      BY DEF ProcessTest
    <2>1. CASE ProcessUnchecked(t)
      BY <2>0, <2>1, UncheckedKeeps DEF ProcessUnchecked
    <2>2. CASE ProcessSuccess(t)
      BY <2>0, <2>2, SuccessKeeps DEF ProcessSuccess
    <2>3. CASE ProcessCrash(t)
      BY <2>0, <2>3, CrashKeeps DEF ProcessCrash
    <2>4. CASE UNCHANGED results
      BY <2>0, <2>4, SameResults DEF results, Inv, Typed
    <2>. QED  BY <1>1, <2>1, <2>2, <2>3, <2>4 DEF ProcessHang, ProcessError
  <1>3. Typed'
    BY <1>1, <1>2 DEF Inv, Typed, ProcessTest, aflVars
  <1>4. RunCounts'
    BY DEF Inv, Accounts, RunCounts, ProcessTest
  <1>5. StatsCount'
    BY <1>2 DEF Inv, Accounts, StatsCount, ProcessTest, ToSet
  <1>. QED  BY <1>2, <1>3, <1>4, <1>5 DEF Inv, Accounts

-----------------------------------------------------------------------------
(***************************************************************************)
(* The theorems                                                            *)
(***************************************************************************)

\* What AFL does concerns the helper only when it chooses.
LEMMA AflKeeps ==
  ASSUME Inv, aflQueue' \subseteq Inputs,
         UNCHANGED <<skipShowmap, processed, pc, input, status, todo, results, stats, runs>>
  PROVE  Inv'
  <1>1. Typed'
    BY DEF Inv, Typed, results
  <1>2. RunCounts' /\ StatsCount'
    BY DEF Inv, Accounts, RunCounts, StatsCount, results, ToSet
  <1>3. Results'
    BY SameResults DEF Inv, results
  <1>. QED  BY <1>1, <1>2, <1>3 DEF Inv, Accounts

LEMMA Step ==
  ASSUME HelperAssumption, Inv, [Next]_vars
  PROVE  Inv'
  <1>1. ASSUME NEW i \in Inputs, AflAdds(i) PROVE Inv'
    <2>1. aflQueue' \subseteq Inputs
      BY <1>1 DEF AflAdds, Inv, Typed
    <2>. QED  BY <1>1, <2>1, AflKeeps DEF AflAdds
  <1>2. ASSUME NEW i \in Inputs, AflRemoves(i) PROVE Inv'
    <2>1. aflQueue' \subseteq Inputs
      BY <1>2 DEF AflRemoves, Inv, Typed
    <2>. QED  BY <1>2, <2>1, AflKeeps DEF AflRemoves
  <1>3. CASE Choose
    BY <1>3, ChooseKeeps
  <1>4. CASE Run
    BY <1>4, RunKeeps
  <1>5. CASE Fail("run") \/ Fail("choose") \/ Panic \/ FinishFails
    BY <1>5, FailKeeps DEF Panic, FinishFails
  <1>6. CASE ProcessTest
    BY <1>6, ProcessTestKeeps
  <1>7. CASE Finish
    BY <1>7, FinishKeeps
  <1>8. CASE UNCHANGED vars
    <2>1. aflQueue' \subseteq Inputs
      BY <1>8 DEF vars, Inv, Typed
    <2>. QED  BY <1>8, <2>1, AflKeeps DEF vars, results
  <1>. QED
    BY <1>1, <1>2, <1>3, <1>4, <1>5, <1>6, <1>7, <1>8 DEF Next, Helper

\* The invariant: accounts and results (main, test_input, process_new_testcase).
THEOREM Invariance == Spec => []Inv
  <1>1. Inv /\ [Next]_vars => Inv'
    BY Step, HelperAssumption
  <1>. QED  BY <1>1, Start, PTL DEF Spec

\* The variables keep their types (State, Stats, AflMap).
THEOREM TypeCorrect == Spec => []TypeOK
  <1>1. Inv => TypeOK
    BY DEF Inv, Typed, TypeOK, Enqueued
  <1>. QED  BY <1>1, Invariance, PTL

\* The bitmap holds the coverage of checked test cases, of all in the queue and of none
\* but those that are there or whose copy failed (AflMap::merge, process_new_testcase).
THEOREM BitmapsExplained == Spec => []BitmapExplained
  <1>1. Inv => BitmapExplained
    BY DEF Inv, Results
  <1>. QED  BY <1>1, Invariance, PTL

\* A checked test case is enqueued only for an edge that none before it covers
\* (is_interesting as merge returns it).
THEOREM EntriesAreNew == Spec => []EntriesBringCoverage
  <1>1. Inv => EntriesBringCoverage
    BY DEF Inv, Results
  <1>. QED  BY <1>1, Invariance, PTL

\* AFL imports no crashing test case that was not archived before
\* (process_new_testcase).
THEOREM CrashesStayArchived == Spec => []CrashesArchived
  <1>1. Inv => CrashesArchived
    BY DEF Inv, Results
  <1>. QED  BY <1>1, Invariance, PTL

\* SymCC runs at most once on an input, whatever AFL adds or removes meanwhile
\* (best_new_testcase, processed_files).
THEOREM RunsOnce == Spec => []RunOnce
  <1>1. Inv => RunOnce
    BY DEF Inv, Accounts, RunCounts, RunOnce
  <1>. QED  BY <1>1, Invariance, PTL

\* Every run is in one of the two counters, every failed one in hangs
\* (Stats::add_execution, test_input).
THEOREM StatsStayInAgreement == Spec => []StatsAgree
  <1>1. Inv => StatsAgree
    BY DEF Inv, Accounts, RunCounts, StatsCount, StatsAgree
  <1>. QED  BY <1>1, Invariance, PTL
=============================================================================
