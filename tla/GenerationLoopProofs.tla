------------------------- MODULE GenerationLoopProofs -------------------------
(***************************************************************************)
(* The processes' history files are exact, by themselves and under the     *)
(* generation scripts, and the scripts lose no test case, for any program, *)
(* any blocks, any number of users' files and any outcome of the processes *)
(* (the theorems about ProcSpec are those of PureConcolic alone).          *)
(***************************************************************************)
EXTENDS GenerationLoop, FiniteSetTheorems, WellFoundedInduction, SequenceTheorems, TLAPS

-----------------------------------------------------------------------------
(***************************************************************************)
(* The history files hold exactly what the processes that exited found,    *)
(* killed ones included.                                                   *)
(*                                                                         *)
(* While a process runs, its copy of the history is the files' contents    *)
(* and its own contribution, apart from the counters, which the destructor *)
(* merges; while the destructor runs, each file is either as it was or as  *)
(* it will be.                                                             *)
(***************************************************************************)

Marked == SUBSET Nat
Histories == [counters : [Blocks -> Nat], zeros : Marked, ones : Marked, traces : Marked]

Typed ==
  /\ history \in BOOLEAN /\ loaded \in BOOLEAN
  /\ proc \in {"down", "running", "exiting"}
  /\ disk \in Histories /\ mem \in Histories /\ own \in Histories /\ ideal \in Histories
  /\ count \in [Blocks -> Nat]
  /\ input \in Inputs
  /\ at \in 1 .. Len(Program[input]) + 1
  /\ last \in Blocks \cup {0} /\ trace \in 0 .. TraceSize - 1
  /\ written \in 0 .. 4 /\ (proc = "exiting" => written \in 0 .. 3)
  /\ proc = "running" => written = 0
  /\ outdir \in Seq(Inputs) /\ generated \in 0 .. Len(outdir)

\* The copy of a running process
Copied ==
  IF loaded
  THEN /\ mem.counters = ideal.counters
       /\ mem.zeros = ideal.zeros \cup own.zeros
       /\ mem.ones = ideal.ones \cup own.ones
       /\ mem.traces = ideal.traces \cup own.traces
  ELSE own.zeros = {} /\ own.ones = {} /\ own.traces = {}

\* The files while the destructor runs, and what it writes
PartlyWritten ==
  /\ mem.counters = Higher(ideal.counters, own.counters)
  /\ mem.zeros = ideal.zeros \cup own.zeros
  /\ mem.ones = ideal.ones \cup own.ones
  /\ mem.traces = ideal.traces \cup own.traces
  /\ disk.counters = IF written > 0 THEN mem.counters ELSE ideal.counters
  /\ disk.zeros = IF written > 1 THEN mem.zeros ELSE ideal.zeros
  /\ disk.ones = IF written > 2 THEN mem.ones ELSE ideal.ones
  /\ disk.traces = ideal.traces

Kept ==
  /\ proc # "exiting" => disk = ideal
  /\ proc # "down" => own.counters = count
  /\ proc = "running" /\ history => Copied
  /\ proc = "exiting" => PartlyWritten

\* All is well until a process tears a file or forgets the history.
Exact == mishaps \subseteq {"killed"} => Kept

Inv == Typed /\ Exact

-----------------------------------------------------------------------------
(***************************************************************************)
(* Histories                                                               *)
(***************************************************************************)

LEMMA SameHistory ==
  ASSUME NEW h \in Histories, NEW k \in Histories,
         h.counters = k.counters, h.zeros = k.zeros, h.ones = k.ones, h.traces = k.traces
  PROVE  h = k
  BY DEF Histories

LEMMA Fields ==
  ASSUME NEW h \in Histories
  PROVE  /\ h.counters \in [Blocks -> Nat]
         /\ h.zeros \subseteq Nat /\ h.ones \subseteq Nat /\ h.traces \subseteq Nat
  BY DEF Histories, Marked

LEMMA HistoryType ==
  ASSUME NEW c \in [Blocks -> Nat], NEW z, NEW o, NEW t,
         z \subseteq Nat, o \subseteq Nat, t \subseteq Nat
  PROVE  [counters |-> c, zeros |-> z, ones |-> o, traces |-> t] \in Histories
  BY DEF Histories, Marked

LEMMA EmptyHistory ==
  /\ NoHistory \in Histories
  /\ NoHistory.counters \in [Blocks -> Nat]
  /\ NoHistory.zeros = {} /\ NoHistory.ones = {} /\ NoHistory.traces = {}
  <1>1. [b \in Blocks |-> 0] \in [Blocks -> Nat]
    OBVIOUS
  <1>. QED  BY <1>1, HistoryType DEF NoHistory

LEMMA HigherType ==
  ASSUME NEW f \in [Blocks -> Nat], NEW g \in [Blocks -> Nat]
  PROVE  Higher(f, g) \in [Blocks -> Nat]
  BY DEF Higher

LEMMA MergeType ==
  ASSUME NEW h \in Histories, NEW k \in Histories
  PROVE  /\ Merge(h, k) \in Histories
         /\ Merge(h, k).counters = Higher(h.counters, k.counters)
         /\ Merge(h, k).zeros = h.zeros \cup k.zeros
         /\ Merge(h, k).ones = h.ones \cup k.ones
         /\ Merge(h, k).traces = h.traces \cup k.traces
  <1>1. /\ Higher(h.counters, k.counters) \in [Blocks -> Nat]
        /\ h.zeros \cup k.zeros \subseteq Nat /\ h.ones \cup k.ones \subseteq Nat
        /\ h.traces \cup k.traces \subseteq Nat
    BY Fields, HigherType
  <1>2. Merge(h, k) \in Histories
    BY <1>1, HistoryType DEF Merge
  <1>. QED  BY <1>2 DEF Merge

LEMMA ExtendedType ==
  ASSUME NEW h \in Histories, NEW taken \in BOOLEAN, last \in Nat, trace \in Nat
  PROVE  /\ Extended(h, taken) \in Histories
         /\ Extended(h, taken).counters = h.counters
         /\ Extended(h, taken).zeros = IF taken THEN h.zeros ELSE h.zeros \cup Marks
         /\ Extended(h, taken).ones = IF taken THEN h.ones \cup Marks ELSE h.ones
         /\ Extended(h, taken).traces = h.traces \cup {trace}
  <1>1. Marks \subseteq Nat /\ {trace} \subseteq Nat
    BY DEF Marks
  <1>2. /\ h = [counters |-> h.counters, zeros |-> h.zeros, ones |-> h.ones,
                traces |-> h.traces]
        /\ h.counters \in [Blocks -> Nat]
    BY Fields DEF Histories
  <1>3. CASE taken
    <2>1. Extended(h, taken) = [h EXCEPT !.ones = @ \cup Marks, !.traces = @ \cup {trace}]
      BY <1>3 DEF Extended, Side
    <2>2. Extended(h, taken) = [counters |-> h.counters, zeros |-> h.zeros,
                                ones |-> h.ones \cup Marks, traces |-> h.traces \cup {trace}]
      BY <1>2, <2>1
    <2>3. Extended(h, taken) \in Histories
      BY <1>1, <1>2, <2>2, Fields, HistoryType
    <2>4. PICK e : e = Extended(h, taken)
      OBVIOUS
    <2>5. /\ e.counters = h.counters /\ e.zeros = h.zeros
          /\ e.ones = h.ones \cup Marks /\ e.traces = h.traces \cup {trace}
      BY <2>2, <2>4
    <2>. QED  BY <1>3, <2>3, <2>4, <2>5
  <1>4. CASE ~taken
    <2>1. Extended(h, taken) = [h EXCEPT !.zeros = @ \cup Marks, !.traces = @ \cup {trace}]
      BY <1>4 DEF Extended, Side
    <2>2. Extended(h, taken) = [counters |-> h.counters, zeros |-> h.zeros \cup Marks,
                                ones |-> h.ones, traces |-> h.traces \cup {trace}]
      BY <1>2, <2>1
    <2>3. Extended(h, taken) \in Histories
      BY <1>1, <1>2, <2>2, Fields, HistoryType
    <2>4. PICK e : e = Extended(h, taken)
      OBVIOUS
    <2>5. /\ e.counters = h.counters /\ e.zeros = h.zeros \cup Marks
          /\ e.ones = h.ones /\ e.traces = h.traces \cup {trace}
      BY <2>2, <2>4
    <2>. QED  BY <1>4, <2>3, <2>4, <2>5
  <1>. QED  BY <1>3, <1>4

-----------------------------------------------------------------------------
(***************************************************************************)
(* Events and test cases                                                   *)
(***************************************************************************)

LEMMA EventType ==
  ASSUME ConcolicAssumption, Typed, NEW kind, AtEvent(kind)
  PROVE  /\ at + 1 \in 1 .. Len(Program[input]) + 1
         /\ kind = "cov" => Event.block \in Blocks
         /\ kind = "push" => Event.taken \in BOOLEAN /\ Event.flips \subseteq Inputs
  <1>1. Program[input] \in Seq(CovEvents \cup PushEvents)
    BY DEF ConcolicAssumption, Typed
  <1>2. at \in 1 .. Len(Program[input])
    BY <1>1 DEF Typed, AtEvent
  <1>3. Event \in CovEvents \cup PushEvents
    BY <1>1, <1>2 DEF Event
  <1>4. Event.kind = kind
    BY DEF AtEvent
  <1>5. kind = "cov" => Event \in CovEvents
    BY <1>3, <1>4 DEF PushEvents
  <1>6. kind = "push" => Event \in PushEvents
    BY <1>3, <1>4 DEF CovEvents
  <1>7. kind = "cov" => Event.block \in Blocks
    BY <1>5 DEF CovEvents
  <1>8. kind = "push" => Event.taken \in BOOLEAN /\ Event.flips \subseteq Inputs
    BY <1>6 DEF PushEvents
  <1>9. at + 1 \in 1 .. Len(Program[input]) + 1
    BY <1>1, <1>2
  <1>. QED  BY <1>7, <1>8, <1>9

Outputs == outdir \in Seq(Inputs) /\ generated \in 0 .. Len(outdir)

LEMMA SaveType ==
  ASSUME Outputs, NEW i \in Inputs, Save(i)
  PROVE  Outputs'
  <1>1. CASE generated < Len(outdir)
    <2>1. outdir' = [outdir EXCEPT ![generated + 1] = i] /\ generated' = generated + 1
      BY <1>1 DEF Save
    <2>2. outdir \in Seq(Inputs) /\ generated + 1 \in 1 .. Len(outdir)
      BY <1>1 DEF Outputs
    <2>3. /\ [outdir EXCEPT ![generated + 1] = i] \in Seq(Inputs)
          /\ Len([outdir EXCEPT ![generated + 1] = i]) = Len(outdir)
      BY <2>2, ExceptSeq
    <2>. QED  BY <1>1, <2>1, <2>2, <2>3 DEF Outputs
  <1>2. CASE ~(generated < Len(outdir))
    <2>1. outdir' = Append(outdir, i) /\ generated' = generated + 1
      BY <1>2 DEF Save
    <2>2. outdir' \in Seq(Inputs) /\ Len(outdir') = Len(outdir) + 1
      BY <2>1 DEF Outputs
    <2>. QED  BY <1>2, <2>1, <2>2 DEF Outputs
  <1>. QED  BY <1>1, <1>2

LEMMA SaveNothingType ==
  ASSUME Outputs, SaveNothing
  PROVE  Outputs'
  BY DEF Outputs, SaveNothing

-----------------------------------------------------------------------------
(***************************************************************************)
(* The actions                                                             *)
(***************************************************************************)

LEMMA InitInv ==
  ASSUME ConcolicAssumption, ProcInit
  PROVE  Inv
  <1>1. input \in Inputs /\ at \in 1 .. Len(Program[input]) + 1
    <2>1. input \in Inputs
      BY DEF ConcolicAssumption, ProcInit
    <2>2. Program[input] \in Seq(CovEvents \cup PushEvents)
      BY <2>1 DEF ConcolicAssumption
    <2>3. at = 1
      BY DEF ProcInit
    <2>. QED  BY <2>1, <2>2, <2>3
  <1>2. 0 \in 0 .. TraceSize - 1
    BY DEF ConcolicAssumption
  <1>3. outdir \in Seq(Inputs) /\ generated \in 0 .. Len(outdir)
    BY DEF ProcInit
  <1>4. Typed
    <2>1. disk = NoHistory /\ mem = NoHistory /\ own = NoHistory /\ ideal = NoHistory
          /\ count = NoHistory.counters
      BY DEF ProcInit
    <2>2. /\ history \in BOOLEAN /\ proc = "down" /\ loaded \in BOOLEAN
          /\ last = 0 /\ trace = 0 /\ written = 0
      BY DEF ProcInit
    <2>3. /\ disk \in Histories /\ mem \in Histories /\ own \in Histories
          /\ ideal \in Histories /\ count \in [Blocks -> Nat]
      BY <2>1, EmptyHistory
    <2>. QED  BY <1>1, <1>2, <1>3, <2>2, <2>3 DEF Typed
  <1>5. Exact
    BY DEF ProcInit, Exact, Kept
  <1>. QED  BY <1>4, <1>5 DEF Inv

LEMMA StartInv ==
  ASSUME ConcolicAssumption, Inv, NEW i \in Inputs, Start(i)
  PROVE  Inv'
  <1>1. Typed /\ Exact
    BY DEF Inv
  <1>2. input' \in Inputs /\ at' \in 1 .. Len(Program[input']) + 1
    <2>1. Program[i] \in Seq(CovEvents \cup PushEvents)
      BY DEF ConcolicAssumption
    <2>2. input' = i /\ at' = 1
      BY DEF Start
    <2>. QED  BY <2>1, <2>2
  <1>3. 0 \in 0 .. TraceSize - 1
    BY DEF ConcolicAssumption
  <1>4. outdir' \in Seq(Inputs) /\ generated' \in 0 .. Len(outdir')
    BY <1>1 DEF Typed, Start
  <1>5. Typed'
    <2>1. UNCHANGED <<history, disk, ideal>> /\ proc' = "running"
      BY DEF Start
    <2>2. mem' = NoHistory /\ own' = NoHistory /\ count' = NoHistory.counters
      BY DEF Start
    <2>3. loaded' \in BOOLEAN /\ last' = 0 /\ trace' = 0 /\ written' = 0
      BY DEF Start
    <2>4. mem' \in Histories /\ own' \in Histories /\ count' \in [Blocks -> Nat]
      BY <2>2, EmptyHistory
    <2>. QED  BY <1>1, <1>2, <1>3, <1>4, <2>1, <2>3, <2>4 DEF Typed
  <1>6. Exact'
    BY <1>1, EmptyHistory DEF Start, Exact, Kept, Copied
  <1>. QED  BY <1>5, <1>6 DEF Inv

LEMMA CovCbInv ==
  ASSUME ConcolicAssumption, Inv, CovCb
  PROVE  Inv'
  <1>1. Typed /\ Exact /\ AtEvent("cov")
    BY DEF Inv, CovCb
  <1>2. Event.block \in Blocks /\ at' \in 1 .. Len(Program[input]) + 1
    BY <1>1, EventType DEF CovCb
  <1>3. PICK b \in Blocks : b = Event.block
    BY <1>2
  <1>4. count' = [count EXCEPT ![b] = @ + 1] /\ own' = [own EXCEPT !.counters[b] = @ + 1]
    BY <1>3 DEF CovCb
  <1>5. /\ own'.counters = [own.counters EXCEPT ![b] = @ + 1]
        /\ own'.zeros = own.zeros /\ own'.ones = own.ones /\ own'.traces = own.traces
        /\ own' = [counters |-> [own.counters EXCEPT ![b] = @ + 1],
                   zeros |-> own.zeros, ones |-> own.ones, traces |-> own.traces]
    BY <1>1, <1>4 DEF Typed, Histories
  <1>6. own.counters \in [Blocks -> Nat] /\ own.zeros \subseteq Nat
        /\ own.ones \subseteq Nat /\ own.traces \subseteq Nat
    BY <1>1, Fields DEF Typed
  <1>7. [own.counters EXCEPT ![b] = @ + 1] \in [Blocks -> Nat]
    BY <1>6
  <1>8. own' \in Histories
    BY <1>5, <1>6, <1>7, HistoryType
  <1>9. count' \in [Blocks -> Nat]
    BY <1>1, <1>4 DEF Typed
  <1>10. b \in Nat /\ TraceSize \in Nat \ {0}
    BY DEF ConcolicAssumption
  <1>11. trace' \in 0 .. TraceSize - 1
    <2>1. trace \in 0 .. TraceSize - 1
      BY <1>1 DEF Typed
    <2>2. trace' = trace \/ trace' = (trace + b) % TraceSize
      BY <1>3 DEF CovCb, Summed
    <2>3. (trace + b) % TraceSize \in 0 .. TraceSize - 1
      BY <1>10, <2>1
    <2>. QED  BY <2>1, <2>2, <2>3
  <1>12. Outputs'
    <2>1. Outputs
      BY <1>1 DEF Typed, Outputs
    <2>2. SavePath \/ SaveNothing
      BY DEF CovCb
    <2>. QED  BY <2>1, <2>2, SaveType, SaveNothingType DEF SavePath
  <1>13. last' \in Blocks \cup {0}
    BY <1>2 DEF CovCb
  <1>14. Typed'
    BY <1>1, <1>2, <1>8, <1>9, <1>11, <1>12, <1>13 DEF CovCb, Typed, Outputs
  <1>15. UNCHANGED <<history, proc, disk, ideal, mem, loaded, mishaps>> /\ proc = "running"
    BY DEF CovCb, AtEvent
  <1>16. Exact'
    BY <1>1, <1>4, <1>5, <1>15 DEF Exact, Kept, Copied
  <1>. QED  BY <1>14, <1>16 DEF Inv

LEMMA PushInv ==
  ASSUME ConcolicAssumption, Inv, PushPathConstraint
  PROVE  Inv'
  <1>1. Typed /\ Exact /\ AtEvent("push")
    BY DEF Inv, PushPathConstraint
  <1>2. /\ Event.taken \in BOOLEAN /\ Event.flips \subseteq Inputs
        /\ at' \in 1 .. Len(Program[input]) + 1
    BY <1>1, EventType DEF PushPathConstraint
  <1>3. Outputs'
    <2>1. Outputs
      BY <1>1 DEF Typed, Outputs
    <2>2. (\E i \in Event.flips : Save(i)) \/ SaveNothing
      BY DEF PushPathConstraint
    <2>. QED  BY <1>2, <2>1, <2>2, SaveType, SaveNothingType
  <1>4. last \in Nat /\ trace \in Nat
    BY <1>1 DEF Typed, ConcolicAssumption
  <1>5. /\ UNCHANGED <<disk, proc, input, count, trace, last, written, ideal,
                       mishaps, history>>
        /\ proc = "running"
    BY DEF PushPathConstraint, AtEvent
  <1>6. CASE ~history
    <2>1. UNCHANGED <<loaded, mem, own>>
      BY <1>6 DEF PushPathConstraint
    <2>2. Typed'
      BY <1>1, <1>2, <1>3, <1>5, <2>1 DEF Typed, Outputs
    <2>3. Exact'
      BY <1>1, <1>5, <1>6, <2>1 DEF Exact, Kept
    <2>. QED  BY <2>2, <2>3 DEF Inv
  <1>7. CASE history
    <2>1. PICK t \in BOOLEAN : t = Event.taken
      BY <1>2
    <2>2. /\ loaded' = TRUE
          /\ mem' = Extended(Loaded, t)
          /\ own' = Extended(own, t)
      BY <1>7, <2>1 DEF PushPathConstraint
    <2>3. Loaded \in Histories /\ own \in Histories
      BY <1>1 DEF Typed, Loaded
    <2>4. /\ mem' \in Histories
          /\ mem'.counters = Loaded.counters
          /\ mem'.zeros = IF t THEN Loaded.zeros ELSE Loaded.zeros \cup Marks
          /\ mem'.ones = IF t THEN Loaded.ones \cup Marks ELSE Loaded.ones
          /\ mem'.traces = Loaded.traces \cup {trace}
      BY <1>4, <2>2, <2>3, ExtendedType
    <2>5. /\ own' \in Histories
          /\ own'.counters = own.counters
          /\ own'.zeros = IF t THEN own.zeros ELSE own.zeros \cup Marks
          /\ own'.ones = IF t THEN own.ones \cup Marks ELSE own.ones
          /\ own'.traces = own.traces \cup {trace}
      BY <1>4, <2>2, <2>3, ExtendedType
    <2>6. Typed'
      BY <1>1, <1>2, <1>3, <1>5, <2>2, <2>4, <2>5 DEF Typed, Outputs
    <2>7. ASSUME Kept PROVE Kept'
      <3>1. Copied /\ disk = ideal /\ own.counters = count
        BY <1>5, <1>7, <2>7 DEF Kept
      <3>2. /\ Loaded.counters = ideal.counters
            /\ Loaded.zeros \cup own.zeros = ideal.zeros \cup own.zeros
            /\ Loaded.ones \cup own.ones = ideal.ones \cup own.ones
            /\ Loaded.traces \cup own.traces = ideal.traces \cup own.traces
            /\ own.zeros \subseteq Loaded.zeros /\ own.ones \subseteq Loaded.ones
            /\ own.traces \subseteq Loaded.traces
        <4>1. CASE loaded
          BY <3>1, <4>1 DEF Loaded, Copied
        <4>2. CASE ~loaded
          BY <3>1, <4>2 DEF Loaded, Copied
        <4>. QED  BY <4>1, <4>2
      <3>3. /\ mem'.counters = ideal.counters
            /\ mem'.zeros = ideal.zeros \cup own'.zeros
            /\ mem'.ones = ideal.ones \cup own'.ones
            /\ mem'.traces = ideal.traces \cup own'.traces
        BY <2>4, <2>5, <3>2
      <3>4. Copied'
        BY <1>5, <2>2, <3>3 DEF Copied
      <3>. QED  BY <1>5, <2>5, <3>1, <3>4 DEF Kept
    <2>8. Exact'
      BY <1>1, <1>5, <2>7 DEF Exact
    <2>. QED  BY <2>6, <2>8 DEF Inv
  <1>. QED  BY <1>6, <1>7

LEMMA ExitInv ==
  ASSUME ConcolicAssumption, Inv, Exit
  PROVE  Inv'
  <1>1. Typed /\ Exact
    BY DEF Inv
  <1>2. /\ UNCHANGED <<disk, input, at, loaded, count, trace, last, written,
                       outdir, generated, own, ideal, history>>
        /\ proc = "running" /\ written = 0
    BY <1>1 DEF Exit, Typed
  <1>3. CASE ~history
    <2>1. proc' = "down" /\ UNCHANGED <<mem, mishaps>>
      BY <1>3 DEF Exit
    <2>2. Typed'
      BY <1>1, <1>2, <2>1 DEF Typed
    <2>3. Exact'
      BY <1>1, <1>2, <2>1 DEF Exact, Kept
    <2>. QED  BY <2>2, <2>3 DEF Inv
  <1>4. CASE history
    <2>1. /\ proc' = "exiting"
          /\ mem' = [mem EXCEPT !.counters = Higher(@, count)]
          /\ mishaps' = IF loaded THEN mishaps ELSE mishaps \cup {"pushless"}
      BY <1>4 DEF Exit
    <2>2. /\ mem.counters \in [Blocks -> Nat] /\ mem.zeros \subseteq Nat
          /\ mem.ones \subseteq Nat /\ mem.traces \subseteq Nat
      BY <1>1, Fields DEF Typed
    <2>3. mem' = [counters |-> Higher(mem.counters, count), zeros |-> mem.zeros,
                  ones |-> mem.ones, traces |-> mem.traces]
      BY <1>1, <2>1 DEF Typed, Histories
    <2>4. Higher(mem.counters, count) \in [Blocks -> Nat]
      BY <1>1, <2>2, HigherType DEF Typed
    <2>5. mem' \in Histories
      BY <2>2, <2>3, <2>4, HistoryType
    <2>6. Typed'
      BY <1>1, <1>2, <2>1, <2>5 DEF Typed
    <2>7. ASSUME mishaps' \subseteq {"killed"} PROVE Kept'
      <3>1. loaded /\ mishaps \subseteq {"killed"}
        BY <2>1, <2>7
      <3>2. Copied /\ disk = ideal /\ own.counters = count
        BY <1>1, <1>2, <1>4, <3>1 DEF Exact, Kept
      <3>3. /\ mem'.counters = Higher(ideal.counters, own.counters)
            /\ mem'.zeros = ideal.zeros \cup own.zeros
            /\ mem'.ones = ideal.ones \cup own.ones
            /\ mem'.traces = ideal.traces \cup own.traces
        BY <2>3, <3>1, <3>2 DEF Copied
      <3>4. PartlyWritten'
        BY <1>2, <3>2, <3>3 DEF PartlyWritten, Higher
      <3>. QED  BY <1>2, <2>1, <3>2, <3>4 DEF Kept
    <2>8. Exact'
      BY <2>7 DEF Exact
    <2>. QED  BY <2>6, <2>8 DEF Inv
  <1>. QED  BY <1>3, <1>4

LEMMA WritingOrder ==
  /\ Len(Files) = 4
  /\ Files[0 + 1] = "counters" /\ Files[1 + 1] = "zeros"
  /\ Files[2 + 1] = "ones" /\ Files[3 + 1] = "traces"
  BY DEF Files

LEMMA WriteFileInv ==
  ASSUME ConcolicAssumption, Inv, WriteFile
  PROVE  Inv'
  <1>1. Typed /\ Exact
    BY DEF Inv
  <1>2. /\ UNCHANGED <<input, at, loaded, mem, count, trace, last, outdir,
                       generated, own, mishaps, history>>
        /\ proc = "exiting" /\ written \in 0 .. 3 /\ written' = written + 1
    BY <1>1 DEF WriteFile, Typed
  <1>3. /\ disk.counters \in [Blocks -> Nat] /\ disk.zeros \subseteq Nat
        /\ disk.ones \subseteq Nat /\ disk.traces \subseteq Nat
        /\ mem.counters \in [Blocks -> Nat] /\ mem.zeros \subseteq Nat
        /\ mem.ones \subseteq Nat /\ mem.traces \subseteq Nat
    BY <1>1, Fields DEF Typed
  <1>4. disk' = [counters |-> IF written = 0 THEN mem.counters ELSE disk.counters,
                 zeros    |-> IF written = 1 THEN mem.zeros ELSE disk.zeros,
                 ones     |-> IF written = 2 THEN mem.ones ELSE disk.ones,
                 traces   |-> IF written = 3 THEN mem.traces ELSE disk.traces]
    <2>1. PICK f \in {"counters", "zeros", "ones", "traces"} : f = Files[written + 1]
      BY <1>2, WritingOrder
    <2>2. /\ (f = "counters") <=> (written = 0)
          /\ (f = "zeros") <=> (written = 1)
          /\ (f = "ones") <=> (written = 2)
          /\ (f = "traces") <=> (written = 3)
      BY <1>2, <2>1, WritingOrder
    <2>3. PICK v : v = mem[f]
      OBVIOUS
    <2>4. disk' = [disk EXCEPT ![f] = v]
      BY <2>1, <2>3 DEF WriteFile, Contents
    <2>5. disk' = [counters |-> IF f = "counters" THEN v ELSE disk.counters,
                   zeros    |-> IF f = "zeros" THEN v ELSE disk.zeros,
                   ones     |-> IF f = "ones" THEN v ELSE disk.ones,
                   traces   |-> IF f = "traces" THEN v ELSE disk.traces]
      BY <1>1, <2>1, <2>4 DEF Typed, Histories
    <2>6. /\ f = "counters" => v = mem.counters
          /\ f = "zeros" => v = mem.zeros
          /\ f = "ones" => v = mem.ones
          /\ f = "traces" => v = mem.traces
      BY <2>3
    <2>. QED  BY <2>2, <2>5, <2>6
  <1>5. disk' \in Histories
    <2>1. (IF written = 0 THEN mem.counters ELSE disk.counters) \in [Blocks -> Nat]
      BY <1>3
    <2>2. /\ (IF written = 1 THEN mem.zeros ELSE disk.zeros) \subseteq Nat
          /\ (IF written = 2 THEN mem.ones ELSE disk.ones) \subseteq Nat
          /\ (IF written = 3 THEN mem.traces ELSE disk.traces) \subseteq Nat
      BY <1>3
    <2>. QED  BY <1>4, <2>1, <2>2, HistoryType
  <1>6. Len(Files) = 4
    BY WritingOrder
  <1>7. CASE written < 3
    <2>1. proc' = "exiting" /\ ideal' = ideal
      BY <1>2, <1>6, <1>7 DEF WriteFile
    <2>2. Typed'
      BY <1>1, <1>2, <1>5, <1>7, <2>1 DEF Typed
    <2>3. ASSUME Kept PROVE Kept'
      <3>1. PartlyWritten /\ own.counters = count
        BY <1>2, <2>3 DEF Kept
      <3>2. PartlyWritten'
        BY <1>2, <1>4, <1>7, <2>1, <3>1 DEF PartlyWritten, Higher
      <3>. QED  BY <1>2, <2>1, <3>1, <3>2 DEF Kept
    <2>4. Exact'
      BY <1>1, <1>2, <2>3 DEF Exact
    <2>. QED  BY <2>2, <2>4 DEF Inv
  <1>8. CASE written = 3
    <2>1. proc' = "down" /\ ideal' = Merge(ideal, own)
      BY <1>6, <1>8 DEF WriteFile
    <2>2. /\ ideal' \in Histories
          /\ ideal'.counters = Higher(ideal.counters, own.counters)
          /\ ideal'.zeros = ideal.zeros \cup own.zeros
          /\ ideal'.ones = ideal.ones \cup own.ones
          /\ ideal'.traces = ideal.traces \cup own.traces
      BY <1>1, <2>1, MergeType DEF Typed
    <2>3. Typed'
      BY <1>1, <1>2, <1>5, <1>8, <2>1, <2>2 DEF Typed
    <2>4. ASSUME Kept PROVE Kept'
      <3>1. PartlyWritten
        BY <1>2, <2>4 DEF Kept
      <3>2. /\ disk'.counters = ideal'.counters /\ disk'.zeros = ideal'.zeros
            /\ disk'.ones = ideal'.ones /\ disk'.traces = ideal'.traces
        BY <1>4, <1>8, <2>2, <3>1 DEF PartlyWritten
      <3>3. disk' = ideal'
        BY <1>5, <2>2, <3>2, SameHistory
      <3>. QED  BY <2>1, <3>3 DEF Kept
    <2>5. Exact'
      BY <1>1, <1>2, <2>4 DEF Exact
    <2>. QED  BY <2>3, <2>5 DEF Inv
  <1>. QED  BY <1>2, <1>7, <1>8

LEMMA KillInv ==
  ASSUME Inv, Kill
  PROVE  Inv'
  <1>1. Typed /\ Exact
    BY DEF Inv
  <1>2. /\ UNCHANGED <<disk, input, at, loaded, mem, count, trace, last, written,
                       outdir, generated, own, ideal, history>>
        /\ proc = "running" /\ proc' = "down" /\ mishaps \subseteq mishaps'
    BY DEF Kill, Down
  <1>3. Typed'
    BY <1>1, <1>2 DEF Typed
  <1>4. Exact'
    BY <1>1, <1>2 DEF Exact, Kept
  <1>. QED  BY <1>3, <1>4 DEF Inv

LEMMA KillWritingInv ==
  ASSUME ConcolicAssumption, Inv, KillWriting
  PROVE  Inv'
  <1>1. Typed
    BY DEF Inv
  <1>2. /\ UNCHANGED <<input, at, loaded, mem, count, trace, last, written,
                       outdir, generated, own, ideal, history>>
        /\ proc = "exiting" /\ proc' = "down" /\ "torn" \in mishaps'
    BY DEF KillWriting, Down
  <1>3. /\ disk.counters \in [Blocks -> Nat] /\ disk.zeros \subseteq Nat
        /\ disk.ones \subseteq Nat /\ disk.traces \subseteq Nat
        /\ mem.counters \in [Blocks -> Nat] /\ mem.zeros \subseteq Nat
        /\ mem.ones \subseteq Nat /\ mem.traces \subseteq Nat
    BY <1>1, Fields DEF Typed
  <1>4. PICK f \in {"counters", "zeros", "ones", "traces"} : f = Files[written + 1]
    <2>1. written \in 0 .. 3
      BY <1>1, <1>2 DEF Typed
    <2>. QED  BY <2>1 DEF Files
  <1>5. disk' \in Histories
    <2>1. CASE disk' = disk
      BY <1>1, <2>1 DEF Typed
    <2>2. ASSUME f = "counters",
                 NEW S \in SUBSET Blocks,
                 disk' = [disk EXCEPT !.counters =
                            [b \in Blocks |-> IF b \in S THEN mem[f][b] ELSE 0]]
          PROVE  disk' \in Histories
      <3>1. PICK c : c = [b \in Blocks |-> IF b \in S THEN mem.counters[b] ELSE 0]
        OBVIOUS
      <3>2. c \in [Blocks -> Nat]
        BY <1>3, <3>1
      <3>3. disk' = [disk EXCEPT !.counters = c]
        BY <2>2, <3>1
      <3>4. disk' = [counters |-> c, zeros |-> disk.zeros, ones |-> disk.ones,
                     traces |-> disk.traces]
        BY <1>1, <3>3 DEF Typed, Histories
      <3>. QED  BY <1>3, <3>2, <3>4, HistoryType
    <2>3. ASSUME f # "counters", NEW S \in SUBSET mem[f], disk' = [disk EXCEPT ![f] = S]
          PROVE  disk' \in Histories
      <3>1. S \subseteq Nat
        BY <1>3, <1>4, <2>3
      <3>2. disk' = [counters |-> disk.counters,
                     zeros    |-> IF f = "zeros" THEN S ELSE disk.zeros,
                     ones     |-> IF f = "ones" THEN S ELSE disk.ones,
                     traces   |-> IF f = "traces" THEN S ELSE disk.traces]
        BY <1>1, <1>4, <2>3 DEF Typed, Histories
      <3>3. /\ (IF f = "zeros" THEN S ELSE disk.zeros) \subseteq Nat
            /\ (IF f = "ones" THEN S ELSE disk.ones) \subseteq Nat
            /\ (IF f = "traces" THEN S ELSE disk.traces) \subseteq Nat
        BY <1>3, <3>1
      <3>. QED  BY <1>3, <3>2, <3>3, HistoryType
    <2>. QED  BY <1>4, <2>1, <2>2, <2>3 DEF KillWriting
  <1>6. Typed'
    BY <1>1, <1>2, <1>5 DEF Typed
  <1>7. Exact'
    BY <1>2 DEF Exact
  <1>. QED  BY <1>6, <1>7 DEF Inv

-----------------------------------------------------------------------------
\* The invariant on the history: the copy of a running process, the files that
\* the destructor of Runtime.cpp has already written, and all of them in between.
THEOREM Invariance == ProcSpec => []Inv
  <1>1. ProcInit => Inv
    BY ConcolicAssumption, InitInv
  <1>2. Inv /\ [ProcNext]_procVars => Inv'
    <2>. SUFFICES ASSUME Inv, [ProcNext]_procVars
                  PROVE  Inv'
      OBVIOUS
    <2>1. CASE CovCb
      BY <2>1, ConcolicAssumption, CovCbInv
    <2>2. CASE PushPathConstraint
      BY <2>2, ConcolicAssumption, PushInv
    <2>3. CASE Exit
      BY <2>3, ConcolicAssumption, ExitInv
    <2>4. CASE WriteFile
      BY <2>4, ConcolicAssumption, WriteFileInv
    <2>5. CASE Kill
      BY <2>5, KillInv
    <2>6. CASE KillWriting
      BY <2>6, ConcolicAssumption, KillWritingInv
    <2>7. CASE \E i \in Inputs : Start(i)
      BY <2>7, ConcolicAssumption, StartInv
    <2>8. CASE UNCHANGED procVars
      BY <2>8 DEF procVars, Inv, Typed, Exact, Kept, Copied, PartlyWritten
    <2>. QED  BY <2>1, <2>2, <2>3, <2>4, <2>5, <2>6, <2>7, <2>8 DEF ProcNext, Progress
  <1>. QED  BY <1>1, <1>2, PTL DEF ProcSpec

LEMMA HistoryShape ==
  ASSUME NEW h \in Histories
  PROVE  IsHistory(h)
  <1>1. DOMAIN h = {"counters", "zeros", "ones", "traces"}
    BY DEF Histories
  <1>2. ASSUME NEW f \in {"zeros", "ones", "traces"}, NEW t \in h[f]
        PROVE  t \in Nat
    BY Fields
  <1>. QED  BY <1>1, <1>2, Fields DEF IsHistory

\* The variables of the process and the files of the history keep their types,
\* for any program: curr_trace_map does not exceed its width, and test cases are
\* numbered without gaps.
THEOREM TypeCorrect == ProcSpec => []ProcTypeOK
  <1>1. Inv => ProcTypeOK
    <2>. SUFFICES ASSUME Inv PROVE ProcTypeOK
      OBVIOUS
    <2>1. Typed
      BY DEF Inv
    <2>2. IsHistory(disk) /\ IsHistory(mem) /\ IsHistory(own) /\ IsHistory(ideal)
      BY <2>1, HistoryShape DEF Typed
    <2>3. Len(Files) = 4
      BY DEF Files
    <2>. QED  BY <2>1, <2>2, <2>3 DEF Typed, ProcTypeOK
  <1>. QED  BY <1>1, Invariance, PTL

\* What the processes that exited found is in the files, and nothing else, after
\* any number of processes of which any may be killed while they run.
THEOREM CorpusStaysExact == ProcSpec => []CorpusExact
  <1>1. Inv => CorpusExact
    BY DEF Inv, Exact, Kept, CorpusExact
  <1>. QED  BY <1>1, Invariance, PTL

-----------------------------------------------------------------------------
(***************************************************************************)
(* The trace of a set of blocks can be summed up block by block, in any    *)
(* order.  SumSet is a function on the subsets of its argument, which is   *)
(* defined by recursion; the inductions are on their sizes.                *)
(***************************************************************************)

LEMMA Induction ==
  ASSUME NEW T \in SUBSET Nat, 0 \in T, \A n \in T : n + 1 \in T
  PROVE  T = Nat
  <1>. SUFFICES ASSUME T # Nat PROVE FALSE
    OBVIOUS
  <1>. DEFINE R == {w \in Nat \X Nat : w[1] < w[2]}
              U == Nat \ T
  <1>1. IsWellFoundedOn(R, Nat)
    BY NatLessThanWellFounded DEF OpToRel
  <1>. HIDE DEF R
  <1>2. PICK x \in U : \A y \in U : <<y, x>> \notin R
    BY <1>1, WFMin
  <1>3. x \in Nat /\ x # 0 /\ x - 1 \in Nat
    OBVIOUS
  <1>4. <<x - 1, x>> \in Nat \X Nat /\ <<x - 1, x>>[1] = x - 1 /\ <<x - 1, x>>[2] = x
    BY <1>3
  <1>5. <<x - 1, x>> \in R
    BY <1>3, <1>4 DEF R
  <1>6. x - 1 \in T
    BY <1>2, <1>3, <1>5
  <1>7. (x - 1) + 1 \in T
    BY <1>6
  <1>. QED  BY <1>3, <1>7

Pick(s) == CHOOSE x \in s : TRUE

\* h is the sum of the subsets of S, with at most n elements.
SumsUpTo(h, S, n) ==
  \A s \in SUBSET S : Cardinality(s) <= n =>
    h[s] = IF s = {} THEN 0 ELSE Pick(s) + h[s \ {Pick(s)}]

Adds(h, S) ==
  \A s \in SUBSET S : h[s] = IF s = {} THEN 0 ELSE Pick(s) + h[s \ {Pick(s)}]

Sums(h, S) == h \in [SUBSET S -> Nat] /\ Adds(h, S)

LEMMA PickLaw ==
  ASSUME NEW S \in SUBSET Nat, IsFiniteSet(S), NEW s \in SUBSET S
  PROVE  /\ IsFiniteSet(s) /\ Cardinality(s) \in Nat
         /\ s # {} => /\ Pick(s) \in s /\ Pick(s) \in Nat
                      /\ s \ {Pick(s)} \in SUBSET S
                      /\ Cardinality(s \ {Pick(s)}) = Cardinality(s) - 1
  <1>1. IsFiniteSet(s)
    BY FS_Subset
  <1>2. Cardinality(s) \in Nat
    BY <1>1, FS_CardinalityType
  <1>3. ASSUME s # {}
        PROVE  /\ Pick(s) \in s /\ Pick(s) \in Nat
               /\ s \ {Pick(s)} \in SUBSET S
               /\ Cardinality(s \ {Pick(s)}) = Cardinality(s) - 1
    <2>1. Pick(s) \in s
      BY <1>3 DEF Pick
    <2>2. PICK x \in s : x = Pick(s)
      BY <2>1
    <2>3. Cardinality(s \ {x}) = Cardinality(s) - 1
      BY <1>1, FS_RemoveElement
    <2>. QED  BY <2>2, <2>3
  <1>. QED  BY <1>1, <1>2, <1>3

LEMMA SumExists ==
  ASSUME NEW S \in SUBSET Nat, IsFiniteSet(S)
  PROVE  \E h : Sums(h, S)
  <1>. DEFINE T == {n \in Nat : \E h \in [SUBSET S -> Nat] : SumsUpTo(h, S, n)}
  <1>1. 0 \in T
    <2>1. [s \in SUBSET S |-> 0] \in [SUBSET S -> Nat]
      OBVIOUS
    <2>2. ASSUME NEW s \in SUBSET S, Cardinality(s) <= 0 PROVE s = {}
      <3>1. IsFiniteSet(s) /\ Cardinality(s) \in Nat
        BY PickLaw
      <3>2. Cardinality(s) = 0
        BY <2>2, <3>1
      <3>. QED  BY <3>1, <3>2, FS_EmptySet
    <2>3. SumsUpTo([s \in SUBSET S |-> 0], S, 0)
      BY <2>2 DEF SumsUpTo
    <2>. QED  BY <2>1, <2>3
  <1>2. ASSUME NEW n \in T PROVE n + 1 \in T
    <2>1. n \in Nat
      OBVIOUS
    <2>2. PICK g \in [SUBSET S -> Nat] : SumsUpTo(g, S, n)
      OBVIOUS
    <2>. DEFINE step(s) == IF s = {} THEN 0 ELSE Pick(s) + g[s \ {Pick(s)}]
                h == [s \in SUBSET S |-> IF Cardinality(s) <= n THEN g[s] ELSE step(s)]
    <2>3. ASSUME NEW s \in SUBSET S PROVE step(s) \in Nat
      <3>1. CASE s = {}
        BY <3>1
      <3>2. CASE s # {}
        <4>1. Pick(s) \in Nat /\ s \ {Pick(s)} \in SUBSET S
          BY <3>2, PickLaw
        <4>2. g[s \ {Pick(s)}] \in Nat
          BY <4>1
        <4>. QED  BY <3>2, <4>1, <4>2
      <3>. QED  BY <3>1, <3>2
    <2>4. ASSUME NEW s \in SUBSET S, Cardinality(s) <= n PROVE g[s] = step(s)
      BY <2>2, <2>4 DEF SumsUpTo
    <2>5. \A s \in SUBSET S : h[s] = step(s) /\ (Cardinality(s) <= n => h[s] = g[s])
      BY <2>4
    <2>6. h \in [SUBSET S -> Nat]
      <3>1. \A s \in SUBSET S : g[s] \in Nat
        OBVIOUS
      <3>. HIDE DEF step
      <3>. QED  BY <2>3, <3>1
    <2>. HIDE DEF h
    <2>7. ASSUME NEW s \in SUBSET S, Cardinality(s) <= n + 1
          PROVE  h[s] = IF s = {} THEN 0 ELSE Pick(s) + h[s \ {Pick(s)}]
      <3>1. CASE s = {}
        BY <2>5, <3>1
      <3>2. CASE s # {}
        <4>1. s \ {Pick(s)} \in SUBSET S /\ Cardinality(s \ {Pick(s)}) <= n
          BY <2>1, <2>7, <3>2, PickLaw
        <4>2. h[s \ {Pick(s)}] = g[s \ {Pick(s)}]
          BY <2>5, <4>1
        <4>3. h[s] = Pick(s) + g[s \ {Pick(s)}]
          BY <2>5, <3>2
        <4>. QED  BY <3>2, <4>2, <4>3
      <3>. QED  BY <3>1, <3>2
    <2>8. SumsUpTo(h, S, n + 1)
      BY <2>7 DEF SumsUpTo
    <2>9. n + 1 \in Nat
      BY <2>1
    <2>. QED  BY <2>6, <2>8, <2>9
  <1>3. T \in SUBSET Nat
    OBVIOUS
  <1>. HIDE DEF T
  <1>4. T = Nat
    BY <1>1, <1>2, <1>3, Induction
  <1>5. Cardinality(S) \in Nat
    BY FS_CardinalityType
  <1>6. PICK h \in [SUBSET S -> Nat] : SumsUpTo(h, S, Cardinality(S))
    BY <1>4, <1>5 DEF T
  <1>7. \A s \in SUBSET S : Cardinality(s) <= Cardinality(S)
    BY FS_Subset
  <1>8. Sums(h, S)
    BY <1>6, <1>7 DEF SumsUpTo, Sums, Adds
  <1>. QED  BY <1>8

\* There is one sum, also among the subsets of a smaller set.
LEMMA SumUnique ==
  ASSUME NEW S \in SUBSET Nat, IsFiniteSet(S), NEW h, Sums(h, S), NEW R \in SUBSET S,
         NEW f, Adds(f, R)
  PROVE  \A s \in SUBSET R : f[s] = h[s]
  <1>. DEFINE T == {n \in Nat : \A s \in SUBSET R : Cardinality(s) <= n => f[s] = h[s]}
  <1>1. R \in SUBSET Nat /\ IsFiniteSet(R)
    BY FS_Subset
  <1>2. \A s \in SUBSET R :
          /\ h[s] = IF s = {} THEN 0 ELSE Pick(s) + h[s \ {Pick(s)}]
          /\ f[s] = IF s = {} THEN 0 ELSE Pick(s) + f[s \ {Pick(s)}]
    BY DEF Sums, Adds
  <1>3. 0 \in T
    <2>1. ASSUME NEW s \in SUBSET R, Cardinality(s) <= 0 PROVE f[s] = h[s]
      <3>1. IsFiniteSet(s) /\ Cardinality(s) \in Nat
        BY <1>1, PickLaw
      <3>2. Cardinality(s) = 0
        BY <2>1, <3>1
      <3>3. s = {}
        BY <3>1, <3>2, FS_EmptySet
      <3>. QED  BY <1>2, <3>3
    <2>. QED  BY <2>1
  <1>4. ASSUME NEW n \in T PROVE n + 1 \in T
    <2>1. ASSUME NEW s \in SUBSET R, Cardinality(s) <= n + 1 PROVE f[s] = h[s]
      <3>1. CASE s = {}
        BY <1>2, <3>1
      <3>2. CASE s # {}
        <4>1. s \ {Pick(s)} \in SUBSET R /\ Cardinality(s \ {Pick(s)}) = Cardinality(s) - 1
          BY <1>1, <3>2, PickLaw
        <4>2. Cardinality(s) \in Nat /\ n \in Nat
          BY <1>1, PickLaw
        <4>3. Cardinality(s \ {Pick(s)}) <= n
          BY <2>1, <4>1, <4>2
        <4>4. f[s \ {Pick(s)}] = h[s \ {Pick(s)}]
          BY <4>1, <4>3
        <4>. QED  BY <1>2, <3>2, <4>4
      <3>. QED  BY <3>1, <3>2
    <2>. QED  BY <2>1
  <1>5. T \in SUBSET Nat
    OBVIOUS
  <1>6. \A n \in T, s \in SUBSET R : Cardinality(s) <= n => f[s] = h[s]
    OBVIOUS
  <1>. HIDE DEF T
  <1>7. T = Nat
    BY <1>3, <1>4, <1>5, Induction
  <1>8. ASSUME NEW s \in SUBSET R PROVE f[s] = h[s]
    <2>1. Cardinality(s) \in T /\ Cardinality(s) \in Nat
      BY <1>1, <1>7, PickLaw
    <2>2. Cardinality(s) <= Cardinality(s)
      BY <2>1
    <2>. QED  BY <1>6, <2>1, <2>2
  <1>. QED  BY <1>8

\* What SumSet computes
LEMMA SumIs ==
  ASSUME NEW S \in SUBSET Nat, IsFiniteSet(S), NEW h, Sums(h, S)
  PROVE  SumSet(S) = h[S]
  <1>. DEFINE rec(g) == [s \in SUBSET S |-> IF s = {} THEN 0 ELSE Pick(s) + g[s \ {Pick(s)}]]
              f == CHOOSE g : g = rec(g)
  <1>1. SumSet(S) = f[S]
    BY DEF SumSet, FoldSet, MapThenFoldSet, Pick
  <1>2. h = rec(h)
    <2>1. h = [s \in SUBSET S |-> h[s]]
      BY DEF Sums
    <2>2. \A s \in SUBSET S : h[s] = IF s = {} THEN 0 ELSE Pick(s) + h[s \ {Pick(s)}]
      BY DEF Sums, Adds
    <2>. QED  BY <2>1, <2>2, Zenon
  <1>3. f = rec(f)
    <2>. HIDE DEF rec
    <2>. QED  BY <1>2
  <1>. HIDE DEF f
  <1>4. Adds(f, S)
    BY <1>3 DEF Adds
  <1>5. S \in SUBSET S
    OBVIOUS
  <1>6. \A s \in SUBSET S : f[s] = h[s]
    BY <1>4, <1>5, SumUnique
  <1>7. f[S] = h[S]
    BY <1>5, <1>6
  <1>. QED  BY <1>1, <1>7

\* It does not matter which element is added last.
LEMMA SumOrder ==
  ASSUME NEW S \in SUBSET Nat, IsFiniteSet(S), NEW h, Sums(h, S)
  PROVE  \A s \in SUBSET S : \A x \in s : h[s] = x + h[s \ {x}]
  <1>. DEFINE T == {n \in Nat : \A s \in SUBSET S :
                      Cardinality(s) <= n => \A x \in s : h[s] = x + h[s \ {x}]}
  <1>1. h \in [SUBSET S -> Nat]
    BY DEF Sums
  <1>2. \A s \in SUBSET S : h[s] = IF s = {} THEN 0 ELSE Pick(s) + h[s \ {Pick(s)}]
    BY DEF Sums, Adds
  <1>3. 0 \in T
    <2>1. ASSUME NEW s \in SUBSET S, Cardinality(s) <= 0 PROVE s = {}
      <3>1. IsFiniteSet(s) /\ Cardinality(s) \in Nat
        BY PickLaw
      <3>2. Cardinality(s) = 0
        BY <2>1, <3>1
      <3>. QED  BY <3>1, <3>2, FS_EmptySet
    <2>. QED  BY <2>1
  <1>4. ASSUME NEW n \in T PROVE n + 1 \in T
    <2>1. ASSUME NEW s \in SUBSET S, Cardinality(s) <= n + 1, NEW x \in s
          PROVE  h[s] = x + h[s \ {x}]
      <3>. DEFINE c == Pick(s)
                  u == s \ {c}
                  v == s \ {x}
      <3>1. /\ c \in s /\ c \in Nat /\ x \in Nat /\ n \in Nat
            /\ IsFiniteSet(s) /\ Cardinality(s) \in Nat
            /\ u \in SUBSET S /\ v \in SUBSET S
            /\ h[s] = c + h[u]
        BY <1>2, PickLaw
      <3>2. Cardinality(u) = Cardinality(s) - 1 /\ Cardinality(v) = Cardinality(s) - 1
        BY <3>1, FS_RemoveElement
      <3>3. CASE c = x
        BY <3>1, <3>3
      <3>4. CASE c # x
        <4>1. x \in u /\ c \in v /\ u \ {x} = v \ {c} /\ u \ {x} \in SUBSET S
          BY <3>1, <3>4
        <4>2. Cardinality(u) <= n /\ Cardinality(v) <= n
          BY <2>1, <3>1, <3>2
        <4>. HIDE DEF u, v, c
        <4>3. h[u] = x + h[u \ {x}] /\ h[v] = c + h[v \ {c}]
          BY <3>1, <4>1, <4>2
        <4>4. h[u \ {x}] \in Nat /\ h[v \ {c}] = h[u \ {x}]
          BY <1>1, <4>1
        <4>5. h[s] = x + h[v]
          BY <3>1, <4>3, <4>4
        <4>. QED  BY <4>5 DEF v
      <3>. QED  BY <3>3, <3>4
    <2>. QED  BY <2>1
  <1>5. T \in SUBSET Nat
    OBVIOUS
  <1>6. \A n \in T, s \in SUBSET S : Cardinality(s) <= n => \A x \in s : h[s] = x + h[s \ {x}]
    OBVIOUS
  <1>. HIDE DEF T
  <1>7. T = Nat
    BY <1>3, <1>4, <1>5, Induction
  <1>8. ASSUME NEW s \in SUBSET S PROVE \A x \in s : h[s] = x + h[s \ {x}]
    <2>1. Cardinality(s) \in T /\ Cardinality(s) \in Nat
      BY <1>7, PickLaw
    <2>2. Cardinality(s) <= Cardinality(s)
      BY <2>1
    <2>. QED  BY <1>6, <2>1, <2>2
  <1>. QED  BY <1>8

LEMMA SumOfMore ==
  ASSUME NEW S \in SUBSET Nat, IsFiniteSet(S), NEW b \in Nat \ S
  PROVE  SumSet(S) \in Nat /\ SumSet(S \cup {b}) = SumSet(S) + b
  <1>. DEFINE Z == S \cup {b}
  <1>1. Z \in SUBSET Nat /\ IsFiniteSet(Z) /\ Z \in SUBSET Z /\ S \in SUBSET Z
    BY FS_AddElement
  <1>2. b \in Z /\ Z \ {b} = S
    OBVIOUS
  <1>. HIDE DEF Z
  <1>3. PICK h : Sums(h, Z)
    BY <1>1, SumExists
  <1>4. PICK g : Sums(g, S)
    BY SumExists
  <1>5. Adds(g, S)
    BY <1>4 DEF Sums
  <1>6. g[S] = h[S]
    <2>1. \A s \in SUBSET S : g[s] = h[s]
      BY <1>1, <1>3, <1>5, SumUnique
    <2>. QED  BY <2>1
  <1>7. h[Z] = b + h[S]
    BY <1>1, <1>2, <1>3, SumOrder
  <1>8. g[S] \in Nat
    BY <1>4 DEF Sums
  <1>9. SumSet(S) = g[S] /\ SumSet(Z) = h[Z]
    BY <1>1, <1>3, <1>4, SumIs
  <1>. QED  BY <1>6, <1>7, <1>8, <1>9 DEF Z

\* A remainder is one.
LEMMA Remainder ==
  ASSUME NEW z \in Int, NEW L \in Nat \ {0}
  PROVE  z % L \in 0 .. L - 1
OBVIOUS

\* A multiple of L makes no difference to the remainder.
LEMMA Multiple ==
  ASSUME NEW z \in Int, NEW q \in Int, NEW L \in Nat \ {0}
  PROVE  (L * q + z) % L = z % L
<1> DEFINE y == L * q + z
           u == y \div L
           v == q + z \div L
<1>1. y \in Int /\ u \in Int /\ v \in Int
  OBVIOUS
<1>2. y = L * u + (y % L) /\ z = L * (z \div L) + (z % L)
  OBVIOUS
<1>3. y % L \in 0 .. L - 1 /\ z % L \in 0 .. L - 1
  BY <1>1, Remainder
<1>4. /\ L * v = L * q + L * (z \div L) /\ y = L * q + z
      /\ L * q \in Int /\ L * (z \div L) \in Int /\ z % L \in Int
  OBVIOUS
<1> HIDE DEF y, u, v
<1>5. y = L * v + (z % L)
  BY <1>1, <1>2, <1>4
<1>6. L * u + (y % L) = L * v + (z % L)
  BY <1>2, <1>5
<1>7. u = v
  <2>1. ASSUME NEW a \in Int, NEW b \in Int, a + 1 <= b PROVE L * a + L <= L * b
    BY <2>1
  <2>2. L * u \in Int /\ L * v \in Int
    BY <1>1
  <2>3. ~(u + 1 <= v)
    BY <2>1, <2>2, <1>1, <1>3, <1>6
  <2>4. ~(v + 1 <= u)
    BY <2>1, <2>2, <1>1, <1>3, <1>6
  <2> QED BY <2>3, <2>4, <1>1
<1>8. L * u = L * v /\ L * u \in Int
  BY <1>7, <1>1
<1>9. y % L = z % L
  BY <1>6, <1>8, <1>3
<1> QED BY <1>9 DEF y

\* The remainder of a sum
LEMMA RemainderOfSum ==
  ASSUME NEW a \in Nat, NEW b \in Nat, NEW L \in Nat \ {0}
  PROVE  ((a % L) + b) % L = (a + b) % L
<1>1. a = L * (a \div L) + (a % L) /\ a \div L \in Int /\ a % L \in 0 .. L - 1
  OBVIOUS
<1>2. a + b = L * (a \div L) + ((a % L) + b)
  BY <1>1
<1>3. (a % L) + b \in Int
  BY <1>1
<1> QED BY <1>1, <1>2, <1>3, Multiple

\* The law of sums over sets, which follows from the definition of SumSet: the
\* hash of a trace can be kept up to date block by block, as
\* pure_concolic_map_sym does.
THEOREM TraceLaw == SumLaw
  <1>1. IsFiniteSet(Blocks) /\ Blocks \subseteq Nat /\ TraceSize \in Nat \ {0}
    BY ConcolicAssumption
  <1>2. TraceOf({}) = 0
    <2>1. {} \in SUBSET Nat /\ IsFiniteSet({}) /\ {} \in SUBSET {}
      BY FS_EmptySet
    <2>2. PICK h : Sums(h, {})
      BY <2>1, SumExists
    <2>3. SumSet({}) = h[{}]
      BY <2>1, <2>2, SumIs
    <2>4. h[{}] = 0
      BY <2>1, <2>2 DEF Sums, Adds
    <2>5. 0 % TraceSize = 0
      BY <1>1
    <2>. QED  BY <2>3, <2>4, <2>5 DEF TraceOf
  <1>3. ASSUME NEW S \in SUBSET Blocks, NEW b \in Blocks \ S
        PROVE  TraceOf(S \cup {b}) = (TraceOf(S) + b) % TraceSize
    <2>1. S \in SUBSET Nat /\ IsFiniteSet(S) /\ b \in Nat \ S /\ b \in Nat
      BY <1>1, FS_Subset
    <2>2. SumSet(S) \in Nat /\ SumSet(S \cup {b}) = SumSet(S) + b
      BY <2>1, SumOfMore
    <2>3. PICK n \in Nat : n = SumSet(S)
      BY <2>2
    <2>4. ((n % TraceSize) + b) % TraceSize = (n + b) % TraceSize
      BY <1>1, <2>1, RemainderOfSum
    <2>. QED  BY <2>2, <2>3, <2>4 DEF TraceOf
  <1>. QED  BY <1>2, <1>3 DEF SumLaw

-----------------------------------------------------------------------------
(***************************************************************************)
(* Every reached branch is solved.  A branch is skipped only if its block  *)
(* is in the list of its direction; blocks get there with a branch that    *)
(* was solved, or was skipped for the same reason.  The lists hold traces  *)
(* too, which must not be taken for blocks: a trace that is the ID of a    *)
(* block is the trace of that block alone, which is then the last one.     *)
(***************************************************************************)

Visited == {b \in Blocks : count[b] > 0}

ZerosDone == {b \in Blocks : <<b, FALSE>> \in solved}
OnesDone == {b \in Blocks : <<b, TRUE>> \in solved}

\* The blocks in the lists were solved.
Recorded(h) ==
  Blocks \cap h.zeros \subseteq ZerosDone /\ Blocks \cap h.ones \subseteq OnesDone

Traced == trace = TraceOf(Visited) /\ (at = 1 \/ last \in Visited)

SolvedInv ==
  /\ seen \subseteq solved
  /\ Recorded(disk) /\ Recorded(mem)
  /\ proc = "running" => Traced

LEMMA LastBlock ==
  ASSUME Traced, last \in Visited, NEW b \in Blocks \cap Marks
  PROVE  b = last
  <1>1. CASE b = trace
    <2>1. TraceOf(Visited) \in Blocks /\ Visited \subseteq Blocks
      BY <1>1 DEF Traced, Visited
    <2>2. Visited = {TraceOf(Visited)}
      BY <2>1, IDAssumption
    <2>. QED  BY <1>1, <2>2 DEF Traced
  <1>. QED  BY <1>1 DEF Marks

LEMMA DoneKept ==
  ASSUME solved \subseteq solved'
  PROVE  ZerosDone \subseteq ZerosDone' /\ OnesDone \subseteq OnesDone'
  BY DEF ZerosDone, OnesDone

LEMMA SolvedKept ==
  ASSUME Recorded(disk), Recorded(mem), UNCHANGED <<disk, solved>>,
         mem'.zeros = mem.zeros, mem'.ones = mem.ones
  PROVE  Recorded(disk)' /\ Recorded(mem)'
  BY DoneKept DEF Recorded

LEMMA CovCbSolved ==
  ASSUME ConcolicAssumption, Typed, SolvedInv, CovCb
  PROVE  SolvedInv'
  <1>1. /\ UNCHANGED <<disk, mem, seen, solved, proc>>
        /\ proc = "running" /\ Traced
    BY DEF CovCb, AtEvent, SolvedInv
  <1>2. AtEvent("cov")
    BY DEF CovCb
  <1>3. PICK b \in Blocks : b = Event.block
    BY <1>2, EventType
  <1>4. /\ count' = [count EXCEPT ![b] = @ + 1]
        /\ trace' = IF count[b] = 0 THEN Summed(b) ELSE trace
        /\ last' = b
    BY <1>3 DEF CovCb
  <1>5. count \in [Blocks -> Nat]
    BY DEF Typed
  <1>6. Visited' = Visited \cup {b}
    <2>1. count' \in [Blocks -> Nat] /\ count'[b] > 0
      BY <1>4, <1>5
    <2>2. \A x \in Blocks : x # b => count'[x] = count[x]
      BY <1>4, <1>5
    <2>. QED  BY <2>1, <2>2 DEF Visited
  <1>7. trace' = TraceOf(Visited \cup {b})
    <2>1. CASE count[b] = 0
      <3>1. b \in Blocks \ Visited /\ Visited \in SUBSET Blocks
        BY <2>1 DEF Visited
      <3>2. TraceOf(Visited \cup {b}) = (TraceOf(Visited) + b) % TraceSize
        BY <3>1, TraceLaw DEF SumLaw
      <3>. QED  BY <1>1, <1>4, <2>1, <3>2 DEF Traced, Summed
    <2>2. CASE count[b] # 0
      <3>1. Visited \cup {b} = Visited
        BY <1>5, <2>2 DEF Visited
      <3>. QED  BY <1>1, <1>4, <2>2, <3>1 DEF Traced
    <2>. QED  BY <2>1, <2>2
  <1>8. TraceOf(Visited)' = TraceOf(Visited \cup {b})
    BY <1>6 DEF TraceOf
  <1>9. Traced'
    BY <1>4, <1>6, <1>7, <1>8 DEF Traced
  <1>. QED  BY <1>1, <1>9, SolvedKept DEF SolvedInv

LEMMA PushSolved ==
  ASSUME ConcolicAssumption, CovFirst, Typed, SolvedInv, PushPathConstraint
  PROVE  SolvedInv'
  <1>1. /\ UNCHANGED <<disk, proc, count, trace, last>> /\ at' = at + 1
        /\ proc = "running" /\ Traced /\ AtEvent("push")
    BY DEF PushPathConstraint, AtEvent, SolvedInv
  <1>2. Event.taken \in BOOLEAN
    BY <1>1, EventType
  <1>3. last \in Visited
    <2>1. ASSUME at = 1 PROVE FALSE
      <3>1. input \in Inputs /\ Program[input] \in Seq(CovEvents \cup PushEvents)
        BY DEF Typed, ConcolicAssumption
      <3>2. 1 <= Len(Program[input]) /\ Program[input][1].kind = "push"
        BY <1>1, <2>1 DEF AtEvent, Event
      <3>3. Program[input] # <<>>
        BY <3>1, <3>2
      <3>. QED  BY <3>1, <3>2, <3>3 DEF CovFirst
    <2>. QED  BY <1>1, <2>1 DEF Traced
  <1>4. Traced'
    <2>1. Visited' = Visited /\ TraceOf(Visited)' = TraceOf(Visited)
      BY <1>1 DEF Visited, TraceOf
    <2>. QED  BY <1>1, <1>3, <2>1 DEF Traced
  <1>5. PICK save : /\ save = (~history \/ ShouldSave(Loaded))
                    /\ solved' = IF save THEN solved \cup {<<last, Event.taken>>}
                                         ELSE solved
    BY DEF PushPathConstraint
  <1>6. seen' = seen \cup {<<last, Event.taken>>} /\ solved \subseteq solved'
    BY <1>5 DEF PushPathConstraint
  <1>7. ZerosDone \subseteq ZerosDone' /\ OnesDone \subseteq OnesDone'
    BY <1>6, DoneKept
  <1>8. Recorded(Loaded)
    BY DEF SolvedInv, Loaded
  <1>9. PICK t \in BOOLEAN : t = Event.taken
    BY <1>2
  <1>10. last \in IF t THEN OnesDone' ELSE ZerosDone'
    <2>1. last \in Blocks
      BY <1>3 DEF Visited
    <2>2. CASE save
      <3>1. <<last, t>> \in solved'
        BY <1>5, <1>9, <2>2
      <3>2. CASE t = TRUE
        BY <1>1, <2>1, <3>1, <3>2 DEF OnesDone
      <3>3. CASE t = FALSE
        BY <1>1, <2>1, <3>1, <3>3 DEF ZerosDone
      <3>. QED  BY <3>2, <3>3
    <2>3. CASE ~save
      <3>1. last \in Loaded[Side(t)]
        BY <1>5, <1>9, <2>3 DEF ShouldSave, Marks
      <3>2. last \in IF t THEN Loaded.ones ELSE Loaded.zeros
        BY <3>1 DEF Side
      <3>. QED  BY <1>7, <1>8, <2>1, <3>2 DEF Recorded
    <2>. QED  BY <2>2, <2>3
  <1>11. Recorded(disk)'
    BY <1>7, <1>1 DEF Recorded, SolvedInv
  <1>12. Recorded(mem)'
    <2>1. CASE ~history
      <3>1. mem' = mem
        BY <2>1 DEF PushPathConstraint
      <3>. QED  BY <1>7, <3>1 DEF Recorded, SolvedInv
    <2>2. CASE history
      <3>1. mem' = Extended(Loaded, t)
        BY <1>9, <2>2 DEF PushPathConstraint
      <3>2. Loaded \in Histories /\ last \in Nat /\ trace \in Nat
        BY DEF Typed, Loaded, ConcolicAssumption
      <3>3. /\ mem'.zeros = IF t THEN Loaded.zeros ELSE Loaded.zeros \cup Marks
            /\ mem'.ones = IF t THEN Loaded.ones \cup Marks ELSE Loaded.ones
        BY <3>1, <3>2, ExtendedType
      <3>4. Blocks \cap Marks \subseteq {last}
        BY <1>1, <1>3, LastBlock
      <3>5. /\ Blocks \cap mem'.zeros \subseteq ZerosDone'
            /\ Blocks \cap mem'.ones \subseteq OnesDone'
        BY <1>7, <1>8, <1>10, <3>3, <3>4 DEF Recorded
      <3>. QED  BY <3>5 DEF Recorded
    <2>. QED  BY <2>1, <2>2
  <1>13. seen' \subseteq solved'
    <2>1. <<last, t>> \in solved'
      <3>1. CASE t = TRUE
        BY <1>10, <3>1 DEF OnesDone
      <3>2. CASE t = FALSE
        BY <1>10, <3>2 DEF ZerosDone
      <3>. QED  BY <3>1, <3>2
    <2>. QED  BY <1>6, <1>9, <2>1 DEF SolvedInv
  <1>. QED  BY <1>4, <1>11, <1>12, <1>13 DEF SolvedInv

LEMMA FileSolved ==
  ASSUME Typed, SolvedInv, UNCHANGED <<mem, seen, solved>>, proc' # "running",
         NEW f \in {"counters", "zeros", "ones", "traces"}, NEW v,
         f \in {"zeros", "ones"} => v \subseteq mem[f],
         disk' = [disk EXCEPT ![f] = v]
  PROVE  SolvedInv'
  <1>1. disk' = [counters |-> IF f = "counters" THEN v ELSE disk.counters,
                 zeros    |-> IF f = "zeros" THEN v ELSE disk.zeros,
                 ones     |-> IF f = "ones" THEN v ELSE disk.ones,
                 traces   |-> IF f = "traces" THEN v ELSE disk.traces]
    BY DEF Typed, Histories
  <1>2. /\ disk'.zeros \subseteq disk.zeros \cup mem.zeros
        /\ disk'.ones \subseteq disk.ones \cup mem.ones
    BY <1>1
  <1>3. Recorded(disk)'
    BY <1>2, DoneKept DEF Recorded, SolvedInv
  <1>4. Recorded(mem)'
    BY DoneKept DEF Recorded, SolvedInv
  <1>. QED  BY <1>3, <1>4 DEF SolvedInv

LEMMA StartSolved ==
  ASSUME SolvedInv, NEW i \in Inputs, Start(i)
  PROVE  SolvedInv'
  <1>1. UNCHANGED <<disk, seen, solved>> /\ mem' = NoHistory
        /\ count' = NoHistory.counters /\ trace' = 0 /\ at' = 1
    BY DEF Start
  <1>2. Visited' = {}
    BY <1>1 DEF Visited, NoHistory
  <1>3. TraceOf(Visited)' = 0
    BY <1>2, TraceLaw DEF TraceOf, SumLaw
  <1>4. Traced'
    BY <1>1, <1>3 DEF Traced
  <1>5. Recorded(disk)' /\ Recorded(mem)'
    BY <1>1, EmptyHistory, DoneKept DEF Recorded, SolvedInv
  <1>. QED  BY <1>1, <1>4, <1>5 DEF SolvedInv

\* Every direction of a branch that any process reached was solved, whatever was
\* killed, torn or truncated: pure_concolic_should_save skips a branch only if
\* another one at the end of the same block was solved in this direction.
THEOREM AllBranchesSolved ==
  ASSUME CovFirst
  PROVE  ProcSpec => []BranchesSolved
  <1>1. ProcInit => SolvedInv
    <2>. SUFFICES ASSUME ProcInit PROVE SolvedInv
      OBVIOUS
    <2>. QED  BY EmptyHistory DEF ProcInit, SolvedInv, Recorded
  <1>2. Inv /\ SolvedInv /\ [ProcNext]_procVars => SolvedInv'
    <2>. SUFFICES ASSUME Inv, SolvedInv, [ProcNext]_procVars
                  PROVE  SolvedInv'
      OBVIOUS
    <2>1. Typed
      BY DEF Inv
    <2>2. CASE CovCb
      BY <2>1, <2>2, ConcolicAssumption, CovCbSolved
    <2>3. CASE PushPathConstraint
      BY <2>1, <2>3, ConcolicAssumption, PushSolved
    <2>4. CASE Exit
      <3>1. UNCHANGED <<disk, seen, solved>> /\ proc' # "running"
        BY <2>4 DEF Exit
      <3>2. mem' = mem \/ mem' = [mem EXCEPT !.counters = Higher(@, count)]
        BY <2>4 DEF Exit
      <3>3. mem'.zeros = mem.zeros /\ mem'.ones = mem.ones
        BY <2>1, <3>2 DEF Typed, Histories
      <3>. QED  BY <3>1, <3>3, SolvedKept DEF SolvedInv
    <2>5. CASE WriteFile
      <3>1. PICK f \in {"counters", "zeros", "ones", "traces"} : f = Files[written + 1]
        <4>1. written \in 0 .. 3
          BY <2>1, <2>5 DEF Typed, WriteFile
        <4>. QED  BY <4>1, WritingOrder
      <3>2. /\ UNCHANGED <<mem, seen, solved>> /\ proc' # "running"
            /\ disk' = [disk EXCEPT ![f] = mem[f]]
        BY <2>5, <3>1 DEF WriteFile, Contents
      <3>. QED  BY <2>1, <3>2, FileSolved
    <2>6. CASE Kill
      <3>1. UNCHANGED <<disk, mem, seen, solved>> /\ proc' # "running"
        BY <2>6 DEF Kill, Down
      <3>. QED  BY <3>1, SolvedKept DEF SolvedInv
    <2>7. CASE KillWriting
      <3>1. PICK f \in {"counters", "zeros", "ones", "traces"} : f = Files[written + 1]
        <4>1. written \in 0 .. 3
          BY <2>1, <2>7 DEF Typed, KillWriting
        <4>. QED  BY <4>1, WritingOrder
      <3>2. UNCHANGED <<mem, seen, solved>> /\ proc' # "running"
        BY <2>7 DEF KillWriting, Down
      <3>3. CASE disk' = disk
        BY <3>2, <3>3, SolvedKept DEF SolvedInv
      <3>4. ASSUME f = "counters", NEW c, disk' = [disk EXCEPT !.counters = c]
            PROVE  SolvedInv'
        <4>1. disk' = [disk EXCEPT ![f] = c]
          BY <3>4
        <4>. QED  BY <2>1, <3>2, <3>4, <4>1, FileSolved
      <3>5. ASSUME NEW S \in SUBSET mem[f], disk' = [disk EXCEPT ![f] = S]
            PROVE  SolvedInv'
        BY <2>1, <3>2, <3>5, FileSolved
      <3>. QED  BY <2>7, <3>1, <3>3, <3>4, <3>5 DEF KillWriting
    <2>8. CASE \E i \in Inputs : Start(i)
      BY <2>8, StartSolved
    <2>9. CASE UNCHANGED procVars
      BY <2>9 DEF procVars, SolvedInv, Recorded, ZerosDone, OnesDone, Traced, Visited, TraceOf
    <2>. QED  BY <2>2, <2>3, <2>4, <2>5, <2>6, <2>7, <2>8, <2>9 DEF ProcNext, Progress
  <1>3. SolvedInv => BranchesSolved
    BY DEF SolvedInv, BranchesSolved
  <1>. QED  BY <1>1, <1>2, <1>3, Invariance, PTL DEF ProcSpec

-----------------------------------------------------------------------------
(***************************************************************************)
(* The generation scripts lose no test case, and the history is as exact   *)
(* under the scripts as it is without.                                     *)
(*                                                                         *)
(* Every process numbers its test cases from 0 and overwrites those of the *)
(* one before.  No test case is lost with them because the script has      *)
(* collected them: only the files that the running process wrote itself,   *)
(* which it does not overwrite, may exist nowhere else.                    *)
(***************************************************************************)

\* What the running process wrote
Mine == {outdir[k] : k \in 1 .. generated}

\* The copy of test case c under its hash has been run or will be.
Scheduled(c) == c \in analyzed \/ File(c, c) \in next \cup cur

Collected(c) == Scheduled(c) /\ File(c, c) \in exported

Accounted ==
  /\ ToSet(outdir) \subseteq ever
  /\ \A c \in ever : Collected(c) \/ (sc = "wait" /\ c \in Mine)
  /\ \A f \in exported : \E c \in ever : f = File(c, c)
  /\ sc = "import" => cur = {}
  /\ sc \in {"import", "run", "wait", "done"}

\* Files in all directories hold inputs.
Filled == \A f \in indir \cup next \cup cur : f.content \in Inputs

LoopInv == Inv /\ Accounted /\ Filled

-----------------------------------------------------------------------------
LEMMA SavedFiles ==
  ASSUME Outputs, NEW i \in Inputs, Save(i)
  PROVE  /\ Mine \subseteq Mine' /\ i \in Mine'
         /\ ToSet(outdir') \subseteq ToSet(outdir) \cup {i}
  <1>1. outdir \in Seq(Inputs) /\ generated \in 0 .. Len(outdir)
    BY DEF Outputs
  <1>2. generated' = generated + 1 /\ generated + 1 \in 1 .. generated + 1
    BY <1>1 DEF Save
  <1>3. CASE generated < Len(outdir)
    <2>1. generated + 1 \in 1 .. Len(outdir)
      BY <1>1, <1>3
    <2>2. outdir' = [outdir EXCEPT ![generated + 1] = i]
      BY <1>3 DEF Save
    <2>3. /\ outdir' \in Seq(Inputs) /\ Len(outdir') = Len(outdir)
          /\ \A j \in 1 .. Len(outdir) :
               outdir'[j] = IF j = generated + 1 THEN i ELSE outdir[j]
      BY <1>1, <2>1, <2>2, ExceptSeq
    <2>4. \A k \in 1 .. generated : outdir'[k] = outdir[k] /\ k \in 1 .. generated + 1
      BY <1>1, <1>3, <2>3
    <2>5. outdir'[generated + 1] = i
      BY <2>1, <2>3
    <2>6. Mine \subseteq Mine' /\ i \in Mine'
      BY <1>2, <2>4, <2>5 DEF Mine
    <2>7. DOMAIN outdir' = 1 .. Len(outdir) /\ DOMAIN outdir = 1 .. Len(outdir)
      BY <1>1, <2>3
    <2>8. ToSet(outdir') \subseteq ToSet(outdir) \cup {i}
      BY <2>3, <2>7 DEF ToSet
    <2>. QED  BY <2>6, <2>8
  <1>4. CASE ~(generated < Len(outdir))
    <2>1. generated = Len(outdir) /\ outdir' = Append(outdir, i)
      BY <1>1, <1>4 DEF Save
    <2>2. /\ outdir' \in Seq(Inputs) /\ Len(outdir') = Len(outdir) + 1
          /\ \A j \in 1 .. Len(outdir) : outdir'[j] = outdir[j]
          /\ outdir'[Len(outdir) + 1] = i
      BY <1>1, <2>1
    <2>3. \A k \in 1 .. generated : outdir'[k] = outdir[k] /\ k \in 1 .. generated + 1
      BY <1>1, <2>1, <2>2
    <2>4. Mine \subseteq Mine' /\ i \in Mine'
      BY <1>2, <2>1, <2>2, <2>3 DEF Mine
    <2>5. DOMAIN outdir' = 1 .. Len(outdir) + 1 /\ DOMAIN outdir = 1 .. Len(outdir)
      BY <1>1, <2>2
    <2>6. \A j \in 1 .. Len(outdir) + 1 : j \in 1 .. Len(outdir) \/ j = Len(outdir) + 1
      BY <1>1
    <2>7. ToSet(outdir') \subseteq ToSet(outdir) \cup {i}
      BY <2>2, <2>5, <2>6 DEF ToSet
    <2>. QED  BY <2>4, <2>7
  <1>. QED  BY <1>3, <1>4

\* A step of the target writes at most one test case.
LEMMA TargetSaves ==
  ASSUME ConcolicAssumption, Typed, Progress \/ Kill \/ KillWriting
  PROVE  SaveNothing \/ \E i \in Inputs : Save(i)
  <1>1. CASE CovCb
    BY <1>1 DEF CovCb, SavePath
  <1>2. CASE PushPathConstraint
    <2>1. AtEvent("push")
      BY <1>2 DEF PushPathConstraint
    <2>2. Event.flips \subseteq Inputs
      BY <2>1, EventType
    <2>. QED  BY <1>2, <2>2 DEF PushPathConstraint
  <1>3. CASE Exit
    BY <1>3 DEF Exit, SaveNothing
  <1>4. CASE WriteFile
    BY <1>4 DEF WriteFile, SaveNothing
  <1>5. CASE Kill
    BY <1>5 DEF Kill, Down, SaveNothing
  <1>6. CASE KillWriting
    BY <1>6 DEF KillWriting, Down, SaveNothing
  <1>. QED  BY <1>1, <1>2, <1>3, <1>4, <1>5, <1>6 DEF Progress

LEMMA TargetInv ==
  ASSUME ConcolicAssumption, Inv, Progress \/ Kill \/ KillWriting
  PROVE  Inv'
  BY CovCbInv, PushInv, ExitInv, WriteFileInv, KillInv, KillWritingInv DEF Progress

-----------------------------------------------------------------------------
LEMMA TargetStepInv ==
  ASSUME ConcolicAssumption, LoopInv, TargetStep
  PROVE  LoopInv'
  <1>1. Inv /\ Typed /\ Accounted /\ Filled
    BY DEF LoopInv, Inv
  <1>2. Inv'
    BY <1>1, TargetInv DEF TargetStep
  <1>3. /\ sc = "wait" /\ ever' = ever \cup ToSet(outdir')
        /\ UNCHANGED <<sc, indir, next, cur, analyzed, exported>>
    BY DEF TargetStep, Wait
  <1>9. Filled'
    BY <1>1, <1>3 DEF Filled
  <1>4. ASSUME NEW c, Collected(c) PROVE Collected(c)'
    BY <1>3, <1>4 DEF Collected, Scheduled, File
  <1>5. \A f \in exported' : \E c \in ever' : f = File(c, c)
    BY <1>1, <1>3 DEF Accounted
  <1>6. CASE SaveNothing
    <2>1. outdir' = outdir /\ generated' = generated
      BY <1>6 DEF SaveNothing
    <2>2. Mine' = Mine
      BY <2>1 DEF Mine
    <2>3. ever' = ever /\ ToSet(outdir') \subseteq ever'
      BY <1>1, <1>3, <2>1 DEF Accounted
    <2>4. \A c \in ever' : Collected(c)' \/ (sc' = "wait" /\ c \in Mine')
      BY <1>1, <1>3, <1>4, <2>2, <2>3 DEF Accounted
    <2>5. Accounted'
      BY <1>3, <1>5, <2>3, <2>4 DEF Accounted, File
    <2>. QED  BY <1>2, <1>9, <2>5 DEF LoopInv
  <1>7. CASE \E i \in Inputs : Save(i)
    <2>1. PICK i \in Inputs : Save(i)
      BY <1>7
    <2>2. Outputs
      BY <1>1 DEF Typed, Outputs
    <2>3. /\ Mine \subseteq Mine' /\ i \in Mine'
          /\ ToSet(outdir') \subseteq ToSet(outdir) \cup {i}
      BY <2>1, <2>2, SavedFiles
    <2>4. ever' \subseteq ever \cup {i} /\ ToSet(outdir') \subseteq ever'
      BY <1>1, <1>3, <2>3 DEF Accounted
    <2>5. \A c \in ever' : Collected(c)' \/ (sc' = "wait" /\ c \in Mine')
      BY <1>1, <1>3, <1>4, <2>3, <2>4 DEF Accounted
    <2>6. Accounted'
      BY <1>3, <1>5, <2>4, <2>5 DEF Accounted, File
    <2>. QED  BY <1>2, <1>9, <2>6 DEF LoopInv
  <1>8. SaveNothing \/ \E i \in Inputs : Save(i)
    BY <1>1, TargetSaves DEF TargetStep
  <1>. QED  BY <1>6, <1>7, <1>8

LEMMA NewGenerationInv ==
  ASSUME LoopInv, NewGeneration
  PROVE  LoopInv'
  <1>1. Inv /\ Typed /\ Exact /\ Accounted /\ Filled
    BY DEF LoopInv, Inv
  <1>2. /\ sc = "import" /\ cur = {}
        /\ cur' = next \cup Imported
        /\ UNCHANGED <<indir, analyzed, exported, ever>>
        /\ next' = {}
        /\ sc' \in {"run", "done"}
    BY <1>1 DEF NewGeneration, Accounted
  <1>3. (outdir' = <<>> /\ generated' = 0) \/ UNCHANGED <<outdir, generated>>
    BY DEF NewGeneration
  <1>4. UNCHANGED <<disk, proc, input, at, loaded, mem, count, trace, last, written,
                    own, ideal, mishaps, history>>
    BY DEF NewGeneration
  <1>5. outdir' \in Seq(Inputs) /\ generated' \in 0 .. Len(outdir')
    <2>1. CASE UNCHANGED <<outdir, generated>>
      BY <1>1, <2>1 DEF Typed
    <2>2. CASE outdir' = <<>> /\ generated' = 0
      BY <2>2
    <2>. QED  BY <1>3, <2>1, <2>2
  <1>6. Typed'
    BY <1>1, <1>4, <1>5 DEF Typed
  <1>7. Exact'
    BY <1>1, <1>4 DEF Exact, Kept, Copied, PartlyWritten
  <1>8. ToSet(outdir') \subseteq ever'
    <2>1. CASE UNCHANGED <<outdir, generated>>
      BY <1>1, <1>2, <2>1 DEF Accounted
    <2>2. CASE outdir' = <<>>
      BY <2>2 DEF ToSet
    <2>. QED  BY <1>3, <2>1, <2>2
  <1>9. \A c \in ever' : Collected(c)'
    <2>1. \A c \in ever : Collected(c)
      BY <1>1, <1>2 DEF Accounted
    <2>. QED  BY <1>2, <2>1 DEF Collected, Scheduled, File
  <1>10. \A f \in exported' : \E c \in ever' : f = File(c, c)
    BY <1>1, <1>2 DEF Accounted
  <1>11. Accounted'
    BY <1>2, <1>8, <1>9, <1>10 DEF Accounted, File
  <1>12. Filled'
    BY <1>1, <1>2 DEF Filled, Imported
  <1>. QED  BY <1>6, <1>7, <1>11, <1>12 DEF LoopInv, Inv

LEMMA RunInv ==
  ASSUME ConcolicAssumption, LoopInv, Run
  PROVE  LoopInv'
  <1>1. Inv /\ Accounted /\ Filled
    BY DEF LoopInv
  <1>2. PICK f \in cur : Start(f.content)
    BY DEF Run
  <1>3. Inv'
    BY <1>1, <1>2, StartInv DEF Filled
  <1>4. /\ UNCHANGED <<indir, next, cur, analyzed, exported, ever, outdir>>
        /\ sc = "run" /\ sc' = "wait"
    BY <1>2 DEF Run, Start
  <1>5. \A c \in ever : Collected(c)
    BY <1>1, <1>4 DEF Accounted
  <1>6. \A c \in ever' : Collected(c)'
    BY <1>4, <1>5 DEF Collected, Scheduled, File
  <1>7. Accounted'
    BY <1>1, <1>4, <1>6 DEF Accounted, File
  <1>8. Filled'
    BY <1>1, <1>4 DEF Filled
  <1>. QED  BY <1>3, <1>7, <1>8 DEF LoopInv

LEMMA CollectInv ==
  ASSUME LoopInv, Collect
  PROVE  LoopInv'
  <1>1. Inv /\ Typed /\ Accounted /\ Filled
    BY DEF LoopInv, Inv
  <1>2. /\ UNCHANGED <<procVars, indir, ever>> /\ sc = "wait"
        /\ next' = CopyTo(next, Hashed)
        /\ exported' = CopyTo(exported, Hashed)
        /\ analyzed' = analyzed \cup {current}
        /\ cur' = {f \in cur : f.name # current}
        /\ sc' = IF cur' = {} THEN "import" ELSE "run"
    BY DEF Collect
  <1>3. Inv'
    BY <1>1, <1>2 DEF procVars, Inv, Typed, Exact, Kept, Copied, PartlyWritten
  <1>4. outdir \in Seq(Inputs) /\ generated \in 0 .. Len(outdir) /\ outdir' = outdir
    BY <1>1, <1>2 DEF Typed, procVars
  <1>5. Mine \subseteq ToSet(outdir) /\ ToSet(outdir) \subseteq Inputs
    BY <1>4 DEF Mine, ToSet
  \* A copy of the same name is the same file.
  <1>6. ASSUME NEW c, NEW F, File(c, c) \in F \/ c \in ToSet(outdir)
        PROVE  File(c, c) \in CopyTo(F, Hashed)
    <2>1. CASE c \in ToSet(outdir)
      BY <2>1 DEF CopyTo, Hashed
    <2>2. CASE File(c, c) \in F /\ c \notin ToSet(outdir)
      <3>1. ASSUME c \in NameOf(Hashed) PROVE FALSE
        <4>1. PICK f \in Hashed : f.name = c
          BY <3>1 DEF NameOf
        <4>2. PICK d \in ToSet(outdir) : f = File(d, d)
          BY DEF Hashed
        <4>3. f.name = d
          BY <4>2 DEF File
        <4>. QED  BY <2>2, <4>1, <4>3
      <3>2. File(c, c).name = c
        BY DEF File
      <3>. QED  BY <2>2, <3>1, <3>2 DEF CopyTo
    <2>. QED  BY <1>6, <2>1, <2>2
  <1>7. ASSUME NEW c \in ever' PROVE Collected(c)'
    <2>1. Collected(c) \/ c \in ToSet(outdir)
      BY <1>1, <1>2, <1>5 DEF Accounted
    <2>2. File(c, c) \in exported'
      BY <1>2, <1>6, <2>1 DEF Collected
    <2>3. c \in analyzed' \/ File(c, c) \in next' \cup cur'
      <3>1. CASE c \in analyzed
        BY <1>2, <3>1
      <3>2. CASE File(c, c) \in next \/ c \in ToSet(outdir)
        BY <1>2, <1>6, <3>2
      <3>3. CASE File(c, c) \in cur
        <4>1. File(c, c).name = c
          BY DEF File
        <4>. QED  BY <1>2, <3>3, <4>1
      <3>. QED  BY <2>1, <3>1, <3>2, <3>3 DEF Collected, Scheduled
    <2>. QED  BY <2>2, <2>3 DEF Collected, Scheduled, File
  <1>8. ASSUME NEW f \in exported' PROVE \E c \in ever' : f = File(c, c)
    <2>1. f \in exported \/ f \in Hashed
      BY <1>2 DEF CopyTo
    <2>2. CASE f \in exported
      BY <1>1, <1>2, <2>2 DEF Accounted
    <2>3. CASE f \in Hashed
      BY <1>1, <1>2, <2>3 DEF Accounted, Hashed
    <2>. QED  BY <2>1, <2>2, <2>3
  <1>9. ToSet(outdir') \subseteq ever'
    BY <1>1, <1>2, <1>4 DEF Accounted
  <1>10. sc' \in {"import", "run"} /\ (sc' = "import" => cur' = {})
    BY <1>2
  <1>11. Accounted'
    BY <1>7, <1>8, <1>9, <1>10 DEF Accounted, File
  <1>12. Filled'
    <2>1. \A f \in Hashed : f.content \in Inputs
      BY <1>5 DEF Hashed, File
    <2>2. \A f \in next' : f.content \in Inputs
      BY <1>1, <1>2, <2>1 DEF Filled, CopyTo
    <2>3. \A f \in indir' \cup cur' : f.content \in Inputs
      BY <1>1, <1>2 DEF Filled
    <2>. QED  BY <2>2, <2>3 DEF Filled
  <1>. QED  BY <1>3, <1>11, <1>12 DEF LoopInv

LEMMA UserAddsInv ==
  ASSUME LoopAssumption, LoopInv, NEW n \in Names, NEW c \in Seeds, UserAdds(n, c)
  PROVE  LoopInv'
  <1>1. Inv /\ Accounted /\ Filled
    BY DEF LoopInv
  <1>2. /\ UNCHANGED <<procVars, sc, next, cur, analyzed, exported, ever>>
        /\ indir' = indir \cup {File(n, c)}
    BY DEF UserAdds
  <1>3. Inv'
    BY <1>1, <1>2 DEF procVars, Inv, Typed, Exact, Kept, Copied, PartlyWritten
  <1>4. Accounted'
    BY <1>1, <1>2 DEF procVars, Accounted, Collected, Scheduled, Mine, File
  <1>5. Filled'
    BY <1>1, <1>2 DEF LoopAssumption, Filled, File
  <1>. QED  BY <1>3, <1>4, <1>5 DEF LoopInv

LEMMA LoopInitInv ==
  ASSUME ConcolicAssumption, LoopAssumption, Init
  PROVE  LoopInv
  <1>1. Inv
    BY InitInv DEF Init
  <1>2. outdir = <<>>
    BY DEF Init, ProcInit
  <1>3. Accounted
    BY <1>2 DEF Init, Accounted, ToSet
  <1>4. Filled
    BY DEF Init, LoopAssumption, Filled, File
  <1>. QED  BY <1>1, <1>3, <1>4 DEF LoopInv

-----------------------------------------------------------------------------
\* Under the scripts, the history is as exact as without them, and every test
\* case is accounted for: collected by the script or written by the process that
\* runs (add_to_next_generation and maybe_export after each run).
THEOREM LoopInvariance == Spec => []LoopInv
  <1>1. Init => LoopInv
    BY ConcolicAssumption, LoopAssumption, LoopInitInv
  <1>2. LoopInv /\ [Next]_vars => LoopInv'
    <2>. SUFFICES ASSUME LoopInv, [Next]_vars
                  PROVE  LoopInv'
      OBVIOUS
    <2>1. CASE \E n \in Names, c \in Seeds : UserAdds(n, c)
      BY <2>1, LoopAssumption, UserAddsInv
    <2>2. CASE NewGeneration
      BY <2>2, NewGenerationInv
    <2>3. CASE Run
      BY <2>3, ConcolicAssumption, RunInv
    <2>4. CASE Collect
      BY <2>4, CollectInv
    <2>5. CASE TargetStep
      BY <2>5, ConcolicAssumption, TargetStepInv
    <2>6. CASE UNCHANGED vars
      <3>1. UNCHANGED <<procVars, scriptVars>>
        BY <2>6 DEF vars
      <3>2. Inv'
        BY <3>1 DEF LoopInv, procVars, Inv, Typed, Exact, Kept, Copied, PartlyWritten
      <3>3. Accounted' /\ Filled'
        BY <3>1 DEF LoopInv, procVars, scriptVars, Accounted, Filled, Collected,
                    Scheduled, Mine, File
      <3>. QED  BY <3>2, <3>3 DEF LoopInv
    <2>. QED  BY <2>1, <2>2, <2>3, <2>4, <2>5, <2>6 DEF Next, Script
  <1>. QED  BY <1>1, <1>2, PTL DEF Spec

\* No test case is lost, although processes overwrite each other's files and
\* the script empties the output directory: each has been run, will be, or is
\* still where its process wrote it.
THEOREM NoTestLost == Spec => []TestsKept
  <1>1. LoopInv => TestsKept
    <2>. SUFFICES ASSUME LoopInv, NEW c \in ever
                  PROVE  \/ c \in analyzed
                         \/ \E f \in next \cup cur : f.content = c
                         \/ sc = "wait" /\ c \in ToSet(outdir)
      BY DEF TestsKept
    <2>1. Collected(c) \/ (sc = "wait" /\ c \in Mine)
      BY DEF LoopInv, Accounted
    <2>2. File(c, c).content = c
      BY DEF File
    <2>3. Mine \subseteq ToSet(outdir)
      BY DEF LoopInv, Inv, Typed, Mine, ToSet
    <2>. QED  BY <2>1, <2>2, <2>3 DEF Collected, Scheduled
  <1>. QED  BY <1>1, LoopInvariance, PTL

\* Between generations the export directory holds exactly the test cases that
\* were ever generated (maybe_export).
THEOREM ExportStaysComplete == Spec => []ExportComplete
  <1>1. LoopInv => ExportComplete
    <2>. SUFFICES ASSUME LoopInv, sc \in {"import", "done"}
                  PROVE  {f.content : f \in exported} = ever
      BY DEF ExportComplete
    <2>1. \A c \in ever : File(c, c) \in exported
      BY DEF LoopInv, Accounted, Collected
    <2>2. \A f \in exported : \E c \in ever : f = File(c, c)
      BY DEF LoopInv, Accounted
    <2>3. \A c : File(c, c).content = c
      BY DEF File
    <2>. QED  BY <2>1, <2>2, <2>3
  <1>. QED  BY <1>1, LoopInvariance, PTL

\* What processes that exited found stays in the history files under the
\* scripts too, whatever they kill.
THEOREM CorpusExactInLoop == Spec => []CorpusExact
  <1>1. LoopInv => CorpusExact
    BY DEF LoopInv, Inv, Exact, Kept, CorpusExact
  <1>. QED  BY <1>1, LoopInvariance, PTL

\* With names that grep finds nowhere but in their own lines, maybe_import leaves
\* no file of the input directory out that has not been analyzed.
THEOREM EverythingImported ==
  ASSUME \A n \in Names : Found[n] = {n}
  PROVE  Spec => AllImported
  <1>. DEFINE Named == \A f \in indir : f.name \in Names
  <1>1. Init => Named
    <2>. SUFFICES ASSUME Init PROVE Named
      OBVIOUS
    <2>1. current \in Names
      BY LoopAssumption DEF Init
    <2>. QED  BY <2>1 DEF Init, File
  <1>2. Named /\ [Next]_vars => Named'
    <2>. SUFFICES ASSUME Named, [Next]_vars PROVE Named'
      OBVIOUS
    <2>1. ASSUME NEW n \in Names, NEW c \in Seeds, UserAdds(n, c) PROVE Named'
      BY <2>1 DEF UserAdds, File
    <2>2. ASSUME UNCHANGED indir PROVE Named'
      BY <2>2
    <2>3. CASE Script
      BY <2>2, <2>3 DEF Script, NewGeneration, Run, Collect
    <2>4. CASE TargetStep
      BY <2>2, <2>4 DEF TargetStep, Wait
    <2>5. CASE UNCHANGED vars
      BY <2>2, <2>5 DEF vars, scriptVars
    <2>. QED  BY <2>1, <2>3, <2>4, <2>5 DEF Next
  <1>3. ASSUME Named, NewGeneration, NEW f \in indir
        PROVE  f.name \in analyzed \/ f.name \in NameOf(cur')
    <2>1. cur' = next \cup Imported /\ Found[f.name] = {f.name}
      BY <1>3 DEF NewGeneration
    <2>2. CASE f.name \in NameOf(next)
      BY <2>1, <2>2 DEF NameOf
    <2>3. CASE f \in Imported
      BY <2>1, <2>3 DEF NameOf
    <2>4. CASE f.name \notin NameOf(next) /\ f \notin Imported
      BY <2>1, <2>4 DEF Imported, NotAnalyzed
    <2>. QED  BY <2>2, <2>3, <2>4
  <1>4. Named /\ [Next]_vars =>
          [NewGeneration => \A f \in indir : f.name \in analyzed \/ f.name \in NameOf(cur')]_vars
    BY <1>3
  <1>. HIDE DEF Named
  <1>. QED  BY <1>1, <1>2, <1>4, PTL DEF Spec, AllImported
=============================================================================
