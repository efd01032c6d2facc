--------------------------- MODULE RegistryProofs ----------------------------
(***************************************************************************)
(* Proofs about Registry, for any number of addresses, any set of leaves,  *)
(* any cells, any threshold and any depth of terms.  The invariant says of *)
(* the three ways in which an object is referred to - an operand, an entry *)
(* or a constraint, a pointer of the client - that the object is there.    *)
(***************************************************************************)
EXTENDS Registry, TLAPS

-----------------------------------------------------------------------------
(***************************************************************************)
(* What references keep alive                                              *)
(***************************************************************************)

\* References keep their objects alive.
LEMMA AliveRoots ==
  ASSUME NEW h, NEW S \in SUBSET Addr
  PROVE  S \subseteq Alive(h, S)
  BY DEF Alive

\* Objects keep their operands alive.
LEMMA AliveOperands ==
  ASSUME NEW h, NEW S \in SUBSET Addr, NEW b \in Alive(h, S), b \in DOMAIN h,
         h[b].operands \subseteq Addr
  PROVE  h[b].operands \subseteq Alive(h, S)
  BY DEF Alive

\* Nothing else is kept alive by references into a set that has its operands.
LEMMA AliveWithin ==
  ASSUME NEW h, NEW S, NEW T \in SUBSET Addr, S \subseteq T,
         \A b \in T \cap DOMAIN h : h[b].operands \subseteq T
  PROVE  Alive(h, S) \subseteq T
  BY DEF Alive

-----------------------------------------------------------------------------
(***************************************************************************)
(* The invariant                                                           *)
(***************************************************************************)

\* Addresses are addresses, and what the registry holds includes its entries.
Referred ==
  /\ InUse \subseteq Addr
  /\ allocated \subseteq counted
  /\ counted \subseteq InUse
  /\ backend = "qsym" => counted = allocated

Inv ==
  /\ cell = [c \in Cells |-> cell[c]]
  /\ Referred
  /\ OperandsValid
  /\ PointersValid

\* What is left after references were dropped: the objects that are still
\* referred to, unchanged, and their operands.
LEMMA KeptValid ==
  ASSUME Inv, NEW S \in SUBSET InUse
  PROVE  /\ DOMAIN Kept(heap, S) \subseteq InUse
         /\ S \subseteq DOMAIN Kept(heap, S)
         /\ \A a \in DOMAIN Kept(heap, S) :
              /\ Kept(heap, S)[a] = heap[a]
              /\ heap[a].operands \subseteq DOMAIN Kept(heap, S)
  <1>1. S \in SUBSET Addr
    BY DEF Inv, Referred
  <1>2. S \subseteq Alive(heap, S)
    BY <1>1, AliveRoots
  <1>3. DOMAIN Kept(heap, S) = InUse \cap Alive(heap, S)
    BY DEF Kept, InUse
  <1>4. ASSUME NEW a \in InUse \cap Alive(heap, S)
        PROVE  heap[a].operands \subseteq InUse \cap Alive(heap, S)
    <2>1. heap[a].operands \subseteq InUse /\ InUse \subseteq Addr
      BY DEF Inv, OperandsValid, Referred
    <2>2. heap[a].operands \subseteq Alive(heap, S)
      BY <2>1, <1>1, AliveOperands DEF InUse
    <2> QED
      BY <2>1, <2>2
  <1>5. \A a \in InUse \cap Alive(heap, S) : Kept(heap, S)[a] = heap[a]
    BY DEF Kept, InUse
  <1> QED
    BY <1>2, <1>3, <1>4, <1>5

\* The parts of an object exist.
LEMMA PartsExist ==
  ASSUME Inv, NEW a \in InUse
  PROVE  Parts(a) \subseteq InUse
  <1>1. \A b \in InUse \cap DOMAIN heap : heap[b].operands \subseteq InUse
    BY DEF Inv, OperandsValid, InUse
  <1>2. InUse \in SUBSET Addr /\ {a} \subseteq InUse
    BY DEF Inv, Referred
  <1> QED
    BY <1>1, <1>2, AliveWithin DEF Parts

\* Every pointer in use leads to an object, which Operand confirms.
LEMMA OperandExists ==
  ASSUME Inv, NEW a, Operand(a)
  PROVE  a \in InUse
  BY DEF Inv, Referred, Operand

\* Delivery of an object of a heap that has all there was, in which operands exist.
LEMMA DeliverInv ==
  ASSUME Inv, NEW c \in Cells, NEW h, NEW a \in DOMAIN h,
         Deliver(c, h, a),
         InUse \subseteq DOMAIN h, DOMAIN h \subseteq Addr,
         \A b \in InUse : h[b] = heap[b],
         \A b \in DOMAIN h : h[b].operands \subseteq DOMAIN h
  PROVE  Inv'
  <1> USE DEF Deliver, RegisterExpression, InUse
  <1>1. (cell = [d \in Cells |-> cell[d]])'
    BY DEF Inv, Cells
  <1>2. Referred'
    BY DEF Inv, Referred
  <1>3. OperandsValid'
    BY DEF Inv, OperandsValid
  <1>4. PointersValid'
    <2>1. SUFFICES ASSUME NEW p \in Held'
                   PROVE  p.addr \in allocated' \cap InUse' /\ h[p.addr].term = p.term
      BY DEF PointersValid
    <2>2. CASE p \in Held
      BY <2>2 DEF Inv, PointersValid
    <2>3. CASE p = Pointer(h, a)
      BY <2>3 DEF Pointer
    <2>4. p \in Held \/ p = Pointer(h, a)
      <3>1. PICK d \in Cells : p = cell'[d] /\ p # Null
        BY <2>1 DEF Held, Cells
      <3>2. CASE d = c
        BY <3>1, <3>2 DEF Inv
      <3>3. CASE d # c
        BY <3>1, <3>3 DEF Inv, Held
      <3> QED
        BY <3>2, <3>3
    <2> QED
      BY <2>2, <2>3, <2>4
  <1> QED
    BY <1>1, <1>2, <1>3, <1>4 DEF Inv

\* A new object is made of what exists.
LEMMA MakeInv ==
  ASSUME Inv, NEW c \in Cells, NEW term, NEW operands \in SUBSET InUse, NEW depth,
         Make(c, term, operands, depth)
  PROVE  Inv'
  <1> DEFINE object == [term |-> term, operands |-> operands, depth |-> depth]
             h(a) == [b \in InUse \cup {a} |-> IF b = a THEN object ELSE heap[b]]
  <1>1. PICK a \in Addr \ InUse : Deliver(c, h(a), a)
    BY DEF Make
  <1>2. a \in DOMAIN h(a) /\ InUse \subseteq DOMAIN h(a)
    OBVIOUS
  <1>3. DOMAIN h(a) \subseteq Addr
    BY DEF Inv, Referred
  <1>4. \A b \in InUse : h(a)[b] = heap[b]
    OBVIOUS
  <1>5. \A b \in DOMAIN h(a) : h(a)[b].operands \subseteq DOMAIN h(a)
    <2>1. h(a)[a].operands \subseteq InUse
      OBVIOUS
    <2>2. \A b \in InUse : h(a)[b].operands \subseteq InUse
      BY <1>4 DEF Inv, OperandsValid
    <2> QED
      BY <2>1, <2>2
  <1> HIDE DEF h
  <1> QED
    BY <1>1, <1>2, <1>3, <1>4, <1>5, DeliverInv

\* An object that exists is delivered.
LEMMA FoundInv ==
  ASSUME Inv, NEW c \in Cells, NEW a \in InUse, Deliver(c, heap, a)
  PROVE  Inv'
  <1>1. \A b \in DOMAIN heap : heap[b].operands \subseteq DOMAIN heap
    BY DEF Inv, OperandsValid, InUse
  <1>2. DOMAIN heap = InUse /\ InUse \subseteq Addr
    BY DEF Inv, Referred, InUse
  <1> QED
    BY <1>1, <1>2, DeliverInv

-----------------------------------------------------------------------------
(***************************************************************************)
(* The invariant holds                                                     *)
(***************************************************************************)

LEMMA InitInv == Init => Inv
  BY DEF Init, Inv, Referred, OperandsValid, PointersValid, Held, InUse, Cells

LEMMA BuildInv ==
  ASSUME Inv, NEW c \in Locals, NEW p \in Held, NEW q \in Held, Build(c, p, q)
  PROVE  Inv'
  <1> DEFINE a == p.addr
             b == q.addr
             depth == 1 + (IF heap[a].depth < heap[b].depth THEN heap[b].depth ELSE heap[a].depth)
             term == <<heap[a].term, heap[b].term>>
  <1>1. a \in InUse /\ b \in InUse
    BY OperandExists DEF Build
  <1>2. c \in Cells
    BY DEF Cells
  <1>3. \/ Make(c, term, {a, b}, depth)
        \/ Find(c, term)
        \/ \E part \in Parts(a) \cup Parts(b) : Deliver(c, heap, part)
    BY DEF Build
  <1>4. CASE Make(c, term, {a, b}, depth)
    BY <1>1, <1>2, <1>4, MakeInv
  <1>5. CASE Find(c, term)
    BY <1>2, <1>5, FoundInv DEF Find
  <1>6. CASE \E part \in Parts(a) \cup Parts(b) : Deliver(c, heap, part)
    BY <1>1, <1>2, <1>6, FoundInv, PartsExist
  <1> QED
    BY <1>3, <1>4, <1>5, <1>6

LEMMA AssignInv ==
  ASSUME Inv, NEW c \in Cells, NEW p \in Held \cup {Null}, Assign(c, p)
  PROVE  Inv'
  <1> USE DEF Assign
  <1>1. (cell = [d \in Cells |-> cell[d]])'
    BY DEF Inv, Cells
  <1>2. Held' \subseteq Held
    <2>1. \A d \in Cells : cell'[d] \in {p, cell[d]}
      BY DEF Inv
    <2> QED
      BY <2>1 DEF Held, Cells
  <1>3. Referred' /\ OperandsValid'
    BY DEF Inv, Referred, OperandsValid, InUse
  <1>4. PointersValid'
    BY <1>2 DEF Inv, PointersValid, InUse
  <1> QED
    BY <1>1, <1>3, <1>4 DEF Inv

LEMMA ResetInv ==
  ASSUME Inv, Reset
  PROVE  Inv'
  <1> USE DEF Reset
  <1>1. counted \subseteq InUse
    BY DEF Inv, Referred
  <1>2. /\ InUse' \subseteq InUse
        /\ counted \subseteq InUse'
        /\ \A a \in InUse' : heap'[a] = heap[a] /\ heap[a].operands \subseteq InUse'
    BY <1>1, KeptValid DEF InUse
  <1>3. Referred'
    BY <1>2 DEF Inv, Referred
  <1>4. OperandsValid'
    BY <1>2 DEF OperandsValid
  <1>5. PointersValid'
    <2>1. Held' = Held
      BY DEF Held, Cells
    <2> QED
      BY <1>2, <2>1 DEF Inv, Referred, PointersValid
  <1> QED
    BY <1>3, <1>4, <1>5 DEF Inv, Cells

\* A collection keeps the entries of the roots, and these are all the pointers that
\* the client may use from then on.
LEMMA CollectInv ==
  ASSUME Inv, CollectGarbage
  PROVE  Inv'
  <1> USE DEF CollectGarbage
  <1>1. counted' \subseteq counted /\ allocated' \subseteq counted'
    BY DEF Inv, Referred
  <1>2. counted' \cup solver \subseteq InUse
    BY <1>1 DEF Inv, Referred, OperandsValid
  <1>3. /\ InUse' \subseteq InUse
        /\ counted' \cup solver \subseteq InUse'
        /\ \A a \in InUse' : heap'[a] = heap[a] /\ heap[a].operands \subseteq InUse'
    BY <1>2, KeptValid DEF InUse
  <1>4. Referred'
    BY <1>1, <1>3 DEF Inv, Referred
  <1>5. OperandsValid'
    BY <1>3 DEF OperandsValid
  <1>6. PointersValid'
    <2>1. SUFFICES ASSUME NEW p \in Held'
                   PROVE  p.addr \in allocated' \cap InUse' /\ heap'[p.addr].term = p.term
      BY DEF PointersValid
    <2>2. PICK c \in Roots : c \in Cells /\ p = cell[c] /\ p # Null
      BY <2>1 DEF Held, Cells
    <2>3. p \in Held /\ p.addr \in Reachable
      BY <2>2 DEF Held, Reachable
    <2>4. p.addr \in allocated /\ heap[p.addr].term = p.term
      BY <2>3 DEF Inv, PointersValid
    <2>5. p.addr \in allocated'
      BY <2>3, <2>4
    <2> QED
      BY <2>4, <2>5, <1>1, <1>3
  <1>7. (cell = [d \in Cells |-> cell[d]])'
    BY DEF Cells
  <1> QED
    BY <1>4, <1>5, <1>6, <1>7 DEF Inv

LEMMA StepInv == Inv /\ [Next]_vars => Inv'
  <1> SUFFICES ASSUME Inv, [Next]_vars PROVE Inv'
    OBVIOUS
  <1>1. ASSUME NEW c \in Locals, NEW t \in Leaves, BuildLeaf(c, t) PROVE Inv'
    <2>1. c \in Cells
      BY DEF Cells
    <2>2. CASE Make(c, t, {}, 0)
      BY <2>1, <2>2, MakeInv
    <2>3. CASE Find(c, t)
      BY <2>1, <2>3, FoundInv DEF Find
    <2> QED
      BY <1>1, <2>2, <2>3 DEF BuildLeaf
  <1>2. ASSUME NEW c \in Locals, NEW p \in Held, NEW q \in Held, Build(c, p, q)
        PROVE  Inv'
    BY <1>2, BuildInv
  <1>3. ASSUME NEW c \in Cells, NEW p \in Held \cup {Null}, Assign(c, p) PROVE Inv'
    BY <1>3, AssignInv
  <1>4. ASSUME NEW p \in Held, Push(p) PROVE Inv'
    <2>1. p.addr \in InUse
      BY <1>4, OperandExists DEF Push
    <2>2. Held' = Held /\ InUse' = InUse
      BY <1>4 DEF Push, Held, Cells, InUse
    <2> QED
      BY <1>4, <2>1, <2>2
      DEF Push, Inv, Referred, OperandsValid, PointersValid, Cells
  <1>5. CASE Reset
    BY <1>5, ResetInv
  <1>6. CASE RegisterRegion
    <2>1. Held' = Held /\ InUse' = InUse
      BY <1>6 DEF RegisterRegion, Held, Cells, InUse
    <2> QED
      BY <1>6, <2>1
      DEF RegisterRegion, Inv, Referred, OperandsValid, PointersValid, Cells
  <1>7. CASE CollectGarbage
    BY <1>7, CollectInv
  <1>8. CASE UNCHANGED vars
    <2>1. Held' = Held /\ InUse' = InUse
      BY <1>8 DEF vars, Held, Cells, InUse
    <2> QED
      BY <1>8, <2>1 DEF vars, Inv, Referred, OperandsValid, PointersValid, Cells
  <1> QED
    BY <1>1, <1>2, <1>3, <1>4, <1>5, <1>6, <1>7, <1>8 DEF Next

\* The invariant of the registry.
THEOREM Invariance == Spec => []Inv
  <1> QED
    BY InitInv, StepInv, PTL DEF Spec

\* No pointer that a client may use is unregistered, dangles, or has come to denote
\* another expression (registerExpression, _sym_collect_garbage).
THEOREM PointersStayValid == Spec => []PointersValid
  <1>1. Inv => PointersValid
    BY DEF Inv
  <1> QED
    BY <1>1, Invariance, PTL

\* Operands of live expressions, and the constraints given to the solver, outlive the
\* erasure of their own entries.
THEOREM OperandsStayValid == Spec => []OperandsValid
  <1>1. Inv => OperandsValid
    BY DEF Inv
  <1> QED
    BY <1>1, Invariance, PTL

\* A collection that is due leaves nothing that neither a root nor the solver needs
\* (_sym_collect_garbage of the QSYM backend).
THEOREM CollectionFrees == Spec => GarbageFreed
  <1>1. ASSUME Inv, CollectGarbage, backend = "qsym"
        PROVE  InUse' \subseteq Alive(heap, Reachable \cup solver)
    <2>1. heap' = Kept(heap, counted' \cup solver)
      BY <1>1 DEF CollectGarbage
    <2>2. counted' \subseteq Reachable
      BY <1>1 DEF CollectGarbage
    <2>3. InUse' \subseteq Alive(heap, counted' \cup solver)
      BY <2>1 DEF InUse, Kept
    <2>4. Alive(heap, counted' \cup solver) \subseteq Alive(heap, Reachable \cup solver)
      BY <2>2 DEF Alive
    <2> QED
      BY <2>3, <2>4
  <1>2. Inv => [CollectGarbage /\ backend = "qsym" =>
                 InUse' \subseteq Alive(heap, Reachable \cup solver)]_vars
    BY <1>1
  <1> QED
    BY <1>2, Invariance, PTL DEF GarbageFreed
=============================================================================
