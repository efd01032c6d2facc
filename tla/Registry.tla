------------------------------ MODULE Registry -------------------------------
(***************************************************************************)
(* How long an expression lives: the backends hand raw pointers to their   *)
(* clients and keep the expressions alive in allocatedExpressions          *)
(* (qsym_backend/Runtime.cpp, simple_backend/Runtime.cpp) until a garbage  *)
(* collection finds that no root refers to them                            *)
(* (runtime/GarbageCollection.cpp).                                        *)
(*                                                                         *)
(* "heap" is the memory of the expression library, where an object lives   *)
(* as long as something refers to it and where an address is used again.   *)
(* The client holds pointers in cells.  Shadow memory and the regions that *)
(* it has registered are roots; a local variable (an SSA value, a          *)
(* parameter or return slot) is not, and a client must not use it after a  *)
(* collection.  With each pointer goes, as history, the term that it       *)
(* denoted when the client received it.                                    *)
(***************************************************************************)
EXTENDS Integers, FiniteSets

CONSTANTS
  Addr,        \* the addresses of expressions
  Leaves,      \* input bytes and constants
  Locals,      \* cells that are never roots
  Region,      \* the cells of a region that the client may register
  Shadow,      \* the cells of the shadow memory
  Threshold,   \* g_config.garbageCollectionThreshold
  MaxDepth,    \* bound on the depth of a term
  Null         \* a null pointer

ASSUME RegistryAssumption ==
  /\ Threshold \in Nat
  /\ MaxDepth \in Nat
  /\ Locals \cap (Region \cup Shadow) = {}

VARIABLES
  backend,     \* "simple" or "qsym"
  heap,        \* the objects at addresses in use: terms and operands
  allocated,   \* allocatedExpressions
  counted,     \* the objects that the backend holds a reference to
  solver,      \* the objects that path constraints refer to
  cell,        \* the pointers of the client
  registered   \* expressionRegions: whether Region is one of them

vars == <<backend, heap, allocated, counted, solver, cell, registered>>

Cells == Locals \cup Region \cup Shadow
InUse == DOMAIN heap

\* The objects of h that the references in S keep alive: those in every set with S
\* and with the operands of what is in it
Alive(h, S) ==
  {a \in Addr : \A T \in SUBSET Addr :
     S \subseteq T /\ (\A b \in T \cap DOMAIN h : h[b].operands \subseteq T) => a \in T}

\* What is left of h
Kept(h, S) == [a \in DOMAIN h \cap Alive(h, S) |-> h[a]]

Pointer(h, a) == [addr |-> a, term |-> h[a].term]

(***************************************************************************)
(* The registry.                                                           *)
(***************************************************************************)

Init ==
  /\ backend \in {"simple", "qsym"}
  /\ heap = [a \in {} |-> Null]
  /\ allocated = {} /\ counted = {} /\ solver = {}
  /\ cell = [c \in Cells |-> Null]
  /\ registered = FALSE

\* Mutant: only new objects are registered.
RegisterNew(a) ==
  LET new == a \notin InUse
  IN  /\ allocated' = IF new THEN allocated \cup {a} ELSE allocated
      /\ counted' = IF new THEN counted \cup {a} ELSE counted

\* registerExpression
RegisterExpression(a) ==
  /\ allocated' = allocated \cup {a}
  /\ counted' = counted \cup {a}

\* A builder's result: an object that it has just made, or one that exists, because
\* the library finds the same term in its cache or simplifies to a part of it.  The
\* client puts the pointer into a local variable.
Deliver(c, h, a) ==
  /\ heap' = h
  /\ RegisterExpression(a)
  /\ cell' = [cell EXCEPT ![c] = Pointer(h, a)]
  /\ UNCHANGED <<backend, solver, registered>>

Make(c, term, operands, depth) ==
  LET object == [term |-> term, operands |-> operands, depth |-> depth]
  IN  \E a \in Addr \ InUse :
        Deliver(c, [b \in InUse \cup {a} |-> IF b = a THEN object ELSE heap[b]], a)

Find(c, term) == \E a \in InUse : heap[a].term = term /\ Deliver(c, heap, a)

\* _sym_build_integer, _sym_get_input_byte, ...
BuildLeaf(c, t) == Make(c, t, {}, 0) \/ Find(c, t)

\* An operand reaches the library through allocatedExpressions.at in the QSYM
\* backend, which throws if it is not there, and as it is in the simple one.
Operand(a) == IF backend = "qsym" THEN a \in allocated ELSE a \in InUse

\* The objects that make up an object
Parts(a) == Alive(heap, {a})

\* _sym_build_add, _sym_extract_helper, ...
Build(c, p, q) ==
  LET a == p.addr
      b == q.addr
      depth == 1 + (IF heap[a].depth < heap[b].depth THEN heap[b].depth ELSE heap[a].depth)
      term == <<heap[a].term, heap[b].term>>
  IN  /\ Operand(a) /\ Operand(b)
      /\ depth <= MaxDepth
      /\ \/ Make(c, term, {a, b}, depth)
         \/ Find(c, term)
         \/ \E part \in Parts(a) \cup Parts(b) : Deliver(c, heap, part)

\* Copying of a pointer between cells, and overwriting with null: loads, stores and
\* whatever else the client does.
Assign(c, p) ==
  /\ cell' = [cell EXCEPT ![c] = p]
  /\ UNCHANGED <<backend, heap, allocated, counted, solver, registered>>

\* _sym_push_path_constraint, addJcc
Push(p) ==
  /\ Operand(p.addr)
  /\ solver' = solver \cup {p.addr}
  /\ UNCHANGED <<backend, heap, allocated, counted, cell, registered>>

\* The solver's forgetting the constraints that it has
Reset ==
  /\ solver' = {}
  /\ heap' = Kept(heap, counted)
  /\ UNCHANGED <<backend, allocated, counted, cell, registered>>

\* _sym_register_expression_region
RegisterRegion ==
  /\ registered' = TRUE
  /\ UNCHANGED <<backend, heap, allocated, counted, solver, cell>>

Roots == Shadow \cup (IF registered THEN Region ELSE {})

\* Mutant: the registered regions only.
ReachableFromRegions == {cell[c].addr : c \in {d \in Roots \ Shadow : cell[d] # Null}}

\* collectReachableExpressions
Reachable == {cell[c].addr : c \in {d \in Roots : cell[d] # Null}}

\* Mutant: an entry that is erased leaves its reference behind.
CollectNothing ==
  /\ Cardinality(allocated) >= Threshold
  /\ allocated' = allocated \cap Reachable
  /\ cell' = [c \in Cells |-> IF c \in Roots THEN cell[c] ELSE Null]
  /\ UNCHANGED <<backend, heap, counted, solver, registered>>

\* _sym_collect_garbage.  Erasing an entry drops the reference in the QSYM backend
\* (a shared_ptr) but not in the simple one (there is no Z3_dec_ref).
CollectGarbage ==
  /\ Cardinality(allocated) >= Threshold
  /\ allocated' = allocated \cap Reachable
  /\ counted' = IF backend = "qsym" THEN allocated' ELSE counted
  /\ heap' = Kept(heap, counted' \cup solver)
  /\ cell' = [c \in Cells |-> IF c \in Roots THEN cell[c] ELSE Null]
  /\ UNCHANGED <<backend, solver, registered>>

Held == {cell[c] : c \in Cells} \ {Null}

Next ==
  \/ \E c \in Locals, t \in Leaves : BuildLeaf(c, t)
  \/ \E c \in Locals, p, q \in Held : Build(c, p, q)
  \/ \E c \in Cells, p \in Held \cup {Null} : Assign(c, p)
  \/ \E p \in Held : Push(p)
  \/ Reset
  \/ RegisterRegion
  \/ CollectGarbage

Spec == Init /\ [][Next]_vars

-----------------------------------------------------------------------------
(***************************************************************************)
(* Properties                                                              *)
(***************************************************************************)

\* Every pointer that the client may use is registered and still denotes what it
\* denoted when the client received it: no operand makes
\* allocatedExpressions.at throw, none dangles, and no address was used again under
\* a pointer in use (registerExpression, collectReachableExpressions).
PointersValid ==
  \A p \in Held : p.addr \in allocated \cap InUse /\ heap[p.addr].term = p.term

\* An object's operands, and those of what the solver was given, are there and
\* are what the object was made of, also if their own entries were erased.
OperandsValid ==
  /\ solver \subseteq InUse
  /\ \A a \in InUse : heap[a].operands \subseteq InUse

\* In the QSYM backend a collection that is due leaves nothing but what the roots and
\* the solver need: clients with few live expressions stay within bounded memory.
GarbageFreed ==
  [][CollectGarbage /\ backend = "qsym" =>
       InUse' \subseteq Alive(heap, Reachable \cup solver)]_vars
=============================================================================
