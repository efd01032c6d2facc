---------------------------- MODULE CallProtocol ----------------------------
(***************************************************************************)
(* How symbolic expressions cross function calls.  The pass                *)
(* (compiler/Symbolizer.cpp) emits, around every call of an instrumented   *)
(* function, runtime calls that pass the arguments' expressions and the    *)
(* result's expression through two global slots: g_function_arguments and  *)
(* g_return_value (runtime/RuntimeCommon.cpp).  A callee may be            *)
(* instrumented or not; a call may end by unwinding; code that is not      *)
(* instrumented may call back into code that is.                           *)
(*                                                                         *)
(* A frame remembers the expressions the callee loaded for its parameters  *)
(* and, in "truth", those of the values it was really given.  A value      *)
(* computed by code that is not instrumented is opaque: its expression is  *)
(* Null.                                                                   *)
(***************************************************************************)
EXTENDS Naturals, Sequences, FiniteSets

CONSTANTS
  Expr,        \* expressions of symbolic values
  Null,        \* no expression: a concrete value
  Slots,       \* the size of g_function_arguments
  MaxArity,    \* functions take at most this many parameters
  MaxDepth,    \* bound on the call depth
  Callbacks    \* whether uninstrumented code calls instrumented code

ASSUME CallAssumption ==
  /\ Null \notin Expr
  /\ Slots \in Nat \ {0}
  /\ MaxArity \in Nat
  /\ MaxDepth \in Nat \ {0}
  /\ Callbacks \in BOOLEAN

VARIABLES
  args,        \* g_function_arguments
  ret,         \* g_return_value
  stack,       \* the call stack, innermost frame first
  fetched      \* the last result a caller fetched, and the true one

vars == <<args, ret, stack, fetched>>

Value == Expr \cup {Null}

\* Parameter lists: one expression per parameter, from number 0.
Params == UNION {[0 .. n - 1 -> Value] : n \in 0 .. MaxArity}

\* The parameter number travels as an 8-bit index into the array.
Slot(i) == i % Slots

Top == stack[1]
Instrumented(f) == f.kind = "instrumented"

\* wants: the frame is in a call whose result is used afterwards.
Frame(kind, loaded, truth) ==
  [kind |-> kind, loaded |-> loaded, truth |-> truth, wants |-> FALSE]

\* main does not load any parameters.
Init ==
  /\ args = [i \in 0 .. Slots - 1 |-> Null]
  /\ ret = Null
  /\ stack = <<Frame("instrumented", <<>>, <<>>)>>
  /\ fetched = [got |-> Null, truth |-> Null]

\* Mutant: a null expression is not worth a call.
SetSymbolicParameters(p) ==
  [s \in 0 .. Slots - 1 |->
     LET I == {i \in DOMAIN p : Slot(i) = s /\ p[i] # Null}
     IN  IF I = {} THEN args[s] ELSE p[CHOOSE i \in I : \A j \in I : j <= i]]

\* _sym_set_parameter_expression for every operand in turn
SetParameters(p) ==
  [s \in 0 .. Slots - 1 |->
     LET I == {i \in DOMAIN p : Slot(i) = s}
     IN  IF I = {} THEN args[s] ELSE p[CHOOSE i \in I : \A j \in I : j <= i]]

GetAllParameters(a, p) == a     \* mutant: not one per parameter

\* _sym_get_parameter_expression for every parameter, on function entry; the
\* slots keep their contents.
GetParameters(a, p) == [i \in DOMAIN p |-> a[Slot(i)]]

KeptSlot(used) == ret     \* mutant: the slot is not cleared

\* The return slot before a call
ClearedSlot(used) == IF used THEN Null ELSE ret

(***************************************************************************)
(* handleFunctionCall, up to the call: set the parameters; if the result   *)
(* is used, clear the return slot.                                         *)
(***************************************************************************)
Call(kind, p, used) ==
  /\ Len(stack) < MaxDepth
  /\ Instrumented(Top)
  /\ args' = SetParameters(p)
  /\ ret' = ClearedSlot(used)
  /\ stack' = <<Frame(kind, IF kind = "instrumented"
                            THEN GetParameters(args', p) ELSE p, p),
                [Top EXCEPT !.wants = used]>> \o Tail(stack)
  /\ UNCHANGED fetched

(***************************************************************************)
(* Code without instrumentation calls a function: no slot is touched.  The *)
(* values it passes are opaque, and so are its own results.                *)
(***************************************************************************)
CallBack(kind, p) ==
  /\ Callbacks \/ kind = "plain"
  /\ Len(stack) < MaxDepth
  /\ ~Instrumented(Top)
  /\ stack' = <<Frame(kind, IF kind = "instrumented"
                            THEN GetParameters(args, p) ELSE p, p)>> \o stack
  /\ UNCHANGED <<args, ret, fetched>>

(***************************************************************************)
(* The return point: control comes back to the caller below the top frame, *)
(* r being in the return slot and v the true expression of the result.  An *)
(* instrumented caller that uses the result fetches and clears the slot.   *)
(***************************************************************************)
ReturnTo(r, v) ==
  /\ Len(stack) > 1
  /\ LET caller == stack[2]
         fetch  == Instrumented(caller) /\ caller.wants
     IN  /\ ret' = IF fetch THEN Null ELSE r
         /\ fetched' = IF fetch THEN [got |-> r, truth |-> v] ELSE fetched
         /\ stack' = <<[caller EXCEPT !.wants = FALSE]>>
                       \o SubSeq(stack, 3, Len(stack))
  /\ UNCHANGED args

\* Mutant: a null expression is not worth a call.
ReturnSymbolic(v) ==
  /\ Instrumented(Top)
  /\ ReturnTo(IF v = Null THEN ret ELSE v, v)

\* visitReturnInst with a value of expression v, set even when it is null
Return(v) ==
  /\ Instrumented(Top)
  /\ ReturnTo(v, v)

\* ret void: nobody can use the result, and the slot keeps its contents
ReturnVoid ==
  /\ Instrumented(Top)
  /\ Len(stack) > 1
  /\ ~stack[2].wants
  /\ ReturnTo(ret, Null)

\* An uninstrumented function returns: its result is opaque.
ReturnPlain ==
  /\ ~Instrumented(Top)
  /\ ReturnTo(ret, Null)

(***************************************************************************)
(* An exception or longjmp leaves k frames.  visitInvokeInst queries the   *)
(* result on the normal edge only, so the slots keep what they hold.       *)
(***************************************************************************)
Unwind(k) ==
  /\ k \in 1 .. Len(stack) - 1
  /\ stack' = <<[stack[k + 1] EXCEPT !.wants = FALSE]>>
                \o SubSeq(stack, k + 2, Len(stack))
  /\ UNCHANGED <<args, ret, fetched>>

Next ==
  \/ \E kind \in {"instrumented", "plain"}, p \in Params, used \in BOOLEAN :
       Call(kind, p, used)
  \/ \E kind \in {"instrumented", "plain"},
        n \in 0 .. MaxArity : CallBack(kind, [i \in 0 .. n - 1 |-> Null])
  \/ \E v \in Value : Return(v)
  \/ ReturnVoid
  \/ ReturnPlain
  \/ \E k \in 1 .. MaxDepth : Unwind(k)

Spec == Init /\ [][Next]_vars

-----------------------------------------------------------------------------
TypeOK ==
  /\ args \in [0 .. Slots - 1 -> Value]
  /\ ret \in Value
  /\ Len(stack) \in 1 .. MaxDepth
  /\ \A i \in 1 .. Len(stack) :
       /\ stack[i].kind \in {"instrumented", "plain"}
       /\ stack[i].wants \in BOOLEAN
       /\ DOMAIN stack[i].loaded = DOMAIN stack[i].truth
  /\ fetched \in [got : Value, truth : Value]

\* An instrumented function sees, for every parameter, the expression of the
\* value it was passed and never one left over from an earlier call
\* (symbolizeFunctionArguments, handleFunctionCall).
ParamsExact ==
  \A i \in 1 .. Len(stack) :
    Instrumented(stack[i]) => stack[i].loaded = stack[i].truth

\* The result of a function that is not instrumented is an opaque concrete
\* value, and that of an instrumented one has the expression it returned,
\* whatever earlier calls and unwound frames left in the slot (the comment of
\* handleFunctionCall).
ResultExact == fetched.got = fetched.truth

\* A caller that waits for a result while only uninstrumented code runs above
\* it finds the return slot empty all the while: returning at any moment, by
\* however many uninstrumented frames, yields a concrete value.
AwaitedSlotEmpty ==
  \A i \in 2 .. Len(stack) :
    stack[i].wants /\ (\A j \in 1 .. i - 1 : ~Instrumented(stack[j])) => ret = Null
=============================================================================
