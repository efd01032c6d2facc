------------------------------- MODULE Backend -------------------------------
(***************************************************************************)
(* What the two symbolic backends make of scalar code: the builders of     *)
(* runtime/simple_backend/Runtime.cpp, which hand their operands to Z3,    *)
(* and of runtime/qsym_backend/Runtime.cpp, the handlers that              *)
(* compiler/Runtime.cpp gives to opcodes and predicates, the simple        *)
(* backend's table of input bytes, and what it asserts to its solver.      *)
(*                                                                         *)
(* As in Instrumentation, a value is a function of the input, and so is an *)
(* expression; "alive" holds the inputs on which the program would have    *)
(* taken the same branches so far.  A program has no say in what happens   *)
(* after undefined behaviour: "defined" holds the inputs that avoid it.    *)
(* "asserted" holds the inputs that satisfy what the solver was told.      *)
(*                                                                         *)
(* Integers have Bits bits, floating-point numbers are halves between -Big *)
(* and Big, or NaN; there are no infinities, and a division by zero is NaN.*)
(***************************************************************************)
EXTENDS Integers, Sequences, FiniteSets, Functions

CONSTANTS
  Bits,        \* width of an integer
  Big,         \* the largest floating-point number, in halves
  IntLiterals, \* the integer constants of the program
  Literals,    \* its floating-point constants
  InputLen,    \* the number of input bytes
  Inputs,      \* the inputs that are told apart
  Registers,   \* the SSA values that are in use
  Null,        \* no expression
  NaN,
  MaxSteps     \* bound on the number of instructions

\* Two to the power n
Power[n \in Nat] == IF n = 0 THEN 1 ELSE 2 * Power[n - 1]

ASSUME BackendAssumption ==
  /\ Bits \in Nat \ {0}
  /\ Big \in Nat \ {0}
  /\ IntLiterals \subseteq 0 .. Power[Bits] - 1
  /\ Literals \subseteq (-Big .. Big) \cup {NaN}
  /\ InputLen \in Nat \ {0}
  /\ Inputs \subseteq [0 .. InputLen - 1 -> 0 .. Power[Bits] - 1]
  /\ MaxSteps \in Nat

\* A null pointer is no expression.
ASSUME NullAssumption == Null \notin [Inputs -> Int \cup {NaN}]

VARIABLES
  backend,     \* "simple" or "qsym"
  input,       \* the input of this process
  reg,         \* registers: type, value and expression
  stdinBytes,  \* simple backend: the numbers in the names of its variables
  asserted,    \* the inputs that satisfy the solver's assertions
  defined,     \* the inputs without undefined behaviour so far
  alive,       \* those of them that take the same path
  gaps,        \* history: known shortcomings that the program has met
  steps        \* the number of instructions executed

vars == <<backend, input, reg, stdinBytes, asserted, defined, alive, gaps, steps>>

Ints == 0 .. Power[Bits] - 1

(***************************************************************************)
(* What the program computes.                                              *)
(***************************************************************************)

Truth(b) == IF b THEN 1 ELSE 0
Abs(z) == IF z < 0 THEN -z ELSE z
Wrap(z) == z % Power[Bits]
Signed(n) == IF 2 * n < Power[Bits] THEN n ELSE n - Power[Bits]

\* The quotient, rounded toward zero
Quotient(a, b) == IF (a < 0) = (b < 0) THEN Abs(a) \div Abs(b) ELSE -(Abs(a) \div Abs(b))

\* Bit by bit; F says for which sums of two bits there is one in the result.
BitByBit(F, m, n) ==
  LET Bit(k) == ((m \div Power[k]) % 2) + ((n \div Power[k]) % 2) \in F
      Low[k \in Nat] == IF k = 0 THEN 0
                        ELSE Low[k - 1] + (IF Bit(k - 1) THEN Power[k - 1] ELSE 0)
  IN  Low[Bits]

Logical == {"And", "Or", "Xor"}
Divisions == {"UDiv", "SDiv", "URem", "SRem"}
Shifts == {"Shl", "LShr", "AShr"}
Opcodes == {"Add", "Sub", "Mul"} \cup Divisions \cup Shifts \cup Logical

IsDefined(op, m, n) ==
  /\ op \in Divisions => n # 0
  /\ op \in {"SDiv", "SRem"} => ~(Signed(m) = -(Power[Bits - 1]) /\ Signed(n) = -1)
  /\ op \in Shifts => n < Bits

Compute(op, m, n) ==
  CASE op = "Add"  -> Wrap(m + n)
    [] op = "Sub"  -> Wrap(m - n)
    [] op = "Mul"  -> Wrap(m * n)
    [] op = "UDiv" -> m \div n
    [] op = "URem" -> m % n
    [] op = "SDiv" -> Wrap(Quotient(Signed(m), Signed(n)))
    [] op = "SRem" -> Wrap(Signed(m) - Signed(n) * Quotient(Signed(m), Signed(n)))
    [] op = "Shl"  -> Wrap(m * Power[n])
    [] op = "LShr" -> m \div Power[n]
    [] op = "AShr" -> Wrap(Signed(m) \div Power[n])
    [] op = "And"  -> BitByBit({2}, m, n)
    [] op = "Or"   -> BitByBit({1, 2}, m, n)
    [] op = "Xor"  -> BitByBit({1}, m, n)

Rel(rel, a, b) ==
  CASE rel = "EQ" -> a = b
    [] rel = "NE" -> a # b
    [] rel = "LT" -> a < b
    [] rel = "LE" -> a <= b
    [] rel = "GT" -> a > b
    [] rel = "GE" -> a >= b
    [] rel = "ANY" -> TRUE

Orders == {"LT", "LE", "GT", "GE"}

\* ICMP_EQ, ICMP_NE, ICMP_ULT, ICMP_SLT, ...
IntPredicates == ({"U", "S"} \X Orders) \cup ({"U"} \X {"EQ", "NE"})

IntCompare(p, m, n) ==
  IF p[1] = "S" THEN Rel(p[2], Signed(m), Signed(n)) ELSE Rel(p[2], m, n)

\* FCMP_OEQ, FCMP_UEQ, ..., and FCMP_ORD and FCMP_UNO with "ANY"
FloatPredicates == {"O", "U"} \X (Orders \cup {"EQ", "NE", "ANY"})

Ordered(a, b) == a # NaN /\ b # NaN

FloatCompare(p, a, b) ==
  IF p[1] = "O" THEN Ordered(a, b) /\ Rel(p[2], a, b)
  ELSE Ordered(a, b) => p[2] # "ANY" /\ Rel(p[2], a, b)

FloatOpcodes == {"FAdd", "FSub", "FMul", "FDiv", "FRem"}

Clamp(z) == IF z > Big THEN Big ELSE IF z < -Big THEN -Big ELSE z

FloatCompute(op, a, b) ==
  IF ~Ordered(a, b) \/ (op \in {"FDiv", "FRem"} /\ b = 0) THEN NaN
  ELSE CASE op = "FAdd" -> Clamp(a + b)
         [] op = "FSub" -> Clamp(a - b)
         [] op = "FMul" -> Clamp((a * b) \div 2)
         [] op = "FDiv" -> Clamp(Quotient(2 * a, b))
         [] op = "FRem" -> a - b * Quotient(a, b)

(***************************************************************************)
(* What the builders make.  Bitvector is the theory of bit vectors, which  *)
(* both backends end up in and which gives everything a meaning.           *)
(***************************************************************************)

Negated(m) == Wrap(-m)
Magnitude(m) == IF Signed(m) < 0 THEN Negated(m) ELSE m
Ratio(m, n) == IF n = 0 THEN Power[Bits] - 1 ELSE m \div n
Rest(m, n) == IF n = 0 THEN m ELSE m % n
Shifted(m, n) == m \div Power[n]

Bitvector(f, m, n) ==
  CASE f \in {"bvadd", "Add"}   -> Wrap(m + n)
    [] f \in {"bvsub", "Sub"}   -> Wrap(m + Negated(n))
    [] f \in {"bvmul", "Mul"}   -> Wrap(m * n)
    [] f \in {"bvudiv", "UDiv"} -> Ratio(m, n)
    [] f \in {"bvurem", "URem"} -> Rest(m, n)
    [] f \in {"bvsdiv", "SDiv"} ->
         LET q == Ratio(Magnitude(m), Magnitude(n))
         IN  IF (Signed(m) < 0) = (Signed(n) < 0) THEN q ELSE Negated(q)
    [] f \in {"bvsrem", "SRem"} ->
         LET r == Rest(Magnitude(m), Magnitude(n))
         IN  IF Signed(m) < 0 THEN Negated(r) ELSE r
    [] f \in {"bvshl", "Shl"}   -> Wrap(m * Power[n])
    [] f \in {"bvlshr", "LShr"} -> Shifted(m, n)
    [] f \in {"bvashr", "AShr"} ->
         IF Signed(m) < 0 THEN Power[Bits] - 1 - Shifted(Power[Bits] - 1 - m, n)
         ELSE Shifted(m, n)
    [] f \in {"bvand", "And"}   -> BitByBit({2}, m, n)
    [] f \in {"bvor", "Or"}     -> BitByBit({1, 2}, m, n)
    [] f \in {"bvxor", "Xor"}   -> BitByBit({1}, m, n)

\* Mutant: right shifts are all logical.
LogicalShifts(op) ==
  CASE op = "Add"  -> "add"          [] op = "Sub"  -> "sub"
    [] op = "Mul"  -> "mul"          [] op = "Shl"  -> "shift_left"
    [] op = "UDiv" -> "unsigned_div" [] op = "SDiv" -> "signed_div"
    [] op = "URem" -> "unsigned_rem" [] op = "SRem" -> "signed_rem"
    [] op = "LShr" -> "logical_shift_right"
    [] op = "AShr" -> "logical_shift_right"
    [] op = "And"  -> "and" [] op = "Or" -> "or" [] op = "Xor" -> "xor"

\* binaryOperatorHandlers: the builder for an opcode
Handler(op) ==
  CASE op = "Add"  -> "add"          [] op = "Sub"  -> "sub"
    [] op = "Mul"  -> "mul"          [] op = "Shl"  -> "shift_left"
    [] op = "UDiv" -> "unsigned_div" [] op = "SDiv" -> "signed_div"
    [] op = "URem" -> "unsigned_rem" [] op = "SRem" -> "signed_rem"
    [] op = "LShr" -> "logical_shift_right"
    [] op = "AShr" -> "arithmetic_shift_right"
    [] op = "And"  -> "and" [] op = "Or" -> "or" [] op = "Xor" -> "xor"

\* The function of Z3 that a builder of the simple backend calls, ...
SimpleBuilder(name) ==
  CASE name = "add" -> "bvadd" [] name = "sub" -> "bvsub" [] name = "mul" -> "bvmul"
    [] name = "unsigned_div" -> "bvudiv" [] name = "signed_div" -> "bvsdiv"
    [] name = "unsigned_rem" -> "bvurem" [] name = "signed_rem" -> "bvsrem"
    [] name = "shift_left"   -> "bvshl"
    [] name = "logical_shift_right"    -> "bvlshr"
    [] name = "arithmetic_shift_right" -> "bvashr"
    [] name = "and" -> "bvand" [] name = "or" -> "bvor" [] name = "xor" -> "bvxor"

\* ... and the kind of expression that one of the QSYM backend creates
QsymBuilder(name) ==
  CASE name = "add" -> "Add" [] name = "sub" -> "Sub" [] name = "mul" -> "Mul"
    [] name = "unsigned_div" -> "UDiv" [] name = "signed_div" -> "SDiv"
    [] name = "unsigned_rem" -> "URem" [] name = "signed_rem" -> "SRem"
    [] name = "shift_left"   -> "Shl"
    [] name = "logical_shift_right"    -> "LShr"
    [] name = "arithmetic_shift_right" -> "AShr"
    [] name = "and" -> "And" [] name = "or" -> "Or" [] name = "xor" -> "Xor"

\* What an expression over bit vectors means in either backend
Built(op, m, n) ==
  Bitvector(IF backend = "simple" THEN SimpleBuilder(Handler(op)) ELSE QsymBuilder(Handler(op)),
            m, n)

\* Booleans: and, or, exclusive or; in QSYM, LAnd, LOr, Distinct
SimpleBool(op, m, n) ==
  CASE op = "And" -> m * n [] op = "Or" -> m + n - m * n [] op = "Xor" -> (m + n) % 2
QsymBool(op, m, n) ==
  Truth(CASE op = "And" -> {m, n} = {1} [] op = "Or" -> 1 \in {m, n} [] op = "Xor" -> m # n)

\* Comparisons, of bit vectors and as fpa_eq, fpa_lt, ... do them
BvCompare(p, m, n) ==
  LET V(k) == IF p[1] = "S" THEN Signed(k) ELSE k IN Rel(p[2], V(m), V(n))
FpaCompare(rel, a, b) == Ordered(a, b) /\ Rel(rel, a, b)

\* Mutant: NaN is not looked for on the right.
LeftNaN(p, a, b) ==
  LET ordered == CASE p[2] = "ANY" -> Ordered(a, b)
                   [] p[2] = "NE"  -> ~FpaCompare("EQ", a, b)
                   [] OTHER        -> FpaCompare(p[2], a, b)
  IN  IF p[1] = "O" THEN ordered ELSE a = NaN \/ (p[2] # "ANY" /\ ordered)

\* _sym_build_float_ordered_... and _sym_build_float_unordered_...
FloatBuilder(p, a, b) ==
  LET ordered == CASE p[2] = "ANY" -> Ordered(a, b)
                   [] p[2] = "NE"  -> ~FpaCompare("EQ", a, b)
                   [] OTHER        -> FpaCompare(p[2], a, b)
  IN  IF p[1] = "O" THEN ordered
      ELSE a = NaN \/ b = NaN \/ (p[2] # "ANY" /\ ordered)

\* The integer closest to a / b, an even one if two are
Nearest(a, b) ==
  CHOOSE q \in -2 * Big .. 2 * Big :
    LET off == 2 * Abs(a - q * b)
    IN  off < Abs(b) \/ (off = Abs(b) /\ q % 2 = 0)

\* _sym_build_fp_add, ...: as the processor does it, but for the remainder,
\* which is the one of IEEE 754 (Z3_mk_fpa_rem).
FloatArithmetic(op, a, b) ==
  IF op = "FRem" /\ Ordered(a, b) /\ b # 0 THEN a - b * Nearest(a, b)
  ELSE FloatCompute(op, a, b)

(***************************************************************************)
(* The client: code that the pass has instrumented.                        *)
(***************************************************************************)

Const(t, c) == [type |-> t, value |-> [i \in Inputs |-> c], expr |-> Null]

Loaded(t) == {v \in Range(reg) : v.type = t}
Operands(t) ==
  Loaded(t) \cup {Const(t, c) : c \in CASE t = "bool" -> {0, 1}
                                       [] t = "int" -> IntLiterals
                                       [] t = "float" -> Literals}

\* _sym_build_integer, _sym_build_float, _sym_build_bool for a concrete operand
Operand(v) == IF v.expr = Null THEN [i \in Inputs |-> v.value[input]] ELSE v.expr

\* Mutant: one concrete operand makes the result concrete.
AllSymbolic(vs) == \A v \in vs : v.expr # Null

Symbolic(vs) == \E v \in vs : v.expr # Null

Init ==
  /\ backend \in {"simple", "qsym"}
  /\ input \in Inputs
  /\ reg = [r \in Registers |-> Const("int", 0)]
  /\ stdinBytes = <<>>
  /\ asserted = Inputs /\ defined = Inputs /\ alive = Inputs
  /\ gaps = {}
  /\ steps = 0

Note(gap, seen) == gaps' = IF seen THEN gaps \cup {gap} ELSE gaps

\* A new register: a value computed from xs, and what builder f makes if one of
\* them is symbolic.
Set(r, t, xs, value, f) ==
  reg' = [reg EXCEPT ![r] = [type |-> t, value |-> value,
                             expr |-> IF Symbolic(xs) THEN f ELSE Null]]

\* Mutant: the gap in the table is filled with the new variable.
FilledGap(r, k) ==
  LET size == Len(stdinBytes)
      byte == [i \in Inputs |-> i[k]]
  IN  /\ stdinBytes' =
           IF backend = "simple" /\ k >= size
             THEN stdinBytes \o [j \in 1 .. k - size |-> size] \o <<size>>
             ELSE stdinBytes
      /\ Note("input byte", FALSE)
      /\ reg' = [reg EXCEPT ![r] = [type |-> "int", value |-> byte, expr |-> byte]]
      /\ UNCHANGED <<asserted, defined, alive>>

\* _sym_get_input_byte.  The simple backend fills its table up to the offset that
\* it is asked for, with null pointers in between.
GetInputByte(r, k) ==
  LET size == Len(stdinBytes)
      null == backend = "simple" /\ k < size /\ stdinBytes[k + 1] = Null
      byte == [i \in Inputs |-> i[k]]
  IN  /\ stdinBytes' =
           IF backend = "simple" /\ k >= size
             THEN stdinBytes \o [j \in 1 .. k - size |-> Null] \o <<size>>
             ELSE stdinBytes
      /\ Note("input byte", null)
      /\ reg' = [reg EXCEPT ![r] = [type |-> "int", value |-> byte,
                                    expr |-> IF null THEN Null ELSE byte]]
      /\ UNCHANGED <<asserted, defined, alive>>

\* visitBinaryOperator on integers, with binaryOperatorHandlers
Binary(r, op, x, y) ==
  LET ok(i) == IsDefined(op, x.value[i], y.value[i])
  IN  /\ ok(input)
      /\ Set(r, "int", {x, y},
             [i \in Inputs |-> IF ok(i) THEN Compute(op, x.value[i], y.value[i]) ELSE 0],
             [i \in Inputs |-> Built(op, Operand(x)[i], Operand(y)[i])])
      /\ defined' = {i \in defined : ok(i)}
      /\ alive' = {i \in alive : ok(i)}
      /\ UNCHANGED <<stdinBytes, asserted, gaps>>

\* visitBinaryOperator on Booleans, with buildBoolAnd, buildBoolOr, buildBoolXor
Boolean(r, op, x, y) ==
  LET F(m, n) == CASE op = "And" -> m * n
                   [] op = "Or"  -> Truth(m + n > 0)
                   [] op = "Xor" -> Truth(m + n = 1)
      Made(m, n) == IF backend = "simple" THEN SimpleBool(op, m, n) ELSE QsymBool(op, m, n)
  IN  /\ Set(r, "bool", {x, y},
             [i \in Inputs |-> F(x.value[i], y.value[i])],
             [i \in Inputs |-> Made(Operand(x)[i], Operand(y)[i])])
      /\ UNCHANGED <<stdinBytes, asserted, defined, alive, gaps>>

\* visitCmpInst, with comparisonHandlers
ICmp(r, p, x, y) ==
  /\ Set(r, "bool", {x, y},
         [i \in Inputs |-> Truth(IntCompare(p, x.value[i], y.value[i]))],
         [i \in Inputs |-> Truth(BvCompare(p, Operand(x)[i], Operand(y)[i]))])
  /\ UNCHANGED <<stdinBytes, asserted, defined, alive, gaps>>

\* A floating-point builder makes nothing in the QSYM backend.
Fp(f) == IF backend = "qsym" THEN Null ELSE f

FCmp(r, p, x, y) ==
  /\ Set(r, "bool", {x, y},
         [i \in Inputs |-> Truth(FloatCompare(p, x.value[i], y.value[i]))],
         Fp([i \in Inputs |-> Truth(FloatBuilder(p, Operand(x)[i], Operand(y)[i]))]))
  /\ Note("ordered and unequal", p = <<"O", "NE">> /\ Symbolic({x, y}))
  /\ UNCHANGED <<stdinBytes, asserted, defined, alive>>

FloatBinary(r, op, x, y) ==
  /\ Set(r, "float", {x, y},
         [i \in Inputs |-> FloatCompute(op, x.value[i], y.value[i])],
         Fp([i \in Inputs |-> FloatArithmetic(op, Operand(x)[i], Operand(y)[i])]))
  /\ Note("remainder", op = "FRem" /\ Symbolic({x, y}))
  /\ UNCHANGED <<stdinBytes, asserted, defined, alive>>

\* handleIntrinsicCall for fabs
Fabs(r, x) ==
  LET F(a) == IF a = NaN THEN NaN ELSE Abs(a)
  IN  /\ Set(r, "float", {x}, [i \in Inputs |-> F(x.value[i])],
             Fp([i \in Inputs |-> F(Operand(x)[i])]))
      /\ UNCHANGED <<stdinBytes, asserted, defined, alive, gaps>>

\* visitSIToFPInst, visitUIToFPInst
IntToFloat(r, signed, x) ==
  LET F(n) == Clamp(2 * (IF signed THEN Signed(n) ELSE n))
  IN  /\ Set(r, "float", {x}, [i \in Inputs |-> F(x.value[i])],
             Fp([i \in Inputs |-> F(Operand(x)[i])]))
      /\ Note("floats in QSYM", backend = "qsym" /\ Symbolic({x}))
      /\ UNCHANGED <<stdinBytes, asserted, defined, alive>>

\* FPToSI and FPToUI.  The visitor has no function of the name that LLVM calls for
\* them, and takes them for unknown casts (visitCastInst).
FloatToInt(r, signed, x) ==
  LET whole(i) == Quotient(x.value[i], 2)
      ok(i) == x.value[i] # NaN /\ whole(i) \in IF signed THEN {Signed(n) : n \in Ints}
                                                ELSE Ints
  IN  /\ ok(input)
      /\ reg' = [reg EXCEPT ![r] =
                   [type |-> "int", expr |-> Null,
                    value |-> [i \in Inputs |-> IF ok(i) THEN Wrap(whole(i)) ELSE 0]]]
      /\ defined' = {i \in defined : ok(i)}
      /\ alive' = {i \in alive : ok(i)}
      /\ Note("float to integer", Symbolic({x}))
      /\ UNCHANGED <<stdinBytes, asserted>>

\* visitCastInst on a Boolean, with _sym_build_bool_to_bits
BoolToBits(r, x) ==
  /\ Set(r, "int", {x}, x.value, Operand(x))
  /\ UNCHANGED <<stdinBytes, asserted, defined, alive, gaps>>

\* Mutant: the alternative stays asserted (no Z3_solver_pop).
PushWithoutPop(e, taken) ==
  asserted' = IF e = Null THEN asserted
              ELSE {i \in asserted : e[i] # taken /\ e[i] = taken}

\* _sym_push_path_constraint: what remains asserted.  If simplification finds that
\* there is nothing to solve, nothing is asserted.
PushPathConstraint(e, taken) ==
  IF e = Null THEN UNCHANGED asserted
  ELSE \/ asserted' = {i \in asserted : e[i] = taken}
       \/ Cardinality(Range(e)) = 1 /\ UNCHANGED asserted

\* visitBranchInst
Branch(x) ==
  /\ PushPathConstraint(x.expr, x.value[input])
  /\ alive' = {i \in alive : x.value[i] = x.value[input]}
  /\ UNCHANGED <<reg, stdinBytes, defined, gaps>>

Instruction ==
  \/ \E r \in Registers, k \in 0 .. InputLen - 1 : GetInputByte(r, k)
  \/ \E r \in Registers, op \in Opcodes, x \in Loaded("int"), y \in Operands("int") :
       Binary(r, op, x, y) \/ Binary(r, op, y, x)
  \/ \E r \in Registers, op \in Logical, x \in Loaded("bool"), y \in Operands("bool") :
       Boolean(r, op, x, y) \/ Boolean(r, op, y, x)
  \/ \E r \in Registers, p \in IntPredicates, x \in Loaded("int"), y \in Operands("int") :
       ICmp(r, p, x, y) \/ ICmp(r, p, y, x)
  \/ \E r \in Registers, p \in FloatPredicates, x \in Loaded("float"),
        y \in Operands("float") : FCmp(r, p, x, y) \/ FCmp(r, p, y, x)
  \/ \E r \in Registers, op \in FloatOpcodes, x \in Loaded("float"),
        y \in Operands("float") : FloatBinary(r, op, x, y) \/ FloatBinary(r, op, y, x)
  \/ \E r \in Registers, x \in Loaded("float") : Fabs(r, x)
  \/ \E r \in Registers, signed \in BOOLEAN, x \in Loaded("int") : IntToFloat(r, signed, x)
  \/ \E r \in Registers, signed \in BOOLEAN, x \in Loaded("float") : FloatToInt(r, signed, x)
  \/ \E r \in Registers, x \in Loaded("bool") : BoolToBits(r, x)
  \/ \E x \in Loaded("bool") : Branch(x)

Next ==
  /\ steps < MaxSteps
  /\ steps' = steps + 1
  /\ Instruction
  /\ UNCHANGED <<backend, input>>

Spec == Init /\ [][Next]_vars

-----------------------------------------------------------------------------
(***************************************************************************)
(* Properties                                                              *)
(***************************************************************************)

\* Builders that make something else than the instruction computes
Misbuilt == {"ordered and unequal", "remainder"}

\* Every builder means what its instruction computes, wherever that is defined: all
\* opcodes and predicates reach the right builder, with operands in the right
\* order, signed where the instruction is, and NaN is treated as the processor
\* does (binaryOperatorHandlers, comparisonHandlers, the builders).  Even after data
\* was lost, the expressions are right about the input of the process.
BuildersRight ==
  gaps \cap Misbuilt = {} =>
    \A v \in Range(reg) : v.expr # Null =>
      \A i \in IF gaps = {} THEN alive ELSE {input} : v.expr[i] = v.value[i]

\* Symbolic data is lost in the places that gaps names, and nowhere else.
LostOnlyInGaps ==
  gaps = {} =>
    \A v \in Range(reg) : v.expr = Null => \A i \in alive : v.value[i] = v.value[input]

\* The solver is never told what is not so for the input of the process, which keeps
\* its questions feasible; and where nothing was lost it is told the whole path: its
\* solutions take the path or run into undefined behaviour (the assertions and the
\* push, check and pop of _sym_push_path_constraint).
SolverKnowsPath ==
  /\ gaps \cap Misbuilt = {} => input \in asserted
  /\ gaps = {} => asserted \cap defined = alive

\* No two input bytes share a variable (_sym_get_input_byte, whose variables are
\* named after the size of the table, not after the offset).
VariablesDistinct ==
  \A j, k \in DOMAIN stdinBytes :
    stdinBytes[j] = stdinBytes[k] /\ stdinBytes[j] # Null => j = k
=============================================================================
