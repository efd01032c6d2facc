--------------------------- MODULE LibcDataProofs ---------------------------
(***************************************************************************)
(* What instrumented code computes is right, for bytes and memories of     *)
(* every size, any number of registers and runs of any length: with no     *)
(* instruction among those that are known not to be handled, and with the  *)
(* wrapped functions of the C library, every expression denotes its value, *)
(* nothing symbolic is lost and the path constraints are the path.         *)
(***************************************************************************)
EXTENDS LibcData, WellFoundedInduction, TLAPS

-----------------------------------------------------------------------------
(***************************************************************************)
(* Arithmetic: remainders, digits and the numbers they make up.            *)
(***************************************************************************)

LEMMA ByteFacts ==
  /\ Byte \in Nat /\ Byte >= 2
  /\ Power(0) = 1 /\ Power(1) = Byte /\ Power(2) = Byte * Byte
  /\ Byte * Byte \in Nat /\ 2 * Byte <= Byte * Byte
<1>1. Byte \in Nat /\ Byte >= 2
  BY InstrumentationAssumption DEF InstrumentationAssumption
<1>2. ASSUME NEW a \in Nat, NEW b \in Nat PROVE a * b \in Nat
  OBVIOUS
<1>3. Byte * Byte \in Nat /\ 2 * Byte <= Byte * Byte
  <2>1. (Byte - 2) * Byte \in Nat
    BY <1>1, <1>2
  <2>2. (Byte - 2) * Byte = Byte * Byte - 2 * Byte
    BY <1>1
  <2> QED BY <2>1, <2>2, <1>1, <1>2
<1> QED BY <1>1, <1>3 DEF Power

LEMMA LimitFacts ==
  /\ Limit(0) = 2 /\ Limit(1) = Byte /\ Limit(2) = Byte * Byte
  /\ Limit(0) \in Nat /\ Limit(1) \in Nat /\ Limit(2) \in Nat
  /\ Limit(0) <= Limit(1) /\ 2 * Limit(1) <= Limit(2)
BY ByteFacts DEF Limit

\* A remainder is one.
LEMMA Remainder ==
  ASSUME NEW z \in Int, NEW L \in Nat \ {0}
  PROVE  z % L \in 0 .. L - 1
OBVIOUS

\* A multiple of L makes no difference to the remainder.
LEMMA Multiple ==
  ASSUME NEW z \in Int, NEW q \in Int, NEW L \in Nat \ {0}
  PROVE  (L * q + z) % L = z % L
<1> DEFINE y == L * q + z
           u == y \div L
           v == q + z \div L
<1>1. y \in Int /\ u \in Int /\ v \in Int
  OBVIOUS
<1>2. y = L * u + (y % L) /\ z = L * (z \div L) + (z % L)
  OBVIOUS
<1>3. y % L \in 0 .. L - 1 /\ z % L \in 0 .. L - 1
  BY <1>1, Remainder
<1>4. /\ L * v = L * q + L * (z \div L) /\ y = L * q + z
      /\ L * q \in Int /\ L * (z \div L) \in Int /\ z % L \in Int
  OBVIOUS
<1> HIDE DEF y, u, v
<1>5. y = L * v + (z % L)
  BY <1>1, <1>2, <1>4
<1>6. L * u + (y % L) = L * v + (z % L)
  BY <1>2, <1>5
<1>7. u = v
  <2>1. ASSUME NEW a \in Int, NEW b \in Int, a + 1 <= b PROVE L * a + L <= L * b
    BY <2>1
  <2>2. L * u \in Int /\ L * v \in Int
    BY <1>1
  <2>3. ~(u + 1 <= v)
    BY <2>1, <2>2, <1>1, <1>3, <1>6
  <2>4. ~(v + 1 <= u)
    BY <2>1, <2>2, <1>1, <1>3, <1>6
  <2> QED BY <2>3, <2>4, <1>1
<1>8. L * u = L * v /\ L * u \in Int
  BY <1>7, <1>1
<1>9. y % L = z % L
  BY <1>6, <1>8, <1>3
<1> QED BY <1>9 DEF y

\* The remainder of a sum
LEMMA RemainderOfSum ==
  ASSUME NEW a \in Nat, NEW b \in Nat, NEW L \in Nat \ {0}
  PROVE  ((a % L) + b) % L = (b + a) % L
<1>1. a = L * (a \div L) + (a % L) /\ a \div L \in Int /\ a % L \in 0 .. L - 1
  OBVIOUS
<1>2. b + a = L * (a \div L) + ((a % L) + b)
  BY <1>1
<1>3. (a % L) + b \in Int
  BY <1>1
<1> QED BY <1>1, <1>2, <1>3, Multiple

LEMMA DigitType ==
  ASSUME NEW n \in Nat, NEW k \in 0 .. 1
  PROVE  Digit(n, k) \in 0 .. Byte - 1
<1>1. Power(k) \in Nat \ {0}
  BY ByteFacts
<1>2. n \div Power(k) \in Int
  BY <1>1
<1>3. Byte \in Nat \ {0}
  BY ByteFacts
<1> QED BY <1>2, <1>3, Remainder DEF Digit

(***************************************************************************)
(* A number of one digit, and one of two: the fold is what it should be.   *)
(***************************************************************************)

LEMMA NumberOne ==
  ASSUME NEW f \in [0 .. 0 -> Nat]
  PROVE  Number(f) = f[0]
<1> DEFINE g == [k \in DOMAIN f |-> f[k] * Power(k)]
           rec(h) == [s \in SUBSET {0} |->
                   IF s = {} THEN 0
                   ELSE g[CHOOSE x \in s : TRUE] + h[s \ {CHOOSE x \in s : TRUE}]]
           w == [s \in SUBSET {0} |-> IF s = {} THEN 0 ELSE f[0]]
<1>1. DOMAIN g = {0} /\ f[0] \in Nat
  OBVIOUS
<1>2. Number(f) = (CHOOSE h : h = rec(h))[{0}]
  BY <1>1 DEF Number, FoldFunction, FoldFunctionOnSet, MapThenFoldSet
<1>3. g[0] = f[0]
  BY <1>1, ByteFacts
<1>4. (CHOOSE x \in {0} : TRUE) = 0
  OBVIOUS
<1> HIDE DEF g
<1>5. \A h : h = rec(h) => h[{0}] = f[0]
  <2> TAKE h
  <2> HAVE h = rec(h)
  <2>1. h[{}] = 0
    OBVIOUS
  <2>2. h[{0}] = g[0] + h[{0} \ {0}]
    BY <1>4
  <2> QED BY <2>1, <2>2, <1>1, <1>3
<1>6. w = rec(w)
  <2>1. \A s \in SUBSET {0} : s = {} \/ s = {0}
    OBVIOUS
  <2>2. rec(w)[{0}] = f[0]
    BY <1>1, <1>3, <1>4
  <2> QED BY <2>1, <2>2
<1> QED BY <1>2, <1>5, <1>6

LEMMA NumberTwo ==
  ASSUME NEW f \in [0 .. 1 -> Nat]
  PROVE  Number(f) = f[0] + f[1] * Byte
<1> DEFINE g == [k \in DOMAIN f |-> f[k] * Power(k)]
           rec(h) == [s \in SUBSET {0, 1} |->
                   IF s = {} THEN 0
                   ELSE g[CHOOSE x \in s : TRUE] + h[s \ {CHOOSE x \in s : TRUE}]]
           w == [s \in SUBSET {0, 1} |->
                   IF s = {} THEN 0
                   ELSE IF s = {0} THEN g[0]
                   ELSE IF s = {1} THEN g[1]
                   ELSE g[0] + g[1]]
<1>1. DOMAIN g = {0, 1} /\ f[0] \in Nat /\ f[1] \in Nat
  OBVIOUS
<1>2. Number(f) = (CHOOSE h : h = rec(h))[{0, 1}]
  BY <1>1 DEF Number, FoldFunction, FoldFunctionOnSet, MapThenFoldSet
<1>3. g[0] = f[0] /\ g[1] = f[1] * Byte /\ g[0] \in Nat /\ g[1] \in Nat
  BY <1>1, ByteFacts
<1>4. /\ (CHOOSE x \in {0} : TRUE) = 0
      /\ (CHOOSE x \in {1} : TRUE) = 1
      /\ (CHOOSE x \in {0, 1} : TRUE) \in {0, 1}
  OBVIOUS
<1> HIDE DEF g
<1>5. \A h : h = rec(h) => h[{0, 1}] = g[0] + g[1]
  <2> TAKE h
  <2> HAVE h = rec(h)
  <2>1. h[{}] = 0
    OBVIOUS
  <2>2. h[{0}] = g[0]
    <3>1. h[{0}] = g[0] + h[{0} \ {0}]
      BY <1>4
    <3> QED BY <3>1, <2>1, <1>3
  <2>3. h[{1}] = g[1]
    <3>1. h[{1}] = g[1] + h[{1} \ {1}]
      BY <1>4
    <3> QED BY <3>1, <2>1, <1>3
  <2>4. PICK x \in {0, 1} : h[{0, 1}] = g[x] + h[{0, 1} \ {x}]
    BY <1>4
  <2>5. {0, 1} \ {0} = {1} /\ {0, 1} \ {1} = {0}
    OBVIOUS
  <2> HIDE DEF w, rec
  <2>6. CASE x = 0
    BY <2>3, <2>4, <2>5, <2>6, <1>3
  <2>7. CASE x = 1
    <3>1. h[{0, 1}] = g[1] + h[{0}]
      BY <2>4, <2>5, <2>7
    <3> QED BY <3>1, <2>2, <1>3
  <2> QED BY <2>6, <2>7
<1>6. w = rec(w)
  <2>1. \A s \in SUBSET {0, 1} : s \in {{}, {0}, {1}, {0, 1}}
    OBVIOUS
  <2>2. /\ {0} # {1} /\ {0} # {0, 1} /\ {1} # {0, 1}
        /\ {0, 1} \ {0} = {1} /\ {0, 1} \ {1} = {0}
    OBVIOUS
  <2>3. w[{}] = 0 /\ w[{0}] = g[0] /\ w[{1}] = g[1] /\ w[{0, 1}] = g[0] + g[1]
    BY <2>2
  <2>4. rec(w)[{}] = 0
    OBVIOUS
  <2>5. rec(w)[{0}] = g[0] /\ rec(w)[{1}] = g[1]
    <3>1. rec(w)[{0}] = g[0] + w[{0} \ {0}] /\ rec(w)[{1}] = g[1] + w[{1} \ {1}]
      BY <1>4
    <3> QED BY <3>1, <2>3, <1>3
  <2>6. rec(w)[{0, 1}] = g[0] + g[1]
    <3>1. PICK x \in {0, 1} : rec(w)[{0, 1}] = g[x] + w[{0, 1} \ {x}]
      BY <1>4
    <3> HIDE DEF w, rec
    <3>2. CASE x = 0
      BY <3>1, <3>2, <2>2, <2>3, <1>3
    <3>3. CASE x = 1
      <4>1. rec(w)[{0, 1}] = g[1] + w[{0}]
        BY <3>1, <3>3, <2>2
      <4> QED BY <4>1, <2>3, <1>3
    <3> QED BY <3>2, <3>3
  <2>7. \A s \in SUBSET {0, 1} : w[s] = rec(w)[s]
    BY <2>1, <2>3, <2>4, <2>5, <2>6
  <2>8. /\ w = [s \in SUBSET {0, 1} |-> w[s]]
        /\ rec(w) = [s \in SUBSET {0, 1} |-> rec(w)[s]]
    OBVIOUS
  <2> HIDE DEF w, rec
  <2> QED BY <2>7, <2>8
<1> HIDE DEF w, rec
<1>7. (CHOOSE h : h = rec(h)) = rec(CHOOSE h : h = rec(h))
  BY <1>6
<1>8. Number(f) = g[0] + g[1]
  BY <1>2, <1>5, <1>7
<1> QED BY <1>3, <1>8

-----------------------------------------------------------------------------
(***************************************************************************)
(* The invariant.  A value is good if it has its type and, on the inputs   *)
(* A that take the path, is what its expression says, or what it is on     *)
(* input c if it has none.  A cell of memory is a byte.                    *)
(***************************************************************************)

Values ==
  [type : Types, value : [Inputs -> Nat], expr : Expressions \cup {Null}, entry : BOOLEAN]
Cells == [value : [Inputs -> Nat], expr : Expressions \cup {Null}]

Fits(v, w) ==
  /\ \A i \in Inputs : v.value[i] < Limit(w)
  /\ v.expr # Null => v.expr.width = w

Right(v, A, c) ==
  \A i \in A : v.value[i] = IF v.expr = Null THEN v.value[c] ELSE v.expr.at[i]

Good(v, A, c) ==
  /\ v \in Values
  /\ Fits(v, Size(v.type))
  /\ v.expr # Null => v.entry
  /\ Right(v, A, c)

GoodCell(m, A, c) == m \in Cells /\ Fits(m, 1) /\ Right(m, A, c)

PathRight == input \in alive /\ alive \subseteq Inputs /\ path = alive

IInv ==
  /\ PathRight
  /\ reg \in [Registers -> Values]
  /\ mem \in [0 .. MemSize - 1 -> Cells]
  /\ \A r \in Registers : Good(reg[r], alive, input)
  /\ \A a \in 0 .. MemSize - 1 : GoodCell(mem[a], alive, input)

(***************************************************************************)
(* Lemmas about values and expressions.                                    *)
(***************************************************************************)

LEMMA ExprType ==
  ASSUME NEW w \in 0 .. 2, NEW f \in [Inputs -> Nat]
  PROVE  /\ Expr(w, f) \in Expressions
         /\ Expr(w, f) # Null /\ Expr(w, f) # Broken
         /\ Expr(w, f).width = w /\ Expr(w, f).at = f
<1>1. /\ Expr(w, f) \in Expressions
      /\ Expr(w, f).width = w /\ Expr(w, f).at = f
  BY DEF Expr, Expressions
<1> QED BY <1>1, ExpressionAssumption DEF ExpressionAssumption

LEMMA SizeType == \A t \in Types : Size(t) \in 0 .. 2 /\ Limit(Size(t)) \in Nat \ {0}
BY LimitFacts, ByteFacts DEF Types, Size

LEMMA ConstGood ==
  ASSUME NEW t \in Types, NEW n \in 0 .. Limit(Size(t)) - 1,
         NEW A \in SUBSET Inputs, NEW c \in Inputs
  PROVE  Good(Const(t, n), A, c) /\ Const(t, n).type = t /\ Const(t, n).expr = Null
<1> DEFINE v == Const(t, n)
<1>1. n \in Nat /\ n < Limit(Size(t))
  BY SizeType
<1>2. v = [type |-> t, value |-> [i \in Inputs |-> n], expr |-> Null, entry |-> FALSE]
  BY DEF Const
<1>3. v \in Values
  BY <1>1, <1>2 DEF Values
<1>4. v.type = t /\ v.value = [i \in Inputs |-> n] /\ v.expr = Null
  BY <1>2
<1> HIDE DEF v
<1>5. Good(v, A, c)
  BY <1>1, <1>3, <1>4 DEF Good, Fits, Right
<1> QED BY <1>4, <1>5 DEF v

LEMMA OperandGood ==
  ASSUME IInv, NEW t \in Types, NEW v \in Operands(t)
  PROVE  Good(v, alive, input) /\ v.type = t
<1>1. CASE v \in Loaded(t)
  BY <1>1 DEF IInv, Loaded, Range
<1>2. CASE v \notin Loaded(t)
  BY <1>2, ConstGood DEF IInv, PathRight, Operands
<1> QED BY <1>1, <1>2

\* The fields of a good value
LEMMA GoodFields ==
  ASSUME NEW A \in SUBSET Inputs, NEW c \in Inputs, NEW v, Good(v, A, c)
  PROVE  /\ v.type \in Types
         /\ v.value \in [Inputs -> 0 .. Limit(Size(v.type)) - 1]
         /\ v.value \in [Inputs -> Nat]
         /\ v.entry \in BOOLEAN
         /\ v.expr # Null =>
              v.expr \in Expressions /\ v.expr.width = Size(v.type) /\ v.expr.at \in [Inputs -> Nat]
<1>1. /\ v.type \in Types /\ v.value \in [Inputs -> Nat] /\ v.entry \in BOOLEAN
      /\ v.expr \in Expressions \cup {Null}
  BY DEF Good, Values
<1>2. v.value \in [Inputs -> 0 .. Limit(Size(v.type)) - 1]
  BY <1>1, SizeType DEF Good, Fits
<1> QED BY <1>1, <1>2 DEF Good, Fits, Expressions

\* What has no expression does not vary; other values are what their expressions say.
LEMMA GoodRight ==
  ASSUME NEW A \in SUBSET Inputs, NEW c \in Inputs, NEW v, Good(v, A, c), NEW i \in A
  PROVE  /\ v.expr = Null => v.value[i] = v.value[c]
         /\ v.expr # Null => v.expr.at[i] = v.value[i]
BY DEF Good, Right

\* A value put together from its parts is good.
LEMMA MakeGood ==
  ASSUME NEW A \in SUBSET Inputs, NEW c \in Inputs,
         NEW t \in Types, NEW f \in [Inputs -> 0 .. Limit(Size(t)) - 1],
         NEW e, NEW b \in BOOLEAN,
         \/ e = Null /\ \A i \in A : f[i] = f[c]
         \/ /\ e \in Expressions /\ e.width = Size(t)
            /\ b
            /\ \A i \in A : e.at[i] = f[i]
  PROVE  Good([type |-> t, value |-> f, expr |-> e, entry |-> b], A, c)
<1> DEFINE v == [type |-> t, value |-> f, expr |-> e, entry |-> b]
<1>1. v.type = t /\ v.value = f /\ v.expr = e /\ v.entry = b
  OBVIOUS
<1>2. f \in [Inputs -> Nat] /\ \A i \in Inputs : f[i] < Limit(Size(t))
  BY SizeType
<1>3. v \in Values
  BY <1>2 DEF Values
<1>4. Fits(v, Size(t))
  BY <1>1, <1>2 DEF Fits
<1>5. Right(v, A, c)
  BY <1>1, ExpressionAssumption DEF Right, ExpressionAssumption
<1>6. v.expr # Null => v.entry
  BY <1>1
<1> HIDE DEF v
<1>7. Good(v, A, c)
  BY <1>1, <1>3, <1>4, <1>5, <1>6 DEF Good
<1> QED BY <1>7 DEF v

\* A value stays good when fewer inputs are left.
LEMMA GoodOnFewer ==
  ASSUME NEW A, NEW B \in SUBSET A, NEW c, NEW v, Good(v, A, c)
  PROVE  Good(v, B, c)
BY DEF Good, Right

LEMMA GoodCellOnFewer ==
  ASSUME NEW A, NEW B \in SUBSET A, NEW c, NEW m, GoodCell(m, A, c)
  PROVE  GoodCell(m, B, c)
BY DEF GoodCell, Right

(***************************************************************************)
(* Short circuits.                                                         *)
(***************************************************************************)

\* e is right for v, on all inputs that take the path.
Denotes(e, v) ==
  /\ e \in Expressions /\ e # Null /\ e # Broken
  /\ e.width = Size(v.type) /\ e.at \in [Inputs -> Nat]
  /\ \A i \in alive : e.at[i] = v.value[i]

Constant(f) == \A i \in alive : f[i] = f[input]

\* The slow path of a computation is only taken with an expression for every operand,
\* and each of them denotes its operand.
LEMMA CompletedRight ==
  ASSUME IInv, NEW n \in Nat, NEW args \in [1 .. n -> Values],
         \A k \in 1 .. n : Good(args[k], alive, input),
         ~AllConcrete(args), NEW k \in 1 .. n
  PROVE  Denotes(Completed(args)[k], args[k])
<1> DEFINE v == args[k]
           e == Completed(args)[k]
<1>1. DOMAIN args = 1 .. n
  OBVIOUS
<1>2. e = IF v.expr # Null \/ Unknown(args) = {k} THEN v.expr ELSE ValueExpr(v)
  BY <1>1 DEF Completed
<1>3. alive \in SUBSET Inputs /\ input \in Inputs /\ Good(v, alive, input)
  BY DEF IInv, PathRight
<1>4. CASE v.expr # Null
  <2>1. e = v.expr
    BY <1>2, <1>4
  <2> HIDE DEF e, v
  <2>2. e \in Expressions /\ e.width = Size(v.type) /\ e.at \in [Inputs -> Nat]
    BY <2>1, <1>3, <1>4, GoodFields
  <2>3. \A i \in alive : e.at[i] = v.value[i]
    BY <2>1, <1>3, <1>4, GoodRight
  <2>4. e # Null /\ e # Broken
    BY <2>2, ExpressionAssumption DEF ExpressionAssumption
  <2> QED BY <2>2, <2>3, <2>4 DEF Denotes, e, v
<1>5. CASE v.expr = Null
  <2>1. PICK j \in 1 .. n : args[j].expr # Null
    BY <1>1 DEF AllConcrete
  <2>2. j \in Unknown(args) /\ j # k
    BY <1>1, <1>5, <2>1 DEF Unknown, Good
  <2>3. e = ValueExpr(v)
    BY <1>2, <1>5, <2>2
  <2> DEFINE f == [i \in Inputs |-> v.value[input]]
  <2>4. e = Expr(Size(v.type), f)
    BY <2>3 DEF ValueExpr, Concrete
  <2>5. f \in [Inputs -> Nat] /\ Size(v.type) \in 0 .. 2
    <3>1. /\ v.type \in Types /\ v.value \in [Inputs -> Nat]
          /\ input \in Inputs /\ alive \in SUBSET Inputs
      BY <1>3, GoodFields DEF IInv, PathRight
    <3>2. v.value[input] \in Nat
      BY <3>1
    <3> QED BY <3>1, <3>2, SizeType
  <2>6. \A i \in alive : f[i] = v.value[i]
    BY <1>3, <1>5, GoodRight
  <2> HIDE DEF f, e, v
  <2>7. /\ e \in Expressions /\ e # Null /\ e # Broken
        /\ e.width = Size(v.type) /\ e.at = f
    BY <2>4, <2>5, ExprType
  <2> QED BY <2>5, <2>6, <2>7 DEF Denotes, e, v
<1> QED BY <1>4, <1>5

\* The result of a computation is good if what the builders make is, where there is a
\* symbolic operand, and if it does not vary, where there is none.
LEMMA ResultGood ==
  ASSUME IInv, NEW n \in Nat, NEW args \in [1 .. n -> Values],
         \A k \in 1 .. n : Good(args[k], alive, input),
         NEW t \in Types, NEW f \in [Inputs -> 0 .. Limit(Size(t)) - 1], NEW e,
         AllConcrete(args) => \A i \in alive : f[i] = f[input],
         ~AllConcrete(args) =>
           /\ e \in Expressions /\ e.width = Size(t)
           /\ \A i \in alive : e.at[i] = f[i]
  PROVE  Good(Result(t, args, f, e), alive, input)
<1>1. DOMAIN args = 1 .. n /\ alive \in SUBSET Inputs /\ input \in Inputs
  BY DEF IInv, PathRight
<1> DEFINE b == Unknown(args) # {}
<1>2. CASE AllConcrete(args)
  <2>1. Good([type |-> t, value |-> f, expr |-> Null, entry |-> b], alive, input)
    BY <1>1, <1>2, MakeGood
  <2> QED BY <1>2, <2>1 DEF Result, Computation
<1>3. CASE ~AllConcrete(args)
  <2>1. PICK j \in 1 .. n : args[j].expr # Null
    BY <1>1, <1>3 DEF AllConcrete
  <2>2. b
    BY <1>1, <2>1 DEF Unknown, Good
  <2>3. Good([type |-> t, value |-> f, expr |-> e, entry |-> TRUE], alive, input)
    BY <1>1, <1>3, MakeGood
  <2>4. Result(t, args, f, e) = [type |-> t, value |-> f, expr |-> e, entry |-> TRUE]
    BY <1>3, <2>2 DEF Result, Computation
  <2> QED BY <2>3, <2>4
<1> QED BY <1>2, <1>3

\* No operand varies on the fast path.
LEMMA ConcreteArgs ==
  ASSUME IInv, NEW n \in Nat, NEW args \in [1 .. n -> Values],
         \A k \in 1 .. n : Good(args[k], alive, input),
         AllConcrete(args), NEW k \in 1 .. n
  PROVE  Constant(args[k].value)
<1>1. alive \in SUBSET Inputs /\ input \in Inputs /\ args[k].expr = Null
  BY DEF IInv, PathRight, AllConcrete
<1> QED BY <1>1, GoodRight DEF Constant

LEMMA ApplyExpr ==
  ASSUME NEW es, \A k \in DOMAIN es : es[k] # Null /\ es[k] # Broken, NEW w, NEW f
  PROVE  Apply(es, w, f) = Expr(w, f)
BY DEF Apply

LEMMA UnaryGood ==
  ASSUME IInv, NEW x, Good(x, alive, input),
         NEW t \in Types, NEW f \in [Inputs -> 0 .. Limit(Size(t)) - 1],
         NEW w \in 0 .. 2, w = Size(t), NEW g,
         Constant(x.value) => Constant(f),
         Denotes(Completed(<<x>>)[1], x) =>
           g \in [Inputs -> Nat] /\ \A i \in alive : g[i] = f[i],
         NEW e, Denotes(Completed(<<x>>)[1], x) => e = Expr(w, g)
  PROVE  Good(Result(t, <<x>>, f, e), alive, input)
<1> DEFINE args == <<x>>
<1>1. args \in [1 .. 1 -> Values] /\ args[1] = x /\ 1 \in 1 .. 1
  BY DEF Good
<1>2. \A k \in 1 .. 1 : args[k] = x
  BY <1>1
<1> HIDE DEF args
<1>3. \A k \in 1 .. 1 : Good(args[k], alive, input)
  BY <1>2
<1>4. ASSUME AllConcrete(args) PROVE \A i \in alive : f[i] = f[input]
  <2>1. Constant(x.value)
    BY <1>1, <1>3, <1>4, ConcreteArgs
  <2> QED BY <2>1 DEF Constant
<1>5. ASSUME ~AllConcrete(args)
      PROVE  e \in Expressions /\ e.width = Size(t) /\ \A i \in alive : e.at[i] = f[i]
  <2>1. Denotes(Completed(args)[1], x)
    BY <1>1, <1>3, <1>5, CompletedRight
  <2>2. e = Expr(w, g) /\ g \in [Inputs -> Nat] /\ \A i \in alive : g[i] = f[i]
    BY <2>1 DEF args
  <2> QED BY <2>2, ExprType
<1>6. Good(Result(t, args, f, e), alive, input)
  BY <1>1, <1>3, <1>4, <1>5, ResultGood
<1> QED BY <1>6 DEF args

LEMMA BinaryGood ==
  ASSUME IInv, NEW x, Good(x, alive, input), NEW y, Good(y, alive, input),
         NEW t \in Types, NEW f \in [Inputs -> 0 .. Limit(Size(t)) - 1],
         NEW w \in 0 .. 2, w = Size(t), NEW g,
         Constant(x.value) /\ Constant(y.value) => Constant(f),
         Denotes(Completed(<<x, y>>)[1], x) /\ Denotes(Completed(<<x, y>>)[2], y) =>
           g \in [Inputs -> Nat] /\ \A i \in alive : g[i] = f[i]
  PROVE  Good(Result(t, <<x, y>>, f, Apply(Completed(<<x, y>>), w, g)), alive, input)
<1> DEFINE args == <<x, y>>
           e == Apply(Completed(args), w, g)
<1>1. args \in [1 .. 2 -> Values] /\ args[1] = x /\ args[2] = y /\ 1 \in 1 .. 2 /\ 2 \in 1 .. 2
  BY DEF Good
<1>2. \A k \in 1 .. 2 : k = 1 \/ k = 2
  OBVIOUS
<1> HIDE DEF args
<1>3. \A k \in 1 .. 2 : Good(args[k], alive, input)
  BY <1>1, <1>2
<1>4. ASSUME AllConcrete(args) PROVE \A i \in alive : f[i] = f[input]
  <2>1. Constant(x.value) /\ Constant(y.value)
    BY <1>1, <1>3, <1>4, ConcreteArgs
  <2> QED BY <2>1 DEF Constant
<1>5. ASSUME ~AllConcrete(args)
      PROVE  e \in Expressions /\ e.width = Size(t) /\ \A i \in alive : e.at[i] = f[i]
  <2>1. Denotes(Completed(args)[1], x) /\ Denotes(Completed(args)[2], y)
    BY <1>1, <1>3, <1>5, CompletedRight
  <2>2. g \in [Inputs -> Nat] /\ \A i \in alive : g[i] = f[i]
    BY <2>1 DEF args
  <2>3. DOMAIN Completed(args) = 1 .. 2
    BY <1>1 DEF Completed
  <2>4. e = Expr(w, g)
    BY <1>2, <2>1, <2>3, ApplyExpr DEF Denotes
  <2> QED BY <2>2, <2>4, ExprType
<1> HIDE DEF e
<1>6. Good(Result(t, args, f, e), alive, input)
  BY <1>1, <1>3, <1>4, <1>5, ResultGood
<1> QED BY <1>6 DEF args, e

(***************************************************************************)
(* Steps.  Every action changes a register, memory or the path.            *)
(***************************************************************************)

\* What is right stays so on a path that has become narrower.
LEMMA Narrower ==
  ASSUME IInv, alive' \subseteq alive
  PROVE  /\ \A r \in Registers : Good(reg[r], alive', input)
         /\ \A a \in 0 .. MemSize - 1 : GoodCell(mem[a], alive', input)
BY GoodOnFewer, GoodCellOnFewer DEF IInv

LEMMA PathKept ==
  ASSUME IInv, UNCHANGED <<input, path, alive>>
  PROVE  PathRight' /\ input' = input /\ alive' \subseteq alive
BY DEF IInv, PathRight

LEMMA RegisterStep ==
  ASSUME IInv, PathRight', input' = input, alive' \subseteq alive, UNCHANGED mem,
         NEW r \in Registers, NEW v, Set(r, v), Good(v, alive', input)
  PROVE  IInv'
<1>1. reg' = [reg EXCEPT ![r] = v] /\ v \in Values
  BY DEF Set, Good
<1>2. reg' \in [Registers -> Values] /\ mem' \in [0 .. MemSize - 1 -> Cells]
  BY <1>1 DEF IInv
<1>3. \A q \in Registers : Good(reg'[q], alive', input)
  <2> TAKE q \in Registers
  <2>1. reg'[q] = IF q = r THEN v ELSE reg[q]
    BY <1>1 DEF IInv
  <2> QED BY <2>1, Narrower
<1>4. \A a \in 0 .. MemSize - 1 : GoodCell(mem'[a], alive', input)
  BY Narrower
<1> QED BY <1>2, <1>3, <1>4 DEF IInv

LEMMA MemoryStep ==
  ASSUME IInv, PathRight', input' = input, alive' \subseteq alive, UNCHANGED reg,
         mem' = [b \in DOMAIN mem |-> mem'[b]],
         \A b \in 0 .. MemSize - 1 : GoodCell(mem'[b], alive', input)
  PROVE  IInv'
<1>1. DOMAIN mem = 0 .. MemSize - 1
  BY DEF IInv
<1>2. \A b \in 0 .. MemSize - 1 : mem'[b] \in Cells
  BY DEF GoodCell
<1>3. mem' \in [0 .. MemSize - 1 -> Cells] /\ reg' \in [Registers -> Values]
  BY <1>1, <1>2 DEF IInv
<1>4. \A r \in Registers : Good(reg'[r], alive', input)
  BY Narrower
<1> QED BY <1>3, <1>4 DEF IInv

-----------------------------------------------------------------------------
(***************************************************************************)
(* Instructions that compute                                               *)
(***************************************************************************)

LEMMA Here ==
  ASSUME IInv
  PROVE  /\ input \in alive /\ alive \in SUBSET Inputs /\ input \in Inputs /\ path = alive
         /\ \A i \in alive : i \in Inputs
BY DEF IInv, PathRight

LEMMA Fields ==
  ASSUME IInv, NEW v, Good(v, alive, input)
  PROVE  /\ v.type \in Types /\ v.entry \in BOOLEAN /\ Size(v.type) \in 0 .. 2
         /\ v.value \in [Inputs -> 0 .. Limit(Size(v.type)) - 1]
         /\ \A i \in Inputs : v.value[i] \in Nat
         /\ v.expr = Null \/ Denotes(v.expr, v)
         /\ v.expr = Null => Constant(v.value)
<1>1. v.expr # Null => v.expr # Broken
  BY Here, GoodFields, ExpressionAssumption DEF ExpressionAssumption
<1>2. /\ v.type \in Types /\ v.entry \in BOOLEAN /\ Size(v.type) \in 0 .. 2
      /\ v.value \in [Inputs -> 0 .. Limit(Size(v.type)) - 1]
      /\ v.value \in [Inputs -> Nat]
  BY Here, GoodFields, SizeType
<1>3. ASSUME v.expr # Null PROVE Denotes(v.expr, v)
  <2>1. v.expr \in Expressions /\ v.expr.width = Size(v.type) /\ v.expr.at \in [Inputs -> Nat]
    BY <1>3, Here, GoodFields
  <2>2. \A i \in alive : v.expr.at[i] = v.value[i]
    BY <1>3, Here, GoodRight
  <2> QED BY <1>1, <1>3, <2>1, <2>2 DEF Denotes
<1>4. v.expr = Null => Constant(v.value)
  BY Here, GoodRight DEF Constant
<1> QED BY <1>2, <1>3, <1>4

LEMMA PerformType ==
  ASSUME NEW t \in {"bool", "byte", "word"}, NEW op \in Operations(t),
         NEW m \in Nat, NEW n \in Nat
  PROVE  /\ Perform(op, t, m, n) \in Nat
         /\ m \in 0 .. Limit(Size(t)) - 1 /\ n \in 0 .. Limit(Size(t)) - 1 =>
              Perform(op, t, m, n) \in 0 .. Limit(Size(t)) - 1
<1> DEFINE L == Limit(Size(t))
<1>1. m * n \in Nat /\ m + n \in Nat /\ L \in Nat \ {0}
  BY SizeType DEF Types
<1> HIDE DEF L
<1>2. CASE t = "bool"
  <2>1. L = 2 /\ (m + n) % 2 \in 0 .. 1
    BY <1>2, LimitFacts DEF L, Size
  <2>2. m \in 0 .. 1 /\ n \in 0 .. 1 => m * n \in 0 .. 1
    <3>1. m \in 0 .. 1 => m = 0 \/ m = 1
      OBVIOUS
    <3> QED BY <3>1
  <2> QED BY <1>1, <1>2, <2>1, <2>2 DEF L, Operations, Perform
<1>3. CASE t # "bool"
  <2>1. (m + n) % L \in 0 .. L - 1 /\ (m * n) % L \in 0 .. L - 1
    BY <1>1, Remainder
  <2>2. 0 .. L - 1 \subseteq Nat
    BY <1>1
  <2> QED BY <1>3, <2>1, <2>2 DEF L, Operations, Perform
<1> QED BY <1>2, <1>3

LEMMA BinaryOperatorStep ==
  ASSUME IInv, NEW r \in Registers, NEW t \in {"bool", "byte", "word"},
         NEW op \in Operations(t), NEW x \in Operands(t), NEW y \in Operands(t),
         BinaryOperator(r, t, op, x, y)
  PROVE  IInv'
<1> DEFINE es == Completed(<<x, y>>)
           f == [i \in Inputs |-> Perform(op, t, x.value[i], y.value[i])]
           g == [i \in Inputs |-> Perform(op, t, es[1].at[i], es[2].at[i])]
           v == Result(t, <<x, y>>, f, Apply(es, Size(t), g))
<1>1. Set(r, v) /\ UNCHANGED <<input, mem, path, alive>>
  BY DEF BinaryOperator
<1>2. t \in Types
  BY DEF Types
<1>3. /\ Good(x, alive, input) /\ Good(y, alive, input)
      /\ x.type = t /\ y.type = t
  BY <1>2, OperandGood
<1>4. f \in [Inputs -> 0 .. Limit(Size(t)) - 1]
  BY <1>3, Fields, PerformType
<1>5. Constant(x.value) /\ Constant(y.value) => Constant(f)
  BY Here DEF Constant
<1>6. Denotes(es[1], x) /\ Denotes(es[2], y) =>
        g \in [Inputs -> Nat] /\ \A i \in alive : g[i] = f[i]
  BY Here, PerformType DEF Denotes
<1>7. Size(t) \in 0 .. 2
  BY <1>2, SizeType
<1> HIDE DEF f, g
<1>8. Good(v, alive, input)
  BY <1>2, <1>3, <1>4, <1>5, <1>6, <1>7, BinaryGood
<1> HIDE DEF v
<1> QED BY <1>1, <1>8, PathKept, RegisterStep

LEMMA CmpStep ==
  ASSUME IInv, NEW r \in Registers, NEW t \in {"byte", "word"},
         NEW x \in Operands(t), NEW y \in Operands(t), Cmp(r, x, y)
  PROVE  IInv'
<1> DEFINE Less(m, n) == IF m < n THEN 1 ELSE 0
           es == Completed(<<x, y>>)
           f == [i \in Inputs |-> Less(x.value[i], y.value[i])]
           g == [i \in Inputs |-> Less(es[1].at[i], es[2].at[i])]
           v == Result("bool", <<x, y>>, f, Apply(es, 0, g))
<1>1. Set(r, v) /\ UNCHANGED <<input, mem, path, alive>>
  BY DEF Cmp
<1>2. t \in Types /\ "bool" \in Types /\ Size("bool") = 0
  BY DEF Types, Size
<1>3. Good(x, alive, input) /\ Good(y, alive, input)
  BY <1>2, OperandGood
<1>4. f \in [Inputs -> 0 .. Limit(Size("bool")) - 1]
  BY <1>2, LimitFacts
<1>5. Constant(x.value) /\ Constant(y.value) => Constant(f)
  BY Here DEF Constant
<1>6. Denotes(es[1], x) /\ Denotes(es[2], y) =>
        g \in [Inputs -> Nat] /\ \A i \in alive : g[i] = f[i]
  BY Here DEF Denotes
<1> HIDE DEF f, g
<1>7. Good(v, alive, input)
  BY <1>2, <1>3, <1>4, <1>5, <1>6, BinaryGood
<1> HIDE DEF v
<1> QED BY <1>1, <1>7, PathKept, RegisterStep

LEMMA TruncStep ==
  ASSUME IInv, NEW r \in Registers, NEW x \in Operands("word"), Trunc(r, x)
  PROVE  IInv'
<1> DEFINE c == Completed(<<x>>)[1]
           f == [i \in Inputs |-> x.value[i] % Byte]
           g == [i \in Inputs |-> c.at[i] % Byte]
           e == Apply(<<c>>, 1, g)
           v == Result("byte", <<x>>, f, e)
<1>1. Set(r, v) /\ UNCHANGED <<input, mem, path, alive>>
  BY DEF Trunc
<1>2. "word" \in Types /\ "byte" \in Types /\ Size("byte") = 1 /\ Limit(1) = Byte
  BY LimitFacts DEF Types, Size
<1>3. Good(x, alive, input)
  BY <1>2, OperandGood
<1>4. \A n \in Nat : n % Byte \in 0 .. Byte - 1 /\ n % Byte \in Nat
  BY ByteFacts
<1>5. f \in [Inputs -> 0 .. Limit(Size("byte")) - 1]
  BY <1>2, <1>3, <1>4, Fields
<1>6. Constant(x.value) => Constant(f)
  BY Here DEF Constant
<1>7. Denotes(c, x) => g \in [Inputs -> Nat] /\ \A i \in alive : g[i] = f[i]
  BY Here, <1>4 DEF Denotes
<1> HIDE DEF f, g, c
<1>8. Denotes(c, x) => e = Expr(1, g)
  BY ApplyExpr DEF Denotes
<1> HIDE DEF e
<1>9. Good(v, alive, input)
  BY <1>2, <1>3, <1>5, <1>6, <1>7, <1>8, UnaryGood DEF c
<1> HIDE DEF v
<1> QED BY <1>1, <1>9, PathKept, RegisterStep

LEMMA SignExtendedType ==
  ASSUME NEW n \in Nat, NEW w \in 1 .. 2
  PROVE  /\ SignExtended(n, w) \in Nat
         /\ n \in 0 .. Byte - 1 => SignExtended(n, w) \in 0 .. Limit(w) - 1
<1>1. Limit(w) \in Nat /\ Limit(w) >= Byte
  BY LimitFacts, ByteFacts
<1> QED BY <1>1, ByteFacts DEF SignExtended

LEMMA CastStep ==
  ASSUME IInv, Deviations = {}, NEW r \in Registers, NEW t \in {"byte", "word"},
         NEW u \in {"bool", "byte"}, NEW x \in Operands(u), Size(u) < Size(t),
         NEW signed \in BOOLEAN, Cast(r, t, x, signed)
  PROVE  IInv'
<1> DEFINE w == Size(t)
           bool == u = "bool"
           Extended(n) == CASE ~signed         -> n
                            [] signed /\ bool  -> n * (Limit(w) - 1)
                            [] signed /\ ~bool -> SignExtended(n, w)
           Built(n) == IF bool THEN n ELSE Extended(n)
           c == Completed(<<x>>)[1]
           f == [i \in Inputs |-> Extended(x.value[i])]
           g == [i \in Inputs |-> Built(c.at[i])]
           e == Apply(<<c>>, w, g)
           v == Result(t, <<x>>, f, e)
<1>1. /\ t \in Types /\ u \in Types /\ w \in 1 .. 2 /\ Size(u) \in 0 .. 1
      /\ Size("bool") = 0 /\ Size("byte") = 1
  BY DEF Types, Size
<1>2. Good(x, alive, input) /\ x.type = u
  BY <1>1, OperandGood
<1>3. /\ bool /\ signed => x.expr = Null
      /\ Set(r, v) /\ UNCHANGED <<input, mem, path, alive>>
  BY <1>2 DEF Cast
<1>4. ASSUME NEW n \in Nat
      PROVE  /\ n \in 0 .. Limit(Size(u)) - 1 => Extended(n) \in 0 .. Limit(w) - 1
             /\ Extended(n) \in Nat
  <2>1. Limit(w) \in Nat \ {0} /\ Limit(Size(u)) <= Limit(w) /\ Limit(Size(u)) \in Nat
    BY <1>1, LimitFacts, ByteFacts
  <2>2. CASE ~signed
    BY <2>1, <2>2
  <2>3. CASE signed /\ bool
    <3>1. Limit(Size(u)) = 2
      BY <2>3, <1>1, LimitFacts
    <3>2. n * (Limit(w) - 1) \in Nat
      BY <2>1
    <3>3. n \in 0 .. 1 => n * (Limit(w) - 1) \in 0 .. Limit(w) - 1
      <4>1. n \in 0 .. 1 => n = 0 \/ n = 1
        OBVIOUS
      <4> QED BY <4>1, <2>1
    <3> QED BY <3>1, <3>2, <3>3, <2>3
  <2>4. CASE signed /\ ~bool
    <3>1. Limit(Size(u)) = Byte
      BY <2>4, <1>1, LimitFacts
    <3> QED BY <3>1, <2>4, <1>1, SignExtendedType
  <2> QED BY <2>2, <2>3, <2>4
<1>5. f \in [Inputs -> 0 .. Limit(Size(t)) - 1]
  <2> HIDE DEF Extended
  <2> QED BY <1>2, <1>4, Fields
<1>6. Constant(x.value) => Constant(f)
  BY Here DEF Constant
<1>7. CASE bool /\ signed
  <2>1. x.expr = Null /\ AllConcrete(<<x>>)
    BY <1>3, <1>7 DEF AllConcrete
  <2>2. Constant(f)
    BY <2>1, <1>2, <1>6, Fields
  <2> HIDE DEF f, e
  <2>3. Good([type |-> t, value |-> f, expr |-> Null, entry |-> Unknown(<<x>>) # {}],
             alive, input)
    BY <2>2, <1>1, <1>5, Here, MakeGood DEF Constant
  <2>4. Good(v, alive, input)
    BY <2>1, <2>3 DEF Result, Computation
  <2> QED BY <1>3, <2>4, PathKept, RegisterStep
<1>8. CASE ~(bool /\ signed)
  <2>1. Denotes(c, x) => g \in [Inputs -> Nat] /\ \A i \in alive : g[i] = f[i]
    <3>1. \A n : Built(n) = Extended(n)
      BY <1>8
    <3> HIDE DEF Extended, Built
    <3> QED BY <3>1, Here, <1>4 DEF Denotes
  <2> HIDE DEF f, g, c
  <2>2. Denotes(c, x) => e = Expr(w, g)
    BY ApplyExpr DEF Denotes
  <2> HIDE DEF e
  <2>3. Good(v, alive, input)
    BY <1>1, <1>2, <1>5, <1>6, <2>1, <2>2, UnaryGood DEF c
  <2> HIDE DEF v
  <2> QED BY <1>3, <2>3, PathKept, RegisterStep
<1> QED BY <1>7, <1>8

LEMMA CopyStep ==
  ASSUME IInv, NEW r \in Registers, NEW x, Good(x, alive, input), Copy(r, x)
  PROVE  IInv'
BY PathKept, RegisterStep DEF Copy

LEMMA EntryChanged ==
  ASSUME NEW p \in Values, NEW b
  PROVE  [p EXCEPT !.entry = b] =
           [type |-> p.type, value |-> p.value, expr |-> p.expr, entry |-> b]
<1>1. PICK a, f, e, d : p = [type |-> a, value |-> f, expr |-> e, entry |-> d]
  BY DEF Values
<1>2. p.type = a /\ p.value = f /\ p.expr = e
  BY <1>1
<1>3. [p EXCEPT !.entry = b] = [type |-> a, value |-> f, expr |-> e, entry |-> b]
  BY <1>1
<1> QED BY <1>2, <1>3

\* A value whose type is changed and that has no expression
LEMMA NarrowedStep ==
  ASSUME IInv, Deviations = {}, NEW r \in Registers, NEW p \in Operands("word"), Narrowed(r, p)
  PROVE  IInv'
<1> DEFINE f == [i \in Inputs |-> p.value[i] % Byte]
           v == [type |-> "byte", value |-> f, expr |-> p.expr, entry |-> p.entry]
<1>1. p.expr = Null /\ Set(r, v) /\ UNCHANGED <<input, mem, path, alive>>
  BY DEF Narrowed
<1>2. "word" \in Types /\ "byte" \in Types /\ Limit(Size("byte")) = Byte
  BY LimitFacts DEF Types, Size
<1>3. Good(p, alive, input)
  BY <1>2, OperandGood
<1>4. f \in [Inputs -> 0 .. Limit(Size("byte")) - 1]
  BY <1>2, <1>3, Fields, ByteFacts
<1>5. \A i \in alive : f[i] = f[input]
  BY <1>1, <1>3, Fields, Here DEF Constant
<1> HIDE DEF f
<1>6. p.entry \in BOOLEAN
  BY <1>3, Fields
<1>7. Good(v, alive, input)
  BY <1>1, <1>2, <1>4, <1>5, <1>6, Here, MakeGood
<1> HIDE DEF v
<1> QED BY <1>1, <1>7, PathKept, RegisterStep

LEMMA ConcretizedStep ==
  ASSUME IInv, Deviations = {}, NEW r \in Registers, NEW x \in Operands("word"),
         Concretized(r, x)
  PROVE  IInv'
<1> DEFINE f == [i \in Inputs |-> Digit(x.value[i], 0) + Digit(x.value[i], 1)]
           v == [type |-> "word", value |-> f, expr |-> Null, entry |-> FALSE]
<1>1. /\ Lost("bit count", f, alive) /\ Set(r, v)
      /\ UNCHANGED <<input, mem, path, alive>>
  BY DEF Concretized
<1>2. "word" \in Types /\ Limit(Size("word")) = Byte * Byte
  BY LimitFacts DEF Types, Size
<1>3. Good(x, alive, input)
  BY <1>2, OperandGood
<1>4. f \in [Inputs -> 0 .. Limit(Size("word")) - 1]
  <2>1. \A n \in Nat : Digit(n, 0) \in 0 .. Byte - 1 /\ Digit(n, 1) \in 0 .. Byte - 1
    BY DigitType
  <2>2. \A m, n \in 0 .. Byte - 1 : m + n \in 0 .. Byte * Byte - 1
    BY ByteFacts
  <2> QED BY <1>2, <1>3, <2>1, <2>2, Fields
<1> HIDE DEF f
<1>5. \A i \in alive : f[i] = f[input]
  BY <1>1 DEF Lost
<1>6. Good(v, alive, input)
  BY <1>2, <1>4, <1>5, Here, MakeGood
<1> HIDE DEF v
<1> QED BY <1>1, <1>6, PathKept, RegisterStep

\* Bytes that are taken out of an expression of two
LEMMA ExtractRight ==
  ASSUME NEW e \in Expressions, e.width = 2
  PROVE  /\ Extract(e, 0, 2, TRUE) =
              Expr(2, [i \in Inputs |-> Digit(e.at[i], 1) + Digit(e.at[i], 0) * Byte])
         /\ \A offset \in 0 .. 1 :
              Extract(e, offset, 1, TRUE) =
                Expr(1, [i \in Inputs |-> Digit(e.at[i], 1 - offset)])
<1>1. e # Null /\ e # Broken /\ e.at \in [Inputs -> Nat]
  BY ExpressionAssumption DEF ExpressionAssumption, Expressions
<1>2. \A w, f : Apply(<<e>>, w, f) = Expr(w, f)
  BY <1>1 DEF Apply
<1>3. \A n \in Nat, k \in 0 .. 1 : Digit(n, k) \in Nat
  BY DigitType, ByteFacts
<1>4. ASSUME NEW n \in Nat
      PROVE  Number([k \in 0 .. 2 - 1 |-> Digit(n, e.width - 1 - 0 - Place(k, 2, TRUE))]) =
               Digit(n, 1) + Digit(n, 0) * Byte
  <2> DEFINE ds == [k \in 0 .. 2 - 1 |-> Digit(n, e.width - 1 - 0 - Place(k, 2, TRUE))]
  <2>1. \A k \in 0 .. 1 : e.width - 1 - 0 - Place(k, 2, TRUE) = 1 - k
    BY DEF Place
  <2>2. ds = [k \in 0 .. 1 |-> Digit(n, 1 - k)]
    <3>1. 0 .. 2 - 1 = 0 .. 1
      OBVIOUS
    <3> QED BY <2>1, <3>1, Zenon
  <2> HIDE DEF ds
  <2>3. ds \in [0 .. 1 -> Nat] /\ ds[0] = Digit(n, 1) /\ ds[1] = Digit(n, 0)
    BY <2>2, <1>3
  <2>4. Number(ds) = Digit(n, 1) + Digit(n, 0) * Byte
    BY <2>3, NumberTwo
  <2> QED BY <2>4 DEF ds
<1>5. ASSUME NEW n \in Nat, NEW offset \in 0 .. 1
      PROVE  Number([k \in 0 .. 1 - 1 |-> Digit(n, e.width - 1 - offset - Place(k, 1, TRUE))]) =
               Digit(n, 1 - offset)
  <2> DEFINE ds == [k \in 0 .. 1 - 1 |-> Digit(n, e.width - 1 - offset - Place(k, 1, TRUE))]
  <2>1. \A k \in 0 .. 0 : e.width - 1 - offset - Place(k, 1, TRUE) = 1 - offset
    BY DEF Place
  <2>2. ds = [k \in 0 .. 0 |-> Digit(n, 1 - offset)]
    <3>1. 0 .. 1 - 1 = 0 .. 0
      OBVIOUS
    <3> QED BY <2>1, <3>1, Zenon
  <2> HIDE DEF ds
  <2>3. ds \in [0 .. 0 -> Nat] /\ ds[0] = Digit(n, 1 - offset)
    BY <2>2, <1>3
  <2>4. Number(ds) = Digit(n, 1 - offset)
    BY <2>3, NumberOne
  <2> QED BY <2>4 DEF ds
<1>6. Extract(e, 0, 2, TRUE) =
        Expr(2, [i \in Inputs |-> Digit(e.at[i], 1) + Digit(e.at[i], 0) * Byte])
  BY <1>1, <1>2, <1>4 DEF Extract
<1>7. ASSUME NEW offset \in 0 .. 1
      PROVE  Extract(e, offset, 1, TRUE) =
               Expr(1, [i \in Inputs |-> Digit(e.at[i], 1 - offset)])
  BY <1>1, <1>2, <1>5 DEF Extract
<1> QED BY <1>6, <1>7

LEMMA TwoDigits ==
  ASSUME NEW a \in 0 .. Byte - 1, NEW b \in 0 .. Byte - 1
  PROVE  /\ a * Byte + b \in 0 .. Byte * Byte - 1
         /\ b + a * Byte \in 0 .. Byte * Byte - 1
<1>1. Byte \in Nat /\ a \in Nat /\ Byte - 1 - a \in Nat
  BY ByteFacts
<1>2. \A m, k \in Nat : m * k \in Nat
  OBVIOUS
<1>3. (Byte - 1 - a) * Byte \in Nat /\ a * Byte \in Nat
  BY <1>1, <1>2
<1>4. (Byte - 1 - a) * Byte = Byte * Byte - Byte - a * Byte
  BY <1>1
<1> QED BY <1>1, <1>3, <1>4, ByteFacts

LEMMA SwappedType ==
  ASSUME NEW n \in Nat
  PROVE  Digit(n, 0) * Byte + Digit(n, 1) \in 0 .. Byte * Byte - 1
BY DigitType, TwoDigits

LEMMA BswapStep ==
  ASSUME IInv, NEW r \in Registers, NEW x \in Operands("word"), Bswap(r, x)
  PROVE  IInv'
<1> DEFINE c == Completed(<<x>>)[1]
           f == [i \in Inputs |-> Digit(x.value[i], 0) * Byte + Digit(x.value[i], 1)]
           g == [i \in Inputs |-> Digit(c.at[i], 1) + Digit(c.at[i], 0) * Byte]
           e == Extract(c, 0, 2, TRUE)
           v == Result("word", <<x>>, f, e)
<1>1. Set(r, v) /\ UNCHANGED <<input, mem, path, alive>>
  BY DEF Bswap
<1>2. "word" \in Types /\ Size("word") = 2 /\ Limit(2) = Byte * Byte
  BY LimitFacts DEF Types, Size
<1>3. Good(x, alive, input) /\ x.type = "word"
  BY <1>2, OperandGood
<1>4. f \in [Inputs -> 0 .. Limit(Size("word")) - 1]
  BY <1>2, <1>3, SwappedType, Fields
<1>5. Constant(x.value) => Constant(f)
  BY Here DEF Constant
<1>6. \A n \in Nat : /\ Digit(n, 1) + Digit(n, 0) * Byte \in Nat
                     /\ Digit(n, 1) + Digit(n, 0) * Byte = Digit(n, 0) * Byte + Digit(n, 1)
  <2>1. \A n \in Nat : Digit(n, 0) \in Nat /\ Digit(n, 1) \in Nat
    BY DigitType, ByteFacts
  <2>2. \A a, b \in Nat : b + a * Byte \in Nat /\ b + a * Byte = a * Byte + b
    BY ByteFacts
  <2> QED BY <2>1, <2>2
<1>7. Denotes(c, x) => g \in [Inputs -> Nat] /\ \A i \in alive : g[i] = f[i]
  BY Here, <1>6 DEF Denotes
<1>8. Denotes(c, x) => e = Expr(2, g)
  <2> HIDE DEF c
  <2> QED BY <1>2, <1>3, ExtractRight DEF Denotes
<1> HIDE DEF f, g, e, c
<1>9. Good(v, alive, input)
  BY <1>2, <1>3, <1>4, <1>5, <1>7, <1>8, UnaryGood DEF c
<1> HIDE DEF v
<1> QED BY <1>1, <1>9, PathKept, RegisterStep

LEMMA ExtractValueStep ==
  ASSUME IInv, NEW r \in Registers, NEW x \in Operands("struct"), NEW offset \in 0 .. 1,
         ExtractValue(r, x, offset)
  PROVE  IInv'
<1> DEFINE c == Completed(<<x>>)[1]
           f == [i \in Inputs |-> Digit(x.value[i], 1 - offset)]
           g == [i \in Inputs |-> Digit(c.at[i], 1 - offset)]
           e == Extract(c, offset, 1, TRUE)
           v == Result("byte", <<x>>, f, e)
<1>1. Set(r, v) /\ UNCHANGED <<input, mem, path, alive>>
  BY DEF ExtractValue
<1>2. /\ "struct" \in Types /\ "byte" \in Types
      /\ Size("struct") = 2 /\ Size("byte") = 1 /\ Limit(1) = Byte
  BY LimitFacts DEF Types, Size
<1>3. Good(x, alive, input) /\ x.type = "struct"
  BY <1>2, OperandGood
<1>4. \A n \in Nat : Digit(n, 1 - offset) \in 0 .. Byte - 1 /\ Digit(n, 1 - offset) \in Nat
  BY DigitType, ByteFacts
<1>5. f \in [Inputs -> 0 .. Limit(Size("byte")) - 1]
  BY <1>2, <1>3, <1>4, Fields
<1>6. Constant(x.value) => Constant(f)
  BY Here DEF Constant
<1>7. Denotes(c, x) => g \in [Inputs -> Nat] /\ \A i \in alive : g[i] = f[i]
  BY Here, <1>4 DEF Denotes
<1>8. Denotes(c, x) => e = Expr(1, g)
  <2> HIDE DEF c
  <2> QED BY <1>2, <1>3, ExtractRight DEF Denotes
<1> HIDE DEF f, g, e, c
<1>9. Good(v, alive, input)
  BY <1>2, <1>3, <1>5, <1>6, <1>7, <1>8, UnaryGood DEF c
<1> HIDE DEF v
<1> QED BY <1>1, <1>9, PathKept, RegisterStep

LEMMA NtohlStep ==
  ASSUME IInv, NEW r \in Registers, NEW x \in Operands("word"), Ntohl(r, x)
  PROVE  IInv'
<1> DEFINE f == [i \in Inputs |-> Digit(x.value[i], 0) * Byte + Digit(x.value[i], 1)]
           e == IF x.expr = Null THEN Null ELSE Extract(x.expr, 0, 2, TRUE)
           v == [type |-> "word", value |-> f, expr |-> e, entry |-> TRUE]
<1>1. Set(r, v) /\ UNCHANGED <<input, mem, path, alive>>
  BY DEF Ntohl
<1>2. "word" \in Types /\ Size("word") = 2 /\ Limit(2) = Byte * Byte
  BY LimitFacts DEF Types, Size
<1>3. Good(x, alive, input) /\ x.type = "word"
  BY <1>2, OperandGood
<1>4. f \in [Inputs -> 0 .. Limit(Size("word")) - 1]
  BY <1>2, <1>3, SwappedType, Fields
<1>5. CASE x.expr = Null
  <2>1. e = Null /\ \A i \in alive : f[i] = f[input]
    BY <1>3, <1>5, Fields, Here DEF Constant
  <2> HIDE DEF e, f
  <2>2. Good(v, alive, input)
    BY <1>2, <1>4, <2>1, Here, MakeGood
  <2> HIDE DEF v
  <2> QED BY <1>1, <2>2, PathKept, RegisterStep
<1>6. CASE x.expr # Null
  <2> DEFINE g == [i \in Inputs |-> Digit(x.expr.at[i], 1) + Digit(x.expr.at[i], 0) * Byte]
  <2>1. Denotes(x.expr, x)
    BY <1>3, <1>6, Fields
  <2>2. e = Expr(2, g)
    BY <1>2, <1>3, <1>6, <2>1, ExtractRight DEF Denotes
  <2>3. g \in [Inputs -> Nat] /\ \A i \in alive : g[i] = f[i]
    <3>1. \A n \in Nat : Digit(n, 0) \in Nat /\ Digit(n, 1) \in Nat
      BY DigitType, ByteFacts
    <3>2. \A a, b \in Nat : b + a * Byte \in Nat /\ b + a * Byte = a * Byte + b
      BY ByteFacts
    <3>3. \A i \in Inputs : x.expr.at[i] \in Nat
      BY <2>1 DEF Denotes
    <3>4. g \in [Inputs -> Nat]
      BY <3>1, <3>2, <3>3
    <3>5. \A i \in alive : x.expr.at[i] = x.value[i] /\ i \in Inputs
      BY Here, <2>1 DEF Denotes
    <3>6. \A n \in Nat : Digit(n, 1) + Digit(n, 0) * Byte = Digit(n, 0) * Byte + Digit(n, 1)
      BY <3>1, <3>2
    <3> QED BY <3>3, <3>4, <3>5, <3>6
  <2> HIDE DEF e, f, g
  <2>4. e \in Expressions /\ e.width = 2 /\ e.at = g
    BY <2>2, <2>3, ExprType
  <2>5. Good(v, alive, input)
    BY <1>2, <1>4, <2>3, <2>4, Here, MakeGood
  <2> HIDE DEF v
  <2> QED BY <1>1, <2>5, PathKept, RegisterStep
<1> QED BY <1>5, <1>6

LEMMA PHIStep ==
  ASSUME IInv, NEW r \in Registers, NEW t \in Types, NEW x \in Operands(t), NEW y,
         PHI(r, x, y)
  PROVE  IInv'
<1> DEFINE b == \E v \in {x, y} : v.entry
           u == [type |-> x.type, value |-> x.value, expr |-> x.expr, entry |-> b]
<1>1. Set(r, Finalized(x, {x, y})) /\ UNCHANGED <<input, mem, path, alive>>
  BY DEF PHI
<1>2. Good(x, alive, input) /\ x \in Values
  BY OperandGood DEF Good
<1>3. Finalized(x, {x, y}) = u
  BY <1>2, EntryChanged DEF Finalized
<1>4. x.expr # Null => b
  BY <1>2 DEF Good
<1>5. b \in BOOLEAN
  OBVIOUS
<1> HIDE DEF b
<1>6. Good(u, alive, input)
  BY <1>2, <1>4, <1>5, Here, Fields, MakeGood DEF Denotes, Constant
<1> QED BY <1>1, <1>3, <1>6, PathKept, RegisterStep

\* An address with an offset, the latter known to be right
LEMMA GetElementPtrRight ==
  ASSUME IInv, NEW x, Good(x, alive, input), NEW p, Good(p, alive, input), p.type = "word",
         NEW k, Good(k, alive, input), NEW f \in [Inputs -> 0 .. Limit(2) - 1],
         Constant(x.value) /\ Constant(p.value) => Constant(f),
         ~AllConcrete(<<x, k, p>>) =>
           \A i \in alive : f[i] = (p.value[i] + x.value[i] * k.value[i]) % Limit(2)
  PROVE  LET es == Completed(<<x, k, p>>)
             offset == Apply(<<es[1], es[2]>>, 2,
                         [i \in Inputs |-> (es[1].at[i] * es[2].at[i]) % Limit(2)])
             address == Apply(<<offset, es[3]>>, 2,
                          [i \in Inputs |-> (offset.at[i] + es[3].at[i]) % Limit(2)])
         IN  Good(Result("word", <<x, k, p>>, f, address), alive, input)
<1> DEFINE args == <<x, k, p>>
           es == Completed(args)
           go == [i \in Inputs |-> (es[1].at[i] * es[2].at[i]) % Limit(2)]
           offset == Apply(<<es[1], es[2]>>, 2, go)
           ga == [i \in Inputs |-> (offset.at[i] + es[3].at[i]) % Limit(2)]
           address == Apply(<<offset, es[3]>>, 2, ga)
<1>1. args \in [1 .. 3 -> Values] /\ args[1] = x /\ args[2] = k /\ args[3] = p
  BY DEF Good
<1>2. \A j \in 1 .. 3 : j = 1 \/ j = 2 \/ j = 3
  OBVIOUS
<1>3. 1 \in 1 .. 3 /\ 2 \in 1 .. 3 /\ 3 \in 1 .. 3
  OBVIOUS
<1> HIDE DEF args
<1>4. \A j \in 1 .. 3 : Good(args[j], alive, input)
  BY <1>1, <1>2
<1>5. "word" \in Types /\ Size("word") = 2 /\ Limit(2) \in Nat \ {0}
  BY LimitFacts, ByteFacts DEF Types, Size
<1>6. AllConcrete(args) => \A i \in alive : f[i] = f[input]
  <2>1. ASSUME AllConcrete(args) PROVE Constant(f)
    BY <1>1, <1>3, <1>4, <2>1, ConcreteArgs
  <2> QED BY <2>1 DEF Constant
<1>7. ASSUME ~AllConcrete(args)
      PROVE  /\ address \in Expressions /\ address.width = 2
             /\ \A i \in alive : address.at[i] = f[i]
  <2>1. Denotes(es[1], x) /\ Denotes(es[2], k) /\ Denotes(es[3], p)
    BY <1>1, <1>3, <1>4, <1>7, CompletedRight
  <2> HIDE DEF es
  <2>2. \A m, n \in Nat : (m * n) % Limit(2) \in Nat /\ (m + n) % Limit(2) \in Nat
    <3>1. \A m, n \in Nat : m * n \in Nat /\ m + n \in Nat
      OBVIOUS
    <3>2. \A m \in Nat : m % Limit(2) \in Nat
      BY <1>5
    <3> QED BY <3>1, <3>2
  <2>3. go \in [Inputs -> Nat]
    BY <2>1, <2>2 DEF Denotes
  <2>4. \A i \in Inputs : go[i] = (es[1].at[i] * es[2].at[i]) % Limit(2)
    OBVIOUS
  <2>5. offset = Expr(2, go)
    <3> HIDE DEF go
    <3> QED BY <2>1, ApplyExpr DEF Denotes
  <2>6. offset.at = go /\ offset # Null /\ offset # Broken
    <3> HIDE DEF go
    <3> QED BY <2>3, <2>5, ExprType
  <2> HIDE DEF go, offset
  <2>7. ga \in [Inputs -> Nat]
    BY <2>1, <2>2, <2>3, <2>6 DEF Denotes
  <2>8. \A i \in Inputs : ga[i] = (go[i] + es[3].at[i]) % Limit(2)
    BY <2>6
  <2>9. address = Expr(2, ga)
    <3> HIDE DEF ga
    <3> QED BY <2>1, <2>6, ApplyExpr DEF Denotes
  <2> HIDE DEF ga, address
  <2>10. address \in Expressions /\ address.width = 2 /\ address.at = ga
    BY <2>7, <2>9, ExprType
  <2>11. ASSUME NEW i \in alive PROVE ga[i] = f[i]
    <3> DEFINE a == x.value[i] * k.value[i]
               b == p.value[i]
    <3>1. i \in Inputs
      BY Here
    <3>2. go[i] = a % Limit(2) /\ es[3].at[i] = b
      BY <2>1, <2>4, <3>1 DEF Denotes
    <3>3. a \in Nat /\ b \in Nat
      <4>1. x.value[i] \in Nat /\ k.value[i] \in Nat /\ p.value[i] \in Nat
        BY <3>1, Fields
      <4> QED BY <4>1
    <3>4. f[i] = (b + a) % Limit(2)
      BY <1>7 DEF args
    <3> HIDE DEF a, b
    <3> QED BY <3>1, <3>2, <3>3, <3>4, <2>8, <1>5, RemainderOfSum
  <2> QED BY <2>10, <2>11
<1> HIDE DEF address
<1>8. Good(Result("word", args, f, address), alive, input)
  BY <1>1, <1>4, <1>5, <1>6, <1>7, ResultGood
<1> QED BY <1>8 DEF args, es, go, offset, ga, address

LEMMA GetElementPtrStep ==
  ASSUME IInv, Deviations = {}, NEW r \in Registers, NEW p \in Operands("word"),
         NEW x \in Operands("byte") \cup Operands("word"), GetElementPtr(r, p, x, 3)
  PROVE  IInv'
<1> DEFINE k == Const("word", 3)
           args == <<x, k, p>>
           es == Completed(args)
           Index(n) == IF x.type = "byte" THEN SignExtended(n, 2) ELSE n
           offset == Apply(<<es[1], es[2]>>, 2,
                       [i \in Inputs |-> (es[1].at[i] * es[2].at[i]) % Limit(2)])
           address == Apply(<<offset, es[3]>>, 2,
                        [i \in Inputs |-> (offset.at[i] + es[3].at[i]) % Limit(2)])
           f == [i \in Inputs |-> (p.value[i] + Index(x.value[i]) * 3) % Limit(2)]
           v == IF x = Const(x.type, 0) THEN p ELSE Result("word", args, f, address)
<1>1. /\ ~AllConcrete(args) => \A i \in alive : Index(x.value[i]) = x.value[i]
      /\ Set(r, v) /\ UNCHANGED <<input, mem, path, alive>>
  BY DEF GetElementPtr
<1>2. "word" \in Types /\ "byte" \in Types /\ Size("word") = 2 /\ 3 \in 0 .. Limit(2) - 1
  BY LimitFacts, ByteFacts DEF Types, Size
<1>3. Good(x, alive, input) /\ Good(p, alive, input) /\ p.type = "word"
  BY <1>2, OperandGood
<1>4. Good(k, alive, input) /\ \A i \in Inputs : k.value[i] = 3
  BY <1>2, Here, ConstGood DEF Const
<1>5. f \in [Inputs -> 0 .. Limit(2) - 1]
  <2>1. \A n \in Nat : Index(n) \in Nat
    BY SignExtendedType
  <2> HIDE DEF Index
  <2>2. \A i \in Inputs : p.value[i] + Index(x.value[i]) * 3 \in Int
    BY <1>3, <2>1, Fields
  <2>3. Limit(2) \in Nat \ {0}
    BY LimitFacts, ByteFacts
  <2> QED BY <2>2, <2>3, Remainder
<1>6. Constant(x.value) /\ Constant(p.value) => Constant(f)
  BY Here DEF Constant
<1>7. ~AllConcrete(args) =>
        \A i \in alive : f[i] = (p.value[i] + x.value[i] * k.value[i]) % Limit(2)
  <2> HIDE DEF Index, k, args
  <2> QED BY <1>1, <1>4, Here
<1> HIDE DEF k, f
<1>8. Good(Result("word", args, f, address), alive, input)
  BY <1>3, <1>4, <1>5, <1>6, <1>7, GetElementPtrRight
<1> HIDE DEF address
<1>9. Good(v, alive, input)
  BY <1>3, <1>8
<1> HIDE DEF v
<1> QED BY <1>1, <1>9, PathKept, RegisterStep

-----------------------------------------------------------------------------
(***************************************************************************)
(* Instructions that push path constraints                                 *)
(***************************************************************************)

\* What is pushed for a value says of the inputs that take the path which ones agree
\* on the value.
LEMMA PushedAgreeing ==
  ASSUME IInv, NEW v, Good(v, alive, input), NEW i \in alive
  PROVE  /\ i \in Pushed(v) <=> i \in Agreeing(v)
         /\ i \in Agreeing(v) <=> v.value[i] = v.value[input]
BY Here, GoodRight DEF Pushed, Agreeing, Concrete

LEMMA FollowRight ==
  ASSUME IInv, NEW n \in Nat, NEW vs \in [1 .. n -> Values],
         \A k \in 1 .. n : Good(vs[k], alive, input), Follow(vs), input' = input
  PROVE  /\ PathRight' /\ alive' \subseteq alive
         /\ \A i \in alive', k \in 1 .. n : vs[k].value[i] = vs[k].value[input]
<1>1. DOMAIN vs = 1 .. n
  OBVIOUS
<1>2. /\ path' = {i \in path : \A k \in 1 .. n : i \in Pushed(vs[k])}
      /\ alive' = {i \in alive : \A k \in 1 .. n : i \in Agreeing(vs[k])}
  BY <1>1 DEF Follow
<1>3. path' = alive'
  BY <1>2, Here, PushedAgreeing
<1>4. alive' = {i \in alive : \A k \in 1 .. n : vs[k].value[i] = vs[k].value[input]}
  BY <1>2, PushedAgreeing
<1>5. input \in alive'
  BY <1>4, Here
<1> QED BY <1>2, <1>3, <1>4, <1>5, Here DEF PathRight

\* The same for one value, for two and for three
LEMMA FollowValues ==
  ASSUME IInv, input' = input, NEW x, Good(x, alive, input)
  PROVE  /\ Follow(<<x>>) =>
              /\ PathRight' /\ alive' \subseteq alive
              /\ \A i \in alive' : x.value[i] = x.value[input]
         /\ \A y : Good(y, alive, input) /\ Follow(<<x, y>>) =>
              /\ PathRight' /\ alive' \subseteq alive
              /\ \A i \in alive' : x.value[i] = x.value[input] /\ y.value[i] = y.value[input]
         /\ \A y, z : Good(y, alive, input) /\ Good(z, alive, input) /\ Follow(<<x, y, z>>) =>
              /\ PathRight' /\ alive' \subseteq alive
              /\ \A i \in alive' : /\ x.value[i] = x.value[input] /\ y.value[i] = y.value[input]
                                   /\ z.value[i] = z.value[input]
<1>1. ASSUME Follow(<<x>>)
      PROVE  /\ PathRight' /\ alive' \subseteq alive
             /\ \A i \in alive' : x.value[i] = x.value[input]
  <2> DEFINE vs == <<x>>
  <2>1. vs \in [1 .. 1 -> Values] /\ vs[1] = x /\ 1 \in 1 .. 1 /\ \A k \in 1 .. 1 : k = 1
    BY DEF Good
  <2>2. Follow(vs)
    BY <1>1
  <2> HIDE DEF vs
  <2>3. \A k \in 1 .. 1 : Good(vs[k], alive, input)
    BY <2>1
  <2>4. /\ PathRight' /\ alive' \subseteq alive
        /\ \A i \in alive', k \in 1 .. 1 : vs[k].value[i] = vs[k].value[input]
    <3>1. PICK n \in Nat : n = 1
      OBVIOUS
    <3>2. vs \in [1 .. n -> Values] /\ \A k \in 1 .. n : Good(vs[k], alive, input)
      BY <2>1, <2>3, <3>1
    <3>3. /\ PathRight' /\ alive' \subseteq alive
          /\ \A i \in alive', k \in 1 .. n : vs[k].value[i] = vs[k].value[input]
      BY <2>2, <3>2, FollowRight
    <3> QED BY <3>1, <3>3
  <2> QED BY <2>1, <2>4
<1>2. ASSUME NEW y, Good(y, alive, input), Follow(<<x, y>>)
      PROVE  /\ PathRight' /\ alive' \subseteq alive
             /\ \A i \in alive' : x.value[i] = x.value[input] /\ y.value[i] = y.value[input]
  <2> DEFINE vs == <<x, y>>
  <2>1. /\ vs \in [1 .. 2 -> Values] /\ vs[1] = x /\ vs[2] = y
        /\ 1 \in 1 .. 2 /\ 2 \in 1 .. 2 /\ \A k \in 1 .. 2 : k = 1 \/ k = 2
    BY <1>2 DEF Good
  <2>2. Follow(vs)
    BY <1>2
  <2> HIDE DEF vs
  <2>3. \A k \in 1 .. 2 : Good(vs[k], alive, input)
    BY <1>2, <2>1
  <2>4. /\ PathRight' /\ alive' \subseteq alive
        /\ \A i \in alive', k \in 1 .. 2 : vs[k].value[i] = vs[k].value[input]
    <3>1. vs \in [1 .. 2 -> Values] /\ 2 \in Nat
      BY <2>1
    <3> QED BY <3>1, <2>2, <2>3, FollowRight
  <2> QED BY <2>1, <2>4
<1>3. ASSUME NEW y, NEW z, Good(y, alive, input), Good(z, alive, input), Follow(<<x, y, z>>)
      PROVE  /\ PathRight' /\ alive' \subseteq alive
             /\ \A i \in alive' : /\ x.value[i] = x.value[input] /\ y.value[i] = y.value[input]
                                  /\ z.value[i] = z.value[input]
  <2> DEFINE vs == <<x, y, z>>
  <2>1. /\ vs \in [1 .. 3 -> Values] /\ vs[1] = x /\ vs[2] = y /\ vs[3] = z
        /\ 1 \in 1 .. 3 /\ 2 \in 1 .. 3 /\ 3 \in 1 .. 3
        /\ \A k \in 1 .. 3 : k = 1 \/ k = 2 \/ k = 3
    BY <1>3 DEF Good
  <2>2. Follow(vs)
    BY <1>3
  <2> HIDE DEF vs
  <2>3. \A k \in 1 .. 3 : Good(vs[k], alive, input)
    BY <1>3, <2>1
  <2>4. /\ PathRight' /\ alive' \subseteq alive
        /\ \A i \in alive', k \in 1 .. 3 : vs[k].value[i] = vs[k].value[input]
    <3>1. vs \in [1 .. 3 -> Values] /\ 3 \in Nat
      BY <2>1
    <3> QED BY <3>1, <2>2, <2>3, FollowRight
  <2> QED BY <2>1, <2>4
<1> QED BY <1>1, <1>2, <1>3

LEMMA PathStep ==
  ASSUME IInv, PathRight', input' = input, alive' \subseteq alive, UNCHANGED <<reg, mem>>
  PROVE  IInv'
BY Narrower DEF IInv

LEMMA SelectStep ==
  ASSUME IInv, Deviations = {}, NEW r \in Registers, NEW c \in Operands("bool"),
         NEW t \in Types, NEW x \in Operands(t), NEW y \in Operands(t), Select(r, c, x, y)
  PROVE  IInv'
<1> DEFINE f == [i \in Inputs |-> IF c.value[i] = 1 THEN x.value[i] ELSE y.value[i]]
           v == [type |-> x.type, value |-> f, expr |-> Null, entry |-> FALSE]
<1>1. /\ Lost("select", f, alive \cap Agreeing(c)) /\ Set(r, v) /\ Follow(<<c>>)
      /\ input' = input /\ mem' = mem
  BY DEF Select
<1>2. /\ Good(c, alive, input) /\ Good(x, alive, input) /\ Good(y, alive, input)
      /\ x.type = t /\ y.type = t
  BY OperandGood DEF Types
<1>3. /\ PathRight' /\ alive' \subseteq alive
      /\ \A i \in alive' : c.value[i] = c.value[input]
  BY <1>1, <1>2, FollowValues
<1>4. f \in [Inputs -> 0 .. Limit(Size(t)) - 1]
  BY <1>2, Fields
<1> HIDE DEF f
<1>5. \A i \in alive' : f[i] = f[input]
  BY <1>1, <1>3, Here DEF Lost, Agreeing, Concrete
<1>6. alive' \in SUBSET Inputs
  BY <1>3, Here
<1>7. Good(v, alive', input)
  BY <1>2, <1>4, <1>5, <1>6, Here, MakeGood
<1> HIDE DEF v
<1> QED BY <1>1, <1>3, <1>7, RegisterStep

LEMMA BranchStep ==
  ASSUME IInv, NEW t \in Types, NEW c \in Operands(t), Branch(c) \/ IndirectBr(c)
  PROVE  IInv'
<1>1. Follow(<<c>>) /\ input' = input /\ UNCHANGED <<reg, mem>>
  BY DEF Branch, IndirectBr
<1>2. Good(c, alive, input)
  BY OperandGood
<1>3. PathRight' /\ alive' \subseteq alive
  BY <1>1, <1>2, FollowValues
<1> QED BY <1>1, <1>3, PathStep

LEMMA SwitchStep ==
  ASSUME IInv, NEW x \in Operands("word"), NEW cases, Switch(x, cases)
  PROVE  IInv'
<1> DEFINE same(n) == \A c \in cases : (n = c) <=> (Concrete(x) = c)
<1>1. /\ path' = {i \in path : x.expr # Null => same(x.expr.at[i])}
      /\ alive' = {i \in alive : same(x.value[i])}
      /\ input' = input /\ UNCHANGED <<reg, mem>>
  BY DEF Switch
<1>2. Good(x, alive, input)
  BY OperandGood DEF Types
<1>3. same(x.value[input])
  BY DEF Concrete
<1>4. ASSUME NEW i \in alive
      PROVE  (x.expr # Null => same(x.expr.at[i])) <=> same(x.value[i])
  BY <1>2, <1>3, Fields DEF Denotes, Constant
<1> HIDE DEF same
<1>5. PathRight' /\ alive' \subseteq alive
  BY <1>1, <1>3, <1>4, Here DEF PathRight
<1> QED BY <1>1, <1>5, PathStep

-----------------------------------------------------------------------------
(***************************************************************************)
(* Instructions that use memory                                            *)
(***************************************************************************)

LEMMA NumberType ==
  ASSUME NEW n \in 1 .. 2
  PROVE  /\ \A f \in [0 .. n - 1 -> Nat] : Number(f) \in Nat
         /\ \A f \in [0 .. n - 1 -> 0 .. Byte - 1] : Number(f) \in 0 .. Limit(n) - 1
<1>1. CASE n = 1
  <2>1. 0 .. n - 1 = 0 .. 0
    BY <1>1
  <2>2. ASSUME NEW f \in [0 .. 0 -> Nat] PROVE Number(f) = f[0] /\ f[0] \in Nat
    <3>1. 0 \in 0 .. 0
      OBVIOUS
    <3> QED BY <3>1, NumberOne
  <2>3. 0 .. Byte - 1 \subseteq Nat
    BY ByteFacts
  <2>4. ASSUME NEW f \in [0 .. 0 -> 0 .. Byte - 1] PROVE Number(f) \in 0 .. Byte - 1
    <3>1. f \in [0 .. 0 -> Nat] /\ f[0] \in 0 .. Byte - 1
      BY <2>3
    <3> QED BY <3>1, <2>2
  <2> QED BY <1>1, <2>1, <2>2, <2>4, LimitFacts
<1>2. CASE n = 2
  <2>1. 0 .. n - 1 = 0 .. 1
    BY <1>2
  <2>2. ASSUME NEW f \in [0 .. 1 -> Nat]
        PROVE  Number(f) = f[0] + f[1] * Byte /\ f[0] \in Nat /\ f[1] \in Nat
    <3>1. 0 \in 0 .. 1 /\ 1 \in 0 .. 1
      OBVIOUS
    <3> QED BY <3>1, NumberTwo
  <2>3. 0 .. Byte - 1 \subseteq Nat
    BY ByteFacts
  <2>4. \A a, b \in Nat : a + b * Byte \in Nat
    BY ByteFacts
  <2>5. ASSUME NEW f \in [0 .. 1 -> 0 .. Byte - 1] PROVE Number(f) \in 0 .. Byte * Byte - 1
    <3>1. f \in [0 .. 1 -> Nat] /\ f[0] \in 0 .. Byte - 1 /\ f[1] \in 0 .. Byte - 1
      BY <2>3
    <3>2. f[0] + f[1] * Byte \in 0 .. Byte * Byte - 1
      BY <3>1, TwoDigits
    <3> QED BY <3>1, <3>2, <2>2
  <2>6. \A f \in [0 .. n - 1 -> Nat] : Number(f) \in Nat
    BY <2>1, <2>2, <2>4, Zenon
  <2>7. Limit(n) = Byte * Byte
    BY <1>2, LimitFacts
  <2>8. \A f \in [0 .. n - 1 -> 0 .. Byte - 1] : Number(f) \in 0 .. Limit(n) - 1
    BY <2>1, <2>5, <2>7, Zenon
  <2> QED BY <2>6, <2>8
<1> QED BY <1>1, <1>2

\* A cell of memory, and the expression for it that a load puts together with others
LEMMA CellFacts ==
  ASSUME IInv, NEW a \in 0 .. MemSize - 1
  PROVE  /\ mem[a].value \in [Inputs -> 0 .. Byte - 1]
         /\ mem[a].expr = Null => Constant(mem[a].value)
         /\ ByteExpr(mem[a]) # Null /\ ByteExpr(mem[a]) # Broken
         /\ ByteExpr(mem[a]).at \in [Inputs -> Nat]
         /\ \A i \in alive : ByteExpr(mem[a]).at[i] = mem[a].value[i]
<1> DEFINE m == mem[a]
           g == [i \in Inputs |-> m.value[input]]
<1>1. GoodCell(m, alive, input) /\ m \in Cells
  BY DEF IInv, GoodCell
<1>2. m.value \in [Inputs -> Nat] /\ m.expr \in Expressions \cup {Null}
  BY <1>1 DEF Cells
<1>3. m.value \in [Inputs -> 0 .. Byte - 1]
  BY <1>1, <1>2, LimitFacts, ByteFacts DEF GoodCell, Fits
<1>4. \A i \in alive : m.value[i] = IF m.expr = Null THEN m.value[input] ELSE m.expr.at[i]
  BY <1>1 DEF GoodCell, Right
<1> HIDE DEF m
<1>5. CASE m.expr = Null
  <2>1. g \in [Inputs -> Nat] /\ \A i \in alive : g[i] = m.value[i]
    BY <1>2, <1>4, <1>5, Here
  <2>2. ByteExpr(m) = Expr(1, g)
    BY <1>5 DEF ByteExpr
  <2> HIDE DEF g
  <2>3. ByteExpr(m) # Null /\ ByteExpr(m) # Broken /\ ByteExpr(m).at = g
    BY <2>1, <2>2, ExprType
  <2>4. Constant(m.value)
    BY <1>4, <1>5 DEF Constant
  <2> QED BY <1>3, <2>1, <2>3, <2>4 DEF m
<1>6. CASE m.expr # Null
  <2>1. ByteExpr(m) = m.expr /\ m.expr \in Expressions
    BY <1>2, <1>6 DEF ByteExpr
  <2>2. m.expr # Broken /\ m.expr.at \in [Inputs -> Nat]
    BY <2>1, ExpressionAssumption DEF ExpressionAssumption, Expressions
  <2> QED BY <1>3, <1>4, <1>6, <2>1, <2>2 DEF m
<1> QED BY <1>5, <1>6

LEMMA PlaceType ==
  ASSUME NEW n \in 1 .. 2, NEW j \in 0 .. n - 1, NEW le \in BOOLEAN
  PROVE  Place(j, n, le) \in 0 .. n - 1 /\ Place(j, n, le) \in 0 .. 1
BY DEF Place

LEMMA ReadRight ==
  ASSUME IInv, NEW n \in 1 .. 2, NEW le \in BOOLEAN, NEW a \in Nat, InMemory(a, n)
  PROVE  /\ ReadValue(a, n, le) \in [Inputs -> 0 .. Limit(n) - 1]
         /\ \/ /\ ReadMemory(a, n, le) = Null
               /\ Constant(ReadValue(a, n, le))
            \/ /\ ReadMemory(a, n, le) \in Expressions
               /\ ReadMemory(a, n, le).width = n
               /\ \A i \in alive : ReadMemory(a, n, le).at[i] = ReadValue(a, n, le)[i]
<1> DEFINE At(k) == a + Place(k, n, le)
           ds(i) == [k \in 0 .. n - 1 |-> mem[At(k)].value[i]]
           f == ReadValue(a, n, le)
           es == [k \in 0 .. n - 1 |-> ByteExpr(mem[At(k)])]
           us(i) == [k \in 0 .. n - 1 |-> es[k].at[i]]
           g == [i \in Inputs |-> Number(us(i))]
<1>1. ASSUME NEW k \in 0 .. n - 1 PROVE At(k) \in 0 .. MemSize - 1 /\ At(k) \in a .. a + n - 1
  BY PlaceType, InstrumentationAssumption DEF InMemory, InstrumentationAssumption
<1> HIDE DEF At
<1>2. f = [i \in Inputs |-> Number(ds(i))]
  BY DEF ReadValue, At
<1>3. ASSUME NEW i \in Inputs PROVE ds(i) \in [0 .. n - 1 -> 0 .. Byte - 1]
  BY <1>1, CellFacts
<1>4. f \in [Inputs -> 0 .. Limit(n) - 1]
  <2> HIDE DEF ds, f
  <2> QED BY <1>2, <1>3, NumberType
<1>5. CASE \A j \in 0 .. n - 1 : mem[a + j].expr = Null
  <2>1. ReadMemory(a, n, le) = Null
    BY <1>5 DEF ReadMemory
  <2>2. ASSUME NEW k \in 0 .. n - 1 PROVE mem[At(k)].expr = Null
    BY <1>5, PlaceType DEF At
  <2>3. ASSUME NEW i \in alive PROVE ds(i) = ds(input)
    <3>1. \A k \in 0 .. n - 1 : mem[At(k)].value[i] = mem[At(k)].value[input]
      BY <1>1, <2>2, CellFacts DEF Constant
    <3> QED BY <3>1
  <2> HIDE DEF ds, f
  <2>4. Constant(f)
    BY <1>2, <2>3, Here DEF Constant
  <2> QED BY <1>4, <2>1, <2>4 DEF f
<1>6. CASE ~\A j \in 0 .. n - 1 : mem[a + j].expr = Null
  <2>1. ReadMemory(a, n, le) = Concat(es, n)
    BY <1>6 DEF ReadMemory, At
  <2>2. \A k \in DOMAIN es : es[k] # Null /\ es[k] # Broken
    BY <1>1, CellFacts
  <2>3. Concat(es, n) = Apply(es, n, g)
    BY DEF Concat
  <2>4. Apply(es, n, g) = Expr(n, g)
    <3> HIDE DEF es, g
    <3> QED BY <2>2, ApplyExpr
  <2>5. ASSUME NEW i \in Inputs PROVE us(i) \in [0 .. n - 1 -> Nat]
    BY <1>1, CellFacts
  <2>6. ASSUME NEW i \in alive PROVE us(i) = ds(i)
    <3>1. \A k \in 0 .. n - 1 : ByteExpr(mem[At(k)]).at[i] = mem[At(k)].value[i]
      BY <1>1, CellFacts
    <3> QED BY <3>1
  <2>7. g \in [Inputs -> Nat]
    <3> HIDE DEF us
    <3> QED BY <2>5, NumberType
  <2>8. \A i \in Inputs : g[i] = Number(us(i)) /\ f[i] = Number(ds(i))
    <3> HIDE DEF us, f, ds
    <3> QED BY <1>2
  <2> HIDE DEF g, es, us, ds, f
  <2>9. \A i \in alive : g[i] = f[i]
    BY <2>6, <2>8, Here
  <2>10. /\ ReadMemory(a, n, le) \in Expressions
         /\ ReadMemory(a, n, le).width = n /\ ReadMemory(a, n, le).at = g
    BY <2>1, <2>3, <2>4, <2>7, ExprType
  <2> QED BY <1>4, <2>9, <2>10 DEF f
<1> QED BY <1>5, <1>6

\* A cell put together from its parts is good.
LEMMA MakeCell ==
  ASSUME NEW A \in SUBSET Inputs, NEW c \in Inputs,
         NEW f \in [Inputs -> 0 .. Byte - 1], NEW e,
         \/ e = Null /\ \A i \in A : f[i] = f[c]
         \/ /\ e \in Expressions /\ e.width = 1
            /\ \A i \in A : e.at[i] = f[i]
  PROVE  GoodCell([value |-> f, expr |-> e], A, c)
<1> DEFINE m == [value |-> f, expr |-> e]
<1>1. m.value = f /\ m.expr = e
  OBVIOUS
<1>2. f \in [Inputs -> Nat] /\ \A i \in Inputs : f[i] < Limit(1)
  BY ByteFacts, LimitFacts
<1>3. m \in Cells
  BY <1>2 DEF Cells
<1>4. Fits(m, 1)
  BY <1>1, <1>2 DEF Fits
<1>5. Right(m, A, c)
  BY <1>1, ExpressionAssumption DEF Right, ExpressionAssumption
<1> HIDE DEF m
<1>6. GoodCell(m, A, c)
  BY <1>3, <1>4, <1>5 DEF GoodCell
<1> QED BY <1>6 DEF m

\* A step that changes a register and memory
LEMMA DataStep ==
  ASSUME IInv, PathRight', input' = input, alive' \subseteq alive,
         NEW r \in Registers, NEW v, Set(r, v), Good(v, alive', input),
         mem' = [b \in DOMAIN mem |-> mem'[b]],
         \A b \in 0 .. MemSize - 1 : GoodCell(mem'[b], alive', input)
  PROVE  IInv'
<1>1. reg' = [reg EXCEPT ![r] = v] /\ v \in Values
  BY DEF Set, Good
<1>2. reg' \in [Registers -> Values]
  BY <1>1 DEF IInv
<1>3. \A q \in Registers : Good(reg'[q], alive', input)
  <2> TAKE q \in Registers
  <2>1. reg'[q] = IF q = r THEN v ELSE reg[q]
    BY <1>1 DEF IInv
  <2> QED BY <2>1, Narrower
<1>4. mem' \in [0 .. MemSize - 1 -> Cells]
  <2>1. DOMAIN mem = 0 .. MemSize - 1
    BY DEF IInv
  <2>2. \A b \in 0 .. MemSize - 1 : mem'[b] \in Cells
    BY DEF GoodCell
  <2> QED BY <2>1, <2>2
<1> QED BY <1>2, <1>3, <1>4 DEF IInv

\* What an address or a length is on the input of this process
LEMMA ConcreteType ==
  ASSUME IInv, NEW v, Good(v, alive, input)
  PROVE  Concrete(v) \in Nat /\ Concrete(v) = v.value[input]
BY Here, Fields DEF Concrete

LEMMA LoadStep ==
  ASSUME IInv, NEW r \in Registers, NEW t \in {"byte", "word", "struct"},
         NEW p \in Operands("word"), Load(r, t, p)
  PROVE  IInv'
<1> DEFINE a == Concrete(p)
           n == Size(t)
           le == t # "struct"
           f == ReadValue(a, n, le)
           e == ReadMemory(a, n, le)
           v == [type |-> t, value |-> f, expr |-> e, entry |-> TRUE]
<1>1. InMemory(a, n) /\ Follow(<<p>>) /\ Set(r, v) /\ input' = input /\ mem' = mem
  BY DEF Load
<1>2. n \in 1 .. 2 /\ le \in BOOLEAN /\ t \in Types
  BY DEF Size, Types
<1>3. Good(p, alive, input)
  BY OperandGood DEF Types
<1>4. PathRight' /\ alive' \subseteq alive
  BY <1>1, <1>3, FollowValues
<1>5. a \in Nat
  BY <1>3, ConcreteType
<1> HIDE DEF a, le
<1>6. /\ f \in [Inputs -> 0 .. Limit(n) - 1]
      /\ \/ e = Null /\ Constant(f)
         \/ e \in Expressions /\ e.width = n /\ \A i \in alive : e.at[i] = f[i]
  BY <1>1, <1>2, <1>5, ReadRight
<1> HIDE DEF f, e
<1>7. Good(v, alive, input)
  BY <1>2, <1>6, Here, MakeGood DEF Constant
<1> HIDE DEF v
<1>8. Good(v, alive', input)
  BY <1>4, <1>7, GoodOnFewer
<1> QED BY <1>1, <1>4, <1>8, RegisterStep

\* The byte of a value that a store puts at one of its places
LEMMA StoredGood ==
  ASSUME IInv, NEW v, Good(v, alive, input), NEW n \in 1 .. 2,
         NEW j \in 0 .. n - 1, NEW le \in BOOLEAN, v.expr # Null => le
  PROVE  GoodCell([value |-> [i \in Inputs |-> Digit(v.value[i], Place(j, n, le))],
                   expr  |-> WrittenByte(v.expr, j, n, TRUE)], alive, input)
<1> DEFINE k == Place(j, n, le)
           f == [i \in Inputs |-> Digit(v.value[i], k)]
           g == [i \in Inputs |-> Digit(v.expr.at[i], Place(j, n, TRUE))]
           e == WrittenByte(v.expr, j, n, TRUE)
<1>1. k \in 0 .. 1
  BY PlaceType
<1>2. \A m \in Nat : Digit(m, k) \in 0 .. Byte - 1 /\ Digit(m, k) \in Nat
  BY <1>1, DigitType, ByteFacts
<1>3. f \in [Inputs -> 0 .. Byte - 1]
  BY <1>2, Fields
<1>4. ASSUME v.expr = Null PROVE GoodCell([value |-> f, expr |-> e], alive, input)
  <2>1. e = Null
    BY <1>4 DEF WrittenByte
  <2>2. \A i \in alive : f[i] = f[input]
    BY <1>4, Fields, Here DEF Constant
  <2> HIDE DEF f, e
  <2> QED BY <1>3, <2>1, <2>2, Here, MakeCell
<1>5. ASSUME v.expr # Null PROVE GoodCell([value |-> f, expr |-> e], alive, input)
  <2>1. Denotes(v.expr, v)
    BY <1>5, Fields
  <2>2. le = TRUE
    BY <1>5
  <2>3. g \in [Inputs -> Nat] /\ \A i \in alive : g[i] = f[i]
    BY <1>2, <2>1, <2>2, Here DEF Denotes
  <2>4. e = Expr(1, g)
    BY <1>5, <2>1 DEF WrittenByte, Apply, Denotes
  <2> HIDE DEF e, f, g
  <2>5. e \in Expressions /\ e.width = 1 /\ e.at = g
    BY <2>3, <2>4, ExprType
  <2> QED BY <1>3, <2>3, <2>5, Here, MakeCell
<1> QED BY <1>4, <1>5

LEMMA StoreStep ==
  ASSUME IInv, Deviations = {}, NEW t \in {"byte", "word", "struct"},
         NEW p \in Operands("word"), NEW v \in Operands(t), Store(p, v)
  PROVE  IInv'
<1> DEFINE a == Concrete(p)
           n == Size(t)
           le == t # "struct"
           stored(j) ==
             [value |-> [i \in Inputs |-> Digit(v.value[i], Place(j, n, le))],
              expr  |-> WrittenByte(v.expr, j, n, TRUE)]
<1>1. n \in 1 .. 2 /\ le \in BOOLEAN /\ t \in Types
  BY DEF Size, Types
<1>2. Good(p, alive, input) /\ Good(v, alive, input) /\ v.type = t
  BY <1>1, OperandGood DEF Types
<1>3. /\ v.expr # Null => le
      /\ Follow(<<p>>) /\ input' = input /\ reg' = reg
      /\ mem' = [b \in DOMAIN mem |-> IF b \in a .. a + n - 1 THEN stored(b - a) ELSE mem[b]]
  BY <1>2 DEF Store
<1>4. PathRight' /\ alive' \subseteq alive
  BY <1>2, <1>3, FollowValues
<1>5. a \in Nat /\ DOMAIN mem = 0 .. MemSize - 1
  BY <1>2, ConcreteType DEF IInv
<1>6. ASSUME NEW j \in 0 .. n - 1 PROVE GoodCell(stored(j), alive, input)
  BY <1>1, <1>2, <1>3, StoredGood
<1> HIDE DEF a, n, stored
<1>7. ASSUME NEW b \in 0 .. MemSize - 1 PROVE GoodCell(mem'[b], alive', input)
  <2>1. CASE b \in a .. a + n - 1
    <3>1. b - a \in 0 .. n - 1 /\ mem'[b] = stored(b - a)
      BY <1>1, <1>3, <1>5, <2>1
    <3> QED BY <1>4, <1>6, <3>1, GoodCellOnFewer
  <2>2. CASE b \notin a .. a + n - 1
    BY <1>3, <1>4, <1>5, <2>2, Narrower
  <2> QED BY <2>1, <2>2
<1>8. mem' = [b \in DOMAIN mem |-> mem'[b]]
  BY <1>3
<1> QED BY <1>3, <1>4, <1>7, <1>8, MemoryStep

LEMMA MovedGood ==
  ASSUME IInv, NEW to \in Nat, NEW from \in Nat, NEW len \in Nat,
         InMemory(from, len), alive' \subseteq alive, mem' = Moved(to, from, len)
  PROVE  /\ mem' = [b \in DOMAIN mem |-> mem'[b]]
         /\ \A b \in 0 .. MemSize - 1 : GoodCell(mem'[b], alive', input)
<1>1. DOMAIN mem = 0 .. MemSize - 1
  BY DEF IInv
<1>2. mem' = [b \in DOMAIN mem |->
                IF b \in to .. to + len - 1 THEN mem[from + (b - to)] ELSE mem[b]]
  BY DEF Moved
<1>3. ASSUME NEW b \in 0 .. MemSize - 1 PROVE GoodCell(mem'[b], alive', input)
  <2>1. CASE b \in to .. to + len - 1
    <3>1. from + (b - to) \in 0 .. MemSize - 1
      BY <2>1, InstrumentationAssumption DEF InMemory, InstrumentationAssumption
    <3> QED BY <1>1, <1>2, <2>1, <3>1, Narrower
  <2>2. CASE b \notin to .. to + len - 1
    BY <1>1, <1>2, <2>2, Narrower
  <2> QED BY <2>1, <2>2
<1> QED BY <1>2, <1>3

LEMMA MemmoveStep ==
  ASSUME IInv, NEW d \in Operands("word"), NEW s \in Operands("word"),
         NEW n \in Operands("word"), Memmove(d, s, n)
  PROVE  IInv'
<1>1. /\ InMemory(Concrete(s), Concrete(n)) /\ Follow(<<d, s, n>>)
      /\ mem' = Moved(Concrete(d), Concrete(s), Concrete(n))
      /\ input' = input /\ reg' = reg
  BY DEF Memmove
<1>2. Good(d, alive, input) /\ Good(s, alive, input) /\ Good(n, alive, input)
  BY OperandGood DEF Types
<1>3. Concrete(d) \in Nat /\ Concrete(s) \in Nat /\ Concrete(n) \in Nat
  BY <1>2, ConcreteType
<1>4. PathRight' /\ alive' \subseteq alive
  BY <1>1, <1>2, FollowValues
<1> QED BY <1>1, <1>3, <1>4, MovedGood, MemoryStep

\* Memory that is filled with one value
LEMMA FilledGood ==
  ASSUME IInv, NEW range, NEW m, alive' \subseteq alive, GoodCell(m, alive', input),
         mem' = [b \in DOMAIN mem |-> IF b \in range THEN m ELSE mem[b]]
  PROVE  /\ mem' = [b \in DOMAIN mem |-> mem'[b]]
         /\ \A b \in 0 .. MemSize - 1 : GoodCell(mem'[b], alive', input)
<1>1. DOMAIN mem = 0 .. MemSize - 1
  BY DEF IInv
<1> QED BY <1>1, Narrower

LEMMA MemsetStep ==
  ASSUME IInv, NEW d \in Operands("word"), NEW v \in Operands("byte"),
         NEW n \in Operands("word"), Memset(d, v, n)
  PROVE  IInv'
<1> DEFINE range == Concrete(d) .. Concrete(d) + Concrete(n) - 1
           m == [value |-> v.value, expr |-> v.expr]
<1>1. /\ Follow(<<d, n>>) /\ input' = input /\ reg' = reg
      /\ mem' = [b \in DOMAIN mem |-> IF b \in range THEN m ELSE mem[b]]
  BY DEF Memset
<1>2. Good(d, alive, input) /\ Good(v, alive, input) /\ Good(n, alive, input) /\ v.type = "byte"
  BY OperandGood DEF Types
<1>3. PathRight' /\ alive' \subseteq alive
  BY <1>1, <1>2, FollowValues
<1>4. v.value \in [Inputs -> 0 .. Byte - 1]
  BY <1>2, Fields, LimitFacts DEF Size
<1>5. \/ v.expr = Null /\ \A i \in alive : v.value[i] = v.value[input]
      \/ /\ v.expr \in Expressions /\ v.expr.width = 1
         /\ \A i \in alive : v.expr.at[i] = v.value[i]
  BY <1>2, Fields DEF Denotes, Constant, Size
<1>6. GoodCell(m, alive, input)
  BY <1>4, <1>5, Here, MakeCell
<1> HIDE DEF m, range
<1>7. GoodCell(m, alive', input)
  BY <1>3, <1>6, GoodCellOnFewer
<1> QED BY <1>1, <1>3, <1>7, FilledGood, MemoryStep

-----------------------------------------------------------------------------
(***************************************************************************)
(* Wrapped functions of the C library                                      *)
(***************************************************************************)

\* What a call returns, where it is the same on all inputs that are left
LEMMA ReturnedGood ==
  ASSUME NEW A \in SUBSET Inputs, NEW c \in Inputs,
         NEW f \in [Inputs -> 0 .. Limit(2) - 1], \A i \in A : f[i] = f[c]
  PROVE  Good(Returned(f), A, c)
<1>1. "word" \in Types /\ Size("word") = 2
  BY DEF Types, Size
<1> QED BY <1>1, MakeGood DEF Returned

LEMMA AddressType ==
  ASSUME NEW a \in 0 .. MemSize - 1
  PROVE  /\ Constantly(a) \in [Inputs -> 0 .. Limit(2) - 1]
         /\ \A i \in Inputs : Constantly(a)[i] = a
         /\ a \in Nat /\ a \in 0 .. Limit(2) - 1
<1>1. MemSize \in Nat /\ MemSize <= Limit(2) /\ Limit(2) \in Nat
  BY ByteFacts, LimitFacts, InstrumentationAssumption DEF InstrumentationAssumption
<1>2. a \in Nat /\ a \in 0 .. Limit(2) - 1
  BY <1>1
<1> QED BY <1>2 DEF Constantly

LEMMA MallocStep ==
  ASSUME IInv, NEW r \in Registers, NEW n, Good(n, alive, input),
         NEW a \in 0 .. MemSize - 1, Malloc(r, n, a)
  PROVE  IInv'
<1>1. Follow(<<n>>) /\ Set(r, Returned(Constantly(a))) /\ input' = input /\ mem' = mem
  BY DEF Malloc
<1>2. PathRight' /\ alive' \subseteq alive
  BY <1>1, FollowValues
<1>3. \A i \in alive' : Constantly(a)[i] = Constantly(a)[input]
  BY <1>2, AddressType, Here
<1>4. Good(Returned(Constantly(a)), alive', input)
  BY <1>2, <1>3, AddressType, ReturnedGood, Here
<1> QED BY <1>1, <1>2, <1>4, RegisterStep

LEMMA ValueChanged ==
  ASSUME NEW m \in Cells, NEW f
  PROVE  [m EXCEPT !.value = f] = [value |-> f, expr |-> m.expr]
<1>1. PICK g, e : m = [value |-> g, expr |-> e]
  BY DEF Cells
<1>2. m.expr = e
  BY <1>1
<1>3. [m EXCEPT !.value = f] = [value |-> f, expr |-> e]
  BY <1>1
<1> QED BY <1>2, <1>3

\* calloc is only called for memory whose shadow is clean: see KnownLibcDeviations.
LEMMA CallocStep ==
  ASSUME IInv, Deviations = {}, NEW r \in Registers, NEW k, Good(k, alive, input),
         NEW n, Good(n, alive, input), NEW a \in 0 .. MemSize - 1, Calloc(r, k, n, a)
  PROVE  IInv'
<1> DEFINE len == Concrete(k) * Concrete(n)
           range == a .. a + len - 1
           m == [value |-> Constantly(0), expr |-> Null]
<1>1. /\ \A b \in range : mem[b].expr = Null
      /\ Follow(<<k, n>>) /\ Set(r, Returned(Constantly(a))) /\ input' = input
      /\ mem' = [b \in DOMAIN mem |->
                   IF b \in range THEN [mem[b] EXCEPT !.value = Constantly(0)] ELSE mem[b]]
  BY DEF Calloc, AllNull
<1>2. PathRight' /\ alive' \subseteq alive
  BY <1>1, FollowValues
<1>3. mem' = [b \in DOMAIN mem |-> IF b \in range THEN m ELSE mem[b]]
  <2>1. ASSUME NEW b \in DOMAIN mem, b \in range
        PROVE  [mem[b] EXCEPT !.value = Constantly(0)] = m
    <3>1. mem[b] \in Cells
      BY <2>1 DEF IInv
    <3> QED BY <1>1, <2>1, <3>1, ValueChanged
  <2> HIDE DEF range, m
  <2> QED BY <1>1, <2>1
<1>4. GoodCell(m, alive', input)
  <2>1. /\ Constantly(0) \in [Inputs -> 0 .. Byte - 1]
        /\ \A i \in Inputs : Constantly(0)[i] = Constantly(0)[input]
    BY ByteFacts, Here DEF Constantly
  <2>2. alive' \in SUBSET Inputs
    BY <1>2, Here
  <2> QED BY <2>1, <2>2, Here, MakeCell
<1>5. \A i \in alive' : Constantly(a)[i] = Constantly(a)[input]
  BY <1>2, AddressType, Here
<1>6. Good(Returned(Constantly(a)), alive', input)
  BY <1>2, <1>5, AddressType, ReturnedGood, Here
<1> HIDE DEF m, range
<1>7. /\ mem' = [b \in DOMAIN mem |-> mem'[b]]
      /\ \A b \in 0 .. MemSize - 1 : GoodCell(mem'[b], alive', input)
  BY <1>2, <1>3, <1>4, FilledGood
<1> QED BY <1>1, <1>2, <1>6, <1>7, DataStep

\* The register that gets a pointer with its expression
LEMMA EntryGood ==
  ASSUME IInv, NEW d, Good(d, alive, input)
  PROVE  Good([d EXCEPT !.entry = TRUE], alive, input)
<1>1. /\ d \in Values /\ d.type \in Types
      /\ d.value \in [Inputs -> 0 .. Limit(Size(d.type)) - 1]
  BY Fields DEF Good
<1>2. \/ d.expr = Null /\ \A i \in alive : d.value[i] = d.value[input]
      \/ /\ d.expr \in Expressions /\ d.expr.width = Size(d.type)
         /\ \A i \in alive : d.expr.at[i] = d.value[i]
  BY Fields DEF Denotes, Constant
<1>3. [d EXCEPT !.entry = TRUE] =
        [type |-> d.type, value |-> d.value, expr |-> d.expr, entry |-> TRUE]
  BY <1>1, EntryChanged
<1>4. Good([type |-> d.type, value |-> d.value, expr |-> d.expr, entry |-> TRUE], alive, input)
  BY <1>1, <1>2, Here, MakeGood
<1> QED BY <1>3, <1>4

LEMMA CallMemmoveStep ==
  ASSUME IInv, NEW r \in Registers, NEW d, Good(d, alive, input), NEW s, Good(s, alive, input),
         NEW n, Good(n, alive, input), CallMemmove(r, d, s, n)
  PROVE  IInv'
<1>1. /\ InMemory(Concrete(s), Concrete(n)) /\ Follow(<<d, s, n>>)
      /\ mem' = Moved(Concrete(d), Concrete(s), Concrete(n))
      /\ Set(r, [d EXCEPT !.entry = TRUE]) /\ input' = input
  BY DEF CallMemmove
<1>2. Concrete(d) \in Nat /\ Concrete(s) \in Nat /\ Concrete(n) \in Nat
  BY ConcreteType
<1>3. PathRight' /\ alive' \subseteq alive
  BY <1>1, FollowValues
<1>4. /\ mem' = [b \in DOMAIN mem |-> mem'[b]]
      /\ \A b \in 0 .. MemSize - 1 : GoodCell(mem'[b], alive', input)
  BY <1>1, <1>2, <1>3, MovedGood
<1>5. Good([d EXCEPT !.entry = TRUE], alive', input)
  BY <1>3, EntryGood, GoodOnFewer
<1> QED BY <1>1, <1>3, <1>4, <1>5, DataStep

\* memset is only called with a concrete byte: see KnownLibcDeviations.
LEMMA CallMemsetStep ==
  ASSUME IInv, Deviations = {}, NEW r \in Registers, NEW d, Good(d, alive, input),
         NEW c, Good(c, alive, input), NEW n, Good(n, alive, input), CallMemset(r, d, c, n)
  PROVE  IInv'
<1> DEFINE range == Concrete(d) .. Concrete(d) + Concrete(n) - 1
           f == [i \in Inputs |-> Digit(c.value[i], 0)]
           m == [value |-> f, expr |-> c.expr]
<1>1. /\ c.expr = Null
      /\ Follow(<<d, n>>) /\ Set(r, [d EXCEPT !.entry = TRUE]) /\ input' = input
      /\ mem' = [b \in DOMAIN mem |-> IF b \in range THEN m ELSE mem[b]]
  BY DEF CallMemset
<1>2. PathRight' /\ alive' \subseteq alive
  BY <1>1, FollowValues
<1>3. f \in [Inputs -> 0 .. Byte - 1]
  BY Fields, DigitType
<1>4. \A i \in alive : f[i] = f[input]
  BY <1>1, Fields, Here DEF Constant
<1> HIDE DEF f
<1>5. GoodCell(m, alive, input)
  BY <1>1, <1>3, <1>4, Here, MakeCell
<1> HIDE DEF m, range
<1>6. GoodCell(m, alive', input)
  BY <1>2, <1>5, GoodCellOnFewer
<1>7. /\ mem' = [b \in DOMAIN mem |-> mem'[b]]
      /\ \A b \in 0 .. MemSize - 1 : GoodCell(mem'[b], alive', input)
  BY <1>1, <1>2, <1>6, FilledGood
<1>8. Good([d EXCEPT !.entry = TRUE], alive', input)
  BY <1>2, EntryGood, GoodOnFewer
<1> QED BY <1>1, <1>2, <1>7, <1>8, DataStep

\* Every nonempty set of natural numbers has a first element.
LEMMA FirstMember ==
  ASSUME NEW S \in SUBSET Nat, S # {}
  PROVE  First(S) \in S /\ \A j \in S : First(S) <= j
<1> DEFINE R == {w \in Nat \X Nat : w[1] < w[2]}
<1>1. IsWellFoundedOn(R, Nat)
  BY NatLessThanWellFounded DEF OpToRel
<1> HIDE DEF R
<1>2. PICK x \in S : \A y \in S : <<y, x>> \notin R
  BY <1>1, WFMin
<1>3. ASSUME NEW y \in S PROVE x <= y
  <2>1. <<y, x>> \in Nat \X Nat /\ <<y, x>>[1] = y /\ <<y, x>>[2] = x
    OBVIOUS
  <2> QED BY <1>2, <2>1 DEF R
<1> QED BY <1>3 DEF First

LEMMA StrncpyStep ==
  ASSUME IInv, Deviations = {}, NEW r \in Registers, NEW d, Good(d, alive, input),
         d.type = "word", NEW s, Good(s, alive, input), NEW n, Good(n, alive, input),
         Strncpy(r, d, s, n)
  PROVE  IInv'
<1> DEFINE to == Concrete(d)
           from == Concrete(s)
           len == Concrete(n)
           copied == Length(from, len, input)
           f(j) == [i \in Inputs |->
                      IF from + j < MemSize /\ j < Length(from, len, i)
                        THEN mem[from + j].value[i] ELSE 0]
           e(j) == IF j < copied THEN mem[from + j].expr ELSE Null
           Written(j) == [value |-> f(j), expr |-> e(j)]
<1>1. /\ InMemory(from, copied)
      /\ \A i \in Following(<<d, s, n>>) : Length(from, len, i) = copied
      /\ Follow(<<d, s, n>>) /\ Set(r, Returned(d.value)) /\ input' = input
      /\ mem' = [b \in DOMAIN mem |->
                   IF b \in to .. to + len - 1 THEN Written(b - to) ELSE mem[b]]
  BY DEF Strncpy
<1>2. /\ PathRight' /\ alive' \subseteq alive
      /\ \A i \in alive' : d.value[i] = d.value[input]
  BY <1>1, FollowValues
<1>3. alive' \in SUBSET Inputs /\ input \in alive'
  BY <1>1, <1>2, Here DEF PathRight
<1>4. \A i \in alive' : Length(from, len, i) = copied
  BY <1>1 DEF Follow, Following
<1>5. to \in Nat /\ from \in Nat /\ len \in Nat
  BY ConcreteType
<1> HIDE DEF to, from, len
<1>6. copied \in Nat
  <2> DEFINE S == {len} \cup Ends(from, input)
  <2>1. S \in SUBSET Nat /\ S # {}
    BY <1>5, InstrumentationAssumption DEF Ends, InstrumentationAssumption
  <2> HIDE DEF S
  <2>2. First(S) \in Nat
    BY <2>1, FirstMember
  <2> QED BY <2>2 DEF S, Length
<1> HIDE DEF copied
<1>7. ASSUME NEW j \in 0 .. len - 1 PROVE GoodCell(Written(j), alive', input)
  <2>1. f(j) \in [Inputs -> 0 .. Byte - 1]
    <3>1. ASSUME from + j < MemSize
          PROVE  \A i \in Inputs : mem[from + j].value[i] \in 0 .. Byte - 1
      <4>1. from + j \in 0 .. MemSize - 1
        BY <1>5, <3>1, InstrumentationAssumption DEF InstrumentationAssumption
      <4> QED BY <4>1, CellFacts
    <3> QED BY <3>1, ByteFacts
  <2>2. CASE j < copied
    <3>1. from + j \in 0 .. MemSize - 1 /\ from + j < MemSize
      BY <1>1, <1>5, <1>6, <2>2, InstrumentationAssumption DEF InMemory, InstrumentationAssumption
    <3>2. e(j) = mem[from + j].expr
      BY <2>2
    <3>3. \A i \in alive' : f(j)[i] = mem[from + j].value[i]
      BY <1>3, <1>4, <2>2, <3>1
    <3> DEFINE m == mem[from + j]
    <3>4. GoodCell(m, alive', input)
      BY <1>2, <3>1, Narrower
    <3> HIDE DEF f, e, m
    <3>5. \/ e(j) = Null /\ \A i \in alive' : f(j)[i] = f(j)[input]
          \/ /\ e(j) \in Expressions /\ e(j).width = 1
             /\ \A i \in alive' : e(j).at[i] = f(j)[i]
      BY <1>3, <3>2, <3>3, <3>4 DEF GoodCell, Cells, Fits, Right, m
    <3> QED BY <1>3, <2>1, <3>5, MakeCell, Here
  <2>3. CASE ~(j < copied)
    <3>1. e(j) = Null /\ \A i \in alive' : f(j)[i] = 0
      BY <1>3, <1>4, <2>3
    <3> HIDE DEF f, e
    <3> QED BY <1>3, <2>1, <3>1, MakeCell, Here
  <2> QED BY <2>2, <2>3
<1> HIDE DEF Written
<1>8. ASSUME NEW b \in 0 .. MemSize - 1 PROVE GoodCell(mem'[b], alive', input)
  <2>1. DOMAIN mem = 0 .. MemSize - 1
    BY DEF IInv
  <2>2. CASE b \in to .. to + len - 1
    <3>1. b - to \in 0 .. len - 1 /\ mem'[b] = Written(b - to)
      BY <1>1, <1>5, <2>1, <2>2
    <3> QED BY <1>7, <3>1
  <2>3. CASE b \notin to .. to + len - 1
    BY <1>1, <1>2, <2>1, <2>3, Narrower
  <2> QED BY <2>2, <2>3
<1>9. mem' = [b \in DOMAIN mem |-> mem'[b]]
  BY <1>1
<1>10. d.value \in [Inputs -> 0 .. Limit(2) - 1]
  BY Fields DEF Size
<1>11. Good(Returned(d.value), alive', input)
  BY <1>2, <1>3, <1>10, ReturnedGood, Here
<1> QED BY <1>1, <1>2, <1>8, <1>9, <1>11, DataStep

\* The inputs that agree on two values are those that satisfy what is pushed for them;
\* more may be said of them.
LEMMA FollowedTwo ==
  ASSUME IInv, NEW x, Good(x, alive, input), NEW y, Good(y, alive, input),
         input' = input, NEW told, NEW holds, input \in holds,
         \A i \in alive : i \in Agreeing(x) /\ i \in Agreeing(y) => (i \in told <=> i \in holds),
         path' = {i \in path \cap told : i \in Pushed(x) \cap Pushed(y)},
         alive' = Following(<<x, y>>) \cap holds
  PROVE  /\ PathRight' /\ alive' \subseteq alive
         /\ \A i \in alive' : x.value[i] = x.value[input] /\ y.value[i] = y.value[input]
<1>1. Following(<<x, y>>) = {i \in alive : i \in Agreeing(x) /\ i \in Agreeing(y)}
  BY DEF Following
<1>2. \A i \in alive' : i \in alive /\ i \in Agreeing(x) /\ i \in Agreeing(y)
  BY <1>1
<1>3. path' = alive'
  BY <1>1, Here, PushedAgreeing
<1>4. input \in alive'
  BY <1>1, Here, PushedAgreeing
<1> QED BY <1>2, <1>3, <1>4, Here, PushedAgreeing DEF PathRight

LEMMA StrchrStep ==
  ASSUME IInv, Deviations = {}, NEW r \in Registers, NEW s, Good(s, alive, input),
         NEW c, Good(c, alive, input), Strchr(r, s, c)
  PROVE  IInv'
<1> DEFINE at == Concrete(s)
           byte(i) == Digit(c.value[i], 0)
           Stops(i) == Ends(at, i) \cup
             {k \in 0 .. MemSize - 1 : at + k < MemSize /\ mem[at + k].value[i] = byte(i)}
           length == First(Stops(input))
           Found(i) == LET k == First(Stops(i))
                       IN  IF mem[at + k].value[i] = byte(i) THEN at + k ELSE 0
           char == IF c.expr = Null THEN ValueExpr(c) ELSE c.expr
           before == at .. at + length - 1
           differ == {i \in Inputs : \A b \in before : mem[b].value[i] # byte(i)}
           told == IF AllNull(at, length) /\ c.expr = Null THEN Inputs
                   ELSE {i \in Inputs : \A b \in before :
                           ByteExpr(mem[b]).at[i] # Digit(char.at[i], 0)}
           f == [i \in Inputs |-> IF Ends(at, i) = {} THEN 0 ELSE Found(i)]
<1>1. /\ Ends(at, input) # {}
      /\ \A i \in Following(<<s, c>>) \cap differ : Ends(at, i) # {} /\ Found(i) = Found(input)
      /\ path' = {i \in path \cap told : i \in Pushed(s) \cap Pushed(c)}
      /\ alive' = Following(<<s, c>>) \cap differ
      /\ Set(r, Returned(f)) /\ input' = input /\ mem' = mem
  BY DEF Strchr
<1>2. at \in Nat /\ MemSize \in Nat /\ MemSize >= 2
  BY ConcreteType, ByteFacts, InstrumentationAssumption DEF InstrumentationAssumption
<1> HIDE DEF at
<1>3. ASSUME NEW i \in Inputs, Ends(at, i) # {}
      PROVE  /\ First(Stops(i)) \in Stops(i) /\ \A k \in Stops(i) : First(Stops(i)) <= k
             /\ First(Stops(i)) \in 0 .. MemSize - 1 /\ at + First(Stops(i)) < MemSize
  <2>1. /\ Stops(i) \in SUBSET Nat /\ Stops(i) # {}
        /\ \A k \in Stops(i) : k \in 0 .. MemSize - 1 /\ at + k < MemSize
    BY <1>2, <1>3 DEF Ends
  <2> HIDE DEF Stops
  <2> QED BY <2>1, FirstMember
<1>4. /\ length \in 0 .. MemSize - 1 /\ at + length < MemSize
      /\ \A k \in Stops(input) : length <= k
  BY <1>1, <1>3, Here
<1>5. f \in [Inputs -> 0 .. Limit(2) - 1]
  <2>1. \A i \in Inputs : Ends(at, i) # {} => Found(i) \in 0 .. MemSize - 1
    <3> HIDE DEF Stops
    <3> QED BY <1>2, <1>3
  <2> HIDE DEF Found
  <2>2. 0 \in 0 .. MemSize - 1
    BY <1>2
  <2>3. \A n \in 0 .. MemSize - 1 : n \in 0 .. Limit(2) - 1
    BY AddressType
  <2> QED BY <2>1, <2>2, <2>3
<1>6. \A b \in before : b \in 0 .. MemSize - 1
  BY <1>2, <1>4
<1>7. input \in differ
  <2>1. ASSUME NEW b \in before, mem[b].value[input] = byte(input) PROVE FALSE
    <3>1. /\ b - at \in 0 .. MemSize - 1 /\ at + (b - at) = b
          /\ b < MemSize /\ b - at < length
      BY <1>2, <1>4
    <3> HIDE DEF before, length, byte
    <3>2. b - at \in Stops(input)
      BY <2>1, <3>1
    <3> HIDE DEF Stops
    <3> QED BY <1>2, <1>4, <3>1, <3>2
  <2> QED BY <2>1, Here
<1>8. ASSUME NEW i \in alive, i \in Agreeing(c) PROVE i \in told <=> i \in differ
  <2>1. i \in Inputs /\ byte(i) = byte(input)
    BY <1>8, Here, PushedAgreeing
  <2>2. CASE AllNull(at, length) /\ c.expr = Null
    <3>1. \A b \in before : mem[b].value[i] = mem[b].value[input]
      BY <1>6, <2>2, CellFacts DEF AllNull, Constant
    <3>2. i \in differ
      <4> HIDE DEF byte, before
      <4> QED BY <1>7, <2>1, <3>1
    <3> QED BY <2>1, <2>2, <3>2
  <2>3. CASE ~(AllNull(at, length) /\ c.expr = Null)
    <3>1. char.at[i] = c.value[i]
      <4>1. CASE c.expr = Null
        <5>1. c.value[i] = c.value[input]
          BY <1>8, PushedAgreeing
        <5> QED BY <2>1, <4>1, <5>1 DEF ValueExpr, Expr, Concrete
      <4>2. CASE c.expr # Null
        BY <4>2, Fields DEF Denotes
      <4> QED BY <4>1, <4>2
    <3>2. \A b \in before : ByteExpr(mem[b]).at[i] = mem[b].value[i]
      BY <1>6, CellFacts
    <3>3. told = {j \in Inputs : \A b \in before : ByteExpr(mem[b]).at[j] # Digit(char.at[j], 0)}
      BY <2>3
    <3> HIDE DEF told, before, char
    <3> QED BY <2>1, <3>1, <3>2, <3>3
  <2> QED BY <2>2, <2>3
<1> HIDE DEF told, differ, Found, before
<1>9. PathRight' /\ alive' \subseteq alive
  BY <1>1, <1>7, <1>8, FollowedTwo
<1>10. \A i \in alive' : f[i] = f[input]
  BY <1>1, <1>9, Here
<1> HIDE DEF f
<1>11. Good(Returned(f), alive', input)
  BY <1>5, <1>9, <1>10, Here, ReturnedGood
<1> QED BY <1>1, <1>9, <1>11, RegisterStep

LEMMA FollowedThree ==
  ASSUME IInv, NEW x, Good(x, alive, input), NEW y, Good(y, alive, input),
         NEW z, Good(z, alive, input),
         input' = input, NEW told, NEW holds, input \in holds,
         \A i \in alive : i \in told <=> i \in holds,
         path' = {i \in path \cap told : i \in Pushed(x) \cap Pushed(y) \cap Pushed(z)},
         alive' = Following(<<x, y, z>>) \cap holds
  PROVE  PathRight' /\ alive' \subseteq alive
<1>1. Following(<<x, y, z>>) =
        {i \in alive : i \in Agreeing(x) /\ i \in Agreeing(y) /\ i \in Agreeing(z)}
  BY DEF Following
<1>2. path' = alive' /\ input \in alive' /\ alive' \subseteq alive
  BY <1>1, Here, PushedAgreeing
<1> QED BY <1>2, Here DEF PathRight

LEMMA MemcmpStep ==
  ASSUME IInv, Deviations = {}, NEW r \in Registers, NEW p, Good(p, alive, input),
         NEW q, Good(q, alive, input), NEW n, Good(n, alive, input), Memcmp(r, p, q, n)
  PROVE  IInv'
<1> DEFINE a == Concrete(p)
           b == Concrete(q)
           len == Concrete(n)
           Unequal(i) == {k \in 0 .. len - 1 : mem[a + k].value[i] # mem[b + k].value[i]}
           Order(i) ==
             IF Unequal(i) = {} THEN 0
             ELSE LET k == First(Unequal(i))
                  IN  IF mem[a + k].value[i] < mem[b + k].value[i] THEN Limit(2) - 1 ELSE 1
           allEqual == {i \in Inputs : \A k \in Compared(len) :
                          ByteExpr(mem[a + k]).at[i] = ByteExpr(mem[b + k]).at[i]}
           told == IF AllNull(a, len) /\ AllNull(b, len) THEN Inputs
                   ELSE {i \in Inputs : i \in allEqual <=> Order(input) = 0}
           same == {i \in Inputs : Order(i) = 0 <=> Order(input) = 0}
           f == [i \in Inputs |-> Order(i)]
<1>1. /\ InMemory(a, len) /\ InMemory(b, len)
      /\ Lost("memcmp", f, Following(<<p, q, n>>) \cap same)
      /\ path' = {i \in path \cap told : i \in Pushed(p) \cap Pushed(q) \cap Pushed(n)}
      /\ alive' = Following(<<p, q, n>>) \cap same
      /\ Set(r, Returned(f)) /\ input' = input /\ mem' = mem
  BY DEF Memcmp
<1>2. a \in Nat /\ b \in Nat /\ len \in Nat /\ MemSize \in Nat
  BY ConcreteType, ByteFacts, InstrumentationAssumption DEF InstrumentationAssumption
<1> HIDE DEF a, b, len
<1>3. \A k \in 0 .. len - 1 :
        /\ a + k \in 0 .. MemSize - 1 /\ b + k \in 0 .. MemSize - 1
        /\ a + k \in a .. a + len - 1 /\ b + k \in b .. b + len - 1
  <2>1. a + len <= MemSize /\ b + len <= MemSize
    BY <1>1 DEF InMemory
  <2> QED BY <1>2, <2>1
<1>4. \A i : /\ Order(i) = 0 <=> Unequal(i) = {}
             /\ Order(i) \in 0 .. Limit(2) - 1
  <2> HIDE DEF Unequal
  <2> QED BY LimitFacts, ByteFacts
<1> HIDE DEF Order
<1>5. f \in [Inputs -> 0 .. Limit(2) - 1]
  BY <1>4
<1>6. ASSUME NEW i \in alive PROVE i \in told <=> i \in same
  <2>1. i \in Inputs
    BY Here
  <2>2. CASE AllNull(a, len) /\ AllNull(b, len)
    <3>1. ASSUME NEW k \in 0 .. len - 1
          PROVE  /\ mem[a + k].value[i] = mem[a + k].value[input]
                 /\ mem[b + k].value[i] = mem[b + k].value[input]
      BY <1>3, <2>2, CellFacts DEF AllNull, Constant
    <3>2. Unequal(i) = Unequal(input)
      BY <3>1
    <3> HIDE DEF Unequal
    <3> QED BY <1>4, <2>1, <2>2, <3>2
  <2>3. CASE ~(AllNull(a, len) /\ AllNull(b, len))
    <3>1. \A k \in 0 .. len - 1 : /\ ByteExpr(mem[a + k]).at[i] = mem[a + k].value[i]
                                  /\ ByteExpr(mem[b + k]).at[i] = mem[b + k].value[i]
      BY <1>3, CellFacts
    <3>2. i \in allEqual <=> Unequal(i) = {}
      BY <2>1, <3>1 DEF Compared
    <3>3. told = {j \in Inputs : j \in allEqual <=> Order(input) = 0}
      BY <2>3
    <3> HIDE DEF told, allEqual, Unequal
    <3> QED BY <1>4, <2>1, <3>2, <3>3
  <2> QED BY <2>2, <2>3
<1>7. input \in same
  BY Here
<1>8. \A i \in Following(<<p, q, n>>) \cap same : f[i] = f[input]
  BY <1>1 DEF Lost
<1> HIDE DEF told, same, f
<1>9. PathRight' /\ alive' \subseteq alive
  BY <1>1, <1>6, <1>7, FollowedThree
<1>10. Good(Returned(f), alive', input)
  <2>1. \A i \in alive' : f[i] = f[input]
    BY <1>1, <1>8
  <2> QED BY <1>5, <1>9, <2>1, Here, ReturnedGood
<1> QED BY <1>1, <1>9, <1>10, RegisterStep

-----------------------------------------------------------------------------
(***************************************************************************)
(* The invariant is inductive.                                             *)
(***************************************************************************)

LEMMA InitInv ==
  ASSUME Init PROVE IInv
<1> DEFINE f == [i \in Inputs |-> i]
           z == [i \in Inputs |-> 0]
           m == [type |-> "byte", value |-> f, expr |-> Expr(1, f), entry |-> TRUE]
           k == [value |-> f, expr |-> Expr(1, f)]
           c == [value |-> z, expr |-> Null]
<1>1. /\ input \in Inputs /\ path = Inputs /\ alive = Inputs
      /\ \A r \in Registers : reg[r] = Const("byte", 0) \/ reg[r] = m
      /\ reg = [r \in Registers |-> reg[r]]
      /\ \A a \in 0 .. MemSize - 1 : mem[a] = k \/ mem[a] = c
      /\ mem = [a \in 0 .. MemSize - 1 |-> mem[a]]
  BY DEF Init
<1>2. /\ "byte" \in Types /\ Size("byte") = 1 /\ Limit(1) = Byte
      /\ 0 \in 0 .. Limit(Size("byte")) - 1
  BY ByteFacts, LimitFacts DEF Types, Size
<1>3. Good(Const("byte", 0), alive, input)
  BY <1>1, <1>2, ConstGood
<1>4. f \in [Inputs -> 0 .. Byte - 1] /\ f \in [Inputs -> Nat] /\ z \in [Inputs -> 0 .. Byte - 1]
  BY ByteFacts DEF Inputs
<1>5. \A i \in alive : z[i] = z[input]
  BY <1>1
<1> HIDE DEF f, z
<1>6. Expr(1, f) \in Expressions /\ Expr(1, f).width = 1 /\ Expr(1, f).at = f
  BY <1>4, ExprType
<1>7. Good(m, alive, input)
  BY <1>1, <1>2, <1>4, <1>6, MakeGood
<1>8. GoodCell(k, alive, input)
  BY <1>1, <1>4, <1>6, MakeCell
<1>9. GoodCell(c, alive, input)
  BY <1>1, <1>4, <1>5, MakeCell
<1> HIDE DEF m, k, c
<1>10. PathRight
  BY <1>1 DEF PathRight
<1>11. /\ \A r \in Registers : Good(reg[r], alive, input)
       /\ \A a \in 0 .. MemSize - 1 : GoodCell(mem[a], alive, input)
  BY <1>1, <1>3, <1>7, <1>8, <1>9
<1>12. reg \in [Registers -> Values] /\ mem \in [0 .. MemSize - 1 -> Cells]
  BY <1>1, <1>11 DEF Good, GoodCell
<1> QED BY <1>10, <1>11, <1>12 DEF IInv

LEMMA LoadedOperands ==
  /\ \A t : Loaded(t) \subseteq Operands(t)
  /\ \A t \in Types : Loaded(t) \cup {Const(t, 0)} \subseteq Operands(t)
BY SizeType DEF Operands

\* Every instruction keeps the invariant.
LEMMA InstructionStep ==
  ASSUME IInv, Deviations = {}, Instruction PROVE IInv'
<1> USE LoadedOperands
<1>1. ASSUME NEW r \in Registers, NEW t \in {"bool", "byte", "word"},
             NEW op \in Operations(t), NEW x \in Loaded(t), NEW y \in Operands(t),
             BinaryOperator(r, t, op, x, y) \/ BinaryOperator(r, t, op, y, x)
      PROVE  IInv'
  BY <1>1, BinaryOperatorStep
<1>2. ASSUME NEW r \in Registers, NEW t \in {"byte", "word"},
             NEW x \in Loaded(t), NEW y \in Operands(t), Cmp(r, x, y)
      PROVE  IInv'
  BY <1>2, CmpStep
<1>3. ASSUME NEW r \in Registers, NEW x \in Loaded("word"), Trunc(r, x) PROVE IInv'
  BY <1>3, TruncStep
<1>4. ASSUME NEW r \in Registers, NEW x \in Loaded("byte"), NEW signed \in BOOLEAN,
             Cast(r, "word", x, signed)
      PROVE  IInv'
  <2>1. Size("byte") < Size("word")
    BY DEF Size
  <2> QED BY <1>4, <2>1, CastStep
<1>5. ASSUME NEW r \in Registers, NEW x \in Loaded("bool"), NEW t \in {"byte", "word"},
             NEW signed \in BOOLEAN, Cast(r, t, x, signed)
      PROVE  IInv'
  <2>1. Size("bool") < Size(t)
    BY DEF Size
  <2> QED BY <1>5, <2>1, CastStep
<1>6. ASSUME NEW r \in Registers, NEW x \in Range(reg), Copy(r, x) PROVE IInv'
  <2>1. Good(x, alive, input)
    BY DEF IInv, Range
  <2> QED BY <1>6, <2>1, CopyStep
<1>7. ASSUME NEW r \in Registers, NEW x \in Loaded("word"),
             Bswap(r, x) \/ Narrowed(r, x) \/ Concretized(r, x)
      PROVE  IInv'
  BY <1>7, BswapStep, NarrowedStep, ConcretizedStep
<1>8. ASSUME NEW r \in Registers, NEW p \in Operands("word"),
             NEW x \in Operands("byte") \cup Operands("word"), GetElementPtr(r, p, x, 3)
      PROVE  IInv'
  BY <1>8, GetElementPtrStep
<1>9. ASSUME NEW r \in Registers, NEW x \in Loaded("struct"), NEW k \in 0 .. 1,
             ExtractValue(r, x, k)
      PROVE  IInv'
  BY <1>9, ExtractValueStep
<1>10. ASSUME NEW r \in Registers, NEW t \in Types, NEW x \in Operands(t),
              NEW y \in Loaded(t) \cup {Const(t, 0)}, PHI(r, x, y)
       PROVE  IInv'
  BY <1>10, PHIStep
<1>11. ASSUME NEW r \in Registers, NEW c \in Loaded("bool"), NEW t \in {"byte", "word"},
              NEW x \in Operands(t), NEW y \in Operands(t), Select(r, c, x, y)
       PROVE  IInv'
  BY <1>11, SelectStep DEF Types
<1>12. ASSUME NEW c \in Loaded("bool"), Branch(c) PROVE IInv'
  BY <1>12, BranchStep DEF Types
<1>13. ASSUME NEW x \in Loaded("word"), IndirectBr(x) PROVE IInv'
  BY <1>13, BranchStep DEF Types
<1>14. ASSUME NEW x \in Loaded("word"), NEW cases, Switch(x, cases) PROVE IInv'
  BY <1>14, SwitchStep
<1>15. ASSUME NEW r \in Registers, NEW t \in {"byte", "word", "struct"},
              NEW p \in Operands("word"), Load(r, t, p)
       PROVE  IInv'
  BY <1>15, LoadStep
<1>16. ASSUME NEW p \in Operands("word"),
              NEW v \in Operands("byte") \cup Operands("word") \cup Loaded("struct"), Store(p, v)
       PROVE  IInv'
  BY <1>16, StoreStep
<1>17. ASSUME NEW d \in Operands("word"), NEW s \in Operands("word"),
              NEW n \in Operands("word"), Memmove(d, s, n)
       PROVE  IInv'
  BY <1>17, MemmoveStep
<1>18. ASSUME NEW d \in Operands("word"), NEW v \in Operands("byte"),
              NEW n \in Operands("word"), Memset(d, v, n)
       PROVE  IInv'
  BY <1>18, MemsetStep
<1> QED
  BY <1>1, <1>2, <1>3, <1>4, <1>5, <1>6, <1>7, <1>8, <1>9, <1>10, <1>11, <1>12, <1>13,
     <1>14, <1>15, <1>16, <1>17, <1>18
  DEF Instruction

LEMMA ArgumentsGood ==
  ASSUME IInv
  PROVE  /\ \A p \in Pointers : Good(p, alive, input) /\ p.type = "word"
         /\ \A n \in Lengths : Good(n, alive, input) /\ n.type = "word"
         /\ \A c \in Operands("word") : Good(c, alive, input) /\ c.type = "word"
<1>1. "word" \in Types /\ Size("word") = 2
  BY DEF Types, Size
<1>2. \A c \in Operands("word") : Good(c, alive, input) /\ c.type = "word"
  BY <1>1, OperandGood
<1>3. Loaded("word") \subseteq Operands("word")
  BY LoadedOperands
<1>4. \A n \in 0 .. MemSize : n \in 0 .. Limit(2) - 1
  BY ByteFacts, LimitFacts, InstrumentationAssumption DEF InstrumentationAssumption
<1>5. 0 .. MemSize - 1 \subseteq 0 .. MemSize /\ 1 .. MemSize \subseteq 0 .. MemSize
  BY InstrumentationAssumption, ByteFacts DEF InstrumentationAssumption
<1>6. \A n \in 0 .. MemSize : Const("word", n) \in Operands("word")
  BY <1>1, <1>4 DEF Operands
<1>7. ASSUME NEW p \in Pointers PROVE p \in Operands("word")
  <2>1. CASE p \in Loaded("word")
    BY <1>3, <2>1
  <2>2. CASE p \notin Loaded("word")
    <3>1. PICK a \in 0 .. MemSize - 1 : p = Const("word", a)
      BY <2>2 DEF Pointers
    <3> QED BY <1>5, <1>6, <3>1
  <2> QED BY <2>1, <2>2
<1>8. ASSUME NEW p \in Lengths PROVE p \in Operands("word")
  <2>1. CASE p \in Loaded("word")
    BY <1>3, <2>1
  <2>2. CASE p \notin Loaded("word")
    <3>1. PICK n \in 1 .. MemSize : p = Const("word", n)
      BY <2>2 DEF Lengths
    <3> QED BY <1>5, <1>6, <3>1
  <2> QED BY <2>1, <2>2
<1> QED BY <1>2, <1>7, <1>8

LEMMA CallStep ==
  ASSUME IInv, Deviations = {}, Call PROVE IInv'
<1>1. PICK r \in Registers :
        \/ \E n \in Lengths, a \in 0 .. MemSize - 1 : Malloc(r, n, a)
        \/ \E k, n \in Lengths, a \in 0 .. MemSize - 1 : Calloc(r, k, n, a)
        \/ \E d, s \in Pointers, n \in Lengths : CallMemmove(r, d, s, n) \/ Strncpy(r, d, s, n)
        \/ \E d \in Pointers, c \in Operands("word"), n \in Lengths : CallMemset(r, d, c, n)
        \/ \E s \in Pointers, c \in Operands("word") : Strchr(r, s, c)
        \/ \E p, q \in Pointers, n \in Lengths : Memcmp(r, p, q, n)
        \/ \E x \in Operands("word") : Ntohl(r, x)
  BY DEF Call
<1>2. ASSUME NEW n \in Lengths, NEW a \in 0 .. MemSize - 1, Malloc(r, n, a) PROVE IInv'
  BY <1>2, ArgumentsGood, MallocStep
<1>3. ASSUME NEW k \in Lengths, NEW n \in Lengths, NEW a \in 0 .. MemSize - 1, Calloc(r, k, n, a)
      PROVE  IInv'
  BY <1>3, ArgumentsGood, CallocStep
<1>4. ASSUME NEW d \in Pointers, NEW s \in Pointers, NEW n \in Lengths, CallMemmove(r, d, s, n)
      PROVE  IInv'
  BY <1>4, ArgumentsGood, CallMemmoveStep
<1>5. ASSUME NEW d \in Pointers, NEW s \in Pointers, NEW n \in Lengths, Strncpy(r, d, s, n)
      PROVE  IInv'
  BY <1>5, ArgumentsGood, StrncpyStep
<1>6. ASSUME NEW d \in Pointers, NEW c \in Operands("word"), NEW n \in Lengths,
             CallMemset(r, d, c, n)
      PROVE  IInv'
  BY <1>6, ArgumentsGood, CallMemsetStep
<1>7. ASSUME NEW s \in Pointers, NEW c \in Operands("word"), Strchr(r, s, c) PROVE IInv'
  BY <1>7, ArgumentsGood, StrchrStep
<1>8. ASSUME NEW p \in Pointers, NEW q \in Pointers, NEW n \in Lengths, Memcmp(r, p, q, n)
      PROVE  IInv'
  BY <1>8, ArgumentsGood, MemcmpStep
<1>9. ASSUME NEW x \in Operands("word"), Ntohl(r, x) PROVE IInv'
  BY <1>9, NtohlStep
<1> QED BY <1>1, <1>2, <1>3, <1>4, <1>5, <1>6, <1>7, <1>8, <1>9

LEMMA NextInv ==
  ASSUME IInv, Deviations = {}, [LibcNext]_vars PROVE IInv'
<1>1. CASE LibcNext
  BY <1>1, InstructionStep, CallStep DEF LibcNext
<1>2. CASE UNCHANGED vars
  BY <1>2 DEF vars, IInv, PathRight, Good, GoodCell, Right
<1> QED BY <1>1, <1>2

\* The inductive invariant holds on every run of instrumented code that makes wrapped
\* calls and has no instruction or call on symbolic data that is not handled.
THEOREM LibcInvariance ==
  ASSUME Deviations = {}
  PROVE  LibcSpec => []IInv
<1>1. Init => IInv
  BY InitInv
<1>2. IInv /\ [LibcNext]_vars => IInv'
  BY NextInv
<1> QED BY <1>1, <1>2, PTL DEF LibcSpec

\* What the invariant says of all that the program keeps
LEMMA KeptGood ==
  ASSUME IInv
  PROVE  \A v \in Kept : \/ \E r \in Registers : v = reg[r] /\ Good(v, alive, input)
                         \/ \E a \in 0 .. MemSize - 1 : v = mem[a] /\ GoodCell(v, alive, input)
BY DEF IInv, Kept, Range

\* What the invariant says: the properties
LEMMA IInvImplies ==
  ASSUME IInv
  PROVE  TypeOK /\ ExpressionsRight /\ NothingLost /\ PathExact
<1>1. TypeOK
  <2>1. ASSUME NEW r \in Registers
        PROVE  /\ reg[r].type \in Types
               /\ reg[r].value \in [Inputs -> 0 .. Limit(Size(reg[r].type)) - 1]
               /\ reg[r].expr \in {Null, Broken} \/ reg[r].expr.width = Size(reg[r].type)
               /\ reg[r].entry \/ reg[r].expr = Null
    <3>1. Good(reg[r], alive, input)
      BY DEF IInv
    <3> QED BY <3>1, Here, GoodFields DEF Good
  <2>2. \A a \in DOMAIN mem : mem[a].expr \in {Null, Broken} \/ mem[a].expr.width = 1
    BY DEF IInv, GoodCell, Fits
  <2> QED BY <2>1, <2>2, Here DEF TypeOK
<1>2. ASSUME NEW v \in Kept
      PROVE  /\ v.expr # Null => v.expr # Broken
             /\ \A i \in alive : v.value[i] = IF v.expr = Null THEN v.value[input] ELSE v.expr.at[i]
  <2>1. \/ Good(v, alive, input)
        \/ GoodCell(v, alive, input)
    BY KeptGood
  <2>2. Right(v, alive, input) /\ v.expr \in Expressions \cup {Null}
    BY <2>1 DEF Good, GoodCell, Values, Cells
  <2> QED BY <2>2, ExpressionAssumption DEF Right, ExpressionAssumption
<1>3. ExpressionsRight
  BY <1>2 DEF ExpressionsRight
<1>4. NothingLost
  BY <1>2 DEF NothingLost
<1>5. PathExact
  BY Here DEF PathExact
<1> QED BY <1>1, <1>3, <1>4, <1>5

\* Registers and memory hold values of the widths their expressions have, and the
\* process follows its own path: the type invariant of instrumented code.
THEOREM LibcTypeCorrect ==
  ASSUME Deviations = {} PROVE LibcSpec => []TypeOK
BY LibcInvariance, IInvImplies, PTL

\* Short circuits, builders and the runtime's functions on memory give every value the
\* expression of what the program computes, on all inputs that take its path.
THEOREM LibcExpressionsRight ==
  ASSUME Deviations = {} PROVE LibcSpec => []ExpressionsRight
BY LibcInvariance, IInvImplies, PTL

\* No instruction and no wrapped function loses track of symbolic data: a value without
\* an expression is the same on all inputs that take the path.
THEOREM LibcNothingLost ==
  ASSUME Deviations = {} PROVE LibcSpec => []NothingLost
BY LibcInvariance, IInvImplies, PTL

\* The path constraints that instrumented code and wrappers push are satisfied by just
\* the inputs that take the path.
THEOREM LibcPathExact ==
  ASSUME Deviations = {} PROVE LibcSpec => []PathExact
BY LibcInvariance, IInvImplies, PTL

-----------------------------------------------------------------------------
(***************************************************************************)
(* Concrete execution stays concrete.                                      *)
(***************************************************************************)

BareRegisters == \A r \in Registers : reg[r].expr = Null
BareMemory == \A a \in 0 .. MemSize - 1 : mem[a].expr = Null

LEMMA KeptBare ==
  ASSUME IInv
  PROVE  (\A v \in Kept : v.expr = Null) <=> BareRegisters /\ BareMemory
BY DEF IInv, Kept, Range, BareRegisters, BareMemory

LEMMA BareOperands ==
  ASSUME IInv, BareRegisters
  PROVE  /\ \A v \in Range(reg) : v.expr = Null
         /\ \A t : \A v \in Operands(t) : v.expr = Null
         /\ \A t : \A v \in Loaded(t) : v.expr = Null
         /\ \A v \in Pointers : v.expr = Null
         /\ \A v \in Lengths : v.expr = Null
<1>1. \A v \in Range(reg) : v.expr = Null
  BY DEF IInv, Range, BareRegisters
<1>2. \A t, c : Const(t, c).expr = Null
  BY DEF Const
<1>3. \A t : Loaded(t) \subseteq Range(reg)
  BY DEF Loaded
<1>4. \A t : \A v \in Operands(t) : v.expr = Null
  BY <1>1, <1>2, <1>3 DEF Operands
<1>5. \A v \in Pointers : v.expr = Null
  BY <1>1, <1>2, <1>3 DEF Pointers
<1>6. \A v \in Lengths : v.expr = Null
  BY <1>1, <1>2, <1>3 DEF Lengths
<1> QED BY <1>1, <1>3, <1>4, <1>5, <1>6

LEMMA SetBare ==
  ASSUME IInv, BareRegisters, BareMemory, UNCHANGED mem,
         NEW r \in Registers, NEW v, Set(r, v), v.expr = Null
  PROVE  BareRegisters' /\ BareMemory'
<1>1. reg' = [reg EXCEPT ![r] = v]
  BY DEF Set
<1>2. \A q \in Registers : reg'[q] = IF q = r THEN v ELSE reg[q]
  BY <1>1 DEF IInv
<1> QED BY <1>2 DEF BareRegisters, BareMemory

\* A computation on concrete operands leaves no expression.
LEMMA ResultBare ==
  /\ \A x, t, f, e : x.expr = Null => Result(t, <<x>>, f, e).expr = Null
  /\ \A x, y, t, f, e : x.expr = Null /\ y.expr = Null => Result(t, <<x, y>>, f, e).expr = Null
  /\ \A x, y, z, t, f, e :
       x.expr = Null /\ y.expr = Null /\ z.expr = Null => Result(t, <<x, y, z>>, f, e).expr = Null
<1>1. ASSUME NEW x, x.expr = Null PROVE AllConcrete(<<x>>)
  BY <1>1 DEF AllConcrete
<1>2. ASSUME NEW x, NEW y, x.expr = Null, y.expr = Null PROVE AllConcrete(<<x, y>>)
  BY <1>2 DEF AllConcrete
<1>3. ASSUME NEW x, NEW y, NEW z, x.expr = Null, y.expr = Null, z.expr = Null
      PROVE  AllConcrete(<<x, y, z>>)
  BY <1>3 DEF AllConcrete
<1>4. \A args, t, f, e : AllConcrete(args) => Result(t, args, f, e).expr = Null
  BY DEF Result, Computation
<1> QED BY <1>1, <1>2, <1>3, <1>4

LEMMA FilledBare ==
  ASSUME IInv, BareMemory, NEW S, NEW F,
         \A b \in S \cap (0 .. MemSize - 1) : F[b].expr = Null,
         mem' = [b \in DOMAIN mem |-> IF b \in S THEN F[b] ELSE mem[b]]
  PROVE  BareMemory'
<1>1. DOMAIN mem = 0 .. MemSize - 1
  BY DEF IInv
<1> QED BY <1>1 DEF BareMemory

LEMMA MovedBare ==
  ASSUME IInv, BareMemory, NEW to \in Nat, NEW from \in Nat, NEW len \in Nat,
         InMemory(from, len), mem' = Moved(to, from, len)
  PROVE  BareMemory'
<1>1. DOMAIN mem = 0 .. MemSize - 1
  BY DEF IInv
<1>2. \A b \in to .. to + len - 1 : from + (b - to) \in 0 .. MemSize - 1
  BY InstrumentationAssumption DEF InMemory, InstrumentationAssumption
<1> QED BY <1>1, <1>2 DEF BareMemory, Moved

LEMMA LoadBare ==
  ASSUME IInv, BareRegisters, BareMemory, NEW r \in Registers,
         NEW t \in {"byte", "word", "struct"}, NEW p \in Operands("word"), Load(r, t, p)
  PROVE  BareRegisters' /\ BareMemory'
<1> DEFINE a == Concrete(p)
           n == Size(t)
           e == ReadMemory(a, n, t # "struct")
           v == [type |-> t, value |-> ReadValue(a, n, t # "struct"), expr |-> e, entry |-> TRUE]
<1>1. InMemory(a, n) /\ Set(r, v) /\ UNCHANGED mem
  BY DEF Load
<1>2. n \in 1 .. 2
  BY DEF Size
<1>3. a \in Nat
  BY OperandGood, ConcreteType DEF Types
<1> HIDE DEF a, n
<1>4. \A j \in 0 .. n - 1 : mem[a + j].expr = Null
  BY <1>1, <1>2, <1>3, InstrumentationAssumption
  DEF InMemory, InstrumentationAssumption, BareMemory
<1>5. e = Null
  BY <1>4 DEF ReadMemory
<1>6. v.expr = Null
  BY <1>5
<1> HIDE DEF v
<1> QED BY <1>1, <1>6, SetBare

LEMMA StoreBare ==
  ASSUME IInv, BareRegisters, BareMemory, NEW p, NEW v, v.expr = Null, Store(p, v)
  PROVE  BareRegisters' /\ BareMemory'
<1> DEFINE a == Concrete(p)
           n == Size(v.type)
           stored(j) ==
             [value |-> [i \in Inputs |-> Digit(v.value[i], Place(j, n, v.type # "struct"))],
              expr  |-> WrittenByte(v.expr, j, n, TRUE)]
<1>1. /\ mem' = [b \in DOMAIN mem |-> IF b \in a .. a + n - 1 THEN stored(b - a) ELSE mem[b]]
      /\ UNCHANGED reg
  BY DEF Store
<1>2. \A j : stored(j).expr = Null
  BY DEF WrittenByte
<1> HIDE DEF stored
<1>3. BareMemory'
  BY <1>1, <1>2 DEF IInv, BareMemory
<1> QED BY <1>1, <1>3 DEF BareRegisters

\* No instruction makes an expression where there is none.
LEMMA InstructionBare ==
  ASSUME IInv, BareRegisters, BareMemory, Instruction
  PROVE  BareRegisters' /\ BareMemory'
<1>1. ASSUME NEW r \in Registers, NEW t \in {"bool", "byte", "word"},
             NEW op \in Operations(t), NEW x \in Loaded(t), NEW y \in Operands(t),
             BinaryOperator(r, t, op, x, y) \/ BinaryOperator(r, t, op, y, x)
      PROVE  BareRegisters' /\ BareMemory'
  <2>1. x.expr = Null /\ y.expr = Null
    BY BareOperands
  <2>2. PICK u, f, e : /\ \/ u = <<x, y>>
                          \/ u = <<y, x>>
                       /\ Set(r, Result(t, u, f, e)) /\ UNCHANGED mem
    BY <1>1 DEF BinaryOperator
  <2> QED BY <2>1, <2>2, ResultBare, SetBare
<1>2. ASSUME NEW r \in Registers, NEW t \in {"byte", "word"},
             NEW x \in Loaded(t), NEW y \in Operands(t), Cmp(r, x, y)
      PROVE  BareRegisters' /\ BareMemory'
  <2>1. x.expr = Null /\ y.expr = Null
    BY BareOperands
  <2>2. PICK f, e : Set(r, Result("bool", <<x, y>>, f, e)) /\ UNCHANGED mem
    BY <1>2 DEF Cmp
  <2> QED BY <2>1, <2>2, ResultBare, SetBare
<1>3. ASSUME NEW r \in Registers, NEW u, NEW x \in Loaded(u),
             \/ Trunc(r, x) \/ Bswap(r, x)
             \/ \E t, signed : Cast(r, t, x, signed)
             \/ \E k : ExtractValue(r, x, k)
      PROVE  BareRegisters' /\ BareMemory'
  <2>1. x.expr = Null
    BY BareOperands
  <2>2. PICK t, f, e : Set(r, Result(t, <<x>>, f, e)) /\ UNCHANGED mem
    BY <1>3 DEF Trunc, Bswap, Cast, ExtractValue
  <2> QED BY <2>1, <2>2, ResultBare, SetBare
<1>4. ASSUME NEW r \in Registers, NEW x \in Range(reg), Copy(r, x)
      PROVE  BareRegisters' /\ BareMemory'
  BY <1>4, BareOperands, SetBare DEF Copy
<1>5. ASSUME NEW r \in Registers, NEW p \in Operands("word"),
             NEW x \in Operands("byte") \cup Operands("word"), GetElementPtr(r, p, x, 3)
      PROVE  BareRegisters' /\ BareMemory'
  <2>1. x.expr = Null /\ p.expr = Null /\ Const("word", 3).expr = Null
    BY BareOperands DEF Const
  <2>2. PICK f, e : /\ \/ Set(r, p)
                       \/ Set(r, Result("word", <<x, Const("word", 3), p>>, f, e))
                    /\ UNCHANGED mem
    BY <1>5 DEF GetElementPtr
  <2> QED BY <2>1, <2>2, ResultBare, SetBare
<1>6. ASSUME NEW r \in Registers, NEW x \in Loaded("word"), Narrowed(r, x) \/ Concretized(r, x)
      PROVE  BareRegisters' /\ BareMemory'
  <2>1. x.expr = Null
    BY BareOperands
  <2>2. PICK v : Set(r, v) /\ v.expr = Null /\ UNCHANGED mem
    BY <1>6, <2>1 DEF Narrowed, Concretized
  <2> QED BY <2>2, SetBare
<1>7. ASSUME NEW r \in Registers, NEW t \in Types, NEW x \in Operands(t), NEW y, PHI(r, x, y)
      PROVE  BareRegisters' /\ BareMemory'
  <2>1. x \in Values /\ x.expr = Null
    BY OperandGood, BareOperands DEF Good
  <2>2. Finalized(x, {x, y}).expr = Null
    BY <2>1, EntryChanged DEF Finalized
  <2> QED BY <1>7, <2>2, SetBare DEF PHI
<1>8. ASSUME NEW r \in Registers, NEW c, NEW x, NEW y, Select(r, c, x, y)
      PROVE  BareRegisters' /\ BareMemory'
  <2>1. PICK v : Set(r, v) /\ v.expr = Null /\ UNCHANGED mem
    BY <1>8 DEF Select
  <2> QED BY <2>1, SetBare
<1>9. ASSUME NEW c, Branch(c) \/ IndirectBr(c) \/ \E cases : Switch(c, cases)
      PROVE  BareRegisters' /\ BareMemory'
  BY <1>9 DEF Branch, IndirectBr, Switch, BareRegisters, BareMemory
<1>10. ASSUME NEW r \in Registers, NEW t \in {"byte", "word", "struct"},
              NEW p \in Operands("word"), Load(r, t, p)
       PROVE  BareRegisters' /\ BareMemory'
  BY <1>10, LoadBare
<1>11. ASSUME NEW p \in Operands("word"),
              NEW v \in Operands("byte") \cup Operands("word") \cup Loaded("struct"), Store(p, v)
       PROVE  BareRegisters' /\ BareMemory'
  BY <1>11, BareOperands, StoreBare
<1>12. ASSUME NEW d \in Operands("word"), NEW s \in Operands("word"),
              NEW n \in Operands("word"), Memmove(d, s, n)
       PROVE  BareRegisters' /\ BareMemory'
  <2>1. /\ InMemory(Concrete(s), Concrete(n)) /\ UNCHANGED reg
        /\ mem' = Moved(Concrete(d), Concrete(s), Concrete(n))
    BY <1>12 DEF Memmove
  <2>2. Concrete(d) \in Nat /\ Concrete(s) \in Nat /\ Concrete(n) \in Nat
    BY OperandGood, ConcreteType DEF Types
  <2>3. BareMemory'
    BY <2>1, <2>2, MovedBare
  <2> QED BY <2>1, <2>3 DEF BareRegisters
<1>13. ASSUME NEW d, NEW v \in Operands("byte"), NEW n, Memset(d, v, n)
       PROVE  BareRegisters' /\ BareMemory'
  <2>1. v.expr = Null /\ DOMAIN mem = 0 .. MemSize - 1
    BY BareOperands DEF IInv
  <2> QED BY <1>13, <2>1 DEF Memset, BareRegisters, BareMemory
<1> QED
  BY <1>1, <1>2, <1>3, <1>4, <1>5, <1>6, <1>7, <1>8, <1>9, <1>10, <1>11, <1>12, <1>13
  DEF Instruction

\* Nor does a wrapped function.
LEMMA CallBare ==
  ASSUME IInv, BareRegisters, BareMemory, Deviations = {}, Call
  PROVE  BareRegisters' /\ BareMemory'
<1> DEFINE Goal == BareRegisters' /\ BareMemory'
<1>1. DOMAIN mem = 0 .. MemSize - 1 /\ \A b \in 0 .. MemSize - 1 : mem[b] \in Cells
  BY DEF IInv
<1>2. \A f : Returned(f).expr = Null
  BY DEF Returned
<1>3. ASSUME NEW r \in Registers, NEW v, Set(r, v), v.expr = Null PROVE BareRegisters'
  <2>1. \A q \in Registers : reg'[q] = IF q = r THEN v ELSE reg[q]
    BY <1>3 DEF IInv, Set
  <2> QED BY <1>3, <2>1 DEF BareRegisters
<1>4. ASSUME NEW d, Good(d, alive, input), d.expr = Null
      PROVE  [d EXCEPT !.entry = TRUE].expr = Null
  <2>1. d \in Values
    BY <1>4 DEF Good
  <2> QED BY <1>4, <2>1, EntryChanged
<1>5. ASSUME NEW r \in Registers, NEW n, NEW a, Malloc(r, n, a) PROVE Goal
  BY <1>2, <1>3, <1>5 DEF Malloc, BareMemory
<1>6. ASSUME NEW r \in Registers, NEW k, NEW n, NEW a, Calloc(r, k, n, a) PROVE Goal
  <2>1. BareRegisters'
    BY <1>2, <1>3, <1>6 DEF Calloc
  <2>2. PICK range :
          mem' = [b \in DOMAIN mem |->
                    IF b \in range THEN [mem[b] EXCEPT !.value = Constantly(0)] ELSE mem[b]]
    BY <1>6 DEF Calloc
  <2>3. BareMemory'
    <3> SUFFICES ASSUME NEW b \in 0 .. MemSize - 1 PROVE mem'[b].expr = Null
      BY DEF BareMemory
    <3>1. mem'[b] = mem[b] \/ mem'[b] = [value |-> Constantly(0), expr |-> mem[b].expr]
      BY <1>1, <2>2, ValueChanged
    <3> QED BY <3>1 DEF BareMemory
  <2> QED BY <2>1, <2>3
<1>7. ASSUME NEW r \in Registers, NEW d \in Pointers, NEW s \in Pointers, NEW n \in Lengths,
             CallMemmove(r, d, s, n)
      PROVE  Goal
  <2>1. /\ InMemory(Concrete(s), Concrete(n)) /\ Set(r, [d EXCEPT !.entry = TRUE])
        /\ mem' = Moved(Concrete(d), Concrete(s), Concrete(n))
    BY <1>7 DEF CallMemmove
  <2>2. Concrete(d) \in Nat /\ Concrete(s) \in Nat /\ Concrete(n) \in Nat
    BY ArgumentsGood, ConcreteType
  <2>3. BareMemory'
    BY <2>1, <2>2, MovedBare
  <2> QED BY <1>3, <1>4, <2>1, <2>3, ArgumentsGood, BareOperands
<1>8. ASSUME NEW r \in Registers, NEW d \in Pointers, NEW s \in Pointers, NEW n \in Lengths,
             Strncpy(r, d, s, n)
      PROVE  Goal
  <2> DEFINE to == Concrete(d)
             from == Concrete(s)
             len == Concrete(n)
             copied == Length(from, len, input)
             f(j) == [i \in Inputs |->
                        IF from + j < MemSize /\ j < Length(from, len, i)
                          THEN mem[from + j].value[i] ELSE 0]
             e(j) == IF j < copied THEN mem[from + j].expr ELSE Null
             Written(j) == [value |-> f(j), expr |-> e(j)]
  <2>1. /\ InMemory(from, copied) /\ Set(r, Returned(d.value))
        /\ mem' = [b \in DOMAIN mem |->
                     IF b \in to .. to + len - 1 THEN Written(b - to) ELSE mem[b]]
    BY <1>8 DEF Strncpy
  <2>2. to \in Nat /\ from \in Nat /\ len \in Nat
    BY ArgumentsGood, ConcreteType
  <2> HIDE DEF to, from, len
  <2>3. copied \in Nat
    <3> DEFINE S == {len} \cup Ends(from, input)
    <3>1. S \in SUBSET Nat /\ S # {}
      BY <2>2, InstrumentationAssumption DEF Ends, InstrumentationAssumption
    <3> HIDE DEF S
    <3>2. First(S) \in Nat
      BY <3>1, FirstMember
    <3> QED BY <3>2 DEF S, Length
  <2> HIDE DEF copied
  <2>4. \A j \in Nat : e(j) = Null
    BY <2>1, <2>2, <2>3, InstrumentationAssumption
    DEF InMemory, InstrumentationAssumption, BareMemory
  <2> HIDE DEF f, e
  <2>5. ASSUME NEW b \in 0 .. MemSize - 1 PROVE mem'[b].expr = Null
    <3>1. CASE b \in to .. to + len - 1
      <4>1. b - to \in Nat /\ mem'[b] = Written(b - to)
        BY <1>1, <2>1, <2>2, <3>1
      <4> QED BY <2>4, <4>1
    <3>2. CASE b \notin to .. to + len - 1
      BY <1>1, <2>1, <3>2 DEF BareMemory
    <3> QED BY <3>1, <3>2
  <2> QED BY <1>2, <1>3, <2>1, <2>5 DEF BareMemory
<1>9. ASSUME NEW r \in Registers, NEW d \in Pointers, NEW c \in Operands("word"), NEW n,
             CallMemset(r, d, c, n)
      PROVE  Goal
  <2>1. c.expr = Null /\ d.expr = Null
    BY BareOperands
  <2>2. PICK range, m :
          /\ Set(r, [d EXCEPT !.entry = TRUE]) /\ m.expr = Null
          /\ mem' = [b \in DOMAIN mem |-> IF b \in range THEN m ELSE mem[b]]
    BY <1>9, <2>1 DEF CallMemset
  <2>3. BareMemory'
    BY <1>1, <2>2 DEF BareMemory
  <2> QED BY <1>3, <1>4, <2>1, <2>2, <2>3, ArgumentsGood
<1>10. ASSUME NEW r \in Registers, NEW s, NEW c, Strchr(r, s, c) PROVE Goal
  <2>1. PICK f : Set(r, Returned(f)) /\ UNCHANGED mem
    BY <1>10 DEF Strchr
  <2> QED BY <1>2, <1>3, <2>1 DEF BareMemory
<1>11. ASSUME NEW r \in Registers, NEW p, NEW q, NEW n, Memcmp(r, p, q, n) PROVE Goal
  <2>1. PICK f : Set(r, Returned(f)) /\ UNCHANGED mem
    BY <1>11 DEF Memcmp
  <2> QED BY <1>2, <1>3, <2>1 DEF BareMemory
<1>12. ASSUME NEW r \in Registers, NEW x \in Operands("word"), Ntohl(r, x) PROVE Goal
  <2>1. x.expr = Null
    BY BareOperands
  <2>2. PICK v : Set(r, v) /\ v.expr = Null /\ UNCHANGED mem
    BY <1>12, <2>1 DEF Ntohl
  <2> QED BY <1>3, <2>2 DEF BareMemory
<1> HIDE DEF Goal
<1>13. Goal
  BY <1>5, <1>6, <1>7, <1>8, <1>9, <1>10, <1>11, <1>12 DEF Call
<1> QED BY <1>13 DEF Goal

\* Where no value has an expression, no instruction and no wrapped function makes one:
\* concrete execution stays free of symbolic computation, through all short circuits.
THEOREM LibcNoSymbolFromNowhere ==
  ASSUME Deviations = {} PROVE LibcSpec => NoSymbolFromNowhere
<1>1. IInv /\ IInv' /\ [LibcNext]_vars =>
        [(\A v \in Kept : v.expr = Null) => (\A v \in Kept' : v.expr = Null)]_vars
  <2> SUFFICES ASSUME IInv, IInv', LibcNext, \A v \in Kept : v.expr = Null
               PROVE  \A v \in Kept' : v.expr = Null
    OBVIOUS
  <2>1. BareRegisters /\ BareMemory
    BY KeptBare
  <2>2. BareRegisters' /\ BareMemory'
    BY <2>1, InstructionBare, CallBare DEF LibcNext
  <2>3. (\A v \in Kept : v.expr = Null)'
    <3>1. /\ reg' \in [Registers -> Values]
          /\ mem' \in [0 .. MemSize - 1 -> Cells]
      BY DEF IInv
    <3> QED BY <2>2, <3>1 DEF Kept, Range, BareRegisters, BareMemory
  <2> QED BY <2>3
<1> QED BY <1>1, LibcInvariance, PTL DEF LibcSpec, NoSymbolFromNowhere

\* Without calls to the C library instrumented code is right as well: the pass and the
\* runtime's functions alone keep expressions, shadows and path constraints together.
THEOREM InstrumentationRight ==
  ASSUME Deviations = {}
  PROVE  Spec => [](TypeOK /\ ExpressionsRight /\ NothingLost /\ PathExact)
<1>1. IInv /\ [Next]_vars => IInv'
  <2>1. [Next]_vars => [LibcNext]_vars
    BY DEF Next, LibcNext
  <2> QED BY <2>1, NextInv
<1> QED BY <1>1, InitInv, IInvImplies, PTL DEF Spec
=============================================================================
