--------------------------- MODULE Instrumentation ---------------------------
(***************************************************************************)
(* The expressions that instrumented code computes: what the pass          *)
(* (compiler/Symbolizer.cpp) emits for each instruction, including the     *)
(* short circuits that skip concrete computations, and the runtime         *)
(* functions on memory that this code calls (runtime/RuntimeCommon.cpp).   *)
(*                                                                         *)
(* The module runs the program on all inputs at once.  "input" is the one  *)
(* the process really has; every value is a function of the input, and     *)
(* "alive" holds the inputs on which the program would have taken the      *)
(* same branches and used the same addresses.  An expression is what it    *)
(* denotes, a function of the input too, but built by the runtime from     *)
(* other expressions and from what is known of concrete values, which is   *)
(* their value on "input".  "path" holds the inputs that satisfy the path  *)
(* constraints given to the solver.                                        *)
(*                                                                         *)
(* A byte has Byte values and a word, which is an address as well, two     *)
(* bytes.  The input is one byte.  The target is little-endian.            *)
(***************************************************************************)
EXTENDS Naturals, Sequences, FiniteSets, Functions

CONSTANTS
  Byte,        \* the number of values of a byte
  MemSize,     \* the number of bytes of memory
  Registers,   \* the SSA values that are in use
  Null,        \* no expression: a concrete value
  Broken,      \* what a builder makes of a null operand: in fact, a crash
  MaxSteps,    \* bound on the number of instructions
  Deviations   \* instructions on symbolic data, known not to be handled, that
               \* the program has

KnownDeviations ==
  {"select", "struct store", "bool sext", "narrow index", "pointer width", "bit count"}

ASSUME InstrumentationAssumption ==
  /\ Byte \in Nat \ {0, 1}
  /\ MemSize \in 2 .. Byte * Byte - 1    \* addresses and lengths are words
  /\ MaxSteps \in Nat

VARIABLES
  input,       \* the input of this process
  reg,         \* registers: value and symbolicExpressions entry
  mem,         \* memory and its shadow
  path,        \* the inputs that satisfy all path constraints
  alive,       \* the inputs that follow the same path
  steps        \* the number of instructions executed

vars == <<input, reg, mem, path, alive, steps>>

Inputs == 0 .. Byte - 1

Types == {"bool", "byte", "word", "struct"}

Size(t) == CASE t = "bool" -> 0 [] t = "byte" -> 1 [] OTHER -> 2

\* What a one in digit k is worth; numbers have two digits.
Power(k) == CASE k = 0 -> 1 [] k = 1 -> Byte [] k = 2 -> Byte * Byte

\* The number of values of a width in bytes; width 0 is a Boolean.
Limit(w) == IF w = 0 THEN 2 ELSE Power(w)

(***************************************************************************)
(* Values.  entry: the pass has an expression for it, known to be null or  *)
(* not only at run time.  Constants and what the pass ignores have none.   *)
(***************************************************************************)

Const(t, c) ==
  [type |-> t, value |-> [i \in Inputs |-> c], expr |-> Null, entry |-> FALSE]

Loaded(t) == {v \in Range(reg) : v.type = t}

Operands(t) == Loaded(t) \cup {Const(t, c) : c \in 0 .. Limit(Size(t)) - 1}

Concrete(v) == v.value[input]

(***************************************************************************)
(* Expressions.                                                            *)
(***************************************************************************)

Expr(w, f) == [width |-> w, at |-> f]

\* A null pointer is no expression, and neither is a crash.
Expressions == [width : 0 .. 2, at : [Inputs -> Nat]]

ASSUME ExpressionAssumption == Null \notin Expressions /\ Broken \notin Expressions

\* A builder of the runtime makes of the operands es what denotes f.
Apply(es, w, f) ==
  IF \E k \in DOMAIN es : es[k] \in {Null, Broken} THEN Broken ELSE Expr(w, f)

\* Digit k of a number, the least significant first, and the number again.
Digit(n, k) == (n \div Power(k)) % Byte
Number(ds) == FoldFunction(+, 0, [k \in DOMAIN ds |-> ds[k] * Power(k)])

\* createValueExpression
ValueExpr(v) == Expr(Size(v.type), [i \in Inputs |-> Concrete(v)])

(***************************************************************************)
(* Short circuits: the code around a computation checks its operands, does *)
(* nothing if none is symbolic, and otherwise makes expressions from the   *)
(* values of those that are not.                                           *)
(***************************************************************************)

\* Mutant: the check looks at the first operand only.
FirstConcrete(args) == args[1].expr = Null

AllConcrete(args) == \A k \in DOMAIN args : args[k].expr = Null

\* Mutant: whether there is a computation depends on the first operand.
FirstUnknown(args) == {k \in DOMAIN args : k = 1 /\ args[k].entry}

\* Operands whose concreteness is not known when compiling.
Unknown(args) == {k \in DOMAIN args : args[k].entry}

\* Mutant: an operand known to be concrete leaves the other one to be checked.
CompletedUnknown(args) ==
  [k \in DOMAIN args |->
     IF args[k].entry THEN args[k].expr ELSE ValueExpr(args[k])]

\* The operand expressions on the slow path.  If only one is of unknown
\* concreteness then that one is why the path was taken, and it is not checked.
Completed(args) ==
  [k \in DOMAIN args |->
     IF args[k].expr # Null \/ Unknown(args) = {k}
       THEN args[k].expr
       ELSE ValueExpr(args[k])]

\* shortCircuitExpressionUses: expr is what the runtime's builder, or the chain of
\* builders of a merged computation, makes of Completed(args).
Computation(args, expr) == IF AllConcrete(args) THEN Null ELSE expr

\* buildRuntimeCall, registerSymbolicComputation: the new register.
Result(t, args, value, expr) ==
  [type  |-> t,
   value |-> value,
   expr  |-> Computation(args, expr),
   entry |-> Unknown(args) # {}]

(***************************************************************************)
(* Path constraints.  What is pushed for a condition without an expression *)
(* is nothing.                                                             *)
(***************************************************************************)

\* The inputs that satisfy what a branch on v or an assertion of v's value
\* pushes, and those that agree on v.
Pushed(v) ==
  IF v.expr = Null THEN Inputs
  ELSE {i \in Inputs : v.expr.at[i] = Concrete(v)}
Agreeing(v) == {i \in Inputs : v.value[i] = Concrete(v)}

\* Mutant: memory functions assert nothing of the length.
FollowTwo(vs) ==
  /\ path'  = path \cap Pushed(vs[1])
                   \cap (IF Len(vs) = 1 THEN Inputs ELSE Pushed(vs[2]))
  /\ alive' = {i \in alive : \A k \in DOMAIN vs : i \in Agreeing(vs[k])}

Follow(vs) ==
  /\ path'  = {i \in path  : \A k \in DOMAIN vs : i \in Pushed(vs[k])}
  /\ alive' = {i \in alive : \A k \in DOMAIN vs : i \in Agreeing(vs[k])}

(***************************************************************************)
(* Memory.  Byte j of n stands for digit j or n - 1 - j of the number.     *)
(***************************************************************************)

Place(j, n, le) == IF le THEN j ELSE n - 1 - j

ReadValue(a, n, le) ==
  [i \in Inputs |->
     Number([k \in 0 .. n - 1 |-> mem[a + Place(k, n, le)].value[i]])]

\* NonNullReadShadowIterator: a concrete byte gets an expression.
ByteExpr(c) == IF c.expr = Null THEN Expr(1, [i \in Inputs |-> c.value[input]])
               ELSE c.expr

\* _sym_concat_helper for the bytes es, the least significant first
Concat(es, n) ==
  Apply(es, n, [i \in Inputs |-> Number([k \in 0 .. n - 1 |-> es[k].at[i]])])

\* Mutant: no fast path.
ReadMemoryAlways(a, n, le) ==
  Concat([k \in 0 .. n - 1 |-> ByteExpr(mem[a + Place(k, n, le)])], n)

\* _sym_read_memory
ReadMemory(a, n, le) ==
  IF \A j \in 0 .. n - 1 : mem[a + j].expr = Null
    THEN Null
    ELSE Concat([k \in 0 .. n - 1 |-> ByteExpr(mem[a + Place(k, n, le)])], n)

\* _sym_write_memory: the expression of byte j.
WrittenByte(e, j, n, le) ==
  IF e = Null THEN Null
  ELSE Apply(<<e>>, 1, [i \in Inputs |-> Digit(e.at[i], Place(j, n, le))])

\* _sym_build_extract: the bytes of e are in the order they have in memory.
Extract(e, offset, length, le) ==
  LET part(n) == Number([k \in 0 .. length - 1 |->
                           Digit(n, e.width - 1 - offset - Place(k, length, le))])
  IN  Apply(<<e>>, length, [i \in Inputs |-> part(e.at[i])])

InMemory(a, n) == a + n <= MemSize

(***************************************************************************)
(* Instructions.                                                           *)
(***************************************************************************)

\* The byte of the input has been read to some places, or not at all; it may be the
\* parameter of the function, too.
Init ==
  /\ input \in Inputs
  /\ \E known \in {{}} \cup {{r} : r \in Registers} :
       reg = [r \in Registers |->
                IF r \notin known THEN Const("byte", 0)
                ELSE [type |-> "byte", value |-> [i \in Inputs |-> i],
                      expr |-> Expr(1, [i \in Inputs |-> i]), entry |-> TRUE]]
  /\ \E read \in SUBSET (0 .. MemSize - 1) :
       mem = [a \in 0 .. MemSize - 1 |->
                IF a \in read
                  THEN [value |-> [i \in Inputs |-> i],
                        expr  |-> Expr(1, [i \in Inputs |-> i])]
                  ELSE [value |-> [i \in Inputs |-> 0], expr |-> Null]]
  /\ path = Inputs
  /\ alive = Inputs
  /\ steps = 0

Set(r, v) == reg' = [reg EXCEPT ![r] = v]

Operations(t) == IF t = "bool" THEN {"and", "xor"} ELSE {"add", "mul"}

Perform(op, t, m, n) ==
  CASE op = "and" -> m * n
    [] op = "xor" -> (m + n) % 2
    [] op = "add" -> (m + n) % Limit(Size(t))
    [] op = "mul" -> (m * n) % Limit(Size(t))

\* visitBinaryOperator
BinaryOperator(r, t, op, x, y) ==
  LET F(m, n) == Perform(op, t, m, n)
      es == Completed(<<x, y>>)
  IN  /\ Set(r, Result(t, <<x, y>>,
                  [i \in Inputs |-> F(x.value[i], y.value[i])],
                  Apply(es, Size(t), [i \in Inputs |-> F(es[1].at[i], es[2].at[i])])))
      /\ UNCHANGED <<input, mem, path, alive>>

\* visitCmpInst; comparisons yield 0 or 1
Cmp(r, x, y) ==
  LET Less(m, n) == IF m < n THEN 1 ELSE 0
      es == Completed(<<x, y>>)
  IN  /\ Set(r, Result("bool", <<x, y>>,
                  [i \in Inputs |-> Less(x.value[i], y.value[i])],
                  Apply(es, 0, [i \in Inputs |-> Less(es[1].at[i], es[2].at[i])])))
      /\ UNCHANGED <<input, mem, path, alive>>

\* visitTruncInst
Trunc(r, x) ==
  LET e == Completed(<<x>>)[1]
  IN  /\ Set(r, Result("byte", <<x>>,
                  [i \in Inputs |-> x.value[i] % Byte],
                  Apply(<<e>>, 1, [i \in Inputs |-> e.at[i] % Byte])))
      /\ UNCHANGED <<input, mem, path, alive>>

\* The upper half of a byte's values is negative.
SignExtended(n, w) == IF 2 * n < Byte THEN n ELSE n + Limit(w) - Byte

\* visitCastInst for sign and zero extension.  A Boolean is always extended with
\* zeros in its expression, by _sym_build_bool_to_bits.
Cast(r, t, x, signed) ==
  LET w == Size(t)
      bool == x.type = "bool"
      Extended(n) == CASE ~signed         -> n
                       [] signed /\ bool  -> n * (Limit(w) - 1)
                       [] signed /\ ~bool -> SignExtended(n, w)
      Built(n) == IF bool THEN n ELSE Extended(n)
      e == Completed(<<x>>)[1]
  IN  /\ bool /\ signed => x.expr = Null \/ "bool sext" \in Deviations
      /\ Set(r, Result(t, <<x>>,
                  [i \in Inputs |-> Extended(x.value[i])],
                  Apply(<<e>>, w, [i \in Inputs |-> Built(e.at[i])])))
      /\ UNCHANGED <<input, mem, path, alive>>

\* visitBitCastInst, visitIntToPtrInst, visitPtrToIntInst and llvm.expect, without
\* a change of width: the entry is copied, if there is one.
Copy(r, x) ==
  /\ Set(r, x)
  /\ UNCHANGED <<input, mem, path, alive>>

\* visitPtrToIntInst with a narrower integer; visitIntToPtrInst is alike.  The
\* expression keeps the width of the pointer.
Narrowed(r, p) ==
  /\ "pointer width" \in Deviations \/ p.expr = Null
  /\ Set(r, [type |-> "byte", value |-> [i \in Inputs |-> p.value[i] % Byte],
             expr |-> p.expr, entry |-> p.entry])
  /\ UNCHANGED <<input, mem, path, alive>>

\* A result without an entry is right only where nothing else is possible.
Lost(gap, v, agreeing) ==
  gap \in Deviations \/ \A i \in agreeing : v[i] = v[input]

\* handleIntrinsicCall for ctpop, in place of all that is concretized: bit counts,
\* inline assembly, insertvalue, unknown instructions and intrinsics
Concretized(r, x) ==
  LET v == [i \in Inputs |-> Digit(x.value[i], 0) + Digit(x.value[i], 1)]
  IN  /\ Lost("bit count", v, alive)
      /\ Set(r, [type |-> "word", value |-> v, expr |-> Null, entry |-> FALSE])
      /\ UNCHANGED <<input, mem, path, alive>>

\* handleIntrinsicCall for bswap, with _sym_build_bswap
Bswap(r, x) ==
  LET Swapped(n) == Digit(n, 0) * Byte + Digit(n, 1)
  IN  /\ Set(r, Result("word", <<x>>,
                  [i \in Inputs |-> Swapped(x.value[i])],
                  Extract(Completed(<<x>>)[1], 0, 2, TRUE)))
      /\ UNCHANGED <<input, mem, path, alive>>

\* visitGetElementPtrInst for one index: the chain multiplies it with the size of an
\* element and adds the pointer.  An index that is the constant zero is dropped, and
\* so is then the whole computation.  An index narrower than a pointer is signed, but
\* extended with zeros.
GetElementPtr(r, p, x, size) ==
  LET args == <<x, Const("word", size), p>>
      es == Completed(args)
      Index(n) == IF x.type = "byte" THEN SignExtended(n, 2) ELSE n
      offset == Apply(<<es[1], es[2]>>, 2,
                  [i \in Inputs |-> (es[1].at[i] * es[2].at[i]) % Limit(2)])
      address == Apply(<<offset, es[3]>>, 2,
                   [i \in Inputs |-> (offset.at[i] + es[3].at[i]) % Limit(2)])
      value == [i \in Inputs |-> (p.value[i] + Index(x.value[i]) * size) % Limit(2)]
  IN  /\ \/ "narrow index" \in Deviations
         \/ AllConcrete(args)
         \/ \A i \in alive : Index(x.value[i]) = x.value[i]
      /\ Set(r, IF x = Const(x.type, 0) THEN p
                ELSE Result("word", args, value, address))
      /\ UNCHANGED <<input, mem, path, alive>>

\* visitExtractValueInst, for one byte of a structure
ExtractValue(r, x, offset) ==
  /\ Set(r, Result("byte", <<x>>,
              [i \in Inputs |-> Digit(x.value[i], 1 - offset)],
              Extract(Completed(<<x>>)[1], offset, 1, TRUE)))
  /\ UNCHANGED <<input, mem, path, alive>>

\* finalizePHINodes: a node none of whose incoming values has an entry is
\* removed in the end.  (Until then it counts as one, which only adds checks.)
Finalized(x, incoming) == [x EXCEPT !.entry = \E v \in incoming : v.entry]

\* visitPHINode: x comes along the edge that was taken, y along another one.
PHI(r, x, y) ==
  /\ Set(r, Finalized(x, {x, y}))
  /\ UNCHANGED <<input, mem, path, alive>>

\* visitSelectInst: the condition is pushed; the result gets no entry.
Select(r, c, x, y) ==
  LET chosen(i) == IF c.value[i] = 1 THEN x.value[i] ELSE y.value[i]
      v == [i \in Inputs |-> chosen(i)]
  IN  /\ Lost("select", v, alive \cap Agreeing(c))
      /\ Set(r, [type |-> x.type, value |-> v, expr |-> Null, entry |-> FALSE])
      /\ Follow(<<c>>)
      /\ UNCHANGED <<input, mem>>

\* visitBranchInst
Branch(c) ==
  /\ Follow(<<c>>)
  /\ UNCHANGED <<input, reg, mem>>

\* visitIndirectBrInst
IndirectBr(x) ==
  /\ Follow(<<x>>)
  /\ UNCHANGED <<input, reg, mem>>

\* visitSwitchInst: one constraint per case, of equality or its negation.
Switch(x, cases) ==
  LET same(n) == \A c \in cases : (n = c) <=> (Concrete(x) = c)
  IN  /\ path'  = {i \in path : x.expr # Null => same(x.expr.at[i])}
      /\ alive' = {i \in alive : same(x.value[i])}
      /\ UNCHANGED <<input, reg, mem>>

\* visitLoadInst; isLittleEndian makes structures big-endian, which keeps the
\* order their bytes have in memory.
Load(r, t, p) ==
  LET a == Concrete(p)
      n == Size(t)
      le == t # "struct"
  IN  /\ InMemory(a, n)
      /\ Follow(<<p>>)
      /\ Set(r, [type  |-> t,
                 value |-> ReadValue(a, n, le),
                 expr  |-> ReadMemory(a, n, le),
                 entry |-> TRUE])
      /\ UNCHANGED <<input, mem>>

\* visitStoreInst, which takes the byte order of the target for any type.
Store(p, v) ==
  LET a == Concrete(p)
      n == Size(v.type)
      stored(j) ==
        [value |-> [i \in Inputs |-> Digit(v.value[i], Place(j, n, v.type # "struct"))],
         expr  |-> WrittenByte(v.expr, j, n, TRUE)]
  IN  /\ v.type = "struct" => v.expr = Null \/ "struct store" \in Deviations
      /\ InMemory(a, n)
      /\ Follow(<<p>>)
      /\ mem' = [b \in DOMAIN mem |->
                   IF b \in a .. a + n - 1 THEN stored(b - a) ELSE mem[b]]
      /\ UNCHANGED <<input, reg>>

\* Memory after its bytes and their expressions were moved
Moved(to, from, len) ==
  [b \in DOMAIN mem |-> IF b \in to .. to + len - 1 THEN mem[from + (b - to)] ELSE mem[b]]

\* handleIntrinsicCall for memcpy and memmove
Memmove(d, s, n) ==
  LET from == Concrete(s)
      to == Concrete(d)
      len == Concrete(n)
  IN  /\ InMemory(from, len) /\ InMemory(to, len)
      /\ Follow(<<d, s, n>>)
      /\ mem' = Moved(to, from, len)
      /\ UNCHANGED <<input, reg>>

\* handleIntrinsicCall for memset
Memset(d, v, n) ==
  LET to == Concrete(d)
      len == Concrete(n)
  IN  /\ InMemory(to, len)
      /\ Follow(<<d, n>>)
      /\ mem' = [b \in DOMAIN mem |->
                   IF b \in to .. to + len - 1
                     THEN [value |-> v.value, expr |-> v.expr] ELSE mem[b]]
      /\ UNCHANGED <<input, reg>>

Instruction ==
  \/ \E r \in Registers, t \in {"bool", "byte", "word"} :
       \E op \in Operations(t), x \in Loaded(t), y \in Operands(t) :
         BinaryOperator(r, t, op, x, y) \/ BinaryOperator(r, t, op, y, x)
  \/ \E r \in Registers, t \in {"byte", "word"} :
       \E x \in Loaded(t), y \in Operands(t) : Cmp(r, x, y)
  \/ \E r \in Registers, x \in Loaded("word") : Trunc(r, x)
  \/ \E r \in Registers, x \in Loaded("byte"), signed \in BOOLEAN :
       Cast(r, "word", x, signed)
  \/ \E r \in Registers, x \in Loaded("bool"), t \in {"byte", "word"} :
       \E signed \in BOOLEAN : Cast(r, t, x, signed)
  \/ \E r \in Registers, x \in Range(reg) : Copy(r, x)
  \/ \E r \in Registers, x \in Loaded("word") : Bswap(r, x)
  \/ \E r \in Registers, p \in Operands("word") :
       \E x \in Operands("byte") \cup Operands("word") :
         {p, x} \cap Range(reg) # {} /\ GetElementPtr(r, p, x, 3)
  \/ \E r \in Registers, x \in Loaded("word") : Narrowed(r, x) \/ Concretized(r, x)
  \/ \E r \in Registers, x \in Loaded("struct"), k \in 0 .. 1 : ExtractValue(r, x, k)
  \/ \E r \in Registers, t \in Types :
       \E x \in Operands(t), y \in Loaded(t) \cup {Const(t, 0)} : PHI(r, x, y)
  \/ \E r \in Registers, c \in Loaded("bool"), t \in {"byte", "word"} :
       \E x \in Operands(t), y \in Operands(t) : Select(r, c, x, y)
  \/ \E c \in Loaded("bool") : Branch(c)
  \/ \E x \in Loaded("word") : IndirectBr(x)
  \/ \E x \in Loaded("word"), cases \in SUBSET (0 .. Limit(2) - 1) : Switch(x, cases)
  \/ \E r \in Registers, t \in {"byte", "word", "struct"} :
       \E p \in Operands("word") : Load(r, t, p)
  \/ \E p \in Operands("word") :
       \E v \in Operands("byte") \cup Operands("word") \cup Loaded("struct") : Store(p, v)
  \/ \E d \in Operands("word"), s \in Operands("word"), n \in Operands("word") :
       Memmove(d, s, n)
  \/ \E d \in Operands("word"), v \in Operands("byte"), n \in Operands("word") :
       Memset(d, v, n)

Next == steps < MaxSteps /\ steps' = steps + 1 /\ Instruction

Spec == Init /\ [][Next]_vars

-----------------------------------------------------------------------------
(***************************************************************************)
(* Properties                                                              *)
(***************************************************************************)

TypeOK ==
  /\ input \in alive
  /\ alive \subseteq Inputs
  /\ path \subseteq Inputs
  /\ \A r \in Registers :
       /\ reg[r].type \in Types
       /\ reg[r].value \in [Inputs -> 0 .. Limit(Size(reg[r].type)) - 1]
       /\ reg[r].expr \in {Null, Broken} \/ reg[r].expr.width = Size(reg[r].type)
       /\ reg[r].entry \/ reg[r].expr = Null
  /\ \A a \in DOMAIN mem : mem[a].expr \in {Null, Broken} \/ mem[a].expr.width = 1

\* What the program keeps: values with their expressions.
Kept == Range(reg) \cup Range(mem)

\* The expression of a value denotes what the program computes for it, on every
\* input that takes the same path: short circuits leave no operand out, and
\* byte orders fit together from loads through builders to stores
\* (shortCircuitExpressionUses, visitLoadInst, visitStoreInst, Extract).
ExpressionsRight ==
  \A v \in Kept : v.expr # Null =>
    /\ v.expr # Broken
    /\ \A i \in alive : v.expr.at[i] = v.value[i]

\* A value without an expression does not depend on the input, as far as the
\* path allows it to vary: no instruction loses track of symbolic data.
NothingLost ==
  \A v \in Kept : v.expr = Null => \A i \in alive : v.value[i] = v.value[input]

\* The path constraints describe the path: the inputs that satisfy them are those
\* that take the same branches and use the same addresses (visitBranchInst,
\* visitSwitchInst, visitSelectInst, tryAlternative).
PathExact == path = alive

\* Where no value has an expression, none will ever get one: concrete execution
\* stays free of symbolic computation, through all short circuits.
NoSymbolFromNowhere ==
  [][(\A v \in Kept : v.expr = Null) => (\A v \in Kept' : v.expr = Null)]_vars
=============================================================================
