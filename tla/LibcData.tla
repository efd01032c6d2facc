------------------------------ MODULE LibcData -------------------------------
(***************************************************************************)
(* The wrappers of runtime/LibcWrappers.cpp around functions that allocate,*)
(* copy, search and compare memory, called by the programs of              *)
(* Instrumentation.  A wrapper calls the function, tells the solver what   *)
(* the outcome depends on, and moves the shadows as the function moves     *)
(* bytes.  Where it does not tell all, the program may call it only if the *)
(* rest makes no difference, unless Deviations has the wrapper.            *)
(***************************************************************************)
EXTENDS Instrumentation

KnownLibcDeviations == {"calloc", "memset", "strncpy", "strchr", "memcmp"}

ASSUME LibcAssumption ==
  Deviations \subseteq KnownDeviations \cup KnownLibcDeviations

\* What a call returns with the expression null
Returned(v) == [type |-> "word", value |-> v, expr |-> Null, entry |-> TRUE]
Constantly(n) == [i \in Inputs |-> n]

\* The inputs that Follow leaves alive
Following(vs) == {i \in alive : \A k \in DOMAIN vs : i \in Agreeing(vs[k])}

\* isConcrete
AllNull(a, n) == \A b \in a .. a + n - 1 : mem[b].expr = Null

\* SYM(malloc) with the size, SYM(mmap64) with the length
Malloc(r, n, a) ==
  /\ Follow(<<n>>)
  /\ Set(r, Returned(Constantly(a)))
  /\ UNCHANGED <<input, mem>>

\* SYM(calloc): the memory is zero, but keeps the shadow of what was there before.
Calloc(r, k, n, a) ==
  LET len == Concrete(k) * Concrete(n)
      range == a .. a + len - 1
  IN  /\ InMemory(a, len)
      /\ AllNull(a, len) \/ "calloc" \in Deviations
      /\ Follow(<<k, n>>)
      /\ mem' = [b \in DOMAIN mem |->
                   IF b \in range THEN [mem[b] EXCEPT !.value = Constantly(0)] ELSE mem[b]]
      /\ Set(r, Returned(Constantly(a)))
      /\ UNCHANGED input

\* SYM(memcpy), SYM(memmove)
CallMemmove(r, d, s, n) ==
  /\ InMemory(Concrete(s), Concrete(n)) /\ InMemory(Concrete(d), Concrete(n))
  /\ Follow(<<d, s, n>>)
  /\ mem' = Moved(Concrete(d), Concrete(s), Concrete(n))
  /\ Set(r, [d EXCEPT !.entry = TRUE])
  /\ UNCHANGED input

\* SYM(memset): memory gets the low byte of c, and the shadow all of its expression.
CallMemset(r, d, c, n) ==
  LET to == Concrete(d)
      len == Concrete(n)
      filled == [value |-> [i \in Inputs |-> Digit(c.value[i], 0)], expr |-> c.expr]
  IN  /\ InMemory(to, len)
      /\ c.expr = Null \/ "memset" \in Deviations
      /\ Follow(<<d, n>>)
      /\ mem' = [b \in DOMAIN mem |-> IF b \in to .. to + len - 1 THEN filled ELSE mem[b]]
      /\ Set(r, [d EXCEPT !.entry = TRUE])
      /\ UNCHANGED input

\* strnlen, for a string at a on input i
Ends(a, i) == {k \in 0 .. MemSize - 1 : a + k < MemSize /\ mem[a + k].value[i] = 0}
First(S) == CHOOSE k \in S : \A j \in S : k <= j
Length(a, n, i) == First({n} \cup Ends(a, i))

\* Mutant: what follows the string keeps its shadow.
StrncpyShort(r, d, s, n) ==
  LET to == Concrete(d)
      from == Concrete(s)
      len == Concrete(n)
      copied == Length(from, len, input)
      Copy1(j) == IF j < copied THEN mem[from + j]
                  ELSE [mem[to + j] EXCEPT !.value = Constantly(0)]
  IN  /\ InMemory(to, len) /\ InMemory(from, copied)
      /\ from + copied < to \/ to + len <= from
      /\ \A i \in Following(<<d, s, n>>) : Length(from, len, i) = copied
      /\ Follow(<<d, s, n>>)
      /\ mem' = [b \in DOMAIN mem |-> IF b \in to .. to + len - 1 THEN Copy1(b - to) ELSE mem[b]]
      /\ Set(r, Returned(d.value))
      /\ UNCHANGED input

\* SYM(strncpy): the shadow of the string is copied, and what follows it is cleared.
\* Nothing is said of where the string ends, nor of strings that leave memory.
Strncpy(r, d, s, n) ==
  LET to == Concrete(d)
      from == Concrete(s)
      len == Concrete(n)
      copied == Length(from, len, input)
      Written(j) ==
        [value |-> [i \in Inputs |->
                      IF from + j < MemSize /\ j < Length(from, len, i)
                        THEN mem[from + j].value[i] ELSE 0],
         expr  |-> IF j < copied THEN mem[from + j].expr ELSE Null]
  IN  /\ InMemory(to, len) /\ InMemory(from, copied)
      /\ from + copied < to \/ to + len <= from
      /\ \/ "strncpy" \in Deviations
         \/ \A i \in Following(<<d, s, n>>) : Length(from, len, i) = copied
      /\ Follow(<<d, s, n>>)
      /\ mem' = [b \in DOMAIN mem |-> IF b \in to .. to + len - 1 THEN Written(b - to) ELSE mem[b]]
      /\ Set(r, Returned(d.value))
      /\ UNCHANGED input

\* SYM(strchr): the bytes before the match, or before the end, differ from c.  The
\* match is not said to be one, nor the end.
Strchr(r, s, c) ==
  LET at == Concrete(s)
      Stops(i) == Ends(at, i) \cup
        {k \in 0 .. MemSize - 1 : at + k < MemSize /\ mem[at + k].value[i] = Digit(c.value[i], 0)}
      length == First(Stops(input))
      Found(i) == LET k == First(Stops(i))
                  IN  IF mem[at + k].value[i] = Digit(c.value[i], 0) THEN at + k ELSE 0
      char == IF c.expr = Null THEN ValueExpr(c) ELSE c.expr
      before == at .. at + length - 1
      differ == {i \in Inputs : \A b \in before : mem[b].value[i] # Digit(c.value[i], 0)}
      told == IF AllNull(at, length) /\ c.expr = Null THEN Inputs
              ELSE {i \in Inputs : \A b \in before : ByteExpr(mem[b]).at[i] # Digit(char.at[i], 0)}
  IN  /\ Ends(at, input) # {}
      /\ \/ "strchr" \in Deviations
         \/ \A i \in Following(<<s, c>>) \cap differ :
              Ends(at, i) # {} /\ Found(i) = Found(input)
      /\ path' = {i \in path \cap told : i \in Pushed(s) \cap Pushed(c)}
      /\ alive' = Following(<<s, c>>) \cap differ
      /\ Set(r, Returned([i \in Inputs |-> IF Ends(at, i) = {} THEN 0 ELSE Found(i)]))
      /\ UNCHANGED <<input, mem>>

\* Mutant: the first bytes are not compared.
FromSecond(n) == 1 .. n - 1

\* The bytes that memcmp's constraint is about
Compared(n) == 0 .. n - 1

\* SYM(memcmp): whether all bytes are equal is pushed; how they differ is lost.
Memcmp(r, p, q, n) ==
  LET a == Concrete(p)
      b == Concrete(q)
      len == Concrete(n)
      Unequal(i) == {k \in 0 .. len - 1 : mem[a + k].value[i] # mem[b + k].value[i]}
      Order(i) ==
        IF Unequal(i) = {} THEN 0
        ELSE LET k == First(Unequal(i))
             IN  IF mem[a + k].value[i] < mem[b + k].value[i] THEN Limit(2) - 1 ELSE 1
      allEqual == {i \in Inputs : \A k \in Compared(len) :
                     ByteExpr(mem[a + k]).at[i] = ByteExpr(mem[b + k]).at[i]}
      told == IF AllNull(a, len) /\ AllNull(b, len) THEN Inputs
              ELSE {i \in Inputs : i \in allEqual <=> Order(input) = 0}
      same == {i \in Inputs : Order(i) = 0 <=> Order(input) = 0}
      v == [i \in Inputs |-> Order(i)]
  IN  /\ InMemory(a, len) /\ InMemory(b, len)
      /\ Lost("memcmp", v, Following(<<p, q, n>>) \cap same)
      /\ path' = {i \in path \cap told : i \in Pushed(p) \cap Pushed(q) \cap Pushed(n)}
      /\ alive' = Following(<<p, q, n>>) \cap same
      /\ Set(r, Returned(v))
      /\ UNCHANGED <<input, mem>>

\* SYM(ntohl)
Ntohl(r, x) ==
  /\ Set(r, [type  |-> "word",
             value |-> [i \in Inputs |-> Digit(x.value[i], 0) * Byte + Digit(x.value[i], 1)],
             expr  |-> IF x.expr = Null THEN Null ELSE Extract(x.expr, 0, 2, TRUE),
             entry |-> TRUE])
  /\ UNCHANGED <<input, mem, path, alive>>

Pointers == Loaded("word") \cup {Const("word", a) : a \in 0 .. MemSize - 1}
Lengths == Loaded("word") \cup {Const("word", n) : n \in 1 .. MemSize}

Call ==
  \E r \in Registers :
    \/ \E n \in Lengths, a \in 0 .. MemSize - 1 : Malloc(r, n, a)
    \/ \E k, n \in Lengths, a \in 0 .. MemSize - 1 : Calloc(r, k, n, a)
    \/ \E d, s \in Pointers, n \in Lengths : CallMemmove(r, d, s, n) \/ Strncpy(r, d, s, n)
    \/ \E d \in Pointers, c \in Operands("word"), n \in Lengths : CallMemset(r, d, c, n)
    \/ \E s \in Pointers, c \in Operands("word") : Strchr(r, s, c)
    \/ \E p, q \in Pointers, n \in Lengths : Memcmp(r, p, q, n)
    \/ \E x \in Operands("word") : Ntohl(r, x)

LibcNext == steps < MaxSteps /\ steps' = steps + 1 /\ (Instruction \/ Call)

LibcSpec == Init /\ [][LibcNext]_vars
=============================================================================
