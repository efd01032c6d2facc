----------------------------- MODULE FlatShadow -----------------------------
(***************************************************************************)
(* What shadow memory promises: the symbolic meaning of every byte of the  *)
(* program's memory, as one flat array.  A byte is Null while it is        *)
(* concrete.  Every operation is one atomic step that reads and writes     *)
(* exactly the bytes the program's own load, store or copy touches; there  *)
(* are no pages, no iterators and no fast paths here.                      *)
(***************************************************************************)
EXTENDS Integers

CONSTANTS
  MaxAddr,    \* addresses are 0..MaxAddr
  Sym,        \* expressions the program may store to memory
  Wide,       \* expressions wider than a byte, seen by the memset wrapper only
  StoreLen,   \* lengths of loads and stores
  FillLen,    \* lengths of memset
  CopyLen,    \* lengths of memcpy and memmove
  Null        \* the null expression: a concrete value

VARIABLES
  flat,       \* the expression of every byte
  result      \* what the last load returned, by significance of the byte;
              \* empty if that was a concrete value

fvars == <<flat, result>>

Addr == 0 .. MaxAddr

\* The bytes a .. a+n-1; the address past the end exists as well.
InRange(a, n) == a + n \in Addr

\* Byte k of expression e, byte 0 being the least significant.
ByteOf(e, k) == <<e, k>>

\* The constant expression for the concrete byte at address a.
Const(a) == <<Null, a>>

\* The address of the byte of significance k in an n-byte value at a.
Place(a, n, le, k) == IF le THEN a + k ELSE a + n - 1 - k

Init ==
  /\ flat = [a \in Addr |-> Null]
  /\ result = <<>>

Load(a, n, le) ==
  /\ InRange(a, n)
  /\ result' = IF \A x \in a .. a + n - 1 : flat[x] = Null
               THEN <<>>
               ELSE [k \in 0 .. n - 1 |->
                       LET x == Place(a, n, le, k)
                       IN  IF flat[x] = Null THEN Const(x) ELSE flat[x]]
  /\ UNCHANGED flat

\* e = Null stores a concrete value.
Store(a, n, e, le) ==
  /\ InRange(a, n)
  /\ flat' = [x \in Addr |->
                IF x \in a .. a + n - 1
                THEN IF e = Null
                     THEN Null
                     ELSE ByteOf(e, IF le THEN x - a ELSE a + n - 1 - x)
                ELSE flat[x]]
  /\ result' = <<>>

Fill(a, n, v) ==
  /\ InRange(a, n)
  /\ flat' = [x \in Addr |-> IF x \in a .. a + n - 1 THEN v ELSE flat[x]]
  /\ result' = <<>>

\* All source bytes are read before any destination byte is written.
Copy(d, s, n) ==
  /\ InRange(d, n)
  /\ InRange(s, n)
  /\ flat' = [x \in Addr |->
                IF x \in d .. d + n - 1 THEN flat[s + (x - d)] ELSE flat[x]]
  /\ result' = <<>>

Next ==
  \/ \E a \in Addr, n \in StoreLen, le \in BOOLEAN : Load(a, n, le)
  \/ \E a \in Addr, n \in StoreLen, e \in Sym \cup {Null}, le \in BOOLEAN :
       Store(a, n, e, le)
  \/ \E a \in Addr, n \in FillLen, v \in (Sym \X {0}) \cup Wide \cup {Null} :
       Fill(a, n, v)
  \/ \E d, s \in Addr, n \in CopyLen : Copy(d, s, n)

Spec == Init /\ [][Next]_fvars
=============================================================================
