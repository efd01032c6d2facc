------------------------- MODULE ShadowMemoryProofs -------------------------
(***************************************************************************)
(* Proofs about ShadowMemory for every page size, address space and set of *)
(* expressions: the inductive invariant of the copy loops, and that the    *)
(* paged shadow implements FlatShadow.                                     *)
(***************************************************************************)
EXTENDS ShadowMemory, TLAPS

\* The copy loop relies on its range, on its direction, on its cached page
\* and on the page it writes to, all at once.
IInv == ShadowTypeOK /\ CopyInRange /\ CursorCoherent /\ WriterMapped

-----------------------------------------------------------------------------
(* Page arithmetic *)

\* Multiplying preserves the order by at least one factor.
LEMMA TimesMonotone ==
  ASSUME NEW n \in Nat, NEW p \in Int, NEW q \in Int, p + 1 <= q
  PROVE  n * p + n <= n * q
<1>1. PICK k \in Nat : q = p + 1 + k
  OBVIOUS
<1>2. n * q = n * p + n + n * k
  BY <1>1
<1>3. n * k \in Nat
  OBVIOUS
<1> QED BY <1>2, <1>3

\* The start of a page is the page size times a number.
LEMMA PageStart ==
  ASSUME NEW a \in Nat
  PROVE  /\ a \div PageSize \in Nat
         /\ PageOf(a) = PageSize * (a \div PageSize)
         /\ PageOf(a) \in Nat
         /\ PageOf(a) <= a
         /\ a < PageOf(a) + PageSize
BY SizesAssumption DEF PageOf

\* pageStart is monotone.
LEMMA PageMonotone ==
  ASSUME NEW a \in Nat, NEW b \in Nat, a <= b
  PROVE  PageOf(a) <= PageOf(b)
<1> DEFINE p == a \div PageSize
           q == b \div PageSize
<1>1. /\ p \in Nat /\ q \in Nat
      /\ PageOf(a) = PageSize * p /\ PageOf(b) = PageSize * q
      /\ PageOf(a) \in Nat /\ PageOf(b) \in Nat
      /\ PageOf(a) <= a /\ b < PageOf(b) + PageSize
  BY PageStart
<1>2. CASE p <= q
  <2>1. p = q \/ p + 1 <= q
    BY <1>1, <1>2
  <2>2. p + 1 <= q => PageSize * p + PageSize <= PageSize * q
    BY <1>1, TimesMonotone, SizesAssumption
  <2> QED BY <1>1, <2>1, <2>2, SizesAssumption
<1>3. CASE q + 1 <= p
  <2>1. PageSize * q + PageSize <= PageSize * p
    BY <1>1, <1>3, TimesMonotone, SizesAssumption
  <2> QED BY <1>1, <2>1, SizesAssumption
<1> QED BY <1>1, <1>2, <1>3

\* The fast path of isConcrete looks at the two ends of a range only: every
\* address between two addresses of one page is on that page.
LEMMA SamePage ==
  ASSUME NEW a \in Nat, NEW n \in Nat, NEW x \in Bytes(a, n),
         PageOf(a) = PageOf(a + n)
  PROVE  PageOf(x) = PageOf(a)
<1>1. x \in Nat /\ a <= x /\ x <= a + n
  BY DEF Bytes
<1>2. PageOf(a) <= PageOf(x) /\ PageOf(x) <= PageOf(a + n)
  BY <1>1, PageMonotone
<1> QED BY <1>1, <1>2, PageStart

\* isConcrete is exact: it holds iff every byte of the range is concrete.
THEOREM IsConcreteExact ==
  ASSUME NEW a \in Nat, NEW n \in Nat
  PROVE  IsConcrete(a, n) <=> \A x \in Bytes(a, n) : Lookup(x) = Null
BY SamePage DEF IsConcrete, Lookup

-----------------------------------------------------------------------------
(* The inductive invariant *)

\* Lookup in the next state, at an address of this one.
LookupNext(a) == IF PageOf(a) \in mapped' THEN shadow'[a] ELSE Null

\* A fresh lookup never shows uninitialised memory.
LEMMA LookupType ==
  ASSUME ShadowTypeOK, NEW a \in Addr
  PROVE  Lookup(a) \in Cell
BY DEF ShadowTypeOK, Lookup, Cell

\* Initially there are no pages and no copy runs.
LEMMA InitIInv == Init => IInv
BY SizesAssumption
DEF Init, IInv, ShadowTypeOK, CopyInRange, CursorCoherent, WriterMapped, NoOp, Idle,
    Addr, InRange, Disjoint

\* While no copy runs, only the types matter.
LEMMA IdleIInv ==
  ASSUME op' = NoOp, ShadowTypeOK'
  PROVE  IInv'
BY SizesAssumption
DEF IInv, CopyInRange, CursorCoherent, WriterMapped, NoOp, Idle, Addr, InRange,
    Disjoint

\* The pages of a range that ends inside the address space are pages of it.
LEMMA TouchedPages ==
  ASSUME NEW a \in Addr, NEW n \in Nat, InRange(a, n)
  PROVE  Touched(a, n) \subseteq Page
BY SizesAssumption DEF Touched, Page, Addr, InRange

\* The single-step writers leave every page they create initialised.
LEMMA OverwriteTypeOK ==
  ASSUME ShadowTypeOK, NEW a \in Addr, NEW n \in Nat, InRange(a, n),
         NEW val \in [Bytes(a, n) -> Cell], Overwrite(a, n, val), op' = op
  PROVE  ShadowTypeOK'
<1>1. \A x \in Addr : Created(shadow, Touched(a, n))[x] \in Cell \cup {Uninit}
  BY DEF Created, ShadowTypeOK, Cell
<1>2. shadow' \in [Addr -> Cell \cup {Uninit}]
  BY <1>1 DEF Overwrite
<1>3. mapped' \subseteq Page
  BY TouchedPages DEF Overwrite, ShadowTypeOK
<1>4. ASSUME NEW x \in Addr, PageOf(x) \in mapped'
      PROVE  shadow'[x] # Uninit
  <2>1. Uninit \notin Cell
    BY ExprAssumption DEF Cell, Byte
  <2>2. CASE x \in Bytes(a, n)
    BY <2>1, <2>2 DEF Overwrite
  <2>3. CASE x \notin Bytes(a, n) /\ PageOf(x) \in mapped
    BY <2>3 DEF Overwrite, Created, ShadowTypeOK
  <2>4. CASE x \notin Bytes(a, n) /\ PageOf(x) \notin mapped
    BY <2>1, <2>4, <1>4 DEF Overwrite, Created, Cell
  <2> QED BY <2>2, <2>3, <2>4
<1> QED BY <1>2, <1>3, <1>4 DEF ShadowTypeOK

\* _sym_write_memory and _sym_memset preserve the invariant.
LEMMA WriteIInv ==
  ASSUME IInv, NEW a \in Addr, NEW n \in StoreLen, NEW e \in Sym \cup {Null},
         NEW le \in BOOLEAN, WriteMemory(a, n, e, le)
  PROVE  IInv'
<1> DEFINE val == [x \in Bytes(a, n) |->
                     IF e = Null THEN Null
                     ELSE ByteOf(e, IF le THEN x - a ELSE n - (x - a) - 1)]
<1>1. n \in Nat /\ a \in Nat
  BY SizesAssumption DEF Addr
<1>2. val \in [Bytes(a, n) -> Cell]
  BY <1>1 DEF Bytes, ByteOf, Cell, Byte
<1>3. CASE UNCHANGED <<mapped, shadow>>
  BY <1>3, IdleIInv DEF WriteMemory, Idle, IInv, ShadowTypeOK
<1>4. CASE Overwrite(a, n, val)
  BY <1>1, <1>2, <1>4, OverwriteTypeOK, IdleIInv DEF WriteMemory, Idle, IInv
<1> QED BY <1>3, <1>4 DEF WriteMemory

\* memset keeps the invariant, whatever pages it has to create.
LEMMA MemsetIInv ==
  ASSUME IInv, NEW a \in Addr, NEW n \in FillLen,
         NEW v \in (Sym \X {0}) \cup Wide \cup {Null}, Memset(a, n, v)
  PROVE  IInv'
<1>1. n \in Nat
  BY SizesAssumption
<1>2. [x \in Bytes(a, n) |-> v] \in [Bytes(a, n) -> Cell]
  BY DEF Cell, Byte
<1>3. CASE UNCHANGED <<mapped, shadow>>
  BY <1>3, IdleIInv DEF Memset, Idle, IInv, ShadowTypeOK
<1>4. CASE Overwrite(a, n, [x \in Bytes(a, n) |-> v])
  BY <1>1, <1>2, <1>4, OverwriteTypeOK, IdleIInv DEF Memset, Idle, IInv
<1> QED BY <1>3, <1>4 DEF Memset

\* The head of a copy hands over iterators that are coherent, whichever of
\* the two is built first.
LEMMA StartCopyIInv ==
  ASSUME IInv, NEW d \in Addr, NEW s \in Addr, NEW n \in CopyLen,
         NEW back \in BOOLEAN, StartCopy(d, s, n, back),
         Disjoint(d, s, n) \/ (IF back THEN d > s ELSE d <= s)
  PROVE  IInv'
<1> USE SizesAssumption
<1>1. n \in Nat /\ d \in Nat /\ s \in Nat /\ MaxAddr \in Nat
  BY DEF Addr
<1>2. CASE IsConcrete(s, n) /\ IsConcrete(d, n)
  BY <1>2, IdleIInv DEF StartCopy, Idle, IInv, ShadowTypeOK
<1>3. CASE ~(IsConcrete(s, n) /\ IsConcrete(d, n))
  <2> DEFINE first == IF back THEN s + n ELSE s
             page  == PageOf(IF back THEN d + n ELSE d)
  <2>1. /\ mapped' = mapped \cup {page}
        /\ shadow' = Created(shadow, {page})
    BY <1>3 DEF StartCopy
  <2>2. PICK m \in {mapped, mapped'} :
          op' = [dst |-> d, src |-> s, len |-> n, i |-> 0, back |-> back,
                 live |-> PageOf(first) \in m]
    BY <1>3 DEF StartCopy
  <2>3. n > 0
    <3>1. n = 0 => IsConcrete(s, n) /\ IsConcrete(d, n)
      BY <1>1 DEF IsConcrete, Bytes
    <3> QED BY <1>1, <1>3, <3>1
  <2>4. first \in Addr /\ page \in Page
    BY <1>1 DEF StartCopy, InRange, Addr, Page
  <2>5. ShadowTypeOK'
    BY <1>1, <2>1, <2>2, <2>4, ExprAssumption
    DEF IInv, ShadowTypeOK, Created, Cell, Byte
  <2>6. CopyInRange'
    BY <1>1, <2>2, <2>3 DEF StartCopy, CopyInRange, InRange, Disjoint, Idle, NoOp
  <2>7. WriterMapped'
    BY <1>1, <2>1, <2>2 DEF WriterMapped, Cursor
  <2>8. CursorCoherent'
    <3>1. Cursor(op.src)' = first
      BY <1>1, <2>2, <2>4 DEF Cursor, Addr
    <3>2. op'.live => PageOf(first) \in mapped'
      BY <2>1, <2>2
    <3>3. ASSUME ~op'.live, NEW j \in 0 .. n - 1, PageOf(s + j) = PageOf(first)
          PROVE  Lookup(s + j)' = Null
      <4>1. s + j \in Addr
        BY <1>1 DEF StartCopy, InRange, Addr
      <4>2. PageOf(first) \notin mapped
        BY <2>1, <2>2, <3>3
      <4> QED BY <2>1, <3>3, <4>1, <4>2 DEF Lookup, Created
    <3> QED BY <2>2, <3>1, <3>2, <3>3 DEF CursorCoherent
  <2> QED BY <2>5, <2>6, <2>7, <2>8 DEF IInv
<1> QED BY <1>2, <1>3

\* The cached pointer of a forward copy yields what a fresh lookup would.
LEMMA DerefForward ==
  ASSUME IInv, op.i < op.len, ~op.back
  PROVE  /\ op.src + op.i \in Addr
         /\ op.dst + op.i \in Addr
         /\ op.src + op.i + 1 \in Addr
         /\ op.dst + op.i + 1 \in Addr
         /\ PageOf(op.dst + op.i) \in mapped
         /\ Deref(op.live, op.src + op.i) = Lookup(op.src + op.i)
         /\ Cursor(op.src) = op.src + op.i
         /\ Cursor(op.dst) = op.dst + op.i
<1>1. /\ op.i \in Nat /\ op.len \in Nat /\ op.src \in Nat /\ op.dst \in Nat
      /\ op.src + op.len <= MaxAddr /\ op.dst + op.len <= MaxAddr
  BY SizesAssumption DEF IInv, ShadowTypeOK, CopyInRange, InRange, Addr
<1>2. Cursor(op.src) = op.src + op.i /\ Cursor(op.dst) = op.dst + op.i
  BY <1>1 DEF Cursor
<1>3. Pending(op.i) /\ op.i \in 0 .. op.len - 1
  BY <1>1 DEF Pending
<1>4. Deref(op.live, op.src + op.i) = Lookup(op.src + op.i)
  BY <1>1, <1>2, <1>3 DEF IInv, CursorCoherent, Deref, Lookup
<1>5. PageOf(op.dst + op.i) \in mapped
  BY <1>1, <1>2 DEF IInv, WriterMapped
<1> QED BY <1>1, <1>2, <1>4, <1>5, SizesAssumption DEF Addr

\* One element of std::copy preserves the invariant: the write does not
\* touch a source byte that is still to be read, and a page it creates is
\* all concrete.
LEMMA ForwardIInv ==
  ASSUME IInv, CopyForward
  PROVE  IInv'
<1> DEFINE s == op.src + op.i
           d == op.dst + op.i
           P == {PageOf(d), PageOf(d + 1)}
           live == IF PageOf(s + 1) = PageOf(s)
                   THEN op.live ELSE PageOf(s + 1) \in mapped'
<1>1. /\ op.i \in Nat /\ op.len \in Nat /\ op.src \in Nat /\ op.dst \in Nat
      /\ op.i < op.len /\ ~op.back /\ MaxAddr \in Nat
      /\ op.src + op.len <= MaxAddr /\ op.dst + op.len <= MaxAddr
  BY SizesAssumption DEF IInv, ShadowTypeOK, CopyInRange, InRange, Addr, CopyForward
<1>2. /\ s \in Addr /\ d \in Addr /\ s + 1 \in Addr /\ d + 1 \in Addr
      /\ PageOf(d) \in mapped
      /\ Cursor(op.src) = s /\ Cursor(op.dst) = d
      /\ Deref(op.live, s) = Lookup(s)
  BY <1>1, DerefForward
<1>3. /\ shadow' = [Created(shadow, P) EXCEPT ![d] = Lookup(s)]
      /\ mapped' = mapped \cup P
      /\ op' = IF op.i + 1 = op.len THEN NoOp
               ELSE [op EXCEPT !.i = op.i + 1, !.live = live]
  BY <1>2 DEF CopyForward, Advance
<1>4. shadow' = [x \in Addr |-> IF x = d THEN Lookup(s)
                                ELSE Created(shadow, P)[x]]
  BY <1>2, <1>3 DEF Created
<1>5. /\ mapped' \subseteq Page
      /\ shadow' \in [Addr -> Cell \cup {Uninit}]
      /\ \A x \in Addr : PageOf(x) \in mapped' => shadow'[x] # Uninit
  <2>1. Lookup(s) \in Cell /\ Uninit \notin Cell /\ Null \in Cell
    BY <1>2, LookupType, ExprAssumption DEF IInv, Cell, Byte
  <2>2. mapped' \subseteq Page
    BY <1>2, <1>3 DEF IInv, ShadowTypeOK, Page
  <2>3. shadow' \in [Addr -> Cell \cup {Uninit}]
    <3>1. \A x \in Addr : Created(shadow, P)[x] \in Cell \cup {Uninit}
      BY <2>1 DEF IInv, ShadowTypeOK, Created
    <3> QED BY <1>4, <2>1, <3>1
  <2>4. \A x \in Addr : PageOf(x) \in mapped' => shadow'[x] # Uninit
    BY <1>3, <1>4, <2>1 DEF IInv, ShadowTypeOK, Created
  <2> QED BY <2>2, <2>3, <2>4
<1>6. CASE op.i + 1 = op.len
  <2>1. op' = NoOp
    BY <1>3, <1>6
  <2>2. ShadowTypeOK'
    BY <1>1, <1>5, <2>1 DEF ShadowTypeOK, NoOp, Addr
  <2> QED BY <2>1, <2>2, IdleIInv
<1>7. CASE op.i + 1 # op.len
  <2>1. op' = [op EXCEPT !.i = op.i + 1, !.live = live]
    BY <1>3, <1>7
  <2>2. /\ op'.i = op.i + 1 /\ op'.len = op.len /\ op'.src = op.src
        /\ op'.dst = op.dst /\ op'.back = op.back /\ op'.live = live
        /\ op.i + 1 < op.len
    BY <1>1, <1>7, <2>1 DEF IInv, ShadowTypeOK
  <2>3. ShadowTypeOK'
    <3>1. op.live \in BOOLEAN /\ op.back \in BOOLEAN
          /\ op.dst \in Addr /\ op.src \in Addr
      BY DEF IInv, ShadowTypeOK
    <3>2. live \in BOOLEAN
      <4>1. CASE PageOf(s + 1) = PageOf(s)
        BY <3>1, <4>1
      <4>2. CASE PageOf(s + 1) # PageOf(s)
        <5>1. (PageOf(s + 1) \in mapped') \in BOOLEAN
          OBVIOUS
        <5> QED BY <4>2, <5>1
      <4> QED BY <4>1, <4>2
    <3> HIDE DEF live
    <3>3. op' = [dst |-> op.dst, src |-> op.src, len |-> op.len,
                 i |-> op.i + 1, back |-> op.back, live |-> live]
      BY <2>1 DEF IInv, ShadowTypeOK
    <3>4. op.i + 1 \in Nat
      BY <1>1
    <3>5. op' \in [dst : Addr, src : Addr, len : Nat, i : Nat,
                   back : BOOLEAN, live : BOOLEAN]
      BY <1>1, <3>1, <3>2, <3>3, <3>4
    <3> QED BY <1>5, <3>5 DEF ShadowTypeOK
  <2>4. CopyInRange'
    BY <1>1, <2>1, <2>2 DEF IInv, CopyInRange, InRange, Disjoint, Idle, NoOp
  <2>5. Cursor(op.src)' = s + 1 /\ Cursor(op.dst)' = d + 1
    BY <1>1, <2>2 DEF Cursor
  <2>6. WriterMapped'
    BY <1>3, <2>2, <2>5 DEF WriterMapped
  <2>7. CursorCoherent'
    <3>1. live => PageOf(s + 1) \in mapped'
      BY <1>1, <1>2, <1>3 DEF IInv, CursorCoherent
    <3>2. ASSUME ~live, NEW j \in 0 .. op.len - 1, j >= op.i + 1,
                 PageOf(op.src + j) = PageOf(s + 1)
          PROVE  LookupNext(op.src + j) = Null
      <4>1. op.src + j \in Addr
        BY <1>1 DEF Addr
      <4>2. op.src + j # d
        BY <1>1, <3>2 DEF IInv, CopyInRange, Disjoint
      <4>3. CASE PageOf(s + 1) = PageOf(s)
        <5>1. Pending(j)
          BY <1>1, <3>2 DEF Pending
        <5>2. Lookup(op.src + j) = Null
          BY <1>1, <1>2, <3>2, <4>3, <5>1 DEF IInv, CursorCoherent
        <5> QED BY <1>3, <1>4, <4>1, <4>2, <5>2
           DEF Lookup, LookupNext, Created
      <4>4. CASE PageOf(s + 1) # PageOf(s)
        BY <3>2, <4>4 DEF LookupNext
      <4> QED BY <4>3, <4>4
    <3>3. ASSUME NEW j \in 0 .. op.len - 1, Pending(j)'
          PROVE  j >= op.i + 1
      BY <1>1, <2>2, <3>3 DEF Pending
    <3> QED BY <2>2, <2>5, <3>1, <3>2, <3>3
           DEF CursorCoherent, Lookup, LookupNext
  <2> QED BY <2>3, <2>4, <2>6, <2>7 DEF IInv
<1> QED BY <1>6, <1>7

\* The element a backward copy handles next, after its two decrements.
LastSrc == op.src + op.len - op.i - 1
LastDst == op.dst + op.len - op.i - 1
LastLive == IF PageOf(LastSrc + 1) = PageOf(LastSrc) THEN op.live
            ELSE PageOf(LastSrc) \in mapped

\* The decremented pointer of a backward copy yields what a fresh lookup
\* would.
LEMMA DerefBackward ==
  ASSUME IInv, op.i < op.len, op.back
  PROVE  /\ LastSrc \in Addr /\ LastSrc + 1 \in Addr
         /\ LastDst \in Addr /\ LastDst + 1 \in Addr
         /\ PageOf(LastDst + 1) \in mapped
         /\ Cursor(op.src) = LastSrc + 1
         /\ Cursor(op.dst) = LastDst + 1
         /\ LastLive \in BOOLEAN
         /\ LastLive => PageOf(LastSrc) \in mapped
         /\ Deref(LastLive, LastSrc) = Lookup(LastSrc)
<1>1. /\ op.i \in Nat /\ op.len \in Nat /\ op.src \in Nat /\ op.dst \in Nat
      /\ op.src + op.len <= MaxAddr /\ op.dst + op.len <= MaxAddr
  BY SizesAssumption DEF IInv, ShadowTypeOK, CopyInRange, InRange, Addr
<1>2. /\ LastSrc \in Addr /\ LastSrc + 1 \in Addr
      /\ LastDst \in Addr /\ LastDst + 1 \in Addr
      /\ Cursor(op.src) = LastSrc + 1
      /\ Cursor(op.dst) = LastDst + 1
  BY <1>1, SizesAssumption DEF LastSrc, LastDst, Cursor, Addr
<1>3. PageOf(LastDst + 1) \in mapped
  BY <1>1, <1>2 DEF IInv, WriterMapped
<1>4. LastLive \in BOOLEAN
  <2>1. CASE PageOf(LastSrc + 1) = PageOf(LastSrc)
    BY <2>1 DEF IInv, ShadowTypeOK, LastLive
  <2>2. CASE PageOf(LastSrc + 1) # PageOf(LastSrc)
    <3>1. (PageOf(LastSrc) \in mapped) \in BOOLEAN
      OBVIOUS
    <3> QED BY <2>2, <3>1 DEF LastLive
  <2> QED BY <2>1, <2>2
<1>5. LET j == op.len - op.i - 1
      IN  j \in 0 .. op.len - 1 /\ Pending(j) /\ op.src + j = LastSrc
  BY <1>1 DEF Pending, LastSrc
<1>6. LastLive => PageOf(LastSrc) \in mapped
  BY <1>1, <1>2 DEF IInv, CursorCoherent, LastLive
<1>7. ~LastLive => Lookup(LastSrc) = Null
  <2>1. CASE PageOf(LastSrc + 1) = PageOf(LastSrc)
    BY <1>1, <1>2, <1>5, <2>1 DEF IInv, CursorCoherent, LastLive
  <2>2. CASE PageOf(LastSrc + 1) # PageOf(LastSrc)
    BY <2>2 DEF LastLive, Lookup
  <2> QED BY <2>1, <2>2
<1>8. Deref(LastLive, LastSrc) = Lookup(LastSrc)
  BY <1>6, <1>7 DEF Deref, Lookup
<1> QED BY <1>2, <1>3, <1>4, <1>6, <1>8

\* One element of std::copy_backward preserves the invariant.
LEMMA BackwardIInv ==
  ASSUME IInv, CopyBackward
  PROVE  IInv'
<1> DEFINE P == {PageOf(LastDst)}
<1>1. /\ op.i \in Nat /\ op.len \in Nat /\ op.src \in Nat /\ op.dst \in Nat
      /\ op.i < op.len /\ op.back /\ MaxAddr \in Nat
      /\ op.src + op.len <= MaxAddr /\ op.dst + op.len <= MaxAddr
  BY SizesAssumption DEF IInv, ShadowTypeOK, CopyInRange, InRange, Addr, CopyBackward
<1>2. /\ LastSrc \in Addr /\ LastDst \in Addr
      /\ Cursor(op.src) = LastSrc + 1 /\ Cursor(op.dst) = LastDst + 1
      /\ LastLive \in BOOLEAN
      /\ LastLive => PageOf(LastSrc) \in mapped
      /\ Deref(LastLive, LastSrc) = Lookup(LastSrc)
  BY <1>1, DerefBackward
<1>3. Cursor(op.src) - 1 = LastSrc /\ Cursor(op.dst) - 1 = LastDst
  BY <1>2 DEF Addr
<1>4. /\ shadow' = [Created(shadow, P) EXCEPT ![LastDst] = Lookup(LastSrc)]
      /\ mapped' = mapped \cup P
      /\ op' = IF op.i + 1 = op.len THEN NoOp
               ELSE [op EXCEPT !.i = op.i + 1, !.live = LastLive]
  BY <1>2, <1>3 DEF CopyBackward, Advance, LastLive
<1>5. shadow' = [x \in Addr |-> IF x = LastDst THEN Lookup(LastSrc)
                                ELSE Created(shadow, P)[x]]
  BY <1>2, <1>4 DEF Created
<1>6. /\ mapped' \subseteq Page
      /\ shadow' \in [Addr -> Cell \cup {Uninit}]
      /\ \A x \in Addr : PageOf(x) \in mapped' => shadow'[x] # Uninit
  <2>1. Lookup(LastSrc) \in Cell /\ Uninit \notin Cell /\ Null \in Cell
    BY <1>2, LookupType, ExprAssumption DEF IInv, Cell, Byte
  <2>2. mapped' \subseteq Page
    BY <1>2, <1>4 DEF IInv, ShadowTypeOK, Page
  <2>3. shadow' \in [Addr -> Cell \cup {Uninit}]
    <3>1. \A x \in Addr : Created(shadow, P)[x] \in Cell \cup {Uninit}
      BY <2>1 DEF IInv, ShadowTypeOK, Created
    <3> QED BY <1>5, <2>1, <3>1
  <2>4. \A x \in Addr : PageOf(x) \in mapped' => shadow'[x] # Uninit
    BY <1>4, <1>5, <2>1 DEF IInv, ShadowTypeOK, Created
  <2> QED BY <2>2, <2>3, <2>4
<1>7. CASE op.i + 1 = op.len
  <2>1. op' = NoOp
    BY <1>4, <1>7
  <2>2. ShadowTypeOK'
    BY <1>1, <1>6, <2>1 DEF ShadowTypeOK, NoOp, Addr
  <2> QED BY <2>1, <2>2, IdleIInv
<1>8. CASE op.i + 1 # op.len
  <2>1. op' = [op EXCEPT !.i = op.i + 1, !.live = LastLive]
    BY <1>4, <1>8
  <2>2. /\ op'.i = op.i + 1 /\ op'.len = op.len /\ op'.src = op.src
        /\ op'.dst = op.dst /\ op'.back = op.back /\ op'.live = LastLive
        /\ op.i + 1 < op.len
    <3>1. op' = [dst |-> op.dst, src |-> op.src, len |-> op.len,
                 i |-> op.i + 1, back |-> op.back, live |-> LastLive]
      BY <2>1 DEF IInv, ShadowTypeOK
    <3>2. op.i + 1 < op.len
      BY <1>1, <1>8
    <3> QED BY <3>1, <3>2, Zenon
  <2>3. ShadowTypeOK'
    <3>1. op' = [dst |-> op.dst, src |-> op.src, len |-> op.len,
                 i |-> op.i + 1, back |-> op.back, live |-> LastLive]
      BY <2>1 DEF IInv, ShadowTypeOK
    <3>2. op.back \in BOOLEAN /\ op.dst \in Addr /\ op.src \in Addr
      BY DEF IInv, ShadowTypeOK
    <3>3. op.i + 1 \in Nat
      BY <1>1
    <3>4. op' \in [dst : Addr, src : Addr, len : Nat, i : Nat,
                   back : BOOLEAN, live : BOOLEAN]
      BY <1>1, <1>2, <3>1, <3>2, <3>3
    <3> QED BY <1>6, <3>4 DEF ShadowTypeOK
  <2>4. CopyInRange'
    BY <1>1, <2>1, <2>2 DEF IInv, CopyInRange, InRange, Disjoint, Idle, NoOp
  <2>5. Cursor(op.src)' = LastSrc /\ Cursor(op.dst)' = LastDst
    BY <1>1, <2>2 DEF Cursor, LastSrc, LastDst
  <2>6. WriterMapped'
    BY <1>4, <2>2, <2>5 DEF WriterMapped
  <2>7. CursorCoherent'
    <3>1. LastLive => PageOf(LastSrc) \in mapped'
      BY <1>2, <1>4
    <3>2. ASSUME ~LastLive, NEW j \in 0 .. op.len - 1, j < op.len - op.i - 1,
                 PageOf(op.src + j) = PageOf(LastSrc)
          PROVE  LookupNext(op.src + j) = Null
      <4>1. op.src + j \in Addr /\ op.src + j # LastDst
        BY <1>1, <3>2 DEF IInv, CopyInRange, Disjoint, Addr, LastDst
      <4>2. Lookup(op.src + j) = Null
        <5>1. CASE PageOf(LastSrc + 1) = PageOf(LastSrc)
          <6>1. Pending(j)
            BY <1>1, <3>2 DEF Pending
          <6> QED BY <1>1, <1>2, <3>2, <5>1, <6>1
                  DEF IInv, CursorCoherent, LastLive
        <5>2. CASE PageOf(LastSrc + 1) # PageOf(LastSrc)
          BY <3>2, <5>2 DEF LastLive, Lookup
        <5> QED BY <5>1, <5>2
      <4> QED BY <1>4, <1>5, <4>1, <4>2 DEF Lookup, LookupNext, Created
    <3>3. ASSUME NEW j \in 0 .. op.len - 1, Pending(j)'
          PROVE  j < op.len - op.i - 1
      BY <1>1, <2>2, <3>3 DEF Pending
    <3> QED BY <2>2, <2>5, <3>1, <3>2, <3>3
           DEF CursorCoherent, Lookup, LookupNext
  <2> QED BY <2>3, <2>4, <2>6, <2>7 DEF IInv
<1> QED BY <1>7, <1>8

\* The invariant holds throughout: types, ranges and direction of a copy,
\* and iterators that are never misled by a page created behind their back.
THEOREM Invariance == Spec => []IInv
<1>1. Init => IInv
  BY InitIInv
<1>2. IInv /\ [Next]_vars => IInv'
  <2> SUFFICES ASSUME IInv, [Next]_vars
               PROVE  IInv'
    OBVIOUS
  <2>1. ASSUME NEW a \in Addr, NEW n \in StoreLen, NEW le \in BOOLEAN,
               ReadMemory(a, n, le)
        PROVE  IInv'
    BY <2>1, IdleIInv DEF ReadMemory, Idle, IInv, ShadowTypeOK
  <2>2. ASSUME NEW a \in Addr, NEW n \in StoreLen, NEW e \in Sym \cup {Null},
               NEW le \in BOOLEAN, WriteMemory(a, n, e, le)
        PROVE  IInv'
    BY <2>2, WriteIInv
  <2>3. ASSUME NEW a \in Addr, NEW n \in FillLen,
               NEW v \in (Sym \X {0}) \cup Wide \cup {Null}, Memset(a, n, v)
        PROVE  IInv'
    BY <2>3, MemsetIInv
  <2>4. ASSUME NEW d \in Addr, NEW s \in Addr, NEW n \in CopyLen, Memcpy(d, s, n)
        PROVE  IInv'
    <3>1. Disjoint(d, s, n) \/ d <= s
      BY <2>4, SizesAssumption DEF Memcpy, Addr
    <3> QED BY <2>4, <3>1, StartCopyIInv DEF Memcpy
  <2>5. ASSUME NEW d \in Addr, NEW s \in Addr, NEW n \in CopyLen, Memmove(d, s, n)
        PROVE  IInv'
    <3>1. CASE d > s
      <4>1. StartCopy(d, s, n, TRUE)
        BY <2>5, <3>1 DEF Memmove
      <4> QED BY <3>1, <4>1, StartCopyIInv
    <3>2. CASE d <= s
      <4>1. StartCopy(d, s, n, FALSE)
        <5>1. ~(d > s)
          BY <3>2, SizesAssumption DEF Addr
        <5> QED BY <2>5, <5>1 DEF Memmove
      <4> QED BY <3>2, <4>1, StartCopyIInv
    <3> QED BY <3>1, <3>2, SizesAssumption DEF Addr
  <2>6. CASE CopyForward
    BY <2>6, ForwardIInv
  <2>7. CASE CopyBackward
    BY <2>7, BackwardIInv
  <2>8. CASE UNCHANGED vars
    BY <2>8 DEF vars, IInv, ShadowTypeOK, CopyInRange, CursorCoherent, WriterMapped,
                Idle, Cursor, Pending, Lookup
  <2> QED BY <2>1, <2>2, <2>3, <2>4, <2>5, <2>6, <2>7, <2>8 DEF Next
<1> QED BY <1>1, <1>2, PTL DEF Spec

-----------------------------------------------------------------------------
(* The refinement of FlatShadow *)

\* While no copy runs, the flat view is what a lookup yields.
LEMMA IdleFlat ==
  ASSUME Idle
  PROVE  FlatView = [a \in Addr |-> Lookup(a)]
BY DEF Idle, NoOp, FlatView, FlatByte, Pending

\* The same in the next state.
LEMMA IdleFlatNext ==
  ASSUME op' = NoOp
  PROVE  FlatView' = [a \in Addr |-> LookupNext(a)]
BY DEF NoOp, FlatView, FlatByte, Pending, Lookup, LookupNext

\* A load returns the flat array's bytes.
LEMMA ReadRefines ==
  ASSUME IInv, NEW a \in Addr, NEW n \in StoreLen, NEW le \in BOOLEAN,
         ReadMemory(a, n, le)
  PROVE  Flat!Load(a, n, le)
<1>1. n \in Nat /\ n > 0 /\ a \in Nat /\ MaxAddr \in Nat /\ a + n <= MaxAddr
  BY SizesAssumption DEF ReadMemory, InRange, Addr
<1>2. FlatView = [x \in Addr |-> Lookup(x)]
  BY IdleFlat DEF ReadMemory
<1>3. FlatView' = FlatView
  BY DEF ReadMemory, FlatView, FlatByte, Pending, Lookup
<1>4. \A x \in Bytes(a, n) : x \in Addr /\ FlatView[x] = Lookup(x)
  BY <1>1, <1>2 DEF Bytes, Addr
<1>5. IsConcrete(a, n) <=> \A x \in a .. a + n - 1 : FlatView[x] = Null
  BY <1>1, <1>4, IsConcreteExact DEF Bytes
<1>6. CASE IsConcrete(a, n)
  <2>1. OutView' = <<>>
    BY <1>6 DEF ReadMemory, OutView
  <2> QED BY <1>1, <1>3, <1>5, <1>6, <2>1 DEF Flat!Load, Flat!InRange, Flat!Addr
<1>7. CASE ~IsConcrete(a, n)
  <2> DEFINE byte(p) == NonNull(IF le THEN a + n - p ELSE a + p - 1)
  <2>1. out' = [p \in 1 .. n |-> byte(p)]
    BY <1>7 DEF ReadMemory
  <2> HIDE DEF byte
  <2>2. Len(out') = n /\ out' # <<>>
    BY <1>1, <2>1
  <2>3. OutView' = [k \in 0 .. n - 1 |-> byte(n - k)]
    <3>1. OutView' = [k \in 0 .. n - 1 |-> out'[n - k]]
      BY <2>2 DEF OutView
    <3>2. \A k \in 0 .. n - 1 : out'[n - k] = byte(n - k)
      BY <1>1, <2>1
    <3> QED BY <3>1, <3>2
  <2>4. ASSUME NEW k \in 0 .. n - 1
        PROVE  byte(n - k) = LET x == Flat!Place(a, n, le, k)
                             IN  IF FlatView[x] = Null THEN Flat!Const(x)
                                 ELSE FlatView[x]
    <3>1. Flat!Place(a, n, le, k) =
            (IF le THEN a + n - (n - k) ELSE a + (n - k) - 1)
      BY <1>1 DEF Flat!Place
    <3>2. Flat!Place(a, n, le, k) \in Bytes(a, n)
      BY <1>1 DEF Flat!Place, Bytes
    <3> QED BY <1>4, <3>1, <3>2 DEF byte, NonNull, Const, Flat!Const
  <2>5. OutView' = [k \in 0 .. n - 1 |->
                      LET x == Flat!Place(a, n, le, k)
                      IN  IF FlatView[x] = Null THEN Flat!Const(x)
                          ELSE FlatView[x]]
    BY <2>3, <2>4
  <2> QED BY <1>1, <1>3, <1>5, <1>7, <2>5 DEF Flat!Load, Flat!InRange, Flat!Addr
<1> QED BY <1>6, <1>7

\* A single-step writer changes the bytes of its range and nothing else, for
\* all the pages it creates.
LEMMA OverwriteFlat ==
  ASSUME IInv, Idle, op' = op, NEW a \in Addr, NEW n \in Nat, InRange(a, n),
         NEW val, Overwrite(a, n, val)
  PROVE  FlatView' = [x \in Addr |-> IF x \in Bytes(a, n) THEN val[x]
                                     ELSE FlatView[x]]
<1>1. FlatView = [x \in Addr |-> Lookup(x)]
  BY IdleFlat
<1>2. FlatView' = [x \in Addr |-> LookupNext(x)]
  BY IdleFlatNext DEF Idle
<1>3. ASSUME NEW x \in Addr
      PROVE  LookupNext(x) = IF x \in Bytes(a, n) THEN val[x] ELSE Lookup(x)
  <2>1. x \in Bytes(a, n) => PageOf(x) \in mapped'
    BY SizesAssumption DEF Overwrite, Touched, Bytes, Addr
  <2> QED BY <2>1 DEF Overwrite, LookupNext, Lookup, Created
<1> QED BY <1>1, <1>2, <1>3

\* A writer that returns early had only concrete bytes to make concrete.
LEMMA SkipFlat ==
  ASSUME IInv, Idle, UNCHANGED <<mapped, shadow, op>>, NEW a \in Addr,
         NEW n \in Nat, InRange(a, n), IsConcrete(a, n)
  PROVE  /\ FlatView' = FlatView
         /\ \A x \in Bytes(a, n) : x \in Addr /\ FlatView[x] = Null
<1>1. FlatView' = FlatView
  BY DEF FlatView, FlatByte, Pending, Lookup
<1>2. \A x \in Bytes(a, n) : x \in Addr
  BY SizesAssumption DEF Bytes, Addr, InRange
<1>3. FlatView = [x \in Addr |-> Lookup(x)]
  BY IdleFlat
<1>4. \A x \in Bytes(a, n) : Lookup(x) = Null
  <2>1. a \in Nat
    BY SizesAssumption DEF Addr
  <2> QED BY <2>1, IsConcreteExact
<1> QED BY <1>1, <1>2, <1>3, <1>4

\* A store is a store of the flat shadow.
LEMMA WriteRefines ==
  ASSUME IInv, NEW a \in Addr, NEW n \in StoreLen, NEW e \in Sym \cup {Null},
         NEW le \in BOOLEAN, WriteMemory(a, n, e, le)
  PROVE  Flat!Store(a, n, e, le)
<1> DEFINE val == [x \in Bytes(a, n) |->
                     IF e = Null THEN Null
                     ELSE ByteOf(e, IF le THEN x - a ELSE n - (x - a) - 1)]
<1>1. /\ Idle /\ op' = op /\ InRange(a, n) /\ OutView' = <<>>
      /\ n \in Nat /\ a \in Nat /\ MaxAddr \in Nat
  BY SizesAssumption DEF WriteMemory, OutView, Addr
<1>2. CASE e = Null /\ IsConcrete(a, n)
  <2>1. /\ FlatView' = FlatView
        /\ \A x \in Bytes(a, n) : x \in Addr /\ FlatView[x] = Null
    BY <1>1, <1>2, SkipFlat DEF WriteMemory
  <2>2. FlatView' = [x \in Addr |-> FlatView[x]]
    BY <2>1 DEF FlatView
  <2> QED BY <1>1, <1>2, <2>1, <2>2
          DEF Flat!Store, Flat!InRange, Flat!Addr, InRange, Addr, Bytes
<1>3. CASE ~(e = Null /\ IsConcrete(a, n))
  <2>1. Overwrite(a, n, val)
    BY <1>3 DEF WriteMemory
  <2>2. FlatView' = [x \in Addr |-> IF x \in Bytes(a, n) THEN val[x]
                                    ELSE FlatView[x]]
    BY <1>1, <2>1, OverwriteFlat
  <2>3. ASSUME NEW x \in Bytes(a, n)
        PROVE  val[x] = IF e = Null THEN Null
                        ELSE Flat!ByteOf(e, IF le THEN x - a ELSE a + n - 1 - x)
    <3>1. n - (x - a) - 1 = a + n - 1 - x
      BY <1>1 DEF Bytes
    <3> QED BY <3>1 DEF ByteOf, Flat!ByteOf
  <2> QED BY <1>1, <2>2, <2>3
          DEF Flat!Store, Flat!InRange, Flat!Addr, InRange, Addr, Bytes
<1> QED BY <1>2, <1>3

\* A memset is a fill of the flat shadow.
LEMMA MemsetRefines ==
  ASSUME IInv, NEW a \in Addr, NEW n \in FillLen,
         NEW v \in (Sym \X {0}) \cup Wide \cup {Null}, Memset(a, n, v)
  PROVE  Flat!Fill(a, n, v)
<1>1. /\ Idle /\ op' = op /\ InRange(a, n) /\ OutView' = <<>>
      /\ n \in Nat /\ a \in Nat /\ MaxAddr \in Nat
  BY SizesAssumption DEF Memset, OutView, Addr
<1>2. CASE v = Null /\ IsConcrete(a, n)
  <2>1. /\ FlatView' = FlatView
        /\ \A x \in Bytes(a, n) : x \in Addr /\ FlatView[x] = Null
    BY <1>1, <1>2, SkipFlat DEF Memset
  <2>2. FlatView' = [x \in Addr |-> FlatView[x]]
    BY <2>1 DEF FlatView
  <2> QED BY <1>1, <1>2, <2>1, <2>2
          DEF Flat!Fill, Flat!InRange, Flat!Addr, InRange, Addr, Bytes
<1>3. CASE ~(v = Null /\ IsConcrete(a, n))
  <2>1. Overwrite(a, n, [x \in Bytes(a, n) |-> v])
    BY <1>3 DEF Memset
  <2>2. FlatView' = [x \in Addr |-> IF x \in Bytes(a, n) THEN v
                                    ELSE FlatView[x]]
    BY <1>1, <2>1, OverwriteFlat
  <2> QED BY <1>1, <2>2
          DEF Flat!Fill, Flat!InRange, Flat!Addr, InRange, Addr, Bytes
<1> QED BY <1>2, <1>3

\* Starting a copy already changes the flat array to its result: creating
\* the first destination page changes no lookup.
LEMMA StartCopyRefines ==
  ASSUME IInv, NEW d \in Addr, NEW s \in Addr, NEW n \in CopyLen,
         NEW back \in BOOLEAN, StartCopy(d, s, n, back)
  PROVE  Flat!Copy(d, s, n)
<1>1. /\ Idle /\ InRange(d, n) /\ InRange(s, n) /\ OutView' = <<>>
      /\ n \in Nat /\ d \in Nat /\ s \in Nat /\ MaxAddr \in Nat
      /\ d + n <= MaxAddr /\ s + n <= MaxAddr
  BY SizesAssumption DEF StartCopy, OutView, Addr, InRange
<1>2. FlatView = [x \in Addr |-> Lookup(x)]
  BY <1>1, IdleFlat
<1>3. ASSUME NEW x \in Addr, x \in d .. d + n - 1
      PROVE  s + (x - d) \in Bytes(s, n) /\ s + (x - d) \in Addr
  BY <1>1, <1>3 DEF Bytes, Addr
<1>4. CASE IsConcrete(s, n) /\ IsConcrete(d, n)
  <2>1. UNCHANGED <<mapped, shadow, op>>
    BY <1>4 DEF StartCopy
  <2>2. /\ FlatView' = FlatView
        /\ \A x \in Bytes(s, n) : FlatView[x] = Null
        /\ \A x \in Bytes(d, n) : FlatView[x] = Null
    BY <1>1, <1>4, <2>1, SkipFlat
  <2>3. FlatView' = [x \in Addr |-> FlatView[x]]
    BY <1>2, <2>2
  <2>4. FlatView' = [x \in Addr |-> IF x \in d .. d + n - 1
                                    THEN FlatView[s + (x - d)] ELSE FlatView[x]]
    BY <1>3, <2>2, <2>3 DEF Bytes
  <2> QED BY <1>1, <2>4 DEF Flat!Copy, Flat!InRange, Flat!Addr, InRange, Addr
<1>5. CASE ~(IsConcrete(s, n) /\ IsConcrete(d, n))
  <2> DEFINE page == PageOf(IF back THEN d + n ELSE d)
  <2>1. /\ mapped' = mapped \cup {page}
        /\ shadow' = Created(shadow, {page})
        /\ op'.dst = d /\ op'.src = s /\ op'.len = n /\ op'.i = 0
        /\ op'.back = back
    BY <1>5 DEF StartCopy
  <2>2. \A x \in Addr : LookupNext(x) = Lookup(x)
    BY <2>1 DEF LookupNext, Lookup, Created
  <2>3. FlatView' = [x \in Addr |-> IF x \in d .. d + n - 1
                                    THEN LookupNext(s + (x - d))
                                    ELSE LookupNext(x)]
    BY <1>1, <2>1 DEF FlatView, FlatByte, Pending, Lookup, LookupNext, Addr
  <2>4. FlatView' = [x \in Addr |-> IF x \in d .. d + n - 1
                                    THEN FlatView[s + (x - d)] ELSE FlatView[x]]
    BY <1>2, <1>3, <2>2, <2>3
  <2> QED BY <1>1, <2>4 DEF Flat!Copy, Flat!InRange, Flat!Addr, InRange, Addr
<1> QED BY <1>4, <1>5

\* The effect of copying one element from s to d on lookups.
LEMMA ElementLookup ==
  ASSUME NEW P, NEW s \in Addr, NEW d \in Addr, PageOf(d) \in mapped \cup P,
         shadow' = [Created(shadow, P) EXCEPT ![d] = Lookup(s)],
         mapped' = mapped \cup P
  PROVE  \A x \in Addr : LookupNext(x) = IF x = d THEN Lookup(s) ELSE Lookup(x)
<1>1. shadow' = [x \in Addr |-> IF x = d THEN Lookup(s)
                                ELSE Created(shadow, P)[x]]
  BY DEF Created
<1>2. ASSUME NEW x \in Addr
      PROVE  LookupNext(x) = IF x = d THEN Lookup(s) ELSE Lookup(x)
  BY <1>1 DEF LookupNext, Lookup, Created
<1> QED BY <1>2

\* One element of a forward copy leaves the flat view alone.
LEMMA ForwardRefines ==
  ASSUME IInv, CopyForward
  PROVE  FlatView' = FlatView
<1> DEFINE s == op.src + op.i
           d == op.dst + op.i
           P == {PageOf(d), PageOf(d + 1)}
<1>1. /\ op.i \in Nat /\ op.len \in Nat /\ op.src \in Nat /\ op.dst \in Nat
      /\ op.i < op.len /\ ~op.back /\ MaxAddr \in Nat
      /\ op.src + op.len <= MaxAddr /\ op.dst + op.len <= MaxAddr
  BY SizesAssumption DEF IInv, ShadowTypeOK, CopyInRange, InRange, Addr, CopyForward
<1>2. /\ s \in Addr /\ d \in Addr
      /\ Cursor(op.src) = s /\ Cursor(op.dst) = d
      /\ Deref(op.live, s) = Lookup(s)
  BY <1>1, DerefForward
<1>3. /\ shadow' = [Created(shadow, P) EXCEPT ![d] = Lookup(s)]
      /\ mapped' = mapped \cup P
      /\ IF op.i + 1 = op.len THEN op' = NoOp
         ELSE /\ op'.i = op.i + 1 /\ op'.len = op.len /\ op'.src = op.src
              /\ op'.dst = op.dst /\ op'.back = op.back
  BY <1>2 DEF CopyForward, Advance, IInv, ShadowTypeOK
<1>4. \A x \in Addr : LookupNext(x) = IF x = d THEN Lookup(s) ELSE Lookup(x)
  BY <1>2, <1>3, ElementLookup
<1>5. FlatView = [x \in Addr |-> IF x >= d /\ x < op.dst + op.len
                                 THEN Lookup(op.src + (x - op.dst))
                                 ELSE Lookup(x)]
  BY <1>1 DEF FlatView, FlatByte, Pending, Addr
<1>6. FlatView' = [x \in Addr |-> IF x >= d + 1 /\ x < op.dst + op.len
                                  THEN LookupNext(op.src + (x - op.dst))
                                  ELSE LookupNext(x)]
  <2>1. CASE op.i + 1 = op.len
    <3>1. FlatView' = [x \in Addr |-> LookupNext(x)]
      BY <1>3, <2>1, IdleFlatNext
    <3>2. ASSUME NEW x \in Addr
          PROVE  ~(x >= d + 1 /\ x < op.dst + op.len)
      BY <1>1, <2>1 DEF Addr
    <3> QED BY <3>1, <3>2
  <2>2. CASE op.i + 1 # op.len
    <3>1. /\ op'.i = op.i + 1 /\ op'.len = op.len /\ op'.src = op.src
          /\ op'.dst = op.dst /\ ~op'.back
      BY <1>1, <1>3, <2>2
    <3>2. ASSUME NEW x \in Addr
          PROVE  Pending(x - op.dst)' <=> x >= d + 1 /\ x < op.dst + op.len
      BY <1>1, <3>1 DEF Pending, Addr
    <3> QED BY <3>1, <3>2 DEF FlatView, FlatByte, Lookup, LookupNext
  <2> QED BY <2>1, <2>2
<1>7. ASSUME NEW x \in Addr, x >= d + 1, x < op.dst + op.len
      PROVE  LookupNext(op.src + (x - op.dst)) = Lookup(op.src + (x - op.dst))
  <2>1. op.src + (x - op.dst) \in Addr /\ op.src + (x - op.dst) # d
    BY <1>1, <1>7 DEF IInv, CopyInRange, Disjoint, Addr
  <2> QED BY <1>4, <2>1
<1>8. op.src + (d - op.dst) = s
  BY <1>1
<1>9. ASSUME NEW x \in Addr
      PROVE  FlatView'[x] = FlatView[x]
  <2> x \in Nat /\ d \in Nat
    BY <1>1 DEF Addr
  <2>1. CASE x = d
    <3>1. FlatView[x] = Lookup(s)
      BY <1>1, <1>5, <1>8, <2>1
    <3>2. FlatView'[x] = LookupNext(x)
      BY <1>6, <2>1
    <3> QED BY <1>4, <2>1, <3>1, <3>2
  <2>2. CASE x >= d + 1 /\ x < op.dst + op.len
    <3>1. FlatView[x] = Lookup(op.src + (x - op.dst))
      <4>1. x >= d
        BY <2>2
      <4> QED BY <1>5, <2>2, <4>1
    <3>2. FlatView'[x] = LookupNext(op.src + (x - op.dst))
      BY <1>6, <2>2
    <3> QED BY <1>7, <2>2, <3>1, <3>2
  <2>3. CASE x < d \/ x >= op.dst + op.len
    <3>1. ~(x >= d /\ x < op.dst + op.len) /\ ~(x >= d + 1 /\ x < op.dst + op.len)
      BY <1>1, <2>3
    <3>2. FlatView[x] = Lookup(x) /\ FlatView'[x] = LookupNext(x)
      BY <1>5, <1>6, <3>1
    <3>3. x # d
      BY <1>1, <2>3
    <3> QED BY <1>4, <3>2, <3>3
  <2> QED BY <1>1, <2>1, <2>2, <2>3
<1> QED BY <1>5, <1>6, <1>9

\* One element of a backward copy leaves the flat view alone.
LEMMA BackwardRefines ==
  ASSUME IInv, CopyBackward
  PROVE  FlatView' = FlatView
<1> DEFINE P == {PageOf(LastDst)}
<1>1. /\ op.i \in Nat /\ op.len \in Nat /\ op.src \in Nat /\ op.dst \in Nat
      /\ op.i < op.len /\ op.back /\ MaxAddr \in Nat
      /\ op.src + op.len <= MaxAddr /\ op.dst + op.len <= MaxAddr
  BY SizesAssumption DEF IInv, ShadowTypeOK, CopyInRange, InRange, Addr, CopyBackward
<1>2. /\ LastSrc \in Addr /\ LastDst \in Addr
      /\ Cursor(op.src) = LastSrc + 1 /\ Cursor(op.dst) = LastDst + 1
      /\ Deref(LastLive, LastSrc) = Lookup(LastSrc)
  BY <1>1, DerefBackward
<1>3. Cursor(op.src) - 1 = LastSrc /\ Cursor(op.dst) - 1 = LastDst
  BY <1>2, SizesAssumption DEF Addr
<1>4. /\ shadow' = [Created(shadow, P) EXCEPT ![LastDst] = Lookup(LastSrc)]
      /\ mapped' = mapped \cup P
      /\ IF op.i + 1 = op.len THEN op' = NoOp
         ELSE /\ op'.i = op.i + 1 /\ op'.len = op.len /\ op'.src = op.src
              /\ op'.dst = op.dst /\ op'.back = op.back
  BY <1>2, <1>3 DEF CopyBackward, Advance, LastLive, IInv, ShadowTypeOK
<1>5. \A x \in Addr :
        LookupNext(x) = IF x = LastDst THEN Lookup(LastSrc) ELSE Lookup(x)
  BY <1>2, <1>4, ElementLookup
<1>6. LastDst \in Int /\ LastDst = op.dst + op.len - op.i - 1
  BY <1>1 DEF LastDst
<1>7. FlatView = [x \in Addr |-> IF x >= op.dst /\ x <= LastDst
                                 THEN Lookup(op.src + (x - op.dst))
                                 ELSE Lookup(x)]
  BY <1>1, <1>6 DEF FlatView, FlatByte, Pending, Addr
<1>8. FlatView' = [x \in Addr |-> IF x >= op.dst /\ x < LastDst
                                  THEN LookupNext(op.src + (x - op.dst))
                                  ELSE LookupNext(x)]
  <2>1. CASE op.i + 1 = op.len
    <3>1. LastDst = op.dst
      BY <1>1, <1>6, <2>1
    <3>2. FlatView' = [x \in Addr |-> LookupNext(x)]
      BY <1>4, <2>1, IdleFlatNext
    <3>3. \A x \in Addr : ~(x >= op.dst /\ x < LastDst)
      BY <1>1, <3>1 DEF Addr
    <3> QED BY <3>2, <3>3
  <2>2. CASE op.i + 1 # op.len
    <3>1. /\ op'.i = op.i + 1 /\ op'.len = op.len /\ op'.src = op.src
          /\ op'.dst = op.dst /\ op'.back
      BY <1>1, <1>4, <2>2
    <3>2. ASSUME NEW x \in Addr
          PROVE  Pending(x - op.dst)' <=> x >= op.dst /\ x < LastDst
      BY <1>1, <1>6, <3>1 DEF Pending, Addr
    <3> QED BY <3>1, <3>2 DEF FlatView, FlatByte, Lookup, LookupNext
  <2> QED BY <2>1, <2>2
<1>9. ASSUME NEW x \in Addr, x >= op.dst, x < LastDst
      PROVE  LookupNext(op.src + (x - op.dst)) = Lookup(op.src + (x - op.dst))
  <2>1. op.src + (x - op.dst) \in Addr /\ op.src + (x - op.dst) # LastDst
    BY <1>1, <1>6, <1>9 DEF IInv, CopyInRange, Disjoint, Addr
  <2> QED BY <1>5, <2>1
<1>10. op.src + (LastDst - op.dst) = LastSrc /\ op.dst <= LastDst
  BY <1>1 DEF LastDst, LastSrc
<1>11. ASSUME NEW x \in Addr
       PROVE  FlatView'[x] = FlatView[x]
  <2> x \in Nat /\ LastDst \in Int /\ op.dst \in Nat
    BY <1>1, <1>6 DEF Addr
  <2>1. CASE x = LastDst
    <3>1. x >= op.dst /\ x <= LastDst /\ ~(x < LastDst)
      BY <1>10, <2>1
    <3>2. FlatView[x] = Lookup(LastSrc) /\ FlatView'[x] = LookupNext(x)
      BY <1>7, <1>8, <1>10, <2>1, <3>1
    <3> QED BY <1>5, <2>1, <3>2
  <2>2. CASE x >= op.dst /\ x < LastDst
    <3>1. FlatView'[x] = LookupNext(op.src + (x - op.dst))
      BY <1>8, <2>2
    <3>2. x <= LastDst
      BY <2>2
    <3>3. FlatView[x] = Lookup(op.src + (x - op.dst))
      BY <1>7, <2>2, <3>2
    <3> QED BY <1>9, <2>2, <3>1, <3>3
  <2>3. CASE x < op.dst \/ x > LastDst
    <3>1. /\ ~(x >= op.dst /\ x <= LastDst) /\ ~(x >= op.dst /\ x < LastDst)
          /\ x # LastDst
      BY <1>10, <2>3
    <3>2. FlatView[x] = Lookup(x) /\ FlatView'[x] = LookupNext(x)
      BY <1>7, <1>8, <3>1
    <3> QED BY <1>5, <3>1, <3>2
  <2> QED BY <2>1, <2>2, <2>3
<1> QED BY <1>7, <1>8, <1>11

\* The paged shadow memory implements the flat one: stores, memsets and whole
\* copies take effect at once, and every element of a copy is a stutter.
THEOREM RefinesFlat == Spec => Refinement
<1>1. Init => Flat!Init
  <2> SUFFICES ASSUME Init PROVE Flat!Init
    OBVIOUS
  <2>1. FlatView = [a \in Addr |-> Lookup(a)]
    BY IdleFlat DEF Init, Idle
  <2> QED BY <2>1 DEF Init, Flat!Init, Flat!Addr, Addr, OutView, Lookup
<1>2. IInv /\ [Next]_vars => [Flat!Next]_(Flat!fvars)
  <2> SUFFICES ASSUME IInv, [Next]_vars
               PROVE  Flat!Next \/ UNCHANGED Flat!fvars
    OBVIOUS
  <2>1. ASSUME NEW a \in Addr, NEW n \in StoreLen, NEW le \in BOOLEAN,
               ReadMemory(a, n, le)
        PROVE  Flat!Next
    BY <2>1, ReadRefines DEF Flat!Next, Flat!Addr, Addr
  <2>2. ASSUME NEW a \in Addr, NEW n \in StoreLen, NEW e \in Sym \cup {Null},
               NEW le \in BOOLEAN, WriteMemory(a, n, e, le)
        PROVE  Flat!Next
    BY <2>2, WriteRefines DEF Flat!Next, Flat!Addr, Addr
  <2>3. ASSUME NEW a \in Addr, NEW n \in FillLen,
               NEW v \in (Sym \X {0}) \cup Wide \cup {Null}, Memset(a, n, v)
        PROVE  Flat!Next
    BY <2>3, MemsetRefines DEF Flat!Next, Flat!Addr, Addr
  <2>4. ASSUME NEW d \in Addr, NEW s \in Addr, NEW n \in CopyLen,
               Memcpy(d, s, n) \/ Memmove(d, s, n)
        PROVE  Flat!Next
    <3>1. PICK back \in BOOLEAN : StartCopy(d, s, n, back)
      BY <2>4 DEF Memcpy, Memmove
    <3> QED BY <3>1, StartCopyRefines DEF Flat!Next, Flat!Addr, Addr
  <2>5. CASE CopyForward
    BY <2>5, ForwardRefines DEF Flat!fvars, CopyForward, OutView
  <2>6. CASE CopyBackward
    BY <2>6, BackwardRefines DEF Flat!fvars, CopyBackward, OutView
  <2>7. CASE UNCHANGED vars
    BY <2>7 DEF vars, Flat!fvars, FlatView, FlatByte, Pending, Lookup, OutView
  <2> QED BY <2>1, <2>2, <2>3, <2>4, <2>5, <2>6, <2>7 DEF Next
<1> QED BY <1>1, <1>2, Invariance, PTL DEF Spec, Refinement, Flat!Spec

\* Not only is there some flat step for every step: each call is the same call
\* of the flat shadow, with the same arguments, also where it returns early.
THEOREM EveryCallExact == Spec => CallsExact
<1>1. IInv /\ [Next]_vars => [CallExact]_vars
  <2> SUFFICES ASSUME IInv PROVE CallExact
    OBVIOUS
  <2>1. ASSUME NEW a \in Addr, NEW n \in StoreLen, NEW le \in BOOLEAN,
               ReadMemory(a, n, le)
        PROVE  Flat!Load(a, n, le)
    BY <2>1, ReadRefines
  <2>2. ASSUME NEW a \in Addr, NEW n \in StoreLen, NEW le \in BOOLEAN,
               NEW e \in Sym \cup {Null}, WriteMemory(a, n, e, le)
        PROVE  Flat!Store(a, n, e, le)
    BY <2>2, WriteRefines
  <2>3. ASSUME NEW a \in Addr, NEW n \in FillLen,
               NEW v \in (Sym \X {0}) \cup Wide \cup {Null}, Memset(a, n, v)
        PROVE  Flat!Fill(a, n, v)
    BY <2>3, MemsetRefines
  <2>4. ASSUME NEW d \in Addr, NEW s \in Addr, NEW n \in CopyLen,
               Memcpy(d, s, n) \/ Memmove(d, s, n)
        PROVE  Flat!Copy(d, s, n)
    <3>1. PICK back \in BOOLEAN : StartCopy(d, s, n, back)
      BY <2>4 DEF Memcpy, Memmove
    <3> QED BY <3>1, StartCopyRefines
  <2>5. CopyForward \/ CopyBackward => UNCHANGED FlatView
    BY ForwardRefines, BackwardRefines
  <2> QED BY <2>1, <2>2, <2>3, <2>4, <2>5 DEF CallExact
<1> QED BY <1>1, Invariance, PTL DEF Spec, CallsExact

-----------------------------------------------------------------------------
(* Consequences *)

\* The variables keep their types and no uninitialised shadow is ever seen.
THEOREM TypeCorrect == Spec => []TypeOK
<1>1. Init => parity \in BOOLEAN
  BY DEF Init
<1>2. parity \in BOOLEAN /\ [Next]_vars => (parity \in BOOLEAN)'
  <2> SUFFICES ASSUME parity \in BOOLEAN, [Next]_vars
               PROVE  parity' \in BOOLEAN
    OBVIOUS
  <2>1. ASSUME NEW a, NEW n, NEW le, ReadMemory(a, n, le)
        PROVE  parity' = ~parity
    BY <2>1 DEF ReadMemory
  <2>2. ASSUME NEW a, NEW n, NEW e, NEW le, WriteMemory(a, n, e, le)
        PROVE  parity' = ~parity
    BY <2>2 DEF WriteMemory
  <2>3. ASSUME NEW a, NEW n, NEW v, Memset(a, n, v)
        PROVE  parity' = ~parity
    BY <2>3 DEF Memset
  <2>4. ASSUME NEW d, NEW s, NEW n, NEW back, StartCopy(d, s, n, back)
        PROVE  parity' = ~parity
    BY <2>4 DEF StartCopy
  <2>5. ASSUME NEW d, NEW s, NEW n, Memcpy(d, s, n) \/ Memmove(d, s, n)
        PROVE  parity' = ~parity
    BY <2>4, <2>5 DEF Memcpy, Memmove
  <2>6. CopyForward \/ CopyBackward => parity' = parity
    BY DEF CopyForward, CopyBackward
  <2>7. UNCHANGED vars => parity' = parity
    BY DEF vars
  <2>8. Next => parity' = ~parity \/ parity' = parity
    BY <2>1, <2>2, <2>3, <2>5, <2>6 DEF Next
  <2> QED BY <2>7, <2>8
<1>3. Spec => [](parity \in BOOLEAN)
  BY <1>1, <1>2, PTL DEF Spec
<1> QED BY <1>3, Invariance, PTL DEF IInv, TypeOK

\* The read iterator of a copy may be stale, but is never misleading.
THEOREM CursorsCoherent == Spec => []CursorCoherent
BY Invariance, PTL DEF IInv

\* The write iterator of a copy never has a null pointer.
THEOREM WritersMapped == Spec => []WriterMapped
BY Invariance, PTL DEF IInv

\* Copies stay in range and run in a direction that is safe for overlap.
THEOREM CopiesInRange == Spec => []CopyInRange
BY Invariance, PTL DEF IInv

\* If every memset value is a byte, shadow memory holds bytes only.
THEOREM BytesOnly ==
  ASSUME Wide = {}
  PROVE  Spec => []ByteCells
<1>1. IInv => ByteCells
  BY LookupType DEF IInv, ByteCells, Cell
<1> QED BY <1>1, Invariance, PTL

\* Without symbolic data no shadow page is allocated, except by a memset of
\* zero bytes.
THEOREM ConcreteIsFree == Spec => NoShadowForConcrete
<1> DEFINE Symbolic == \E x \in Addr : FlatView[x] # Null \/ FlatView'[x] # Null
<1>1. IInv /\ [Next]_vars => [ShadowNeeded]_vars
  <2> SUFFICES ASSUME IInv, Next, Idle, mapped' # mapped
               PROVE  Symbolic \/ EmptyMemset
    BY DEF vars, ShadowNeeded
  <2>1. ASSUME NEW a \in Addr, NEW n \in Nat, InRange(a, n), ~IsConcrete(a, n)
        PROVE  Symbolic
    <3>1. PICK x \in Bytes(a, n) : Lookup(x) # Null
      BY <2>1, IsConcreteExact, SizesAssumption DEF Addr
    <3>2. x \in Addr
      BY <2>1, SizesAssumption DEF Bytes, Addr, InRange
    <3>3. FlatView[x] # Null
      BY <3>1, <3>2, IdleFlat
    <3> QED BY <3>2, <3>3
  <2>2. ASSUME NEW a \in Addr, NEW n \in StoreLen, NEW e \in Sym \cup {Null},
               NEW le \in BOOLEAN, WriteMemory(a, n, e, le)
        PROVE  Symbolic
    <3>1. CASE e = Null
      BY <2>1, <2>2, <3>1, SizesAssumption DEF WriteMemory
    <3>2. CASE e # Null
      <4>1. FlatView'[a] = Flat!ByteOf(e, IF le THEN a - a ELSE a + n - 1 - a)
        <5>1. a \in a .. a + n - 1
          BY SizesAssumption DEF Addr
        <5>2. Flat!Store(a, n, e, le)
          BY <2>2, WriteRefines
        <5> QED BY <3>2, <5>1, <5>2 DEF Flat!Store, Flat!Addr, Addr
      <4>2. (IF le THEN a - a ELSE a + n - 1 - a) \in Nat
        BY SizesAssumption DEF Addr
      <4>3. FlatView'[a] # Null
        BY <3>2, <4>1, <4>2, ExprAssumption DEF Flat!ByteOf
      <4> QED BY <4>3
    <3> QED BY <3>1, <3>2
  <2>3. ASSUME NEW a \in Addr, NEW n \in FillLen,
               NEW v \in (Sym \X {0}) \cup Wide \cup {Null}, Memset(a, n, v)
        PROVE  Symbolic \/ EmptyMemset
    <3>1. CASE v = Null
      BY <2>1, <2>3, <3>1, SizesAssumption DEF Memset
    <3>2. CASE v # Null /\ n = 0
      BY <2>3, <3>2 DEF EmptyMemset
    <3>3. CASE v # Null /\ n # 0
      <4>1. a \in Nat /\ n \in Nat /\ n > 0
        BY <3>3, SizesAssumption DEF Addr
      <4>2. a \in a .. a + n - 1
        BY <4>1
      <4>3. FlatView'[a] = v
        <5>1. Flat!Fill(a, n, v)
          BY <2>3, MemsetRefines
        <5>2. FlatView' = [x \in Addr |-> IF x \in a .. a + n - 1 THEN v
                                          ELSE FlatView[x]]
          BY <5>1 DEF Flat!Fill, Flat!Addr, Addr
        <5> QED BY <4>2, <5>2
      <4> QED BY <3>3, <4>3
    <3> QED BY <3>1, <3>2, <3>3
  <2>4. ASSUME NEW d \in Addr, NEW s \in Addr, NEW n \in CopyLen,
               Memcpy(d, s, n) \/ Memmove(d, s, n)
        PROVE  Symbolic
    <3>1. PICK back \in BOOLEAN : StartCopy(d, s, n, back)
      BY <2>4 DEF Memcpy, Memmove
    <3>2. InRange(d, n) /\ InRange(s, n) /\ ~(IsConcrete(s, n) /\ IsConcrete(d, n))
      BY <3>1 DEF StartCopy
    <3> QED BY <2>1, <3>2, SizesAssumption
  <2>5. ~CopyForward /\ ~CopyBackward
    BY DEF Idle, NoOp, CopyForward, CopyBackward
  <2> QED BY <2>2, <2>3, <2>4, <2>5 DEF Next, ReadMemory
<1> QED BY <1>1, Invariance, PTL DEF Spec, NoShadowForConcrete
=============================================================================
