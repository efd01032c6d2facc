---------------------------- MODULE ShadowMemory ----------------------------
(***************************************************************************)
(* Shadow memory (runtime/Shadow.h) and the runtime functions that read    *)
(* and write it (runtime/RuntimeCommon.cpp).  The shadow of a page is      *)
(* allocated the first time a write iterator reaches the page; until then  *)
(* every byte of the page is concrete.                                     *)
(*                                                                         *)
(* _sym_memcpy and _sym_memmove run two iterators over pages that may be   *)
(* allocated while they run.  A read iterator looks its page up only when  *)
(* it is built and when it crosses a page boundary, so it may hold a null  *)
(* shadow pointer for a page that exists by now.  That loop is modelled    *)
(* one element at a time; the other operations are one step each, since    *)
(* the runtime is single-threaded and their loops touch one iterator.      *)
(***************************************************************************)
EXTENDS Integers, Sequences

CONSTANTS
  PageSize, MaxAddr, Sym, Wide, StoreLen, FillLen, CopyLen, Null,
  Uninit      \* what malloc returns before memset clears it

ASSUME SizesAssumption ==
  /\ PageSize \in Nat \ {0}
  /\ MaxAddr \in Nat
  /\ StoreLen \subseteq Nat \ {0}
  /\ FillLen \subseteq Nat
  /\ CopyLen \subseteq Nat

ASSUME ExprAssumption ==
  /\ Null \notin Sym \cup Wide \cup (Sym \X Nat)
  /\ Uninit \notin Wide \cup (Sym \X Nat) \cup {Null}

VARIABLES
  mapped,     \* the keys of g_shadow_pages
  shadow,     \* the contents of the shadow pages, by address
  op,         \* the std::copy in progress
  out,        \* the expression the last _sym_read_memory built
  parity      \* flips at every call, so that calls without effect are steps

vars == <<mapped, shadow, op, out, parity>>

Addr == 0 .. MaxAddr
InRange(a, n) == a + n \in Addr
Bytes(a, n) == a .. a + n - 1
ByteOfWhole(e, k) == e     \* mutant: no extraction
ByteOf(e, k) == <<e, k>>
Const(a) == <<Null, a>>

\* Every expression a shadow cell may hold.
Byte == Sym \X Nat
Cell == Byte \cup Wide \cup {Null}

\* pageStart
PageOf(a) == a - (a % PageSize)
Page == {PageOf(a) : a \in Addr}

(***************************************************************************)
(* Lookup is what a fresh ReadShadowIterator yields at an address: the     *)
(* page's cell, or null when the page has no shadow.                       *)
(***************************************************************************)
Lookup(a) == IF PageOf(a) \in mapped THEN shadow[a] ELSE Null

NonNull(a) == IF Lookup(a) = Null THEN Const(a) ELSE Lookup(a)

CreatedUncleared(f, P) == f     \* mutant: malloc without memset

\* getOrCreateShadow for every page in P: a new page is cleared.
Created(f, P) ==
  [a \in Addr |-> IF PageOf(a) \in P \ mapped THEN Null ELSE f[a]]

\* The pages a write iterator visits from begin() to end(), both included.
Touched(a, n) == {PageOf(x) : x \in a .. a + n}

\* Mutant: the fast path looks at the first page only.
IsConcreteFirst(a, n) ==
  \/ PageOf(a) \notin mapped
  \/ \A x \in Bytes(a, n) : Lookup(x) = Null

\* isConcrete, with its fast path for a range within one page
IsConcrete(a, n) ==
  \/ PageOf(a) = PageOf(a + n) /\ PageOf(a) \notin mapped
  \/ \A x \in Bytes(a, n) : Lookup(x) = Null

-----------------------------------------------------------------------------
NoOp == [dst |-> 0, src |-> 0, len |-> 0, i |-> 0, back |-> FALSE,
         live |-> FALSE]

Idle == op = NoOp

Init ==
  /\ mapped = {}
  /\ shadow = [a \in Addr |-> Uninit]
  /\ op = NoOp
  /\ out = <<>>
  /\ parity = FALSE

(***************************************************************************)
(* _sym_read_memory: nothing if the region is concrete, else the           *)
(* concatenation of its bytes.  out lists them most significant first, the *)
(* order _sym_concat_helper builds.                                        *)
(***************************************************************************)
ReadMemory(a, n, le) ==
  /\ Idle
  /\ InRange(a, n)
  /\ out' = IF IsConcrete(a, n)
            THEN <<>>
            ELSE [p \in 1 .. n |-> NonNull(IF le THEN a + n - p ELSE a + p - 1)]
  /\ parity' = ~parity
  /\ UNCHANGED <<mapped, shadow, op>>

(***************************************************************************)
(* The common end of the single-step writers: visit every page of the      *)
(* range and store val(x) at each of its addresses x.                      *)
(***************************************************************************)
Overwrite(a, n, val) ==
  /\ mapped' = mapped \cup Touched(a, n)
  /\ shadow' = [x \in Addr |->
                  IF x \in Bytes(a, n) THEN val[x]
                  ELSE Created(shadow, Touched(a, n))[x]]

\* _sym_write_memory
WriteMemory(a, n, e, le) ==
  /\ Idle
  /\ InRange(a, n)
  /\ out' = <<>>
  /\ parity' = ~parity
  /\ UNCHANGED op
  /\ IF e = Null /\ IsConcrete(a, n)
     THEN UNCHANGED <<mapped, shadow>>
     ELSE Overwrite(a, n,
            [x \in Bytes(a, n) |->
               IF e = Null THEN Null
               ELSE ByteOf(e, IF le THEN x - a ELSE n - (x - a) - 1)])

\* Mutant: no early return.
MemsetEager(a, n, v) ==
  /\ Idle
  /\ InRange(a, n)
  /\ out' = <<>>
  /\ parity' = ~parity
  /\ UNCHANGED op
  /\ Overwrite(a, n, [x \in Bytes(a, n) |-> v])

\* _sym_memset
Memset(a, n, v) ==
  /\ Idle
  /\ InRange(a, n)
  /\ out' = <<>>
  /\ parity' = ~parity
  /\ UNCHANGED op
  /\ IF v = Null /\ IsConcrete(a, n)
     THEN UNCHANGED <<mapped, shadow>>
     ELSE Overwrite(a, n, [x \in Bytes(a, n) |-> v])

(***************************************************************************)
(* The head of _sym_memcpy and _sym_memmove: the early return, or the      *)
(* iterators handed to std::copy or std::copy_backward.  The order in      *)
(* which the iterator arguments are built is unspecified, so the source    *)
(* iterator may look its page up before or after the destination iterator  *)
(* allocates one.                                                          *)
(***************************************************************************)
StartCopy(d, s, n, back) ==
  /\ Idle
  /\ InRange(d, n)
  /\ InRange(s, n)
  /\ out' = <<>>
  /\ parity' = ~parity
  /\ IF IsConcrete(s, n) /\ IsConcrete(d, n)
     THEN UNCHANGED <<mapped, shadow, op>>
     ELSE LET first == IF back THEN s + n ELSE s
              page  == PageOf(IF back THEN d + n ELSE d)
          IN  /\ mapped' = mapped \cup {page}
              /\ \E m \in {mapped, mapped'} :
                   op' = [dst |-> d, src |-> s, len |-> n, i |-> 0,
                          back |-> back, live |-> PageOf(first) \in m]
              /\ shadow' = Created(shadow, {page})

Disjoint(d, s, n) == d + n <= s \/ s + n <= d

\* The C standard requires the two ranges of memcpy not to overlap; a
\* compiler also emits memcpy for the assignment of a struct to itself.
Memcpy(d, s, n) ==
  /\ Disjoint(d, s, n) \/ d = s
  /\ StartCopy(d, s, n, FALSE)

Memmove(d, s, n) ==
  IF d > s THEN StartCopy(d, s, n, TRUE) ELSE StartCopy(d, s, n, FALSE)

(***************************************************************************)
(* The address at which an iterator that starts at base stands, between    *)
(* two elements: std::copy has it on the next element, std::copy_backward  *)
(* one past it.                                                            *)
(***************************************************************************)
Cursor(base) == IF op.back THEN base + op.len - op.i ELSE base + op.i

\* Mutants: the source iterator keeps its page, or does not move.
AdvanceStale(live) ==
  op' = IF op.i + 1 = op.len THEN NoOp ELSE [op EXCEPT !.i = @ + 1]
AdvanceStuck(live) == op' = [op EXCEPT !.live = live]

Advance(live) ==
  op' = IF op.i + 1 = op.len THEN NoOp
        ELSE [op EXCEPT !.i = @ + 1, !.live = live]

\* What the read iterator yields: its cached pointer, not a fresh lookup.
Deref(live, a) == IF live THEN shadow[a] ELSE Null

\* *result = *first; ++result; ++first
CopyForward ==
  /\ op.i < op.len /\ ~op.back
  /\ LET s == Cursor(op.src)
         d == Cursor(op.dst)
         P == {PageOf(d), PageOf(d + 1)}
     IN  /\ shadow' = [Created(shadow, P) EXCEPT ![d] = Deref(op.live, s)]
         /\ mapped' = mapped \cup P
         /\ Advance(IF PageOf(s + 1) = PageOf(s)
                    THEN op.live ELSE PageOf(s + 1) \in mapped')
  /\ UNCHANGED <<out, parity>>

\* *--result = *--last, the right-hand side first
CopyBackward ==
  /\ op.i < op.len /\ op.back
  /\ LET s    == Cursor(op.src) - 1
         d    == Cursor(op.dst) - 1
         live == IF PageOf(s + 1) = PageOf(s) THEN op.live
                 ELSE PageOf(s) \in mapped
     IN  /\ shadow' = [Created(shadow, {PageOf(d)}) EXCEPT ![d] = Deref(live, s)]
         /\ mapped' = mapped \cup {PageOf(d)}
         /\ Advance(live)
  /\ UNCHANGED <<out, parity>>

-----------------------------------------------------------------------------
Next ==
  \/ \E a \in Addr, n \in StoreLen, le \in BOOLEAN : ReadMemory(a, n, le)
  \/ \E a \in Addr, n \in StoreLen, e \in Sym \cup {Null}, le \in BOOLEAN :
       WriteMemory(a, n, e, le)
  \/ \E a \in Addr, n \in FillLen, v \in (Sym \X {0}) \cup Wide \cup {Null} :
       Memset(a, n, v)
  \/ \E d, s \in Addr, n \in CopyLen : Memcpy(d, s, n)
  \/ \E d, s \in Addr, n \in CopyLen : Memmove(d, s, n)
  \/ CopyForward
  \/ CopyBackward

\* A copy, once started, runs to its end: nothing else runs in the thread.
Fairness == WF_vars(CopyForward \/ CopyBackward)

Spec == Init /\ [][Next]_vars /\ Fairness

-----------------------------------------------------------------------------
(***************************************************************************)
(* Properties                                                              *)
(***************************************************************************)
ShadowTypeOK ==
  /\ mapped \subseteq Page
  /\ shadow \in [Addr -> Cell \cup {Uninit}]
  /\ \A a \in Addr : PageOf(a) \in mapped => shadow[a] # Uninit
  /\ op \in [dst : Addr, src : Addr, len : Nat, i : Nat,
             back : BOOLEAN, live : BOOLEAN]

\* The variables have their types and no mapped page shows what malloc left
\* in it (getOrCreateShadow clears the whole page).
TypeOK == ShadowTypeOK /\ parity \in BOOLEAN

\* Element j of the running copy has not been copied yet.
Pending(j) ==
  /\ j \in 0 .. op.len - 1
  /\ IF op.back THEN j < op.len - op.i ELSE j >= op.i

\* The running copy stays in range and, for overlapping ranges, runs in the
\* direction that reads every element before it overwrites it.
CopyInRange ==
  /\ op.i <= op.len
  /\ (op.i = op.len) => Idle
  /\ InRange(op.dst, op.len)
  /\ InRange(op.src, op.len)
  /\ \/ Disjoint(op.dst, op.src, op.len)
     \/ IF op.back THEN op.dst > op.src ELSE op.dst <= op.src

\* The cached pointer of the read iterator is as good as a fresh lookup: a
\* live pointer points into a page that exists, and a null one stands on a
\* page whose remaining source bytes are all concrete, although the copy may
\* have created that page in the meantime (Shadow.h, operator++ and --).
CursorCoherent ==
  op.len > 0 =>
    /\ op.live => PageOf(Cursor(op.src)) \in mapped
    /\ ~op.live =>
         \A j \in 0 .. op.len - 1 :
           /\ Pending(j)
           /\ PageOf(op.src + j) = PageOf(Cursor(op.src))
           => Lookup(op.src + j) = Null

\* The write iterator never dereferences a null shadow pointer.
WriterMapped == op.len > 0 => PageOf(Cursor(op.dst)) \in mapped

\* Shadow memory always represents bytes (the assertion of operator*).
ByteCells == \A a \in Addr : Lookup(a) \in Byte \cup {Null}

(***************************************************************************)
(* The refinement of FlatShadow: while a copy runs, the bytes it has not   *)
(* written yet already count as what they are going to be.                 *)
(***************************************************************************)
FlatByte(a) ==
  IF Pending(a - op.dst) THEN Lookup(op.src + (a - op.dst)) ELSE Lookup(a)

FlatView == [a \in Addr |-> FlatByte(a)]

\* out, by significance.
OutView ==
  IF out = <<>> THEN <<>> ELSE [k \in 0 .. Len(out) - 1 |-> out[Len(out) - k]]

Flat == INSTANCE FlatShadow WITH flat <- FlatView, result <- OutView

\* The paged shadow implements the flat one: every load returns, and every
\* store, memset, memcpy and memmove leaves, exactly what a byte-by-byte
\* shadow would have, whatever pages exist and however ranges overlap.
Refinement == Flat!Spec

\* Every single call does what the same call does to the flat shadow: no store
\* of a concrete value is skipped where something symbolic was, and no load is
\* answered with a constant where something symbolic is (the early returns on
\* isConcrete).  The elements of a copy change nothing more.
CallExact ==
  /\ \A a \in Addr, n \in StoreLen, le \in BOOLEAN :
       /\ ReadMemory(a, n, le) => Flat!Load(a, n, le)
       /\ \A e \in Sym \cup {Null} :
            WriteMemory(a, n, e, le) => Flat!Store(a, n, e, le)
  /\ \A a \in Addr, n \in FillLen, v \in (Sym \X {0}) \cup Wide \cup {Null} :
       Memset(a, n, v) => Flat!Fill(a, n, v)
  /\ \A d, s \in Addr, n \in CopyLen :
       Memcpy(d, s, n) \/ Memmove(d, s, n) => Flat!Copy(d, s, n)
  /\ CopyForward \/ CopyBackward => UNCHANGED FlatView

CallsExact == [][CallExact]_vars

\* A program that only handles concrete data allocates no shadow: no store,
\* memset or copy begins to allocate pages unless some byte was, or is now,
\* symbolic (the early returns of RuntimeCommon.cpp).  The one exception is
\* a memset of zero bytes to a symbolic value, which visits begin().
EmptyMemset ==
  \E a \in Addr, v \in (Sym \X {0}) \cup Wide : Memset(a, 0, v)

ShadowNeeded ==
  Idle /\ mapped' # mapped =>
    \/ \E a \in Addr : FlatView[a] # Null \/ FlatView'[a] # Null
    \/ EmptyMemset

NoShadowForConcrete == [][ShadowNeeded]_vars

\* Every copy ends: the loop of std::copy reaches its last element.
CopyTerminates == (op.len > 0) ~> Idle
=============================================================================
