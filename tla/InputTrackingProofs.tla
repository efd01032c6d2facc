-------------------------- MODULE InputTrackingProofs --------------------------
(***************************************************************************)
(* The safety properties of the wrappers that read the symbolic input, for *)
(* files of any length, any number of descriptors and reads of any size,   *)
(* in the programs that the wrappers were made for (WellBehaved).          *)
(*                                                                         *)
(* That a label is right needs the offset to be right, and that needs the  *)
(* descriptor to be; but the offset of a stream that has taken a byte back *)
(* is one less than the kernel's, so that this byte has to be known too.   *)
(***************************************************************************)
EXTENDS InputTracking, SequenceTheorems, WellFoundedInduction, TLAPS

\* The program does not close the input, reads items of one byte with fread, and
\* fgets finds no NUL byte and at the end of the file an empty string.
WellBehaved ==
  /\ "input" \notin MayClose
  /\ ItemSizes \subseteq {1}
  /\ Nuls = {}
  /\ Stale \subseteq {0}

Files == {"input", "other"}

\* The expression of the byte at a position of a file
ByteAt(file, pos) == IF file = "input" /\ mode # "none" THEN pos ELSE Concrete

\* A stream has taken back no byte, or the one before its position.
IsStream(f) ==
  /\ f = [file |-> f.file, pos |-> f.pos, back |-> f.back]
  /\ f.file \in Files
  /\ f.pos \in 0 .. Length + 1
  /\ f.back = <<>> \/ (f.pos > 0 /\ f.back = <<ByteAt(f.file, f.pos - 1)>>)

Typed ==
  /\ mode \in {"stdin", "file", "none"}
  /\ DOMAIN fds \subseteq Fd
  /\ fds = [d \in DOMAIN fds |-> fds[d]]
  /\ \A d \in DOMAIN fds : IsStream(fds[d])
  /\ inputFd \in DOMAIN fds \cup {-1}
  /\ inputFd = -1 => inputOffset = 0
  /\ mode = "none" => inputFd = -1

Inv == Typed /\ DescriptorExact /\ OffsetExact /\ LabelsExact

-----------------------------------------------------------------------------
(***************************************************************************)
(* Descriptors and streams                                                 *)
(***************************************************************************)

\* Every nonempty set of natural numbers has a minimum.
LEMMA MinExists ==
  ASSUME NEW S, S \subseteq Nat, S # {}
  PROVE  Min(S) \in S
  <1>. DEFINE R == {w \in Nat \X Nat : w[1] < w[2]}
  <1>1. IsWellFoundedOn(R, Nat)
    BY NatLessThanWellFounded DEF OpToRel
  <1>. HIDE DEF R
  <1>2. PICK x \in S : \A y \in S : <<y, x>> \notin R
    BY <1>1, WFMin
  <1>3. ASSUME NEW y \in S PROVE x <= y
    <2>1. x \in Nat /\ y \in Nat
      OBVIOUS
    <2>2. <<y, x>> \notin R
      BY <1>2
    <2>3. <<y, x>> \in Nat \X Nat /\ <<y, x>>[1] = y /\ <<y, x>>[2] = x
      BY <2>1
    <2>4. ~(y < x)
      BY <2>2, <2>3 DEF R
    <2>. QED  BY <2>1, <2>4
  <1>. QED  BY <1>3 DEF Min

\* The lowest free descriptor
LEMMA FreeDescriptor ==
  ASSUME InputAssumption, DOMAIN fds \subseteq Fd, DOMAIN fds # Fd
  PROVE  Min(Fd \ DOMAIN fds) \in Fd \ DOMAIN fds
  <1>1. Fd \ DOMAIN fds \subseteq Nat /\ Fd \ DOMAIN fds # {}
    BY DEF Fd
  <1>. QED  BY <1>1, MinExists

\* A stream with another list of bytes taken back, ...
LEMMA WithBack ==
  ASSUME NEW file, NEW pos, NEW back, NEW w
  PROVE  [[file |-> file, pos |-> pos, back |-> back] EXCEPT !.back = w]
           = [file |-> file, pos |-> pos, back |-> w]
  OBVIOUS

\* ... and one at another position
LEMMA WithPos ==
  ASSUME NEW file, NEW pos, NEW back, NEW n
  PROVE  [[file |-> file, pos |-> pos, back |-> back] EXCEPT !.pos = n]
           = [file |-> file, pos |-> n, back |-> back]
  OBVIOUS

\* A stream that was read from or repositioned
LEMMA Changed ==
  ASSUME NEW file, NEW pos, NEW back, NEW w, NEW n, NEW f,
         f = [file |-> file, pos |-> pos, back |-> back]
  PROVE  /\ [f EXCEPT !.back = w] = [file |-> file, pos |-> pos, back |-> w]
         /\ [f EXCEPT !.pos = n, !.back = w] = [file |-> file, pos |-> n, back |-> w]
  <1>1. [f EXCEPT !.back = w] = [file |-> file, pos |-> pos, back |-> w]
    BY WithBack
  <1>2. [f EXCEPT !.pos = n] = [file |-> file, pos |-> n, back |-> back]
    BY WithPos
  <1>3. [f EXCEPT !.pos = n, !.back = w] = [[f EXCEPT !.pos = n] EXCEPT !.back = w]
    OBVIOUS
  <1>4. [f EXCEPT !.pos = n, !.back = w] = [file |-> file, pos |-> n, back |-> w]
    <2>1. [[file |-> file, pos |-> n, back |-> back] EXCEPT !.back = w]
            = [file |-> file, pos |-> n, back |-> w]
      BY WithBack
    <2>. QED  BY <1>2, <1>3, <2>1
  <1>. QED  BY <1>1, <1>4

LEMMA Advanced ==
  ASSUME NEW file, NEW pos, NEW back, NEW w, NEW m, NEW f,
         f = [file |-> file, pos |-> pos, back |-> back]
  PROVE  [f EXCEPT !.back = w, !.pos = @ + m] = [file |-> file, pos |-> pos + m, back |-> w]
  <1>. DEFINE n == pos + m
  <1>1. f.pos = pos
    OBVIOUS
  <1>2. [f EXCEPT !.back = w, !.pos = @ + m] = [f EXCEPT !.back = w, !.pos = n]
    BY <1>1
  <1>. HIDE DEF n
  <1>3. [f EXCEPT !.back = w, !.pos = n] = [file |-> file, pos |-> n, back |-> w]
    <2>1. [f EXCEPT !.back = w] = [file |-> file, pos |-> pos, back |-> w]
      BY WithBack
    <2>2. [f EXCEPT !.back = w, !.pos = n] = [[f EXCEPT !.back = w] EXCEPT !.pos = n]
      OBVIOUS
    <2>3. [[file |-> file, pos |-> pos, back |-> w] EXCEPT !.pos = n]
            = [file |-> file, pos |-> n, back |-> w]
      BY WithPos
    <2>. QED  BY <2>1, <2>2, <2>3
  <1>4. [f EXCEPT !.back = w, !.pos = @ + m] = [file |-> file, pos |-> n, back |-> w]
    BY <1>2, <1>3
  <1>. QED  BY <1>4 DEF n

LEMMA OneElement ==
  ASSUME NEW e
  PROVE  SubSeq(<<e>>, 1, 1) = <<e>> /\ SubSeq(<<e>>, 2, 1) = <<>>
  <1>1. <<e>> \in Seq({e}) /\ Len(<<e>>) = 1
    OBVIOUS
  <1>2. SubSeq(<<e>>, 1, 1) = <<e>>
    BY <1>1, SubSeqFull
  <1>. QED  BY <1>2

\* What a stream is after n bytes were taken from it, and which bytes these were
LEMMA TakenExact ==
  ASSUME InputAssumption, Typed, NEW d \in DOMAIN fds, NEW n \in Nat, n <= Ahead(d)
  PROVE  /\ IsStream(Taken(d, n))
         /\ Taken(d, n).file = fds[d].file
         /\ Taken(d, n).pos - Len(Taken(d, n).back) = fds[d].pos - Len(fds[d].back) + n
         /\ \A k \in 1 .. n :
              Truth(d, k) = ByteAt(fds[d].file, fds[d].pos - Len(fds[d].back) + k - 1)
  <1>. DEFINE f == fds[d]
              t == Taken(d, n)
              b == Len(f.back)
  <1>1. /\ f = [file |-> f.file, pos |-> f.pos, back |-> f.back]
        /\ f.file \in Files /\ f.pos \in 0 .. Length + 1 /\ Length \in Nat
        /\ \/ f.back = <<>>
           \/ f.pos > 0 /\ f.back = <<ByteAt(f.file, f.pos - 1)>>
    BY DEF Typed, IsStream, InputAssumption
  <1>2. n <= b + (IF f.pos < Length THEN Length - f.pos ELSE 0)
    BY DEF Ahead
  <1>3. t = IF n <= b THEN [f EXCEPT !.back = SubSeq(f.back, n + 1, b)]
            ELSE [f EXCEPT !.back = <<>>, !.pos = @ + (n - b)]
    BY DEF Taken
  <1>4. \A k \in 1 .. n : Truth(d, k) = IF k <= b THEN f.back[k]
                                        ELSE ByteAt(f.file, f.pos + (k - b) - 1)
    BY DEF Truth, ByteAt
  <1>. HIDE DEF f, t
  <1>5. CASE f.back = <<>>
    <2>1. b = 0
      BY <1>5
    <2>2. CASE n = 0
      <3>1. SubSeq(<<>>, 1, 0) = <<>>
        OBVIOUS
      <3>2. t = [f EXCEPT !.back = <<>>]
        BY <1>3, <1>5, <2>1, <2>2, <3>1
      <3>3. t = f
        BY <3>2, <1>1, <1>5
      <3>. QED  BY <3>3, <1>1, <1>5, <2>1, <2>2 DEF IsStream, f, t
    <2>3. CASE n > 0
      <3>1. t = [f EXCEPT !.back = <<>>, !.pos = @ + (n - b)]
        BY <1>3, <2>1, <2>3
      <3>2. t = [file |-> f.file, pos |-> f.pos + (n - b), back |-> <<>>]
        BY <3>1, <1>1, Advanced
      <3>3. f.pos + n \in 0 .. Length + 1
        BY <1>1, <1>2, <2>1, <2>3
      <3>4. IsStream(t) /\ t.file = f.file /\ t.pos = f.pos + n /\ Len(t.back) = 0
        <4>1. f.pos + (n - b) = f.pos + n
          BY <2>1, <1>1
        <4>. QED  BY <3>2, <3>3, <4>1, <1>1 DEF IsStream
      <3>5. \A k \in 1 .. n : Truth(d, k) = ByteAt(f.file, f.pos - b + k - 1)
        <4>1. \A k \in 1 .. n : ~(k <= b) /\ f.pos + (k - b) - 1 = f.pos - b + k - 1
          BY <2>1, <1>1
        <4>. QED  BY <4>1, <1>4
      <3>6. t.pos - Len(t.back) = f.pos - b + n
        BY <3>4, <2>1, <1>1
      <3>. QED  BY <3>4, <3>5, <3>6 DEF f, t
    <2>. QED  BY <2>2, <2>3
  <1>6. CASE f.pos > 0 /\ f.back = <<ByteAt(f.file, f.pos - 1)>>
    <2>1. b = 1 /\ f.back[1] = ByteAt(f.file, f.pos - 1)
      BY <1>6
    <2>2. CASE n = 0
      <3>1. SubSeq(f.back, 1, 1) = f.back
        BY <1>6, OneElement
      <3>2. t = [f EXCEPT !.back = f.back]
        BY <1>3, <2>1, <2>2, <3>1
      <3>3. t = f
        BY <3>2, <1>1
      <3>. QED  BY <3>3, <1>1, <1>6, <2>1, <2>2 DEF IsStream, f, t
    <2>3. CASE n > 0
      <3>1. t = [file |-> f.file, pos |-> f.pos + (n - 1), back |-> <<>>]
        <4>1. CASE n = 1
          <5>1. SubSeq(f.back, 2, 1) = <<>>
            BY <1>6, OneElement
          <5>2. t = [f EXCEPT !.back = <<>>]
            BY <4>1, <5>1, <1>3, <2>1
          <5>3. f.pos + (n - 1) = f.pos
            BY <4>1, <1>1
          <5>. QED  BY <5>2, <5>3, <1>1, Changed
        <4>2. CASE n > 1
          <5>1. t = [f EXCEPT !.back = <<>>, !.pos = @ + (n - b)]
            BY <4>2, <1>3, <2>1
          <5>. QED  BY <5>1, <1>1, <2>1, Advanced
        <4>. QED  BY <4>1, <4>2, <2>3
      <3>2. f.pos + (n - 1) \in 0 .. Length + 1
        BY <1>1, <1>2, <2>1, <2>3
      <3>3. IsStream(t) /\ t.file = f.file /\ t.pos = f.pos + (n - 1) /\ Len(t.back) = 0
        BY <3>1, <3>2, <1>1 DEF IsStream
      <3>4. \A k \in 1 .. n : Truth(d, k) = ByteAt(f.file, f.pos - b + k - 1)
        <4>. SUFFICES ASSUME NEW k \in 1 .. n
                      PROVE  Truth(d, k) = ByteAt(f.file, f.pos - b + k - 1)
          OBVIOUS
        <4>1. CASE k = 1
          <5>1. f.pos - b + k - 1 = f.pos - 1
            BY <4>1, <2>1, <1>1
          <5>. QED  BY <4>1, <5>1, <1>4, <2>1
        <4>2. CASE k > 1
          <5>1. f.pos + (k - b) - 1 = f.pos - b + k - 1 /\ ~(k <= b)
            BY <4>2, <2>1, <1>1
          <5>. QED  BY <5>1, <1>4
        <4>. QED  BY <4>1, <4>2
      <3>5. t.pos - Len(t.back) = f.pos - b + n
        BY <3>3, <2>1, <1>1
      <3>. QED  BY <3>3, <3>4, <3>5 DEF f, t
    <2>. QED  BY <2>2, <2>3
  <1>. QED  BY <1>1, <1>5, <1>6

-----------------------------------------------------------------------------
(***************************************************************************)
(* One action after the other                                              *)
(***************************************************************************)

LEMMA Start ==
  ASSUME InputAssumption
  PROVE  Init => Inv
  <1>. SUFFICES ASSUME Init PROVE Inv
    OBVIOUS
  <1>. DEFINE file == IF mode = "stdin" THEN "input" ELSE "other"
              f == [file |-> file, pos |-> 0, back |-> <<>>]
  <1>1. /\ mode \in {"stdin", "file", "none"} /\ got = <<>> /\ inputOffset = 0
        /\ inputFd = IF mode = "stdin" THEN 0 ELSE -1
        /\ fds = [d \in {0} |-> f]
    BY DEF Init, Opened
  <1>2. 0 \in Fd /\ Length \in Nat /\ file \in Files
    BY DEF Fd, InputAssumption, Files
  <1>3. f.file = file /\ f.pos = 0 /\ f.back = <<>>
    OBVIOUS
  <1>4. IsStream(f)
    BY <1>2, <1>3 DEF IsStream
  <1>. HIDE DEF f
  <1>5. DOMAIN fds = {0} /\ fds[0] = f /\ fds = [d \in DOMAIN fds |-> fds[d]]
    BY <1>1
  <1>6. Typed
    BY <1>1, <1>2, <1>4, <1>5 DEF Typed
  <1>7. DescriptorExact
    BY <1>1, <1>3, <1>5 DEF DescriptorExact
  <1>8. OffsetExact
    BY <1>1, <1>3, <1>5 DEF OffsetExact, Tracked
  <1>9. LabelsExact
    BY <1>1 DEF LabelsExact
  <1>. QED  BY <1>6, <1>7, <1>8, <1>9 DEF Inv

\* One stream has changed, and the offset has followed.
LEMMA OneStream ==
  ASSUME Inv, NEW d \in DOMAIN fds, NEW f, IsStream(f), f.file = fds[d].file,
         fds' = [fds EXCEPT ![d] = f],
         inputOffset' = IF Tracked(d) THEN f.pos - Len(f.back) ELSE inputOffset,
         UNCHANGED <<mode, inputFd>>
  PROVE  Typed' /\ DescriptorExact' /\ OffsetExact'
  <1>1. /\ DOMAIN fds' = DOMAIN fds /\ fds'[d] = f
        /\ \A c \in DOMAIN fds : c # d => fds'[c] = fds[c]
        /\ fds' = [c \in DOMAIN fds' |-> fds'[c]]
    BY DEF Inv, Typed
  <1>2. \A c \in DOMAIN fds' : IsStream(fds'[c])
    BY <1>1 DEF Inv, Typed
  <1>3. d # -1
    BY DEF Inv, Typed, Fd
  <1>4. Typed'
    BY <1>1, <1>2, <1>3 DEF Inv, Typed, IsStream, ByteAt, Tracked
  <1>5. DescriptorExact'
    BY <1>1 DEF Inv, DescriptorExact
  <1>6. OffsetExact'
    BY <1>1 DEF Inv, OffsetExact, Tracked
  <1>. QED  BY <1>4, <1>5, <1>6

\* A call whose wrapper has noticed all the bytes that it took
LEMMA DeliveredKeeps ==
  ASSUME InputAssumption, Inv, NEW d \in DOMAIN fds, NEW n \in Nat, n <= Ahead(d),
         Delivered(d, n, n)
  PROVE  Inv'
  <1>. DEFINE t == Taken(d, n)
              from == fds[d].pos - Len(fds[d].back)
  <1>1. /\ IsStream(t) /\ t.file = fds[d].file
        /\ t.pos - Len(t.back) = from + n
        /\ \A k \in 1 .. n : Truth(d, k) = ByteAt(fds[d].file, from + k - 1)
    BY TakenExact DEF Inv
  <1>2. /\ got' = [k \in 1 .. n |-> [label |-> Label(d, k),
                                    truth |-> IF k <= n THEN Truth(d, k) ELSE Concrete]]
        /\ fds' = [fds EXCEPT ![d] = t]
        /\ inputOffset' = IF Tracked(d) THEN inputOffset + n ELSE inputOffset
        /\ UNCHANGED <<mode, inputFd>>
    BY DEF Delivered, OffsetAfter
  <1>3. Tracked(d) => inputOffset = from
    BY DEF Inv, OffsetExact
  <1>. HIDE DEF t
  <1>4. inputOffset' = IF Tracked(d) THEN t.pos - Len(t.back) ELSE inputOffset
    BY <1>1, <1>2, <1>3
  <1>5. Typed' /\ DescriptorExact' /\ OffsetExact'
    BY <1>1, <1>2, <1>4, OneStream
  <1>6. LabelsExact'
    <2>. SUFFICES ASSUME NEW k \in 1 .. n PROVE Label(d, k) = Truth(d, k)
      BY <1>2 DEF LabelsExact
    <2>1. Truth(d, k) = ByteAt(fds[d].file, from + k - 1)
      BY <1>1
    <2>2. CASE Tracked(d)
      <3>1. mode # "none" /\ fds[d].file = "input"
        BY <2>2 DEF Tracked, Inv, Typed, Fd, DescriptorExact
      <3>. QED  BY <2>1, <2>2, <3>1, <1>3 DEF Label, ByteAt
    <2>3. CASE ~Tracked(d)
      <3>1. mode = "none" \/ fds[d].file # "input"
        BY <2>3 DEF Tracked, Inv, DescriptorExact
      <3>. QED  BY <2>1, <2>3, <3>1 DEF Label, ByteAt
    <2>. QED  BY <2>2, <2>3
  <1>. QED  BY <1>5, <1>6 DEF Inv

LEMMA AtMostType ==
  ASSUME InputAssumption, Typed, NEW d \in DOMAIN fds, NEW n \in Nat
  PROVE  AtMost(n, d) \in Nat /\ AtMost(n, d) <= Ahead(d) /\ Ahead(d) \in Nat
  <1>1. IsStream(fds[d]) /\ Length \in Nat
    BY DEF Typed, InputAssumption
  <1>2. Len(fds[d].back) \in Nat /\ fds[d].pos \in 0 .. Length + 1
    BY <1>1 DEF IsStream
  <1>3. Ahead(d) \in Nat
    BY <1>1, <1>2 DEF Ahead
  <1>. QED  BY <1>3 DEF AtMost

LEMMA ReadKeeps ==
  ASSUME InputAssumption, Inv, NEW d \in DOMAIN fds, NEW n \in Sizes, Read(d, n)
  PROVE  Inv'
  <1>1. n \in Nat
    BY DEF InputAssumption
  <1>. QED  BY <1>1, AtMostType, DeliveredKeeps DEF Read, Inv

LEMMA FReadKeeps ==
  ASSUME InputAssumption, WellBehaved, Inv, NEW d \in DOMAIN fds, NEW n \in Sizes,
         NEW size \in ItemSizes, FRead(d, size, n)
  PROVE  Inv'
  <1>. DEFINE taken == AtMost(size * n, d)
  <1>1. n \in Nat /\ size = 1
    BY DEF InputAssumption, WellBehaved
  <1>2. size * n \in Nat
    BY <1>1
  <1>3. taken \in Nat /\ taken <= Ahead(d)
    BY <1>2, AtMostType DEF Inv
  <1>4. Delivered(d, taken, (taken \div size) * size)
    BY DEF FRead
  <1>. HIDE DEF taken
  <1>5. (taken \div size) * size = taken
    BY <1>1, <1>3
  <1>. QED  BY <1>3, <1>4, <1>5, DeliveredKeeps

LEMMA FGetsKeeps ==
  ASSUME InputAssumption, WellBehaved, Inv, NEW d \in DOMAIN fds, NEW n \in Sizes,
         FGets(d, n)
  PROVE  Inv'
  <1>1. n \in Nat
    BY DEF InputAssumption
  <1>2. AtMost(n, d) \in Nat /\ AtMost(n, d) <= Ahead(d) /\ Ahead(d) \in Nat
    BY <1>1, AtMostType DEF Inv
  <1>3. CASE Ahead(d) = 0
    <2>1. Delivered(d, 0, 0)
      BY <1>3 DEF FGets, WellBehaved
    <2>. QED  BY <2>1, <1>3, DeliveredKeeps
  <1>4. CASE Ahead(d) # 0
    <2>1. PICK k \in 1 .. AtMost(n, d) : Delivered(d, k, StringLength(d, k))
      BY <1>4 DEF FGets
    <2>2. StringLength(d, k) = k
      BY DEF StringLength, WellBehaved
    <2>3. k \in Nat /\ k <= Ahead(d)
      BY <1>2
    <2>. QED  BY <2>1, <2>2, <2>3, DeliveredKeeps
  <1>. QED  BY <1>3, <1>4

LEMMA UngetcKeeps ==
  ASSUME InputAssumption, Inv, NEW d \in DOMAIN fds, Ungetc(d)
  PROVE  Inv'
  <1>. DEFINE f == fds[d]
              e == ByteAt(f.file, f.pos - 1)
              t == [file |-> f.file, pos |-> f.pos, back |-> <<e>>]
  <1>1. /\ f = [file |-> f.file, pos |-> f.pos, back |-> f.back]
        /\ f.file \in Files /\ f.pos \in 0 .. Length + 1 /\ Length \in Nat
    BY DEF Inv, Typed, IsStream, InputAssumption
  <1>2. /\ f.back = <<>> /\ f.pos > 0 /\ got[1].truth = e
        /\ fds' = [fds EXCEPT ![d].back = <<got[1].truth>>]
        /\ inputOffset' = IF Tracked(d) THEN inputOffset - 1 ELSE inputOffset
        /\ got' = <<>> /\ UNCHANGED <<mode, inputFd>>
    BY DEF Ungetc, ByteAt
  <1>3. Tracked(d) => inputOffset = f.pos - Len(f.back)
    BY DEF Inv, OffsetExact
  <1>4. fds' = [fds EXCEPT ![d] = [f EXCEPT !.back = <<e>>]]
    BY <1>2
  <1>. HIDE DEF f, e
  <1>5. [f EXCEPT !.back = <<e>>] = t
    <2>1. [[file |-> f.file, pos |-> f.pos, back |-> f.back] EXCEPT !.back = <<e>>] = t
      BY WithBack
    <2>. QED  BY <1>1, <2>1
  <1>6. IsStream(t) /\ t.file = f.file /\ t.pos = f.pos /\ Len(t.back) = 1
    BY <1>1, <1>2 DEF IsStream, e
  <1>7. inputOffset' = IF Tracked(d) THEN t.pos - Len(t.back) ELSE inputOffset
    <2>1. Len(f.back) = 0
      BY <1>2
    <2>. QED  BY <2>1, <1>1, <1>2, <1>3, <1>6
  <1>8. fds' = [fds EXCEPT ![d] = t]
    BY <1>4, <1>5
  <1>. HIDE DEF t
  <1>9. Typed' /\ DescriptorExact' /\ OffsetExact'
    BY <1>2, <1>6, <1>7, <1>8, OneStream DEF f
  <1>10. LabelsExact'
    BY <1>2 DEF LabelsExact
  <1>. QED  BY <1>9, <1>10 DEF Inv

LEMMA SeekKeeps ==
  ASSUME InputAssumption, Inv, NEW d \in DOMAIN fds, NEW p \in 0 .. Length + 1, Seek(d, p)
  PROVE  Inv'
  <1>. DEFINE f == fds[d]
              t == [file |-> f.file, pos |-> p, back |-> <<>>]
  <1>1. /\ f = [file |-> f.file, pos |-> f.pos, back |-> f.back]
        /\ f.file \in Files
    BY DEF Inv, Typed, IsStream
  <1>2. /\ fds' = [fds EXCEPT ![d] = [f EXCEPT !.pos = p, !.back = <<>>]]
        /\ inputOffset' = IF Tracked(d) THEN p ELSE inputOffset
        /\ got' = <<>> /\ UNCHANGED <<mode, inputFd>>
    <2>1. fds' = [fds EXCEPT ![d].pos = p, ![d].back = <<>>]
      BY DEF Seek
    <2>2. fds' = [fds EXCEPT ![d] = [f EXCEPT !.pos = p, !.back = <<>>]]
      BY <2>1 DEF Inv, Typed
    <2>. QED  BY <2>2 DEF Seek
  <1>. HIDE DEF f
  <1>3. [f EXCEPT !.pos = p, !.back = <<>>] = t
    <2>1. [[file |-> f.file, pos |-> f.pos, back |-> f.back] EXCEPT !.pos = p]
            = [file |-> f.file, pos |-> p, back |-> f.back]
      BY WithPos
    <2>2. [[file |-> f.file, pos |-> p, back |-> f.back] EXCEPT !.back = <<>>] = t
      BY WithBack
    <2>3. [f EXCEPT !.pos = p, !.back = <<>>] = [[f EXCEPT !.pos = p] EXCEPT !.back = <<>>]
      OBVIOUS
    <2>. QED  BY <1>1, <2>1, <2>2, <2>3
  <1>4. IsStream(t) /\ t.file = f.file /\ t.pos - Len(t.back) = p
    BY <1>1 DEF IsStream, InputAssumption
  <1>5. fds' = [fds EXCEPT ![d] = t]
    BY <1>2, <1>3
  <1>6. inputOffset' = IF Tracked(d) THEN t.pos - Len(t.back) ELSE inputOffset
    BY <1>2, <1>4
  <1>. HIDE DEF t
  <1>7. Typed' /\ DescriptorExact' /\ OffsetExact'
    BY <1>2, <1>4, <1>5, <1>6, OneStream DEF f
  <1>8. LabelsExact'
    BY <1>2 DEF LabelsExact
  <1>. QED  BY <1>7, <1>8 DEF Inv

LEMMA OpenKeeps ==
  ASSUME InputAssumption, Inv, NEW file \in Files, Open(file)
  PROVE  Inv'
  <1>. DEFINE d == Min(Fd \ DOMAIN fds)
              f == [file |-> file, pos |-> 0, back |-> <<>>]
  <1>1. d \in Fd \ DOMAIN fds
    BY FreeDescriptor DEF Open, Inv, Typed
  <1>2. /\ file = "input" => mode # "stdin" /\ \A c \in DOMAIN fds : fds[c].file # file
        /\ fds' = [c \in DOMAIN fds \cup {d} |-> IF c = d THEN f ELSE fds[c]]
        /\ IF file = "input" /\ mode = "file"
           THEN inputFd' = d /\ inputOffset' = 0
           ELSE UNCHANGED <<inputFd, inputOffset>>
        /\ got' = <<>> /\ mode' = mode
    BY DEF Open, Opened
  <1>3. f.file = file /\ f.pos = 0 /\ Len(f.back) = 0 /\ IsStream(f)
    BY DEF IsStream, InputAssumption
  <1>. HIDE DEF d, f
  <1>4. /\ DOMAIN fds' = DOMAIN fds \cup {d} /\ fds'[d] = f
        /\ \A c \in DOMAIN fds : fds'[c] = fds[c]
        /\ fds' = [c \in DOMAIN fds' |-> fds'[c]]
    BY <1>1, <1>2
  <1>5. \A c \in DOMAIN fds' : IsStream(fds'[c])
    BY <1>3, <1>4 DEF Inv, Typed
  <1>6. inputFd # d /\ d # -1
    BY <1>1 DEF Inv, Typed, Fd
  <1>7. Typed'
    <2>1. DOMAIN fds' \subseteq Fd
      BY <1>1, <1>4 DEF Inv, Typed
    <2>2. \A c \in DOMAIN fds' : IsStream(fds[c])'
      BY <1>2, <1>5 DEF IsStream, ByteAt
    <2>3. /\ inputFd' \in DOMAIN fds' \cup {-1} /\ (inputFd' = -1 => inputOffset' = 0)
          /\ mode' = "none" => inputFd' = -1
      BY <1>2, <1>4, <1>6 DEF Inv, Typed
    <2>. QED  BY <2>1, <2>2, <2>3, <1>2, <1>4 DEF Inv, Typed
  <1>8. DescriptorExact'
    <2>. SUFFICES ASSUME mode # "none", NEW c \in DOMAIN fds'
                  PROVE  fds'[c].file = "input" <=> c = inputFd'
      BY <1>2 DEF DescriptorExact
    <2>1. CASE file = "input"
      <3>1. mode = "file" /\ inputFd' = d
        BY <2>1, <1>2 DEF Inv, Typed
      <3>. QED  BY <2>1, <3>1, <1>2, <1>3, <1>4
    <2>2. CASE file # "input"
      <3>1. inputFd' = inputFd
        BY <2>2, <1>2
      <3>. QED  BY <2>2, <3>1, <1>3, <1>4, <1>6 DEF Inv, DescriptorExact
    <2>. QED  BY <2>1, <2>2
  <1>9. OffsetExact'
    <2>. SUFFICES ASSUME NEW c \in DOMAIN fds', c = inputFd'
                  PROVE  inputOffset' = fds'[c].pos - Len(fds'[c].back)
      BY DEF OffsetExact, Tracked
    <2>1. CASE file = "input" /\ mode = "file"
      BY <2>1, <1>2, <1>3, <1>4
    <2>2. CASE ~(file = "input" /\ mode = "file")
      <3>1. inputFd' = inputFd /\ inputOffset' = inputOffset /\ c \in DOMAIN fds
        BY <2>2, <1>2, <1>4, <1>6
      <3>. QED  BY <3>1, <1>4 DEF Inv, OffsetExact, Tracked
    <2>. QED  BY <2>1, <2>2
  <1>10. LabelsExact'
    BY <1>2 DEF LabelsExact
  <1>. QED  BY <1>7, <1>8, <1>9, <1>10 DEF Inv

LEMMA CloseKeeps ==
  ASSUME WellBehaved, Inv, NEW d \in DOMAIN fds, Close(d)
  PROVE  Inv'
  <1>1. /\ fds[d].file # "input"
        /\ fds' = [c \in DOMAIN fds \ {d} |-> fds[c]]
        /\ got' = <<>> /\ UNCHANGED <<mode, inputFd, inputOffset>>
    BY DEF Close, WellBehaved
  <1>2. /\ DOMAIN fds' = DOMAIN fds \ {d}
        /\ \A c \in DOMAIN fds' : fds'[c] = fds[c]
        /\ fds' = [c \in DOMAIN fds' |-> fds'[c]]
    BY <1>1
  <1>3. inputFd # d
    BY <1>1 DEF Inv, Typed, DescriptorExact, Fd
  <1>4. \A c \in DOMAIN fds' : IsStream(fds[c])'
    BY <1>1, <1>2 DEF Inv, Typed, IsStream, ByteAt
  <1>5. Typed'
    BY <1>1, <1>2, <1>3, <1>4 DEF Inv, Typed
  <1>6. DescriptorExact'
    BY <1>1, <1>2 DEF Inv, DescriptorExact
  <1>7. OffsetExact'
    BY <1>1, <1>2 DEF Inv, OffsetExact, Tracked
  <1>8. LabelsExact'
    BY <1>1 DEF LabelsExact
  <1>. QED  BY <1>5, <1>6, <1>7, <1>8 DEF Inv

-----------------------------------------------------------------------------
(***************************************************************************)
(* The theorems                                                            *)
(***************************************************************************)

LEMMA Step ==
  ASSUME InputAssumption, WellBehaved, Inv, [Next]_vars
  PROVE  Inv'
  <1>1. ASSUME NEW file \in Files, Open(file) PROVE Inv'
    BY <1>1, OpenKeeps
  <1>2. ASSUME NEW d \in DOMAIN fds, Close(d) PROVE Inv'
    BY <1>2, CloseKeeps
  <1>3. ASSUME NEW d \in DOMAIN fds, NEW n \in Sizes, Read(d, n) PROVE Inv'
    BY <1>3, ReadKeeps
  <1>4. ASSUME NEW d \in DOMAIN fds, NEW n \in Sizes, NEW size \in ItemSizes,
               FRead(d, size, n)
        PROVE  Inv'
    BY <1>4, FReadKeeps
  <1>5. ASSUME NEW d \in DOMAIN fds, NEW n \in Sizes, FGets(d, n) PROVE Inv'
    BY <1>5, FGetsKeeps
  <1>6. ASSUME NEW d \in DOMAIN fds, Ungetc(d) PROVE Inv'
    BY <1>6, UngetcKeeps
  <1>7. ASSUME NEW d \in DOMAIN fds, NEW p \in 0 .. Length + 1, Seek(d, p) PROVE Inv'
    BY <1>7, SeekKeeps
  <1>8. CASE UNCHANGED vars
    BY <1>8 DEF vars, Inv, Typed, IsStream, ByteAt, DescriptorExact, OffsetExact, Tracked,
                LabelsExact
  <1>. QED
    BY <1>1, <1>2, <1>3, <1>4, <1>5, <1>6, <1>7, <1>8 DEF Next, Files

LEMMA WithinReach ==
  ASSUME NEW b, NEW p, b = 0 \/ (b = 1 /\ p > 0), Length \in Nat, p \in 0 .. Length + 1
  PROVE  b <= 1 /\ p - b \in 0 .. Length + 1
  <1>1. CASE b = 0
    BY <1>1
  <1>2. CASE b = 1 /\ p > 0
    BY <1>2
  <1>. QED  BY <1>1, <1>2

\* The invariant: descriptor, offset and labels, with the byte that ungetc pushed back.
THEOREM Invariance ==
  ASSUME WellBehaved
  PROVE  Spec => []Inv
  <1>1. Init => Inv
    BY Start, InputAssumption
  <1>2. Inv /\ [Next]_vars => Inv'
    BY Step, InputAssumption
  <1>. QED  BY <1>1, <1>2, PTL DEF Spec

\* The variables keep their types, and the offset stays within reach of the file
\* (inputOffset, inputFileDescriptor).
THEOREM TypeCorrect ==
  ASSUME WellBehaved
  PROVE  Spec => []TypeOK
  <1>1. Inv => TypeOK
    <2>. SUFFICES ASSUME Inv PROVE TypeOK
      OBVIOUS
    <2>1. ASSUME NEW d \in DOMAIN fds
          PROVE  /\ fds[d].file \in Files /\ fds[d].pos \in 0 .. Length + 1
                 /\ \/ Len(fds[d].back) = 0
                    \/ Len(fds[d].back) = 1 /\ fds[d].pos > 0
      <3>1. IsStream(fds[d])
        BY DEF Inv, Typed
      <3>2. fds[d].back = <<>> => Len(fds[d].back) = 0
        OBVIOUS
      <3>3. \A e : fds[d].back = <<e>> => Len(fds[d].back) = 1
        OBVIOUS
      <3>. QED  BY <3>1, <3>2, <3>3 DEF IsStream
    <2>2. inputOffset \in 0 .. Length + 1
      <3>0. Length \in Nat
        BY InputAssumption DEF InputAssumption
      <3>1. CASE inputFd = -1
        BY <3>0, <3>1 DEF Inv, Typed
      <3>2. CASE inputFd \in DOMAIN fds
        <4>1. inputOffset = fds[inputFd].pos - Len(fds[inputFd].back)
          BY <3>2 DEF Inv, OffsetExact, Tracked
        <4>2. /\ fds[inputFd].pos \in 0 .. Length + 1
              /\ \/ Len(fds[inputFd].back) = 0
                 \/ Len(fds[inputFd].back) = 1 /\ fds[inputFd].pos > 0
          BY <3>2, <2>1
        <4>. QED  BY <3>0, <4>1, <4>2, WithinReach
      <3>. QED  BY <3>1, <3>2 DEF Inv, Typed
    <2>3. inputFd \in Fd \cup {-1}
      BY DEF Inv, Typed
    <2>4. \A d \in DOMAIN fds : /\ fds[d].file \in {"input", "other"}
                                /\ fds[d].pos \in 0 .. Length + 1
                                /\ Len(fds[d].back) <= 1
      <3>. SUFFICES ASSUME NEW d \in DOMAIN fds
                    PROVE  /\ fds[d].file \in Files /\ fds[d].pos \in 0 .. Length + 1
                           /\ Len(fds[d].back) <= 1
        BY DEF Files
      <3>1. Length \in Nat
        BY InputAssumption DEF InputAssumption
      <3>. QED  BY <2>1, <3>1, WithinReach
    <2>. QED  BY <2>2, <2>3, <2>4 DEF Inv, Typed, TypeOK
  <1>. QED  BY <1>1, Invariance, PTL

\* The wrappers track the symbolic input and nothing else (open, fopen).
THEOREM DescriptorsExact ==
  ASSUME WellBehaved
  PROVE  Spec => []DescriptorExact
  <1>1. Inv => DescriptorExact
    BY DEF Inv
  <1>. QED  BY <1>1, Invariance, PTL

\* The wrappers know where in the input the program is (read, fread, fgets, fgetc,
\* ungetc, lseek, fseek, rewind).
THEOREM OffsetsExact ==
  ASSUME WellBehaved
  PROVE  Spec => []OffsetExact
  <1>1. Inv => OffsetExact
    BY DEF Inv
  <1>. QED  BY <1>1, Invariance, PTL

\* Each byte that is read gets the variable of its own offset, or none
\* (the loops over ReadWriteShadow in the reading wrappers).
THEOREM LabelsStayExact ==
  ASSUME WellBehaved
  PROVE  Spec => []LabelsExact
  <1>1. Inv => LabelsExact
    BY DEF Inv
  <1>. QED  BY <1>1, Invariance, PTL
=============================================================================
