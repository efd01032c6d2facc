--------------------------- MODULE InputTracking ---------------------------
(***************************************************************************)
(* How the libc wrappers (runtime/LibcWrappers.cpp) know which bytes the   *)
(* program reads are symbolic.  They remember one file descriptor, that of *)
(* the symbolic input, and a position in it; both have to follow what the  *)
(* program does to its files, which the wrappers see only in part: close   *)
(* and dup, for instance, are not wrapped.                                 *)
(*                                                                         *)
(* The descriptor table stands for the kernel and for stdio: a descriptor  *)
(* is used either directly or through one stream, whose position is the    *)
(* one ftell reports.  The bytes of the input are identified by their      *)
(* offsets; every other byte is concrete.                                  *)
(***************************************************************************)
EXTENDS Integers, Sequences, FiniteSets, FiniteSetsExt

CONSTANTS
  Length,      \* the size of the files
  MaxFd,       \* descriptors are 0..MaxFd, leaving out 1 and 2
  Sizes,       \* numbers of bytes or items asked for
  ItemSizes,   \* sizes of the items fread reads
  Nuls,        \* the offsets of NUL bytes in the files
  Stale,       \* lengths of the strings fgets may find in its buffer at EOF
  MayClose     \* which files the program may close

ASSUME InputAssumption ==
  /\ Length \in Nat /\ MaxFd \in Nat
  /\ Sizes \subseteq Nat \ {0} /\ ItemSizes \subseteq Nat \ {0}
  /\ Nuls \subseteq 0 .. Length - 1
  /\ Stale \subseteq Nat
  /\ MayClose \subseteq {"input", "other"}

VARIABLES
  mode,        \* where the symbolic input comes from: "stdin", "file", "none"
  fds,         \* the open descriptors
  inputFd,     \* inputFileDescriptor, or -1
  inputOffset, \* inputOffset
  got          \* the bytes the last call delivered: the expression the
               \* wrapper gave each of them, and the true one

vars == <<mode, fds, inputFd, inputOffset, got>>

Concrete == -1
Fd == (0 .. MaxFd) \ {1, 2}

\* file: what is read; pos: the offset of the next byte of the file; back: the
\* bytes that ungetc pushed back, by their true expressions
Opened(file) == [file |-> file, pos |-> 0, back |-> <<>>]

\* initLibcWrappers
Init ==
  /\ mode \in {"stdin", "file", "none"}
  /\ fds = [d \in {0} |-> Opened(IF mode = "stdin" THEN "input" ELSE "other")]
  /\ inputFd = IF mode = "stdin" THEN 0 ELSE -1
  /\ inputOffset = 0
  /\ got = <<>>

\* Mutant: the wrapper does not notice that the input is opened.
OpenUnseen(file) ==
  /\ DOMAIN fds # Fd
  /\ file = "input" => mode # "stdin" /\ \A d \in DOMAIN fds : fds[d].file # file
  /\ LET d == Min(Fd \ DOMAIN fds)
     IN  fds' = [c \in DOMAIN fds \cup {d} |->
                   IF c = d THEN Opened(file) ELSE fds[c]]
  /\ got' = <<>>
  /\ UNCHANGED <<mode, inputFd, inputOffset>>

\* open, fopen and fopen64.  Opening the input a second time is not supported.
Open(file) ==
  /\ DOMAIN fds # Fd
  /\ file = "input" => mode # "stdin" /\ \A d \in DOMAIN fds : fds[d].file # file
  /\ LET d == Min(Fd \ DOMAIN fds)
     IN  /\ fds' = [c \in DOMAIN fds \cup {d} |->
                      IF c = d THEN Opened(file) ELSE fds[c]]
         /\ IF file = "input" /\ mode = "file"
            THEN inputFd' = d /\ inputOffset' = 0
            ELSE UNCHANGED <<inputFd, inputOffset>>
  /\ got' = <<>>
  /\ UNCHANGED mode

\* close and fclose: the wrappers do not see them.
Close(d) ==
  /\ fds[d].file \in MayClose
  /\ fds' = [c \in DOMAIN fds \ {d} |-> fds[c]]
  /\ got' = <<>>
  /\ UNCHANGED <<mode, inputFd, inputOffset>>

-----------------------------------------------------------------------------
\* The bytes a descriptor has left: first those that were pushed back.
Ahead(d) ==
  Len(fds[d].back) + (IF fds[d].pos < Length THEN Length - fds[d].pos ELSE 0)

\* The true expression of the k-th byte ahead
Truth(d, k) ==
  LET f == fds[d]
  IN  IF k <= Len(f.back) THEN f.back[k]
      ELSE IF f.file = "input" /\ mode # "none"
           THEN f.pos + (k - Len(f.back)) - 1
           ELSE Concrete

\* The descriptor after n bytes have been taken from it
Taken(d, n) ==
  LET f == fds[d]
      b == Len(f.back)
  IN  IF n <= b
      THEN [f EXCEPT !.back = SubSeq(f.back, n + 1, b)]
      ELSE [f EXCEPT !.back = <<>>, !.pos = @ + (n - b)]

Tracked(d) == d = inputFd

\* The expression of the k-th byte of a buffer just filled from d
Label(d, k) == IF Tracked(d) THEN inputOffset + k - 1 ELSE Concrete

OffsetAfter(d, n) == IF Tracked(d) THEN inputOffset + n ELSE inputOffset

(***************************************************************************)
(* A call took n bytes from d, and the wrapper gave expressions to the     *)
(* first m bytes of the buffer.                                            *)
(***************************************************************************)
Delivered(d, n, m) ==
  /\ got' = [k \in 1 .. m |->
               [label |-> Label(d, k),
                truth |-> IF k <= n THEN Truth(d, k) ELSE Concrete]]
  /\ fds' = [fds EXCEPT ![d] = Taken(d, n)]
  /\ inputOffset' = OffsetAfter(d, m)
  /\ UNCHANGED <<mode, inputFd>>

AtMost(n, d) == IF n < Ahead(d) THEN n ELSE Ahead(d)

\* Mutant: read advances by what was asked for.
ReadAsked(d, n) == Delivered(d, AtMost(n, d), n)

\* read, and getc and fgetc with n = 1: at the end of the file nothing happens.
Read(d, n) == Delivered(d, AtMost(n, d), AtMost(n, d))

\* fread takes the bytes of a last, partial item as well, but only the bytes
\* of whole items are given expressions.
FRead(d, size, n) ==
  LET taken == AtMost(size * n, d)
  IN  Delivered(d, taken, (taken \div size) * size)

\* The length of the string that fgets leaves in the buffer after n bytes: a
\* NUL byte among them ends it.
StringLength(d, n) ==
  LET nuls == {k \in 1 .. n : /\ k > Len(fds[d].back)
                              /\ fds[d].pos + (k - Len(fds[d].back)) - 1 \in Nuls}
  IN  IF nuls = {} THEN n ELSE Min(nuls) - 1

\* fgets, up to a newline, the n-th byte or the end of the file; at the end of
\* the file it leaves the buffer as it is.
FGets(d, n) ==
  IF Ahead(d) = 0
  THEN \E m \in Stale : Delivered(d, 0, m)
  ELSE \E k \in 1 .. AtMost(n, d) : Delivered(d, k, StringLength(d, k))

\* Mutant: the offset does not follow.
UngetcUnseen(d) ==
  /\ Len(got) = 1 /\ fds[d].back = <<>> /\ fds[d].pos > 0
  /\ fds' = [fds EXCEPT ![d].back = <<got[1].truth>>]
  /\ got' = <<>>
  /\ UNCHANGED <<mode, inputFd, inputOffset>>

\* ungetc of the byte that was just read
Ungetc(d) ==
  /\ Len(got) = 1 /\ fds[d].back = <<>> /\ fds[d].pos > 0
  /\ got[1].truth = (IF fds[d].file = "input" /\ mode # "none"
                     THEN fds[d].pos - 1 ELSE Concrete)
  /\ fds' = [fds EXCEPT ![d].back = <<got[1].truth>>]
  /\ inputOffset' = IF Tracked(d) THEN inputOffset - 1 ELSE inputOffset
  /\ got' = <<>>
  /\ UNCHANGED <<mode, inputFd>>

\* Mutant: the offset does not follow.
SeekUnseen(d, p) ==
  /\ fds' = [fds EXCEPT ![d].pos = p, ![d].back = <<>>]
  /\ got' = <<>>
  /\ UNCHANGED <<mode, inputFd, inputOffset>>

\* lseek, fseek and their kin, and rewind, if they succeed: the new position
\* is p, and what was pushed back is dropped.
Seek(d, p) ==
  /\ fds' = [fds EXCEPT ![d].pos = p, ![d].back = <<>>]
  /\ inputOffset' = IF Tracked(d) THEN p ELSE inputOffset
  /\ got' = <<>>
  /\ UNCHANGED <<mode, inputFd>>

Next ==
  \/ \E file \in {"input", "other"} : Open(file)
  \/ \E d \in DOMAIN fds : Close(d)
  \/ \E d \in DOMAIN fds, n \in Sizes : Read(d, n)
  \/ \E d \in DOMAIN fds, n \in Sizes, size \in ItemSizes : FRead(d, size, n)
  \/ \E d \in DOMAIN fds, n \in Sizes : FGets(d, n)
  \/ \E d \in DOMAIN fds : Ungetc(d)
  \/ \E d \in DOMAIN fds, p \in 0 .. Length + 1 : Seek(d, p)

Spec == Init /\ [][Next]_vars

-----------------------------------------------------------------------------
\* The variables keep their types; a stream takes back one byte, and neither a
\* descriptor nor inputOffset passes the end of a file unless a seek did.
TypeOK ==
  /\ mode \in {"stdin", "file", "none"}
  /\ DOMAIN fds \subseteq Fd
  /\ \A d \in DOMAIN fds : /\ fds[d].file \in {"input", "other"}
                           /\ fds[d].pos \in 0 .. Length + 1
                           /\ Len(fds[d].back) <= 1
  /\ inputFd \in Fd \cup {-1}
  /\ inputOffset \in 0 .. Length + 1

\* inputFileDescriptor is "the file descriptor referring to the symbolic
\* input": while it is open it refers to the input, and an input that is open
\* is tracked.
DescriptorExact ==
  mode # "none" =>
    \A d \in DOMAIN fds : fds[d].file = "input" <=> d = inputFd

\* inputOffset is "the current position in the (symbolic) input", whatever
\* sequence of reads, seeks and pushed-back bytes led there.
OffsetExact ==
  \A d \in DOMAIN fds :
    Tracked(d) => inputOffset = fds[d].pos - Len(fds[d].back)

\* Every byte a read delivers has exactly its true expression: the input byte
\* it came from, or none.
LabelsExact == \A k \in DOMAIN got : got[k].label = got[k].truth
=============================================================================
