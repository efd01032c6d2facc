------------------------- MODULE CallProtocolProofs --------------------------
(***************************************************************************)
(* Proofs about CallProtocol, for any expressions, any number of slots and *)
(* any depth of the stack, as long as functions have no more parameters    *)
(* than there are slots and code without instrumentation does not call     *)
(* code with it.  Then the plain frames lie on top of the instrumented     *)
(* ones, and while only plain code runs above a caller that waits for a    *)
(* result nobody writes to the return slot that the caller has cleared.    *)
(***************************************************************************)
EXTENDS CallProtocol, SequenceTheorems, TLAPS

\* What the theorems assume of the program
NoCallbacks == ~Callbacks /\ MaxArity <= Slots

Kinds == {"instrumented", "plain"}
Lists == {<<>>} \cup Params
Frames == [kind : Kinds, loaded : Lists, truth : Lists, wants : BOOLEAN]

-----------------------------------------------------------------------------
(***************************************************************************)
(* Stacks                                                                  *)
(***************************************************************************)

\* One frame more
LEMMA Pushed ==
  ASSUME NEW s \in Seq(Frames), NEW f \in Frames
  PROVE  LET t == <<f>> \o s
         IN  /\ t \in Seq(Frames)
             /\ Len(t) = Len(s) + 1
             /\ t[1] = f
             /\ \A i \in 2 .. Len(t) : t[i] = s[i - 1]
  <1>1. <<f>> \in Seq(Frames) /\ Len(<<f>>) = 1 /\ <<f>>[1] = f
    OBVIOUS
  <1>. QED  BY <1>1, ConcatProperties, SMTT(20)

\* One frame more, and the one below changed
LEMMA PushedOn ==
  ASSUME NEW s \in Seq(Frames), s # <<>>, NEW f \in Frames, NEW g \in Frames
  PROVE  LET t == <<f, g>> \o Tail(s)
         IN  /\ t \in Seq(Frames)
             /\ Len(t) = Len(s) + 1
             /\ t[1] = f /\ t[2] = g
             /\ \A i \in 3 .. Len(t) : t[i] = s[i - 1]
  <1>1. <<f, g>> \in Seq(Frames) /\ Len(<<f, g>>) = 2
        /\ <<f, g>>[1] = f /\ <<f, g>>[2] = g
    OBVIOUS
  <1>2. /\ Tail(s) \in Seq(Frames)
        /\ Len(Tail(s)) = Len(s) - 1
        /\ \A i \in 1 .. Len(Tail(s)) : Tail(s)[i] = s[i + 1]
    BY HeadTailProperties
  <1>3. /\ <<f, g>> \o Tail(s) \in Seq(Frames)
        /\ Len(<<f, g>> \o Tail(s)) = 2 + Len(Tail(s))
        /\ \A i \in 1 .. 2 + Len(Tail(s)) :
             (<<f, g>> \o Tail(s))[i] = IF i <= 2 THEN <<f, g>>[i] ELSE Tail(s)[i - 2]
    BY <1>1, <1>2, ConcatProperties
  <1>4. Len(s) \in Nat \ {0}
    OBVIOUS
  <1>. QED  BY <1>1, <1>2, <1>3, <1>4

\* The n-th frame on top, changed
LEMMA Dropped ==
  ASSUME NEW s \in Seq(Frames), NEW n \in 1 .. Len(s), NEW f \in Frames
  PROVE  LET t == <<f>> \o SubSeq(s, n + 1, Len(s))
         IN  /\ t \in Seq(Frames)
             /\ Len(t) = Len(s) - n + 1
             /\ t[1] = f
             /\ \A i \in 2 .. Len(t) : t[i] = s[i + n - 1]
  <1>. DEFINE u == SubSeq(s, n + 1, Len(s))
  <1>1. Len(s) \in Nat /\ n \in Nat /\ n <= Len(s)
    OBVIOUS
  <1>2. /\ u \in Seq(Frames)
        /\ Len(u) = Len(s) - n
        /\ \A i \in 1 .. Len(s) - n : u[i] = s[n + 1 + i - 1]
    <2>1. \A i \in n + 1 .. Len(s) : s[i] \in Frames
      BY <1>1
    <2>. QED  BY <1>1, <2>1, SubSeqProperties, SMTT(20)
  <1>3. /\ <<f>> \o u \in Seq(Frames)
        /\ Len(<<f>> \o u) = Len(u) + 1
        /\ (<<f>> \o u)[1] = f
        /\ \A i \in 2 .. Len(<<f>> \o u) : (<<f>> \o u)[i] = u[i - 1]
    BY <1>2, Pushed
  <1>4. \A i \in 2 .. Len(s) - n + 1 : u[i - 1] = s[i + n - 1]
    BY <1>1, <1>2
  <1>. QED  BY <1>1, <1>2, <1>3, <1>4

-----------------------------------------------------------------------------
(***************************************************************************)
(* Parameters                                                              *)
(***************************************************************************)

\* Lists of parameters that fit into the slots use each slot once.
LEMMA OwnSlot ==
  ASSUME CallAssumption, NEW i \in 0 .. Slots - 1
  PROVE  Slot(i) = i
  BY DEF Slot, CallAssumption

LEMMA ParamsType ==
  ASSUME CallAssumption, NoCallbacks, NEW p \in Params
  PROVE  /\ p \in [DOMAIN p -> Value]
         /\ DOMAIN p \subseteq 0 .. Slots - 1
  BY DEF Params, CallAssumption, NoCallbacks

\* The callee loads what the caller has set.
LEMMA ParametersArrive ==
  ASSUME CallAssumption, NoCallbacks, args \in [0 .. Slots - 1 -> Value],
         NEW p \in Params
  PROVE  /\ SetParameters(p) \in [0 .. Slots - 1 -> Value]
         /\ GetParameters(SetParameters(p), p) = p
  <1>. DEFINE I(s) == {i \in DOMAIN p : Slot(i) = s}
  <1>1. /\ p \in [DOMAIN p -> Value]
        /\ \A i \in DOMAIN p : i \in 0 .. Slots - 1 /\ Slot(i) = i
    BY ParamsType, OwnSlot
  <1>2. \A s \in DOMAIN p : I(s) = {s}
    BY <1>1
  <1>3. \A s \in 0 .. Slots - 1 : s \notin DOMAIN p => I(s) = {}
    BY <1>1
  <1>4. \A s \in DOMAIN p : (CHOOSE i \in I(s) : \A j \in I(s) : j <= i) = s
    <2>. SUFFICES ASSUME NEW s \in DOMAIN p
                  PROVE  (CHOOSE i \in I(s) : \A j \in I(s) : j <= i) = s
      OBVIOUS
    <2>1. I(s) = {s} /\ s <= s
      BY <1>1, <1>2
    <2>2. (CHOOSE i \in {s} : \A j \in {s} : j <= i) = s
      BY <2>1
    <2>. QED  BY <2>1, <2>2
  <1>5. \A s \in 0 .. Slots - 1 :
          SetParameters(p)[s] = IF s \in DOMAIN p THEN p[s] ELSE args[s]
    <2>. SUFFICES ASSUME NEW s \in 0 .. Slots - 1
                  PROVE  SetParameters(p)[s] = IF s \in DOMAIN p THEN p[s] ELSE args[s]
      OBVIOUS
    <2>1. SetParameters(p)[s] =
            IF I(s) = {} THEN args[s]
            ELSE p[CHOOSE i \in I(s) : \A j \in I(s) : j <= i]
      BY DEF SetParameters
    <2>2. CASE s \in DOMAIN p
      BY <2>1, <2>2, <1>2, <1>4
    <2>3. CASE s \notin DOMAIN p
      BY <2>1, <2>3, <1>3
    <2>. QED  BY <2>2, <2>3
  <1>6. SetParameters(p) = [s \in 0 .. Slots - 1 |-> SetParameters(p)[s]]
    BY DEF SetParameters
  <1>7. SetParameters(p) \in [0 .. Slots - 1 -> Value]
    BY <1>1, <1>5, <1>6
  <1>8. GetParameters(SetParameters(p), p) = p
    BY <1>1, <1>5 DEF GetParameters
  <1>. QED  BY <1>7, <1>8

-----------------------------------------------------------------------------
(***************************************************************************)
(* The invariant                                                           *)
(***************************************************************************)

Typed ==
  /\ args \in [0 .. Slots - 1 -> Value]
  /\ ret \in Value
  /\ fetched \in [got : Value, truth : Value]
  /\ stack \in Seq(Frames)
  /\ Len(stack) \in 1 .. MaxDepth

\* Every frame has the parameters that it was passed, plain ones trivially.
AllExact == \A i \in 1 .. Len(stack) : stack[i].loaded = stack[i].truth

\* A frame that waits is instrumented and not the top one.
Waiting ==
  \A i \in 1 .. Len(stack) : stack[i].wants => Instrumented(stack[i]) /\ i # 1

\* No plain frame below an instrumented one
Layered ==
  \A i, j \in 1 .. Len(stack) : i < j /\ Instrumented(stack[i]) => Instrumented(stack[j])

Inv == Typed /\ AllExact /\ Waiting /\ Layered /\ AwaitedSlotEmpty /\ ResultExact

LEMMA Start ==
  ASSUME CallAssumption
  PROVE  Init => Inv
  BY DEF CallAssumption, Init, Inv, Typed, AllExact, Waiting, Layered,
         AwaitedSlotEmpty, ResultExact, Value, Frame, Frames, Kinds, Lists, Instrumented

\* The stack after the frames on top of the n-th were left
Left(n) ==
  /\ stack' \in Seq(Frames)
  /\ Len(stack') = Len(stack) - n + 1
  /\ stack'[1].wants = FALSE
  /\ \A i \in 1 .. Len(stack') :
       /\ i + n - 1 \in 1 .. Len(stack)
       /\ stack'[i].kind = stack[i + n - 1].kind
       /\ stack'[i].loaded = stack[i + n - 1].loaded
       /\ stack'[i].truth = stack[i + n - 1].truth
       /\ i # 1 => stack'[i].wants = stack[i + n - 1].wants

LEMMA Leave ==
  ASSUME NEW s \in Seq(Frames), NEW n \in 1 .. Len(s)
  PROVE  LET t == <<[s[n] EXCEPT !.wants = FALSE]>> \o SubSeq(s, n + 1, Len(s))
         IN  /\ t \in Seq(Frames)
             /\ Len(t) = Len(s) - n + 1
             /\ t[1].wants = FALSE
             /\ \A i \in 1 .. Len(t) :
                  /\ i + n - 1 \in 1 .. Len(s)
                  /\ t[i].kind = s[i + n - 1].kind
                  /\ t[i].loaded = s[i + n - 1].loaded
                  /\ t[i].truth = s[i + n - 1].truth
                  /\ i # 1 => t[i].wants = s[i + n - 1].wants
  <1>. DEFINE f == [s[n] EXCEPT !.wants = FALSE]
              t == <<f>> \o SubSeq(s, n + 1, Len(s))
  <1>1. Len(s) \in Nat /\ s[n] \in Frames
    OBVIOUS
  <1>2. /\ f \in Frames /\ f.wants = FALSE /\ f.kind = s[n].kind
        /\ f.loaded = s[n].loaded /\ f.truth = s[n].truth
    BY <1>1 DEF Frames
  <1>. HIDE DEF f
  <1>3. /\ t \in Seq(Frames)
        /\ Len(t) = Len(s) - n + 1
        /\ t[1] = f
        /\ \A i \in 2 .. Len(t) : t[i] = s[i + n - 1]
    BY <1>2, Dropped
  <1>. HIDE DEF t
  <1>4. ASSUME NEW i \in 1 .. Len(t)
        PROVE  /\ i + n - 1 \in 1 .. Len(s)
               /\ t[i].kind = s[i + n - 1].kind
               /\ t[i].loaded = s[i + n - 1].loaded
               /\ t[i].truth = s[i + n - 1].truth
               /\ i # 1 => t[i].wants = s[i + n - 1].wants
    <2>1. i + n - 1 \in 1 .. Len(s)
      BY <1>1, <1>3
    <2>2. CASE i = 1
      <3>1. i + n - 1 = n
        BY <2>2
      <3>. QED  BY <2>1, <2>2, <3>1, <1>2, <1>3
    <2>3. CASE i # 1
      <3>1. i \in 2 .. Len(t)
        BY <2>3, <1>1, <1>3
      <3>. QED  BY <2>1, <3>1, <1>3
    <2>. QED  BY <2>2, <2>3
  <1>5. QED  BY <1>2, <1>3, <1>4 DEF t, f

\* It is in order, if the stack was.
LEMMA LeftInOrder ==
  ASSUME Inv, NEW n \in 2 .. Len(stack), Left(n)
  PROVE  AllExact' /\ Waiting' /\ Layered'
  <1>1. AllExact'
    BY DEF Inv, AllExact, Left
  <1>2. Waiting'
    <2>. SUFFICES ASSUME NEW i \in 1 .. Len(stack'), stack'[i].wants
                  PROVE  Instrumented(stack'[i]) /\ i # 1
      BY DEF Waiting, Instrumented
    <2>1. i # 1
      BY DEF Left
    <2>2. i + n - 1 \in 1 .. Len(stack) /\ stack[i + n - 1].wants
      BY <2>1 DEF Left
    <2>. QED  BY <2>1, <2>2 DEF Inv, Waiting, Left, Instrumented
  <1>3. Layered'
    <2>. SUFFICES ASSUME NEW i \in 1 .. Len(stack'), NEW j \in 1 .. Len(stack'),
                         i < j, Instrumented(stack'[i])
                  PROVE  Instrumented(stack'[j])
      BY DEF Layered, Instrumented
    <2>1. /\ i + n - 1 \in 1 .. Len(stack) /\ j + n - 1 \in 1 .. Len(stack)
          /\ i + n - 1 < j + n - 1
      BY DEF Left
    <2>2. Instrumented(stack[i + n - 1])
      BY DEF Left, Instrumented
    <2>3. Instrumented(stack[j + n - 1])
      BY <2>1, <2>2 DEF Inv, Layered
    <2>. QED  BY <2>3 DEF Left, Instrumented
  <1>. QED  BY <1>1, <1>2, <1>3

-----------------------------------------------------------------------------
(***************************************************************************)
(* One action after the other                                              *)
(***************************************************************************)

LEMMA FrameType ==
  ASSUME NEW kind \in Kinds, NEW p \in Params
  PROVE  /\ Frame(kind, p, p) \in Frames
         /\ Frame(kind, p, p).wants = FALSE
         /\ Frame(kind, p, p).kind = kind
         /\ Frame(kind, p, p).loaded = Frame(kind, p, p).truth
  BY DEF Frame, Frames, Lists

LEMMA CallKeeps ==
  ASSUME CallAssumption, NoCallbacks, Inv,
         NEW kind \in Kinds, NEW p \in Params, NEW used \in BOOLEAN, Call(kind, p, used)
  PROVE  Inv'
  <1>. DEFINE f == Frame(kind, p, p)
              g == [Top EXCEPT !.wants = used]
              t == <<f, g>> \o Tail(stack)
  <1>1. /\ stack \in Seq(Frames) /\ stack # <<>> /\ stack[1] \in Frames
        /\ Len(stack) \in Nat \ {0}
    BY DEF Inv, Typed
  <1>2. args' \in [0 .. Slots - 1 -> Value] /\ GetParameters(args', p) = p
    BY ParametersArrive DEF Call, Inv, Typed
  <1>3. /\ ret' \in Value
        /\ used => ret' = Null
        /\ fetched' = fetched
    BY DEF Call, ClearedSlot, Inv, Typed, Value
  <1>4. stack' = t
    BY <1>2 DEF Call
  <1>5. /\ f \in Frames /\ f.wants = FALSE /\ f.loaded = f.truth
        /\ g \in Frames /\ g.wants = used /\ g.kind = stack[1].kind
        /\ g.loaded = stack[1].loaded /\ g.truth = stack[1].truth
    <2>1. f \in Frames /\ f.wants = FALSE /\ f.loaded = f.truth
      BY FrameType
    <2>2. /\ g \in Frames /\ g.wants = used /\ g.kind = stack[1].kind
          /\ g.loaded = stack[1].loaded /\ g.truth = stack[1].truth
      BY <1>1 DEF Frames, Top
    <2>. QED  BY <2>1, <2>2
  <1>. HIDE DEF f, g
  <1>6. /\ t \in Seq(Frames)
        /\ Len(t) = Len(stack) + 1
        /\ t[1] = f /\ t[2] = g
        /\ \A i \in 3 .. Len(t) : t[i] = stack[i - 1]
    BY <1>1, <1>5, PushedOn
  <1>. HIDE DEF t
  <1>7. /\ stack' \in Seq(Frames)
        /\ Len(stack') = Len(stack) + 1
        /\ stack'[1] = f /\ stack'[2] = g
        /\ \A i \in 3 .. Len(stack') : stack'[i] = stack[i - 1]
    BY <1>4, <1>6
  <1>8. stack[1].kind = "instrumented" /\ Len(stack) < MaxDepth
    BY DEF Call, Top, Instrumented
  <1>9. \A i \in 2 .. Len(stack') : Instrumented(stack'[i])
    <2>. SUFFICES ASSUME NEW i \in 2 .. Len(stack')  PROVE Instrumented(stack'[i])
      OBVIOUS
    <2>1. CASE i = 2
      BY <2>1, <1>5, <1>7, <1>8 DEF Instrumented
    <2>2. CASE i # 2
      <3>1. i - 1 \in 2 .. Len(stack) /\ stack'[i] = stack[i - 1]
        BY <2>2, <1>1, <1>7
      <3>2. Instrumented(stack[i - 1])
        BY <3>1, <1>1, <1>8 DEF Inv, Layered, Instrumented
      <3>. QED  BY <3>1, <3>2
    <2>. QED  BY <2>1, <2>2
  <1>10. Typed'
    BY <1>1, <1>2, <1>3, <1>7, <1>8 DEF Inv, Typed, CallAssumption
  <1>11. AllExact'
    <2>. SUFFICES ASSUME NEW i \in 1 .. Len(stack')
                  PROVE  stack'[i].loaded = stack'[i].truth
      BY DEF AllExact
    <2>1. CASE i = 1
      BY <2>1, <1>5, <1>7
    <2>2. CASE i = 2
      BY <2>2, <1>1, <1>5, <1>7 DEF Inv, AllExact
    <2>3. CASE i \in 3 .. Len(stack')
      <3>1. i - 1 \in 1 .. Len(stack) /\ stack'[i] = stack[i - 1]
        BY <2>3, <1>1, <1>7
      <3>. QED  BY <3>1 DEF Inv, AllExact
    <2>. QED  BY <2>1, <2>2, <2>3
  <1>12. Waiting'
    BY <1>5, <1>7, <1>9 DEF Waiting, Instrumented
  <1>13. Layered'
    BY <1>7, <1>9 DEF Layered, Instrumented
  <1>14. AwaitedSlotEmpty'
    <2>. SUFFICES ASSUME NEW i \in 2 .. Len(stack'), stack'[i].wants,
                         \A j \in 1 .. i - 1 : stack'[j].kind # "instrumented"
                  PROVE  ret' = Null
      BY DEF AwaitedSlotEmpty, Instrumented
    <2>1. i = 2
      BY <1>9 DEF Instrumented
    <2>. QED  BY <2>1, <1>3, <1>5, <1>7
  <1>15. ResultExact'
    BY <1>3 DEF Inv, ResultExact
  <1>. QED  BY <1>10, <1>11, <1>12, <1>13, <1>14, <1>15 DEF Inv

LEMMA CallBackKeeps ==
  ASSUME CallAssumption, NoCallbacks, Inv,
         NEW kind \in Kinds, NEW p \in Params, CallBack(kind, p)
  PROVE  Inv'
  <1>. DEFINE f == Frame(kind, p, p)
              t == <<f>> \o stack
  <1>1. stack \in Seq(Frames) /\ Len(stack) \in Nat \ {0}
    BY DEF Inv, Typed
  <1>2. kind = "plain" /\ stack[1].kind # "instrumented" /\ Len(stack) < MaxDepth
    BY DEF CallBack, NoCallbacks, Top, Instrumented
  <1>3. stack' = t
    BY <1>2 DEF CallBack
  <1>4. f \in Frames /\ f.wants = FALSE /\ f.loaded = f.truth /\ f.kind = "plain"
    BY <1>2, FrameType
  <1>. HIDE DEF f
  <1>5. /\ t \in Seq(Frames)
        /\ Len(t) = Len(stack) + 1
        /\ t[1] = f
        /\ \A i \in 2 .. Len(t) : t[i] = stack[i - 1]
    BY <1>1, <1>4, Pushed
  <1>. HIDE DEF t
  <1>6. /\ stack' \in Seq(Frames)
        /\ Len(stack') = Len(stack) + 1
        /\ stack'[1] = f
        /\ \A i \in 2 .. Len(stack') : i - 1 \in 1 .. Len(stack) /\ stack'[i] = stack[i - 1]
    BY <1>1, <1>3, <1>5
  <1>7. UNCHANGED <<args, ret, fetched>>
    BY DEF CallBack
  <1>8. Typed'
    BY <1>1, <1>2, <1>6, <1>7 DEF Inv, Typed
  <1>9. AllExact'
    BY <1>4, <1>6 DEF Inv, AllExact
  <1>10. Waiting'
    <2>. SUFFICES ASSUME NEW i \in 1 .. Len(stack'), stack'[i].wants
                  PROVE  Instrumented(stack'[i]) /\ i # 1
      BY DEF Waiting, Instrumented
    <2>1. i # 1
      BY <1>4, <1>6
    <2>2. i - 1 \in 1 .. Len(stack) /\ stack'[i] = stack[i - 1]
      BY <2>1, <1>6
    <2>. QED  BY <2>1, <2>2 DEF Inv, Waiting
  <1>11. Layered'
    <2>. SUFFICES ASSUME NEW i \in 1 .. Len(stack'), NEW j \in 1 .. Len(stack'),
                         i < j, Instrumented(stack'[i])
                  PROVE  Instrumented(stack'[j])
      BY DEF Layered, Instrumented
    <2>1. i # 1
      BY <1>4, <1>6 DEF Instrumented
    <2>2. /\ i - 1 \in 1 .. Len(stack) /\ stack'[i] = stack[i - 1]
          /\ j - 1 \in 1 .. Len(stack) /\ stack'[j] = stack[j - 1]
          /\ i - 1 < j - 1
      BY <2>1, <1>6
    <2>. QED  BY <2>2 DEF Inv, Layered
  <1>12. AwaitedSlotEmpty'
    <2>. SUFFICES ASSUME NEW i \in 2 .. Len(stack'), stack'[i].wants,
                         \A j \in 1 .. i - 1 : stack'[j].kind # "instrumented"
                  PROVE  ret = Null
      BY <1>7 DEF AwaitedSlotEmpty, Instrumented
    <2>1. i - 1 \in 1 .. Len(stack) /\ stack[i - 1].wants
      BY <1>6
    <2>2. i - 1 \in 2 .. Len(stack)
      BY <2>1 DEF Inv, Waiting
    <2>3. \A j \in 1 .. (i - 1) - 1 : stack[j].kind # "instrumented"
      <3>. SUFFICES ASSUME NEW j \in 1 .. (i - 1) - 1
                    PROVE  stack[j].kind # "instrumented"
        OBVIOUS
      <3>1. /\ j + 1 \in 1 .. i - 1 /\ j + 1 \in 2 .. Len(stack')
            /\ (j + 1) - 1 = j
        BY <1>6
      <3>2. stack'[j + 1] = stack[j]
        BY <3>1, <1>6
      <3>. QED  BY <3>1, <3>2
    <2>. QED  BY <2>1, <2>2, <2>3 DEF Inv, AwaitedSlotEmpty, Instrumented
  <1>13. ResultExact'
    BY <1>7 DEF Inv, ResultExact
  <1>. QED  BY <1>8, <1>9, <1>10, <1>11, <1>12, <1>13 DEF Inv

\* A frame is left by returning, ...
LEMMA ReturnLeaves ==
  ASSUME Inv, NEW r, NEW v, ReturnTo(r, v)
  PROVE  2 \in 2 .. Len(stack) /\ Left(2)
  <1>. DEFINE t == <<[stack[2] EXCEPT !.wants = FALSE]>> \o SubSeq(stack, 2 + 1, Len(stack))
  <1>1. stack \in Seq(Frames) /\ Len(stack) \in Nat /\ 2 \in 1 .. Len(stack)
    BY DEF Inv, Typed, ReturnTo
  <1>2. /\ t \in Seq(Frames)
        /\ Len(t) = Len(stack) - 2 + 1
        /\ t[1].wants = FALSE
        /\ \A i \in 1 .. Len(t) :
             /\ i + 2 - 1 \in 1 .. Len(stack)
             /\ t[i].kind = stack[i + 2 - 1].kind
             /\ t[i].loaded = stack[i + 2 - 1].loaded
             /\ t[i].truth = stack[i + 2 - 1].truth
             /\ i # 1 => t[i].wants = stack[i + 2 - 1].wants
    BY <1>1, Leave
  <1>3. stack' = t
    BY DEF ReturnTo
  <1>. HIDE DEF t
  <1>. QED  BY <1>1, <1>2, <1>3 DEF Left

\* ... and many of them by unwinding.
LEMMA UnwindLeaves ==
  ASSUME Inv, NEW k \in Nat, Unwind(k)
  PROVE  k + 1 \in 2 .. Len(stack) /\ Left(k + 1)
  <1>. DEFINE n == k + 1
              t == <<[stack[n] EXCEPT !.wants = FALSE]>> \o SubSeq(stack, n + 1, Len(stack))
  <1>1. /\ stack \in Seq(Frames) /\ Len(stack) \in Nat
        /\ n \in 1 .. Len(stack) /\ n \in 2 .. Len(stack)
    BY DEF Inv, Typed, Unwind
  <1>2. /\ t \in Seq(Frames)
        /\ Len(t) = Len(stack) - n + 1
        /\ t[1].wants = FALSE
        /\ \A i \in 1 .. Len(t) :
             /\ i + n - 1 \in 1 .. Len(stack)
             /\ t[i].kind = stack[i + n - 1].kind
             /\ t[i].loaded = stack[i + n - 1].loaded
             /\ t[i].truth = stack[i + n - 1].truth
             /\ i # 1 => t[i].wants = stack[i + n - 1].wants
    <2>. HIDE DEF n
    <2>. QED  BY <1>1, Leave
  <1>3. stack' = t
    <2>1. k + 2 = n + 1
      OBVIOUS
    <2>. QED  BY <2>1 DEF Unwind
  <1>. HIDE DEF t
  <1>4. Left(n)
    <2>. HIDE DEF n
    <2>. QED  BY <1>1, <1>2, <1>3 DEF Left
  <1>. QED  BY <1>1, <1>4

\* Who still waits, with only plain frames above, waited so before, unless an
\* instrumented frame was left.
LEMMA StillWaits ==
  ASSUME Inv, NEW n \in 2 .. Len(stack), Left(n), NEW i \in 2 .. Len(stack'),
         stack'[i].wants, \A j \in 1 .. i - 1 : ~Instrumented(stack'[j])
  PROVE  ret = Null /\ ~Instrumented(stack[n]) /\ \A j \in 1 .. n : ~Instrumented(stack[j])
  <1>. DEFINE m == i + n - 1
  <1>1. m \in 2 .. Len(stack) /\ stack[m].wants
    <2>1. Len(stack) \in Nat /\ Len(stack') = Len(stack) - n + 1
      BY DEF Inv, Typed, Left
    <2>2. i \in 1 .. Len(stack') /\ i # 1
      BY <2>1
    <2>3. stack'[i].wants = stack[i + n - 1].wants
      BY <2>2 DEF Left
    <2>4. i + n - 1 \in 2 .. Len(stack)
      BY <2>1
    <2>. QED  BY <2>3, <2>4
  <1>2. \A j \in n .. m - 1 : ~Instrumented(stack[j])
    <2>. SUFFICES ASSUME NEW j \in n .. m - 1  PROVE ~Instrumented(stack[j])
      OBVIOUS
    <2>1. /\ j - n + 1 \in 1 .. i - 1 /\ j - n + 1 \in 1 .. Len(stack')
          /\ (j - n + 1) + n - 1 = j
      BY DEF Left
    <2>2. stack'[j - n + 1].kind = stack[j].kind
      BY <2>1 DEF Left
    <2>. QED  BY <2>1, <2>2 DEF Instrumented
  <1>3. n \in n .. m - 1 /\ ~Instrumented(stack[n])
    BY <1>2
  <1>4. \A j \in 1 .. n : ~Instrumented(stack[j])
    <2>. SUFFICES ASSUME NEW j \in 1 .. n  PROVE ~Instrumented(stack[j])
      OBVIOUS
    <2>1. j \in 1 .. Len(stack) /\ n \in 1 .. Len(stack)
      BY <1>1
    <2>. QED  BY <2>1, <1>3 DEF Inv, Layered
  <1>5. \A j \in 1 .. m - 1 : ~Instrumented(stack[j])
    BY <1>2, <1>4, <1>1
  <1>. HIDE DEF m
  <1>6. ret = Null
    BY <1>1, <1>5 DEF Inv, AwaitedSlotEmpty
  <1>. QED  BY <1>3, <1>4, <1>6

\* A return that hands on its expression, or an opaque value from plain code
LEMMA ReturnKeeps ==
  ASSUME Inv, NEW r \in Value, NEW v \in Value, ReturnTo(r, v),
         \/ Instrumented(Top) /\ r = v
         \/ Instrumented(Top) /\ ~stack[2].wants /\ r = ret
         \/ ~Instrumented(Top) /\ v = Null /\ r = ret
  PROVE  Inv'
  <1>. DEFINE fetch == Instrumented(stack[2]) /\ stack[2].wants
  <1>1. 2 \in 2 .. Len(stack) /\ Left(2)
    BY ReturnLeaves
  <1>2. /\ ret' = IF fetch THEN Null ELSE r
        /\ fetched' = IF fetch THEN [got |-> r, truth |-> v] ELSE fetched
        /\ args' = args
    BY DEF ReturnTo
  <1>3. Typed'
    <2>1. /\ args' \in [0 .. Slots - 1 -> Value]
          /\ ret' \in Value
          /\ fetched' \in [got : Value, truth : Value]
      BY <1>2 DEF Inv, Typed, Value
    <2>2. stack' \in Seq(Frames) /\ Len(stack') \in 1 .. MaxDepth
      BY <1>1, CallAssumption DEF CallAssumption, Inv, Typed, Left
    <2>. QED  BY <2>1, <2>2 DEF Typed
  <1>4. AllExact' /\ Waiting' /\ Layered'
    BY <1>1, LeftInOrder
  <1>5. AwaitedSlotEmpty'
    <2>. SUFFICES ASSUME NEW i \in 2 .. Len(stack'), stack'[i].wants,
                         \A j \in 1 .. i - 1 : ~Instrumented(stack'[j])
                  PROVE  ret' = Null
      BY DEF AwaitedSlotEmpty, Instrumented
    <2>1. ret = Null /\ \A j \in 1 .. 2 : ~Instrumented(stack[j])
      BY <1>1, StillWaits
    <2>2. ~Instrumented(Top)
      BY <2>1 DEF Top
    <2>. QED  BY <1>2, <2>1, <2>2
  <1>6. ResultExact'
    <2>1. CASE ~fetch
      BY <2>1, <1>2 DEF Inv, ResultExact
    <2>2. CASE fetch
      <3>1. fetched' = [got |-> r, truth |-> v]
        BY <2>2, <1>2
      <3>2. r = v
        <4>1. CASE Instrumented(Top)
          BY <4>1, <2>2
        <4>2. CASE ~Instrumented(Top)
          <5>1. \A j \in 1 .. 2 - 1 : ~Instrumented(stack[j])
            BY <4>2 DEF Top
          <5>2. ret = Null
            BY <5>1, <1>1, <2>2 DEF Inv, AwaitedSlotEmpty
          <5>. QED  BY <4>2, <5>2
        <4>. QED  BY <4>1, <4>2
      <3>. QED  BY <3>1, <3>2 DEF ResultExact
    <2>. QED  BY <2>1, <2>2
  <1>. QED  BY <1>3, <1>4, <1>5, <1>6 DEF Inv

LEMMA UnwindKeeps ==
  ASSUME Inv, NEW k \in Nat, Unwind(k)
  PROVE  Inv'
  <1>. DEFINE n == k + 1
  <1>1. n \in 2 .. Len(stack) /\ Left(n)
    BY UnwindLeaves
  <1>. HIDE DEF n
  <1>2. UNCHANGED <<args, ret, fetched>>
    BY DEF Unwind
  <1>3. Typed'
    <2>1. stack' \in Seq(Frames) /\ Len(stack') \in 1 .. MaxDepth
      BY <1>1, CallAssumption DEF CallAssumption, Inv, Typed, Left
    <2>. QED  BY <1>2, <2>1 DEF Inv, Typed
  <1>4. AllExact' /\ Waiting' /\ Layered'
    BY <1>1, LeftInOrder
  <1>5. AwaitedSlotEmpty'
    <2>. SUFFICES ASSUME NEW i \in 2 .. Len(stack'), stack'[i].wants,
                         \A j \in 1 .. i - 1 : ~Instrumented(stack'[j])
                  PROVE  ret = Null
      BY <1>2 DEF AwaitedSlotEmpty, Instrumented
    <2>. QED  BY <1>1, StillWaits
  <1>6. ResultExact'
    BY <1>2 DEF Inv, ResultExact
  <1>. QED  BY <1>3, <1>4, <1>5, <1>6 DEF Inv

-----------------------------------------------------------------------------
(***************************************************************************)
(* The theorems                                                            *)
(***************************************************************************)

LEMMA Step ==
  ASSUME CallAssumption, NoCallbacks, Inv, [Next]_vars
  PROVE  Inv'
  <1>1. ASSUME NEW kind \in Kinds, NEW p \in Params, NEW used \in BOOLEAN,
               Call(kind, p, used)
        PROVE  Inv'
    BY <1>1, CallKeeps
  <1>2. ASSUME NEW kind \in Kinds, NEW n \in 0 .. MaxArity,
               CallBack(kind, [i \in 0 .. n - 1 |-> Null])
        PROVE  Inv'
    <2>1. [i \in 0 .. n - 1 |-> Null] \in Params
      BY DEF Params, Value
    <2>. QED  BY <1>2, <2>1, CallBackKeeps
  <1>3. ASSUME NEW v \in Value, Return(v)
        PROVE  Inv'
    BY <1>3, ReturnKeeps DEF Return
  <1>4. ASSUME ReturnVoid
        PROVE  Inv'
    <2>1. ret \in Value /\ Null \in Value
      BY DEF Inv, Typed, Value
    <2>. QED  BY <1>4, <2>1, ReturnKeeps DEF ReturnVoid
  <1>5. ASSUME ReturnPlain
        PROVE  Inv'
    <2>1. ret \in Value /\ Null \in Value
      BY DEF Inv, Typed, Value
    <2>. QED  BY <1>5, <2>1, ReturnKeeps DEF ReturnPlain
  <1>6. ASSUME NEW k \in 1 .. MaxDepth, Unwind(k)
        PROVE  Inv'
    BY <1>6, UnwindKeeps DEF CallAssumption
  <1>7. ASSUME UNCHANGED vars
        PROVE  Inv'
    BY <1>7 DEF vars, Inv, Typed, AllExact, Waiting, Layered, AwaitedSlotEmpty, ResultExact,
                Instrumented
  <1>. QED  BY <1>1, <1>2, <1>3, <1>4, <1>5, <1>6, <1>7 DEF Next, Kinds

\* The invariant holds in every state: the stack is layered, and a caller's cleared
\* slot stays clear (handleFunctionCall, visitReturnInst, visitInvokeInst).
THEOREM Invariance ==
  ASSUME NoCallbacks
  PROVE  Spec => []Inv
  <1>1. Init => Inv
    BY Start, CallAssumption
  <1>2. Inv /\ [Next]_vars => Inv'
    BY Step, CallAssumption
  <1>. QED  BY <1>1, <1>2, PTL DEF Spec

\* The variables keep their types (g_function_arguments, g_return_value).
THEOREM TypeCorrect ==
  ASSUME NoCallbacks
  PROVE  Spec => []TypeOK
  <1>1. Inv => TypeOK
    <2>. SUFFICES ASSUME Inv PROVE TypeOK
      OBVIOUS
    <2>1. ASSUME NEW i \in 1 .. Len(stack)
          PROVE  /\ stack[i].kind \in {"instrumented", "plain"}
                 /\ stack[i].wants \in BOOLEAN
                 /\ DOMAIN stack[i].loaded = DOMAIN stack[i].truth
      <3>1. stack[i] \in Frames
        BY DEF Inv, Typed
      <3>2. stack[i].loaded = stack[i].truth
        BY DEF Inv, AllExact
      <3>. QED  BY <3>1, <3>2 DEF Frames, Kinds
    <2>. QED  BY <2>1 DEF Inv, Typed, TypeOK
  <1>. QED  BY <1>1, Invariance, PTL

\* Every function sees the expressions of the values it was passed, and none left
\* over from another call (symbolizeFunctionArguments, handleFunctionCall).
THEOREM ParametersExact ==
  ASSUME NoCallbacks
  PROVE  Spec => []ParamsExact
  <1>1. Inv => ParamsExact
    BY DEF Inv, AllExact, ParamsExact
  <1>. QED  BY <1>1, Invariance, PTL

\* A caller that waits while plain code runs finds the slot empty (the clearing of
\* the return slot in handleFunctionCall).
THEOREM AwaitedSlotsEmpty ==
  ASSUME NoCallbacks
  PROVE  Spec => []AwaitedSlotEmpty
  <1>1. Inv => AwaitedSlotEmpty
    BY DEF Inv
  <1>. QED  BY <1>1, Invariance, PTL

\* The result of a call has the expression that the callee returned, and none if the
\* callee is plain code (_sym_get_return_expression after a call).
THEOREM ResultsExact ==
  ASSUME NoCallbacks
  PROVE  Spec => []ResultExact
  <1>1. Inv => ResultExact
    BY DEF Inv
  <1>. QED  BY <1>1, Invariance, PTL
=============================================================================
