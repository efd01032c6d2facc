---------------------------- MODULE BackendProofs ----------------------------
(***************************************************************************)
(* What the symbolic backends make of scalar code is right, for integers   *)
(* of every width, any inputs, constants and number of registers, and runs *)
(* of any length: the builders mean what the instructions compute, data is *)
(* lost only where gaps says so, and the solver knows the path.            *)
(***************************************************************************)
EXTENDS Backend, FiniteSetTheorems, SequenceTheorems, WellFoundedInduction, TLAPS

-----------------------------------------------------------------------------
(***************************************************************************)
(* Induction and recursion on the natural numbers, with sets and functions *)
(* in place of predicates and operators.                                   *)
(***************************************************************************)

LEMMA Induction ==
  ASSUME NEW T \in SUBSET Nat, 0 \in T, \A n \in T : n + 1 \in T
  PROVE  T = Nat
<1> SUFFICES ASSUME T # Nat PROVE FALSE
  OBVIOUS
<1> DEFINE R == {w \in Nat \X Nat : w[1] < w[2]}
           U == Nat \ T
<1>1. IsWellFoundedOn(R, Nat)
  BY NatLessThanWellFounded DEF OpToRel
<1> HIDE DEF R
<1>2. PICK x \in U : \A y \in U : <<y, x>> \notin R
  BY <1>1, WFMin
<1>3. x \in Nat /\ x # 0 /\ x - 1 \in Nat
  OBVIOUS
<1>4. <<x - 1, x>> \in Nat \X Nat /\ <<x - 1, x>>[1] = x - 1 /\ <<x - 1, x>>[2] = x
  BY <1>3
<1>5. <<x - 1, x>> \in R
  BY <1>3, <1>4 DEF R
<1>6. x - 1 \in T
  BY <1>2, <1>3, <1>5
<1>7. (x - 1) + 1 \in T
  BY <1>6
<1> QED BY <1>3, <1>7

\* A function that is determined by its first value and by a step
LEMMA Recursion ==
  ASSUME NEW a \in Int, NEW S \in [Nat \X Int -> Int]
  PROVE  \E h \in [Nat -> Int] : h[0] = a /\ \A n \in Nat : h[n + 1] = S[<<n, h[n]>>]
<1> DEFINE Part(g, n) == g[0] = a /\ \A k \in 0 .. n - 1 : g[k + 1] = S[<<k, g[k]>>]
           T == {n \in Nat : \E g \in [0 .. n -> Int] : Part(g, n)}
<1>1. T = Nat
  <2>1. 0 \in T
    <3>1. [k \in 0 .. 0 |-> a] \in [0 .. 0 -> Int] /\ Part([k \in 0 .. 0 |-> a], 0)
      OBVIOUS
    <3> QED BY <3>1
  <2>2. ASSUME NEW n \in T PROVE n + 1 \in T
    <3>1. PICK g \in [0 .. n -> Int] : Part(g, n)
      OBVIOUS
    <3> DEFINE f == [k \in 0 .. n + 1 |-> IF k \in 0 .. n THEN g[k] ELSE S[<<n, g[n]>>]]
    <3>2. n \in Nat /\ g[n] \in Int
      OBVIOUS
    <3>3. f \in [0 .. n + 1 -> Int]
      BY <3>2
    <3>4. \A k \in 0 .. n : f[k] = g[k]
      BY <3>2
    <3>5. f[n + 1] = S[<<n, g[n]>>]
      BY <3>2
    <3> HIDE DEF f
    <3>6. ASSUME NEW k \in 0 .. (n + 1) - 1 PROVE f[k + 1] = S[<<k, f[k]>>]
      <4>1. CASE k = n
        <5>1. n \in 0 .. n
          BY <3>2
        <5>2. f[n] = g[n]
          BY <3>4, <5>1
        <5> QED BY <3>5, <4>1, <5>2
      <4>2. CASE k # n
        <5>1. k \in 0 .. n - 1 /\ k \in 0 .. n /\ k + 1 \in 0 .. n
          BY <3>2, <4>2
        <5> QED BY <3>1, <3>4, <5>1
      <4> QED BY <4>1, <4>2
    <3>7. f[0] = a
      BY <3>1, <3>2, <3>4
    <3>8. n + 1 \in Nat
      BY <3>2
    <3> QED BY <3>3, <3>6, <3>7, <3>8
  <2> HIDE DEF T
  <2>3. T \in SUBSET Nat
    BY DEF T
  <2> QED BY <2>1, <2>2, <2>3, Induction
<1>2. ASSUME NEW m \in Nat, NEW n \in Nat, NEW f \in [0 .. m -> Int], NEW g \in [0 .. n -> Int],
             Part(f, m), Part(g, n)
      PROVE  \A k \in Nat : k <= m /\ k <= n => f[k] = g[k]
  <2> DEFINE U == {k \in Nat : k <= m /\ k <= n => f[k] = g[k]}
  <2>1. 0 \in U
    BY <1>2
  <2>2. ASSUME NEW k \in U PROVE k + 1 \in U
    <3>1. CASE k + 1 <= m /\ k + 1 <= n
      <4>1. k \in 0 .. m - 1 /\ k \in 0 .. n - 1 /\ f[k] = g[k]
        BY <3>1
      <4>2. f[k + 1] = S[<<k, f[k]>>] /\ g[k + 1] = S[<<k, g[k]>>]
        BY <1>2, <4>1
      <4> QED BY <4>1, <4>2
    <3>2. CASE ~(k + 1 <= m /\ k + 1 <= n)
      BY <3>2
    <3> QED BY <3>1, <3>2
  <2> HIDE DEF U
  <2>3. U \in SUBSET Nat
    BY DEF U
  <2>4. U = Nat
    BY <2>1, <2>2, <2>3, Induction
  <2> QED BY <2>4 DEF U
<1> DEFINE G(n) == CHOOSE g \in [0 .. n -> Int] : Part(g, n)
           h == [n \in Nat |-> G(n)[n]]
<1>3. ASSUME NEW n \in Nat PROVE G(n) \in [0 .. n -> Int] /\ Part(G(n), n)
  BY <1>1
<1> HIDE DEF G, Part
<1>4. h \in [Nat -> Int]
  BY <1>3
<1>5. h[0] = a
  BY <1>3 DEF Part
<1>6. ASSUME NEW n \in Nat PROVE h[n + 1] = S[<<n, h[n]>>]
  <2>1. n + 1 \in Nat /\ n <= n /\ n <= n + 1 /\ n \in 0 .. (n + 1) - 1
    OBVIOUS
  <2>2. G(n)[n] = G(n + 1)[n]
    BY <1>2, <1>3, <2>1
  <2>3. G(n + 1)[n + 1] = S[<<n, G(n + 1)[n]>>]
    BY <1>3, <2>1 DEF Part
  <2> QED BY <2>1, <2>2, <2>3
<1> QED BY <1>4, <1>5, <1>6

\* Powers of two
LEMMA PowerLaw ==
  /\ Power[0] = 1
  /\ \A n \in Nat : Power[n] \in Nat \ {0} /\ Power[n + 1] = 2 * Power[n]
<1> DEFINE S == [w \in Nat \X Int |-> 2 * w[2]]
           rec(h) == [n \in Nat |-> IF n = 0 THEN 1 ELSE 2 * h[n - 1]]
<1>1. S \in [Nat \X Int -> Int]
  OBVIOUS
<1>2. Power = CHOOSE h : h = rec(h)
  BY DEF Power
<1>3. \A n \in Nat, z \in Int : S[<<n, z>>] = 2 * z
  OBVIOUS
<1>4. \E g \in [Nat -> Int] : g[0] = 1 /\ \A n \in Nat : g[n + 1] = S[<<n, g[n]>>]
  <2> HIDE DEF S
  <2>1. \A a \in Int : \E g \in [Nat -> Int] :
          g[0] = a /\ \A n \in Nat : g[n + 1] = S[<<n, g[n]>>]
    BY <1>1, Recursion
  <2>2. 1 \in Int
    OBVIOUS
  <2> QED BY <2>1, <2>2, Zenon
<1> HIDE DEF S
<1>5. PICK g \in [Nat -> Int] : g[0] = 1 /\ \A n \in Nat : g[n + 1] = S[<<n, g[n]>>]
  BY <1>4
<1>6. g = rec(g)
  <2>1. ASSUME NEW n \in Nat PROVE g[n] = rec(g)[n]
    <3>1. CASE n = 0
      BY <1>5, <3>1
    <3>2. CASE n # 0
      <4>1. n - 1 \in Nat /\ (n - 1) + 1 = n /\ g[n - 1] \in Int
        BY <3>2
      <4>2. g[(n - 1) + 1] = 2 * g[n - 1]
        BY <1>3, <1>5, <4>1
      <4> QED BY <3>2, <4>1, <4>2
    <3> QED BY <3>1, <3>2
  <2>2. g = [n \in Nat |-> g[n]] /\ rec(g) = [n \in Nat |-> rec(g)[n]]
    OBVIOUS
  <2> HIDE DEF rec
  <2> QED BY <2>1, <2>2
<1>7. Power = rec(Power)
  <2> HIDE DEF rec
  <2> QED BY <1>2, <1>6
<1>8. \A n \in Nat : Power[n] = IF n = 0 THEN 1 ELSE 2 * Power[n - 1]
  BY <1>7
<1>9. Power[0] = 1
  BY <1>8
<1>10. ASSUME NEW n \in Nat PROVE Power[n + 1] = 2 * Power[n]
  <2>1. n + 1 \in Nat /\ n + 1 # 0 /\ (n + 1) - 1 = n
    OBVIOUS
  <2>2. Power[n + 1] = 2 * Power[(n + 1) - 1]
    BY <1>8, <2>1
  <2> QED BY <2>1, <2>2
<1>11. \A n \in Nat : Power[n] \in Nat \ {0}
  <2> DEFINE T == {n \in Nat : Power[n] \in Nat \ {0}}
  <2>1. 0 \in T
    BY <1>9
  <2>2. ASSUME NEW n \in T PROVE n + 1 \in T
    BY <1>10
  <2>3. T \in SUBSET Nat
    OBVIOUS
  <2> HIDE DEF T
  <2>4. T = Nat
    BY <2>1, <2>2, <2>3, Induction
  <2> QED BY <2>4 DEF T
<1> QED BY <1>9, <1>10, <1>11

\* The modulus of the integers is even.
LEMMA ModulusLaw ==
  /\ Power[Bits] \in Nat /\ Power[Bits] >= 2
  /\ Power[Bits - 1] \in Nat /\ Power[Bits] = 2 * Power[Bits - 1]
<1>1. Bits \in Nat /\ Bits - 1 \in Nat /\ (Bits - 1) + 1 = Bits
  BY BackendAssumption DEF BackendAssumption
<1>2. Power[(Bits - 1) + 1] = 2 * Power[Bits - 1] /\ Power[Bits - 1] \in Nat \ {0}
  BY <1>1, PowerLaw
<1> QED BY <1>1, <1>2

\* What is put together bit by bit is an integer.
LEMMA BitwiseLaw ==
  ASSUME NEW F, NEW m \in Nat, NEW n \in Nat
  PROVE  BitByBit(F, m, n) \in Ints
<1> DEFINE Bit(k) == ((m \div Power[k]) % 2) + ((n \div Power[k]) % 2) \in F
           one(k) == IF Bit(k) THEN Power[k] ELSE 0
           S == [w \in Nat \X Int |-> w[2] + one(w[1])]
           rec(h) == [k \in Nat |-> IF k = 0 THEN 0 ELSE h[k - 1] + one(k - 1)]
           Low == CHOOSE h : h = rec(h)
<1>1. BitByBit(F, m, n) = Low[Bits]
  BY DEF BitByBit
<1> HIDE DEF Bit
<1>2. \A k \in Nat : one(k) \in Int /\ one(k) \in 0 .. Power[k]
  BY PowerLaw
<1> HIDE DEF one
<1>3. S \in [Nat \X Int -> Int]
  BY <1>2
<1>4. \A k \in Nat, z \in Int : S[<<k, z>>] = z + one(k)
  OBVIOUS
<1>5. \E g \in [Nat -> Int] : g[0] = 0 /\ \A k \in Nat : g[k + 1] = S[<<k, g[k]>>]
  <2> HIDE DEF S
  <2>1. \A a \in Int : \E g \in [Nat -> Int] :
          g[0] = a /\ \A k \in Nat : g[k + 1] = S[<<k, g[k]>>]
    BY <1>3, Recursion
  <2>2. 0 \in Int
    OBVIOUS
  <2> QED BY <2>1, <2>2, Zenon
<1> HIDE DEF S
<1>6. PICK g \in [Nat -> Int] : g[0] = 0 /\ \A k \in Nat : g[k + 1] = S[<<k, g[k]>>]
  BY <1>5
<1>7. g = rec(g)
  <2>1. ASSUME NEW k \in Nat PROVE g[k] = rec(g)[k]
    <3>1. CASE k = 0
      BY <1>6, <3>1
    <3>2. CASE k # 0
      <4>1. k - 1 \in Nat /\ (k - 1) + 1 = k /\ g[k - 1] \in Int
        BY <3>2
      <4>2. g[(k - 1) + 1] = g[k - 1] + one(k - 1)
        BY <1>4, <1>6, <4>1
      <4> QED BY <3>2, <4>1, <4>2
    <3> QED BY <3>1, <3>2
  <2>2. g = [k \in Nat |-> g[k]] /\ rec(g) = [k \in Nat |-> rec(g)[k]]
    OBVIOUS
  <2> HIDE DEF rec
  <2> QED BY <2>1, <2>2
<1>8. Low = rec(Low)
  <2> HIDE DEF rec
  <2> QED BY <1>7
<1> HIDE DEF Low
<1>9. \A k \in Nat : Low[k] = IF k = 0 THEN 0 ELSE Low[k - 1] + one(k - 1)
  BY <1>8
<1> DEFINE T == {k \in Nat : Low[k] \in 0 .. Power[k] - 1}
<1>10. 0 \in T
  BY <1>9, PowerLaw
<1>11. ASSUME NEW k \in T PROVE k + 1 \in T
  <2>1. k \in Nat /\ k + 1 \in Nat /\ k + 1 # 0 /\ (k + 1) - 1 = k
    OBVIOUS
  <2>2. Low[k + 1] = Low[(k + 1) - 1] + one((k + 1) - 1)
    BY <1>9, <2>1
  <2>3. Low[k + 1] = Low[k] + one(k)
    BY <2>1, <2>2
  <2>4. Power[k + 1] = 2 * Power[k] /\ Power[k] \in Nat \ {0}
    BY <2>1, PowerLaw
  <2>5. one(k) \in 0 .. Power[k] /\ Low[k] \in 0 .. Power[k] - 1
    BY <1>2, <2>1
  <2>6. Low[k + 1] \in 0 .. Power[k + 1] - 1
    BY <2>3, <2>4, <2>5
  <2> QED BY <2>1, <2>6
<1>12. T \in SUBSET Nat
  OBVIOUS
<1> HIDE DEF T
<1>13. T = Nat
  BY <1>10, <1>11, <1>12, Induction
<1>14. Low[Bits] \in 0 .. Power[Bits] - 1
  BY <1>13, BackendAssumption DEF T, BackendAssumption
<1> QED BY <1>1, <1>14 DEF Ints

-----------------------------------------------------------------------------
(***************************************************************************)
(* Division and remainder                                                  *)
(***************************************************************************)

LEMMA Remainder ==
  ASSUME NEW z \in Int, NEW L \in Nat \ {0}
  PROVE  z % L \in 0 .. L - 1 /\ z \div L \in Int /\ z = L * (z \div L) + (z % L)
OBVIOUS

\* There is one quotient, and one remainder.
LEMMA Unique ==
  ASSUME NEW L \in Nat \ {0}, NEW q \in Int, NEW r \in 0 .. L - 1,
         NEW z, z = L * q + r
  PROVE  z \div L = q /\ z % L = r
<1> DEFINE u == z \div L
           s == z % L
<1>1. z \in Int
  OBVIOUS
<1>2. u \in Int /\ s \in 0 .. L - 1 /\ z = L * u + s
  BY <1>1, Remainder
<1> HIDE DEF u, s
<1>3. L * u \in Int /\ L * q \in Int /\ L * u + s = L * q + r
  BY <1>2
<1>4. ASSUME NEW a \in Int, NEW b \in Int, a + 1 <= b PROVE L * a + L <= L * b
  BY <1>4
<1>5. ~(u + 1 <= q)
  BY <1>2, <1>3, <1>4
<1>6. ~(q + 1 <= u)
  BY <1>2, <1>3, <1>4
<1>7. u = q
  BY <1>2, <1>5, <1>6
<1>8. s = r
  BY <1>2, <1>3, <1>7
<1> QED BY <1>7, <1>8 DEF u, s

\* A quotient of natural numbers is not greater than the dividend.
LEMMA Smaller ==
  ASSUME NEW m \in Nat, NEW n \in Nat \ {0}
  PROVE  m \div n \in 0 .. m /\ m % n \in 0 .. n - 1 /\ m = n * (m \div n) + (m % n)
<1> DEFINE u == m \div n
           s == m % n
<1>1. u \in Int /\ s \in 0 .. n - 1 /\ m = n * u + s
  BY Remainder
<1> HIDE DEF u, s
<1>2. ASSUME NEW a \in Int, a <= -1 PROVE n * a <= -n
  BY <1>2
<1>3. n * u \in Int
  BY <1>1
<1>4. u >= 0
  BY <1>1, <1>2, <1>3
<1>5. n * u >= u
  BY <1>1, <1>4
<1> QED BY <1>1, <1>3, <1>4, <1>5 DEF u, s

\* Ints are the integers modulo Power[Bits].
LEMMA WrapLaw ==
  /\ \A z \in Int : Wrap(z) \in Ints
  /\ \A n \in Ints : n \in Nat /\ Wrap(n) = n
  /\ \A n \in Ints : n # 0 => Wrap(-n) = Power[Bits] - n
  /\ \A z \in Int : Wrap(Power[Bits] + z) = Wrap(z)
<1> DEFINE M == Power[Bits]
<1>1. M \in Nat \ {0}
  BY ModulusLaw
<1>2. ASSUME NEW z \in Int PROVE Wrap(z) \in Ints
  BY <1>1, Remainder DEF Wrap, Ints
<1>3. ASSUME NEW n \in Ints PROVE n \in Nat /\ Wrap(n) = n
  <2>1. n \in 0 .. M - 1 /\ n = M * 0 + n
    BY <1>1 DEF Ints
  <2>2. 0 \in Int
    OBVIOUS
  <2> HIDE DEF M
  <2>3. n % M = n
    BY <1>1, <2>1, <2>2, Unique
  <2> QED BY <2>1, <2>3 DEF Wrap, M
<1>4. ASSUME NEW n \in Ints, n # 0 PROVE Wrap(-n) = M - n
  <2>1. M - n \in 0 .. M - 1 /\ -n = M * (-1) + (M - n) /\ -1 \in Int
    BY <1>1, <1>4 DEF Ints
  <2> HIDE DEF M
  <2>2. PICK z \in Int, q \in Int, k \in 0 .. M - 1 :
          z = -n /\ q = -1 /\ k = M - n /\ z = M * q + k
    BY <1>1, <2>1
  <2>3. z % M = k
    <3>1. M \in Nat \ {0} /\ q \in Int /\ k \in 0 .. M - 1 /\ z = M * q + k
      BY <1>1, <2>2
    <3> QED BY <3>1, Unique
  <2> QED BY <2>2, <2>3 DEF Wrap, M
<1>5. ASSUME NEW z \in Int PROVE Wrap(M + z) = Wrap(z)
  <2> DEFINE u == z \div M
             s == z % M
  <2>1. u \in Int /\ s \in 0 .. M - 1 /\ z = M * u + s
    BY <1>1, Remainder
  <2> HIDE DEF u, s, M
  <2>2. u + 1 \in Int /\ M + z = M * (u + 1) + s
    BY <1>1, <2>1
  <2>3. (M + z) % M = s
    BY <1>1, <2>1, <2>2, Unique
  <2> QED BY <2>3 DEF Wrap, s, M
<1> QED BY <1>2, <1>3, <1>4, <1>5

\* The sign of an integer, and what the theory of bit vectors makes of it
LEMMA SignLaw ==
  ASSUME NEW n \in Ints
  PROVE  /\ Signed(n) \in Int /\ Magnitude(n) \in Ints /\ Negated(n) \in Ints
         /\ Signed(n) < 0 => Signed(n) = n - Power[Bits] /\ Magnitude(n) = -Signed(n)
         /\ ~(Signed(n) < 0) => Signed(n) = n /\ Magnitude(n) = n
         /\ Magnitude(n) = Abs(Signed(n))
         /\ n # 0 => Magnitude(n) # 0
<1>1. Power[Bits] \in Nat /\ Power[Bits] >= 2
  BY ModulusLaw
<1>2. n \in 0 .. Power[Bits] - 1
  BY DEF Ints
<1>3. Signed(n) \in Int
  BY <1>1, <1>2 DEF Signed
<1>4. Negated(n) \in Ints
  BY <1>2, WrapLaw DEF Negated
<1>5. CASE Signed(n) < 0
  <2>1. Signed(n) = n - Power[Bits] /\ n # 0
    BY <1>1, <1>2, <1>5 DEF Signed
  <2>2. Magnitude(n) = Power[Bits] - n
    BY <1>5, <2>1, WrapLaw DEF Magnitude, Negated
  <2>3. Power[Bits] - n \in Ints /\ Power[Bits] - n # 0
    BY <1>1, <1>2, <2>1 DEF Ints
  <2>4. -Signed(n) = Power[Bits] - n /\ Abs(Signed(n)) = -Signed(n)
    BY <1>1, <1>2, <1>5, <2>1 DEF Abs
  <2> QED BY <1>3, <1>4, <1>5, <2>1, <2>2, <2>3, <2>4
<1>6. CASE ~(Signed(n) < 0)
  <2>1. Signed(n) = n
    BY <1>1, <1>2, <1>6 DEF Signed
  <2>2. Magnitude(n) = n
    BY <1>6 DEF Magnitude
  <2>3. Abs(Signed(n)) = n
    BY <1>6, <2>1 DEF Abs
  <2> QED BY <1>3, <1>4, <1>6, <2>1, <2>2, <2>3
<1> QED BY <1>5, <1>6

-----------------------------------------------------------------------------
(***************************************************************************)
(* Integer arithmetic: the theory of bit vectors does what the processor   *)
(* does, wherever that is defined.                                         *)
(***************************************************************************)

LEMMA SubRight ==
  ASSUME NEW m \in Ints, NEW n \in Ints
  PROVE  Wrap(m + Negated(n)) = Wrap(m - n)
<1>1. m \in Nat /\ n \in Nat /\ Power[Bits] \in Nat
  BY WrapLaw, ModulusLaw
<1>2. CASE n = 0
  <2>1. -n = n
    <3>1. \A k \in Int : k <= 0 /\ k >= 0 => -k = k
      OBVIOUS
    <3>2. n <= 0 /\ n >= 0 /\ n \in Int
      BY <1>1, <1>2
    <3> QED BY <3>1, <3>2, Zenon
  <2>2. Negated(n) = n
    BY <2>1, WrapLaw DEF Negated
  <2> QED BY <1>1, <1>2, <2>2
<1>3. CASE n # 0
  <2>1. Negated(n) = Power[Bits] - n
    BY <1>3, WrapLaw DEF Negated
  <2>2. m + Negated(n) = Power[Bits] + (m - n) /\ m - n \in Int
    BY <1>1, <2>1
  <2> QED BY <2>2, WrapLaw
<1> QED BY <1>2, <1>3

\* The quotient of two magnitudes, and the remainder
LEMMA MagnitudeDivision ==
  ASSUME NEW m \in Ints, NEW n \in Ints, n # 0
  PROVE  LET a == Magnitude(m)
             b == Magnitude(n)
         IN  /\ a \in Nat /\ b \in Nat \ {0}
             /\ a \div b \in Ints /\ a % b \in Ints
             /\ a = b * (a \div b) + (a % b)
<1>1. Magnitude(m) \in Ints /\ Magnitude(n) \in Ints /\ Magnitude(n) # 0
  BY SignLaw
<1>2. ASSUME NEW a \in Ints, NEW b \in Ints, b # 0
      PROVE  /\ a \in Nat /\ b \in Nat \ {0}
             /\ a \div b \in Ints /\ a % b \in Ints
             /\ a = b * (a \div b) + (a % b)
  <2>1. a \in Nat /\ b \in Nat \ {0} /\ a \in 0 .. Power[Bits] - 1 /\ b \in 0 .. Power[Bits] - 1
    BY <1>2, ModulusLaw DEF Ints
  <2>2. a \div b \in 0 .. a /\ a % b \in 0 .. b - 1 /\ a = b * (a \div b) + (a % b)
    BY <2>1, Smaller
  <2> DEFINE u == a \div b
             s == a % b
  <2>3. u \in 0 .. a /\ s \in 0 .. b - 1
    BY <2>2
  <2> HIDE DEF u, s
  <2>4. u \in 0 .. Power[Bits] - 1 /\ s \in 0 .. Power[Bits] - 1
    BY <2>1, <2>3, ModulusLaw
  <2> QED BY <2>1, <2>2, <2>4 DEF Ints, u, s
<1> QED BY <1>1, <1>2

LEMMA SDivRight ==
  ASSUME NEW m \in Ints, NEW n \in Ints, n # 0
  PROVE  Bitvector("SDiv", m, n) = Wrap(Quotient(Signed(m), Signed(n)))
<1> DEFINE a == Magnitude(m)
           b == Magnitude(n)
           q == a \div b
<1>1. q \in Ints /\ b # 0
  BY MagnitudeDivision
<1>2. a = Abs(Signed(m)) /\ b = Abs(Signed(n))
  BY SignLaw
<1>3. Ratio(a, b) = q
  BY <1>1 DEF Ratio
<1>4. Quotient(Signed(m), Signed(n)) = IF (Signed(m) < 0) = (Signed(n) < 0) THEN q ELSE -q
  BY <1>2 DEF Quotient
<1>5. Bitvector("SDiv", m, n) =
        IF (Signed(m) < 0) = (Signed(n) < 0) THEN Ratio(a, b) ELSE Negated(Ratio(a, b))
  BY DEF Bitvector
<1> HIDE DEF a, b, q
<1>6. Wrap(q) = q /\ Negated(q) = Wrap(-q)
  BY <1>1, WrapLaw DEF Negated
<1> QED BY <1>3, <1>4, <1>5, <1>6

LEMMA SRemRight ==
  ASSUME NEW m \in Ints, NEW n \in Ints, n # 0
  PROVE  Bitvector("SRem", m, n) =
           Wrap(Signed(m) - Signed(n) * Quotient(Signed(m), Signed(n)))
<1> DEFINE a == Magnitude(m)
           b == Magnitude(n)
           q == a \div b
           s == a % b
           x == Signed(m)
           y == Signed(n)
<1>1. q \in Ints /\ s \in Ints /\ b # 0 /\ a = b * q + s /\ a \in Nat /\ b \in Nat
  BY MagnitudeDivision
<1>2. q \in Nat /\ s \in Nat
  BY <1>1, WrapLaw
<1>3. a = Abs(x) /\ b = Abs(y) /\ x \in Int /\ y \in Int
  BY SignLaw
<1>4. /\ x < 0 => x = -a
      /\ ~(x < 0) => x = a
      /\ y < 0 => y = -b
      /\ ~(y < 0) => y = b
  BY <1>3 DEF Abs
<1>5. Rest(a, b) = s
  BY <1>1 DEF Rest
<1>6. Quotient(x, y) = IF (x < 0) = (y < 0) THEN q ELSE -q
  BY <1>3 DEF Quotient
<1>7. Bitvector("SRem", m, n) = IF x < 0 THEN Negated(Rest(a, b)) ELSE Rest(a, b)
  BY DEF Bitvector
<1> HIDE DEF a, b, q, s, x, y
<1>8. b * q \in Int
  BY <1>1, <1>2
<1>9. y * Quotient(x, y) = IF x < 0 THEN -(b * q) ELSE b * q
  <2>1. (-b) * q = -(b * q) /\ b * (-q) = -(b * q) /\ (-b) * (-q) = b * q
    BY <1>1, <1>2
  <2>2. CASE x < 0 /\ y < 0
    BY <1>4, <1>6, <2>1, <2>2
  <2>3. CASE x < 0 /\ ~(y < 0)
    BY <1>4, <1>6, <2>1, <2>3
  <2>4. CASE ~(x < 0) /\ y < 0
    BY <1>4, <1>6, <2>1, <2>4
  <2>5. CASE ~(x < 0) /\ ~(y < 0)
    BY <1>4, <1>6, <2>1, <2>5
  <2> QED BY <2>2, <2>3, <2>4, <2>5
<1>10. ASSUME x < 0 PROVE Bitvector("SRem", m, n) = Wrap(x - y * Quotient(x, y))
  <2>1. x - y * Quotient(x, y) = -s
    BY <1>1, <1>2, <1>4, <1>8, <1>9, <1>10
  <2> QED BY <1>5, <1>7, <1>10, <2>1 DEF Negated
<1>11. ASSUME ~(x < 0) PROVE Bitvector("SRem", m, n) = Wrap(x - y * Quotient(x, y))
  <2>1. x - y * Quotient(x, y) = s
    BY <1>1, <1>2, <1>4, <1>8, <1>9, <1>11
  <2>2. Wrap(s) = s
    BY <1>1, WrapLaw
  <2> QED BY <1>5, <1>7, <1>11, <2>1, <2>2
<1> QED BY <1>10, <1>11 DEF x, y

\* Shifting to the right
LEMMA ShiftedLaw ==
  ASSUME NEW m \in Ints, NEW n \in Nat
  PROVE  Shifted(m, n) \in Ints /\ Shifted(m, n) \in 0 .. m
<1>1. m \in Nat /\ Power[n] \in Nat \ {0} /\ m \in 0 .. Power[Bits] - 1 /\ Power[Bits] \in Nat
  BY PowerLaw, WrapLaw, ModulusLaw DEF Ints
<1>2. m \div Power[n] \in 0 .. m
  BY <1>1, Smaller
<1> DEFINE u == m \div Power[n]
<1>3. u \in 0 .. m
  BY <1>2
<1> HIDE DEF u
<1>4. u \in 0 .. Power[Bits] - 1
  BY <1>1, <1>3
<1> QED BY <1>3, <1>4 DEF u, Shifted, Ints

LEMMA AShrRight ==
  ASSUME NEW m \in Ints, NEW n \in Nat
  PROVE  Bitvector("AShr", m, n) = Wrap(Signed(m) \div Power[n])
<1> DEFINE M == Power[Bits]
           P == Power[n]
<1>1. M \in Nat /\ M >= 2 /\ P \in Nat \ {0} /\ m \in 0 .. M - 1
  BY PowerLaw, ModulusLaw DEF Ints
<1>2. Bitvector("AShr", m, n) =
        IF Signed(m) < 0 THEN M - 1 - Shifted(M - 1 - m, n) ELSE Shifted(m, n)
  BY DEF Bitvector
<1>3. CASE Signed(m) < 0
  <2> DEFINE c == M - 1 - m
             k == c \div P
             s == c % P
  <2>1. c \in 0 .. M - 1 /\ c \in Nat /\ Signed(m) = -1 - c
    <3>1. Signed(m) = m - M
      BY <1>3, SignLaw
    <3> QED BY <1>1, <3>1
  <2>2. k \in 0 .. c /\ s \in 0 .. P - 1 /\ c = P * k + s
    BY <1>1, <2>1, Smaller
  <2>3. Shifted(c, n) = k
    BY DEF Shifted
  <2> HIDE DEF c, k, s, M, P
  <2>4. -1 - k \in Int /\ P - 1 - s \in 0 .. P - 1 /\ P * k \in Int
    BY <1>1, <2>1, <2>2
  <2>5. P * (-1 - k) = -P - P * k
    BY <1>1, <2>1, <2>2
  <2>6. -1 - c = P * (-1 - k) + (P - 1 - s)
    BY <1>1, <2>1, <2>2, <2>4, <2>5
  <2>7. Signed(m) \div P = -1 - k
    BY <1>1, <2>1, <2>4, <2>6, Unique
  <2>8. M - 1 - k \in 0 .. M - 1 /\ M + (-1 - k) = M - 1 - k
    BY <1>1, <2>1, <2>2
  <2>9. Wrap(M + (-1 - k)) = Wrap(-1 - k)
    BY <2>4, WrapLaw DEF M
  <2>10. Wrap(M - 1 - k) = M - 1 - k
    BY <2>8, WrapLaw DEF M, Ints
  <2>11. Bitvector("AShr", m, n) = M - 1 - k
    BY <1>2, <1>3, <2>3 DEF c
  <2>12. Wrap(Signed(m) \div P) = M - 1 - k
    BY <2>7, <2>8, <2>9, <2>10
  <2> QED BY <2>11, <2>12 DEF P
<1>4. CASE ~(Signed(m) < 0)
  <2>1. Signed(m) = m
    BY <1>4, SignLaw
  <2>2. Shifted(m, n) \in Ints
    BY ShiftedLaw
  <2>3. Wrap(Shifted(m, n)) = Shifted(m, n)
    BY <2>2, WrapLaw
  <2>4. Bitvector("AShr", m, n) = Shifted(m, n)
    BY <1>2, <1>4
  <2> QED BY <2>1, <2>3, <2>4 DEF Shifted
<1> QED BY <1>3, <1>4

\* Either backend means by a builder what the other does.
LEMMA HandlersAgree ==
  ASSUME NEW op \in Opcodes, NEW m \in Ints, NEW n \in Ints
  PROVE  Built(op, m, n) = Bitvector(op, m, n)
<1>1. Built(op, m, n) \in {Bitvector(SimpleBuilder(Handler(op)), m, n),
                           Bitvector(QsymBuilder(Handler(op)), m, n)}
  BY DEF Built
<1>2. /\ QsymBuilder(Handler(op)) = op
      /\ Bitvector(SimpleBuilder(Handler(op)), m, n) = Bitvector(op, m, n)
  <2>1. CASE op = "Add"
    <3>1. Handler(op) = "add"
      BY <2>1 DEF Handler
    <3>2. SimpleBuilder(Handler(op)) = "bvadd"
      BY <3>1 DEF SimpleBuilder
    <3>3. QsymBuilder(Handler(op)) = "Add"
      BY <3>1 DEF QsymBuilder
    <3>4. Bitvector("bvadd", m, n) = Bitvector("Add", m, n)
      BY DEF Bitvector
    <3> QED BY <2>1, <3>2, <3>3, <3>4
  <2>2. CASE op = "Sub"
    <3>1. Handler(op) = "sub"
      BY <2>2 DEF Handler
    <3>2. SimpleBuilder(Handler(op)) = "bvsub"
      BY <3>1 DEF SimpleBuilder
    <3>3. QsymBuilder(Handler(op)) = "Sub"
      BY <3>1 DEF QsymBuilder
    <3>4. Bitvector("bvsub", m, n) = Bitvector("Sub", m, n)
      BY DEF Bitvector
    <3> QED BY <2>2, <3>2, <3>3, <3>4
  <2>3. CASE op = "Mul"
    <3>1. Handler(op) = "mul"
      BY <2>3 DEF Handler
    <3>2. SimpleBuilder(Handler(op)) = "bvmul"
      BY <3>1 DEF SimpleBuilder
    <3>3. QsymBuilder(Handler(op)) = "Mul"
      BY <3>1 DEF QsymBuilder
    <3>4. Bitvector("bvmul", m, n) = Bitvector("Mul", m, n)
      BY DEF Bitvector
    <3> QED BY <2>3, <3>2, <3>3, <3>4
  <2>4. CASE op = "UDiv"
    <3>1. Handler(op) = "unsigned_div"
      BY <2>4 DEF Handler
    <3>2. SimpleBuilder(Handler(op)) = "bvudiv"
      BY <3>1 DEF SimpleBuilder
    <3>3. QsymBuilder(Handler(op)) = "UDiv"
      BY <3>1 DEF QsymBuilder
    <3>4. Bitvector("bvudiv", m, n) = Bitvector("UDiv", m, n)
      BY DEF Bitvector
    <3> QED BY <2>4, <3>2, <3>3, <3>4
  <2>5. CASE op = "SDiv"
    <3>1. Handler(op) = "signed_div"
      BY <2>5 DEF Handler
    <3>2. SimpleBuilder(Handler(op)) = "bvsdiv"
      BY <3>1 DEF SimpleBuilder
    <3>3. QsymBuilder(Handler(op)) = "SDiv"
      BY <3>1 DEF QsymBuilder
    <3>4. Bitvector("bvsdiv", m, n) = Bitvector("SDiv", m, n)
      BY DEF Bitvector
    <3> QED BY <2>5, <3>2, <3>3, <3>4
  <2>6. CASE op = "URem"
    <3>1. Handler(op) = "unsigned_rem"
      BY <2>6 DEF Handler
    <3>2. SimpleBuilder(Handler(op)) = "bvurem"
      BY <3>1 DEF SimpleBuilder
    <3>3. QsymBuilder(Handler(op)) = "URem"
      BY <3>1 DEF QsymBuilder
    <3>4. Bitvector("bvurem", m, n) = Bitvector("URem", m, n)
      BY DEF Bitvector
    <3> QED BY <2>6, <3>2, <3>3, <3>4
  <2>7. CASE op = "SRem"
    <3>1. Handler(op) = "signed_rem"
      BY <2>7 DEF Handler
    <3>2. SimpleBuilder(Handler(op)) = "bvsrem"
      BY <3>1 DEF SimpleBuilder
    <3>3. QsymBuilder(Handler(op)) = "SRem"
      BY <3>1 DEF QsymBuilder
    <3>4. Bitvector("bvsrem", m, n) = Bitvector("SRem", m, n)
      BY DEF Bitvector
    <3> QED BY <2>7, <3>2, <3>3, <3>4
  <2>8. CASE op = "Shl"
    <3>1. Handler(op) = "shift_left"
      BY <2>8 DEF Handler
    <3>2. SimpleBuilder(Handler(op)) = "bvshl"
      BY <3>1 DEF SimpleBuilder
    <3>3. QsymBuilder(Handler(op)) = "Shl"
      BY <3>1 DEF QsymBuilder
    <3>4. Bitvector("bvshl", m, n) = Bitvector("Shl", m, n)
      BY DEF Bitvector
    <3> QED BY <2>8, <3>2, <3>3, <3>4
  <2>9. CASE op = "LShr"
    <3>1. Handler(op) = "logical_shift_right"
      BY <2>9 DEF Handler
    <3>2. SimpleBuilder(Handler(op)) = "bvlshr"
      BY <3>1 DEF SimpleBuilder
    <3>3. QsymBuilder(Handler(op)) = "LShr"
      BY <3>1 DEF QsymBuilder
    <3>4. Bitvector("bvlshr", m, n) = Bitvector("LShr", m, n)
      BY DEF Bitvector
    <3> QED BY <2>9, <3>2, <3>3, <3>4
  <2>10. CASE op = "AShr"
    <3>1. Handler(op) = "arithmetic_shift_right"
      BY <2>10 DEF Handler
    <3>2. SimpleBuilder(Handler(op)) = "bvashr"
      BY <3>1 DEF SimpleBuilder
    <3>3. QsymBuilder(Handler(op)) = "AShr"
      BY <3>1 DEF QsymBuilder
    <3>4. Bitvector("bvashr", m, n) = Bitvector("AShr", m, n)
      BY DEF Bitvector
    <3> QED BY <2>10, <3>2, <3>3, <3>4
  <2>11. CASE op = "And"
    <3>1. Handler(op) = "and"
      BY <2>11 DEF Handler
    <3>2. SimpleBuilder(Handler(op)) = "bvand"
      BY <3>1 DEF SimpleBuilder
    <3>3. QsymBuilder(Handler(op)) = "And"
      BY <3>1 DEF QsymBuilder
    <3>4. Bitvector("bvand", m, n) = Bitvector("And", m, n)
      BY DEF Bitvector
    <3> QED BY <2>11, <3>2, <3>3, <3>4
  <2>12. CASE op = "Or"
    <3>1. Handler(op) = "or"
      BY <2>12 DEF Handler
    <3>2. SimpleBuilder(Handler(op)) = "bvor"
      BY <3>1 DEF SimpleBuilder
    <3>3. QsymBuilder(Handler(op)) = "Or"
      BY <3>1 DEF QsymBuilder
    <3>4. Bitvector("bvor", m, n) = Bitvector("Or", m, n)
      BY DEF Bitvector
    <3> QED BY <2>12, <3>2, <3>3, <3>4
  <2>13. CASE op = "Xor"
    <3>1. Handler(op) = "xor"
      BY <2>13 DEF Handler
    <3>2. SimpleBuilder(Handler(op)) = "bvxor"
      BY <3>1 DEF SimpleBuilder
    <3>3. QsymBuilder(Handler(op)) = "Xor"
      BY <3>1 DEF QsymBuilder
    <3>4. Bitvector("bvxor", m, n) = Bitvector("Xor", m, n)
      BY DEF Bitvector
    <3> QED BY <2>13, <3>2, <3>3, <3>4
  <2> QED BY <2>1, <2>2, <2>3, <2>4, <2>5, <2>6, <2>7, <2>8, <2>9, <2>10, <2>11, <2>12, <2>13 DEF Opcodes, Divisions, Shifts, Logical
<1> QED BY <1>1, <1>2

\* Bit vectors are always bit vectors.
LEMMA BitvectorType ==
  ASSUME NEW op \in Opcodes, NEW m \in Ints, NEW n \in Ints
  PROVE  Bitvector(op, m, n) \in Ints
<1>1. /\ m \in Nat /\ n \in Nat /\ Negated(n) \in Ints /\ Power[n] \in Int
      /\ Magnitude(m) \in Ints /\ Magnitude(n) \in Ints
  BY WrapLaw, SignLaw, PowerLaw
<1>2. Negated(n) \in Int
  <2>1. \A k \in Ints : k \in Int
    BY WrapLaw
  <2> QED BY <1>1, <2>1
<1>3. ASSUME NEW a \in Ints, NEW b \in Ints PROVE Ratio(a, b) \in Ints /\ Rest(a, b) \in Ints
  <2>1. a \in Nat /\ b \in Nat /\ a \in 0 .. Power[Bits] - 1 /\ b \in 0 .. Power[Bits] - 1
    BY WrapLaw DEF Ints
  <2>2. CASE b = 0
    BY <2>1, <2>2, ModulusLaw DEF Ratio, Rest, Ints
  <2>3. CASE b # 0
    <3>1. a \div b \in 0 .. a /\ a % b \in 0 .. b - 1
      BY <2>1, <2>3, Smaller
    <3> DEFINE u == a \div b
               s == a % b
    <3>2. u \in 0 .. a /\ s \in 0 .. b - 1
      BY <3>1
    <3> HIDE DEF u, s
    <3>3. u \in 0 .. Power[Bits] - 1 /\ s \in 0 .. Power[Bits] - 1
      BY <2>1, <3>2, ModulusLaw
    <3> QED BY <2>3, <3>3 DEF Ratio, Rest, Ints, u, s
  <2> QED BY <2>2, <2>3
<1>4. ASSUME NEW a \in Ints PROVE Negated(a) \in Ints
  BY <1>4, WrapLaw DEF Negated
<1>5. Wrap(m + n) \in Ints /\ Wrap(m + Negated(n)) \in Ints
  BY <1>1, <1>2, WrapLaw
<1>6. Wrap(m * n) \in Ints /\ Wrap(m * Power[n]) \in Ints
  <2>1. m * n \in Int /\ m * Power[n] \in Int
    BY <1>1
  <2> QED BY <2>1, WrapLaw
<1>7. CASE op = "Add"
  BY <1>5, <1>7 DEF Bitvector
<1>8. CASE op = "Sub"
  BY <1>5, <1>8 DEF Bitvector
<1>9. CASE op = "Mul"
  BY <1>6, <1>9 DEF Bitvector
<1>10. CASE op = "UDiv"
  BY <1>3, <1>10 DEF Bitvector
<1>11. CASE op = "URem"
  BY <1>3, <1>11 DEF Bitvector
<1>12. CASE op = "SDiv"
  <2>1. Ratio(Magnitude(m), Magnitude(n)) \in Ints
    BY <1>1, <1>3
  <2> QED BY <1>4, <1>12, <2>1 DEF Bitvector
<1>13. CASE op = "SRem"
  <2>1. Rest(Magnitude(m), Magnitude(n)) \in Ints
    BY <1>1, <1>3
  <2> QED BY <1>4, <1>13, <2>1 DEF Bitvector
<1>14. CASE op = "Shl"
  BY <1>6, <1>14 DEF Bitvector
<1>15. CASE op = "LShr"
  <2>1. Shifted(m, n) \in Ints
    BY <1>1, ShiftedLaw
  <2> QED BY <1>15, <2>1 DEF Bitvector
<1>16. CASE op = "AShr"
  <2>1. Shifted(m, n) \in Ints
    BY <1>1, ShiftedLaw
  <2> DEFINE c == Power[Bits] - 1 - m
  <2>2. c \in Ints /\ c \in 0 .. Power[Bits] - 1
    BY ModulusLaw DEF Ints
  <2>3. Shifted(c, n) \in 0 .. c
    BY <1>1, <2>2, ShiftedLaw
  <2> HIDE DEF c
  <2>4. Power[Bits] - 1 - Shifted(c, n) \in Ints
    BY <2>2, <2>3, ModulusLaw DEF Ints
  <2> QED BY <1>16, <2>1, <2>4 DEF Bitvector, c
<1>17. CASE op \in Logical
  <2>1. \A F : BitByBit(F, m, n) \in Ints
    BY <1>1, BitwiseLaw
  <2>2. BitByBit({2}, m, n) \in Ints /\ BitByBit({1, 2}, m, n) \in Ints /\ BitByBit({1}, m, n) \in Ints
    BY <2>1
  <2> QED BY <1>17, <2>2 DEF Bitvector, Logical
<1> QED BY <1>7, <1>8, <1>9, <1>10, <1>11, <1>12, <1>13, <1>14, <1>15, <1>16, <1>17
        DEF Opcodes, Divisions, Shifts

\* What is built for an instruction is what it computes.
LEMMA BuiltRight ==
  ASSUME NEW op \in Opcodes, NEW m \in Ints, NEW n \in Ints
  PROVE  /\ Built(op, m, n) \in Ints
         /\ IsDefined(op, m, n) => Built(op, m, n) = Compute(op, m, n)
<1>1. Built(op, m, n) = Bitvector(op, m, n)
  BY HandlersAgree
<1>2. Built(op, m, n) \in Ints
  BY <1>1, BitvectorType
<1>3. ASSUME IsDefined(op, m, n) PROVE Bitvector(op, m, n) = Compute(op, m, n)
  <2>1. m \in Nat /\ n \in Nat
    BY WrapLaw
  <2>2. CASE op \in {"Add", "Mul", "Shl", "LShr"} \cup Logical
    BY <2>2 DEF Bitvector, Compute, Logical, Shifted
  <2>3. CASE op = "Sub"
    BY <2>3, SubRight DEF Bitvector, Compute
  <2>4. CASE op \in Divisions
    <3>1. n # 0
      BY <1>3, <2>4 DEF IsDefined
    <3>2. CASE op = "UDiv"
      BY <3>1, <3>2 DEF Bitvector, Compute, Ratio
    <3>3. CASE op = "URem"
      BY <3>1, <3>3 DEF Bitvector, Compute, Rest
    <3>4. CASE op = "SDiv"
      <4>1. Compute("SDiv", m, n) = Wrap(Quotient(Signed(m), Signed(n)))
        BY DEF Compute
      <4> QED BY <3>1, <3>4, <4>1, SDivRight
    <3>5. CASE op = "SRem"
      <4>1. Compute("SRem", m, n) = Wrap(Signed(m) - Signed(n) * Quotient(Signed(m), Signed(n)))
        BY DEF Compute
      <4> QED BY <3>1, <3>5, <4>1, SRemRight
    <3> QED BY <2>4, <3>2, <3>3, <3>4, <3>5 DEF Divisions
  <2>5. CASE op = "AShr"
    <3>1. Compute("AShr", m, n) = Wrap(Signed(m) \div Power[n])
      BY DEF Compute
    <3> QED BY <2>1, <2>5, <3>1, AShrRight
  <2> QED BY <2>2, <2>3, <2>4, <2>5 DEF Opcodes, Shifts
<1> QED BY <1>1, <1>2, <1>3

-----------------------------------------------------------------------------
(***************************************************************************)
(* Booleans, comparisons and floating-point numbers                        *)
(***************************************************************************)

LEMMA TruthLaw == \A b : Truth(b) \in {0, 1}
BY DEF Truth

\* The processor's logic, and that of either backend
LEMMA BooleanRight ==
  ASSUME NEW op \in Logical, NEW m \in {0, 1}, NEW n \in {0, 1}
  PROVE  LET F == CASE op = "And" -> m * n
                    [] op = "Or"  -> Truth(m + n > 0)
                    [] op = "Xor" -> Truth(m + n = 1)
         IN  F \in {0, 1} /\ SimpleBool(op, m, n) = F /\ QsymBool(op, m, n) = F
<1>1. (0 + 1) % 2 = 1 /\ (1 + 0) % 2 = 1 /\ (1 + 1) % 2 = 0 /\ (0 + 0) % 2 = 0
  OBVIOUS
<1>2. {m, n} = {1} <=> m = 1 /\ n = 1
  OBVIOUS
<1>3. 1 \in {m, n} <=> m = 1 \/ n = 1
  OBVIOUS
<1>4. CASE op = "And"
  BY <1>2, <1>4 DEF SimpleBool, QsymBool, Truth
<1>5. CASE op = "Or"
  BY <1>3, <1>5 DEF SimpleBool, QsymBool, Truth
<1>6. CASE op = "Xor"
  BY <1>1, <1>6 DEF SimpleBool, QsymBool, Truth
<1> QED BY <1>4, <1>5, <1>6 DEF Logical

LEMMA ICmpRight ==
  ASSUME NEW p \in IntPredicates, NEW m, NEW n
  PROVE  BvCompare(p, m, n) = IntCompare(p, m, n)
BY DEF BvCompare, IntCompare

\* The builders of comparisons do as the processor does, but for one.
LEMMA FCmpRight ==
  ASSUME NEW p \in FloatPredicates, p # <<"O", "NE">>, NEW a, NEW b
  PROVE  FloatBuilder(p, a, b) <=> FloatCompare(p, a, b)
<1>1. p = <<p[1], p[2]>> /\ p[1] \in {"O", "U"} /\ p[2] \in Orders \cup {"EQ", "NE", "ANY"}
  BY DEF FloatPredicates
<1> DEFINE o == p[1]
           rel == p[2]
           near == CASE rel = "ANY" -> Ordered(a, b)
                     [] rel = "NE"  -> ~FpaCompare("EQ", a, b)
                     [] OTHER       -> FpaCompare(rel, a, b)
<1>2. ~(o = "O" /\ rel = "NE")
  BY <1>1
<1>3. FloatBuilder(p, a, b) <=>
        IF o = "O" THEN near ELSE a = NaN \/ b = NaN \/ (rel # "ANY" /\ near)
  BY DEF FloatBuilder
<1>4. FloatCompare(p, a, b) <=>
        IF o = "O" THEN Ordered(a, b) /\ Rel(rel, a, b)
        ELSE Ordered(a, b) => rel # "ANY" /\ Rel(rel, a, b)
  BY DEF FloatCompare
<1>5. Ordered(a, b) <=> ~(a = NaN \/ b = NaN)
  BY DEF Ordered
<1>6. Rel("ANY", a, b) /\ (Rel("NE", a, b) <=> ~Rel("EQ", a, b))
  BY DEF Rel
<1>7. \A x : FpaCompare(x, a, b) <=> Ordered(a, b) /\ Rel(x, a, b)
  BY DEF FpaCompare
<1>8. CASE rel = "ANY"
  <2>1. near <=> Ordered(a, b)
    BY <1>8
  <2> HIDE DEF near, o, rel
  <2> QED BY <1>3, <1>4, <1>5, <1>6, <1>8, <2>1
<1>9. CASE rel = "NE"
  <2>1. near <=> ~FpaCompare("EQ", a, b)
    BY <1>9
  <2> HIDE DEF near, o, rel
  <2> QED BY <1>2, <1>3, <1>4, <1>5, <1>6, <1>7, <1>9, <2>1
<1>10. CASE rel # "ANY" /\ rel # "NE"
  <2>1. near <=> FpaCompare(rel, a, b)
    BY <1>10
  <2> HIDE DEF near, o, rel
  <2> QED BY <1>3, <1>4, <1>5, <1>7, <1>10, <2>1
<1> QED BY <1>8, <1>9, <1>10

\* The type of a floating-point number
Floats == Int \cup {NaN}

LEMMA ClampType == \A z \in Int : Clamp(z) \in Int
BY BackendAssumption DEF BackendAssumption, Clamp

LEMMA QuotientType ==
  ASSUME NEW a \in Int, NEW b \in Int, b # 0
  PROVE  Quotient(a, b) \in Int
<1>1. Abs(a) \in Nat /\ Abs(b) \in Nat \ {0}
  BY DEF Abs
<1>2. Abs(a) \div Abs(b) \in Int
  BY <1>1, Remainder
<1> QED BY <1>2 DEF Quotient

LEMMA FloatType ==
  ASSUME NEW op \in FloatOpcodes, NEW a \in Floats, NEW b \in Floats
  PROVE  FloatCompute(op, a, b) \in Floats
<1>1. CASE ~Ordered(a, b) \/ (op \in {"FDiv", "FRem"} /\ b = 0)
  BY <1>1 DEF FloatCompute, Floats
<1>2. CASE ~(~Ordered(a, b) \/ (op \in {"FDiv", "FRem"} /\ b = 0))
  <2>1. a \in Int /\ b \in Int
    BY <1>2 DEF Ordered, Floats
  <2>2. FloatCompute(op, a, b) =
          CASE op = "FAdd" -> Clamp(a + b)
            [] op = "FSub" -> Clamp(a - b)
            [] op = "FMul" -> Clamp((a * b) \div 2)
            [] op = "FDiv" -> Clamp(Quotient(2 * a, b))
            [] op = "FRem" -> a - b * Quotient(a, b)
    BY <1>2 DEF FloatCompute
  <2>3. CASE op \in {"FAdd", "FSub"}
    <3>1. a + b \in Int /\ a - b \in Int
      BY <2>1
    <3>2. Clamp(a + b) \in Int /\ Clamp(a - b) \in Int
      BY <3>1, ClampType
    <3> QED BY <2>2, <2>3, <3>2 DEF Floats
  <2>4. CASE op = "FMul"
    <3>1. a * b \in Int
      BY <2>1
    <3>2. (a * b) \div 2 \in Int
      BY <3>1
    <3>3. Clamp((a * b) \div 2) \in Int
      BY <3>2, ClampType
    <3> QED BY <2>2, <2>4, <3>3 DEF Floats
  <2>5. CASE op = "FDiv"
    <3>1. 2 * a \in Int /\ b # 0
      BY <1>2, <2>1, <2>5
    <3>2. Quotient(2 * a, b) \in Int
      BY <2>1, <3>1, QuotientType
    <3>3. Clamp(Quotient(2 * a, b)) \in Int
      BY <3>2, ClampType
    <3> QED BY <2>2, <2>5, <3>3 DEF Floats
  <2>6. CASE op = "FRem"
    <3>1. b # 0
      BY <1>2, <2>6
    <3>2. Quotient(a, b) \in Int
      BY <2>1, <3>1, QuotientType
    <3>3. a - b * Quotient(a, b) \in Int
      BY <2>1, <3>2
    <3> QED BY <2>2, <2>6, <3>3 DEF Floats
  <2> QED BY <2>3, <2>4, <2>5, <2>6 DEF FloatOpcodes
<1> QED BY <1>1, <1>2

\* The builders of arithmetic do as the processor does, but for the remainder.
LEMMA FloatArithmeticRight ==
  ASSUME NEW op \in FloatOpcodes, op # "FRem", NEW a, NEW b
  PROVE  FloatArithmetic(op, a, b) = FloatCompute(op, a, b)
BY DEF FloatArithmetic

-----------------------------------------------------------------------------
(***************************************************************************)
(* The inductive invariant.  While no builder has made something else than *)
(* the instruction computes, every expression is right, and what has none  *)
(* is concrete: for all inputs on the path if nothing was lost, and for    *)
(* the input of the process in any case.                                   *)
(***************************************************************************)

Types == {"bool", "int", "float"}
Dom(t) == CASE t = "bool" -> {0, 1} [] t = "int" -> Ints [] t = "float" -> Floats

Clean == gaps \cap Misbuilt = {}

\* The inputs about which expressions are right
Reach == IF gaps = {} THEN alive ELSE {input}

\* What a value is to the solver is right about the inputs in A.
Agrees(v, A) ==
  /\ v.expr \in [Inputs -> Dom(v.type)] \cup {Null}
  /\ \A i \in A : Operand(v)[i] = v.value[i]

Good(v) ==
  /\ v.type \in Types
  /\ v.value \in [Inputs -> Dom(v.type)]
  /\ Clean => Agrees(v, Reach)
  /\ backend = "qsym" /\ v.type = "float" => v.expr = Null

PathInv ==
  /\ input \in alive /\ alive \subseteq defined /\ defined \subseteq Inputs
  /\ asserted \subseteq Inputs
  /\ Clean => input \in asserted
  /\ gaps = {} => asserted \cap defined = alive

RegInv ==
  /\ reg = [r \in Registers |-> reg[r]]
  /\ \A r \in Registers : Good(reg[r])

\* The simple backend's table
TableInv ==
  /\ stdinBytes \in Seq(Nat \cup {Null})
  /\ \A j \in 1 .. Len(stdinBytes) : stdinBytes[j] = Null \/ stdinBytes[j] \in 0 .. j - 1
  /\ \A j, k \in 1 .. Len(stdinBytes) :
       stdinBytes[j] = stdinBytes[k] /\ stdinBytes[j] # Null => j = k

IInv == PathInv /\ RegInv /\ TableInv

\* The integer constants and the floating-point ones have their types.
LEMMA LiteralTypes ==
  /\ 0 \in Ints
  /\ IntLiterals \subseteq Ints /\ Literals \subseteq Floats
  /\ \A t \in Types : Dom(t) \subseteq Floats
  /\ \A i \in Inputs, k \in 0 .. InputLen - 1 : i[k] \in Ints
<1>1. 0 \in Ints
  BY ModulusLaw DEF Ints
<1>2. IntLiterals \subseteq Ints /\ Literals \subseteq Floats
  BY BackendAssumption DEF BackendAssumption, Ints, Floats
<1>3. ASSUME NEW t \in Types PROVE Dom(t) \subseteq Floats
  <2>1. Ints \subseteq Int
    BY WrapLaw
  <2>2. {0, 1} \subseteq Int
    OBVIOUS
  <2> QED BY <2>1, <2>2 DEF Dom, Floats, Types
<1>4. \A i \in Inputs, k \in 0 .. InputLen - 1 : i[k] \in Ints
  BY BackendAssumption DEF BackendAssumption, Ints
<1> QED BY <1>1, <1>2, <1>3, <1>4

\* An expression is something else than a null pointer.
LEMMA SomeExpression ==
  ASSUME NEW t \in Types, NEW f \in [Inputs -> Dom(t)]
  PROVE  f # Null
<1>1. f \in [Inputs -> Floats]
  BY LiteralTypes
<1> QED BY <1>1, NullAssumption DEF NullAssumption, Floats

LEMMA ReachLaw ==
  ASSUME PathInv
  PROVE  /\ input \in Reach /\ Reach \subseteq alive /\ Reach \subseteq Inputs
         /\ input \in Inputs
BY DEF PathInv, Reach

LEMMA ConstGood ==
  ASSUME PathInv, NEW t \in Types, NEW c \in Dom(t)
  PROVE  Good(Const(t, c))
<1> DEFINE v == Const(t, c)
<1>1. v.type = t /\ v.value = [i \in Inputs |-> c] /\ v.expr = Null
  BY DEF Const
<1>2. Operand(v) = [i \in Inputs |-> v.value[input]]
  BY <1>1 DEF Operand
<1> HIDE DEF v
<1>3. v.value[input] = c
  BY <1>1, ReachLaw
<1>4. \A i \in Reach : Operand(v)[i] = v.value[i]
  BY <1>1, <1>2, <1>3, ReachLaw
<1>5. v.value \in [Inputs -> Dom(v.type)]
  BY <1>1
<1>6. Good(v)
  BY <1>1, <1>4, <1>5 DEF Good, Agrees
<1> QED BY <1>6 DEF v

LEMMA LoadedGood ==
  ASSUME RegInv, NEW t, NEW v \in Loaded(t)
  PROVE  Good(v) /\ v.type = t
<1>1. v \in Range(reg) /\ v.type = t
  BY DEF Loaded
<1>2. PICK r \in Registers : v = reg[r]
  BY <1>1 DEF Range, RegInv
<1> QED BY <1>1, <1>2 DEF RegInv

LEMMA OperandsGood ==
  ASSUME PathInv, RegInv, NEW t \in Types, NEW v \in Operands(t)
  PROVE  Good(v) /\ v.type = t
<1>1. CASE v \in Loaded(t)
  BY <1>1, LoadedGood
<1>2. CASE v \notin Loaded(t)
  <2> DEFINE C == CASE t = "bool" -> {0, 1} [] t = "int" -> IntLiterals
                    [] t = "float" -> Literals
  <2>1. C \subseteq Dom(t)
    BY LiteralTypes DEF Types, Dom
  <2>2. v \in {Const(t, c) : c \in C}
    BY <1>2 DEF Operands
  <2> HIDE DEF C
  <2>3. PICK c \in C : v = Const(t, c)
    BY <2>2
  <2> QED BY <2>1, <2>3, ConstGood DEF Const
<1> QED BY <1>1, <1>2

\* What the solver makes of an operand
LEMMA OperandRight ==
  ASSUME PathInv, NEW v, Good(v), Clean
  PROVE  /\ Operand(v) \in [Inputs -> Dom(v.type)]
         /\ \A i \in Reach : Operand(v)[i] = v.value[i]
         /\ v.expr = Null => \A i \in Reach : v.value[i] = v.value[input]
<1>1. Agrees(v, Reach) /\ v.value \in [Inputs -> Dom(v.type)]
  BY DEF Good
<1>2. CASE v.expr = Null
  <2>1. Operand(v) = [i \in Inputs |-> v.value[input]]
    BY <1>2 DEF Operand
  <2>2. v.value[input] \in Dom(v.type)
    BY <1>1, ReachLaw
  <2> QED BY <1>1, <2>1, <2>2, ReachLaw DEF Agrees
<1>3. CASE v.expr # Null
  <2>1. Operand(v) = v.expr
    BY <1>3 DEF Operand
  <2> QED BY <1>1, <1>3, <2>1 DEF Agrees
<1> QED BY <1>2, <1>3

-----------------------------------------------------------------------------
(***************************************************************************)
(* What every instruction has in common                                    *)
(***************************************************************************)

\* The program goes on: it stays on its path, and gaps are not forgotten.
Forward ==
  /\ backend' = backend /\ input' = input
  /\ input \in alive' /\ alive' \subseteq alive
  /\ gaps \subseteq gaps'

LEMMA ForwardLaw ==
  ASSUME PathInv, Forward
  PROVE  /\ Reach' \subseteq Reach /\ Reach' \subseteq Inputs /\ input \in Inputs
         /\ Clean' => Clean
<1>1. CASE gaps' = {}
  <2>1. gaps = {}
    BY <1>1 DEF Forward
  <2>2. Reach' = alive' /\ Reach = alive
    BY <1>1, <2>1 DEF Reach
  <2> QED BY <1>1, <2>1, <2>2, ReachLaw DEF Forward, Clean
<1>2. CASE gaps' # {}
  <2>1. Reach' = {input}
    BY <1>2 DEF Reach, Forward
  <2> QED BY <2>1, ReachLaw DEF Forward, Clean
<1> QED BY <1>1, <1>2

LEMMA GoodKept ==
  ASSUME PathInv, Forward, NEW v, Good(v)
  PROVE  Good(v)'
<1>1. Reach' \subseteq Reach /\ (Clean' => Clean)
  BY ForwardLaw
<1>2. backend' = backend /\ input' = input
  BY DEF Forward
<1>3. v.type \in Types /\ v.value \in [Inputs -> Dom(v.type)]
  BY DEF Good
<1>4. Operand(v)' = Operand(v)
  BY <1>2 DEF Operand
<1>5. ASSUME Clean' PROVE Agrees(v, Reach)'
  <2>1. Agrees(v, Reach)
    BY <1>1, <1>5 DEF Good
  <2> QED BY <1>1, <1>4, <2>1 DEF Agrees
<1>6. backend' = "qsym" /\ v.type = "float" => v.expr = Null
  BY <1>2 DEF Good
<1> QED BY <1>3, <1>5, <1>6 DEF Good

\* A register gets a value, and an expression that is right about it, or none
\* if the value is concrete as far as is promised.
LEMMA RegisterStep ==
  ASSUME PathInv, RegInv, Forward, NEW r \in Registers,
         NEW t \in Types, NEW val \in [Inputs -> Dom(t)], NEW e,
         reg' = [reg EXCEPT ![r] = [type |-> t, value |-> val, expr |-> e]],
         backend = "qsym" /\ t = "float" => e = Null,
         Clean' => \/ e = Null /\ \A i \in Reach' : val[i] = val[input]
                   \/ e \in [Inputs -> Dom(t)] /\ \A i \in Reach' : e[i] = val[i]
  PROVE  RegInv'
<1>1. PICK v : v = [type |-> t, value |-> val, expr |-> e]
  OBVIOUS
<1>2. v.type = t /\ v.value = val /\ v.expr = e
  BY <1>1
<1>3. Good(v)'
  <2>1. backend' = backend /\ input' = input /\ Reach' \subseteq Inputs /\ input \in Inputs
    BY ForwardLaw DEF Forward
  <2>2. ASSUME Clean' PROVE Agrees(v, Reach)'
    <3>1. CASE e = Null /\ \A i \in Reach' : val[i] = val[input]
      <4>1. Operand(v)' = [i \in Inputs |-> val[input]]
        BY <1>2, <2>1, <3>1 DEF Operand
      <4> QED BY <1>2, <2>1, <3>1, <4>1 DEF Agrees
    <3>2. CASE e \in [Inputs -> Dom(t)] /\ \A i \in Reach' : e[i] = val[i]
      <4>1. e # Null
        BY <3>2, SomeExpression
      <4>2. Operand(v)' = e
        BY <1>2, <4>1 DEF Operand
      <4> QED BY <1>2, <3>2, <4>2 DEF Agrees
    <3> QED BY <2>2, <3>1, <3>2
  <2> QED BY <1>2, <2>1, <2>2 DEF Good
<1>4. reg' = [reg EXCEPT ![r] = v]
  BY <1>1
<1>5. reg' = [s \in Registers |-> IF s = r THEN v ELSE reg[s]]
  BY <1>4 DEF RegInv
<1>6. ASSUME NEW s \in Registers PROVE Good(reg[s])'
  <2>1. CASE s = r
    <3>1. reg'[s] = v
      BY <1>5, <2>1
    <3> QED BY <1>3, <3>1 DEF Good, Agrees, Operand
  <2>2. CASE s # r
    <3>1. PICK u : u = reg[s]
      OBVIOUS
    <3>2. Good(u)'
      BY <3>1, GoodKept DEF RegInv
    <3>3. reg'[s] = u
      BY <1>5, <2>2, <3>1
    <3> QED BY <3>2, <3>3 DEF Good, Agrees, Operand
  <2> QED BY <2>1, <2>2
<1>7. reg' = [s \in Registers |-> reg'[s]]
  BY <1>5
<1> QED BY <1>6, <1>7 DEF RegInv

\* The same for an expression that is made if one of the operands is symbolic
LEMMA SetStep ==
  ASSUME PathInv, RegInv, Forward, NEW r \in Registers,
         NEW xs, \A x \in xs : Good(x),
         NEW t \in Types, NEW val \in [Inputs -> Dom(t)], NEW f,
         Set(r, t, xs, val, f),
         backend = "qsym" /\ t = "float" => f = Null,
         Clean' /\ (\A x \in xs, i \in Reach' : x.value[i] = x.value[input])
           => \A i \in Reach' : val[i] = val[input],
         Clean' /\ Symbolic(xs) =>
           \/ f = Null /\ \A i \in Reach' : val[i] = val[input]
           \/ f \in [Inputs -> Dom(t)] /\ \A i \in Reach' : f[i] = val[i]
  PROVE  RegInv'
<1>1. PICK e : e = IF Symbolic(xs) THEN f ELSE Null
  OBVIOUS
<1>2. reg' = [reg EXCEPT ![r] = [type |-> t, value |-> val, expr |-> e]]
  BY <1>1 DEF Set
<1>3. backend = "qsym" /\ t = "float" => e = Null
  BY <1>1
<1>4. ASSUME Clean'
      PROVE  \/ e = Null /\ \A i \in Reach' : val[i] = val[input]
             \/ e \in [Inputs -> Dom(t)] /\ \A i \in Reach' : e[i] = val[i]
  <2>1. CASE Symbolic(xs)
    BY <1>1, <1>4, <2>1
  <2>2. CASE ~Symbolic(xs)
    <3>1. e = Null /\ \A x \in xs : x.expr = Null
      BY <1>1, <2>2 DEF Symbolic
    <3>2. Clean /\ Reach' \subseteq Reach
      BY <1>4, ForwardLaw
    <3>3. ASSUME NEW x \in xs, NEW i \in Reach' PROVE x.value[i] = x.value[input]
      BY <3>1, <3>2, OperandRight
    <3> QED BY <1>4, <3>1, <3>3
  <2> QED BY <2>1, <2>2
<1> QED BY <1>2, <1>3, <1>4, RegisterStep

\* The path, when the inputs on which an instruction is undefined drop out
LEMMA PathStep ==
  ASSUME PathInv, Forward, asserted' = asserted,
         NEW D, defined' = defined \cap D, alive' = alive \cap D
  PROVE  PathInv'
<1>1. input \in alive' /\ alive' \subseteq defined' /\ defined' \subseteq Inputs
  BY DEF PathInv, Forward
<1>2. asserted' \subseteq Inputs /\ (Clean' => input \in asserted')
  BY ForwardLaw DEF PathInv
<1>3. ASSUME gaps' = {} PROVE asserted' \cap defined' = alive'
  <2>1. gaps = {}
    BY <1>3 DEF Forward
  <2> QED BY <2>1 DEF PathInv
<1> QED BY <1>1, <1>2, <1>3 DEF PathInv, Forward

\* ... and when none does
LEMMA SamePath ==
  ASSUME PathInv, UNCHANGED <<backend, input, asserted, defined, alive>>, gaps \subseteq gaps'
  PROVE  Forward /\ PathInv'
<1>1. Forward
  BY DEF Forward, PathInv
<1>2. defined' = defined \cap Inputs /\ alive' = alive \cap Inputs /\ asserted' = asserted
  BY DEF PathInv
<1> QED BY <1>1, <1>2, PathStep

LEMMA NoteLaw ==
  ASSUME NEW gap, NEW seen \in BOOLEAN, Note(gap, seen)
  PROVE  gaps \subseteq gaps' /\ (seen => gap \in gaps' /\ gaps' # {})
BY DEF Note

LEMMA SameTable ==
  ASSUME TableInv, UNCHANGED stdinBytes
  PROVE  TableInv'
BY DEF TableInv

-----------------------------------------------------------------------------
(***************************************************************************)
(* The instructions                                                        *)
(***************************************************************************)

\* The table keeps its form: new entries are null pointers, and the last one is
\* the size that the table had, which is more than any number in it.
LEMMA TableGrows ==
  ASSUME TableInv, NEW k \in Nat, k >= Len(stdinBytes),
         stdinBytes' = stdinBytes \o [j \in 1 .. k - Len(stdinBytes) |-> Null]
                         \o <<Len(stdinBytes)>>
  PROVE  TableInv'
<1> DEFINE s == stdinBytes
           n == Len(stdinBytes)
           S == Nat \cup {Null}
           pad == [j \in 1 .. k - n |-> Null]
<1>1. s \in Seq(S) /\ n \in Nat /\ k - n \in Nat
  BY DEF TableInv
<1>2. pad \in Seq(S) /\ Len(pad) = k - n
  BY <1>1
<1>3. \A j \in 1 .. k - n : pad[j] = Null
  OBVIOUS
<1>4. stdinBytes' = s \o pad \o <<n>>
  OBVIOUS
<1>5. /\ \A j \in 1 .. n : s[j] = Null \/ s[j] \in 0 .. j - 1
      /\ \A j, l \in 1 .. n : s[j] = s[l] /\ s[j] # Null => j = l
  BY DEF TableInv
<1>6. Len(s) = n
  OBVIOUS
<1>7. n \in S
  BY <1>1
<1> HIDE DEF s, n, pad, S
<1>8. /\ s \o pad \in Seq(S) /\ Len(s \o pad) = k
      /\ \A j \in 1 .. k : (s \o pad)[j] = IF j <= n THEN s[j] ELSE pad[j - n]
  <2>1. Len(s \o pad) = Len(s) + Len(pad)
    BY <1>1, <1>2, ConcatProperties
  <2>2. \A j \in 1 .. Len(s) + Len(pad) :
          (s \o pad)[j] = IF j <= Len(s) THEN s[j] ELSE pad[j - Len(s)]
    BY <1>1, <1>2, ConcatProperties
  <2>3. s \o pad \in Seq(S)
    BY <1>1, <1>2, ConcatProperties
  <2>4. Len(s) + Len(pad) = k
    BY <1>1, <1>2, <1>6
  <2> QED BY <1>6, <2>1, <2>2, <2>3, <2>4
<1> DEFINE u == s \o pad
           last == <<n>>
<1>9. /\ stdinBytes' \in Seq(S) /\ Len(stdinBytes') = k + 1
      /\ \A j \in 1 .. k : stdinBytes'[j] = u[j]
      /\ stdinBytes'[k + 1] = n
  <2>1. last \in Seq(S) /\ Len(last) = 1 /\ last[1] = n
    BY <1>7
  <2>2. stdinBytes' = u \o last /\ u \in Seq(S) /\ Len(u) = k
    BY <1>4, <1>8
  <2> HIDE DEF u, last
  <2>3. Len(u \o last) = Len(u) + Len(last)
    BY <2>1, <2>2, ConcatProperties
  <2>4. \A j \in 1 .. Len(u) + Len(last) :
          (u \o last)[j] = IF j <= Len(u) THEN u[j] ELSE last[j - Len(u)]
    BY <2>1, <2>2, ConcatProperties
  <2>5. u \o last \in Seq(S)
    BY <2>1, <2>2, ConcatProperties
  <2>6. \A j \in 1 .. k + 1 : (u \o last)[j] = IF j <= k THEN u[j] ELSE last[j - k]
    BY <2>1, <2>2, <2>4
  <2>7. k + 1 \in 1 .. k + 1 /\ ~(k + 1 <= k) /\ (k + 1) - k = 1
    OBVIOUS
  <2>8. (u \o last)[k + 1] = n
    BY <2>1, <2>6, <2>7
  <2>9. ASSUME NEW j \in 1 .. k PROVE (u \o last)[j] = u[j]
    <3>1. j \in 1 .. k + 1 /\ j <= k
      OBVIOUS
    <3> QED BY <2>6, <3>1
  <2>10. Len(u \o last) = k + 1
    BY <2>1, <2>2, <2>3
  <2> QED BY <2>2, <2>5, <2>8, <2>9, <2>10
<1>10. ASSUME NEW j \in 1 .. n PROVE stdinBytes'[j] = s[j]
  <2>1. j \in 1 .. k /\ j <= n
    BY <1>1
  <2> QED BY <1>8, <1>9, <2>1
<1>11. ASSUME NEW j \in n + 1 .. k PROVE stdinBytes'[j] = Null
  <2>1. j \in 1 .. k /\ j - n \in 1 .. k - n /\ ~(j <= n)
    BY <1>1
  <2> QED BY <1>3, <1>8, <1>9, <2>1
<1>12. stdinBytes'[k + 1] = n
  BY <1>9
<1>13. ASSUME NEW j \in 1 .. k + 1
       PROVE  stdinBytes'[j] = Null \/ stdinBytes'[j] \in 0 .. j - 1
  <2>1. CASE j \in 1 .. n
    BY <1>5, <1>10, <2>1
  <2>2. CASE j \in n + 1 .. k
    BY <1>11, <2>2
  <2>3. CASE j = k + 1
    <3>1. n \in 0 .. j - 1
      BY <1>1, <2>3
    <3> QED BY <1>12, <2>3, <3>1
  <2> QED BY <1>1, <2>1, <2>2, <2>3
<1>14. ASSUME NEW j \in 1 .. k + 1, NEW l \in 1 .. k + 1,
              stdinBytes'[j] = stdinBytes'[l], stdinBytes'[j] # Null
       PROVE  j = l
  <2>1. j \in 1 .. n \/ j = k + 1
    BY <1>1, <1>11, <1>14
  <2>2. l \in 1 .. n \/ l = k + 1
    BY <1>1, <1>11, <1>14
  <2>3. ASSUME NEW i \in 1 .. n, stdinBytes'[i] # Null PROVE stdinBytes'[i] \in 0 .. n - 1
    BY <1>1, <1>5, <1>10, <2>3
  <2>4. CASE j \in 1 .. n /\ l \in 1 .. n
    BY <1>5, <1>10, <1>14, <2>4
  <2>5. CASE j = k + 1 /\ l \in 1 .. n
    BY <1>1, <1>12, <1>14, <2>3, <2>5
  <2>6. CASE l = k + 1 /\ j \in 1 .. n
    BY <1>1, <1>12, <1>14, <2>3, <2>6
  <2> QED BY <2>1, <2>2, <2>4, <2>5, <2>6
<1> QED BY <1>9, <1>13, <1>14 DEF TableInv, S

LEMMA GetInputByteStep ==
  ASSUME IInv, UNCHANGED <<backend, input>>,
         NEW r \in Registers, NEW k \in 0 .. InputLen - 1, GetInputByte(r, k)
  PROVE  IInv'
<1> USE DEF IInv
<1>1. PICK null \in BOOLEAN :
        null = (backend = "simple" /\ k < Len(stdinBytes) /\ stdinBytes[k + 1] = Null)
  OBVIOUS
<1>2. PICK byte : byte = [i \in Inputs |-> i[k]]
  OBVIOUS
<1>3. PICK e : e = IF null THEN Null ELSE byte
  OBVIOUS
<1>4. /\ Note("input byte", null)
      /\ reg' = [reg EXCEPT ![r] = [type |-> "int", value |-> byte, expr |-> e]]
      /\ UNCHANGED <<asserted, defined, alive>>
      /\ stdinBytes' =
           IF backend = "simple" /\ k >= Len(stdinBytes)
             THEN stdinBytes \o [j \in 1 .. k - Len(stdinBytes) |-> Null]
                    \o <<Len(stdinBytes)>>
             ELSE stdinBytes
  BY <1>1, <1>2, <1>3 DEF GetInputByte
<1>5. gaps \subseteq gaps' /\ (null => gaps' # {})
  BY <1>4, NoteLaw
<1>6. Forward /\ PathInv'
  BY <1>4, <1>5, SamePath
<1>7. byte \in [Inputs -> Dom("int")] /\ "int" \in Types
  BY <1>2, LiteralTypes DEF Dom, Types
<1>8. RegInv'
  <2>1. CASE null
    <3>1. e = Null /\ Reach' = {input}
      BY <1>3, <1>5, <2>1 DEF Reach
    <3> QED BY <1>4, <1>6, <1>7, <3>1, RegisterStep
  <2>2. CASE ~null
    <3>1. e = byte
      BY <1>3, <2>2
    <3> QED BY <1>4, <1>6, <1>7, <3>1, RegisterStep
  <2> QED BY <2>1, <2>2
<1>9. TableInv'
  <2>1. k \in Nat
    BY BackendAssumption DEF BackendAssumption
  <2>2. CASE backend = "simple" /\ k >= Len(stdinBytes)
    BY <1>4, <2>1, <2>2, TableGrows
  <2>3. CASE ~(backend = "simple" /\ k >= Len(stdinBytes))
    BY <1>4, <2>3, SameTable
  <2> QED BY <2>2, <2>3
<1> QED BY <1>6, <1>8, <1>9

LEMMA BinaryStep ==
  ASSUME IInv, UNCHANGED <<backend, input>>,
         NEW r \in Registers, NEW op \in Opcodes,
         NEW x, NEW y, Good(x), Good(y), x.type = "int", y.type = "int",
         Binary(r, op, x, y)
  PROVE  IInv'
<1> USE DEF IInv
<1>1. PICK ok \in [Inputs -> BOOLEAN] :
        \A i \in Inputs : ok[i] = IsDefined(op, x.value[i], y.value[i])
  <2>1. [i \in Inputs |-> IsDefined(op, x.value[i], y.value[i])] \in [Inputs -> BOOLEAN]
    BY DEF IsDefined
  <2> QED BY <2>1
<1>2. PICK val : val = [i \in Inputs |-> IF IsDefined(op, x.value[i], y.value[i])
                                         THEN Compute(op, x.value[i], y.value[i]) ELSE 0]
  OBVIOUS
<1>3. PICK f : f = [i \in Inputs |-> Built(op, Operand(x)[i], Operand(y)[i])]
  OBVIOUS
<1> DEFINE D == {i \in Inputs : ok[i]}
<1>4. /\ IsDefined(op, x.value[input], y.value[input])
      /\ Set(r, "int", {x, y}, val, f)
      /\ defined' = {i \in defined : IsDefined(op, x.value[i], y.value[i])}
      /\ alive' = {i \in alive : IsDefined(op, x.value[i], y.value[i])}
      /\ UNCHANGED <<stdinBytes, asserted, gaps>>
  BY <1>2, <1>3 DEF Binary
<1>5. defined' = defined \cap D /\ alive' = alive \cap D /\ input \in D
  BY <1>1, <1>4 DEF PathInv
<1>6. Forward
  BY <1>4, <1>5 DEF Forward, PathInv
<1>7. PathInv'
  BY <1>4, <1>5, <1>6, PathStep
<1>8. x.value \in [Inputs -> Ints] /\ y.value \in [Inputs -> Ints]
  BY DEF Good, Dom
<1>9. ASSUME NEW i \in Inputs
      PROVE /\ IsDefined(op, x.value[i], y.value[i])
                 => Built(op, x.value[i], y.value[i]) = Compute(op, x.value[i], y.value[i])
            /\ val[i] \in Ints
  <2>1. x.value[i] \in Ints /\ y.value[i] \in Ints
    BY <1>8
  <2>2. /\ Built(op, x.value[i], y.value[i]) \in Ints
        /\ IsDefined(op, x.value[i], y.value[i])
             => Built(op, x.value[i], y.value[i]) = Compute(op, x.value[i], y.value[i])
    BY <2>1, BuiltRight
  <2>3. val[i] = IF IsDefined(op, x.value[i], y.value[i])
                 THEN Compute(op, x.value[i], y.value[i]) ELSE 0
    BY <1>2
  <2> QED BY <2>2, <2>3, LiteralTypes
<1>10. val \in [Inputs -> Ints]
  BY <1>2, <1>9
<1>11. Reach' \subseteq D /\ Reach' \subseteq Inputs /\ input \in Inputs /\ (Clean' => Clean)
  <2>1. Reach' \subseteq alive'
    BY <1>7, <1>6 DEF Reach, PathInv
  <2> QED BY <2>1, <1>5, <1>6, ForwardLaw
<1>12. ASSUME Clean' PROVE f \in [Inputs -> Ints] /\ \A i \in Reach' : f[i] = val[i]
  <2>1. /\ Operand(x) \in [Inputs -> Ints] /\ \A i \in Reach : Operand(x)[i] = x.value[i]
        /\ Operand(y) \in [Inputs -> Ints] /\ \A i \in Reach : Operand(y)[i] = y.value[i]
    BY <1>11, <1>12, OperandRight DEF Dom
  <2>2. ASSUME NEW i \in Inputs PROVE Built(op, Operand(x)[i], Operand(y)[i]) \in Ints
    <3>1. Operand(x)[i] \in Ints /\ Operand(y)[i] \in Ints
      BY <2>1
    <3> QED BY <3>1, BuiltRight
  <2>3. f \in [Inputs -> Ints]
    BY <1>3, <2>2
  <2>4. ASSUME NEW i \in Reach' PROVE f[i] = val[i]
    <3>1. i \in Inputs /\ i \in Reach /\ ok[i]
      BY <1>6, <1>11, ForwardLaw
    <3>2. IsDefined(op, x.value[i], y.value[i])
      BY <1>1, <3>1
    <3>3. f[i] = Built(op, x.value[i], y.value[i])
      BY <1>3, <2>1, <3>1
    <3>4. val[i] = Compute(op, x.value[i], y.value[i])
      BY <1>2, <3>1, <3>2
    <3> QED BY <1>9, <3>1, <3>2, <3>3, <3>4
  <2> QED BY <2>3, <2>4
<1>13. ASSUME \A z \in {x, y}, i \in Reach' : z.value[i] = z.value[input]
       PROVE  \A i \in Reach' : val[i] = val[input]
  <2>1. ASSUME NEW i \in Reach' PROVE val[i] = val[input]
    <3>1. x.value[i] = x.value[input] /\ y.value[i] = y.value[input] /\ i \in Inputs
      BY <1>11, <1>13
    <3> QED BY <1>2, <1>11, <3>1
  <2> QED BY <2>1
<1>14. RegInv'
  <2>1. Dom("int") = Ints /\ "int" \in Types /\ "int" # "float"
    BY DEF Dom, Types
  <2>2. \A z \in {x, y} : Good(z)
    OBVIOUS
  <2> HIDE DEF D
  <2> QED BY <1>4, <1>6, <1>10, <1>12, <1>13, <2>1, <2>2, SetStep
<1> QED BY <1>4, <1>7, <1>14, SameTable

LEMMA BooleanStep ==
  ASSUME IInv, UNCHANGED <<backend, input>>,
         NEW r \in Registers, NEW op \in Logical,
         NEW x, NEW y, Good(x), Good(y), x.type = "bool", y.type = "bool",
         Boolean(r, op, x, y)
  PROVE  IInv'
<1> USE DEF IInv
<1> DEFINE F(m, n) == CASE op = "And" -> m * n
                        [] op = "Or"  -> Truth(m + n > 0)
                        [] op = "Xor" -> Truth(m + n = 1)
           Made(m, n) == IF backend = "simple" THEN SimpleBool(op, m, n) ELSE QsymBool(op, m, n)
<1>1. /\ Set(r, "bool", {x, y}, [i \in Inputs |-> F(x.value[i], y.value[i])],
             [i \in Inputs |-> Made(Operand(x)[i], Operand(y)[i])])
      /\ UNCHANGED <<stdinBytes, asserted, defined, alive, gaps>>
  BY DEF Boolean
<1>2. ASSUME NEW m \in {0, 1}, NEW n \in {0, 1}
      PROVE  F(m, n) \in {0, 1} /\ Made(m, n) = F(m, n)
  BY BooleanRight
<1> HIDE DEF F, Made
<1>3. PICK val : val = [i \in Inputs |-> F(x.value[i], y.value[i])]
  OBVIOUS
<1>4. PICK f : f = [i \in Inputs |-> Made(Operand(x)[i], Operand(y)[i])]
  OBVIOUS
<1>5. Forward /\ PathInv'
  BY <1>1, SamePath
<1>6. x.value \in [Inputs -> {0, 1}] /\ y.value \in [Inputs -> {0, 1}]
  BY DEF Good, Dom
<1>7. val \in [Inputs -> {0, 1}]
  BY <1>2, <1>3, <1>6
<1>8. Reach' \subseteq Inputs /\ Reach' \subseteq Reach /\ input \in Inputs /\ (Clean' => Clean)
  BY <1>5, ForwardLaw
<1>9. ASSUME Clean' PROVE f \in [Inputs -> {0, 1}] /\ \A i \in Reach' : f[i] = val[i]
  <2>1. /\ Operand(x) \in [Inputs -> {0, 1}] /\ \A i \in Reach : Operand(x)[i] = x.value[i]
        /\ Operand(y) \in [Inputs -> {0, 1}] /\ \A i \in Reach : Operand(y)[i] = y.value[i]
    BY <1>8, <1>9, OperandRight DEF Dom
  <2>2. f \in [Inputs -> {0, 1}]
    BY <1>2, <1>4, <2>1
  <2>3. ASSUME NEW i \in Reach' PROVE f[i] = val[i]
    BY <1>2, <1>3, <1>4, <1>6, <1>8, <2>1
  <2> QED BY <2>2, <2>3
<1>10. ASSUME \A z \in {x, y}, i \in Reach' : z.value[i] = z.value[input]
       PROVE  \A i \in Reach' : val[i] = val[input]
  <2>1. ASSUME NEW i \in Reach' PROVE val[i] = val[input]
    <3>1. x.value[i] = x.value[input] /\ y.value[i] = y.value[input] /\ i \in Inputs
      BY <1>8, <1>10
    <3> QED BY <1>3, <1>8, <3>1
  <2> QED BY <2>1
<1>11. RegInv'
  <2>1. Dom("bool") = {0, 1} /\ "bool" \in Types /\ "bool" # "float"
    BY DEF Dom, Types
  <2>2. \A z \in {x, y} : Good(z)
    OBVIOUS
  <2>3. Set(r, "bool", {x, y}, val, f)
    BY <1>1, <1>3, <1>4
  <2> QED BY <1>5, <1>7, <1>9, <1>10, <2>1, <2>2, <2>3, SetStep
<1> QED BY <1>1, <1>5, <1>11, SameTable

LEMMA ICmpStep ==
  ASSUME IInv, UNCHANGED <<backend, input>>,
         NEW r \in Registers, NEW p \in IntPredicates,
         NEW x, NEW y, Good(x), Good(y), x.type = "int", y.type = "int",
         ICmp(r, p, x, y)
  PROVE  IInv'
<1> USE DEF IInv
<1>1. PICK val : val = [i \in Inputs |-> Truth(IntCompare(p, x.value[i], y.value[i]))]
  OBVIOUS
<1>2. PICK f : f = [i \in Inputs |-> Truth(BvCompare(p, Operand(x)[i], Operand(y)[i]))]
  OBVIOUS
<1>3. /\ Set(r, "bool", {x, y}, val, f)
      /\ UNCHANGED <<stdinBytes, asserted, defined, alive, gaps>>
  BY <1>1, <1>2 DEF ICmp
<1>4. Forward /\ PathInv'
  BY <1>3, SamePath
<1>5. val \in [Inputs -> {0, 1}] /\ f \in [Inputs -> {0, 1}]
  BY <1>1, <1>2, TruthLaw
<1>6. Reach' \subseteq Inputs /\ Reach' \subseteq Reach /\ input \in Inputs /\ (Clean' => Clean)
  BY <1>4, ForwardLaw
<1>7. ASSUME Clean' PROVE \A i \in Reach' : f[i] = val[i]
  <2>1. ASSUME NEW i \in Reach' PROVE f[i] = val[i]
    <3>1. Operand(x)[i] = x.value[i] /\ Operand(y)[i] = y.value[i]
      BY <1>6, <1>7, OperandRight
    <3>2. BvCompare(p, x.value[i], y.value[i]) = IntCompare(p, x.value[i], y.value[i])
      BY ICmpRight
    <3>3. i \in Inputs
      BY <1>6
    <3> QED BY <1>1, <1>2, <3>1, <3>2, <3>3
  <2> QED BY <2>1
<1>8. ASSUME \A z \in {x, y}, i \in Reach' : z.value[i] = z.value[input]
      PROVE  \A i \in Reach' : val[i] = val[input]
  <2>1. ASSUME NEW i \in Reach' PROVE val[i] = val[input]
    <3>1. x.value[i] = x.value[input] /\ y.value[i] = y.value[input] /\ i \in Inputs
      BY <1>6, <1>8
    <3> QED BY <1>1, <1>6, <3>1
  <2> QED BY <2>1
<1>9. RegInv'
  <2>1. Dom("bool") = {0, 1} /\ "bool" \in Types /\ "bool" # "float"
    BY DEF Dom, Types
  <2>2. \A z \in {x, y} : Good(z)
    OBVIOUS
  <2> QED BY <1>3, <1>4, <1>5, <1>7, <1>8, <2>1, <2>2, SetStep
<1> QED BY <1>3, <1>4, <1>9, SameTable

\* A floating-point operand is never symbolic in the QSYM backend.
LEMMA NoFloatsInQsym ==
  ASSUME NEW x, NEW y, Good(x), Good(y), x.type = "float", y.type = "float", backend = "qsym"
  PROVE  ~Symbolic({x, y})
BY DEF Good, Symbolic

LEMMA FCmpStep ==
  ASSUME IInv, UNCHANGED <<backend, input>>,
         NEW r \in Registers, NEW p \in FloatPredicates,
         NEW x, NEW y, Good(x), Good(y), x.type = "float", y.type = "float",
         FCmp(r, p, x, y)
  PROVE  IInv'
<1> USE DEF IInv
<1>1. PICK val : val = [i \in Inputs |-> Truth(FloatCompare(p, x.value[i], y.value[i]))]
  OBVIOUS
<1>2. PICK g : g = [i \in Inputs |-> Truth(FloatBuilder(p, Operand(x)[i], Operand(y)[i]))]
  OBVIOUS
<1>3. PICK seen \in BOOLEAN : seen = (p = <<"O", "NE">> /\ Symbolic({x, y}))
  OBVIOUS
<1>4. /\ Set(r, "bool", {x, y}, val, Fp(g))
      /\ Note("ordered and unequal", seen)
      /\ UNCHANGED <<stdinBytes, asserted, defined, alive>>
  BY <1>1, <1>2, <1>3 DEF FCmp
<1>5. gaps \subseteq gaps' /\ (seen => "ordered and unequal" \in gaps')
  BY <1>4, NoteLaw
<1>6. Forward /\ PathInv'
  BY <1>4, <1>5, SamePath
<1>7. val \in [Inputs -> {0, 1}] /\ g \in [Inputs -> {0, 1}]
  BY <1>1, <1>2, TruthLaw
<1>8. Reach' \subseteq Inputs /\ Reach' \subseteq Reach /\ input \in Inputs /\ (Clean' => Clean)
  BY <1>6, ForwardLaw
<1>9. ASSUME Clean', Symbolic({x, y})
      PROVE  Fp(g) \in [Inputs -> {0, 1}] /\ \A i \in Reach' : Fp(g)[i] = val[i]
  <2>1. Fp(g) = g
    BY <1>9, NoFloatsInQsym DEF Fp
  <2>2. p # <<"O", "NE">>
    BY <1>3, <1>5, <1>9 DEF Clean, Misbuilt
  <2>3. ASSUME NEW i \in Reach' PROVE g[i] = val[i]
    <3>1. Operand(x)[i] = x.value[i] /\ Operand(y)[i] = y.value[i]
      BY <1>8, <1>9, OperandRight
    <3>2. FloatBuilder(p, x.value[i], y.value[i]) <=> FloatCompare(p, x.value[i], y.value[i])
      BY <2>2, FCmpRight
    <3>3. Truth(FloatBuilder(p, x.value[i], y.value[i])) = Truth(FloatCompare(p, x.value[i], y.value[i]))
      BY <3>2 DEF Truth
    <3>4. i \in Inputs
      BY <1>8
    <3> QED BY <1>1, <1>2, <3>1, <3>3, <3>4
  <2> QED BY <1>7, <2>1, <2>3
<1>10. ASSUME \A z \in {x, y}, i \in Reach' : z.value[i] = z.value[input]
       PROVE  \A i \in Reach' : val[i] = val[input]
  <2>1. ASSUME NEW i \in Reach' PROVE val[i] = val[input]
    <3>1. x.value[i] = x.value[input] /\ y.value[i] = y.value[input] /\ i \in Inputs
      BY <1>8, <1>10
    <3> QED BY <1>1, <1>8, <3>1
  <2> QED BY <2>1
<1>11. RegInv'
  <2>1. Dom("bool") = {0, 1} /\ "bool" \in Types /\ "bool" # "float"
    BY DEF Dom, Types
  <2>2. \A z \in {x, y} : Good(z)
    OBVIOUS
  <2>3. PICK f : f = Fp(g)
    OBVIOUS
  <2> QED BY <1>4, <1>6, <1>7, <1>9, <1>10, <2>1, <2>2, <2>3, SetStep
<1> QED BY <1>4, <1>6, <1>11, SameTable

LEMMA FloatBinaryStep ==
  ASSUME IInv, UNCHANGED <<backend, input>>,
         NEW r \in Registers, NEW op \in FloatOpcodes,
         NEW x, NEW y, Good(x), Good(y), x.type = "float", y.type = "float",
         FloatBinary(r, op, x, y)
  PROVE  IInv'
<1> USE DEF IInv
<1>1. PICK val : val = [i \in Inputs |-> FloatCompute(op, x.value[i], y.value[i])]
  OBVIOUS
<1>2. PICK g : g = [i \in Inputs |-> FloatArithmetic(op, Operand(x)[i], Operand(y)[i])]
  OBVIOUS
<1>3. PICK seen \in BOOLEAN : seen = (op = "FRem" /\ Symbolic({x, y}))
  OBVIOUS
<1>4. /\ Set(r, "float", {x, y}, val, Fp(g))
      /\ Note("remainder", seen)
      /\ UNCHANGED <<stdinBytes, asserted, defined, alive>>
  BY <1>1, <1>2, <1>3 DEF FloatBinary
<1>5. gaps \subseteq gaps' /\ (seen => "remainder" \in gaps')
  BY <1>4, NoteLaw
<1>6. Forward /\ PathInv'
  BY <1>4, <1>5, SamePath
<1>7. x.value \in [Inputs -> Floats] /\ y.value \in [Inputs -> Floats]
  BY DEF Good, Dom
<1>8. val \in [Inputs -> Floats]
  <2>1. ASSUME NEW i \in Inputs PROVE FloatCompute(op, x.value[i], y.value[i]) \in Floats
    <3>1. x.value[i] \in Floats /\ y.value[i] \in Floats
      BY <1>7
    <3> QED BY <3>1, FloatType
  <2> QED BY <1>1, <2>1
<1>9. Reach' \subseteq Inputs /\ Reach' \subseteq Reach /\ input \in Inputs /\ (Clean' => Clean)
  BY <1>6, ForwardLaw
<1>10. ASSUME Clean', Symbolic({x, y})
       PROVE  Fp(g) \in [Inputs -> Floats] /\ \A i \in Reach' : Fp(g)[i] = val[i]
  <2>1. Fp(g) = g
    BY <1>10, NoFloatsInQsym DEF Fp
  <2>2. op # "FRem"
    BY <1>3, <1>5, <1>10 DEF Clean, Misbuilt
  <2>3. /\ Operand(x) \in [Inputs -> Floats] /\ \A i \in Reach : Operand(x)[i] = x.value[i]
        /\ Operand(y) \in [Inputs -> Floats] /\ \A i \in Reach : Operand(y)[i] = y.value[i]
    BY <1>9, <1>10, OperandRight DEF Dom
  <2>4. ASSUME NEW i \in Inputs
        PROVE  g[i] = FloatCompute(op, Operand(x)[i], Operand(y)[i]) /\ g[i] \in Floats
    <3>1. g[i] = FloatArithmetic(op, Operand(x)[i], Operand(y)[i])
      BY <1>2
    <3>2. g[i] = FloatCompute(op, Operand(x)[i], Operand(y)[i])
      BY <2>2, <3>1, FloatArithmeticRight
    <3>3. Operand(x)[i] \in Floats /\ Operand(y)[i] \in Floats
      BY <2>3
    <3> QED BY <3>2, <3>3, FloatType
  <2>5. g \in [Inputs -> Floats]
    BY <1>2, <2>4
  <2>6. ASSUME NEW i \in Reach' PROVE g[i] = val[i]
    <3>1. i \in Inputs /\ Operand(x)[i] = x.value[i] /\ Operand(y)[i] = y.value[i]
      BY <1>9, <2>3
    <3> QED BY <1>1, <2>4, <3>1
  <2> QED BY <2>1, <2>5, <2>6
<1>11. ASSUME \A z \in {x, y}, i \in Reach' : z.value[i] = z.value[input]
       PROVE  \A i \in Reach' : val[i] = val[input]
  <2>1. ASSUME NEW i \in Reach' PROVE val[i] = val[input]
    <3>1. x.value[i] = x.value[input] /\ y.value[i] = y.value[input] /\ i \in Inputs
      BY <1>9, <1>11
    <3> QED BY <1>1, <1>9, <3>1
  <2> QED BY <2>1
<1>12. RegInv'
  <2>1. Dom("float") = Floats /\ "float" \in Types
    BY DEF Dom, Types
  <2>2. \A z \in {x, y} : Good(z)
    OBVIOUS
  <2>3. backend = "qsym" => Fp(g) = Null
    BY DEF Fp
  <2>4. PICK f : f = Fp(g)
    OBVIOUS
  <2> QED BY <1>4, <1>6, <1>8, <1>10, <1>11, <2>1, <2>2, <2>3, <2>4, SetStep
<1> QED BY <1>4, <1>6, <1>12, SameTable

\* An operation on one operand that stays on its path
LEMMA UnaryStep ==
  ASSUME IInv, UNCHANGED <<backend, input, stdinBytes, asserted, defined, alive>>,
         gaps \subseteq gaps',
         NEW r \in Registers, NEW x, Good(x),
         NEW t \in Types, NEW val \in [Inputs -> Dom(t)], NEW f,
         \A i, j \in Inputs : x.value[i] = x.value[j] => val[i] = val[j],
         Clean /\ Symbolic({x}) =>
           \/ f = Null /\ gaps' # {}
           \/ f \in [Inputs -> Dom(t)] /\ \A i \in Reach : f[i] = val[i],
         Set(r, t, {x}, val, f),
         backend = "qsym" /\ t = "float" => f = Null
  PROVE  IInv'
<1>1. Forward /\ PathInv'
  BY SamePath DEF IInv
<1>2. Reach' \subseteq Inputs /\ Reach' \subseteq Reach /\ input \in Inputs /\ (Clean' => Clean)
  BY <1>1, ForwardLaw DEF IInv
<1>3. ASSUME \A z \in {x}, i \in Reach' : z.value[i] = z.value[input]
      PROVE  \A i \in Reach' : val[i] = val[input]
  <2>1. ASSUME NEW i \in Reach' PROVE val[i] = val[input]
    <3>1. x.value[i] = x.value[input] /\ i \in Inputs
      BY <1>2, <1>3
    <3> QED BY <1>2, <3>1
  <2> QED BY <2>1
<1>4. ASSUME Clean', Symbolic({x})
      PROVE  \/ f = Null /\ \A i \in Reach' : val[i] = val[input]
             \/ f \in [Inputs -> Dom(t)] /\ \A i \in Reach' : f[i] = val[i]
  <2>1. CASE f = Null /\ gaps' # {}
    <3>1. Reach' = {input}
      BY <2>1 DEF Reach
    <3> QED BY <2>1, <3>1
  <2>2. CASE f \in [Inputs -> Dom(t)] /\ \A i \in Reach : f[i] = val[i]
    BY <1>2, <2>2
  <2> QED BY <1>2, <1>4, <2>1, <2>2
<1>5. \A z \in {x} : Good(z)
  OBVIOUS
<1>6. RegInv'
  BY <1>1, <1>3, <1>4, <1>5, SetStep DEF IInv
<1> QED BY <1>1, <1>6, SameTable DEF IInv

LEMMA FabsStep ==
  ASSUME IInv, UNCHANGED <<backend, input>>,
         NEW r \in Registers, NEW x, Good(x), x.type = "float", Fabs(r, x)
  PROVE  IInv'
<1> DEFINE F(a) == IF a = NaN THEN NaN ELSE Abs(a)
<1>1. \A c \in Floats : F(c) \in Floats
  BY DEF Floats, Abs
<1>2. /\ Set(r, "float", {x}, [i \in Inputs |-> F(x.value[i])],
             Fp([i \in Inputs |-> F(Operand(x)[i])]))
      /\ UNCHANGED <<stdinBytes, asserted, defined, alive, gaps>>
  BY DEF Fabs
<1> HIDE DEF F
<1>3. Dom(x.type) = Floats /\ Dom("float") = Floats /\ "float" \in Types
  BY DEF Dom, Types
<1>4. PICK val : val = [i \in Inputs |-> F(x.value[i])]
  OBVIOUS
<1>5. PICK g : g = [i \in Inputs |-> F(Operand(x)[i])]
  OBVIOUS
<1>6. PICK f : f = Fp(g)
  OBVIOUS
<1>7. x.value \in [Inputs -> Floats]
  BY <1>3 DEF Good
<1>8. val \in [Inputs -> Floats]
  BY <1>1, <1>4, <1>7
<1>9. \A i, j \in Inputs : x.value[i] = x.value[j] => val[i] = val[j]
  BY <1>4
<1>10. ASSUME Clean, Symbolic({x}) PROVE f \in [Inputs -> Floats] /\ \A i \in Reach : f[i] = val[i]
  <2>1. Operand(x) \in [Inputs -> Floats] /\ \A i \in Reach : Operand(x)[i] = x.value[i]
    BY <1>3, <1>10, OperandRight DEF IInv
  <2>2. g \in [Inputs -> Floats]
    BY <1>1, <1>5, <2>1
  <2>3. Reach \subseteq Inputs
    BY ReachLaw DEF IInv
  <2>4. backend # "qsym"
    BY <1>10 DEF Good, Symbolic
  <2>5. f = g
    BY <1>6, <2>4 DEF Fp
  <2> QED BY <1>4, <1>5, <2>1, <2>2, <2>3, <2>5
<1>11. backend = "qsym" => f = Null
  BY <1>6 DEF Fp
<1>12. Set(r, "float", {x}, val, f)
  BY <1>2, <1>4, <1>5, <1>6
<1> QED BY <1>2, <1>3, <1>8, <1>9, <1>10, <1>11, <1>12, UnaryStep

LEMMA IntToFloatStep ==
  ASSUME IInv, UNCHANGED <<backend, input>>,
         NEW r \in Registers, NEW signed \in BOOLEAN, NEW x, Good(x), x.type = "int",
         IntToFloat(r, signed, x)
  PROVE  IInv'
<1> DEFINE F(n) == Clamp(2 * (IF signed THEN Signed(n) ELSE n))
<1>1. ASSUME NEW n \in Ints PROVE F(n) \in Floats
  <2>1. 2 * (IF signed THEN Signed(n) ELSE n) \in Int
    BY SignLaw, WrapLaw
  <2> QED BY <2>1, ClampType DEF Floats
<1>2. PICK seen \in BOOLEAN : seen = (backend = "qsym" /\ Symbolic({x}))
  OBVIOUS
<1>3. /\ Set(r, "float", {x}, [i \in Inputs |-> F(x.value[i])],
             Fp([i \in Inputs |-> F(Operand(x)[i])]))
      /\ Note("floats in QSYM", seen)
      /\ UNCHANGED <<stdinBytes, asserted, defined, alive>>
  BY <1>2 DEF IntToFloat
<1>4. gaps \subseteq gaps' /\ (seen => gaps' # {})
  BY <1>3, NoteLaw
<1> HIDE DEF F
<1>5. Dom(x.type) = Ints /\ Dom("float") = Floats /\ "float" \in Types
  BY DEF Dom, Types
<1>6. PICK val : val = [i \in Inputs |-> F(x.value[i])]
  OBVIOUS
<1>7. PICK g : g = [i \in Inputs |-> F(Operand(x)[i])]
  OBVIOUS
<1>8. PICK f : f = Fp(g)
  OBVIOUS
<1>9. x.value \in [Inputs -> Ints]
  BY <1>5 DEF Good
<1>10. val \in [Inputs -> Floats]
  BY <1>1, <1>6, <1>9
<1>11. \A i, j \in Inputs : x.value[i] = x.value[j] => val[i] = val[j]
  BY <1>6
<1>12. ASSUME Clean, Symbolic({x})
       PROVE  \/ f = Null /\ gaps' # {}
              \/ f \in [Inputs -> Floats] /\ \A i \in Reach : f[i] = val[i]
  <2>1. CASE backend = "qsym"
    <3>1. f = Null
      BY <1>8, <2>1 DEF Fp
    <3> QED BY <1>2, <1>4, <1>12, <2>1, <3>1
  <2>2. CASE backend # "qsym"
    <3>1. Operand(x) \in [Inputs -> Ints] /\ \A i \in Reach : Operand(x)[i] = x.value[i]
      BY <1>5, <1>12, OperandRight DEF IInv
    <3>2. g \in [Inputs -> Floats]
      BY <1>1, <1>7, <3>1
    <3>3. Reach \subseteq Inputs
      BY ReachLaw DEF IInv
    <3>4. f = g
      BY <1>8, <2>2 DEF Fp
    <3> QED BY <1>6, <1>7, <3>1, <3>2, <3>3, <3>4
  <2> QED BY <2>1, <2>2
<1>13. backend = "qsym" => f = Null
  BY <1>8 DEF Fp
<1>14. Set(r, "float", {x}, val, f)
  BY <1>3, <1>6, <1>7, <1>8
<1>15. PICK t \in Types : t = "float" /\ Dom(t) = Floats
  BY <1>5
<1>16. /\ val \in [Inputs -> Dom(t)]
       /\ Set(r, t, {x}, val, f)
       /\ backend = "qsym" /\ t = "float" => f = Null
  BY <1>10, <1>13, <1>14, <1>15
<1>17. Clean /\ Symbolic({x}) =>
         \/ f = Null /\ gaps' # {}
         \/ f \in [Inputs -> Dom(t)] /\ \A i \in Reach : f[i] = val[i]
  BY <1>12, <1>15
<1>18. UNCHANGED <<backend, input, stdinBytes, asserted, defined, alive>>
  BY <1>3
<1> QED BY <1>4, <1>11, <1>16, <1>17, <1>18, UnaryStep

LEMMA FloatToIntStep ==
  ASSUME IInv, UNCHANGED <<backend, input>>,
         NEW r \in Registers, NEW signed \in BOOLEAN, NEW x, Good(x), x.type = "float",
         FloatToInt(r, signed, x)
  PROVE  IInv'
<1> USE DEF IInv
<1> DEFINE whole(i) == Quotient(x.value[i], 2)
           ok(i) == x.value[i] # NaN /\ whole(i) \in IF signed THEN {Signed(n) : n \in Ints}
                                                     ELSE Ints
           D == {i \in Inputs : ok(i)}
<1>1. PICK val : val = [i \in Inputs |-> IF ok(i) THEN Wrap(whole(i)) ELSE 0]
  OBVIOUS
<1>2. PICK seen \in BOOLEAN : seen = Symbolic({x})
  BY DEF Symbolic
<1>3. /\ ok(input)
      /\ reg' = [reg EXCEPT ![r] = [type |-> "int", expr |-> Null, value |-> val]]
      /\ defined' = {i \in defined : ok(i)}
      /\ alive' = {i \in alive : ok(i)}
      /\ Note("float to integer", seen)
      /\ UNCHANGED <<stdinBytes, asserted>>
  BY <1>1, <1>2 DEF FloatToInt
<1>4. gaps \subseteq gaps' /\ (seen => gaps' # {})
  BY <1>3, NoteLaw
<1>5. Dom(x.type) = Floats /\ Dom("int") = Ints /\ "int" \in Types /\ "int" # "float"
  BY DEF Dom, Types
<1>6. x.value \in [Inputs -> Floats]
  BY <1>5 DEF Good
<1>7. ASSUME NEW i \in Inputs, ok(i) PROVE Wrap(whole(i)) \in Ints
  <2>1. x.value[i] \in Int
    BY <1>6, <1>7 DEF Floats
  <2>2. whole(i) \in Int
    BY <2>1, QuotientType
  <2> QED BY <2>2, WrapLaw
<1>8. \A i, j \in Inputs : x.value[i] = x.value[j] => val[i] = val[j]
  BY <1>1
<1> HIDE DEF ok, whole
<1>9. val \in [Inputs -> Ints]
  BY <1>1, <1>7, LiteralTypes
<1>10. defined' = defined \cap D /\ alive' = alive \cap D /\ input \in D
  BY <1>3 DEF PathInv
<1>11. Forward
  BY <1>3, <1>4, <1>10 DEF Forward, PathInv
<1> HIDE DEF D
<1>12. PathInv'
  BY <1>3, <1>10, <1>11, PathStep
<1>13. ASSUME Clean' PROVE \A i \in Reach' : val[i] = val[input]
  <2>1. CASE Symbolic({x})
    <3>1. Reach' = {input}
      BY <1>2, <1>4, <1>11, <2>1 DEF Reach, Forward
    <3> QED BY <3>1
  <2>2. CASE ~Symbolic({x})
    <3>1. Clean /\ Reach' \subseteq Reach /\ Reach' \subseteq Inputs /\ input \in Inputs
      BY <1>11, <1>13, ForwardLaw
    <3>2. x.expr = Null
      BY <2>2 DEF Symbolic
    <3>3. \A i \in Reach : x.value[i] = x.value[input]
      BY <3>1, <3>2, OperandRight
    <3> QED BY <1>8, <3>1, <3>3
  <2> QED BY <2>1, <2>2
<1>14. PICK e : e = Null
  OBVIOUS
<1>15. reg' = [reg EXCEPT ![r] = [type |-> "int", value |-> val, expr |-> e]]
  BY <1>3, <1>14
<1>16. RegInv'
  BY <1>5, <1>9, <1>11, <1>13, <1>14, <1>15, RegisterStep
<1> QED BY <1>3, <1>12, <1>16, SameTable

LEMMA BoolToBitsStep ==
  ASSUME IInv, UNCHANGED <<backend, input>>,
         NEW r \in Registers, NEW x, Good(x), x.type = "bool", BoolToBits(r, x)
  PROVE  IInv'
<1>1. /\ Set(r, "int", {x}, x.value, Operand(x))
      /\ UNCHANGED <<stdinBytes, asserted, defined, alive, gaps>>
  BY DEF BoolToBits
<1>2. PICK val : val = x.value
  OBVIOUS
<1>3. PICK f : f = Operand(x)
  OBVIOUS
<1>4. {0, 1} \subseteq Ints
  BY ModulusLaw DEF Ints
<1>5. Dom(x.type) = {0, 1} /\ Dom("int") = Ints /\ "int" \in Types /\ "int" # "float"
  BY DEF Dom, Types
<1>6. val \in [Inputs -> Ints]
  BY <1>2, <1>4, <1>5 DEF Good
<1>7. ASSUME Clean PROVE f \in [Inputs -> Ints] /\ \A i \in Reach : f[i] = val[i]
  <2>1. Operand(x) \in [Inputs -> {0, 1}] /\ \A i \in Reach : Operand(x)[i] = x.value[i]
    BY <1>5, <1>7, OperandRight DEF IInv
  <2> QED BY <1>2, <1>3, <1>4, <2>1
<1>8. \A i, j \in Inputs : x.value[i] = x.value[j] => val[i] = val[j]
  BY <1>2
<1>9. Set(r, "int", {x}, val, f)
  BY <1>1, <1>2, <1>3
<1> QED BY <1>1, <1>5, <1>6, <1>7, <1>8, <1>9, UnaryStep

\* A constraint that says the same for every input says nothing, and what else is
\* asserted is what the path is from here on.
LEMMA BranchStep ==
  ASSUME IInv, UNCHANGED <<backend, input>>,
         NEW x, Good(x), x.type = "bool", Branch(x)
  PROVE  IInv'
<1> USE DEF IInv
<1>1. PICK taken : taken = x.value[input]
  OBVIOUS
<1>2. PICK e : e = x.expr
  OBVIOUS
<1>3. /\ PushPathConstraint(e, taken)
      /\ alive' = {i \in alive : x.value[i] = taken}
      /\ UNCHANGED <<reg, stdinBytes, defined, gaps>>
  BY <1>1, <1>2 DEF Branch
<1>4. /\ input \in alive /\ alive \subseteq defined /\ defined \subseteq Inputs
      /\ asserted \subseteq Inputs
  BY DEF PathInv
<1>5. input \in alive' /\ alive' \subseteq alive
  BY <1>1, <1>3, <1>4
<1>6. Forward
  BY <1>3, <1>5 DEF Forward
<1>7. asserted' \subseteq asserted
  BY <1>3 DEF PushPathConstraint
<1>8. Clean' = Clean /\ gaps' = gaps
  BY <1>3 DEF Clean
<1>9. Dom(x.type) = {0, 1}
  BY DEF Dom
<1>10. ASSUME Clean
       PROVE  /\ e \in [Inputs -> {0, 1}] \cup {Null}
              /\ \A i \in Reach : e # Null => e[i] = x.value[i]
              /\ \A i \in Reach : e = Null => x.value[i] = taken
  <2>1. Agrees(x, Reach)
    BY <1>10 DEF Good
  <2>2. \A i \in Reach : x.expr = Null => x.value[i] = x.value[input]
    BY <1>10, OperandRight
  <2>3. x.expr # Null => Operand(x) = x.expr
    BY DEF Operand
  <2> QED BY <1>1, <1>2, <1>9, <2>1, <2>2, <2>3 DEF Agrees
<1>11. ASSUME Clean PROVE input \in asserted'
  <2>1. input \in asserted /\ input \in Reach
    BY <1>11, ReachLaw DEF PathInv
  <2>2. e # Null => e[input] = taken
    BY <1>1, <1>10, <1>11, <2>1
  <2> QED BY <1>3, <2>1, <2>2 DEF PushPathConstraint
<1>12. ASSUME gaps = {} PROVE asserted' \cap defined = alive'
  <2>1. Clean /\ Reach = alive /\ asserted \cap defined = alive
    BY <1>12 DEF Clean, Reach, PathInv
  <2>2. CASE e = Null
    <3>1. alive' = alive
      BY <1>3, <1>10, <2>1, <2>2
    <3> QED BY <1>3, <2>1, <2>2, <3>1 DEF PushPathConstraint
  <2>3. CASE e # Null /\ asserted' = {i \in asserted : e[i] = taken}
    BY <1>3, <1>10, <2>1, <2>3
  <2>4. CASE e # Null /\ Cardinality(Range(e)) = 1 /\ UNCHANGED asserted
    <3>1. e \in [Inputs -> {0, 1}]
      BY <1>10, <2>1, <2>4
    <3>2. Range(e) \subseteq {0, 1}
      BY <3>1 DEF Range
    <3>3. IsFiniteSet({0, 1})
      <4>1. \A b \in Int : IsFiniteSet(0 .. b)
        BY FS_Interval
      <4>2. 1 \in Int
        OBVIOUS
      <4>3. IsFiniteSet(0 .. 1)
        BY <4>1, <4>2, Zenon
      <4>4. 0 .. 1 = {0, 1}
        OBVIOUS
      <4> QED BY <4>3, <4>4, Zenon
    <3>4. IsFiniteSet(Range(e))
      BY <3>2, <3>3, FS_Subset
    <3>5. PICK c : Range(e) = {c}
      BY <2>4, <3>4, FS_Singleton
    <3>6. \A i \in Inputs : e[i] = c
      BY <3>1, <3>5 DEF Range
    <3>7. \A i \in alive : x.value[i] = taken
      BY <1>1, <1>4, <1>10, <2>1, <2>4, <3>6
    <3>8. alive' = alive
      BY <1>3, <3>7
    <3> QED BY <2>1, <2>4, <3>8
  <2> QED BY <1>3, <2>2, <2>3, <2>4 DEF PushPathConstraint
<1>13. PathInv'
  BY <1>3, <1>4, <1>5, <1>7, <1>8, <1>11, <1>12 DEF PathInv
<1>14. RegInv'
  <2>1. reg' = reg
    BY <1>3
  <2>2. ASSUME NEW r \in Registers PROVE Good(reg[r])'
    <3>1. PICK u : u = reg[r]
      OBVIOUS
    <3>2. Good(u)'
      BY <1>6, <3>1, GoodKept DEF RegInv
    <3>3. reg'[r] = u
      BY <2>1, <3>1
    <3> QED BY <3>2, <3>3 DEF Good, Agrees, Operand
  <2> QED BY <2>1, <2>2 DEF RegInv
<1> QED BY <1>3, <1>13, <1>14, SameTable

-----------------------------------------------------------------------------
(***************************************************************************)
(* All together                                                            *)
(***************************************************************************)

LEMMA Initially == Init => IInv
<1> SUFFICES ASSUME Init PROVE IInv
  OBVIOUS
<1>1. gaps = {} /\ Clean /\ input \in Inputs
  BY DEF Init, Clean
<1>2. PathInv
  BY <1>1 DEF Init, PathInv
<1>3. RegInv
  <2>1. 0 \in Dom("int") /\ "int" \in Types
    BY LiteralTypes DEF Dom, Types
  <2>2. PICK v : v = Const("int", 0)
    OBVIOUS
  <2>3. Good(v)
    BY <1>2, <2>1, <2>2, ConstGood
  <2>4. reg = [r \in Registers |-> v]
    BY <2>2 DEF Init
  <2> QED BY <2>3, <2>4 DEF RegInv
<1>4. TableInv
  BY DEF Init, TableInv
<1> QED BY <1>2, <1>3, <1>4 DEF IInv

LEMMA Step == IInv /\ [Next]_vars => IInv'
<1> SUFFICES ASSUME IInv, [Next]_vars PROVE IInv'
  OBVIOUS
<1>1. PathInv /\ RegInv
  BY DEF IInv
<1>2. CASE UNCHANGED vars
  BY <1>2 DEF vars, IInv, PathInv, RegInv, TableInv, Good, Agrees, Operand, Clean, Reach
<1>3. CASE Next
  <2>1. Instruction /\ UNCHANGED <<backend, input>>
    BY <1>3 DEF Next
  <2>3. "bool" \in Types /\ "int" \in Types /\ "float" \in Types
    BY DEF Types
  <2>4. CASE \E r \in Registers, k \in 0 .. InputLen - 1 : GetInputByte(r, k)
    BY <2>1, <2>4, GetInputByteStep
  <2>5. ASSUME NEW r \in Registers, NEW op \in Opcodes,
               NEW x \in Loaded("int"), NEW y \in Operands("int"),
               Binary(r, op, x, y) \/ Binary(r, op, y, x)
        PROVE  IInv'
    <3>1. Good(x) /\ x.type = "int" /\ Good(y) /\ y.type = "int"
      BY <1>1, <2>3, LoadedGood, OperandsGood
    <3> QED BY <2>1, <2>5, <3>1, BinaryStep
  <2>6. ASSUME NEW r \in Registers, NEW op \in Logical,
               NEW x \in Loaded("bool"), NEW y \in Operands("bool"),
               Boolean(r, op, x, y) \/ Boolean(r, op, y, x)
        PROVE  IInv'
    <3>1. Good(x) /\ x.type = "bool" /\ Good(y) /\ y.type = "bool"
      BY <1>1, <2>3, LoadedGood, OperandsGood
    <3> QED BY <2>1, <2>6, <3>1, BooleanStep
  <2>7. ASSUME NEW r \in Registers, NEW p \in IntPredicates,
               NEW x \in Loaded("int"), NEW y \in Operands("int"),
               ICmp(r, p, x, y) \/ ICmp(r, p, y, x)
        PROVE  IInv'
    <3>1. Good(x) /\ x.type = "int" /\ Good(y) /\ y.type = "int"
      BY <1>1, <2>3, LoadedGood, OperandsGood
    <3> QED BY <2>1, <2>7, <3>1, ICmpStep
  <2>8. ASSUME NEW r \in Registers, NEW p \in FloatPredicates,
               NEW x \in Loaded("float"), NEW y \in Operands("float"),
               FCmp(r, p, x, y) \/ FCmp(r, p, y, x)
        PROVE  IInv'
    <3>1. Good(x) /\ x.type = "float" /\ Good(y) /\ y.type = "float"
      BY <1>1, <2>3, LoadedGood, OperandsGood
    <3> QED BY <2>1, <2>8, <3>1, FCmpStep
  <2>9. ASSUME NEW r \in Registers, NEW op \in FloatOpcodes,
               NEW x \in Loaded("float"), NEW y \in Operands("float"),
               FloatBinary(r, op, x, y) \/ FloatBinary(r, op, y, x)
        PROVE  IInv'
    <3>1. Good(x) /\ x.type = "float" /\ Good(y) /\ y.type = "float"
      BY <1>1, <2>3, LoadedGood, OperandsGood
    <3> QED BY <2>1, <2>9, <3>1, FloatBinaryStep
  <2>10. CASE \E r \in Registers, x \in Loaded("float") : Fabs(r, x)
    BY <1>1, <2>1, <2>10, LoadedGood, FabsStep
  <2>11. CASE \E r \in Registers, signed \in BOOLEAN, x \in Loaded("int") :
                IntToFloat(r, signed, x)
    BY <1>1, <2>1, <2>11, LoadedGood, IntToFloatStep
  <2>12. CASE \E r \in Registers, signed \in BOOLEAN, x \in Loaded("float") :
                FloatToInt(r, signed, x)
    BY <1>1, <2>1, <2>12, LoadedGood, FloatToIntStep
  <2>13. CASE \E r \in Registers, x \in Loaded("bool") : BoolToBits(r, x)
    BY <1>1, <2>1, <2>13, LoadedGood, BoolToBitsStep
  <2>14. CASE \E x \in Loaded("bool") : Branch(x)
    BY <1>1, <2>1, <2>14, LoadedGood, BranchStep
  <2> QED BY <2>1, <2>4, <2>5, <2>6, <2>7, <2>8, <2>9, <2>10, <2>11, <2>12, <2>13, <2>14
          DEF Instruction
<1> QED BY <1>2, <1>3

\* The invariant is one.
THEOREM BackendInvariance == Spec => []IInv
<1> QED BY Initially, Step, PTL DEF Spec

\* Every builder means what its instruction computes, wherever that is defined, on
\* integers of any width (binaryOperatorHandlers, comparisonHandlers, and the
\* builders of both backends).
THEOREM BackendBuildersRight == Spec => []BuildersRight
<1>1. IInv => BuildersRight
  <2> SUFFICES ASSUME IInv, gaps \cap Misbuilt = {}, NEW v \in Range(reg), v.expr # Null,
                      NEW i \in IF gaps = {} THEN alive ELSE {input}
               PROVE  v.expr[i] = v.value[i]
    BY DEF BuildersRight
  <2>1. Clean /\ i \in Reach
    BY DEF Clean, Reach
  <2>2. PICK r \in Registers : v = reg[r]
    BY DEF Range, IInv, RegInv
  <2>3. Agrees(v, Reach)
    BY <2>1, <2>2 DEF IInv, RegInv, Good
  <2>4. Operand(v) = v.expr
    BY DEF Operand
  <2> QED BY <2>1, <2>3, <2>4 DEF Agrees
<1> QED BY <1>1, BackendInvariance, PTL

\* A value without an expression is concrete on the whole path, unless one of the
\* known shortcomings was met.
THEOREM BackendLostOnlyInGaps == Spec => []LostOnlyInGaps
<1>1. IInv => LostOnlyInGaps
  <2> SUFFICES ASSUME IInv, gaps = {}, NEW v \in Range(reg), v.expr = Null, NEW i \in alive
               PROVE  v.value[i] = v.value[input]
    BY DEF LostOnlyInGaps
  <2>1. Clean /\ Reach = alive /\ PathInv
    BY DEF Clean, Reach, IInv
  <2>2. PICK r \in Registers : v = reg[r]
    BY DEF Range, IInv, RegInv
  <2>3. Good(v)
    BY <2>2 DEF IInv, RegInv
  <2> QED BY <2>1, <2>3, OperandRight
<1> QED BY <1>1, BackendInvariance, PTL

\* What the solver was told is so for the input of the process; and if nothing was
\* lost it is the path, up to undefined behaviour (_sym_push_path_constraint).
THEOREM BackendSolverKnowsPath == Spec => []SolverKnowsPath
<1>1. IInv => SolverKnowsPath
  BY DEF IInv, PathInv, Clean, SolverKnowsPath
<1> QED BY <1>1, BackendInvariance, PTL

\* No two input bytes share a variable (_sym_get_input_byte).
THEOREM BackendVariablesDistinct == Spec => []VariablesDistinct
<1>1. IInv => VariablesDistinct
  BY DEF IInv, TableInv, VariablesDistinct
<1> QED BY <1>1, BackendInvariance, PTL
=============================================================================
