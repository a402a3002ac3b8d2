--------------------------- MODULE NumberOpsProofs ---------------------------
(***************************************************************************)
(* Theorems about NumberOps, for words of any number of bits, and floating *)
(* point formats of any precision.                                         *)
(*                                                                         *)
(* The powers of two come first, then words, floating point numbers, what  *)
(* each instruction makes of operands that agree with WASM, and last the   *)
(* steps, which keep the invariant NumberInv.                              *)
(***************************************************************************)
EXTENDS NumberOps, FiniteSetTheorems, WellFoundedInduction, TLAPS

(***************************************************************************)
(* Induction on natural numbers, with a set for the predicate, and the     *)
(* recursive functions it defines.                                         *)
(***************************************************************************)
LEMMA NotBelow ==
  ASSUME NEW i \in Nat, NEW j \in Nat, <<i, j>> \notin OpToRel(<, Nat)
  PROVE  j <= i
BY DEF OpToRel

LEMMA LeastNatural ==
  ASSUME NEW S \in SUBSET Nat, S # {}
  PROVE  \E x \in S : \A y \in S : x <= y
<1>1. PICK x \in S : \A y \in S : ~(<<y, x>> \in OpToRel(<, Nat))
  BY WFMin, NatLessThanWellFounded
<1> QED BY <1>1, NotBelow

LEMMA AllNaturals ==
  ASSUME NEW S \in SUBSET Nat, 0 \in S, \A n \in S : n + 1 \in S
  PROVE  S = Nat
<1> SUFFICES ASSUME Nat \ S # {} PROVE FALSE
  OBVIOUS
<1>1. PICK x \in Nat \ S : \A y \in Nat \ S : x <= y
  BY LeastNatural
<1>2. x # 0 /\ x - 1 \in Nat /\ x - 1 \in S
  BY <1>1
<1> QED BY <1>2

Steps(V) == [Nat -> [V -> V]]
Defines(V, a, h) == \E f \in [Nat -> V] : f[0] = a /\ \A n \in Nat : f[n + 1] = h[n][f[n]]

LEMMA Recursion ==
  ASSUME NEW V, NEW a \in V, NEW h \in Steps(V)
  PROVE  Defines(V, a, h)
<1> DEFINE Chain(n, f) == f[0] = a /\ \A i \in Nat : i < n => f[i + 1] = h[i][f[i]]
           S == {n \in Nat : \E f \in [0..n -> V] : Chain(n, f)}
           C(n) == CHOOSE f \in [0..n -> V] : Chain(n, f)
           F == [n \in Nat |-> C(n)[n]]
<1>1. 0 \in S
  <2>1. [i \in 0..0 |-> a] \in [0..0 -> V] /\ Chain(0, [i \in 0..0 |-> a])
    OBVIOUS
  <2> QED BY <2>1
<1>2. ASSUME NEW n \in S PROVE n + 1 \in S
  <2>1. PICK f \in [0..n -> V] : Chain(n, f)
    OBVIOUS
  <2> DEFINE g == [i \in 0..(n + 1) |-> IF i = n + 1 THEN h[n][f[n]] ELSE f[i]]
  <2>2. n \in Nat /\ f[n] \in V /\ h[n][f[n]] \in V
    BY DEF Steps
  <2>3. g \in [0..(n + 1) -> V]
    BY <2>2
  <2>4. Chain(n + 1, g)
    <3>1. g[0] = a
      BY <2>1, <2>2
    <3>2. ASSUME NEW i \in Nat, i < n + 1 PROVE g[i + 1] = h[i][g[i]]
      <4>1. CASE i = n
        BY <2>2, <4>1
      <4>2. CASE i < n
        BY <2>1, <2>2, <4>2
      <4> QED BY <2>2, <3>2, <4>1, <4>2
    <3> QED BY <3>1, <3>2
  <2> HIDE DEF g, Chain
  <2>5. \E k \in [0..(n + 1) -> V] : Chain(n + 1, k)
    BY <2>3, <2>4
  <2> QED BY <2>2, <2>5
<1>3. S = Nat
  BY <1>1, <1>2, AllNaturals
<1>4. ASSUME NEW n \in Nat PROVE C(n) \in [0..n -> V] /\ Chain(n, C(n))
  <2>1. n \in S
    BY <1>3
  <2>2. \E f \in [0..n -> V] : Chain(n, f)
    BY <2>1
  <2> QED BY <2>2
<1>5. ASSUME NEW n \in Nat PROVE C(n)[n] = C(n + 1)[n]
  <2> DEFINE f == C(n)
             g == C(n + 1)
             T == {i \in Nat : i <= n => f[i] = g[i]}
  <2>0. n + 1 \in Nat
    OBVIOUS
  <2>1. Chain(n, f) /\ Chain(n + 1, g)
    BY <1>4, <2>0
  <2> HIDE DEF f, g
  <2>2. 0 \in T
    BY <2>1
  <2>3. ASSUME NEW i \in T PROVE i + 1 \in T
    <3>1. i \in Nat /\ i + 1 \in Nat /\ (i + 1 <= n => i < n /\ i < n + 1 /\ i <= n)
      OBVIOUS
    <3>2. i + 1 <= n => f[i + 1] = h[i][f[i]] /\ g[i + 1] = h[i][g[i]]
      BY <2>1, <3>1
    <3>3. i + 1 <= n => f[i] = g[i]
      BY <3>1
    <3> QED BY <3>1, <3>2, <3>3
  <2>4. T = Nat
    BY <2>2, <2>3, AllNaturals
  <2>5. f[n] = g[n]
    BY <2>4
  <2> QED BY <2>5 DEF f, g
<1> HIDE DEF C
<1>6. F \in [Nat -> V]
  <2>1. ASSUME NEW n \in Nat PROVE C(n)[n] \in V
    BY <1>4
  <2> QED BY <2>1
<1>7. F[0] = a
  BY <1>4
<1>8. ASSUME NEW n \in Nat PROVE F[n + 1] = h[n][F[n]]
  <2>1. n + 1 \in Nat /\ n < n + 1
    OBVIOUS
  <2>2. C(n + 1)[n + 1] = h[n][C(n + 1)[n]]
    BY <1>4, <2>1
  <2> QED BY <1>5, <2>1, <2>2
<1> QED BY <1>6, <1>7, <1>8 DEF Defines

-----------------------------------------------------------------------------
(***************************************************************************)
(* Powers of two.                                                          *)
(***************************************************************************)
LEMMA PowersDefined ==
  Pow2 = [n \in Nat |-> IF n = 0 THEN 1 ELSE 2 * Pow2[n - 1]]
<1> DEFINE h == [n \in Nat |-> [x \in Nat |-> 2 * x]]
<1>0. \A n, x \in Nat : h[n][x] = 2 * x
  OBVIOUS
<1>1. h \in Steps(Nat)
  BY DEF Steps
<1> HIDE DEF h
<1>2. PICK f \in [Nat -> Nat] : f[0] = 1 /\ \A n \in Nat : f[n + 1] = h[n][f[n]]
  <2>1. Defines(Nat, 1, h)
    BY <1>1, Recursion
  <2> QED BY <2>1 DEF Defines
<1>3. ASSUME NEW n \in Nat PROVE f[n] = IF n = 0 THEN 1 ELSE 2 * f[n - 1]
  <2>1. CASE n = 0
    BY <1>2, <2>1
  <2>2. CASE n # 0
    <3>1. n - 1 \in Nat /\ (n - 1) + 1 = n
      BY <2>2
    <3>2. f[(n - 1) + 1] = h[n - 1][f[n - 1]]
      BY <1>2, <3>1
    <3>3. f[n - 1] \in Nat
      BY <3>1
    <3> QED BY <1>0, <2>2, <3>1, <3>2, <3>3
  <2> QED BY <2>1, <2>2
<1>4. f = [n \in Nat |-> IF n = 0 THEN 1 ELSE 2 * f[n - 1]]
  BY <1>3
<1> QED BY <1>4 DEF Pow2

LEMMA PowerStep ==
  /\ Pow2[0] = 1
  /\ \A n \in Nat : Pow2[n + 1] = 2 * Pow2[n]
<1>1. Pow2[0] = 1
  BY PowersDefined
<1>2. ASSUME NEW n \in Nat PROVE Pow2[n + 1] = 2 * Pow2[n]
  BY PowersDefined
<1> QED BY <1>1, <1>2

LEMMA PowerTyped ==
  ASSUME NEW n \in Nat
  PROVE  Pow2[n] \in Nat /\ n < Pow2[n]
<1> DEFINE S == {m \in Nat : Pow2[m] \in Nat /\ m < Pow2[m]}
<1>1. 0 \in S
  BY PowerStep
<1>2. ASSUME NEW m \in S PROVE m + 1 \in S
  <2>1. m \in Nat /\ Pow2[m] \in Nat /\ m < Pow2[m] /\ Pow2[m + 1] = 2 * Pow2[m]
    BY PowerStep
  <2> QED BY <2>1
<1>3. S = Nat
  BY <1>1, <1>2, AllNaturals
<1> QED BY <1>3

LEMMA PowerSum ==
  ASSUME NEW a \in Nat, NEW b \in Nat
  PROVE  Pow2[a + b] = Pow2[a] * Pow2[b]
<1> DEFINE S == {m \in Nat : Pow2[a + m] = Pow2[a] * Pow2[m]}
<1>1. 0 \in S
  BY PowerStep, PowerTyped
<1>2. ASSUME NEW m \in S PROVE m + 1 \in S
  <2>1. m \in Nat /\ a + m \in Nat /\ a + (m + 1) = (a + m) + 1
    OBVIOUS
  <2>2. Pow2[m + 1] = 2 * Pow2[m] /\ Pow2[(a + m) + 1] = 2 * Pow2[a + m]
    BY <2>1, PowerStep
  <2>3. Pow2[a] \in Nat /\ Pow2[m] \in Nat
    BY <2>1, PowerTyped
  <2>4. Pow2[a] * (2 * Pow2[m]) = 2 * (Pow2[a] * Pow2[m])
    BY <2>3
  <2> QED BY <2>1, <2>2, <2>4
<1>3. S = Nat
  BY <1>1, <1>2, AllNaturals
<1> QED BY <1>3

(***************************************************************************)
(* The numbers named after their words.                                    *)
(***************************************************************************)
LEMMA WordFacts ==
  ASSUME NEW w \in Nat \ {0}
  PROVE  /\ Pow2[w] \in Nat /\ Pow2[w] = 2 * Lowest(w)
         /\ Lowest(w) \in Nat \ {0} /\ Highest(w) = Lowest(w) - 1
         /\ MinusOne(w) = Pow2[w] - 1
         /\ w > 1 => Lowest(w) > 1
         /\ Lowest(1) = 1 /\ Word(1) = 0..1
<1>1. w - 1 \in Nat /\ (w - 1) + 1 = w
  OBVIOUS
<1>2. Pow2[(w - 1) + 1] = 2 * Pow2[w - 1] /\ Pow2[w - 1] \in Nat /\ w - 1 < Pow2[w - 1]
  BY <1>1, PowerStep, PowerTyped
<1>3. Pow2[0] = 1 /\ Pow2[0 + 1] = 2 * Pow2[0]
  BY PowerStep
<1>4. Lowest(1) = 1 /\ Word(1) = 0..1
  BY <1>3 DEF Lowest, Word
<1>5. w > 1 => Lowest(w) > 1
  BY <1>1, <1>2 DEF Lowest
<1> QED BY <1>1, <1>2, <1>4, <1>5 DEF Lowest, Highest, MinusOne

(***************************************************************************)
(* Sums of powers: each is a word, and that of bit 0 alone is 1.           *)
(***************************************************************************)
LEMMA BitsSummed ==
  ASSUME NEW S
  PROVE  /\ FromBits(S, 0) = 0
         /\ \A n \in Nat : /\ FromBits(S, n) \in Nat
                           /\ FromBits(S, n + 1) = FromBits(S, n) + (IF n \in S THEN Pow2[n] ELSE 0)
<1> DEFINE h == [n \in Nat |-> [x \in Nat |-> x + (IF n \in S THEN Pow2[n] ELSE 0)]]
           Sums(g) == g = [n \in Nat |-> IF n = 0 THEN 0
                                         ELSE g[n - 1] + (IF n - 1 \in S THEN Pow2[n - 1] ELSE 0)]
<1>0. \A n, x \in Nat : h[n][x] = x + (IF n \in S THEN Pow2[n] ELSE 0)
  OBVIOUS
<1>1. h \in Steps(Nat)
  <2>1. ASSUME NEW n \in Nat, NEW x \in Nat PROVE x + (IF n \in S THEN Pow2[n] ELSE 0) \in Nat
    BY PowerTyped
  <2> QED BY <2>1 DEF Steps
<1> HIDE DEF h
<1>2. PICK f \in [Nat -> Nat] : f[0] = 0 /\ \A n \in Nat : f[n + 1] = h[n][f[n]]
  <2>1. Defines(Nat, 0, h)
    BY <1>1, Recursion
  <2> QED BY <2>1 DEF Defines
<1>3. ASSUME NEW n \in Nat
      PROVE  f[n] = IF n = 0 THEN 0 ELSE f[n - 1] + (IF n - 1 \in S THEN Pow2[n - 1] ELSE 0)
  <2>1. CASE n = 0
    BY <1>2, <2>1
  <2>2. CASE n # 0
    <3>1. n - 1 \in Nat /\ (n - 1) + 1 = n
      BY <2>2
    <3>2. f[(n - 1) + 1] = h[n - 1][f[n - 1]]
      BY <1>2, <3>1
    <3>3. f[n - 1] \in Nat
      BY <3>1
    <3> QED BY <1>0, <2>2, <3>1, <3>2, <3>3
  <2> QED BY <2>1, <2>2
<1>4. Sums(f)
  BY <1>3
<1> DEFINE sum == CHOOSE g : Sums(g)
<1>5. Sums(sum)
  BY <1>4
<1>6. \A n \in Nat : FromBits(S, n) = sum[n]
  BY DEF FromBits
<1> HIDE DEF sum
<1>7. sum[0] = 0
  BY <1>5
<1>8. \A n \in Nat : sum[n + 1] = sum[n] + (IF n \in S THEN Pow2[n] ELSE 0)
  <2> TAKE n \in Nat
  <2>1. n + 1 \in Nat /\ n + 1 # 0 /\ (n + 1) - 1 = n
    OBVIOUS
  <2> QED BY <1>5, <2>1
<1> DEFINE T == {n \in Nat : sum[n] \in Nat}
<1>9. 0 \in T
  BY <1>7
<1>10. ASSUME NEW n \in T PROVE n + 1 \in T
  <2>1. n \in Nat /\ sum[n] \in Nat /\ Pow2[n] \in Nat
    BY PowerTyped
  <2> QED BY <1>8, <2>1
<1>11. T = Nat
  BY <1>9, <1>10, AllNaturals
<1>12. \A n \in Nat : sum[n] \in Nat
  BY <1>11
<1> QED BY <1>6, <1>7, <1>8, <1>12

LEMMA FromBitsWord ==
  ASSUME NEW S, NEW w \in Nat
  PROVE  FromBits(S, w) \in Word(w)
<1> DEFINE T == {n \in Nat : FromBits(S, n) < Pow2[n]}
<1>1. 0 \in T
  BY BitsSummed, PowerStep
<1>2. ASSUME NEW n \in T PROVE n + 1 \in T
  <2>1. n \in Nat /\ Pow2[n] \in Nat /\ Pow2[n + 1] = 2 * Pow2[n]
    BY PowerTyped, PowerStep
  <2>2. FromBits(S, n) \in Nat /\ FromBits(S, n) < Pow2[n]
    BY BitsSummed
  <2>3. FromBits(S, n + 1) = FromBits(S, n) + (IF n \in S THEN Pow2[n] ELSE 0)
    BY <2>1, BitsSummed
  <2> QED BY <2>1, <2>2, <2>3
<1>3. T = Nat
  BY <1>1, <1>2, AllNaturals
<1>4. FromBits(S, w) < Pow2[w] /\ FromBits(S, w) \in Nat /\ Pow2[w] \in Nat
  BY <1>3, BitsSummed, PowerTyped
<1> QED BY <1>4 DEF Word

LEMMA LowBitOnly ==
  ASSUME NEW S \in SUBSET {0}, NEW w \in Nat \ {0}
  PROVE  FromBits(S, w) = Truth(S # {})
<1> DEFINE T == {n \in Nat : n # 0 => FromBits(S, n) = Truth(S # {})}
<1>1. 0 \in T
  OBVIOUS
<1>2. ASSUME NEW n \in T PROVE n + 1 \in T
  <2>1. n \in Nat /\ n + 1 \in Nat
    OBVIOUS
  <2>2. FromBits(S, n + 1) = FromBits(S, n) + (IF n \in S THEN Pow2[n] ELSE 0)
    BY <2>1, BitsSummed
  <2>3. CASE n = 0
    <3>1. FromBits(S, n + 1) = 0 + (IF 0 \in S THEN 1 ELSE 0)
      BY <2>2, <2>3, BitsSummed, PowerStep
    <3>2. 0 \in S <=> S # {}
      OBVIOUS
    <3> QED BY <2>1, <3>1, <3>2 DEF Truth
  <2>4. CASE n # 0
    <3>1. FromBits(S, n) = Truth(S # {}) /\ n \notin S
      BY <2>1, <2>4
    <3>2. FromBits(S, n + 1) = Truth(S # {})
      BY <2>2, <3>1 DEF Truth
    <3> QED BY <2>1, <3>2
  <2> QED BY <2>3, <2>4
<1>3. T = Nat
  BY <1>1, <1>2, AllNaturals
<1>4. w \in T
  BY <1>3
<1> QED BY <1>4

\* The bits of a boolean, in a word of any width.
LEMMA BooleanBits ==
  ASSUME NEW x \in 0..1, NEW w \in Nat \ {0}
  PROVE  Bits(x, w) = IF x = 1 THEN {0} ELSE {}
<1>1. ASSUME NEW i \in 0..(w - 1) PROVE (x \div Pow2[i]) % 2 = 1 <=> (i = 0 /\ x = 1)
  <2>1. CASE i = 0
    BY <2>1, PowerStep
  <2>2. CASE i # 0
    <3>1. i \in Nat /\ i < Pow2[i] /\ Pow2[i] \in Nat
      BY PowerTyped
    <3>2. 1 < Pow2[i]
      BY <2>2, <3>1
    <3>3. x \div Pow2[i] = 0
      BY <3>1, <3>2
    <3> QED BY <2>2, <3>3
  <2> QED BY <2>1, <2>2
<1>2. 0 \in 0..(w - 1)
  OBVIOUS
<1> QED BY <1>1, <1>2 DEF Bits

-----------------------------------------------------------------------------
(***************************************************************************)
(* Operations on words give words.                                         *)
(***************************************************************************)
LEMMA WrappedWord ==
  ASSUME NEW w \in Nat
  PROVE  /\ \A i \in Int : Wrapped(i, w) \in Word(w)
         /\ \A x \in Word(w) : x \in Nat /\ Wrapped(x, w) = x
<1>1. Pow2[w] \in Nat \ {0}
  BY PowerTyped
<1> QED BY <1>1 DEF Wrapped, Word

LEMMA ValuedEither ==
  ASSUME NEW w \in Nat \ {0}, NEW x \in Word(w), NEW sign \in BOOLEAN
  PROVE  /\ Valued(x, w, sign) = x \/ (Valued(x, w, sign) = x - Pow2[w] /\ x # 0)
         /\ Pow2[w] \in Nat \ {0} /\ x \in 0..(Pow2[w] - 1)
<1>1. Pow2[w] \in Nat \ {0} /\ x \in 0..(Pow2[w] - 1)
  BY WordFacts DEF Word
<1>2. Lowest(w) \in Nat \ {0}
  BY WordFacts
<1>3. x # 0 \/ x < Lowest(w)
  BY <1>2
<1> QED BY <1>1, <1>3 DEF Valued, Signed

LEMMA ValuedTyped ==
  ASSUME NEW w \in Nat \ {0}, NEW x \in Word(w), NEW sign \in BOOLEAN
  PROVE  Valued(x, w, sign) \in Int /\ (Valued(x, w, sign) = 0 <=> x = 0)
<1> DEFINE n == Pow2[w]
           v == Valued(x, w, sign)
<1>1. (v = x \/ (v = x - n /\ x # 0)) /\ n \in Nat \ {0} /\ x \in 0..(n - 1)
  BY ValuedEither
<1> HIDE DEF n, v
<1>2. x \in Int /\ x - n \in Int /\ x - n # 0 /\ x - n < 0
  BY <1>1
<1>3. CASE v = x
  BY <1>2, <1>3 DEF v
<1>4. CASE v = x - n /\ x # 0
  BY <1>2, <1>4 DEF v
<1> QED BY <1>1, <1>3, <1>4

LEMMA ValuedWrapped ==
  ASSUME NEW w \in Nat \ {0}, NEW x \in Word(w), NEW sign \in BOOLEAN
  PROVE  Wrapped(Valued(x, w, sign), w) = x
<1> DEFINE n == Pow2[w]
           v == Valued(x, w, sign)
<1>1. (v = x \/ (v = x - n /\ x # 0)) /\ n \in Nat \ {0} /\ x \in 0..(n - 1)
  BY ValuedEither
<1> HIDE DEF n, v
<1>2. x % n = x /\ (x - n) % n = x
  BY <1>1
<1>3. v % n = x
  BY <1>1, <1>2
<1> QED BY <1>3 DEF v, n, Wrapped

LEMMA ValuedApart ==
  ASSUME NEW w \in Nat \ {0}, NEW x \in Word(w), NEW y \in Word(w), NEW sign \in BOOLEAN,
         Valued(x, w, sign) = Valued(y, w, sign)
  PROVE  x = y
BY ValuedWrapped

LEMMA QuotientTyped ==
  ASSUME NEW i \in Int, NEW j \in Int \ {0}
  PROVE  Quotient(i, j) \in Int
<1>1. Magnitude(i) \in Nat /\ Magnitude(j) \in Nat \ {0}
  BY DEF Magnitude
<1>2. Magnitude(i) \div Magnitude(j) \in Int
  BY <1>1
<1> QED BY <1>2 DEF Quotient

LEMMA DivisionsTyped ==
  ASSUME NEW w \in Nat \ {0}, NEW x \in Word(w), NEW y \in Word(w) \ {0}, NEW sign \in BOOLEAN
  PROVE  Divided(x, y, w, sign) \in Word(w) /\ Remainder(x, y, w, sign) \in Word(w)
<1> DEFINE i == Valued(x, w, sign)
           j == Valued(y, w, sign)
<1>1. i \in Int /\ j \in Int \ {0}
  BY ValuedTyped
<1>2. Quotient(i, j) \in Int
  BY <1>1, QuotientTyped
<1>3. i - j * Quotient(i, j) \in Int
  BY <1>1, <1>2
<1> QED BY <1>2, <1>3, WrappedWord DEF Divided, Remainder

LEMMA CombinedTyped ==
  ASSUME NEW w \in Nat \ {0}, NEW x \in Word(w), NEW y \in Word(w), NEW op \in Arithmetic
  PROVE  Combined(op, x, y, w) \in Word(w)
<1>1. x \in Nat /\ y \in Nat
  BY WrappedWord
<1>2. x + y \in Int /\ x - y \in Int /\ x * y \in Int
  BY <1>1
<1>3. /\ Wrapped(x + y, w) \in Word(w) /\ Wrapped(x - y, w) \in Word(w)
      /\ Wrapped(x * y, w) \in Word(w)
  BY <1>2, WrappedWord
<1>4. \A S : FromBits(S, w) \in Word(w)
  BY FromBitsWord
<1>5. CASE op = "ADD"
  BY <1>3, <1>5 DEF Combined
<1>6. CASE op = "SUB"
  BY <1>3, <1>6 DEF Combined
<1>7. CASE op = "MUL"
  BY <1>3, <1>7 DEF Combined
<1>8. CASE op = "AND"
  BY <1>4, <1>8 DEF Combined
<1>9. CASE op = "OR"
  BY <1>4, <1>9 DEF Combined
<1>10. CASE op = "XOR"
  BY <1>4, <1>10 DEF Combined
<1> QED BY <1>5, <1>6, <1>7, <1>8, <1>9, <1>10 DEF Arithmetic

LEMMA ShiftedTyped ==
  ASSUME NEW w \in Nat \ {0}, NEW x \in Word(w), NEW n \in Nat, NEW sign \in BOOLEAN, NEW op
  PROVE  Shifted(op, x, n, w, sign) \in Word(w)
<1>1. x \in Nat /\ Valued(x, w, sign) \in Int
  BY WrappedWord, ValuedTyped
<1>0. Pow2[n] \in Nat \ {0}
  BY PowerTyped
<1>2. x * Pow2[n] \in Int /\ Valued(x, w, sign) \div Pow2[n] \in Int
  BY <1>0, <1>1
<1> QED BY <1>2, WrappedWord DEF Shifted

LEMMA CountedTyped ==
  ASSUME NEW w \in Nat \ {0}, NEW x, NEW op \in Counts
  PROVE  Counted(op, x, w) \in Word(w)
<1>1. ASSUME NEW S, S \subseteq 0..(w - 1) \/ S \subseteq 1..w
      PROVE  Cardinality(S) \in Word(w)
  <2>1. /\ IsFiniteSet(0..(w - 1)) /\ Cardinality(0..(w - 1)) = w
        /\ IsFiniteSet(1..w) /\ Cardinality(1..w) = w
    BY FS_Interval
  <2>2. Cardinality(S) \in Nat /\ Cardinality(S) <= w
    BY <1>1, <2>1, FS_Subset, FS_CardinalityType
  <2>3. w < Pow2[w] /\ Pow2[w] \in Nat
    BY PowerTyped
  <2> QED BY <2>2, <2>3 DEF Word
<1>2. LeadingZeros(x, w) \in Word(w)
  BY <1>1 DEF LeadingZeros
<1>3. TrailingZeros(x, w) \in Word(w)
  BY <1>1 DEF TrailingZeros
<1>4. Ones(x, w) \in Word(w)
  BY <1>1 DEF Ones, Bits
<1> QED BY <1>2, <1>3, <1>4 DEF Counted, Counts

(***************************************************************************)
(* On comparisons, some operations are the same in one bit and in more.    *)
(***************************************************************************)
LEMMA BooleansCompared ==
  ASSUME NEW w \in Nat, w > 1, NEW x \in 0..1, NEW y \in 0..1, NEW sign \in BOOLEAN,
         NEW op \in Comparisons, op \in {"EQ", "NE"} \/ ~sign
  PROVE  Compared(op, x, y, 1, sign) <=> Compared(op, x, y, w, sign)
<1>1. /\ x \in Word(1) /\ y \in Word(1) /\ 1 \in Nat \ {0}
      /\ x \in Word(w) /\ y \in Word(w) /\ w \in Nat \ {0}
  <2>1. Pow2[w] \in Nat /\ w < Pow2[w]
    BY PowerTyped
  <2>2. x \in Word(w) /\ y \in Word(w)
    BY <2>1 DEF Word
  <2>3. Word(1) = 0..1
    BY WordFacts
  <2> QED BY <2>2, <2>3
<1>2. CASE ~sign
  BY <1>2 DEF Compared, Valued
<1>3. CASE op \in {"EQ", "NE"}
  <2>1. (Valued(x, 1, sign) = Valued(y, 1, sign)) <=> x = y
    BY Zenon, <1>1, ValuedApart
  <2>2. (Valued(x, w, sign) = Valued(y, w, sign)) <=> x = y
    BY Zenon, <1>1, ValuedApart
  <2> QED BY <1>3, <2>1, <2>2 DEF Compared
<1> QED BY <1>2, <1>3

LEMMA BooleansCombined ==
  ASSUME NEW w \in Nat, w > 1, NEW x \in 0..1, NEW y \in 0..1, NEW op \in {"MUL", "AND", "OR", "XOR"}
  PROVE  Combined(op, x, y, 1) = Combined(op, x, y, w)
<1>1. /\ Bits(x, 1) = Bits(x, w) /\ Bits(x, w) \in SUBSET {0}
      /\ Bits(y, 1) = Bits(y, w) /\ Bits(y, w) \in SUBSET {0}
  BY BooleanBits
<1>2. \A S \in SUBSET {0} : FromBits(S, 1) = FromBits(S, w)
  BY LowBitOnly
<1>3. CASE op = "MUL"
  <2>1. x * y \in 0..1
    <3>1. (x = 0 \/ x = 1) /\ (y = 0 \/ y = 1)
      OBVIOUS
    <3> QED BY <3>1
  <2>2. x * y \in Word(1) /\ x * y \in Word(w)
    <3>1. Pow2[w] \in Nat /\ w < Pow2[w] /\ x * y \in Nat /\ x * y <= 1
      BY <2>1, PowerTyped
    <3>2. x * y \in Word(w)
      BY <3>1 DEF Word
    <3>3. Word(1) = 0..1
      BY WordFacts
    <3> QED BY <2>1, <3>2, <3>3
  <2>3. Wrapped(x * y, 1) = x * y /\ Wrapped(x * y, w) = x * y
    BY <2>2, WrappedWord
  <2> QED BY <1>3, <2>3 DEF Combined
<1>4. CASE op = "AND"
  BY <1>1, <1>2, <1>4 DEF Combined
<1>5. CASE op = "OR"
  BY <1>1, <1>2, <1>5 DEF Combined
<1>6. CASE op = "XOR"
  BY <1>1, <1>2, <1>6 DEF Combined
<1> QED BY <1>3, <1>4, <1>5, <1>6

-----------------------------------------------------------------------------
(***************************************************************************)
(* Division: what takes the place of lowest / -1 is what WASM says, and    *)
(* the rest is the same division.                                          *)
(***************************************************************************)
LEMMA TypeWidths ==
  ASSUME NEW t \in Types
  PROVE  t \in Nat \ {0} /\ t > 1
BY WidthsOrdered DEF Types

LEMMA Overflow ==
  ASSUME NEW w \in Nat, w > 1
  PROVE  /\ Divided(Lowest(w), MinusOne(w), w, FALSE) = 0
         /\ Remainder(Lowest(w), MinusOne(w), w, TRUE) = 0
         /\ Remainder(Lowest(w), MinusOne(w), w, FALSE) = Lowest(w)
         /\ Lowest(w) \in Word(w) /\ 0 \in Word(w) /\ MinusOne(w) # 0
<1> DEFINE h == Lowest(w)
           m == MinusOne(w)
<1>1. h \in Nat /\ h > 1 /\ m = 2 * h - 1 /\ Pow2[w] = 2 * h
  BY WordFacts
<1>2. h \in Word(w) /\ 0 \in Word(w) /\ m # 0
  BY <1>1 DEF Word
<1>3. Valued(h, w, FALSE) = h /\ Valued(m, w, FALSE) = m
  BY DEF Valued
<1>4. Valued(h, w, TRUE) = -h /\ Valued(m, w, TRUE) = -1
  <2>1. ~(h < h) /\ ~(m < h) /\ h - 2 * h = -h /\ m - 2 * h = -1
    BY <1>1
  <2> QED BY <1>1, <2>1 DEF Valued, Signed
<1>5. \A i \in 0..(2 * h - 1) : Wrapped(i, w) = i
  BY <1>1, WrappedWord DEF Word
<1> HIDE DEF h, m
<1>6. Quotient(h, m) = 0
  <2>1. Magnitude(h) = h /\ Magnitude(m) = m /\ h \div m = 0
    BY <1>1 DEF Magnitude
  <2>2. ~(h < 0) /\ ~(m < 0)
    BY <1>1
  <2> QED BY <2>1, <2>2 DEF Quotient
<1>7. Quotient(-h, -1) = h
  <2>0. \A k \in Nat : k > 0 => Magnitude(-k) = k
    BY DEF Magnitude
  <2>1. Magnitude(-h) = h /\ Magnitude(-1) = 1
    BY <1>1, <2>0
  <2>3. h \div 1 = h
    BY <1>1
  <2>2. -h < 0 /\ -1 < 0
    BY <1>1
  <2> QED BY <2>1, <2>2, <2>3 DEF Quotient
<1>8. h - m * 0 = h /\ (-h) - (-1) * h = 0 /\ h \in 0..(2 * h - 1) /\ 0 \in 0..(2 * h - 1)
  BY <1>1
<1>9. Divided(h, m, w, FALSE) = 0
  BY <1>3, <1>5, <1>6, <1>8 DEF Divided
<1>10. Remainder(h, m, w, TRUE) = 0
  BY <1>4, <1>5, <1>7, <1>8 DEF Remainder
<1>11. Remainder(h, m, w, FALSE) = h
  BY <1>3, <1>5, <1>6, <1>8 DEF Remainder
<1> QED BY <1>2, <1>9, <1>10, <1>11 DEF h, m

LEMMA DivRemAgrees ==
  ASSUME NEW w \in Types, NEW x \in Word(w), NEW y \in Word(w), NEW sign \in BOOLEAN,
         NEW op \in {"DIV", "REM"},
         NEW v \in HandleDivRem(IntN(w, x), IntN(w, y), op = "DIV", sign)
  PROVE  \/ WasmBinop(op, sign, w, x, y) = Trap
         \/ \E z \in Word(w) : v = IntN(w, z) /\ WasmBinop(op, sign, w, x, y) = Val(w, z)
<1> DEFINE ref == WasmBinop(op, sign, w, x, y)
           over == x = Lowest(w) /\ y = MinusOne(w)
<1>1. w \in Nat \ {0} /\ w > 1
  BY TypeWidths
<1>2. IntN(w, x).word = x /\ IntN(w, y).word = y /\ IntN(w, x).bw = w
  BY DEF IntN
<1>3. op \notin Comparisons /\ op \notin Arithmetic /\ op \notin Shifts
  BY DEF Comparisons, Arithmetic, Shifts
<1>4. y = 0 => ref = Trap
  BY <1>3 DEF WasmBinop
<1>5. op = "DIV" /\ sign /\ over => ref = Trap
  BY <1>3, <1>4 DEF WasmBinop
<1>6. op = "DIV" /\ y # 0 /\ ~(sign /\ over) => ref = Val(w, Divided(x, y, w, sign))
  BY <1>3 DEF WasmBinop
<1>7. op = "REM" /\ y # 0 => ref = Val(w, Remainder(x, y, w, sign))
  BY <1>3 DEF WasmBinop
<1> HIDE DEF ref
<1>8. CASE over
  <2>1. v = SpecialCase(w, op = "DIV", sign) /\ y # 0
    BY <1>1, <1>2, <1>8, Overflow DEF HandleDivRem
  <2>2. CASE op = "DIV" /\ sign
    BY <1>5, <1>8, <2>2 DEF ref
  <2>3. CASE op = "DIV" /\ ~sign
    <3>1. v = IntN(w, 0)
      BY <2>1, <2>3 DEF SpecialCase
    <3>2. ref = Val(w, 0)
      BY <1>1, <1>6, <1>8, <2>1, <2>3, Overflow
    <3> QED BY <1>1, <3>1, <3>2, Overflow DEF ref
  <2>4. CASE op = "REM" /\ sign
    <3>1. v = IntN(w, 0)
      BY <2>1, <2>4 DEF SpecialCase
    <3>2. ref = Val(w, 0)
      BY <1>1, <1>7, <1>8, <2>1, <2>4, Overflow
    <3> QED BY <1>1, <3>1, <3>2, Overflow DEF ref
  <2>5. CASE op = "REM" /\ ~sign
    <3>1. v = IntN(w, Lowest(w))
      BY <2>1, <2>5 DEF SpecialCase
    <3>2. ref = Val(w, Lowest(w))
      BY <1>1, <1>7, <1>8, <2>1, <2>5, Overflow
    <3> QED BY <1>1, <3>1, <3>2, Overflow DEF ref
  <2> QED BY <2>2, <2>3, <2>4, <2>5
<1>9. CASE ~over /\ y = 0
  BY <1>4, <1>9 DEF ref
<1>10. CASE ~over /\ y # 0
  <2>1. v = IntN(w, IF op = "DIV" THEN Divided(x, y, w, sign) ELSE Remainder(x, y, w, sign))
    BY <1>2, <1>10 DEF HandleDivRem, ReallyDivRem
  <2>2. Divided(x, y, w, sign) \in Word(w) /\ Remainder(x, y, w, sign) \in Word(w)
    BY <1>1, <1>10, DivisionsTyped
  <2>3. CASE op = "DIV"
    BY <1>6, <1>10, <2>1, <2>2, <2>3 DEF ref
  <2>4. CASE op = "REM"
    BY <1>7, <1>10, <2>1, <2>2, <2>4 DEF ref
  <2> QED BY <2>3, <2>4
<1> QED BY <1>8, <1>9, <1>10

-----------------------------------------------------------------------------
(***************************************************************************)
(* Rounding: what Nearest finds is of the format, and finds itself.        *)
(***************************************************************************)
Fitting(n, d, t, e) == n \div (d * Pow2[e]) < Pow2[Precision[t]]

Exponent(n, d, t) ==
  CHOOSE e \in 0..(n + 1) : Fitting(n, d, t, e) /\ \A s \in 0..(e - 1) : ~Fitting(n, d, t, s)

Significand(n, unit) ==
  IF 2 * (n % unit) > unit \/ (2 * (n % unit) = unit /\ (n \div unit) % 2 = 1)
  THEN n \div unit + 1 ELSE n \div unit

NearestMag(n, d, t) ==
  Pow2[Exponent(n, d, t)] * Significand(n, d * Pow2[Exponent(n, d, t)])

LEMMA NearestIs ==
  ASSUME NEW neg, NEW n, NEW d, NEW t
  PROVE  Nearest(neg, n, d, t) =
           IF NearestMag(n, d, t) > Largest THEN Infinity(neg) ELSE Number(neg, NearestMag(n, d, t))
BY DEF Nearest, NearestMag, Significand, Exponent, Fitting

LEMMA PrecisionPositive ==
  ASSUME NEW t \in FloatTypes
  PROVE  /\ Precision[t] \in Nat \ {0}
         /\ Pow2[Precision[t]] \in Nat \ {0} /\ Pow2[Precision[t] - 1] \in Nat \ {0}
         /\ Pow2[Precision[t]] = 2 * Pow2[Precision[t] - 1]
<1> DEFINE p == Precision[t]
<1>1. p \in Nat \ {0}
  BY PrecisionTyped
<1> HIDE DEF p
<1>2. p - 1 \in Nat /\ (p - 1) + 1 = p
  BY <1>1
<1>3. Pow2[(p - 1) + 1] = 2 * Pow2[p - 1]
  BY <1>2, PowerStep
<1>4. Pow2[p] \in Nat /\ p < Pow2[p] /\ Pow2[p - 1] \in Nat /\ p - 1 < Pow2[p - 1]
  BY <1>1, <1>2, PowerTyped
<1>5. /\ p \in Nat \ {0}
      /\ Pow2[p] \in Nat \ {0} /\ Pow2[p - 1] \in Nat \ {0}
      /\ Pow2[p] = 2 * Pow2[p - 1]
  BY <1>1, <1>2, <1>3, <1>4
<1> QED BY <1>5 DEF p

LEMMA ExponentFits ==
  ASSUME NEW n \in Nat, NEW d \in Nat \ {0}, NEW t \in FloatTypes
  PROVE  /\ Exponent(n, d, t) \in 0..(n + 1)
         /\ Fitting(n, d, t, Exponent(n, d, t))
         /\ \A s \in 0..(Exponent(n, d, t) - 1) : ~Fitting(n, d, t, s)
<1> DEFINE S == {e \in Nat : Fitting(n, d, t, e)}
           Least(e) == Fitting(n, d, t, e) /\ \A s \in 0..(e - 1) : ~Fitting(n, d, t, s)
<1>1. n \in S
  <2>1. Pow2[n] \in Nat /\ n < Pow2[n]
    BY PowerTyped
  <2>2. d * Pow2[n] \in Nat /\ n < d * Pow2[n]
    <3> DEFINE u == Pow2[n]
    <3>1. u \in Nat /\ n < u
      BY <2>1
    <3> HIDE DEF u
    <3>2. d * u >= u /\ d * u \in Nat
      BY <3>1
    <3>3. n < d * u
      BY <3>1, <3>2
    <3> QED BY <3>2, <3>3 DEF u
  <2>3. n \div (d * Pow2[n]) = 0
    BY <2>2
  <2> QED BY <2>3, PrecisionPositive DEF Fitting
<1>2. PICK e \in S : \A s \in S : e <= s
  BY <1>1, LeastNatural
<1>3. e \in 0..(n + 1) /\ Least(e)
  <2>1. e \in Nat /\ e <= n
    BY <1>1, <1>2
  <2>2. ASSUME NEW s \in 0..(e - 1) PROVE s \notin S
    BY <1>2, <2>1
  <2> QED BY <2>1, <2>2
<1>4. \E x \in 0..(n + 1) : Least(x)
  BY <1>3
<1> QED BY <1>4 DEF Exponent

LEMMA MultipleDivided ==
  ASSUME NEW u \in Nat \ {0}, NEW q \in Nat
  PROVE  u * q \in Nat /\ (u * q) \div u = q /\ (u * q) % u = 0
OBVIOUS

\* The numbers of a format.
Representable(m, t) ==
  \E a \in Nat, k \in Nat : k < Pow2[Precision[t]] /\ m = Pow2[a] * k

LEMMA NearestRepresentable ==
  ASSUME NEW n \in Nat, NEW d \in Nat \ {0}, NEW t \in FloatTypes
  PROVE  NearestMag(n, d, t) \in Nat /\ Representable(NearestMag(n, d, t), t)
<1> DEFINE e == Exponent(n, d, t)
           u == Pow2[e]
           unit == d * u
           k == Significand(n, unit)
           p == Pow2[Precision[t]]
           half == Pow2[Precision[t] - 1]
<1>1. e \in Nat /\ n \div unit < p
  BY ExponentFits DEF Fitting
<1>2. u \in Nat \ {0} /\ Pow2[e + 1] = 2 * u
  BY <1>1, PowerTyped, PowerStep
<1>3. p \in Nat /\ half \in Nat \ {0} /\ p = 2 * half /\ Precision[t] - 1 \in Nat
  BY PrecisionPositive
<1>4. NearestMag(n, d, t) = u * k
  BY DEF NearestMag
<1> HIDE DEF e, u, p, half
<1>5. unit \in Nat \ {0}
  BY <1>2
<1> HIDE DEF unit
<1>6. n \div unit \in Nat
  BY <1>5
<1>7. k = n \div unit \/ k = n \div unit + 1
  BY DEF Significand
<1>8. k \in Nat /\ k <= p
  BY <1>1, <1>3, <1>6, <1>7
<1> HIDE DEF k
<1>9. u * k \in Nat
  BY <1>2, <1>8
<1>10. CASE k < p
  BY <1>1, <1>4, <1>8, <1>9, <1>10 DEF Representable, u, p
<1>11. CASE ~(k < p)
  <2>1. k = 2 * half
    BY <1>3, <1>8, <1>11
  <2>2. u * (2 * half) = (2 * u) * half
    BY <1>2, <1>3
  <2>3. NearestMag(n, d, t) = Pow2[e + 1] * half
    BY <1>2, <1>4, <2>1, <2>2
  <2>4. half < p /\ e + 1 \in Nat
    BY <1>1, <1>3
  <2> QED BY <1>3, <1>4, <1>9, <2>3, <2>4 DEF Representable, p, half
<1> QED BY <1>10, <1>11

LEMMA RepresentableNearest ==
  ASSUME NEW t \in FloatTypes, NEW m, Representable(m, t)
  PROVE  m \in Nat /\ NearestMag(m, 1, t) = m
<1>1. PICK a \in Nat, k \in Nat : k < Pow2[Precision[t]] /\ m = Pow2[a] * k
  BY DEF Representable
<1>2. Pow2[a] \in Nat \ {0}
  BY PowerTyped
<1>3. m \in Nat /\ m \div Pow2[a] = k
  BY <1>1, <1>2, MultipleDivided
<1> DEFINE e == Exponent(m, 1, t)
<1>4. e \in Nat /\ \A s \in 0..(e - 1) : ~Fitting(m, 1, t, s)
  BY <1>3, ExponentFits
<1> HIDE DEF e
<1>5. Fitting(m, 1, t, a)
  <2>1. 1 * Pow2[a] = Pow2[a]
    BY <1>2
  <2> QED BY <1>1, <1>3, <2>1 DEF Fitting
<1>6. e <= a
  BY <1>4, <1>5
<1> DEFINE u == Pow2[e]
           r == Pow2[a - e]
<1>7. a - e \in Nat /\ e + (a - e) = a
  BY <1>4, <1>6
<1>8. u \in Nat \ {0} /\ r \in Nat /\ Pow2[a] = u * r
  <2>1. Pow2[e + (a - e)] = Pow2[e] * Pow2[a - e]
    BY <1>4, <1>7, PowerSum
  <2> QED BY <1>4, <1>7, <2>1, PowerTyped
<1> HIDE DEF u, r
<1>9. m = u * (r * k) /\ r * k \in Nat
  BY <1>1, <1>8
<1>10. m \div u = r * k /\ m % u = 0
  BY <1>8, <1>9, MultipleDivided
<1>11. Significand(m, u) = r * k
  <2>1. 2 * (m % u) = 0 /\ ~(0 > u) /\ 0 # u
    BY <1>8, <1>10
  <2> QED BY <1>10, <2>1 DEF Significand
<1>12. NearestMag(m, 1, t) = u * Significand(m, u)
  <2>1. 1 * u = u
    BY <1>8
  <2> QED BY <2>1 DEF NearestMag, u, e
<1> QED BY <1>3, <1>9, <1>11, <1>12

LEMMA SmallRepresentable ==
  ASSUME NEW t \in FloatTypes, NEW m \in Nat, m <= Pow2[Precision[t]]
  PROVE  Representable(m, t)
<1> DEFINE p == Pow2[Precision[t]]
           half == Pow2[Precision[t] - 1]
<1>1. p \in Nat /\ half \in Nat \ {0} /\ p = 2 * half /\ m <= p
  BY PrecisionPositive
<1>2. Pow2[0] = 1 /\ Pow2[1] = 2
  <2>1. Pow2[0 + 1] = 2 * Pow2[0] /\ Pow2[0] = 1
    BY PowerStep
  <2> QED BY <2>1
<1> HIDE DEF half, p
<1>3. CASE m < p
  <2>1. m = Pow2[0] * m
    BY <1>2
  <2> QED BY <1>3, <2>1 DEF Representable, p
<1>4. CASE m = p
  <2>1. m = Pow2[1] * half /\ half < p
    BY <1>1, <1>2, <1>4
  <2> QED BY <1>1, <2>1 DEF Representable, p
<1> QED BY <1>1, <1>3, <1>4

LEMMA IntegersRepresentable ==
  ASSUME NEW t \in FloatTypes, NEW m \in 0..Largest, Representable(m, t)
  PROVE  /\ m - (m % 2) \in 0..Largest /\ Representable(m - (m % 2), t)
         /\ m + (m % 2) \in 0..Largest /\ Representable(m + (m % 2), t)
<1>1. PICK a \in Nat, k \in Nat : k < Pow2[Precision[t]] /\ m = Pow2[a] * k
  BY DEF Representable
<1>2. m \in Nat /\ m % 2 \in 0..1 /\ m <= Largest /\ (m % 2 = 1 => m # 0 /\ m # Largest)
  BY LargestTyped
<1>3. m - (m % 2) \in 0..Largest /\ m + (m % 2) \in 0..Largest
  BY <1>2, LargestTyped
<1>4. CASE a = 0
  <2>1. m < Pow2[Precision[t]]
    BY <1>1, <1>4, PowerStep
  <2>2. Pow2[Precision[t]] \in Nat
    BY PrecisionPositive
  <2>3. /\ m - (m % 2) \in Nat /\ m - (m % 2) <= Pow2[Precision[t]]
        /\ m + (m % 2) \in Nat /\ m + (m % 2) <= Pow2[Precision[t]]
    BY <1>2, <2>1, <2>2
  <2> QED BY <1>3, <2>3, SmallRepresentable
<1>5. CASE a # 0
  <2>1. a - 1 \in Nat /\ (a - 1) + 1 = a
    BY <1>5
  <2>2. Pow2[(a - 1) + 1] = 2 * Pow2[a - 1] /\ Pow2[a - 1] \in Nat
    BY <2>1, PowerStep, PowerTyped
  <2>3. Pow2[a - 1] * k \in Nat /\ m = 2 * (Pow2[a - 1] * k)
    <3> DEFINE u == Pow2[a - 1]
    <3>1. u \in Nat /\ m = (2 * u) * k
      BY <1>1, <2>1, <2>2
    <3> HIDE DEF u
    <3>2. u * k \in Nat /\ m = 2 * (u * k)
      BY <3>1
    <3> QED BY <3>2 DEF u
  <2>4. m % 2 = 0
    BY <2>3
  <2>5. m - (m % 2) = m /\ m + (m % 2) = m
    BY <1>2, <2>4
  <2> QED BY <1>3, <2>5
<1> QED BY <1>4, <1>5

(***************************************************************************)
(* What a floating point number is.                                        *)
(***************************************************************************)
Numbers(signs, mags) == {Number(neg, mag) : neg \in signs, mag \in mags}

LEMMA NumbersHave ==
  ASSUME NEW S, NEW M, NEW b \in S, NEW m \in M
  PROVE  Number(b, m) \in Numbers(S, M)
BY DEF Numbers

LEMMA NumbersAre ==
  ASSUME NEW S, NEW M, NEW x \in Numbers(S, M)
  PROVE  \E b \in S, m \in M : x = Number(b, m)
BY DEF Numbers

LEMMA FloatsAre ==
  ASSUME NEW t \in FloatTypes
  PROVE  /\ \A b \in BOOLEAN : Infinity(b) \in Floats(t)
         /\ NaN \in Floats(t)
         /\ \A b \in BOOLEAN, m \in 0..Largest : Representable(m, t) => Number(b, m) \in Floats(t)
         /\ \A x \in Floats(t) :
              \/ x = NaN
              \/ \E b \in BOOLEAN : x = Infinity(b)
              \/ \E b \in BOOLEAN, m \in 0..Largest : x = Number(b, m) /\ Representable(m, t)
<1>1. ASSUME NEW m \in 0..Largest, Representable(m, t)
      PROVE  Nearest(FALSE, m, 1, t) = Number(FALSE, m)
  <2>1. NearestMag(m, 1, t) = m /\ ~(m > Largest)
    BY <1>1, RepresentableNearest, LargestTyped
  <2> QED BY <2>1, NearestIs
<1>2. ASSUME NEW m \in 0..Largest, Nearest(FALSE, m, 1, t) = Number(FALSE, m)
      PROVE  Representable(m, t)
  <2>1. m \in Nat /\ 1 \in Nat \ {0}
    BY LargestTyped
  <2>2. Nearest(FALSE, m, 1, t) = IF NearestMag(m, 1, t) > Largest THEN Infinity(FALSE)
                                  ELSE Number(FALSE, NearestMag(m, 1, t))
    BY NearestIs
  <2>3. Number(FALSE, m) # Infinity(FALSE)
    BY DEF Number, Infinity
  <2>4. Number(FALSE, m) = Number(FALSE, NearestMag(m, 1, t))
    BY <1>2, <2>2, <2>3
  <2>5. NearestMag(m, 1, t) = m
    BY <2>4 DEF Number
  <2> QED BY <2>1, <2>5, NearestRepresentable
<1> DEFINE M == {m \in 0..Largest : Nearest(FALSE, m, 1, t) = Number(FALSE, m)}
<1>3. \A m \in 0..Largest : Representable(m, t) => m \in M
  BY <1>1
<1>4. \A m \in M : m \in 0..Largest /\ Representable(m, t)
  BY <1>2
<1> DEFINE N == Numbers(BOOLEAN, M)
<1>6. Floats(t) = {Infinity(FALSE), Infinity(TRUE), NaN} \cup N
  BY DEF Floats, Numbers
<1> HIDE DEF M
<1>7. \A b \in BOOLEAN, m \in M : Number(b, m) \in N
  BY Zenon, NumbersHave
<1>8. ASSUME NEW x \in N PROVE \E b \in BOOLEAN, m \in M : x = Number(b, m)
  BY NumbersAre
<1> HIDE DEF N
<1>9. Infinity(FALSE) \in Floats(t) /\ Infinity(TRUE) \in Floats(t) /\ NaN \in Floats(t)
  BY Zenon, <1>6
<1>10. \A b \in BOOLEAN : Infinity(b) \in Floats(t)
  BY Zenon, <1>9
<1>11. \A b \in BOOLEAN, m \in 0..Largest : Representable(m, t) => Number(b, m) \in Floats(t)
  BY Zenon, <1>3, <1>6, <1>7
<1>12. ASSUME NEW x \in Floats(t)
       PROVE  \/ x = NaN
              \/ \E b \in BOOLEAN : x = Infinity(b)
              \/ \E b \in BOOLEAN, m \in 0..Largest : x = Number(b, m) /\ Representable(m, t)
  <2>1. x = NaN \/ x = Infinity(TRUE) \/ x = Infinity(FALSE) \/ x \in N
    BY Zenon, <1>6
  <2>2. TRUE \in BOOLEAN /\ FALSE \in BOOLEAN
    OBVIOUS
  <2> QED BY Zenon, <1>4, <1>8, <2>1, <2>2
<1> QED BY <1>9, <1>10, <1>11, <1>12

LEMMA NearestFloat ==
  ASSUME NEW n \in Nat, NEW d \in Nat \ {0}, NEW t \in FloatTypes, NEW neg \in BOOLEAN
  PROVE  Nearest(neg, n, d, t) \in Floats(t)
<1>1. NearestMag(n, d, t) \in Nat /\ Representable(NearestMag(n, d, t), t)
  BY NearestRepresentable
<1>2. CASE NearestMag(n, d, t) > Largest
  BY <1>2, FloatsAre, NearestIs
<1>3. CASE ~(NearestMag(n, d, t) > Largest)
  <2>1. NearestMag(n, d, t) \in 0..Largest
    BY <1>1, <1>3, LargestTyped
  <2> QED BY <1>1, <1>3, <2>1, FloatsAre, NearestIs
<1> QED BY <1>2, <1>3

LEMMA NumberShape ==
  ASSUME NEW b \in BOOLEAN, NEW m
  PROVE  /\ Number(b, m).class = "number" /\ Number(b, m).neg = b /\ Number(b, m).mag = m
         /\ \A c \in BOOLEAN : [Number(b, m) EXCEPT !.neg = c] = Number(c, m)
         /\ \A n : [Number(b, m) EXCEPT !.mag = n] = Number(b, n)
         /\ ~IsNaN(Number(b, m)) /\ (IsZero(Number(b, m)) <=> m = 0)
BY DEF Number, IsNaN, IsZero

LEMMA InfinityShape ==
  ASSUME NEW b \in BOOLEAN
  PROVE  /\ Infinity(b).class = "infinity" /\ Infinity(b).neg = b /\ Infinity(b).mag = 0
         /\ \A c \in BOOLEAN : [Infinity(b) EXCEPT !.neg = c] = Infinity(c)
         /\ ~IsNaN(Infinity(b)) /\ ~IsZero(Infinity(b))
BY DEF Infinity, IsNaN, IsZero

LEMMA NaNShape ==
  /\ NaN.class = "nan" /\ NaN.neg = FALSE /\ NaN.mag = 0
  /\ [NaN EXCEPT !.neg = FALSE] = NaN
  /\ IsNaN(NaN) /\ ~IsZero(NaN)
<1>1. NaN.class = "nan" /\ NaN.neg = FALSE /\ NaN.mag = 0
  BY DEF NaN
<1>2. [NaN EXCEPT !.neg = FALSE] = NaN
  <2>1. \A c \in BOOLEAN : [NaN EXCEPT !.neg = c] = [class |-> "nan", neg |-> c, mag |-> 0]
    BY DEF NaN
  <2> QED BY Zenon, <2>1 DEF NaN
<1> QED BY <1>1, <1>2 DEF IsNaN, IsZero

LEMMA FloatShape ==
  ASSUME NEW t \in FloatTypes, NEW x \in Floats(t)
  PROVE  /\ x.neg \in BOOLEAN /\ x.mag \in Nat
         /\ \/ x = NaN /\ x.class = "nan" /\ IsNaN(x)
            \/ x = Infinity(x.neg) /\ x.class = "infinity" /\ ~IsNaN(x)
            \/ /\ x = Number(x.neg, x.mag) /\ x.class = "number" /\ ~IsNaN(x)
               /\ x.mag \in 0..Largest /\ Representable(x.mag, t)
<1>1. CASE x = NaN
  <2>1. NaN.neg \in BOOLEAN
    BY Zenon, NaNShape
  <2>2. NaN.mag \in Nat
    BY NaNShape
  <2> QED BY Zenon, <1>1, <2>1, <2>2, NaNShape
<1>2. CASE \E b \in BOOLEAN : x = Infinity(b)
  BY <1>2, InfinityShape
<1>3. CASE \E b \in BOOLEAN, m \in 0..Largest : x = Number(b, m) /\ Representable(m, t)
  BY <1>3, NumberShape, LargestTyped
<1> QED BY <1>1, <1>2, <1>3, FloatsAre

-----------------------------------------------------------------------------
(***************************************************************************)
(* Operations on floating point numbers give numbers of the same format.   *)
(***************************************************************************)
LEMMA SignChanged ==
  ASSUME NEW t \in FloatTypes, NEW x \in Floats(t), NEW b \in BOOLEAN, ~IsNaN(x) \/ ~b
  PROVE  [x EXCEPT !.neg = b] \in Floats(t)
<1>1. CASE IsNaN(x)
  <2>1. x = NaN /\ b = FALSE
    BY <1>1, FloatShape
  <2> QED BY Zenon, <2>1, NaNShape
<1>2. CASE x = Infinity(x.neg)
  <2>1. [Infinity(x.neg) EXCEPT !.neg = b] = Infinity(b)
    BY InfinityShape, FloatShape
  <2> QED BY Zenon, <1>2, <2>1, FloatsAre
<1>3. CASE x = Number(x.neg, x.mag) /\ x.mag \in 0..Largest /\ Representable(x.mag, t)
  <2>1. [Number(x.neg, x.mag) EXCEPT !.neg = b] = Number(b, x.mag)
    BY NumberShape, FloatShape
  <2>2. Number(b, x.mag) \in Floats(t)
    BY Zenon, <1>3, FloatsAre
  <2>3. [x EXCEPT !.neg = b] = [Number(x.neg, x.mag) EXCEPT !.neg = b]
    BY <1>3
  <2> QED BY <2>1, <2>2, <2>3
<1> QED BY <1>1, <1>2, <1>3, FloatShape

LEMMA NegatedFloat ==
  ASSUME NEW t \in FloatTypes, NEW x \in Floats(t)
  PROVE  Negated(x) \in Floats(t)
<1>1. CASE IsNaN(x)
  BY <1>1 DEF Negated
<1>2. CASE ~IsNaN(x)
  <2>1. (~x.neg) \in BOOLEAN
    OBVIOUS
  <2>2. Negated(x) = [x EXCEPT !.neg = ~x.neg]
    BY <1>2 DEF Negated
  <2> QED BY Zenon, <1>2, <2>1, <2>2, SignChanged
<1> QED BY <1>1, <1>2

LEMMA SignedFloat ==
  ASSUME NEW t \in FloatTypes, NEW x \in Floats(t), NEW y \in Floats(t)
  PROVE  WithSignOf(x, y) \in Floats(t)
<1>1. y.neg \in BOOLEAN
  BY FloatShape
<1> QED BY Zenon, <1>1, SignChanged DEF WithSignOf

LEMMA HalvesTyped ==
  ASSUME NEW t \in FloatTypes, NEW x \in Floats(t)
  PROVE  Halves(x) \in Int
<1>1. x.mag \in Nat
  BY FloatShape
<1> QED BY <1>1 DEF Halves

LEMMA OfHalvesFloat ==
  ASSUME NEW t \in FloatTypes, NEW h \in Int
  PROVE  OfHalves(h, t) \in Floats(t)
<1>1. Magnitude(h) \in Nat /\ (h < 0) \in BOOLEAN /\ 1 \in Nat \ {0}
  BY DEF Magnitude
<1> QED BY Zenon, <1>1, NearestFloat DEF OfHalves

LEMMA SumFloat ==
  ASSUME NEW t \in FloatTypes, NEW x \in Floats(t), NEW y \in Floats(t)
  PROVE  Sum(x, y, t) \in Floats(t)
<1>1. NaN \in Floats(t)
  BY FloatsAre
<1>2. Halves(x) + Halves(y) \in Int
  BY HalvesTyped
<1>3. OfHalves(Halves(x) + Halves(y), t) \in Floats(t)
  BY <1>2, OfHalvesFloat
<1>4. Number(x.neg /\ y.neg, 0) \in Floats(t)
  <2>1. (x.neg /\ y.neg) \in BOOLEAN /\ 0 \in 0..Largest /\ Representable(0, t)
    BY SmallRepresentable, PrecisionPositive, LargestTyped
  <2> QED BY Zenon, <2>1, FloatsAre
<1>5. x.class \in {"nan", "infinity", "number"} /\ y.class \in {"nan", "infinity", "number"}
  BY FloatShape
<1>6. Sum(x, y, t) \in {NaN, x, y, Number(x.neg /\ y.neg, 0), OfHalves(Halves(x) + Halves(y), t)}
  BY <1>5 DEF Sum, IsNaN
<1> QED BY <1>1, <1>3, <1>4, <1>6

LEMMA ProductFloat ==
  ASSUME NEW t \in FloatTypes, NEW x \in Floats(t), NEW y \in Floats(t)
  PROVE  Product(x, y, t) \in Floats(t)
<1> DEFINE neg == x.neg # y.neg
<1>1. neg \in BOOLEAN /\ x.mag \in Nat /\ y.mag \in Nat
  BY FloatShape
<1>2. NaN \in Floats(t) /\ Infinity(neg) \in Floats(t)
  BY Zenon, <1>1, FloatsAre
<1>3. x.mag * y.mag \in Nat /\ 2 \in Nat \ {0}
  BY <1>1
<1>4. Nearest(neg, x.mag * y.mag, 2, t) \in Floats(t)
  BY Zenon, <1>1, <1>3, NearestFloat
<1>5. x.class \in {"nan", "infinity", "number"} /\ y.class \in {"nan", "infinity", "number"}
  BY FloatShape
<1>6. Product(x, y, t) \in {NaN, Infinity(neg), Nearest(neg, x.mag * y.mag, 2, t)}
  BY <1>5 DEF Product, IsNaN
<1> QED BY <1>2, <1>4, <1>6

LEMMA FractionFloat ==
  ASSUME NEW t \in FloatTypes, NEW x \in Floats(t), NEW y \in Floats(t)
  PROVE  Fraction(x, y, t) \in Floats(t)
<1> DEFINE neg == x.neg # y.neg
<1>1. neg \in BOOLEAN /\ x.mag \in Nat /\ y.mag \in Nat
  BY FloatShape
<1>2. NaN \in Floats(t) /\ Infinity(neg) \in Floats(t)
  BY Zenon, <1>1, FloatsAre
<1>3. Number(neg, 0) \in Floats(t)
  <2>1. 0 \in 0..Largest /\ Representable(0, t)
    BY SmallRepresentable, PrecisionPositive, LargestTyped
  <2> QED BY Zenon, <1>1, <2>1, FloatsAre
<1>4. y.mag # 0 => Nearest(neg, 2 * x.mag, y.mag, t) \in Floats(t)
  <2>1. 2 * x.mag \in Nat
    BY <1>1
  <2>2. y.mag # 0 => y.mag \in Nat \ {0}
    BY <1>1
  <2> QED BY Zenon, <1>1, <2>1, <2>2, NearestFloat
<1>5. x.class \in {"nan", "infinity", "number"} /\ y.class \in {"nan", "infinity", "number"}
  BY FloatShape
<1>6. \/ Fraction(x, y, t) \in {NaN, Infinity(neg), Number(neg, 0)}
      \/ y.mag # 0 /\ Fraction(x, y, t) = Nearest(neg, 2 * x.mag, y.mag, t)
  BY <1>5 DEF Fraction, IsNaN, IsZero
<1> QED BY <1>2, <1>3, <1>4, <1>6

LEMMA FloatCombinedTyped ==
  ASSUME NEW t \in FloatTypes, NEW x \in Floats(t), NEW y \in Floats(t), NEW op \in FloatArithmetics
  PROVE  FloatCombined(op, x, y, t) \in Floats(t)
<1>1. Sum(x, y, t) \in Floats(t) /\ Product(x, y, t) \in Floats(t) /\ Fraction(x, y, t) \in Floats(t)
  BY SumFloat, ProductFloat, FractionFloat
<1>2. Sum(x, Negated(y), t) \in Floats(t)
  BY NegatedFloat, SumFloat
<1> QED BY <1>1, <1>2 DEF FloatCombined, FloatArithmetics

LEMMA RoundedFloat ==
  ASSUME NEW t \in FloatTypes, NEW x \in Floats(t), NEW op \in Roundings
  PROVE  Rounded(op, x) \in Floats(t)
<1>1. CASE x.class # "number"
  BY <1>1 DEF Rounded
<1>2. CASE x.class = "number"
  <2> DEFINE down == x.mag - (x.mag % 2)
             up   == x.mag + (x.mag % 2)
  <2>1. /\ x = Number(x.neg, x.mag) /\ x.neg \in BOOLEAN
        /\ x.mag \in 0..Largest /\ Representable(x.mag, t)
    BY <1>2, FloatShape, InfinityShape, NaNShape
  <2>2. /\ down \in 0..Largest /\ Representable(down, t)
        /\ up \in 0..Largest /\ Representable(up, t)
    BY <2>1, IntegersRepresentable
  <2>3. Rounded(op, x) = [x EXCEPT !.mag = down] \/ Rounded(op, x) = [x EXCEPT !.mag = up]
    BY <1>2 DEF Rounded, Roundings
  <2>4. \A n : [x EXCEPT !.mag = n] = Number(x.neg, n)
    <3>1. \A n : [Number(x.neg, x.mag) EXCEPT !.mag = n] = Number(x.neg, n)
      BY <2>1, NumberShape
    <3>2. \A n : [x EXCEPT !.mag = n] = [Number(x.neg, x.mag) EXCEPT !.mag = n]
      BY <2>1
    <3> QED BY <3>1, <3>2
  <2>5. Number(x.neg, down) \in Floats(t) /\ Number(x.neg, up) \in Floats(t)
    BY Zenon, <2>1, <2>2, FloatsAre
  <2> QED BY <2>3, <2>4, <2>5
<1> QED BY <1>1, <1>2

LEMMA LessOrdered ==
  ASSUME NEW t \in FloatTypes, NEW x \in Floats(t), NEW y \in Floats(t)
  PROVE  Less(x, y) => /\ ~Unordered(x, y)
                       /\ ~Less(y, x)
<1> DEFINE Rank(z) == IF z.class = "infinity" THEN (IF z.neg THEN -Largest - 1 ELSE Largest + 1)
                      ELSE Halves(z)
<1>1. Rank(x) \in Int /\ Rank(y) \in Int
  <2>1. Halves(x) \in Int /\ Halves(y) \in Int /\ Largest \in Nat
    BY HalvesTyped, LargestTyped
  <2> QED BY <2>1
<1>2. Less(x, y) => ~IsNaN(x) /\ ~IsNaN(y) /\ Rank(x) < Rank(y)
  BY DEF Less
<1>3. Less(y, x) => Rank(y) < Rank(x)
  BY DEF Less
<1> HIDE DEF Rank
<1>4. ~(Rank(x) < Rank(y) /\ Rank(y) < Rank(x))
  BY <1>1
<1> QED BY Zenon, <1>2, <1>3, <1>4 DEF Unordered

LEMMA ChoiceFloat ==
  ASSUME NEW t \in FloatTypes, NEW x \in Floats(t), NEW y \in Floats(t), NEW op \in Choices
  PROVE  WasmChoice(op, x, y) \in Floats(t)
<1>1. NaN \in Floats(t)
  BY FloatsAre
<1>2. CASE Unordered(x, y) \/ Less(x, y) \/ Less(y, x)
  <2>1. CASE Unordered(x, y)
    <3>1. ~Less(x, y) /\ ~Less(y, x)
      BY Zenon, <2>1, LessOrdered DEF Unordered
    <3>2. ~FloatCompared("EQ", x, y)
      BY <2>1 DEF FloatCompared
    <3>3. WasmChoice(op, x, y) = NaN
      BY <2>1, <3>1, <3>2 DEF WasmChoice
    <3> QED BY <1>1, <3>3
  <2>2. CASE Less(x, y)
    <3>1. ~Unordered(x, y) /\ ~Less(y, x)
      BY <2>2, LessOrdered
    <3>2. ~FloatCompared("EQ", x, y)
      BY <2>2 DEF FloatCompared
    <3>3. WasmChoice(op, x, y) = x \/ WasmChoice(op, x, y) = y
      BY <2>2, <3>1, <3>2 DEF WasmChoice
    <3> QED BY <3>3
  <2>3. CASE Less(y, x)
    <3>1. ~Unordered(x, y) /\ ~Less(x, y)
      BY Zenon, <2>3, LessOrdered DEF Unordered
    <3>2. ~FloatCompared("EQ", x, y)
      BY <2>3 DEF FloatCompared
    <3>3. WasmChoice(op, x, y) = x \/ WasmChoice(op, x, y) = y
      BY <2>3, <3>1, <3>2 DEF WasmChoice
    <3> QED BY <3>3
  <2> QED BY <1>1, <1>2, <2>1, <2>2, <2>3
<1>3. CASE ~Unordered(x, y) /\ ~Less(x, y) /\ ~Less(y, x)
  <2>1. FloatCompared("EQ", x, y)
    BY <1>3 DEF FloatCompared
  <2> DEFINE b == IF op = "MIN" THEN x.neg \/ y.neg ELSE x.neg /\ y.neg
  <2>2. WasmChoice(op, x, y) = [x EXCEPT !.neg = b]
    BY <1>3, <2>1 DEF WasmChoice
  <2>3. b \in BOOLEAN
    BY FloatShape
  <2>4. ~IsNaN(x)
    BY <1>3 DEF Unordered
  <2> QED BY Zenon, <2>2, <2>3, <2>4, SignChanged
<1> QED BY <1>2, <1>3

LEMMA ChosenFloat ==
  ASSUME NEW t \in FloatTypes, NEW x \in Floats(t), NEW y \in Floats(t), NEW op \in Choices,
         NEW z \in Chosen(op, x, y)
  PROVE  /\ z \in Floats(t)
         /\ ~Unordered(x, y) /\ (IsZero(x) /\ IsZero(y) => x = y) => z = WasmChoice(op, x, y)
<1>1. CASE IsNaN(x)
  BY <1>1 DEF Chosen, Unordered
<1>2. CASE ~IsNaN(x) /\ IsNaN(y)
  BY <1>2 DEF Chosen, Unordered
<1>3. CASE ~IsNaN(x) /\ ~IsNaN(y) /\ IsZero(x) /\ IsZero(y)
  <2>1. z \in {x, y}
    BY <1>3 DEF Chosen
  <2>2. ASSUME x = y PROVE x = WasmChoice(op, x, y)
    <3>1. ~Unordered(x, x)
      BY <1>3 DEF Unordered
    <3>2. ~Less(x, x)
      <4>1. Halves(x) \in Int /\ x.class = "number"
        BY <1>3, HalvesTyped DEF IsZero
      <4> QED BY <4>1 DEF Less
    <3>3. FloatCompared("EQ", x, x)
      BY <3>1, <3>2 DEF FloatCompared
    <3>4. WasmChoice(op, x, x) = [x EXCEPT !.neg = x.neg]
      <4>1. WasmChoice(op, x, x) = [x EXCEPT !.neg = IF op = "MIN" THEN x.neg \/ x.neg ELSE x.neg /\ x.neg]
        BY <3>1, <3>2, <3>3 DEF WasmChoice
      <4>2. (IF op = "MIN" THEN x.neg \/ x.neg ELSE x.neg /\ x.neg) = x.neg
        BY FloatShape
      <4> QED BY Zenon, <4>1, <4>2
    <3>5. [x EXCEPT !.neg = x.neg] = x
      <4>1. x = Number(x.neg, x.mag) /\ x.neg \in BOOLEAN
        BY <1>3, FloatShape, InfinityShape, NaNShape DEF IsZero
      <4>2. [Number(x.neg, x.mag) EXCEPT !.neg = x.neg] = Number(x.neg, x.mag)
        BY <4>1, NumberShape
      <4>3. [x EXCEPT !.neg = x.neg] = [Number(x.neg, x.mag) EXCEPT !.neg = x.neg]
        BY <4>1
      <4> QED BY <4>1, <4>2, <4>3
    <3> QED BY <2>2, <3>4, <3>5
  <2> QED BY <1>3, <2>1, <2>2
<1>4. CASE ~IsNaN(x) /\ ~IsNaN(y) /\ ~(IsZero(x) /\ IsZero(y))
  <2>1. z = WasmChoice(op, x, y)
    BY <1>4 DEF Chosen
  <2> QED BY <2>1, ChoiceFloat
<1> QED BY <1>1, <1>2, <1>3, <1>4

LEMMA ConvertedFloat ==
  ASSUME NEW t \in FloatTypes, NEW s \in FloatTypes, NEW x \in Floats(s)
  PROVE  Converted(x, t) \in Floats(t)
<1>1. CASE x.class = "number"
  <2>1. x.neg \in BOOLEAN /\ x.mag \in Nat /\ 1 \in Nat \ {0}
    BY FloatShape
  <2>2. Nearest(x.neg, x.mag, 1, t) \in Floats(t)
    BY Zenon, <2>1, NearestFloat
  <2> QED BY <1>1, <2>2 DEF Converted
<1>2. CASE x.class # "number"
  <2>1. Converted(x, t) = x
    BY <1>2 DEF Converted
  <2>2. x = NaN \/ x = Infinity(x.neg)
    BY <1>2, FloatShape
  <2>3. x.neg \in BOOLEAN
    BY FloatShape
  <2> QED BY Zenon, <2>1, <2>2, <2>3, FloatsAre
<1> QED BY <1>1, <1>2

(***************************************************************************)
(* Zero minus a number is the number with the other sign, except for zero. *)
(***************************************************************************)
LEMMA ZeroMinus ==
  ASSUME NEW t \in FloatTypes, NEW x \in Floats(t), x # Zero
  PROVE  FloatCombined("SUB", Zero, x, t) = Negated(x)
<1> DEFINE y == Negated(x)
<1>1. y \in Floats(t)
  BY NegatedFloat
<1>2. FloatCombined("SUB", Zero, x, t) = Sum(Zero, y, t)
  BY DEF FloatCombined
<1>3. Zero.class = "number" /\ Zero.neg = FALSE /\ Zero.mag = 0 /\ ~IsNaN(Zero)
  BY NumberShape DEF Zero
<1> HIDE DEF y
<1>4. CASE IsNaN(x)
  <2>1. x = NaN /\ y = x
    BY <1>4, FloatShape DEF Negated, y
  <2>2. Sum(Zero, y, t) = NaN
    BY <1>3, <1>4, <2>1 DEF Sum, IsNaN
  <2> QED BY Zenon, <1>2, <2>1, <2>2 DEF y
<1>5. CASE x = Infinity(x.neg)
  <2>1. y.class = "infinity" /\ ~IsNaN(y)
    <3>1. x.neg \in BOOLEAN /\ (~x.neg) \in BOOLEAN
      BY FloatShape
    <3>2. ~IsNaN(x) /\ [Infinity(x.neg) EXCEPT !.neg = ~x.neg] = Infinity(~x.neg)
      BY Zenon, <1>5, <3>1, InfinityShape
    <3>3. y = [x EXCEPT !.neg = ~x.neg]
      BY <3>2 DEF Negated, y
    <3>4. y = Infinity(~x.neg)
      BY <1>5, <3>2, <3>3
    <3> QED BY Zenon, <3>1, <3>4, InfinityShape
  <2> QED BY <1>2, <1>3, <2>1 DEF Sum, y
<1>6. CASE x = Number(x.neg, x.mag) /\ ~IsNaN(x) /\ Representable(x.mag, t) /\ x.mag \in 0..Largest
  <2> DEFINE b == ~x.neg
             m == x.mag
  <2>1. b \in BOOLEAN /\ x.neg \in BOOLEAN
    BY FloatShape
  <2>2. y = Number(b, m)
    <3>1. y = [x EXCEPT !.neg = b]
      BY <1>6 DEF Negated, y
    <3>2. [Number(x.neg, m) EXCEPT !.neg = b] = Number(b, m)
      BY <2>1, NumberShape
    <3> QED BY <1>6, <3>1, <3>2
  <2>8. m \in 0..Largest /\ Representable(m, t)
    BY <1>6
  <2>9. m = 0 => x.neg = TRUE
    <3>1. m = 0 => x.neg # FALSE
      BY <1>6 DEF Zero
    <3> QED BY <2>1, <3>1
  <2>10. x.neg = TRUE => b = FALSE
    OBVIOUS
  <2> HIDE DEF b, m
  <2>3. y.class = "number" /\ y.neg = b /\ y.mag = m /\ ~IsNaN(y)
    BY Zenon, <2>1, <2>2, NumberShape
  <2>4. Halves(y) = (IF b THEN -m ELSE m) /\ Halves(Zero) = 0 /\ m \in Nat /\ m <= Largest
    <3>1. m \in Nat /\ m <= Largest
      BY <2>8, LargestTyped
    <3>2. Halves(Zero) = 0
      BY <1>3 DEF Halves
    <3>3. Halves(y) = (IF b THEN -m ELSE m)
      BY Zenon, <2>3 DEF Halves
    <3> QED BY <3>1, <3>2, <3>3
  <2>5. Sum(Zero, y, t) = IF Halves(Zero) + Halves(y) = 0 THEN Number(Zero.neg /\ y.neg, 0)
                          ELSE OfHalves(Halves(Zero) + Halves(y), t)
    BY <1>3, <2>3 DEF Sum
  <2>6. CASE m = 0
    <3>1. Halves(y) = 0
      <4>1. CASE b
        <5>1. Halves(y) = -m
          BY <2>4, <4>1
        <5>2. -m = 0
          <6>1. \A n \in Nat : n < 1 => -n = 0
            OBVIOUS
          <6>2. m \in Nat /\ m < 1
            BY <2>4, <2>6
          <6> QED BY Zenon, <6>1, <6>2
        <5> QED BY <5>1, <5>2
      <4>2. CASE ~b
        BY <2>4, <2>6, <4>2
      <4> QED BY <4>1, <4>2
    <3>2. Halves(Zero) + Halves(y) = 0
      BY <2>4, <3>1
    <3>3. b = FALSE /\ (Zero.neg /\ y.neg) = FALSE
      BY <1>3, <2>6, <2>9, <2>10
    <3>4. Sum(Zero, y, t) = Number(Zero.neg /\ y.neg, 0)
      BY <2>5, <3>2
    <3>5. Sum(Zero, y, t) = Number(FALSE, 0)
      BY Zenon, <3>3, <3>4
    <3>6. y = Number(FALSE, 0)
      BY Zenon, <2>2, <2>6, <3>3
    <3> QED BY Zenon, <1>2, <3>5, <3>6 DEF y
  <2>7. CASE m # 0
    <3> DEFINE h == Halves(Zero) + Halves(y)
    <3>1. h # 0 /\ Magnitude(h) = m /\ (h < 0 <=> b)
      <4>1. CASE b
        <5>1. h = -m /\ m > 0 /\ m \in Nat
          BY <2>4, <2>7, <4>1
        <5> QED BY <4>1, <5>1 DEF Magnitude
      <4>2. CASE ~b
        <5>1. h = m /\ m > 0 /\ m \in Nat
          BY <2>4, <2>7, <4>2
        <5> QED BY <4>2, <5>1 DEF Magnitude
      <4> QED BY <2>1, <4>1, <4>2
    <3>2. (h < 0) = b
      BY <2>1, <3>1
    <3>3. Sum(Zero, y, t) = Nearest(b, m, 1, t)
      BY Zenon, <2>5, <3>1, <3>2 DEF OfHalves
    <3>4. NearestMag(m, 1, t) = m
      BY <2>8, RepresentableNearest
    <3>5. Nearest(b, m, 1, t) = Number(b, m)
      <4>1. ~(m > Largest)
        BY <2>4, LargestTyped
      <4> QED BY Zenon, <3>4, <4>1, NearestIs
    <3> QED BY Zenon, <1>2, <2>2, <3>3, <3>5 DEF y
  <2> QED BY <2>6, <2>7
<1> QED BY <1>4, <1>5, <1>6, FloatShape

-----------------------------------------------------------------------------
(***************************************************************************)
(* The operands: integers, comparisons that wait as i1, and floating point *)
(* numbers; and those of which program and WASM have the same.             *)
(***************************************************************************)
Machine == Types \cup {1} \cup FloatTypes
Numerals == Nat \cup UNION {Floats(t) : t \in FloatTypes}

Waits(w, t) == t \in Types /\ (w = t \/ (w = 1 /\ t = INT_32))

IntegerOperand(o) ==
  /\ Waits(o.code.bw, o.wasm.type)
  /\ o.code.word \in Word(o.code.bw) /\ o.wasm.word \in Word(o.wasm.type)

FloatOperand(o) ==
  /\ o.code.bw \in FloatTypes /\ o.wasm.type = o.code.bw
  /\ o.code.word \in Floats(o.code.bw) /\ o.wasm.word \in Floats(o.code.bw)

Operands ==
  {o \in [code : [bw : Machine, word : Numerals], wasm : [type : Machine, word : Numerals]] :
     IntegerOperand(o) \/ FloatOperand(o)}

Agreed == {o \in Operands : o.code.word = o.wasm.word}

LEMMA Apart ==
  /\ Types \cap FloatTypes = {} /\ 1 \notin Types /\ 1 \notin FloatTypes
  /\ INT_32 \in Types /\ INT_64 \in Types /\ INT_32 # INT_64
BY TypesApart, WidthsOrdered DEF Types

LEMMA IntegerMade ==
  ASSUME NEW w, NEW t, Waits(w, t), NEW x \in Word(w), NEW y \in Word(t)
  PROVE  /\ Operand(IntN(w, x), Val(t, y)) \in Operands
         /\ IntN(w, x).word = x /\ Val(t, y).word = y
<1>1. t \in Nat /\ w \in Nat /\ t \in Machine /\ w \in Machine
  BY TypeWidths, Apart DEF Waits, Machine
<1>2. x \in Numerals /\ y \in Numerals
  BY <1>1, WrappedWord DEF Numerals
<1> DEFINE o == Operand(IntN(w, x), Val(t, y))
<1>3. /\ o.code.bw = w /\ o.code.word = x /\ o.wasm.type = t /\ o.wasm.word = y
      /\ IntN(w, x).word = x /\ Val(t, y).word = y
  BY DEF Operand, IntN, Val
<1>4. o \in [code : [bw : Machine, word : Numerals], wasm : [type : Machine, word : Numerals]]
  BY <1>1, <1>2 DEF Operand, IntN, Val
<1> HIDE DEF o
<1>5. IntegerOperand(o)
  BY <1>3 DEF IntegerOperand
<1>6. o \in Operands
  BY <1>4, <1>5 DEF Operands
<1> QED BY <1>3, <1>6 DEF o

LEMMA FloatMade ==
  ASSUME NEW t \in FloatTypes, NEW x \in Floats(t), NEW y \in Floats(t)
  PROVE  /\ Operand(FloatN(t, x), Val(t, y)) \in Operands
         /\ FloatN(t, x).word = x /\ Val(t, y).word = y
<1>1. t \in Machine /\ x \in Numerals /\ y \in Numerals
  BY DEF Machine, Numerals
<1> DEFINE o == Operand(FloatN(t, x), Val(t, y))
<1>3. /\ o.code.bw = t /\ o.code.word = x /\ o.wasm.type = t /\ o.wasm.word = y
      /\ FloatN(t, x).word = x /\ Val(t, y).word = y
  BY DEF Operand, FloatN, Val
<1>4. o \in [code : [bw : Machine, word : Numerals], wasm : [type : Machine, word : Numerals]]
  BY <1>1 DEF Operand, FloatN, Val
<1> HIDE DEF o
<1>5. FloatOperand(o)
  BY <1>3 DEF FloatOperand
<1>6. o \in Operands
  BY <1>4, <1>5 DEF Operands
<1> QED BY <1>3, <1>6 DEF o

LEMMA OperandIs ==
  ASSUME NEW o \in Operands
  PROVE  /\ o.code # Undefined /\ o.wasm # Trap /\ Operand(o.code, o.wasm) = o
         /\ o.code = IntN(o.code.bw, o.code.word) /\ o.code = FloatN(o.code.bw, o.code.word)
         /\ o.wasm = Val(o.wasm.type, o.wasm.word)
<1>1. o \in [code : [bw : Machine, word : Numerals], wasm : [type : Machine, word : Numerals]]
  BY DEF Operands
<1>2. o.code \in [bw : Machine, word : Numerals] /\ o.wasm \in [type : Machine, word : Numerals]
  BY <1>1
<1>3. o.code # Undefined
  BY <1>2 DEF Undefined
<1>4. o.wasm # Trap
  BY <1>2 DEF Trap
<1>5. Operand(o.code, o.wasm) = o
  BY <1>1 DEF Operand
<1> QED BY <1>2, <1>3, <1>4, <1>5 DEF IntN, FloatN, Val

LEMMA IntegerIs ==
  ASSUME NEW o \in Operands, IsInteger(o)
  PROVE  IntegerOperand(o) /\ ~IsFloat(o) /\ (~IsBoolean(o) => o.code.bw = o.wasm.type)
<1>1. IntegerOperand(o)
  BY Apart DEF Operands, FloatOperand, IsInteger
<1> QED BY <1>1, Apart DEF IntegerOperand, Waits, IsFloat, IsBoolean

LEMMA FloatIs ==
  ASSUME NEW o \in Operands, IsFloat(o)
  PROVE  FloatOperand(o) /\ ~IsInteger(o)
<1>1. FloatOperand(o)
  BY Apart DEF Operands, IntegerOperand, Waits, IsFloat
<1> QED BY <1>1, Apart DEF FloatOperand, IsInteger

LEMMA OneKind ==
  ASSUME NEW o \in Operands
  PROVE  IsInteger(o) \/ IsFloat(o)
BY DEF Operands, IntegerOperand, FloatOperand, Waits, IsInteger, IsFloat

(***************************************************************************)
(* The invariant.  While the program runs, each operand and the cell hold  *)
(* what WASM says; when it has ended, their types are right.               *)
(***************************************************************************)
CellTyped ==
  /\ cell.code = IntN(cell.code.bw, cell.code.word)
  /\ cell.code.bw \in Widths
  /\ cell.code.word \in Word(cell.code.bw) /\ cell.wasm \in Word(cell.code.bw)

NumberInv ==
  /\ operands \in Seq(Operands)
  /\ CellTyped
  /\ status \in {"running", "trap", "apart"}
  /\ status = "running" => operands \in Seq(Agreed) /\ cell.code.word = cell.wasm

LEMMA WidthsTyped ==
  /\ Widths \subseteq Nat \ {0}
  /\ \A t \in Types, given \in Sizes : UpdateSize(t, given) \in Widths
<1>1. ASSUME NEW t \in Types, NEW given \in Sizes PROVE UpdateSize(t, given) \in Nat \ {0}
  <2>1. t \in Nat \ {0} /\ given \in Nat
    BY TypeWidths, SizesTyped, WidthsOrdered
  <2> QED BY <2>1 DEF UpdateSize
<1> QED BY <1>1 DEF Widths

LEMMA StackFacts ==
  ASSUME NumberInv, NEW n \in Nat, Running(n)
  PROVE  /\ status = "running" /\ operands \in Seq(Agreed)
         /\ Rest(n) \in Seq(Agreed)
         /\ \A i \in 1..n : Nth(i) \in Agreed /\ Nth(i) \in Operands
<1>1. status = "running" /\ operands \in Seq(Agreed) /\ Len(operands) >= n /\ Len(operands) \in Nat
  BY DEF Running, NumberInv
<1>2. Rest(n) \in Seq(Agreed)
  BY <1>1 DEF Rest
<1>3. ASSUME NEW i \in 1..n PROVE Nth(i) \in Agreed
  BY <1>1 DEF Nth
<1> QED BY <1>1, <1>2, <1>3 DEF Agreed

(***************************************************************************)
(* A step that has left v for ref: what it did to the state.               *)
(***************************************************************************)
Arrives(rest, v, ref) ==
  /\ operands' = IF ref = Trap THEN rest ELSE Append(rest, Operand(v, ref))
  /\ UNCHANGED cell
  /\ ref = Trap => status' = "trap"
  /\ ref # Trap => /\ Operand(v, ref) \in Operands
                   /\ status' = "apart" \/ (status' = "running" /\ v.word = ref.word)

LEMMA OperandApart ==
  ASSUME NEW v, NEW ref, Operand(v, ref) \in Operands
  PROVE  v # Undefined /\ ref # Trap
BY OperandIs DEF Operand

LEMMA Arrived ==
  ASSUME NumberInv, status = "running", NEW rest \in Seq(Agreed), NEW ref, \E v : Arrives(rest, v, ref)
  PROVE  NumberInv'
<1>1. PICK v : Arrives(rest, v, ref)
  OBVIOUS
<1>2. rest \in Seq(Operands)
  BY DEF Agreed
<1>3. CellTyped' /\ cell'.code.word = cell'.wasm
  BY <1>1 DEF NumberInv, CellTyped, Arrives
<1>4. CASE ref = Trap
  <2>1. operands' = rest /\ status' = "trap"
    BY <1>1, <1>4 DEF Arrives
  <2> QED BY <1>2, <1>3, <2>1 DEF NumberInv
<1>5. CASE ref # Trap
  <2>1. PICK o : o = Operand(v, ref) /\ o \in Operands /\ operands' = Append(rest, o)
    BY <1>1, <1>5 DEF Arrives
  <2>2. o.code = v /\ o.wasm = ref
    BY <2>1 DEF Operand
  <2>3. operands' \in Seq(Operands)
    BY <1>2, <2>1
  <2>4. CASE status' = "running" /\ v.word = ref.word
    <3>1. o \in Agreed
      BY <2>1, <2>2, <2>4 DEF Agreed
    <3>2. operands' \in Seq(Agreed)
      BY <2>1, <3>1
    <3> QED BY <1>3, <2>3, <2>4, <3>2 DEF NumberInv
  <2>5. CASE status' = "apart"
    BY <1>3, <2>3, <2>5 DEF NumberInv
  <2> QED BY <1>1, <1>5, <2>4, <2>5 DEF Arrives
<1> QED BY <1>4, <1>5

-----------------------------------------------------------------------------
(***************************************************************************)
(* What each instruction makes of operands that agree.                     *)
(***************************************************************************)
LEMMA WaitsWord ==
  ASSUME NEW w, NEW t, Waits(w, t), NEW x \in Word(w)
  PROVE  x \in Word(t) /\ x \in Nat /\ w \in Nat \ {0} /\ t \in Types /\ (w = t \/ (w = 1 /\ x \in 0..1))
<1>1. t \in Types /\ t \in Nat \ {0} /\ t > 1
  BY TypeWidths DEF Waits
<1>2. CASE w = t
  BY <1>1, <1>2, WrappedWord
<1>3. CASE w = 1 /\ w # t
  <2>1. 1 \in Nat \ {0}
    OBVIOUS
  <2>2. x \in 0..1
    BY <1>3, <2>1, WordFacts
  <2>3. Pow2[t] \in Nat /\ Pow2[t] = 2 * Lowest(t) /\ Lowest(t) \in Nat \ {0}
    BY <1>1, WordFacts
  <2>4. x \in 0..(Pow2[t] - 1)
    BY <2>2, <2>3
  <2> QED BY <1>1, <1>3, <2>1, <2>2, <2>4 DEF Word
<1> QED BY <1>2, <1>3 DEF Waits

LEMMA TruthWord ==
  ASSUME NEW b
  PROVE  Truth(b) \in Word(1) /\ Truth(b) \in Word(INT_32) /\ Waits(1, INT_32)
<1>1. Waits(1, INT_32)
  BY Apart DEF Waits
<1>2. 1 \in Nat \ {0}
  OBVIOUS
<1>3. Truth(b) \in 0..1
  BY DEF Truth
<1>4. Truth(b) \in Word(1)
  BY <1>2, <1>3, WordFacts
<1> QED BY <1>1, <1>4, WaitsWord

LEMMA ComparisonAgrees ==
  ASSUME NEW w, NEW t, Waits(w, t), NEW x \in Word(w), NEW y \in Word(w),
         NEW sign \in BOOLEAN, NEW op \in Comparisons,
         NEW v \in HandleInteger(op, sign, IntN(w, x), IntN(w, y))
  PROVE  /\ Operand(v, WasmBinop(op, sign, t, x, y)) \in Operands
         /\ (w = 1 => SafeOnBooleans(op, sign)) => v.word = WasmBinop(op, sign, t, x, y).word
<1>0. op \notin Arithmetic /\ op \notin Shifts /\ op \notin {"DIV", "REM"}
  BY DEF Comparisons, Arithmetic, Shifts
<1>1. v = IntN(1, Truth(Compared(op, x, y, w, sign)))
  BY <1>0 DEF HandleInteger, IntN
<1>2. WasmBinop(op, sign, t, x, y) = Val(INT_32, Truth(Compared(op, x, y, t, sign)))
  BY <1>0 DEF WasmBinop
<1>3. Operand(v, WasmBinop(op, sign, t, x, y)) \in Operands
  BY <1>1, <1>2, TruthWord, IntegerMade
<1>4. /\ v.word = Truth(Compared(op, x, y, w, sign))
      /\ WasmBinop(op, sign, t, x, y).word = Truth(Compared(op, x, y, t, sign))
  BY <1>1, <1>2 DEF IntN, Val
<1>5. ASSUME w = 1 => SafeOnBooleans(op, sign)
      PROVE  Compared(op, x, y, w, sign) <=> Compared(op, x, y, t, sign)
  <2>1. CASE w = t
    BY <2>1
  <2>2. CASE w = 1 /\ w # t
    <3>1. x \in 0..1 /\ y \in 0..1 /\ t \in Nat /\ t > 1
      BY <2>2, WaitsWord, TypeWidths
    <3>2. op \in {"EQ", "NE"} \/ ~sign
      BY <1>5, <2>2 DEF SafeOnBooleans, Comparisons
    <3> QED BY Zenon, <2>2, <3>1, <3>2, BooleansCompared
  <2> QED BY <2>1, <2>2 DEF Waits
<1>6. ASSUME w = 1 => SafeOnBooleans(op, sign)
      PROVE  Truth(Compared(op, x, y, w, sign)) = Truth(Compared(op, x, y, t, sign))
  BY Zenon, <1>5, <1>6 DEF Truth
<1> QED BY Zenon, <1>3, <1>4, <1>6

LEMMA ArithmeticAgrees ==
  ASSUME NEW w, NEW t, Waits(w, t), NEW x \in Word(w), NEW y \in Word(w),
         NEW sign \in BOOLEAN, NEW op \in Arithmetic,
         NEW v \in HandleInteger(op, sign, IntN(w, x), IntN(w, y))
  PROVE  /\ Operand(v, WasmBinop(op, sign, t, x, y)) \in Operands
         /\ (w = 1 => SafeOnBooleans(op, sign)) => v.word = WasmBinop(op, sign, t, x, y).word
<1>0. op \notin Comparisons /\ op \notin Shifts /\ op \notin {"DIV", "REM"}
  BY DEF Comparisons, Arithmetic, Shifts
<1>1. v = IntN(w, Combined(op, x, y, w))
  BY <1>0 DEF HandleInteger, IntN
<1>2. WasmBinop(op, sign, t, x, y) = Val(t, Combined(op, x, y, t))
  BY <1>0 DEF WasmBinop
<1>3. w \in Nat \ {0} /\ t \in Nat \ {0} /\ x \in Word(t) /\ y \in Word(t)
  BY WaitsWord, TypeWidths
<1>4. Combined(op, x, y, w) \in Word(w) /\ Combined(op, x, y, t) \in Word(t)
  BY <1>3, CombinedTyped
<1>5. Operand(v, WasmBinop(op, sign, t, x, y)) \in Operands
  BY <1>1, <1>2, <1>4, IntegerMade
<1>6. /\ v.word = Combined(op, x, y, w)
      /\ WasmBinop(op, sign, t, x, y).word = Combined(op, x, y, t)
  BY <1>1, <1>2 DEF IntN, Val
<1>7. ASSUME w = 1 => SafeOnBooleans(op, sign)
      PROVE  Combined(op, x, y, w) = Combined(op, x, y, t)
  <2>1. CASE w = t
    BY <2>1
  <2>2. CASE w = 1 /\ w # t
    <3>1. x \in 0..1 /\ y \in 0..1 /\ t \in Nat /\ t > 1
      BY <2>2, WaitsWord, TypeWidths
    <3>2. op \in {"MUL", "AND", "OR", "XOR"}
      BY <1>7, <2>2 DEF SafeOnBooleans, Comparisons, Arithmetic
    <3> QED BY <2>2, <3>1, <3>2, BooleansCombined
  <2> QED BY <2>1, <2>2 DEF Waits
<1> QED BY <1>5, <1>6, <1>7

LEMMA ShiftAgrees ==
  ASSUME NEW w, NEW t, Waits(w, t), NEW x \in Word(w), NEW y \in Word(w),
         NEW sign \in BOOLEAN, NEW op \in Shifts,
         NEW v \in HandleInteger(op, sign, IntN(w, x), IntN(w, y))
  PROVE  /\ Operand(v, WasmBinop(op, sign, t, x, y)) \in Operands
         /\ (w = 1 => SafeOnBooleans(op, sign)) /\ y < t => v.word = WasmBinop(op, sign, t, x, y).word
<1>0. op \notin Comparisons /\ op \notin Arithmetic /\ op \notin {"DIV", "REM"}
  BY DEF Comparisons, Arithmetic, Shifts
<1>1. v \in Shift(op, IntN(w, x), IntN(w, y), sign)
  BY <1>0 DEF HandleInteger
<1>2. WasmBinop(op, sign, t, x, y) = Val(t, Shifted(op, x, y % t, t, sign))
  BY <1>0 DEF WasmBinop
<1>3. /\ w \in Nat \ {0} /\ t \in Nat \ {0} /\ x \in Word(t) /\ y \in Nat
      /\ IntN(w, x).bw = w /\ IntN(w, x).word = x /\ IntN(w, y).word = y
  BY WaitsWord, TypeWidths DEF IntN
<1>4. y % t \in Nat
  BY <1>3
<1>5. Shifted(op, x, y, w, sign) \in Word(w) /\ Shifted(op, x, y % t, t, sign) \in Word(t)
  BY <1>3, <1>4, ShiftedTyped
<1>6. /\ y >= w => \E z \in Word(w) : v = IntN(w, z)
      /\ ~(y >= w) => v = IntN(w, Shifted(op, x, y, w, sign))
  BY <1>1, <1>3 DEF Shift
<1>7. PICK z \in Word(w) : v = IntN(w, z) /\ (~(y >= w) => z = Shifted(op, x, y, w, sign))
  BY <1>5, <1>6
<1>8. Operand(v, WasmBinop(op, sign, t, x, y)) \in Operands
  BY <1>2, <1>5, <1>7, IntegerMade
<1>9. v.word = z /\ WasmBinop(op, sign, t, x, y).word = Shifted(op, x, y % t, t, sign)
  BY <1>2, <1>7 DEF IntN, Val
<1>10. ASSUME w = 1 => SafeOnBooleans(op, sign), y < t
       PROVE  z = Shifted(op, x, y % t, t, sign)
  <2>1. w = t
    BY <1>10 DEF Waits, SafeOnBooleans, Comparisons, Shifts
  <2>2. y % t = y /\ ~(y >= w)
    BY <1>3, <1>10, <2>1
  <2> QED BY <1>7, <2>1, <2>2
<1> QED BY <1>8, <1>9, <1>10

LEMMA CastIs ==
  ASSUME NEW w, NEW x, NEW src \in Nat, NEW dest \in Nat, NEW sign \in BOOLEAN
  PROVE  /\ src < dest => HandleIntegerTypeCast(IntN(w, x), src, dest, sign) =
                            IntN(dest, Wrapped(Valued(x, w, sign), dest))
         /\ src = dest => HandleIntegerTypeCast(IntN(w, x), src, dest, sign) = IntN(w, x)
         /\ src > dest => HandleIntegerTypeCast(IntN(w, x), src, dest, sign) = IntN(dest, Wrapped(x, dest))
<1>1. IntN(w, x).bw = w /\ IntN(w, x).word = x
  BY DEF IntN
<1>2. src < dest => ~(src = dest) /\ ~(src > dest)
  OBVIOUS
<1>3. src = dest => ~(src < dest) /\ ~(src > dest)
  OBVIOUS
<1>4. src > dest => ~(src = dest) /\ ~(src < dest)
  OBVIOUS
<1> QED BY <1>1, <1>2, <1>3, <1>4 DEF HandleIntegerTypeCast, Extended, Truncated

LEMMA ExtendAgrees ==
  ASSUME NEW w, Waits(w, INT_32), NEW x \in Word(w), NEW sign \in BOOLEAN
  PROVE  LET v   == HandleIntegerTypeCast(IntN(w, x), INT_32, INT_64, sign)
             ref == WasmExtend(x, sign)
         IN Operand(v, ref) \in Operands /\ (~(sign /\ w = 1) => v.word = ref.word)
<1>1. /\ w \in Nat \ {0} /\ x \in Word(INT_32) /\ INT_32 \in Nat \ {0} /\ INT_64 \in Nat \ {0}
      /\ INT_32 < INT_64 /\ Waits(INT_64, INT_64) /\ (w = INT_32 \/ w = 1)
  BY WaitsWord, WidthsOrdered, Apart DEF Waits
<1>2. Valued(x, w, sign) \in Int /\ Valued(x, INT_32, sign) \in Int
  BY <1>1, ValuedTyped
<1>3. /\ Wrapped(Valued(x, w, sign), INT_64) \in Word(INT_64)
      /\ Wrapped(Valued(x, INT_32, sign), INT_64) \in Word(INT_64)
  BY <1>1, <1>2, WrappedWord
<1>4. HandleIntegerTypeCast(IntN(w, x), INT_32, INT_64, sign) =
        IntN(INT_64, Wrapped(Valued(x, w, sign), INT_64))
  BY <1>1, CastIs
<1>5. ~(sign /\ w = 1) => Valued(x, w, sign) = Valued(x, INT_32, sign)
  BY <1>1 DEF Valued
<1> QED BY <1>1, <1>3, <1>4, <1>5, IntegerMade DEF WasmExtend

LEMMA WrapAgrees ==
  ASSUME NEW x \in Word(INT_64), NEW sign \in BOOLEAN
  PROVE  LET v == HandleIntegerTypeCast(IntN(INT_64, x), INT_64, INT_32, sign)
         IN Operand(v, WasmWrap(x)) \in Operands /\ v.word = WasmWrap(x).word
<1>1. /\ INT_32 \in Nat /\ INT_64 \in Nat /\ INT_64 > INT_32 /\ Waits(INT_32, INT_32) /\ x \in Int
  BY WidthsOrdered, Apart, WrappedWord DEF Waits
<1>2. Wrapped(x, INT_32) \in Word(INT_32)
  BY <1>1, WrappedWord
<1>3. HandleIntegerTypeCast(IntN(INT_64, x), INT_64, INT_32, sign) = IntN(INT_32, Wrapped(x, INT_32))
  BY <1>1, CastIs
<1>4. ASSUME NEW y \in Word(INT_32)
      PROVE  /\ Operand(IntN(INT_32, y), Val(INT_32, y)) \in Operands
             /\ IntN(INT_32, y).word = Val(INT_32, y).word
  BY <1>1, IntegerMade
<1> QED BY <1>2, <1>3, <1>4 DEF WasmWrap

LEMMA ReturnAgrees ==
  ASSUME NEW w, NEW t, Waits(w, t), NEW x \in Word(w), NEW sign \in BOOLEAN, ~sign
  PROVE  LET v == HandleIntegerTypeCast(IntN(w, x), w, t, sign)
         IN Operand(v, Val(t, x)) \in Operands /\ v.word = Val(t, x).word
<1>1. w \in Nat /\ t \in Nat /\ x \in Word(t) /\ t > 1 /\ Waits(t, t)
  BY WaitsWord, TypeWidths DEF Waits
<1>2. Wrapped(x, t) = x /\ Valued(x, w, sign) = x
  BY <1>1, WrappedWord DEF Valued
<1>3. CASE w = t
  <2>1. HandleIntegerTypeCast(IntN(w, x), w, t, sign) = IntN(w, x)
    BY <1>1, <1>3, CastIs
  <2> QED BY <1>1, <2>1, IntegerMade
<1>4. CASE w = 1 /\ w # t
  <2>1. HandleIntegerTypeCast(IntN(w, x), w, t, sign) = IntN(t, x)
    BY <1>1, <1>2, <1>4, CastIs
  <2> QED BY <1>1, <2>1, IntegerMade
<1> QED BY <1>3, <1>4 DEF Waits

LEMMA StoreAgrees ==
  ASSUME NEW w, NEW t, Waits(w, t), NEW x \in Word(w), NEW sign \in BOOLEAN,
         NEW size \in Widths, size <= t
  PROVE  LET c == Operand(HandleIntegerTypeCast(IntN(w, x), w, size, sign), WasmStored(x, size))
         IN /\ c.code = IntN(c.code.bw, c.code.word)
            /\ c.code.bw \in Widths /\ c.code.word \in Word(c.code.bw) /\ c.wasm \in Word(c.code.bw)
            /\ ~(sign /\ w = 1) => c.code.word = c.wasm
<1>1. w \in Nat \ {0} /\ t \in Nat /\ x \in Word(t) /\ x \in Int /\ t > 1 /\ size \in Nat \ {0}
  BY WaitsWord, TypeWidths, WidthsTyped
<1>2. Wrapped(x, size) \in Word(size) /\ Wrapped(x, w) = x
  BY <1>1, WrappedWord
<1>3. Valued(x, w, sign) \in Int
  BY <1>1, ValuedTyped
<1>4. Wrapped(Valued(x, w, sign), size) \in Word(size)
  BY <1>1, <1>3, WrappedWord
<1>5. \E z \in Word(size) :
        /\ HandleIntegerTypeCast(IntN(w, x), w, size, sign) = IntN(size, z)
        /\ ~(sign /\ w = 1) => z = Wrapped(x, size)
  <2>1. CASE w < size
    <3>1. HandleIntegerTypeCast(IntN(w, x), w, size, sign) = IntN(size, Wrapped(Valued(x, w, sign), size))
      BY <1>1, <2>1, CastIs
    <3>2. w = 1
      BY <1>1, <2>1 DEF Waits
    <3>3. ~(sign /\ w = 1) => Valued(x, w, sign) = x
      BY <3>2 DEF Valued
    <3> QED BY <1>4, <3>1, <3>3
  <2>2. CASE w = size
    <3>1. HandleIntegerTypeCast(IntN(w, x), w, size, sign) = IntN(w, x)
      BY <1>1, <2>2, CastIs
    <3> QED BY <1>2, <2>2, <3>1
  <2>3. CASE w > size
    <3>1. HandleIntegerTypeCast(IntN(w, x), w, size, sign) = IntN(size, Wrapped(x, size))
      BY <1>1, <2>3, CastIs
    <3> QED BY <1>2, <3>1
  <2> QED BY <1>1, <2>1, <2>2, <2>3
<1>6. PICK z \in Word(size) :
        /\ HandleIntegerTypeCast(IntN(w, x), w, size, sign) = IntN(size, z)
        /\ ~(sign /\ w = 1) => z = Wrapped(x, size)
  BY <1>5
<1> QED BY <1>2, <1>6 DEF Operand, IntN, WasmStored

LEMMA LoadAgrees ==
  ASSUME NEW t \in Types, NEW size \in Nat \ {0}, size <= t, NEW x \in Word(size), NEW sign \in BOOLEAN
  PROVE  LET v   == HandleIntegerTypeCast(IntN(size, x), size, t, sign)
             ref == WasmLoaded(t, x, size, sign)
         IN Operand(v, ref) \in Operands /\ v.word = ref.word
<1>1. t \in Nat /\ Waits(t, t)
  BY TypeWidths DEF Waits
<1>2. Valued(x, size, sign) \in Int
  BY ValuedTyped
<1>3. Wrapped(Valued(x, size, sign), t) \in Word(t)
  BY <1>1, <1>2, WrappedWord
<1>4. HandleIntegerTypeCast(IntN(size, x), size, t, sign) = IntN(t, Wrapped(Valued(x, size, sign), t))
  <2>1. CASE size < t
    BY <1>1, <2>1, CastIs
  <2>2. CASE size = t
    <3>1. HandleIntegerTypeCast(IntN(size, x), size, t, sign) = IntN(size, x)
      BY <1>1, <2>2, CastIs
    <3>2. Wrapped(Valued(x, size, sign), size) = x
      BY ValuedWrapped
    <3> QED BY <2>2, <3>1, <3>2
  <2> QED BY <1>1, <2>1, <2>2
<1> QED BY <1>1, <1>3, <1>4, IntegerMade DEF WasmLoaded

LEMMA SelectAgrees ==
  ASSUME NEW c \in Agreed, c.wasm.type = INT_32, NEW a \in Agreed, NEW b \in Agreed
  PROVE  LET v   == IF TransformCondition(c.code).word = 1 THEN a.code ELSE b.code
             ref == WasmSelect(c.wasm.word, a.wasm, b.wasm)
         IN Operand(v, ref) \in Operands /\ v.word = ref.word
<1>1. IntegerOperand(c)
  BY Apart, IntegerIs DEF Agreed, IsInteger
<1>2. c.code.word = c.wasm.word /\ (c.code.bw = 1 => c.code.word \in 0..1)
  <2>1. 1 # INT_32
    BY WidthsOrdered
  <2> QED BY <1>1, <2>1, WaitsWord DEF Agreed, IntegerOperand, Waits
<1>3. TransformCondition(c.code).word = 1 <=> c.wasm.word # 0
  <2>1. CASE c.code.bw = 1
    BY <1>2, <2>1 DEF TransformCondition
  <2>2. CASE c.code.bw # 1
    BY <1>2, <2>2 DEF TransformCondition, IntN, Truth
  <2> QED BY <2>1, <2>2
<1>4. a \in Operands /\ b \in Operands /\ a.code.word = a.wasm.word /\ b.code.word = b.wasm.word
  BY DEF Agreed
<1> QED BY <1>3, <1>4, OperandIs DEF WasmSelect

LEMMA FloatBinopAgrees ==
  ASSUME NEW t \in FloatTypes, NEW x \in Floats(t), NEW y \in Floats(t),
         NEW op \in Comparisons \cup FloatArithmetics \cup Choices \cup {"COPYSIGN"},
         NEW v \in CASE op \in Comparisons      -> {FCmp(op, IsOrdered(op), x, y)}
                     [] op \in FloatArithmetics -> {FloatN(t, FloatCombined(op, x, y, t))}
                     [] op \in Choices \cup {"COPYSIGN"} -> {FloatN(t, z) : z \in HandleIntrinsic(op, x, y)}
  PROVE  /\ Operand(v, WasmFloatBinop(op, t, x, y)) \in Operands
         /\ (op \in Choices => ~Unordered(x, y) /\ (IsZero(x) /\ IsZero(y) => x = y))
              => v.word = WasmFloatBinop(op, t, x, y).word
<1>1. CASE op \in Comparisons
  <2>0. op \notin FloatArithmetics /\ op \notin Choices /\ op # "COPYSIGN"
    BY <1>1 DEF Comparisons, FloatArithmetics, Choices
  <2>1. v = IntN(1, Truth(FloatCompared(op, x, y) \/ (~IsOrdered(op) /\ Unordered(x, y))))
    BY <1>1, <2>0 DEF FCmp
  <2>2. WasmFloatBinop(op, t, x, y) =
          Val(INT_32, Truth(FloatCompared(op, x, y) \/ (op = "NE" /\ Unordered(x, y))))
    BY <1>1, <2>0 DEF WasmFloatBinop
  <2>3. Truth(FloatCompared(op, x, y) \/ (~IsOrdered(op) /\ Unordered(x, y)))
          = Truth(FloatCompared(op, x, y) \/ (op = "NE" /\ Unordered(x, y)))
    BY Zenon DEF Truth, IsOrdered
  <2>4. PICK z : z \in Word(1) /\ z \in Word(INT_32) /\ v = IntN(1, z) /\ WasmFloatBinop(op, t, x, y) = Val(INT_32, z)
    BY <2>1, <2>2, <2>3, TruthWord
  <2> QED BY <2>4, TruthWord, IntegerMade
<1>2. CASE op \in FloatArithmetics
  <2>0. op \notin Comparisons /\ op \notin Choices /\ op # "COPYSIGN"
    BY <1>2 DEF Comparisons, FloatArithmetics, Choices
  <2>1. v = FloatN(t, FloatCombined(op, x, y, t))
    BY <1>2, <2>0
  <2>2. WasmFloatBinop(op, t, x, y) = Val(t, FloatCombined(op, x, y, t))
    BY <1>2, <2>0 DEF WasmFloatBinop
  <2>3. FloatCombined(op, x, y, t) \in Floats(t)
    BY <1>2, FloatCombinedTyped
  <2>4. PICK z \in Floats(t) : z = FloatCombined(op, x, y, t)
    BY <2>3
  <2> QED BY <2>1, <2>2, <2>4, FloatMade
<1>3. CASE op \in Choices
  <2>0. op \notin Comparisons /\ op \notin FloatArithmetics /\ op # "COPYSIGN"
    BY <1>3 DEF Comparisons, FloatArithmetics, Choices
  <2>1. v \in {FloatN(t, z) : z \in Chosen(op, x, y)}
    BY <1>3, <2>0 DEF HandleIntrinsic
  <2>2. WasmFloatBinop(op, t, x, y) = Val(t, WasmChoice(op, x, y))
    BY <1>3, <2>0 DEF WasmFloatBinop
  <2>3. PICK z \in Chosen(op, x, y) : v = FloatN(t, z)
    BY <2>1
  <2>4. /\ z \in Floats(t)
        /\ ~Unordered(x, y) /\ (IsZero(x) /\ IsZero(y) => x = y) => z = WasmChoice(op, x, y)
    BY <1>3, ChosenFloat
  <2>5. WasmChoice(op, x, y) \in Floats(t)
    BY <1>3, ChoiceFloat
  <2>6. /\ Operand(FloatN(t, z), Val(t, WasmChoice(op, x, y))) \in Operands
        /\ FloatN(t, z).word = z /\ Val(t, WasmChoice(op, x, y)).word = WasmChoice(op, x, y)
    BY <2>4, <2>5, FloatMade
  <2> QED BY Zenon, <1>3, <2>2, <2>3, <2>4, <2>6
<1>4. CASE op = "COPYSIGN"
  <2>0. op \notin Comparisons /\ op \notin FloatArithmetics /\ op \notin Choices
    BY <1>4 DEF Comparisons, FloatArithmetics, Choices
  <2>1. v = FloatN(t, WithSignOf(x, y))
    BY <1>4, <2>0 DEF HandleIntrinsic
  <2>2. WasmFloatBinop(op, t, x, y) = Val(t, WithSignOf(x, y))
    BY <1>4, <2>0 DEF WasmFloatBinop
  <2> QED BY <2>1, <2>2, SignedFloat, FloatMade
<1> QED BY <1>1, <1>2, <1>3, <1>4

LEMMA ZeroFloat ==
  ASSUME NEW t \in FloatTypes
  PROVE  Representable(0, t) /\ Zero \in Floats(t)
<1>1. 0 \in Nat /\ 0 <= Pow2[Precision[t]] /\ 0 \in 0..Largest
  BY PrecisionPositive, LargestTyped
<1>2. Representable(0, t)
  BY <1>1, SmallRepresentable
<1>3. ASSUME NEW b \in BOOLEAN PROVE Number(b, 0) \in Floats(t)
  BY <1>1, <1>2, FloatsAre
<1> QED BY Zenon, <1>2, <1>3 DEF Zero

LEMMA FloatUnopAgrees ==
  ASSUME NEW t \in FloatTypes, NEW x \in Floats(t), NEW op \in Roundings \cup {"NEG", "ABS"}
  PROVE  LET v   == FloatN(t, CASE op = "NEG"       -> FloatCombined("SUB", Zero, x, t)
                                [] op = "ABS"       -> [x EXCEPT !.neg = FALSE]
                                [] op \in Roundings -> Rounded(op, x))
             ref == WasmFloatUnop(op, t, x)
         IN Operand(v, ref) \in Operands /\ ((op = "NEG" => x # Zero) => v.word = ref.word)
<1>1. CASE op = "NEG"
  <2>0. op # "ABS" /\ op \notin Roundings /\ "SUB" \in FloatArithmetics
    BY <1>1 DEF Roundings, FloatArithmetics
  <2>1. FloatCombined("SUB", Zero, x, t) \in Floats(t)
    BY <2>0, ZeroFloat, FloatCombinedTyped
  <2>2. x # Zero => FloatCombined("SUB", Zero, x, t) = Negated(x)
    BY ZeroMinus
  <2>3. Negated(x) \in Floats(t)
    BY NegatedFloat
  <2>4. WasmFloatUnop(op, t, x) = Val(t, Negated(x))
    BY <1>1, <2>0 DEF WasmFloatUnop
  <2> QED BY <1>1, <2>0, <2>1, <2>2, <2>3, <2>4, FloatMade
<1>2. CASE op = "ABS"
  <2>0. op # "NEG" /\ op \notin Roundings
    BY <1>2 DEF Roundings
  <2>1. ASSUME NEW b \in BOOLEAN, ~b PROVE [x EXCEPT !.neg = b] \in Floats(t)
    BY <2>1, SignChanged
  <2>2. [x EXCEPT !.neg = FALSE] \in Floats(t)
    BY Zenon, <2>1
  <2>3. WasmFloatUnop(op, t, x) = Val(t, [x EXCEPT !.neg = FALSE])
    BY <1>2, <2>0 DEF WasmFloatUnop
  <2>4. PICK z \in Floats(t) : z = [x EXCEPT !.neg = FALSE]
    BY <2>2
  <2> QED BY <1>2, <2>0, <2>3, <2>4, FloatMade
<1>3. CASE op \in Roundings
  <2>0. op # "NEG" /\ op # "ABS"
    BY <1>3 DEF Roundings
  <2>1. Rounded(op, x) \in Floats(t)
    BY <1>3, RoundedFloat
  <2>2. WasmFloatUnop(op, t, x) = Val(t, Rounded(op, x))
    BY <1>3, <2>0 DEF WasmFloatUnop
  <2> QED BY <1>3, <2>0, <2>1, <2>2, FloatMade
<1> QED BY <1>1, <1>2, <1>3

LEMMA FloatCastAgrees ==
  ASSUME NEW t \in FloatTypes, NEW s \in FloatTypes, NEW x \in Floats(s)
  PROVE  /\ Operand(FPCast(FloatN(s, x), t), WasmFloatCast(t, x)) \in Operands
         /\ FPCast(FloatN(s, x), t).word = WasmFloatCast(t, x).word
<1>1. FloatN(s, x).word = x
  BY DEF FloatN
<1>2. Converted(x, t) \in Floats(t)
  BY ConvertedFloat
<1> QED BY <1>1, <1>2, FloatMade DEF FPCast, WasmFloatCast

LEMMA TruncAgrees ==
  ASSUME NEW s \in FloatTypes, NEW x \in Floats(s), NEW t \in Types, NEW sign \in BOOLEAN,
         NEW v \in FromFloats(FloatN(s, x), t, sign), WasmTrunc(t, x, sign) # Trap
  PROVE  /\ Operand(v, WasmTrunc(t, x, sign)) \in Operands
         /\ v.word = WasmTrunc(t, x, sign).word
<1>1. FloatN(s, x).word = x
  BY DEF FloatN
<1>2. Holds(x, t, sign) /\ WasmTrunc(t, x, sign) = Val(t, IntegerOf(x, t))
  BY DEF WasmTrunc
<1>3. FPToInt(FloatN(s, x), t, sign) = {IntN(t, IntegerOf(x, t))}
  BY <1>1, <1>2 DEF FPToInt
<1>4. IntegerOf(x, t) \in Word(t)
  <2>1. "TRUNC" \in Roundings
    BY DEF Roundings
  <2>2. Halves(Rounded("TRUNC", x)) \in Int
    BY <2>1, RoundedFloat, HalvesTyped
  <2>3. Halves(Rounded("TRUNC", x)) \div 2 \in Int /\ t \in Nat
    BY <2>2, TypeWidths
  <2> QED BY <2>3, WrappedWord DEF IntegerOf
<1>5. /\ IntN(t, IntegerOf(x, t)) # Undefined /\ IntN(t, IntegerOf(x, t)).bw = t
      /\ HandleIntegerTypeCast(IntN(t, IntegerOf(x, t)), t, t, sign) = IntN(t, IntegerOf(x, t))
  <2>1. Waits(t, t) /\ t \in Nat
    BY TypeWidths DEF Waits
  <2>2. Operand(IntN(t, IntegerOf(x, t)), Val(t, IntegerOf(x, t))) \in Operands
    BY <1>4, <2>1, IntegerMade
  <2>3. IntN(t, IntegerOf(x, t)) # Undefined
    BY <2>2, OperandIs DEF Operand
  <2>4. IntN(t, IntegerOf(x, t)).bw = t
    BY DEF IntN
  <2> QED BY <2>1, <2>3, <2>4, CastIs
<1>6. v = IntN(t, IntegerOf(x, t))
  BY <1>3, <1>5 DEF FromFloats
<1>7. Waits(t, t)
  BY DEF Waits
<1> QED BY <1>2, <1>4, <1>6, <1>7, IntegerMade

LEMMA ThroughDouble ==
  ASSUME NEW t \in FloatTypes, NEW s \in FloatTypes, NEW i \in Int,
         FloatOf(i, s).mag = 2 * Magnitude(i)
  PROVE  Converted(FloatOf(i, s), t) = FloatOf(i, t)
<1> DEFINE n == Magnitude(2 * i)
           neg == 2 * i < 0
<1>1. n \in Nat /\ n = 2 * Magnitude(i) /\ neg \in BOOLEAN
  BY DEF Magnitude
<1>2. \A f \in FloatTypes : FloatOf(i, f) = Nearest(neg, n, 1, f)
  BY DEF FloatOf, OfHalves
<1> HIDE DEF n, neg
<1>3. FloatOf(i, s) = IF NearestMag(n, 1, s) > Largest THEN Infinity(neg) ELSE Number(neg, NearestMag(n, 1, s))
  BY <1>2, NearestIs
<1>4. CASE NearestMag(n, 1, s) > Largest
  <2>1. FloatOf(i, s).mag = 0
    BY <1>1, <1>3, <1>4, InfinityShape
  <2>2. n = 0
    BY <1>1, <2>1
  <2>3. NearestMag(0, 1, s) = 0
    BY ZeroFloat, RepresentableNearest
  <2> QED BY <1>4, <2>2, <2>3, LargestTyped
<1>5. CASE ~(NearestMag(n, 1, s) > Largest)
  <2>1. FloatOf(i, s) = Number(neg, NearestMag(n, 1, s))
    BY <1>3, <1>5
  <2>2. /\ FloatOf(i, s).class = "number" /\ FloatOf(i, s).neg = neg
        /\ FloatOf(i, s).mag = NearestMag(n, 1, s)
    BY <1>1, <2>1, NumberShape
  <2>3. FloatOf(i, s).mag = n
    BY <1>1
  <2> QED BY <1>2, <2>2, <2>3 DEF Converted
<1> QED BY <1>4, <1>5

LEMMA ConvertAgrees ==
  ASSUME NEW t \in FloatTypes, NEW w, NEW src, Waits(w, src), NEW x \in Word(w), NEW sign \in BOOLEAN
  PROVE  LET v   == FromIntegers(IntN(w, x), src, t, sign)
             ref == WasmConvert(t, src, x, sign)
         IN /\ Operand(v, ref) \in Operands
            /\ /\ ~(sign /\ w = 1)
               /\ t = FLOAT_32 /\ src = INT_64 => ExactInDouble(IntN(w, x), sign)
               => v.word = ref.word
<1>1. w \in Nat \ {0} /\ x \in Word(src) /\ src \in Nat \ {0} /\ (w = src \/ w = 1)
  BY WaitsWord, TypeWidths DEF Waits
<1> DEFINE i == Valued(x, w, sign)
           j == Valued(x, src, sign)
<1>2. i \in Int /\ j \in Int /\ 2 * i \in Int /\ 2 * j \in Int
  <2>1. i \in Int /\ j \in Int
    BY <1>1, ValuedTyped
  <2> QED BY <2>1
<1>3. ~(sign /\ w = 1) => i = j
  BY <1>1 DEF Valued
<1>4. IntN(w, x).bw = w /\ IntN(w, x).word = x
  BY DEF IntN
<1>5. WasmConvert(t, src, x, sign) = Val(t, FloatOf(j, t))
  BY DEF WasmConvert
<1>6. \A s \in FloatTypes : IntToFP(IntN(w, x), s, sign) = FloatN(s, FloatOf(i, s))
  BY <1>4 DEF IntToFP
<1>7. FLOAT_32 \in FloatTypes /\ FLOAT_64 \in FloatTypes
  BY DEF FloatTypes
<1> HIDE DEF i, j
<1>8. \A s \in FloatTypes : FloatOf(i, s) \in Floats(s) /\ FloatOf(j, s) \in Floats(s)
  BY <1>2, OfHalvesFloat DEF FloatOf
<1>9. CASE t = FLOAT_32 /\ src # INT_32
  <2>1. FromIntegers(IntN(w, x), src, t, sign) = FloatN(t, Converted(FloatOf(i, FLOAT_64), t))
    BY <1>6, <1>7, <1>9 DEF FromIntegers, FPCast, FloatN
  <2>2. Converted(FloatOf(i, FLOAT_64), t) \in Floats(t)
    BY <1>7, <1>8, ConvertedFloat
  <2>3. src = INT_64
    BY <1>9 DEF Waits, Types
  <2>4. ExactInDouble(IntN(w, x), sign) => FloatOf(i, FLOAT_64).mag = 2 * Magnitude(i)
    BY <1>4, <1>6, <1>7 DEF ExactInDouble, FloatN, i
  <2>5. FloatOf(i, FLOAT_64).mag = 2 * Magnitude(i) => Converted(FloatOf(i, FLOAT_64), t) = FloatOf(i, t)
    BY <1>2, <1>7, ThroughDouble
  <2> QED BY <1>3, <1>5, <1>8, <1>9, <2>1, <2>2, <2>3, <2>4, <2>5, FloatMade
<1>10. CASE ~(t = FLOAT_32 /\ src # INT_32)
  <2>1. FromIntegers(IntN(w, x), src, t, sign) = FloatN(t, FloatOf(i, t))
    BY <1>6, <1>10 DEF FromIntegers
  <2> QED BY <1>3, <1>5, <1>8, <2>1, FloatMade
<1> QED BY <1>9, <1>10

-----------------------------------------------------------------------------
(***************************************************************************)
(* Every step keeps the invariant.                                         *)
(***************************************************************************)
LEMMA IntegerAgreed ==
  ASSUME NEW o \in Agreed, IsInteger(o)
  PROVE  /\ Waits(o.code.bw, o.wasm.type) /\ o.code.word \in Word(o.code.bw)
         /\ o.wasm.word = o.code.word /\ o.code = IntN(o.code.bw, o.code.word)
         /\ o.wasm = Val(o.wasm.type, o.code.word)
         /\ (~IsBoolean(o) => o.code.bw = o.wasm.type) /\ o.wasm.type \in Types
BY IntegerIs, OperandIs DEF Agreed, IntegerOperand, IsInteger

LEMMA FloatAgreed ==
  ASSUME NEW o \in Agreed, IsFloat(o)
  PROVE  /\ o.code.bw \in FloatTypes /\ o.wasm.type = o.code.bw
         /\ o.code.word \in Floats(o.code.bw) /\ o.wasm.word = o.code.word
         /\ o.code = FloatN(o.code.bw, o.code.word)
BY FloatIs, OperandIs DEF Agreed, FloatOperand

LEMMA SameKind ==
  ASSUME NEW a \in Agreed, NEW b \in Agreed, a.code.bw = b.code.bw
  PROVE  (IsInteger(a) <=> IsInteger(b)) /\ (IsFloat(a) <=> IsFloat(b))
<1>1. IsFloat(a) <=> IsFloat(b)
  BY DEF IsFloat
<1>2. ASSUME NEW o \in Agreed PROVE IsInteger(o) <=> ~IsFloat(o)
  BY IntegerIs, OneKind DEF Agreed
<1> QED BY <1>1, <1>2

LEMMA ConstStep ==
  ASSUME NumberInv, NEW t \in Types, NEW x \in Word(t), Const(t, x)
  PROVE  NumberInv'
<1>1. status = "running" /\ operands \in Seq(Agreed) 
  BY DEF Const, Running, NumberInv
<1>2. Operand(IntN(t, x), Val(t, x)) \in Operands /\ IntN(t, x).word = Val(t, x).word
  BY IntegerMade DEF Waits
<1>3. \E v : Arrives(operands, v, Val(t, x))
  BY <1>2, OperandApart DEF Const, Deliver, Arrives
<1> QED BY <1>1, <1>3, Arrived

LEMMA FloatConstStep ==
  ASSUME NumberInv, NEW t \in FloatTypes, NEW x \in Floats(t), FloatConst(t, x)
  PROVE  NumberInv'
<1>1. status = "running" /\ operands \in Seq(Agreed) 
  BY DEF FloatConst, Running, NumberInv
<1>2. Operand(FloatN(t, x), Val(t, x)) \in Operands /\ FloatN(t, x).word = Val(t, x).word
  BY FloatMade
<1>3. \E v : Arrives(operands, v, Val(t, x))
  BY <1>2, OperandApart DEF FloatConst, Deliver, Arrives
<1> QED BY <1>1, <1>3, Arrived

LEMMA DivRemMade ==
  ASSUME NEW l \in Agreed, NEW r \in Agreed, IsInteger(l), ~IsBoolean(l), l.code.bw = r.code.bw,
         NEW sign \in BOOLEAN, NEW op \in {"DIV", "REM"},
         NEW v \in HandleDivRem(l.code, r.code, op = "DIV", sign),
         NEW ref, ref = WasmBinop(op, sign, l.wasm.type, l.wasm.word, r.wasm.word)
  PROVE  ref = Trap \/ (Operand(v, ref) \in Operands /\ v.word = ref.word)
<1>1. IsInteger(r)
  BY SameKind
<1>2. PICK w, x, y :
        /\ w = l.wasm.type /\ x \in Word(w) /\ y \in Word(w) /\ w \in Types
        /\ l.code = IntN(w, x) /\ r.code = IntN(w, y) /\ l.wasm.word = x /\ r.wasm.word = y
  BY <1>1, IntegerAgreed
<1>3. ref = WasmBinop(op, sign, w, x, y) /\ v \in HandleDivRem(IntN(w, x), IntN(w, y), op = "DIV", sign)
  BY Zenon, <1>2
<1>4. \/ WasmBinop(op, sign, w, x, y) = Trap
      \/ \E z \in Word(w) : v = IntN(w, z) /\ WasmBinop(op, sign, w, x, y) = Val(w, z)
  BY <1>2, <1>3, DivRemAgrees
<1> QED BY <1>2, <1>3, <1>4, IntegerMade DEF Waits

LEMMA BinopMade ==
  ASSUME NEW l \in Agreed, NEW r \in Agreed, IsInteger(l), l.code.bw = r.code.bw,
         NEW sign \in BOOLEAN, NEW op \in Comparisons \cup Arithmetic \cup Shifts,
         NEW v \in HandleInteger(op, sign, l.code, r.code),
         NEW ref, ref = WasmBinop(op, sign, l.wasm.type, l.wasm.word, r.wasm.word)
  PROVE  /\ Operand(v, ref) \in Operands
         /\ /\ IsBoolean(l) => SafeOnBooleans(op, sign)
            /\ op \in Shifts => r.wasm.word < l.wasm.type
            => v.word = ref.word
<1>1. IsInteger(r)
  BY SameKind
<1>2. PICK w, t, x, y :
        /\ w = l.code.bw /\ t = l.wasm.type /\ Waits(w, t) /\ x \in Word(w) /\ y \in Word(w)
        /\ l.code = IntN(w, x) /\ r.code = IntN(w, y) /\ l.wasm.word = x /\ r.wasm.word = y
  BY <1>1, IntegerAgreed
<1>3. ref = WasmBinop(op, sign, t, x, y) /\ v \in HandleInteger(op, sign, IntN(w, x), IntN(w, y))
  BY <1>2
<1>4. IsBoolean(l) <=> w = 1
  BY <1>2 DEF IsBoolean
<1>5. CASE op \in Comparisons
  BY <1>2, <1>3, <1>4, <1>5, ComparisonAgrees
<1>6. CASE op \in Arithmetic
  BY <1>2, <1>3, <1>4, <1>6, ArithmeticAgrees
<1>7. CASE op \in Shifts
  BY <1>2, <1>3, <1>4, <1>7, ShiftAgrees
<1> QED BY <1>5, <1>6, <1>7

LEMMA BinopStep ==
  ASSUME NumberInv, NEW sign \in BOOLEAN,
         NEW op \in Comparisons \cup Arithmetic \cup Shifts \cup {"DIV", "REM"}, Binop(op, sign)
  PROVE  NumberInv'
<1>1. /\ status = "running" /\ Rest(2) \in Seq(Agreed) /\ Nth(1) \in Agreed /\ Nth(2) \in Agreed
      /\ IsInteger(Nth(2)) /\ Nth(2).code.bw = Nth(1).code.bw
  <2>1. 2 \in Nat /\ 1 \in 1..2 /\ 2 \in 1..2
    OBVIOUS
  <2>2. Running(2) /\ IsInteger(Nth(2)) /\ Nth(2).code.bw = Nth(1).code.bw
    BY DEF Binop
  <2> QED BY <2>1, <2>2, StackFacts
<1>2. PICK ref : ref = WasmBinop(op, sign, Nth(2).wasm.type, Nth(2).wasm.word, Nth(1).wasm.word)
  OBVIOUS
<1>3. CASE op \in {"DIV", "REM"}
  <2>1. ~IsBoolean(Nth(2))
    BY <1>3 DEF Binop
  <2>2. PICK outcomes : outcomes = HandleDivRem(Nth(2).code, Nth(1).code, op = "DIV", sign)
    OBVIOUS
  <2>3. \A v \in outcomes : ref = Trap \/ (Operand(v, ref) \in Operands /\ v.word = ref.word)
    BY <1>1, <1>2, <1>3, <2>1, <2>2, DivRemMade
  <2>4. \E v : Arrives(Rest(2), v, ref)
    BY <1>2, <1>3, <2>2, <2>3, OperandApart DEF Binop, Deliver, Arrives
  <2> QED BY <1>1, <2>4, Arrived
<1>4. CASE op \notin {"DIV", "REM"}
  <2>1. op \in Comparisons \cup Arithmetic \cup Shifts
    BY <1>4
  <2>2. \A v \in HandleInteger(op, sign, Nth(2).code, Nth(1).code) :
          /\ Operand(v, ref) \in Operands
          /\ /\ IsBoolean(Nth(2)) => SafeOnBooleans(op, sign)
             /\ op \in Shifts => Nth(1).wasm.word < Nth(2).wasm.type
             => v.word = ref.word
    BY <1>1, <1>2, <2>1, BinopMade
  <2>3. \E v : Arrives(Rest(2), v, ref)
    BY <1>2, <1>4, <2>2, OperandApart DEF Binop, Deliver, Arrives
  <2> QED BY <1>1, <2>3, Arrived
<1> QED BY <1>3, <1>4

LEMMA CountStep ==
  ASSUME NumberInv, NEW op \in Counts, Count(op)
  PROVE  NumberInv'
<1>1. /\ status = "running" /\ Rest(1) \in Seq(Agreed) /\ Nth(1) \in Agreed
      /\ IsInteger(Nth(1)) /\ ~IsBoolean(Nth(1))
  <2>1. 1 \in Nat /\ 1 \in 1..1
    OBVIOUS
  <2>2. Running(1) /\ IsInteger(Nth(1)) /\ ~IsBoolean(Nth(1))
    BY DEF Count
  <2> QED BY <2>1, <2>2, StackFacts
<1>2. PICK v, ref : /\ v = Intrinsic(op, Nth(1).code)
                    /\ ref = WasmCount(op, Nth(1).wasm.type, Nth(1).wasm.word)
  OBVIOUS
<1>3. Operand(v, ref) \in Operands /\ v.word = ref.word
  <2>1. PICK t, x : /\ t \in Types /\ t = Nth(1).wasm.type /\ Nth(1).wasm.word = x
                    /\ Nth(1).code = IntN(t, x)
    BY <1>1, IntegerAgreed
  <2>2. v = IntN(t, Counted(op, x, t)) /\ ref = Val(t, Counted(op, x, t))
    BY <1>2, <2>1 DEF Intrinsic, IntN, WasmCount
  <2>3. Counted(op, x, t) \in Word(t) /\ Waits(t, t)
    BY <2>1, TypeWidths, CountedTyped DEF Waits
  <2> QED BY <2>2, <2>3, IntegerMade
<1>4. \E z : Arrives(Rest(1), z, ref)
  BY <1>2, <1>3, OperandApart DEF Count, Deliver, Arrives
<1> QED BY <1>1, <1>4, Arrived

LEMMA TopAgreed ==
  ASSUME NumberInv, Running(1)
  PROVE  status = "running" /\ Rest(1) \in Seq(Agreed) /\ Nth(1) \in Agreed
<1>1. 1 \in Nat /\ 1 \in 1..1
  OBVIOUS
<1> QED BY <1>1, StackFacts

LEMMA ExtendStep ==
  ASSUME NumberInv, NEW sign \in BOOLEAN, Extend(sign)
  PROVE  NumberInv'
<1>1. Running(1) /\ Nth(1).wasm.type = INT_32
  BY DEF Extend
<1>2. PICK w, x : /\ Waits(w, INT_32) /\ x \in Word(w) /\ w = Nth(1).code.bw
                  /\ Nth(1).code = IntN(w, x) /\ Nth(1).wasm.word = x
  BY <1>1, TopAgreed, IntegerAgreed, Apart DEF IsInteger
<1>3. PICK v, ref : v = HandleIntegerTypeCast(IntN(w, x), INT_32, INT_64, sign) /\ ref = WasmExtend(x, sign)
  OBVIOUS
<1>4. Operand(v, ref) \in Operands /\ (~(sign /\ w = 1) => v.word = ref.word)
  BY <1>2, <1>3, ExtendAgrees
<1>5. \E z : Arrives(Rest(1), z, ref)
  BY <1>2, <1>3, <1>4, OperandApart DEF Extend, Deliver, Arrives, IsBoolean
<1> QED BY <1>1, <1>5, TopAgreed, Arrived

LEMMA WrapStep ==
  ASSUME NumberInv, Wrap
  PROVE  NumberInv'
<1>1. Running(1) /\ Nth(1).wasm.type = INT_64
  BY DEF Wrap
<1>2. PICK x \in Word(INT_64) : Nth(1).code = IntN(INT_64, x) /\ Nth(1).wasm.word = x
  BY <1>1, TopAgreed, IntegerAgreed, Apart DEF IsInteger, Waits
<1>3. PICK v, ref : v = HandleIntegerTypeCast(IntN(INT_64, x), INT_64, INT_32, FALSE) /\ ref = WasmWrap(x)
  OBVIOUS
<1>4. ASSUME NEW sign \in BOOLEAN
      PROVE  LET z == HandleIntegerTypeCast(IntN(INT_64, x), INT_64, INT_32, sign)
             IN Operand(z, ref) \in Operands /\ z.word = ref.word
  BY <1>3, WrapAgrees
<1>5. Operand(v, ref) \in Operands /\ v.word = ref.word
  BY Zenon, <1>3, <1>4
<1>6. \E z : Arrives(Rest(1), z, ref)
  BY <1>2, <1>3, <1>5, OperandApart DEF Wrap, Deliver, Arrives
<1> QED BY <1>1, <1>6, TopAgreed, Arrived

LEMMA ReturnStep ==
  ASSUME NumberInv, HandleReturn
  PROVE  NumberInv'
<1>1. Running(1) /\ IsInteger(Nth(1))
  BY DEF HandleReturn
<1>2. PICK w, t, x : /\ Waits(w, t) /\ x \in Word(w) /\ w = Nth(1).code.bw /\ t = Nth(1).wasm.type
                     /\ Nth(1).code = IntN(w, x) /\ Nth(1).wasm = Val(t, x)
  BY <1>1, TopAgreed, IntegerAgreed
<1>3. PICK v, ref : v = HandleIntegerTypeCast(IntN(w, x), w, t, FALSE) /\ ref = Val(t, x)
  OBVIOUS
<1>4. ASSUME NEW sign \in BOOLEAN, ~sign
      PROVE  LET z == HandleIntegerTypeCast(IntN(w, x), w, t, sign)
             IN Operand(z, ref) \in Operands /\ z.word = ref.word
  BY <1>2, <1>3, <1>4, ReturnAgrees
<1>5. Operand(v, ref) \in Operands /\ v.word = ref.word
  BY Zenon, <1>3, <1>4
<1>6. \E z : Arrives(Rest(1), z, ref)
  BY <1>2, <1>3, <1>5, OperandApart DEF HandleReturn, Deliver, Arrives
<1> QED BY <1>1, <1>6, TopAgreed, Arrived

LEMMA SelectStep ==
  ASSUME NumberInv, Select
  PROVE  NumberInv'
<1>1. Running(3) /\ Nth(3).wasm.type = INT_32
  BY DEF Select
<1>2. /\ status = "running" /\ Rest(3) \in Seq(Agreed)
      /\ Nth(1) \in Agreed /\ Nth(2) \in Agreed /\ Nth(3) \in Agreed
  <2>1. 3 \in Nat /\ 1 \in 1..3 /\ 2 \in 1..3 /\ 3 \in 1..3
    OBVIOUS
  <2> QED BY <1>1, <2>1, StackFacts
<1>3. PICK v, ref :
        /\ v = IF TransformCondition(Nth(3).code).word = 1 THEN Nth(2).code ELSE Nth(1).code
        /\ ref = WasmSelect(Nth(3).wasm.word, Nth(2).wasm, Nth(1).wasm)
  OBVIOUS
<1>4. Operand(v, ref) \in Operands /\ v.word = ref.word
  BY <1>1, <1>2, <1>3, SelectAgrees
<1>5. \E z : Arrives(Rest(3), z, ref)
  BY <1>3, <1>4, OperandApart DEF Select, Deliver, Arrives
<1> QED BY <1>2, <1>5, Arrived

LEMMA StoreStep ==
  ASSUME NumberInv, NEW given \in Sizes, NEW sign \in BOOLEAN, Store(given, sign)
  PROVE  NumberInv'
<1>1. Running(1) /\ IsInteger(Nth(1))
  BY DEF Store
<1>2. PICK w, t, x : /\ Waits(w, t) /\ x \in Word(w) /\ w = Nth(1).code.bw /\ t = Nth(1).wasm.type
                     /\ t \in Types /\ Nth(1).code = IntN(w, x) /\ Nth(1).wasm.word = x
  BY <1>1, TopAgreed, IntegerAgreed
<1>3. PICK size : size = UpdateSize(t, given) /\ size \in Widths
  BY <1>2, WidthsTyped
<1>4. /\ size <= t
      /\ cell' = Operand(HandleIntegerTypeCast(IntN(w, x), w, size, sign), WasmStored(x, size))
      /\ status' = IF sign /\ w = 1 THEN "apart" ELSE "running"
      /\ operands' = operands
  BY <1>2, <1>3 DEF Store, IsBoolean
<1>5. /\ cell'.code = IntN(cell'.code.bw, cell'.code.word)
      /\ cell'.code.bw \in Widths /\ cell'.code.word \in Word(cell'.code.bw) /\ cell'.wasm \in Word(cell'.code.bw)
      /\ ~(sign /\ w = 1) => cell'.code.word = cell'.wasm
  BY <1>2, <1>3, <1>4, StoreAgrees
<1>6. CellTyped'
  BY <1>5 DEF CellTyped
<1>7. operands' \in Seq(Operands) /\ operands' \in Seq(Agreed)
  BY <1>1, <1>4, TopAgreed DEF NumberInv
<1> QED BY <1>4, <1>5, <1>6, <1>7 DEF NumberInv

LEMMA LoadStep ==
  ASSUME NumberInv, NEW t \in Types, NEW given \in Sizes, NEW sign \in BOOLEAN, Load(t, given, sign)
  PROVE  NumberInv'
<1>1. status = "running" /\ operands \in Seq(Agreed)
  BY DEF Load, Running, NumberInv
<1>2. PICK size, x : /\ size = UpdateSize(t, given) /\ size <= t /\ size = cell.code.bw
                     /\ x = cell.code.word
  BY DEF Load
<1>3. cell.code = IntN(size, x) /\ cell.wasm = x /\ size \in Nat \ {0} /\ x \in Word(size)
  BY <1>1, <1>2, WidthsTyped DEF NumberInv, CellTyped
<1>4. PICK v, ref : v = HandleIntegerTypeCast(IntN(size, x), size, t, sign) /\ ref = WasmLoaded(t, x, size, sign)
  OBVIOUS
<1>5. Operand(v, ref) \in Operands /\ v.word = ref.word
  BY <1>2, <1>3, <1>4, LoadAgrees
<1>6. \E z : Arrives(operands, z, ref)
  BY <1>2, <1>3, <1>4, <1>5, OperandApart DEF Load, Deliver, Arrives
<1> QED BY <1>1, <1>6, Arrived

LEMMA FloatBinopStep ==
  ASSUME NumberInv, NEW op \in Comparisons \cup FloatArithmetics \cup Choices \cup {"COPYSIGN"},
         FloatBinop(op)
  PROVE  NumberInv'
<1>1. Running(2) /\ IsFloat(Nth(2)) /\ Nth(1).code.bw = Nth(2).code.bw
  BY DEF FloatBinop
<1>2. status = "running" /\ Rest(2) \in Seq(Agreed) /\ Nth(1) \in Agreed /\ Nth(2) \in Agreed
  <2>1. 2 \in Nat /\ 1 \in 1..2 /\ 2 \in 1..2
    OBVIOUS
  <2> QED BY <1>1, <2>1, StackFacts
<1>3. IsFloat(Nth(1))
  BY <1>1, <1>2, SameKind
<1>4. PICK t, x, y : /\ t \in FloatTypes /\ x \in Floats(t) /\ y \in Floats(t)
                     /\ t = Nth(2).code.bw /\ x = Nth(2).code.word /\ y = Nth(1).code.word
                     /\ Nth(2).wasm.word = x /\ Nth(1).wasm.word = y
  BY <1>1, <1>2, <1>3, FloatAgreed
<1>5. PICK outcomes, ref :
        /\ outcomes = CASE op \in Comparisons      -> {FCmp(op, IsOrdered(op), x, y)}
                        [] op \in FloatArithmetics -> {FloatN(t, FloatCombined(op, x, y, t))}
                        [] op \in Choices \cup {"COPYSIGN"} -> {FloatN(t, z) : z \in HandleIntrinsic(op, x, y)}
        /\ ref = WasmFloatBinop(op, t, x, y)
  OBVIOUS
<1>6. \A v \in outcomes :
        /\ Operand(v, ref) \in Operands
        /\ (op \in Choices => ~Unordered(x, y) /\ (IsZero(x) /\ IsZero(y) => x = y)) => v.word = ref.word
  BY <1>4, <1>5, FloatBinopAgrees
<1>7. PICK safe \in BOOLEAN :
        /\ safe <=> (op \in Choices => ~Unordered(x, y) /\ (IsZero(x) /\ IsZero(y) => x = y))
        /\ Deliver(Rest(2), outcomes, ref, safe)
  BY Zenon, <1>4, <1>5 DEF FloatBinop
<1>8. \E z : Arrives(Rest(2), z, ref)
  BY <1>6, <1>7, OperandApart DEF Deliver, Arrives
<1> QED BY <1>2, <1>8, Arrived

LEMMA FloatUnopStep ==
  ASSUME NumberInv, NEW op \in Roundings \cup {"NEG", "ABS"}, FloatUnop(op)
  PROVE  NumberInv'
<1>1. Running(1) /\ IsFloat(Nth(1))
  BY DEF FloatUnop
<1>2. PICK t, x : /\ t \in FloatTypes /\ x \in Floats(t)
                  /\ t = Nth(1).code.bw /\ x = Nth(1).code.word /\ Nth(1).wasm.word = x
  BY <1>1, TopAgreed, FloatAgreed
<1>3. PICK v, ref :
        /\ v = FloatN(t, CASE op = "NEG"       -> FloatCombined("SUB", Zero, x, t)
                           [] op = "ABS"       -> [x EXCEPT !.neg = FALSE]
                           [] op \in Roundings -> Rounded(op, x))
        /\ ref = WasmFloatUnop(op, t, x)
  OBVIOUS
<1>4. Operand(v, ref) \in Operands /\ ((op = "NEG" => x # Zero) => v.word = ref.word)
  BY <1>2, <1>3, FloatUnopAgrees
<1>5. \E z : Arrives(Rest(1), z, ref)
  BY <1>2, <1>3, <1>4, OperandApart DEF FloatUnop, Deliver, Arrives
<1> QED BY <1>1, <1>5, TopAgreed, Arrived

LEMMA ConvertStep ==
  ASSUME NumberInv, NEW t \in FloatTypes, NEW sign \in BOOLEAN, Convert(t, sign)
  PROVE  NumberInv'
<1>1. Running(1) /\ IsInteger(Nth(1))
  BY DEF Convert
<1>2. PICK w, src, x : /\ Waits(w, src) /\ x \in Word(w) /\ w = Nth(1).code.bw /\ src = Nth(1).wasm.type
                       /\ Nth(1).code = IntN(w, x) /\ Nth(1).wasm.word = x
  BY <1>1, TopAgreed, IntegerAgreed
<1>3. PICK v, ref : v = FromIntegers(IntN(w, x), src, t, sign) /\ ref = WasmConvert(t, src, x, sign)
  OBVIOUS
<1>4. /\ Operand(v, ref) \in Operands
      /\ /\ ~(sign /\ w = 1)
         /\ t = FLOAT_32 /\ src = INT_64 => ExactInDouble(IntN(w, x), sign)
         => v.word = ref.word
  BY <1>2, <1>3, ConvertAgrees
<1>5. \E z : Arrives(Rest(1), z, ref)
  BY <1>2, <1>3, <1>4, OperandApart DEF Convert, Deliver, Arrives, IsBoolean
<1> QED BY <1>1, <1>5, TopAgreed, Arrived

LEMMA TruncStep ==
  ASSUME NumberInv, NEW t \in Types, NEW sign \in BOOLEAN, Trunc(t, sign)
  PROVE  NumberInv'
<1>1. Running(1) /\ IsFloat(Nth(1))
  BY DEF Trunc
<1>2. PICK s, x : /\ s \in FloatTypes /\ x \in Floats(s)
                  /\ Nth(1).code = FloatN(s, x) /\ Nth(1).wasm.word = x
  BY <1>1, TopAgreed, FloatAgreed
<1>3. PICK outcomes, ref : outcomes = FromFloats(FloatN(s, x), t, sign) /\ ref = WasmTrunc(t, x, sign)
  OBVIOUS
<1>4. \A v \in outcomes : ref = Trap \/ (Operand(v, ref) \in Operands /\ v.word = ref.word)
  BY <1>2, <1>3, TruncAgrees
<1>5. \E z : Arrives(Rest(1), z, ref)
  BY <1>2, <1>3, <1>4, OperandApart DEF Trunc, Deliver, Arrives
<1> QED BY <1>1, <1>5, TopAgreed, Arrived

LEMMA FloatCastStep ==
  ASSUME NumberInv, NEW t \in FloatTypes, FloatCast(t)
  PROVE  NumberInv'
<1>1. Running(1) /\ IsFloat(Nth(1))
  BY DEF FloatCast
<1>2. PICK s, x : /\ s \in FloatTypes /\ x \in Floats(s)
                  /\ Nth(1).code = FloatN(s, x) /\ Nth(1).wasm.word = x
  BY <1>1, TopAgreed, FloatAgreed
<1>3. PICK v, ref : v = FPCast(FloatN(s, x), t) /\ ref = WasmFloatCast(t, x)
  OBVIOUS
<1>4. Operand(v, ref) \in Operands /\ v.word = ref.word
  BY <1>2, <1>3, FloatCastAgrees
<1>5. \E z : Arrives(Rest(1), z, ref)
  BY <1>2, <1>3, <1>4, OperandApart DEF FloatCast, Deliver, Arrives
<1> QED BY <1>1, <1>5, TopAgreed, Arrived

-----------------------------------------------------------------------------
LEMMA NumberInit == Init => NumberInv
<1> SUFFICES ASSUME Init PROVE NumberInv
  OBVIOUS
<1>1. PICK w \in Widths : cell = Operand(IntN(w, 0), 0)
  BY DEF Init
<1>2. 0 \in Word(w)
  BY WidthsTyped, WordFacts DEF Word
<1>3. CellTyped /\ cell.code.word = cell.wasm
  BY <1>1, <1>2 DEF CellTyped, Operand, IntN
<1>4. operands \in Seq(Operands) /\ operands \in Seq(Agreed) /\ status = "running"
  BY DEF Init
<1> QED BY <1>3, <1>4 DEF NumberInv

LEMMA NumberUnchanged ==
  ASSUME NumberInv, UNCHANGED vars
  PROVE  NumberInv'
BY DEF NumberInv, CellTyped, vars

LEMMA IntegerStep ==
  ASSUME NumberInv, Next
  PROVE  NumberInv'
<1>1. ASSUME NEW t \in Types, NEW x \in Word(t), Const(t, x) PROVE NumberInv'
  BY <1>1, ConstStep
<1>2. ASSUME NEW op \in Comparisons \cup Arithmetic \cup Shifts \cup {"DIV", "REM"},
             NEW sign \in BOOLEAN, Binop(op, sign)
      PROVE  NumberInv'
  BY <1>2, BinopStep
<1>3. ASSUME NEW op \in Counts, Count(op) PROVE NumberInv'
  BY <1>3, CountStep
<1>4. ASSUME NEW sign \in BOOLEAN, Extend(sign) PROVE NumberInv'
  BY <1>4, ExtendStep
<1>5. CASE Wrap
  BY <1>5, WrapStep
<1>6. CASE Select
  BY <1>6, SelectStep
<1>7. CASE HandleReturn
  BY <1>7, ReturnStep
<1>8. ASSUME NEW given \in Sizes, NEW sign \in BOOLEAN, Store(given, sign) PROVE NumberInv'
  BY <1>8, StoreStep
<1>9. ASSUME NEW t \in Types, NEW given \in Sizes, NEW sign \in BOOLEAN, Load(t, given, sign)
      PROVE  NumberInv'
  BY <1>9, LoadStep
<1>10. CASE Terminated
  BY <1>10, NumberUnchanged DEF Terminated
<1> QED BY <1>1, <1>2, <1>3, <1>4, <1>5, <1>6, <1>7, <1>8, <1>9, <1>10 DEF Next

LEMMA NumberStep ==
  ASSUME NumberInv, [NumberNext]_vars
  PROVE  NumberInv'
<1>1. CASE Next
  BY <1>1, IntegerStep
<1>2. ASSUME NEW t \in FloatTypes, NEW x \in Floats(t), FloatConst(t, x) PROVE NumberInv'
  BY <1>2, FloatConstStep
<1>3. ASSUME NEW op \in Comparisons \cup FloatArithmetics \cup Choices \cup {"COPYSIGN"}, FloatBinop(op)
      PROVE  NumberInv'
  BY <1>3, FloatBinopStep
<1>4. ASSUME NEW op \in Roundings \cup {"NEG", "ABS"}, FloatUnop(op) PROVE NumberInv'
  BY <1>4, FloatUnopStep
<1>5. ASSUME NEW t \in FloatTypes, NEW sign \in BOOLEAN, Convert(t, sign) PROVE NumberInv'
  BY <1>5, ConvertStep
<1>6. ASSUME NEW t \in Types, NEW sign \in BOOLEAN, Trunc(t, sign) PROVE NumberInv'
  BY <1>6, TruncStep
<1>7. ASSUME NEW t \in FloatTypes, FloatCast(t) PROVE NumberInv'
  BY <1>7, FloatCastStep
<1>8. CASE UNCHANGED vars
  BY <1>8, NumberUnchanged
<1> QED BY <1>1, <1>2, <1>3, <1>4, <1>5, <1>6, <1>7, <1>8 DEF NumberNext

LEMMA NumberSafe ==
  ASSUME NumberInv
  PROVE  NumbersTyped /\ ValuesAgree /\ UndefinedTraps
<1>1. ASSUME NEW k \in 1..Len(operands) PROVE operands[k] \in Operands
  BY DEF NumberInv
<1>2. ASSUME NEW k \in 1..Len(operands)
      PROVE  LET o == operands[k]
             IN /\ o.code.bw = o.wasm.type \/ (o.code.bw = 1 /\ o.wasm.type = INT_32)
                /\ IsInteger(o) => o.code.word \in Word(o.code.bw) /\ o.wasm.word \in Word(o.wasm.type)
                /\ IsFloat(o) => o.code.bw = o.wasm.type /\ o.code.word \in Floats(o.code.bw)
  BY <1>1, OneKind, IntegerIs, FloatIs DEF IntegerOperand, FloatOperand, Waits
<1>3. /\ cell.code.bw \in Widths /\ cell.code.word \in Word(cell.code.bw)
      /\ status \in {"running", "trap", "undefined", "apart"} /\ status # "undefined"
  BY DEF NumberInv, CellTyped
<1>4. NumbersTyped
  BY <1>2, <1>3 DEF NumbersTyped, TypeOK
<1>5. ASSUME status = "running", NEW k \in 1..Len(operands)
      PROVE  operands[k].code.word = operands[k].wasm.word
  <2>1. operands[k] \in Agreed
    BY <1>5 DEF NumberInv
  <2> QED BY <2>1 DEF Agreed
<1>6. ValuesAgree
  BY <1>5 DEF ValuesAgree, NumberInv
<1> QED BY <1>3, <1>4, <1>6 DEF UndefinedTraps

(***************************************************************************)
(* Whatever the widths of the two integer types and the precisions of the  *)
(* two floating point types, every value the Codegen methods of Binop,     *)
(* Unop and the casts leave has the machine type its WASM type calls for,  *)
(* or is an i1 for an i32, and is a value of that type.                    *)
(***************************************************************************)
THEOREM NumbersKeepTypes == NumberSpec => []NumbersTyped
<1>1. NumberSpec => []NumberInv
  BY NumberInit, NumberStep, PTL DEF NumberSpec
<1>2. NumberInv => NumbersTyped
  BY NumberSafe
<1> QED BY <1>1, <1>2, PTL

(***************************************************************************)
(* As long as a comparison is not used as a signed number or a summand, a  *)
(* shift stays below the width, and no conversion or choice is one of      *)
(* those the code gets wrong, an expression of any length computes what    *)
(* WASM says of it, at every width: the casts, the extra conditions of     *)
(* HandleDivRem, and what stores and loads do to a value, lose nothing.    *)
(***************************************************************************)
THEOREM ExpressionsComputeWasm == NumberSpec => []ValuesAgree
<1>1. NumberSpec => []NumberInv
  BY NumberInit, NumberStep, PTL DEF NumberSpec
<1>2. NumberInv => ValuesAgree
  BY NumberSafe
<1> QED BY <1>1, <1>2, PTL

(***************************************************************************)
(* Where an LLVM instruction has no result, WASM traps: the branches that  *)
(* HandleDivRem puts around a division keep every other program away from  *)
(* it, at every width.                                                     *)
(***************************************************************************)
THEOREM OnlyTrapsUndefined == NumberSpec => []UndefinedTraps
<1>1. NumberSpec => []NumberInv
  BY NumberInit, NumberStep, PTL DEF NumberSpec
<1>2. NumberInv => UndefinedTraps
  BY NumberSafe
<1> QED BY <1>1, <1>2, PTL
=============================================================================
