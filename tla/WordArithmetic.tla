--------------------------- MODULE WordArithmetic ---------------------------
(***************************************************************************)
(* Arithmetic on words of w bits, written as the numbers 0..2^w - 1, in    *)
(* two's complement: the meaning WASM and LLVM share.  Powers of two are a *)
(* recursive function, so that theorems can be proved about them.          *)
(***************************************************************************)
EXTENDS Integers, FiniteSets

Pow2[n \in Nat] == IF n = 0 THEN 1 ELSE 2 * Pow2[n - 1]

Word(w)     == 0..(Pow2[w] - 1)
MinusOne(w) == Pow2[w] - 1
Lowest(w)   == Pow2[w - 1]
Highest(w)  == Pow2[w - 1] - 1

Signed(x, w)        == IF x < Lowest(w) THEN x ELSE x - Pow2[w]
Valued(x, w, sign)  == IF sign THEN Signed(x, w) ELSE x
Wrapped(i, w)       == i % Pow2[w]

Truth(b) == IF b THEN 1 ELSE 0

Bits(x, w)   == {i \in 0..(w - 1) : (x \div Pow2[i]) % 2 = 1}

\* The word of w bits that has those of S.
FromBits(S, w) ==
  LET sum[n \in Nat] == IF n = 0 THEN 0
                        ELSE sum[n - 1] + (IF n - 1 \in S THEN Pow2[n - 1] ELSE 0)
  IN sum[w]

Magnitude(i) == IF i < 0 THEN -i ELSE i

(***************************************************************************)
(* Division rounds to zero.                                                *)
(***************************************************************************)
Quotient(i, j) ==
  IF (i < 0) = (j < 0) THEN Magnitude(i) \div Magnitude(j) ELSE -(Magnitude(i) \div Magnitude(j))

Divided(x, y, w, sign) == Wrapped(Quotient(Valued(x, w, sign), Valued(y, w, sign)), w)

Remainder(x, y, w, sign) ==
  LET i == Valued(x, w, sign)
      j == Valued(y, w, sign)
  IN Wrapped(i - j * Quotient(i, j), w)

LeadingZeros(x, w)  == Cardinality({i \in 0..(w - 1) : x < Pow2[i]})
TrailingZeros(x, w) == Cardinality({i \in 1..w : x % Pow2[i] = 0})
Ones(x, w)          == Cardinality(Bits(x, w))

Comparisons == {"EQ", "NE", "LE", "LT", "GE", "GT"}
Arithmetic  == {"ADD", "SUB", "MUL", "AND", "OR", "XOR"}
Shifts      == {"SHL", "SHR"}
Counts      == {"CLZ", "CTZ", "POPCNT"}

Compared(op, x, y, w, sign) ==
  LET i == Valued(x, w, sign)
      j == Valued(y, w, sign)
  IN \/ op = "EQ" /\ i = j
     \/ op = "NE" /\ i # j
     \/ op = "LE" /\ i <= j
     \/ op = "LT" /\ i < j
     \/ op = "GE" /\ i >= j
     \/ op = "GT" /\ i > j

Combined(op, x, y, w) ==
  CASE op = "ADD" -> Wrapped(x + y, w)
    [] op = "SUB" -> Wrapped(x - y, w)
    [] op = "MUL" -> Wrapped(x * y, w)
    [] op = "AND" -> FromBits(Bits(x, w) \cap Bits(y, w), w)
    [] op = "OR"  -> FromBits(Bits(x, w) \cup Bits(y, w), w)
    [] op = "XOR" -> FromBits((Bits(x, w) \cup Bits(y, w)) \ (Bits(x, w) \cap Bits(y, w)), w)

Shifted(op, x, n, w, sign) ==
  IF op = "SHL" THEN Wrapped(x * Pow2[n], w) ELSE Wrapped(Valued(x, w, sign) \div Pow2[n], w)

Counted(op, x, w) ==
  CASE op = "CLZ"    -> LeadingZeros(x, w)
    [] op = "CTZ"    -> TrailingZeros(x, w)
    [] op = "POPCNT" -> Ones(x, w)
=============================================================================
