--------------------------- MODULE FloatArithmetic ---------------------------
(***************************************************************************)
(* Floating point numbers of two small formats, and what WASM says of the  *)
(* operations on them.  A number is an integer count of halves, so that    *)
(* the functions that round to integers have something to do; a format has *)
(* a precision in bits, and both have the same largest number.             *)
(*                                                                         *)
(* Bit patterns are left out: there is one NaN.                            *)
(***************************************************************************)
EXTENDS WasmInteger

CONSTANTS
  FLOAT_32, FLOAT_64,  \* the two types
  Precision,           \* the bits of the significands
  Largest              \* the largest number, an integer, in halves

FloatTypes == {FLOAT_32, FLOAT_64}

ASSUME TypesApart      == FLOAT_32 # FLOAT_64 /\ FloatTypes \cap (Types \cup {1}) = {}
ASSUME PrecisionTyped  == Precision \in [FloatTypes -> Nat \ {0}] /\ Precision[FLOAT_32] <= Precision[FLOAT_64]
ASSUME LargestTyped    == Largest \in Nat /\ Largest % 2 = 0

Number(neg, mag) == [class |-> "number", neg |-> neg, mag |-> mag]
Infinity(neg)    == [class |-> "infinity", neg |-> neg, mag |-> 0]
NaN              == [class |-> "nan", neg |-> FALSE, mag |-> 0]

IsNaN(x)  == x.class = "nan"
IsZero(x) == x.class = "number" /\ x.mag = 0

Zero == Number(FALSE, 0)

(***************************************************************************)
(* The number of the format next to n / d halves, the even one of two; the *)
(* significand k counts units of 2^e.                                      *)
(***************************************************************************)
Nearest(neg, n, d, t) ==
  LET Fits(e) == n \div (d * Pow2[e]) < Pow2[Precision[t]]
      e    == CHOOSE e \in 0..(n + 1) : Fits(e) /\ \A s \in 0..(e - 1) : ~Fits(s)
      unit == d * Pow2[e]
      k    == n \div unit
      rest == 2 * (n % unit)
      mag  == Pow2[e] * (IF rest > unit \/ (rest = unit /\ k % 2 = 1) THEN k + 1 ELSE k)
  IN IF mag > Largest THEN Infinity(neg) ELSE Number(neg, mag)

Floats(t) ==
  {Infinity(FALSE), Infinity(TRUE), NaN}
    \cup {Number(neg, mag) : neg \in BOOLEAN,
            mag \in {m \in 0..Largest : Nearest(FALSE, m, 1, t) = Number(FALSE, m)}}

Halves(x)     == IF x.neg THEN -x.mag ELSE x.mag
OfHalves(h, t) == Nearest(h < 0, Magnitude(h), 1, t)
WithSignOf(x, y) == IF IsNaN(x) THEN x ELSE [x EXCEPT !.neg = y.neg]
Negated(x)    == IF IsNaN(x) THEN x ELSE [x EXCEPT !.neg = ~@]

-----------------------------------------------------------------------------
(***************************************************************************)
(* Arithmetic as IEEE 754 defines it: a sum of zero is positive unless     *)
(* both summands are negative.                                             *)
(***************************************************************************)
Sum(x, y, t) ==
  CASE IsNaN(x) \/ IsNaN(y) -> NaN
    [] x.class = "infinity" /\ y.class = "infinity" -> IF x = y THEN x ELSE NaN
    [] x.class = "infinity" /\ y.class = "number"   -> x
    [] x.class = "number" /\ y.class = "infinity"   -> y
    [] x.class = "number" /\ y.class = "number" ->
         IF Halves(x) + Halves(y) = 0 THEN Number(x.neg /\ y.neg, 0)
         ELSE OfHalves(Halves(x) + Halves(y), t)

Product(x, y, t) ==
  LET neg == x.neg # y.neg
  IN CASE IsNaN(x) \/ IsNaN(y) -> NaN
       [] ~IsNaN(x) /\ ~IsNaN(y) /\ "infinity" \in {x.class, y.class} ->
            IF IsZero(x) \/ IsZero(y) THEN NaN ELSE Infinity(neg)
       [] x.class = "number" /\ y.class = "number" -> Nearest(neg, x.mag * y.mag, 2, t)

Fraction(x, y, t) ==
  LET neg == x.neg # y.neg
  IN CASE IsNaN(x) \/ IsNaN(y) -> NaN
       [] x.class = "infinity" -> IF y.class = "number" THEN Infinity(neg) ELSE NaN
       [] x.class = "number" /\ y.class = "infinity" -> Number(neg, 0)
       [] x.class = "number" /\ y.class = "number" ->
            CASE IsZero(y) /\ IsZero(x)  -> NaN
              [] IsZero(y) /\ ~IsZero(x) -> Infinity(neg)
              [] ~IsZero(y)              -> Nearest(neg, 2 * x.mag, y.mag, t)

FloatArithmetics == {"ADD", "SUB", "MUL", "DIV"}

FloatCombined(op, x, y, t) ==
  CASE op = "ADD" -> Sum(x, y, t)
    [] op = "SUB" -> Sum(x, Negated(y), t)
    [] op = "MUL" -> Product(x, y, t)
    [] op = "DIV" -> Fraction(x, y, t)

Less(x, y) ==
  LET Rank(z) == IF z.class = "infinity" THEN (IF z.neg THEN -Largest - 1 ELSE Largest + 1) ELSE Halves(z)
  IN ~IsNaN(x) /\ ~IsNaN(y) /\ Rank(x) < Rank(y)

Unordered(x, y) == IsNaN(x) \/ IsNaN(y)

FloatCompared(op, x, y) ==
  /\ ~Unordered(x, y)
  /\ CASE op = "LT" -> Less(x, y)
       [] op = "GT" -> Less(y, x)
       [] op = "LE" -> ~Less(y, x)
       [] op = "GE" -> ~Less(x, y)
       [] op = "EQ" -> ~Less(x, y) /\ ~Less(y, x)
       [] op = "NE" -> Less(x, y) \/ Less(y, x)

(***************************************************************************)
(* Rounding to integers keeps the sign, also that of a result of zero.     *)
(***************************************************************************)
Roundings == {"CEIL", "FLOOR", "TRUNC", "NEAREST"}

Rounded(op, x) ==
  LET down == x.mag - (x.mag % 2)
      up   == x.mag + (x.mag % 2)
  IN IF x.class # "number" THEN x
     ELSE [x EXCEPT !.mag =
             CASE op = "TRUNC"   -> down
               [] op = "CEIL"    -> IF x.neg THEN down ELSE up
               [] op = "FLOOR"   -> IF x.neg THEN up ELSE down
               [] op = "NEAREST" -> IF down % 4 = 0 THEN down ELSE up]

Converted(x, t) == IF x.class = "number" THEN Nearest(x.neg, x.mag, 1, t) ELSE x

\* Whether an integer type has the number without its fraction.
Holds(x, w, sign) ==
  /\ x.class = "number"
  /\ LET i == Halves(Rounded("TRUNC", x)) \div 2
     IN IF sign THEN -Lowest(w) <= i /\ i <= Highest(w) ELSE 0 <= i /\ i <= MinusOne(w)

IntegerOf(x, w) == Wrapped(Halves(Rounded("TRUNC", x)) \div 2, w)

FloatOf(i, t) == OfHalves(2 * i, t)

-----------------------------------------------------------------------------
(***************************************************************************)
(* WASM: the least and the greatest are NaN with a NaN, and a negative     *)
(* zero is less than a positive one; a number that does not fit traps.     *)
(***************************************************************************)
Choices == {"MIN", "MAX"}

WasmChoice(op, x, y) ==
  CASE Unordered(x, y)                   -> NaN
    [] ~Unordered(x, y) /\ Less(x, y)    -> IF op = "MIN" THEN x ELSE y
    [] Less(y, x)                        -> IF op = "MIN" THEN y ELSE x
    [] FloatCompared("EQ", x, y)         -> [x EXCEPT !.neg = IF op = "MIN" THEN x.neg \/ y.neg
                                                              ELSE x.neg /\ y.neg]

WasmFloatBinop(op, t, x, y) ==
  CASE op \in Comparisons ->
         Val(INT_32, Truth(FloatCompared(op, x, y) \/ (op = "NE" /\ Unordered(x, y))))
    [] op \in FloatArithmetics -> Val(t, FloatCombined(op, x, y, t))
    [] op \in Choices          -> Val(t, WasmChoice(op, x, y))
    [] op = "COPYSIGN"         -> Val(t, WithSignOf(x, y))

WasmFloatUnop(op, t, x) ==
  CASE op = "NEG"        -> Val(t, Negated(x))
    [] op = "ABS"        -> Val(t, [x EXCEPT !.neg = FALSE])
    [] op \in Roundings  -> Val(t, Rounded(op, x))

WasmConvert(t, src, x, sign) == Val(t, FloatOf(Valued(x, src, sign), t))

WasmTrunc(t, x, sign) == IF Holds(x, t, sign) THEN Val(t, IntegerOf(x, t)) ELSE Trap

WasmFloatCast(t, x) == Val(t, Converted(x, t))
=============================================================================
