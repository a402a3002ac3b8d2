------------------------------ MODULE NumberOps ------------------------------
(***************************************************************************)
(* The floating point operations of Binop and Unop and the conversions of  *)
(* HandleTypeCasts, on the operands of IntegerOps: expressions that mix    *)
(* integers and floating point numbers.  SQRT, bit casts, and floating     *)
(* point numbers in memory, which are read as they were written, are left  *)
(* out.                                                                    *)
(***************************************************************************)
EXTENDS IntegerOps, FloatArithmetic

\* An LLVM value of a floating point type; like IntN, with the type for the width.
FloatN(t, x) == [bw |-> t, word |-> x]

IsFloat(o) == o.code.bw \in FloatTypes

(***************************************************************************)
(* With a floating point number among them, or a whole i64 in memory, one  *)
(* operand less may wait: a bound.                                         *)
(***************************************************************************)
Room(waiting, memory) ==
  (\E k \in 1..Len(waiting) : IsFloat(waiting[k])) \/ memory.code.bw = INT_64
    => Len(waiting) < MaxOperands

FloatConst(t, x) ==
  /\ Running(0) /\ Len(operands) < MaxOperands - 1
  /\ Deliver(operands, {FloatN(t, x)}, Val(t, x), TRUE)

(***************************************************************************)
(* fcmp: an ordered predicate fails on NaN, and an unordered one holds.    *)
(***************************************************************************)
FCmp(op, ordered, x, y) ==
  IntN(1, Truth(FloatCompared(op, x, y) \/ (~ordered /\ Unordered(x, y))))

\* Mutated IsOrdered: every comparison is ordered.
AlwaysOrdered(op) == TRUE

(***************************************************************************)
(* What the constructor of Operation makes of an operator that is written  *)
(* without a sign.                                                         *)
(***************************************************************************)
IsOrdered(op) == op # "NE"

(***************************************************************************)
(* minnum and maxnum return the operand that is not NaN, and any of two    *)
(* zeros.                                                                  *)
(***************************************************************************)
Chosen(op, x, y) ==
  CASE IsNaN(x) -> {y}
    [] ~IsNaN(x) /\ IsNaN(y) -> {x}
    [] ~IsNaN(x) /\ ~IsNaN(y) /\ IsZero(x) /\ IsZero(y) -> {x, y}
    [] OTHER -> {WasmChoice(op, x, y)}

(***************************************************************************)
(* Binop::HandleIntrinsic.                                                 *)
(***************************************************************************)
HandleIntrinsic(op, x, y) ==
  CASE op \in Choices   -> Chosen(op, x, y)
    [] op = "COPYSIGN"  -> {WithSignOf(x, y)}

FloatBinop(op) ==
  /\ Running(2) /\ IsFloat(Nth(2)) /\ Nth(1).code.bw = Nth(2).code.bw
  /\ LET x == Nth(2).code.word
         y == Nth(1).code.word
         t == Nth(2).code.bw
     IN Deliver(Rest(2),
                CASE op \in Comparisons      -> {FCmp(op, IsOrdered(op), x, y)}
                  [] op \in FloatArithmetics -> {FloatN(t, FloatCombined(op, x, y, t))}
                  [] op \in Choices \cup {"COPYSIGN"} -> {FloatN(t, z) : z \in HandleIntrinsic(op, x, y)},
                WasmFloatBinop(op, t, Nth(2).wasm.word, Nth(1).wasm.word),
                op \in Choices => ~Unordered(x, y) /\ (IsZero(x) /\ IsZero(y) => x = y))

(***************************************************************************)
(* NEG subtracts from zero; the other operations are intrinsics.           *)
(***************************************************************************)
FloatUnop(op) ==
  /\ Running(1) /\ IsFloat(Nth(1))
  /\ LET x == Nth(1).code.word
         t == Nth(1).code.bw
     IN Deliver(Rest(1),
                {FloatN(t, CASE op = "NEG"       -> FloatCombined("SUB", Zero, x, t)
                             [] op = "ABS"       -> [x EXCEPT !.neg = FALSE]
                             [] op \in Roundings -> Rounded(op, x))},
                WasmFloatUnop(op, t, Nth(1).wasm.word),
                op = "NEG" => x # Zero)

-----------------------------------------------------------------------------
(***************************************************************************)
(* HandleTypeCasts.  A cast of LLVM to the type the value has is no        *)
(* instruction, so that what follows fptosi and fptoui does nothing.       *)
(***************************************************************************)
IntToFP(v, t, sign) == FloatN(t, FloatOf(Valued(v.word, v.bw, sign), t))

FPToInt(v, w, sign) ==
  IF Holds(v.word, w, sign) THEN {IntN(w, IntegerOf(v.word, w))} ELSE {Undefined}

FPCast(v, t) == FloatN(t, Converted(v.word, t))

(***************************************************************************)
(* An integer of 64 bits gets to a float by way of a double.               *)
(***************************************************************************)
FromIntegers(v, src, t, sign) ==
  IF t = FLOAT_32 /\ src # INT_32 THEN FPCast(IntToFP(v, FLOAT_64, sign), FLOAT_32)
  ELSE IntToFP(v, t, sign)

(***************************************************************************)
(* HandleTypeCastsFromFloats and HandleTypeCastsFromDoubles to integers.   *)
(***************************************************************************)
FromFloats(v, t, sign) ==
  {IF i = Undefined THEN i ELSE HandleIntegerTypeCast(i, i.bw, t, sign) : i \in FPToInt(v, t, sign)}

ExactInDouble(v, sign) == IntToFP(v, FLOAT_64, sign).word.mag = 2 * Magnitude(Valued(v.word, v.bw, sign))

Convert(t, sign) ==
  /\ Running(1) /\ IsInteger(Nth(1)) /\ Len(operands) < MaxOperands
  /\ LET v   == Nth(1).code
         src == Nth(1).wasm.type
     IN Deliver(Rest(1), {FromIntegers(v, src, t, sign)},
                WasmConvert(t, src, Nth(1).wasm.word, sign),
                /\ ~(sign /\ IsBoolean(Nth(1)))
                /\ t = FLOAT_32 /\ src = INT_64 => ExactInDouble(v, sign))

Trunc(t, sign) ==
  /\ Running(1) /\ IsFloat(Nth(1))
  /\ Deliver(Rest(1), FromFloats(Nth(1).code, t, sign),
             WasmTrunc(t, Nth(1).wasm.word, sign), TRUE)

\* PROMOTE and DEMOTE.
FloatCast(t) ==
  /\ Running(1) /\ IsFloat(Nth(1)) /\ Nth(1).code.bw # t
  /\ Deliver(Rest(1), {FPCast(Nth(1).code, t)}, WasmFloatCast(t, Nth(1).wasm.word), TRUE)

NumberNext ==
  \/ Next /\ Room(operands', cell')
  \/ \E t \in FloatTypes : \E x \in Floats(t) : FloatConst(t, x)
  \/ \E op \in Comparisons \cup FloatArithmetics \cup Choices \cup {"COPYSIGN"} : FloatBinop(op)
  \/ \E op \in Roundings \cup {"NEG", "ABS"} : FloatUnop(op)
  \/ \E t \in FloatTypes, sign \in BOOLEAN : Convert(t, sign)
  \/ \E t \in Types, sign \in BOOLEAN : Trunc(t, sign)
  \/ \E t \in FloatTypes : FloatCast(t)

NumberSpec == Init /\ [][NumberNext]_vars

-----------------------------------------------------------------------------
(***************************************************************************)
(* Numbers are of the format of their type; the rest as in IntegerOps.     *)
(***************************************************************************)
NumbersTyped ==
  /\ TypeOK
  /\ \A k \in 1..Len(operands) :
       LET o == operands[k]
       IN IsFloat(o) => o.code.bw = o.wasm.type /\ o.code.word \in Floats(o.code.bw)
=============================================================================
