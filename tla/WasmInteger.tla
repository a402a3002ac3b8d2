----------------------------- MODULE WasmInteger -----------------------------
(***************************************************************************)
(* What WASM says of the integer operations: a word for words, or a trap.  *)
(* A comparison gives an i32, whatever it compares.                        *)
(***************************************************************************)
EXTENDS WordArithmetic

CONSTANTS INT_32, INT_64   \* the widths of the two types

ASSUME WidthsOrdered == INT_32 \in Nat /\ INT_64 \in Nat /\ 1 < INT_32 /\ INT_32 < INT_64

Types == {INT_32, INT_64}

Val(t, x) == [type |-> t, word |-> x]
Trap      == [trap |-> TRUE]

WasmBinop(op, sign, t, x, y) ==
  CASE op \in Comparisons -> Val(INT_32, Truth(Compared(op, x, y, t, sign)))
    [] op \in Arithmetic  -> Val(t, Combined(op, x, y, t))
    [] op \in Shifts      -> Val(t, Shifted(op, x, y % t, t, sign))
    [] op \in {"DIV", "REM"} /\ y = 0 -> Trap
    [] op = "DIV" /\ sign /\ x = Lowest(t) /\ y = MinusOne(t) -> Trap
    [] op = "DIV" /\ y # 0 /\ ~(sign /\ x = Lowest(t) /\ y = MinusOne(t)) ->
         Val(t, Divided(x, y, t, sign))
    [] op = "REM" /\ y # 0 -> Val(t, Remainder(x, y, t, sign))

WasmCount(op, t, x) == Val(t, Counted(op, x, t))

WasmExtend(x, sign) == Val(INT_64, Wrapped(Valued(x, INT_32, sign), INT_64))
WasmWrap(x)         == Val(INT_32, Wrapped(x, INT_32))

WasmSelect(c, v, w) == IF c # 0 THEN v ELSE w

WasmStored(x, size)        == Wrapped(x, size)
WasmLoaded(t, x, size, sign) == Val(t, Wrapped(Valued(x, size, sign), t))
=============================================================================
