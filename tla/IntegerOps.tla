----------------------------- MODULE IntegerOps -----------------------------
(***************************************************************************)
(* Integer expressions as the generated program computes them, beside what *)
(* WASM says they are.  A value is an LLVM integer of some width: that of  *)
(* its type, or 1 if it is a comparison, which stays an i1 until something *)
(* casts it.                                                               *)
(*                                                                         *)
(* The expression is any; its operands wait on a stack, as they do in the  *)
(* local variables of the Codegen methods.                                 *)
(***************************************************************************)
EXTENDS WasmInteger, Sequences

CONSTANTS
  Sizes,       \* the widths loads and stores can name, and 0 for one that names none
  MaxOperands  \* bound on the operands that wait

ASSUME SizesTyped == Sizes \subseteq 0..INT_64

VARIABLES
  operands,  \* [code, wasm]: what the program has computed, and what WASM says
  cell,      \* a place in memory, [code, wasm]
  status

vars == <<operands, cell, status>>

(***************************************************************************)
(* LLVM's values, and the outcome of an instruction without one.           *)
(***************************************************************************)
IntN(w, x) == [bw |-> w, word |-> x]
Undefined == [undefined |-> TRUE]

Operand(v, ref) == [code |-> v, wasm |-> ref]

(***************************************************************************)
(* size_ of a load or store: the size of the type if it names none.        *)
(***************************************************************************)
UpdateSize(t, size) == IF size = 0 THEN t ELSE size

Widths == {UpdateSize(t, size) : t \in Types, size \in Sizes}

Init ==
  /\ operands = <<>>
  /\ cell \in {Operand(IntN(w, 0), 0) : w \in Widths}
  /\ status = "running"

-----------------------------------------------------------------------------
(***************************************************************************)
(* Instructions of LLVM, as sets of outcomes.  A division by zero, or with *)
(* a quotient that does not fit, is undefined; a shift by the width or     *)
(* more gives any word.                                                    *)
(***************************************************************************)
Extended(v, w, sign) == IntN(w, Wrapped(Valued(v.word, v.bw, sign), w))
Truncated(v, w)      == IntN(w, Wrapped(v.word, w))

ReallyDivRem(l, r, div, sign) ==
  IF r.word = 0 \/ (sign /\ l.word = Lowest(l.bw) /\ r.word = MinusOne(l.bw))
  THEN {Undefined}
  ELSE {IntN(l.bw, IF div THEN Divided(l.word, r.word, l.bw, sign)
                         ELSE Remainder(l.word, r.word, l.bw, sign))}

Shift(op, l, r, sign) ==
  IF r.word >= l.bw THEN {IntN(l.bw, x) : x \in Word(l.bw)}
                    ELSE {IntN(l.bw, Shifted(op, l.word, r.word, l.bw, sign))}

-----------------------------------------------------------------------------
HandleInteger(op, sign, l, r) ==
  CASE op \in Comparisons -> {IntN(1, Truth(Compared(op, l.word, r.word, l.bw, sign)))}
    [] op \in Arithmetic  -> {IntN(l.bw, Combined(op, l.word, r.word, l.bw))}
    [] op \in Shifts      -> Shift(op, l, r, sign)

(***************************************************************************)
(* What takes the place of lowest / -1 and lowest % -1.                    *)
(***************************************************************************)
SpecialCase(w, div, sign) ==
  IntN(w, CASE div /\ sign   -> Highest(w)
           [] div /\ ~sign  -> 0
           [] ~div /\ sign  -> 0
           [] ~div /\ ~sign -> Lowest(w))

\* Mutated HandleDivRem: the operands are tested the other way round.
HandleDivRemSwapped(l, r, div, sign) ==
  IF l.word = MinusOne(l.bw) /\ r.word = Lowest(l.bw)
  THEN {SpecialCase(l.bw, div, sign)}
  ELSE ReallyDivRem(l, r, div, sign)

(***************************************************************************)
(* Two nested ifs; each division is on a side of its own, so it is only    *)
(* executed there.                                                         *)
(***************************************************************************)
HandleDivRem(l, r, div, sign) ==
  IF r.word = MinusOne(l.bw) /\ l.word = Lowest(l.bw)
  THEN {SpecialCase(l.bw, div, sign)}
  ELSE ReallyDivRem(l, r, div, sign)

\* Mutated HandleIntegerTypeCast: a value that is too wide is left as it is.
CastWithoutTrunc(v, src, dest, sign) ==
  IF src < dest THEN Extended(v, dest, sign) ELSE v

HandleIntegerTypeCast(v, src, dest, sign) ==
  CASE src < dest -> Extended(v, dest, sign)
    [] src = dest -> v
    [] src > dest -> Truncated(v, dest)

(***************************************************************************)
(* The second argument of the intrinsics for CLZ and CTZ makes them        *)
(* defined for zero.                                                       *)
(***************************************************************************)
Intrinsic(op, v) == IntN(v.bw, Counted(op, v.word, v.bw))

TransformCondition(v) == IF v.bw = 1 THEN v ELSE IntN(1, Truth(v.word # 0))

-----------------------------------------------------------------------------
(***************************************************************************)
(* Comparisons are used as numbers without being made i32.  These are the  *)
(* operations on two of them that make no difference.                      *)
(***************************************************************************)
SafeOnBooleans(op, sign) ==
  op \in {"EQ", "NE", "MUL", "AND", "OR", "XOR"} \/ (op \in Comparisons /\ ~sign)

IsBoolean(o) == o.code.bw = 1

IsInteger(o) == o.wasm.type \in Types

(***************************************************************************)
(* The end of a step: the result waits with the rest of the operands.      *)
(* After a trap, or outside of what the compiler gets right, there is      *)
(* nothing more to compare.                                                *)
(***************************************************************************)
Deliver(rest, outcomes, ref, safe) ==
  \E v \in outcomes :
    /\ operands' = IF v = Undefined \/ ref = Trap THEN rest ELSE Append(rest, Operand(v, ref))
    /\ status' = CASE v = Undefined /\ ref # Trap -> "undefined"
                   [] ref = Trap                  -> "trap"
                   [] v # Undefined /\ ref # Trap /\ safe  -> "running"
                   [] v # Undefined /\ ref # Trap /\ ~safe -> "apart"
    /\ UNCHANGED cell

Running(n) == status = "running" /\ Len(operands) >= n

Rest(n) == SubSeq(operands, 1, Len(operands) - n)
Nth(n)  == operands[Len(operands) + 1 - n]   \* counted from the top

Const(t, x) ==
  /\ Running(0) /\ Len(operands) < MaxOperands
  /\ Deliver(operands, {IntN(t, x)}, Val(t, x), TRUE)

(***************************************************************************)
(* The instructions want both operands of one type, and a division the     *)
(* type it names: otherwise the compiler stops.                            *)
(***************************************************************************)
Binop(op, sign) ==
  /\ Running(2) /\ IsInteger(Nth(2))
  /\ LET l == Nth(2)
         r == Nth(1)
         ref == WasmBinop(op, sign, l.wasm.type, l.wasm.word, r.wasm.word)
     IN /\ l.code.bw = r.code.bw
        /\ IF op \in {"DIV", "REM"}
           THEN /\ ~IsBoolean(l)
                /\ Deliver(Rest(2), HandleDivRem(l.code, r.code, op = "DIV", sign), ref, TRUE)
           ELSE Deliver(Rest(2), HandleInteger(op, sign, l.code, r.code), ref,
                        /\ IsBoolean(l) => SafeOnBooleans(op, sign)
                        /\ op \in Shifts => r.wasm.word < l.wasm.type)

Count(op) ==
  /\ Running(1) /\ IsInteger(Nth(1))
  /\ ~IsBoolean(Nth(1))
  /\ Deliver(Rest(1), {Intrinsic(op, Nth(1).code)},
             WasmCount(op, Nth(1).wasm.type, Nth(1).wasm.word), TRUE)

(***************************************************************************)
(* HandleTypeCasts is told the type it comes from: it takes an i1 for i32. *)
(***************************************************************************)
Extend(sign) ==
  /\ Running(1)
  /\ Nth(1).wasm.type = INT_32
  /\ Deliver(Rest(1), {HandleIntegerTypeCast(Nth(1).code, INT_32, INT_64, sign)},
             WasmExtend(Nth(1).wasm.word, sign), ~(sign /\ IsBoolean(Nth(1))))

Wrap ==
  /\ Running(1)
  /\ Nth(1).wasm.type = INT_64
  /\ Deliver(Rest(1), {HandleIntegerTypeCast(Nth(1).code, INT_64, INT_32, FALSE)},
             WasmWrap(Nth(1).wasm.word), TRUE)

Select ==
  /\ Running(3)
  /\ Nth(2).code.bw = Nth(1).code.bw
  /\ Nth(3).wasm.type = INT_32
  /\ Deliver(Rest(3),
             {IF TransformCondition(Nth(3).code).word = 1 THEN Nth(2).code ELSE Nth(1).code},
             WasmSelect(Nth(3).wasm.word, Nth(2).wasm, Nth(1).wasm), TRUE)

(***************************************************************************)
(* The value goes through the result of a function.                        *)
(***************************************************************************)
HandleReturn ==
  /\ Running(1) /\ IsInteger(Nth(1))
  /\ LET v == Nth(1)
     IN Deliver(Rest(1), {HandleIntegerTypeCast(v.code, v.code.bw, v.wasm.type, FALSE)},
                v.wasm, TRUE)

(***************************************************************************)
(* A store returns the value as it was; a load reads what was stored with  *)
(* its width.                                                              *)
(***************************************************************************)
Store(given, sign) ==
  /\ Running(1) /\ IsInteger(Nth(1))
  /\ LET size == UpdateSize(Nth(1).wasm.type, given)
     IN /\ size <= Nth(1).wasm.type
        /\ cell' = Operand(HandleIntegerTypeCast(Nth(1).code, Nth(1).code.bw, size, sign),
                           WasmStored(Nth(1).wasm.word, size))
  /\ status' = IF sign /\ IsBoolean(Nth(1)) THEN "apart" ELSE "running"
  /\ UNCHANGED operands

Load(t, given, sign) ==
  /\ Running(0) /\ Len(operands) < MaxOperands
  /\ LET size == UpdateSize(t, given)
     IN /\ size <= t /\ size = cell.code.bw
        /\ Deliver(operands, {HandleIntegerTypeCast(cell.code, size, t, sign)},
                   WasmLoaded(t, cell.wasm, size, sign), TRUE)

Terminated == status # "running" /\ UNCHANGED vars

Next ==
  \/ \E t \in Types : \E x \in Word(t) : Const(t, x)
  \/ \E op \in Comparisons \cup Arithmetic \cup Shifts \cup {"DIV", "REM"}, sign \in BOOLEAN :
       Binop(op, sign)
  \/ \E op \in Counts : Count(op)
  \/ \E sign \in BOOLEAN : Extend(sign)
  \/ Wrap \/ Select \/ HandleReturn
  \/ \E given \in Sizes, sign \in BOOLEAN : Store(given, sign)
  \/ \E t \in Types, given \in Sizes, sign \in BOOLEAN : Load(t, given, sign)
  \/ Terminated

Spec == Init /\ [][Next]_vars

-----------------------------------------------------------------------------
(***************************************************************************)
(* Each value has the machine type of its type in WASM, or is an i1 in the *)
(* place of an i32; memory holds the width that was stored.  Operands that *)
(* are no integers have the same type on both sides.                       *)
(***************************************************************************)
TypeOK ==
  /\ \A k \in 1..Len(operands) :
       LET v == operands[k].code
           o == operands[k].wasm
       IN /\ v.bw = o.type \/ (v.bw = 1 /\ o.type = INT_32)
          /\ IsInteger(operands[k]) => v.word \in Word(v.bw) /\ o.word \in Word(o.type)
  /\ cell.code.bw \in Widths /\ cell.code.word \in Word(cell.code.bw)
  /\ status \in {"running", "trap", "undefined", "apart"}

(***************************************************************************)
(* The values a program computes are those of WASM, through any expression *)
(* of divisions, casts, comparisons, conditions, stores and loads, as long *)
(* as comparisons are not used as signed numbers or summands and shifts    *)
(* stay below the width.                                                   *)
(***************************************************************************)
ValuesAgree ==
  status = "running" =>
    /\ \A k \in 1..Len(operands) : operands[k].code.word = operands[k].wasm.word
    /\ cell.code.word = cell.wasm

(***************************************************************************)
(* No instruction is undefined unless WASM traps: HandleDivRem goes around *)
(* the one quotient that does not fit, whose remainder is 0.               *)
(***************************************************************************)
UndefinedTraps == status # "undefined"
=============================================================================
