---------------------------- MODULE LLVMVerifier ---------------------------
(***************************************************************************)
(* llvm::verifyFunction, which WasmModule::Generate asserts of every       *)
(* function it has generated code for: what LLVM demands of the basic      *)
(* blocks, reduced to the rules the code generator could break.  External  *)
(* code, modelled from how the back end uses it.                           *)
(*                                                                         *)
(* A function body is a sequence of blocks, block 1 is the entry.  An      *)
(* instruction is a record with its opcode, its operands (args), the       *)
(* blocks it jumps to (to), for a phi the blocks its operands come from    *)
(* (from), and the expression it was generated for (by).                   *)
(***************************************************************************)
EXTENDS Naturals, Sequences

Terminators == {"br", "condbr", "switch", "ret", "retvoid"}

IsTerminator(i) == i.op \in Terminators

Succs(body, b) ==
  LET insts == body[b].insts
  IN IF insts = <<>> THEN {}
     ELSE {insts[Len(insts)].to[k] : k \in 1..Len(insts[Len(insts)].to)}

Preds(body, b) == {p \in 1..Len(body) : b \in Succs(body, p)}

(***************************************************************************)
(* The blocks control can reach from the entry without entering avoided.   *)
(***************************************************************************)
ReachableWithout(body, avoided) ==
  LET within[n \in 0..Len(body)] ==
        IF n = 0 THEN {1} \ {avoided}
        ELSE UNION {({b} \cup Succs(body, b)) \ {avoided} : b \in within[n - 1]}
  IN within[Len(body)]

(***************************************************************************)
(* A value may be used at the end of block b: it is a constant, or its     *)
(* block is b or dominates b.  Anything is allowed in unreachable code.    *)
(***************************************************************************)
Available(body, v, b) ==
  \/ v.at = 0
  \/ v.at = b
  \/ b \notin ReachableWithout(body, v.at)

EndsWithOneTerminator(body, b) ==
  LET insts == body[b].insts
  IN /\ insts # <<>>
     /\ IsTerminator(insts[Len(insts)])
     /\ \A i \in 1..(Len(insts) - 1) : ~IsTerminator(insts[i])

(***************************************************************************)
(* A phi has one entry for each predecessor and no other.                  *)
(***************************************************************************)
PhisMatchPreds(body, b) ==
  \A i \in 1..Len(body[b].insts) :
    body[b].insts[i].op = "phi" =>
      LET from == body[b].insts[i].from
      IN /\ {from[k] : k \in 1..Len(from)} = Preds(body, b)
         /\ \A j, k \in 1..Len(from) : from[j] = from[k] => j = k

UsesAreDominated(body, b) ==
  \A i \in 1..Len(body[b].insts) :
    LET inst == body[b].insts[i]
    IN \A k \in 1..Len(inst.args) :
         Available(body, inst.args[k], IF inst.op = "phi" THEN inst.from[k] ELSE b)

(***************************************************************************)
(* The selector of a switch has a first-class type, and that of the case   *)
(* values, which are 32 bits wide.                                         *)
(***************************************************************************)
SwitchTyped(body, b) ==
  \A i \in 1..Len(body[b].insts) :
    LET inst == body[b].insts[i]
    IN inst.op = "switch" =>
         \/ inst.args[1].ty = "i32"
         \/ inst.args[1].ty = "i1" /\ Len(inst.to) = 1

VerifyFunction(body) ==
  \A b \in 1..Len(body) :
    /\ EndsWithOneTerminator(body, b)
    /\ PhisMatchPreds(body, b)
    /\ SwitchTyped(body, b)
    /\ UsesAreDominated(body, b)
=============================================================================
