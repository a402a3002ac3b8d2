---------------------------- MODULE ExprCodegen ----------------------------
(***************************************************************************)
(* Code generation for one function: WasmFunction::Generate and the        *)
(* Codegen methods of the expression classes.  They recurse over the       *)
(* expression tree and share the builder's insertion point, the label      *)
(* stack of the function and the incoming_phis_ of the named expressions;  *)
(* what a method does before, between and after its operands is one action *)
(* each, and the recursion is an explicit stack of frames.                 *)
(*                                                                         *)
(* The operations with one operand, loads, stores, calls of imports and    *)
(* the operators that become a call of an intrinsic are generated like     *)
(* GenBinop and GenCall, and are not part of this module.                  *)
(***************************************************************************)
EXTENDS UnreachablePass, LLVMVerifier

VARIABLES
  ast,      \* the nodes of the function, with what passes and codegen wrote in them
  body,     \* the basic blocks created so far, and which expression they exit from
  cur,      \* IRBuilder::GetInsertBlock
  labels,   \* WasmFunction::labels_
  mapped,   \* WasmFunction::mapped_labels_, 0 where there is no entry
  stack,    \* the active Codegen calls, outermost first
  status

vars == <<ast, body, cur, labels, mapped, stack, status>>

(***************************************************************************)
(* A frame: the node being generated, the values its operands returned so  *)
(* far, the blocks its method holds in local variables, and the length of  *)
(* labels_ when the method was entered.  The last one is not in the code;  *)
(* it is there to say what a method leaves on labels_.                     *)
(***************************************************************************)
Frame(n, base) == [n |-> n, vals |-> <<>>, bbs |-> <<>>, base |-> base]

Inst(op, args, to, from) ==
  [op |-> op, args |-> args, to |-> to, from |-> from, by |-> stack[Len(stack)].n]

Plain(args)        == Inst("inst", args, <<>>, <<>>)
Jump(b)            == Inst("br", <<>>, <<b>>, <<>>)
CondJump(v, t, f)  == Inst("condbr", <<v>>, <<t, f>>, <<>>)

NewBlock(owner) == [owner |-> owner, insts |-> <<>>]

Emit(bs, b, i) == [bs EXCEPT ![b].insts = Append(@, i)]

Init ==
  /\ IsParsed(ast)
  /\ body = <<NewBlock(0)>>
  /\ cur = 1
  /\ labels = <<>>
  /\ mapped = [l \in LabelNames |-> 0]
  /\ stack = <<Frame(1, 0)>>
  /\ status = "parsed"

-----------------------------------------------------------------------------
(***************************************************************************)
(* The active method.                                                      *)
(***************************************************************************)
Top    == stack[Len(stack)]
Node   == ast[Top.n]
Done   == Len(Top.vals)                 \* operands generated so far
Last   == IF Done = 0 THEN Null ELSE Top.vals[Done]
LastOp == ast[Node.kids[Done]].op       \* the class of the last operand

Running(ops) == status = "running" /\ Node.op \in ops

(***************************************************************************)
(* Call Codegen on operand k, after the active method has stored bbs; or   *)
(* return v to the method below.                                           *)
(***************************************************************************)
DescendFrom(k, bbs, base) ==
  stack' = Append([stack EXCEPT ![Len(stack)].bbs = bbs], Frame(Node.kids[k], base))

Descend(k, bbs) == DescendFrom(k, bbs, Len(labels))

Enter(bbs) == stack' = [stack EXCEPT ![Len(stack)].bbs = bbs]

Return(v) ==
  LET below == SubSeq(stack, 1, Len(stack) - 1)
  IN stack' = [below EXCEPT ![Len(below)].vals = Append(@, v)]

(***************************************************************************)
(* An assertion of the compiler or of LLVM fails, or nullptr is            *)
(* dereferenced: the compiler stops.                                       *)
(***************************************************************************)
Crash == status' = "crashed" /\ UNCHANGED <<ast, body, cur, labels, mapped, stack>>

Continue == status' = status

PushLabel(name, b) ==
  /\ labels' = Append(labels, b)
  /\ mapped' = [mapped EXCEPT ![name] = b]

PopLabels(n) ==
  /\ labels' = SubSeq(labels, 1, Len(labels) - n)
  /\ UNCHANGED mapped

\* Mutated GetLabel: counts the labels from the outermost one.
GetLabelFromFirst(node) ==
  IF node.name # NoName THEN mapped[node.name]
  ELSE IF node.depth < Len(labels) THEN labels[node.depth + 1]
  ELSE 0

(***************************************************************************)
(* WasmFunction::GetLabel of the target of a break, 0 for nullptr.  The    *)
(* map answers for every name that was ever pushed.  The search among the  *)
(* names of the blocks of labels_ comes after it, and is left out: blocks  *)
(* have the names they are pushed under, unless LLVM renamed them, so it   *)
(* can only find one for a name that no label of the function has, which   *)
(* is no valid break.                                                      *)
(***************************************************************************)
GetLabel(node) ==
  IF node.name # NoName THEN mapped[node.name]
  ELSE IF node.depth < Len(labels) THEN labels[Len(labels) - node.depth]
  ELSE 0

\* Mutated AddIncomingPhi: an expression that has a value keeps it.
AddIncomingPhiOnce(nodes, n, v, b) ==
  IF n = 0 \/ v.ty \in {"null", "term"} \/ nodes[n].incoming # <<>> THEN nodes
  ELSE [nodes EXCEPT ![n].incoming = Append(@, [val |-> v, from |-> b])]

(***************************************************************************)
(* AddIncomingPhi: named expression n receives v from block b, unless v is *)
(* nullptr or a terminator.  n is 0 when FindNamedExpression found none.   *)
(***************************************************************************)
AddIncomingPhi(nodes, n, v, b) ==
  IF n = 0 \/ v.ty \in {"null", "term"} THEN nodes
  ELSE [nodes EXCEPT ![n].incoming = Append(@, [val |-> v, from |-> b])]

(***************************************************************************)
(* HandlePhiNodes in exit block b: what named expression n has for value,  *)
(* the blocks after it, and whether LLVM accepts the phi.  A phi takes the *)
(* type of the first entry, and a void one cannot be named.                *)
(***************************************************************************)
PhiOk(in) ==
  Len(in) > 1 => /\ in[1].val.ty # "void"
                 /\ \A i \in 1..Len(in) : in[i].val.ty = in[1].val.ty

\* Mutated PhiValue: a single incoming value is forgotten.
PhiValueOnlyMerged(in, b) ==
  IF Len(in) > 1 THEN [ty |-> in[1].val.ty, at |-> b] ELSE Null

PhiValue(in, b) ==
  CASE Len(in) = 0 -> Null
    [] Len(in) = 1 -> in[1].val
    [] OTHER       -> [ty |-> in[1].val.ty, at |-> b]

PhiInst(in) ==
  Inst("phi", [i \in 1..Len(in) |-> in[i].val], <<>>, [i \in 1..Len(in) |-> in[i].from])

EmitPhi(bs, b, in) == IF Len(in) > 1 THEN Emit(bs, b, PhiInst(in)) ELSE bs

(***************************************************************************)
(* TransformCondition and CreateCondBr need a value of a machine type.     *)
(***************************************************************************)
IsMachine(v) == v.ty \in {"i32", "i1"}

-----------------------------------------------------------------------------
\* Mutated RunPasses: repeated as long as the pass finds an if to mark.
RunPassesUntilClean ==
  /\ status = "parsed"
  /\ ast' = RunUnreachablePass(ast)
  /\ status' = IF ShouldNotMerge(ast) = {} THEN "running" ELSE "parsed"
  /\ UNCHANGED <<body, cur, labels, mapped, stack>>

(***************************************************************************)
(* PassDriver::Drive runs before any code is generated.                    *)
(***************************************************************************)
RunPasses ==
  /\ status = "parsed"
  /\ ast' = RunUnreachablePass(ast)
  /\ status' = "running"
  /\ UNCHANGED <<body, cur, labels, mapped, stack>>

(***************************************************************************)
(* The methods that generate their operands one after the other.  A method *)
(* that first creates blocks or looks a label up has entered when it holds *)
(* them.  A block stops after a return or a break, the function after a    *)
(* return, and a select after an operand that is an unreachable.           *)
(***************************************************************************)
Sequential == {"func", "set_local", "call", "bin", "cmp", "select", "return",
               "label", "loop", "block", "br", "br_if", "case"}

Entered == Node.op \in {"label", "loop", "block", "br", "br_if", "switch"} => Top.bbs # <<>>

Stopped ==
  /\ Done > 0
  /\ \/ Node.op = "block"  /\ LastOp \in {"return", "br"}
     \/ Node.op = "func"   /\ LastOp = "return"
     \/ Node.op = "select" /\ LastOp = "unreachable"

OperandsDone == Entered /\ (Done = Len(Node.kids) \/ Stopped)

NextOperand ==
  /\ Running(Sequential)
  /\ Entered /\ ~OperandsDone
  /\ Descend(Done + 1, Top.bbs)
  /\ Continue
  /\ UNCHANGED <<ast, body, cur, labels, mapped>>

-----------------------------------------------------------------------------
(***************************************************************************)
(* Expressions without operands.  nop generates nothing and an i32.const   *)
(* nothing but the constant.                                               *)
(***************************************************************************)
GenConst ==
  /\ Running({"const", "nop"})
  /\ Return(IF Node.op = "const" THEN Const ELSE Null)
  /\ Continue
  /\ UNCHANGED <<ast, body, cur, labels, mapped>>

(***************************************************************************)
(* Replace the active method by the value of the instruction it emits.     *)
(***************************************************************************)
ReturnInst(args, ty) ==
  /\ body' = Emit(body, cur, Plain(args))
  /\ Return([ty |-> ty, at |-> cur])
  /\ Continue
  /\ UNCHANGED <<ast, cur, labels, mapped>>

GenGetLocal    == Running({"get_local"})   /\ ReturnInst(<<>>, "i32")
GenUnreachable == Running({"unreachable"}) /\ ReturnInst(<<>>, "void")

(***************************************************************************)
(* A store returns the value that was stored.  It asserts that there is    *)
(* one, and LLVM that it has the type of the local.                        *)
(***************************************************************************)
GenSetLocal ==
  /\ Running({"set_local"}) /\ OperandsDone
  /\ IF Last.ty = "i32"
     THEN /\ body' = Emit(body, cur, Plain(<<Last>>))
          /\ Return(Last)
          /\ Continue
          /\ UNCHANGED <<ast, cur, labels, mapped>>
     ELSE Crash

GenCall ==
  /\ Running({"call"}) /\ OperandsDone
  /\ IF \A i \in 1..Done : Top.vals[i].ty = "i32"
     THEN ReturnInst(Top.vals, Node.ty)
     ELSE Crash

(***************************************************************************)
(* Binop::Codegen and ReallyDivRem::Codegen: no value if an operand has    *)
(* none; otherwise both have one machine type.                             *)
(***************************************************************************)
GenBinop ==
  /\ Running({"bin", "cmp"}) /\ OperandsDone
  /\ LET lv == Top.vals[1]
         rv == Top.vals[2]
     IN IF Null \in {lv, rv}
        THEN Return(Null) /\ Continue /\ UNCHANGED <<ast, body, cur, labels, mapped>>
        ELSE IF lv.ty = rv.ty /\ IsMachine(lv)
        THEN ReturnInst(<<lv, rv>>, IF Node.op = "cmp" THEN "i1" ELSE lv.ty)
        ELSE Crash

(***************************************************************************)
(* Binop::HandleDivRem builds, around the operands l and r, the tree       *)
(*   if r == -1 then (if l == min then constant else l op r) else l op r   *)
(* and generates it in place of the operation.                             *)
(***************************************************************************)
NewNode(op, kids) ==
  [op |-> op, kids |-> kids, name |-> NoName, exit |-> NoName, depth |-> 0,
   ty |-> "i32", merge |-> TRUE, incoming |-> <<>>,
   cases |-> 0, table |-> <<>>, renamed |-> FALSE]

HandleDivRem ==
  /\ Running({"divrem"})
  /\ LET l == Node.kids[1]
         r == Node.kids[2]
         m == Len(ast)
     IN /\ ast' = ast \o << NewNode("const", <<>>),
                            NewNode("cmp", <<l, m + 1>>),
                            NewNode("const", <<>>),
                            NewNode("bin", <<l, r>>),
                            NewNode("if", <<m + 2, m + 3, m + 4>>),
                            NewNode("const", <<>>),
                            NewNode("cmp", <<r, m + 6>>),
                            NewNode("bin", <<l, r>>),
                            NewNode("if", <<m + 7, m + 5, m + 8>>) >>
        /\ stack' = [stack EXCEPT ![Len(stack)].n = m + 9]
  /\ Continue
  /\ UNCHANGED <<body, cur, labels, mapped>>

(***************************************************************************)
(* SelectExpression: an operand that is an unreachable ends it with the    *)
(* value of the trap call.                                                 *)
(***************************************************************************)
GenSelect ==
  /\ Running({"select"}) /\ OperandsDone
  /\ IF Stopped
     THEN Return(Last) /\ Continue /\ UNCHANGED <<ast, body, cur, labels, mapped>>
     ELSE IF IsMachine(Top.vals[1]) /\ IsMachine(Top.vals[2])
             /\ Top.vals[2].ty = Top.vals[3].ty
     THEN ReturnInst(Top.vals, Top.vals[2].ty)
     ELSE Crash

-----------------------------------------------------------------------------
(***************************************************************************)
(* IfExpression::Codegen.  The condition; then the blocks of the true      *)
(* side, the false side and the end, kept in this order.                   *)
(***************************************************************************)
IfCondition ==
  /\ Running({"if"}) /\ Done = 0
  /\ Descend(1, <<>>)
  /\ Continue
  /\ UNCHANGED <<ast, body, cur, labels, mapped>>

IfTrueSide ==
  /\ Running({"if"}) /\ Done = 1
  /\ IF IsMachine(Last)
     THEN LET t == Len(body) + 1
          IN /\ body' = Emit(body, cur, CondJump(Last, t, t + 1))
                           \o <<NewBlock(0), NewBlock(0), NewBlock(0)>>
             /\ cur' = t
             /\ Descend(2, <<t, t + 1, t + 2>>)
             /\ Continue
             /\ UNCHANGED <<ast, labels, mapped>>
     ELSE Crash

(***************************************************************************)
(* The true side jumps to the end unless its value is a terminator, and    *)
(* the block it ended in is remembered.  Without an else side the value of *)
(* the false side is nullptr.                                              *)
(***************************************************************************)
IfFalseSide ==
  /\ Running({"if"}) /\ Done = 2
  /\ LET bbs == <<cur, Top.bbs[2], Top.bbs[3]>>
     IN /\ body' = IF IsTerm(Last) THEN body ELSE Emit(body, cur, Jump(bbs[3]))
        /\ cur' = bbs[2]
        /\ IF Len(Node.kids) = 3
           THEN Descend(3, bbs)
           ELSE stack' = [stack EXCEPT ![Len(stack)].bbs = bbs,
                                       ![Len(stack)].vals = Append(@, Null)]
  /\ Continue
  /\ UNCHANGED <<ast, labels, mapped>>

(***************************************************************************)
(* The false side always jumps to the end.  The values of both sides merge *)
(* in a phi of the end block; with one value only, or when the pass said   *)
(* not to merge, that value is the result.                                 *)
(***************************************************************************)
IfMerge ==
  /\ Running({"if"}) /\ Done = 3
  /\ LET tv     == Top.vals[2]
         fv     == Top.vals[3]
         end    == Top.bbs[3]
         jumped == Emit(body, cur, Jump(end))
         phi    == Inst("phi", <<tv, fv>>, <<>>, <<Top.bbs[1], cur>>)
         merges == tv.ty \notin {"null", "term"} /\ fv # Null /\ Node.merge
     IN IF merges /\ ~(IsMachine(tv) /\ tv.ty = fv.ty)
        THEN Crash
        ELSE /\ body' = IF merges THEN Emit(jumped, end, phi) ELSE jumped
             /\ cur' = end
             /\ Return(CASE tv.ty \in {"null", "term"} -> fv
                         [] merges                     -> [ty |-> tv.ty, at |-> end]
                         [] OTHER                      -> tv)
             /\ Continue
             /\ UNCHANGED <<ast, labels, mapped>>

-----------------------------------------------------------------------------
(***************************************************************************)
(* The end of a named expression n with exit block x: add v, if any, as an *)
(* incoming value, continue in x with the merged value, and drop the       *)
(* labels of the expression.  jumps says whether control goes on from here *)
(* to x.                                                                   *)
(***************************************************************************)
LeaveTo(x, v, jumps, pops) ==
  LET nodes  == AddIncomingPhi(ast, Top.n, v, cur)
      in     == nodes[Top.n].incoming
      jumped == IF jumps THEN Emit(body, cur, Jump(x)) ELSE body
  IN IF PhiOk(in)
     THEN /\ ast' = nodes
          /\ body' = EmitPhi(jumped, x, in)
          /\ cur' = x
          /\ Return(PhiValue(in, x))
          /\ PopLabels(pops)
          /\ Continue
     ELSE Crash

(***************************************************************************)
(* LabelExpression: one exit block, reached by a jump after the operand    *)
(* whatever the operand ended with.                                        *)
(***************************************************************************)
LabelEnter ==
  /\ Running({"label"}) /\ ~Entered
  /\ body' = Append(body, NewBlock(Top.n))
  /\ PushLabel(Node.name, Len(body) + 1)
  /\ Enter(<<Len(body) + 1>>)
  /\ Continue
  /\ UNCHANGED <<ast, cur>>

LabelExit ==
  /\ Running({"label"}) /\ OperandsDone
  /\ LeaveTo(Top.bbs[1], Last, TRUE, 1)

\* Mutated LoopEnter: the exit block is left for later.
LoopEnterWithoutExit ==
  /\ Running({"loop"}) /\ ~Entered
  /\ LET head == Len(body) + 1
         x    == Len(body) + 2
     IN /\ body' = Append(Emit(body, cur, Jump(head)), NewBlock(0))
        /\ labels' = labels \o <<x, head>>
        /\ mapped' = [mapped EXCEPT ![Node.exit] = x, ![Node.name] = head]
        /\ cur' = head
        /\ Enter(<<head, x>>)
  /\ Continue
  /\ UNCHANGED ast

(***************************************************************************)
(* LoopExpression: the loop block and the exit block; the label of the     *)
(* exit is pushed first, so that index 0 is the loop.  Only a last         *)
(* expression with a value leaves the loop.                                *)
(***************************************************************************)
LoopEnter ==
  /\ Running({"loop"}) /\ ~Entered
  /\ LET head == Len(body) + 1
         x    == Len(body) + 2
     IN /\ body' = Emit(body, cur, Jump(head)) \o <<NewBlock(0), NewBlock(Top.n)>>
        /\ labels' = labels \o <<x, head>>
        /\ mapped' = [mapped EXCEPT ![Node.exit] = x, ![Node.name] = head]
        /\ cur' = head
        /\ Enter(<<head, x>>)
  /\ Continue
  /\ UNCHANGED ast

\* Mutated LoopExit: one of the two labels stays.
LoopExitPopsOne ==
  /\ Running({"loop"}) /\ OperandsDone
  /\ LeaveTo(Top.bbs[2], Last, Last.ty \notin {"null", "term"}, 1)

LoopExit ==
  /\ Running({"loop"}) /\ OperandsDone
  /\ LeaveTo(Top.bbs[2], Last, Last.ty \notin {"null", "term"}, 2)

(***************************************************************************)
(* BlockExpression: the code of the block, and its exit block.             *)
(***************************************************************************)
BlockEnter ==
  /\ Running({"block"}) /\ ~Entered
  /\ LET code == Len(body) + 1
         x    == Len(body) + 2
     IN /\ body' = Emit(body, cur, Jump(code)) \o <<NewBlock(0), NewBlock(Top.n)>>
        /\ PushLabel(Node.name, x)
        /\ cur' = code
        /\ Enter(<<code, x>>)
  /\ Continue
  /\ UNCHANGED ast

BlockExit ==
  /\ Running({"block"}) /\ OperandsDone
  /\ LeaveTo(Top.bbs[2], Last, ~Stopped, 1)

-----------------------------------------------------------------------------
(***************************************************************************)
(* SwitchExpression::Codegen.  It holds the block it was called in, its    *)
(* exit block, and for each operand the block that stands for it in the    *)
(* table: for a case, and for a break of the table, the one the builder is *)
(* in when the operand has been generated.                                 *)
(***************************************************************************)
Recorded == IF Len(Top.bbs) < Done + 2 THEN Append(Top.bbs, cur) ELSE Top.bbs

SwitchEnter ==
  /\ Running({"switch"}) /\ ~Entered
  /\ body' = Append(body, NewBlock(Top.n))
  /\ PushLabel(Node.name, Len(body) + 1)
  /\ Enter(<<cur, Len(body) + 1>>)
  /\ Continue
  /\ UNCHANGED <<ast, cur>>

(***************************************************************************)
(* The beginning of CaseExpression::Codegen for the next case: control     *)
(* falls through from the case before, unless its value is a terminator.   *)
(***************************************************************************)
SwitchCase ==
  /\ Running({"switch"}) /\ Entered /\ Done < Node.cases
  /\ body' = Append(IF Done = 0 \/ IsTerm(Last) THEN body
                    ELSE Emit(body, cur, Jump(Len(body) + 1)), NewBlock(0))
  /\ cur' = Len(body) + 1
  /\ Descend(Done + 1, Recorded)
  /\ Continue
  /\ UNCHANGED <<ast, labels, mapped>>

GenCase ==
  /\ Running({"case"}) /\ OperandsDone
  /\ Return(Last)
  /\ Continue
  /\ UNCHANGED <<ast, body, cur, labels, mapped>>

(***************************************************************************)
(* Control falls out of the last case.                                     *)
(***************************************************************************)
FellOut == Node.cases > 0 => Len(Top.bbs) >= Node.cases + 2

SwitchFallOut ==
  /\ Running({"switch"}) /\ Entered /\ Done = Node.cases /\ ~FellOut
  /\ ast' = AddIncomingPhi(ast, Top.n, Last, cur)
  /\ body' = IF IsTerm(Last) THEN body ELSE Emit(body, cur, Jump(Top.bbs[2]))
  /\ Enter(Recorded)
  /\ Continue
  /\ UNCHANGED <<cur, labels, mapped>>

(***************************************************************************)
(* HandleExpressionCase and HandleDefault: a break of the table or of the  *)
(* default gets a block of its own.  The default is entered at this block. *)
(* A break that an earlier generation of the same switch has replaced in   *)
(* the table is not generated again.                                       *)
(***************************************************************************)
Default == Node.table[Len(Node.table)]

AtBreak ==
  /\ Running({"switch"}) /\ Entered /\ FellOut
  /\ Done >= Node.cases /\ Done + 1 < Len(Node.kids)

SwitchBreak ==
  /\ AtBreak
  /\ ~Node.renamed \/ Default = Done + 1
  /\ body' = Append(body, NewBlock(0))
  /\ cur' = Len(body) + 1
  /\ Descend(Done + 1, IF Default = Done + 1 THEN Append(Recorded, Len(body) + 1) ELSE Recorded)
  /\ Continue
  /\ UNCHANGED <<ast, labels, mapped>>

SwitchRenamed ==
  /\ AtBreak
  /\ Node.renamed /\ Default # Done + 1
  /\ stack' = [stack EXCEPT ![Len(stack)].bbs = Append(Recorded, cur),
                            ![Len(stack)].vals = Append(@, Null)]
  /\ Continue
  /\ UNCHANGED <<ast, body, cur, labels, mapped>>

(***************************************************************************)
(* The selector is generated last, where the switch was called, when the   *)
(* label of the switch is gone.  default_block must exist.                 *)
(***************************************************************************)
SwitchSelector ==
  /\ Running({"switch"}) /\ Entered /\ FellOut /\ Done + 1 = Len(Node.kids)
  /\ IF Default = 0
     THEN Crash
     ELSE /\ PopLabels(1)
          /\ cur' = Top.bbs[1]
          /\ DescendFrom(Done + 1, Append(Recorded, Recorded[Default + 2]), Len(labels'))
          /\ Continue
          /\ UNCHANGED <<ast, body>>

(***************************************************************************)
(* The blocks for the values 0, 1, ... of the selector: those of the       *)
(* table, and without a table those of the cases in order; then a case     *)
(* whose last block is still open is linked to the next one.               *)
(***************************************************************************)
TableEntries == SubSeq(Node.table, 1, Len(Node.table) - 1)

Unresolved ==
  \E i \in 1..Len(TableEntries) :
    TableEntries[i] = 0 \/ (Node.renamed /\ TableEntries[i] > Node.cases)

SwitchBlocks ==
  IF TableEntries = <<>> THEN [k \in 1..Node.cases |-> Top.bbs[k + 2]]
  ELSE [i \in 1..Len(TableEntries) |-> Top.bbs[TableEntries[i] + 2]]

LinkCases(b) ==
  LET open == {k \in 1..(Node.cases - 1) :
                 /\ TableEntries = <<>> /\ Top.bbs[k + 2] = b
                 /\ LET insts == body[b].insts
                    IN insts = <<>> \/ ~IsTerminator(insts[Len(insts)])}
  IN IF open = {} THEN body[b]
     ELSE [owner |-> body[b].owner,
           insts |-> Append(body[b].insts, Jump(Top.bbs[(CHOOSE k \in open : TRUE) + 3]))]

\* Mutated SwitchExit: the default is taken for the value 0.
SwitchExitDefaultFirst ==
  /\ Running({"switch"}) /\ Entered /\ Done = Len(Node.kids)
  /\ LET x       == Top.bbs[2]
         default == Top.bbs[Len(Top.bbs)]
         linked  == [b \in 1..Len(body) |-> LinkCases(b)]
         switch  == Inst("switch", <<Last>>, Append(SwitchBlocks, default), <<>>)
     IN IF Last = Null \/ Unresolved \/ ~PhiOk(Node.incoming)
        THEN Crash
        ELSE /\ body' = EmitPhi(Emit(linked, cur, switch), x, Node.incoming)
             /\ ast' = [ast EXCEPT ![Top.n].renamed = TRUE]
             /\ cur' = x
             /\ Return(PhiValue(Node.incoming, x))
             /\ Continue
             /\ UNCHANGED <<labels, mapped>>

(***************************************************************************)
(* CreateSwitch where the selector ended, and HandlePhiNodes in the exit   *)
(* block.                                                                  *)
(***************************************************************************)
SwitchExit ==
  /\ Running({"switch"}) /\ Entered /\ Done = Len(Node.kids)
  /\ LET x       == Top.bbs[2]
         default == Top.bbs[Len(Top.bbs)]
         linked  == [b \in 1..Len(body) |-> LinkCases(b)]
         switch  == Inst("switch", <<Last>>, <<default>> \o SwitchBlocks, <<>>)
     IN IF Last = Null \/ Unresolved \/ ~PhiOk(Node.incoming)
        THEN Crash
        ELSE /\ body' = EmitPhi(Emit(linked, cur, switch), x, Node.incoming)
             /\ ast' = [ast EXCEPT ![Top.n].renamed = TRUE]
             /\ cur' = x
             /\ Return(PhiValue(Node.incoming, x))
             /\ Continue
             /\ UNCHANGED <<labels, mapped>>

-----------------------------------------------------------------------------
(***************************************************************************)
(* BreakExpression and BreakIfExpression look their target up before they  *)
(* generate anything, and assert that there is one.                        *)
(***************************************************************************)
BreakTarget ==
  /\ Running({"br", "br_if"}) /\ ~Entered
  /\ IF GetLabel(Node) = 0
     THEN Crash
     ELSE /\ Enter(<<GetLabel(Node)>>)
          /\ Continue
          /\ UNCHANGED <<ast, body, cur, labels, mapped>>

(***************************************************************************)
(* The value goes to the named expression whose exit block is the target,  *)
(* if the target is one: a break to the head of a loop drops the value.    *)
(***************************************************************************)
GenBreak ==
  /\ Running({"br"}) /\ OperandsDone
  /\ LET target == Top.bbs[1]
     IN /\ ast' = AddIncomingPhi(ast, body[target].owner, Last, cur)
        /\ body' = Emit(body, cur, Jump(target))
  /\ Return([ty |-> "term", at |-> cur])
  /\ Continue
  /\ UNCHANGED <<cur, labels, mapped>>

(***************************************************************************)
(* The last operand is the condition, an operand before it is the value.   *)
(* The jump to the target is in a block of its own, and code continues in  *)
(* another one.                                                            *)
(***************************************************************************)
GenBreakIf ==
  /\ Running({"br_if"}) /\ OperandsDone
  /\ IF IsMachine(Last)
     THEN LET target == Top.bbs[1]
              t      == Len(body) + 1
              v      == IF Done = 2 THEN Top.vals[1] ELSE Null
          IN /\ ast' = AddIncomingPhi(ast, body[target].owner, v, t)
             /\ body' = Emit(Emit(body, cur, CondJump(Last, t, t + 1))
                                \o <<NewBlock(0), NewBlock(0)>>,
                             t, Jump(target))
             /\ cur' = t + 1
             /\ Return(Null)
             /\ Continue
             /\ UNCHANGED <<labels, mapped>>
     ELSE Crash

(***************************************************************************)
(* WasmFunction::HandleReturn: a value of LLVM type void is replaced by 0, *)
(* and no value can be cast to the type of a function without result.      *)
(***************************************************************************)
EmitReturn(v) ==
  Emit(body, cur, Inst("ret", <<IF IsMachine(v) THEN v ELSE Const>>, <<>>, <<>>))

GenReturn ==
  /\ Running({"return"}) /\ OperandsDone
  /\ IF Last = Null \/ ast[1].ty = "void"
     THEN Crash
     ELSE /\ body' = EmitReturn(Last)
          /\ Return([ty |-> "term", at |-> cur])
          /\ Continue
          /\ UNCHANGED <<ast, cur, labels, mapped>>

(***************************************************************************)
(* The end of WasmFunction::Generate.  With a result, the last value is    *)
(* returned, unless the last expression was a return or had no value;      *)
(* without one, a ret void closes the last block.                          *)
(***************************************************************************)
FunctionEnd ==
  /\ Running({"func"}) /\ OperandsDone
  /\ body' = IF Node.ty = "void"
             THEN Emit(body, cur, Inst("retvoid", <<>>, <<>>, <<>>))
             ELSE IF Stopped \/ Last = Null THEN body
             ELSE EmitReturn(Last)
  /\ status' = "generated"
  /\ UNCHANGED <<ast, cur, labels, mapped, stack>>

(***************************************************************************)
(* WasmModule::Generate asserts that the function verifies.                *)
(***************************************************************************)
Verify ==
  /\ status = "generated"
  /\ status' = IF VerifyFunction(body) THEN "verified" ELSE "rejected"
  /\ UNCHANGED <<ast, body, cur, labels, mapped, stack>>

Terminated ==
  /\ status \in {"verified", "rejected", "crashed"}
  /\ UNCHANGED vars

Step ==
  \/ RunPasses \/ NextOperand
  \/ GenConst \/ GenGetLocal \/ GenUnreachable \/ GenSetLocal \/ GenCall \/ GenBinop
  \/ HandleDivRem \/ GenSelect
  \/ IfCondition \/ IfTrueSide \/ IfFalseSide \/ IfMerge
  \/ LabelEnter \/ LabelExit \/ LoopEnter \/ LoopExit \/ BlockEnter \/ BlockExit
  \/ SwitchEnter \/ SwitchCase \/ GenCase \/ SwitchFallOut \/ SwitchBreak \/ SwitchRenamed
  \/ SwitchSelector \/ SwitchExit
  \/ BreakTarget \/ GenBreak \/ GenBreakIf \/ GenReturn
  \/ FunctionEnd \/ Verify

Next == Step \/ Terminated

Spec == Init /\ [][Next]_vars

(***************************************************************************)
(* The compiler is one thread that runs until it is done.                  *)
(***************************************************************************)
FairSpec == Spec /\ WF_vars(Step)
=============================================================================
