-------------------------- MODULE ExprCodegenProps --------------------------
(***************************************************************************)
(* What WASM says about a function, independently of how the compiler      *)
(* works, and the properties of ExprCodegen stated with it.                *)
(***************************************************************************)
EXTENDS ExprCodegen

(***************************************************************************)
(* The type of each variable.  Node 1 is the function and nothing else is, *)
(* every operand and every block that is mentioned exists, an insertion    *)
(* point is never lost, and a method holds the blocks of its class.        *)
(***************************************************************************)
Insts == [op : Terminators \cup {"inst", "phi"}, args : Seq(Values),
          to : Seq(Nat), from : Seq(Nat), by : Nat]

Blocks == [owner : Nat, insts : Seq(Insts)]

Frames == [n : Nat, vals : Seq(Values), bbs : Seq(Nat), base : Nat]

AstOK ==
  /\ ast \in Seq(Nodes)
  /\ Len(ast) > 0
  /\ ast[1].op = "func"
  /\ \A n \in 1..Len(ast) :
       /\ n > 1 => ast[n].op # "func"
       /\ Len(ast[n].kids) \in Arities(ast[n].op)
       /\ \A i \in 1..Len(ast[n].kids) : ast[n].kids[i] \in 2..Len(ast)
       /\ TableOK(ast[n])

BodyOK ==
  /\ body \in Seq(Blocks)
  /\ cur \in 1..Len(body)
  /\ labels \in Seq(1..Len(body))
  /\ mapped \in [LabelNames -> 0..Len(body)]
  /\ \A b \in 1..Len(body) : body[b].owner \in 0..Len(ast)

(***************************************************************************)
(* Frame j waits for an operand unless it is the top one; an if has its    *)
(* blocks from the second operand on, and a value for a missing else side. *)
(* A division is replaced before it gets any value.  A switch has a block  *)
(* for every operand before the one being generated, and while it waits    *)
(* for its selector the default block too.                                 *)
(***************************************************************************)
Begun(j) == Len(stack[j].vals) + (IF j < Len(stack) THEN 1 ELSE 0)

BlocksHeld(node, begun) ==
  IF node.op = "switch"
  THEN IF begun = 0 THEN {0, 2}
       ELSE IF begun < Len(node.kids) THEN {begun + 1, begun + 2} ELSE {begun + 2}
  ELSE IF node.op \in {"block", "loop"} THEN {0, 2}
  ELSE IF node.op \in {"label", "br", "br_if"} THEN {0, 1}
  ELSE IF node.op = "if" /\ begun > 1 THEN {3}
  ELSE {0}

MostValues(node) ==
  IF node.op = "if" THEN 3 ELSE IF node.op = "divrem" THEN 0 ELSE Len(node.kids)

FrameOK(j) ==
  LET f    == stack[j]
      node == ast[f.n]
  IN /\ f.n \in 1..Len(ast)
     /\ f.n > 1 <=> j > 1
     /\ Len(f.vals) <= MostValues(node)
     /\ j < Len(stack) => Len(f.vals) < Len(node.kids) /\ Len(f.vals) < MostValues(node)
     /\ \A i \in 1..Len(f.bbs) : f.bbs[i] \in 1..Len(body)
     /\ Len(f.bbs) \in BlocksHeld(node, Begun(j))

StackOK ==
  /\ stack \in Seq(Frames)
  /\ Len(stack) > 0
  /\ \A j \in 1..Len(stack) : FrameOK(j)

TypeOK ==
  /\ AstOK
  /\ BodyOK
  /\ StackOK
  /\ status \in {"parsed", "running", "generated", "verified", "rejected", "crashed"}

(***************************************************************************)
(* labels_ is exactly what the methods that are running have pushed: the   *)
(* exit of each label, block and switch, and the exit and the head of each *)
(* loop; a switch drops its label before its selector, when it holds the   *)
(* default block too.                                                      *)
(* A break by index counts from its end, so that a label left behind or    *)
(* dropped too early by any of the methods would redirect every later      *)
(* break of the function.                                                  *)
(***************************************************************************)
Pushed(f) ==
  IF f.bbs = <<>> THEN <<>>
  ELSE IF ast[f.n].op \in {"label", "block"} THEN <<f.bbs[Len(f.bbs)]>>
  ELSE IF ast[f.n].op = "loop" THEN <<f.bbs[2], f.bbs[1]>>
  ELSE IF ast[f.n].op = "switch" /\ Len(f.bbs) < Len(ast[f.n].kids) + 2 THEN <<f.bbs[2]>>
  ELSE <<>>

LabelDiscipline ==
  /\ stack[1].base = 0
  /\ \A j \in 1..Len(stack) :
       /\ stack[j].base + Len(Pushed(stack[j])) =
            (IF j = Len(stack) THEN Len(labels) ELSE stack[j + 1].base)
       /\ \A i \in 1..Len(Pushed(stack[j])) :
            labels[stack[j].base + i] = Pushed(stack[j])[i]

(***************************************************************************)
(* The expression that has expression k for operand.  It comes before k;   *)
(* the nodes of HandleDivRem, which refer back to the operands they share, *)
(* are no expressions of the program and have none.                        *)
(***************************************************************************)
HasParent(nodes, k) ==
  \E p \in 1..(k - 1) : \E i \in 1..Len(nodes[p].kids) : nodes[p].kids[i] = k

ParentOf(nodes, k) ==
  CHOOSE p \in 1..(k - 1) : \E i \in 1..Len(nodes[p].kids) : nodes[p].kids[i] = k

(***************************************************************************)
(* The scopes an expression opens for operand k: label and block one that  *)
(* ends the expression, switch the same but not for its selector, and loop *)
(* one that ends it and, inside it, one that starts it again.              *)
(***************************************************************************)
Scope(n, name, end) == [n |-> n, name |-> name, end |-> end]

Labelled == {"label", "block", "loop", "switch"}

OwnScopes(nodes, n) ==
  IF nodes[n].op = "loop"
  THEN <<Scope(n, nodes[n].exit, TRUE), Scope(n, nodes[n].name, FALSE)>>
  ELSE IF nodes[n].op \in Labelled THEN <<Scope(n, nodes[n].name, TRUE)>>
  ELSE <<>>

Opens(nodes, n, k) ==
  IF nodes[n].op = "switch" /\ k = nodes[n].kids[Len(nodes[n].kids)] THEN <<>>
  ELSE OwnScopes(nodes, n)

ScopesAt(nodes, n) ==
  LET scopes[k \in 1..Len(nodes)] ==
        IF ~HasParent(nodes, k) THEN <<>>
        ELSE LET p == ParentOf(nodes, k) IN scopes[p] \o Opens(nodes, p, k)
  IN scopes[n]

(***************************************************************************)
(* The scopes a break can mean: counted from the innermost one, or the     *)
(* innermost one of that name.                                             *)
(***************************************************************************)
Meant(scopes, node) ==
  IF node.name = NoName
  THEN {scopes[i] : i \in {Len(scopes) - node.depth} \cap (1..Len(scopes))}
  ELSE {scopes[i] : i \in {j \in 1..Len(scopes) :
          /\ scopes[j].name = node.name
          /\ \A h \in (j + 1)..Len(scopes) : scopes[h].name # node.name}}

Targets(nodes, n) == Meant(ScopesAt(nodes, n), nodes[n])

Jumps == {"br", "return", "unreachable"}

IsBreak(node) == node.op \in {"br", "br_if"}

CarriesValue(node) == Len(node.kids) = (IF node.op = "br" THEN 1 ELSE 2)

BreaksOutOf(nodes, n) ==
  {b \in 1..Len(nodes) :
     IsBreak(nodes[b]) /\ \E s \in Targets(nodes, b) : s.n = n /\ s.end}

(***************************************************************************)
(* What evaluating an expression can end with: a value, nothing, or never  *)
(* (control is elsewhere).                                                 *)
(***************************************************************************)
Outcome(nodes, n) ==
  LET out[k \in 1..Len(nodes)] ==
    LET node == nodes[k]
        ends == IF node.op = "switch"
                THEN IF node.cases = 0 \/ out[node.kids[Len(node.kids)]] = "never" THEN "never"
                     ELSE out[node.kids[node.cases]]
                ELSE IF node.kids = <<>> THEN "nothing"
                ELSE IF \E i \in 1..Len(node.kids) : out[node.kids[i]] = "never" THEN "never"
                ELSE out[node.kids[Len(node.kids)]]
    IN CASE node.op \in Jumps -> "never"
         [] node.op \in {"nop", "br_if"} -> "nothing"
         [] node.op = "call" -> IF node.ty = "void" THEN "nothing" ELSE "value"
         [] node.op = "if" /\ Len(node.kids) = 2 -> "nothing"
         [] node.op = "if" /\ Len(node.kids) = 3 ->
              LET sides == {out[node.kids[2]], out[node.kids[3]]}
              IN IF "nothing" \in sides THEN "nothing"
                 ELSE IF "value" \in sides THEN "value" ELSE "never"
         [] node.op = "case" -> ends
         [] node.op \in {"label", "block", "loop", "switch"} ->
              LET exits == {ends} \cup {IF CarriesValue(nodes[b]) THEN "value" ELSE "nothing" :
                                          b \in BreaksOutOf(nodes, k)}
              IN IF "nothing" \in exits THEN "nothing"
                 ELSE IF "value" \in exits THEN "value" ELSE "never"
         [] OTHER -> "value"
  IN out[n]

(***************************************************************************)
(* The operands that have to provide a value.                              *)
(***************************************************************************)
NeedsValue(nodes, p, i) ==
  \/ nodes[p].op \in {"set_local", "call", "bin", "cmp", "divrem", "select", "return",
                      "br", "br_if"}
  \/ nodes[p].op = "if" /\ i = 1
  \/ nodes[p].op = "switch" /\ i = Len(nodes[p].kids)
  \/ nodes[p].op = "func" /\ nodes[p].ty = "i32" /\ i = Len(nodes[p].kids)

Valid(nodes) ==
  /\ \A n \in 1..Len(nodes) : IsBreak(nodes[n]) => Targets(nodes, n) # {}
  /\ \A p \in 1..Len(nodes) : \A i \in 1..Len(nodes[p].kids) :
       NeedsValue(nodes, p, i) => Outcome(nodes, nodes[p].kids[i]) \in {"value", "never"}
  /\ \A n \in 1..Len(nodes) : \A i \in 1..Len(nodes[n].table) : nodes[n].table[i] # 0
  /\ nodes[1].ty = "void" => \A n \in 1..Len(nodes) : nodes[n].op # "return"
  /\ nodes[1].ty = "i32" => nodes[1].kids # <<>>

(***************************************************************************)
(* The shapes the code generator copes with.  A jump is fine as operand of *)
(* a block when no break comes after it, at the end of a loop, as the true *)
(* side of an if, at the end of a case, in the table of a switch, and a    *)
(* return as expression of the function.                                   *)
(***************************************************************************)
JumpAllowed(nodes, p, i) ==
  LET k == nodes[p].kids[i]
  IN \/ /\ nodes[p].op = "block"
        /\ \A j \in (i + 1)..Len(nodes[p].kids) :
             LET after == nodes[nodes[p].kids[j]]
             IN after.kids = <<>> /\ ~IsBreak(after)
     \/ nodes[p].op \in {"loop", "case"} /\ i = Len(nodes[p].kids)
     \/ nodes[p].op = "switch" /\ i < Len(nodes[p].kids)
     \/ nodes[p].op = "if" /\ i = 2
     \/ nodes[p].op = "func" /\ nodes[k].op = "return"

(***************************************************************************)
(* The exits of a label, block, loop or switch: its breaks, and the end of *)
(* its last operand (of the last case) unless that is a jump.              *)
(***************************************************************************)
LastPart(nodes, n) ==
  IF nodes[n].op # "switch" THEN nodes[n].kids
  ELSE IF nodes[n].cases = 0 THEN <<>>
  ELSE nodes[nodes[n].kids[nodes[n].cases]].kids

FallsThrough(nodes, n) ==
  /\ \A i \in 1..Len(LastPart(nodes, n)) :
       nodes[LastPart(nodes, n)[i]].op \notin {"br", "return"}
  /\ nodes[n].op = "switch" => nodes[n].cases > 0

ValuedBreaks(nodes, n) == {b \in BreaksOutOf(nodes, n) : CarriesValue(nodes[b])}

EndsInValue(nodes, n) ==
  LET kids == LastPart(nodes, n)
  IN /\ kids # <<>>
     /\ Outcome(nodes, kids[Len(kids)]) = "value"
     /\ \A i \in 1..Len(kids) : Outcome(nodes, kids[i]) # "never"

(***************************************************************************)
(* With a value on two exits there is a phi, and it needs one on each.     *)
(***************************************************************************)
ExitsAgree(nodes, n) ==
  nodes[n].op \in {"label", "block", "loop", "switch"} =>
    \/ ValuedBreaks(nodes, n) = {}
    \/ /\ ValuedBreaks(nodes, n) = BreaksOutOf(nodes, n)
       /\ FallsThrough(nodes, n) => EndsInValue(nodes, n)

(***************************************************************************)
(* A loop is left over its end only by a value.                            *)
(***************************************************************************)
LoopEnds(nodes, n) ==
  nodes[n].op = "loop" => EndsInValue(nodes, n) \/ ~FallsThrough(nodes, n)

(***************************************************************************)
(* Nobody uses the value of expression n.                                  *)
(***************************************************************************)
Dropped(nodes, n) ==
  \E p \in 1..(n - 1) : \E i \in 1..Len(nodes[p].kids) :
    /\ nodes[p].kids[i] = n
    /\ \/ nodes[p].op \in {"func", "block", "loop"} /\ i < Len(nodes[p].kids)
       \/ nodes[p].op = "func" /\ nodes[p].ty = "void"

(***************************************************************************)
(* The sides of an if with else both have a value, or the true side jumps, *)
(* or one of them is an expression for which there is nothing to merge, or *)
(* one of them is an unreachable and nobody needs the value of the other.  *)
(***************************************************************************)
SidesAgree(nodes, n) ==
  nodes[n].op = "if" /\ Len(nodes[n].kids) = 3 =>
    LET t == nodes[n].kids[2]
        f == nodes[n].kids[3]
    IN \/ Outcome(nodes, t) = "value" /\ Outcome(nodes, f) = "value"
       \/ nodes[t].op \in {"br", "return"}
       \/ {nodes[t].op, nodes[f].op} \cap {"nop", "br_if"} # {}
       \/ /\ Dropped(nodes, n)
          /\ \E x, y \in {t, f} : nodes[x].op = "unreachable" /\ Outcome(nodes, y) # "never"

(***************************************************************************)
(* A comparison, of type i1, is only good as a condition or as a result of *)
(* the function.                                                           *)
(***************************************************************************)
FlagAllowed(nodes, p, i) ==
  \/ nodes[p].op \in {"func", "return"}
  \/ nodes[p].op \in {"if", "select"} /\ i = 1
  \/ nodes[p].op = "br_if" /\ i = Len(nodes[p].kids)

(***************************************************************************)
(* An operand of a division is generated more than once, but a named       *)
(* expression keeps what it collected the first time.                      *)
(***************************************************************************)
InDivRem(nodes, n) ==
  LET in[k \in 1..Len(nodes)] ==
        HasParent(nodes, k) /\ LET p == ParentOf(nodes, k) IN nodes[p].op = "divrem" \/ in[p]
  IN in[n]

(***************************************************************************)
(* The cases of a switch are entered in the block they end in, so they may *)
(* not create any; a conditional break in the table leaves a block open;   *)
(* and without a table the values of the selector choose cases by position. *)
(***************************************************************************)
Straight(nodes, n) ==
  LET straight[k \in 1..Len(nodes)] ==
        /\ nodes[k].op \in {"const", "get_local", "set_local", "nop", "unreachable", "call",
                            "bin", "cmp", "select", "br", "return"}
        /\ \A i \in 1..Len(nodes[k].kids) : straight[nodes[k].kids[i]]
  IN straight[n]

SwitchSupported(nodes, n) ==
  /\ nodes[n].op = "case" =>
       \A i \in 1..Len(nodes[n].kids) : Straight(nodes, nodes[n].kids[i])
  /\ nodes[n].op = "switch" =>
       /\ Len(nodes[n].table) > 1 \/ nodes[n].cases = 0
       /\ \A i \in 1..(Len(nodes[n].kids) - 1) : nodes[nodes[n].kids[i]].op # "br_if"

(***************************************************************************)
(* No label hides another one of the same name: of two such labels the     *)
(* code only remembers the one declared last, closed or not.               *)
(***************************************************************************)
NoneHidden(nodes) ==
  \A n \in 1..Len(nodes) :
    nodes[n].op \in Labelled =>
      LET scopes == ScopesAt(nodes, n) \o OwnScopes(nodes, n)
      IN \A i, j \in 1..Len(scopes) :
           scopes[i].name = scopes[j].name => i = j \/ scopes[i].name = NoName

Copes(nodes) ==
  /\ Valid(nodes) /\ NoneHidden(nodes)
  /\ \A p \in 1..Len(nodes) : \A i \in 1..Len(nodes[p].kids) :
       LET k == nodes[p].kids[i]
       IN /\ nodes[k].op \in {"br", "return"} => JumpAllowed(nodes, p, i)
          /\ nodes[k].op = "cmp" => FlagAllowed(nodes, p, i)
          /\ NeedsValue(nodes, p, i) => Outcome(nodes, k) = "value" \/ nodes[k].op = "return"
  /\ \A n \in 1..Len(nodes) :
       /\ ExitsAgree(nodes, n) /\ LoopEnds(nodes, n) /\ SidesAgree(nodes, n)
       /\ SwitchSupported(nodes, n)

NoneRepeated(nodes) ==
  \A n \in 1..Len(nodes) : nodes[n].op \in Labelled => ~InDivRem(nodes, n)

Supported(nodes) == Copes(nodes) /\ NoneRepeated(nodes)

(***************************************************************************)
(* What WASM accepts the compiler compiles: neither an assertion of a      *)
(* Codegen method nor the verification of the function fails. (The code    *)
(* does not keep this.)                                                    *)
(***************************************************************************)
ValidAccepted == status \in {"crashed", "rejected"} => ~Valid(ast)

(***************************************************************************)
(* What the code generator copes with is compiled: every basic block it    *)
(* made ends in one terminator, every phi has one entry for each           *)
(* predecessor, every use is dominated, and no assertion fails on the way. *)
(***************************************************************************)
SupportedAccepted == status \in {"crashed", "rejected"} => ~Supported(ast)

(***************************************************************************)
(* Nothing empties incoming_phis_, so that a label, block, loop or switch  *)
(* in the operand of a division, which is generated once for each place    *)
(* the operand has, also merges the values of the places before.  These    *)
(* are never used in a program: a function with such an operand that is    *)
(* fine otherwise is always refused.                                       *)
(***************************************************************************)
RepeatedRefused == status = "verified" => NoneRepeated(ast) \/ ~Copes(ast)

(***************************************************************************)
(* An operand that has to provide a value, and has one according to WASM,  *)
(* returns one of a machine type to its parent.                            *)
(***************************************************************************)
ValuesArrive ==
  \A j \in 1..Len(stack) : \A i \in 1..Len(stack[j].vals) :
    /\ ~IsMachine(stack[j].vals[i])
    /\ i <= Len(ast[stack[j].n].kids)
    /\ NeedsValue(ast, stack[j].n, i)
    => Outcome(ast, ast[stack[j].n].kids[i]) # "value" \/ ~Supported(ast)

(***************************************************************************)
(* The block a scope stands for: the exit of the expression that opens it, *)
(* or the head of a loop.                                                  *)
(***************************************************************************)
ScopeBlock(f, s) == f.bbs[IF s.end /\ ast[f.n].op # "label" THEN 2 ELSE 1]

ReachesOneOf(scopes, j) ==
  \E s \in scopes : \E i \in 1..(j - 1) :
    stack[i].n = s.n /\ stack[j].bbs[1] = ScopeBlock(stack[i], s)

JumpsToScope(j) ==
  IsBreak(ast[stack[j].n]) /\ stack[j].bbs # <<>> =>
    ReachesOneOf(Targets(ast, stack[j].n), j)

(***************************************************************************)
(* A break jumps to the block its label means by scoping, also when the    *)
(* same name was given to an inner label that has been closed. (The code   *)
(* does not keep this.)                                                    *)
(***************************************************************************)
BreaksFollowScopes == \A j \in 1..Len(stack) : JumpsToScope(j) \/ ~Valid(ast)

(***************************************************************************)
(* A break, by name or by index, jumps to the block its label means by     *)
(* scoping in every valid function in which no label hides another one.    *)
(***************************************************************************)
BreakTargetsScope ==
  \A j \in 1..Len(stack) : JumpsToScope(j) \/ ~Valid(ast) \/ ~NoneHidden(ast)

(***************************************************************************)
(* What the generated code does: no call of the program is executed twice, *)
(* unless it is in a loop.                                                 *)
(***************************************************************************)
ReachableFrom(b) ==
  LET within[n \in 0..Len(body)] ==
        IF n = 0 THEN {b}
        ELSE UNION {{c} \cup Succs(body, c) : c \in within[n - 1]}
  IN within[Len(body)]

CallsAt(b) == {i \in 1..Len(body[b].insts) : ast[body[b].insts[i].by].op = "call"}

CalledOnce ==
  status = "verified" /\ (\A n \in 1..Len(ast) : ast[n].op # "loop") =>
    \A b \in 1..Len(body) : \A c \in ReachableFrom(b) : \A i \in CallsAt(b), k \in CallsAt(c) :
      body[b].insts[i].by = body[c].insts[k].by => b = c /\ i = k

(***************************************************************************)
(* The compiler ends for every function, accepted or not: passes and       *)
(* generation do not go in circles, not even when a division generates     *)
(* its operands over and over.                                             *)
(***************************************************************************)
Terminates == <>(status \in {"verified", "rejected", "crashed"})
=============================================================================
