------------------------------ MODULE WasmAst ------------------------------
(***************************************************************************)
(* The internal representation the parser hands to the back end: the       *)
(* expression nodes of one WASM function.  A tree is flattened into a      *)
(* sequence of nodes, and a node refers to its operands by position; node  *)
(* 1 stands for the function itself, its operands are the expressions of   *)
(* WasmFunction::ast_.  What the code generator writes into a node while   *)
(* it runs (incoming_phis_, should_merge_) is a field of the node.         *)
(*                                                                         *)
(* Types are cut down to what the code generator branches on: "i32" is any *)
(* machine type, "i1" the type of a comparison (which differs from i32 for *)
(* every LLVM assertion on types), "void" a call without result, "term" a  *)
(* terminator instruction (whose LLVM type is void too), "null" nullptr.   *)
(***************************************************************************)
EXTENDS Naturals, Sequences

CONSTANT Names,    \* label names a program can mention
         NoName    \* the label of a construct that has none

ASSUME NoNameIsNoName == NoName \notin Names

LabelNames == Names \cup {NoName}

Ops == {"func", "const", "get_local", "set_local", "nop", "unreachable", "call",
        "bin", "cmp", "divrem", "select", "if", "label", "loop", "block",
        "br", "br_if", "return", "switch", "case"}

ValueTypes == {"i32", "i1", "void", "term", "null"}

(***************************************************************************)
(* An llvm::Value*: its type and the basic block that defines it, 0 for a  *)
(* constant and for nullptr.                                               *)
(***************************************************************************)
Values == [ty : ValueTypes, at : Nat]

Null  == [ty |-> "null", at |-> 0]
Const == [ty |-> "i32",  at |-> 0]

IsTerm(v) == v.ty = "term"

(***************************************************************************)
(* NamedExpression::incoming_phis_: pairs of a value and the block it      *)
(* comes from.                                                             *)
(***************************************************************************)
Incomings == [val : Values, from : Nat]

(***************************************************************************)
(* name      label of a block, label or loop; the target of a break by     *)
(*           name, NoName for a break by index                             *)
(* exit      exit label of a loop                                          *)
(* depth     target of a break by index                                    *)
(* ty        result type of a call or of the function                      *)
(* merge     should_merge_ of an if                                        *)
(* incoming  incoming_phis_ of a block, label, loop or switch              *)
(* cases     cases_ of a switch: how many of its first operands are cases  *)
(* table     index_table_ of a switch, followed by default_                *)
(* renamed   the breaks in index_table_ have been replaced by block names  *)
(*                                                                         *)
(* The operands of a switch are its cases, the breaks of its table and of  *)
(* its default, and its selector.  An entry of table is the position of    *)
(* such an operand (of the last case with the identifier the entry gives), *)
(* or 0 for an identifier no case has.                                     *)
(***************************************************************************)
Nodes == [op : Ops, kids : Seq(Nat), name : LabelNames, exit : LabelNames,
          depth : Nat, ty : {"i32", "void"}, merge : BOOLEAN,
          incoming : Seq(Incomings), cases : Nat, table : Seq(Nat), renamed : BOOLEAN]

(***************************************************************************)
(* The number of operands the grammar gives each expression.  The optional *)
(* ones: the else side of an if, the value of a break, and the value of a  *)
(* conditional break, which is the operand before the condition.           *)
(***************************************************************************)
Arities(op) ==
  CASE op \in {"func", "call", "loop", "block", "case"}                  -> Nat
    [] op \in {"const", "get_local", "nop", "unreachable"}               -> {0}
    [] op \in {"set_local", "label", "return"}                           -> {1}
    [] op = "br"                                                         -> {0, 1}
    [] op \in {"bin", "cmp", "divrem"}                                   -> {2}
    [] op = "br_if"                                                      -> {1, 2}
    [] op = "if"                                                         -> {2, 3}
    [] op = "select"                                                     -> {3}
    [] op = "switch"                                                     -> Nat \ {0}

(***************************************************************************)
(* A switch has a default; a case is an operand of a switch and of nothing *)
(* else; and every break of a table or default is an entry of it.          *)
(***************************************************************************)
TableOK(node) ==
  node.op = "switch" =>
    /\ node.cases < Len(node.kids)
    /\ node.table # <<>>
    /\ \A i \in 1..Len(node.table) : node.table[i] < Len(node.kids)

IsSwitchParsed(ast, n) ==
  LET node   == ast[n]
      breaks == (node.cases + 1)..(Len(node.kids) - 1)
  IN /\ TableOK(node)
     /\ ~node.renamed
     /\ \A i \in 1..Len(node.kids) :
          (node.op = "switch" /\ i <= node.cases) <=> ast[node.kids[i]].op = "case"
     /\ node.op = "switch" =>
          /\ \A k \in breaks : /\ ast[node.kids[k]].op \in {"br", "br_if"}
                               /\ \E i \in 1..Len(node.table) : node.table[i] = k
          /\ \A j \in 1..Len(node.table) : \A i \in 1..(j - 1) :
               node.table[i] \in breaks => node.table[j] \notin node.cases + 1 .. node.table[i]

(***************************************************************************)
(* Every rule of the grammar makes an expression of its own, which becomes *)
(* one operand of one other expression.                                    *)
(***************************************************************************)
IsTree(ast) ==
  /\ \A k \in 2..Len(ast) : \E p \in 1..Len(ast) : \E i \in 1..Len(ast[p].kids) : ast[p].kids[i] = k
  /\ \A p, q \in 1..Len(ast) : \A i \in 1..Len(ast[p].kids), j \in 1..Len(ast[q].kids) :
       ast[p].kids[i] = ast[q].kids[j] => p = q /\ i = j

(***************************************************************************)
(* The operands of a parsed node come after it, so every expression is     *)
(* finite; HandleDivRem appends nodes that refer back to their operands.   *)
(***************************************************************************)
IsParsed(ast) ==
  /\ ast \in Seq(Nodes)
  /\ Len(ast) > 0
  /\ ast[1].op = "func"
  /\ \A n \in 1..Len(ast) :
       /\ n > 1 => ast[n].op # "func"
       /\ Len(ast[n].kids) \in Arities(ast[n].op)
       /\ \A i \in 1..Len(ast[n].kids) : ast[n].kids[i] \in (n + 1)..Len(ast)
       /\ ast[n].incoming = <<>>
       /\ ast[n].merge
       /\ IsSwitchParsed(ast, n)
  /\ IsTree(ast)
=============================================================================
