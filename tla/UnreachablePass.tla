-------------------------- MODULE UnreachablePass --------------------------
(***************************************************************************)
(* The one pass the PassDriver runs over every function before code is     *)
(* generated (passes/basic.cpp).  It clears should_merge_ of an if when    *)
(* exactly one of its sides is found to contain an unreachable, so that    *)
(* the code generator does not merge a value with a trap.  The traversal   *)
(* is that of the Walk methods: a Walk calls back on a node, then walks    *)
(* the operands in order, and everything left of the whole traversal is    *)
(* dropped as soon as one of these answers false.                          *)
(***************************************************************************)
EXTENDS WasmAst

(***************************************************************************)
(* The classes that override Walk visit their operands; Binop, Break,      *)
(* BreakIf and Select inherit Expression::Walk, which calls back on the    *)
(* expression alone.                                                       *)
(***************************************************************************)
Walked(node) ==
  IF node.op \in {"func", "if", "call", "return", "loop", "label", "block", "set_local"}
  THEN node.kids ELSE <<>>

(***************************************************************************)
(* The nodes on which Walk(callback) from node n calls back, for a         *)
(* callback that answers false exactly on the nodes of halt.               *)
(* BlockExpression::Walk answers false even when its traversal completed.  *)
(***************************************************************************)
Reached(ast, halt, n) ==
  LET goes[k \in 1..Len(ast)] ==
        /\ k \notin halt
        /\ ast[k].op # "block"
        /\ \A i \in 1..Len(Walked(ast[k])) : goes[Walked(ast[k])[i]]
      reach[k \in 1..Len(ast)] ==
        IF k \in halt THEN {k}
        ELSE {k} \cup
             UNION {reach[Walked(ast[k])[i]] :
                      i \in {j \in 1..Len(Walked(ast[k])) :
                               \A h \in 1..(j - 1) : goes[Walked(ast[k])[h]]}}
  IN reach[n]

(***************************************************************************)
(* FindUnreachable: an if resets the answer to false and halts the walk,   *)
(* an unreachable sets it to true.                                         *)
(***************************************************************************)
HasUnreachable(ast, n) ==
  LET ifs     == {k \in 1..Len(ast) : ast[k].op = "if"}
      reached == Reached(ast, ifs, n)
  IN reached \cap ifs = {} /\ \E k \in reached : ast[k].op = "unreachable"

\* Mutated ShouldNotMerge: only the true side is searched.
TrueSideUnreachable(ast) ==
  {n \in Reached(ast, {}, 1) :
     /\ ast[n].op = "if"
     /\ Len(ast[n].kids) = 3
     /\ HasUnreachable(ast, ast[n].kids[2])}

(***************************************************************************)
(* HandleIfUnreachable on every node of WasmFunction::Walk: the ifs with   *)
(* an else side of which one side alone contains an unreachable.           *)
(***************************************************************************)
ShouldNotMerge(ast) ==
  {n \in Reached(ast, {}, 1) :
     /\ ast[n].op = "if"
     /\ Len(ast[n].kids) = 3
     /\ HasUnreachable(ast, ast[n].kids[2]) # HasUnreachable(ast, ast[n].kids[3])}

RunUnreachablePass(ast) ==
  LET cleared == ShouldNotMerge(ast)
  IN [n \in 1..Len(ast) |-> [ast[n] EXCEPT !.merge = @ /\ n \notin cleared]]
=============================================================================
