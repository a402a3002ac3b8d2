---------------------------- MODULE WasmMeaning ----------------------------
(***************************************************************************)
(* What a function does, once according to WASM and once according to the  *)
(* code that was generated for it, and the property that both agree.       *)
(*                                                                         *)
(* What a function does is a set of runs.  A run is a sequence of events:  *)
(* the calls, stores to locals, traps and returns it executes, the way it  *)
(* takes at each if, conditional break and switch, and a loop it starts    *)
(* again, which ends the run.  Values are left out; every condition may go *)
(* either way.                                                             *)
(***************************************************************************)
EXTENDS ExprCodegenProps

Event(n)     == <<n, 0>>
Choice(n, k) == <<n, k>>

(***************************************************************************)
(* A run so far and how it ends: in the normal way, with a jump to a scope *)
(* that ends or restarts expression n, or for good.                        *)
(***************************************************************************)
Ran(events, end, n) == [events |-> events, end |-> end, n |-> n]

Idle   == {Ran(<<>>, "normal", 0)}
Does(e) == {Ran(<<e>>, "normal", 0)}

Then(first, second) ==
  {r \in first : r.end # "normal"} \cup
  {Ran(r.events \o s.events, s.end, s.n) : r \in {q \in first : q.end = "normal"}, s \in second}

Closing(n, runs) ==
  {IF r.n = n /\ r.end = "break" THEN Ran(r.events, "normal", 0)
   ELSE IF r.n = n /\ r.end = "again" THEN Ran(Append(r.events, Event(n)), "over", 0)
   ELSE r : r \in runs}

(***************************************************************************)
(* The runs of expression n, by the rules of WASM.                         *)
(***************************************************************************)
RECURSIVE RunsOf(_, _), RunsInOrder(_, _)

RunsInOrder(nodes, ks) ==
  IF ks = <<>> THEN Idle ELSE Then(RunsOf(nodes, Head(ks)), RunsInOrder(nodes, Tail(ks)))

RunsOf(nodes, n) ==
  LET node  == nodes[n]
      kids  == node.kids
      all   == RunsInOrder(nodes, kids)
      chosen(k, runs) == Then(Does(Choice(n, k)), runs)
      leaves == UNION {{Ran(<<>>, IF s.end THEN "break" ELSE "again", s.n)} : s \in Targets(nodes, n)}
      entry(k) == IF k <= node.cases THEN RunsInOrder(nodes, SubSeq(kids, k, node.cases))
                  ELSE RunsOf(nodes, kids[k])
      last  == Len(node.table)
  IN CASE node.op \in {"set_local", "call"} -> Then(all, Does(Event(n)))
       [] node.op \in {"return", "unreachable"} -> Then(all, {Ran(<<Event(n)>>, "over", 0)})
       [] node.op = "func" -> Then(all, {Ran(<<Event(n)>>, "over", 0)})
       [] node.op = "if" ->
            Then(RunsOf(nodes, kids[1]),
                 chosen(1, RunsOf(nodes, kids[2])) \cup
                 chosen(2, IF Len(kids) = 3 THEN RunsOf(nodes, kids[3]) ELSE Idle))
       [] node.op = "br"    -> Then(all, leaves)
       [] node.op = "br_if" -> Then(all, chosen(1, leaves) \cup chosen(2, Idle))
       [] node.op \in {"label", "block", "loop"} -> Closing(n, all)
       [] node.op = "switch" ->
            Closing(n, Then(RunsOf(nodes, kids[Len(kids)]),
                            chosen(1, entry(node.table[last])) \cup
                            UNION {chosen(i + 1, entry(node.table[i])) : i \in 1..(last - 1)}))
       [] OTHER -> all

(***************************************************************************)
(* The expressions of the program; HandleDivRem adds others.               *)
(***************************************************************************)
RECURSIVE Below(_, _)
Below(nodes, n) ==
  {n} \cup UNION {Below(nodes, nodes[n].kids[i]) : i \in 1..Len(nodes[n].kids)}

(***************************************************************************)
(* The runs of the generated code from instruction i of block b on.  The   *)
(* jump that first entered each block of the run was generated for         *)
(* entered[b]; only the head of a loop is entered again.                   *)
(***************************************************************************)
RECURSIVE CodeRuns(_, _, _)
CodeRuns(entered, b, i) ==
  LET inst == body[b].insts[i]
      n    == inst.by
      op   == ast[n].op
      to(t) == IF entered[t] # 0 THEN {Ran(<<Event(entered[t])>>, "over", 0)}
               ELSE CodeRuns([entered EXCEPT ![t] = n], t, 1)
  IN CASE inst.op = "inst" /\ op = "unreachable" -> {Ran(<<Event(n)>>, "over", 0)}
       [] inst.op = "inst" /\ op \in {"call", "set_local"} ->
            Then(Does(Event(n)), CodeRuns(entered, b, i + 1))
       [] inst.op \in {"ret", "retvoid"} -> {Ran(<<Event(n)>>, "over", 0)}
       [] inst.op = "br" -> to(inst.to[1])
       [] inst.op \in {"condbr", "switch"} ->
            UNION {Then(IF n \in Below(ast, 1) THEN Does(Choice(n, k)) ELSE Idle, to(inst.to[k])) :
                     k \in 1..Len(inst.to)}
       [] OTHER -> CodeRuns(entered, b, i + 1)

(***************************************************************************)
(* An operand of a division is executed once for each time it was          *)
(* generated: that makes no difference when it does nothing but compute.   *)
(***************************************************************************)
DividesValues(nodes) ==
  \A n \in Below(nodes, 1) : nodes[n].op = "divrem" =>
    \A k \in Below(nodes, n) : nodes[k].op \in {"const", "get_local", "bin", "cmp", "divrem", "select"}

(***************************************************************************)
(* The generated code does what the function means: from the same choices  *)
(* at its ifs, conditional breaks and switches follow the same calls,      *)
(* stores, traps and returns, in the same order.                           *)
(***************************************************************************)
DoesWhatItMeans == CodeRuns([b \in 1..Len(body) |-> 0], 1, 1) = RunsOf(ast, 1)

(***************************************************************************)
(* Every valid function the compiler accepts is compiled to code that does *)
(* what the function means, but for three known cases: a label hides       *)
(* another, a division repeats an effect of its operands, or a switch has  *)
(* a case that creates blocks or no table.                                 *)
(***************************************************************************)
MeaningKept ==
  /\ status = "verified"
  /\ Valid(ast) /\ NoneHidden(ast) /\ DividesValues(ast)
  /\ \A n \in 1..Len(ast) : SwitchSupported(ast, n)
  => DoesWhatItMeans
=============================================================================
