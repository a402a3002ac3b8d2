--------------------------- MODULE MCExprCodegen ---------------------------
(***************************************************************************)
(* Model checking of ExprCodegen: every function of a bounded size over    *)
(* some vocabularies.                                                      *)
(***************************************************************************)
EXTENDS WasmMeaning, TLC

CONSTANTS Families,    \* a sequence of families of functions
          a, b         \* label names

(***************************************************************************)
(* A family: the functions with one of the results, at most roots          *)
(* expressions at the top and at most size expressions in all, each an     *)
(* entry of the vocabulary.                                                *)
(***************************************************************************)
Family(vocabulary, size, roots, results) ==
  [vocabulary |-> vocabulary, size |-> size, roots |-> roots, results |-> results]

(***************************************************************************)
(* Entries of a vocabulary: a node without its operands, and what each     *)
(* operand may be.                                                         *)
(***************************************************************************)
Shape(op, name, depth, ty) ==
  [op |-> op, kids |-> <<>>, name |-> name, exit |-> NoName, depth |-> depth,
   ty |-> ty, merge |-> TRUE, incoming |-> <<>>,
   cases |-> 0, table |-> <<>>, renamed |-> FALSE]

Entry(node, n)    == [node |-> node, sorts |-> [i \in 1..n |-> "expression"]]
Op(op, n)         == Entry(Shape(op, NoName, 0, "i32"), n)
Call(ty, n)       == Entry(Shape("call", NoName, 0, ty), n)
Named(op, l, n)   == Entry(Shape(op, l, 0, "i32"), n)
BreakTo(op, d, n) == Entry(Shape(op, NoName, d, "i32"), n)
LoopNamed(x, l, n) == Entry([Shape("loop", l, 0, "i32") EXCEPT !.exit = x], n)

Switch(cases, breaks, table) ==
  [node  |-> [Shape("switch", NoName, 0, "i32") EXCEPT !.cases = cases, !.table = table],
   sorts |-> [i \in 1..(cases + breaks + 1) |->
                IF i <= cases THEN "case"
                ELSE IF i <= cases + breaks THEN "break" ELSE "expression"]]

Fits(entry, sort) ==
  CASE sort = "case"  -> entry.node.op = "case"
    [] sort = "break" -> entry.node.op \in {"br", "br_if"}
    [] OTHER          -> entry.node.op # "case"

(***************************************************************************)
(* The position after the k expressions of word w that start at i.         *)
(***************************************************************************)
RECURSIVE Past(_, _, _, _)
Past(v, w, i, k) ==
  IF k = 0 THEN i ELSE Past(v, w, Past(v, w, i + 1, Len(v[w[i]].sorts)), k - 1)

Function(v, ty, w, roots) ==
  <<[Shape("func", NoName, 0, ty) EXCEPT !.kids = [j \in 1..roots |-> 1 + Past(v, w, 1, j - 1)]]>>
  \o [i \in 1..Len(w) |->
        [v[w[i]].node EXCEPT
           !.kids = [j \in 1..Len(v[w[i]].sorts) |-> 1 + Past(v, w, i + 1, j - 1)]]]

(***************************************************************************)
(* A function is a word over the vocabulary in prefix notation.  Write     *)
(* extends word w, which lacks expressions of the given sorts, in every    *)
(* way to a function.                                                      *)
(***************************************************************************)
RECURSIVE Write(_, _, _, _, _)
Write(f, ty, roots, w, lacking) ==
  IF lacking = <<>> THEN ast = Function(f.vocabulary, ty, w, roots)
  ELSE \E x \in 1..Len(f.vocabulary) :
         LET entry == f.vocabulary[x]
             lacks == entry.sorts \o Tail(lacking)
         IN /\ Fits(entry, Head(lacking))
            /\ Len(w) + 1 + Len(lacks) <= f.size
            /\ Write(f, ty, roots, Append(w, x), lacks)

(***************************************************************************)
(* Jumps, values and labels by index, for the larger functions.            *)
(***************************************************************************)
ControlVocabulary ==
  <<Op("const", 0), Op("get_local", 0), Call("void", 0), Op("return", 1),
    BreakTo("br", 0, 0), BreakTo("br", 0, 1),
    BreakTo("br_if", 0, 1), BreakTo("br_if", 0, 2), BreakTo("br_if", 1, 2),
    Op("if", 2), Op("if", 3), Op("label", 1), Op("block", 2), Op("loop", 2)>>

(***************************************************************************)
(* The classes of expression of WasmAst, with labels by name and by index. *)
(***************************************************************************)
FullVocabulary ==
  <<Op("const", 0), Op("nop", 0), Op("unreachable", 0), Op("set_local", 1),
    Call("void", 0), Call("i32", 1), Op("cmp", 2), Op("divrem", 2), Op("select", 3),
    Op("return", 1), BreakTo("br", 0, 1), BreakTo("br", 1, 0), Named("br", a, 0),
    BreakTo("br_if", 0, 1), Named("br_if", b, 1), Op("if", 2), Op("if", 3),
    Named("label", a, 1), Op("block", 1), Op("block", 2), LoopNamed(a, b, 1)>>

(***************************************************************************)
(* What the compiler could do for ever: divisions in divisions, in the     *)
(* scopes and sides of other expressions, and the marking of ifs.          *)
(***************************************************************************)
NestingVocabulary ==
  <<Op("const", 0), Op("unreachable", 0), Op("divrem", 2), Op("if", 2), Op("if", 3),
    Op("block", 2), Op("loop", 1), BreakTo("br", 0, 0), BreakTo("br_if", 0, 1)>>

(***************************************************************************)
(* A division with operands that can be told apart.                        *)
(***************************************************************************)
DivisionVocabulary == <<Op("const", 0), Call("i32", 0), Op("divrem", 2)>>

(***************************************************************************)
(* Labels that hide each other.                                            *)
(***************************************************************************)
NamedVocabulary ==
  <<Op("nop", 0), Named("block", a, 0), Named("block", a, 1), Named("block", a, 2),
    Named("br", a, 0)>>

(***************************************************************************)
(* Labels that hide each other, left with a value.                         *)
(***************************************************************************)
HiddenVocabulary ==
  <<Op("const", 0), Named("block", a, 0), Named("block", a, 2), Named("br", a, 1)>>

(***************************************************************************)
(* Labels of the same names one after the other, one in the other, and     *)
(* nothing in them.                                                        *)
(***************************************************************************)
ReusedVocabulary ==
  <<Named("block", a, 0), Named("block", a, 2), Named("block", b, 2), Named("br", a, 0),
    LoopNamed(b, a, 1)>>

(***************************************************************************)
(* The breaks of labels.                                                   *)
(***************************************************************************)
LabelVocabulary == <<Op("const", 0), Op("label", 1), BreakTo("br", 0, 0), BreakTo("br", 0, 1)>>

(***************************************************************************)
(* Switches: cases in order and not, in the table and as default, with     *)
(* breaks in both places, without a table, with a case that is missing,    *)
(* and with cases that create blocks.                                      *)
(***************************************************************************)
SwitchVocabulary ==
  <<Op("const", 0), Call("void", 0), BreakTo("br", 0, 0), BreakTo("br", 0, 1),
    BreakTo("br_if", 0, 1), Op("block", 1), Op("divrem", 2),
    Op("case", 0), Op("case", 1), Op("case", 2),
    Switch(2, 0, <<2, 1, 1>>), Switch(2, 0, <<1>>), Switch(1, 1, <<2, 1, 1>>),
    Switch(1, 1, <<1, 2>>), Switch(0, 2, <<1, 2>>), Switch(1, 0, <<1, 0>>)>>

(***************************************************************************)
(* A switch with a break in its table, generated again by a division.      *)
(***************************************************************************)
RepeatedVocabulary ==
  <<Op("const", 0), BreakTo("br", 0, 0), BreakTo("br", 0, 1), Op("divrem", 2),
    Op("case", 1), Switch(1, 1, <<2, 1, 1>>), Switch(0, 2, <<1, 2>>)>>

CodegenFamilies == <<Family(ControlVocabulary, 5, 2, {"i32"}),
                     Family(ControlVocabulary, 4, 2, {"void"}),
                     Family(NestingVocabulary, 5, 1, {"i32"}),
                     Family(HiddenVocabulary, 5, 1, {"i32"}),
                     Family(FullVocabulary, 4, 2, {"i32", "void"}),
                     Family(ReusedVocabulary, 5, 1, {"void"}),
                     Family(SwitchVocabulary, 6, 1, {"i32", "void"}),
                     Family(RepeatedVocabulary, 7, 1, {"i32"})>>

DivisionFamilies == <<Family(DivisionVocabulary, 3, 2, {"i32"})>>

NamedFamilies == <<Family(NamedVocabulary, 4, 2, {"void"})>>

LabelFamilies == <<Family(LabelVocabulary, 3, 2, {"i32"})>>

MCNames == {a, b}

MCInit ==
  /\ \E f \in 1..Len(Families) : \E ty \in Families[f].results, roots \in 1..Families[f].roots :
       Write(Families[f], ty, roots, <<>>, [i \in 1..roots |-> "expression"])
  /\ Init

MCSpec == MCInit /\ [][Next]_vars

MCFairSpec == MCSpec /\ WF_vars(Step)
=============================================================================
