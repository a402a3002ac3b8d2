---------------------------- MODULE MCFileParser ----------------------------
(***************************************************************************)
(* Model checking of FileParser: texts put together from forms, laid out   *)
(* on lines.                                                               *)
(***************************************************************************)
EXTENDS FileParserProps

CONSTANTS
  a, b, f, g, i, s, x,   \* names in the text
  an0, an1, an2, an3     \* names of functions without one

(***************************************************************************)
(* Texts.                                                                  *)
(***************************************************************************)
F(op, parts) == <<Lexeme("open", op, "")>> \o parts \o <<Lexeme("close", "", "")>>
A(op, val)   == <<Lexeme("atom", op, val)>>
Id(name)     == A("id", name)
N(val)       == A("int", val)
S(val)       == A("str", val)
T(val)       == A("type", val)
NL           == <<Lexeme("newline", "", "")>>
Remark       == <<Lexeme("remark", "", "")>>
Note     == <<Lexeme("comment", "", "")>>

K(n)  == F("const", N(n))
X     == K("1")
Y     == F("get_local", N("0"))

(***************************************************************************)
(* Every class of expression, with every optional part.                    *)
(***************************************************************************)
Bodies ==
  { F("nop", <<>>), F("unop", X), F("binop", X \o Y), F("binop", F("binop", X \o Y) \o X),
    F("get_local", Id(x)), F("set_local", Id(x) \o F("get_local", N("1"))),
    F("if_else", X \o Y \o X), F("if", X \o F("nop", <<>>)), F("select", X \o Y \o X),
    F("call", Id(f)), F("call", N("0") \o X \o F("call", Id(f) \o Y)),
    F("call_import", Id(i) \o X), F("unreachable", <<>>),
    F("label", X), F("label", Id(a) \o F("br", Id(a) \o X)),
    F("loop", X \o Y), F("loop", Id(a) \o X), F("loop", Id(a) \o Id(b) \o F("br", <<>>)),
    F("load", X), F("store", X \o Y), F("load", A("align", "4") \o X),
    F("load", A("offset", "8") \o A("align", "4") \o F("load", X)),
    F("store", A("align", "4") \o A("offset", "8") \o X \o Y), F("memory_size", <<>>), F("grow_memory", X),
    F("block", F("br_if", X \o N("0")) \o F("br_if", X \o N("0") \o Y)),
    F("block", Id(a) \o X \o F("nop", <<>>) \o Y), F("return", X),
    F("has_feature", S("wasm")), F("has_feature", S("other")),
    F("switch", X \o F("table", <<>>) \o F("case", Id(a)) \o F("case", Id(a))),
    F("switch", Id(s) \o X
        \o F("table", F("case", Id(b)) \o F("br", N("0") \o X) \o F("case", N("0")) \o F("case", Id(a)))
        \o F("br", Id(s)) \o F("case", Id(a) \o X \o Y) \o F("case", Id(b) \o X)) }

Declarations ==
  { <<>>, F("param", T("i32") \o T("f32") \o T("i64")), F("param", Id(x) \o T("i32")),
    F("local", T("f64")) \o F("param", T("i32")) \o F("local", Id(x) \o T("i64")) \o F("param", T("f32")),
    F("result", T("i32")), F("result", T("i32")) \o F("result", T("f32")) }

Func(name, parts) == F("func", name \o parts)
Module(parts)     == F("module", parts)

(***************************************************************************)
(* Modules with elements of every kind, in some orders.                    *)
(***************************************************************************)
Elem(e) ==
  CASE e = 1 -> Func(Id(f), F("param", Id(x) \o T("i32")) \o F("call", Id(g) \o Y))
    [] e = 2 -> Func(<<>>, F("call", N("0") \o X))
    [] e = 3 -> F("export", S("e") \o Id(f))
    [] e = 4 -> F("export", S("d") \o N("1"))
    [] e = 5 -> F("import", Id(i) \o S("m") \o S("n") \o F("param", T("i32") \o T("f32"))
                              \o F("result", T("i32")))
    [] e = 6 -> F("import", S("m") \o S("n"))
    [] e = 7 -> F("memory", N("1") \o F("segment", N("0") \o S("p")) \o F("segment", N("1") \o S("q")))
    [] e = 8 -> F("memory", N("1") \o N("2"))

Joined(seq, Make(_)) == FlattenSeq([n \in 1..Len(seq) |-> Make(seq[n])])

SmallModule == Module(Elem(1))

Request(r) ==
  CASE r = 1 -> SmallModule
    [] r = 2 -> Module(Elem(2) \o Elem(3))
    [] r = 3 -> F("invoke", S("e") \o X)
    [] r = 4 -> F("assert_return", F("invoke", S("e")) \o X)
    [] r = 5 -> F("assert_return", F("invoke", S("d") \o X))
    [] r = 6 -> F("assert_return_nan", F("invoke", S("e")))
    [] r = 7 -> F("assert_trap", F("invoke", S("d")) \o S("t"))
    [] r = 8 -> F("assert_invalid", SmallModule \o S("t"))
    [] r = 9 -> F("assert_return", F("invoke", S("e")) \o X \o X)

\* With a newline after each of the positions.
Lines(words, positions) ==
  FlattenSeq([n \in 1..Len(words) |-> <<words[n]>> \o (IF n \in positions THEN NL ELSE <<>>)])

Depths(words, n) == Cardinality({j \in 1..n : words[j].t = "open"})
                      - Cardinality({j \in 1..n : words[j].t = "close"})

TwoOffsets ==
  {Module(Func(<<>>, F("load", A("offset", "8") \o between \o A("offset", "8") \o X))) :
     between \in {<<>>, A("align", "4"), X}}

(***************************************************************************)
(* On one line, with a newline after each form of the script, or after     *)
(* each parenthesis that closes a form.                                    *)
(***************************************************************************)
Layouts(words) ==
  { Lines(words, p) : p \in {{}, {n \in 1..Len(words) : Depths(words, n) = 0},
                            {n \in 1..Len(words) : words[n].t = "close"}} }

Text(words, valid) == [text |-> words, valid |-> valid]

Words(Make(_), choices, n) == {Joined(seq, Make) : seq \in UNION {[1..k -> choices] : k \in 0..n}}

FunctionTexts == {Module(Func(Id(f), p \o body)) : p \in Declarations, body \in Bodies}

ModuleChoices ==
  LET Orders == {seq \in UNION {[1..k -> {1, 2, 3, 4, 5, 7, 8}] : k \in 0..3} :
                   Cardinality({n \in 1..Len(seq) : seq[n] > 6}) <= 1}
  IN {Module(Joined(seq, Elem)) : seq \in Orders}

TwoMemories == {Module(Elem(7) \o Elem(8)), Module(Elem(6)), Module(Elem(3) \o Elem(6) \o Elem(1))}

Without(words, n) == SubSeq(words, 1, n - 1) \o SubSeq(words, n + 1, Len(words))

\* A comment or a remark at each place of a script of lines.
Commented ==
  LET words == Lines(Request(8) \o Request(2) \o Request(4), {4, 9, 16, 20})
  IN {SubSeq(words, 1, n) \o Note \o SubSeq(words, n + 1, Len(words)) : n \in 0..Len(words)}
       \cup {SubSeq(words, 1, n) \o note \o NL \o SubSeq(words, n + 1, Len(words)) :
               n \in 0..Len(words), note \in {Remark, Remark \o Request(1), Note \o Remark}}

TwoComments ==
  LET words == Request(1) \o NL \o Request(4)
  IN {SubSeq(words, 1, n) \o Note \o SubSeq(words, n + 1, j) \o Note
        \o SubSeq(words, j + 1, Len(words)) : n \in {0, 2}, j \in 2..Len(words)}

Broken == UNION {{Without(w, n) : n \in 1..Len(w)} :
                   w \in {Module(Func(Id(f), body)) : body \in Bodies}
                           \cup {Request(q) \o NL \o Request(r) : q \in 1..9, r \in {1, 5}}}

\* Forms where no rule has them.
Misplaced ==
  {Module(Func(<<>>, F(op, form))) : op \in {"block", "return", "case", "func", "table"},
     form \in {F("case", Id(a)), F("param", T("i32")), F("table", <<>>), F("invoke", S("e")), X \o X}}

WellFormed ==
  UNION {ModuleChoices, FunctionTexts, Commented,
         UNION {Layouts(Module(Func(<<>>, body))) : body \in Bodies},
         UNION {Layouts(w) : w \in Words(Request, 1..8, 2)},
         UNION {Layouts(w) : w \in Words(Request, {1, 2, 3, 8}, 3)}}

MCScripts ==
  {Text(w, TRUE) : w \in WellFormed}
    \cup {Text(w, FALSE) : w \in UNION {TwoMemories, TwoOffsets, TwoComments, Broken, Misplaced, {Request(9)}}}

MCAnonymous == <<an0, an1, an2, an3>>
MCIds       == {f, g, i}
MCHosts     == {"m", "n", "i32", "f32"}
MCLabels    == {a, b, s}
MCExported  == {"d", "e"}
=============================================================================
