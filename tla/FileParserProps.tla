-------------------------- MODULE FileParserProps --------------------------
(***************************************************************************)
(* What the file the parser builds has to do with the text, and what the   *)
(* other modules assume of it.                                             *)
(***************************************************************************)
EXTENDS FileParser, FiniteSets

CONSTANTS
  Ids,       \* names of functions
  Labels,    \* names of blocks, labels, loops and cases
  Exported,  \* names of exports
  Hosts      \* what imports are written with

Read == status = "done"

-----------------------------------------------------------------------------
(***************************************************************************)
(* The text, by positions.                                                 *)
(***************************************************************************)
LineAt(i) == 1 + Cardinality({j \in 1..(i - 1) : text[j].t = "newline"})

\* What a lexeme is, if it does not belong to a remark.
Kind(i) ==
  IF \E j \in 1..(i - 1) : text[j].t = "remark" /\ LineAt(j) = LineAt(i)
  THEN "remark" ELSE text[i].t

Opens(i) == Kind(i) = "open"

Depth(i) == Cardinality({j \in 1..(i - 1) : Opens(j)})
              - Cardinality({j \in 1..(i - 1) : Kind(j) = "close"})

Closes(i, j) == /\ i < j /\ Kind(j) = "close" /\ Depth(j) = Depth(i) + 1
                /\ \A k \in (i + 1)..(j - 1) : Depth(k) > Depth(i)

FormAt(i) == i..(CHOOSE j \in 1..Len(text) : Closes(i, j))

\* The positions in forms with one of the keywords, at a depth.
Forms(ops, depth) ==
  UNION {FormAt(j) : j \in {k \in 1..Len(text) : Opens(k) /\ text[k].op \in ops /\ Depth(k) = depth}}

Ordered(positions) ==
  LET Chosen(i) == i \in positions IN SelectSeq([i \in 1..Len(text) |-> i], Chosen)

IsRead == {i \in 1..Len(text) : Kind(i) \in {"open", "close", "atom"}} \ Forms({"assert_invalid"}, 0)

(***************************************************************************)
(* A feature is replaced by whether there is support for it.  An alignment *)
(* and the offset after it count in the opposite order.                    *)
(***************************************************************************)
AlignFirst(i) == i \in 1..(Len(text) - 1) /\ text[i].op = "align" /\ text[i + 1].op = "offset"

Word(i) ==
  CASE AlignFirst(i) -> text[i + 1].val
    [] AlignFirst(i - 1) -> text[i - 1].val
    [] Opens(i) -> IF text[i].op = "has_feature" THEN "const" ELSE text[i].op
    [] Kind(i) = "close" -> ")"
    [] text[i - 1].op = "has_feature" -> IF text[i].val = "wasm" THEN "1" ELSE "0"
    [] OTHER -> text[i].val

WordsAt(positions) ==
  LET ps == Ordered(positions) IN [i \in 1..Len(ps) |-> Word(ps[i])]

-----------------------------------------------------------------------------
(***************************************************************************)
(* The words an object was read from.                                      *)
(***************************************************************************)
IsAnonymous(name) == \E n \in 1..Len(Anonymous) : name = Anonymous[n]

Given(o) ==
  LET NotNone(name) == name # NoName /\ (o.op = "func" => ~IsAnonymous(name))
  IN CASE o.op \in {"param", "local"} ->
            FlattenSeq([i \in 1..Len(o.names) |->
              SelectSeq(<<o.names[i].name, o.names[i].type>>, NotNone)])
       [] o.op = "loop" -> SelectSeq(Reverse(o.names), NotNone)
       [] OTHER -> SelectSeq(o.names, NotNone)

RECURSIVE Printed(_)
Printed(o) ==
  LET kids == [i \in 1..Len(o.kids) |-> Printed(o.kids[i])]
      rest == CASE o.op = "memory" -> Given(o) \o FlattenSeq(Reverse(kids))
                [] o.op = "br_if"  -> Head(kids) \o Given(o) \o FlattenSeq(Tail(kids))
                [] OTHER           -> Given(o) \o FlattenSeq(kids)
  IN <<IF o.op = "case_index" THEN "case" ELSE o.op>> \o rest \o <<")">>

PrintedAll(objects) == FlattenSeq([i \in 1..Len(objects) |-> Printed(objects[i])])

Memory(module) == Object("memory", <<module.memory, module.max>>, module.segments, 0)

PrintedModule(module, op) ==
  LET elems == CASE op = "func"   -> module.functions
                 [] op = "export" -> module.exports
                 [] op = "import" -> module.imports
                 [] op = "memory" -> IF module.memory = NoName THEN <<>> ELSE <<Memory(module)>>
  IN <<"module">> \o PrintedAll(elems) \o <<")">>

\* The call of an assertion, and what it is compared with.
Asserted(e) ==
  LET body == e.kids[1]
  IN CASE e.op = "assert_return_nan" -> Printed(body.kids[1].kids[1].kids[1])
       [] e.op = "assert_trap"       -> Printed(body.kids[1]) \o body.kids[2].names
       [] body.op = "block"          -> Printed(body.kids[1])
       [] OTHER                      -> PrintedAll(body.kids[1].kids[1].kids)

PrintedElem(e) ==
  IF e.op = "invoke" THEN Printed(e) ELSE <<e.op>> \o Asserted(e) \o <<")">>

InTextOrder == Reverse(file.modules)

Elements == {"func", "export", "import", "memory"}
Requests == Assertions \cup {"invoke"}

\* No two comments are on one line.
CommentsApart ==
  \A i, j \in 1..Len(text) :
    i < j /\ text[i].t = "comment" /\ text[j].t = "comment" => LineAt(i) # LineAt(j)

(***************************************************************************)
(* Lists are built by rules that recurse to the left and to the right,     *)
(* into lists that are filled at the front and at the end.  Still the file *)
(* holds what the text says in the order of the text: the elements of each *)
(* kind of each module, and the requests of the script.  Only the segments *)
(* of a memory are in the opposite order, and so are the modules.          *)
(***************************************************************************)
FileHoldsText ==
  Read /\ CommentsApart =>
    /\ \A op \in Elements :
         LET others == Forms(Elements \ {op}, 1)
         IN FlattenSeq([m \in 1..Len(InTextOrder) |-> PrintedModule(InTextOrder[m], op)])
              = WordsAt((IsRead \cap Forms({"module"}, 0)) \ others)
    /\ FlattenSeq([e \in 1..Len(file.elems) |-> PrintedElem(file.elems[e])])
         = WordsAt(IsRead \cap Forms(Requests, 0))

-----------------------------------------------------------------------------
(***************************************************************************)
(* Lines.                                                                  *)
(***************************************************************************)
RECURSIVE LinesOf(_)
LinesOf(o) ==
  LET kids == FlattenSeq([i \in 1..Len(o.kids) |-> LinesOf(o.kids[i])])
  IN IF o.line = 0 THEN kids ELSE <<o.line>> \o kids

LinesOfAll(objects) == FlattenSeq([i \in 1..Len(objects) |-> LinesOf(objects[i])])

ModuleLines(module) == <<module.line>> \o LinesOfAll(module.functions)

(***************************************************************************)
(* The lines that calls are looked up with: a module has the line where it *)
(* ends, and so have calls, whatever the text between them is, comments    *)
(* and modules that are skipped included.                                  *)
(***************************************************************************)
LinesAreEnds ==
  Read /\ CommentsApart =>
    LET EndsOf(ops) ==
          LET ps == Ordered({i \in IsRead : Opens(i) /\ text[i].op \in ops})
          IN [k \in 1..Len(ps) |-> LineAt(Last(Ordered(FormAt(ps[k]))))]
    IN /\ FlattenSeq([m \in 1..Len(InTextOrder) |-> ModuleLines(InTextOrder[m])])
            = EndsOf({"module", "call", "call_import"})
       /\ LinesOfAll(file.elems) = EndsOf(Requests)

-----------------------------------------------------------------------------
(***************************************************************************)
(* What ModuleLink assumes of the file: the names and calls of functions.  *)
(***************************************************************************)
Digits == 0..9

IsNumber(s) == \E n \in Digits : ToString(n) = s
NumberOf(s) == CHOOSE n \in Digits : ToString(n) = s
VarOf(s)    == IF IsNumber(s) THEN NumberOf(s) ELSE s

KindOf == [call |-> "call", call_import |-> "import"]

RECURSIVE CallsOf(_)
CallsOf(o) ==
  LET kids == FlattenSeq([i \in 1..Len(o.kids) |-> CallsOf(o.kids[i])])
  IN IF o.op \notin DOMAIN KindOf THEN kids
     ELSE <<[kind |-> KindOf[o.op], var |-> VarOf(o.names[1]), line |-> o.line]>> \o kids

Mapped(f(_), seq) == [i \in 1..Len(seq) |-> f(seq[i])]

NameAndVar(export)  == [name |-> export.names[1], var |-> VarOf(export.names[2])]
NameAndLine(e)      == LET call == IF e.op = "invoke" THEN e ELSE
                                   IF e.kids[1].op = "block" THEN e.kids[1].kids[1]
                                   ELSE e.kids[1].kids[1].kids[1].kids[1]
                       IN [name |-> call.names[1], line |-> call.line,
                           nan |-> e.op = "assert_return_nan"]
FirstName(o)        == o.names[1]

\* Nothing is said of function_, which the parser does not set.
ImportOf(o) ==
  LET TypeOf(elem) == elem.type
  IN [id |-> o.names[1], host |-> Tail(o.names) \o Mapped(TypeOf, Elems(Fields(o, "param"))),
      results |-> Len(Fields(o, "result")), stray |-> FALSE]

ModuleOf(m) ==
  [ids |-> Mapped(FirstName, m.functions), calls |-> Mapped(CallsOf, m.functions),
   imports |-> Mapped(ImportOf, m.imports), exports |-> Mapped(NameAndVar, m.exports),
   line |-> m.line]

LinkedFile == [mods |-> Mapped(ModuleOf, InTextOrder), script |-> Mapped(NameAndLine, file.elems)]

FunctionNames == Ids \cup {Anonymous[n] : n \in 1..Len(Anonymous)}

Link == INSTANCE ModuleLink WITH
  Ids <- FunctionNames, Flat <- [id \in FunctionNames |-> <<>>],
  Symbols <- Hosts, Letters <- {}, MaxTail <- 0, Intrinsics <- {},
  file <- LinkedFile, checked <- TRUE, names <- <<>>, table <- <<>>, order <- <<>>,
  syms <- <<>>, last <- <<>>, bound <- {}, hosted <- {}, at <- <<>>

(***************************************************************************)
(* ModuleLink looks functions up in a file that it assumes to be one the   *)
(* parser builds: every file this parser builds is one, in particular no   *)
(* call has a line after that of its module, or before that of an earlier  *)
(* module, and the requests of the script come with ascending lines.       *)
(***************************************************************************)
LinkAssumed == Read /\ file.modules # <<>> => Link!IsParsedFile(LinkedFile)

-----------------------------------------------------------------------------
(***************************************************************************)
(* What ExprCodegen assumes of a function: its body as a sequence of       *)
(* nodes.  Forms the code generator treats alike have one operator there.  *)
(***************************************************************************)
Code == INSTANCE WasmAst WITH Names <- Labels

NodeOp(o) ==
  CASE o.op \in {"binop", "store"} -> "bin"
    [] o.op \in {"unop", "load", "grow_memory"} -> "set_local"
    [] o.op \in {"if", "if_else"} -> "if"
    [] o.op = "call_import" -> "call"
    [] o.op = "memory_size" -> "get_local"
    [] OTHER -> o.op

LabelOf(o) ==
  IF o.op \in {"block", "label", "loop", "switch", "br", "br_if"} /\ ~IsNumber(o.names[1])
  THEN o.names[1] ELSE NoName

\* The table of a switch and its default.
Definitions(o) ==
  LET at == CHOOSE i \in 1..Len(o.kids) : o.kids[i].op = "table"
  IN Append(o.kids[at].kids, o.kids[at + 1])

\* The operands of an expression, in the order of WasmAst.
Operands(o) ==
  LET IsCase(d)  == d.op = "case"
      IsBreak(d) == d.op \in {"br", "br_if"}
  IN CASE o.op = "switch" -> SelectSeq(SubSeq(o.kids, 4, Len(o.kids)), IsCase)
                               \o SelectSeq(Definitions(o), IsBreak) \o <<o.kids[1]>>
       [] o.op = "br_if"  -> Tail(o.kids) \o <<o.kids[1]>>
       [] OTHER           -> o.kids

\* The operand an entry of the table stands for.
EntryOf(o, d) ==
  LET defs     == Definitions(o)
      cases    == Len(o.kids) - 3
      breaks   == Cardinality({e \in 1..d : defs[e].op \in {"br", "br_if"}})
      named    == {c \in 1..cases : o.kids[c + 3].names[1] = defs[d].names[1]}
  IN IF defs[d].op \in {"br", "br_if"} THEN cases + breaks
     ELSE IF named = {} THEN 0 ELSE CHOOSE c \in named : \A e \in named : e <= c

Node(o, op, kids) ==
  [op |-> op, kids |-> kids, name |-> LabelOf(o),
   exit |-> IF o.op = "loop" THEN o.names[2] ELSE NoName,
   depth |-> IF o.op \in {"br", "br_if"} /\ IsNumber(o.names[1]) THEN NumberOf(o.names[1]) ELSE 0,
   ty |-> "i32", merge |-> TRUE, incoming |-> <<>>,
   cases |-> IF o.op = "switch" THEN Len(o.kids) - 3 ELSE 0,
   table |-> IF o.op = "switch" THEN [d \in 1..Len(Definitions(o)) |-> EntryOf(o, d)] ELSE <<>>,
   renamed |-> FALSE]

\* The nodes of an expression, from a position on.
RECURSIVE Nodes(_, _)
RECURSIVE Listed(_, _)

\* The nodes of expressions that follow each other, and where each begins.
Listed(objects, at) ==
  IF objects = <<>> THEN [nodes |-> <<>>, starts |-> <<>>]
  ELSE LET first == Nodes(Head(objects), at)
           rest  == Listed(Tail(objects), at + Len(first))
       IN [nodes |-> first \o rest.nodes, starts |-> <<at>> \o rest.starts]

Nodes(o, at) ==
  LET list == Listed(Operands(o), at + 1)
  IN <<Node(o, NodeOp(o), list.starts)>> \o list.nodes

Body(f) ==
  LET list == Listed(f.ast, 2)
  IN <<Node(Object("func", <<f.name>>, <<>>, 0), "func", list.starts)>> \o list.nodes

(***************************************************************************)
(* The code generator starts from functions of which it assumes that every *)
(* expression has the operands its constructor takes, and every switch its *)
(* cases, a default and a table: those the grammar lets through do, with   *)
(* the optional parts given or left out, in texts that are not well formed *)
(* as well.                                                                *)
(***************************************************************************)
CodegenAssumed == Read => \A i \in 1..Len(funs) : Code!IsParsed(Body(funs[i]))

-----------------------------------------------------------------------------
(***************************************************************************)
(* The variables of a function, as the text declares them.                 *)
(***************************************************************************)
DeclaredIn(positions) ==
  LET ps == Ordered({i \in positions : text[i].t = "atom" /\ text[i].op = "type"})
  IN [k \in 1..Len(ps) |->
        [name |-> IF text[ps[k] - 1].op = "id" THEN text[ps[k] - 1].val ELSE NoName,
         type |-> text[ps[k]].val]]

(***************************************************************************)
(* Variables are numbered in the order of the text, parameters before the  *)
(* locals wherever these are declared, in every function of every module,  *)
(* although lists of types are built from their ends.                      *)
(***************************************************************************)
LocalsNumbered ==
  Read /\ CommentsApart =>
    LET texts == Ordered({i \in IsRead : Opens(i) /\ text[i].op = "func"})
        InText(k) == DeclaredIn(IsRead \cap FormAt(texts[k]) \cap Forms({"param"}, 2))
                       \o DeclaredIn(IsRead \cap FormAt(texts[k]) \cap Forms({"local"}, 2))
        functions == FlattenSeq([m \in 1..Len(InTextOrder) |-> InTextOrder[m].functions])
    IN \A k \in 1..Len(functions) : \E i \in 1..Len(funs) :
         /\ funs[i].name = functions[k].names[1]
         /\ funs[i].values = InText(k)

-----------------------------------------------------------------------------
(***************************************************************************)
(* A well-formed script is read to its end: none of the lookaheads, lists  *)
(* and texts that are skipped makes the parser refuse or crash on one.     *)
(***************************************************************************)
WellFormedRead == script.valid => status \notin {"error", "crashed"}

(***************************************************************************)
(* The parser ends on every text, well formed or not, except in the search *)
(* for the end of an assert_invalid that has none.                         *)
(***************************************************************************)
Terminates == <>(Ended \/ (skip > 0 /\ pos > Len(text)))
=============================================================================
