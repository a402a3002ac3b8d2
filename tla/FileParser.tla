----------------------------- MODULE FileParser -----------------------------
(***************************************************************************)
(* From the text of a script to the WasmFile: the scanner of wasm.flex     *)
(* with its line counter, the LALR parser of wasm.ypp with the semantic    *)
(* actions that build modules, functions, fields and expressions, and what *)
(* WasmFunction::Populate and PopulateAllocas make of the fields.          *)
(*                                                                         *)
(* A keyword and the parenthesis before it are one lexeme, and so is the   *)
(* type in front of an operator.  What a name or number is written with is *)
(* left out, and so are the operators of one class, their signs and sizes. *)
(***************************************************************************)
EXTENDS Naturals, Sequences, SequencesExt, FiniteSets, TLC

CONSTANTS
  Scripts,  \* each a text, and whether it is well formed
  NoName,   \* the name of what has none
  Anonymous \* the names of functions that have none, in the order they come

(***************************************************************************)
(* Lexemes: "open" with a keyword, "close", "atom" with its class and its  *)
(* value, "newline", "comment" for one between (; and ;), "remark" for the *)
(* beginning of one that goes on to the end of the line.                   *)
(***************************************************************************)
Lexeme(t, op, val) == [t |-> t, op |-> op, val |-> val]

NoLexeme == Lexeme("none", "", "")
EOF      == Lexeme("eof", "", "")

(***************************************************************************)
(* Symbols on the stack of the parser: an atom, and what a semantic action *)
(* has made of a form: names, operands or fields, and a line.              *)
(***************************************************************************)
Object(op, names, kids, line) == [op |-> op, names |-> names, kids |-> kids, line |-> line]

Atom(op, val) == Object(op, <<val>>, <<>>, 0)

VARIABLES
  script,  \* the text that is read
  pos,     \* the next lexeme of the text
  line,    \* Globals::line_cnt_
  skip,    \* the count of parentheses while an assert_invalid is skipped, or 0
  look,    \* the lookahead of the parser
  stack,   \* the forms that are open, outermost first
  counts,  \* the static counters of WasmFunction and WasmModule
  file,    \* Globals::file_
  funs,    \* what Populate and PopulateAllocas have made of the functions
  status

vars == <<script, pos, line, skip, look, stack, counts, file, funs, status>>

(***************************************************************************)
(* A form that is open: the symbols on the stack since its parenthesis.    *)
(* Once its last list is being reduced, the symbols before the list, and   *)
(* what the list is collected in.                                          *)
(***************************************************************************)
Form(op) == [op |-> op, items |-> <<>>, folding |-> FALSE, head |-> 0, made |-> <<>>]

Init ==
  /\ script \in Scripts
  /\ pos = 1
  /\ line = 1
  /\ skip = 0
  /\ look = NoLexeme
  /\ stack = <<Form("file")>>
  /\ counts = [fun |-> 0, mod |-> 0]
  /\ file = <<>>
  /\ funs = <<>>
  /\ status = "parsing"

Stop(s) ==
  /\ status' = s
  /\ UNCHANGED <<script, pos, line, skip, look, stack, counts, file, funs>>

-----------------------------------------------------------------------------
(***************************************************************************)
(* The grammar: the symbols each form begins with, and the class of the    *)
(* symbols that may follow any number of times.                            *)
(***************************************************************************)
Rule(head, rest) == [head |-> head, rest |-> rest]

\* Mutated Expressions: a case may be used as an expression.
ExpressionsAndCases ==
  {"nop", "const", "get_local", "set_local", "if", "if_else", "call", "block", "loop", "br",
   "return", "switch", "case"}

Expressions ==
  {"nop", "unop", "binop", "const", "get_local", "set_local", "if", "if_else", "call",
   "call_import", "select", "unreachable", "label", "switch", "loop", "load", "store",
   "memory_size", "grow_memory", "br", "br_if", "block", "return", "has_feature"}

Class(c) ==
  CASE c = "E"      -> Expressions
    [] c = "var"    -> {"id", "int"}
    [] c = "field"  -> Expressions \cup {"param", "result", "local"}
    [] c = "ifield" -> {"param", "result"}
    [] c = "elem"   -> {"func", "export", "import", "memory"}
    [] c = "top"    -> {"module", "invoke", "assert_return", "assert_return_nan",
                        "assert_trap", "assert_invalid"}
    [] c = "def"    -> {"case", "case_index", "br", "br_if"}
    [] OTHER        -> {c}

Rules(op) ==
  CASE op = "file"              -> {Rule(<<>>, "top")}
    [] op = "module"            -> {Rule(<<>>, "elem")}
    [] op = "func"              -> {Rule(<<>>, "field"), Rule(<<"id">>, "field")}
    [] op \in {"param", "local"} -> {Rule(<<"type">>, "type"), Rule(<<"id", "type">>, "none")}
    [] op = "result"            -> {Rule(<<"type">>, "none")}
    [] op = "export"            -> {Rule(<<"str", "var">>, "none")}
    [] op = "import"            -> {Rule(<<"str", "str">>, "ifield"),
                                    Rule(<<"id", "str", "str">>, "ifield")}
    [] op = "memory"            -> {Rule(<<"int">>, "segment"), Rule(<<"int", "int">>, "segment")}
    [] op = "segment"           -> {Rule(<<"int", "str">>, "none")}
    [] op \in {"nop", "unreachable", "memory_size", "assert_invalid"} -> {Rule(<<>>, "none")}
    [] op = "const"             -> {Rule(<<"int">>, "none")}
    [] op = "get_local"         -> {Rule(<<"var">>, "none")}
    [] op = "set_local"         -> {Rule(<<"var", "E">>, "none")}
    [] op \in {"unop", "grow_memory", "return"} -> {Rule(<<"E">>, "none")}
    [] op \in {"binop", "if"}   -> {Rule(<<"E", "E">>, "none")}
    [] op = "load"              -> {Rule(<<"E">>, "none"), Rule(<<"info", "E">>, "none")}
    [] op = "store"             -> {Rule(<<"E", "E">>, "none"), Rule(<<"info", "E", "E">>, "none")}
    [] op \in {"if_else", "select"} -> {Rule(<<"E", "E", "E">>, "none")}
    [] op \in {"call", "call_import"} -> {Rule(<<"var">>, "E")}
    [] op = "label"             -> {Rule(<<"E">>, "none"), Rule(<<"var", "E">>, "none")}
    [] op = "block"             -> {Rule(<<>>, "E"), Rule(<<"id">>, "E")}
    [] op = "loop"              -> {Rule(<<>>, "E"), Rule(<<"var">>, "E"), Rule(<<"var", "var">>, "E")}
    [] op = "br"                -> {Rule(<<>>, "none"), Rule(<<"var">>, "none"), Rule(<<"var", "E">>, "none")}
    [] op = "br_if"             -> {Rule(<<"E", "var">>, "none"), Rule(<<"E", "var", "E">>, "none")}
    [] op = "case"              -> {Rule(<<"id">>, "E"), Rule(<<"int">>, "none")}
    [] op = "table"             -> {Rule(<<>>, "def")}
    [] op = "switch"            -> {Rule(<<"E", "table", "def">>, "case"),
                                    Rule(<<"id", "E", "table", "def">>, "case")}
    [] op = "has_feature"       -> {Rule(<<"str">>, "none")}
    [] op = "invoke"            -> {Rule(<<"str">>, "E")}
    [] op = "assert_return"     -> {Rule(<<"invoke">>, "E")}
    [] op = "assert_return_nan" -> {Rule(<<"invoke">>, "none")}
    [] op = "assert_trap"       -> {Rule(<<"invoke", "str">>, "none")}

\* An identifier with expressions is a case of the switch, not an entry of its table.
IsEntry(items, rule) ==
  rule.rest = "def" => \A i \in 1..Len(items) : items[i].op = "case" => items[i].kids = <<>>

\* What the scanner has as a keyword after a parenthesis.
Keywords ==
  {"nop", "unop", "binop", "const", "get_local", "set_local", "if", "if_else", "call",
   "call_import", "select", "unreachable", "label", "switch", "loop", "load", "store",
   "memory_size", "grow_memory", "br", "br_if", "block", "return", "has_feature", "case", "table",
   "param", "result", "local", "func", "export", "import", "memory", "segment",
   "module", "invoke", "assert_return", "assert_return_nan", "assert_trap", "assert_invalid"}

\* The classes of the other tokens.
Atoms == {"id", "int", "str", "type", "offset", "align"}

ASSUME ScriptsTyped ==
  \A s \in Scripts :
    /\ s.text \in Seq(ToSet(s.text))
    /\ \A i \in 1..Len(s.text) :
         /\ s.text[i].t = "open" => s.text[i].op \in Keywords
         /\ s.text[i].t = "atom" => s.text[i].op \in Atoms
         /\ s.text[i].t \notin {"open", "atom"} => s.text[i].op = ""

Matches(items, rule) ==
  /\ IsEntry(items, rule)
  /\ Len(items) >= Len(rule.head)
  /\ \A i \in 1..Len(rule.head) : items[i].op \in Class(rule.head[i])
  /\ \A i \in (Len(rule.head) + 1)..Len(items) : items[i].op \in Class(rule.rest)

(***************************************************************************)
(* EXPRESSIONS is left recursive: it is collected as the expressions come. *)
(* The other lists are right recursive, and collected from the last symbol *)
(* on when their end is in sight.                                          *)
(***************************************************************************)
RightRecursive(rule) == rule.rest \notin {"E", "none"}

-----------------------------------------------------------------------------
(***************************************************************************)
(* yylex: called when the parser needs a lookahead.                        *)
(***************************************************************************)
text == script.text

Scanning(t) ==
  /\ status = "parsing" /\ look = NoLexeme /\ skip = 0
  /\ pos <= Len(text) /\ text[pos].t \in t

Newline ==
  /\ Scanning({"newline"})
  /\ line' = line + 1
  /\ pos' = pos + 1
  /\ UNCHANGED <<script, skip, look, stack, counts, file, funs, status>>

SameLine(p, q) == \A i \in p..q : text[i].t # "newline"

(***************************************************************************)
(* The longest match of a comment ends with the last one on the line; a    *)
(* remark extends to the end of the line.                                  *)
(***************************************************************************)
Comment ==
  /\ Scanning({"comment", "remark"})
  /\ pos' = CHOOSE p \in (pos + 1)..(Len(text) + 1) :
              LET last == p - 1
              IN /\ SameLine(pos, last)
                 /\ IF text[pos].t = "remark"
                    THEN p > Len(text) \/ text[p].t = "newline"
                    ELSE /\ text[last].t = "comment"
                         /\ \A q \in p..Len(text) : SameLine(p, q) => text[q].t # "comment"
  /\ UNCHANGED <<script, line, skip, look, stack, counts, file, funs, status>>

(***************************************************************************)
(* The scanner reads over what assert_invalid contains before it returns   *)
(* the token.                                                              *)
(***************************************************************************)
Token ==
  /\ Scanning({"open", "close", "atom"})
  /\ look' = text[pos]
  /\ skip' = IF text[pos].op = "assert_invalid" THEN 1 ELSE 0
  /\ pos' = pos + 1
  /\ UNCHANGED <<script, line, stack, counts, file, funs, status>>

Skipping == status = "parsing" /\ skip > 0 /\ pos <= Len(text)

\* Mutated SkipInvalid: newlines in the skipped text are not counted.
SkipInvalidUncounted ==
  /\ Skipping
  /\ LET t == text[pos].t
         n == IF t = "open" THEN skip + 1 ELSE IF t = "close" THEN skip - 1 ELSE skip
     IN /\ skip' = n
        /\ pos' = IF n = 0 THEN pos ELSE pos + 1
  /\ UNCHANGED <<script, line, look, stack, counts, file, funs, status>>

\* Mutated SkipInvalid: the closing parenthesis is not put back.
SkipInvalidTaken ==
  /\ Skipping
  /\ LET t == text[pos].t
     IN /\ line' = IF t = "newline" THEN line + 1 ELSE line
        /\ skip' = IF t = "open" THEN skip + 1 ELSE IF t = "close" THEN skip - 1 ELSE skip
        /\ pos' = pos + 1
  /\ UNCHANGED <<script, look, stack, counts, file, funs, status>>

SkipInvalid ==
  /\ Skipping
  /\ LET t == text[pos].t
         n == IF t = "open" THEN skip + 1 ELSE IF t = "close" THEN skip - 1 ELSE skip
     IN /\ line' = IF t = "newline" THEN line + 1 ELSE line
        /\ skip' = n
        /\ pos' = IF n = 0 THEN pos ELSE pos + 1
  /\ UNCHANGED <<script, look, stack, counts, file, funs, status>>

(***************************************************************************)
(* At the end of the text the scanner reads EOF, which is not 0, for ever. *)
(***************************************************************************)
SkipPastEnd ==
  /\ status = "parsing" /\ skip > 0 /\ pos > Len(text)
  /\ UNCHANGED vars

EndOfText ==
  /\ status = "parsing" /\ look = NoLexeme /\ skip = 0 /\ pos > Len(text)
  /\ look' = EOF
  /\ UNCHANGED <<script, pos, line, skip, stack, counts, file, funs, status>>

-----------------------------------------------------------------------------
(***************************************************************************)
(* The parser.                                                             *)
(***************************************************************************)
Top == stack[Len(stack)]

Parsing(t) == status = "parsing" /\ skip = 0 /\ look.t \in t

(***************************************************************************)
(* The offset and the alignment of a load or store, in any order: they are *)
(* collected from the last one on when the address is in sight, and each   *)
(* may be given once.                                                      *)
(***************************************************************************)
OffsetAlignTokens == {"offset", "align"}

Listing ==
  /\ Top.op \in {"load", "store"} /\ look.op \notin OffsetAlignTokens
  /\ Top.items # <<>> /\ Top.items[1].op \in OffsetAlignTokens

OffsetAlignInformation(items) ==
  LET GivenAs(token) == {item \in ToSet(items) : item.op = token}
      Value(token)   == IF GivenAs(token) = {} THEN NoName
                        ELSE (CHOOSE item \in GivenAs(token) : TRUE).names[1]
  IN Object("info", <<Value("offset"), Value("align")>>, <<>>, 0)

OffsetAlign ==
  /\ Parsing({"open", "close", "atom", "eof"}) /\ Listing
  /\ IF \E i, j \in 1..Len(Top.items) : i # j /\ Top.items[i].op = Top.items[j].op
     THEN Stop("crashed")
     ELSE /\ stack' = [stack EXCEPT ![Len(stack)].items = <<OffsetAlignInformation(@)>>]
          /\ UNCHANGED <<script, pos, line, skip, look, counts, file, funs, status>>

Shift ==
  /\ Parsing({"open", "atom"}) /\ ~Listing
  /\ stack' = IF look.t = "open" THEN Append(stack, Form(look.op))
              ELSE [stack EXCEPT ![Len(stack)].items = Append(@, Atom(look.op, look.val))]
  /\ look' = NoLexeme
  /\ UNCHANGED <<script, pos, line, skip, counts, file, funs, status>>

(***************************************************************************)
(* The empty list is reduced when the lookahead ends the form: a module is *)
(* created then, with the line of the parenthesis that closes it.          *)
(***************************************************************************)
Ends == Parsing({"close"}) \/ (Parsing({"eof"}) /\ Len(stack) = 1)

Created(op, l) ==
  CASE op = "module" -> [op |-> "module", num |-> counts.mod, line |-> l, functions |-> <<>>,
                         exports |-> <<>>, imports |-> <<>>, memory |-> NoName, max |-> NoName,
                         segments |-> <<>>]
    [] op = "file"   -> [modules |-> <<>>, elems |-> <<>>]
    [] OTHER         -> <<>>

\* Mutated EmptyList: the line is the one where the module begins.
EmptyListLate ==
  /\ Ends /\ ~Top.folding
  /\ \E rule \in Rules(Top.op) :
       /\ Matches(Top.items, rule) /\ RightRecursive(rule)
       /\ stack' = [stack EXCEPT ![Len(stack)] =
                      [Top EXCEPT !.folding = TRUE, !.head = Len(rule.head),
                                  !.made = Created(Top.op, 1)]]
       /\ counts' = IF Top.op = "module" THEN [counts EXCEPT !.mod = @ + 1] ELSE counts
  /\ UNCHANGED <<script, pos, line, skip, look, file, funs, status>>

EmptyList ==
  /\ Ends /\ ~Top.folding
  /\ \E rule \in Rules(Top.op) :
       /\ Matches(Top.items, rule) /\ RightRecursive(rule)
       /\ stack' = [stack EXCEPT ![Len(stack)] =
                      [Top EXCEPT !.folding = TRUE, !.head = Len(rule.head),
                                  !.made = Created(Top.op, line)]]
       /\ counts' = IF Top.op = "module" THEN [counts EXCEPT !.mod = @ + 1] ELSE counts
  /\ UNCHANGED <<script, pos, line, skip, look, file, funs, status>>

(***************************************************************************)
(* A list takes the symbol before it: at its front, but the modules of a   *)
(* file and the segments of a memory at the end.                           *)
(***************************************************************************)
AddElem(module, item) ==
  CASE item.op = "func"   -> [module EXCEPT !.functions = <<item>> \o @]
    [] item.op = "export" -> [module EXCEPT !.exports = <<item>> \o @]
    [] item.op = "import" -> [module EXCEPT !.imports = <<item>> \o @]
    [] item.op = "memory" -> [module EXCEPT !.memory = item.names[1], !.segments = item.kids,
                                            !.max = item.names[2]]

\* Mutated AddTop: a request is put at the end, as a module is.
AddTopAtEnd(f, item) ==
  CASE item.op = "module"         -> [f EXCEPT !.modules = Append(@, item)]
    [] item.op = "assert_invalid" -> f
    [] OTHER                      -> [f EXCEPT !.elems = Append(@, item)]

AddTop(f, item) ==
  CASE item.op = "module"         -> [f EXCEPT !.modules = Append(@, item)]
    [] item.op = "assert_invalid" -> f
    [] OTHER                      -> [f EXCEPT !.elems = <<item>> \o @]

Added(op, made, item) ==
  CASE op = "module" -> AddElem(made, item)
    [] op = "file"   -> AddTop(made, item)
    [] op = "memory" -> Append(made, item)
    [] OTHER         -> <<item>> \o made

HasMemory(item) == Top.op = "module" /\ item.op = "memory" /\ Top.made.memory # NoName

Fold ==
  /\ Ends /\ Top.folding /\ Len(Top.items) > Top.head
  /\ LET item == Top.items[Len(Top.items)]
     IN IF HasMemory(item)
        THEN Stop("crashed")
        ELSE /\ stack' = [stack EXCEPT ![Len(stack)] =
                            [Top EXCEPT !.items = SubSeq(@, 1, Len(@) - 1),
                                        !.made = Added(Top.op, @, item)]]
             /\ UNCHANGED <<script, pos, line, skip, look, counts, file, funs, status>>

-----------------------------------------------------------------------------
(***************************************************************************)
(* The semantic actions of the other forms.                                *)
(***************************************************************************)
AtomClasses == {"id", "int", "str", "type", "info"}

IsAtom(item) == item.op \in AtomClasses

AtomsOf(items) == LET atoms == SelectSeq(items, IsAtom)
                  IN [i \in 1..Len(atoms) |-> atoms[i].names[1]]

FormsOf(items) ==
  LET forms[n \in 0..Len(items)] ==
        IF n = 0 THEN <<>>
        ELSE IF IsAtom(items[n]) THEN forms[n - 1] ELSE Append(forms[n - 1], items[n])
  IN forms[Len(items)]

\* The line of the parenthesis that closes a form, where the node has a line.
LineOf(op) ==
  IF op \in {"call", "call_import", "invoke", "assert_return", "assert_return_nan", "assert_trap"}
  THEN line ELSE 0

(***************************************************************************)
(* A Local: a name with a type, or the types in front of each other.       *)
(***************************************************************************)
Locals(items) ==
  IF items[1].op = "id" THEN <<[name |-> items[1].names[1], type |-> items[2].names[1]]>>
  ELSE [i \in 1..Len(items) |-> [name |-> NoName, type |-> items[i].names[1]]]

\* Mutated LoopNames: the names come as they are written.
LoopNamesAsWritten(given) ==
  CASE Len(given) = 0 -> <<NoName, NoName>>
    [] Len(given) = 1 -> <<given[1], NoName>>
    [] Len(given) = 2 -> given

(***************************************************************************)
(* A loop has a name of its own, and one of its exit: the exit is written  *)
(* first when there are two.                                               *)
(***************************************************************************)
LoopNames(given) ==
  CASE Len(given) = 0 -> <<NoName, NoName>>
    [] Len(given) = 1 -> <<given[1], NoName>>
    [] Len(given) = 2 -> <<given[2], given[1]>>

(***************************************************************************)
(* SetOffsetAlign: what is not given has its default.                      *)
(***************************************************************************)
OffsetAlignOf(items) == IF items[1].op = "info" THEN items[1].names ELSE <<NoName, NoName>>

NamesOf(op, items) ==
  LET given == AtomsOf(items)
  IN CASE op \in {"load", "store"}  -> OffsetAlignOf(items)
       [] op \in {"param", "local"} -> Locals(items)
       [] op = "loop" -> LoopNames(given)
       [] op \in {"label", "block", "switch", "br"} /\ given = <<>> -> <<NoName>>
       [] op = "func" /\ given = <<>> -> <<Anonymous[counts.fun + 1]>>
       [] op = "memory" /\ Len(given) = 1 -> Append(given, NoName)
       [] OTHER -> given

(***************************************************************************)
(* An assertion is an expression that returns -1 or its line; one of a     *)
(* trap returns its message.                                               *)
(***************************************************************************)
Number(n) == Object("const", <<n>>, <<>>, 0)
Success   == Number("-1")
Sequence(exprs) == Object("block", <<NoName>>, exprs, 0)

Compared(call, expected) ==
  LET equal == Object("binop", <<>>, <<call, expected>>, 0)
  IN Object("return", <<>>,
            <<Object("if_else", <<>>, <<equal, Success, Number(ToString(line))>>, 0)>>, 0)

Assertion(op, parts) ==
  CASE op = "assert_return_nan" -> Compared(parts[1], Number("nan"))
    [] op = "assert_trap" ->
         Sequence(<<parts[1], Object("string", parts[2].names, <<>>, 0)>>)
    [] op = "assert_return" /\ Len(parts) = 1 -> Sequence(<<parts[1], Success>>)
    [] op = "assert_return" /\ Len(parts) = 2 -> Compared(parts[1], parts[2])

Assertions == {"assert_return", "assert_return_nan", "assert_trap"}

Reduced(form) ==
  LET op    == form.op
      parts == form.items \o form.made
  IN CASE op = "module" -> form.made
       [] op \in Assertions -> Object(op, <<>>, <<Assertion(op, parts)>>, line)
       [] op = "has_feature" -> Number(IF parts[1].names[1] = "wasm" THEN "1" ELSE "0")
       [] op = "case" /\ parts[1].op = "int" -> Object("case_index", AtomsOf(parts), <<>>, 0)
       [] OTHER -> Object(op, NamesOf(op, parts), FormsOf(parts), LineOf(op))

(***************************************************************************)
(* A function import that has no name is constructed from a null string,   *)
(* and an assertion has one result at most.                                *)
(***************************************************************************)
Refused(form) ==
  \/ form.op = "import" /\ form.items[1].op # "id"
  \/ form.op = "assert_return" /\ Len(form.items) > 2

Ready(form) ==
  IF form.folding THEN Len(form.items) = form.head
  ELSE \E rule \in Rules(form.op) : Matches(form.items, rule) /\ ~RightRecursive(rule)

Close ==
  /\ Parsing({"close"}) /\ Len(stack) > 1 /\ Ready(Top)
  /\ IF Refused(Top)
     THEN Stop("crashed")
     ELSE /\ stack' = [Front(stack) EXCEPT ![Len(stack) - 1].items = Append(@, Reduced(Top))]
          /\ counts' = IF Top.op = "func" /\ AtomsOf(Top.items) = <<>>
                       THEN [counts EXCEPT !.fun = @ + 1] ELSE counts
          /\ look' = NoLexeme
          /\ UNCHANGED <<script, pos, line, skip, file, funs, status>>

EndOfFile ==
  /\ Parsing({"eof"}) /\ Len(stack) = 1 /\ Top.folding /\ Ready(Top)
  /\ file' = Top.made
  /\ status' = "parsed"
  /\ UNCHANGED <<script, pos, line, skip, look, stack, counts, funs>>

\* Mutated SyntaxError: the lookahead is discarded, and parsing goes on.
SyntaxErrorDiscards ==
  /\ ~Listing
  /\ \/ Ends /\ ~Top.folding /\ ~\E rule \in Rules(Top.op) : Matches(Top.items, rule)
     \/ Parsing({"close"}) /\ Len(stack) = 1
     \/ Parsing({"eof"}) /\ Len(stack) > 1
  /\ look' = NoLexeme
  /\ UNCHANGED <<script, pos, line, skip, stack, counts, file, funs, status>>

(***************************************************************************)
(* A form that no rule matches when it ends, and ends without beginnings   *)
(* or the other way round.                                                 *)
(***************************************************************************)
SyntaxError ==
  /\ ~Listing
  /\ \/ Ends /\ ~Top.folding /\ ~\E rule \in Rules(Top.op) : Matches(Top.items, rule)
     \/ Parsing({"close"}) /\ Len(stack) = 1
     \/ Parsing({"eof"}) /\ Len(stack) > 1
  /\ Stop("error")

-----------------------------------------------------------------------------
(***************************************************************************)
(* WasmFunction::Populate, when the prototypes are generated, and          *)
(* PopulateAllocas, when the bodies are; both in the order of modules_.    *)
(***************************************************************************)
Functions == FlattenSeq([i \in 1..Len(file.modules) |-> file.modules[i].functions])

Fields(f, op) == LET Is(field) == field.op = op IN SelectSeq(f.kids, Is)

Elems(fields) == FlattenSeq([i \in 1..Len(fields) |-> fields[i].names])

Populated(f) ==
  LET results == Fields(f, "result")
      IsExpression(field) == field.op \notin {"param", "result", "local"}
  IN [name   |-> f.names[1],
      params |-> Fields(f, "param"),
      locals |-> Fields(f, "local"),
      ast    |-> SelectSeq(f.kids, IsExpression),
      result |-> IF Len(results) = 1 THEN results[1].names[1] ELSE "void",
      values |-> <<>>,
      generated |-> FALSE]

Populate ==
  /\ status = "parsed" /\ Len(funs) < Len(Functions)
  /\ funs' = Append(funs, Populated(Functions[Len(funs) + 1]))
  /\ UNCHANGED <<script, pos, line, skip, look, stack, counts, file, status>>

\* Mutated Allocated: the locals come first.
AllocatedLocalsFirst(f) == Elems(f.locals) \o Elems(f.params)

(***************************************************************************)
(* vector_values_, with the name each entry has in map_values_ if no later *)
(* one has it.                                                             *)
(***************************************************************************)
Allocated(f) == Elems(f.params) \o Elems(f.locals)

PopulateAllocas ==
  /\ status = "parsed" /\ Len(funs) = Len(Functions)
  /\ \E i \in 1..Len(funs) :
       /\ ~funs[i].generated /\ \A j \in 1..(i - 1) : funs[j].generated
       /\ funs' = [funs EXCEPT ![i].values = Allocated(funs[i]), ![i].generated = TRUE]
  /\ UNCHANGED <<script, pos, line, skip, look, stack, counts, file, status>>

Done ==
  /\ status = "parsed" /\ Len(funs) = Len(Functions)
  /\ \A i \in 1..Len(funs) : funs[i].generated
  /\ Stop("done")

Ended == status \in {"done", "error", "crashed"}

Terminated == Ended /\ UNCHANGED vars

Step ==
  \/ Newline \/ Comment \/ Token \/ SkipInvalid \/ SkipPastEnd \/ EndOfText
  \/ OffsetAlign \/ Shift \/ EmptyList \/ Fold \/ Close \/ EndOfFile \/ SyntaxError
  \/ Populate \/ PopulateAllocas \/ Done

Next == Step \/ Terminated

Spec == Init /\ [][Next]_vars

(***************************************************************************)
(* The compiler is one thread that never waits: it takes a step whenever   *)
(* it can.                                                                 *)
(***************************************************************************)
FairSpec == Spec /\ WF_vars(Step)

-----------------------------------------------------------------------------
(***************************************************************************)
(* Types; the line counts the newlines that have been scanned, those in an *)
(* assert_invalid that is skipped included, and only the innermost form is *)
(* being collected.                                                        *)
(***************************************************************************)
TypeOK ==
  /\ pos \in 1..(Len(text) + 1)
  /\ skip \in Nat /\ (skip > 0 => look.op = "assert_invalid")
  /\ line = 1 + Cardinality({i \in 1..(pos - 1) : text[i].t = "newline"})
  /\ counts \in [fun : Nat, mod : Nat]
  /\ status \in {"parsing", "parsed", "done", "error", "crashed"}
  /\ Len(stack) > 0
  /\ \A i \in 1..Len(stack) :
       /\ stack[i].op = "file" <=> i = 1
       /\ stack[i].folding => status # "parsing" \/ i = Len(stack)
       /\ stack[i].head <= Len(stack[i].items)

(***************************************************************************)
(* The lines of what objects consist of, where they have one.  A text of n *)
(* lexemes has no form in more than n others.                              *)
(***************************************************************************)
Within(objects) ==
  LET within[n \in 0..Len(text)] ==
        IF n = 0 THEN ToSet(objects)
        ELSE LET near == within[n - 1] IN near \cup UNION {ToSet(o.kids) : o \in near}
  IN within[Len(text)]

LinedUp(objects, first, last) ==
  \A o \in Within(objects) : o.line > 0 => first <= o.line /\ o.line <= last

(***************************************************************************)
(* Lines are taken when forms are reduced, and lists are collected from    *)
(* their ends into others that are filled at the front and at the end.     *)
(* Still the lines of the file do not decrease along the text: no call has *)
(* a line after that of its module or before that of a module above it, no *)
(* part of a request a line after its own or before that of a request      *)
(* above it.  Calls and exports are looked up by comparing these lines.    *)
(***************************************************************************)
LinesInOrder ==
  status \in {"parsed", "done"} =>
    /\ \A m \in 1..Len(file.modules) :
         LET module == file.modules[m]
         IN /\ LinedUp(module.functions, 0, module.line)
            /\ \A above \in (m + 1)..Len(file.modules) :
                 /\ file.modules[above].line <= module.line
                 /\ LinedUp(module.functions, file.modules[above].line, module.line)
    /\ \A e \in 1..Len(file.elems) :
         LET request == file.elems[e]
         IN /\ LinedUp(<<request>>, 0, request.line)
            /\ \A above \in 1..(e - 1) :
                 LinedUp(<<request>>, file.elems[above].line, request.line)
=============================================================================
