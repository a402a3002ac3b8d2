----------------------------- MODULE ModuleLink -----------------------------
(***************************************************************************)
(* The modules of a script and the functions their calls are bound to:     *)
(* WasmFile::Initialize, WasmFile::Generate and the tables of WasmModule.  *)
(* The names of the functions are mangled, the tables are filled, the      *)
(* calls are looked up while the bodies are generated, and the tables are  *)
(* replaced by the exports module after module; then the script's invokes  *)
(* are looked up.  Functions of the host and intrinsics of LLVM are        *)
(* declared where they are used.  What is generated besides calls is left  *)
(* out.                                                                    *)
(*                                                                         *)
(* Modules are numbered in the order of the text.  The grammar is right    *)
(* recursive, so that WasmFile::modules_ holds the last one first.  Module *)
(* 0 is the script module.                                                 *)
(***************************************************************************)
EXTENDS Naturals, Sequences, FiniteSets

CONSTANTS
  Ids,       \* names of functions in the text
  Exported,  \* names of exports
  Symbols,   \* what names are written with, besides digits
  Flat,      \* what MangleFunctionName makes of a name
  Letters,   \* the letters it adds to make a name unique
  Intrinsics, \* names of intrinsics
  MaxTail    \* bound on the number of these letters

ASSUME FlatTyped      == Flat \in [Ids -> Seq(Symbols \cup Nat)]
ASSUME LettersTyped   == Letters \subseteq Symbols
ASSUME MaxTailTyped   == MaxTail \in Nat
ASSUME KindsDisjoint  == Ids \cap Nat = {}
ASSUME IntrinsicsTyped == Intrinsics \subseteq Symbols \ Nat

(***************************************************************************)
(* A mangled name: the prefix of the module, which ends in an underscore,  *)
(* and text.  Names of the host and of intrinsics have the prefix of no    *)
(* module.  LLVM appends a number to a name that is taken.                 *)
(***************************************************************************)
Names == [mod : Nat, text : Seq(Symbols \cup Nat)]

\* A name in the text begins with a dollar, or is made by the parser.
ASSUME IdsUnlikeNames == Ids \cap Names = {}

Mangled(m, id, tail) == [mod |-> m, text |-> Flat[id] \o tail]

Numbered(name, n) == [name EXCEPT !.text = Append(@, n)]

(***************************************************************************)
(* A call names its callee or gives its index, and knows its line; what    *)
(* uses an intrinsic is a call, too.  An import has the name of the host's *)
(* module and function and the types of its parameters, which make the     *)
(* full name (it has underscores, which no intrinsic has), and a number of *)
(* results.  It is stray when function_, which its constructor leaves as   *)
(* the memory was, happens not to be null.  The line of a module is the    *)
(* one of its last parenthesis; nan marks an assert_return_nan.            *)
(***************************************************************************)
Calls   == [kind : {"call", "import"}, var : Ids \cup Nat, line : Nat]
           \cup [kind : {"intrinsic"}, var : Intrinsics, line : Nat]
Imports == [id : Ids, host : Seq((Symbols \cup Nat) \ Intrinsics), results : Nat,
            stray : BOOLEAN]
Exports == [name : Exported, var : Ids \cup Nat]
Modules == [ids : Seq(Ids), calls : Seq(Seq(Calls)), imports : Seq(Imports),
            exports : Seq(Exports), line : Nat]
Invokes == [name : Exported, line : Nat, nan : BOOLEAN]
Files   == [mods : Seq(Modules), script : Seq(Invokes)]

(***************************************************************************)
(* What the parser builds: a body for each function, and lines that do not *)
(* decrease along the text.                                                *)
(***************************************************************************)
IsParsedFile(f) ==
  /\ f \in Files
  /\ Len(f.mods) > 0
  /\ \A m \in 1..Len(f.mods) :
       /\ Len(f.mods[m].calls) = Len(f.mods[m].ids)
       /\ \A l \in 1..m : f.mods[l].line <= f.mods[m].line
       /\ \A i \in 1..Len(f.mods[m].calls) : \A k \in 1..Len(f.mods[m].calls[i]) :
            /\ f.mods[m].calls[i][k].line <= f.mods[m].line
            /\ m > 1 => f.mods[m - 1].line <= f.mods[m].calls[i][k].line
  /\ \A j \in 2..Len(f.script) : f.script[j - 1].line <= f.script[j].line

VARIABLES
  file,     \* the modules and the script, as parsed
  checked,  \* GetDisableVerificationOptimization is false
  names,    \* the mangled names of the functions of each module, so far
  table,    \* map_functions_ of each module
  order,    \* vector_functions_ of each module
  syms,     \* the functions of each LLVM module, with the names LLVM gave them
  last,     \* the last number LLVM appended to a name of the module
  bound,    \* the calls generated so far
  hosted,   \* those of functions of the host and of intrinsics
  at        \* where the compiler is

vars == <<file, checked, names, table, order, syms, last, bound, hosted, at>>

Mods == 1..Len(file.mods)

At(step, m, i, k) == [step |-> step, m |-> m, i |-> i, k |-> k]

Init ==
  /\ IsParsedFile(file)
  /\ checked \in BOOLEAN
  /\ names = [m \in 0..Len(file.mods) |-> <<>>]
  /\ table = [m \in 0..Len(file.mods) |-> {}]
  /\ order = [m \in 0..Len(file.mods) |-> <<>>]
  /\ syms  = [m \in 0..Len(file.mods) |-> {}]
  /\ last  = [m \in 0..Len(file.mods) |-> 0]
  /\ bound = {}
  /\ hosted = {}
  /\ at = At("initialize", Len(file.mods), 1, 1)

Stop(step) ==
  /\ at' = [at EXCEPT !.step = step]
  /\ UNCHANGED <<file, checked, names, table, order, syms, last, bound, hosted>>

-----------------------------------------------------------------------------
(***************************************************************************)
(* map_hash_association_, and map_reversed_hash_association_ in the other  *)
(* direction: RegisterMangle asserts that neither is overwritten.          *)
(***************************************************************************)
Registered(m) ==
  {[id |-> file.mods[m].ids[i], name |-> names[m][i]] : i \in 1..Len(names[m])}

DoesMangledNameExist(m, name) == \E r \in Registered(m) : r.name = name

\* Mutated UniqueName: the loop is left after the first letter.
UniqueNameOneLetter(m, id, tail) ==
  IF tail = <<>> THEN ~DoesMangledNameExist(m, Mangled(m, id, <<>>))
  ELSE Len(tail) = 1 /\ DoesMangledNameExist(m, Mangled(m, id, <<>>))

(***************************************************************************)
(* The letters added when the loop that looks for a unique name ends: as   *)
(* long as the name existed another one was added.                         *)
(***************************************************************************)
UniqueName(m, id, tail) ==
  /\ ~DoesMangledNameExist(m, Mangled(m, id, tail))
  /\ \A n \in 0..(Len(tail) - 1) :
       DoesMangledNameExist(m, Mangled(m, id, SubSeq(tail, 1, n)))

Tails == UNION {[1..n -> Letters] : n \in 0..MaxTail}

(***************************************************************************)
(* MangleFunctionName of the next function of the module.                  *)
(***************************************************************************)
MangleNext ==
  /\ at.step = "initialize"
  /\ at.i <= Len(file.mods[at.m].ids)
  /\ LET id == file.mods[at.m].ids[at.i]
     IN IF \E r \in Registered(at.m) : r.id = id
        THEN Stop("crashed")
        ELSE /\ \E tail \in Tails :
                  /\ UniqueName(at.m, id, tail)
                  /\ names' = [names EXCEPT ![at.m] = Append(@, Mangled(at.m, id, tail))]
             /\ at' = [at EXCEPT !.i = @ + 1]
             /\ UNCHANGED <<file, checked, table, order, syms, last, bound, hosted>>

(***************************************************************************)
(* WasmModule::Initialize, when all functions have their names: the tables *)
(* and the definitions.  It is done module by module, the last one first.  *)
(***************************************************************************)
InitializeModule ==
  /\ at.step = "initialize"
  /\ at.i > Len(file.mods[at.m].ids)
  /\ LET m   == at.m
         fns == 1..Len(names[m])
     IN /\ table' = [table EXCEPT ![m] = {[key |-> names[m][i], fun |-> i] : i \in fns}]
        /\ order' = [order EXCEPT ![m] = [i \in fns |-> i]]
        /\ syms'  = [syms EXCEPT ![m] = {[name |-> names[m][i], of |-> <<m, i>>] : i \in fns}]
        /\ at' = IF m > 1 THEN At("initialize", m - 1, 1, 1)
                 ELSE At("generate", Len(file.mods), 1, 1)
  /\ UNCHANGED <<file, checked, names, last, bound, hosted>>

-----------------------------------------------------------------------------
(***************************************************************************)
(* Look-ups.  A result is a set with a function, a pair of a module and an *)
(* index, or the empty set for nullptr.                                    *)
(***************************************************************************)
OrElse(found, other) == IF found # {} THEN found ELSE other

InTable(m, key) == {<<m, e.fun>> : e \in {x \in table[m] : x.key = key}}

Hashed(m, key)   == {r.name : r \in {x \in Registered(m) : x.id = key}}
Reversed(m, key) == {r.id : r \in {x \in Registered(m) : x.name = key}}

(***************************************************************************)
(* WasmModule::GetWasmFunction within the module: the name itself, the     *)
(* mangled name of it, or the name it is the mangled one of.               *)
(***************************************************************************)
ModuleFind(m, key) ==
  OrElse(InTable(m, key),
    OrElse(UNION {InTable(m, h) : h \in Hashed(m, key)},
           UNION {InTable(m, r) : r \in Reversed(m, key)}))

Finders(key, line) == {m \in Mods : file.mods[m].line <= line /\ ModuleFind(m, key) # {}}

\* Mutated FileFind: in the order of the text.
FileFindFirst(key, line) ==
  UNION {ModuleFind(m, key) : m \in {x \in Finders(key, line) :
           \A y \in Finders(key, line) : x <= y}}

\* Mutated FileFind: a module that ends on the line of the call is skipped too.
FileFindStrict(key, line) ==
  UNION {ModuleFind(m, key) : m \in {x \in Finders(key, line) :
           file.mods[x].line # line /\ \A y \in Finders(key, line) : y <= x}}

(***************************************************************************)
(* WasmFile::GetWasmFunction: the first of modules_ that has it, which is  *)
(* the last of the text; modules that end on a later line are skipped.     *)
(***************************************************************************)
FileFind(key, line) ==
  UNION {ModuleFind(m, key) : m \in {x \in Finders(key, line) :
           \A y \in Finders(key, line) : y <= x}}

(***************************************************************************)
(* WasmModule::GetWasmFunction with check_file, from module m: each name   *)
(* is looked up in the table of the module, then in the file.  outside     *)
(* says that the file was asked.                                           *)
(***************************************************************************)
InternalFind(m, key, line) ==
  OrElse({[to |-> f, outside |-> FALSE] : f \in InTable(m, key)},
         {[to |-> f, outside |-> TRUE] : f \in FileFind(key, line)})

LookUp(m, key, line) ==
  OrElse(InternalFind(m, key, line),
    OrElse(UNION {InternalFind(m, h, line) : h \in Hashed(m, key)},
           UNION {InternalFind(m, r, line) : r \in Reversed(m, key)}))

\* Mutated ByIndex: functions are counted from one.
ByIndexFromOne(m, idx) ==
  {[to |-> <<m, order[m][i]>>, outside |-> FALSE] : i \in {idx} \cap (1..Len(order[m]))}

\* Mutated ByIndex: the index is not compared with the number of functions.
ByIndexUnchecked(m, idx) == {[to |-> <<m, idx + 1>>, outside |-> FALSE]}

(***************************************************************************)
(* WasmModule::GetWasmFunction of an index.                                *)
(***************************************************************************)
ByIndex(m, idx) ==
  {[to |-> <<m, order[m][i]>>, outside |-> FALSE] : i \in {idx + 1} \cap (1..Len(order[m]))}

NameOf(f) == names[f[1]][f[2]]

(***************************************************************************)
(* Function::Create in LLVM module m, of a prototype for f as well: when   *)
(* the name is taken, the next number that makes it unique is appended.    *)
(***************************************************************************)
Taken(m) == {s.name : s \in syms[m]}

NextNumber(m, name) ==
  LET free == {n \in (last[m] + 1)..(last[m] + Cardinality(syms[m]) + 1) :
                 Numbered(name, n) \notin Taken(m)}
  IN CHOOSE n \in free : \A x \in free : n <= x

NewName(m, name) ==
  IF name \in Taken(m) THEN Numbered(name, NextNumber(m, name)) ELSE name

CreateFunction(m, name, of) ==
  /\ syms' = [syms EXCEPT ![m] = @ \cup {[name |-> NewName(m, name), of |-> of]}]
  /\ last' = IF name \in Taken(m) THEN [last EXCEPT ![m] = NextNumber(m, name)] ELSE last

\* Mutated CreatePrototype: the prototype goes to the module of the callee.
CreatePrototypeInCallee(m, f) ==
  /\ syms' = [syms EXCEPT ![f[1]] = @ \cup {[name |-> NameOf(f), of |-> f]}]
  /\ last' = last

\* Mutated CreatePrototype: with the type of the first function of the module.
CreatePrototypeOfFirst(m, f) == CreateFunction(m, NameOf(f), <<f[1], 1>>)

CreatePrototype(m, f) == CreateFunction(m, NameOf(f), f)

(***************************************************************************)
(* A call generated in module m, as instruction k of function i: it is     *)
(* printed with the name of its callee.  Function typed says what the      *)
(* result is compared with.                                                *)
(***************************************************************************)
Bind(m, i, k, r, typed) ==
  /\ bound' = bound \cup {[in |-> m, fun |-> i, call |-> k, to |-> r.to, typed |-> typed]}
  /\ IF r.outside THEN CreatePrototype(m, r.to) ELSE UNCHANGED <<syms, last>>

-----------------------------------------------------------------------------
(***************************************************************************)
(* A function of the host or an intrinsic, printed in a call.  In syms the *)
(* former is <<0, i>> for import i of the module, the latter <<0, 0>>.     *)
(***************************************************************************)
PrintHosted(m, i, k, name) ==
  hosted' = hosted \cup {[in |-> m, fun |-> i, call |-> k, name |-> name]}

FullName(m, i) == [mod |-> 0, text |-> file.mods[m].imports[i].host]

(***************************************************************************)
(* GetWasmImportFunction: the map has the last import of a name.           *)
(***************************************************************************)
ImportFind(m, var) ==
  LET imports == file.mods[m].imports
  IN {i \in 1..Len(imports) :
        IF var \in Ids
        THEN imports[i].id = var /\ \A j \in (i + 1)..Len(imports) : imports[j].id # var
        ELSE i = var + 1}

\* Mutated Created: function_ is not kept.
CreatedAnew(m, i) == {}

(***************************************************************************)
(* function_ of an import, once GetFunction has created it.                *)
(***************************************************************************)
Created(m, i) == {s \in syms[m] : s.of = <<0, i>>}

(***************************************************************************)
(* Populate collects the parameters of an import and asserts that it has   *)
(* one result at most.                                                     *)
(***************************************************************************)
Populates(m, i) == file.mods[m].imports[i].results <= 1

(***************************************************************************)
(* GetFunction has a function to answer with: the one it has created, or a *)
(* new one.  A stray function_ is taken for one, and is none.              *)
(***************************************************************************)
Usable(m, i) ==
  ~file.mods[m].imports[i].stray /\ (Created(m, i) # {} \/ Populates(m, i))

(***************************************************************************)
(* WasmImportFunction::GetFunction in the call k of function f.            *)
(***************************************************************************)
UseImport(m, f, k, i) ==
  IF Created(m, i) # {}
  THEN /\ \E s \in Created(m, i) : PrintHosted(m, f, k, s.name)
       /\ UNCHANGED <<syms, last>>
  ELSE /\ PrintHosted(m, f, k, NewName(m, FullName(m, i)))
       /\ CreateFunction(m, FullName(m, i), <<0, i>>)

(***************************************************************************)
(* GetOrCreateIntrinsic.  LLVM finds a declaration that is there in the    *)
(* intrinsic module, the first of modules_; elsewhere one is created for   *)
(* each use.                                                               *)
(***************************************************************************)
IntrinsicName(v) == [mod |-> 0, text |-> <<v>>]

IntrinsicModule == Len(file.mods)

UseIntrinsic(m, f, k, v) ==
  IF m = IntrinsicModule /\ IntrinsicName(v) \in Taken(m)
  THEN PrintHosted(m, f, k, IntrinsicName(v)) /\ UNCHANGED <<syms, last>>
  ELSE /\ PrintHosted(m, f, k, NewName(m, IntrinsicName(v)))
       /\ CreateFunction(m, IntrinsicName(v), <<0, 0>>)

-----------------------------------------------------------------------------
BodyOf(m, i) == file.mods[m].calls[i]

AtFunction == at.step = "generate" /\ at.i <= Len(file.mods[at.m].ids)

CallAt == BodyOf(at.m, at.i)[at.k]

AtCall(kind) == AtFunction /\ at.k <= Len(BodyOf(at.m, at.i)) /\ CallAt.kind = kind

(***************************************************************************)
(* CallExpression::Codegen of the next call of the function.               *)
(***************************************************************************)
GenerateCall ==
  /\ AtCall("call")
  /\ LET callee == IF CallAt.var \in Ids THEN LookUp(at.m, CallAt.var, CallAt.line)
                   ELSE ByIndex(at.m, CallAt.var)
     IN IF callee = {}
        THEN Stop("crashed")
        ELSE /\ \E r \in callee : Bind(at.m, at.i, at.k, r, r.to)
             /\ at' = [at EXCEPT !.k = @ + 1]
             /\ UNCHANGED <<file, checked, names, table, order, hosted>>

(***************************************************************************)
(* CallImportExpression::Codegen.                                          *)
(***************************************************************************)
GenerateImportCall ==
  /\ AtCall("import")
  /\ LET found == ImportFind(at.m, CallAt.var)
     IN IF \A i \in found : ~Usable(at.m, i)
        THEN Stop("crashed")
        ELSE /\ \E i \in found : UseImport(at.m, at.i, at.k, i)
             /\ at' = [at EXCEPT !.k = @ + 1]
             /\ UNCHANGED <<file, checked, names, table, order, bound>>

(***************************************************************************)
(* Codegen of a Unop, a Binop or an Unreachable that takes an intrinsic.   *)
(***************************************************************************)
GenerateIntrinsicCall ==
  /\ AtCall("intrinsic")
  /\ UseIntrinsic(at.m, at.i, at.k, CallAt.var)
  /\ at' = [at EXCEPT !.k = @ + 1]
  /\ UNCHANGED <<file, checked, names, table, order, bound>>

(***************************************************************************)
(* The end of a function.  Its verification fails when an instruction      *)
(* refers to a function of another LLVM module, and may fail when one      *)
(* calls an intrinsic by a name that LLVM has changed.                     *)
(***************************************************************************)
CallsForeign(m, i) == \E b \in bound : b.in = m /\ b.fun = i /\ b.to[1] # m

CallsRenamed(m, i) ==
  \E b \in hosted : b.in = m /\ b.fun = i /\ BodyOf(m, i)[b.call].kind = "intrinsic"
                   /\ b.name # IntrinsicName(BodyOf(m, i)[b.call].var)

FunctionGenerated ==
  /\ AtFunction
  /\ at.k > Len(BodyOf(at.m, at.i))
  /\ \/ /\ checked /\ (CallsForeign(at.m, at.i) \/ CallsRenamed(at.m, at.i))
        /\ Stop("rejected")
     \/ /\ ~(checked /\ CallsForeign(at.m, at.i))
        /\ at' = At("generate", at.m, at.i + 1, 1)
        /\ UNCHANGED <<file, checked, names, table, order, syms, last, bound, hosted>>

(***************************************************************************)
(* The function that an export of module m stands for.                     *)
(***************************************************************************)
ExportFind(m, e) ==
  IF e.var \in Ids THEN ModuleFind(m, e.var)
  ELSE {<<m, order[m][i]>> : i \in {e.var + 1} \cap (1..Len(order[m]))}

(***************************************************************************)
(* What remains visible of a module; the last export of a name counts.     *)
(***************************************************************************)
ExportTable(m) ==
  LET exports == file.mods[m].exports
      counts  == {x \in 1..Len(exports) :
                    \A y \in (x + 1)..Len(exports) : exports[y].name # exports[x].name}
  IN UNION {{[key |-> exports[x].name, fun |-> f[2]] : f \in ExportFind(m, exports[x])} :
              x \in counts}

(***************************************************************************)
(* The end of WasmModule::Generate: an export that is not found is an      *)
(* assertion, and the tables are replaced.                                 *)
(***************************************************************************)
ModuleGenerated ==
  /\ at.step = "generate"
  /\ at.i > Len(file.mods[at.m].ids)
  /\ LET exports == file.mods[at.m].exports
     IN IF \E x \in 1..Len(exports) : ExportFind(at.m, exports[x]) = {}
        THEN Stop("crashed")
        ELSE /\ table' = [table EXCEPT ![at.m] = ExportTable(at.m)]
             /\ order' = [order EXCEPT ![at.m] = <<>>]
             /\ at' = IF at.m > 1 THEN At("generate", at.m - 1, 1, 1) ELSE At("script", 0, 1, 1)
             /\ UNCHANGED <<file, checked, names, syms, last, bound, hosted>>

(***************************************************************************)
(* Where an element takes the type of its result from, when its call has   *)
(* found r: an assert_return_nan looks its function up by name, without    *)
(* the line.                                                               *)
(***************************************************************************)
Typing(elem, r) ==
  IF elem.nan THEN FileFind(elem.name, file.mods[Len(file.mods)].line) ELSE {r.to}

(***************************************************************************)
(* The function that is generated for an invoke or an assertion of the     *)
(* script calls by the name of an export, from the script module.          *)
(***************************************************************************)
GenerateScriptElem ==
  /\ at.step = "script"
  /\ at.i <= Len(file.script)
  /\ LET elem   == file.script[at.i]
         callee == LookUp(0, elem.name, elem.line)
     IN IF \A r \in callee : Typing(elem, r) = {}
        THEN Stop("crashed")
        ELSE /\ \E r \in callee : \E t \in Typing(elem, r) : Bind(0, at.i, 1, r, t)
             /\ at' = [at EXCEPT !.i = @ + 1]
             /\ UNCHANGED <<file, checked, names, table, order, hosted>>

ScriptGenerated ==
  /\ at.step = "script"
  /\ at.i > Len(file.script)
  /\ Stop("done")

Terminated == at.step \in {"done", "crashed", "rejected"} /\ UNCHANGED vars

Step ==
  \/ MangleNext \/ InitializeModule
  \/ GenerateCall \/ GenerateImportCall \/ GenerateIntrinsicCall
  \/ FunctionGenerated \/ ModuleGenerated
  \/ GenerateScriptElem \/ ScriptGenerated

Next == Step \/ Terminated

Spec == Init /\ [][Next]_vars
=============================================================================
