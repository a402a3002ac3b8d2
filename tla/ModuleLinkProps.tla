-------------------------- MODULE ModuleLinkProps --------------------------
(***************************************************************************)
(* What the names of a script mean, and the properties of ModuleLink.      *)
(***************************************************************************)
EXTENDS ModuleLink

(***************************************************************************)
(* The function that a name or an index stands for within module m.        *)
(***************************************************************************)
Meant(m, var) ==
  {<<m, i>> : i \in {x \in 1..Len(file.mods[m].ids) :
                       IF var \in Ids THEN file.mods[m].ids[x] = var ELSE x = var + 1}}

ExportsAs(m, name) ==
  UNION {Meant(m, file.mods[m].exports[x].var) :
           x \in {y \in 1..Len(file.mods[m].exports) : file.mods[m].exports[y].name = name}}

(***************************************************************************)
(* The module an invoke is about: the last one that ends above it or on    *)
(* its line and exports the name.                                          *)
(***************************************************************************)
Exporters(elem) ==
  {m \in Mods : file.mods[m].line <= elem.line /\ ExportsAs(m, elem.name) # {}}

InvokeMeant(elem) ==
  UNION {ExportsAs(m, elem.name) : m \in {x \in Exporters(elem) :
                                            \A y \in Exporters(elem) : y <= x}}

Called(b) == BodyOf(b.in, b.fun)[b.call].var

ImportMeant(m, var) ==
  {x \in 1..Len(file.mods[m].imports) :
     IF var \in Ids THEN file.mods[m].imports[x].id = var ELSE x = var + 1}

(***************************************************************************)
(* A module of the text is valid when its names differ, its exports are    *)
(* not written like functions, before or after mangling, and all that is   *)
(* named in it exists; an invoke when some module above exports the name.  *)
(***************************************************************************)
DistinctIn(seq) == \A i, j \in 1..Len(seq) : seq[i] = seq[j] => i = j

ValidModule(m) ==
  LET mod == file.mods[m]
  IN /\ DistinctIn(mod.ids)
     /\ DistinctIn([x \in 1..Len(mod.exports) |-> mod.exports[x].name])
     /\ \A x \in 1..Len(mod.exports) : /\ mod.exports[x].name \notin Ids \cup Names
                                        /\ Meant(m, mod.exports[x].var) # {}
     /\ DistinctIn([x \in 1..Len(mod.imports) |-> mod.imports[x].id])
     /\ \A x \in 1..Len(mod.imports) : mod.imports[x].results <= 1
     /\ \A i \in 1..Len(mod.calls) : \A k \in 1..Len(mod.calls[i]) :
          LET call == mod.calls[i][k]
          IN CASE call.kind = "call"      -> Meant(m, call.var) # {}
               [] call.kind = "import"    -> ImportMeant(m, call.var) # {}
               [] call.kind = "intrinsic" -> TRUE

ValidFile ==
  /\ \A m \in Mods : ValidModule(m)
  /\ \A j \in 1..Len(file.script) : InvokeMeant(file.script[j]) # {}

(***************************************************************************)
(* A function of a module above module m has this name, too.               *)
(***************************************************************************)
UsedAbove(m, id) == \E x \in Mods : x < m /\ Meant(x, id) # {}

CallsUsedAbove(m) ==
  \E i \in 1..Len(file.mods[m].calls) : \E k \in 1..Len(BodyOf(m, i)) :
    BodyOf(m, i)[k].kind = "call" /\ BodyOf(m, i)[k].var \in Ids
    /\ UsedAbove(m, BodyOf(m, i)[k].var)

(***************************************************************************)
(* An import is called that was made where memory was not null.            *)
(***************************************************************************)
CallsStray(m) ==
  \E i \in 1..Len(file.mods[m].calls) : \E k \in 1..Len(BodyOf(m, i)) :
    /\ BodyOf(m, i)[k].kind = "import"
    /\ \E x \in ImportMeant(m, BodyOf(m, i)[k].var) : file.mods[m].imports[x].stray

(***************************************************************************)
(* The names that a call of the host or of an intrinsic asks for, and when *)
(* another call has a claim to the same name: a second import of the same  *)
(* host function, or of one whose name this name begins with, as LLVM      *)
(* appends numbers; or a second use of an intrinsic in a module other than *)
(* the last one.                                                           *)
(***************************************************************************)
HostsMeant(b) ==
  IF BodyOf(b.in, b.fun)[b.call].kind = "intrinsic" THEN {IntrinsicName(Called(b))}
  ELSE {FullName(b.in, x) : x \in ImportMeant(b.in, Called(b))}

Begins(s, t) == Len(s) <= Len(t) /\ \A n \in 1..Len(s) : s[n] = t[n]

ClaimedTwice(m, name) ==
  \E x, y \in 1..Len(file.mods[m].imports) :
    /\ x # y /\ FullName(m, x) = FullName(m, y)
    /\ Begins(FullName(m, x).text, name.text)

ImportedTwice(b) == \E name \in HostsMeant(b) : ClaimedTwice(b.in, name)

UsesIntrinsic(m, i, k, v) == BodyOf(m, i)[k].kind = "intrinsic" /\ BodyOf(m, i)[k].var = v

UsedTwice(m, v) ==
  \E i, j \in 1..Len(file.mods[m].calls) :
    \E k \in 1..Len(BodyOf(m, i)), l \in 1..Len(BodyOf(m, j)) :
      <<i, k>> # <<j, l>> /\ UsesIntrinsic(m, i, k, v) /\ UsesIntrinsic(m, j, l, v)

RepeatsIntrinsic(m) == m # Len(file.mods) /\ \E v \in Intrinsics : UsedTwice(m, v)

-----------------------------------------------------------------------------
(***************************************************************************)
(* The tables refer to functions that exist, and the compiler is at a      *)
(* module, function and call of the file or just past the last one.        *)
(***************************************************************************)
Functions == UNION {{<<m, i>> : i \in 1..Len(file.mods[m].ids)} : m \in Mods}

AtOK ==
  CASE at.step = "initialize" -> at.m \in Mods /\ at.k = 1
                                 /\ at.i = Len(names[at.m]) + 1
    [] at.step = "generate"   -> /\ at.m \in Mods
                                 /\ at.i \in 1..(Len(names[at.m]) + 1)
                                 /\ at.i <= Len(names[at.m]) => at.k \in 1..(Len(BodyOf(at.m, at.i)) + 1)
    [] at.step = "script"     -> at.m = 0 /\ at.i \in 1..(Len(file.script) + 1)
    [] OTHER                  -> at.step \in {"done", "crashed", "rejected"}

TypeOK ==
  /\ AtOK
  /\ \A m \in 0..Len(file.mods) :
       /\ names[m] \in Seq(Names)
       /\ last[m] \in Nat
       /\ \A e \in table[m] : e.key \in Names \cup Exported /\ e.fun \in 1..Len(names[m])
       /\ \A i \in 1..Len(order[m]) : order[m][i] = i /\ i <= Len(names[m])
       /\ \A s \in syms[m] :
            /\ s.name \in Names
            /\ s.of \in Functions \/ s.of \in {0} \X (0..Len(file.mods[m].imports))
  /\ \A b \in bound : b.in \in 0..Len(file.mods) /\ {b.to, b.typed} \subseteq Functions
  /\ \A b \in hosted : b.in \in Mods /\ b.name \in Names

(***************************************************************************)
(* All functions of the file have different mangled names, whatever        *)
(* letters are drawn: MangleFunctionName only checks its own module.       *)
(***************************************************************************)
DefinitionsUnique ==
  \A m, x \in Mods : \A i \in 1..Len(names[m]), j \in 1..Len(names[x]) :
    names[m][i] = names[x][j] => m = x /\ i = j

(***************************************************************************)
(* A call is bound to the function of its own module that it names, as     *)
(* InternalGetWasmFunction says ("First look in our module.").             *)
(***************************************************************************)
BindsOwn(b) == b.in \in Mods => b.to \in Meant(b.in, Called(b))

CallsBindOwn == ValidFile => \A b \in bound : BindsOwn(b)

(***************************************************************************)
(* It is, although look-ups go through the file first, when no module      *)
(* above has a function of the same name: neither a module that has been   *)
(* generated, and has exports in its table, nor one that has not, is taken *)
(* for the own one, whatever the lines are.                                *)
(***************************************************************************)
UnsharedBindOwn ==
  ValidFile => \A b \in bound :
    b.in \in Mods /\ ~(Called(b) \in Ids /\ UsedAbove(b.in, Called(b))) => BindsOwn(b)

(***************************************************************************)
(* An invoke calls what the module it is about exports, although the       *)
(* tables of all modules are visible to it: WasmFile::GetWasmFunction goes *)
(* from the last module up, and skips those below the invoke.  The         *)
(* function whose type assert_return_nan goes by is that one, too, unless  *)
(* a module below exports the name again: it is looked up without line.    *)
(***************************************************************************)
ExportedBelow(elem) ==
  \E m \in Mods : file.mods[m].line > elem.line /\ ExportsAs(m, elem.name) # {}

InvokesBindExports ==
  ValidFile => \A b \in bound : b.in = 0 =>
    /\ b.to \in InvokeMeant(file.script[b.fun])
    /\ ~ExportedBelow(file.script[b.fun]) => b.typed = b.to

(***************************************************************************)
(* Every name a call is printed with is declared or defined in the LLVM    *)
(* module of the call, wherever its callee was found.                      *)
(***************************************************************************)
PrintedDeclared ==
  /\ \A b \in bound : NameOf(b.to) \in Taken(b.in)
  /\ \A b \in hosted : b.name \in Taken(b.in)

(***************************************************************************)
(* A call of a function of the host is printed with the name that is made  *)
(* of the import, and one of an intrinsic with the name of the intrinsic,  *)
(* however often it is called and whatever else the module declares: only  *)
(* a second claim to the name makes LLVM change it.                        *)
(***************************************************************************)
HostedByName ==
  \A b \in hosted :
    ~ImportedTwice(b) /\ ~RepeatsIntrinsic(b.in) => b.name \in HostsMeant(b)

(***************************************************************************)
(* The name a call is printed with is declared or defined, in the LLVM     *)
(* module of the call, as the function that is called, and so with the     *)
(* type of it, although each look-up makes a prototype of its own.  This   *)
(* cannot be said of a callee whose name is that of another function with  *)
(* a number, which LLVM may have given to a prototype of the other one.    *)
(***************************************************************************)
NamedLikeRenamed(f) ==
  LET text == NameOf(f).text
  IN text # <<>> /\ \E g \in Functions :
       NameOf(g) = [NameOf(f) EXCEPT !.text = SubSeq(text, 1, Len(text) - 1)]

CalleesDeclared ==
  \A b \in bound :
    ~NamedLikeRenamed(b.to) => [name |-> NameOf(b.to), of |-> b.to] \in syms[b.in]

(***************************************************************************)
(* A valid file none of whose calls names a function that a module above   *)
(* has too, repeats an intrinsic, or is of an import that was made where   *)
(* memory was not null, is never stopped by an assertion, functions of the *)
(* host included: each call, export and invoke finds its function in the   *)
(* tables as they are at that time, and the verification of functions has  *)
(* nothing to reject.                                                      *)
(***************************************************************************)
ValidLinked ==
  ValidFile /\ (\A m \in Mods : ~CallsUsedAbove(m) /\ ~RepeatsIntrinsic(m) /\ ~CallsStray(m)) =>
    at.step \notin {"crashed", "rejected"}
=============================================================================
