-------------------------- MODULE ModuleLinkProofs --------------------------
(***************************************************************************)
(* For files of any number and size of modules: mangled names are unique,  *)
(* every name that is printed in a call is declared, and the types of      *)
(* ModuleLink, with how far each module is and what its tables are then.   *)
(***************************************************************************)
EXTENDS ModuleLinkProps, FiniteSetTheorems, WellFoundedInduction, TLAPS

Steps == {"initialize", "generate", "script", "done", "crashed", "rejected"}

(***************************************************************************)
(* What the names of the functions are while they are made.                *)
(***************************************************************************)
PlaceOK ==
  /\ file \in Files
  /\ at \in [step : Steps, m : Nat, i : Nat, k : Nat]
  /\ at.step \in {"initialize", "generate"} => at.m \in Mods /\ at.i > 0

NamesTyped == names \in [0..Len(file.mods) -> Seq(Names)]

NamesPrefixed == \A m \in Mods : \A i \in 1..Len(names[m]) : names[m][i].mod = m

NamesDiffer ==
  \A m \in Mods : \A i, j \in 1..Len(names[m]) : names[m][i] = names[m][j] => i = j

NamesInv == PlaceOK /\ NamesTyped /\ NamesPrefixed /\ NamesDiffer

(***************************************************************************)
(* A mangled name is a name, with the prefix of its module.                *)
(***************************************************************************)
LEMMA MangledName ==
  ASSUME NEW m \in Nat, NEW id \in Ids, NEW tail \in Tails
  PROVE  Mangled(m, id, tail) \in Names /\ Mangled(m, id, tail).mod = m
<1>1. PICK n \in 0..MaxTail : tail \in [1..n -> Letters]
  BY DEF Tails
<1>2. n \in Nat
  BY <1>1, MaxTailTyped
<1>3. tail \in Seq(Symbols \cup Nat)
  BY <1>1, <1>2, LettersTyped
<1>4. Flat[id] \in Seq(Symbols \cup Nat)
  BY FlatTyped
<1>5. Flat[id] \o tail \in Seq(Symbols \cup Nat)
  BY <1>3, <1>4
<1> QED BY <1>5 DEF Mangled, Names

(***************************************************************************)
(* A name that DoesMangledNameExist does not find is that of no function.  *)
(***************************************************************************)
LEMMA NotRegistered ==
  ASSUME NEW m, NEW name, ~DoesMangledNameExist(m, name), NEW i \in 1..Len(names[m])
  PROVE  names[m][i] # name
<1>1. [id |-> file.mods[m].ids[i], name |-> names[m][i]] \in Registered(m)
  BY DEF Registered
<1> QED BY <1>1 DEF DoesMangledNameExist

LEMMA ModsTyped ==
  ASSUME file \in Files
  PROVE  /\ Len(file.mods) \in Nat
         /\ \A m \in Mods : m \in 0..Len(file.mods) /\ file.mods[m].ids \in Seq(Ids)
<1>1. file.mods \in Seq(Modules)
  BY DEF Files
<1>2. Len(file.mods) \in Nat
  BY <1>1
<1>3. ASSUME NEW m \in Mods
      PROVE  m \in 0..Len(file.mods) /\ file.mods[m].ids \in Seq(Ids)
  <2>1. file.mods[m] \in Modules
    BY <1>1, <1>3 DEF Mods
  <2>2. m \in 0..Len(file.mods)
    BY <1>2, <1>3 DEF Mods
  <2> QED BY <2>1, <2>2 DEF Modules
<1> QED BY <1>2, <1>3

LEMMA NamesInit == Init => NamesInv
<1> SUFFICES ASSUME Init PROVE NamesInv
  OBVIOUS
<1>1. file \in Files /\ Len(file.mods) > 0
  BY DEF Init, IsParsedFile
<1>2. Len(file.mods) \in Nat
  BY <1>1, ModsTyped
<1>3. PlaceOK
  BY <1>1, <1>2 DEF Init, PlaceOK, At, Mods, Steps
<1>4. names = [m \in 0..Len(file.mods) |-> <<>>]
  BY DEF Init
<1>5. NamesTyped
  BY <1>4 DEF NamesTyped
<1>6. \A m \in Mods : names[m] = <<>>
  BY <1>4, <1>1, ModsTyped
<1>7. \A m \in Mods : Len(names[m]) = 0
  BY <1>6
<1>8. NamesPrefixed /\ NamesDiffer
  BY <1>7 DEF NamesPrefixed, NamesDiffer
<1> QED BY <1>3, <1>5, <1>8 DEF NamesInv

(***************************************************************************)
(* Steps that make no name.                                                *)
(***************************************************************************)
LEMMA NamesKept ==
  ASSUME NamesInv, PlaceOK', file' = file, names' = names
  PROVE  NamesInv'
BY DEF NamesInv, NamesTyped, NamesPrefixed, NamesDiffer, Mods

LEMMA StopPlace ==
  ASSUME NamesInv, NEW step \in {"done", "crashed", "rejected"}, Stop(step)
  PROVE  PlaceOK' /\ names' = names /\ file' = file
BY DEF NamesInv, PlaceOK, Stop, Steps

LEMMA NamesMangleNext ==
  ASSUME NamesInv, MangleNext
  PROVE  NamesInv'
<1> DEFINE m == at.m
           id == file.mods[m].ids[at.i]
<1>1. /\ m \in Mods /\ m \in Nat /\ at.i \in Nat /\ at.i > 0
      /\ at.i <= Len(file.mods[m].ids)
  BY DEF MangleNext, NamesInv, PlaceOK
<1>2. id \in Ids
  BY <1>1, ModsTyped DEF NamesInv, PlaceOK
<1>3. CASE \E r \in Registered(m) : r.id = id
  <2>1. Stop("crashed")
    BY <1>3 DEF MangleNext
  <2> QED BY <2>1, StopPlace, NamesKept
<1>4. CASE ~\E r \in Registered(m) : r.id = id
  <2>1. PICK tail \in Tails :
          /\ UniqueName(m, id, tail)
          /\ names' = [names EXCEPT ![m] = Append(@, Mangled(m, id, tail))]
    BY <1>4 DEF MangleNext
  <2>2. at' = [at EXCEPT !.i = @ + 1] /\ file' = file
    BY <1>4 DEF MangleNext
  <2> DEFINE new == Mangled(m, id, tail)
  <2>3. new \in Names /\ new.mod = m
    BY <1>1, <1>2, MangledName
  <2>4. \A i \in 1..Len(names[m]) : names[m][i] # new
    BY <2>1, NotRegistered DEF UniqueName
  <2>5. m \in 0..Len(file.mods) /\ names[m] \in Seq(Names)
    BY <1>1, ModsTyped DEF NamesInv, PlaceOK, NamesTyped
  <2> HIDE DEF new, id
  <2>6. Append(names[m], new) \in Seq(Names)
    BY <2>3, <2>5
  <2>7. names' = [names EXCEPT ![m] = Append(names[m], new)]
    BY <2>1 DEF new, id
  <2>8. NamesTyped'
    BY <2>2, <2>5, <2>6, <2>7 DEF NamesInv, NamesTyped
  <2>9. PlaceOK'
    BY <1>1, <2>2 DEF NamesInv, PlaceOK, Mods
  <2>10. names'[m] = Append(names[m], new)
    BY <2>5, <2>7 DEF NamesInv, NamesTyped
  <2>11. \A x \in Mods : x # m => names'[x] = names[x]
    BY <2>7, ModsTyped DEF NamesInv, NamesTyped, PlaceOK
  <2>12. /\ Len(names'[m]) = Len(names[m]) + 1
         /\ Len(names[m]) \in Nat
         /\ names'[m][Len(names[m]) + 1] = new
         /\ \A i \in 1..Len(names[m]) : names'[m][i] = names[m][i]
    BY <2>3, <2>5, <2>10
  <2>13. NamesPrefixed'
    <3> SUFFICES ASSUME NEW x \in Mods, NEW i \in 1..Len(names'[x])
                 PROVE  names'[x][i].mod = x
      BY <2>2 DEF NamesPrefixed, Mods
    <3>1. CASE x # m
      BY <3>1, <2>11 DEF NamesInv, NamesPrefixed
    <3>2. CASE x = m /\ i = Len(names[m]) + 1
      BY <3>2, <2>3, <2>12
    <3>3. CASE x = m /\ i # Len(names[m]) + 1
      <4>1. i \in 1..Len(names[m])
        BY <3>3, <2>12
      <4> QED BY <3>3, <4>1, <2>12 DEF NamesInv, NamesPrefixed
    <3> QED BY <3>1, <3>2, <3>3
  <2>14. NamesDiffer'
    <3> SUFFICES ASSUME NEW x \in Mods,
                        NEW i \in 1..Len(names'[x]), NEW j \in 1..Len(names'[x]),
                        names'[x][i] = names'[x][j]
                 PROVE  i = j
      BY <2>2 DEF NamesDiffer, Mods
    <3>1. CASE x # m
      BY <3>1, <2>11 DEF NamesInv, NamesDiffer
    <3>2. CASE x = m
      <4>1. i \in 1..Len(names[m]) \/ i = Len(names[m]) + 1
        BY <3>2, <2>12
      <4>2. j \in 1..Len(names[m]) \/ j = Len(names[m]) + 1
        BY <3>2, <2>12
      <4>3. CASE i \in 1..Len(names[m]) /\ j \in 1..Len(names[m])
        BY <3>2, <4>3, <2>12, <1>1 DEF NamesInv, NamesDiffer
      <4>4. CASE i \in 1..Len(names[m]) /\ j = Len(names[m]) + 1
        BY <3>2, <4>4, <2>4, <2>12
      <4>5. CASE i = Len(names[m]) + 1 /\ j \in 1..Len(names[m])
        BY <3>2, <4>5, <2>4, <2>12
      <4> QED BY <4>1, <4>2, <4>3, <4>4, <4>5
    <3> QED BY <3>1, <3>2
  <2> QED BY <2>8, <2>9, <2>13, <2>14 DEF NamesInv
<1> QED BY <1>3, <1>4

LEMMA NamesInitializeModule ==
  ASSUME NamesInv, InitializeModule
  PROVE  NamesInv'
<1>1. names' = names /\ file' = file
  BY DEF InitializeModule
<1>2. at.step = "initialize" /\ at.m \in Mods /\ at.m \in Nat /\ Len(file.mods) \in Nat
  BY ModsTyped DEF InitializeModule, NamesInv, PlaceOK
<1>3. CASE at.m > 1
  <2>1. at' = At("initialize", at.m - 1, 1, 1)
    BY <1>3 DEF InitializeModule
  <2>2. at.m - 1 \in 1..Len(file.mods)
    BY <1>2, <1>3 DEF Mods
  <2>3. PlaceOK'
    BY <1>1, <2>1, <2>2 DEF NamesInv, PlaceOK, At, Steps, Mods
  <2> QED BY <1>1, <2>3, NamesKept
<1>4. CASE ~(at.m > 1)
  <2>1. at' = At("generate", Len(file.mods), 1, 1)
    BY <1>4 DEF InitializeModule
  <2>2. PlaceOK'
    BY <1>1, <1>2, <2>1 DEF NamesInv, PlaceOK, At, Steps, Mods
  <2> QED BY <1>1, <2>2, NamesKept
<1> QED BY <1>3, <1>4

LEMMA NamesGenerateCall ==
  ASSUME NamesInv, GenerateCall
  PROVE  NamesInv'
<1>1. at.step = "generate"
  BY DEF GenerateCall, AtCall, AtFunction
<1>2. \/ Stop("crashed")
      \/ at' = [at EXCEPT !.k = @ + 1] /\ names' = names /\ file' = file
  BY DEF GenerateCall
<1>3. CASE Stop("crashed")
  BY <1>3, StopPlace, NamesKept
<1>4. CASE at' = [at EXCEPT !.k = @ + 1] /\ names' = names /\ file' = file
  <2>1. PlaceOK'
    BY <1>1, <1>4 DEF NamesInv, PlaceOK, Mods
  <2> QED BY <1>4, <2>1, NamesKept
<1> QED BY <1>2, <1>3, <1>4

LEMMA NamesGenerateHosted ==
  ASSUME NamesInv, GenerateImportCall \/ GenerateIntrinsicCall
  PROVE  NamesInv'
<1>1. at.step = "generate"
  BY DEF GenerateImportCall, GenerateIntrinsicCall, AtCall, AtFunction
<1>2. \/ Stop("crashed")
      \/ at' = [at EXCEPT !.k = @ + 1] /\ names' = names /\ file' = file
  BY DEF GenerateImportCall, GenerateIntrinsicCall
<1>3. CASE Stop("crashed")
  BY <1>3, StopPlace, NamesKept
<1>4. CASE at' = [at EXCEPT !.k = @ + 1] /\ names' = names /\ file' = file
  <2>1. PlaceOK'
    BY <1>1, <1>4 DEF NamesInv, PlaceOK, Mods
  <2> QED BY <1>4, <2>1, NamesKept
<1> QED BY <1>2, <1>3, <1>4

LEMMA NamesFunctionGenerated ==
  ASSUME NamesInv, FunctionGenerated
  PROVE  NamesInv'
<1>1. at.step = "generate"
  BY DEF FunctionGenerated, AtFunction
<1>2. \/ Stop("rejected")
      \/ at' = At("generate", at.m, at.i + 1, 1) /\ names' = names /\ file' = file
  BY DEF FunctionGenerated
<1>3. CASE Stop("rejected")
  BY <1>3, StopPlace, NamesKept
<1>4. CASE at' = At("generate", at.m, at.i + 1, 1) /\ names' = names /\ file' = file
  <2>1. PlaceOK'
    BY <1>1, <1>4 DEF NamesInv, PlaceOK, At, Steps, Mods
  <2> QED BY <1>4, <2>1, NamesKept
<1> QED BY <1>2, <1>3, <1>4

LEMMA NamesModuleGenerated ==
  ASSUME NamesInv, ModuleGenerated
  PROVE  NamesInv'
<1>1. \/ Stop("crashed")
      \/ /\ at' = IF at.m > 1 THEN At("generate", at.m - 1, 1, 1) ELSE At("script", 0, 1, 1)
         /\ names' = names /\ file' = file
  BY DEF ModuleGenerated
<1>2. CASE Stop("crashed")
  BY <1>2, StopPlace, NamesKept
<1>3. CASE /\ at' = IF at.m > 1 THEN At("generate", at.m - 1, 1, 1) ELSE At("script", 0, 1, 1)
           /\ names' = names /\ file' = file
  <2>1. at.m \in Mods /\ at.m \in Nat /\ Len(file.mods) \in Nat
    BY ModsTyped DEF ModuleGenerated, NamesInv, PlaceOK
  <2>2. CASE at.m > 1
    <3>1. at' = At("generate", at.m - 1, 1, 1)
      BY <1>3, <2>2
    <3>2. at.m - 1 \in 1..Len(file.mods)
      BY <2>1, <2>2 DEF Mods
    <3>3. PlaceOK'
      BY <1>3, <3>1, <3>2 DEF NamesInv, PlaceOK, At, Steps, Mods
    <3> QED BY <1>3, <3>3, NamesKept
  <2>3. CASE ~(at.m > 1)
    <3>1. at' = At("script", 0, 1, 1)
      BY <1>3, <2>3
    <3>2. PlaceOK'
      BY <1>3, <3>1 DEF NamesInv, PlaceOK, At, Steps
    <3> QED BY <1>3, <3>2, NamesKept
  <2> QED BY <2>2, <2>3
<1> QED BY <1>1, <1>2, <1>3

LEMMA NamesGenerateScriptElem ==
  ASSUME NamesInv, GenerateScriptElem
  PROVE  NamesInv'
<1>1. at.step = "script"
  BY DEF GenerateScriptElem
<1>2. \/ Stop("crashed")
      \/ at' = [at EXCEPT !.i = @ + 1] /\ names' = names /\ file' = file
  BY DEF GenerateScriptElem
<1>3. CASE Stop("crashed")
  BY <1>3, StopPlace, NamesKept
<1>4. CASE at' = [at EXCEPT !.i = @ + 1] /\ names' = names /\ file' = file
  <2>1. PlaceOK'
    BY <1>1, <1>4 DEF NamesInv, PlaceOK, Mods
  <2> QED BY <1>4, <2>1, NamesKept
<1> QED BY <1>2, <1>3, <1>4

LEMMA NamesNext == NamesInv /\ [Next]_vars => NamesInv'
<1> SUFFICES ASSUME NamesInv, [Next]_vars PROVE NamesInv'
  OBVIOUS
<1>1. CASE MangleNext
  BY <1>1, NamesMangleNext
<1>2. CASE InitializeModule
  BY <1>2, NamesInitializeModule
<1>3. CASE GenerateCall
  BY <1>3, NamesGenerateCall
<1>4. CASE FunctionGenerated
  BY <1>4, NamesFunctionGenerated
<1>5. CASE ModuleGenerated
  BY <1>5, NamesModuleGenerated
<1>6. CASE GenerateScriptElem
  BY <1>6, NamesGenerateScriptElem
<1>9. CASE GenerateImportCall \/ GenerateIntrinsicCall
  BY <1>9, NamesGenerateHosted
<1>7. CASE ScriptGenerated
  <2>1. Stop("done")
    BY <1>7 DEF ScriptGenerated
  <2> QED BY <2>1, StopPlace, NamesKept
<1>8. CASE Terminated \/ UNCHANGED vars
  <2>1. UNCHANGED vars
    BY <1>8 DEF Terminated
  <2>2. file' = file /\ names' = names /\ at' = at
    BY <2>1 DEF vars
  <2>3. PlaceOK'
    BY <2>2 DEF NamesInv, PlaceOK, Mods
  <2> QED BY <2>2, <2>3, NamesKept
<1> QED BY <1>1, <1>2, <1>3, <1>4, <1>5, <1>6, <1>7, <1>8, <1>9 DEF Next, Step

LEMMA NamesAlways == Spec => []NamesInv
BY NamesInit, NamesNext, PTL DEF Spec

LEMMA NamesInvUnique == NamesInv => DefinitionsUnique
<1> SUFFICES ASSUME NamesInv, NEW m \in Mods, NEW x \in Mods,
                    NEW i \in 1..Len(names[m]), NEW j \in 1..Len(names[x]),
                    names[m][i] = names[x][j]
             PROVE  m = x /\ i = j
  BY DEF DefinitionsUnique
<1>1. names[m][i].mod = m /\ names[x][j].mod = x
  BY DEF NamesInv, NamesPrefixed
<1>2. m = x
  BY <1>1
<1>3. i = j
  BY <1>2 DEF NamesInv, NamesDiffer
<1> QED BY <1>2, <1>3

(***************************************************************************)
(* No two functions of a file get the same mangled name, whatever letters  *)
(* WasmFunction::MangleFunctionName draws, and whatever the names of the   *)
(* functions are: those of one module by the loop, those of two by the     *)
(* prefix.                                                                 *)
(***************************************************************************)
THEOREM MangledNamesUnique == Spec => []DefinitionsUnique
BY NamesAlways, NamesInvUnique, PTL

-----------------------------------------------------------------------------
(***************************************************************************)
(* What a call can find: the functions in the tables of a module exist and *)
(* are in its LLVM module; nothing is bound before all names are made.     *)
(***************************************************************************)
Places == 0..Len(file.mods)

ShapesOK ==
  /\ table = [m \in Places |-> table[m]]
  /\ syms  = [m \in Places |-> syms[m]]
  /\ order \in [Places -> Seq(Nat)]

HasName(nms, defs, i) == i \in 1..Len(nms) /\ nms[i] \in {s.name : s \in defs}

Present(m, i) == HasName(names[m], syms[m], i)

TablesPresent ==
  \A m \in Places :
    /\ \A e \in table[m] : Present(m, e.fun)
    /\ \A i \in 1..Len(order[m]) : Present(m, order[m][i])

BoundLate ==
  /\ at.step = "initialize" => bound = {} /\ hosted = {}
  /\ \A b \in bound \cup hosted : b.in \in Places

DeclaredInv == ShapesOK /\ TablesPresent /\ BoundLate /\ PrintedDeclared

LEMMA DeclaredInit == Init => DeclaredInv
<1> SUFFICES ASSUME Init PROVE DeclaredInv
  OBVIOUS
<1>1. /\ table = [m \in Places |-> {}]
      /\ order = [m \in Places |-> <<>>]
      /\ syms = [m \in Places |-> {}]
      /\ bound = {}
      /\ hosted = {}
  BY DEF Init, Places
<1>2. ShapesOK
  BY <1>1 DEF ShapesOK
<1>3. \A m \in Places : table[m] = {} /\ order[m] = <<>>
  BY <1>1
<1>4. \A m \in Places : Len(order[m]) = 0
  BY <1>3
<1>5. TablesPresent
  BY <1>3, <1>4 DEF TablesPresent
<1>6. BoundLate /\ PrintedDeclared
  BY <1>1 DEF BoundLate, PrintedDeclared
<1> QED BY <1>2, <1>5, <1>6 DEF DeclaredInv

(***************************************************************************)
(* Steps that only move on.                                                *)
(***************************************************************************)
LEMMA DeclaredKept ==
  ASSUME DeclaredInv, at'.step = "initialize" => at.step = "initialize",
         file' = file, names' = names, table' = table, order' = order,
         syms' = syms, bound' = bound, hosted' = hosted
  PROVE  DeclaredInv'
BY DEF DeclaredInv, ShapesOK, TablesPresent, Present, HasName, BoundLate, PrintedDeclared,
       Places, Taken, NameOf

LEMMA DeclaredStop ==
  ASSUME DeclaredInv, NEW step \in {"done", "crashed", "rejected"}, Stop(step), PlaceOK
  PROVE  DeclaredInv'
<1>1. at'.step # "initialize"
  BY DEF Stop, PlaceOK
<1> QED BY <1>1, DeclaredKept DEF Stop

(***************************************************************************)
(* What a look-up returns is either in the table of the module, or comes   *)
(* from the file.                                                          *)
(***************************************************************************)
Found(m, r) == r.outside = TRUE \/ \E e \in table[m] : r.to = <<m, e.fun>>

LEMMA FoundInternal ==
  ASSUME NEW m, NEW key, NEW line, NEW r \in InternalFind(m, key, line)
  PROVE  Found(m, r)
<1>1. \/ r \in {[to |-> f, outside |-> FALSE] : f \in InTable(m, key)}
      \/ r \in {[to |-> f, outside |-> TRUE] : f \in FileFind(key, line)}
  BY DEF InternalFind, OrElse
<1>2. CASE r \in {[to |-> f, outside |-> FALSE] : f \in InTable(m, key)}
  BY <1>2 DEF InTable, Found
<1>3. CASE r \in {[to |-> f, outside |-> TRUE] : f \in FileFind(key, line)}
  BY <1>3 DEF Found
<1> QED BY <1>1, <1>2, <1>3

LEMMA FoundLookUp ==
  ASSUME NEW m, NEW key, NEW line, NEW r \in LookUp(m, key, line)
  PROVE  Found(m, r)
<1>1. \E k : r \in InternalFind(m, k, line)
  BY DEF LookUp, OrElse
<1> QED BY <1>1, FoundInternal

(***************************************************************************)
(* A function that is created is declared with its new name, and nothing   *)
(* is lost.                                                                *)
(***************************************************************************)
SymsGrow ==
  /\ \A x \in Places : syms[x] \subseteq syms'[x]
  /\ syms' = [x \in Places |-> syms'[x]]

LEMMA CreateGrows ==
  ASSUME ShapesOK, NEW m \in Places, NEW name, NEW of, CreateFunction(m, name, of)
  PROVE  SymsGrow /\ \E s \in syms'[m] : s.name = NewName(m, name)
<1> DEFINE new == [name |-> NewName(m, name), of |-> of]
<1>1. new.name = NewName(m, name)
  OBVIOUS
<1>2. syms' = [syms EXCEPT ![m] = @ \cup {new}]
  BY DEF CreateFunction
<1> HIDE DEF new
<1>3. syms'[m] = syms[m] \cup {new}
  BY <1>2 DEF ShapesOK
<1> QED BY <1>1, <1>2, <1>3 DEF ShapesOK, SymsGrow

LEMMA TakenGrows ==
  ASSUME SymsGrow
  PROVE  \A x \in Places : Taken(x) \subseteq Taken(x)'
BY DEF SymsGrow, Taken

(***************************************************************************)
(* What a step keeps that only adds to syms.                               *)
(***************************************************************************)
LEMMA GrowKeeps ==
  ASSUME DeclaredInv, SymsGrow, file' = file, names' = names, table' = table, order' = order
  PROVE  ShapesOK' /\ TablesPresent' /\ Places' = Places
<1>1. Places' = Places
  BY DEF Places
<1>2. ShapesOK'
  BY <1>1 DEF DeclaredInv, ShapesOK, SymsGrow
<1>3. TablesPresent'
  BY <1>1 DEF DeclaredInv, TablesPresent, Present, HasName, SymsGrow
<1> QED BY <1>1, <1>2, <1>3

(***************************************************************************)
(* What was printed stays declared, and so is what is printed now.         *)
(***************************************************************************)
LEMMA PrintedKept ==
  ASSUME DeclaredInv, SymsGrow, names' = names,
         \A b \in bound' \ bound : NameOf(b.to) \in Taken(b.in)',
         \A b \in hosted' \ hosted : b.name \in Taken(b.in)'
  PROVE  PrintedDeclared'
<1>1. \A x \in Places : Taken(x) \subseteq Taken(x)'
  BY TakenGrows
<1>2. ASSUME NEW b \in bound' PROVE (NameOf(b.to) \in Taken(b.in))'
  <2>1. NameOf(b.to)' = NameOf(b.to)
    BY DEF NameOf
  <2>2. CASE b \in bound
    <3>1. NameOf(b.to) \in Taken(b.in) /\ b.in \in Places
      BY <2>2 DEF DeclaredInv, PrintedDeclared, BoundLate
    <3> QED BY <1>1, <2>1, <3>1
  <2> QED BY <2>1, <2>2
<1>3. ASSUME NEW b \in hosted' PROVE (b.name \in Taken(b.in))'
  <2>1. CASE b \in hosted
    <3>1. b.name \in Taken(b.in) /\ b.in \in Places
      BY <2>1 DEF DeclaredInv, PrintedDeclared, BoundLate
    <3> QED BY <1>1, <3>1
  <2> QED BY <2>1
<1> QED BY <1>2, <1>3 DEF PrintedDeclared

(***************************************************************************)
(* A call bound to a function that is present, or gets a prototype.        *)
(***************************************************************************)
LEMMA BindDeclares ==
  ASSUME DeclaredInv, NEW m \in Places, NEW i, NEW k, NEW r, NEW t,
         r.outside = TRUE \/ NameOf(r.to) \in Taken(m),
         Bind(m, i, k, r, t), at'.step # "initialize",
         file' = file, names' = names, table' = table, order' = order, hosted' = hosted
  PROVE  DeclaredInv'
<1>1. SymsGrow /\ NameOf(r.to) \in Taken(m)'
  <2>1. CASE r.outside
    <3>1. CreateFunction(m, NameOf(r.to), r.to)
      BY <2>1 DEF Bind, CreatePrototype
    <3>2. SymsGrow /\ \E s \in syms'[m] : s.name = NewName(m, NameOf(r.to))
      BY <3>1, CreateGrows DEF DeclaredInv
    <3>3. CASE NameOf(r.to) \in Taken(m)
      BY <3>2, <3>3, TakenGrows
    <3>4. CASE NameOf(r.to) \notin Taken(m)
      BY <3>2, <3>4 DEF NewName, Taken
    <3> QED BY <3>3, <3>4, <3>2
  <2>2. CASE ~r.outside
    <3>1. syms' = syms
      BY <2>2 DEF Bind
    <3>2. NameOf(r.to) \in Taken(m)
      BY <2>2
    <3> QED BY <3>1, <3>2 DEF DeclaredInv, ShapesOK, SymsGrow, Taken
  <2> QED BY <2>1, <2>2
<1>2. ShapesOK' /\ TablesPresent' /\ Places' = Places
  BY <1>1, GrowKeeps
<1> DEFINE new == [in |-> m, fun |-> i, call |-> k, to |-> r.to, typed |-> t]
<1>3. bound' = bound \cup {new} /\ new.in = m /\ new.to = r.to
  BY DEF Bind
<1> HIDE DEF new
<1>4. BoundLate'
  BY <1>2, <1>3 DEF DeclaredInv, BoundLate
<1>5. PrintedDeclared'
  BY <1>1, <1>3, PrintedKept
<1> QED BY <1>2, <1>4, <1>5 DEF DeclaredInv

(***************************************************************************)
(* A call of a function of the host or of an intrinsic: the name it is     *)
(* printed with was declared before, or has been now.                      *)
(***************************************************************************)
LEMMA HostedDeclares ==
  ASSUME DeclaredInv, NEW m \in Places, NEW i, NEW k, NEW name,
         PrintHosted(m, i, k, name), SymsGrow, name \in Taken(m)', at'.step # "initialize",
         file' = file, names' = names, table' = table, order' = order, bound' = bound
  PROVE  DeclaredInv'
<1>1. ShapesOK' /\ TablesPresent' /\ Places' = Places
  BY GrowKeeps
<1> DEFINE new == [in |-> m, fun |-> i, call |-> k, name |-> name]
<1>2. hosted' = hosted \cup {new} /\ new.in = m /\ new.name = name
  BY DEF PrintHosted
<1> HIDE DEF new
<1>3. BoundLate'
  BY <1>1, <1>2 DEF DeclaredInv, BoundLate
<1>4. PrintedDeclared'
  BY <1>2, PrintedKept
<1> QED BY <1>1, <1>3, <1>4 DEF DeclaredInv

LEMMA CreatedDeclares ==
  ASSUME DeclaredInv, NEW m \in Places, NEW i, NEW k, NEW name, NEW of,
         PrintHosted(m, i, k, NewName(m, name)), CreateFunction(m, name, of),
         at'.step # "initialize",
         file' = file, names' = names, table' = table, order' = order, bound' = bound
  PROVE  DeclaredInv'
<1>1. SymsGrow /\ \E s \in syms'[m] : s.name = NewName(m, name)
  BY CreateGrows DEF DeclaredInv
<1> DEFINE new == NewName(m, name)
<1>2. new \in Taken(m)' /\ PrintHosted(m, i, k, new)
  BY <1>1 DEF Taken
<1> HIDE DEF new
<1> QED BY <1>1, <1>2, HostedDeclares

LEMMA FoundDeclares ==
  ASSUME DeclaredInv, NEW m \in Places, NEW i, NEW k, NEW name \in Taken(m),
         PrintHosted(m, i, k, name), syms' = syms, at'.step # "initialize",
         file' = file, names' = names, table' = table, order' = order, bound' = bound
  PROVE  DeclaredInv'
<1>1. SymsGrow /\ name \in Taken(m)'
  BY DEF DeclaredInv, ShapesOK, SymsGrow, Taken
<1> QED BY <1>1, HostedDeclares

LEMMA FoundBound ==
  ASSUME DeclaredInv, NEW m \in Places, NEW r, Found(m, r)
  PROVE  r.outside = TRUE \/ NameOf(r.to) \in Taken(m)
<1>1. CASE \E e \in table[m] : r.to = <<m, e.fun>>
  <2>1. PICK e \in table[m] : r.to = <<m, e.fun>>
    BY <1>1
  <2>2. Present(m, e.fun)
    BY DEF DeclaredInv, TablesPresent
  <2>3. NameOf(r.to) = names[m][e.fun]
    BY <2>1 DEF NameOf
  <2> QED BY <2>2, <2>3 DEF Present, HasName, Taken
<1> QED BY <1>1 DEF Found

-----------------------------------------------------------------------------
LEMMA DeclaredMangleNext ==
  ASSUME NamesInv, DeclaredInv, MangleNext
  PROVE  DeclaredInv'
<1> DEFINE m == at.m
           id == file.mods[m].ids[at.i]
<1>1. m \in Places /\ names[m] \in Seq(Names) /\ at.step = "initialize" /\ PlaceOK
  BY ModsTyped DEF MangleNext, NamesInv, PlaceOK, NamesTyped, Places
<1>2. CASE \E r \in Registered(m) : r.id = id
  <2>1. Stop("crashed")
    BY <1>2 DEF MangleNext
  <2> QED BY <1>1, <2>1, DeclaredStop
<1>3. CASE ~\E r \in Registered(m) : r.id = id
  <2>1. PICK tail : names' = [names EXCEPT ![m] = Append(@, Mangled(m, id, tail))]
    BY <1>3 DEF MangleNext
  <2>2. /\ file' = file /\ table' = table /\ order' = order /\ syms' = syms
        /\ bound' = bound /\ hosted' = hosted
    BY <1>3 DEF MangleNext
  <2> DEFINE new == Mangled(m, id, tail)
  <2> HIDE DEF new
  <2>3. names' = [names EXCEPT ![m] = Append(names[m], new)]
    BY <2>1 DEF new
  <2>4. bound = {} /\ hosted = {}
    BY <1>1 DEF DeclaredInv, BoundLate
  <2>5. ASSUME NEW x \in Places, NEW i, Present(x, i)
        PROVE  Present(x, i)'
    <3>1. CASE x # m
      <4>1. names'[x] = names[x]
        BY <2>3, <3>1 DEF NamesInv, NamesTyped, Places
      <4> QED BY <2>2, <2>5, <4>1 DEF Present, HasName
    <3>2. CASE x = m
      <4>1. names'[m] = Append(names[m], new)
        BY <1>1, <2>3 DEF NamesInv, NamesTyped, Places
      <4>2. i \in 1..Len(names[m])
        BY <2>5, <3>2 DEF Present, HasName, Taken
      <4>3. i \in 1..Len(names'[m]) /\ names'[m][i] = names[m][i]
        BY <1>1, <4>1, <4>2
      <4> QED BY <2>2, <2>5, <3>2, <4>3 DEF Present, HasName
    <3> QED BY <3>1, <3>2
  <2>6. ShapesOK'
    BY <2>2 DEF DeclaredInv, ShapesOK, Places
  <2>7. TablesPresent'
    BY <2>2, <2>5 DEF DeclaredInv, TablesPresent, Places
  <2>8. BoundLate' /\ PrintedDeclared'
    BY <2>2, <2>4 DEF BoundLate, PrintedDeclared
  <2> QED BY <2>6, <2>7, <2>8 DEF DeclaredInv
<1> QED BY <1>2, <1>3

LEMMA DeclaredInitializeModule ==
  ASSUME NamesInv, DeclaredInv, InitializeModule
  PROVE  DeclaredInv'
<1> DEFINE m   == at.m
           fns == 1..Len(names[m])
<1>1. m \in Places /\ names[m] \in Seq(Names) /\ at.step = "initialize"
  BY ModsTyped DEF InitializeModule, NamesInv, PlaceOK, NamesTyped, Places
<1>2. /\ table' = [table EXCEPT ![m] = {[key |-> names[m][i], fun |-> i] : i \in fns}]
      /\ order' = [order EXCEPT ![m] = [i \in fns |-> i]]
      /\ syms'  = [syms EXCEPT ![m] = {[name |-> names[m][i], of |-> <<m, i>>] : i \in fns}]
      /\ file' = file /\ names' = names /\ bound' = bound /\ hosted' = hosted
  BY DEF InitializeModule
<1>3. bound = {} /\ hosted = {}
  BY <1>1 DEF DeclaredInv, BoundLate
<1>4. Len(names[m]) \in Nat
  BY <1>1
<1>5. [i \in fns |-> i] \in Seq(Nat) /\ Len([i \in fns |-> i]) = Len(names[m])
  BY <1>4
<1>6. ShapesOK'
  BY <1>2, <1>5 DEF DeclaredInv, ShapesOK, Places
<1>7. /\ table'[m] = {[key |-> names[m][i], fun |-> i] : i \in fns}
      /\ order'[m] = [i \in fns |-> i]
      /\ syms'[m] = {[name |-> names[m][i], of |-> <<m, i>>] : i \in fns}
  BY <1>1, <1>2 DEF DeclaredInv, ShapesOK
<1>8. ASSUME NEW i \in fns
      PROVE  HasName(names'[m], syms'[m], i)
  <2>1. [name |-> names[m][i], of |-> <<m, i>>] \in syms'[m]
    BY <1>7
  <2>2. names'[m][i] = names[m][i] /\ i \in 1..Len(names'[m])
    BY <1>2
  <2> QED BY <2>1, <2>2 DEF HasName
<1>9. ASSUME NEW x \in Places
      PROVE  /\ \A e \in table'[x] : HasName(names'[x], syms'[x], e.fun)
             /\ \A i \in 1..Len(order'[x]) : HasName(names'[x], syms'[x], order'[x][i])
  <2>1. CASE x = m
    <3>1. \A e \in table'[m] : e.fun \in fns
      BY <1>7
    <3>2. \A i \in 1..Len(order'[m]) : order'[m][i] \in fns
      BY <1>5, <1>7
    <3> QED BY <1>8, <2>1, <3>1, <3>2
  <2>2. CASE x # m
    <3>1. table'[x] = table[x] /\ order'[x] = order[x] /\ syms'[x] = syms[x]
      BY <1>2, <2>2 DEF DeclaredInv, ShapesOK
    <3>2. /\ \A e \in table[x] : Present(x, e.fun)
          /\ \A i \in 1..Len(order[x]) : Present(x, order[x][i])
      BY DEF DeclaredInv, TablesPresent
    <3> QED BY <1>2, <3>1, <3>2 DEF Present, HasName
  <2> QED BY <2>1, <2>2
<1>10. TablesPresent'
  BY <1>2, <1>9 DEF TablesPresent, Present, Places
<1>11. BoundLate' /\ PrintedDeclared'
  BY <1>2, <1>3 DEF BoundLate, PrintedDeclared
<1> QED BY <1>6, <1>10, <1>11 DEF DeclaredInv

LEMMA DeclaredGenerateCall ==
  ASSUME NamesInv, DeclaredInv, GenerateCall
  PROVE  DeclaredInv'
<1> DEFINE m      == at.m
           call   == CallAt
           callee == IF call.var \in Ids THEN LookUp(m, call.var, call.line)
                     ELSE ByIndex(m, call.var)
<1>1. m \in Places /\ at.step = "generate" /\ PlaceOK
  BY ModsTyped DEF GenerateCall, AtCall, AtFunction, NamesInv, PlaceOK, Places
<1>2. CASE callee = {}
  <2>1. Stop("crashed")
    BY <1>2 DEF GenerateCall
  <2> QED BY <1>1, <2>1, DeclaredStop
<1>3. CASE callee # {}
  <2>1. PICK r \in callee : Bind(m, at.i, at.k, r, r.to)
    BY <1>3 DEF GenerateCall
  <2>2. /\ at' = [at EXCEPT !.k = @ + 1]
        /\ file' = file /\ names' = names /\ table' = table /\ order' = order
        /\ hosted' = hosted
    BY <1>3 DEF GenerateCall
  <2>3. at'.step # "initialize"
    BY <1>1, <2>2 DEF PlaceOK
  <2>4. r.outside = TRUE \/ NameOf(r.to) \in Taken(m)
    <3>1. CASE call.var \in Ids
      <4>1. r \in LookUp(m, call.var, call.line)
        BY <3>1
      <4> HIDE DEF call, m
      <4>2. Found(m, r)
        BY <4>1, FoundLookUp
      <4> QED BY <1>1, <4>2, FoundBound
    <3>2. CASE call.var \notin Ids
      <4>1. r \in ByIndex(m, call.var)
        BY <3>2
      <4> HIDE DEF call, m
      <4>2. PICK i \in 1..Len(order[m]) : r.to = <<m, order[m][i]>>
        BY <4>1 DEF ByIndex
      <4>3. Present(m, order[m][i])
        BY <1>1 DEF DeclaredInv, TablesPresent
      <4> QED BY <4>2, <4>3 DEF Present, HasName, NameOf, Taken
    <3> QED BY <3>1, <3>2
  <2> HIDE DEF m, callee
  <2> QED BY <1>1, <2>1, <2>2, <2>3, <2>4, BindDeclares
<1> QED BY <1>2, <1>3

LEMMA DeclaredGenerateHosted ==
  ASSUME NamesInv, DeclaredInv, GenerateImportCall \/ GenerateIntrinsicCall
  PROVE  DeclaredInv'
<1> DEFINE m == at.m
<1>1. m \in Places /\ at.step = "generate" /\ PlaceOK
  BY ModsTyped DEF GenerateImportCall, GenerateIntrinsicCall, AtCall, AtFunction, NamesInv,
                   PlaceOK, Places
<1>2. CASE Stop("crashed")
  BY <1>1, <1>2, DeclaredStop
<1>3. CASE ~Stop("crashed")
  <2>1. /\ at' = [at EXCEPT !.k = @ + 1]
        /\ file' = file /\ names' = names /\ table' = table /\ order' = order
        /\ bound' = bound
    BY <1>3 DEF GenerateImportCall, GenerateIntrinsicCall
  <2>2. at'.step # "initialize"
    BY <1>1, <2>1 DEF PlaceOK
  <2>3. \/ \E i : UseImport(m, at.i, at.k, i)
        \/ UseIntrinsic(m, at.i, at.k, CallAt.var)
    BY <1>3 DEF GenerateImportCall, GenerateIntrinsicCall
  <2> HIDE DEF m
  <2>4. CASE \E i : UseImport(m, at.i, at.k, i)
    <3>1. PICK i : UseImport(m, at.i, at.k, i)
      BY <2>4
    <3>2. CASE Created(m, i) # {}
      <4>1. PICK s \in Created(m, i) : PrintHosted(m, at.i, at.k, s.name)
        BY <3>1, <3>2 DEF UseImport
      <4>2. syms' = syms
        BY <3>1, <3>2 DEF UseImport
      <4>3. s.name \in Taken(m)
        BY DEF Created, Taken
      <4> QED BY <1>1, <2>1, <2>2, <4>1, <4>2, <4>3, FoundDeclares
    <3>3. CASE Created(m, i) = {}
      <4>1. /\ PrintHosted(m, at.i, at.k, NewName(m, FullName(m, i)))
            /\ CreateFunction(m, FullName(m, i), <<0, i>>)
        BY <3>1, <3>3 DEF UseImport
      <4> QED BY <1>1, <2>1, <2>2, <4>1, CreatedDeclares
    <3> QED BY <3>2, <3>3
  <2>5. CASE UseIntrinsic(m, at.i, at.k, CallAt.var)
    <3> DEFINE name == IntrinsicName(CallAt.var)
    <3>1. CASE m = IntrinsicModule /\ name \in Taken(m)
      <4>1. PrintHosted(m, at.i, at.k, name) /\ syms' = syms
        BY <2>5, <3>1 DEF UseIntrinsic
      <4> HIDE DEF name
      <4> QED BY <1>1, <2>1, <2>2, <3>1, <4>1, FoundDeclares
    <3>2. CASE ~(m = IntrinsicModule /\ name \in Taken(m))
      <4>1. /\ PrintHosted(m, at.i, at.k, NewName(m, name))
            /\ CreateFunction(m, name, <<0, 0>>)
        BY <2>5, <3>2 DEF UseIntrinsic
      <4> HIDE DEF name
      <4> QED BY <1>1, <2>1, <2>2, <4>1, CreatedDeclares
    <3> QED BY <3>1, <3>2
  <2> QED BY <2>3, <2>4, <2>5
<1> QED BY <1>2, <1>3

LEMMA DeclaredFunctionGenerated ==
  ASSUME NamesInv, DeclaredInv, FunctionGenerated
  PROVE  DeclaredInv'
<1>1. at.step = "generate" /\ PlaceOK
  BY DEF FunctionGenerated, AtFunction, NamesInv
<1>2. \/ Stop("rejected")
      \/ /\ at' = At("generate", at.m, at.i + 1, 1)
         /\ UNCHANGED <<file, names, table, order, syms, bound, hosted>>
  BY DEF FunctionGenerated
<1>3. CASE Stop("rejected")
  BY <1>1, <1>3, DeclaredStop
<1>4. CASE /\ at' = At("generate", at.m, at.i + 1, 1)
           /\ UNCHANGED <<file, names, table, order, syms, bound, hosted>>
  BY <1>4, DeclaredKept DEF At
<1> QED BY <1>2, <1>3, <1>4

LEMMA DeclaredModuleGenerated ==
  ASSUME NamesInv, DeclaredInv, ModuleGenerated
  PROVE  DeclaredInv'
<1> DEFINE m == at.m
<1>1. m \in Places /\ at.step = "generate" /\ PlaceOK
  BY ModsTyped DEF ModuleGenerated, NamesInv, PlaceOK, Places
<1>2. \/ Stop("crashed")
      \/ /\ table' = [table EXCEPT ![m] = ExportTable(m)]
         /\ order' = [order EXCEPT ![m] = <<>>]
         /\ at' = IF m > 1 THEN At("generate", m - 1, 1, 1) ELSE At("script", 0, 1, 1)
         /\ UNCHANGED <<file, names, syms, bound, hosted>>
  BY DEF ModuleGenerated
<1>3. CASE Stop("crashed")
  BY <1>1, <1>3, DeclaredStop
<1>4. CASE /\ table' = [table EXCEPT ![m] = ExportTable(m)]
           /\ order' = [order EXCEPT ![m] = <<>>]
           /\ at' = IF m > 1 THEN At("generate", m - 1, 1, 1) ELSE At("script", 0, 1, 1)
           /\ UNCHANGED <<file, names, syms, bound, hosted>>
  <2>1. at'.step # "initialize"
    BY <1>4 DEF At
  <2>2. \A e \in ExportTable(m) : Present(m, e.fun)
    <3> SUFFICES ASSUME NEW e \in ExportTable(m) PROVE Present(m, e.fun)
      OBVIOUS
    <3>1. PICK x : \E f \in ExportFind(m, x) : e.fun = f[2]
      BY DEF ExportTable
    <3>2. PICK f \in ExportFind(m, x) : e.fun = f[2]
      BY <3>1
    <3>3. \/ \E y \in table[m] : f = <<m, y.fun>>
          \/ \E i \in 1..Len(order[m]) : f = <<m, order[m][i]>>
      BY <3>2 DEF ExportFind, ModuleFind, OrElse, InTable
    <3> HIDE DEF m
    <3>4. CASE \E y \in table[m] : f = <<m, y.fun>>
      BY <1>1, <3>2, <3>4 DEF DeclaredInv, TablesPresent
    <3>5. CASE \E i \in 1..Len(order[m]) : f = <<m, order[m][i]>>
      BY <1>1, <3>2, <3>5 DEF DeclaredInv, TablesPresent
    <3> QED BY <3>3, <3>4, <3>5
  <2> HIDE DEF m
  <2>3. \A x \in Places : \A i : HasName(names'[x], syms'[x], i) <=> HasName(names[x], syms[x], i)
    BY <1>4
  <2>4. table'[m] = ExportTable(m) /\ order'[m] = <<>>
    BY <1>1, <1>4 DEF DeclaredInv, ShapesOK
  <2>5. \A x \in Places : x # m => table'[x] = table[x] /\ order'[x] = order[x]
    BY <1>4 DEF DeclaredInv, ShapesOK
  <2>6. Len(order'[m]) = 0
    BY <2>4
  <2>7. ASSUME NEW x \in Places
        PROVE  /\ \A e \in table'[x] : HasName(names'[x], syms'[x], e.fun)
               /\ \A i \in 1..Len(order'[x]) : HasName(names'[x], syms'[x], order'[x][i])
    <3>1. CASE x = m
      BY <1>1, <2>2, <2>3, <2>4, <2>6, <3>1 DEF Present
    <3>2. CASE x # m
      BY <2>3, <2>5, <3>2 DEF DeclaredInv, TablesPresent, Present
    <3> QED BY <3>1, <3>2
  <2>8. TablesPresent'
    BY <1>4, <2>7 DEF TablesPresent, Present, Places
  <2>9. ShapesOK'
    <3>1. <<>> \in Seq(Nat)
      OBVIOUS
    <3> QED BY <1>1, <1>4, <3>1 DEF DeclaredInv, ShapesOK, Places
  <2>10. BoundLate' /\ PrintedDeclared'
    BY <1>4, <2>1 DEF DeclaredInv, BoundLate, PrintedDeclared, Places, Taken, NameOf
  <2> QED BY <2>8, <2>9, <2>10 DEF DeclaredInv
<1> QED BY <1>2, <1>3, <1>4

LEMMA DeclaredGenerateScriptElem ==
  ASSUME NamesInv, DeclaredInv, GenerateScriptElem
  PROVE  DeclaredInv'
<1> DEFINE elem   == file.script[at.i]
           callee == LookUp(0, elem.name, elem.line)
<1>1. 0 \in Places /\ at.step = "script" /\ PlaceOK
  BY ModsTyped DEF GenerateScriptElem, NamesInv, PlaceOK, Places
<1>2. CASE \A r \in callee : Typing(elem, r) = {}
  <2>1. Stop("crashed")
    BY <1>2 DEF GenerateScriptElem
  <2> QED BY <1>1, <2>1, DeclaredStop
<1>3. CASE ~\A r \in callee : Typing(elem, r) = {}
  <2>1. PICK r \in callee : \E t \in Typing(elem, r) : Bind(0, at.i, 1, r, t)
    BY <1>3 DEF GenerateScriptElem
  <2>6. PICK t \in Typing(elem, r) : Bind(0, at.i, 1, r, t)
    BY <2>1
  <2>2. /\ at' = [at EXCEPT !.i = @ + 1]
        /\ file' = file /\ names' = names /\ table' = table /\ order' = order
        /\ hosted' = hosted
    BY <1>3 DEF GenerateScriptElem
  <2>3. at'.step # "initialize"
    BY <1>1, <2>2 DEF PlaceOK
  <2>4. Found(0, r)
    BY <2>1, FoundLookUp
  <2>5. r.outside = TRUE \/ NameOf(r.to) \in Taken(0)
    BY <1>1, <2>4, FoundBound
  <2> HIDE DEF elem, callee
  <2> QED BY <1>1, <2>2, <2>3, <2>5, <2>6, BindDeclares
<1> QED BY <1>2, <1>3

LEMMA DeclaredNext == NamesInv /\ DeclaredInv /\ [Next]_vars => DeclaredInv'
<1> SUFFICES ASSUME NamesInv, DeclaredInv, [Next]_vars PROVE DeclaredInv'
  OBVIOUS
<1>1. CASE MangleNext
  BY <1>1, DeclaredMangleNext
<1>2. CASE InitializeModule
  BY <1>2, DeclaredInitializeModule
<1>3. CASE GenerateCall
  BY <1>3, DeclaredGenerateCall
<1>4. CASE FunctionGenerated
  BY <1>4, DeclaredFunctionGenerated
<1>5. CASE ModuleGenerated
  BY <1>5, DeclaredModuleGenerated
<1>6. CASE GenerateScriptElem
  BY <1>6, DeclaredGenerateScriptElem
<1>9. CASE GenerateImportCall \/ GenerateIntrinsicCall
  BY <1>9, DeclaredGenerateHosted
<1>7. CASE ScriptGenerated
  <2>1. Stop("done")
    BY <1>7 DEF ScriptGenerated
  <2> QED BY <2>1, DeclaredStop DEF NamesInv
<1>8. CASE Terminated \/ UNCHANGED vars
  <2>1. UNCHANGED vars
    BY <1>8 DEF Terminated
  <2> QED BY <2>1, DeclaredKept DEF vars
<1> QED BY <1>1, <1>2, <1>3, <1>4, <1>5, <1>6, <1>7, <1>8, <1>9 DEF Next, Step

(***************************************************************************)
(* Every name that CallExpression::Codegen prints is a name of the LLVM    *)
(* module it is printed in, whether the callee was found in the tables,    *)
(* before or after the exports replaced them, or in another module, when   *)
(* InternalGetWasmFunction creates a prototype.                            *)
(***************************************************************************)
THEOREM PrintedNamesDeclared == Spec => []PrintedDeclared
<1>1. Init => NamesInv /\ DeclaredInv
  BY NamesInit, DeclaredInit
<1>2. NamesInv /\ DeclaredInv /\ [Next]_vars => (NamesInv /\ DeclaredInv)'
  BY NamesNext, DeclaredNext
<1>3. NamesInv /\ DeclaredInv => PrintedDeclared
  BY DEF DeclaredInv
<1> QED BY <1>1, <1>2, <1>3, PTL DEF Spec

-----------------------------------------------------------------------------
(***************************************************************************)
(* Between its initialization and its generation a module has its internal *)
(* tables, afterwards its exports.                                         *)
(***************************************************************************)
Internal(m) ==
  \/ at.step = "initialize" /\ m > at.m
  \/ at.step = "generate" /\ m <= at.m

Exporting(m) ==
  \/ at.step = "generate" /\ m > at.m
  \/ at.step = "script"

(***************************************************************************)
(* How many names there are, which is where the compiler is.               *)
(***************************************************************************)
NamesCounted ==
  /\ \A m \in Mods : Len(names[m]) <= Len(file.mods[m].ids)
  /\ \A m \in Mods : at.step = "initialize" /\ m < at.m => names[m] = <<>>
  /\ \A m \in Mods : Internal(m) \/ Exporting(m) => Len(names[m]) = Len(file.mods[m].ids)

ScriptModuleEmpty == names[0] = <<>> /\ table[0] = {} /\ order[0] = <<>>

ProgressInv == IsParsedFile(file) /\ AtOK /\ NamesCounted /\ ScriptModuleEmpty

(***************************************************************************)
(* LLVM always finds a number for a name: it knows finitely many.          *)
(***************************************************************************)
SymsFinite == last \in [Places -> Nat] /\ \A m \in Places : IsFiniteSet(syms[m])

(***************************************************************************)
(* What the tables are.                                                    *)
(***************************************************************************)
InternalTable(m) == {[key |-> names[m][i], fun |-> i] : i \in 1..Len(names[m])}

Counting(m) ==
  LET exports == file.mods[m].exports
  IN {x \in 1..Len(exports) : \A y \in (x + 1)..Len(exports) : exports[y].name # exports[x].name}

MeantTable(m) ==
  UNION {{[key |-> file.mods[m].exports[x].name, fun |-> f[2]] :
             f \in Meant(m, file.mods[m].exports[x].var)} : x \in Counting(m)}

TablesKnown ==
  \A m \in Mods :
    /\ Internal(m) => table[m] = InternalTable(m) /\ order[m] = [i \in 1..Len(names[m]) |-> i]
    /\ Exporting(m) => table[m] = MeantTable(m)

-----------------------------------------------------------------------------
(***************************************************************************)
(* A set of numbers has a least one, and a greatest one if it is bounded.  *)
(***************************************************************************)
LEMMA NotBelow ==
  ASSUME NEW i \in Nat, NEW j \in Nat, <<i, j>> \notin OpToRel(<, Nat)
  PROVE  j <= i
BY DEF OpToRel

LEMMA LeastNumber ==
  ASSUME NEW S \in SUBSET Nat, S # {}
  PROVE  \E n \in S : \A x \in S : n <= x
<1>1. PICK n \in S : \A x \in S : ~(<<x, n>> \in OpToRel(<, Nat))
  BY WFMin, NatLessThanWellFounded
<1>2. \A x \in S : n <= x
  BY <1>1, NotBelow
<1> QED BY <1>2

LEMMA GreatestNumber ==
  ASSUME NEW N \in Nat, NEW S \in SUBSET (0..N), S # {}
  PROVE  \E n \in S : \A x \in S : x <= n
<1> DEFINE T == {y \in Nat : N - y \in S}
<1>1. T # {}
  <2>1. PICK x \in S : TRUE
    OBVIOUS
  <2>2. N - x \in Nat /\ N - (N - x) = x
    BY <2>1
  <2> QED BY <2>1, <2>2
<1>2. PICK y \in T : \A x \in T : y <= x
  BY <1>1, LeastNumber
<1>3. ASSUME NEW x \in S PROVE x <= N - y
  <2>1. N - x \in Nat /\ N - (N - x) = x /\ x \in Nat
    BY <1>3
  <2>2. y <= N - x
    BY <1>2, <2>1
  <2>3. y \in Nat
    OBVIOUS
  <2> QED BY <2>1, <2>2, <2>3
<1> QED BY <1>2, <1>3

(***************************************************************************)
(* Numbers that are appended to a name make different names of it; so one  *)
(* of more numbers than there are functions is free.                       *)
(***************************************************************************)
LEMMA NumberedDiffer ==
  ASSUME NEW name \in Names, NEW n \in Nat, NEW x \in Nat,
         Numbered(name, n) = Numbered(name, x)
  PROVE  n = x
<1>1. name.text \in Seq(Symbols \cup Nat)
  BY DEF Names
<1>2. Numbered(name, n).text = Append(name.text, n) /\ Numbered(name, x).text = Append(name.text, x)
  BY DEF Numbered, Names
<1> DEFINE t == name.text
<1>3. Append(t, n)[Len(t) + 1] = n /\ Append(t, x)[Len(t) + 1] = x
  BY <1>1
<1> QED BY <1>2, <1>3

LEMMA NumberedTyped ==
  ASSUME NEW name \in Names, NEW n \in Nat
  PROVE  /\ Numbered(name, n) \in Names
         /\ Numbered(name, n).mod = name.mod
         /\ Numbered(name, n).text = Append(name.text, n)
<1>1. name.text \in Seq(Symbols \cup Nat) /\ name.mod \in Nat
  BY DEF Names
<1>2. Append(name.text, n) \in Seq(Symbols \cup Nat)
  BY <1>1
<1> DEFINE t == Append(name.text, n)
<1> HIDE DEF t
<1>3. [name EXCEPT !.text = t] \in Names /\ [name EXCEPT !.text = t].mod = name.mod
      /\ [name EXCEPT !.text = t].text = t
  <2>1. t \in Seq(Symbols \cup Nat)
    BY <1>2 DEF t
  <2> QED BY <2>1 DEF Names
<1> QED BY <1>3 DEF Numbered, t

LEMMA NumberFree ==
  ASSUME NEW m, IsFiniteSet(syms[m]), last[m] \in Nat, NEW name \in Names
  PROVE  NextNumber(m, name) \in Nat /\ Numbered(name, NextNumber(m, name)) \notin Taken(m)
<1> DEFINE l    == last[m]
           S    == syms[m]
           I    == (l + 1)..(l + Cardinality(S) + 1)
           free == {n \in I : Numbered(name, n) \notin Taken(m)}
<1>1. Cardinality(S) \in Nat
  BY FS_CardinalityType
<1>2. IsFiniteSet(I) /\ Cardinality(I) = Cardinality(S) + 1
  <2>1. l + 1 \in Int /\ l + Cardinality(S) + 1 \in Int
        /\ (l + Cardinality(S) + 1) - (l + 1) + 1 = Cardinality(S) + 1
        /\ ~(l + 1 > l + Cardinality(S) + 1)
    BY <1>1
  <2> QED BY <2>1, FS_Interval
<1>3. I \subseteq Nat
  BY <1>1
<1>4. free # {}
  <2> SUFFICES ASSUME free = {} PROVE FALSE
    OBVIOUS
  <2> DEFINE g == [n \in I |-> CHOOSE s \in S : s.name = Numbered(name, n)]
  <2>1. ASSUME NEW n \in I
        PROVE  g[n] \in S /\ g[n].name = Numbered(name, n)
    <3>1. Numbered(name, n) \in Taken(m)
      OBVIOUS
    <3>2. \E s \in S : s.name = Numbered(name, n)
      BY <3>1 DEF Taken
    <3> QED BY <3>2
  <2>2. g \in [I -> S]
    BY <2>1
  <2> HIDE DEF g, I
  <2>3. PICK x \in I, y \in I : x # y /\ g[x] = g[y]
    <3>1. Cardinality(S) < Cardinality(I)
      BY <1>1, <1>2
    <3> QED BY <1>2, <2>2, <3>1, FS_PigeonHole
  <2>4. Numbered(name, x) = Numbered(name, y)
    BY <2>1, <2>3
  <2> QED BY <1>3, <2>3, <2>4, NumberedDiffer
<1>5. \E n \in free : \A x \in free : n <= x
  BY <1>3, <1>4, LeastNumber
<1>6. NextNumber(m, name) = CHOOSE n \in free : \A x \in free : n <= x
  BY DEF NextNumber
<1>7. NextNumber(m, name) \in free
  BY <1>5, <1>6
<1> QED BY <1>3, <1>7

-----------------------------------------------------------------------------
(***************************************************************************)
(* What the parser built.                                                  *)
(***************************************************************************)
LEMMA FileTyped ==
  ASSUME IsParsedFile(file)
  PROVE  /\ Len(file.mods) \in Nat /\ Len(file.mods) > 0
         /\ file.script \in Seq(Invokes)
         /\ \A m \in Mods : /\ m \in Nat /\ m \in Places /\ m # 0
                            /\ file.mods[m].ids \in Seq(Ids)
                            /\ file.mods[m].calls \in Seq(Seq(Calls))
                            /\ file.mods[m].imports \in Seq(Imports)
                            /\ file.mods[m].exports \in Seq(Exports)
                            /\ file.mods[m].line \in Nat
                            /\ Len(file.mods[m].calls) = Len(file.mods[m].ids)
                            /\ Len(file.mods[m].ids) \in Nat
<1>1. file.mods \in Seq(Modules) /\ file.script \in Seq(Invokes) /\ Len(file.mods) > 0
  BY DEF IsParsedFile, Files
<1>2. Len(file.mods) \in Nat
  BY <1>1
<1>3. ASSUME NEW m \in Mods
      PROVE  /\ m \in Nat /\ m \in Places /\ m # 0
             /\ file.mods[m] \in Modules
             /\ Len(file.mods[m].calls) = Len(file.mods[m].ids)
  <2>1. m \in 1..Len(file.mods)
    BY <1>3 DEF Mods
  <2>2. Len(file.mods[m].calls) = Len(file.mods[m].ids)
    BY <2>1 DEF IsParsedFile
  <2> QED BY <1>1, <1>2, <2>1, <2>2 DEF Places
<1>4. ASSUME NEW x \in Modules
      PROVE  /\ x.ids \in Seq(Ids)
             /\ x.calls \in Seq(Seq(Calls))
             /\ x.imports \in Seq(Imports)
             /\ x.exports \in Seq(Exports)
             /\ x.line \in Nat
             /\ Len(x.ids) \in Nat
  BY <1>4 DEF Modules
<1> QED BY <1>1, <1>2, <1>3, <1>4

LEMMA BodyTyped ==
  ASSUME IsParsedFile(file), NEW m \in Mods, NEW i \in 1..Len(file.mods[m].ids)
  PROVE  BodyOf(m, i) \in Seq(Calls) /\ Len(BodyOf(m, i)) \in Nat
<1>1. file.mods[m].calls \in Seq(Seq(Calls)) /\ Len(file.mods[m].calls) = Len(file.mods[m].ids)
  BY FileTyped
<1>2. BodyOf(m, i) = file.mods[m].calls[i]
  BY DEF BodyOf
<1>3. BodyOf(m, i) \in Seq(Calls)
  BY <1>1, <1>2
<1>4. \A body \in Seq(Calls) : Len(body) \in Nat
  OBVIOUS
<1> QED BY <1>3, <1>4

LEMMA NamesLength ==
  ASSUME NamesInv, NEW m \in Places
  PROVE  Len(names[m]) \in Nat /\ names[m] \in Seq(Names)
BY DEF NamesInv, NamesTyped, Places

-----------------------------------------------------------------------------
LEMMA ProgressInit == Init => ProgressInv
<1> SUFFICES ASSUME Init PROVE ProgressInv
  OBVIOUS
<1>1. /\ IsParsedFile(file)
      /\ names = [m \in Places |-> <<>>]
      /\ table = [m \in Places |-> {}]
      /\ order = [m \in Places |-> <<>>]
      /\ at = At("initialize", Len(file.mods), 1, 1)
  BY DEF Init, Places
<1>2. Len(file.mods) \in Mods
  BY <1>1, FileTyped DEF Mods
<1>3. \A m \in Places : names[m] = <<>>
  BY <1>1
<1>4. \A m \in Mods : names[m] = <<>> /\ Len(names[m]) = 0
  BY <1>1, <1>3, FileTyped
<1>5. AtOK
  BY <1>1, <1>2, <1>4 DEF AtOK, At
<1>6. at.step = "initialize" /\ \A m \in Mods : ~(m > at.m)
  BY <1>1, FileTyped DEF At, Mods
<1>7. \A m \in Mods : ~Internal(m) /\ ~Exporting(m)
  BY <1>6 DEF Internal, Exporting
<1>8. NamesCounted
  BY <1>1, <1>4, <1>7, FileTyped DEF NamesCounted
<1>9. 0 \in Places
  BY <1>1, FileTyped DEF Places
<1>10. ScriptModuleEmpty
  BY <1>1, <1>9 DEF ScriptModuleEmpty
<1> QED BY <1>1, <1>5, <1>8, <1>10 DEF ProgressInv

(***************************************************************************)
(* What is known where the compiler is.                                    *)
(***************************************************************************)
LEMMA WhenInitializing ==
  ASSUME NamesInv, ProgressInv, at.step = "initialize"
  PROVE  /\ at.m \in Mods /\ at.k = 1 /\ at.i = Len(names[at.m]) + 1
         /\ Len(names[at.m]) \in Nat
<1>1. at.m \in Mods /\ at.k = 1 /\ at.i = Len(names[at.m]) + 1
  BY DEF ProgressInv, AtOK
<1> QED BY <1>1, NamesLength, FileTyped DEF ProgressInv

LEMMA WhenGenerating ==
  ASSUME NamesInv, ProgressInv, at.step = "generate"
  PROVE  /\ at.m \in Mods /\ at.m \in Nat /\ at.m > 0
         /\ \A m \in Mods : Len(names[m]) = Len(file.mods[m].ids)
         /\ at.i \in 1..(Len(file.mods[at.m].ids) + 1)
         /\ at.i <= Len(file.mods[at.m].ids) => at.k \in 1..(Len(BodyOf(at.m, at.i)) + 1)
<1>1. /\ at.m \in Mods
      /\ at.i \in 1..(Len(names[at.m]) + 1)
      /\ at.i <= Len(names[at.m]) => at.k \in 1..(Len(BodyOf(at.m, at.i)) + 1)
  BY DEF ProgressInv, AtOK
<1>2. at.m \in Nat /\ at.m > 0
  BY <1>1, FileTyped DEF ProgressInv
<1>3. ASSUME NEW m \in Mods PROVE Len(names[m]) = Len(file.mods[m].ids)
  <2>1. m \in Nat
    BY FileTyped DEF ProgressInv
  <2>2. Internal(m) \/ Exporting(m)
    BY <1>2, <2>1 DEF Internal, Exporting
  <2> QED BY <2>2 DEF ProgressInv, NamesCounted
<1> QED BY <1>1, <1>2, <1>3

LEMMA WhenScripting ==
  ASSUME ProgressInv, at.step = "script"
  PROVE  /\ at.m = 0 /\ at.i \in 1..(Len(file.script) + 1)
         /\ \A m \in Mods : Len(names[m]) = Len(file.mods[m].ids)
<1>1. at.m = 0 /\ at.i \in 1..(Len(file.script) + 1)
  BY DEF ProgressInv, AtOK
<1>2. \A m \in Mods : Exporting(m)
  BY DEF Exporting
<1> QED BY <1>1, <1>2 DEF ProgressInv, NamesCounted

(***************************************************************************)
(* Steps that only move within the generation of a module.                 *)
(***************************************************************************)
LEMMA ProgressStop ==
  ASSUME NamesInv, ProgressInv, NEW step \in {"done", "crashed", "rejected"}, Stop(step)
  PROVE  ProgressInv'
<1>1. /\ at'.step = step
      /\ file' = file /\ names' = names /\ table' = table /\ order' = order
  BY DEF Stop, NamesInv, PlaceOK
<1>2. AtOK'
  BY <1>1 DEF AtOK
<1>3. NamesCounted'
  BY <1>1 DEF ProgressInv, NamesCounted, Internal, Exporting, Mods
<1> QED BY <1>1, <1>2, <1>3 DEF ProgressInv, ScriptModuleEmpty

LEMMA ProgressWithin ==
  ASSUME NamesInv, ProgressInv, at.step = "generate", at'.step = "generate", at'.m = at.m,
         at'.i \in 1..(Len(file.mods[at.m].ids) + 1),
         at'.i <= Len(file.mods[at.m].ids) => at'.k \in 1..(Len(BodyOf(at.m, at'.i)) + 1),
         file' = file, names' = names, table' = table, order' = order
  PROVE  ProgressInv'
<1>1. at.m \in Mods /\ Len(names[at.m]) = Len(file.mods[at.m].ids)
  BY WhenGenerating
<1>2. AtOK'
  BY <1>1 DEF AtOK, Mods, BodyOf
<1>3. NamesCounted'
  BY DEF ProgressInv, NamesCounted, Internal, Exporting, Mods
<1> QED BY <1>2, <1>3 DEF ProgressInv, ScriptModuleEmpty

(***************************************************************************)
(* The start of a module whose functions all have names.                   *)
(***************************************************************************)
LEMMA AtStart ==
  ASSUME IsParsedFile(file), NEW L \in Mods, Len(names[L]) = Len(file.mods[L].ids),
         file' = file, names' = names, at' = At("generate", L, 1, 1)
  PROVE  AtOK'
<1>1. at'.step = "generate" /\ at'.m = L /\ at'.i = 1 /\ at'.k = 1
  BY DEF At
<1>2. Len(names[L]) \in Nat
  BY FileTyped
<1>3. ASSUME 1 <= Len(names[L]) PROVE 1 \in 1..(Len(BodyOf(L, 1)) + 1)
  <2>1. 1 \in 1..Len(file.mods[L].ids)
    BY <1>2, <1>3
  <2>2. Len(BodyOf(L, 1)) \in Nat
    BY <2>1, BodyTyped
  <2> QED BY <2>2
<1>4. at'.m \in Mods' /\ at'.i \in 1..(Len(names'[at'.m]) + 1)
  BY <1>1, <1>2 DEF Mods
<1>5. BodyOf(L, 1)' = BodyOf(L, 1)
  BY DEF BodyOf
<1>6. at'.i <= Len(names'[at'.m]) => at'.k \in 1..(Len(BodyOf(at.m, at.i)') + 1)
  BY <1>1, <1>3, <1>5 DEF BodyOf
<1> QED BY <1>1, <1>4, <1>6 DEF AtOK

LEMMA ProgressMangleNext ==
  ASSUME NamesInv, DeclaredInv, ProgressInv, MangleNext
  PROVE  ProgressInv'
<1> DEFINE m  == at.m
           id == file.mods[m].ids[at.i]
<1>1. /\ m \in Mods /\ at.k = 1 /\ at.i = Len(names[m]) + 1
      /\ Len(names[m]) \in Nat /\ at.i <= Len(file.mods[m].ids)
      /\ at.step = "initialize" /\ m \in Nat /\ m \in Places /\ m # 0
      /\ Len(file.mods[m].ids) \in Nat /\ names[m] \in Seq(Names)
  BY WhenInitializing, NamesLength, FileTyped DEF MangleNext, ProgressInv
<1>2. CASE \E r \in Registered(m) : r.id = id
  <2>1. Stop("crashed")
    BY <1>2 DEF MangleNext
  <2> QED BY <2>1, ProgressStop
<1>3. CASE ~\E r \in Registered(m) : r.id = id
  <2>1. PICK tail : names' = [names EXCEPT ![m] = Append(@, Mangled(m, id, tail))]
    BY <1>3 DEF MangleNext
  <2>2. /\ at' = [at EXCEPT !.i = @ + 1] /\ file' = file /\ table' = table /\ order' = order
    BY <1>3 DEF MangleNext
  <2> DEFINE new == Mangled(m, id, tail)
  <2> HIDE DEF new
  <2>3. names' = [names EXCEPT ![m] = Append(names[m], new)]
    BY <2>1 DEF new
  <2>4. names'[m] = Append(names[m], new) /\ Len(names'[m]) = Len(names[m]) + 1
    BY <1>1, <2>3 DEF NamesInv, NamesTyped, Places
  <2>5. \A x \in Places : x # m => names'[x] = names[x]
    BY <2>3 DEF NamesInv, NamesTyped, Places
  <2>6. at'.step = at.step /\ at'.m = m /\ at'.k = 1 /\ at'.i = at.i + 1
    BY <1>1, <2>2 DEF NamesInv, PlaceOK
  <2>7. AtOK'
    BY <1>1, <2>2, <2>4, <2>6 DEF AtOK, Mods
  <2>8. ASSUME NEW x \in Mods
        PROVE  /\ Len(names'[x]) <= Len(file.mods[x].ids)
               /\ x < m => names'[x] = <<>>
               /\ Internal(x) \/ Exporting(x) => Len(names'[x]) = Len(file.mods[x].ids)
    <3>1. x \in Places /\ x \in Nat
      BY FileTyped DEF ProgressInv
    <3>2. CASE x = m
      BY <1>1, <2>4, <3>2 DEF Internal, Exporting
    <3>3. CASE x # m
      BY <1>1, <2>5, <3>1, <3>3 DEF ProgressInv, NamesCounted
    <3> QED BY <3>2, <3>3
  <2>9. NamesCounted'
    BY <1>1, <2>2, <2>6, <2>8 DEF NamesCounted, Internal, Exporting, Mods
  <2>10. 0 \in Places
    BY FileTyped DEF ProgressInv, Places
  <2>11. ScriptModuleEmpty'
    BY <1>1, <2>2, <2>5, <2>10 DEF ProgressInv, ScriptModuleEmpty
  <2> QED BY <2>2, <2>7, <2>9, <2>11 DEF ProgressInv
<1> QED BY <1>2, <1>3

LEMMA ProgressInitializeModule ==
  ASSUME NamesInv, DeclaredInv, ProgressInv, InitializeModule
  PROVE  ProgressInv' /\ Len(names[at.m]) = Len(file.mods[at.m].ids)
<1> DEFINE m == at.m
<1>1. /\ m \in Mods /\ at.i = Len(names[m]) + 1 /\ at.i > Len(file.mods[m].ids)
      /\ Len(names[m]) \in Nat /\ at.step = "initialize" /\ m \in Nat /\ m \in Places /\ m # 0
      /\ Len(file.mods[m].ids) \in Nat /\ Len(names[m]) <= Len(file.mods[m].ids)
      /\ Len(file.mods) \in Nat
  BY WhenInitializing, FileTyped DEF InitializeModule, ProgressInv, NamesCounted
<1>2. Len(names[m]) = Len(file.mods[m].ids)
  BY <1>1
<1>3. /\ file' = file /\ names' = names
      /\ at' = IF m > 1 THEN At("initialize", m - 1, 1, 1)
               ELSE At("generate", Len(file.mods), 1, 1)
  BY DEF InitializeModule
<1>4. 0 \in Places /\ 0 # m
  BY <1>1, FileTyped DEF Places
<1>5. table'[0] = table[0] /\ order'[0] = order[0]
  BY <1>4 DEF InitializeModule, DeclaredInv, ShapesOK
<1>6. ScriptModuleEmpty'
  BY <1>3, <1>5 DEF ProgressInv, ScriptModuleEmpty
<1>7. ASSUME NEW x \in Mods, x >= m PROVE Len(names[x]) = Len(file.mods[x].ids)
  <2>1. x \in Nat
    BY FileTyped DEF ProgressInv
  <2>2. CASE x = m
    BY <1>2, <2>2
  <2>3. CASE x > m
    <3>1. Internal(x)
      BY <1>1, <2>3 DEF Internal
    <3> QED BY <3>1 DEF ProgressInv, NamesCounted
  <2> QED BY <1>1, <1>7, <2>1, <2>2, <2>3
<1>8. CASE m > 1
  <2>1. at'.step = "initialize" /\ at'.m = m - 1 /\ at'.i = 1 /\ at'.k = 1
    BY <1>3, <1>8 DEF At
  <2>2. m - 1 \in Mods /\ m - 1 < m
    BY <1>1, <1>8 DEF Mods
  <2>3. names[m - 1] = <<>>
    BY <1>1, <2>2 DEF ProgressInv, NamesCounted
  <2>4. Len(names[m - 1]) = 0
    BY <2>3
  <2>5. AtOK'
    BY <1>3, <2>1, <2>2, <2>4 DEF AtOK, Mods
  <2>6. ASSUME NEW x \in Mods
        PROVE  /\ x < m - 1 => x < m
               /\ x > m - 1 => x >= m
    BY <1>1, FileTyped DEF ProgressInv
  <2>7. \A x \in Mods : x < m - 1 => names[x] = <<>>
    BY <1>1, <2>6 DEF ProgressInv, NamesCounted
  <2>8. \A x \in Mods : x > m - 1 => Len(names[x]) = Len(file.mods[x].ids)
    BY <1>7, <2>6
  <2>9. NamesCounted'
    BY <1>3, <2>1, <2>7, <2>8 DEF ProgressInv, NamesCounted, Internal, Exporting, Mods
  <2> QED BY <1>2, <1>3, <1>6, <2>5, <2>9 DEF ProgressInv
<1>9. CASE ~(m > 1)
  <2>1. at'.step = "generate" /\ at'.m = Len(file.mods) /\ at'.i = 1 /\ at'.k = 1
    BY <1>3, <1>9 DEF At
  <2>2. Len(file.mods) \in Mods
    BY <1>1, FileTyped DEF ProgressInv, Mods
  <2>3. \A x \in Mods : x >= m
    BY <1>1, <1>9, FileTyped DEF ProgressInv
  <2>4. \A x \in Mods : Len(names[x]) = Len(file.mods[x].ids)
    BY <1>7, <2>3
  <2> DEFINE L == Len(file.mods)
  <2>5. Len(names[L]) = Len(file.mods[L].ids) /\ Len(names[L]) \in Nat
    BY <2>2, <2>4, FileTyped DEF ProgressInv
  <2>7. AtOK'
    BY <1>3, <1>9, <2>2, <2>5, AtStart DEF ProgressInv
  <2>8. NamesCounted'
    BY <1>3, <2>1, <2>4 DEF ProgressInv, NamesCounted, Mods
  <2> QED BY <1>2, <1>3, <1>6, <2>7, <2>8 DEF ProgressInv
<1> QED BY <1>8, <1>9

LEMMA ProgressCall ==
  ASSUME NamesInv, ProgressInv, AtFunction, at.k <= Len(BodyOf(at.m, at.i)),
         at' = [at EXCEPT !.k = @ + 1],
         file' = file, names' = names, table' = table, order' = order
  PROVE  ProgressInv'
<1>1. at.step = "generate" /\ at.i <= Len(file.mods[at.m].ids)
  BY DEF AtFunction
<1>2. /\ at.m \in Mods /\ at.i \in 1..(Len(file.mods[at.m].ids) + 1)
      /\ at.k \in 1..(Len(BodyOf(at.m, at.i)) + 1) /\ Len(file.mods[at.m].ids) \in Nat
  BY <1>1, WhenGenerating, FileTyped DEF ProgressInv
<1>3. at.i \in 1..Len(file.mods[at.m].ids)
  BY <1>1, <1>2
<1>4. Len(BodyOf(at.m, at.i)) \in Nat
  BY <1>2, <1>3, BodyTyped DEF ProgressInv
<1>5. at'.step = "generate" /\ at'.m = at.m /\ at'.i = at.i /\ at'.k = at.k + 1
  BY <1>1 DEF NamesInv, PlaceOK
<1>6. at'.k \in 1..(Len(BodyOf(at.m, at'.i)) + 1)
  BY <1>2, <1>4, <1>5
<1> QED BY <1>1, <1>2, <1>5, <1>6, ProgressWithin

LEMMA ProgressFunctionGenerated ==
  ASSUME NamesInv, ProgressInv, FunctionGenerated
  PROVE  ProgressInv'
<1>1. at.step = "generate" /\ at.i <= Len(file.mods[at.m].ids)
  BY DEF FunctionGenerated, AtFunction
<1>2. \/ Stop("rejected")
      \/ /\ at' = At("generate", at.m, at.i + 1, 1)
         /\ UNCHANGED <<file, names, table, order>>
  BY DEF FunctionGenerated
<1>3. CASE Stop("rejected")
  BY <1>3, ProgressStop
<1>4. CASE /\ at' = At("generate", at.m, at.i + 1, 1)
           /\ UNCHANGED <<file, names, table, order>>
  <2>1. /\ at.m \in Mods /\ at.i \in 1..(Len(file.mods[at.m].ids) + 1)
        /\ Len(file.mods[at.m].ids) \in Nat
    BY <1>1, WhenGenerating, FileTyped DEF ProgressInv
  <2>2. at'.step = "generate" /\ at'.m = at.m /\ at'.i = at.i + 1 /\ at'.k = 1
    BY <1>4 DEF At
  <2>3. at'.i \in 1..(Len(file.mods[at.m].ids) + 1)
    BY <1>1, <2>1, <2>2
  <2>4. ASSUME at'.i <= Len(file.mods[at.m].ids)
        PROVE  at'.k \in 1..(Len(BodyOf(at.m, at'.i)) + 1)
    <3>1. at'.i \in 1..Len(file.mods[at.m].ids)
      BY <2>1, <2>3, <2>4
    <3>2. Len(BodyOf(at.m, at'.i)) \in Nat
      BY <2>1, <3>1, BodyTyped DEF ProgressInv
    <3> QED BY <2>2, <3>2
  <2> QED BY <1>1, <1>4, <2>2, <2>3, <2>4, ProgressWithin
<1> QED BY <1>2, <1>3, <1>4

LEMMA ProgressModuleGenerated ==
  ASSUME NamesInv, DeclaredInv, ProgressInv, ModuleGenerated
  PROVE  ProgressInv'
<1> DEFINE m == at.m
<1>1. /\ m \in Mods /\ m \in Nat /\ m > 0 /\ m \in Places /\ at.step = "generate"
      /\ \A x \in Mods : Len(names[x]) = Len(file.mods[x].ids)
  BY WhenGenerating, FileTyped DEF ModuleGenerated, ProgressInv
<1>2. \/ Stop("crashed")
      \/ /\ table' = [table EXCEPT ![m] = ExportTable(m)]
         /\ order' = [order EXCEPT ![m] = <<>>]
         /\ at' = IF m > 1 THEN At("generate", m - 1, 1, 1) ELSE At("script", 0, 1, 1)
         /\ UNCHANGED <<file, names>>
  BY DEF ModuleGenerated
<1>3. CASE Stop("crashed")
  BY <1>3, ProgressStop
<1>4. CASE /\ table' = [table EXCEPT ![m] = ExportTable(m)]
           /\ order' = [order EXCEPT ![m] = <<>>]
           /\ at' = IF m > 1 THEN At("generate", m - 1, 1, 1) ELSE At("script", 0, 1, 1)
           /\ UNCHANGED <<file, names>>
  <2>1. 0 \in Places /\ 0 # m
    BY <1>1, FileTyped DEF ProgressInv, Places
  <2>2. table'[0] = table[0] /\ order'[0] = order[0]
    BY <1>4, <2>1 DEF DeclaredInv, ShapesOK
  <2>3. ScriptModuleEmpty'
    BY <1>4, <2>2 DEF ProgressInv, ScriptModuleEmpty
  <2>4. at'.step # "initialize"
    BY <1>4 DEF At
  <2>5. NamesCounted'
    BY <1>1, <1>4, <2>4 DEF ProgressInv, NamesCounted, Mods
  <2>6. CASE m > 1
    <3>1. at'.step = "generate" /\ at'.m = m - 1 /\ at'.i = 1 /\ at'.k = 1
      BY <1>4, <2>6 DEF At
    <3>2. m - 1 \in Mods
      BY <1>1, <2>6, FileTyped DEF Mods, ProgressInv
    <3> DEFINE L == m - 1
    <3>3. Len(names[L]) = Len(file.mods[L].ids) /\ Len(names[L]) \in Nat
      BY <1>1, <3>2, FileTyped DEF ProgressInv
    <3>5. AtOK'
      BY <1>4, <2>6, <3>2, <3>3, AtStart DEF ProgressInv
    <3> QED BY <1>4, <2>3, <2>5, <3>5 DEF ProgressInv
  <2>7. CASE ~(m > 1)
    <3>1. at'.step = "script" /\ at'.m = 0 /\ at'.i = 1
      BY <1>4, <2>7 DEF At
    <3>2. Len(file.script) \in Nat
      BY FileTyped DEF ProgressInv
    <3>3. AtOK'
      BY <1>4, <3>1, <3>2 DEF AtOK
    <3> QED BY <1>4, <2>3, <2>5, <3>3 DEF ProgressInv
  <2> QED BY <2>6, <2>7
<1> QED BY <1>2, <1>3, <1>4

LEMMA ProgressGenerateScriptElem ==
  ASSUME NamesInv, ProgressInv, GenerateScriptElem
  PROVE  ProgressInv'
<1>1. at.step = "script" /\ at.i <= Len(file.script)
  BY DEF GenerateScriptElem
<1>2. \/ Stop("crashed")
      \/ /\ at' = [at EXCEPT !.i = @ + 1]
         /\ UNCHANGED <<file, names, table, order>>
  BY DEF GenerateScriptElem
<1>3. CASE Stop("crashed")
  BY <1>3, ProgressStop
<1>4. CASE at' = [at EXCEPT !.i = @ + 1] /\ UNCHANGED <<file, names, table, order>>
  <2>1. /\ at.m = 0 /\ at.i \in 1..(Len(file.script) + 1) /\ Len(file.script) \in Nat
        /\ \A m \in Mods : Len(names[m]) = Len(file.mods[m].ids)
    BY <1>1, WhenScripting, FileTyped DEF ProgressInv
  <2>2. at'.step = "script" /\ at'.m = 0 /\ at'.i = at.i + 1
    BY <1>1, <1>4, <2>1 DEF NamesInv, PlaceOK
  <2>3. AtOK'
    BY <1>1, <1>4, <2>1, <2>2 DEF AtOK
  <2>4. NamesCounted'
    BY <1>4, <2>1, <2>2 DEF ProgressInv, NamesCounted, Mods
  <2> QED BY <1>4, <2>3, <2>4 DEF ProgressInv, ScriptModuleEmpty
<1> QED BY <1>2, <1>3, <1>4

-----------------------------------------------------------------------------
(***************************************************************************)
(* Look-ups in the tables of one module.  A key that is no mangled name is *)
(* in no internal table, and one that is no name of the text has no        *)
(* mangled name.                                                           *)
(***************************************************************************)
HasInternal(m) ==
  /\ table[m] = InternalTable(m)
  /\ order[m] = [i \in 1..Len(names[m]) |-> i]
  /\ Len(names[m]) = Len(file.mods[m].ids)

LEMMA InternalNow ==
  ASSUME ProgressInv, TablesKnown, NEW m \in Mods, Internal(m)
  PROVE  HasInternal(m)
BY DEF ProgressInv, NamesCounted, TablesKnown, HasInternal

LEMMA NoHashed ==
  ASSUME ProgressInv, NamesInv, NEW m \in Mods, NEW key, key \notin Ids
  PROVE  Hashed(m, key) = {}
<1>1. ASSUME NEW r \in Registered(m) PROVE r.id \in Ids
  <2>1. PICK i \in 1..Len(names[m]) :
          r = [id |-> file.mods[m].ids[i], name |-> names[m][i]]
    BY DEF Registered
  <2>2. file.mods[m].ids \in Seq(Ids) /\ m \in Places /\ Len(names[m]) <= Len(file.mods[m].ids)
        /\ Len(file.mods[m].ids) \in Nat
    BY FileTyped DEF ProgressInv, NamesCounted
  <2>3. Len(names[m]) \in Nat
    BY <2>2, NamesLength
  <2>4. i \in 1..Len(file.mods[m].ids)
    BY <2>2, <2>3
  <2> QED BY <2>1, <2>2, <2>4
<1> QED BY <1>1 DEF Hashed

LEMMA NoReversed ==
  ASSUME ProgressInv, NamesInv, NEW m \in Mods, NEW key, key \notin Names
  PROVE  Reversed(m, key) = {}
<1>1. ASSUME NEW r \in Registered(m) PROVE r.name \in Names
  <2>1. PICK i \in 1..Len(names[m]) :
          r = [id |-> file.mods[m].ids[i], name |-> names[m][i]]
    BY DEF Registered
  <2>2. names[m] \in Seq(Names)
    BY NamesLength, FileTyped DEF ProgressInv
  <2> QED BY <2>1, <2>2
<1> QED BY <1>1 DEF Reversed

LEMMA NamesAre ==
  ASSUME ProgressInv, NamesInv, NEW m \in Mods, NEW i \in 1..Len(names[m])
  PROVE  names[m][i] \in Names /\ names[m][i].mod = m
<1>1. names[m] \in Seq(Names)
  BY NamesLength, FileTyped DEF ProgressInv
<1> QED BY <1>1 DEF NamesInv, NamesPrefixed

LEMMA NoReversedOther ==
  ASSUME ProgressInv, NamesInv, NEW m \in Mods, NEW key, key.mod # m
  PROVE  Reversed(m, key) = {}
<1>1. ASSUME NEW r \in Registered(m) PROVE r.name.mod = m
  <2>1. PICK i \in 1..Len(names[m]) :
          r = [id |-> file.mods[m].ids[i], name |-> names[m][i]]
    BY DEF Registered
  <2> QED BY <2>1, NamesAre
<1> QED BY <1>1 DEF Reversed

LEMMA NoInternalKey ==
  ASSUME ProgressInv, NamesInv, NEW m \in Mods, HasInternal(m), NEW key, key \notin Names
  PROVE  InTable(m, key) = {}
BY NamesAre DEF InTable, HasInternal, InternalTable

LEMMA NoInternalOther ==
  ASSUME ProgressInv, NamesInv, NEW m \in Mods, HasInternal(m), NEW key, key.mod # m
  PROVE  InTable(m, key) = {}
BY NamesAre DEF InTable, HasInternal, InternalTable

LEMMA InternalKey ==
  ASSUME ProgressInv, NamesInv, NEW m \in Mods, HasInternal(m), NEW i \in 1..Len(names[m])
  PROVE  InTable(m, names[m][i]) = {<<m, i>>}
<1>1. [key |-> names[m][i], fun |-> i] \in table[m]
  BY DEF HasInternal, InternalTable
<1>2. <<m, i>> \in InTable(m, names[m][i])
  BY <1>1 DEF InTable
<1>3. ASSUME NEW f \in InTable(m, names[m][i]) PROVE f = <<m, i>>
  <2>1. PICK e \in table[m] : e.key = names[m][i] /\ f = <<m, e.fun>>
    BY DEF InTable
  <2>2. PICK j \in 1..Len(names[m]) : e = [key |-> names[m][j], fun |-> j]
    BY DEF HasInternal, InternalTable
  <2>3. j = i
    BY <2>1, <2>2 DEF NamesInv, NamesDiffer
  <2> QED BY <2>1, <2>2, <2>3
<1> QED BY <1>2, <1>3

(***************************************************************************)
(* In its internal tables a module finds its functions by their names and  *)
(* by their indices.                                                       *)
(***************************************************************************)
LEMMA HashedMeant ==
  ASSUME ProgressInv, NamesInv, NEW m \in Mods, HasInternal(m), NEW id \in Ids
  PROVE  UNION {InTable(m, h) : h \in Hashed(m, id)} = Meant(m, id)
<1>1. ASSUME NEW h \in Hashed(m, id), NEW f \in InTable(m, h) PROVE f \in Meant(m, id)
  <2>1. PICK r \in Registered(m) : r.id = id /\ h = r.name
    BY DEF Hashed
  <2>2. PICK i \in 1..Len(names[m]) : r = [id |-> file.mods[m].ids[i], name |-> names[m][i]]
    BY DEF Registered
  <2>3. f = <<m, i>>
    BY <2>1, <2>2, InternalKey
  <2> QED BY <2>1, <2>2, <2>3 DEF Meant, HasInternal
<1>2. ASSUME NEW f \in Meant(m, id) PROVE \E h \in Hashed(m, id) : f \in InTable(m, h)
  <2>1. PICK i \in 1..Len(names[m]) : file.mods[m].ids[i] = id /\ f = <<m, i>>
    BY DEF Meant, HasInternal
  <2>2. [id |-> file.mods[m].ids[i], name |-> names[m][i]] \in Registered(m)
    BY DEF Registered
  <2>3. names[m][i] \in Hashed(m, id)
    BY <2>1, <2>2 DEF Hashed
  <2> QED BY <2>1, <2>3, InternalKey
<1> QED BY <1>1, <1>2

LEMMA InternalFindsId ==
  ASSUME ProgressInv, NamesInv, NEW m \in Mods, HasInternal(m), NEW id \in Ids
  PROVE  ModuleFind(m, id) = Meant(m, id)
<1>1. id \notin Names
  BY IdsUnlikeNames
<1>2. InTable(m, id) = {}
  BY <1>1, NoInternalKey
<1>3. Reversed(m, id) = {}
  BY <1>1, NoReversed
<1>4. UNION {InTable(m, h) : h \in Hashed(m, id)} = Meant(m, id)
  BY HashedMeant
<1>5. UNION {InTable(m, r) : r \in Reversed(m, id)} = {}
  BY <1>3
<1> QED BY <1>2, <1>4, <1>5 DEF ModuleFind, OrElse

LEMMA InternalByIndex ==
  ASSUME NEW m \in Mods, HasInternal(m), NamesInv, ProgressInv, NEW v, v \notin Ids
  PROVE  {<<m, order[m][i]>> : i \in {v + 1} \cap (1..Len(order[m]))} = Meant(m, v)
<1>1. Len(names[m]) \in Nat
  BY NamesLength, FileTyped DEF ProgressInv
<1>2. Len(order[m]) = Len(file.mods[m].ids) /\ \A i \in 1..Len(order[m]) : order[m][i] = i
  BY <1>1 DEF HasInternal
<1> QED BY <1>2 DEF Meant

LEMMA InternalExports ==
  ASSUME NEW m \in Mods, HasInternal(m), NamesInv, ProgressInv, NEW e
  PROVE  ExportFind(m, e) = Meant(m, e.var)
BY InternalFindsId, InternalByIndex DEF ExportFind

LEMMA InternalExportTable ==
  ASSUME NEW m \in Mods, HasInternal(m), NamesInv, ProgressInv
  PROVE  ExportTable(m) = MeantTable(m)
<1> DEFINE exports == file.mods[m].exports
<1>1. ExportTable(m) =
        UNION {{[key |-> exports[x].name, fun |-> f[2]] : f \in ExportFind(m, exports[x])} :
                 x \in Counting(m)}
  BY DEF ExportTable, Counting
<1>2. \A x : ExportFind(m, exports[x]) = Meant(m, exports[x].var)
  BY InternalExports
<1> QED BY <1>1, <1>2 DEF MeantTable

-----------------------------------------------------------------------------
LEMMA TablesInit == Init => TablesKnown
<1> SUFFICES ASSUME Init PROVE TablesKnown
  OBVIOUS
<1>1. IsParsedFile(file) /\ at.step = "initialize" /\ at.m = Len(file.mods)
  BY DEF Init, At
<1>2. \A m \in Mods : ~Internal(m) /\ ~Exporting(m)
  BY <1>1, FileTyped DEF Internal, Exporting, Mods
<1> QED BY <1>2 DEF TablesKnown

(***************************************************************************)
(* Steps that leave the tables of the modules that have some.              *)
(***************************************************************************)
LEMMA TablesKept ==
  ASSUME TablesKnown, file' = file, table' = table, order' = order,
         \A m \in Mods : /\ Internal(m)' => Internal(m) /\ names'[m] = names[m]
                         /\ Exporting(m)' => Exporting(m)
  PROVE  TablesKnown'
<1>1. ASSUME NEW m \in Mods, Internal(m)'
      PROVE  table'[m] = InternalTable(m)' /\ order'[m] = [i \in 1..Len(names'[m]) |-> i]
  <2>1. table[m] = InternalTable(m) /\ order[m] = [i \in 1..Len(names[m]) |-> i]
        /\ names'[m] = names[m]
    BY <1>1 DEF TablesKnown
  <2> QED BY <2>1 DEF InternalTable
<1>2. ASSUME NEW m \in Mods, Exporting(m)'
      PROVE  table'[m] = MeantTable(m)'
  <2>1. table[m] = MeantTable(m)
    BY <1>2 DEF TablesKnown
  <2> QED BY <2>1 DEF MeantTable, Counting, Meant
<1> QED BY <1>1, <1>2 DEF TablesKnown, Mods

LEMMA TablesStop ==
  ASSUME NamesInv, NEW step \in {"done", "crashed", "rejected"}, Stop(step)
  PROVE  TablesKnown'
<1>1. at'.step = step
  BY DEF Stop, NamesInv, PlaceOK
<1> QED BY <1>1 DEF TablesKnown, Internal, Exporting

LEMMA TablesWithin ==
  ASSUME TablesKnown, file' = file, names' = names, table' = table, order' = order,
         at'.step = at.step, at'.m = at.m
  PROVE  TablesKnown'
<1>1. \A m \in Mods : (Internal(m)' => Internal(m)) /\ (Exporting(m)' => Exporting(m))
  BY DEF Internal, Exporting
<1> QED BY <1>1, TablesKept

LEMMA TablesMangleNext ==
  ASSUME NamesInv, ProgressInv, TablesKnown, MangleNext
  PROVE  TablesKnown'
<1> DEFINE m  == at.m
           id == file.mods[m].ids[at.i]
<1>1. CASE \E r \in Registered(m) : r.id = id
  <2>1. Stop("crashed")
    BY <1>1 DEF MangleNext
  <2> QED BY <2>1, TablesStop
<1>2. CASE ~\E r \in Registered(m) : r.id = id
  <2>1. PICK tail : names' = [names EXCEPT ![m] = Append(@, Mangled(m, id, tail))]
    BY <1>2 DEF MangleNext
  <2>2. /\ at' = [at EXCEPT !.i = @ + 1] /\ file' = file /\ table' = table /\ order' = order
        /\ at.step = "initialize"
    BY <1>2 DEF MangleNext
  <2>3. at'.step = at.step /\ at'.m = m
    BY <2>2 DEF NamesInv, PlaceOK
  <2>4. m \in Mods /\ m \in Nat
    BY <2>2, WhenInitializing, FileTyped DEF ProgressInv
  <2>5. ASSUME NEW x \in Mods, Internal(x)' PROVE Internal(x) /\ names'[x] = names[x]
    <3>1. x > m
      BY <2>2, <2>3, <2>5 DEF Internal
    <3>2. x \in Places /\ x # m
      BY <2>4, <3>1, FileTyped DEF ProgressInv
    <3> QED BY <2>1, <2>2, <3>1, <3>2 DEF Internal, NamesInv, NamesTyped, Places
  <2>6. \A x \in Mods : Exporting(x)' => Exporting(x)
    BY <2>2, <2>3 DEF Exporting
  <2> QED BY <2>2, <2>5, <2>6, TablesKept
<1> QED BY <1>1, <1>2

LEMMA TablesInitializeModule ==
  ASSUME NamesInv, DeclaredInv, ProgressInv, TablesKnown, InitializeModule
  PROVE  TablesKnown'
<1> DEFINE m == at.m
<1>1. m \in Mods /\ m \in Nat /\ m \in Places /\ at.step = "initialize"
      /\ Len(file.mods) \in Nat
  BY WhenInitializing, FileTyped DEF InitializeModule, ProgressInv
<1>2. /\ file' = file /\ names' = names
      /\ table' = [table EXCEPT ![m] = InternalTable(m)]
      /\ order' = [order EXCEPT ![m] = [i \in 1..Len(names[m]) |-> i]]
      /\ at' = IF m > 1 THEN At("initialize", m - 1, 1, 1)
               ELSE At("generate", Len(file.mods), 1, 1)
  BY DEF InitializeModule, InternalTable
<1>3. table'[m] = InternalTable(m) /\ order'[m] = [i \in 1..Len(names[m]) |-> i]
  BY <1>1, <1>2 DEF DeclaredInv, ShapesOK
<1>4. \A x \in Mods : ~Exporting(x)'
  <2>1. CASE m > 1
    BY <1>2, <2>1 DEF Exporting, At
  <2>2. CASE ~(m > 1)
    <3>1. at'.step = "generate" /\ at'.m = Len(file.mods)
      BY <1>2, <2>2 DEF At
    <3> QED BY <1>1, <3>1, FileTyped DEF Exporting, Mods
  <2> QED BY <2>1, <2>2
<1>5. ASSUME NEW x \in Mods, Internal(x)', x # m
      PROVE  Internal(x) /\ table'[x] = table[x] /\ order'[x] = order[x]
  <2>1. x \in Nat /\ x \in Places /\ x >= 1
    BY FileTyped DEF ProgressInv
  <2>2. x > m
    <3>1. CASE m > 1
      <4>1. at'.step = "initialize" /\ at'.m = m - 1
        BY <1>2, <3>1 DEF At
      <4>2. x > m - 1
        BY <1>5, <4>1 DEF Internal
      <4> QED BY <1>1, <1>5, <2>1, <4>2
    <3>2. CASE ~(m > 1)
      BY <1>1, <1>5, <2>1, <3>2, FileTyped DEF ProgressInv
    <3> QED BY <3>1, <3>2
  <2> QED BY <1>1, <1>2, <1>5, <2>1, <2>2 DEF Internal, DeclaredInv, ShapesOK
<1>6. ASSUME NEW x \in Mods, Internal(x)'
      PROVE  table'[x] = InternalTable(x) /\ order'[x] = [i \in 1..Len(names[x]) |-> i]
  <2>1. CASE x = m
    BY <1>3, <2>1
  <2>2. CASE x # m
    BY <1>5, <1>6, <2>2 DEF TablesKnown
  <2> QED BY <2>1, <2>2
<1>7. \A x \in Mods : InternalTable(x)' = InternalTable(x)
  BY <1>2 DEF InternalTable
<1> QED BY <1>2, <1>4, <1>6, <1>7 DEF TablesKnown, Mods

LEMMA TablesModuleGenerated ==
  ASSUME NamesInv, DeclaredInv, ProgressInv, TablesKnown, ModuleGenerated
  PROVE  TablesKnown'
<1> DEFINE m == at.m
<1>1. /\ m \in Mods /\ m \in Nat /\ m > 0 /\ m \in Places /\ at.step = "generate"
  BY WhenGenerating, FileTyped DEF ModuleGenerated, ProgressInv
<1>2. \/ Stop("crashed")
      \/ /\ table' = [table EXCEPT ![m] = ExportTable(m)]
         /\ order' = [order EXCEPT ![m] = <<>>]
         /\ at' = IF m > 1 THEN At("generate", m - 1, 1, 1) ELSE At("script", 0, 1, 1)
         /\ UNCHANGED <<file, names>>
  BY DEF ModuleGenerated
<1>3. CASE Stop("crashed")
  BY <1>3, TablesStop
<1>4. CASE /\ table' = [table EXCEPT ![m] = ExportTable(m)]
           /\ order' = [order EXCEPT ![m] = <<>>]
           /\ at' = IF m > 1 THEN At("generate", m - 1, 1, 1) ELSE At("script", 0, 1, 1)
           /\ UNCHANGED <<file, names>>
  <2>1. Internal(m)
    BY <1>1 DEF Internal
  <2>2. table'[m] = MeantTable(m)
    BY <1>1, <1>4, <2>1, InternalNow, InternalExportTable DEF DeclaredInv, ShapesOK
  <2>3. ASSUME NEW x \in Mods
        PROVE  /\ Internal(x)' => x < m
               /\ Exporting(x)' => x >= m
    <3>1. x \in Nat /\ x > 0
      BY FileTyped DEF ProgressInv
    <3>2. CASE m > 1
      <4>1. at'.step = "generate" /\ at'.m = m - 1
        BY <1>4, <3>2 DEF At
      <4> QED BY <1>1, <3>1, <4>1 DEF Internal, Exporting
    <3>3. CASE ~(m > 1)
      <4>1. at'.step = "script"
        BY <1>4, <3>3 DEF At
      <4> QED BY <1>1, <3>1, <3>3, <4>1 DEF Internal, Exporting
    <3> QED BY <3>2, <3>3
  <2>4. ASSUME NEW x \in Mods, x # m
        PROVE  table'[x] = table[x] /\ order'[x] = order[x]
    BY <1>4, <2>4, FileTyped DEF DeclaredInv, ShapesOK, ProgressInv
  <2>5. ASSUME NEW x \in Mods, Internal(x)'
        PROVE  table'[x] = InternalTable(x) /\ order'[x] = [i \in 1..Len(names[x]) |-> i]
    <3>1. x < m /\ x \in Nat
      BY <2>3, <2>5, FileTyped DEF ProgressInv
    <3>2. Internal(x) /\ x # m
      BY <1>1, <3>1 DEF Internal
    <3> QED BY <2>4, <3>2 DEF TablesKnown
  <2>6. ASSUME NEW x \in Mods, Exporting(x)' PROVE table'[x] = MeantTable(x)
    <3>1. x >= m /\ x \in Nat
      BY <2>3, <2>6, FileTyped DEF ProgressInv
    <3>2. CASE x = m
      BY <2>2, <3>2
    <3>3. CASE x # m
      <4>1. Exporting(x)
        BY <1>1, <3>1, <3>3 DEF Exporting
      <4> QED BY <2>4, <3>3, <4>1 DEF TablesKnown
    <3> QED BY <3>2, <3>3
  <2>7. \A x : InternalTable(x)' = InternalTable(x) /\ MeantTable(x)' = MeantTable(x)
    BY <1>4 DEF InternalTable, MeantTable, Counting, Meant
  <2> HIDE DEF m
  <2> QED BY <1>4, <2>5, <2>6, <2>7 DEF TablesKnown, Mods
<1> QED BY <1>2, <1>3, <1>4

(***************************************************************************)
(* What every step keeps together.                                         *)
(***************************************************************************)
LinkInv == NamesInv /\ DeclaredInv /\ ProgressInv /\ TablesKnown

LEMMA LinkInit == Init => LinkInv
BY NamesInit, DeclaredInit, ProgressInit, TablesInit DEF LinkInv

LEMMA LinkWithin ==
  ASSUME LinkInv, ProgressInv', file' = file, names' = names, table' = table, order' = order,
         at'.step = at.step, at'.m = at.m
  PROVE  ProgressInv' /\ TablesKnown'
BY TablesWithin DEF LinkInv

LEMMA LinkCall ==
  ASSUME LinkInv, GenerateCall \/ GenerateImportCall \/ GenerateIntrinsicCall
  PROVE  ProgressInv' /\ TablesKnown'
<1>1. /\ AtFunction /\ at.k <= Len(BodyOf(at.m, at.i))
      /\ \/ Stop("crashed")
         \/ at' = [at EXCEPT !.k = @ + 1] /\ UNCHANGED <<file, names, table, order>>
  BY DEF GenerateCall, GenerateImportCall, GenerateIntrinsicCall, AtCall
<1>2. CASE Stop("crashed")
  BY <1>2, ProgressStop, TablesStop DEF LinkInv
<1>3. CASE at' = [at EXCEPT !.k = @ + 1] /\ UNCHANGED <<file, names, table, order>>
  <2>1. ProgressInv'
    BY <1>1, <1>3, ProgressCall DEF LinkInv
  <2>2. at'.step = at.step /\ at'.m = at.m
    BY <1>3 DEF LinkInv, NamesInv, PlaceOK
  <2> QED BY <1>3, <2>1, <2>2, LinkWithin
<1> QED BY <1>1, <1>2, <1>3

LEMMA LinkNext == LinkInv /\ [Next]_vars => LinkInv'
<1> SUFFICES ASSUME LinkInv, [Next]_vars PROVE LinkInv'
  OBVIOUS
<1>0. NamesInv' /\ DeclaredInv'
  BY NamesNext, DeclaredNext DEF LinkInv
<1> SUFFICES ProgressInv' /\ TablesKnown'
  BY <1>0 DEF LinkInv
<1>1. CASE MangleNext
  BY <1>1, ProgressMangleNext, TablesMangleNext DEF LinkInv
<1>2. CASE InitializeModule
  BY <1>2, ProgressInitializeModule, TablesInitializeModule DEF LinkInv
<1>3. CASE GenerateCall \/ GenerateImportCall \/ GenerateIntrinsicCall
  BY <1>3, LinkCall
<1>4. CASE FunctionGenerated
  <2>1. ProgressInv'
    BY <1>4, ProgressFunctionGenerated DEF LinkInv
  <2>2. \/ Stop("rejected")
        \/ /\ at' = At("generate", at.m, at.i + 1, 1) /\ at.step = "generate"
           /\ UNCHANGED <<file, names, table, order>>
    BY <1>4 DEF FunctionGenerated, AtFunction
  <2>3. CASE Stop("rejected")
    BY <2>1, <2>3, TablesStop DEF LinkInv
  <2>4. CASE /\ at' = At("generate", at.m, at.i + 1, 1) /\ at.step = "generate"
             /\ UNCHANGED <<file, names, table, order>>
    BY <2>1, <2>4, LinkWithin DEF At
  <2> QED BY <2>2, <2>3, <2>4
<1>5. CASE ModuleGenerated
  BY <1>5, ProgressModuleGenerated, TablesModuleGenerated DEF LinkInv
<1>6. CASE GenerateScriptElem
  <2>1. ProgressInv'
    BY <1>6, ProgressGenerateScriptElem DEF LinkInv
  <2>2. \/ Stop("crashed")
        \/ at' = [at EXCEPT !.i = @ + 1] /\ UNCHANGED <<file, names, table, order>>
    BY <1>6 DEF GenerateScriptElem
  <2>3. CASE Stop("crashed")
    BY <2>1, <2>3, TablesStop DEF LinkInv
  <2>4. CASE at' = [at EXCEPT !.i = @ + 1] /\ UNCHANGED <<file, names, table, order>>
    <3>1. at'.step = at.step /\ at'.m = at.m
      BY <2>4 DEF LinkInv, NamesInv, PlaceOK
    <3> QED BY <2>1, <2>4, <3>1, LinkWithin
  <2> QED BY <2>2, <2>3, <2>4
<1>7. CASE ScriptGenerated
  <2>1. Stop("done")
    BY <1>7 DEF ScriptGenerated
  <2> QED BY <2>1, ProgressStop, TablesStop DEF LinkInv
<1>8. CASE Terminated \/ UNCHANGED vars
  <2>1. /\ file' = file /\ names' = names /\ table' = table /\ order' = order /\ at' = at
    BY <1>8 DEF Terminated, vars
  <2>2. ProgressInv'
    BY <2>1 DEF LinkInv, ProgressInv, AtOK, NamesCounted, ScriptModuleEmpty, Internal, Exporting,
                Mods, BodyOf
  <2> QED BY <2>1, <2>2, LinkWithin
<1> QED BY <1>1, <1>2, <1>3, <1>4, <1>5, <1>6, <1>7, <1>8 DEF Next, Step

-----------------------------------------------------------------------------
(***************************************************************************)
(* The types, beyond what LinkInv says.                                    *)
(***************************************************************************)
TablesTyped ==
  \A m \in Places : /\ \A e \in table[m] : e.key \in Names \cup Exported
                    /\ \A i \in 1..Len(order[m]) : order[m][i] = i

OwnerOK(m, of) == of \in Functions \/ of \in {0} \X (0..Len(file.mods[m].imports))

SymsTyped ==
  \A m \in Places : \A s \in syms[m] : s.name \in Names /\ OwnerOK(m, s.of)

BoundTyped ==
  /\ \A b \in bound : b.in \in Places /\ b.to \in Functions /\ b.typed \in Functions
  /\ \A b \in hosted : b.in \in Mods /\ b.name \in Names

TypeInv == TablesTyped /\ SymsTyped /\ SymsFinite /\ BoundTyped

LEMMA TypeInvType == LinkInv /\ TypeInv => TypeOK
<1> SUFFICES ASSUME LinkInv, TypeInv PROVE TypeOK
  OBVIOUS
<1>1. AtOK
  BY DEF LinkInv, ProgressInv
<1>2. ASSUME NEW m \in Places
      PROVE  /\ names[m] \in Seq(Names)
             /\ last[m] \in Nat
             /\ \A e \in table[m] : e.key \in Names \cup Exported /\ e.fun \in 1..Len(names[m])
             /\ \A i \in 1..Len(order[m]) : order[m][i] = i /\ i <= Len(names[m])
             /\ \A s \in syms[m] :
                  /\ s.name \in Names
                  /\ s.of \in Functions \/ s.of \in {0} \X (0..Len(file.mods[m].imports))
  <2>1. names[m] \in Seq(Names) /\ Len(names[m]) \in Nat
    BY NamesLength DEF LinkInv
  <2>2. \A e \in table[m] : e.fun \in 1..Len(names[m])
    BY DEF LinkInv, DeclaredInv, TablesPresent, Present, HasName
  <2>3. \A i \in 1..Len(order[m]) : order[m][i] = i /\ order[m][i] \in 1..Len(names[m])
    BY DEF LinkInv, DeclaredInv, TablesPresent, Present, HasName, TypeInv, TablesTyped
  <2>4. \A i \in 1..Len(order[m]) : i <= Len(names[m])
    BY <2>1, <2>3
  <2> QED BY <2>1, <2>2, <2>3, <2>4 DEF TypeInv, TablesTyped, SymsTyped, OwnerOK, SymsFinite
<1> QED BY <1>1, <1>2 DEF TypeOK, TypeInv, BoundTyped, Places

LEMMA TypeInvInit == Init => TypeInv
<1> SUFFICES ASSUME Init PROVE TypeInv
  OBVIOUS
<1>1. /\ table = [m \in Places |-> {}]
      /\ order = [m \in Places |-> <<>>]
      /\ syms = [m \in Places |-> {}]
      /\ last = [m \in Places |-> 0]
      /\ bound = {} /\ hosted = {}
  BY DEF Init, Places
<1>2. \A m \in Places : table[m] = {} /\ order[m] = <<>> /\ syms[m] = {}
  BY <1>1
<1>3. \A m \in Places : Len(order[m]) = 0
  BY <1>2
<1>4. TablesTyped
  BY <1>2, <1>3 DEF TablesTyped
<1>5. SymsFinite
  BY <1>1, <1>2, FS_EmptySet DEF SymsFinite
<1> QED BY <1>1, <1>2, <1>4, <1>5 DEF TypeInv, SymsTyped, BoundTyped

(***************************************************************************)
(* All that look-ups find are functions of the file.                       *)
(***************************************************************************)
LEMMA FunctionIs ==
  ASSUME NEW m \in Mods, NEW i \in 1..Len(file.mods[m].ids)
  PROVE  <<m, i>> \in Functions
BY DEF Functions

LEMMA FunctionOf ==
  ASSUME NEW f \in Functions
  PROVE  \E m \in Mods : \E i \in 1..Len(file.mods[m].ids) : f = <<m, i>>
BY DEF Functions

LEMMA PresentIs ==
  ASSUME LinkInv, NEW m \in Mods, NEW i, Present(m, i)
  PROVE  <<m, i>> \in Functions
<1>1. Len(names[m]) \in Nat /\ Len(file.mods[m].ids) \in Nat
      /\ Len(names[m]) <= Len(file.mods[m].ids)
  BY NamesLength, FileTyped DEF LinkInv, ProgressInv, NamesCounted
<1>2. i \in 1..Len(names[m])
  BY DEF Present, HasName
<1>3. i \in 1..Len(file.mods[m].ids)
  BY <1>1, <1>2
<1> QED BY <1>3, FunctionIs

LEMMA TableFinds ==
  ASSUME LinkInv, NEW m \in Places, NEW key
  PROVE  InTable(m, key) \subseteq Functions
<1> SUFFICES ASSUME NEW e \in table[m] PROVE <<m, e.fun>> \in Functions
  BY DEF InTable
<1>1. CASE m = 0
  BY <1>1 DEF LinkInv, ProgressInv, ScriptModuleEmpty
<1>2. CASE m # 0
  <2>1. m \in Mods
    BY <1>2, FileTyped DEF Places, Mods, LinkInv, ProgressInv
  <2>2. Present(m, e.fun)
    BY DEF LinkInv, DeclaredInv, TablesPresent
  <2> QED BY <2>1, <2>2, PresentIs
<1> QED BY <1>1, <1>2

LEMMA ModuleFinds ==
  ASSUME LinkInv, NEW m \in Places, NEW key
  PROVE  ModuleFind(m, key) \subseteq Functions
BY TableFinds DEF ModuleFind, OrElse

LEMMA FileFinds ==
  ASSUME LinkInv, NEW key, NEW line
  PROVE  FileFind(key, line) \subseteq Functions
BY ModuleFinds, FileTyped DEF FileFind, Finders, LinkInv, ProgressInv

LEMMA InternalFinds ==
  ASSUME LinkInv, NEW m \in Places, NEW key, NEW line, NEW r \in InternalFind(m, key, line)
  PROVE  r.to \in Functions
<1>1. \/ r \in {[to |-> f, outside |-> FALSE] : f \in InTable(m, key)}
      \/ r \in {[to |-> f, outside |-> TRUE] : f \in FileFind(key, line)}
  BY DEF InternalFind, OrElse
<1> QED BY <1>1, TableFinds, FileFinds

LEMMA LookUpFinds ==
  ASSUME LinkInv, NEW m \in Places, NEW key, NEW line, NEW r \in LookUp(m, key, line)
  PROVE  r.to \in Functions
<1>1. \E k : r \in InternalFind(m, k, line)
  BY DEF LookUp, OrElse
<1> QED BY <1>1, InternalFinds

LEMMA ByIndexFinds ==
  ASSUME LinkInv, NEW m \in Mods, NEW idx, NEW r \in ByIndex(m, idx)
  PROVE  r.to \in Functions
<1>1. PICK i \in 1..Len(order[m]) : r.to = <<m, order[m][i]>>
  BY DEF ByIndex
<1>2. Present(m, order[m][i])
  BY FileTyped DEF LinkInv, ProgressInv, DeclaredInv, TablesPresent
<1> QED BY <1>1, <1>2, PresentIs

LEMMA NameOfTyped ==
  ASSUME LinkInv, \A m \in Mods : Len(names[m]) = Len(file.mods[m].ids), NEW f \in Functions
  PROVE  NameOf(f) \in Names /\ NameOf(f).mod \in Mods
<1>1. PICK m \in Mods : \E i \in 1..Len(file.mods[m].ids) : f = <<m, i>>
  BY FunctionOf
<1>2. PICK i \in 1..Len(names[m]) : f = <<m, i>>
  BY <1>1
<1>3. NameOf(f) = names[m][i]
  BY <1>2 DEF NameOf
<1> QED BY <1>3, NamesAre DEF LinkInv

(***************************************************************************)
(* Functions that are created.                                             *)
(***************************************************************************)
LEMMA NewNameTyped ==
  ASSUME SymsFinite, NEW m \in Places, NEW name \in Names
  PROVE  NewName(m, name) \in Names
<1>1. last[m] \in Nat /\ IsFiniteSet(syms[m])
  BY DEF SymsFinite
<1>2. NextNumber(m, name) \in Nat
  BY <1>1, NumberFree
<1> QED BY <1>2, NumberedTyped DEF NewName

LEMMA CreateTyped ==
  ASSUME DeclaredInv, SymsTyped, SymsFinite, NEW m \in Places, NEW name \in Names, NEW of,
         OwnerOK(m, of), CreateFunction(m, name, of), file' = file
  PROVE  SymsTyped' /\ SymsFinite'
<1> DEFINE new == [name |-> NewName(m, name), of |-> of]
<1>1. new.name \in Names /\ new.of = of
  BY NewNameTyped
<1>2. syms' = [syms EXCEPT ![m] = @ \cup {new}]
  BY DEF CreateFunction
<1> HIDE DEF new
<1>3. syms'[m] = syms[m] \cup {new} /\ \A x \in Places : x # m => syms'[x] = syms[x]
  BY <1>2 DEF DeclaredInv, ShapesOK
<1>4. \A x \in Places : \A s \in syms'[x] : s.name \in Names /\ OwnerOK(x, s.of)
  BY <1>1, <1>3 DEF SymsTyped
<1>5. SymsTyped'
  BY <1>4 DEF SymsTyped, OwnerOK, Functions, Places, Mods
<1>6. \A x \in Places : IsFiniteSet(syms'[x])
  BY <1>3, FS_AddElement DEF SymsFinite
<1>7. NextNumber(m, name) \in Nat
  BY NumberFree DEF SymsFinite
<1>8. last' \in [Places -> Nat]
  BY <1>7 DEF CreateFunction, SymsFinite
<1> QED BY <1>5, <1>6, <1>8 DEF SymsFinite, Places

LEMMA SymsSame ==
  ASSUME SymsTyped, SymsFinite, syms' = syms, last' = last, file' = file
  PROVE  SymsTyped' /\ SymsFinite'
<1>1. Places' = Places
  BY DEF Places
<1>2. \A m, of : OwnerOK(m, of)' <=> OwnerOK(m, of)
  BY DEF OwnerOK, Functions, Mods
<1>3. SymsTyped'
  BY <1>1, <1>2 DEF SymsTyped
<1>4. SymsFinite'
  BY <1>1 DEF SymsFinite
<1> QED BY <1>3, <1>4

LEMMA BindTyped ==
  ASSUME LinkInv, TypeInv, \A x \in Mods : Len(names[x]) = Len(file.mods[x].ids),
         NEW m \in Places, NEW i, NEW k, NEW r, r.to \in Functions, NEW t \in Functions,
         Bind(m, i, k, r, t), file' = file, table' = table, order' = order, hosted' = hosted
  PROVE  TypeInv'
<1>1. SymsTyped' /\ SymsFinite'
  <2>1. CASE r.outside
    <3>1. CreateFunction(m, NameOf(r.to), r.to)
      BY <2>1 DEF Bind, CreatePrototype
    <3>2. NameOf(r.to) \in Names /\ OwnerOK(m, r.to)
      BY NameOfTyped DEF OwnerOK
    <3> QED BY <3>1, <3>2, CreateTyped DEF TypeInv, LinkInv
  <2>2. CASE ~r.outside
    <3>1. syms' = syms /\ last' = last
      BY <2>2 DEF Bind
    <3> QED BY <3>1, SymsSame DEF TypeInv
  <2> QED BY <2>1, <2>2
<1> DEFINE new == [in |-> m, fun |-> i, call |-> k, to |-> r.to, typed |-> t]
<1>2. bound' = bound \cup {new} /\ new.in = m /\ new.to = r.to /\ new.typed = t
  BY DEF Bind
<1> HIDE DEF new
<1>3. BoundTyped'
  BY <1>2 DEF TypeInv, BoundTyped, Functions, Places, Mods
<1>4. TablesTyped'
  BY DEF TypeInv, TablesTyped, Places
<1> QED BY <1>1, <1>3, <1>4 DEF TypeInv

LEMMA HostedTyped ==
  ASSUME LinkInv, TypeInv, NEW m \in Mods, NEW i, NEW k, NEW name \in Names,
         PrintHosted(m, i, k, name), SymsTyped', SymsFinite',
         file' = file, table' = table, order' = order, bound' = bound
  PROVE  TypeInv'
<1> DEFINE new == [in |-> m, fun |-> i, call |-> k, name |-> name]
<1>1. hosted' = hosted \cup {new} /\ new.in = m /\ new.name = name
  BY DEF PrintHosted
<1> HIDE DEF new
<1>2. BoundTyped'
  BY <1>1 DEF TypeInv, BoundTyped, Functions, Places, Mods
<1>3. TablesTyped'
  BY DEF TypeInv, TablesTyped, Places
<1> QED BY <1>2, <1>3 DEF TypeInv

(***************************************************************************)
(* Steps that bind nothing.                                                *)
(***************************************************************************)
LEMMA TypeKept ==
  ASSUME TypeInv, file' = file, syms' = syms, last' = last, bound' = bound, hosted' = hosted,
         table' = table, order' = order
  PROVE  TypeInv'
<1>1. SymsTyped' /\ SymsFinite'
  BY SymsSame DEF TypeInv
<1>2. BoundTyped'
  BY DEF TypeInv, BoundTyped, Functions, Places, Mods
<1>3. TablesTyped'
  BY DEF TypeInv, TablesTyped, Places
<1> QED BY <1>1, <1>2, <1>3 DEF TypeInv

LEMMA TypeInitializeModule ==
  ASSUME LinkInv, TypeInv, InitializeModule
  PROVE  TypeInv'
<1> DEFINE m   == at.m
           fns == 1..Len(names[m])
           F   == [i \in fns |-> [name |-> names[m][i], of |-> <<m, i>>]]
           D   == {[name |-> names[m][i], of |-> <<m, i>>] : i \in fns}
<1>1. /\ m \in Mods /\ m \in Places /\ Len(names[m]) \in Nat /\ at.step = "initialize"
      /\ names[m] \in Seq(Names) /\ Len(names[m]) = Len(file.mods[m].ids)
  BY WhenInitializing, NamesLength, FileTyped, ProgressInitializeModule
     DEF InitializeModule, LinkInv, ProgressInv
<1>2. /\ table' = [table EXCEPT ![m] = InternalTable(m)]
      /\ order' = [order EXCEPT ![m] = [i \in fns |-> i]]
      /\ syms'  = [syms EXCEPT ![m] = D]
      /\ UNCHANGED <<file, names, last, bound, hosted>>
  BY DEF InitializeModule, InternalTable
<1>3. IsFiniteSet(D)
  <2>1. IsFiniteSet(fns)
    BY <1>1, FS_Interval
  <2>2. F \in Surjection(fns, D)
    BY DEF Surjection
  <2> QED BY <2>1, <2>2, FS_Surjection
<1>4. \A s \in D : s.name \in Names /\ s.of \in Functions
  BY <1>1, FunctionIs
<1>5. /\ table'[m] = InternalTable(m) /\ order'[m] = [i \in fns |-> i] /\ syms'[m] = D
      /\ \A x \in Places : x # m => /\ table'[x] = table[x] /\ order'[x] = order[x]
                                    /\ syms'[x] = syms[x]
  BY <1>1, <1>2 DEF LinkInv, DeclaredInv, ShapesOK
<1>6. \A e \in InternalTable(m) : e.key \in Names
  BY <1>1 DEF InternalTable
<1>7. \A n \in 1..Len([i \in fns |-> i]) : [i \in fns |-> i][n] = n
  BY <1>1
<1> HIDE DEF D, fns, F
<1>8. \A x \in Places : /\ \A e \in table'[x] : e.key \in Names \cup Exported
                        /\ \A i \in 1..Len(order'[x]) : order'[x][i] = i
  BY <1>5, <1>6, <1>7 DEF TypeInv, TablesTyped
<1>9. TablesTyped'
  BY <1>2, <1>8 DEF TablesTyped, Places
<1>10. \A x \in Places : \A s \in syms'[x] : s.name \in Names /\ OwnerOK(x, s.of)
  BY <1>4, <1>5 DEF TypeInv, SymsTyped, OwnerOK
<1>11. \A x, of : OwnerOK(x, of)' <=> OwnerOK(x, of)
  BY <1>2 DEF OwnerOK, Functions, Mods
<1>12. Places' = Places
  BY <1>2 DEF Places
<1>13. SymsTyped'
  BY <1>10, <1>11, <1>12 DEF SymsTyped
<1>14. SymsFinite'
  BY <1>2, <1>3, <1>5, <1>12 DEF TypeInv, SymsFinite
<1>15. BoundTyped'
  BY <1>2 DEF TypeInv, BoundTyped, Functions, Places, Mods
<1> QED BY <1>9, <1>13, <1>14, <1>15 DEF TypeInv

LEMMA TypeGenerateCall ==
  ASSUME LinkInv, TypeInv, GenerateCall
  PROVE  TypeInv'
<1> DEFINE m      == at.m
           call   == CallAt
           callee == IF call.var \in Ids THEN LookUp(m, call.var, call.line)
                     ELSE ByIndex(m, call.var)
<1>1. /\ m \in Mods /\ m \in Places
      /\ \A x \in Mods : Len(names[x]) = Len(file.mods[x].ids)
  BY WhenGenerating, FileTyped DEF GenerateCall, AtCall, AtFunction, LinkInv, ProgressInv
<1>2. CASE callee = {}
  <2>1. Stop("crashed")
    BY <1>2 DEF GenerateCall
  <2> QED BY <2>1, TypeKept DEF Stop
<1>3. CASE callee # {}
  <2>1. PICK r \in callee : Bind(m, at.i, at.k, r, r.to)
    BY <1>3 DEF GenerateCall
  <2>2. UNCHANGED <<file, table, order, hosted>>
    BY <1>3 DEF GenerateCall
  <2>3. r.to \in Functions
    <3>1. CASE call.var \in Ids
      <4>1. r \in LookUp(m, call.var, call.line)
        BY <3>1
      <4> HIDE DEF call, m
      <4> QED BY <1>1, <4>1, LookUpFinds
    <3>2. CASE call.var \notin Ids
      <4>1. r \in ByIndex(m, call.var)
        BY <3>2
      <4> HIDE DEF call, m
      <4> QED BY <1>1, <4>1, ByIndexFinds
    <3> QED BY <3>1, <3>2
  <2> HIDE DEF m, callee
  <2> QED BY <1>1, <2>1, <2>2, <2>3, BindTyped
<1> QED BY <1>2, <1>3

LEMMA FullNameTyped ==
  ASSUME IsParsedFile(file), NEW m \in Mods, NEW i \in 1..Len(file.mods[m].imports)
  PROVE  FullName(m, i) \in Names
<1>1. file.mods[m].imports[i] \in Imports
  BY FileTyped
<1>2. file.mods[m].imports[i].host \in Seq((Symbols \cup Nat) \ Intrinsics)
  BY <1>1 DEF Imports
<1>3. file.mods[m].imports[i].host \in Seq(Symbols \cup Nat)
  BY <1>2
<1> QED BY <1>3 DEF FullName, Names

LEMMA IntrinsicNameTyped ==
  ASSUME NEW v \in Intrinsics
  PROVE  IntrinsicName(v) \in Names
<1>1. v \in Symbols \cup Nat
  BY IntrinsicsTyped
<1>2. <<v>> \in Seq(Symbols \cup Nat)
  BY <1>1
<1> QED BY <1>2 DEF IntrinsicName, Names

LEMMA CallAtTyped ==
  ASSUME LinkInv, NEW kind, AtCall(kind)
  PROVE  /\ at.m \in Mods /\ at.m \in Places
         /\ at.i \in 1..Len(file.mods[at.m].ids)
         /\ at.k \in 1..Len(BodyOf(at.m, at.i))
         /\ CallAt \in Calls /\ CallAt.kind = kind
<1>1. at.step = "generate" /\ at.i <= Len(file.mods[at.m].ids) /\ at.k <= Len(BodyOf(at.m, at.i))
      /\ CallAt.kind = kind
  BY DEF AtCall, AtFunction
<1>2. /\ at.m \in Mods /\ at.i \in 1..(Len(file.mods[at.m].ids) + 1)
      /\ at.k \in 1..(Len(BodyOf(at.m, at.i)) + 1)
      /\ Len(file.mods[at.m].ids) \in Nat /\ at.m \in Places
  BY <1>1, WhenGenerating, FileTyped DEF LinkInv, ProgressInv
<1>3. at.i \in 1..Len(file.mods[at.m].ids)
  BY <1>1, <1>2
<1>4. BodyOf(at.m, at.i) \in Seq(Calls) /\ Len(BodyOf(at.m, at.i)) \in Nat
  BY <1>2, <1>3, BodyTyped DEF LinkInv, ProgressInv
<1>5. at.k \in 1..Len(BodyOf(at.m, at.i))
  BY <1>1, <1>2, <1>4
<1>6. BodyOf(at.m, at.i)[at.k] \in Calls
  BY <1>4, <1>5
<1> QED BY <1>1, <1>2, <1>3, <1>5, <1>6 DEF CallAt

LEMMA IntrinsicTyped ==
  ASSUME NEW call \in Calls, call.kind = "intrinsic"
  PROVE  call.var \in Intrinsics
BY DEF Calls

LEMMA TypeGenerateImportCall ==
  ASSUME LinkInv, TypeInv, GenerateImportCall
  PROVE  TypeInv'
<1> DEFINE m == at.m
<1>1. m \in Mods /\ m \in Places
  BY CallAtTyped DEF GenerateImportCall
<1>2. CASE Stop("crashed")
  BY <1>2, TypeKept DEF Stop
<1>3. CASE ~Stop("crashed")
  <2>1. PICK i \in ImportFind(m, CallAt.var) : UseImport(m, at.i, at.k, i)
    BY <1>3 DEF GenerateImportCall
  <2>2. UNCHANGED <<file, table, order, bound>>
    BY <1>3 DEF GenerateImportCall
  <2>3. i \in 1..Len(file.mods[m].imports)
    BY DEF ImportFind
  <2> HIDE DEF m
  <2>4. FullName(m, i) \in Names
    BY <1>1, <2>3, FullNameTyped DEF LinkInv, ProgressInv
  <2>5. CASE Created(m, i) # {}
    <3>1. PICK s \in Created(m, i) : PrintHosted(m, at.i, at.k, s.name)
      BY <2>1, <2>5 DEF UseImport
    <3>2. syms' = syms /\ last' = last
      BY <2>1, <2>5 DEF UseImport
    <3>3. s.name \in Names
      BY <1>1 DEF Created, TypeInv, SymsTyped
    <3>4. SymsTyped' /\ SymsFinite'
      BY <2>2, <3>2, SymsSame DEF TypeInv
    <3> QED BY <1>1, <2>2, <3>1, <3>3, <3>4, HostedTyped
  <2>6. CASE Created(m, i) = {}
    <3>1. /\ PrintHosted(m, at.i, at.k, NewName(m, FullName(m, i)))
          /\ CreateFunction(m, FullName(m, i), <<0, i>>)
      BY <2>1, <2>6 DEF UseImport
    <3>2. NewName(m, FullName(m, i)) \in Names
      BY <1>1, <2>4, NewNameTyped DEF TypeInv
    <3>3. OwnerOK(m, <<0, i>>)
      <4>1. Len(file.mods[m].imports) \in Nat
        BY <1>1, FileTyped DEF LinkInv, ProgressInv
      <4>2. i \in 0..Len(file.mods[m].imports)
        BY <2>3, <4>1
      <4> QED BY <4>2 DEF OwnerOK
    <3>4. SymsTyped' /\ SymsFinite'
      BY <1>1, <2>2, <2>4, <3>1, <3>3, CreateTyped DEF TypeInv, LinkInv
    <3> QED BY <1>1, <2>2, <3>1, <3>2, <3>4, HostedTyped
  <2> QED BY <2>5, <2>6
<1> QED BY <1>2, <1>3

LEMMA TypeGenerateIntrinsicCall ==
  ASSUME LinkInv, TypeInv, GenerateIntrinsicCall
  PROVE  TypeInv'
<1> DEFINE m    == at.m
           name == IntrinsicName(CallAt.var)
<1>1. m \in Mods /\ m \in Places /\ CallAt.var \in Intrinsics
  BY CallAtTyped, IntrinsicTyped DEF GenerateIntrinsicCall
<1>2. UseIntrinsic(m, at.i, at.k, CallAt.var) /\ UNCHANGED <<file, table, order, bound>>
  BY DEF GenerateIntrinsicCall
<1>3. name \in Names
  BY <1>1, IntrinsicNameTyped
<1>4. \/ PrintHosted(m, at.i, at.k, name) /\ syms' = syms /\ last' = last
      \/ /\ PrintHosted(m, at.i, at.k, NewName(m, name))
         /\ CreateFunction(m, name, <<0, 0>>)
  BY <1>2 DEF UseIntrinsic
<1> HIDE DEF m, name
<1>5. CASE PrintHosted(m, at.i, at.k, name) /\ syms' = syms /\ last' = last
  <2>1. SymsTyped' /\ SymsFinite'
    BY <1>2, <1>5, SymsSame DEF TypeInv
  <2> QED BY <1>1, <1>2, <1>3, <1>5, <2>1, HostedTyped
<1>6. CASE /\ PrintHosted(m, at.i, at.k, NewName(m, name))
           /\ CreateFunction(m, name, <<0, 0>>)
  <2>1. NewName(m, name) \in Names
    BY <1>1, <1>3, NewNameTyped DEF TypeInv
  <2>2. OwnerOK(m, <<0, 0>>)
    <3>1. Len(file.mods[m].imports) \in Nat
      BY <1>1, FileTyped DEF LinkInv, ProgressInv
    <3>2. 0 \in 0..Len(file.mods[m].imports)
      BY <3>1
    <3> QED BY <3>2 DEF OwnerOK
  <2>3. SymsTyped' /\ SymsFinite'
    BY <1>1, <1>2, <1>3, <1>6, <2>2, CreateTyped DEF TypeInv, LinkInv
  <2> QED BY <1>1, <1>2, <1>6, <2>1, <2>3, HostedTyped
<1> QED BY <1>4, <1>5, <1>6

LEMMA ExportsTyped ==
  ASSUME IsParsedFile(file), NEW m \in Mods, NEW e \in ExportTable(m)
  PROVE  e.key \in Exported
<1>1. PICK x \in 1..Len(file.mods[m].exports) : e.key = file.mods[m].exports[x].name
  BY DEF ExportTable
<1>2. file.mods[m].exports[x] \in Exports
  BY FileTyped
<1> QED BY <1>1, <1>2 DEF Exports

LEMMA TypeModuleGenerated ==
  ASSUME LinkInv, TypeInv, ModuleGenerated
  PROVE  TypeInv'
<1> DEFINE m == at.m
<1>1. m \in Mods /\ m \in Places
  BY WhenGenerating, FileTyped DEF ModuleGenerated, LinkInv, ProgressInv
<1>2. \/ Stop("crashed")
      \/ /\ table' = [table EXCEPT ![m] = ExportTable(m)]
         /\ order' = [order EXCEPT ![m] = <<>>]
         /\ UNCHANGED <<file, names, syms, last, bound, hosted>>
  BY DEF ModuleGenerated
<1>3. CASE Stop("crashed")
  BY <1>3, TypeKept DEF Stop
<1>4. CASE /\ table' = [table EXCEPT ![m] = ExportTable(m)]
           /\ order' = [order EXCEPT ![m] = <<>>]
           /\ UNCHANGED <<file, names, syms, last, bound, hosted>>
  <2>1. \A e \in ExportTable(m) : e.key \in Exported
    BY <1>1, ExportsTyped DEF LinkInv, ProgressInv
  <2> HIDE DEF m
  <2>2. /\ table'[m] = ExportTable(m) /\ order'[m] = <<>>
        /\ \A x \in Places : x # m => table'[x] = table[x] /\ order'[x] = order[x]
    BY <1>1, <1>4 DEF LinkInv, DeclaredInv, ShapesOK
  <2>3. Len(order'[m]) = 0
    BY <2>2
  <2>4. \A x \in Places : /\ \A e \in table'[x] : e.key \in Names \cup Exported
                          /\ \A i \in 1..Len(order'[x]) : order'[x][i] = i
    BY <2>1, <2>2, <2>3 DEF TypeInv, TablesTyped
  <2>5. TablesTyped'
    BY <1>4, <2>4 DEF TablesTyped, Places
  <2>6. SymsTyped' /\ SymsFinite'
    BY <1>4, SymsSame DEF TypeInv
  <2>7. BoundTyped'
    BY <1>4 DEF TypeInv, BoundTyped, Functions, Places, Mods
  <2> QED BY <2>5, <2>6, <2>7 DEF TypeInv
<1> QED BY <1>2, <1>3, <1>4

LEMMA TypeGenerateScriptElem ==
  ASSUME LinkInv, TypeInv, GenerateScriptElem
  PROVE  TypeInv'
<1> DEFINE elem   == file.script[at.i]
           callee == LookUp(0, elem.name, elem.line)
<1>1. /\ 0 \in Places
      /\ \A x \in Mods : Len(names[x]) = Len(file.mods[x].ids)
  BY WhenScripting, FileTyped DEF GenerateScriptElem, LinkInv, ProgressInv, Places
<1>2. CASE Stop("crashed")
  BY <1>2, TypeKept DEF Stop
<1>3. CASE ~Stop("crashed")
  <2>1. PICK r \in callee : \E t \in Typing(elem, r) : Bind(0, at.i, 1, r, t)
    BY <1>3 DEF GenerateScriptElem
  <2>2. PICK t \in Typing(elem, r) : Bind(0, at.i, 1, r, t)
    BY <2>1
  <2>3. UNCHANGED <<file, table, order, hosted>>
    BY <1>3 DEF GenerateScriptElem
  <2>4. r.to \in Functions
    BY <1>1, <2>1, LookUpFinds
  <2>5. t \in Functions
    <3>1. t \in FileFind(elem.name, file.mods[Len(file.mods)].line) \/ t = r.to
      BY DEF Typing
    <3> QED BY <2>4, <3>1, FileFinds
  <2> HIDE DEF elem, callee
  <2> QED BY <1>1, <2>2, <2>3, <2>4, <2>5, BindTyped
<1> QED BY <1>2, <1>3

LEMMA TypeNext == LinkInv /\ TypeInv /\ [Next]_vars => TypeInv'
<1> SUFFICES ASSUME LinkInv, TypeInv, [Next]_vars PROVE TypeInv'
  OBVIOUS
<1>1. CASE MangleNext
  BY <1>1, TypeKept DEF MangleNext, Stop
<1>2. CASE InitializeModule
  BY <1>2, TypeInitializeModule
<1>3. CASE GenerateCall
  BY <1>3, TypeGenerateCall
<1>4. CASE GenerateImportCall
  BY <1>4, TypeGenerateImportCall
<1>5. CASE GenerateIntrinsicCall
  BY <1>5, TypeGenerateIntrinsicCall
<1>6. CASE FunctionGenerated
  BY <1>6, TypeKept DEF FunctionGenerated, Stop
<1>7. CASE ModuleGenerated
  BY <1>7, TypeModuleGenerated
<1>8. CASE GenerateScriptElem
  BY <1>8, TypeGenerateScriptElem
<1>9. CASE ScriptGenerated
  BY <1>9, TypeKept DEF ScriptGenerated, Stop
<1>10. CASE Terminated \/ UNCHANGED vars
  BY <1>10, TypeKept DEF Terminated, vars
<1> QED BY <1>1, <1>2, <1>3, <1>4, <1>5, <1>6, <1>7, <1>8, <1>9, <1>10 DEF Next, Step

LEMMA LinkAlways == Spec => [](LinkInv /\ TypeInv)
<1>1. Init => LinkInv /\ TypeInv
  BY LinkInit, TypeInvInit
<1>2. LinkInv /\ TypeInv /\ [Next]_vars => (LinkInv /\ TypeInv)'
  BY LinkNext, TypeNext
<1> QED BY <1>1, <1>2, PTL DEF Spec

(***************************************************************************)
(* The tables, the LLVM modules and the calls of WasmModule always refer   *)
(* to functions that exist, under names, and the compiler is at a module,  *)
(* function and call of the file or just past the last one.                *)
(***************************************************************************)
THEOREM LinkTyped == Spec => []TypeOK
BY LinkAlways, TypeInvType, PTL
=============================================================================
