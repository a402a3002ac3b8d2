--------------------------- MODULE ModuleLinkBinding ---------------------------
(***************************************************************************)
(* For files of any number and size of modules: what calls and invokes are *)
(* bound to, the names of functions of the host and of intrinsics, and     *)
(* that a valid file is linked.                                            *)
(***************************************************************************)
EXTENDS ModuleLinkProofs

(***************************************************************************)
(* Look-ups from a module that is generated: the modules above have their  *)
(* internal tables, those below their exports.                             *)
(***************************************************************************)
HasExports(m) == table[m] = MeantTable(m)

LEMMA ExportingNow ==
  ASSUME TablesKnown, NEW m \in Mods, Exporting(m)
  PROVE  HasExports(m)
BY DEF TablesKnown, HasExports

LEMMA ExportKeys ==
  ASSUME NEW m \in Mods, ValidModule(m), HasExports(m), NEW e \in table[m]
  PROVE  e.key \notin Ids \cup Names
<1>1. PICK x \in 1..Len(file.mods[m].exports) : e.key = file.mods[m].exports[x].name
  BY DEF HasExports, MeantTable, Counting
<1> QED BY <1>1 DEF ValidModule

LEMMA ExportsHideIds ==
  ASSUME LinkInv, NEW m \in Mods, ValidModule(m), HasExports(m), NEW id \in Ids
  PROVE  ModuleFind(m, id) = {}
<1>1. \A key : key \in Ids \cup Names => InTable(m, key) = {}
  BY ExportKeys DEF InTable
<1>2. \A h \in Hashed(m, id) : h \in Names
  <2>1. ASSUME NEW i \in 1..Len(names[m]) PROVE names[m][i] \in Names
    BY NamesAre DEF LinkInv
  <2> QED BY <2>1 DEF Hashed, Registered
<1>3. Reversed(m, id) = {}
  BY IdsUnlikeNames, NoReversed DEF LinkInv
<1>4. UNION {InTable(m, h) : h \in Hashed(m, id)} = {}
  BY <1>1, <1>2
<1>5. UNION {InTable(m, r) : r \in Reversed(m, id)} = {}
  BY <1>3
<1> QED BY <1>1, <1>4, <1>5 DEF ModuleFind, OrElse

LEMMA UnsharedFileFind ==
  ASSUME LinkInv, at.step = "generate", ValidFile, NEW id \in Ids, ~UsedAbove(at.m, id),
         NEW line
  PROVE  FileFind(id, line) \subseteq Meant(at.m, id)
<1> DEFINE m == at.m
<1>1. m \in Mods /\ m \in Nat
  BY WhenGenerating DEF LinkInv
<1> SUFFICES ASSUME NEW f \in FileFind(id, line) PROVE f \in Meant(m, id)
  OBVIOUS
<1>2. PICK x \in Mods : f \in ModuleFind(x, id)
  BY DEF FileFind, Finders
<1>3. x \in Nat
  BY FileTyped DEF LinkInv, ProgressInv
<1>4. CASE x > m
  <2>1. HasExports(x) /\ ValidModule(x)
    BY <1>4, ExportingNow DEF Exporting, LinkInv, ValidFile
  <2> QED BY <1>2, <2>1, ExportsHideIds
<1>5. CASE x <= m
  <2>1. HasInternal(x)
    BY <1>5, InternalNow DEF Internal, LinkInv
  <2>2. f \in Meant(x, id)
    BY <1>2, <2>1, InternalFindsId DEF LinkInv
  <2>3. ~(x < m)
    BY <2>2 DEF UsedAbove
  <2> QED BY <1>1, <1>3, <1>5, <2>2, <2>3
<1> QED BY <1>1, <1>3, <1>4, <1>5

LEMMA HashedKeys ==
  ASSUME LinkInv, NEW m \in Mods, HasInternal(m), NEW id \in Ids, NEW h \in Hashed(m, id)
  PROVE  InTable(m, h) # {} /\ InTable(m, h) \subseteq Meant(m, id)
<1>1. InTable(m, h) \subseteq Meant(m, id)
  BY HashedMeant DEF LinkInv
<1>2. PICK i \in 1..Len(names[m]) : h = names[m][i]
  BY DEF Hashed, Registered
<1>3. InTable(m, h) = {<<m, i>>}
  BY <1>2, InternalKey DEF LinkInv
<1> QED BY <1>1, <1>3

LEMMA InternalFindHashed ==
  ASSUME LinkInv, NEW m \in Mods, HasInternal(m), NEW id \in Ids, NEW h \in Hashed(m, id),
         NEW line
  PROVE  /\ InternalFind(m, h, line) # {}
         /\ \A r \in InternalFind(m, h, line) : r.to \in Meant(m, id)
<1>1. InTable(m, h) # {} /\ InTable(m, h) \subseteq Meant(m, id)
  BY HashedKeys
<1>2. {[to |-> f, outside |-> FALSE] : f \in InTable(m, h)} # {}
  BY <1>1
<1>3. InternalFind(m, h, line) = {[to |-> f, outside |-> FALSE] : f \in InTable(m, h)}
  BY <1>2 DEF InternalFind, OrElse
<1> QED BY <1>1, <1>2, <1>3

LEMMA UnsharedLookUp ==
  ASSUME LinkInv, at.step = "generate", ValidFile, NEW id \in Ids, ~UsedAbove(at.m, id),
         NEW line
  PROVE  /\ \A r \in LookUp(at.m, id, line) : r.to \in Meant(at.m, id)
         /\ Meant(at.m, id) # {} => LookUp(at.m, id, line) # {}
<1> DEFINE m      == at.m
           hashed == UNION {InternalFind(m, h, line) : h \in Hashed(m, id)}
           turned == UNION {InternalFind(m, r, line) : r \in Reversed(m, id)}
<1>1. m \in Mods /\ m \in Nat
  BY WhenGenerating DEF LinkInv
<1>2. HasInternal(m)
  BY <1>1, InternalNow DEF Internal, LinkInv
<1>3. id \notin Names
  BY IdsUnlikeNames
<1>4. InTable(m, id) = {}
  BY <1>1, <1>2, <1>3, NoInternalKey DEF LinkInv
<1>5. turned = {}
  BY <1>1, <1>3, NoReversed DEF LinkInv
<1>6. FileFind(id, line) \subseteq Meant(m, id)
  BY UnsharedFileFind
<1>7. \A r \in InternalFind(m, id, line) : r.to \in Meant(m, id)
  <2>1. InternalFind(m, id, line) = {[to |-> f, outside |-> TRUE] : f \in FileFind(id, line)}
    BY <1>4 DEF InternalFind, OrElse
  <2> QED BY <1>6, <2>1
<1>8. \A h \in Hashed(m, id) : /\ InternalFind(m, h, line) # {}
                               /\ \A r \in InternalFind(m, h, line) : r.to \in Meant(m, id)
  BY <1>1, <1>2, InternalFindHashed
<1>9. \A r \in hashed : r.to \in Meant(m, id)
  BY <1>8
<1>10. Meant(m, id) # {} => hashed # {}
  <2>1. UNION {InTable(m, h) : h \in Hashed(m, id)} = Meant(m, id)
    BY <1>1, <1>2, HashedMeant DEF LinkInv
  <2> QED BY <1>8, <2>1
<1>11. LookUp(m, id, line) = OrElse(InternalFind(m, id, line), OrElse(hashed, turned))
  BY DEF LookUp
<1> HIDE DEF hashed, turned, m
<1> QED BY <1>5, <1>7, <1>9, <1>10, <1>11 DEF OrElse, m

LEMMA IndexLookUp ==
  ASSUME LinkInv, at.step = "generate", NEW v, v \notin Ids
  PROVE  /\ \A r \in ByIndex(at.m, v) : r.to \in Meant(at.m, v)
         /\ Meant(at.m, v) # {} => ByIndex(at.m, v) # {}
<1> DEFINE m == at.m
<1>1. m \in Mods /\ m \in Nat
  BY WhenGenerating DEF LinkInv
<1>2. HasInternal(m)
  BY <1>1, InternalNow DEF Internal, LinkInv
<1>3. {<<m, order[m][i]>> : i \in {v + 1} \cap (1..Len(order[m]))} = Meant(m, v)
  BY <1>1, <1>2, InternalByIndex DEF LinkInv
<1>4. \A r \in ByIndex(m, v) : r.to \in {<<m, order[m][i]>> : i \in {v + 1} \cap (1..Len(order[m]))}
  BY DEF ByIndex
<1>5. {v + 1} \cap (1..Len(order[m])) # {} => ByIndex(m, v) # {}
  BY DEF ByIndex
<1> QED BY <1>3, <1>4, <1>5

-----------------------------------------------------------------------------
(***************************************************************************)
(* What is bound in a step: the call or the element where the compiler is. *)
(***************************************************************************)
Callees == IF CallAt.var \in Ids THEN LookUp(at.m, CallAt.var, CallAt.line)
           ELSE ByIndex(at.m, CallAt.var)

BoundCall(b) ==
  /\ AtCall("call")
  /\ b.in = at.m /\ b.fun = at.i /\ b.call = at.k
  /\ \E r \in Callees : b.to = r.to

BoundElem(b) ==
  /\ at.step = "script" /\ at.i <= Len(file.script)
  /\ b.in = 0 /\ b.fun = at.i
  /\ \E r \in LookUp(0, file.script[at.i].name, file.script[at.i].line) :
       b.to = r.to /\ b.typed \in Typing(file.script[at.i], r)

LEMMA BoundByStep ==
  ASSUME [Next]_vars
  PROVE  file' = file /\ \A b \in bound' : b \in bound \/ BoundCall(b) \/ BoundElem(b)
<1>1. CASE GenerateCall
  <2>1. CASE Stop("crashed")
    BY <2>1 DEF Stop
  <2>2. CASE ~Stop("crashed")
    <3>1. PICK r \in Callees : Bind(at.m, at.i, at.k, r, r.to)
      BY <1>1, <2>2 DEF GenerateCall, Callees
    <3>2. AtCall("call") /\ file' = file
      BY <1>1, <2>2 DEF GenerateCall
    <3>3. bound' = bound \cup {[in |-> at.m, fun |-> at.i, call |-> at.k, to |-> r.to,
                                typed |-> r.to]}
      BY <3>1 DEF Bind
    <3> QED BY <3>1, <3>2, <3>3 DEF BoundCall
  <2> QED BY <2>1, <2>2
<1>2. CASE GenerateScriptElem
  <2> DEFINE elem == file.script[at.i]
  <2>1. CASE Stop("crashed")
    BY <2>1 DEF Stop
  <2>2. CASE ~Stop("crashed")
    <3>1. PICK r \in LookUp(0, elem.name, elem.line) :
            \E t \in Typing(elem, r) : Bind(0, at.i, 1, r, t)
      BY <1>2, <2>2 DEF GenerateScriptElem
    <3>2. PICK t \in Typing(elem, r) : Bind(0, at.i, 1, r, t)
      BY <3>1
    <3>3. at.step = "script" /\ at.i <= Len(file.script) /\ file' = file
      BY <1>2, <2>2 DEF GenerateScriptElem
    <3>4. bound' = bound \cup {[in |-> 0, fun |-> at.i, call |-> 1, to |-> r.to, typed |-> t]}
      BY <3>2 DEF Bind
    <3>5. BoundElem([in |-> 0, fun |-> at.i, call |-> 1, to |-> r.to, typed |-> t])
      BY <3>1, <3>2, <3>3 DEF BoundElem
    <3> QED BY <3>3, <3>4, <3>5
  <2> QED BY <2>1, <2>2
<1>3. CASE ~GenerateCall /\ ~GenerateScriptElem
  <2>1. file' = file /\ bound' = bound
    BY <1>3 DEF Next, Step, vars, Terminated, MangleNext, InitializeModule, GenerateImportCall,
                GenerateIntrinsicCall, FunctionGenerated, ModuleGenerated, ScriptGenerated, Stop
  <2> QED BY <2>1
<1> QED BY <1>1, <1>2, <1>3

(***************************************************************************)
(* The file is not changed, so what it means stays.                        *)
(***************************************************************************)
LEMMA FileSame ==
  ASSUME file' = file
  PROVE  /\ Mods' = Mods
         /\ ValidFile' = ValidFile
         /\ \A m, v : Meant(m, v)' = Meant(m, v) /\ UsedAbove(m, v)' = UsedAbove(m, v)
         /\ \A b : Called(b)' = Called(b)
         /\ \A m, i : BodyOf(m, i)' = BodyOf(m, i)
         /\ \A elem : InvokeMeant(elem)' = InvokeMeant(elem)
                      /\ ExportedBelow(elem)' = ExportedBelow(elem)
<1>1. Mods' = Mods /\ \A m, i : BodyOf(m, i)' = BodyOf(m, i)
  BY DEF Mods, BodyOf
<1>2. \A m, v : Meant(m, v)' = Meant(m, v) /\ UsedAbove(m, v)' = UsedAbove(m, v)
  BY DEF Mods, Meant, UsedAbove
<1>3. \A b : Called(b)' = Called(b)
  BY DEF Called, BodyOf
<1>4. \A elem : InvokeMeant(elem)' = InvokeMeant(elem)
                /\ ExportedBelow(elem)' = ExportedBelow(elem)
  BY DEF InvokeMeant, Exporters, ExportsAs, Meant, Mods, ExportedBelow
<1>5. ValidFile' = ValidFile
  BY DEF ValidFile, ValidModule, InvokeMeant, Exporters, ExportsAs, Meant, Mods, ImportMeant
<1> QED BY <1>1, <1>2, <1>3, <1>4, <1>5

(***************************************************************************)
(* Where the calls are that have been bound.                               *)
(***************************************************************************)
BoundPlaced ==
  \A b \in bound :
    /\ b.in \in Mods \/ (b.in = 0 /\ b.fun \in 1..Len(file.script))
    /\ b.in \in Mods => /\ b.fun \in 1..Len(file.mods[b.in].ids)
                        /\ b.call \in 1..Len(BodyOf(b.in, b.fun))
                        /\ BodyOf(b.in, b.fun)[b.call].kind = "call"

LEMMA PlacedNext ==
  ASSUME LinkInv, BoundPlaced, [Next]_vars
  PROVE  BoundPlaced'
<1>1. file' = file /\ \A b \in bound' : b \in bound \/ BoundCall(b) \/ BoundElem(b)
  BY BoundByStep
<1>2. Mods' = Mods /\ \A m, i : BodyOf(m, i)' = BodyOf(m, i)
  BY <1>1, FileSame
<1>3. ASSUME NEW b \in bound'
      PROVE  /\ b.in \in Mods \/ (b.in = 0 /\ b.fun \in 1..Len(file.script))
             /\ b.in \in Mods => /\ b.fun \in 1..Len(file.mods[b.in].ids)
                                 /\ b.call \in 1..Len(BodyOf(b.in, b.fun))
                                 /\ BodyOf(b.in, b.fun)[b.call].kind = "call"
  <2>1. CASE b \in bound
    BY <2>1 DEF BoundPlaced
  <2>2. CASE BoundCall(b)
    BY <2>2, CallAtTyped DEF BoundCall, CallAt
  <2>3. CASE BoundElem(b)
    <3>1. b.in = 0 /\ b.fun = at.i /\ at.step = "script" /\ at.i <= Len(file.script)
      BY <2>3 DEF BoundElem
    <3>2. at.i \in 1..(Len(file.script) + 1) /\ Len(file.script) \in Nat
      BY <3>1, WhenScripting, FileTyped DEF LinkInv, ProgressInv
    <3>3. 0 \notin Mods
      BY FileTyped DEF LinkInv, ProgressInv
    <3> QED BY <3>1, <3>2, <3>3
  <2> QED BY <1>1, <2>1, <2>2, <2>3
<1> QED BY <1>1, <1>2, <1>3 DEF BoundPlaced

LEMMA OwnNext ==
  ASSUME LinkInv, UnsharedBindOwn, [Next]_vars
  PROVE  UnsharedBindOwn'
<1>1. file' = file /\ \A b \in bound' : b \in bound \/ BoundCall(b) \/ BoundElem(b)
  BY BoundByStep
<1>2. /\ Mods' = Mods /\ ValidFile' = ValidFile
      /\ \A m, v : Meant(m, v)' = Meant(m, v) /\ UsedAbove(m, v)' = UsedAbove(m, v)
      /\ \A b : Called(b)' = Called(b)
  BY <1>1, FileSame
<1>3. ASSUME ValidFile, NEW b \in bound', b.in \in Mods,
             ~(Called(b) \in Ids /\ UsedAbove(b.in, Called(b)))
      PROVE  b.to \in Meant(b.in, Called(b))
  <2>1. CASE b \in bound
    BY <1>3, <2>1 DEF UnsharedBindOwn, BindsOwn
  <2>2. CASE BoundCall(b)
    <3>1. b.in = at.m /\ Called(b) = CallAt.var /\ at.step = "generate"
      BY <2>2 DEF BoundCall, Called, CallAt, AtCall, AtFunction
    <3>2. PICK r \in Callees : b.to = r.to
      BY <2>2 DEF BoundCall
    <3>3. CASE CallAt.var \in Ids
      <4>1. r \in LookUp(at.m, CallAt.var, CallAt.line)
        BY <3>2, <3>3 DEF Callees
      <4> QED BY <1>3, <3>1, <3>2, <3>3, <4>1, UnsharedLookUp
    <3>4. CASE CallAt.var \notin Ids
      <4>1. r \in ByIndex(at.m, CallAt.var)
        BY <3>2, <3>4 DEF Callees
      <4> QED BY <3>1, <3>2, <3>4, <4>1, IndexLookUp
    <3> QED BY <3>3, <3>4
  <2>3. CASE BoundElem(b)
    BY <1>3, <2>3, FileTyped DEF BoundElem, LinkInv, ProgressInv
  <2> QED BY <1>1, <2>1, <2>2, <2>3
<1> QED BY <1>2, <1>3 DEF UnsharedBindOwn, BindsOwn

LEMMA BindingAlways == Spec => [](LinkInv /\ TypeInv /\ BoundPlaced /\ UnsharedBindOwn)
<1>1. Init => BoundPlaced /\ UnsharedBindOwn
  BY DEF Init, BoundPlaced, UnsharedBindOwn
<1>2. LinkInv /\ BoundPlaced /\ UnsharedBindOwn /\ [Next]_vars => (BoundPlaced /\ UnsharedBindOwn)'
  BY PlacedNext, OwnNext
<1> QED BY <1>1, <1>2, LinkAlways, PTL DEF Spec

(***************************************************************************)
(* In a valid file a call is bound to the function of its own module that  *)
(* it names, although WasmFile::GetWasmFunction is asked first, as long as *)
(* no module above has a function of that name: whatever the tables of the *)
(* other modules are at that time, and whatever letters made their mangled *)
(* names unique.                                                           *)
(***************************************************************************)
THEOREM OwnCallsBound == Spec => []UnsharedBindOwn
BY BindingAlways, PTL

-----------------------------------------------------------------------------
(***************************************************************************)
(* What names stand for in a valid module is one function.                 *)
(***************************************************************************)
LEMMA MeantOnce ==
  ASSUME NEW m \in Mods, ValidModule(m), NEW v, NEW f \in Meant(m, v), NEW g \in Meant(m, v)
  PROVE  f = g
<1>1. DistinctIn(file.mods[m].ids)
  BY DEF ValidModule
<1> QED BY <1>1 DEF Meant, DistinctIn

LEMMA ExportsOnce ==
  ASSUME NEW m \in Mods, ValidModule(m), NEW name, NEW f \in ExportsAs(m, name),
         NEW g \in ExportsAs(m, name)
  PROVE  f = g
<1> DEFINE exports == file.mods[m].exports
<1>1. PICK x \in 1..Len(exports) : exports[x].name = name /\ f \in Meant(m, exports[x].var)
  BY DEF ExportsAs
<1>2. PICK y \in 1..Len(exports) : exports[y].name = name /\ g \in Meant(m, exports[y].var)
  BY DEF ExportsAs
<1>3. DistinctIn([z \in 1..Len(exports) |-> exports[z].name])
  BY DEF ValidModule
<1>4. x = y
  <2> DEFINE seq == [z \in 1..Len(exports) |-> exports[z].name]
  <2>1. Len(exports) \in Nat
    BY <1>1
  <2>2. Len(seq) = Len(exports)
    BY <2>1
  <2> QED BY <1>1, <1>2, <1>3, <2>2 DEF DistinctIn
<1> QED BY <1>1, <1>2, <1>4, MeantOnce

LEMMA InvokeOnce ==
  ASSUME IsParsedFile(file), ValidFile, NEW elem, NEW f \in InvokeMeant(elem),
         NEW g \in InvokeMeant(elem)
  PROVE  f = g
<1>1. PICK m \in Exporters(elem) : /\ \A y \in Exporters(elem) : y <= m
                                   /\ f \in ExportsAs(m, elem.name)
  BY DEF InvokeMeant
<1>2. PICK x \in Exporters(elem) : /\ \A y \in Exporters(elem) : y <= x
                                   /\ g \in ExportsAs(x, elem.name)
  BY DEF InvokeMeant
<1>3. m \in Mods /\ x \in Mods
  BY DEF Exporters
<1>4. m \in Nat /\ x \in Nat
  BY <1>3, FileTyped
<1>5. m = x
  BY <1>1, <1>2, <1>4
<1> QED BY <1>1, <1>2, <1>3, <1>5, ExportsOnce DEF ValidFile

(***************************************************************************)
(* The name of an invoke is that of an export of a valid module, so that   *)
(* it is not written like a function.                                      *)
(***************************************************************************)
LEMMA InvokeName ==
  ASSUME ValidFile, NEW j \in 1..Len(file.script)
  PROVE  file.script[j].name \notin Ids \cup Names
<1> DEFINE elem == file.script[j]
<1>1. PICK m \in Mods : ExportsAs(m, elem.name) # {}
  BY DEF ValidFile, InvokeMeant, Exporters
<1>2. PICK x \in 1..Len(file.mods[m].exports) : file.mods[m].exports[x].name = elem.name
  BY <1>1 DEF ExportsAs
<1> QED BY <1>1, <1>2 DEF ValidFile, ValidModule

(***************************************************************************)
(* When all modules have been generated, their tables say what they        *)
(* export.                                                                 *)
(***************************************************************************)
LEMMA AllCounting ==
  ASSUME NEW m \in Mods, ValidModule(m), NEW x \in 1..Len(file.mods[m].exports)
  PROVE  x \in Counting(m)
<1> DEFINE exports == file.mods[m].exports
           seq     == [z \in 1..Len(exports) |-> exports[z].name]
<1>1. Len(exports) \in Nat
  OBVIOUS
<1>2. Len(seq) = Len(exports)
  BY <1>1
<1>3. DistinctIn(seq)
  BY DEF ValidModule
<1>4. ASSUME NEW y \in (x + 1)..Len(exports) PROVE exports[y].name # exports[x].name
  <2>1. y \in 1..Len(exports) /\ y # x
    BY <1>1
  <2> QED BY <1>2, <1>3, <2>1 DEF DistinctIn
<1> QED BY <1>4 DEF Counting

LEMMA ExportModuleFind ==
  ASSUME LinkInv, NEW m \in Mods, ValidModule(m), HasExports(m), NEW name,
         name \notin Ids \cup Names
  PROVE  ModuleFind(m, name) = ExportsAs(m, name)
<1> DEFINE exports == file.mods[m].exports
<1>1. Hashed(m, name) = {} /\ Reversed(m, name) = {}
  BY NoHashed, NoReversed DEF LinkInv
<1>2. ModuleFind(m, name) = InTable(m, name)
  BY <1>1 DEF ModuleFind, OrElse
<1>3. ASSUME NEW f \in InTable(m, name) PROVE f \in ExportsAs(m, name)
  <2>1. PICK e \in table[m] : e.key = name /\ f = <<m, e.fun>>
    BY DEF InTable
  <2>2. PICK x \in Counting(m) : \E g \in Meant(m, exports[x].var) :
          e = [key |-> exports[x].name, fun |-> g[2]]
    BY DEF HasExports, MeantTable
  <2>3. PICK g \in Meant(m, exports[x].var) : e = [key |-> exports[x].name, fun |-> g[2]]
    BY <2>2
  <2>4. g = <<m, g[2]>>
    BY DEF Meant
  <2>5. x \in 1..Len(exports) /\ exports[x].name = name /\ f = g
    BY <2>1, <2>3, <2>4 DEF Counting
  <2> QED BY <2>5 DEF ExportsAs
<1>4. ASSUME NEW f \in ExportsAs(m, name) PROVE f \in InTable(m, name)
  <2>1. PICK x \in 1..Len(exports) : exports[x].name = name /\ f \in Meant(m, exports[x].var)
    BY DEF ExportsAs
  <2>2. x \in Counting(m)
    BY AllCounting
  <2>3. [key |-> name, fun |-> f[2]] \in table[m]
    BY <2>1, <2>2 DEF HasExports, MeantTable
  <2>4. f = <<m, f[2]>>
    BY <2>1 DEF Meant
  <2> QED BY <2>3, <2>4 DEF InTable
<1> QED BY <1>2, <1>3, <1>4

LEMMA ScriptTables ==
  ASSUME LinkInv, at.step = "script", ValidFile, NEW m \in Mods, NEW name,
         name \notin Ids \cup Names
  PROVE  ModuleFind(m, name) = ExportsAs(m, name)
BY ExportingNow, ExportModuleFind DEF Exporting, LinkInv, ValidFile

LEMMA ScriptFileFind ==
  ASSUME LinkInv, at.step = "script", ValidFile, NEW elem, elem.name \notin Ids \cup Names
  PROVE  FileFind(elem.name, elem.line) = InvokeMeant(elem)
<1>1. \A m \in Mods : ModuleFind(m, elem.name) = ExportsAs(m, elem.name)
  BY ScriptTables
<1>2. Finders(elem.name, elem.line) = Exporters(elem)
  BY <1>1 DEF Finders, Exporters
<1>3. \A m \in Exporters(elem) : m \in Mods
  BY DEF Exporters
<1> QED BY <1>1, <1>2, <1>3 DEF FileFind, InvokeMeant

LEMMA ScriptLookUp ==
  ASSUME LinkInv, at.step = "script", ValidFile, NEW j \in 1..Len(file.script)
  PROVE  LET elem == file.script[j]
         IN /\ LookUp(0, elem.name, elem.line) # {}
            /\ \A r \in LookUp(0, elem.name, elem.line) : r.to \in InvokeMeant(elem)
<1> DEFINE elem == file.script[j]
<1>1. FileFind(elem.name, elem.line) = InvokeMeant(elem) /\ InvokeMeant(elem) # {}
  BY InvokeName, ScriptFileFind DEF ValidFile
<1>2. InTable(0, elem.name) = {}
  BY DEF InTable, LinkInv, ProgressInv, ScriptModuleEmpty
<1> DEFINE found == {[to |-> f, outside |-> TRUE] : f \in InvokeMeant(elem)}
<1>3. InternalFind(0, elem.name, elem.line) = found
  BY <1>1, <1>2 DEF InternalFind, OrElse
<1>4. found # {} /\ \A r \in found : r.to \in InvokeMeant(elem)
  <2>1. PICK f \in InvokeMeant(elem) : TRUE
    BY <1>1
  <2>2. [to |-> f, outside |-> TRUE] \in found
    OBVIOUS
  <2>3. ASSUME NEW r \in found PROVE r.to \in InvokeMeant(elem)
    OBVIOUS
  <2> QED BY <2>2, <2>3
<1> HIDE DEF found
<1>5. LookUp(0, elem.name, elem.line) = found
  BY <1>3, <1>4 DEF LookUp, OrElse
<1> QED BY <1>4, <1>5

(***************************************************************************)
(* assert_return_nan looks for its function as if it were on the last line *)
(* of the modules.                                                         *)
(***************************************************************************)
LEMMA LastLine ==
  ASSUME IsParsedFile(file), NEW m \in Mods
  PROVE  file.mods[m].line <= file.mods[Len(file.mods)].line
<1>1. Len(file.mods) \in Nat /\ Len(file.mods) > 0
  BY FileTyped
<1>2. Len(file.mods) \in 1..Len(file.mods) /\ m \in 1..Len(file.mods)
  BY <1>1 DEF Mods
<1> QED BY <1>2 DEF IsParsedFile

LEMMA ScriptTyping ==
  ASSUME LinkInv, at.step = "script", ValidFile, NEW j \in 1..Len(file.script),
         NEW r, r.to \in InvokeMeant(file.script[j])
  PROVE  LET elem == file.script[j]
         IN /\ Typing(elem, r) # {}
            /\ ~ExportedBelow(elem) => \A t \in Typing(elem, r) : t = r.to
<1> DEFINE elem == file.script[j]
           L    == file.mods[Len(file.mods)].line
           late == [elem EXCEPT !.line = L]
<1>1. CASE ~elem.nan
  BY <1>1 DEF Typing
<1>2. CASE elem.nan
  <2>1. elem \in Invokes
    BY FileTyped DEF LinkInv, ProgressInv
  <2>2. late.name = elem.name /\ late.line = L
    BY <2>1 DEF Invokes
  <2> HIDE DEF late
  <2>3. FileFind(elem.name, L) = InvokeMeant(late)
    BY <2>2, InvokeName, ScriptFileFind
  <2>4. Exporters(late) = {m \in Mods : ExportsAs(m, elem.name) # {}}
    BY <2>2, LastLine DEF Exporters, LinkInv, ProgressInv
  <2>5. InvokeMeant(late) # {}
    <3>1. PICK m \in Mods : ExportsAs(m, elem.name) # {}
      BY DEF InvokeMeant, Exporters
    <3>2. Exporters(late) \subseteq 0..Len(file.mods) /\ m \in Exporters(late)
          /\ Len(file.mods) \in Nat
      BY <2>4, <3>1, FileTyped DEF LinkInv, ProgressInv, Mods
    <3>3. PICK n \in Exporters(late) : \A x \in Exporters(late) : x <= n
      BY <3>2, GreatestNumber
    <3>4. ExportsAs(n, late.name) # {}
      BY <2>2, <2>4
    <3> QED BY <3>3, <3>4 DEF InvokeMeant
  <2>6. ASSUME ~ExportedBelow(elem) PROVE InvokeMeant(late) = InvokeMeant(elem)
    <3>1. \A m \in Mods : ExportsAs(m, elem.name) # {} => file.mods[m].line <= elem.line
      BY <2>1, <2>6, FileTyped DEF ExportedBelow, Invokes, LinkInv, ProgressInv
    <3>2. Exporters(late) = Exporters(elem)
      BY <2>4, <3>1 DEF Exporters
    <3> QED BY <2>2, <3>2 DEF InvokeMeant
  <2>7. Typing(elem, r) = InvokeMeant(late)
    BY <1>2, <2>3 DEF Typing
  <2>8. ASSUME ~ExportedBelow(elem), NEW t \in Typing(elem, r) PROVE t = r.to
    BY <2>6, <2>7, <2>8, InvokeOnce DEF LinkInv, ProgressInv
  <2> QED BY <2>5, <2>7, <2>8
<1> QED BY <1>1, <1>2

LEMMA InvokesNext ==
  ASSUME LinkInv, InvokesBindExports, [Next]_vars
  PROVE  InvokesBindExports'
<1>1. file' = file /\ \A b \in bound' : b \in bound \/ BoundCall(b) \/ BoundElem(b)
  BY BoundByStep
<1>2. /\ ValidFile' = ValidFile
      /\ \A elem : InvokeMeant(elem)' = InvokeMeant(elem)
                   /\ ExportedBelow(elem)' = ExportedBelow(elem)
  BY <1>1, FileSame
<1>3. ASSUME ValidFile, NEW b \in bound', b.in = 0
      PROVE  /\ b.to \in InvokeMeant(file.script[b.fun])
             /\ ~ExportedBelow(file.script[b.fun]) => b.typed = b.to
  <2>1. CASE b \in bound
    BY <1>3, <2>1 DEF InvokesBindExports
  <2>2. CASE BoundCall(b)
    BY <1>3, <2>2, CallAtTyped, FileTyped DEF BoundCall, LinkInv, ProgressInv
  <2>3. CASE BoundElem(b)
    <3>1. at.step = "script" /\ at.i \in 1..Len(file.script) /\ b.fun = at.i
      <4>1. at.step = "script" /\ at.i <= Len(file.script) /\ b.fun = at.i
        BY <2>3 DEF BoundElem
      <4>2. at.i \in 1..(Len(file.script) + 1) /\ Len(file.script) \in Nat
        BY <4>1, WhenScripting, FileTyped DEF LinkInv, ProgressInv
      <4> QED BY <4>1, <4>2
    <3>2. PICK r \in LookUp(0, file.script[at.i].name, file.script[at.i].line) :
            b.to = r.to /\ b.typed \in Typing(file.script[at.i], r)
      BY <2>3 DEF BoundElem
    <3>3. r.to \in InvokeMeant(file.script[at.i])
      BY <1>3, <3>1, <3>2, ScriptLookUp
    <3> QED BY <1>3, <3>1, <3>2, <3>3, ScriptTyping
  <2> QED BY <1>1, <2>1, <2>2, <2>3
<1>4. ASSUME NEW b
      PROVE  /\ InvokeMeant(file.script[b.fun])' = InvokeMeant(file.script[b.fun])
             /\ ExportedBelow(file.script[b.fun])' = ExportedBelow(file.script[b.fun])
  BY <1>1 DEF InvokeMeant, Exporters, ExportsAs, Meant, Mods, ExportedBelow
<1> QED BY <1>2, <1>3, <1>4 DEF InvokesBindExports

(***************************************************************************)
(* An invoke or an assertion of a valid script calls what the last module  *)
(* above it that has an export of the name exports, and goes by the type   *)
(* of that function unless a module below exports the name again.          *)
(***************************************************************************)
THEOREM InvokesBound == Spec => []InvokesBindExports
<1>1. Init => InvokesBindExports
  BY DEF Init, InvokesBindExports
<1>2. LinkInv /\ InvokesBindExports /\ [Next]_vars => InvokesBindExports'
  BY InvokesNext
<1> QED BY <1>1, <1>2, LinkAlways, PTL DEF Spec

-----------------------------------------------------------------------------
(***************************************************************************)
(* The declarations of an LLVM module: its functions and prototypes, the   *)
(* imports and the intrinsics that have been called.  A name with a number *)
(* was taken: for an import, then, another one has a claim to it.          *)
(***************************************************************************)
Passed(m, i, k) ==
  /\ at.step # "initialize"
  /\ at.step = "generate" =>
       m > at.m \/ (m = at.m /\ (i < at.i \/ (i = at.i /\ k < at.k)))

UsedSoFar(m, v) ==
  \E i \in 1..Len(file.mods[m].ids) : \E k \in 1..Len(BodyOf(m, i)) :
    Passed(m, i, k) /\ UsesIntrinsic(m, i, k, v)

IsFunction(s) == s.of \in Functions /\ s.name.mod \in Mods

IsImport(m, s) ==
  \E i \in 1..Len(file.mods[m].imports) :
    /\ s.of = <<0, i>>
    /\ \/ s.name = FullName(m, i)
       \/ ClaimedTwice(m, FullName(m, i)) /\ \E n \in Nat : s.name = Numbered(FullName(m, i), n)

IsIntrinsic(m, s) ==
  /\ s.of = <<0, 0>>
  /\ \E v \in Intrinsics :
       /\ UsedSoFar(m, v)
       /\ \/ s.name = IntrinsicName(v)
          \/ \E n \in Nat : s.name = Numbered(IntrinsicName(v), n)

SymsKnown == \A m \in Mods : \A s \in syms[m] : IsFunction(s) \/ IsImport(m, s) \/ IsIntrinsic(m, s)

HostedKnown ==
  \A b \in hosted :
    /\ b.in \in Mods /\ b.fun \in 1..Len(file.mods[b.in].ids)
    /\ b.call \in 1..Len(BodyOf(b.in, b.fun))
    /\ IF BodyOf(b.in, b.fun)[b.call].kind = "intrinsic"
       THEN b.name = IntrinsicName(Called(b)) \/ RepeatsIntrinsic(b.in)
       ELSE \E i \in ImportFind(b.in, Called(b)) :
              b.name = FullName(b.in, i) \/ ClaimedTwice(b.in, FullName(b.in, i))

(***************************************************************************)
(* The texts of names.                                                     *)
(***************************************************************************)
LEMMA BeginsAppended ==
  ASSUME NEW T, NEW s \in Seq(T), NEW t \in Seq(T), Begins(s, t), NEW n
  PROVE  Begins(s, Append(t, n)) /\ Begins(t, t)
<1>1. Len(s) \in Nat /\ Len(t) \in Nat
  OBVIOUS
<1>2. /\ Len(Append(t, n)) = Len(t) + 1
      /\ \A x \in 1..Len(t) : Append(t, n)[x] = t[x]
  OBVIOUS
<1>3. \A x \in 1..Len(s) : x \in 1..Len(t)
  BY <1>1 DEF Begins
<1>4. Begins(s, Append(t, n))
  BY <1>1, <1>2, <1>3 DEF Begins
<1> QED BY <1>1, <1>4 DEF Begins

LEMMA HostText ==
  ASSUME IsParsedFile(file), NEW m \in Mods, NEW i \in 1..Len(file.mods[m].imports)
  PROVE  /\ FullName(m, i) \in Names /\ FullName(m, i).mod = 0
         /\ FullName(m, i).text \in Seq((Symbols \cup Nat) \ Intrinsics)
<1>1. file.mods[m].imports[i] \in Imports
  BY FileTyped
<1>2. file.mods[m].imports[i].host \in Seq((Symbols \cup Nat) \ Intrinsics)
  BY <1>1 DEF Imports
<1> QED BY <1>2, FullNameTyped DEF FullName

LEMMA NotIntrinsicName ==
  ASSUME IsParsedFile(file), NEW m \in Mods, NEW i \in 1..Len(file.mods[m].imports),
         NEW v \in Intrinsics, NEW n \in Nat, NEW x \in Nat
  PROVE  /\ FullName(m, i) # IntrinsicName(v)
         /\ FullName(m, i) # Numbered(IntrinsicName(v), n)
         /\ Numbered(FullName(m, i), x) # IntrinsicName(v)
<1> DEFINE t == FullName(m, i).text
<1>1. FullName(m, i) \in Names /\ t \in Seq((Symbols \cup Nat) \ Intrinsics)
  BY HostText
<1>2. IntrinsicName(v) \in Names /\ IntrinsicName(v).text = <<v>>
  BY IntrinsicNameTyped DEF IntrinsicName
<1>3. Numbered(IntrinsicName(v), n).text = Append(<<v>>, n)
  BY <1>2, NumberedTyped
<1>4. Numbered(FullName(m, i), x).text = Append(t, x)
  BY <1>1, NumberedTyped
<1> HIDE DEF t
<1>5. t # <<v>> /\ t # Append(<<v>>, n)
  <2>1. Append(<<v>>, n)[1] = v /\ Len(Append(<<v>>, n)) = 2 /\ <<v>>[1] = v /\ Len(<<v>>) = 1
    OBVIOUS
  <2>2. Len(t) >= 1 => t[1] # v
    BY <1>1
  <2>3. t = <<v>> => Len(t) = 1 /\ t[1] = v
    BY <2>1
  <2>4. t = Append(<<v>>, n) => Len(t) = 2 /\ t[1] = v
    BY <2>1
  <2> QED BY <2>2, <2>3, <2>4
<1>6. Append(t, x) # <<v>>
  <2>1. v \notin Nat
    BY IntrinsicsTyped
  <2>2. Len(t) \in Nat /\ Len(Append(t, x)) = Len(t) + 1 /\ Append(t, x)[Len(t) + 1] = x
    BY <1>1
  <2>3. <<v>>[1] = v /\ Len(<<v>>) = 1
    OBVIOUS
  <2> QED BY <2>1, <2>2, <2>3
<1> QED BY <1>2, <1>3, <1>4, <1>5, <1>6 DEF t

LEMMA IntrinsicNamesDiffer ==
  ASSUME NEW v \in Intrinsics, NEW w \in Intrinsics, NEW n \in Nat
  PROVE  /\ IntrinsicName(v) = IntrinsicName(w) => v = w
         /\ Numbered(IntrinsicName(v), n) # IntrinsicName(w)
<1>1. IntrinsicName(v) \in Names /\ IntrinsicName(v).text = <<v>> /\ IntrinsicName(w).text = <<w>>
  BY IntrinsicNameTyped DEF IntrinsicName
<1>2. Numbered(IntrinsicName(v), n).text = Append(<<v>>, n)
  BY <1>1, NumberedTyped
<1>3. Len(Append(<<v>>, n)) = 2 /\ Len(<<w>>) = 1
  OBVIOUS
<1> QED BY <1>1, <1>2, <1>3

(***************************************************************************)
(* A name that is taken by something else.                                 *)
(***************************************************************************)
LEMMA TakenFull ==
  ASSUME IsParsedFile(file), SymsKnown, NEW m \in Mods,
         NEW i \in 1..Len(file.mods[m].imports), Created(m, i) = {}, FullName(m, i) \in Taken(m)
  PROVE  ClaimedTwice(m, FullName(m, i))
<1>1. PICK s \in syms[m] : s.name = FullName(m, i)
  BY DEF Taken
<1>2. CASE IsFunction(s)
  <2>1. FullName(m, i).mod \in Mods
    BY <1>1, <1>2 DEF IsFunction
  <2> QED BY <2>1, HostText, FileTyped
<1>3. CASE IsImport(m, s)
  <2>1. PICK j \in 1..Len(file.mods[m].imports) :
          /\ s.of = <<0, j>>
          /\ \/ s.name = FullName(m, j)
             \/ ClaimedTwice(m, FullName(m, j))
                /\ \E n \in Nat : s.name = Numbered(FullName(m, j), n)
    BY <1>3 DEF IsImport
  <2>2. j # i
    BY <2>1 DEF Created
  <2>3. CASE s.name = FullName(m, j)
    <3>1. FullName(m, i).text \in Seq((Symbols \cup Nat) \ Intrinsics)
      BY HostText
    <3>2. Begins(FullName(m, i).text, FullName(m, i).text)
      BY <3>1 DEF Begins
    <3> QED BY <1>1, <2>2, <2>3, <3>2 DEF ClaimedTwice
  <2>4. CASE /\ ClaimedTwice(m, FullName(m, j))
             /\ \E n \in Nat : s.name = Numbered(FullName(m, j), n)
    <3>1. PICK n \in Nat : FullName(m, i) = Numbered(FullName(m, j), n)
      BY <1>1, <2>4
    <3>2. PICK x \in 1..Len(file.mods[m].imports), y \in 1..Len(file.mods[m].imports) :
            /\ x # y /\ FullName(m, x) = FullName(m, y)
            /\ Begins(FullName(m, x).text, FullName(m, j).text)
      BY <2>4 DEF ClaimedTwice
    <3>3. FullName(m, i).text = Append(FullName(m, j).text, n)
      BY <3>1, HostText, NumberedTyped
    <3>4. Begins(FullName(m, x).text, FullName(m, i).text)
      BY <3>2, <3>3, HostText, BeginsAppended
    <3> QED BY <3>2, <3>4 DEF ClaimedTwice
  <2> QED BY <2>1, <2>3, <2>4
<1>4. CASE IsIntrinsic(m, s)
  BY <1>1, <1>4, NotIntrinsicName DEF IsIntrinsic
<1> QED BY <1>2, <1>3, <1>4 DEF SymsKnown

LEMMA TakenIntrinsic ==
  ASSUME IsParsedFile(file), SymsKnown, NEW m \in Mods, NEW v \in Intrinsics,
         IntrinsicName(v) \in Taken(m)
  PROVE  UsedSoFar(m, v)
<1>1. PICK s \in syms[m] : s.name = IntrinsicName(v)
  BY DEF Taken
<1>2. CASE IsFunction(s)
  <2>1. IntrinsicName(v).mod \in Mods
    BY <1>1, <1>2 DEF IsFunction
  <2> QED BY <2>1, FileTyped DEF IntrinsicName
<1>3. CASE IsImport(m, s)
  BY <1>1, <1>3, NotIntrinsicName DEF IsImport
<1>4. CASE IsIntrinsic(m, s)
  BY <1>1, <1>4, IntrinsicNamesDiffer DEF IsIntrinsic
<1> QED BY <1>2, <1>3, <1>4 DEF SymsKnown

(***************************************************************************)
(* What is declared and called in a step.                                  *)
(***************************************************************************)
NewImport(m, s) ==
  \E i \in 1..Len(file.mods[m].imports) :
    s.of = <<0, i>> /\ Created(m, i) = {} /\ s.name = NewName(m, FullName(m, i))

NewIntrinsic(m, s) ==
  /\ AtCall("intrinsic") /\ at' = [at EXCEPT !.k = @ + 1] /\ m = at.m
  /\ s.of = <<0, 0>> /\ s.name = NewName(m, IntrinsicName(CallAt.var))

HostedImport(b) ==
  /\ AtCall("import")
  /\ b.in = at.m /\ b.fun = at.i /\ b.call = at.k
  /\ \E i \in ImportFind(at.m, CallAt.var) :
       \/ \E s \in Created(at.m, i) : b.name = s.name
       \/ Created(at.m, i) = {} /\ b.name = NewName(at.m, FullName(at.m, i))

HostedIntrinsic(b) ==
  /\ AtCall("intrinsic")
  /\ b.in = at.m /\ b.fun = at.i /\ b.call = at.k
  /\ \/ b.name = IntrinsicName(CallAt.var)
     \/ at.m # IntrinsicModule /\ IntrinsicName(CallAt.var) \in Taken(at.m)

\* What a step adds to the LLVM modules and to the calls of the host.
Adds ==
  /\ \A m \in Mods : \A s \in syms'[m] :
       s \in syms[m] \/ IsFunction(s) \/ NewImport(m, s) \/ NewIntrinsic(m, s)
  /\ \A b \in hosted' : b \in hosted \/ HostedImport(b) \/ HostedIntrinsic(b)

LEMMA CreateAdds ==
  ASSUME LinkInv, NEW m \in Mods, NEW name, NEW of, CreateFunction(m, name, of)
  PROVE  \A x \in Mods : \A s \in syms'[x] :
           s \in syms[x] \/ (x = m /\ s.of = of /\ s.name = NewName(m, name))
<1> DEFINE new == [name |-> NewName(m, name), of |-> of]
<1>1. new.of = of /\ new.name = NewName(m, name)
  OBVIOUS
<1>2. syms' = [syms EXCEPT ![m] = @ \cup {new}]
  BY DEF CreateFunction
<1> HIDE DEF new
<1>3. \A x \in Mods : x \in Places
  BY FileTyped DEF LinkInv, ProgressInv
<1>4. \A x \in Mods : syms'[x] = IF x = m THEN syms[m] \cup {new} ELSE syms[x]
  BY <1>2, <1>3 DEF LinkInv, DeclaredInv, ShapesOK
<1> QED BY <1>1, <1>4

LEMMA PrototypeAdds ==
  ASSUME LinkInv, TypeInv, \A x \in Mods : Len(names[x]) = Len(file.mods[x].ids),
         NEW m \in Mods \cup {0}, NEW f \in Functions, CreatePrototype(m, f)
  PROVE  \A x \in Mods : \A s \in syms'[x] : s \in syms[x] \/ IsFunction(s)
<1> DEFINE new == [name |-> NewName(m, NameOf(f)), of |-> f]
<1>1. NameOf(f) \in Names /\ NameOf(f).mod \in Mods
  BY NameOfTyped
<1>2. m \in Places
  BY FileTyped DEF LinkInv, ProgressInv, Places
<1>3. NewName(m, NameOf(f)).mod \in Mods
  <2>1. NextNumber(m, NameOf(f)) \in Nat
    BY <1>1, <1>2, NumberFree DEF TypeInv, SymsFinite
  <2> QED BY <1>1, <2>1, NumberedTyped DEF NewName
<1>4. IsFunction(new)
  BY <1>3 DEF IsFunction
<1>5. syms' = [syms EXCEPT ![m] = @ \cup {new}]
  BY DEF CreatePrototype, CreateFunction
<1> HIDE DEF new
<1>6. \A x \in Mods : x \in Places
  BY FileTyped DEF LinkInv, ProgressInv
<1>7. \A x \in Mods : syms'[x] = IF x = m THEN syms[m] \cup {new} ELSE syms[x]
  BY <1>2, <1>5, <1>6 DEF LinkInv, DeclaredInv, ShapesOK
<1> QED BY <1>4, <1>7

LEMMA AddsNothing ==
  ASSUME syms' = syms, hosted' = hosted
  PROVE  Adds
BY DEF Adds

LEMMA AddsInitializeModule ==
  ASSUME LinkInv, InitializeModule
  PROVE  Adds
<1> DEFINE m   == at.m
           fns == 1..Len(names[m])
<1>1. /\ m \in Mods /\ at.i > Len(file.mods[m].ids) /\ at.i = Len(names[m]) + 1
      /\ Len(names[m]) \in Nat /\ Len(file.mods[m].ids) \in Nat
      /\ Len(names[m]) <= Len(file.mods[m].ids)
  BY WhenInitializing, FileTyped DEF InitializeModule, LinkInv, ProgressInv, NamesCounted
<1>2. /\ syms' = [syms EXCEPT ![m] = {[name |-> names[m][i], of |-> <<m, i>>] : i \in fns}]
      /\ hosted' = hosted
  BY DEF InitializeModule
<1>3. \A x \in Mods : x \in Places
  BY FileTyped DEF LinkInv, ProgressInv
<1>4. ASSUME NEW i \in fns PROVE IsFunction([name |-> names[m][i], of |-> <<m, i>>])
  <2>1. names[m][i].mod = m
    BY <1>1, NamesAre DEF LinkInv
  <2>2. <<m, i>> \in Functions
    BY <1>1, FunctionIs
  <2> QED BY <1>1, <2>1, <2>2 DEF IsFunction
<1> DEFINE D == {[name |-> names[m][i], of |-> <<m, i>>] : i \in fns}
<1>5. \A s \in D : IsFunction(s)
  BY <1>4
<1>6. syms' = [syms EXCEPT ![m] = D]
  BY <1>2
<1> HIDE DEF D, m
<1>7. \A x \in Mods : syms'[x] = IF x = m THEN D ELSE syms[x]
  BY <1>1, <1>3, <1>6 DEF LinkInv, DeclaredInv, ShapesOK
<1> QED BY <1>2, <1>5, <1>7 DEF Adds

LEMMA AddsGenerateCall ==
  ASSUME LinkInv, TypeInv, GenerateCall
  PROVE  Adds
<1>1. CASE Stop("crashed")
  BY <1>1, AddsNothing DEF Stop
<1>2. CASE ~Stop("crashed")
  <2>1. /\ at.m \in Mods /\ at.m \in Places
        /\ \A x \in Mods : Len(names[x]) = Len(file.mods[x].ids)
    BY WhenGenerating, FileTyped DEF GenerateCall, AtCall, AtFunction, LinkInv, ProgressInv
  <2>2. PICK r \in Callees : Bind(at.m, at.i, at.k, r, r.to)
    BY <1>2 DEF GenerateCall, Callees
  <2>3. hosted' = hosted
    BY <1>2 DEF GenerateCall
  <2>4. r.to \in Functions
    <3>1. CASE CallAt.var \in Ids
      <4>1. r \in LookUp(at.m, CallAt.var, CallAt.line)
        BY <2>2, <3>1 DEF Callees
      <4> QED BY <2>1, <4>1, LookUpFinds
    <3>2. CASE CallAt.var \notin Ids
      <4>1. r \in ByIndex(at.m, CallAt.var)
        BY <2>2, <3>2 DEF Callees
      <4> QED BY <2>1, <4>1, ByIndexFinds
    <3> QED BY <3>1, <3>2
  <2>5. CASE r.outside
    <3>1. CreatePrototype(at.m, r.to)
      BY <2>2, <2>5 DEF Bind
    <3> QED BY <2>1, <2>3, <2>4, <3>1, PrototypeAdds DEF Adds
  <2>6. CASE ~r.outside
    BY <2>2, <2>3, <2>6, AddsNothing DEF Bind
  <2> QED BY <2>5, <2>6
<1> QED BY <1>1, <1>2

LEMMA AddsGenerateScriptElem ==
  ASSUME LinkInv, TypeInv, GenerateScriptElem
  PROVE  Adds
<1> DEFINE elem == file.script[at.i]
<1>1. CASE Stop("crashed")
  BY <1>1, AddsNothing DEF Stop
<1>2. CASE ~Stop("crashed")
  <2>1. 0 \in Places /\ \A x \in Mods : Len(names[x]) = Len(file.mods[x].ids)
    BY WhenScripting, FileTyped DEF GenerateScriptElem, LinkInv, ProgressInv, Places
  <2>2. PICK r \in LookUp(0, elem.name, elem.line) :
          \E t \in Typing(elem, r) : Bind(0, at.i, 1, r, t)
    BY <1>2 DEF GenerateScriptElem
  <2>3. hosted' = hosted
    BY <1>2 DEF GenerateScriptElem
  <2>4. r.to \in Functions
    BY <2>1, <2>2, LookUpFinds
  <2>5. CASE r.outside
    <3>1. CreatePrototype(0, r.to)
      BY <2>2, <2>5 DEF Bind
    <3> QED BY <2>1, <2>3, <2>4, <3>1, PrototypeAdds DEF Adds
  <2>6. CASE ~r.outside
    <3>1. syms' = syms
      BY <2>2, <2>6 DEF Bind
    <3> QED BY <2>3, <3>1, AddsNothing
  <2> QED BY <2>5, <2>6
<1> QED BY <1>1, <1>2

LEMMA AddsGenerateImportCall ==
  ASSUME LinkInv, GenerateImportCall
  PROVE  Adds
<1> DEFINE m == at.m
<1>1. m \in Mods /\ AtCall("import")
  BY CallAtTyped DEF GenerateImportCall
<1>2. CASE Stop("crashed")
  BY <1>2, AddsNothing DEF Stop
<1>3. CASE ~Stop("crashed")
  <2>1. PICK i \in ImportFind(m, CallAt.var) : UseImport(m, at.i, at.k, i)
    BY <1>3 DEF GenerateImportCall
  <2>2. i \in 1..Len(file.mods[m].imports)
    BY DEF ImportFind
  <2>3. CASE Created(m, i) # {}
    <3>1. PICK s \in Created(m, i) : PrintHosted(m, at.i, at.k, s.name)
      BY <2>1, <2>3 DEF UseImport
    <3>2. syms' = syms
      BY <2>1, <2>3 DEF UseImport
    <3>3. hosted' = hosted \cup {[in |-> m, fun |-> at.i, call |-> at.k, name |-> s.name]}
      BY <3>1 DEF PrintHosted
    <3>4. HostedImport([in |-> m, fun |-> at.i, call |-> at.k, name |-> s.name])
      BY <1>1 DEF HostedImport
    <3> QED BY <3>2, <3>3, <3>4 DEF Adds
  <2>4. CASE Created(m, i) = {}
    <3> DEFINE name == NewName(m, FullName(m, i))
    <3>1. /\ PrintHosted(m, at.i, at.k, name)
          /\ CreateFunction(m, FullName(m, i), <<0, i>>)
      BY <2>1, <2>4 DEF UseImport
    <3>2. hosted' = hosted \cup {[in |-> m, fun |-> at.i, call |-> at.k, name |-> name]}
      BY <3>1 DEF PrintHosted
    <3>3. HostedImport([in |-> m, fun |-> at.i, call |-> at.k, name |-> name])
      BY <1>1, <2>4 DEF HostedImport
    <3>4. \A x \in Mods : \A s \in syms'[x] :
            s \in syms[x] \/ (x = m /\ s.of = <<0, i>> /\ s.name = name)
      BY <1>1, <3>1, CreateAdds
    <3>5. \A x \in Mods : \A s \in syms'[x] : s \in syms[x] \/ NewImport(x, s)
      BY <2>2, <2>4, <3>4 DEF NewImport
    <3> QED BY <3>2, <3>3, <3>5 DEF Adds
  <2> QED BY <2>3, <2>4
<1> QED BY <1>2, <1>3

LEMMA AddsGenerateIntrinsicCall ==
  ASSUME LinkInv, GenerateIntrinsicCall
  PROVE  Adds
<1> DEFINE m    == at.m
           full == IntrinsicName(CallAt.var)
<1>1. m \in Mods /\ AtCall("intrinsic") /\ at' = [at EXCEPT !.k = @ + 1]
  BY CallAtTyped DEF GenerateIntrinsicCall
<1>2. UseIntrinsic(m, at.i, at.k, CallAt.var)
  BY DEF GenerateIntrinsicCall
<1>3. CASE m = IntrinsicModule /\ full \in Taken(m)
  <2>1. PrintHosted(m, at.i, at.k, full) /\ syms' = syms
    BY <1>2, <1>3 DEF UseIntrinsic
  <2>2. hosted' = hosted \cup {[in |-> m, fun |-> at.i, call |-> at.k, name |-> full]}
    BY <2>1 DEF PrintHosted
  <2>3. HostedIntrinsic([in |-> m, fun |-> at.i, call |-> at.k, name |-> full])
    BY <1>1 DEF HostedIntrinsic
  <2> QED BY <2>1, <2>2, <2>3 DEF Adds
<1>4. CASE ~(m = IntrinsicModule /\ full \in Taken(m))
  <2> DEFINE name == NewName(m, full)
  <2>1. PrintHosted(m, at.i, at.k, name) /\ CreateFunction(m, full, <<0, 0>>)
    BY <1>2, <1>4 DEF UseIntrinsic
  <2>2. hosted' = hosted \cup {[in |-> m, fun |-> at.i, call |-> at.k, name |-> name]}
    BY <2>1 DEF PrintHosted
  <2>3. name = full \/ (m # IntrinsicModule /\ full \in Taken(m))
    BY <1>4 DEF NewName
  <2>4. \A x \in Mods : \A s \in syms'[x] :
          s \in syms[x] \/ (x = m /\ s.of = <<0, 0>> /\ s.name = name)
    BY <1>1, <2>1, CreateAdds
  <2>5. \A x \in Mods : \A s \in syms'[x] : s \in syms[x] \/ NewIntrinsic(x, s)
    BY <1>1, <2>4 DEF NewIntrinsic
  <2> HIDE DEF name
  <2>6. HostedIntrinsic([in |-> m, fun |-> at.i, call |-> at.k, name |-> name])
    BY <1>1, <2>3 DEF HostedIntrinsic
  <2> QED BY <2>2, <2>5, <2>6 DEF Adds
<1> QED BY <1>3, <1>4

LEMMA AddsByStep ==
  ASSUME LinkInv, TypeInv, [Next]_vars
  PROVE  Adds
<1>1. CASE InitializeModule
  BY <1>1, AddsInitializeModule
<1>2. CASE GenerateCall
  BY <1>2, AddsGenerateCall
<1>3. CASE GenerateImportCall
  BY <1>3, AddsGenerateImportCall
<1>4. CASE GenerateIntrinsicCall
  BY <1>4, AddsGenerateIntrinsicCall
<1>5. CASE GenerateScriptElem
  BY <1>5, AddsGenerateScriptElem
<1>6. CASE MangleNext
  BY <1>6, AddsNothing DEF MangleNext, Stop
<1>7. CASE FunctionGenerated
  BY <1>7, AddsNothing DEF FunctionGenerated, Stop
<1>8. CASE ModuleGenerated
  BY <1>8, AddsNothing DEF ModuleGenerated, Stop
<1>9. CASE ScriptGenerated
  BY <1>9, AddsNothing DEF ScriptGenerated, Stop
<1>10. CASE Terminated \/ UNCHANGED vars
  BY <1>10, AddsNothing DEF Terminated, vars
<1> QED BY <1>1, <1>2, <1>3, <1>4, <1>5, <1>6, <1>7, <1>8, <1>9, <1>10 DEF Next, Step

(***************************************************************************)
(* The compiler does not go back, so what it has passed stays passed.      *)
(***************************************************************************)
LEMMA PassedKept ==
  ASSUME LinkInv, [Next]_vars, NEW m \in Mods, NEW i \in Nat, NEW k \in Nat, Passed(m, i, k)
  PROVE  Passed(m, i, k)'
<1>1. at.step # "initialize" /\ m \in Nat
  BY FileTyped DEF Passed, LinkInv, ProgressInv
<1>2. at \in [step : Steps, m : Nat, i : Nat, k : Nat]
  BY DEF LinkInv, NamesInv, PlaceOK
<1>3. CASE \E step \in {"done", "crashed", "rejected"} : Stop(step)
  BY <1>2, <1>3 DEF Stop, Passed
<1>4. CASE at.step = "generate" /\ at' = [at EXCEPT !.k = @ + 1]
  BY <1>1, <1>2, <1>4 DEF Passed
<1>5. CASE at.step = "generate" /\ at' = At("generate", at.m, at.i + 1, 1)
  BY <1>1, <1>2, <1>5 DEF Passed, At
<1>6. CASE /\ at.step = "generate"
           /\ at' = IF at.m > 1 THEN At("generate", at.m - 1, 1, 1) ELSE At("script", 0, 1, 1)
  BY <1>1, <1>2, <1>6 DEF Passed, At
<1>7. CASE at.step = "script" /\ at' = [at EXCEPT !.i = @ + 1]
  BY <1>2, <1>7 DEF Passed
<1>8. CASE at' = at
  BY <1>8 DEF Passed
<1>9. CASE GenerateCall \/ GenerateImportCall \/ GenerateIntrinsicCall
  <2>1. at.step = "generate" /\ (Stop("crashed") \/ at' = [at EXCEPT !.k = @ + 1])
    BY <1>9 DEF GenerateCall, GenerateImportCall, GenerateIntrinsicCall, AtCall, AtFunction
  <2> QED BY <1>3, <1>4, <2>1
<1>10. CASE FunctionGenerated
  <2>1. at.step = "generate" /\ (Stop("rejected") \/ at' = At("generate", at.m, at.i + 1, 1))
    BY <1>10 DEF FunctionGenerated, AtFunction
  <2> QED BY <1>3, <1>5, <2>1
<1>11. CASE ModuleGenerated
  <2>1. /\ at.step = "generate"
        /\ \/ Stop("crashed")
           \/ at' = IF at.m > 1 THEN At("generate", at.m - 1, 1, 1) ELSE At("script", 0, 1, 1)
    BY <1>11 DEF ModuleGenerated
  <2> QED BY <1>3, <1>6, <2>1
<1>12. CASE GenerateScriptElem \/ ScriptGenerated
  <2>1. /\ at.step = "script"
        /\ \/ Stop("crashed") \/ Stop("done")
           \/ at' = [at EXCEPT !.i = @ + 1]
    BY <1>12 DEF GenerateScriptElem, ScriptGenerated
  <2> QED BY <1>3, <1>7, <2>1
<1>13. CASE Terminated \/ UNCHANGED vars
  BY <1>8, <1>13 DEF Terminated, vars
<1> QED BY <1>1, <1>9, <1>10, <1>11, <1>12, <1>13
        DEF Next, Step, MangleNext, InitializeModule

LEMMA UsedAfter ==
  ASSUME NEW m, NEW i \in 1..Len(file.mods[m].ids), NEW k \in 1..Len(BodyOf(m, i)), NEW v,
         UsesIntrinsic(m, i, k, v), Passed(m, i, k)', file' = file
  PROVE  UsedSoFar(m, v)'
<1>1. UsesIntrinsic(m, i, k, v)'
  BY DEF UsesIntrinsic, BodyOf
<1>2. BodyOf(m, i)' = BodyOf(m, i)
  BY DEF BodyOf
<1> QED BY <1>1, <1>2 DEF UsedSoFar

LEMMA UsedKept ==
  ASSUME LinkInv, [Next]_vars, file' = file, NEW m \in Mods, NEW v, UsedSoFar(m, v)
  PROVE  UsedSoFar(m, v)'
<1>1. PICK i \in 1..Len(file.mods[m].ids) :
        \E k \in 1..Len(BodyOf(m, i)) : Passed(m, i, k) /\ UsesIntrinsic(m, i, k, v)
  BY DEF UsedSoFar
<1>2. PICK k \in 1..Len(BodyOf(m, i)) : Passed(m, i, k) /\ UsesIntrinsic(m, i, k, v)
  BY <1>1
<1>3. i \in Nat /\ k \in Nat
  BY FileTyped, BodyTyped DEF LinkInv, ProgressInv
<1>4. Passed(m, i, k)'
  BY <1>2, <1>3, PassedKept
<1> QED BY <1>2, <1>4, UsedAfter

LEMMA UsedNow ==
  ASSUME LinkInv, AtCall("intrinsic"), at' = [at EXCEPT !.k = @ + 1], file' = file,
         NEW m, m = at.m, NEW v, v = CallAt.var
  PROVE  v \in Intrinsics /\ UsedSoFar(m, v)'
<1>1. /\ at.m \in Mods /\ at.i \in 1..Len(file.mods[at.m].ids)
      /\ at.k \in 1..Len(BodyOf(at.m, at.i))
      /\ CallAt \in Calls /\ CallAt.kind = "intrinsic"
  BY CallAtTyped
<1>2. v \in Intrinsics
  BY <1>1, IntrinsicTyped
<1>3. at \in [step : Steps, m : Nat, i : Nat, k : Nat] /\ at.step = "generate"
  BY DEF LinkInv, NamesInv, PlaceOK, AtCall, AtFunction
<1>4. PICK i \in 1..Len(file.mods[m].ids) : i = at.i
  BY <1>1
<1>5. PICK k \in 1..Len(BodyOf(m, i)) : k = at.k
  BY <1>1, <1>4
<1>6. i \in Nat /\ k \in Nat /\ m \in Nat
  BY <1>3, <1>4, <1>5
<1>7. UsesIntrinsic(m, i, k, v)
  BY <1>1, <1>4, <1>5 DEF UsesIntrinsic, CallAt
<1>8. at'.step = "generate" /\ at'.m = m /\ at'.i = i /\ at'.k = k + 1
  BY <1>3, <1>4, <1>5
<1>9. Passed(m, i, k)'
  BY <1>6, <1>8 DEF Passed
<1> QED BY <1>2, <1>7, <1>9, UsedAfter

(***************************************************************************)
(* What is declared stays known, and what is new is, too.                  *)
(***************************************************************************)
LEMMA HostsSame ==
  ASSUME file' = file
  PROVE  /\ Functions' = Functions
         /\ \A s : IsFunction(s)' = IsFunction(s)
         /\ \A m, s : IsImport(m, s)' = IsImport(m, s)
         /\ \A m : RepeatsIntrinsic(m)' = RepeatsIntrinsic(m)
         /\ \A m, i : FullName(m, i)' = FullName(m, i)
         /\ \A m, name : ClaimedTwice(m, name)' = ClaimedTwice(m, name)
         /\ \A m, v : ImportFind(m, v)' = ImportFind(m, v)
<1>1. \A m, i : FullName(m, i)' = FullName(m, i)
  BY DEF FullName
<1>2. \A m, name : ClaimedTwice(m, name)' = ClaimedTwice(m, name)
  BY DEF ClaimedTwice, FullName
<1>3. Functions' = Functions /\ \A s : IsFunction(s)' = IsFunction(s)
  BY DEF IsFunction, Functions, Mods
<1>4. \A m, s : IsImport(m, s)' = IsImport(m, s)
  BY DEF IsImport, ClaimedTwice, FullName
<1>5. \A m : RepeatsIntrinsic(m)' = RepeatsIntrinsic(m)
  BY DEF RepeatsIntrinsic, UsedTwice, UsesIntrinsic, BodyOf
<1>6. \A m, v : ImportFind(m, v)' = ImportFind(m, v)
  BY DEF ImportFind
<1> QED BY <1>1, <1>2, <1>3, <1>4, <1>5, <1>6

LEMMA NewNameIs ==
  ASSUME LinkInv, TypeInv, NEW m \in Mods, NEW name \in Names
  PROVE  NewName(m, name) = name
         \/ (name \in Taken(m) /\ \E n \in Nat : NewName(m, name) = Numbered(name, n))
<1>1. m \in Places
  BY FileTyped DEF LinkInv, ProgressInv
<1>2. NextNumber(m, name) \in Nat
  BY <1>1, NumberFree DEF TypeInv, SymsFinite
<1> QED BY <1>2 DEF NewName

LEMMA NewImportKnown ==
  ASSUME LinkInv, TypeInv, SymsKnown, NEW m \in Mods, NEW s, NewImport(m, s)
  PROVE  IsImport(m, s)
<1>1. PICK i \in 1..Len(file.mods[m].imports) :
        s.of = <<0, i>> /\ Created(m, i) = {} /\ s.name = NewName(m, FullName(m, i))
  BY DEF NewImport
<1>2. IsParsedFile(file)
  BY DEF LinkInv, ProgressInv
<1>3. FullName(m, i) \in Names
  BY <1>2, HostText
<1>4. CASE NewName(m, FullName(m, i)) = FullName(m, i)
  BY <1>1, <1>4 DEF IsImport
<1>5. CASE FullName(m, i) \in Taken(m)
           /\ \E n \in Nat : NewName(m, FullName(m, i)) = Numbered(FullName(m, i), n)
  <2>1. ClaimedTwice(m, FullName(m, i))
    BY <1>1, <1>2, <1>5, TakenFull
  <2> QED BY <1>1, <1>5, <2>1 DEF IsImport
<1> QED BY <1>3, <1>4, <1>5, NewNameIs

LEMMA NewIntrinsicKnown ==
  ASSUME LinkInv, TypeInv, file' = file, NEW m \in Mods, NEW s, NewIntrinsic(m, s)
  PROVE  IsIntrinsic(m, s)'
<1>1. /\ AtCall("intrinsic") /\ at' = [at EXCEPT !.k = @ + 1] /\ m = at.m
      /\ s.of = <<0, 0>> /\ s.name = NewName(m, IntrinsicName(CallAt.var))
  BY DEF NewIntrinsic
<1>2. CallAt.var \in Intrinsics
  BY <1>1, UsedNow
<1>3. PICK v \in Intrinsics : v = CallAt.var
  BY <1>2
<1>4. UsedSoFar(m, v)'
  BY <1>1, <1>3, UsedNow
<1>5. IntrinsicName(v) \in Names
  BY IntrinsicNameTyped
<1>6. s.name = IntrinsicName(v) \/ \E n \in Nat : s.name = Numbered(IntrinsicName(v), n)
  BY <1>1, <1>3, <1>5, NewNameIs
<1> QED BY <1>1, <1>4, <1>6 DEF IsIntrinsic

LEMMA IntrinsicKept ==
  ASSUME LinkInv, [Next]_vars, file' = file, NEW m \in Mods, NEW s, IsIntrinsic(m, s)
  PROVE  IsIntrinsic(m, s)'
<1>1. PICK v \in Intrinsics :
        /\ UsedSoFar(m, v)
        /\ s.name = IntrinsicName(v) \/ \E n \in Nat : s.name = Numbered(IntrinsicName(v), n)
  BY DEF IsIntrinsic
<1>2. UsedSoFar(m, v)'
  BY <1>1, UsedKept
<1> QED BY <1>1, <1>2 DEF IsIntrinsic

LEMMA SymsNext ==
  ASSUME LinkInv, TypeInv, SymsKnown, [Next]_vars
  PROVE  SymsKnown'
<1>1. file' = file
  BY BoundByStep
<1>2. Adds
  BY AddsByStep
<1>3. ASSUME NEW m \in Mods, NEW s \in syms'[m]
      PROVE  IsFunction(s) \/ IsImport(m, s) \/ IsIntrinsic(m, s)'
  <2>1. CASE s \in syms[m]
    BY <1>1, <2>1, IntrinsicKept DEF SymsKnown
  <2>2. CASE NewImport(m, s)
    BY <2>2, NewImportKnown
  <2>3. CASE NewIntrinsic(m, s)
    BY <1>1, <2>3, NewIntrinsicKnown
  <2> QED BY <1>2, <2>1, <2>2, <2>3 DEF Adds
<1>4. \A s : IsFunction(s)' = IsFunction(s)
  BY <1>1, HostsSame
<1>5. \A m, s : IsImport(m, s)' = IsImport(m, s)
  BY <1>1, HostsSame
<1>6. Mods' = Mods
  BY <1>1 DEF Mods
<1> QED BY <1>3, <1>4, <1>5, <1>6 DEF SymsKnown

(***************************************************************************)
(* The calls of the host and of intrinsics.                                *)
(***************************************************************************)
LEMMA RepeatedNow ==
  ASSUME LinkInv, AtCall("intrinsic"), UsedSoFar(at.m, CallAt.var), at.m # IntrinsicModule
  PROVE  RepeatsIntrinsic(at.m)
<1> DEFINE m == at.m
           v == CallAt.var
<1>1. /\ m \in Mods /\ at.i \in 1..Len(file.mods[m].ids) /\ at.k \in 1..Len(BodyOf(m, at.i))
      /\ CallAt \in Calls /\ CallAt.kind = "intrinsic"
  BY CallAtTyped
<1>2. v \in Intrinsics
  BY <1>1, IntrinsicTyped
<1>3. Len(file.mods[m].calls) = Len(file.mods[m].ids)
  BY <1>1, FileTyped DEF LinkInv, ProgressInv
<1>4. at \in [step : Steps, m : Nat, i : Nat, k : Nat] /\ at.step = "generate"
  BY DEF LinkInv, NamesInv, PlaceOK, AtCall, AtFunction
<1>5. UsesIntrinsic(m, at.i, at.k, v)
  BY <1>1 DEF UsesIntrinsic, CallAt
<1>6. PICK i \in 1..Len(file.mods[m].ids) :
        \E k \in 1..Len(BodyOf(m, i)) : Passed(m, i, k) /\ UsesIntrinsic(m, i, k, v)
  BY DEF UsedSoFar
<1>7. PICK k \in 1..Len(BodyOf(m, i)) : Passed(m, i, k) /\ UsesIntrinsic(m, i, k, v)
  BY <1>6
<1>8. i # at.i \/ k # at.k
  <2>1. i < at.i \/ (i = at.i /\ k < at.k)
    BY <1>4, <1>7 DEF Passed
  <2> QED BY <1>4, <2>1
<1>9. <<i, k>> # <<at.i, at.k>>
  BY <1>8
<1>10. UsedTwice(m, v)
  BY <1>1, <1>3, <1>5, <1>7, <1>9 DEF UsedTwice
<1> QED BY <1>2, <1>10 DEF RepeatsIntrinsic, IntrinsicModule

LEMMA HostedImportKnown ==
  ASSUME LinkInv, TypeInv, SymsKnown, NEW b, HostedImport(b)
  PROVE  \E i \in ImportFind(at.m, CallAt.var) :
           b.name = FullName(at.m, i) \/ ClaimedTwice(at.m, FullName(at.m, i))
<1> DEFINE m == at.m
<1>1. m \in Mods
  BY CallAtTyped DEF HostedImport
<1>2. PICK i \in ImportFind(m, CallAt.var) :
        \/ \E s \in Created(m, i) : b.name = s.name
        \/ Created(m, i) = {} /\ b.name = NewName(m, FullName(m, i))
  BY DEF HostedImport
<1>3. i \in 1..Len(file.mods[m].imports) /\ IsParsedFile(file)
  BY DEF ImportFind, LinkInv, ProgressInv
<1>4. CASE \E s \in Created(m, i) : b.name = s.name
  <2>1. PICK s \in syms[m] : s.of = <<0, i>> /\ b.name = s.name
    BY <1>4 DEF Created
  <2>2. ~IsFunction(s)
    <3> SUFFICES ASSUME s.of \in Functions PROVE FALSE
      BY DEF IsFunction
    <3>1. PICK x \in Mods : \E y \in 1..Len(file.mods[x].ids) : s.of = <<x, y>>
      BY FunctionOf
    <3>2. x = 0
      BY <2>1, <3>1
    <3> QED BY <1>3, <3>2, FileTyped
  <2>3. ~IsIntrinsic(m, s)
    <3>1. i # 0
      BY <1>3
    <3> QED BY <2>1, <3>1 DEF IsIntrinsic
  <2>4. IsImport(m, s)
    BY <1>1, <2>2, <2>3 DEF SymsKnown
  <2>5. PICK j \in 1..Len(file.mods[m].imports) :
          /\ s.of = <<0, j>>
          /\ \/ s.name = FullName(m, j)
             \/ ClaimedTwice(m, FullName(m, j))
    BY <2>4 DEF IsImport
  <2>6. j = i
    BY <2>1, <2>5
  <2> QED BY <2>1, <2>5, <2>6
<1>5. CASE Created(m, i) = {} /\ b.name = NewName(m, FullName(m, i))
  <2>1. CASE FullName(m, i) \in Taken(m)
    BY <1>1, <1>3, <1>5, <2>1, TakenFull
  <2>2. CASE FullName(m, i) \notin Taken(m)
    BY <1>5, <2>2 DEF NewName
  <2> QED BY <2>1, <2>2
<1> QED BY <1>2, <1>4, <1>5

LEMMA HostedNext ==
  ASSUME LinkInv, TypeInv, SymsKnown, HostedKnown, [Next]_vars
  PROVE  HostedKnown'
<1>1. file' = file
  BY BoundByStep
<1>2. Adds /\ IsParsedFile(file)
  BY AddsByStep DEF LinkInv, ProgressInv
<1>3. ASSUME NEW b \in hosted'
      PROVE  /\ b.in \in Mods /\ b.fun \in 1..Len(file.mods[b.in].ids)
             /\ b.call \in 1..Len(BodyOf(b.in, b.fun))
             /\ IF BodyOf(b.in, b.fun)[b.call].kind = "intrinsic"
                THEN b.name = IntrinsicName(Called(b)) \/ RepeatsIntrinsic(b.in)
                ELSE \E i \in ImportFind(b.in, Called(b)) :
                       b.name = FullName(b.in, i) \/ ClaimedTwice(b.in, FullName(b.in, i))
  <2>1. CASE b \in hosted
    BY <2>1 DEF HostedKnown
  <2>2. CASE HostedImport(b)
    <3>1. /\ at.m \in Mods /\ at.i \in 1..Len(file.mods[at.m].ids)
          /\ at.k \in 1..Len(BodyOf(at.m, at.i)) /\ CallAt.kind = "import"
      BY <2>2, CallAtTyped DEF HostedImport
    <3>2. b.in = at.m /\ b.fun = at.i /\ b.call = at.k
      BY <2>2 DEF HostedImport
    <3>3. Called(b) = CallAt.var /\ BodyOf(b.in, b.fun)[b.call].kind = "import"
      BY <3>1, <3>2 DEF Called, CallAt
    <3>4. \E i \in ImportFind(at.m, CallAt.var) :
            b.name = FullName(at.m, i) \/ ClaimedTwice(at.m, FullName(at.m, i))
      BY <2>2, HostedImportKnown
    <3> QED BY <3>1, <3>2, <3>3, <3>4
  <2>3. CASE HostedIntrinsic(b)
    <3>1. /\ at.m \in Mods /\ at.i \in 1..Len(file.mods[at.m].ids)
          /\ at.k \in 1..Len(BodyOf(at.m, at.i)) /\ CallAt.kind = "intrinsic"
          /\ CallAt.var \in Intrinsics
      BY <2>3, CallAtTyped, IntrinsicTyped DEF HostedIntrinsic
    <3>2. b.in = at.m /\ b.fun = at.i /\ b.call = at.k
      BY <2>3 DEF HostedIntrinsic
    <3>3. Called(b) = CallAt.var /\ BodyOf(b.in, b.fun)[b.call].kind = "intrinsic"
      BY <3>1, <3>2 DEF Called, CallAt
    <3>4. b.name = IntrinsicName(CallAt.var) \/ RepeatsIntrinsic(at.m)
      <4>1. CASE at.m # IntrinsicModule /\ IntrinsicName(CallAt.var) \in Taken(at.m)
        BY <1>2, <2>3, <3>1, <4>1, TakenIntrinsic, RepeatedNow DEF HostedIntrinsic
      <4> QED BY <2>3, <4>1 DEF HostedIntrinsic
    <3> QED BY <3>1, <3>2, <3>3, <3>4
  <2> QED BY <1>2, <2>1, <2>2, <2>3 DEF Adds
<1>4. \A m : RepeatsIntrinsic(m)' = RepeatsIntrinsic(m)
  BY <1>1, HostsSame
<1>5. \A m, i : FullName(m, i)' = FullName(m, i) /\ BodyOf(m, i)' = BodyOf(m, i)
  BY <1>1 DEF FullName, BodyOf
<1>6. Mods' = Mods /\ \A b : Called(b)' = Called(b)
  BY <1>1, FileSame
<1>7. ASSUME NEW b
      PROVE  (\E i \in ImportFind(b.in, Called(b)) :
                b.name = FullName(b.in, i) \/ ClaimedTwice(b.in, FullName(b.in, i)))'
             = \E i \in ImportFind(b.in, Called(b)) :
                 b.name = FullName(b.in, i) \/ ClaimedTwice(b.in, FullName(b.in, i))
  BY <1>1 DEF ImportFind, Called, BodyOf, FullName, ClaimedTwice
<1> QED BY <1>1, <1>3, <1>4, <1>5, <1>6, <1>7 DEF HostedKnown

LEMMA HostsInit == Init => SymsKnown /\ HostedKnown
<1> SUFFICES ASSUME Init PROVE SymsKnown /\ HostedKnown
  OBVIOUS
<1>1. syms = [m \in 0..Len(file.mods) |-> {}] /\ hosted = {} /\ IsParsedFile(file)
  BY DEF Init
<1>2. \A m \in Mods : syms[m] = {}
  BY <1>1, FileTyped DEF Places
<1> QED BY <1>1, <1>2 DEF SymsKnown, HostedKnown

LEMMA HostsAlways == Spec => [](LinkInv /\ TypeInv /\ SymsKnown /\ HostedKnown)
<1>1. LinkInv /\ TypeInv /\ SymsKnown /\ HostedKnown /\ [Next]_vars => (SymsKnown /\ HostedKnown)'
  BY SymsNext, HostedNext
<1> QED BY <1>1, HostsInit, LinkAlways, PTL DEF Spec

LEMMA HostedKnownByName == HostedKnown => HostedByName
<1> SUFFICES ASSUME HostedKnown, NEW b \in hosted, ~ImportedTwice(b), ~RepeatsIntrinsic(b.in)
             PROVE  b.name \in HostsMeant(b)
  BY DEF HostedByName
<1>1. CASE BodyOf(b.in, b.fun)[b.call].kind = "intrinsic"
  BY <1>1 DEF HostedKnown, HostsMeant
<1>2. CASE BodyOf(b.in, b.fun)[b.call].kind # "intrinsic"
  <2>1. PICK i \in ImportFind(b.in, Called(b)) :
          b.name = FullName(b.in, i) \/ ClaimedTwice(b.in, FullName(b.in, i))
    BY <1>2 DEF HostedKnown
  <2>2. i \in ImportMeant(b.in, Called(b))
    BY DEF ImportFind, ImportMeant
  <2>3. FullName(b.in, i) \in HostsMeant(b)
    BY <1>2, <2>2 DEF HostsMeant
  <2> QED BY <2>1, <2>3 DEF ImportedTwice
<1> QED BY <1>1, <1>2

(***************************************************************************)
(* In a module that does not use an intrinsic twice, or is the intrinsic   *)
(* module, a call of a function of the host or of an intrinsic is printed  *)
(* with the name WasmImportFunction::GetFunction or GetOrCreateIntrinsic   *)
(* asks for, unless two imports have a claim to it: the prototypes of the  *)
(* functions of the text, which have mangled names, take none of these.    *)
(***************************************************************************)
THEOREM HostsKeepNames == Spec => []HostedByName
BY HostsAlways, HostedKnownByName, PTL

-----------------------------------------------------------------------------
(***************************************************************************)
(* A valid file is linked: nothing that can stop the compiler happens.     *)
(***************************************************************************)
Linkable ==
  ValidFile /\ \A m \in Mods : ~CallsUsedAbove(m) /\ ~RepeatsIntrinsic(m) /\ ~CallsStray(m)

LEMMA MangleSucceeds ==
  ASSUME LinkInv, Linkable, MangleNext
  PROVE  at'.step = at.step
<1> DEFINE m  == at.m
           id == file.mods[m].ids[at.i]
<1>1. /\ m \in Mods /\ at.i = Len(names[m]) + 1 /\ at.i <= Len(file.mods[m].ids)
      /\ Len(names[m]) \in Nat /\ Len(file.mods[m].ids) \in Nat
  BY WhenInitializing, FileTyped DEF MangleNext, LinkInv, ProgressInv
<1>2. DistinctIn(file.mods[m].ids)
  BY <1>1 DEF Linkable, ValidFile, ValidModule
<1>3. ASSUME NEW r \in Registered(m) PROVE r.id # id
  <2>1. PICK x \in 1..Len(names[m]) : r = [id |-> file.mods[m].ids[x], name |-> names[m][x]]
    BY DEF Registered
  <2>2. r.id = file.mods[m].ids[x] /\ x \in 1..Len(file.mods[m].ids) /\ x # at.i
        /\ at.i \in 1..Len(file.mods[m].ids)
    BY <1>1, <2>1
  <2> QED BY <1>2, <2>2 DEF DistinctIn
<1>4. at' = [at EXCEPT !.i = @ + 1]
  BY <1>3 DEF MangleNext
<1> QED BY <1>4 DEF LinkInv, NamesInv, PlaceOK

LEMMA CallSucceeds ==
  ASSUME LinkInv, Linkable, GenerateCall
  PROVE  at'.step = at.step
<1>1. /\ at.m \in Mods /\ at.i \in 1..Len(file.mods[at.m].ids)
      /\ at.k \in 1..Len(BodyOf(at.m, at.i)) /\ CallAt.kind = "call" /\ at.step = "generate"
  BY CallAtTyped DEF GenerateCall, AtCall, AtFunction
<1>2. at.i \in 1..Len(file.mods[at.m].calls)
  BY <1>1, FileTyped DEF LinkInv, ProgressInv
<1>3. Meant(at.m, CallAt.var) # {}
  <2>1. ValidModule(at.m)
    BY <1>1 DEF Linkable, ValidFile
  <2> QED BY <1>1, <1>2, <2>1 DEF ValidModule, CallAt, BodyOf
<1>4. Callees # {}
  <2>1. CASE CallAt.var \in Ids
    <3>1. ~UsedAbove(at.m, CallAt.var)
      BY <1>1, <1>2, <2>1 DEF Linkable, CallsUsedAbove, CallAt
    <3> QED BY <1>1, <1>3, <2>1, <3>1, UnsharedLookUp DEF Callees, Linkable
  <2>2. CASE CallAt.var \notin Ids
    BY <1>1, <1>3, <2>2, IndexLookUp DEF Callees
  <2> QED BY <2>1, <2>2
<1>5. at' = [at EXCEPT !.k = @ + 1]
  BY <1>4 DEF GenerateCall, Callees
<1> QED BY <1>5 DEF LinkInv, NamesInv, PlaceOK

LEMMA ImportFound ==
  ASSUME IsParsedFile(file), NEW m \in Mods, ValidModule(m), NEW v, ImportMeant(m, v) # {}
  PROVE  \E i \in ImportFind(m, v) : Populates(m, i) /\ i \in ImportMeant(m, v)
<1> DEFINE imports == file.mods[m].imports
           ids     == [x \in 1..Len(imports) |-> imports[x].id]
<1>1. PICK i \in 1..Len(imports) : IF v \in Ids THEN imports[i].id = v ELSE i = v + 1
  BY DEF ImportMeant
<1>2. Len(imports) \in Nat
  BY FileTyped
<1>3. Len(ids) = Len(imports)
  BY <1>2
<1>4. DistinctIn(ids)
  BY DEF ValidModule
<1>5. ASSUME NEW j \in (i + 1)..Len(imports) PROVE imports[j].id # imports[i].id
  <2>1. j \in 1..Len(imports) /\ j # i
    BY <1>2
  <2> QED BY <1>3, <1>4, <2>1 DEF DistinctIn
<1>6. i \in ImportFind(m, v)
  BY <1>1, <1>5 DEF ImportFind
<1>7. Populates(m, i)
  BY DEF Populates, ValidModule
<1>8. i \in ImportMeant(m, v)
  BY <1>1 DEF ImportMeant
<1> QED BY <1>6, <1>7, <1>8

LEMMA ImportCallSucceeds ==
  ASSUME LinkInv, Linkable, GenerateImportCall
  PROVE  at'.step = at.step
<1>1. /\ at.m \in Mods /\ at.i \in 1..Len(file.mods[at.m].ids)
      /\ at.k \in 1..Len(BodyOf(at.m, at.i)) /\ CallAt.kind = "import"
  BY CallAtTyped DEF GenerateImportCall
<1>2. at.i \in 1..Len(file.mods[at.m].calls)
  BY <1>1, FileTyped DEF LinkInv, ProgressInv
<1>3. ValidModule(at.m)
  BY <1>1 DEF Linkable, ValidFile
<1>4. ImportMeant(at.m, CallAt.var) # {}
  BY <1>1, <1>2, <1>3 DEF ValidModule, CallAt, BodyOf
<1>5. PICK i \in ImportFind(at.m, CallAt.var) :
        Populates(at.m, i) /\ i \in ImportMeant(at.m, CallAt.var)
  BY <1>1, <1>3, <1>4, ImportFound DEF LinkInv, ProgressInv
<1>6. ~file.mods[at.m].imports[i].stray
  BY <1>1, <1>2, <1>5 DEF Linkable, CallsStray, CallAt
<1>7. Usable(at.m, i)
  BY <1>5, <1>6 DEF Usable
<1>8. at' = [at EXCEPT !.k = @ + 1]
  BY <1>5, <1>7 DEF GenerateImportCall
<1> QED BY <1>8 DEF LinkInv, NamesInv, PlaceOK

LEMMA FunctionSucceeds ==
  ASSUME LinkInv, BoundPlaced, UnsharedBindOwn, HostedKnown, Linkable, FunctionGenerated
  PROVE  at'.step = at.step
<1> DEFINE m == at.m
           i == at.i
<1>1. m \in Mods /\ at.step = "generate"
  BY WhenGenerating DEF FunctionGenerated, AtFunction, LinkInv
<1>2. ~CallsForeign(m, i)
  <2> SUFFICES ASSUME NEW b \in bound, b.in = m, b.fun = i PROVE b.to[1] = m
    BY DEF CallsForeign
  <2>1. /\ b.fun \in 1..Len(file.mods[m].ids) /\ b.call \in 1..Len(BodyOf(m, b.fun))
        /\ BodyOf(m, b.fun)[b.call].kind = "call"
    BY <1>1 DEF BoundPlaced
  <2>2. b.fun \in 1..Len(file.mods[m].calls)
    BY <1>1, <2>1, FileTyped DEF LinkInv, ProgressInv
  <2>3. ~(Called(b) \in Ids /\ UsedAbove(m, Called(b)))
    BY <1>1, <2>1, <2>2 DEF Linkable, CallsUsedAbove, Called
  <2>4. b.to \in Meant(m, Called(b))
    BY <1>1, <2>3 DEF UnsharedBindOwn, BindsOwn, Linkable
  <2> QED BY <2>4 DEF Meant
<1>3. ~CallsRenamed(m, i)
  BY <1>1 DEF CallsRenamed, HostedKnown, Called, Linkable
<1>4. at' = At("generate", m, i + 1, 1)
  BY <1>2, <1>3 DEF FunctionGenerated
<1> QED BY <1>1, <1>4 DEF At

LEMMA ModuleSucceeds ==
  ASSUME LinkInv, Linkable, ModuleGenerated
  PROVE  at'.step \in {"generate", "script"}
<1> DEFINE m == at.m
<1>1. m \in Mods /\ m \in Nat /\ at.step = "generate"
  BY WhenGenerating DEF ModuleGenerated, LinkInv
<1>2. HasInternal(m)
  BY <1>1, InternalNow DEF Internal, LinkInv
<1>3. ASSUME NEW x \in 1..Len(file.mods[m].exports)
      PROVE  ExportFind(m, file.mods[m].exports[x]) # {}
  <2>1. Meant(m, file.mods[m].exports[x].var) # {}
    BY <1>1 DEF Linkable, ValidFile, ValidModule
  <2> QED BY <1>1, <1>2, <2>1, InternalExports DEF LinkInv
<1>4. at' = IF m > 1 THEN At("generate", m - 1, 1, 1) ELSE At("script", 0, 1, 1)
  BY <1>3 DEF ModuleGenerated
<1> QED BY <1>4 DEF At

LEMMA ElemSucceeds ==
  ASSUME LinkInv, Linkable, GenerateScriptElem
  PROVE  at'.step = at.step
<1> DEFINE elem == file.script[at.i]
<1>1. at.step = "script" /\ at.i \in 1..Len(file.script)
  <2>1. at.step = "script" /\ at.i <= Len(file.script)
    BY DEF GenerateScriptElem
  <2>2. at.i \in 1..(Len(file.script) + 1) /\ Len(file.script) \in Nat
    BY <2>1, WhenScripting, FileTyped DEF LinkInv, ProgressInv
  <2> QED BY <2>1, <2>2
<1>2. PICK r \in LookUp(0, elem.name, elem.line) : r.to \in InvokeMeant(elem)
  BY <1>1, ScriptLookUp DEF Linkable
<1>3. Typing(elem, r) # {}
  BY <1>1, <1>2, ScriptTyping DEF Linkable
<1>4. at' = [at EXCEPT !.i = @ + 1]
  BY <1>2, <1>3 DEF GenerateScriptElem
<1> QED BY <1>4 DEF LinkInv, NamesInv, PlaceOK

LEMMA LinkedNext ==
  ASSUME LinkInv, BoundPlaced, UnsharedBindOwn, HostedKnown, ValidLinked, [Next]_vars
  PROVE  ValidLinked'
<1>1. file' = file
  BY BoundByStep
<1>2. Linkable' = Linkable
  <2>1. Mods' = Mods /\ ValidFile' = ValidFile
    BY <1>1, FileSame
  <2>2. \A m : RepeatsIntrinsic(m)' = RepeatsIntrinsic(m)
    BY <1>1, HostsSame
  <2>3. \A m : CallsUsedAbove(m)' = CallsUsedAbove(m)
    BY <1>1 DEF CallsUsedAbove, UsedAbove, BodyOf, Meant, Mods
  <2>4. \A m : CallsStray(m)' = CallsStray(m)
    BY <1>1 DEF CallsStray, BodyOf, ImportMeant
  <2> QED BY <2>1, <2>2, <2>3, <2>4 DEF Linkable
<1>3. ASSUME Linkable PROVE at'.step \notin {"crashed", "rejected"}
  <2>1. at.step \notin {"crashed", "rejected"}
    BY <1>3 DEF ValidLinked, Linkable
  <2>2. CASE MangleNext
    BY <1>3, <2>1, <2>2, MangleSucceeds
  <2>3. CASE InitializeModule
    BY <2>3 DEF InitializeModule, At
  <2>4. CASE GenerateCall
    BY <1>3, <2>1, <2>4, CallSucceeds
  <2>5. CASE GenerateImportCall
    BY <1>3, <2>1, <2>5, ImportCallSucceeds
  <2>6. CASE GenerateIntrinsicCall
    BY <2>1, <2>6 DEF GenerateIntrinsicCall, LinkInv, NamesInv, PlaceOK
  <2>7. CASE FunctionGenerated
    BY <1>3, <2>1, <2>7, FunctionSucceeds
  <2>8. CASE ModuleGenerated
    BY <1>3, <2>8, ModuleSucceeds
  <2>9. CASE GenerateScriptElem
    BY <1>3, <2>1, <2>9, ElemSucceeds
  <2>10. CASE ScriptGenerated
    BY <2>10 DEF ScriptGenerated, Stop, LinkInv, NamesInv, PlaceOK
  <2>11. CASE Terminated \/ UNCHANGED vars
    BY <2>1, <2>11 DEF Terminated, vars
  <2> QED BY <2>2, <2>3, <2>4, <2>5, <2>6, <2>7, <2>8, <2>9, <2>10, <2>11 DEF Next, Step
<1> QED BY <1>2, <1>3 DEF ValidLinked, Linkable

(***************************************************************************)
(* No assertion stops the compiler on a valid file none of whose calls     *)
(* names a function that a module above has too, repeats an intrinsic, or  *)
(* is of an import made in memory that was not null; and no function of it *)
(* is rejected.                                                            *)
(***************************************************************************)
THEOREM ValidFilesLinked == Spec => []ValidLinked
<1>1. Init => ValidLinked
  BY DEF Init, At, ValidLinked
<1>2. LinkInv /\ BoundPlaced /\ UnsharedBindOwn /\ HostedKnown /\ ValidLinked /\ [Next]_vars
      => ValidLinked'
  BY LinkedNext
<1> QED BY <1>1, <1>2, BindingAlways, HostsAlways, PTL DEF Spec
=============================================================================
