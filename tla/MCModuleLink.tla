---------------------------- MODULE MCModuleLink ----------------------------
(***************************************************************************)
(* Model checking of ModuleLink: families of files of two modules and a    *)
(* script.                                                                 *)
(***************************************************************************)
EXTENDS ModuleLinkProps, TLC

CONSTANTS Family,       \* the files
          f, g, h, f1,  \* names of functions; h is mangled like f
          fa,           \* the name that g gets with one letter
          d, e,         \* names of exports
          sf, sg, sa,   \* letters
          p, q,         \* what functions of the host are written with
          trap          \* an intrinsic

MCIds      == {f, g, h, f1, fa}
MCExported == {d, e}
MCSymbols  == {sf, sg, sa, p, q, trap}
MCIntrinsics == {trap}
MCLetters  == {sa, sg}
MCFlat ==
  f :> <<sf>> @@ h :> <<sf>> @@ g :> <<sg>> @@ f1 :> <<sf, 1>> @@ fa :> <<sf, sa>>

Call(var, line)      == [kind |-> "call", var |-> var, line |-> line]
CallImport(var)      == [kind |-> "import", var |-> var, line |-> 1]
CallIntrinsic(v)     == [kind |-> "intrinsic", var |-> v, line |-> 1]
Export(name, var)    == [name |-> name, var |-> var]
Import(id, host, n)  == [id |-> id, host |-> host, results |-> n, stray |-> FALSE]
Stray(import)        == [import EXCEPT !.stray = TRUE]
Invoke(name, line, nan) == [name |-> name, line |-> line, nan |-> nan]

Module(ids, calls, exports, line) ==
  [ids |-> ids, calls |-> calls, imports |-> <<>>, exports |-> exports, line |-> line]

File(mods, script) == [mods |-> mods, script |-> script]

(***************************************************************************)
(* Modules whose first function calls, whose exports are by name or index. *)
(***************************************************************************)
Calling(n, callees, line) ==
  [i \in 1..n |-> IF i = 1 THEN [k \in 1..Len(callees) |-> Call(callees[k], line)] ELSE <<>>]

IdLists     == {<<f>>, <<h, fa>>, <<fa, f, h>>, <<g, f1>>, <<f, f>>}
CalleeLists == {<<f>>, <<h>>, <<1, g>>, <<0, f, f>>}
ExportLists == {<<>>, <<Export(d, f)>>, <<Export(d, 0), Export(e, 1)>>}

ModulesAt(calleeLists, callLine, line) ==
  {Module(ids, Calling(Len(ids), callees, callLine), exports, line) :
     ids \in IdLists, callees \in calleeLists, exports \in ExportLists}

Scripts(lines) ==
  {<<>>} \cup {<<Invoke(d, x, TRUE), Invoke(y, l, FALSE)>> : y \in MCExported, x, l \in lines}

(***************************************************************************)
(* Two modules on line 1 that call functions of the host and an intrinsic. *)
(***************************************************************************)
HostCalls ==
  {CallImport(f), CallImport(g), CallImport(1), CallIntrinsic(trap)}

Distinct == <<Import(f, <<p>>, 0), Import(g, <<p, q>>, 1)>>

ImportLists ==
  {Distinct,
   <<Import(f, <<p, q>>, 1), Import(g, <<p, q>>, 0)>>,
   <<Import(f, <<p>>, 0), Import(f, <<p, q>>, 2)>>,
   <<Import(h, <<p>>, 0), Import(g, <<p>>, 0), Import(f, <<p, 1>>, 0)>>,
   <<Import(f, <<p>>, 0), Stray(Import(g, <<p, q>>, 0))>>}

Hosting(bodies, lists) ==
  {[Module(<<f, h>>, <<<<x, y>>, b>>, <<>>, 1) EXCEPT !.imports = imports] :
     x, y \in HostCalls, b \in bodies, imports \in lists}

IsHostingFile ==
  \E x \in Hosting({<<>>}, {Distinct}),
     y \in Hosting({<<CallImport(0)>>, <<CallIntrinsic(trap)>>}, ImportLists) :
    file = File(<<x, y>>, <<>>) \/ file = File(<<y, x>>, <<>>)

(***************************************************************************)
(* Invokes of two functions, one of which has the name that LLVM makes for *)
(* a second prototype of the other.                                        *)
(***************************************************************************)
IsRenamedFile ==
  \E x, y, z \in MCExported :
    file = File(<<Module(<<f, f1>>, <<<<>>, <<>>>>, <<Export(d, f), Export(e, f1)>>, 1)>>,
                <<Invoke(x, 2, FALSE), Invoke(y, 3, FALSE), Invoke(z, 4, FALSE)>>)

(***************************************************************************)
(* Two modules that end on lines 2 and 4, or on line 1 with all the rest.  *)
(***************************************************************************)
IsLinkedFile ==
  \/ \E x \in ModulesAt({<<h>>}, 1, 2), y \in ModulesAt(CalleeLists, 3, 4),
        s \in Scripts({2, 5}) : file = File(<<x, y>>, s)
  \/ \E x \in ModulesAt({<<f>>}, 1, 1), y \in ModulesAt(CalleeLists, 1, 1),
        s \in Scripts({1}) : file = File(<<x, y>>, s)
  \/ IsHostingFile
  \/ IsRenamedFile

(***************************************************************************)
(* A module that calls a function whose name a module above has, too.      *)
(***************************************************************************)
IsSharedFile ==
  \E ids \in {<<f>>, <<g, f>>} :
    file = File(<<Module(<<f>>, <<<<>>>>, <<>>, 1),
                  Module(ids, Calling(Len(ids), <<f>>, 2), <<>>, 3)>>, <<>>)

MCInit ==
  /\ CASE Family = "linked" -> IsLinkedFile
       [] Family = "shared" -> IsSharedFile
  /\ Init

MCSpec == MCInit /\ [][Next]_vars
=============================================================================
