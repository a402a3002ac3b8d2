------------------------------ MODULE ScriptRun ------------------------------
(***************************************************************************)
(* A test script, from its text to the answer of the program that runs it. *)
(*                                                                         *)
(* The compiler makes a function of each element of the script, and of all *)
(* of them execute_script, which calls these functions; the driver makes   *)
(* of its result an exit status.  What the invoked functions do is any.    *)
(***************************************************************************)
EXTENDS Integers, Sequences, FiniteSets

CONSTANTS
  Scripts,  \* texts: sequences of elements, see Elements
  Lines,    \* line numbers
  Numbers   \* results of functions, other than NaN

ASSUME LinesTyped   == Lines \subseteq Nat
NaN    == "nan"
NoValue == "none"
ASSUME NumbersTyped == NaN \notin Numbers /\ NoValue \notin Numbers

Values == Numbers \cup {NaN}

Kinds == {"invoke", "return", "nan", "trap", "invalid"}

(***************************************************************************)
(* An element of the text: what it is, the line of its last parenthesis,   *)
(* and for an assert_return the value it expects, if any.                  *)
(***************************************************************************)
Elements == [kind : Kinds, line : Lines, expect : Values \cup {NoValue}]

ASSUME ScriptsTyped == Scripts \subseteq Seq(Elements)

VARIABLES
  text,       \* the elements in the file
  parsed,     \* how many of them have been recognised
  waiting,    \* script elements made and not added: [name, body]
  elems,      \* script_elems_
  generated,  \* how many of elems have a function
  functions,  \* the functions of the assert module, by the number in their name
  main,       \* the calls of execute_script: [callee, handler, checked]
  pc,         \* the next of them, when the program runs
  calls,      \* (history) the functions invoked by it: [elem, answer]
  result,     \* of execute_script
  status

vars == <<text, parsed, waiting, elems, generated, functions, main, pc, calls, result, status>>

Success == -1

Init ==
  /\ text \in Scripts
  /\ parsed = 0 /\ waiting = <<>>
  /\ elems = <<>> /\ generated = 0
  /\ functions = <<>>
  /\ main = <<>> /\ pc = 0
  /\ calls = <<>>
  /\ result = Success
  /\ status = "parsing"

-----------------------------------------------------------------------------
(***************************************************************************)
(* The expression of an element: call and compare, the two answers being   *)
(* -1 and the line; or only call.                                          *)
(***************************************************************************)
Body(e) == [kind |-> e.kind, expect |-> e.expect, failure |-> e.line]

\* Mutated NextName: the counter is not static.
NameUncounted == 1

(***************************************************************************)
(* The constructor counts the elements.                                    *)
(***************************************************************************)
NextName == Len(waiting) + 1

(***************************************************************************)
(* SCRIPT_ELEM is reduced in the order of the text.  assert_invalid makes  *)
(* no element.                                                             *)
(***************************************************************************)
ParseElem ==
  /\ status = "parsing" /\ parsed < Len(text)
  /\ parsed' = parsed + 1
  /\ waiting' = IF text[parsed + 1].kind = "invalid" THEN waiting
                ELSE Append(waiting, [name |-> NextName, body |-> Body(text[parsed + 1])])
  /\ UNCHANGED <<text, elems, generated, functions, main, pc, calls, result, status>>

\* Mutated AddScriptElem: elements are added at the end.
AddScriptElemAtEnd(e) == elems' = Append(elems, e)

AddScriptElem(e) == elems' = <<e>> \o elems

(***************************************************************************)
(* FILE is right recursive: it is reduced from the end of the text on.     *)
(***************************************************************************)
ReduceFile ==
  /\ status = "parsing" /\ parsed = Len(text)
  /\ IF waiting = <<>>
     THEN status' = "generating" /\ UNCHANGED <<waiting, elems>>
     ELSE /\ AddScriptElem(waiting[Len(waiting)])
          /\ waiting' = SubSeq(waiting, 1, Len(waiting) - 1)
          /\ UNCHANGED status
  /\ UNCHANGED <<text, parsed, generated, functions, main, pc, calls, result>>

(***************************************************************************)
(* The Codegen methods of the elements: a function with that body.         *)
(***************************************************************************)
GenerateElem ==
  /\ status = "generating" /\ generated < Len(elems)
  /\ generated' = generated + 1
  /\ functions' = LET e == elems[generated + 1]
                  IN [n \in DOMAIN functions \cup {e.name} |->
                        IF n = e.name THEN e.body ELSE functions[n]]
  /\ UNCHANGED <<text, parsed, waiting, elems, main, pc, calls, result, status>>

(***************************************************************************)
(* HandleInvoke and HandleAssert: a function is called, or handed to       *)
(* assert_trap_handler; but for an invoke the result is compared with -1.  *)
(***************************************************************************)
CallOf(e) ==
  [callee  |-> e.name,
   handler |-> e.body.kind = "trap",
   checked |-> e.body.kind # "invoke"]

GenerateCall ==
  /\ status = "generating" /\ generated = Len(elems) /\ Len(main) < Len(elems)
  /\ main' = Append(main, CallOf(elems[Len(main) + 1]))
  /\ UNCHANGED <<text, parsed, waiting, elems, generated, functions, pc, calls, result, status>>

StartProgram ==
  /\ status = "generating" /\ generated = Len(elems) /\ Len(main) = Len(elems)
  /\ status' = "running"
  /\ pc' = 1
  /\ UNCHANGED <<text, parsed, waiting, elems, generated, functions, main, calls, result>>

-----------------------------------------------------------------------------
(***************************************************************************)
(* Equality of assertions is FCmpUEQ, which holds if a value is NaN; an    *)
(* assert_return_nan is this equality with NaN.                            *)
(***************************************************************************)
UnorderedEqual(x, y) == x = y \/ x = NaN \/ y = NaN

Expected(body) == IF body.kind = "nan" THEN NaN ELSE body.expect

(***************************************************************************)
(* What the function of an assertion returns when the invoked one has      *)
(* returned v.                                                             *)
(***************************************************************************)
Answer(body, v) ==
  IF (body.kind = "return" /\ body.expect = NoValue) \/ UnorderedEqual(v, Expected(body))
  THEN Success
  ELSE body.failure

(***************************************************************************)
(* assert_trap_handler calls nothing and returns -1.                       *)
(***************************************************************************)
CallHandler ==
  /\ status = "running" /\ pc <= Len(main) /\ main[pc].handler
  /\ pc' = pc + 1
  /\ UNCHANGED <<text, parsed, waiting, elems, generated, functions, main, calls, result, status>>

CallElem ==
  /\ status = "running" /\ pc <= Len(main) /\ ~main[pc].handler
  /\ LET call == main[pc]
         body == functions[call.callee]
     IN \/ /\ status' = "killed"    \* the invoked function traps
           /\ UNCHANGED <<pc, calls, result>>
        \/ \E v \in Values :
             /\ calls' = Append(calls, [elem |-> call.callee, answer |-> v])
             /\ IF call.checked /\ Answer(body, v) # Success
                THEN /\ status' = "failure"
                     /\ result' = Answer(body, v)
                     /\ UNCHANGED pc
                ELSE /\ pc' = pc + 1
                     /\ UNCHANGED <<result, status>>
  /\ UNCHANGED <<text, parsed, waiting, elems, generated, functions, main>>

MainReturns ==
  /\ status = "running" /\ pc > Len(main)
  /\ status' = "success"
  /\ UNCHANGED <<text, parsed, waiting, elems, generated, functions, main, pc, calls, result>>

Terminated == status \in {"success", "failure", "killed"} /\ UNCHANGED vars

Next ==
  \/ ParseElem \/ ReduceFile \/ GenerateElem \/ GenerateCall \/ StartProgram
  \/ CallHandler \/ CallElem \/ MainReturns \/ Terminated

Spec == Init /\ [][Next]_vars

-----------------------------------------------------------------------------
Bodies == [kind : Kinds \ {"invalid"}, expect : Values \cup {NoValue}, failure : Lines]
ScriptElems == [name : Nat, body : Bodies]

(***************************************************************************)
(* Each call of execute_script has its function; elements have different   *)
(* names.                                                                  *)
(***************************************************************************)
TypeOK ==
  /\ parsed \in 0..Len(text)
  /\ waiting \in Seq(ScriptElems) /\ elems \in Seq(ScriptElems)
  /\ generated \in 0..Len(elems)
  /\ \A n \in DOMAIN functions : functions[n] \in Bodies
  /\ \A k \in 1..generated : functions[elems[k].name] = elems[k].body
  /\ \A k, l \in 1..Len(elems) : elems[k].name = elems[l].name => k = l
  /\ \A k \in 1..Len(main) : main[k].callee \in DOMAIN functions
  /\ result \in Lines \cup {Success}
  /\ status \in {"parsing", "generating", "running", "success", "failure", "killed"}

(***************************************************************************)
(* What the script asks for: element i of text t has a function unless it  *)
(* is an assert_invalid, with its place among the elements that have one   *)
(* as number; and the program invokes something unless it is an            *)
(* assert_trap.                                                            *)
(***************************************************************************)
Made(t, i) == t[i].kind # "invalid"

Place(t, i) == Cardinality({j \in 1..i : Made(t, j)})

Runs(t, i) == t[i].kind \in {"invoke", "return", "nan"}

IsCallOf(k, i) == Runs(text, i) /\ calls[k].elem = Place(text, i)

Asserts(e) == e.kind = "nan" \/ (e.kind = "return" /\ e.expect # NoValue)

Holds(e, v) == Asserts(e) => v = Expected(e)

(***************************************************************************)
(* An assertion whose failure can be seen by an unordered comparison.      *)
(***************************************************************************)
FailsVisibly(e, v) == ~Holds(e, v) /\ Expected(e) # NaN /\ v # NaN

FailedAt(k) == k = Len(calls) /\ status = "failure"

(***************************************************************************)
(* The invokes and assertions of a script are executed in the order of the *)
(* text, none twice and none left out, up to the first that is seen to     *)
(* fail or traps; its line is the result, and -1 means that none has       *)
(* failed visibly.                                                         *)
(***************************************************************************)
FirstFailureReported ==
  /\ \A k \in 1..Len(calls) : \E i \in 1..Len(text) :
       /\ IsCallOf(k, i)
       /\ \A j \in 1..(i - 1) : Runs(text, j) => \E l \in 1..(k - 1) : IsCallOf(l, j)
       /\ FailsVisibly(text[i], calls[k].answer) <=> FailedAt(k)
       /\ FailedAt(k) => result = text[i].line
  /\ \A k, l \in 1..Len(calls) : k < l => calls[k].elem < calls[l].elem
  /\ status = "failure" => calls # <<>>
  /\ status = "success" =>
       /\ result = Success
       /\ \A i \in 1..Len(text) : Runs(text, i) => \E k \in 1..Len(calls) : IsCallOf(k, i)

(***************************************************************************)
(* "If successful, returns -1. It will fail otherwise and return the line  *)
(* number of the failure" (GenerateGeneralScriptCalls): after success each *)
(* assert_return and assert_return_nan has held.                           *)
(***************************************************************************)
SuccessMeansHeld ==
  status = "success" =>
    \A k \in 1..Len(calls), i \in 1..Len(text) :
      IsCallOf(k, i) => Holds(text[i], calls[k].answer)
=============================================================================
