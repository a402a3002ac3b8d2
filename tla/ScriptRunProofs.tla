--------------------------- MODULE ScriptRunProofs ---------------------------
(***************************************************************************)
(* For scripts of any length: the elements keep their order on the way     *)
(* from the text to the program, whose result is the line of the first     *)
(* assertion that is seen to fail.                                         *)
(***************************************************************************)
EXTENDS ScriptRun, FiniteSetTheorems, TLAPS

(***************************************************************************)
(* The elements made so far: number n is still waiting or has been added.  *)
(***************************************************************************)
ElemAt(w, s, n) == IF n <= Len(w) THEN w[n] ELSE s[n - Len(w)]

MadeFrom(t, p, e, n) ==
  /\ e.name = n
  /\ \E i \in 1..p : Made(t, i) /\ Place(t, i) = n /\ e.body = Body(t[i])

ParsedInv ==
  /\ text \in Seq(Elements)
  /\ parsed \in 0..Len(text)
  /\ waiting \in Seq(ScriptElems) /\ elems \in Seq(ScriptElems)
  /\ Len(waiting) + Len(elems) = Place(text, parsed)
  /\ elems # <<>> => parsed = Len(text)
  /\ status # "parsing" => parsed = Len(text) /\ waiting = <<>>
  /\ \A n \in 1..Place(text, parsed) : MadeFrom(text, parsed, ElemAt(waiting, elems, n), n)

(***************************************************************************)
(* The functions and calls generated so far.                               *)
(***************************************************************************)
Preparing == status \in {"parsing", "generating"}

CallTypes == [callee : Nat, handler : BOOLEAN, checked : BOOLEAN]

GeneratedInv ==
  /\ generated \in 0..Len(elems)
  /\ main \in Seq(CallTypes) /\ Len(main) <= Len(elems)
  /\ status = "parsing" => generated = 0 /\ main = <<>>
  /\ main # <<>> \/ ~Preparing => generated = Len(elems)
  /\ ~Preparing => Len(main) = Len(elems)
  /\ \A n \in DOMAIN functions : functions[n] \in Bodies
  /\ \A k \in 1..generated :
       elems[k].name \in DOMAIN functions /\ functions[elems[k].name] = elems[k].body
  /\ \A k \in 1..Len(main) : main[k] = CallOf(elems[k])

(***************************************************************************)
(* The run of the program: the functions up to pc that are not for the     *)
(* handler have been called, in order, and the last one has failed if any  *)
(* has.                                                                    *)
(***************************************************************************)
Calls == [elem : Nat, answer : Values]

Failing(k) ==
  main[calls[k].elem].checked /\ Answer(elems[calls[k].elem].body, calls[k].answer) # Success

CalledBefore(k) ==
  /\ calls[k].elem \in 1..Len(main)
  /\ ~main[calls[k].elem].handler
  /\ IF FailedAt(k) THEN calls[k].elem = pc ELSE calls[k].elem < pc
  /\ Failing(k) <=> FailedAt(k)

RunInv ==
  /\ status \in {"parsing", "generating", "running", "success", "failure", "killed"}
  /\ calls \in Seq(Calls)
  /\ Preparing => calls = <<>>
  /\ ~Preparing => pc \in 1..(Len(main) + 1)
  /\ status # "failure" => result = Success
  /\ \A k \in 1..Len(calls) : CalledBefore(k)
  /\ \A k, l \in 1..Len(calls) : k < l => calls[k].elem < calls[l].elem
  /\ ~Preparing => \A n \in 1..(pc - 1) :
       ~main[n].handler => \E k \in 1..Len(calls) : calls[k].elem = n
  /\ status = "failure" => calls # <<>> /\ pc \in 1..Len(main) /\ result = elems[pc].body.failure
  /\ status = "success" => pc = Len(main) + 1

ScriptInv == ParsedInv /\ GeneratedInv /\ RunInv

-----------------------------------------------------------------------------
(***************************************************************************)
(* Places.                                                                 *)
(***************************************************************************)
LEMMA PlaceTyped ==
  ASSUME NEW t, NEW i \in Nat
  PROVE  IsFiniteSet({j \in 1..i : Made(t, j)}) /\ Place(t, i) \in Nat
<1>1. IsFiniteSet(1..i)
  BY FS_Interval
<1>2. {j \in 1..i : Made(t, j)} \subseteq 1..i
  OBVIOUS
<1>3. IsFiniteSet({j \in 1..i : Made(t, j)})
  BY <1>1, <1>2, FS_Subset
<1> QED BY <1>3, FS_CardinalityType DEF Place

\* Nothing comes before the first element.
LEMMA PlaceZero == ASSUME NEW t PROVE Place(t, 0) = 0
<1>1. {j \in 1..0 : Made(t, j)} = {}
  OBVIOUS
<1> QED BY <1>1, FS_EmptySet DEF Place

(***************************************************************************)
(* The next element counts if something is made of it.                     *)
(***************************************************************************)
LEMMA PlaceNext ==
  ASSUME NEW t, NEW i \in Nat
  PROVE  Place(t, i + 1) = IF Made(t, i + 1) THEN Place(t, i) + 1 ELSE Place(t, i)
<1> DEFINE before == {j \in 1..i : Made(t, j)}
<1>1. CASE Made(t, i + 1)
  <2>1. {j \in 1..(i + 1) : Made(t, j)} = before \cup {i + 1}
    BY <1>1
  <2>2. i + 1 \notin before
    OBVIOUS
  <2>3. Cardinality(before \cup {i + 1}) = Cardinality(before) + 1
    BY <2>2, PlaceTyped, FS_AddElement
  <2> QED BY <1>1, <2>1, <2>3 DEF Place
<1>2. CASE ~Made(t, i + 1)
  <2>1. {j \in 1..(i + 1) : Made(t, j)} = before
    BY <1>2
  <2> QED BY <1>2, <2>1 DEF Place
<1> QED BY <1>1, <1>2

(***************************************************************************)
(* A later element has a higher place.                                     *)
(***************************************************************************)
LEMMA PlaceGrows ==
  ASSUME NEW t, NEW i \in Nat, NEW j \in Nat, i < j, Made(t, j)
  PROVE  Place(t, i) < Place(t, j)
<1> DEFINE S == {k \in 1..i : Made(t, k)}
           T == {k \in 1..j : Made(t, k)}
<1>1. IsFiniteSet(S) /\ Cardinality(S) \in Nat /\ IsFiniteSet(T) /\ Cardinality(T) \in Nat
  BY PlaceTyped DEF Place
<1>2. S \cup {j} \subseteq T /\ j \notin S
  OBVIOUS
<1>3. Cardinality(S \cup {j}) = Cardinality(S) + 1
  BY <1>1, <1>2, FS_AddElement
<1>4. Cardinality(S \cup {j}) <= Cardinality(T)
  BY <1>1, <1>2, FS_Subset
<1> HIDE DEF S, T
<1>5. Cardinality(S) < Cardinality(T)
  BY <1>1, <1>3, <1>4
<1> QED BY <1>5 DEF Place, S, T

\* Elements of the first n have places up to that of n.
LEMMA PlaceBounded ==
  ASSUME NEW t, NEW n \in Nat, NEW i \in 1..n, Made(t, i)
  PROVE  Place(t, i) \in 1..Place(t, n)
<1>1. Place(t, 0) < Place(t, i)
  BY PlaceGrows
<1>2. Place(t, i) <= Place(t, n)
  <2>1. {j \in 1..i : Made(t, j)} \subseteq {j \in 1..n : Made(t, j)}
    OBVIOUS
  <2> QED BY <2>1, PlaceTyped, FS_Subset DEF Place
<1>3. i \in Nat /\ Place(t, i) \in Nat /\ Place(t, n) \in Nat
  <2>1. i \in Nat
    OBVIOUS
  <2> QED BY <2>1, PlaceTyped
<1>4. Place(t, 0) = 0
  BY PlaceZero
<1> QED BY <1>1, <1>2, <1>3, <1>4

\* Two elements have two places.
LEMMA PlaceInjective ==
  ASSUME NEW t, NEW i \in Nat, NEW j \in Nat, Made(t, i), Made(t, j), Place(t, i) = Place(t, j)
  PROVE  i = j
<1>1. Place(t, i) \in Nat /\ Place(t, j) \in Nat
  BY PlaceTyped
<1>2. ~(i < j)
  BY <1>1, PlaceGrows
<1>3. ~(j < i)
  BY <1>1, PlaceGrows
<1> QED BY <1>2, <1>3

-----------------------------------------------------------------------------
(***************************************************************************)
(* Initially.                                                              *)
(***************************************************************************)
LEMMA ScriptInit == Init => ScriptInv
<1> SUFFICES ASSUME Init PROVE ScriptInv
  OBVIOUS
<1>1. text \in Seq(Elements) /\ Len(text) \in Nat
  BY ScriptsTyped DEF Init
<1>2. ParsedInv
  <2>1. Place(text, parsed) = 0
    BY PlaceZero DEF Init
  <2> QED BY <1>1, <2>1 DEF Init, ParsedInv
<1>3. GeneratedInv
  BY DEF Init, GeneratedInv, Preparing
<1>4. RunInv
  BY DEF Init, RunInv, Preparing
<1> QED BY <1>2, <1>3, <1>4 DEF ScriptInv

(***************************************************************************)
(* Parsing: nothing else changes.                                          *)
(***************************************************************************)
LEMMA WhileParsing ==
  ASSUME ScriptInv, status = "parsing", status' \in {"parsing", "generating"},
         UNCHANGED <<generated, functions, main, pc, calls, result>>, Len(elems') \in Nat
  PROVE  GeneratedInv' /\ RunInv'
<1>1. generated = 0 /\ main = <<>> /\ calls = <<>> /\ result = Success
  BY DEF ScriptInv, GeneratedInv, RunInv, Preparing
<1>2. Preparing /\ Preparing'
  BY DEF Preparing
<1>3. \A n \in DOMAIN functions : functions[n] \in Bodies
  BY DEF ScriptInv, GeneratedInv
<1>4. Len(main') = 0 /\ Len(calls') = 0
  BY <1>1
<1>5. GeneratedInv'
  BY <1>1, <1>2, <1>3, <1>4 DEF GeneratedInv
<1>6. RunInv'
  BY <1>1, <1>2, <1>4 DEF RunInv
<1> QED BY <1>5, <1>6

\* The type of what ParseElem makes.
LEMMA BodyTyped ==
  ASSUME NEW e \in Elements, e.kind # "invalid"
  PROVE  Body(e) \in Bodies
BY DEF Elements, Body, Bodies

\* A new element has the next place, and waits at its end.
LEMMA ParseElemKeeps == ScriptInv /\ ParseElem => ScriptInv'
<1> SUFFICES ASSUME ScriptInv, ParseElem PROVE ScriptInv'
  OBVIOUS
<1>1. /\ text \in Seq(Elements) /\ Len(text) \in Nat /\ parsed \in Nat /\ parsed < Len(text)
      /\ waiting \in Seq(ScriptElems) /\ Len(waiting) \in Nat
      /\ elems = <<>>
  BY DEF ScriptInv, ParsedInv, ParseElem
<1>2. Len(waiting) = Place(text, parsed)
  <2>1. Len(elems) = 0
    BY <1>1
  <2>2. Len(waiting) + Len(elems) = Place(text, parsed)
    BY DEF ScriptInv, ParsedInv
  <2> QED BY <1>1, <2>1, <2>2
<1>3. \A n \in 1..Len(waiting) : MadeFrom(text, parsed, waiting[n], n)
  BY <1>1, <1>2 DEF ScriptInv, ParsedInv, ElemAt
<1>4. text' = text /\ elems' = elems /\ parsed' = parsed + 1 /\ status' = status
  BY DEF ParseElem
<1>5. \A e, n : MadeFrom(text, parsed, e, n) => MadeFrom(text, parsed + 1, e, n)
  <2> SUFFICES ASSUME NEW e, NEW n, MadeFrom(text, parsed, e, n)
               PROVE  MadeFrom(text, parsed + 1, e, n)
    OBVIOUS
  <2>1. PICK i \in 1..parsed : Made(text, i) /\ Place(text, i) = n /\ e.body = Body(text[i])
    BY DEF MadeFrom
  <2>2. i \in 1..(parsed + 1)
    BY <1>1
  <2>3. e.name = n
    BY DEF MadeFrom
  <2> QED BY <2>1, <2>2, <2>3 DEF MadeFrom
<1>6. Place(text, parsed + 1) =
        IF Made(text, parsed + 1) THEN Place(text, parsed) + 1 ELSE Place(text, parsed)
  BY <1>1, PlaceNext
<1>7. /\ waiting' \in Seq(ScriptElems)
      /\ Len(waiting') = Place(text, parsed + 1)
      /\ \A n \in 1..Len(waiting') : MadeFrom(text, parsed + 1, waiting'[n], n)
  <2>1. CASE ~Made(text, parsed + 1)
    <3>1. waiting' = waiting
      BY <2>1 DEF ParseElem, Made
    <3> QED BY <1>1, <1>2, <1>3, <1>5, <1>6, <2>1, <3>1
  <2>2. CASE Made(text, parsed + 1)
    <3> DEFINE e == [name |-> NextName, body |-> Body(text[parsed + 1])]
    <3>1. waiting' = Append(waiting, e)
      BY <2>2 DEF ParseElem, Made
    <3>2. text[parsed + 1] \in Elements /\ text[parsed + 1].kind # "invalid"
      BY <1>1, <2>2 DEF Made
    <3>3. e \in ScriptElems
      BY <1>1, <3>2, BodyTyped DEF ScriptElems, NextName
    <3>4. e.name = Len(waiting) + 1 /\ e.body = Body(text[parsed + 1])
      BY DEF NextName
    <3> HIDE DEF e
    <3>5. /\ waiting' \in Seq(ScriptElems) /\ Len(waiting') = Len(waiting) + 1
          /\ waiting'[Len(waiting) + 1] = e
          /\ \A n \in 1..Len(waiting) : waiting'[n] = waiting[n]
      BY <1>1, <3>1, <3>3
    <3>6. Place(text, parsed + 1) = Len(waiting) + 1
      BY <1>2, <1>6, <2>2
    <3>7. MadeFrom(text, parsed + 1, e, Len(waiting) + 1)
      <4>1. parsed + 1 \in 1..(parsed + 1)
        BY <1>1
      <4> QED BY <2>2, <3>4, <3>6, <4>1 DEF MadeFrom
    <3>8. ASSUME NEW n \in 1..Len(waiting')
          PROVE  MadeFrom(text, parsed + 1, waiting'[n], n)
      <4>1. CASE n = Len(waiting) + 1
        BY <3>5, <3>7, <4>1
      <4>2. CASE n # Len(waiting) + 1
        <5>1. n \in 1..Len(waiting)
          BY <1>1, <3>5, <3>8, <4>2
        <5> QED BY <1>3, <1>5, <3>5, <5>1
      <4> QED BY <4>1, <4>2
    <3> QED BY <3>5, <3>6, <3>8
  <2> QED BY <2>1, <2>2
<1>8. Len(waiting') \in Nat /\ Len(elems') = 0
  BY <1>1, <1>4, <1>7
<1>9. \A n \in 1..Place(text, parsed + 1) :
        MadeFrom(text, parsed + 1, ElemAt(waiting', elems', n), n)
  <2> SUFFICES ASSUME NEW n \in 1..Place(text, parsed + 1)
               PROVE  MadeFrom(text, parsed + 1, ElemAt(waiting', elems', n), n)
    OBVIOUS
  <2>1. n \in 1..Len(waiting') /\ n <= Len(waiting')
    BY <1>7, <1>8
  <2>2. ElemAt(waiting', elems', n) = waiting'[n]
    BY <2>1 DEF ElemAt
  <2> QED BY <1>7, <2>1, <2>2
<1>10. ParsedInv'
  <2>1. parsed + 1 \in 0..Len(text)
    BY <1>1
  <2>2. Len(waiting') + Len(elems') = Place(text, parsed + 1)
    BY <1>7, <1>8
  <2>3. status' = "parsing" /\ elems' = <<>> /\ elems' \in Seq(ScriptElems)
    BY <1>1, <1>4 DEF ParseElem
  <2> QED BY <1>1, <1>4, <1>7, <1>9, <2>1, <2>2, <2>3 DEF ParsedInv
<1>11. GeneratedInv' /\ RunInv'
  <2>1. UNCHANGED <<generated, functions, main, pc, calls, result>> /\ status = "parsing"
    BY DEF ParseElem
  <2> QED BY <1>4, <1>8, <2>1, WhileParsing
<1> QED BY <1>10, <1>11 DEF ScriptInv

(***************************************************************************)
(* The last waiting element becomes the first of the others: the number of *)
(* every element stays.                                                    *)
(***************************************************************************)
LEMMA ElemAtMoves ==
  ASSUME NEW w \in Seq(ScriptElems), NEW s \in Seq(ScriptElems), Len(w) # 0,
         NEW n \in 1..(Len(w) + Len(s))
  PROVE  ElemAt(SubSeq(w, 1, Len(w) - 1), <<w[Len(w)]>> \o s, n) = ElemAt(w, s, n)
<1>1. PICK m \in Nat : m = Len(w)
  OBVIOUS
<1>2. PICK l \in Nat : l = Len(s)
  OBVIOUS
<1> DEFINE v == SubSeq(w, 1, m - 1)
           r == <<w[m]>> \o s
<1>3. Len(v) = m - 1 /\ \A k \in 1..(m - 1) : v[k] = w[k]
  BY <1>1
<1>4. r[1] = w[m] /\ \A k \in 2..(l + 1) : r[k] = s[k - 1]
  BY <1>1, <1>2
<1> HIDE DEF v, r
<1>5. CASE n < m
  <2>1. n \in 1..(m - 1) /\ n <= m /\ n <= m - 1
    BY <1>1, <1>2, <1>5
  <2> QED BY <1>1, <1>3, <2>1 DEF ElemAt, v, r
<1>6. CASE n = m
  <2>1. ~(n <= m - 1) /\ n - (m - 1) = 1
    BY <1>1, <1>2, <1>6
  <2>2. ElemAt(v, r, n) = r[1]
    BY <1>3, <2>1 DEF ElemAt
  <2>3. ElemAt(w, s, n) = w[m]
    BY <1>1, <1>6 DEF ElemAt
  <2> QED BY <1>1, <1>4, <2>2, <2>3 DEF v, r
<1>7. CASE n > m
  <2>1. ~(n <= m - 1) /\ ~(n <= m) /\ n - (m - 1) \in 2..(l + 1) /\ n - (m - 1) - 1 = n - m
    BY <1>1, <1>2, <1>7
  <2>2. ElemAt(v, r, n) = r[n - (m - 1)]
    BY <1>3, <2>1 DEF ElemAt
  <2>3. r[n - (m - 1)] = s[n - m]
    BY <1>4, <2>1
  <2>4. ElemAt(w, s, n) = s[n - m]
    BY <1>1, <2>1 DEF ElemAt
  <2> QED BY <1>1, <2>2, <2>3, <2>4 DEF v, r
<1>8. n < m \/ n = m \/ n > m
  BY <1>1
<1> QED BY <1>5, <1>6, <1>7, <1>8

\* The last waiting element is added, which moves no number.
LEMMA ReduceFileKeeps == ScriptInv /\ ReduceFile => ScriptInv'
<1> SUFFICES ASSUME ScriptInv, ReduceFile PROVE ScriptInv'
  OBVIOUS
<1>1. /\ text \in Seq(Elements) /\ Len(text) \in Nat /\ parsed = Len(text)
      /\ waiting \in Seq(ScriptElems) /\ Len(waiting) \in Nat
      /\ elems \in Seq(ScriptElems) /\ Len(elems) \in Nat
      /\ Len(waiting) + Len(elems) = Place(text, parsed)
      /\ \A n \in 1..Place(text, parsed) : MadeFrom(text, parsed, ElemAt(waiting, elems, n), n)
  BY DEF ScriptInv, ParsedInv, ReduceFile
<1>2. /\ status = "parsing" /\ text' = text /\ parsed' = parsed
      /\ UNCHANGED <<generated, functions, main, pc, calls, result>>
  BY DEF ReduceFile
<1>3. CASE waiting = <<>>
  <2>1. waiting' = waiting /\ elems' = elems /\ status' = "generating"
    BY <1>3 DEF ReduceFile
  <2>2. ParsedInv'
    BY <1>1, <1>2, <1>3, <2>1 DEF ParsedInv
  <2>3. Len(elems') \in Nat
    BY <1>1, <2>1
  <2>4. GeneratedInv' /\ RunInv'
    BY <1>2, <2>1, <2>3, WhileParsing
  <2> QED BY <2>2, <2>4 DEF ScriptInv
<1>4. CASE waiting # <<>>
  <2>1. /\ elems' = <<waiting[Len(waiting)]>> \o elems
        /\ waiting' = SubSeq(waiting, 1, Len(waiting) - 1)
        /\ status' = status
    BY <1>4 DEF ReduceFile, AddScriptElem
  <2>2. Len(waiting) # 0 /\ waiting[Len(waiting)] \in ScriptElems
    BY <1>1, <1>4
  <2>3. /\ waiting' \in Seq(ScriptElems) /\ Len(waiting') = Len(waiting) - 1
        /\ elems' \in Seq(ScriptElems) /\ Len(elems') = Len(elems) + 1
    BY <1>1, <2>1, <2>2
  <2>4. \A n \in 1..Place(text, parsed) : ElemAt(waiting', elems', n) = ElemAt(waiting, elems, n)
    BY <1>1, <2>1, <2>2, ElemAtMoves
  <2>5. Len(waiting') + Len(elems') = Place(text, parsed)
    BY <1>1, <2>3
  <2>6. ParsedInv'
    <3>1. \A n \in 1..Place(text, parsed) : MadeFrom(text, parsed, ElemAt(waiting', elems', n), n)
      BY <1>1, <2>4
    <3>2. parsed \in 0..Len(text) /\ status' = "parsing"
      BY <1>1, <1>2, <2>1
    <3> QED BY <1>1, <1>2, <2>3, <2>5, <3>1, <3>2 DEF ParsedInv
  <2>7. Len(elems') \in Nat
    BY <1>1, <2>3
  <2>8. GeneratedInv' /\ RunInv'
    BY <1>2, <2>1, <2>7, WhileParsing
  <2> QED BY <2>6, <2>8 DEF ScriptInv
<1> QED BY <1>3, <1>4

-----------------------------------------------------------------------------
(***************************************************************************)
(* When everything has been added, element n has number n and the body of  *)
(* the element of the text with place n.                                   *)
(***************************************************************************)
LEMMA ElementsInOrder ==
  ASSUME ScriptInv, status # "parsing"
  PROVE  /\ text \in Seq(Elements) /\ Len(text) \in Nat
         /\ elems \in Seq(ScriptElems) /\ Len(elems) \in Nat
         /\ Len(elems) = Place(text, Len(text))
         /\ \A n \in 1..Len(elems) : MadeFrom(text, Len(text), elems[n], n)
<1>1. /\ text \in Seq(Elements) /\ Len(text) \in Nat /\ parsed = Len(text)
      /\ waiting = <<>> /\ elems \in Seq(ScriptElems) /\ Len(elems) \in Nat
      /\ Len(waiting) + Len(elems) = Place(text, Len(text))
      /\ \A n \in 1..Place(text, Len(text)) : MadeFrom(text, Len(text), ElemAt(waiting, elems, n), n)
  BY DEF ScriptInv, ParsedInv
<1>2. Len(waiting) = 0
  BY <1>1
<1>3. Len(elems) = Place(text, Len(text))
  BY <1>1, <1>2
<1>4. \A n \in 1..Len(elems) : ElemAt(waiting, elems, n) = elems[n]
  <2> SUFFICES ASSUME NEW n \in 1..Len(elems) PROVE ElemAt(waiting, elems, n) = elems[n]
    OBVIOUS
  <2>1. ~(n <= 0) /\ n - 0 = n
    BY <1>1
  <2> QED BY <1>2, <2>1 DEF ElemAt
<1> QED BY <1>1, <1>3, <1>4

(***************************************************************************)
(* After the parser the elements stay.                                     *)
(***************************************************************************)
LEMMA ParsedStays ==
  ASSUME ScriptInv, status # "parsing", status' # "parsing", UNCHANGED <<text, parsed, waiting, elems>>
  PROVE  ParsedInv'
BY DEF ScriptInv, ParsedInv

\* The function of element n is new, since numbers differ.
LEMMA GenerateElemKeeps == ScriptInv /\ GenerateElem => ScriptInv'
<1> SUFFICES ASSUME ScriptInv, GenerateElem PROVE ScriptInv'
  OBVIOUS
<1>1. /\ status = "generating" /\ status' = status
      /\ UNCHANGED <<text, parsed, waiting, elems, main, pc, calls, result>>
  BY DEF GenerateElem
<1>2. ParsedInv'
  BY <1>1, ParsedStays
<1>3. /\ elems \in Seq(ScriptElems) /\ Len(elems) \in Nat
      /\ generated \in Nat /\ generated < Len(elems) /\ generated' = generated + 1
      /\ main = <<>>
  BY <1>1 DEF ScriptInv, ParsedInv, GeneratedInv, GenerateElem
<1>4. \A k \in 1..Len(elems) : elems[k].name = k
  BY <1>1, ElementsInOrder DEF MadeFrom
<1> DEFINE e == elems[generated + 1]
<1>5. e \in ScriptElems /\ e.body \in Bodies /\ e.name = generated + 1
  <2>1. generated + 1 \in 1..Len(elems)
    BY <1>3
  <2>2. e \in ScriptElems /\ e.name = generated + 1
    BY <1>3, <1>4, <2>1
  <2> HIDE DEF e
  <2> QED BY <2>2 DEF ScriptElems
<1>6. functions' = [n \in DOMAIN functions \cup {e.name} |-> IF n = e.name THEN e.body ELSE functions[n]]
  BY DEF GenerateElem
<1> HIDE DEF e
<1>7. \A n \in DOMAIN functions : functions[n] \in Bodies
  BY DEF ScriptInv, GeneratedInv
<1>8. \A n \in DOMAIN functions' : functions'[n] \in Bodies
  BY <1>5, <1>6, <1>7
<1>9. ASSUME NEW k \in 1..(generated + 1)
      PROVE  elems[k].name \in DOMAIN functions' /\ functions'[elems[k].name] = elems[k].body
  <2>1. CASE k = generated + 1
    BY <1>6, <2>1 DEF e
  <2>2. CASE k # generated + 1
    <3>1. k \in 1..generated /\ k \in 1..Len(elems)
      BY <1>3, <2>2
    <3>2. elems[k].name \in DOMAIN functions /\ functions[elems[k].name] = elems[k].body
      BY <3>1 DEF ScriptInv, GeneratedInv
    <3>3. elems[k].name # e.name
      BY <1>4, <1>5, <2>2, <3>1
    <3> QED BY <1>6, <3>2, <3>3
  <2> QED BY <2>1, <2>2
<1>10. generated + 1 \in 0..Len(elems) /\ Len(main) = 0
  BY <1>3
<1>11. Preparing /\ Preparing'
  BY <1>1 DEF Preparing
<1>12. GeneratedInv'
  <2>1. main \in Seq(CallTypes) /\ Len(main) <= Len(elems)
    BY DEF ScriptInv, GeneratedInv
  <2> QED BY <1>1, <1>3, <1>8, <1>9, <1>10, <1>11, <2>1 DEF GeneratedInv
<1>13. RunInv'
  <2>1. calls = <<>> /\ result = Success
    BY <1>1, <1>11 DEF ScriptInv, RunInv
  <2>2. Len(calls) = 0
    BY <2>1
  <2> QED BY <1>1, <1>11, <2>1, <2>2 DEF RunInv
<1> QED BY <1>2, <1>12, <1>13 DEF ScriptInv

\* The next call is that of the next element.
LEMMA GenerateCallKeeps == ScriptInv /\ GenerateCall => ScriptInv'
<1> SUFFICES ASSUME ScriptInv, GenerateCall PROVE ScriptInv'
  OBVIOUS
<1>1. /\ status = "generating" /\ status' = status
      /\ UNCHANGED <<text, parsed, waiting, elems, generated, functions, pc, calls, result>>
  BY DEF GenerateCall
<1>2. ParsedInv'
  BY <1>1, ParsedStays
<1> DEFINE e == elems[Len(main) + 1]
<1>3. /\ elems \in Seq(ScriptElems) /\ Len(elems) \in Nat
      /\ generated = Len(elems) /\ main \in Seq(CallTypes) /\ Len(main) \in Nat
      /\ Len(main) < Len(elems) /\ main' = Append(main, CallOf(e))
  BY DEF ScriptInv, ParsedInv, GeneratedInv, GenerateCall
<1>4. CallOf(e) \in CallTypes
  <2>1. e \in ScriptElems
    BY <1>3
  <2> HIDE DEF e
  <2> QED BY <2>1 DEF CallOf, CallTypes, ScriptElems
<1>5. /\ main' \in Seq(CallTypes) /\ Len(main') = Len(main) + 1
      /\ main'[Len(main) + 1] = CallOf(e)
      /\ \A k \in 1..Len(main) : main'[k] = main[k]
  <2> HIDE DEF e
  <2> QED BY <1>3, <1>4
<1>6. ASSUME NEW k \in 1..Len(main') PROVE main'[k] = CallOf(elems[k])
  <2>1. CASE k = Len(main) + 1
    BY <1>5, <2>1
  <2>2. CASE k # Len(main) + 1
    <3>1. k \in 1..Len(main)
      BY <1>3, <1>5, <2>2
    <3> QED BY <1>5, <3>1 DEF ScriptInv, GeneratedInv
  <2> QED BY <2>1, <2>2
<1>7. Preparing /\ Preparing'
  BY <1>1 DEF Preparing
<1>8. GeneratedInv'
  <2>1. generated \in 0..Len(elems)
    BY <1>3
  <2>2. /\ \A n \in DOMAIN functions : functions[n] \in Bodies
        /\ \A k \in 1..generated :
             elems[k].name \in DOMAIN functions /\ functions[elems[k].name] = elems[k].body
    BY DEF ScriptInv, GeneratedInv
  <2>3. Len(main') <= Len(elems)
    BY <1>3, <1>5
  <2> QED BY <1>1, <1>3, <1>5, <1>6, <1>7, <2>1, <2>2, <2>3 DEF GeneratedInv
<1>9. RunInv'
  <2>1. calls = <<>> /\ result = Success
    BY <1>1, <1>7 DEF ScriptInv, RunInv
  <2>2. Len(calls) = 0
    BY <2>1
  <2> QED BY <1>1, <1>7, <2>1, <2>2 DEF RunInv
<1> QED BY <1>2, <1>8, <1>9 DEF ScriptInv

-----------------------------------------------------------------------------
(***************************************************************************)
(* From then on the program stays.                                         *)
(***************************************************************************)
LEMMA GeneratedStays ==
  ASSUME ScriptInv, generated = Len(elems), Len(main) = Len(elems),
         status' # "parsing", UNCHANGED <<elems, generated, functions, main>>
  PROVE  GeneratedInv'
BY DEF ScriptInv, GeneratedInv

\* Nothing has been called.
LEMMA StartProgramKeeps == ScriptInv /\ StartProgram => ScriptInv'
<1> SUFFICES ASSUME ScriptInv, StartProgram PROVE ScriptInv'
  OBVIOUS
<1>1. /\ status = "generating" /\ status' = "running" /\ pc' = 1
      /\ generated = Len(elems) /\ Len(main) = Len(elems)
      /\ UNCHANGED <<text, parsed, waiting, elems, generated, functions, main, calls, result>>
  BY DEF StartProgram
<1>2. ParsedInv' /\ GeneratedInv'
  BY <1>1, ParsedStays, GeneratedStays
<1>3. Preparing /\ ~Preparing'
  BY <1>1 DEF Preparing
<1>4. calls = <<>> /\ result = Success
  BY <1>1, <1>3 DEF ScriptInv, RunInv
<1>5. Len(calls) = 0 /\ Len(main) \in Nat
  BY <1>4 DEF ScriptInv, GeneratedInv
<1>6. RunInv'
  BY <1>1, <1>3, <1>4, <1>5 DEF RunInv
<1> QED BY <1>2, <1>6 DEF ScriptInv

-----------------------------------------------------------------------------
\* The fields of a call.
LEMMA CallOfFields ==
  ASSUME NEW e, NEW c, c = CallOf(e)
  PROVE  /\ c.callee = e.name
         /\ c.handler <=> e.body.kind = "trap"
         /\ c.checked <=> e.body.kind # "invoke"
<1>1. CallOf(e).handler = (e.body.kind = "trap")
  BY Zenon DEF CallOf
<1>2. CallOf(e).checked = (e.body.kind # "invoke")
  BY Zenon DEF CallOf
<1>3. CallOf(e).callee = e.name
  BY DEF CallOf
<1>4. c.handler <=> e.body.kind = "trap"
  BY <1>1, Zenon
<1>5. c.checked <=> e.body.kind # "invoke"
  BY <1>2, Zenon
<1> QED BY <1>3, <1>4, <1>5

(***************************************************************************)
(* What a running program knows of its calls and functions.                *)
(***************************************************************************)
LEMMA Running ==
  ASSUME ScriptInv, ~Preparing
  PROVE  /\ elems \in Seq(ScriptElems) /\ Len(elems) \in Nat
         /\ generated = Len(elems) /\ Len(main) = Len(elems)
         /\ pc \in Nat /\ pc \in 1..(Len(main) + 1)
         /\ \A n \in 1..Len(main) : /\ main[n] = CallOf(elems[n]) /\ main[n].callee = n
                                    /\ functions[n] = elems[n].body
                                    /\ elems[n].body \in Bodies
<1>1. status # "parsing"
  BY DEF Preparing
<1>2. elems \in Seq(ScriptElems) /\ Len(elems) \in Nat /\ \A n \in 1..Len(elems) : elems[n].name = n
  BY <1>1, ElementsInOrder DEF MadeFrom
<1>3. generated = Len(elems) /\ Len(main) = Len(elems)
  BY DEF ScriptInv, GeneratedInv
<1>4. pc \in 1..(Len(main) + 1)
  BY DEF ScriptInv, RunInv
<1>5. pc \in Nat
  BY <1>2, <1>3, <1>4
<1>6. ASSUME NEW n \in 1..Len(main)
      PROVE  /\ main[n] = CallOf(elems[n]) /\ main[n].callee = n
             /\ functions[n] = elems[n].body
             /\ elems[n].body \in Bodies
  <2>1. n \in 1..Len(elems) /\ n \in 1..generated
    BY <1>3
  <2>2. main[n] = CallOf(elems[n])
    BY DEF ScriptInv, GeneratedInv
  <2>3. elems[n].name = n /\ elems[n] \in ScriptElems
    BY <1>2, <2>1
  <2>4. functions[elems[n].name] = elems[n].body
    BY <2>1 DEF ScriptInv, GeneratedInv
  <2>5. main[n].callee = elems[n].name
    BY <2>2 DEF CallOf
  <2>6. elems[n].body \in Bodies
    BY <2>3 DEF ScriptElems
  <2> QED BY <2>2, <2>3, <2>4, <2>5, <2>6
<1> QED BY <1>2, <1>3, <1>4, <1>5, <1>6

\* What of 1..(q - 1) is not in p..(q - 1) is before p.
LEMMA Below ==
  ASSUME NEW p \in Nat, NEW q \in Nat, NEW n \in 1..(q - 1), n \notin p..(q - 1)
  PROVE  n \in 1..(p - 1)
OBVIOUS

(***************************************************************************)
(* Steps that call no function of the tests.                               *)
(***************************************************************************)
LEMMA CallsStay ==
  ASSUME ScriptInv, status = "running", status' \in {"running", "killed", "success"},
         UNCHANGED <<elems, main, calls, result>>,
         pc' \in pc..(Len(main) + 1), \A n \in pc..(pc' - 1) : main[n].handler,
         status' = "success" => pc' = Len(main) + 1
  PROVE  RunInv'
<1>1. ~Preparing /\ ~Preparing'
  BY DEF Preparing
<1>2. Len(main) \in Nat /\ pc \in Nat /\ pc \in 1..(Len(main) + 1)
  BY <1>1, Running
<1>3. pc' \in Nat /\ pc' \in 1..(Len(main) + 1) /\ pc <= pc'
  BY <1>2
<1>4. calls \in Seq(Calls) /\ Len(calls) \in Nat /\ result = Success
  BY DEF ScriptInv, RunInv
<1>5. ASSUME NEW k \in 1..Len(calls) PROVE CalledBefore(k)'
  <2>1. CalledBefore(k) /\ ~FailedAt(k)
    BY DEF ScriptInv, RunInv, FailedAt
  <2>2. calls[k].elem \in 1..Len(main) /\ ~main[calls[k].elem].handler /\ calls[k].elem < pc
    BY <2>1 DEF CalledBefore
  <2>3. calls[k].elem < pc'
    BY <1>2, <1>3, <2>2
  <2>4. ~Failing(k)
    BY <2>1 DEF CalledBefore
  <2>5. ~(Failing(k)') /\ ~(FailedAt(k)')
    BY <2>4 DEF Failing, FailedAt
  <2> QED BY <2>2, <2>3, <2>5 DEF CalledBefore
<1>6. ASSUME NEW n \in 1..(pc' - 1), ~main[n].handler
      PROVE  \E k \in 1..Len(calls) : calls[k].elem = n
  <2>1. n \in 1..(pc - 1)
    <3>1. ~(n \in pc..(pc' - 1))
      BY <1>6
    <3> QED BY <1>2, <1>3, <3>1, Below
  <2> QED BY <1>1, <1>6, <2>1 DEF ScriptInv, RunInv
<1>7. \A k, l \in 1..Len(calls) : k < l => calls[k].elem < calls[l].elem
  BY DEF ScriptInv, RunInv
<1> QED BY <1>1, <1>3, <1>4, <1>5, <1>6, <1>7 DEF RunInv

\* A call that is for the handler is left out.
LEMMA CallHandlerKeeps == ScriptInv /\ CallHandler => ScriptInv'
<1> SUFFICES ASSUME ScriptInv, CallHandler PROVE ScriptInv'
  OBVIOUS
<1>1. /\ status = "running" /\ status' = status
      /\ pc <= Len(main) /\ main[pc].handler /\ pc' = pc + 1
      /\ UNCHANGED <<text, parsed, waiting, elems, generated, functions, main, calls, result>>
  BY DEF CallHandler
<1>2. ~Preparing
  BY <1>1 DEF Preparing
<1>3. generated = Len(elems) /\ Len(main) = Len(elems) /\ Len(main) \in Nat /\ pc \in Nat
  BY <1>2, Running
<1>4. ParsedInv' /\ GeneratedInv'
  BY <1>1, <1>3, ParsedStays, GeneratedStays
<1>5. pc' \in pc..(Len(main) + 1) /\ \A n \in pc..(pc' - 1) : n = pc
  BY <1>1, <1>3
<1>6. RunInv'
  BY <1>1, <1>5, CallsStay
<1> QED BY <1>4, <1>6 DEF ScriptInv

\* All calls have been made.
LEMMA MainReturnsKeeps == ScriptInv /\ MainReturns => ScriptInv'
<1> SUFFICES ASSUME ScriptInv, MainReturns PROVE ScriptInv'
  OBVIOUS
<1>1. /\ status = "running" /\ status' = "success" /\ pc > Len(main) /\ pc' = pc
      /\ UNCHANGED <<text, parsed, waiting, elems, generated, functions, main, calls, result>>
  BY DEF MainReturns
<1>2. ~Preparing
  BY <1>1 DEF Preparing
<1>3. /\ generated = Len(elems) /\ Len(main) = Len(elems) /\ Len(main) \in Nat
      /\ pc \in Nat /\ pc \in 1..(Len(main) + 1)
  BY <1>2, Running
<1>4. ParsedInv' /\ GeneratedInv'
  BY <1>1, <1>3, ParsedStays, GeneratedStays
<1>5. pc' = Len(main) + 1 /\ pc' \in pc..(Len(main) + 1) /\ \A n \in pc..(pc' - 1) : FALSE
  BY <1>1, <1>3
<1>6. RunInv'
  BY <1>1, <1>5, CallsStay
<1> QED BY <1>4, <1>6 DEF ScriptInv

(***************************************************************************)
(* A function of the tests is called and returns.                          *)
(***************************************************************************)
LEMMA FunctionReturns ==
  ASSUME ScriptInv, status = "running", pc <= Len(main), ~main[pc].handler,
         UNCHANGED <<elems, main>>,
         NEW v \in Values, calls' = Append(calls, [elem |-> pc, answer |-> v]),
         NEW fails \in BOOLEAN,
         fails <=> main[pc].checked /\ Answer(elems[pc].body, v) # Success,
         fails => status' = "failure" /\ result' = Answer(elems[pc].body, v) /\ pc' = pc,
         ~fails => pc' = pc + 1 /\ status' = status /\ result' = result
  PROVE  RunInv'
<1>1. ~Preparing /\ ~Preparing'
  BY DEF Preparing
<1>2. Len(main) \in Nat /\ pc \in Nat /\ pc \in 1..Len(main)
  <2>1. Len(main) \in Nat /\ pc \in 1..(Len(main) + 1)
    BY <1>1, Running
  <2> QED BY <2>1
<1>3. calls \in Seq(Calls) /\ result = Success
  BY DEF ScriptInv, RunInv
<1>4. PICK m \in Nat : m = Len(calls)
  BY <1>3
<1>5. /\ calls' \in Seq(Calls) /\ Len(calls') = m + 1
      /\ calls'[m + 1] = [elem |-> pc, answer |-> v]
      /\ \A k \in 1..m : calls'[k] = calls[k]
  <2>1. [elem |-> pc, answer |-> v] \in Calls
    BY <1>2 DEF Calls
  <2> QED BY <1>3, <1>4, <2>1
<1>6. calls'[m + 1].elem = pc /\ calls'[m + 1].answer = v
  BY <1>5
<1>7. ASSUME NEW k \in 1..m
      PROVE  /\ calls'[k] = calls[k] /\ calls[k].elem \in 1..Len(main) /\ calls[k].elem < pc
             /\ ~main[calls[k].elem].handler /\ ~Failing(k)
  <2>1. CalledBefore(k) /\ ~FailedAt(k)
    BY <1>4 DEF ScriptInv, RunInv, FailedAt
  <2> QED BY <1>5, <2>1 DEF CalledBefore
<1>8. ASSUME NEW k \in 1..(m + 1) PROVE CalledBefore(k)'
  <2>1. CASE k = m + 1
    <3>1. Failing(k)' <=> fails
      BY <1>6, <2>1 DEF Failing
    <3>2. FailedAt(k)' <=> fails
      BY <1>5, <2>1 DEF FailedAt
    <3>3. IF fails THEN pc' = pc ELSE pc < pc'
      BY <1>2
    <3> QED BY <1>2, <1>6, <2>1, <3>1, <3>2, <3>3 DEF CalledBefore
  <2>2. CASE k # m + 1
    <3>1. k \in 1..m
      BY <2>2
    <3>2. ~(Failing(k)')
      BY <1>7, <3>1 DEF Failing
    <3>3. ~(FailedAt(k)')
      BY <1>5, <2>2 DEF FailedAt
    <3>4. calls[k].elem \in Nat /\ calls[k].elem < pc /\ pc <= pc'
      BY <1>2, <1>7, <3>1
    <3>5. calls[k].elem < pc'
      BY <1>2, <3>4
    <3> QED BY <1>7, <3>1, <3>2, <3>3, <3>5 DEF CalledBefore
  <2> QED BY <2>1, <2>2
<1>9. ASSUME NEW k \in 1..(m + 1), NEW l \in 1..(m + 1), k < l
      PROVE  calls'[k].elem < calls'[l].elem
  <2>1. k \in 1..m
    BY <1>4, <1>9
  <2>2. CASE l = m + 1
    BY <1>6, <1>7, <2>1, <2>2
  <2>3. CASE l # m + 1
    <3>1. l \in 1..m
      BY <2>3
    <3>2. calls[k].elem < calls[l].elem
      BY <1>4, <1>9, <2>1, <3>1 DEF ScriptInv, RunInv
    <3> QED BY <1>7, <2>1, <3>1, <3>2
  <2> QED BY <2>2, <2>3
<1>10. ASSUME NEW n \in 1..(pc' - 1), ~main[n].handler
       PROVE  \E k \in 1..(m + 1) : calls'[k].elem = n
  <2>1. CASE n = pc
    BY <1>6, <2>1
  <2>2. CASE n # pc
    <3>1. n \in 1..(pc - 1)
      BY <1>2, <2>2
    <3>2. PICK k \in 1..m : calls[k].elem = n
      BY <1>1, <1>4, <1>10, <3>1 DEF ScriptInv, RunInv
    <3> QED BY <1>7, <3>2
  <2> QED BY <2>1, <2>2
<1>11. status' = "failure" =>
         calls' # <<>> /\ pc' \in 1..Len(main) /\ result' = elems[pc].body.failure /\ pc' = pc
  <2> SUFFICES ASSUME fails
               PROVE  calls' # <<>> /\ result' = elems[pc].body.failure
    BY <1>2
  <2>1. calls' # <<>>
    BY <1>5
  <2> QED BY <2>1 DEF Answer
<1>12. pc' \in 1..(Len(main) + 1)
  BY <1>2
<1>13. status' \in {"running", "failure"} /\ (status' # "failure" => result' = Success)
  BY <1>3
<1> QED BY <1>1, <1>5, <1>8, <1>9, <1>10, <1>11, <1>12, <1>13 DEF RunInv

\* The invoked function traps, or returns as in FunctionReturns.
LEMMA CallElemKeeps == ScriptInv /\ CallElem => ScriptInv'
<1> SUFFICES ASSUME ScriptInv, CallElem PROVE ScriptInv'
  OBVIOUS
<1>1. /\ status = "running" /\ pc <= Len(main) /\ ~main[pc].handler
      /\ UNCHANGED <<text, parsed, waiting, elems, generated, functions, main>>
      /\ status' \in {"running", "killed", "failure"}
  BY DEF CallElem
<1>2. ~Preparing
  BY <1>1 DEF Preparing
<1>3. /\ generated = Len(elems) /\ Len(main) = Len(elems) /\ Len(main) \in Nat
      /\ pc \in Nat /\ pc \in 1..Len(main)
      /\ main[pc].callee = pc /\ functions[pc] = elems[pc].body
  <2>1. /\ generated = Len(elems) /\ Len(main) = Len(elems) /\ Len(main) \in Nat
        /\ pc \in Nat /\ pc \in 1..(Len(main) + 1)
    BY <1>2, Running
  <2>2. pc \in 1..Len(main)
    BY <1>1, <2>1
  <2> QED BY <1>2, <2>1, <2>2, Running
<1>4. ParsedInv' /\ GeneratedInv'
  BY <1>1, <1>3, ParsedStays, GeneratedStays
<1>5. CASE status' = "killed" /\ UNCHANGED <<pc, calls, result>>
  <2>1. pc' \in pc..(Len(main) + 1) /\ \A n \in pc..(pc' - 1) : FALSE
    BY <1>3, <1>5
  <2>2. RunInv'
    BY <1>1, <1>5, <2>1, CallsStay
  <2> QED BY <1>4, <2>2 DEF ScriptInv
<1>6. CASE \E v \in Values :
             /\ calls' = Append(calls, [elem |-> main[pc].callee, answer |-> v])
             /\ IF main[pc].checked /\ Answer(functions[main[pc].callee], v) # Success
                THEN /\ status' = "failure"
                     /\ result' = Answer(functions[main[pc].callee], v)
                     /\ UNCHANGED pc
                ELSE /\ pc' = pc + 1
                     /\ UNCHANGED <<result, status>>
  <2>1. PICK v \in Values :
             /\ calls' = Append(calls, [elem |-> main[pc].callee, answer |-> v])
             /\ IF main[pc].checked /\ Answer(functions[main[pc].callee], v) # Success
                THEN /\ status' = "failure"
                     /\ result' = Answer(functions[main[pc].callee], v)
                     /\ UNCHANGED pc
                ELSE /\ pc' = pc + 1
                     /\ UNCHANGED <<result, status>>
    BY <1>6
  <2> DEFINE fails == main[pc].checked /\ Answer(elems[pc].body, v) # Success
  <2>2. calls' = Append(calls, [elem |-> pc, answer |-> v])
    BY <1>3, <2>1
  <2>3. /\ fails => status' = "failure" /\ result' = Answer(elems[pc].body, v) /\ pc' = pc
        /\ ~fails => pc' = pc + 1 /\ status' = status /\ result' = result
    BY <1>3, <2>1
  <2>4. (fails <=> TRUE) \/ (fails <=> FALSE)
    OBVIOUS
  <2>5. RunInv'
    <3>1. CASE fails
      BY <1>1, <2>2, <2>3, <3>1, FunctionReturns
    <3>2. CASE ~fails
      BY <1>1, <2>2, <2>3, <3>2, FunctionReturns
    <3> QED BY <3>1, <3>2
  <2> QED BY <1>4, <2>5 DEF ScriptInv
<1> QED BY <1>5, <1>6 DEF CallElem

-----------------------------------------------------------------------------
\* The invariant is about these variables only.
LEMMA StutterKeeps == ScriptInv /\ UNCHANGED vars => ScriptInv'
BY DEF vars, ScriptInv, ParsedInv, GeneratedInv, RunInv, Preparing, CalledBefore, Failing, FailedAt

\* A step changes nothing or is one of these.
LEMMA ScriptStep == ScriptInv /\ [Next]_vars => ScriptInv'
<1> SUFFICES ASSUME ScriptInv, [Next]_vars PROVE ScriptInv'
  OBVIOUS
<1>1. CASE ParseElem    BY <1>1, ParseElemKeeps
<1>2. CASE ReduceFile   BY <1>2, ReduceFileKeeps
<1>3. CASE GenerateElem BY <1>3, GenerateElemKeeps
<1>4. CASE GenerateCall BY <1>4, GenerateCallKeeps
<1>5. CASE StartProgram BY <1>5, StartProgramKeeps
<1>6. CASE CallHandler  BY <1>6, CallHandlerKeeps
<1>7. CASE CallElem     BY <1>7, CallElemKeeps
<1>8. CASE MainReturns  BY <1>8, MainReturnsKeeps
<1>9. CASE Terminated \/ UNCHANGED vars
  BY <1>9, StutterKeeps DEF Terminated
<1> QED BY <1>1, <1>2, <1>3, <1>4, <1>5, <1>6, <1>7, <1>8, <1>9 DEF Next

(***************************************************************************)
(* The inductive invariant holds of every script.                          *)
(***************************************************************************)
THEOREM ScriptCorrect == Spec => []ScriptInv
BY ScriptInit, ScriptStep, PTL DEF Spec

(***************************************************************************)
(* TypeOK of the runs.                                                     *)
(***************************************************************************)
LEMMA ScriptInvTyped == ScriptInv => TypeOK
<1> SUFFICES ASSUME ScriptInv PROVE TypeOK
  OBVIOUS
<1>1. /\ waiting \in Seq(ScriptElems) /\ Len(waiting) \in Nat
      /\ elems \in Seq(ScriptElems) /\ Len(elems) \in Nat
      /\ Len(waiting) + Len(elems) = Place(text, parsed)
      /\ \A n \in 1..Place(text, parsed) : ElemAt(waiting, elems, n).name = n
  BY DEF ScriptInv, ParsedInv, MadeFrom
<1>2. ASSUME NEW k \in 1..Len(elems) PROVE elems[k].name = Len(waiting) + k
  <2> DEFINE n == Len(waiting) + k
  <2>1. n \in 1..Place(text, parsed) /\ ~(n <= Len(waiting)) /\ n - Len(waiting) = k
    BY <1>1
  <2>2. ElemAt(waiting, elems, n) = elems[k]
    BY <2>1 DEF ElemAt
  <2> QED BY <1>1, <2>1, <2>2
<1>3. ASSUME NEW k \in 1..Len(elems), NEW l \in 1..Len(elems), elems[k].name = elems[l].name
      PROVE  k = l
  BY <1>1, <1>2, <1>3
<1>4. /\ generated \in 0..Len(elems) /\ Len(main) \in Nat /\ Len(main) <= Len(elems)
      /\ \A n \in DOMAIN functions : functions[n] \in Bodies
      /\ \A k \in 1..generated :
           elems[k].name \in DOMAIN functions /\ functions[elems[k].name] = elems[k].body
  BY DEF ScriptInv, GeneratedInv
<1>5. ASSUME NEW k \in 1..Len(main) PROVE main[k].callee \in DOMAIN functions
  <2>1. main # <<>>
    BY <1>4, <1>5
  <2>2. generated = Len(elems) /\ main[k] = CallOf(elems[k])
    BY <2>1 DEF ScriptInv, GeneratedInv
  <2>3. k \in 1..generated
    BY <1>1, <1>4, <2>2
  <2> QED BY <1>4, <2>2, <2>3 DEF CallOf
<1>6. result \in Lines \cup {Success}
  <2>1. CASE status # "failure"
    BY <2>1 DEF ScriptInv, RunInv
  <2>2. CASE status = "failure"
    <3>1. ~Preparing /\ pc \in 1..Len(main) /\ result = elems[pc].body.failure
      BY <2>2 DEF ScriptInv, RunInv, Preparing
    <3>2. elems[pc].body \in Bodies
      BY <3>1, Running
    <3> QED BY <3>1, <3>2 DEF Bodies
  <2> QED BY <2>1, <2>2
<1>7. /\ parsed \in 0..Len(text)
      /\ status \in {"parsing", "generating", "running", "success", "failure", "killed"}
  BY DEF ScriptInv, ParsedInv, RunInv
<1> QED BY <1>1, <1>3, <1>4, <1>5, <1>6, <1>7 DEF TypeOK

-----------------------------------------------------------------------------
(***************************************************************************)
(* The answer of an assertion is a failure when its failure can be seen.   *)
(***************************************************************************)
LEMMA AnswerFails ==
  ASSUME NEW e \in Elements, e.kind \in {"invoke", "return", "nan"}, NEW v \in Values
  PROVE  FailsVisibly(e, v) <=> e.kind # "invoke" /\ Answer(Body(e), v) # Success
<1>1. e.line \in Nat /\ e.expect \in Values \cup {NoValue}
  BY LinesTyped DEF Elements
<1>2. Body(e).kind = e.kind /\ Body(e).expect = e.expect /\ Body(e).failure = e.line
  BY DEF Body
<1>3. Expected(Body(e)) = Expected(e)
  BY <1>2 DEF Expected
<1>4. e.line # Success
  BY <1>1 DEF Success
<1>5. CASE e.kind = "invoke"
  BY <1>5 DEF FailsVisibly, Holds, Asserts
<1>6. CASE e.kind = "return"
  BY <1>2, <1>3, <1>4, <1>6 DEF FailsVisibly, Holds, Asserts, Answer, UnorderedEqual, Expected
<1>7. CASE e.kind = "nan"
  BY <1>2, <1>3, <1>4, <1>7 DEF FailsVisibly, Holds, Asserts, Answer, UnorderedEqual, Expected
<1> QED BY <1>5, <1>6, <1>7

(***************************************************************************)
(* What is run of the text is the element with its place as number.        *)
(***************************************************************************)
LEMMA RunOfText ==
  ASSUME ScriptInv, ~Preparing, NEW i \in 1..Len(text), Runs(text, i)
  PROVE  /\ Place(text, i) \in 1..Len(main)
         /\ elems[Place(text, i)].body = Body(text[i])
         /\ ~main[Place(text, i)].handler
<1>1. status # "parsing"
  BY DEF Preparing
<1>2. /\ Len(text) \in Nat /\ Len(elems) = Place(text, Len(text))
      /\ \A n \in 1..Len(elems) : MadeFrom(text, Len(text), elems[n], n)
  BY <1>1, ElementsInOrder
<1>3. Made(text, i) /\ i \in Nat
  BY DEF Runs, Made
<1> DEFINE n == Place(text, i)
<1>4. n \in 1..Len(elems) /\ Len(main) = Len(elems)
  BY <1>2, <1>3, PlaceBounded, Running
<1>5. PICK j \in 1..Len(text) : Made(text, j) /\ Place(text, j) = n /\ elems[n].body = Body(text[j])
  BY <1>2, <1>4 DEF MadeFrom
<1>6. j = i
  <2>1. j \in Nat
    OBVIOUS
  <2> QED BY <1>3, <1>5, <2>1, PlaceInjective
<1>7. main[n] = CallOf(elems[n])
  BY <1>4, Running
<1>8. Body(text[i]).kind # "trap"
  BY DEF Body, Runs
<1>9. ~main[n].handler
  <2>1. elems[n].body.kind # "trap"
    BY <1>5, <1>6, <1>8
  <2> QED BY <1>7, <2>1, CallOfFields
<1> QED BY <1>4, <1>5, <1>6, <1>9

(***************************************************************************)
(* A call runs something of the text.                                      *)
(***************************************************************************)
LEMMA CallOfText ==
  ASSUME ScriptInv, NEW k \in 1..Len(calls)
  PROVE  \E i \in 1..Len(text) : /\ IsCallOf(k, i)
                                 /\ elems[calls[k].elem].body = Body(text[i])
<1>1. ~Preparing
  BY DEF ScriptInv, RunInv
<1>2. status # "parsing"
  BY <1>1 DEF Preparing
<1>3. /\ text \in Seq(Elements)
      /\ \A n \in 1..Len(elems) : MadeFrom(text, Len(text), elems[n], n)
  BY <1>2, ElementsInOrder
<1> DEFINE n == calls[k].elem
<1>4. n \in 1..Len(main) /\ ~main[n].handler
  BY DEF ScriptInv, RunInv, CalledBefore
<1>5. n \in 1..Len(elems) /\ main[n] = CallOf(elems[n])
  BY <1>1, <1>4, Running
<1>6. PICK i \in 1..Len(text) : Made(text, i) /\ Place(text, i) = n /\ elems[n].body = Body(text[i])
  BY <1>3, <1>5 DEF MadeFrom
<1>7. text[i].kind # "trap"
  <2>1. elems[n].body.kind # "trap"
    BY <1>4, <1>5, CallOfFields
  <2> QED BY <1>6, <2>1 DEF Body
<1>8. text[i].kind \in Kinds
  <2>1. text[i] \in Elements
    BY <1>3
  <2> QED BY <2>1 DEF Elements
<1>9. Runs(text, i)
  BY <1>6, <1>7, <1>8 DEF Runs, Made, Kinds
<1> QED BY <1>6, <1>9 DEF IsCallOf

\* The invariant says what is run and reported.
LEMMA ScriptInvReports == ScriptInv => FirstFailureReported
<1> SUFFICES ASSUME ScriptInv PROVE FirstFailureReported
  OBVIOUS
<1>1. calls \in Seq(Calls) /\ Len(calls) \in Nat
  BY DEF ScriptInv, RunInv
<1>2. ASSUME NEW k \in 1..Len(calls)
      PROVE  \E i \in 1..Len(text) :
               /\ IsCallOf(k, i)
               /\ \A j \in 1..(i - 1) : Runs(text, j) => \E l \in 1..(k - 1) : IsCallOf(l, j)
               /\ FailsVisibly(text[i], calls[k].answer) <=> FailedAt(k)
               /\ FailedAt(k) => result = text[i].line
  <2>1. PICK i \in 1..Len(text) : IsCallOf(k, i) /\ elems[calls[k].elem].body = Body(text[i])
    BY CallOfText
  <2> DEFINE n == calls[k].elem
  <2>2. ~Preparing /\ CalledBefore(k)
    BY DEF ScriptInv, RunInv
  <2>3. Runs(text, i) /\ n = Place(text, i)
    BY <2>1 DEF IsCallOf
  <2>4. /\ n \in 1..Len(main) /\ pc \in Nat /\ main[n] = CallOf(elems[n])
    BY <2>2, Running DEF CalledBefore
  <2>5. text \in Seq(Elements) /\ text[i] \in Elements /\ Len(text) \in Nat /\ i \in Nat
    BY DEF ScriptInv, ParsedInv
  <2>6. FailsVisibly(text[i], calls[k].answer) <=> FailedAt(k)
    <3>1. calls[k].answer \in Values
      <4>1. calls[k] \in Calls
        BY <1>1
      <4> QED BY <4>1 DEF Calls
    <3>2. FailsVisibly(text[i], calls[k].answer) <=>
            text[i].kind # "invoke" /\ Answer(Body(text[i]), calls[k].answer) # Success
      BY <2>3, <2>5, <3>1, AnswerFails DEF Runs
    <3>3. main[n].checked <=> text[i].kind # "invoke"
      <4>1. main[n].checked <=> elems[n].body.kind # "invoke"
        BY <2>4, CallOfFields
      <4>2. elems[n].body.kind = text[i].kind
        BY <2>1 DEF Body
      <4> QED BY <4>1, <4>2
    <3>4. Failing(k) <=> FailedAt(k)
      BY <2>2 DEF CalledBefore
    <3> QED BY <2>1, <3>2, <3>3, <3>4 DEF Failing
  <2>7. FailedAt(k) => result = text[i].line
    <3> SUFFICES ASSUME FailedAt(k) PROVE result = text[i].line
      OBVIOUS
    <3>1. n = pc
      BY <2>2 DEF CalledBefore
    <3>2. result = elems[pc].body.failure
      BY DEF ScriptInv, RunInv, FailedAt
    <3> QED BY <2>1, <3>1, <3>2 DEF Body
  <2>8. ASSUME NEW j \in 1..(i - 1), Runs(text, j)
        PROVE  \E l \in 1..(k - 1) : IsCallOf(l, j)
    <3>1. j \in Nat /\ j < i /\ j \in 1..Len(text)
      BY <2>5
    <3>2. Place(text, j) < Place(text, i)
      BY <2>3, <2>5, <3>1, PlaceGrows DEF Runs, Made
    <3>3. Place(text, j) \in 1..Len(main) /\ ~main[Place(text, j)].handler
      BY <2>2, <2>8, <3>1, RunOfText
    <3>4. n <= pc
      BY <2>2, <2>4 DEF CalledBefore
    <3>5. Place(text, j) \in 1..(pc - 1)
      BY <2>3, <2>4, <3>2, <3>3, <3>4
    <3>6. PICK l \in 1..Len(calls) : calls[l].elem = Place(text, j)
      BY <2>2, <3>3, <3>5 DEF ScriptInv, RunInv
    <3>7. calls[l].elem < calls[k].elem /\ calls[l].elem \in Nat /\ calls[k].elem \in Nat
      BY <2>3, <2>4, <3>2, <3>3, <3>6
    <3>8. ~(k < l)
      BY <3>7 DEF ScriptInv, RunInv
    <3>9. l \in 1..(k - 1)
      BY <1>1, <3>7, <3>8
    <3> QED BY <2>8, <3>6, <3>9 DEF IsCallOf
  <2> QED BY <2>1, <2>6, <2>7, <2>8
<1>3. \A k, l \in 1..Len(calls) : k < l => calls[k].elem < calls[l].elem
  BY DEF ScriptInv, RunInv
<1>4. status = "failure" => calls # <<>>
  BY DEF ScriptInv, RunInv
<1>5. ASSUME status = "success"
      PROVE  /\ result = Success
             /\ \A i \in 1..Len(text) : Runs(text, i) => \E k \in 1..Len(calls) : IsCallOf(k, i)
  <2>1. ~Preparing /\ result = Success /\ pc = Len(main) + 1
    BY <1>5 DEF ScriptInv, RunInv, Preparing
  <2>2. ASSUME NEW i \in 1..Len(text), Runs(text, i)
        PROVE  \E k \in 1..Len(calls) : IsCallOf(k, i)
    <3>1. Place(text, i) \in 1..Len(main) /\ ~main[Place(text, i)].handler
      BY <2>1, <2>2, RunOfText
    <3>2. Len(main) \in Nat
      BY <2>1, Running
    <3>3. Place(text, i) \in 1..(pc - 1)
      BY <2>1, <3>1, <3>2
    <3>4. \E k \in 1..Len(calls) : calls[k].elem = Place(text, i)
      BY <2>1, <3>1, <3>3 DEF ScriptInv, RunInv
    <3> QED BY <2>2, <3>4 DEF IsCallOf
  <2> QED BY <2>1, <2>2
<1> QED BY <1>2, <1>3, <1>4, <1>5 DEF FirstFailureReported

-----------------------------------------------------------------------------
(***************************************************************************)
(* Types, and that each call of execute_script has a function, which is    *)
(* that of its element.                                                    *)
(***************************************************************************)
THEOREM ScriptTyped == Spec => []TypeOK
BY ScriptCorrect, ScriptInvTyped, PTL

(***************************************************************************)
(* Although FILE is reduced from the end of the text on and the elements   *)
(* are generated before they are called, a script of any length is run in  *)
(* the order of its text, and its result is the line of the first          *)
(* assertion that is seen to fail.                                         *)
(***************************************************************************)
THEOREM FirstFailureFirst == Spec => []FirstFailureReported
BY ScriptCorrect, ScriptInvReports, PTL
=============================================================================
