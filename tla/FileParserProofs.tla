-------------------------- MODULE FileParserProofs --------------------------
(***************************************************************************)
(* Theorems about FileParser, for every set of scripts, well formed or     *)
(* not.                                                                    *)
(***************************************************************************)
EXTENDS FileParser, FiniteSetTheorems, SequenceTheorems, WellFoundedInduction, TLAPS

(***************************************************************************)
(* Positions of a text: the first one of some, and the last one.           *)
(***************************************************************************)
LEMMA NotBelow ==
  ASSUME NEW i \in Nat, NEW j \in Nat, <<i, j>> \notin OpToRel(<, Nat)
  PROVE  j <= i
BY DEF OpToRel

LEMMA LeastPosition ==
  ASSUME NEW S \in SUBSET Nat, S # {}
  PROVE  \E x \in S : \A y \in S : x <= y
<1>1. PICK x \in S : \A y \in S : ~(<<y, x>> \in OpToRel(<, Nat))
  BY WFMin, NatLessThanWellFounded
<1> QED BY <1>1, NotBelow

LEMMA LastPosition ==
  ASSUME NEW n \in Nat, NEW S \in SUBSET (1..n), S # {}
  PROVE  \E x \in S : \A y \in S : y <= x
<1> DEFINE R == {r \in Nat : \E y \in S : r = n - y}
<1>1. R \in SUBSET Nat /\ R # {}
  <2>1. PICK y \in S : TRUE
    OBVIOUS
  <2>2. n - y \in R
    OBVIOUS
  <2> QED BY <2>2
<1>2. PICK r \in R : \A q \in R : r <= q
  BY <1>1, LeastPosition
<1>3. PICK x \in S : r = n - x
  BY <1>2
<1>4. ASSUME NEW y \in S PROVE y <= x
  <2>1. n - y \in R
    OBVIOUS
  <2>2. n - x <= n - y
    BY <1>2, <1>3, <2>1
  <2> QED BY <2>2
<1> QED BY <1>4

(***************************************************************************)
(* The newlines before a position.                                         *)
(***************************************************************************)
NewlinesBefore(p) == {i \in 1..(p - 1) : text[i].t = "newline"}

LEMMA NewlinesCounted ==
  ASSUME NEW p \in Nat
  PROVE  Cardinality(NewlinesBefore(p)) \in Nat /\ IsFiniteSet(NewlinesBefore(p))
<1>1. IsFiniteSet(1..(p - 1))
  BY FS_Interval
<1>2. IsFiniteSet(NewlinesBefore(p))
  BY <1>1, FS_Subset DEF NewlinesBefore
<1> QED BY <1>2, FS_CardinalityType

LEMMA OneMoreNewline ==
  ASSUME NEW p \in Nat \ {0}, text[p].t = "newline"
  PROVE  Cardinality(NewlinesBefore(p + 1)) = Cardinality(NewlinesBefore(p)) + 1
<1>1. NewlinesBefore(p + 1) = NewlinesBefore(p) \cup {p}
  BY DEF NewlinesBefore
<1>2. p \notin NewlinesBefore(p)
  BY DEF NewlinesBefore
<1> QED BY <1>1, <1>2, NewlinesCounted, FS_AddElement

LEMMA NoMoreNewlines ==
  ASSUME NEW p \in Nat \ {0}, NEW q \in Nat, p <= q, \A i \in p..(q - 1) : text[i].t # "newline"
  PROVE  NewlinesBefore(q) = NewlinesBefore(p)
BY DEF NewlinesBefore

(***************************************************************************)
(* A comment ends somewhere: what the scanner chooses exists.              *)
(***************************************************************************)
CommentEnds(p) ==
  LET last == p - 1
  IN /\ SameLine(pos, last)
     /\ IF text[pos].t = "remark"
        THEN p > Len(text) \/ text[p].t = "newline"
        ELSE /\ text[last].t = "comment"
             /\ \A q \in p..Len(text) : SameLine(p, q) => text[q].t # "comment"

LEMMA CommentHasEnd ==
  ASSUME Len(text) \in Nat, pos \in 1..Len(text), text[pos].t \in {"comment", "remark"}
  PROVE  \E p \in (pos + 1)..(Len(text) + 1) : CommentEnds(p)
<1>1. CASE text[pos].t = "remark"
  <2> DEFINE S == {p \in (pos + 1)..(Len(text) + 1) : p = Len(text) + 1 \/ text[p].t = "newline"}
  <2>1. S \in SUBSET Nat /\ Len(text) + 1 \in S
    OBVIOUS
  <2>2. PICK p \in S : \A q \in S : p <= q
    BY <2>1, LeastPosition
  <2>3. SameLine(pos, p - 1)
    <3> SUFFICES ASSUME NEW i \in pos..(p - 1) PROVE text[i].t # "newline"
      BY DEF SameLine
    <3>1. CASE i = pos
      BY <1>1, <3>1
    <3>2. CASE i # pos
      <4>1. i \in (pos + 1)..(Len(text) + 1) /\ ~(p <= i)
        BY <3>2
      <4> QED BY <2>2, <4>1
    <3> QED BY <3>1, <3>2
  <2>4. p > Len(text) \/ text[p].t = "newline"
    OBVIOUS
  <2> QED BY <1>1, <2>3, <2>4 DEF CommentEnds
<1>2. CASE text[pos].t = "comment"
  <2> DEFINE S == {i \in 1..Len(text) : i >= pos /\ text[i].t = "comment" /\ SameLine(pos, i)}
  <2>1. pos \in S
    BY <1>2 DEF SameLine
  <2>2. PICK x \in S : \A y \in S : y <= x
    BY <2>1, LastPosition
  <2>3. ASSUME NEW q \in (x + 1)..Len(text), SameLine(x + 1, q)
        PROVE  text[q].t # "comment"
    <3>1. \A i \in pos..x : text[i].t # "newline"
      BY DEF SameLine
    <3>2. \A i \in (x + 1)..q : text[i].t # "newline"
      BY <2>3 DEF SameLine
    <3>3. \A i \in pos..q : text[i].t # "newline"
      BY <3>1, <3>2
    <3>4. SameLine(pos, q)
      BY <3>3 DEF SameLine
    <3>5. q \in 1..Len(text) /\ q >= pos /\ ~(q <= x)
      OBVIOUS
    <3> QED BY <2>2, <3>4, <3>5
  <2>4. x + 1 \in (pos + 1)..(Len(text) + 1) /\ (x + 1) - 1 = x
    OBVIOUS
  <2>5. CommentEnds(x + 1)
    BY <1>2, <2>3, <2>4 DEF CommentEnds
  <2> QED BY <2>4, <2>5
<1> QED BY <1>1, <1>2

-----------------------------------------------------------------------------
(***************************************************************************)
(* Lists of whatever they hold.                                            *)
(***************************************************************************)
IsList(s) == s \in Seq(ToSet(s))

LEMMA SequenceIsList ==
  ASSUME NEW S, NEW s \in Seq(S)
  PROVE  IsList(s)
<1>1. \A i \in 1..Len(s) : s[i] \in ToSet(s)
  BY DEF ToSet
<1>2. s = [i \in 1..Len(s) |-> s[i]] /\ Len(s) \in Nat
  OBVIOUS
<1> QED BY <1>1, <1>2 DEF IsList

LEMMA ListLength ==
  ASSUME NEW s, IsList(s)
  PROVE  Len(s) \in Nat /\ DOMAIN s = 1..Len(s)
BY DEF IsList

LEMMA ListAppended ==
  ASSUME NEW s, IsList(s), NEW e
  PROVE  /\ IsList(Append(s, e))
         /\ Len(Append(s, e)) = Len(s) + 1
         /\ \A i \in 1..Len(s) : Append(s, e)[i] = s[i]
         /\ Append(s, e)[Len(s) + 1] = e
<1> DEFINE S == ToSet(s) \cup {e}
<1>1. s \in Seq(S)
  BY DEF IsList
<1>2. e \in S
  OBVIOUS
<1> HIDE DEF S
<1>3. Append(s, e) \in Seq(S)
  BY <1>1, <1>2, AppendProperties
<1>4. IsList(Append(s, e))
  BY <1>3, SequenceIsList
<1> QED BY <1>1, <1>2, <1>4, AppendProperties

LEMMA ListShortened ==
  ASSUME NEW s, IsList(s), Len(s) > 0
  PROVE  /\ IsList(SubSeq(s, 1, Len(s) - 1))
         /\ Len(SubSeq(s, 1, Len(s) - 1)) = Len(s) - 1
         /\ \A i \in 1..(Len(s) - 1) : SubSeq(s, 1, Len(s) - 1)[i] = s[i]
<1>1. s \in Seq(ToSet(s)) /\ Len(s) \in Nat
  BY DEF IsList
<1>2. \A i \in 1..(Len(s) - 1) : s[i] \in ToSet(s)
  BY <1>1
<1>3. /\ SubSeq(s, 1, Len(s) - 1) \in Seq(ToSet(s))
      /\ Len(SubSeq(s, 1, Len(s) - 1)) = Len(s) - 1
      /\ \A i \in 1..(Len(s) - 1) : SubSeq(s, 1, Len(s) - 1)[i] = s[i]
  <2>0. Len(s) \in Nat /\ Len(s) > 0
    BY <1>1
  <2>1. PICK n \in Nat : n = Len(s) - 1
    BY <2>0
  <2>2. n \in Int /\ 1 \in Int /\ n - 1 + 1 = n /\ (1 <= n \/ n = 0)
    BY <2>1
  <2>3. /\ SubSeq(s, 1, n) \in Seq(ToSet(s))
        /\ Len(SubSeq(s, 1, n)) = IF 1 <= n THEN n - 1 + 1 ELSE 0
        /\ \A i \in 1..(n - 1 + 1) : SubSeq(s, 1, n)[i] = s[1 + i - 1]
    BY <1>2, <2>1, <2>2, SubSeqProperties
  <2>4. Len(SubSeq(s, 1, n)) = n
    BY <2>2, <2>3
  <2>5. \A i \in 1..n : 1 + i - 1 = i
    BY <2>1
  <2>6. \A i \in 1..n : SubSeq(s, 1, n)[i] = s[i]
    BY <2>2, <2>3, <2>5
  <2> QED BY <2>1, <2>3, <2>4, <2>6
<1>4. IsList(SubSeq(s, 1, Len(s) - 1))
  BY <1>3, SequenceIsList
<1> QED BY <1>3, <1>4

Replaced(s, n, e) == [s EXCEPT ![n] = e]

LEMMA ListReplaced ==
  ASSUME NEW s, IsList(s), NEW n, n \in 1..Len(s), NEW e, NEW t, t = Replaced(s, n, e)
  PROVE  /\ IsList(t) /\ Len(t) = Len(s) /\ t[n] = e
         /\ \A i \in 1..Len(s) : i # n => t[i] = s[i]
<1> DEFINE S == ToSet(s) \cup {e}
<1>1. s \in Seq(S)
  BY DEF IsList
<1>2. e \in S
  OBVIOUS
<1> HIDE DEF S
<1>3. [s EXCEPT ![n] = e] \in Seq(S)
  BY <1>1, <1>2, ExceptSeq
<1>4. IsList([s EXCEPT ![n] = e])
  BY <1>3, SequenceIsList
<1> QED BY <1>1, <1>2, <1>4, ExceptSeq DEF Replaced

-----------------------------------------------------------------------------
(***************************************************************************)
(* The grammar: heads are finite, and what is collected from the end is    *)
(* never a load or a store.                                                *)
(***************************************************************************)
LEMMA GrammarTyped ==
  ASSUME NEW op \in Keywords \cup {"file"}, NEW rule \in Rules(op)
  PROVE  /\ Len(rule.head) \in Nat
         /\ RightRecursive(rule) => op \notin {"load", "store"}
BY DEF Keywords, Rules, Rule, RightRecursive

FormOK(f) ==
  /\ DOMAIN f = {"op", "items", "folding", "head", "made"}
  /\ f.op \in Keywords \cup {"file"}
  /\ IsList(f.items)
  /\ f.folding \in BOOLEAN
  /\ f.head \in Nat /\ f.head <= Len(f.items)
  /\ f.folding => f.op \notin {"load", "store"}
  /\ ~f.folding => f.head = 0

(***************************************************************************)
(* What the scanner keeps.                                                 *)
(***************************************************************************)
ScannerOK ==
  /\ script \in Scripts
  /\ pos \in 1..(Len(text) + 1)
  /\ skip \in Nat /\ (skip > 0 => look.op = "assert_invalid")
  /\ line = 1 + Cardinality(NewlinesBefore(pos))
  /\ look.t = "open" => look.op \in Keywords

(***************************************************************************)
(* What the parser keeps: only the innermost form is being collected, and  *)
(* only while the lookahead is what ends it.                               *)
(***************************************************************************)
StackOK ==
  /\ IsList(stack) /\ Len(stack) > 0
  /\ \A i \in 1..Len(stack) : FormOK(stack[i])
  /\ \A i \in 1..Len(stack) : stack[i].op = "file" <=> i = 1
  /\ \A i \in 1..Len(stack) : stack[i].folding => status # "parsing" \/ i = Len(stack)

EndInSight == Top.folding => status # "parsing" \/ look.t \in {"close", "eof"}

CountsOK == counts \in [fun : Nat, mod : Nat]

StatusOK == status \in {"parsing", "parsed", "done", "error", "crashed"}

ParserInv == ScannerOK /\ StackOK /\ EndInSight /\ CountsOK /\ StatusOK
-----------------------------------------------------------------------------
LEMMA InvMeansTyped ==
  ASSUME ParserInv
  PROVE  TypeOK
BY DEF ParserInv, ScannerOK, StackOK, CountsOK, StatusOK, FormOK, TypeOK, NewlinesBefore

LEMMA TextTyped ==
  ASSUME script \in Scripts
  PROVE  /\ Len(text) \in Nat
         /\ \A i \in 1..Len(text) : text[i].t = "open" => text[i].op \in Keywords
<1>0. text \in Seq(ToSet(text))
  BY ScriptsTyped, Zenon DEF text
<1>1. Len(text) \in Nat
  BY <1>0
<1>2. \A i \in 1..Len(text) : text[i].t = "open" => text[i].op \in Keywords
  BY ScriptsTyped DEF text
<1> QED BY <1>1, <1>2

LEMMA TokensTyped ==
  ASSUME script \in Scripts, NEW i \in 1..Len(text)
  PROVE  /\ text[i].t = "atom" => text[i].op \in Atoms
         /\ text[i].t \notin {"open", "atom"} => text[i].op = ""
BY ScriptsTyped DEF text

LEMMA InvInit ==
  ASSUME Init
  PROVE  ParserInv
<1>1. ScannerOK
  <2>1. Len(text) \in Nat
    BY TextTyped DEF Init
  <2>2. NewlinesBefore(1) = {}
    BY DEF NewlinesBefore
  <2>3. Cardinality(NewlinesBefore(pos)) = 0
    BY <2>2, FS_EmptySet DEF Init
  <2>4. look.t # "open"
    BY DEF Init, NoLexeme, Lexeme
  <2>5. line = 1 + Cardinality(NewlinesBefore(pos))
    BY <2>3 DEF Init
  <2> QED BY <2>1, <2>4, <2>5 DEF Init, ScannerOK
<1>2. StackOK
  <2> DEFINE f == Form("file")
  <2>1. FormOK(f) /\ f.op = "file" /\ f.folding = FALSE
    <3>1. <<>> \in Seq({})
      OBVIOUS
    <3>2. IsList(<<>>)
      BY <3>1, SequenceIsList
    <3> QED BY <3>2 DEF FormOK, Form
  <2> HIDE DEF f
  <2>2. stack = <<f>>
    BY DEF Init, f
  <2>3. stack \in Seq({f}) /\ Len(stack) = 1 /\ stack[1] = f
    BY <2>2
  <2>4. IsList(stack)
    BY <2>3, SequenceIsList
  <2> QED BY <2>1, <2>3, <2>4 DEF StackOK
<1>3. EndInSight
  BY DEF Init, EndInSight, Top, Form
<1> QED BY <1>1, <1>2, <1>3 DEF Init, ParserInv, CountsOK, StatusOK

(***************************************************************************)
(* Steps that leave the parser, or the scanner, alone.                     *)
(***************************************************************************)
LEMMA ScannerKept ==
  ASSUME ScannerOK, UNCHANGED <<script, pos, line, skip, look>>
  PROVE  ScannerOK'
BY DEF ScannerOK, text, NewlinesBefore

LEMMA StackKept ==
  ASSUME StackOK, UNCHANGED <<stack, status>>
  PROVE  StackOK'
BY DEF StackOK

LEMMA NotParsingKeeps ==
  ASSUME ParserInv, UNCHANGED <<script, pos, line, skip, look, stack, counts>>, StatusOK',
         status' # "parsing"
  PROVE  ParserInv'
<1>1. ScannerOK'
  BY ScannerKept DEF ParserInv
<1>2. StackOK'
  BY DEF ParserInv, StackOK
<1> QED BY <1>1, <1>2 DEF ParserInv, EndInSight, CountsOK

LEMMA StopKeeps ==
  ASSUME ParserInv, NEW s \in {"parsed", "done", "error", "crashed"}, Stop(s)
  PROVE  ParserInv'
<1>1. StatusOK' /\ status' # "parsing"
  BY DEF Stop, StatusOK
<1> QED BY <1>1, NotParsingKeeps DEF Stop

LEMMA SameKeeps ==
  ASSUME ParserInv, UNCHANGED <<script, pos, line, skip, look, stack, counts, status>>
  PROVE  ParserInv'
BY ScannerKept, StackKept DEF ParserInv, EndInSight, Top, CountsOK, StatusOK

(***************************************************************************)
(* The scanner reads while no form is being collected.                     *)
(***************************************************************************)
LEMMA NotFolding ==
  ASSUME ParserInv, status = "parsing", look = NoLexeme
  PROVE  Top.folding = FALSE
<1>1. look.t \notin {"close", "eof"}
  BY DEF NoLexeme, Lexeme
<1>2. FormOK(Top)
  BY ListLength DEF ParserInv, StackOK, Top
<1> QED BY <1>1, <1>2 DEF ParserInv, EndInSight, FormOK

LEMMA ScannerStep ==
  ASSUME ParserInv, ScannerOK', UNCHANGED <<stack, counts, status>>,
         Top.folding => status # "parsing" \/ look' = look
  PROVE  ParserInv'
<1>1. StackOK'
  BY StackKept DEF ParserInv
<1>2. EndInSight'
  BY DEF ParserInv, EndInSight, Top
<1> QED BY <1>1, <1>2 DEF ParserInv, CountsOK, StatusOK
LEMMA NewlineKeeps ==
  ASSUME ParserInv, Newline
  PROVE  ParserInv'
<1>1. ScannerOK'
  <2>1. pos \in 1..Len(text) /\ Len(text) \in Nat /\ text[pos].t = "newline"
    BY TextTyped DEF ParserInv, ScannerOK, Newline, Scanning
  <2>2. Cardinality(NewlinesBefore(pos + 1)) = Cardinality(NewlinesBefore(pos)) + 1
    BY <2>1, OneMoreNewline
  <2>3. Cardinality(NewlinesBefore(pos)) \in Nat
    BY <2>1, NewlinesCounted
  <2>4. line + 1 = 1 + Cardinality(NewlinesBefore(pos + 1))
    BY <2>2, <2>3 DEF ParserInv, ScannerOK
  <2>5. NewlinesBefore(pos)' = NewlinesBefore(pos + 1)
    BY DEF Newline, NewlinesBefore, text
  <2>6. text' = text
    BY DEF Newline, text
  <2> QED BY <2>1, <2>4, <2>5, <2>6 DEF ParserInv, ScannerOK, Newline
<1> QED BY <1>1, ScannerStep DEF Newline

LEMMA CommentKeeps ==
  ASSUME ParserInv, Comment
  PROVE  ParserInv'
<1>1. pos \in 1..Len(text) /\ Len(text) \in Nat /\ text[pos].t \in {"comment", "remark"}
  BY TextTyped DEF ParserInv, ScannerOK, Comment, Scanning
<1>2. pos' = CHOOSE p \in (pos + 1)..(Len(text) + 1) : CommentEnds(p)
  BY DEF Comment, CommentEnds
<1>3. pos' \in (pos + 1)..(Len(text) + 1) /\ CommentEnds(pos')
  BY <1>1, <1>2, CommentHasEnd
<1>4. \A i \in pos..(pos' - 1) : text[i].t # "newline"
  BY <1>3 DEF CommentEnds, SameLine
<1>5. NewlinesBefore(pos') = NewlinesBefore(pos)
  <2>1. pos \in Nat \ {0} /\ pos' \in Nat /\ pos <= pos'
    BY <1>1, <1>3
  <2> QED BY <1>4, <2>1, NoMoreNewlines
<1>6. text' = text
  BY DEF Comment, text
<1>7. NewlinesBefore(pos)' = NewlinesBefore(pos')
  BY <1>6 DEF NewlinesBefore
<1>8. ScannerOK'
  BY <1>1, <1>3, <1>5, <1>6, <1>7 DEF ParserInv, ScannerOK, Comment
<1> QED BY <1>8, ScannerStep DEF Comment

LEMMA TokenKeeps ==
  ASSUME ParserInv, Token
  PROVE  ParserInv'
<1>1. /\ pos \in 1..Len(text) /\ Len(text) \in Nat /\ text[pos].t # "newline"
      /\ text[pos].t = "open" => text[pos].op \in Keywords
  BY TextTyped DEF ParserInv, ScannerOK, Token, Scanning
<1>2. NewlinesBefore(pos + 1) = NewlinesBefore(pos)
  BY <1>1, NoMoreNewlines
<1>3. text' = text
  BY DEF Token, text
<1>4. NewlinesBefore(pos)' = NewlinesBefore(pos + 1)
  BY <1>3 DEF Token, NewlinesBefore
<1>5. ScannerOK'
  BY <1>1, <1>2, <1>3, <1>4 DEF ParserInv, ScannerOK, Token
<1>6. Top.folding = FALSE
  BY NotFolding DEF Token, Scanning
<1> QED BY <1>5, <1>6, ScannerStep DEF Token

LEMMA SkipInvalidKeeps ==
  ASSUME ParserInv, SkipInvalid
  PROVE  ParserInv'
<1> DEFINE t == text[pos].t
           n == IF t = "open" THEN skip + 1 ELSE IF t = "close" THEN skip - 1 ELSE skip
<1>1. pos \in 1..Len(text) /\ Len(text) \in Nat /\ skip \in Nat \ {0} /\ look.op = "assert_invalid"
  BY TextTyped DEF ParserInv, ScannerOK, SkipInvalid, Skipping
<1>2. /\ line' = IF t = "newline" THEN line + 1 ELSE line
      /\ skip' = n
      /\ pos' = IF n = 0 THEN pos ELSE pos + 1
  BY DEF SkipInvalid
<1>3. n \in Nat /\ (t = "newline" => n # 0)
  BY <1>1
<1> HIDE DEF n
<1>4. text' = text
  BY DEF SkipInvalid, text
<1>5. NewlinesBefore(pos)' = NewlinesBefore(pos')
  BY <1>4 DEF NewlinesBefore
<1>6. line' = 1 + Cardinality(NewlinesBefore(pos'))
  <2>1. CASE t = "newline"
    <3>1. Cardinality(NewlinesBefore(pos + 1)) = Cardinality(NewlinesBefore(pos)) + 1
      BY <1>1, <2>1, OneMoreNewline
    <3>2. Cardinality(NewlinesBefore(pos)) \in Nat
      BY <1>1, NewlinesCounted
    <3> QED BY <1>2, <1>3, <2>1, <3>1, <3>2 DEF ParserInv, ScannerOK
  <2>2. CASE t # "newline"
    <3>1. NewlinesBefore(pos + 1) = NewlinesBefore(pos)
      BY <1>1, <2>2, NoMoreNewlines
    <3>2. NewlinesBefore(pos') = NewlinesBefore(pos)
      BY <1>2, <3>1
    <3> QED BY <1>2, <2>2, <3>2 DEF ParserInv, ScannerOK
  <2> QED BY <2>1, <2>2
<1>7. pos' \in 1..(Len(text) + 1)
  BY <1>1, <1>2
<1>8. ScannerOK'
  BY <1>1, <1>2, <1>3, <1>4, <1>5, <1>6, <1>7 DEF ParserInv, ScannerOK, SkipInvalid
<1> QED BY <1>8, ScannerStep DEF SkipInvalid

LEMMA EndOfTextKeeps ==
  ASSUME ParserInv, EndOfText
  PROVE  ParserInv'
<1>1. text' = text /\ NewlinesBefore(pos)' = NewlinesBefore(pos)
  BY DEF EndOfText, text, NewlinesBefore
<1>2. look'.t # "open"
  BY DEF EndOfText, EOF, Lexeme
<1>3. skip' = 0
  BY DEF EndOfText
<1>4. ScannerOK'
  BY <1>1, <1>2, <1>3 DEF ParserInv, ScannerOK, EndOfText
<1>5. Top.folding = FALSE
  BY NotFolding DEF EndOfText
<1> QED BY <1>4, <1>5, ScannerStep DEF EndOfText
-----------------------------------------------------------------------------
(***************************************************************************)
(* The parser changes the innermost form, opens one or closes it.          *)
(***************************************************************************)
LEMMA TopTyped ==
  ASSUME StackOK
  PROVE  Len(stack) \in 1..Len(stack) /\ Len(stack) \in Nat /\ FormOK(Top)
BY ListLength DEF StackOK, Top

LEMMA TopReplaced ==
  ASSUME StackOK, status = "parsing", status' = status,
         NEW f, FormOK(f), f.op = Top.op,
         stack' = Replaced(stack, Len(stack), f)
  PROVE  StackOK' /\ Top' = f
<1>1. Len(stack) \in 1..Len(stack) /\ IsList(stack)
  BY TopTyped DEF StackOK
<1>2. /\ IsList(stack') /\ Len(stack') = Len(stack)
      /\ \A i \in 1..Len(stack) : i # Len(stack) => stack'[i] = stack[i]
      /\ stack'[Len(stack)] = f
  BY <1>1, ListReplaced
<1>3. \A i \in 1..Len(stack') : FormOK(stack'[i])
  BY <1>2 DEF StackOK
<1>4. \A i \in 1..Len(stack') : stack'[i].op = "file" <=> i = 1
  <2>1. \A i \in 1..Len(stack) : stack'[i].op = stack[i].op
    BY <1>2 DEF Top
  <2> QED BY <1>2, <2>1 DEF StackOK
<1>5. \A i \in 1..Len(stack') : stack'[i].folding => status' # "parsing" \/ i = Len(stack')
  BY <1>2 DEF StackOK
<1>6. Top' = f
  BY <1>2 DEF Top
<1> QED BY <1>2, <1>3, <1>4, <1>5, <1>6 DEF StackOK

LEMMA FormOpened ==
  ASSUME StackOK, status = "parsing", status' = status, ~Top.folding,
         NEW op \in Keywords, stack' = Append(stack, Form(op))
  PROVE  StackOK' /\ ~Top'.folding
<1> DEFINE f == Form(op)
<1>1. FormOK(f) /\ f.op = op /\ ~f.folding
  <2>1. <<>> \in Seq({})
    OBVIOUS
  <2>2. IsList(<<>>)
    BY <2>1, SequenceIsList
  <2> QED BY <2>2 DEF FormOK, Form
<1>2. op # "file"
  BY DEF Keywords
<1> HIDE DEF f
<1>3. IsList(stack) /\ Len(stack) \in Nat
  BY TopTyped DEF StackOK
<1>4. /\ IsList(stack') /\ Len(stack') = Len(stack) + 1
      /\ \A i \in 1..Len(stack) : stack'[i] = stack[i]
      /\ stack'[Len(stack) + 1] = f
  BY <1>3, ListAppended DEF f
<1>5. \A i \in 1..Len(stack') : i \in 1..Len(stack) \/ i = Len(stack) + 1
  BY <1>3, <1>4
<1>6. \A i \in 1..Len(stack') : FormOK(stack'[i])
  BY <1>1, <1>4, <1>5 DEF StackOK
<1>7. \A i \in 1..Len(stack') : stack'[i].op = "file" <=> i = 1
  BY <1>1, <1>2, <1>3, <1>4, <1>5 DEF StackOK
<1>8. \A i \in 1..Len(stack') : stack'[i].folding => status' # "parsing" \/ i = Len(stack')
  BY <1>1, <1>4, <1>5 DEF StackOK, Top
<1>9. Top' = f
  BY <1>4 DEF Top
<1> QED BY <1>1, <1>3, <1>4, <1>6, <1>7, <1>8, <1>9 DEF StackOK

(***************************************************************************)
(* Forms with other symbols.                                               *)
(***************************************************************************)
LEMMA FormFacts ==
  ASSUME NEW f, FormOK(f)
  PROVE  /\ f.op \in Keywords \cup {"file"} /\ IsList(f.items) /\ Len(f.items) \in Nat
         /\ f.head \in Nat /\ f.head <= Len(f.items)
         /\ f.folding => f.op \notin {"load", "store"}
         /\ ~f.folding => f.head = 0
<1>1. IsList(f.items)
  BY DEF FormOK
<1> QED BY <1>1, ListLength DEF FormOK

LEMMA FormWithItems ==
  ASSUME NEW g, FormOK(g), NEW items, IsList(items), g.head <= Len(items)
  PROVE  LET f == [g EXCEPT !.items = items]
         IN FormOK(f) /\ f.op = g.op /\ f.folding = g.folding
BY DEF FormOK

LEMMA FormTakes ==
  ASSUME NEW g, FormOK(g), ~g.folding, NEW o
  PROVE  LET f == [g EXCEPT !.items = Append(@, o)]
         IN FormOK(f) /\ f.op = g.op /\ ~f.folding
<1>1. IsList(g.items) /\ g.head = 0 /\ Len(g.items) \in Nat
  BY FormFacts
<1>2. PICK items : items = Append(g.items, o)
  OBVIOUS
<1>3. IsList(items) /\ g.head <= Len(items)
  BY <1>1, <1>2, ListAppended
<1> QED BY <1>2, <1>3, FormWithItems

(***************************************************************************)
(* The form outside of the innermost one takes what that has become.       *)
(***************************************************************************)
ClosedInto(o) == stack' = [Front(stack) EXCEPT ![Len(stack) - 1].items = Append(@, o)]

LEMMA FormClosed ==
  ASSUME StackOK, status = "parsing", status' = status, Len(stack) > 1, NEW o, ClosedInto(o)
  PROVE  StackOK' /\ ~Top'.folding
<1>1. IsList(stack) /\ Len(stack) \in Nat
  BY TopTyped DEF StackOK
<1>s. PICK s : s = Front(stack)
  OBVIOUS
<1>2. /\ IsList(s) /\ Len(s) = Len(stack) - 1
      /\ \A i \in 1..(Len(stack) - 1) : s[i] = stack[i]
  BY <1>1, <1>s, ListShortened DEF Front
<1>3. PICK n \in Nat \ {0} : n = Len(stack) - 1
  BY <1>1
<1>4. n \in 1..Len(stack) /\ n # Len(stack) /\ n \in 1..Len(s) /\ s[n] = stack[n]
  BY <1>1, <1>2, <1>3
<1>o. PICK outer : outer = stack[n]
  OBVIOUS
<1>f. PICK f : f = [outer EXCEPT !.items = Append(@, o)]
  OBVIOUS
<1>5. FormOK(outer) /\ ~outer.folding
  BY <1>4, <1>o DEF StackOK
<1>6. FormOK(f) /\ f.op = outer.op /\ ~f.folding
  BY <1>5, <1>f, FormTakes
<1>7. stack' = Replaced(s, n, f)
  BY <1>3, <1>4, <1>s, <1>o, <1>f DEF ClosedInto, Replaced
<1>8. /\ IsList(stack') /\ Len(stack') = n
      /\ \A i \in 1..n : i # n => stack'[i] = stack[i]
      /\ stack'[n] = f
  <2>1. IsList(s) /\ Len(s) = n /\ n \in 1..Len(s) /\ \A i \in 1..n : s[i] = stack[i]
    BY <1>2, <1>3, <1>4
  <2>0. IsList(s) /\ n \in 1..Len(s)
    BY <2>1
  <2>2. /\ IsList(stack') /\ Len(stack') = Len(s) /\ stack'[n] = f
        /\ \A i \in 1..Len(s) : i # n => stack'[i] = s[i]
    BY <1>7, <2>0, ListReplaced
  <2> QED BY <2>1, <2>2
<1>9. 1..n \subseteq 1..Len(stack) /\ \A i \in 1..n : i # Len(stack)
  BY <1>1, <1>3
<1>10. \A i \in 1..Len(stack') : FormOK(stack'[i])
  BY <1>6, <1>8, <1>9 DEF StackOK
<1>11. \A i \in 1..Len(stack') : stack'[i].op = "file" <=> i = 1
  <2>1. \A i \in 1..n : stack'[i].op = stack[i].op
    BY <1>6, <1>8, <1>o
  <2> QED BY <1>8, <1>9, <2>1 DEF StackOK
<1>12. \A i \in 1..Len(stack') : stack'[i].folding => status' # "parsing" \/ i = Len(stack')
  BY <1>6, <1>8, <1>9 DEF StackOK
<1>13. Top' = f
  BY <1>8 DEF Top
<1> QED BY <1>3, <1>6, <1>8, <1>10, <1>11, <1>12, <1>13 DEF StackOK
(***************************************************************************)
(* The lookahead that is taken, and the one that stays.                    *)
(***************************************************************************)
LEMMA LookTaken ==
  ASSUME ScannerOK, skip = 0, look' = NoLexeme, UNCHANGED <<script, pos, line, skip>>
  PROVE  ScannerOK'
<1>1. text' = text /\ NewlinesBefore(pos)' = NewlinesBefore(pos)
  BY DEF text, NewlinesBefore
<1>2. look'.t # "open"
  BY DEF NoLexeme, Lexeme
<1>3. skip' = 0
  OBVIOUS
<1> QED BY <1>1, <1>2, <1>3 DEF ScannerOK

LEMMA ShiftKeeps ==
  ASSUME ParserInv, Shift
  PROVE  ParserInv'
<1>1. /\ status = "parsing" /\ skip = 0 /\ look.t \in {"open", "atom"} /\ look' = NoLexeme
      /\ UNCHANGED <<script, pos, line, skip, counts, file, funs, status>>
  BY DEF Shift, Parsing
<1>2. ScannerOK'
  BY <1>1, LookTaken DEF ParserInv
<1>3. ~Top.folding
  BY <1>1 DEF ParserInv, EndInSight
<1>4. StackOK' /\ ~Top'.folding
  <2>1. CASE look.t = "open"
    <3>1. look.op \in Keywords
      BY <2>1 DEF ParserInv, ScannerOK
    <3>2. stack' = Append(stack, Form(look.op))
      BY <2>1 DEF Shift
    <3> QED BY <1>1, <1>3, <3>1, <3>2, FormOpened DEF ParserInv
  <2>2. CASE look.t # "open"
    <3>1. PICK o : o = Atom(look.op, look.val)
      OBVIOUS
    <3>2. PICK f : f = [Top EXCEPT !.items = Append(@, o)]
      OBVIOUS
    <3>3. stack' = Replaced(stack, Len(stack), f)
      BY <2>2, <3>1, <3>2 DEF Shift, Replaced, Top
    <3>4. FormOK(f) /\ f.op = Top.op /\ ~f.folding
      BY <1>3, <3>2, FormTakes, TopTyped DEF ParserInv
    <3> QED BY <1>1, <3>3, <3>4, TopReplaced DEF ParserInv
  <2> QED BY <2>1, <2>2
<1> QED BY <1>1, <1>2, <1>4 DEF ParserInv, EndInSight, CountsOK, StatusOK

LEMMA OffsetAlignKeeps ==
  ASSUME ParserInv, OffsetAlign
  PROVE  ParserInv'
<1>1. CASE Stop("crashed")
  BY <1>1, StopKeeps
<1>2. CASE /\ stack' = [stack EXCEPT ![Len(stack)].items = <<OffsetAlignInformation(@)>>]
           /\ UNCHANGED <<script, pos, line, skip, look, counts, file, funs, status>>
  <2>1. status = "parsing" /\ Top.op \in {"load", "store"}
    BY DEF OffsetAlign, Parsing, Listing
  <2>2. FormOK(Top) /\ ~Top.folding /\ Top.head = 0
    BY <2>1, TopTyped, FormFacts DEF ParserInv
  <2>3. PICK items : items = <<OffsetAlignInformation(Top.items)>>
    OBVIOUS
  <2>4. IsList(items) /\ Top.head <= Len(items)
    <3>1. PICK o : o = OffsetAlignInformation(Top.items)
      OBVIOUS
    <3>2. items \in Seq({o}) /\ Len(items) = 1
      BY <2>3, <3>1
    <3> QED BY <2>2, <3>2, SequenceIsList
  <2>5. PICK f : f = [Top EXCEPT !.items = items]
    OBVIOUS
  <2>6. FormOK(f) /\ f.op = Top.op /\ ~f.folding
    BY <2>2, <2>4, <2>5, FormWithItems
  <2>7. stack' = Replaced(stack, Len(stack), f)
    BY <1>2, <2>3, <2>5 DEF Replaced, Top
  <2>8. StackOK' /\ Top' = f
    BY <1>2, <2>1, <2>6, <2>7, TopReplaced DEF ParserInv
  <2>9. ScannerOK'
    BY <1>2, ScannerKept DEF ParserInv
  <2> QED BY <1>2, <2>6, <2>8, <2>9 DEF ParserInv, EndInSight, CountsOK, StatusOK
<1> QED BY <1>1, <1>2 DEF OffsetAlign

LEMMA EmptyListKeeps ==
  ASSUME ParserInv, EmptyList
  PROVE  ParserInv'
<1>1. /\ status = "parsing" /\ look.t \in {"close", "eof"} /\ ~Top.folding
      /\ UNCHANGED <<script, pos, line, skip, look, file, funs, status>>
  BY DEF EmptyList, Ends, Parsing
<1>2. FormOK(Top)
  BY TopTyped DEF ParserInv
<1>3. PICK rule \in Rules(Top.op) :
        /\ Matches(Top.items, rule) /\ RightRecursive(rule)
        /\ stack' = [stack EXCEPT ![Len(stack)] =
                       [Top EXCEPT !.folding = TRUE, !.head = Len(rule.head),
                                   !.made = Created(Top.op, line)]]
        /\ counts' = IF Top.op = "module" THEN [counts EXCEPT !.mod = @ + 1] ELSE counts
  BY DEF EmptyList
<1>4. /\ Top.op \in Keywords \cup {"file"} /\ Len(rule.head) \in Nat
      /\ Len(rule.head) <= Len(Top.items) /\ Top.op \notin {"load", "store"}
  <2>1. Top.op \in Keywords \cup {"file"} /\ Len(Top.items) \in Nat
    BY <1>2, FormFacts
  <2>2. Len(rule.head) \in Nat /\ Top.op \notin {"load", "store"}
    BY <1>3, <2>1, GrammarTyped
  <2>3. Len(Top.items) >= Len(rule.head)
    BY <1>3 DEF Matches
  <2> QED BY <2>1, <2>2, <2>3
<1>5. PICK n \in Nat : n = Len(rule.head)
  BY <1>4
<1>6. PICK made : made = Created(Top.op, line)
  OBVIOUS
<1>7. PICK f : f = [Top EXCEPT !.folding = TRUE, !.head = n, !.made = made]
    OBVIOUS
<1>8. FormOK(f) /\ f.op = Top.op
  BY <1>2, <1>4, <1>5, <1>7 DEF FormOK
<1>9. stack' = Replaced(stack, Len(stack), f)
  BY <1>3, <1>5, <1>6, <1>7 DEF Replaced, Top
<1>10. StackOK'
  BY <1>1, <1>8, <1>9, TopReplaced DEF ParserInv
<1>11. ScannerOK'
  BY <1>1, ScannerKept DEF ParserInv
<1>12. CountsOK'
  BY <1>3 DEF ParserInv, CountsOK
<1> QED BY <1>1, <1>10, <1>11, <1>12 DEF ParserInv, EndInSight, StatusOK

LEMMA FoldKeeps ==
  ASSUME ParserInv, Fold
  PROVE  ParserInv'
<1>1. /\ status = "parsing" /\ look.t \in {"close", "eof"} /\ Top.folding
      /\ Len(Top.items) > Top.head
  BY DEF Fold, Ends, Parsing
<1>2. PICK item : item = Top.items[Len(Top.items)]
  OBVIOUS
<1>3. CASE Stop("crashed")
  BY <1>3, StopKeeps
<1>4. CASE /\ stack' = [stack EXCEPT ![Len(stack)] =
                          [Top EXCEPT !.items = SubSeq(@, 1, Len(@) - 1),
                                      !.made = Added(Top.op, @, item)]]
           /\ UNCHANGED <<script, pos, line, skip, look, counts, file, funs, status>>
  <2>1. FormOK(Top)
    BY TopTyped DEF ParserInv
  <2>2. IsList(Top.items) /\ Len(Top.items) \in Nat /\ Top.head \in Nat
    BY <2>1, FormFacts
  <2>3. PICK items : items = SubSeq(Top.items, 1, Len(Top.items) - 1)
    OBVIOUS
  <2>4. IsList(items) /\ Len(items) = Len(Top.items) - 1
    BY <1>1, <2>2, <2>3, ListShortened
  <2>5. Top.head <= Len(items)
    BY <1>1, <2>2, <2>4
  <2>6. PICK made : made = Added(Top.op, Top.made, item)
    OBVIOUS
  <2>7. PICK f : f = [Top EXCEPT !.items = items, !.made = made]
    OBVIOUS
  <2>8. FormOK(f) /\ f.op = Top.op
    BY <2>1, <2>4, <2>5, <2>7 DEF FormOK
  <2>9. stack' = Replaced(stack, Len(stack), f)
    <3>1. stack' = Replaced(stack, Len(stack),
                            [Top EXCEPT !.items = SubSeq(@, 1, Len(@) - 1),
                                        !.made = Added(Top.op, @, item)])
      BY <1>4 DEF Replaced, Top
    <3>2. [Top EXCEPT !.items = items].made = Top.made
      BY <2>1 DEF FormOK
    <3> QED BY <2>3, <2>6, <2>7, <3>1, <3>2, Zenon
  <2>10. StackOK'
    BY <1>1, <1>4, <2>8, <2>9, TopReplaced DEF ParserInv
  <2>11. ScannerOK'
    BY <1>4, ScannerKept DEF ParserInv
  <2> QED BY <1>1, <1>4, <2>10, <2>11 DEF ParserInv, EndInSight, CountsOK, StatusOK
<1> QED BY <1>2, <1>3, <1>4 DEF Fold

LEMMA CloseKeeps ==
  ASSUME ParserInv, Close
  PROVE  ParserInv'
<1>1. status = "parsing" /\ skip = 0 /\ Len(stack) > 1
  BY DEF Close, Parsing
<1>2. CASE Stop("crashed")
  BY <1>2, StopKeeps
<1>3. CASE /\ stack' = [Front(stack) EXCEPT ![Len(stack) - 1].items = Append(@, Reduced(Top))]
           /\ counts' = IF Top.op = "func" /\ AtomsOf(Top.items) = <<>>
                        THEN [counts EXCEPT !.fun = @ + 1] ELSE counts
           /\ look' = NoLexeme
           /\ UNCHANGED <<script, pos, line, skip, file, funs, status>>
  <2>1. PICK o : o = Reduced(Top)
    OBVIOUS
  <2>2. ClosedInto(o)
    BY <1>3, <2>1 DEF ClosedInto
  <2>3. StackOK' /\ ~Top'.folding
    BY <1>1, <1>3, <2>2, FormClosed DEF ParserInv
  <2>4. ScannerOK'
    BY <1>1, <1>3, LookTaken DEF ParserInv
  <2>5. CountsOK'
    BY <1>3 DEF ParserInv, CountsOK
  <2> QED BY <1>3, <2>3, <2>4, <2>5 DEF ParserInv, EndInSight, StatusOK
<1> QED BY <1>2, <1>3 DEF Close

LEMMA EndOfFileKeeps ==
  ASSUME ParserInv, EndOfFile
  PROVE  ParserInv'
<1>1. StatusOK' /\ status' # "parsing"
  BY DEF EndOfFile, StatusOK
<1> QED BY <1>1, NotParsingKeeps DEF EndOfFile

LEMMA InvNext ==
  ASSUME ParserInv, [Next]_vars
  PROVE  ParserInv'
<1>1. CASE Newline \/ Comment \/ Token \/ SkipInvalid \/ EndOfText
  BY <1>1, NewlineKeeps, CommentKeeps, TokenKeeps, SkipInvalidKeeps, EndOfTextKeeps
<1>2. CASE OffsetAlign \/ Shift \/ EmptyList \/ Fold \/ Close \/ EndOfFile
  BY <1>2, OffsetAlignKeeps, ShiftKeeps, EmptyListKeeps, FoldKeeps, CloseKeeps, EndOfFileKeeps
<1>3. CASE SyntaxError \/ Done
  <2>1. Stop("error") \/ Stop("done")
    BY <1>3 DEF SyntaxError, Done
  <2> QED BY <2>1, StopKeeps
<1>4. CASE Populate \/ PopulateAllocas
  BY <1>4, SameKeeps DEF Populate, PopulateAllocas
<1>5. CASE SkipPastEnd \/ Terminated \/ UNCHANGED vars
  BY <1>5, SameKeeps DEF SkipPastEnd, Terminated, vars
<1> QED BY <1>1, <1>2, <1>3, <1>4, <1>5 DEF Next, Step

THEOREM ParserInvHolds == Spec => []ParserInv
<1>1. Init => ParserInv
  BY InvInit
<1>2. ParserInv /\ [Next]_vars => ParserInv'
  BY InvNext
<1> QED BY <1>1, <1>2, PTL DEF Spec

(***************************************************************************)
(* Whatever the text is, the line counts the newlines before the place the *)
(* scanner is at, comments and the text of an assert_invalid included, and *)
(* of the forms that are open only the innermost one is collected from its *)
(* end: the rules for lists that recurse to the left and to the right, and *)
(* an offset that is read before its expression, never take a symbol that  *)
(* belongs to another form.                                                *)
(***************************************************************************)
THEOREM TextScanned == Spec => []TypeOK
<1>1. ParserInv => TypeOK
  BY InvMeansTyped
<1> QED BY <1>1, ParserInvHolds, PTL
-----------------------------------------------------------------------------
(***************************************************************************)
(* The lines of objects: those of the ones in a set that has the operands  *)
(* of each with it.                                                        *)
(***************************************************************************)
Covers(S, lo, hi) ==
  \A x \in S : /\ x.line \in Nat
               /\ x.line > 0 => lo <= x.line /\ x.line <= hi
               /\ IsList(x.kids) /\ ToSet(x.kids) \subseteq S

Spans(o, lo, hi) == \E S : o \in S /\ Covers(S, lo, hi)

LEMMA SpansWider ==
  ASSUME NEW lo \in Nat, NEW hi \in Nat, NEW low \in Nat, NEW high \in Nat,
         low <= lo, hi <= high, NEW o, Spans(o, lo, hi)
  PROVE  Spans(o, low, high)
<1>1. PICK S : o \in S /\ Covers(S, lo, hi)
  BY DEF Spans
<1>2. Covers(S, low, high)
  BY <1>1 DEF Covers
<1> QED BY <1>1, <1>2 DEF Spans

LEMMA ListItems ==
  ASSUME NEW s, IsList(s)
  PROVE  /\ \A i \in 1..Len(s) : s[i] \in ToSet(s)
         /\ \A x \in ToSet(s) : \E i \in 1..Len(s) : x = s[i]
BY ListLength DEF ToSet

LEMMA SpansTogether ==
  ASSUME NEW objects, IsList(objects), NEW lo, NEW hi,
         \A i \in 1..Len(objects) : Spans(objects[i], lo, hi)
  PROVE  \E S : ToSet(objects) \subseteq S /\ Covers(S, lo, hi)
<1> DEFINE W(x) == CHOOSE S : x \in S /\ Covers(S, lo, hi)
           U == UNION {W(objects[i]) : i \in 1..Len(objects)}
<1>1. \A i \in 1..Len(objects) : objects[i] \in W(objects[i]) /\ Covers(W(objects[i]), lo, hi)
  BY DEF Spans
<1> HIDE DEF W
<1>2. ToSet(objects) \subseteq U
  BY <1>1, ListItems
<1>3. Covers(U, lo, hi)
  <2> SUFFICES ASSUME NEW x \in U
               PROVE  /\ x.line \in Nat
                      /\ x.line > 0 => lo <= x.line /\ x.line <= hi
                      /\ IsList(x.kids) /\ ToSet(x.kids) \subseteq U
    BY DEF Covers
  <2>1. PICK i \in 1..Len(objects) : x \in W(objects[i])
    OBVIOUS
  <2>2. Covers(W(objects[i]), lo, hi)
    BY <1>1
  <2>3. /\ x.line \in Nat
        /\ x.line > 0 => lo <= x.line /\ x.line <= hi
        /\ IsList(x.kids) /\ ToSet(x.kids) \subseteq W(objects[i])
    BY <2>1, <2>2 DEF Covers
  <2>4. W(objects[i]) \subseteq U
    OBVIOUS
  <2> QED BY <2>3, <2>4
<1> QED BY <1>2, <1>3

LEMMA SpansBuilt ==
  ASSUME NEW op, NEW names, NEW kids, IsList(kids), NEW lo, NEW hi,
         NEW l \in Nat, l > 0 => lo <= l /\ l <= hi,
         \A i \in 1..Len(kids) : Spans(kids[i], lo, hi)
  PROVE  Spans(Object(op, names, kids, l), lo, hi)
<1>1. PICK S : ToSet(kids) \subseteq S /\ Covers(S, lo, hi)
  BY SpansTogether
<1>2. PICK o : o = Object(op, names, kids, l)
  OBVIOUS
<1>3. o.line = l /\ o.kids = kids
  BY <1>2 DEF Object
<1>4. Covers(S \cup {o}, lo, hi)
  BY <1>1, <1>3 DEF Covers
<1> QED BY <1>2, <1>4 DEF Spans

(***************************************************************************)
(* Short lists, and lists put together.                                    *)
(***************************************************************************)
LEMMA EmptyIsList == IsList(<<>>) /\ Len(<<>>) = 0
<1>1. <<>> \in Seq({})
  OBVIOUS
<1> QED BY <1>1, SequenceIsList

LEMMA ListOfOne ==
  ASSUME NEW a
  PROVE  IsList(<<a>>) /\ Len(<<a>>) = 1 /\ <<a>>[1] = a
<1>1. <<a>> \in Seq({a})
  OBVIOUS
<1> QED BY <1>1, SequenceIsList

LEMMA ListOfTwo ==
  ASSUME NEW a, NEW b
  PROVE  IsList(<<a, b>>) /\ \A i \in 1..Len(<<a, b>>) : <<a, b>>[i] \in {a, b}
<1>1. <<a, b>> \in Seq({a, b})
  OBVIOUS
<1>2. \A i \in 1..Len(<<a, b>>) : <<a, b>>[i] \in {a, b}
  BY <1>1
<1> QED BY <1>1, <1>2, SequenceIsList

LEMMA ListOfThree ==
  ASSUME NEW a, NEW b, NEW c
  PROVE  IsList(<<a, b, c>>) /\ \A i \in 1..Len(<<a, b, c>>) : <<a, b, c>>[i] \in {a, b, c}
<1>1. <<a, b, c>> \in Seq({a, b, c})
  OBVIOUS
<1>2. \A i \in 1..Len(<<a, b, c>>) : <<a, b, c>>[i] \in {a, b, c}
  BY <1>1
<1> QED BY <1>1, <1>2, SequenceIsList

LEMMA ListJoined ==
  ASSUME NEW s, IsList(s), NEW t, IsList(t)
  PROVE  /\ IsList(s \o t) /\ Len(s \o t) = Len(s) + Len(t)
         /\ \A i \in 1..Len(s \o t) :
              (s \o t)[i] = IF i <= Len(s) THEN s[i] ELSE t[i - Len(s)]
<1> DEFINE S == ToSet(s) \cup ToSet(t)
<1>1. s \in Seq(S) /\ t \in Seq(S)
  BY DEF IsList
<1> HIDE DEF S
<1>2. s \o t \in Seq(S) /\ Len(s \o t) = Len(s) + Len(t)
  BY <1>1, ConcatProperties
<1>3. \A i \in 1..(Len(s) + Len(t)) :
        (s \o t)[i] = IF i <= Len(s) THEN s[i] ELSE t[i - Len(s)]
  BY <1>1, ConcatProperties
<1>4. IsList(s \o t)
  BY <1>2, SequenceIsList
<1> QED BY <1>2, <1>3, <1>4

LEMMA JoinedItems ==
  ASSUME NEW s, IsList(s), NEW t, IsList(t), NEW u, u = s \o t, NEW i \in 1..Len(u)
  PROVE  \/ \E j \in 1..Len(s) : u[i] = s[j]
         \/ \E j \in 1..Len(t) : u[i] = t[j]
<1>1. /\ Len(s) \in Nat /\ Len(t) \in Nat /\ Len(s \o t) = Len(s) + Len(t)
      /\ (s \o t)[i] = IF i <= Len(s) THEN s[i] ELSE t[i - Len(s)]
  BY ListJoined, ListLength
<1>2. CASE i <= Len(s)
  BY <1>1, <1>2
<1>3. CASE ~(i <= Len(s))
  <2>1. i - Len(s) \in 1..Len(t)
    BY <1>1, <1>3
  <2> QED BY <1>1, <1>3, <2>1
<1> QED BY <1>2, <1>3

Prepended(e, s) == <<e>> \o s

LEMMA ListPrepended ==
  ASSUME NEW s, IsList(s), NEW e, NEW t, t = Prepended(e, s)
  PROVE  /\ IsList(t) /\ Len(t) = Len(s) + 1 /\ t[1] = e
         /\ \A i \in 2..(Len(s) + 1) : t[i] = s[i - 1]
<1>1. PICK h : h = <<e>>
  OBVIOUS
<1>2. IsList(h) /\ Len(h) = 1 /\ h[1] = e /\ Len(s) \in Nat
  BY <1>1, ListOfOne, ListLength
<1>3. t = h \o s
  BY <1>1 DEF Prepended
<1>a. /\ IsList(h \o s) /\ Len(h \o s) = Len(h) + Len(s)
      /\ \A i \in 1..Len(h \o s) :
           (h \o s)[i] = IF i <= Len(h) THEN h[i] ELSE s[i - Len(h)]
  BY <1>2, ListJoined
<1>4. /\ IsList(t) /\ Len(t) = 1 + Len(s)
      /\ \A i \in 1..Len(t) : t[i] = IF i <= 1 THEN h[i] ELSE s[i - 1]
  BY <1>2, <1>3, <1>a
<1> QED BY <1>2, <1>4

-----------------------------------------------------------------------------
(***************************************************************************)
(* What is built position by position.                                     *)
(***************************************************************************)
LEMMA OneByOne ==
  ASSUME NEW m \in Nat, NEW S, 0 \in S, \A n \in 0..m : n \in S /\ n < m => n + 1 \in S
  PROVE  m \in S
<1> SUFFICES ASSUME m \notin S PROVE FALSE
  OBVIOUS
<1> DEFINE T == (0..m) \ S
<1>1. T \in SUBSET Nat /\ m \in T
  OBVIOUS
<1>2. PICK x \in T : \A y \in T : x <= y
  <2> HIDE DEF T
  <2> QED BY <1>1, LeastPosition
<1>3. x \in 1..m
  OBVIOUS
<1>4. x - 1 \notin T
  BY <1>2, <1>3
<1>5. x - 1 \in S /\ x - 1 \in 0..m /\ x - 1 < m /\ (x - 1) + 1 = x
  BY <1>3, <1>4
<1> QED BY <1>3, <1>5

FormsUpTo(f, items, m) ==
  f = [n \in 0..m |-> IF n = 0 THEN <<>>
                      ELSE IF IsAtom(items[n]) THEN f[n - 1] ELSE Append(f[n - 1], items[n])]

LEMMA FormsExist ==
  ASSUME NEW items, NEW m \in Nat
  PROVE  \E f : FormsUpTo(f, items, m)
<1> DEFINE S == {n \in 0..m : \E f : FormsUpTo(f, items, n)}
<1>1. 0 \in S
  <2> DEFINE f == [n \in 0..0 |-> <<>>]
  <2>1. FormsUpTo(f, items, 0)
    BY DEF FormsUpTo
  <2> QED BY <2>1
<1>2. ASSUME NEW n \in 0..m, n \in S, n < m PROVE n + 1 \in S
  <2>1. PICK f : FormsUpTo(f, items, n)
    BY <1>2
  <2> DEFINE next == IF IsAtom(items[n + 1]) THEN f[n] ELSE Append(f[n], items[n + 1])
             g == [k \in 0..(n + 1) |-> IF k = n + 1 THEN next ELSE f[k]]
  <2>2. ASSUME NEW k \in 0..(n + 1)
        PROVE  g[k] = IF k = 0 THEN <<>>
                      ELSE IF IsAtom(items[k]) THEN g[k - 1] ELSE Append(g[k - 1], items[k])
    <3>1. CASE k = n + 1
      <4>1. k # 0 /\ k - 1 = n /\ g[n] = f[n] /\ g[k] = next
        BY <3>1
      <4> QED BY <3>1, <4>1
    <3>2. CASE k # n + 1
      <4>1. k \in 0..n /\ g[k] = f[k]
        BY <3>2
      <4>2. k # 0 => k - 1 \in 0..(n + 1) /\ k - 1 # n + 1 /\ g[k - 1] = f[k - 1]
        BY <3>2
      <4>3. f[k] = IF k = 0 THEN <<>>
                   ELSE IF IsAtom(items[k]) THEN f[k - 1] ELSE Append(f[k - 1], items[k])
        BY <2>1, <4>1 DEF FormsUpTo
      <4> QED BY <4>1, <4>2, <4>3
    <3> QED BY <3>1, <3>2
  <2>3. FormsUpTo(g, items, n + 1)
    BY <2>2 DEF FormsUpTo
  <2>4. n + 1 \in 0..m
    BY <1>2
  <2> QED BY <2>3, <2>4
<1>3. m \in S
  <2> HIDE DEF S
  <2> QED BY <1>1, <1>2, OneByOne
<1> QED BY <1>3

LEMMA FormsOfIs ==
  ASSUME NEW items, IsList(items)
  PROVE  \E f : FormsUpTo(f, items, Len(items)) /\ FormsOf(items) = f[Len(items)]
<1>1. Len(items) \in Nat
  BY ListLength
<1>2. \E f : FormsUpTo(f, items, Len(items))
  BY <1>1, FormsExist
<1> QED BY <1>2 DEF FormsOf, FormsUpTo

(***************************************************************************)
(* The forms among the symbols.                                            *)
(***************************************************************************)
AreItems(forms, items) ==
  /\ IsList(forms)
  /\ \A i \in 1..Len(forms) : \E k \in 1..Len(items) : forms[i] = items[k]

LEMMA FormsAreItems ==
  ASSUME NEW items, IsList(items)
  PROVE  AreItems(FormsOf(items), items)
<1>1. PICK f : FormsUpTo(f, items, Len(items)) /\ FormsOf(items) = f[Len(items)]
  BY FormsOfIs
<1>2. Len(items) \in Nat
  BY ListLength
<1> DEFINE S == {n \in 0..Len(items) : AreItems(f[n], items)}
<1>3. 0 \in S
  <2>1. f[0] = <<>>
    BY <1>1, <1>2 DEF FormsUpTo
  <2> QED BY <1>2, <2>1, EmptyIsList DEF AreItems
<1>4. ASSUME NEW n \in 0..Len(items), n \in S, n < Len(items) PROVE n + 1 \in S
  <2>1. n + 1 \in 1..Len(items) /\ (n + 1) - 1 = n
    BY <1>2, <1>4
  <2>0. PICK p \in 1..Len(items) : p = n + 1
    BY <2>1
  <2>a. p \in 0..Len(items) /\ p # 0 /\ p - 1 = n
    BY <1>2, <2>0
  <2>b. f[p] = IF IsAtom(items[p]) THEN f[p - 1] ELSE Append(f[p - 1], items[p])
    BY <1>1, <2>a DEF FormsUpTo
  <2>2. f[n + 1] = IF IsAtom(items[n + 1]) THEN f[n] ELSE Append(f[n], items[n + 1])
    BY <2>0, <2>a, <2>b
  <2>3. AreItems(f[n], items)
    BY <1>4
  <2>4. CASE f[n + 1] = f[n]
    BY <1>2, <2>1, <2>3, <2>4
  <2>5. CASE f[n + 1] = Append(f[n], items[n + 1])
    <3> DEFINE s == f[n]
               t == f[n + 1]
    <3> HIDE DEF s, t
    <3>1. IsList(s) /\ Len(s) \in Nat
      BY <2>3, ListLength DEF AreItems, s
    <3>2. /\ IsList(t) /\ Len(t) = Len(s) + 1
          /\ \A i \in 1..Len(s) : t[i] = s[i]
          /\ t[Len(s) + 1] = items[n + 1]
      BY <2>5, <3>1, ListAppended DEF s, t
    <3>3. AreItems(t, items)
      BY <2>1, <2>3, <3>1, <3>2 DEF AreItems, s
    <3> QED BY <1>2, <2>1, <3>3 DEF t
  <2> QED BY <2>2, <2>4, <2>5
<1>5. Len(items) \in S
  <2> HIDE DEF S
  <2> QED BY <1>2, <1>3, <1>4, OneByOne
<1> QED BY <1>1, <1>5

(***************************************************************************)
(* The objects within others.                                              *)
(***************************************************************************)
WithinUpTo(f, objects, m) ==
  f = [n \in 0..m |->
         IF n = 0 THEN ToSet(objects)
         ELSE LET near == f[n - 1] IN near \cup UNION {ToSet(o.kids) : o \in near}]

LEMMA WithinExists ==
  ASSUME NEW objects, NEW m \in Nat
  PROVE  \E f : WithinUpTo(f, objects, m)
<1> DEFINE S == {n \in 0..m : \E f : WithinUpTo(f, objects, n)}
           Next1(near) == near \cup UNION {ToSet(o.kids) : o \in near}
<1>1. 0 \in S
  <2> DEFINE f == [n \in 0..0 |-> ToSet(objects)]
  <2>1. WithinUpTo(f, objects, 0)
    BY DEF WithinUpTo
  <2> QED BY <2>1
<1>2. ASSUME NEW n \in 0..m, n \in S, n < m PROVE n + 1 \in S
  <2>1. PICK f : WithinUpTo(f, objects, n)
    BY <1>2
  <2> DEFINE g == [k \in 0..(n + 1) |-> IF k = n + 1 THEN Next1(f[n]) ELSE f[k]]
  <2>2. ASSUME NEW k \in 0..(n + 1)
        PROVE  g[k] = IF k = 0 THEN ToSet(objects) ELSE Next1(g[k - 1])
    <3> HIDE DEF Next1
    <3>1. CASE k = n + 1
      <4>1. k # 0 /\ k - 1 = n /\ g[n] = f[n] /\ g[k] = Next1(f[n])
        BY <3>1
      <4> QED BY <3>1, <4>1
    <3>2. CASE k # n + 1
      <4>1. k \in 0..n /\ g[k] = f[k]
        BY <3>2
      <4>2. k # 0 => k - 1 \in 0..(n + 1) /\ k - 1 # n + 1 /\ g[k - 1] = f[k - 1]
        BY <3>2
      <4>3. f[k] = IF k = 0 THEN ToSet(objects) ELSE Next1(f[k - 1])
        BY <2>1, <4>1 DEF WithinUpTo, Next1
      <4> QED BY <4>1, <4>2, <4>3
    <3> QED BY <3>1, <3>2
  <2>3. WithinUpTo(g, objects, n + 1)
    BY <2>2 DEF WithinUpTo
  <2>4. n + 1 \in 0..m
    BY <1>2
  <2> QED BY <2>3, <2>4
<1>3. m \in S
  <2> HIDE DEF S
  <2> QED BY <1>1, <1>2, OneByOne
<1> QED BY <1>3

LEMMA WithinIs ==
  ASSUME script \in Scripts, NEW objects
  PROVE  \E f : WithinUpTo(f, objects, Len(text)) /\ Within(objects) = f[Len(text)]
<1>1. \E f : WithinUpTo(f, objects, Len(text))
  BY TextTyped, WithinExists
<1> QED BY <1>1 DEF Within, WithinUpTo

LEMMA WithinCovered ==
  ASSUME script \in Scripts, NEW objects, NEW S, NEW lo, NEW hi,
         ToSet(objects) \subseteq S, Covers(S, lo, hi)
  PROVE  Within(objects) \subseteq S
<1>1. PICK f : WithinUpTo(f, objects, Len(text)) /\ Within(objects) = f[Len(text)]
  BY WithinIs
<1>2. Len(text) \in Nat
  BY TextTyped
<1> DEFINE C == {n \in 0..Len(text) : f[n] \subseteq S}
<1>3. 0 \in C
  BY <1>1, <1>2 DEF WithinUpTo
<1>4. ASSUME NEW n \in 0..Len(text), n \in C, n < Len(text) PROVE n + 1 \in C
  <2>1. n + 1 \in 0..Len(text) /\ n + 1 # 0 /\ (n + 1) - 1 = n
    BY <1>2, <1>4
  <2>2. f[n + 1] = f[n] \cup UNION {ToSet(o.kids) : o \in f[n]}
    BY <1>1, <2>1 DEF WithinUpTo
  <2>3. \A o \in S : ToSet(o.kids) \subseteq S
    BY DEF Covers
  <2>4. f[n + 1] \subseteq S
    BY <1>4, <2>2, <2>3
  <2> QED BY <2>1, <2>4
<1>5. Len(text) \in C
  <2> HIDE DEF C
  <2> QED BY <1>2, <1>3, <1>4, OneByOne
<1> QED BY <1>1, <1>5

LEMMA SpansLinedUp ==
  ASSUME script \in Scripts, NEW objects, IsList(objects), NEW lo, NEW hi,
         \A i \in 1..Len(objects) : Spans(objects[i], lo, hi)
  PROVE  LinedUp(objects, lo, hi)
<1>1. PICK S : ToSet(objects) \subseteq S /\ Covers(S, lo, hi)
  BY SpansTogether
<1>2. Within(objects) \subseteq S
  BY <1>1, WithinCovered
<1> QED BY <1>1, <1>2 DEF LinedUp, Covers

-----------------------------------------------------------------------------
(***************************************************************************)
(* What the symbols of a form span, and what it is collected in: those of  *)
(* a module are elements, those of other lists are no modules.             *)
(***************************************************************************)
Requests == Assertions \cup {"invoke"}

ModuleSpans(m, lo) ==
  /\ {"op", "line", "functions"} \subseteq DOMAIN m
  /\ m.line \in Nat /\ lo <= m.line
  /\ IsList(m.functions)
  /\ \A k \in 1..Len(m.functions) : Spans(m.functions[k], lo, m.line)

ItemSpans(item, lo, now) ==
  IF item.op = "module" THEN ModuleSpans(item, lo) /\ item.line <= now
  ELSE Spans(item, lo, now)

CollectsModule(f, lo, now) ==
  /\ ModuleSpans(f.made, lo) /\ f.made.op = "module" /\ f.made.line = now
  /\ \A k \in 1..Len(f.items) : f.items[k].op \in Class("elem")

CollectsList(f, lo, now) ==
  /\ f.op \notin Assertions
  /\ \A k \in 1..Len(f.items) : f.items[k].op # "module"
  /\ IsList(f.made)
  /\ \A k \in 1..Len(f.made) : f.made[k].op # "module" /\ Spans(f.made[k], lo, now)

FrameLines(f, lo, now) ==
  /\ \A k \in 1..Len(f.items) : ItemSpans(f.items[k], lo, now)
  /\ ~f.folding => f.made = <<>>
  /\ f.folding => IF f.op = "module" THEN CollectsModule(f, lo, now)
                  ELSE CollectsList(f, lo, now)

(***************************************************************************)
(* What the symbols of the file span, each from the lines of those before  *)
(* it on, and what the file is collected in: the symbols that are left     *)
(* come before all that has been collected.                                *)
(***************************************************************************)
TopSpans(item, lo) ==
  /\ item.op = "module" => ModuleSpans(item, lo)
  /\ item.op \in Requests => Spans(item, lo, item.line)

Lows(f) == {0} \cup {f.items[j].line : j \in 1..Len(f.items)}

FileSpans(made, lows) ==
  /\ DOMAIN made = {"modules", "elems"}
  /\ IsList(made.modules) /\ IsList(made.elems)
  /\ \A m \in 1..Len(made.modules) :
       /\ \A lo \in lows : ModuleSpans(made.modules[m], lo)
       /\ \A n \in (m + 1)..Len(made.modules) :
            ModuleSpans(made.modules[m], made.modules[n].line)
  /\ \A e \in 1..Len(made.elems) :
       /\ \A lo \in lows : Spans(made.elems[e], lo, made.elems[e].line)
       /\ \A d \in 1..(e - 1) : Spans(made.elems[e], made.elems[d].line, made.elems[e].line)

FileLines(f, now) ==
  /\ \A k \in 1..Len(f.items) :
       /\ f.items[k].line \in Nat /\ f.items[k].line <= now
       /\ TopSpans(f.items[k], 0)
       /\ \A j \in 1..(k - 1) : TopSpans(f.items[k], f.items[j].line)
  /\ f.folding =>
       /\ \A k \in 1..Len(f.items) : f.items[k].op \in Class("top")
       /\ FileSpans(f.made, Lows(f))

StackLines ==
  /\ FileLines(stack[1], line)
  /\ \A i \in 2..Len(stack) : \A lo \in Lows(stack[1]) : FrameLines(stack[i], lo, line)

\* What the lookahead is.
TokenOK ==
  /\ look.t = "atom" => look.op \in Atoms
  /\ look.t \notin {"open", "atom"} => look.op = ""

LinesInv ==
  /\ TokenOK
  /\ status = "parsing" => StackLines
  /\ status \in {"parsed", "done"} => FileSpans(file, {0})

(***************************************************************************)
(* The grammar: a module is part of nothing but a file.                    *)
(***************************************************************************)
LEMMA ModulesInFiles ==
  ASSUME NEW op \in Keywords, NEW rule \in Rules(op)
  PROVE  /\ "module" \notin Class(rule.rest)
         /\ \A i \in 1..Len(rule.head) : "module" \notin Class(rule.head[i])
<1> DEFINE Symbols == {"E", "var", "field", "ifield", "elem", "def", "id", "int", "str", "type",
                       "info", "none", "segment", "table", "case", "invoke"}
<1>1. rule.rest \in Symbols
  BY DEF Keywords, Rules, Rule
<1>2. \A i \in 1..Len(rule.head) : rule.head[i] \in Symbols
  BY DEF Keywords, Rules, Rule
<1>3. \A c \in Symbols : "module" \notin Class(c)
  BY DEF Class, Expressions
<1> QED BY <1>1, <1>2, <1>3

LEMMA ListsOfFiles ==
  ASSUME NEW rule \in Rules("file") \cup Rules("module")
  PROVE  RightRecursive(rule) /\ rule.head = <<>>
BY DEF Rules, Rule, RightRecursive

LEMMA ListOfFile == \A rule \in Rules("file") : rule.rest = "top"
BY DEF Rules, Rule

LEMMA ListOfModule == \A rule \in Rules("module") : rule.rest = "elem"
BY DEF Rules, Rule

LEMMA AssertionsHaveNoLists ==
  ASSUME NEW op \in Assertions, NEW rule \in Rules(op)
  PROVE  ~RightRecursive(rule)
BY DEF Assertions, Rules, Rule, RightRecursive

LEMMA MatchedItems ==
  ASSUME NEW items, IsList(items), NEW rule, Matches(items, rule), Len(rule.head) \in Nat,
         NEW k \in 1..Len(items)
  PROVE  \/ k \in 1..Len(rule.head) /\ items[k].op \in Class(rule.head[k])
         \/ items[k].op \in Class(rule.rest)
<1>1. Len(items) \in Nat
  BY ListLength
<1>2. k \in 1..Len(rule.head) \/ k \in (Len(rule.head) + 1)..Len(items)
  BY <1>1
<1> QED BY <1>2 DEF Matches

LEMMA NoModulesMatched ==
  ASSUME NEW op \in Keywords, NEW rule \in Rules(op), NEW items, IsList(items),
         Matches(items, rule), NEW k \in 1..Len(items)
  PROVE  items[k].op # "module"
<1>1. Len(rule.head) \in Nat
  BY GrammarTyped
<1> QED BY <1>1, MatchedItems, ModulesInFiles

-----------------------------------------------------------------------------
(***************************************************************************)
(* The lines at the beginning, and while the scanner reads.                *)
(***************************************************************************)
LEMMA LineTyped ==
  ASSUME ScannerOK
  PROVE  line \in Nat \ {0}
<1>1. pos \in Nat
  BY TextTyped DEF ScannerOK
<1>2. Cardinality(NewlinesBefore(pos)) \in Nat
  BY <1>1, NewlinesCounted
<1> QED BY <1>2 DEF ScannerOK

LEMMA LowsTyped ==
  ASSUME NEW f, NEW now \in Nat, FileLines(f, now)
  PROVE  /\ Lows(f) \subseteq 0..now
         /\ \A lo \in Lows(f) : lo \in Nat /\ lo <= now
BY DEF FileLines, Lows

LEMMA LinesInit ==
  ASSUME Init
  PROVE  LinesInv
<1>1. TokenOK
  BY DEF Init, TokenOK, NoLexeme, Lexeme
<1>2. Len(stack) = 1 /\ stack[1].items = <<>> /\ ~stack[1].folding
  BY DEF Init, Form
<1>3. FileLines(stack[1], line)
  BY <1>2, EmptyIsList DEF FileLines
<1> QED BY <1>1, <1>2, <1>3 DEF Init, LinesInv, StackLines

LEMMA ItemLater ==
  ASSUME NEW item, NEW lo \in Nat, NEW now \in Nat, NEW later \in Nat, now <= later,
         ItemSpans(item, lo, now)
  PROVE  ItemSpans(item, lo, later)
<1>1. CASE item.op = "module"
  BY <1>1 DEF ItemSpans, ModuleSpans
<1>2. CASE item.op # "module"
  BY <1>2, SpansWider DEF ItemSpans
<1> QED BY <1>1, <1>2

(***************************************************************************)
(* A line that is read changes nothing about what was read before it.      *)
(***************************************************************************)
LEMMA LinesLater ==
  ASSUME ParserInv, StackLines, status = "parsing", ~Top.folding,
         stack' = stack, line' \in Nat, line <= line'
  PROVE  StackLines'
<1>1. line \in Nat
  BY LineTyped DEF ParserInv
<1>2. FileLines(stack[1], line')
  <2>1. FileLines(stack[1], line)
    BY DEF StackLines
  <2> QED BY <1>1, <2>1 DEF FileLines
<1>3. ASSUME NEW i \in 2..Len(stack), NEW lo \in Lows(stack[1])
      PROVE  FrameLines(stack[i], lo, line')
  <2>1. FrameLines(stack[i], lo, line)
    BY DEF StackLines
  <2>2. i \in 1..Len(stack) /\ Len(stack) \in Nat
    BY TopTyped DEF ParserInv
  <2>3. FormOK(stack[i]) /\ (stack[i].folding => status # "parsing" \/ i = Len(stack))
    BY <2>2 DEF ParserInv, StackOK
  <2>4. ~stack[i].folding
    BY <2>3 DEF Top
  <2>5. lo \in Nat
    BY <1>1, LowsTyped DEF StackLines
  <2>6. \A k \in 1..Len(stack[i].items) : ItemSpans(stack[i].items[k], lo, line')
    BY <1>1, <2>1, <2>5, ItemLater DEF FrameLines
  <2> QED BY <2>1, <2>4, <2>6 DEF FrameLines
<1> QED BY <1>2, <1>3 DEF StackLines

LEMMA TokenRead ==
  ASSUME ParserInv, TokenOK, [Next]_vars
  PROVE  TokenOK'
<1>1. CASE look' = look
  BY <1>1 DEF TokenOK
<1>2. CASE look' = NoLexeme \/ look' = EOF
  <2>1. NoLexeme.t = "none" /\ NoLexeme.op = "" /\ EOF.t = "eof" /\ EOF.op = ""
    BY DEF NoLexeme, EOF, Lexeme
  <2> QED BY <1>2, <2>1 DEF TokenOK
<1>3. CASE Token
  <2>1. pos \in 1..Len(text) /\ look' = text[pos] /\ script \in Scripts
    BY <1>3, TextTyped DEF ParserInv, ScannerOK, Token, Scanning
  <2> QED BY <2>1, TokensTyped DEF TokenOK
<1>4. look' = look \/ look' = NoLexeme \/ look' = EOF \/ Token
  <2>1. CASE Newline \/ Comment \/ SkipInvalid \/ SkipPastEnd \/ EndOfText \/ Token
    BY <2>1 DEF Newline, Comment, SkipInvalid, SkipPastEnd, EndOfText, vars
  <2>2. CASE OffsetAlign \/ Shift \/ EmptyList \/ Fold \/ Close
    BY <2>2 DEF OffsetAlign, Shift, EmptyList, Fold, Close, Stop
  <2>3. CASE EndOfFile \/ SyntaxError \/ Populate \/ PopulateAllocas \/ Done
    BY <2>3 DEF EndOfFile, SyntaxError, Populate, PopulateAllocas, Done, Stop
  <2>4. CASE Terminated \/ UNCHANGED vars
    BY <2>4 DEF Terminated, vars
  <2> QED BY <2>1, <2>2, <2>3, <2>4 DEF Next, Step
<1> QED BY <1>1, <1>2, <1>3, <1>4

LEMMA NotSkippedFolding ==
  ASSUME ParserInv, TokenOK, status = "parsing", skip > 0
  PROVE  ~Top.folding
<1>1. look.op = "assert_invalid"
  BY DEF ParserInv, ScannerOK
<1>2. look.t = "open"
  BY <1>1 DEF TokenOK, Atoms
<1> QED BY <1>2 DEF ParserInv, EndInSight

LEMMA ScannerLines ==
  ASSUME ParserInv, LinesInv, TokenOK',
         Newline \/ Comment \/ Token \/ SkipInvalid \/ EndOfText
  PROVE  LinesInv'
<1>1. status = "parsing" /\ status' = "parsing" /\ stack' = stack
  BY DEF Newline, Comment, Token, SkipInvalid, EndOfText, Scanning, Skipping
<1>2. ~Top.folding
  <2>1. CASE look = NoLexeme
    BY <1>1, <2>1, NotFolding
  <2>2. CASE look # NoLexeme
    <3>1. skip > 0
      BY <2>2 DEF Newline, Comment, Token, SkipInvalid, EndOfText, Scanning, Skipping
    <3> QED BY <1>1, <3>1, NotSkippedFolding DEF LinesInv
  <2> QED BY <2>1, <2>2
<1>3. line \in Nat
  BY LineTyped DEF ParserInv
<1>4. line' \in Nat /\ line <= line'
  BY <1>3 DEF Newline, Comment, Token, SkipInvalid, EndOfText
<1>5. StackLines'
  BY <1>1, <1>2, <1>4, LinesLater DEF LinesInv
<1> QED BY <1>1, <1>5 DEF LinesInv

LEMMA StoppedLines ==
  ASSUME LinesInv, TokenOK', NEW s \in {"error", "crashed"}, Stop(s)
  PROVE  LinesInv'
BY DEF LinesInv, Stop

LEMMA ReadLines ==
  ASSUME LinesInv, TokenOK', Populate \/ PopulateAllocas \/ Done
  PROVE  LinesInv'
BY DEF LinesInv, Populate, PopulateAllocas, Done, Stop

LEMMA SameLines ==
  ASSUME LinesInv, UNCHANGED <<line, look, stack, file, status>>
  PROVE  LinesInv'
BY DEF LinesInv, StackLines, TokenOK

-----------------------------------------------------------------------------
(***************************************************************************)
(* The lines when the parser changes the innermost form.                   *)
(***************************************************************************)
LEMMA OneOrMore ==
  ASSUME StackOK
  PROVE  Len(stack) = 1 \/ (Len(stack) > 1 /\ Len(stack) \in 2..Len(stack))
<1>1. Len(stack) \in Nat /\ Len(stack) > 0
  BY TopTyped DEF StackOK
<1>2. PICK n \in Nat : n = Len(stack)
  BY <1>1
<1>3. n = 1 \/ (n > 1 /\ n \in 2..n)
  BY <1>1, <1>2
<1> QED BY <1>2, <1>3

LEMMA TopFrame ==
  ASSUME StackOK, StackLines, Len(stack) > 1, line' = line,
         NEW f, stack' = Replaced(stack, Len(stack), f),
         \A lo \in Lows(stack[1]) : FrameLines(f, lo, line)
  PROVE  StackLines'
<1>1. Len(stack) \in 1..Len(stack) /\ IsList(stack) /\ Len(stack) \in Nat
  BY TopTyped DEF StackOK
<1>2. /\ Len(stack') = Len(stack) /\ stack'[Len(stack)] = f
      /\ \A i \in 1..Len(stack) : i # Len(stack) => stack'[i] = stack[i]
  BY <1>1, ListReplaced
<1>3. stack'[1] = stack[1]
  BY <1>1, <1>2
<1>4. ASSUME NEW i \in 2..Len(stack), NEW lo \in Lows(stack[1])
      PROVE  FrameLines(stack'[i], lo, line)
  <2>1. CASE i = Len(stack)
    BY <1>2, <2>1
  <2>2. CASE i # Len(stack)
    <3>1. i \in 1..Len(stack)
      BY <1>1
    <3>2. stack'[i] = stack[i]
      BY <1>2, <2>2, <3>1
    <3> QED BY <3>2 DEF StackLines
  <2> QED BY <2>1, <2>2
<1> QED BY <1>2, <1>3, <1>4 DEF StackLines

LEMMA TopFile ==
  ASSUME StackOK, Len(stack) = 1, line' = line,
         NEW f, stack' = Replaced(stack, Len(stack), f), FileLines(f, line)
  PROVE  StackLines'
<1>1. Len(stack) \in 1..Len(stack) /\ IsList(stack)
  BY TopTyped DEF StackOK
<1>2. Len(stack') = Len(stack) /\ stack'[Len(stack)] = f
  BY <1>1, ListReplaced
<1> QED BY <1>2 DEF StackLines

LEMMA FrameTakes ==
  ASSUME NEW f, FormOK(f), ~f.folding, NEW lo, NEW now, FrameLines(f, lo, now),
         NEW o, ItemSpans(o, lo, now)
  PROVE  FrameLines([f EXCEPT !.items = Append(@, o)], lo, now)
<1>1. IsList(f.items) /\ Len(f.items) \in Nat
  BY FormFacts
<1>2. PICK items : items = Append(f.items, o)
  OBVIOUS
<1>3. /\ Len(items) = Len(f.items) + 1
      /\ \A i \in 1..Len(f.items) : items[i] = f.items[i]
      /\ items[Len(f.items) + 1] = o
  BY <1>1, <1>2, ListAppended
<1>4. PICK g : g = [f EXCEPT !.items = items]
  OBVIOUS
<1>5. g.items = items /\ g.made = f.made /\ g.folding = f.folding
  BY <1>4 DEF FormOK
<1>6. \A k \in 1..Len(items) : ItemSpans(items[k], lo, now)
  <2>1. \A k \in 1..Len(f.items) : ItemSpans(f.items[k], lo, now)
    BY DEF FrameLines
  <2>2. \A k \in 1..Len(items) : k \in 1..Len(f.items) \/ k = Len(f.items) + 1
    BY <1>1, <1>3
  <2> QED BY <1>3, <2>1, <2>2
<1>7. FrameLines(g, lo, now)
  BY <1>5, <1>6 DEF FrameLines
<1> QED BY <1>2, <1>4, <1>7

LEMMA FileTakes ==
  ASSUME NEW f, FormOK(f), ~f.folding, NEW now \in Nat, FileLines(f, now),
         NEW o, o.line \in Nat, o.line <= now, \A lo \in Lows(f) : TopSpans(o, lo)
  PROVE  FileLines([f EXCEPT !.items = Append(@, o)], now)
<1>1. IsList(f.items) /\ Len(f.items) \in Nat
  BY FormFacts
<1>2. PICK items : items = Append(f.items, o)
  OBVIOUS
<1>3. /\ Len(items) = Len(f.items) + 1
      /\ \A i \in 1..Len(f.items) : items[i] = f.items[i]
      /\ items[Len(f.items) + 1] = o
  BY <1>1, <1>2, ListAppended
<1>4. PICK g : g = [f EXCEPT !.items = items]
  OBVIOUS
<1>5. g.items = items /\ g.folding = f.folding
  BY <1>4 DEF FormOK
<1>6. ASSUME NEW k \in 1..Len(items)
      PROVE  /\ items[k].line \in Nat /\ items[k].line <= now
             /\ TopSpans(items[k], 0)
             /\ \A j \in 1..(k - 1) : TopSpans(items[k], items[j].line)
  <2>1. CASE k \in 1..Len(f.items)
    <3>1. items[k] = f.items[k] /\ \A j \in 1..(k - 1) : items[j] = f.items[j]
      BY <1>1, <1>3, <2>1
    <3> QED BY <2>1, <3>1 DEF FileLines
  <2>2. CASE k = Len(f.items) + 1
    <3>1. items[k] = o
      BY <1>3, <2>2
    <3>2. \A j \in 1..(k - 1) : items[j].line \in Lows(f)
      BY <1>1, <1>3, <2>2 DEF Lows
    <3>3. 0 \in Lows(f)
      BY DEF Lows
    <3> QED BY <3>1, <3>2, <3>3
  <2> QED BY <1>1, <1>3, <2>1, <2>2
<1>7. FileLines(g, now)
  BY <1>5, <1>6 DEF FileLines
<1> QED BY <1>2, <1>4, <1>7

LEMMA AtomSpans ==
  ASSUME NEW op, op # "module", op \notin Requests, NEW val, NEW lo, NEW now
  PROVE  /\ Atom(op, val).line = 0
         /\ ItemSpans(Atom(op, val), lo, now) /\ TopSpans(Atom(op, val), lo)
<1>1. PICK o : o = Atom(op, val)
  OBVIOUS
<1>2. o.op = op /\ o.line = 0
  BY <1>1 DEF Atom, Object
<1>3. Spans(o, lo, now)
  BY <1>1, EmptyIsList, SpansBuilt DEF Atom
<1> QED BY <1>1, <1>2, <1>3 DEF ItemSpans, TopSpans

LEMMA ShiftLines ==
  ASSUME ParserInv, LinesInv, TokenOK', Shift
  PROVE  LinesInv'
<1>1. /\ status = "parsing" /\ status' = "parsing" /\ line' = line
      /\ look.t \in {"open", "atom"} /\ StackOK /\ StackLines
  BY DEF Shift, Parsing, ParserInv, LinesInv
<1>2. ~Top.folding /\ FormOK(Top) /\ Len(stack) \in Nat /\ Len(stack) \in 1..Len(stack)
      /\ IsList(stack)
  BY <1>1, TopTyped DEF ParserInv, EndInSight, StackOK
<1>3. CASE look.t = "open"
  <2>1. PICK f : f = Form(look.op)
    OBVIOUS
  <2>2. f.items = <<>> /\ f.made = <<>> /\ ~f.folding
    BY <2>1 DEF Form
  <2>3. \A lo : FrameLines(f, lo, line)
    BY <2>2, EmptyIsList DEF FrameLines
  <2>4. stack' = Append(stack, f)
    BY <1>3, <2>1 DEF Shift
  <2>5. /\ Len(stack') = Len(stack) + 1
        /\ \A i \in 1..Len(stack) : stack'[i] = stack[i]
        /\ stack'[Len(stack) + 1] = f
    BY <1>2, <2>4, ListAppended
  <2>6. stack'[1] = stack[1]
    BY <1>2, <2>5
  <2>7. ASSUME NEW i \in 2..Len(stack'), NEW lo \in Lows(stack[1])
        PROVE  FrameLines(stack'[i], lo, line)
    <3>1. CASE i \in 2..Len(stack)
      <4>1. i \in 1..Len(stack)
        BY <3>1
      <4> QED BY <1>1, <2>5, <3>1, <4>1 DEF StackLines
    <3>2. CASE i = Len(stack) + 1
      BY <2>3, <2>5, <3>2
    <3> QED BY <1>2, <2>5, <3>1, <3>2
  <2>8. StackLines'
    BY <1>1, <2>6, <2>7 DEF StackLines
  <2> QED BY <1>1, <2>8 DEF LinesInv
<1>4. CASE look.t # "open"
  <2>1. PICK o : o = Atom(look.op, look.val)
    OBVIOUS
  <2>2. PICK f : f = [Top EXCEPT !.items = Append(@, o)]
    OBVIOUS
  <2>3. stack' = Replaced(stack, Len(stack), f)
    BY <1>4, <2>1, <2>2 DEF Shift, Replaced, Top
  <2>4. look.op \in Atoms
    BY <1>1, <1>4 DEF LinesInv, TokenOK
  <2>5. look.op # "module" /\ look.op \notin Requests
    BY <2>4 DEF Atoms, Requests, Assertions
  <2>6. o.line = 0 /\ \A lo : ItemSpans(o, lo, line) /\ TopSpans(o, lo)
    BY <2>1, <2>5, AtomSpans
  <2>7. CASE Len(stack) = 1
    <3>1. line \in Nat /\ FileLines(Top, line)
      BY <1>1, <2>7, LineTyped DEF ParserInv, StackLines, Top
    <3>o. o.line \in Nat /\ o.line <= line /\ \A lo \in Lows(Top) : TopSpans(o, lo)
      BY <2>6, <3>1
    <3>2. FileLines(f, line)
      BY <1>2, <2>2, <3>o, <3>1, FileTakes
    <3>3. StackLines'
      BY <1>1, <2>3, <2>7, <3>2, TopFile
    <3> QED BY <1>1, <3>3 DEF LinesInv
  <2>8. CASE Len(stack) > 1
    <3>1. Len(stack) \in 2..Len(stack)
      BY <1>2, <2>8
    <3>2. \A lo \in Lows(stack[1]) : FrameLines(Top, lo, line)
      BY <1>1, <3>1 DEF StackLines, Top
    <3>3. \A lo \in Lows(stack[1]) : FrameLines(f, lo, line)
      BY <1>2, <2>2, <2>6, <3>2, FrameTakes
    <3>4. StackLines'
      BY <1>1, <2>3, <2>8, <3>3, TopFrame
    <3> QED BY <1>1, <3>4 DEF LinesInv
  <2>9. Len(stack) = 1 \/ Len(stack) > 1
    BY <1>1, OneOrMore
  <2> QED BY <2>7, <2>8, <2>9
<1> QED BY <1>3, <1>4

LEMMA OffsetAlignLines ==
  ASSUME ParserInv, LinesInv, TokenOK', OffsetAlign
  PROVE  LinesInv'
<1>1. CASE Stop("crashed")
  BY <1>1, StoppedLines
<1>2. CASE /\ stack' = [stack EXCEPT ![Len(stack)].items = <<OffsetAlignInformation(@)>>]
           /\ UNCHANGED <<script, pos, line, skip, look, counts, file, funs, status>>
  <2>1. status = "parsing" /\ Top.op \in {"load", "store"} /\ StackOK /\ StackLines
    BY DEF OffsetAlign, Parsing, Listing, ParserInv, LinesInv
  <2>2. FormOK(Top) /\ ~Top.folding /\ Len(stack) \in 1..Len(stack) /\ Len(stack) \in Nat
    BY <2>1, TopTyped, FormFacts
  <2>3. Len(stack) > 1
    <3>1. Top.op # "file"
      BY <2>1
    <3> QED BY <2>1, <2>2, <3>1 DEF StackOK, Top
  <2>4. PICK o : o = OffsetAlignInformation(Top.items)
    OBVIOUS
  <2>5. \A lo : ItemSpans(o, lo, line)
    <3>1. o.op = "info" /\ \E names : o = Object("info", names, <<>>, 0)
      BY <2>4 DEF OffsetAlignInformation, Object
    <3>2. \A lo : Spans(o, lo, line)
      BY <3>1, EmptyIsList, SpansBuilt
    <3> QED BY <3>1, <3>2 DEF ItemSpans
  <2>6. PICK f : f = [Top EXCEPT !.items = <<o>>]
    OBVIOUS
  <2>7. stack' = Replaced(stack, Len(stack), f)
    BY <1>2, <2>4, <2>6 DEF Replaced, Top
  <2>8. f.items = <<o>> /\ f.made = Top.made /\ ~f.folding
    BY <2>2, <2>6 DEF FormOK
  <2>9. Len(f.items) = 1 /\ f.items[1] = o
    BY <2>8, ListOfOne
  <2>10. ASSUME NEW lo \in Lows(stack[1]) PROVE FrameLines(f, lo, line)
    <3>1. Len(stack) \in 2..Len(stack)
      BY <2>2, <2>3
    <3>2. FrameLines(Top, lo, line)
      BY <2>1, <3>1 DEF StackLines, Top
    <3> QED BY <2>2, <2>5, <2>8, <2>9, <3>2 DEF FrameLines
  <2>11. StackLines'
    BY <1>2, <2>1, <2>3, <2>7, <2>10, TopFrame
  <2> QED BY <1>2, <2>1, <2>11 DEF LinesInv
<1> QED BY <1>1, <1>2 DEF OffsetAlign

-----------------------------------------------------------------------------
(***************************************************************************)
(* The lines when a list is begun: a module has the line it ends on.       *)
(***************************************************************************)
LEMMA EmptyModule ==
  ASSUME NEW l \in Nat, NEW lo \in Nat, lo <= l, NEW m, m = Created("module", l)
  PROVE  ModuleSpans(m, lo) /\ m.op = "module" /\ m.line = l
<1>1. /\ DOMAIN m = {"op", "num", "line", "functions", "exports", "imports", "memory", "max",
                     "segments"}
      /\ m.op = "module" /\ m.line = l /\ m.functions = <<>>
  BY DEF Created
<1> QED BY <1>1, EmptyIsList DEF ModuleSpans

LEMMA EmptyFile ==
  ASSUME NEW l, NEW m, m = Created("file", l), NEW lows
  PROVE  FileSpans(m, lows)
<1>1. DOMAIN m = {"modules", "elems"} /\ m.modules = <<>> /\ m.elems = <<>>
  BY DEF Created
<1> QED BY <1>1, EmptyIsList DEF FileSpans

LEMMA EmptyListLines ==
  ASSUME ParserInv, LinesInv, TokenOK', EmptyList
  PROVE  LinesInv'
<1>1. /\ status = "parsing" /\ status' = "parsing" /\ line' = line
      /\ ~Top.folding /\ StackOK /\ StackLines
  BY DEF EmptyList, Ends, Parsing, ParserInv, LinesInv
<1>2. FormOK(Top) /\ IsList(Top.items) /\ Top.op \in Keywords \cup {"file"}
  BY <1>1, TopTyped, FormFacts
<1>3. PICK rule \in Rules(Top.op) :
        /\ Matches(Top.items, rule) /\ RightRecursive(rule)
        /\ stack' = [stack EXCEPT ![Len(stack)] =
                       [Top EXCEPT !.folding = TRUE, !.head = Len(rule.head),
                                   !.made = Created(Top.op, line)]]
  BY DEF EmptyList
<1>4. PICK made : made = Created(Top.op, line)
  OBVIOUS
<1>5. PICK f : f = [Top EXCEPT !.folding = TRUE, !.head = Len(rule.head), !.made = made]
  OBVIOUS
<1>6. f.op = Top.op /\ f.items = Top.items /\ f.folding /\ f.made = made
  BY <1>2, <1>5 DEF FormOK
<1>7. stack' = Replaced(stack, Len(stack), f)
  BY <1>3, <1>4, <1>5 DEF Replaced, Top
<1>8. line \in Nat
  BY LineTyped DEF ParserInv
<1>9. CASE Len(stack) = 1
  <2>1. Top.op = "file" /\ FileLines(Top, line)
    BY <1>1, <1>9 DEF StackOK, StackLines, Top
  <2>2. \A k \in 1..Len(Top.items) : Top.items[k].op \in Class("top")
    <3>1. rule.head = <<>> /\ rule.rest = "top"
      BY <1>3, <2>1, ListsOfFiles, ListOfFile
    <3>2. Len(rule.head) = 0
      BY <3>1
    <3> QED BY <1>2, <1>3, <3>1, <3>2, MatchedItems
  <2>3. FileSpans(made, Lows(f))
    BY <1>4, <2>1, EmptyFile
  <2>4. FileLines(f, line)
    BY <1>6, <2>1, <2>2, <2>3 DEF FileLines
  <2>5. StackLines'
    BY <1>1, <1>7, <1>9, <2>4, TopFile
  <2> QED BY <1>1, <2>5 DEF LinesInv
<1>10. CASE Len(stack) > 1 /\ Len(stack) \in 2..Len(stack)
  <2>1. Top.op \in Keywords
    <3>1. Top.op # "file"
      BY <1>1, <1>10, TopTyped DEF StackOK, Top
    <3> QED BY <1>2, <3>1
  <2>2. ASSUME NEW lo \in Lows(stack[1]) PROVE FrameLines(f, lo, line)
    <3>1. FrameLines(Top, lo, line)
      BY <1>1, <1>10 DEF StackLines, Top
    <3>2. CASE Top.op = "module"
      <4>1. lo \in Nat /\ lo <= line
        BY <1>1, <1>8, LowsTyped DEF StackLines
      <4>2. ModuleSpans(made, lo) /\ made.op = "module" /\ made.line = line
        BY <1>4, <1>8, <3>2, <4>1, EmptyModule
      <4>3. rule.head = <<>> /\ rule.rest = "elem"
        BY <1>3, <3>2, ListsOfFiles, ListOfModule
      <4>4. Len(rule.head) = 0
        BY <4>3
      <4>5. \A k \in 1..Len(Top.items) : Top.items[k].op \in Class("elem")
        BY <1>2, <1>3, <4>3, <4>4, MatchedItems
      <4> QED BY <1>6, <3>1, <3>2, <4>2, <4>5 DEF FrameLines, CollectsModule
    <3>3. CASE Top.op # "module"
      <4>1. Top.op \notin Assertions
        BY <1>3, AssertionsHaveNoLists
      <4>2. \A k \in 1..Len(Top.items) : Top.items[k].op # "module"
        BY <1>2, <1>3, <2>1, NoModulesMatched
      <4>3. made = <<>>
        <5>1. Top.op # "file"
          BY <2>1 DEF Keywords
        <5> QED BY <1>4, <3>3, <5>1 DEF Created
      <4> QED BY <1>6, <3>1, <3>3, <4>1, <4>2, <4>3, EmptyIsList DEF FrameLines, CollectsList
    <3> QED BY <3>2, <3>3
  <2>3. StackLines'
    BY <1>1, <1>7, <1>10, <2>2, TopFrame
  <2> QED BY <1>1, <2>3 DEF LinesInv
<1> QED BY <1>1, <1>9, <1>10, OneOrMore

(***************************************************************************)
(* The lines when a list takes the symbol before it.                       *)
(***************************************************************************)
LEMMA FileTakesModule ==
  ASSUME NEW made, NEW lows, FileSpans(made, lows), NEW fewer, fewer \subseteq lows,
         NEW item, item.line \in lows, \A lo \in fewer : ModuleSpans(item, lo),
         NEW new, new = [made EXCEPT !.modules = Append(@, item)]
  PROVE  FileSpans(new, fewer)
<1>1. DOMAIN made = {"modules", "elems"} /\ IsList(made.modules) /\ IsList(made.elems)
  BY DEF FileSpans
<1>2. /\ DOMAIN new = {"modules", "elems"} /\ new.elems = made.elems
      /\ new.modules = Append(made.modules, item)
  BY <1>1
<1>3. /\ IsList(new.modules) /\ Len(new.modules) = Len(made.modules) + 1
      /\ \A i \in 1..Len(made.modules) : new.modules[i] = made.modules[i]
      /\ new.modules[Len(made.modules) + 1] = item /\ Len(made.modules) \in Nat
  BY <1>1, <1>2, ListAppended, ListLength
<1>4. ASSUME NEW m \in 1..Len(new.modules)
      PROVE  /\ \A lo \in fewer : ModuleSpans(new.modules[m], lo)
             /\ \A n \in (m + 1)..Len(new.modules) :
                  ModuleSpans(new.modules[m], new.modules[n].line)
  <2>1. CASE m \in 1..Len(made.modules)
    <3>1. new.modules[m] = made.modules[m]
      BY <1>3, <2>1
    <3>2. \A lo \in lows : ModuleSpans(new.modules[m], lo)
      BY <2>1, <3>1 DEF FileSpans
    <3>3. ASSUME NEW n \in (m + 1)..Len(new.modules)
          PROVE  ModuleSpans(new.modules[m], new.modules[n].line)
      <4>1. CASE n = Len(made.modules) + 1
        BY <1>3, <3>2, <4>1
      <4>2. CASE n # Len(made.modules) + 1
        <5>1. n \in (m + 1)..Len(made.modules) /\ n \in 1..Len(made.modules)
          BY <1>3, <4>2
        <5>2. new.modules[n] = made.modules[n]
          BY <1>3, <5>1
        <5> QED BY <2>1, <3>1, <5>1, <5>2 DEF FileSpans
      <4> QED BY <4>1, <4>2
    <3> QED BY <3>2, <3>3
  <2>2. CASE m = Len(made.modules) + 1
    <3>1. new.modules[m] = item /\ (m + 1)..Len(new.modules) = {}
      BY <1>3, <2>2
    <3> QED BY <3>1
  <2> QED BY <1>3, <2>1, <2>2
<1> QED BY <1>1, <1>2, <1>3, <1>4 DEF FileSpans

LEMMA FileTakesRequest ==
  ASSUME NEW made, NEW lows, FileSpans(made, lows), NEW fewer, fewer \subseteq lows,
         NEW item, item.line \in lows, \A lo \in fewer : Spans(item, lo, item.line),
         NEW new, new = [made EXCEPT !.elems = <<item>> \o @]
  PROVE  FileSpans(new, fewer)
<1>1. DOMAIN made = {"modules", "elems"} /\ IsList(made.modules) /\ IsList(made.elems)
  BY DEF FileSpans
<1>2. /\ DOMAIN new = {"modules", "elems"} /\ new.modules = made.modules
      /\ new.elems = <<item>> \o made.elems
  BY <1>1
<1>3. /\ IsList(new.elems) /\ Len(new.elems) = Len(made.elems) + 1
      /\ \A i \in 2..(Len(made.elems) + 1) : new.elems[i] = made.elems[i - 1]
      /\ new.elems[1] = item /\ Len(made.elems) \in Nat
  <2>1. PICK s : s = made.elems
    OBVIOUS
  <2>2. PICK t : t = Prepended(item, s)
    OBVIOUS
  <2>3. IsList(s) /\ new.elems = t
    BY <1>1, <1>2, <2>1, <2>2 DEF Prepended
  <2>4. /\ IsList(t) /\ Len(t) = Len(s) + 1 /\ t[1] = item
        /\ \A i \in 2..(Len(s) + 1) : t[i] = s[i - 1]
    BY <2>2, <2>3, ListPrepended
  <2> QED BY <2>1, <2>3, <2>4, ListLength
<1>4. ASSUME NEW e \in 1..Len(new.elems)
      PROVE  /\ \A lo \in fewer : Spans(new.elems[e], lo, new.elems[e].line)
             /\ \A d \in 1..(e - 1) : Spans(new.elems[e], new.elems[d].line, new.elems[e].line)
  <2>1. CASE e = 1
    BY <1>3, <2>1
  <2>2. CASE e # 1
    <3>1. PICK b \in 1..Len(made.elems) : b = e - 1
      BY <1>3, <2>2
    <3>2. new.elems[e] = made.elems[b]
      BY <1>3, <3>1
    <3>3. \A lo \in lows : Spans(new.elems[e], lo, new.elems[e].line)
      BY <3>1, <3>2 DEF FileSpans
    <3>4. ASSUME NEW d \in 1..(e - 1)
          PROVE  Spans(new.elems[e], new.elems[d].line, new.elems[e].line)
      <4>1. CASE d = 1
        BY <1>3, <3>3, <4>1
      <4>2. CASE d # 1
        <5>1. d - 1 \in 1..(b - 1) /\ new.elems[d] = made.elems[d - 1]
          BY <1>3, <3>1, <4>2
        <5> QED BY <3>1, <3>2, <5>1 DEF FileSpans
      <4> QED BY <4>1, <4>2
    <3> QED BY <3>3, <3>4
  <2> QED BY <2>1, <2>2
<1> QED BY <1>1, <1>2, <1>3, <1>4 DEF FileSpans

LEMMA FileFolds ==
  ASSUME NEW f, FormOK(f), f.folding, NEW now, FileLines(f, now), Len(f.items) > 0,
         NEW item, item = f.items[Len(f.items)],
         NEW items, items = SubSeq(f.items, 1, Len(f.items) - 1),
         NEW made, made = AddTop(f.made, item),
         NEW g, g = [f EXCEPT !.items = items, !.made = made]
  PROVE  FileLines(g, now)
<1>1. IsList(f.items) /\ Len(f.items) \in Nat
  BY FormFacts
<1>2. /\ Len(items) = Len(f.items) - 1
      /\ \A i \in 1..(Len(f.items) - 1) : items[i] = f.items[i]
  BY <1>1, ListShortened
<1>3. g.items = items /\ g.made = made /\ g.folding
  BY DEF FormOK
<1>4. Len(f.items) \in 1..Len(f.items) /\ 1..Len(items) \subseteq 1..Len(f.items)
  BY <1>1, <1>2
<1>5. FileSpans(f.made, Lows(f)) /\ item.op \in Class("top")
  BY <1>4 DEF FileLines
<1>6. Lows(g) \subseteq Lows(f) /\ item.line \in Lows(f)
  BY <1>2, <1>3, <1>4 DEF Lows
<1>7. \A lo \in Lows(g) : TopSpans(item, lo)
  <2>1. TopSpans(item, 0) /\ \A j \in 1..(Len(f.items) - 1) : TopSpans(item, f.items[j].line)
    BY <1>4 DEF FileLines
  <2> QED BY <1>2, <1>3, <2>1 DEF Lows
<1>8. FileSpans(made, Lows(g))
  <2>1. CASE item.op = "module"
    <3>1. made = [f.made EXCEPT !.modules = Append(@, item)]
      BY <2>1 DEF AddTop
    <3>2. \A lo \in Lows(g) : ModuleSpans(item, lo)
      BY <1>7, <2>1 DEF TopSpans
    <3> QED BY <1>5, <1>6, <3>1, <3>2, FileTakesModule
  <2>2. CASE item.op = "assert_invalid"
    <3>1. made = f.made
      BY <2>2 DEF AddTop
    <3> QED BY <1>5, <1>6, <3>1 DEF FileSpans
  <2>3. CASE item.op \in Requests
    <3>1. made = [f.made EXCEPT !.elems = <<item>> \o @]
      BY <2>3 DEF AddTop, Requests, Assertions
    <3>2. \A lo \in Lows(g) : Spans(item, lo, item.line)
      BY <1>7, <2>3 DEF TopSpans
    <3> QED BY <1>5, <1>6, <3>1, <3>2, FileTakesRequest
  <2> QED BY <1>5, <2>1, <2>2, <2>3 DEF Class, Requests, Assertions
<1>9. ASSUME NEW k \in 1..Len(items)
      PROVE  /\ items[k].line \in Nat /\ items[k].line <= now
             /\ TopSpans(items[k], 0)
             /\ \A j \in 1..(k - 1) : TopSpans(items[k], items[j].line)
             /\ items[k].op \in Class("top")
  <2>1. k \in 1..Len(f.items) /\ items[k] = f.items[k]
    BY <1>2, <1>4
  <2>2. \A j \in 1..(k - 1) : items[j] = f.items[j]
    BY <1>1, <1>2
  <2> QED BY <2>1, <2>2 DEF FileLines
<1> QED BY <1>3, <1>8, <1>9 DEF FileLines

LEMMA ModuleTakes ==
  ASSUME NEW made, NEW lo, NEW now, ModuleSpans(made, lo), made.op = "module", made.line = now,
         NEW item, item.op \in Class("elem"), Spans(item, lo, now),
         NEW new, new = AddElem(made, item)
  PROVE  ModuleSpans(new, lo) /\ new.op = "module" /\ new.line = now
<1>1. item.op \in {"func", "export", "import", "memory"}
  BY DEF Class
<1>2. CASE item.op = "func"
  <2>1. new = [made EXCEPT !.functions = Prepended(item, @)]
    BY <1>2 DEF AddElem, Prepended
  <2>2. PICK s : s = made.functions
    OBVIOUS
  <2>3. PICK t : t = Prepended(item, s)
    OBVIOUS
  <2>4. /\ DOMAIN new = DOMAIN made /\ new.op = "module" /\ new.line = now
        /\ new.functions = t
    BY <2>1, <2>2, <2>3 DEF ModuleSpans
  <2>5. IsList(s) /\ Len(s) \in Nat /\ \A k \in 1..Len(s) : Spans(s[k], lo, now)
    BY <2>2, ListLength DEF ModuleSpans
  <2>6. /\ IsList(t) /\ Len(t) = Len(s) + 1 /\ t[1] = item
        /\ \A i \in 2..(Len(s) + 1) : t[i] = s[i - 1]
    BY <2>3, <2>5, ListPrepended
  <2>7. \A k \in 1..Len(t) : Spans(t[k], lo, now)
    <3>1. \A k \in 1..Len(t) : k = 1 \/ (k \in 2..(Len(s) + 1) /\ k - 1 \in 1..Len(s))
      BY <2>5, <2>6
    <3> QED BY <2>5, <2>6, <3>1
  <2> QED BY <2>4, <2>6, <2>7 DEF ModuleSpans
<1>3. CASE item.op # "func"
  <2>1. DOMAIN new = DOMAIN made /\ new.op = made.op /\ new.line = made.line
        /\ new.functions = made.functions
    BY <1>1, <1>3 DEF AddElem, ModuleSpans
  <2> QED BY <2>1 DEF ModuleSpans
<1> QED BY <1>2, <1>3

LEMMA ListTakes ==
  ASSUME NEW made, IsList(made), NEW lo, NEW now,
         \A k \in 1..Len(made) : made[k].op # "module" /\ Spans(made[k], lo, now),
         NEW item, item.op # "module", Spans(item, lo, now),
         NEW new, new = Prepended(item, made) \/ new = Append(made, item)
  PROVE  IsList(new) /\ \A k \in 1..Len(new) : new[k].op # "module" /\ Spans(new[k], lo, now)
<1>1. Len(made) \in Nat
  BY ListLength
<1>2. CASE new = Prepended(item, made)
  <2>1. /\ IsList(new) /\ Len(new) = Len(made) + 1 /\ new[1] = item
        /\ \A i \in 2..(Len(made) + 1) : new[i] = made[i - 1]
    BY <1>2, ListPrepended
  <2>2. \A k \in 1..Len(new) : k = 1 \/ (k \in 2..(Len(made) + 1) /\ k - 1 \in 1..Len(made))
    BY <1>1, <2>1
  <2> QED BY <2>1, <2>2
<1>3. CASE new = Append(made, item)
  <2>1. /\ IsList(new) /\ Len(new) = Len(made) + 1
        /\ \A i \in 1..Len(made) : new[i] = made[i]
        /\ new[Len(made) + 1] = item
    BY <1>3, ListAppended
  <2>2. \A k \in 1..Len(new) : k \in 1..Len(made) \/ k = Len(made) + 1
    BY <1>1, <2>1
  <2> QED BY <2>1, <2>2
<1> QED BY <1>2, <1>3

LEMMA FrameFolds ==
  ASSUME NEW f, FormOK(f), f.folding, f.op # "file", Len(f.items) > 0,
         NEW lo, NEW now, FrameLines(f, lo, now),
         NEW item, item = f.items[Len(f.items)],
         NEW items, items = SubSeq(f.items, 1, Len(f.items) - 1),
         NEW made, made = Added(f.op, f.made, item),
         NEW g, g = [f EXCEPT !.items = items, !.made = made]
  PROVE  FrameLines(g, lo, now)
<1>1. IsList(f.items) /\ Len(f.items) \in Nat
  BY FormFacts
<1>2. /\ Len(items) = Len(f.items) - 1
      /\ \A i \in 1..(Len(f.items) - 1) : items[i] = f.items[i]
  BY <1>1, ListShortened
<1>3. g.items = items /\ g.made = made /\ g.folding /\ g.op = f.op
  BY DEF FormOK
<1>4. Len(f.items) \in 1..Len(f.items)
  BY <1>1
<1>5. \A k \in 1..Len(items) : k \in 1..Len(f.items) /\ items[k] = f.items[k]
  BY <1>1, <1>2
<1>6. \A k \in 1..Len(items) : ItemSpans(items[k], lo, now)
  BY <1>5 DEF FrameLines
<1>7. CASE f.op = "module"
  <2>1. CollectsModule(f, lo, now)
    BY <1>7 DEF FrameLines
  <2>2. item.op \in Class("elem")
    BY <1>4, <2>1 DEF CollectsModule
  <2>3. Spans(item, lo, now)
    BY <1>4, <2>2 DEF FrameLines, ItemSpans, Class
  <2>4. made = AddElem(f.made, item)
    BY <1>7 DEF Added
  <2>5. ModuleSpans(made, lo) /\ made.op = "module" /\ made.line = now
    BY <2>1, <2>2, <2>3, <2>4, ModuleTakes DEF CollectsModule
  <2>6. \A k \in 1..Len(items) : items[k].op \in Class("elem")
    BY <1>5, <2>1 DEF CollectsModule
  <2> QED BY <1>3, <1>6, <1>7, <2>5, <2>6 DEF FrameLines, CollectsModule
<1>8. CASE f.op # "module"
  <2>1. CollectsList(f, lo, now)
    BY <1>8 DEF FrameLines
  <2>2. item.op # "module" /\ Spans(item, lo, now)
    BY <1>4, <2>1 DEF CollectsList, FrameLines, ItemSpans
  <2>3. made = Prepended(item, f.made) \/ made = Append(f.made, item)
    BY <1>8 DEF Added, Prepended
  <2>4. IsList(made) /\ \A k \in 1..Len(made) : made[k].op # "module" /\ Spans(made[k], lo, now)
    BY <2>1, <2>2, <2>3, ListTakes DEF CollectsList
  <2>5. \A k \in 1..Len(items) : items[k].op # "module"
    BY <1>5, <2>1 DEF CollectsList
  <2> QED BY <1>3, <1>6, <1>8, <2>1, <2>4, <2>5 DEF FrameLines, CollectsList
<1> QED BY <1>7, <1>8

LEMMA FoldLines ==
  ASSUME ParserInv, LinesInv, TokenOK', Fold
  PROVE  LinesInv'
<1>1. /\ status = "parsing" /\ Top.folding /\ Len(Top.items) > Top.head
      /\ StackOK /\ StackLines
  BY DEF Fold, Ends, Parsing, ParserInv, LinesInv
<1>2. PICK item : item = Top.items[Len(Top.items)]
  OBVIOUS
<1>3. CASE Stop("crashed")
  BY <1>3, StoppedLines
<1>4. CASE /\ stack' = [stack EXCEPT ![Len(stack)] =
                          [Top EXCEPT !.items = SubSeq(@, 1, Len(@) - 1),
                                      !.made = Added(Top.op, @, item)]]
           /\ UNCHANGED <<script, pos, line, skip, look, counts, file, funs, status>>
  <2>1. FormOK(Top) /\ Len(Top.items) \in Nat /\ Top.head \in Nat
    BY <1>1, TopTyped, FormFacts
  <2>2. Len(Top.items) > 0
    BY <1>1, <2>1
  <2>3. PICK items : items = SubSeq(Top.items, 1, Len(Top.items) - 1)
    OBVIOUS
  <2>4. PICK made : made = Added(Top.op, Top.made, item)
    OBVIOUS
  <2>5. PICK g : g = [Top EXCEPT !.items = items, !.made = made]
    OBVIOUS
  <2>6. stack' = Replaced(stack, Len(stack), g)
    <3>1. stack' = Replaced(stack, Len(stack),
                            [Top EXCEPT !.items = SubSeq(@, 1, Len(@) - 1),
                                        !.made = Added(Top.op, @, item)])
      BY <1>4 DEF Replaced, Top
    <3>2. [Top EXCEPT !.items = items].made = Top.made
      BY <2>1 DEF FormOK
    <3> QED BY <2>3, <2>4, <2>5, <3>1, <3>2, Zenon
  <2>7. CASE Len(stack) = 1
    <3>1. Top.op = "file" /\ FileLines(Top, line)
      BY <1>1, <2>7 DEF StackOK, StackLines, Top
    <3>2. made = AddTop(Top.made, item)
      BY <2>4, <3>1 DEF Added
    <3>3. FileLines(g, line)
      BY <1>1, <1>2, <2>1, <2>2, <2>3, <2>5, <3>1, <3>2, FileFolds
    <3>4. StackLines'
      BY <1>1, <1>4, <2>6, <2>7, <3>3, TopFile
    <3> QED BY <1>1, <1>4, <3>4 DEF LinesInv
  <2>8. CASE Len(stack) > 1 /\ Len(stack) \in 2..Len(stack)
    <3>1. Top.op # "file"
      BY <1>1, <2>8, TopTyped DEF StackOK, Top
    <3>2. \A lo \in Lows(stack[1]) : FrameLines(Top, lo, line)
      BY <1>1, <2>8 DEF StackLines, Top
    <3>3. \A lo \in Lows(stack[1]) : FrameLines(g, lo, line)
      BY <1>1, <1>2, <2>1, <2>2, <2>3, <2>4, <2>5, <3>1, <3>2, FrameFolds
    <3>4. StackLines'
      BY <1>1, <1>4, <2>6, <2>8, <3>3, TopFrame
    <3> QED BY <1>1, <1>4, <3>4 DEF LinesInv
  <2> QED BY <1>1, <2>7, <2>8, OneOrMore
<1> QED BY <1>2, <1>3, <1>4 DEF Fold

-----------------------------------------------------------------------------
(***************************************************************************)
(* The lines of what a form is reduced to.                                 *)
(***************************************************************************)
LEMMA PartsSpan ==
  ASSUME NEW f, FormOK(f), f.op \in Keywords \ {"module"}, Ready(f),
         NEW lo, NEW now, FrameLines(f, lo, now),
         NEW parts, parts = f.items \o f.made
  PROVE  /\ IsList(parts)
         /\ \A k \in 1..Len(parts) : parts[k].op # "module" /\ Spans(parts[k], lo, now)
<1>1. IsList(f.items)
  BY FormFacts
<1>2. \A k \in 1..Len(f.items) : f.items[k].op # "module"
  <2>1. CASE f.folding
    BY <2>1 DEF FrameLines, CollectsList
  <2>2. CASE ~f.folding
    BY <1>1, <2>2, NoModulesMatched DEF Ready
  <2> QED BY <2>1, <2>2
<1>3. \A k \in 1..Len(f.items) : Spans(f.items[k], lo, now)
  BY <1>2 DEF FrameLines, ItemSpans
<1>4. IsList(f.made) /\ \A k \in 1..Len(f.made) : f.made[k].op # "module" /\ Spans(f.made[k], lo, now)
  <2>1. CASE f.folding
    BY <2>1 DEF FrameLines, CollectsList
  <2>2. CASE ~f.folding
    BY <2>2, EmptyIsList DEF FrameLines
  <2> QED BY <2>1, <2>2
<1>5. IsList(parts)
  BY <1>1, <1>4, ListJoined
<1>6. ASSUME NEW k \in 1..Len(parts)
      PROVE  parts[k].op # "module" /\ Spans(parts[k], lo, now)
  <2>1. PICK s : s = f.items
    OBVIOUS
  <2>2. PICK t : t = f.made
    OBVIOUS
  <2>3. IsList(s) /\ IsList(t) /\ parts = s \o t
    BY <1>1, <1>4, <2>1, <2>2
  <2>4. \/ \E j \in 1..Len(s) : parts[k] = s[j]
        \/ \E j \in 1..Len(t) : parts[k] = t[j]
    BY <2>3, JoinedItems
  <2> QED BY <1>2, <1>3, <1>4, <2>1, <2>2, <2>4
<1> QED BY <1>5, <1>6

LEMMA FormsSpan ==
  ASSUME NEW op, NEW names, NEW parts, IsList(parts), NEW lo, NEW hi,
         NEW l \in Nat, l > 0 => lo <= l /\ l <= hi,
         \A k \in 1..Len(parts) : Spans(parts[k], lo, hi)
  PROVE  Spans(Object(op, names, FormsOf(parts), l), lo, hi)
<1>1. PICK kids : kids = FormsOf(parts)
  OBVIOUS
<1>2. AreItems(kids, parts)
  BY <1>1, FormsAreItems
<1>3. IsList(kids) /\ \A i \in 1..Len(kids) : Spans(kids[i], lo, hi)
  BY <1>2 DEF AreItems
<1> QED BY <1>1, <1>3, SpansBuilt

(***************************************************************************)
(* The expressions an assertion is made of.                                *)
(***************************************************************************)
LEMMA NumberSpans ==
  ASSUME NEW n, NEW lo, NEW hi
  PROVE  Spans(Number(n), lo, hi)
BY EmptyIsList, SpansBuilt DEF Number

LEMMA ComparedSpans ==
  ASSUME NEW call, NEW expected, NEW lo, NEW hi, Spans(call, lo, hi), Spans(expected, lo, hi)
  PROVE  Spans(Compared(call, expected), lo, hi)
<1>1. PICK operands : operands = <<call, expected>>
  OBVIOUS
<1>2. IsList(operands) /\ \A i \in 1..Len(operands) : Spans(operands[i], lo, hi)
  BY <1>1, ListOfTwo
<1>3. PICK equal : equal = Object("binop", <<>>, operands, 0)
  OBVIOUS
<1>4. Spans(equal, lo, hi)
  BY <1>2, <1>3, SpansBuilt
<1>5. PICK number : number = Number(ToString(line))
  OBVIOUS
<1>6. PICK sides : sides = <<equal, Success, number>>
  OBVIOUS
<1>7. IsList(sides) /\ \A i \in 1..Len(sides) : sides[i] \in {equal, Success, number}
  BY <1>6, ListOfThree
<1>8. Spans(Success, lo, hi) /\ Spans(number, lo, hi)
  BY <1>5, NumberSpans DEF Success
<1>9. \A i \in 1..Len(sides) : Spans(sides[i], lo, hi)
  BY <1>4, <1>7, <1>8
<1>10. PICK choice : choice = Object("if_else", <<>>, sides, 0)
  OBVIOUS
<1>11. Spans(choice, lo, hi)
  BY <1>7, <1>9, <1>10, SpansBuilt
<1>12. PICK result : result = <<choice>>
  OBVIOUS
<1>13. IsList(result) /\ \A i \in 1..Len(result) : Spans(result[i], lo, hi)
  BY <1>11, <1>12, ListOfOne
<1>14. Spans(Object("return", <<>>, result, 0), lo, hi)
  BY <1>13, SpansBuilt
<1>15. Compared(call, expected) = Object("return", <<>>, result, 0)
  BY <1>1, <1>3, <1>5, <1>6, <1>10, <1>12 DEF Compared
<1> QED BY <1>14, <1>15

LEMMA SequenceSpans ==
  ASSUME NEW a, NEW b, NEW lo, NEW hi, Spans(a, lo, hi), Spans(b, lo, hi)
  PROVE  Spans(Sequence(<<a, b>>), lo, hi)
<1>1. PICK exprs : exprs = <<a, b>>
  OBVIOUS
<1>2. IsList(exprs) /\ \A i \in 1..Len(exprs) : Spans(exprs[i], lo, hi)
  BY <1>1, ListOfTwo
<1>3. Spans(Object("block", <<NoName>>, exprs, 0), lo, hi)
  BY <1>2, SpansBuilt
<1> QED BY <1>1, <1>3 DEF Sequence

LEMMA AssertionHeads ==
  ASSUME NEW op \in Assertions, NEW rule \in Rules(op)
  PROVE  /\ Len(rule.head) \in 1..2
         /\ op = "assert_trap" => Len(rule.head) = 2
BY DEF Assertions, Rules, Rule

LEMMA AssertionSpans ==
  ASSUME NEW op \in Assertions, NEW parts, NEW lo, NEW hi,
         Len(parts) \in Nat, Len(parts) >= 1,
         op = "assert_return" => Len(parts) <= 2,
         \A k \in 1..Len(parts) : Spans(parts[k], lo, hi)
  PROVE  Spans(Assertion(op, parts), lo, hi)
<1>1. Spans(parts[1], lo, hi)
  BY 1 \in 1..Len(parts)
<1>2. CASE op = "assert_return_nan"
  <2>1. Assertion(op, parts) = Compared(parts[1], Number("nan"))
    BY <1>2 DEF Assertion
  <2> QED BY <1>1, <2>1, NumberSpans, ComparedSpans
<1>3. CASE op = "assert_trap"
  <2>1. PICK message : message = Object("string", parts[2].names, <<>>, 0)
    OBVIOUS
  <2>2. Assertion(op, parts) = Sequence(<<parts[1], message>>)
    BY <1>3, <2>1 DEF Assertion
  <2>3. Spans(message, lo, hi)
    BY <2>1, EmptyIsList, SpansBuilt
  <2> QED BY <1>1, <2>2, <2>3, SequenceSpans
<1>4. CASE op = "assert_return" /\ Len(parts) = 1
  <2>1. Assertion(op, parts) = Sequence(<<parts[1], Success>>)
    BY <1>4 DEF Assertion
  <2>2. Spans(Success, lo, hi)
    BY NumberSpans DEF Success
  <2> QED BY <1>1, <2>1, <2>2, SequenceSpans
<1>5. CASE op = "assert_return" /\ Len(parts) = 2
  <2>1. Assertion(op, parts) = Compared(parts[1], parts[2])
    BY <1>5 DEF Assertion
  <2>2. Spans(parts[2], lo, hi)
    BY <1>5
  <2> QED BY <1>1, <2>1, <2>2, ComparedSpans
<1>6. op \in {"assert_return", "assert_return_nan", "assert_trap"}
  BY DEF Assertions
<1>7. op = "assert_return" => Len(parts) = 1 \/ Len(parts) = 2
  <2>1. PICK n \in Nat : n = Len(parts)
    OBVIOUS
  <2>2. n >= 1 /\ (n <= 2 => n = 1 \/ n = 2)
    BY <2>1
  <2> QED BY <2>1, <2>2
<1> QED BY <1>2, <1>3, <1>4, <1>5, <1>6, <1>7

(***************************************************************************)
(* What a form is reduced to has the line that is read, or none, and spans *)
(* no other lines than its parts.                                          *)
(***************************************************************************)
ReducesTo(op, o, lo) ==
  /\ ItemSpans(o, lo, line)
  /\ o.line \in Nat /\ o.line <= line
  /\ o.op = "module" => op = "module"
  /\ o.op \in Requests => o.line = line

LEMMA AssertionReduced ==
  ASSUME NEW f, FormOK(f), f.op \in Assertions, Ready(f), ~Refused(f), line \in Nat,
         NEW lo \in Nat, lo <= line, FrameLines(f, lo, line)
  PROVE  ReducesTo(f.op, Reduced(f), lo)
<1>0. f.op # "module" /\ f.op \in Keywords
  BY DEF Assertions, Keywords
<1>1. ~f.folding
  BY <1>0 DEF FrameLines, CollectsList
<1>2. PICK parts : parts = f.items \o f.made
  OBVIOUS
<1>3. IsList(parts) /\ \A k \in 1..Len(parts) : Spans(parts[k], lo, line)
  BY <1>0, <1>2, PartsSpan
<1>4. Len(parts) = Len(f.items) /\ Len(f.items) \in Nat
  <2>1. f.made = <<>> /\ IsList(f.items)
    BY <1>1, FormFacts DEF FrameLines
  <2>2. IsList(f.made) /\ Len(f.made) = 0
    BY <2>1, EmptyIsList
  <2>3. Len(parts) = Len(f.items) + Len(f.made)
    BY <1>2, <2>1, <2>2, ListJoined
  <2> QED BY <2>1, <2>2, <2>3, ListLength
<1>5. PICK rule \in Rules(f.op) : Matches(f.items, rule)
  BY <1>1 DEF Ready
<1>6. Len(f.items) >= Len(rule.head) /\ Len(rule.head) \in 1..2
  BY <1>5, AssertionHeads DEF Matches
<1>7. Len(parts) \in Nat /\ Len(parts) >= 1
  <2>1. PICK n \in Nat : n = Len(f.items)
    BY <1>4
  <2>2. PICK h \in 1..2 : h = Len(rule.head)
    BY <1>6
  <2>3. n >= h
    BY <1>6, <2>1, <2>2
  <2> QED BY <1>4, <2>1, <2>3
<1>8. f.op = "assert_return" => Len(parts) <= 2
  BY <1>4 DEF Refused
<1>9. PICK body : body = Assertion(f.op, parts)
  OBVIOUS
<1>10. Spans(body, lo, line)
  BY <1>3, <1>7, <1>8, <1>9, AssertionSpans
<1>11. PICK kids : kids = <<body>>
  OBVIOUS
<1>12. IsList(kids) /\ \A i \in 1..Len(kids) : Spans(kids[i], lo, line)
  BY <1>10, <1>11, ListOfOne
<1>13. Spans(Object(f.op, <<>>, kids, line), lo, line)
  BY <1>12, SpansBuilt
<1>14. Reduced(f) = Object(f.op, <<>>, kids, line)
  BY <1>0, <1>2, <1>9, <1>11 DEF Reduced, Assertions
<1>15. Reduced(f).op = f.op /\ Reduced(f).line = line
  BY <1>14 DEF Object
<1> QED BY <1>0, <1>13, <1>14, <1>15 DEF ReducesTo, ItemSpans


LEMMA FormReduced ==
  ASSUME NEW f, FormOK(f), f.op \in Keywords, Ready(f), ~Refused(f), line \in Nat,
         NEW lo \in Nat, lo <= line, FrameLines(f, lo, line)
  PROVE  ReducesTo(f.op, Reduced(f), lo)
<1>1. CASE f.op = "module"
  <2>1. f.folding
    BY <1>1, ListsOfFiles DEF Ready
  <2>2. CollectsModule(f, lo, line)
    BY <1>1, <2>1 DEF FrameLines
  <2>3. Reduced(f) = f.made
    BY <1>1 DEF Reduced, Assertions
  <2>4. f.made.op \notin Requests
    BY <2>2 DEF CollectsModule, Requests, Assertions
  <2> QED BY <1>1, <2>2, <2>3, <2>4 DEF ReducesTo, ItemSpans, CollectsModule
<1>2. CASE f.op \in Assertions
  BY <1>2, AssertionReduced
<1>3. CASE f.op \notin Assertions /\ f.op # "module"
  <2>1. PICK parts : parts = f.items \o f.made
    OBVIOUS
  <2>2. IsList(parts) /\ \A k \in 1..Len(parts) : Spans(parts[k], lo, line)
    BY <1>3, <2>1, PartsSpan
  <2>3. CASE f.op = "has_feature"
    <3>1. PICK n : Reduced(f) = Number(n)
      BY <2>3 DEF Reduced, Assertions
    <3>2. Reduced(f).op = "const" /\ Reduced(f).line = 0
      BY <3>1 DEF Number, Object
    <3>3. Spans(Reduced(f), lo, line)
      BY <3>1, NumberSpans
    <3> QED BY <3>2, <3>3 DEF ReducesTo, ItemSpans, Requests, Assertions
  <2>4. CASE f.op = "case" /\ parts[1].op = "int"
    <3>1. PICK names : Reduced(f) = Object("case_index", names, <<>>, 0)
      BY <2>1, <2>4 DEF Reduced, Assertions
    <3>2. Reduced(f).op = "case_index" /\ Reduced(f).line = 0
      BY <3>1 DEF Object
    <3>3. Spans(Reduced(f), lo, line)
      BY <3>1, EmptyIsList, SpansBuilt
    <3> QED BY <3>2, <3>3 DEF ReducesTo, ItemSpans, Requests, Assertions
  <2>5. CASE f.op # "has_feature" /\ ~(f.op = "case" /\ parts[1].op = "int")
    <3>1. PICK names : Reduced(f) = Object(f.op, names, FormsOf(parts), LineOf(f.op))
      BY <1>3, <2>1, <2>5 DEF Reduced
    <3>2. Reduced(f).op = f.op /\ Reduced(f).line = LineOf(f.op)
      BY <3>1 DEF Object
    <3>3. LineOf(f.op) \in {line, 0} /\ (f.op \in Requests => LineOf(f.op) = line)
      BY DEF LineOf, Requests, Assertions
    <3>4. PICK l \in Nat : l = LineOf(f.op)
      BY <3>3
    <3>5. l > 0 => lo <= l /\ l <= line
      BY <3>3, <3>4
    <3>6. Spans(Object(f.op, names, FormsOf(parts), l), lo, line)
      BY <2>2, <3>5, FormsSpan
    <3>7. Spans(Reduced(f), lo, line)
      BY <3>1, <3>4, <3>6
    <3> QED BY <1>3, <3>2, <3>3, <3>7 DEF ReducesTo, ItemSpans
  <2> QED BY <2>3, <2>4, <2>5
<1> QED BY <1>1, <1>2, <1>3

LEMMA StackClosed ==
  ASSUME StackOK, status = "parsing", Len(stack) > 1, NEW o, ClosedInto(o)
  PROVE  \E n \in Nat \ {0} : \E f :
           /\ n = Len(stack) - 1 /\ f = [stack[n] EXCEPT !.items = Append(@, o)]
           /\ FormOK(stack[n]) /\ ~stack[n].folding
           /\ Len(stack') = n /\ stack'[n] = f
           /\ \A i \in 1..n : i # n => stack'[i] = stack[i]
<1>1. IsList(stack) /\ Len(stack) \in Nat
  BY TopTyped DEF StackOK
<1>2. PICK s : s = Front(stack)
  OBVIOUS
<1>3. /\ IsList(s) /\ Len(s) = Len(stack) - 1
      /\ \A i \in 1..(Len(stack) - 1) : s[i] = stack[i]
  BY <1>1, <1>2, ListShortened DEF Front
<1>4. PICK n \in Nat \ {0} : n = Len(stack) - 1
  BY <1>1
<1>5. n \in 1..Len(stack) /\ n # Len(stack) /\ s[n] = stack[n]
  BY <1>1, <1>3, <1>4
<1>6. PICK f : f = [stack[n] EXCEPT !.items = Append(@, o)]
  OBVIOUS
<1>7. FormOK(stack[n]) /\ ~stack[n].folding
  BY <1>5 DEF StackOK
<1>8. stack' = Replaced(s, n, f)
  BY <1>2, <1>4, <1>5, <1>6 DEF ClosedInto, Replaced
<1>9. IsList(s) /\ Len(s) = n /\ n \in 1..Len(s) /\ \A i \in 1..n : s[i] = stack[i]
  BY <1>3, <1>4
<1>10. IsList(s) /\ n \in 1..Len(s)
  BY <1>9
<1>11. /\ Len(stack') = Len(s) /\ stack'[n] = f
       /\ \A i \in 1..Len(s) : i # n => stack'[i] = s[i]
  BY <1>8, <1>10, ListReplaced
<1> QED BY <1>4, <1>6, <1>7, <1>9, <1>11

(***************************************************************************)
(* The lines when a form ends: the form outside of it takes what it is     *)
(* reduced to.                                                             *)
(***************************************************************************)
LEMMA CloseLines ==
  ASSUME ParserInv, LinesInv, TokenOK', Close
  PROVE  LinesInv'
<1>1. /\ status = "parsing" /\ Len(stack) > 1 /\ Ready(Top) /\ StackOK /\ StackLines
  BY DEF Close, Parsing, ParserInv, LinesInv
<1>2. CASE Stop("crashed")
  BY <1>2, StoppedLines
<1>3. CASE /\ ~Refused(Top)
           /\ stack' = [Front(stack) EXCEPT ![Len(stack) - 1].items = Append(@, Reduced(Top))]
           /\ UNCHANGED <<script, pos, line, skip, file, funs, status>>
  <2>1. PICK o : o = Reduced(Top)
    OBVIOUS
  <2>2. ClosedInto(o)
    BY <1>3, <2>1 DEF ClosedInto
  <2>n. PICK n \in Nat \ {0} : \E f :
          /\ n = Len(stack) - 1 /\ f = [stack[n] EXCEPT !.items = Append(@, o)]
          /\ FormOK(stack[n]) /\ ~stack[n].folding
          /\ Len(stack') = n /\ stack'[n] = f
          /\ \A i \in 1..n : i # n => stack'[i] = stack[i]
    BY <1>1, <2>2, StackClosed
  <2>3. PICK f :
          /\ n = Len(stack) - 1 /\ f = [stack[n] EXCEPT !.items = Append(@, o)]
          /\ FormOK(stack[n]) /\ ~stack[n].folding
          /\ Len(stack') = n /\ stack'[n] = f
          /\ \A i \in 1..n : i # n => stack'[i] = stack[i]
    BY <2>n
  <2>4. /\ FormOK(stack[n]) /\ ~stack[n].folding
        /\ Len(stack') = n /\ stack'[n] = f
        /\ \A i \in 1..n : i # n => stack'[i] = stack[i]
    BY <2>3
  <2>5. Len(stack) = n + 1 /\ Len(stack) \in 2..Len(stack) /\ Len(stack) \in 1..Len(stack)
    BY <1>1, <2>3, TopTyped
  <2>6. FormOK(Top) /\ Top.op \in Keywords
    <3>1. Top.op # "file"
      BY <1>1, <2>5 DEF StackOK, Top
    <3> QED BY <1>1, <3>1, TopTyped, FormFacts
  <2>7. line \in Nat
    BY LineTyped DEF ParserInv
  <2>8. FileLines(stack[1], line)
    BY <1>1 DEF StackLines
  <2>9. ASSUME NEW lo \in Lows(stack[1]) PROVE ReducesTo(Top.op, o, lo)
    <3>1. FrameLines(Top, lo, line)
      BY <1>1, <2>5 DEF StackLines, Top
    <3>2. lo \in Nat /\ lo <= line
      BY <2>7, <2>8, LowsTyped
    <3> QED BY <1>1, <1>3, <2>1, <2>6, <2>7, <3>1, <3>2, FormReduced
  <2>10. CASE n = 1
    <3>1. ASSUME NEW lo \in Lows(stack[1]) PROVE TopSpans(o, lo)
      <4>1. ReducesTo(Top.op, o, lo)
        BY <2>9
      <4>2. o.op \in Requests => o.op # "module"
        BY DEF Requests, Assertions
      <4> QED BY <4>1, <4>2 DEF ReducesTo, ItemSpans, TopSpans
    <3>2. o.line \in Nat /\ o.line <= line
      <4>1. 0 \in Lows(stack[1])
        BY DEF Lows
      <4> QED BY <2>9, <4>1 DEF ReducesTo
    <3>3. FileLines(f, line)
      BY <2>3, <2>4, <2>7, <2>8, <2>10, <3>1, <3>2, FileTakes
    <3>4. Len(stack') = 1 /\ stack'[1] = f /\ 2..Len(stack') = {}
      BY <2>4, <2>10
    <3>5. StackLines'
      BY <1>3, <3>3, <3>4 DEF StackLines
    <3> QED BY <1>1, <1>3, <3>5 DEF LinesInv
  <2>11. CASE n # 1
    <3>1. n \in 2..Len(stack) /\ 2..n \subseteq 2..Len(stack)
      BY <2>5, <2>11
    <3>2. stack'[1] = stack[1]
      BY <2>4, <2>11
    <3>3. ASSUME NEW lo \in Lows(stack[1]) PROVE FrameLines(f, lo, line)
      <4>1. FrameLines(stack[n], lo, line)
        BY <1>1, <3>1 DEF StackLines
      <4>2. ItemSpans(o, lo, line)
        BY <2>9 DEF ReducesTo
      <4> QED BY <2>3, <2>4, <4>1, <4>2, FrameTakes
    <3>4. ASSUME NEW i \in 2..n, NEW lo \in Lows(stack[1])
          PROVE  FrameLines(stack'[i], lo, line)
      <4>1. CASE i = n
        BY <2>4, <3>3, <4>1
      <4>2. CASE i # n
        <5>1. i \in 1..n /\ i \in 2..Len(stack)
          BY <3>1
        <5>2. stack'[i] = stack[i]
          BY <2>4, <4>2, <5>1
        <5> QED BY <1>1, <5>1, <5>2 DEF StackLines
      <4> QED BY <4>1, <4>2
    <3>5. StackLines'
      BY <1>3, <2>4, <2>8, <3>2, <3>4 DEF StackLines
    <3> QED BY <1>1, <1>3, <3>5 DEF LinesInv
  <2> QED BY <2>10, <2>11
<1> QED BY <1>2, <1>3 DEF Close

LEMMA EndOfFileLines ==
  ASSUME LinesInv, TokenOK', EndOfFile
  PROVE  LinesInv'
<1>1. status = "parsing" /\ status' = "parsed" /\ file' = Top.made /\ Len(stack) = 1
      /\ Top.folding /\ StackLines
  BY DEF EndOfFile, Parsing, LinesInv
<1>2. FileSpans(Top.made, Lows(Top))
  BY <1>1 DEF StackLines, FileLines, Top
<1>3. FileSpans(file', {0})
  BY <1>1, <1>2 DEF FileSpans, Lows
<1> QED BY <1>1, <1>3 DEF LinesInv

LEMMA LinesNext ==
  ASSUME ParserInv, LinesInv, [Next]_vars
  PROVE  LinesInv'
<1>0. TokenOK'
  BY TokenRead DEF LinesInv
<1>1. CASE Newline \/ Comment \/ Token \/ SkipInvalid \/ EndOfText
  BY <1>0, <1>1, ScannerLines
<1>2. CASE OffsetAlign \/ Shift \/ EmptyList \/ Fold \/ Close \/ EndOfFile
  BY <1>0, <1>2, OffsetAlignLines, ShiftLines, EmptyListLines, FoldLines, CloseLines,
     EndOfFileLines
<1>3. CASE SyntaxError
  <2>1. Stop("error")
    BY <1>3 DEF SyntaxError
  <2> QED BY <1>0, <2>1, StoppedLines
<1>4. CASE Populate \/ PopulateAllocas \/ Done
  BY <1>0, <1>4, ReadLines
<1>5. CASE SkipPastEnd \/ Terminated \/ UNCHANGED vars
  BY <1>5, SameLines DEF SkipPastEnd, Terminated, vars
<1> QED BY <1>1, <1>2, <1>3, <1>4, <1>5 DEF Next, Step

(***************************************************************************)
(* What modules and requests span is within their lines.                   *)
(***************************************************************************)
LEMMA InOrder ==
  ASSUME ParserInv, LinesInv
  PROVE  LinesInOrder
<1> SUFFICES ASSUME status \in {"parsed", "done"}
             PROVE  LinesInOrder
  BY DEF LinesInOrder
<1>1. FileSpans(file, {0}) /\ script \in Scripts
  BY DEF LinesInv, ParserInv, ScannerOK
<1>2. ASSUME NEW m \in 1..Len(file.modules), NEW lo, ModuleSpans(file.modules[m], lo)
      PROVE  /\ lo <= file.modules[m].line
             /\ LinedUp(file.modules[m].functions, lo, file.modules[m].line)
  <2>1. PICK functions : functions = file.modules[m].functions
    OBVIOUS
  <2>2. /\ lo <= file.modules[m].line /\ IsList(functions)
        /\ \A k \in 1..Len(functions) : Spans(functions[k], lo, file.modules[m].line)
    BY <1>2, <2>1 DEF ModuleSpans
  <2>3. LinedUp(functions, lo, file.modules[m].line)
    BY <1>1, <2>2, SpansLinedUp
  <2> QED BY <2>1, <2>2, <2>3
<1>3. ASSUME NEW e \in 1..Len(file.elems), NEW lo, Spans(file.elems[e], lo, file.elems[e].line)
      PROVE  LinedUp(<<file.elems[e]>>, lo, file.elems[e].line)
  <2>1. PICK request : request = file.elems[e]
    OBVIOUS
  <2>2. PICK one : one = <<request>>
    OBVIOUS
  <2>3. IsList(one) /\ \A k \in 1..Len(one) : Spans(one[k], lo, request.line)
    BY <1>3, <2>1, <2>2, ListOfOne
  <2>4. LinedUp(one, lo, request.line)
    BY <1>1, <2>3, SpansLinedUp
  <2> QED BY <2>1, <2>2, <2>4
<1>4. ASSUME NEW m \in 1..Len(file.modules)
      PROVE  /\ ModuleSpans(file.modules[m], 0)
             /\ \A above \in (m + 1)..Len(file.modules) :
                  ModuleSpans(file.modules[m], file.modules[above].line)
  BY <1>1 DEF FileSpans
<1>5. ASSUME NEW e \in 1..Len(file.elems)
      PROVE  /\ Spans(file.elems[e], 0, file.elems[e].line)
             /\ \A above \in 1..(e - 1) :
                  Spans(file.elems[e], file.elems[above].line, file.elems[e].line)
  BY <1>1 DEF FileSpans
<1> QED BY <1>2, <1>3, <1>4, <1>5 DEF LinesInOrder

(***************************************************************************)
(* Whatever the text is, once it is parsed its lines are in the order of   *)
(* the text: no function of a module has a call on a line after that of    *)
(* the module or before that of a module above it, and no part of an       *)
(* assertion is on a line after its own or before that of an assertion     *)
(* above it; although modules are put at the end of one list and requests  *)
(* at the front of the other, each from the last one on, and although a    *)
(* module has the line that is read when its list is begun, which is when  *)
(* it ends.  A call finds the module it names by these lines.              *)
(***************************************************************************)
THEOREM LinesAscend == Spec => []LinesInOrder
<1>1. Init => LinesInv
  BY LinesInit
<1>2. ParserInv /\ LinesInv /\ [Next]_vars => LinesInv'
  BY LinesNext
<1>3. ParserInv /\ LinesInv => LinesInOrder
  BY InOrder
<1> QED BY <1>1, <1>2, <1>3, ParserInvHolds, PTL DEF Spec
=============================================================================
