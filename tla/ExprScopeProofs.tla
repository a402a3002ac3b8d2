-------------------------- MODULE ExprScopeProofs --------------------------
(***************************************************************************)
(* A break jumps to the block its label means: the proof of                *)
(* BreakTargetsScope, for every function the parser can build.             *)
(*                                                                         *)
(* ScopesAt follows the parents of an expression in the tree, and the code *)
(* generator follows its stack of active methods, in which HandleDivRem    *)
(* replaces an expression by one that shares its operands.  The invariant  *)
(* keeps both together with a function home that gives every node, also    *)
(* the made up ones, the scopes it is in: along the tree each operand is   *)
(* in the scopes of its expression and those this one opens for it, and    *)
(* along the stack each method in the scopes of the one below and those    *)
(* whose labels this one has pushed.                                       *)
(***************************************************************************)
EXTENDS ExprCodegenProofs, WellFoundedInduction

AllScopes == [n : Nat, name : LabelNames, end : BOOLEAN]

(***************************************************************************)
(* The scopes of the labels a method has pushed.                           *)
(***************************************************************************)
OpenedBy(f) ==
  IF f.bbs = <<>> THEN <<>>
  ELSE IF ast[f.n].op = "switch" /\ Len(f.bbs) >= Len(ast[f.n].kids) + 2 THEN <<>>
  ELSE OwnScopes(ast, f.n)

(***************************************************************************)
(* An expression of the program, or one that HandleDivRem has made, which  *)
(* opens no scope and refers back.                                         *)
(***************************************************************************)
Made == {"const", "cmp", "bin", "if"}

Written ==
  \A n \in 2..Len(ast) :
    \/ HasParent(ast, n)
    \/ ast[n].op \in Made /\ \A i \in 1..Len(ast[n].kids) : ast[n].kids[i] < n

OwnSelector ==
  \A n \in 1..Len(ast) : ast[n].op = "switch" =>
    \A i \in 1..Len(ast[n].kids) : ast[n].kids[i] = ast[n].kids[Len(ast[n].kids)]
                                     => i = Len(ast[n].kids)

IsHome(home) ==
  /\ home \in [1..Len(ast) -> Seq(AllScopes)]
  /\ home[1] = <<>>
  /\ \A n \in 1..Len(ast) : \A i \in 1..Len(ast[n].kids) :
       home[ast[n].kids[i]] = home[n] \o Opens(ast, n, ast[n].kids[i])

(***************************************************************************)
(* NoneHidden, with the scopes of home.                                    *)
(***************************************************************************)
NamesDiffer(scopes) ==
  \A i, j \in 1..Len(scopes) :
    scopes[i].name = scopes[j].name => i = j \/ scopes[i].name = NoName

AllDiffer(home) ==
  \A n \in 1..Len(ast) :
    ast[n].op \in Labelled => NamesDiffer(home[n] \o OwnScopes(ast, n))

OnStack(home) ==
  \A j \in 1..(Len(stack) - 1) :
    home[stack[j + 1].n] = home[stack[j].n] \o OpenedBy(stack[j])

(***************************************************************************)
(* A name of an open scope is mapped to the block of the scope.            *)
(***************************************************************************)
NamesMapped(j) ==
  \A t \in 1..Len(OpenedBy(stack[j])) :
    OpenedBy(stack[j])[t].name # NoName =>
      mapped[OpenedBy(stack[j])[t].name] = ScopeBlock(stack[j], OpenedBy(stack[j])[t])

JumpsHome(home, j) ==
  IsBreak(ast[stack[j].n]) /\ stack[j].bbs # <<>> =>
    LET meant == Meant(home[stack[j].n], ast[stack[j].n])
    IN meant = {} \/ ReachesOneOf(meant, j)

ScopeInv(home) ==
  /\ Written /\ OwnSelector
  /\ IsHome(home)
  /\ OnStack(home)
  /\ AllDiffer(home) => \A j \in 1..Len(stack) : NamesMapped(j) /\ JumpsHome(home, j)

-----------------------------------------------------------------------------
(***************************************************************************)
(* Numbers: the least one of a set, and of those a sequence of steps       *)
(* reaches.                                                                *)
(***************************************************************************)
LEMMA NotBefore ==
  ASSUME NEW i \in Nat, NEW j \in Nat, <<i, j>> \notin OpToRel(<, Nat)
  PROVE  j <= i
BY DEF OpToRel

LEMMA LeastOne ==
  ASSUME NEW S \in SUBSET Nat, S # {}
  PROVE  \E x \in S : \A y \in S : x <= y
<1>1. PICK x \in S : \A y \in S : ~(<<y, x>> \in OpToRel(<, Nat))
  BY WFMin, NatLessThanWellFounded
<1> QED
  BY <1>1, NotBefore

LEMMA AllUpTo ==
  ASSUME NEW m \in Nat, NEW S \in SUBSET 1..m,
         \A k \in 1..m : (\A j \in 1..(k - 1) : j \in S) => k \in S
  PROVE  S = 1..m
<1> SUFFICES ASSUME (1..m) \ S # {} PROVE FALSE
  OBVIOUS
<1> DEFINE T == (1..m) \ S
<1>a. T \in SUBSET Nat /\ T # {}
  OBVIOUS
<1>b. \E x \in T : \A y \in T : x <= y
  <2> HIDE DEF T
  <2> QED
    BY <1>a, LeastOne
<1>1. PICK x \in (1..m) \ S : \A y \in (1..m) \ S : x <= y
  BY <1>b
<1>2. \A j \in 1..(x - 1) : j \in S
  BY <1>1
<1> QED
  BY <1>1, <1>2

-----------------------------------------------------------------------------
(***************************************************************************)
(* Scopes.                                                                 *)
(***************************************************************************)
LEMMA OneOf ==
  ASSUME NEW S, NEW x \in S
  PROVE  <<x>> \in Seq(S) /\ Len(<<x>>) = 1 /\ <<x>>[1] = x
OBVIOUS

LEMMA TwoOf ==
  ASSUME NEW S, NEW x \in S, NEW y \in S
  PROVE  /\ <<x, y>> \in Seq(S) /\ Len(<<x, y>>) = 2 /\ <<x, y>>[1] = x /\ <<x, y>>[2] = y
OBVIOUS

LEMMA ScopeTyped ==
  ASSUME NEW n \in Nat, NEW l \in LabelNames, NEW end \in BOOLEAN
  PROVE  /\ Scope(n, l, end) \in AllScopes
         /\ Scope(n, l, end).n = n /\ Scope(n, l, end).name = l /\ Scope(n, l, end).end = end
BY DEF Scope, AllScopes

LEMMA BlockOfScope ==
  ASSUME NEW f, NEW n, NEW l
  PROVE  /\ ScopeBlock(f, Scope(n, l, TRUE)) = f.bbs[IF ast[f.n].op = "label" THEN 1 ELSE 2]
         /\ ScopeBlock(f, Scope(n, l, FALSE)) = f.bbs[1]
<1>1. Scope(n, l, TRUE).end = TRUE /\ Scope(n, l, FALSE).end = FALSE
  BY DEF Scope
<1> QED
  BY <1>1 DEF ScopeBlock

LEMMA NodeTyped ==
  ASSUME TypeOK, NEW n \in 1..Len(ast)
  PROVE  /\ ast[n] \in Nodes /\ n \in Nat /\ Len(ast) \in Nat
         /\ ast[n].kids \in Seq(Nat) /\ Len(ast[n].kids) \in Nat
<1>1. ast[n] \in Nodes /\ n \in Nat /\ Len(ast) \in Nat
  BY DEF TypeOK, AstOK
<1>2. ast[n].kids \in Seq(Nat)
  BY <1>1 DEF Nodes
<1> QED
  BY <1>1, <1>2

LEMMA OwnTyped ==
  ASSUME TypeOK, NEW n \in 1..Len(ast)
  PROVE  LET own == OwnScopes(ast, n)
         IN /\ own \in Seq(AllScopes) /\ Len(own) \in Nat
            /\ ast[n].op \notin Labelled => own = <<>>
            /\ ast[n].op \in Labelled \ {"loop"} =>
                 Len(own) = 1 /\ own[1] = Scope(n, ast[n].name, TRUE)
            /\ ast[n].op = "loop" =>
                 /\ Len(own) = 2
                 /\ own[1] = Scope(n, ast[n].exit, TRUE) /\ own[2] = Scope(n, ast[n].name, FALSE)
            /\ \A t \in 1..Len(own) : own[t].n = n
<1> DEFINE own == OwnScopes(ast, n)
<1>1. ast[n].name \in LabelNames /\ ast[n].exit \in LabelNames /\ n \in Nat
  BY NodeTyped DEF Nodes
<1>2. PICK x \in AllScopes : x = Scope(n, ast[n].name, TRUE) /\ x.n = n
  BY <1>1, ScopeTyped
<1>3. PICK y \in AllScopes : y = Scope(n, ast[n].exit, TRUE) /\ y.n = n
  BY <1>1, ScopeTyped
<1>4. PICK z \in AllScopes : z = Scope(n, ast[n].name, FALSE) /\ z.n = n
  BY <1>1, ScopeTyped
<1>5. CASE ast[n].op = "loop"
  <2>1. own = <<y, z>>
    BY <1>3, <1>4, <1>5 DEF OwnScopes
  <2>2. own \in Seq(AllScopes) /\ Len(own) = 2 /\ own[1] = y /\ own[2] = z
    BY <2>1, TwoOf
  <2>3. ASSUME NEW t \in 1..Len(own) PROVE own[t].n = n
    <3>1. t = 1 \/ t = 2
      BY <2>2
    <3> HIDE DEF own
    <3> QED
      BY <3>1, <2>2, <1>3, <1>4
  <2> QED
    BY <2>2, <2>3, <1>3, <1>4, <1>5 DEF Labelled
<1>6. CASE ast[n].op \in Labelled \ {"loop"}
  <2>1. own = <<x>>
    BY <1>2, <1>6 DEF OwnScopes
  <2>2. own \in Seq(AllScopes) /\ Len(own) = 1 /\ own[1] = x
    BY <2>1, OneOf
  <2>3. ASSUME NEW t \in 1..Len(own) PROVE own[t].n = n
    <3>1. t = 1
      BY <2>2
    <3> HIDE DEF own
    <3> QED
      BY <3>1, <2>2, <1>2
  <2> QED
    BY <2>2, <2>3, <1>2, <1>6
<1>7. CASE ast[n].op \notin Labelled
  <2>1. own = <<>>
    BY <1>7 DEF OwnScopes, Labelled
  <2>2. own \in Seq(AllScopes) /\ Len(own) = 0
    BY <2>1
  <2> QED
    BY <2>1, <2>2, <1>7 DEF Labelled
<1> QED
  BY <1>5, <1>6, <1>7

LEMMA OpenedTyped ==
  ASSUME TypeOK, NEW j \in 1..Len(stack)
  PROVE  /\ OpenedBy(stack[j]) \in Seq(AllScopes)
         /\ \A t \in 1..Len(OpenedBy(stack[j])) : OpenedBy(stack[j])[t].n = stack[j].n
         /\ OpenedBy(stack[j]) # <<>> => ast[stack[j].n].op \in Labelled
<1>1. stack[j].n \in 1..Len(ast)
  BY DEF TypeOK, StackOK, FrameOK
<1>2. OpenedBy(stack[j]) \in {<<>>, OwnScopes(ast, stack[j].n)}
  BY DEF OpenedBy
<1>3. <<>> \in Seq(AllScopes) /\ \A t \in 1..Len(<<>>) : FALSE
  OBVIOUS
<1>4. CASE OpenedBy(stack[j]) = <<>>
  BY <1>3, <1>4
<1>5. CASE OpenedBy(stack[j]) # <<>>
  <2>1. OpenedBy(stack[j]) = OwnScopes(ast, stack[j].n)
    BY <1>2, <1>5
  <2> QED
    <3>1. /\ OwnScopes(ast, stack[j].n) \in Seq(AllScopes)
          /\ \A t \in 1..Len(OwnScopes(ast, stack[j].n)) :
               OwnScopes(ast, stack[j].n)[t].n = stack[j].n
      BY <1>1, OwnTyped
    <3>2. ast[stack[j].n].op \in Labelled
      BY <1>1, <1>5, <2>1, OwnTyped
    <3> QED
      BY <2>1, <3>1, <3>2
<1> QED
  BY <1>4, <1>5

(***************************************************************************)
(* The label a method has pushed for a scope is the block of the scope.    *)
(***************************************************************************)
LEMMA OpenedPushed ==
  ASSUME TypeOK, NEW j \in 1..Len(stack)
  PROVE  /\ Len(OpenedBy(stack[j])) = Len(Pushed(stack[j]))
         /\ \A t \in 1..Len(OpenedBy(stack[j])) :
              Pushed(stack[j])[t] = ScopeBlock(stack[j], OpenedBy(stack[j])[t])
<1> DEFINE f      == stack[j]
           op     == ast[f.n].op
           opened == OpenedBy(f)
           pushed == Pushed(f)
           own    == OwnScopes(ast, f.n)
<1>1. /\ f \in Frames /\ f.n \in 1..Len(ast)
      /\ Len(f.bbs) \in BlocksHeld(ast[f.n], Begun(j))
  BY DEF TypeOK, StackOK, FrameOK
<1>2. f.bbs \in Seq(Nat) /\ Len(f.bbs) \in Nat /\ (f.bbs = <<>> <=> Len(f.bbs) = 0)
  BY <1>1 DEF Frames
<1>3. /\ ast[f.n].name \in LabelNames /\ ast[f.n].exit \in LabelNames /\ f.n \in Nat
      /\ Len(ast[f.n].kids) \in Nat
  BY <1>1, NodeTyped DEF Nodes
<1>a. f = stack[j]
  OBVIOUS
<1> HIDE DEF f
<1> SUFFICES /\ Len(opened) = Len(pushed)
             /\ \A t \in 1..Len(opened) : pushed[t] = ScopeBlock(f, opened[t])
  BY <1>a
<1>b. CASE opened = <<>> /\ pushed = <<>>
  BY <1>b
<1>c. ASSUME NEW l \in LabelNames, NEW i \in {1, 2},
             Len(opened) = 1, opened[1] = Scope(f.n, l, TRUE), pushed = <<f.bbs[i]>>,
             i = IF op = "label" THEN 1 ELSE 2
      PROVE  /\ Len(opened) = Len(pushed)
             /\ \A t \in 1..Len(opened) : pushed[t] = ScopeBlock(f, opened[t])
  <2>1. Len(pushed) = 1 /\ pushed[1] = f.bbs[i]
    BY <1>c
  <2>2. ScopeBlock(f, opened[1]) = f.bbs[i]
    BY <1>c, BlockOfScope
  <2>3. ASSUME NEW t \in 1..Len(opened) PROVE pushed[t] = ScopeBlock(f, opened[t])
    <3>1. t = 1
      BY <1>c
    <3> HIDE DEF opened, pushed
    <3> QED
      BY <3>1, <2>1, <2>2
  <2> QED
    BY <2>1, <2>3, <1>c
<1>4. CASE f.bbs = <<>>
  <2>1. opened = <<>> /\ pushed = <<>>
    BY <1>4 DEF OpenedBy, Pushed
  <2> QED
    BY <2>1, <1>b
<1>5. CASE f.bbs # <<>> /\ op \in {"label", "block"}
  <2>1. opened = own
    BY <1>5 DEF OpenedBy
  <2>2. Len(own) = 1 /\ own[1] = Scope(f.n, ast[f.n].name, TRUE)
    BY <1>1, <1>5, OwnTyped DEF Labelled
  <2>3. pushed = <<f.bbs[Len(f.bbs)]>> /\ Len(f.bbs) = IF op = "label" THEN 1 ELSE 2
    BY <1>1, <1>2, <1>5 DEF BlocksHeld, Pushed
  <2> QED
    BY <2>1, <2>2, <2>3, <1>3, <1>c
<1>7. CASE f.bbs # <<>> /\ op = "loop"
  <2>1. opened = own
    BY <1>7 DEF OpenedBy
  <2>2. Len(own) = 2 /\ own[1] = Scope(f.n, ast[f.n].exit, TRUE)
        /\ own[2] = Scope(f.n, ast[f.n].name, FALSE)
    BY <1>1, <1>7, OwnTyped
  <2>3. pushed = <<f.bbs[2], f.bbs[1]>>
    BY <1>7 DEF Pushed
  <2>4. Len(pushed) = 2 /\ pushed[1] = f.bbs[2] /\ pushed[2] = f.bbs[1]
    BY <2>3
  <2>5. ScopeBlock(f, own[1]) = f.bbs[2] /\ ScopeBlock(f, own[2]) = f.bbs[1]
    BY <2>2, <1>7, BlockOfScope
  <2>6. ASSUME NEW t \in 1..Len(opened) PROVE pushed[t] = ScopeBlock(f, opened[t])
    <3>1. t = 1 \/ t = 2
      BY <2>1, <2>2
    <3> HIDE DEF opened, pushed, own
    <3> QED
      BY <3>1, <2>1, <2>4, <2>5
  <2> QED
    BY <2>1, <2>2, <2>4, <2>6
<1>8. CASE f.bbs # <<>> /\ op = "switch"
  <2>2. CASE Len(f.bbs) >= Len(ast[f.n].kids) + 2
    <3>1. opened = <<>>
      BY <2>2, <1>8 DEF OpenedBy
    <3>2. pushed = <<>>
      BY <2>2, <1>2, <1>3, <1>8 DEF Pushed
    <3> QED
      BY <3>1, <3>2, <1>b
  <2>3. CASE ~(Len(f.bbs) >= Len(ast[f.n].kids) + 2)
    <3>1. opened = own
      BY <2>3, <1>8 DEF OpenedBy
    <3>2. Len(own) = 1 /\ own[1] = Scope(f.n, ast[f.n].name, TRUE)
      BY <1>1, <1>8, OwnTyped DEF Labelled
    <3>3. Len(f.bbs) < Len(ast[f.n].kids) + 2
      BY <2>3, <1>2, <1>3
    <3>4. pushed = <<f.bbs[2]>>
      BY <3>3, <1>8 DEF Pushed
    <3> QED
      BY <3>1, <3>2, <3>4, <1>3, <1>8, <1>c
  <2> QED
    BY <2>2, <2>3
<1>9. CASE op \notin Labelled
  <2>1. opened = <<>>
    BY <1>9, <1>1, OwnTyped DEF OpenedBy
  <2>2. pushed = <<>>
    BY <1>9, PushedNone DEF Labelled
  <2> QED
    BY <2>1, <2>2, <1>b
<1> QED
  BY <1>4, <1>5, <1>7, <1>8, <1>9 DEF Labelled

(***************************************************************************)
(* Where a method is, labels_ of the methods below corresponds to its      *)
(* scopes, and each of them has opened its own.                            *)
(***************************************************************************)
InScopes(home, j) ==
  LET scopes == home[stack[j].n]
  IN /\ Len(scopes) = stack[j].base
     /\ \A i \in 1..Len(scopes) : \E g \in 1..(j - 1) : \E t \in 1..Len(OpenedBy(stack[g])) :
          /\ scopes[i] = OpenedBy(stack[g])[t]
          /\ labels[i] = ScopeBlock(stack[g], scopes[i])
     /\ \A g \in 1..(j - 1) : \A t \in 1..Len(OpenedBy(stack[g])) :
          \E i \in 1..Len(scopes) : scopes[i] = OpenedBy(stack[g])[t]

LEMMA HomeTyped ==
  ASSUME TypeOK, NEW home, IsHome(home), NEW j \in 1..Len(stack)
  PROVE  /\ home[stack[j].n] \in Seq(AllScopes) /\ Len(home[stack[j].n]) \in Nat
         /\ stack[j].n \in 1..Len(ast)
<1>1. stack[j].n \in 1..Len(ast)
  BY DEF TypeOK, StackOK, FrameOK
<1>2. home[stack[j].n] \in Seq(AllScopes)
  BY <1>1 DEF IsHome
<1> QED
  BY <1>1, <1>2

LEMMA NextInScopes ==
  ASSUME TypeOK, LabelInv, NEW home, IsHome(home), OnStack(home),
         NEW j \in 1..Len(stack), j < Len(stack), InScopes(home, j)
  PROVE  InScopes(home, j + 1)
<1> DEFINE f == stack[j]
           s == home[f.n]
           q == OpenedBy(f)
           r == home[stack[j + 1].n]
           b == stack[j].base
<1>1. s \in Seq(AllScopes) /\ q \in Seq(AllScopes) /\ j \in Nat
  BY HomeTyped, OpenedTyped
<1>2. r = s \o q
  <2>1. j \in 1..(Len(stack) - 1)
    BY TopTyped
  <2> QED
    BY <2>1 DEF OnStack
<1>3. /\ b = Len(s) /\ stack[j + 1].base = Len(s) + Len(q)
      /\ \A t \in 1..Len(q) : labels[Len(s) + t] = ScopeBlock(f, q[t])
  <2>1. b = Len(s)
    BY DEF InScopes
  <2>2. /\ b + Len(Pushed(f)) = stack[j + 1].base
        /\ \A t \in 1..Len(Pushed(f)) : labels[b + t] = Pushed(f)[t]
    BY DEF LabelInv, LabelDiscipline
  <2>3. Len(q) = Len(Pushed(f)) /\ \A t \in 1..Len(q) : Pushed(f)[t] = ScopeBlock(f, q[t])
    BY OpenedPushed
  <2> HIDE DEF f, s, q, b
  <2> QED
    BY <2>1, <2>2, <2>3
<1>4. \A i \in 1..Len(s) : \E g \in 1..(j - 1) : \E t \in 1..Len(OpenedBy(stack[g])) :
         /\ s[i] = OpenedBy(stack[g])[t]
         /\ labels[i] = ScopeBlock(stack[g], s[i])
  BY DEF InScopes
<1>5. \A g \in 1..(j - 1) : \A t \in 1..Len(OpenedBy(stack[g])) :
         \E i \in 1..Len(s) : s[i] = OpenedBy(stack[g])[t]
  BY DEF InScopes
<1>6. f = stack[j] /\ q = OpenedBy(stack[j])
  OBVIOUS
<1> HIDE DEF f, s, q, b
<1>7. /\ r \in Seq(AllScopes) /\ Len(r) = Len(s) + Len(q)
      /\ \A i \in 1..Len(s) : r[i] = s[i]
      /\ \A t \in 1..Len(q) : r[Len(s) + t] = q[t]
      /\ Len(s) \in Nat /\ Len(q) \in Nat
  BY <1>1, <1>2, ConcatTyped
<1> HIDE DEF r
<1>8. ASSUME NEW i \in 1..Len(r)
      PROVE  \E g \in 1..j : \E t \in 1..Len(OpenedBy(stack[g])) :
               r[i] = OpenedBy(stack[g])[t] /\ labels[i] = ScopeBlock(stack[g], r[i])
  <2>1. CASE i \in 1..Len(s)
    <3>1. PICK g \in 1..(j - 1) : \E t \in 1..Len(OpenedBy(stack[g])) :
             s[i] = OpenedBy(stack[g])[t] /\ labels[i] = ScopeBlock(stack[g], s[i])
      BY <2>1, <1>4
    <3>2. g \in 1..j /\ r[i] = s[i]
      BY <2>1, <1>1, <1>7
    <3> QED
      BY <3>1, <3>2
  <2>2. CASE i \notin 1..Len(s)
    <3>1. PICK t \in 1..Len(q) : i = Len(s) + t
      <4>1. i - Len(s) \in 1..Len(q) /\ i = Len(s) + (i - Len(s))
        BY <2>2, <1>7
      <4> QED
        BY <4>1
    <3>2. r[i] = q[t] /\ labels[i] = ScopeBlock(f, q[t])
      BY <3>1, <1>3, <1>7
    <3>3. j \in 1..j
      BY <1>1
    <3> QED
      BY <3>2, <3>3, <1>6
  <2> QED
    BY <2>1, <2>2
<1>9. ASSUME NEW g \in 1..j, NEW t \in 1..Len(OpenedBy(stack[g]))
      PROVE  \E i \in 1..Len(r) : r[i] = OpenedBy(stack[g])[t]
  <2>1. CASE g = j
    <3>1. Len(s) + t \in 1..Len(r) /\ r[Len(s) + t] = q[t]
      BY <2>1, <1>6, <1>7
    <3> QED
      BY <3>1, <2>1, <1>6
  <2>2. CASE g # j
    <3>1. PICK i \in 1..Len(s) : s[i] = OpenedBy(stack[g])[t]
      BY <2>2, <1>1, <1>5
    <3>2. i \in 1..Len(r) /\ r[i] = s[i]
      BY <1>7
    <3> QED
      BY <3>1, <3>2
  <2> QED
    BY <2>1, <2>2
<1>10. Len(r) = stack[j + 1].base /\ (j + 1) - 1 = j
  BY <1>1, <1>3, <1>7
<1> QED
  BY <1>8, <1>9, <1>10 DEF InScopes, r

LEMMA AllInScopes ==
  ASSUME TypeOK, LabelInv, NEW home, IsHome(home), OnStack(home)
  PROVE  \A j \in 1..Len(stack) : InScopes(home, j)
<1> DEFINE S == {j \in 1..Len(stack) : InScopes(home, j)}
<1>1. PICK m \in Nat : m = Len(stack) /\ m > 0
  BY TopTyped
<1>2. InScopes(home, 1)
  <2>1. stack[1].n = 1 /\ stack[1].base = 0
    <3>1. FrameOK(1)
      BY <1>1 DEF TypeOK, StackOK
    <3>2. stack[1].n \in 1..Len(ast) /\ ~(stack[1].n > 1)
      BY <3>1 DEF FrameOK
    <3> QED
      BY <3>2 DEF LabelInv, LabelDiscipline
  <2>2. home[stack[1].n] = <<>> /\ Len(<<>>) = 0
    BY <2>1 DEF IsHome
  <2> QED
    BY <2>1, <2>2 DEF InScopes
<1>3. ASSUME NEW k \in 1..m, \A j \in 1..(k - 1) : j \in S PROVE k \in S
  <2>1. CASE k = 1
    BY <2>1, <1>1, <1>2
  <2>2. CASE k # 1
    <3>1. PICK j \in 1..(k - 1) : j + 1 = k
      <4>1. k - 1 \in 1..(k - 1) /\ (k - 1) + 1 = k
        BY <2>2
      <4> QED
        BY <4>1
    <3>2. j \in 1..Len(stack) /\ j < Len(stack) /\ InScopes(home, j)
      BY <3>1, <1>1, <1>3
    <3>3. InScopes(home, j + 1)
      BY <3>2, NextInScopes
    <3> QED
      BY <3>1, <3>3, <1>1
  <2> QED
    BY <2>1, <2>2
<1>4. S \in SUBSET 1..m
  BY <1>1
<1> HIDE DEF S
<1>5. S = 1..m
  BY <1>3, <1>4, AllUpTo
<1> QED
  BY <1>1, <1>5 DEF S

-----------------------------------------------------------------------------
(***************************************************************************)
(* What a step leaves as it was: the tree, and the methods below the one   *)
(* that is running.                                                        *)
(***************************************************************************)
KeepsNames ==
  /\ Len(ast') \in Nat /\ Len(ast) <= Len(ast')
  /\ \A n \in 1..Len(ast) :
       /\ ast'[n].op = ast[n].op /\ ast'[n].kids = ast[n].kids
       /\ ast'[n].name = ast[n].name /\ ast'[n].exit = ast[n].exit
       /\ ast'[n].depth = ast[n].depth

LEMMA SameNode ==
  ASSUME TypeOK, KeepsNames, NEW n \in 1..Len(ast)
  PROVE  /\ n \in 1..Len(ast')
         /\ ast'[n].op = ast[n].op /\ ast'[n].kids = ast[n].kids
         /\ ast'[n].name = ast[n].name /\ ast'[n].exit = ast[n].exit
         /\ ast'[n].depth = ast[n].depth
         /\ OwnScopes(ast', n) = OwnScopes(ast, n)
         /\ \A k : Opens(ast', n, k) = Opens(ast, n, k)
<1>1. /\ n \in 1..Len(ast')
      /\ ast'[n].op = ast[n].op /\ ast'[n].kids = ast[n].kids
      /\ ast'[n].name = ast[n].name /\ ast'[n].exit = ast[n].exit
      /\ ast'[n].depth = ast[n].depth
  BY NodeTyped DEF KeepsNames
<1>2. OwnScopes(ast', n) = OwnScopes(ast, n)
  BY <1>1 DEF OwnScopes
<1>3. \A k : Opens(ast', n, k) = Opens(ast, n, k)
  BY <1>1, <1>2 DEF Opens
<1> QED
  BY <1>1, <1>2, <1>3

LEMMA SameTree ==
  ASSUME TypeOK, KeepsNames, Len(ast') = Len(ast), NEW home,
         Written, OwnSelector, IsHome(home)
  PROVE  Written' /\ OwnSelector' /\ IsHome(home)' /\ (AllDiffer(home)' => AllDiffer(home))
<1>1. ASSUME NEW n \in 1..Len(ast) PROVE ast'[n].op = ast[n].op /\ ast'[n].kids = ast[n].kids
  BY SameNode
<1>2. Written'
  <2>1. ASSUME NEW n \in 2..Len(ast)
        PROVE  \/ HasParent(ast', n)
               \/ ast'[n].op \in Made /\ \A i \in 1..Len(ast'[n].kids) : ast'[n].kids[i] < n
    <3>1. n \in 1..Len(ast)
      BY NodeTyped
    <3>2. CASE HasParent(ast, n)
      <4>1. PICK p \in 1..(n - 1) : \E i \in 1..Len(ast[p].kids) : ast[p].kids[i] = n
        BY <3>2 DEF HasParent
      <4>2. p \in 1..Len(ast)
        BY <3>1
      <4> QED
        BY <4>1, <4>2, <1>1 DEF HasParent
    <3>3. CASE ~HasParent(ast, n)
      <4>1. ast[n].op \in Made /\ \A i \in 1..Len(ast[n].kids) : ast[n].kids[i] < n
        BY <3>3 DEF Written
      <4> QED
        BY <4>1, <3>1, <1>1
    <3> QED
      BY <3>2, <3>3
  <2> QED
    BY <2>1 DEF Written
<1>3. OwnSelector'
  BY <1>1 DEF OwnSelector
<1>4. IsHome(home)'
  <2>1. ASSUME NEW n \in 1..Len(ast), NEW i \in 1..Len(ast'[n].kids)
        PROVE  home[ast'[n].kids[i]] = home[n] \o Opens(ast', n, ast'[n].kids[i])
    <3>1. ast'[n].kids = ast[n].kids
          /\ Opens(ast', n, ast[n].kids[i]) = Opens(ast, n, ast[n].kids[i])
      BY SameNode
    <3> QED
      BY <3>1 DEF IsHome
  <2> QED
    BY <2>1 DEF IsHome
<1>5. AllDiffer(home)' => AllDiffer(home)
  <2> SUFFICES ASSUME AllDiffer(home)', NEW n \in 1..Len(ast), ast[n].op \in Labelled
               PROVE  NamesDiffer(home[n] \o OwnScopes(ast, n))
    BY DEF AllDiffer
  <2>1. ast'[n].op = ast[n].op /\ OwnScopes(ast', n) = OwnScopes(ast, n)
    BY SameNode
  <2>2. NamesDiffer(home[n] \o OwnScopes(ast', n))
    BY <2>1 DEF AllDiffer
  <2> QED
    BY <2>1, <2>2
<1> QED
  BY <1>2, <1>3, <1>4, <1>5

LEMMA OpenedSame ==
  ASSUME TypeOK, KeepsNames, NEW j \in 1..Len(stack),
         stack'[j].n = stack[j].n, stack'[j].bbs = stack[j].bbs
  PROVE  OpenedBy(stack[j])' = OpenedBy(stack[j])
<1>1. stack[j].n \in 1..Len(ast)
  BY DEF TypeOK, StackOK, FrameOK
<1>2. /\ ast'[stack[j].n].op = ast[stack[j].n].op
      /\ ast'[stack[j].n].kids = ast[stack[j].n].kids
      /\ OwnScopes(ast', stack[j].n) = OwnScopes(ast, stack[j].n)
  BY <1>1, SameNode
<1> QED
  BY <1>2 DEF OpenedBy

LEMMA FrameNode ==
  ASSUME TypeOK, NEW j \in 1..Len(stack)
  PROVE  /\ stack[j].n \in 1..Len(ast) /\ stack[j].n \in Nat
         /\ stack[j].bbs \in Seq(Nat) /\ j \in Nat /\ Len(stack) \in Nat
<1>1. stack[j].n \in 1..Len(ast) /\ stack[j] \in Frames /\ Len(stack) \in Nat
  BY DEF TypeOK, StackOK, FrameOK
<1> QED
  BY <1>1 DEF Frames

LEMMA BlockSame ==
  ASSUME TypeOK, KeepsNames, NEW j \in 1..Len(stack),
         stack'[j].n = stack[j].n, stack'[j].bbs = stack[j].bbs, NEW s
  PROVE  ScopeBlock(stack[j], s)' = ScopeBlock(stack[j], s)
<1>1. ast'[stack[j].n].op = ast[stack[j].n].op
  BY FrameNode, SameNode
<1> QED
  BY <1>1 DEF ScopeBlock

LEMMA MappedSame ==
  ASSUME TypeOK, KeepsNames, NEW j \in 1..Len(stack),
         stack'[j].n = stack[j].n, stack'[j].bbs = stack[j].bbs,
         NamesMapped(j),
         \A t \in 1..Len(OpenedBy(stack[j])) :
           OpenedBy(stack[j])[t].name # NoName =>
             mapped'[OpenedBy(stack[j])[t].name] = mapped[OpenedBy(stack[j])[t].name]
  PROVE  NamesMapped(j)'
<1>1. PICK q : q = OpenedBy(stack[j])
  OBVIOUS
<1>2. OpenedBy(stack[j])' = q
  BY <1>1, OpenedSame
<1>3. ASSUME NEW t \in 1..Len(q), q[t].name # NoName
      PROVE  mapped'[q[t].name] = ScopeBlock(stack[j], q[t])'
  <2>1. mapped[q[t].name] = ScopeBlock(stack[j], q[t])
    BY <1>1, <1>3 DEF NamesMapped
  <2>2. mapped'[q[t].name] = mapped[q[t].name]
    BY <1>1, <1>3
  <2>3. ScopeBlock(stack[j], q[t])' = ScopeBlock(stack[j], q[t])
    BY BlockSame
  <2> QED
    BY <2>1, <2>2, <2>3
<1> QED
  BY <1>2, <1>3 DEF NamesMapped

LEMMA JumpSame ==
  ASSUME TypeOK, KeepsNames, NEW g, NEW h, NEW j \in 1..Len(stack),
         \A i \in 1..j : stack'[i].n = stack[i].n /\ stack'[i].bbs = stack[i].bbs,
         g[stack[j].n] = h[stack[j].n], JumpsHome(h, j)
  PROVE  JumpsHome(g, j)'
<1>1. /\ stack'[j].n = stack[j].n /\ stack'[j].bbs = stack[j].bbs
      /\ ast'[stack[j].n].op = ast[stack[j].n].op
      /\ ast'[stack[j].n].name = ast[stack[j].n].name
      /\ ast'[stack[j].n].depth = ast[stack[j].n].depth
  BY FrameNode, SameNode
<1> DEFINE k == stack[j].n
<1>2. PICK meant : meant = Meant(h[k], ast[k])
  OBVIOUS
<1>3. meant = Meant(g[k], ast'[k])
  BY <1>1, <1>2 DEF Meant
<1> SUFFICES ASSUME IsBreak(ast'[k]), stack'[j].bbs # <<>>, meant # {}
             PROVE  ReachesOneOf(meant, j)'
  BY <1>1, <1>3 DEF JumpsHome
<1>4. ReachesOneOf(meant, j)
  BY <1>1, <1>2 DEF JumpsHome, IsBreak
<1>5. PICK s \in meant : \E i \in 1..(j - 1) :
             stack[i].n = s.n /\ stack[j].bbs[1] = ScopeBlock(stack[i], s)
  BY <1>4 DEF ReachesOneOf
<1>6. PICK i \in 1..(j - 1) : stack[i].n = s.n /\ stack[j].bbs[1] = ScopeBlock(stack[i], s)
  BY <1>5
<1>7. i \in 1..Len(stack) /\ i \in 1..j
  BY FrameNode
<1>8. ScopeBlock(stack[i], s)' = ScopeBlock(stack[i], s)
  BY <1>7, BlockSame
<1>9. stack'[i].n = s.n /\ stack'[j].bbs[1] = ScopeBlock(stack[i], s)'
  BY <1>1, <1>6, <1>7, <1>8
<1> QED
  BY <1>9 DEF ReachesOneOf

(***************************************************************************)
(* A step after which the methods 1..d are those they were, the one on top *)
(* of them perhaps with other blocks, and at most one more, which has none.*)
(***************************************************************************)
LEMMA ScopesStep ==
  ASSUME TypeOK, KeepsNames, NEW h, NEW g, ScopeInv(h),
         Written', OwnSelector', IsHome(g)', AllDiffer(g)' => AllDiffer(h),
         \A n \in 1..Len(ast) : g[n] = h[n],
         NEW d \in 1..Len(stack), d <= Len(stack'), Len(stack') <= d + 1, Len(stack') \in Nat,
         \A j \in 1..(d - 1) : stack'[j].n = stack[j].n /\ stack'[j].bbs = stack[j].bbs,
         g[stack'[d].n] = h[stack[d].n],
         Len(stack') = d + 1 =>
           /\ stack'[d + 1].bbs = <<>>
           /\ g[stack'[d + 1].n] = g[stack'[d].n] \o OpenedBy(stack[d])',
         AllDiffer(h) => JumpsHome(g, d)' /\ \A j \in 1..d : NamesMapped(j)'
  PROVE  ScopeInv(g)'
<1>1. d \in Nat /\ Len(stack) \in Nat
  BY FrameNode
<1>2. ASSUME NEW j \in 1..(Len(stack') - 1)
      PROVE  g[stack'[j + 1].n] = g[stack'[j].n] \o OpenedBy(stack[j])'
  <2>1. CASE j = d
    <3>1. Len(stack') = d + 1
      BY <2>1, <1>1
    <3> QED
      BY <3>1, <2>1
  <2>2. CASE j # d
    <3>1. j \in 1..(d - 1) /\ j \in 1..Len(stack) /\ j \in 1..(Len(stack) - 1)
      BY <2>2, <1>1
    <3>2. OpenedBy(stack[j])' = OpenedBy(stack[j])
      BY <3>1, OpenedSame
    <3>3. h[stack[j + 1].n] = h[stack[j].n] \o OpenedBy(stack[j])
      BY <3>1 DEF ScopeInv, OnStack
    <3>4. g[stack'[j].n] = h[stack[j].n]
      BY <3>1, FrameNode
    <3>5. g[stack'[j + 1].n] = h[stack[j + 1].n]
      <4>1. CASE j + 1 = d
        BY <4>1
      <4>2. CASE j + 1 # d
        <5>1. j + 1 \in 1..(d - 1) /\ j + 1 \in 1..Len(stack)
          BY <4>2, <3>1, <1>1
        <5> QED
          BY <5>1, FrameNode
      <4> QED
        BY <4>1, <4>2
    <3> QED
      BY <3>2, <3>3, <3>4, <3>5
  <2> QED
    BY <2>1, <2>2
<1>3. OnStack(g)'
  BY <1>2 DEF OnStack
<1>4. ASSUME AllDiffer(g)', NEW j \in 1..Len(stack')
      PROVE  NamesMapped(j)' /\ JumpsHome(g, j)'
  <2>1. AllDiffer(h)
    BY <1>4
  <2>2. CASE j = d
    <3>1. d \in 1..d
      BY <1>1
    <3> QED
      BY <2>1, <2>2, <3>1
  <2>3. CASE j < d
    <3>1. j \in 1..d /\ j \in 1..Len(stack) /\ \A i \in 1..j : i \in 1..(d - 1)
      BY <2>3, <1>1
    <3>2. JumpsHome(h, j)
      BY <2>1, <3>1 DEF ScopeInv
    <3>3. g[stack[j].n] = h[stack[j].n]
      BY <3>1, FrameNode
    <3>4. \A i \in 1..j : stack'[i].n = stack[i].n /\ stack'[i].bbs = stack[i].bbs
      BY <3>1
    <3>5. JumpsHome(g, j)'
      BY <3>1, <3>2, <3>3, <3>4, JumpSame
    <3> QED
      BY <2>1, <3>1, <3>5
  <2>4. CASE j > d
    <3>1. j = d + 1 /\ stack'[j].bbs = <<>>
      <4>1. Len(stack') = d + 1
        BY <2>4, <1>1
      <4>2. j = d + 1
        BY <2>4, <4>1, <1>1
      <4> QED
        BY <4>1, <4>2
    <3>2. OpenedBy(stack[j])' = <<>>
      BY <3>1 DEF OpenedBy
    <3> QED
      BY <3>1, <3>2 DEF NamesMapped, JumpsHome
  <2> QED
    BY <2>2, <2>3, <2>4, <1>1
<1> QED
  BY <1>3, <1>4 DEF ScopeInv

(***************************************************************************)
(* Steps that push no label: the method on top keeps its blocks, or they   *)
(* do not matter, or it is a switch that keeps its exit block.             *)
(***************************************************************************)
TopKept(d) ==
  /\ stack'[d].n = stack[d].n
  /\ \/ stack'[d].bbs = stack[d].bbs
     \/ ast[stack[d].n].op \notin Labelled \cup {"br", "br_if"}
     \/ /\ ast[stack[d].n].op = "switch"
        /\ stack'[d].bbs[2] = stack[d].bbs[2]
        /\ OpenedBy(stack[d])' \in {<<>>, OpenedBy(stack[d])}

LEMMA OpenedNone ==
  ASSUME NEW f, ast[f.n].op \notin Labelled
  PROVE  OpenedBy(f) = <<>>
BY DEF OpenedBy, OwnScopes, Labelled

LEMMA OpenedNoneNext ==
  ASSUME TypeOK, KeepsNames, NEW j \in 1..Len(stack), stack'[j].n = stack[j].n,
         ast[stack[j].n].op \notin Labelled
  PROVE  OpenedBy(stack[j])' = <<>>
<1>1. ast'[stack'[j].n].op \notin Labelled
  BY FrameNode, SameNode
<1> QED
  BY <1>1 DEF OpenedBy, OwnScopes, Labelled

LEMMA SwitchBlock ==
  ASSUME TypeOK, NEW j \in 1..Len(stack), ast[stack[j].n].op = "switch",
         NEW t \in 1..Len(OpenedBy(stack[j]))
  PROVE  OpenedBy(stack[j])[t].end = TRUE
<1> DEFINE q   == OpenedBy(stack[j])
           own == OwnScopes(ast, stack[j].n)
<1>1. q \in {<<>>, own}
  BY DEF OpenedBy
<1>2. q # <<>>
  OBVIOUS
<1>3. Len(own) = 1 /\ own[1] = Scope(stack[j].n, ast[stack[j].n].name, TRUE)
  BY FrameNode, OwnTyped DEF Labelled
<1>4. own[1].end = TRUE
  BY <1>3 DEF Scope
<1>5. q = own
  BY <1>1, <1>2
<1>6. Len(OpenedBy(stack[j])) = 1
  BY <1>3, <1>5
<1>7. t = 1
  BY <1>6
<1> QED
  BY <1>4, <1>5, <1>7

LEMMA TopKeptMapped ==
  ASSUME TypeOK, KeepsNames, mapped' = mapped, NEW d \in 1..Len(stack), TopKept(d),
         NamesMapped(d)
  PROVE  NamesMapped(d)'
<1>0. stack'[d].n = stack[d].n
  BY DEF TopKept
<1>1. CASE stack'[d].bbs = stack[d].bbs
  BY <1>0, <1>1, MappedSame
<1>2. CASE ast[stack[d].n].op \notin Labelled \cup {"br", "br_if"}
  <2>1. OpenedBy(stack[d])' = <<>>
    BY <1>0, <1>2, OpenedNoneNext
  <2> QED
    BY <2>1 DEF NamesMapped
<1>3. CASE /\ ast[stack[d].n].op = "switch" /\ stack'[d].bbs[2] = stack[d].bbs[2]
           /\ OpenedBy(stack[d])' \in {<<>>, OpenedBy(stack[d])}
  <2>1. CASE OpenedBy(stack[d])' = <<>>
    BY <2>1 DEF NamesMapped
  <2>2. CASE OpenedBy(stack[d])' = OpenedBy(stack[d])
    <3>1. PICK q : q = OpenedBy(stack[d])
      OBVIOUS
    <3>2. ast'[stack[d].n].op = "switch"
      BY <1>3, FrameNode, SameNode
    <3>3. ASSUME NEW t \in 1..Len(q), q[t].name # NoName
          PROVE  mapped'[q[t].name] = ScopeBlock(stack[d], q[t])'
      <4>1. q[t].end = TRUE
        BY <1>3, <3>1, SwitchBlock
      <4>2. ScopeBlock(stack[d], q[t]) = stack[d].bbs[2]
        BY <4>1, <1>3 DEF ScopeBlock
      <4>3. ScopeBlock(stack[d], q[t])' = stack'[d].bbs[2]
        BY <4>1, <1>0, <3>2 DEF ScopeBlock
      <4>4. mapped[q[t].name] = ScopeBlock(stack[d], q[t])
        BY <3>1, <3>3 DEF NamesMapped
      <4> QED
        BY <4>2, <4>3, <4>4, <1>3
    <3> QED
      BY <2>2, <3>1, <3>3 DEF NamesMapped
  <2> QED
    BY <1>3, <2>1, <2>2
<1> QED
  BY <1>1, <1>2, <1>3 DEF TopKept

LEMMA TopKeptJumps ==
  ASSUME TypeOK, KeepsNames, NEW home, NEW d \in 1..Len(stack), TopKept(d),
         \A j \in 1..(d - 1) : stack'[j].n = stack[j].n /\ stack'[j].bbs = stack[j].bbs,
         JumpsHome(home, d)
  PROVE  JumpsHome(home, d)'
<1>0. stack'[d].n = stack[d].n /\ d \in Nat
  BY FrameNode DEF TopKept
<1>1. CASE stack'[d].bbs = stack[d].bbs
  <2>1. \A i \in 1..d : stack'[i].n = stack[i].n /\ stack'[i].bbs = stack[i].bbs
    BY <1>0, <1>1
  <2> QED
    BY <2>1, JumpSame
<1>2. CASE ast[stack[d].n].op \notin {"br", "br_if"}
  <2>1. ast'[stack'[d].n].op \notin {"br", "br_if"}
    BY <1>0, <1>2, FrameNode, SameNode
  <2> QED
    BY <2>1 DEF JumpsHome, IsBreak
<1> QED
  BY <1>1, <1>2 DEF TopKept

LEMMA ScopesKept ==
  ASSUME TypeOK, KeepsNames, Len(ast') = Len(ast), mapped' = mapped,
         NEW home, ScopeInv(home),
         NEW d \in 1..Len(stack), d <= Len(stack'), Len(stack') <= d + 1, Len(stack') \in Nat,
         \A j \in 1..(d - 1) : stack'[j].n = stack[j].n /\ stack'[j].bbs = stack[j].bbs,
         TopKept(d),
         Len(stack') = d + 1 =>
           /\ stack'[d + 1].bbs = <<>>
           /\ home[stack'[d + 1].n] = home[stack[d].n] \o OpenedBy(stack[d])'
  PROVE  ScopeInv(home)'
<1>1. Written' /\ OwnSelector' /\ IsHome(home)' /\ (AllDiffer(home)' => AllDiffer(home))
  BY SameTree DEF ScopeInv
<1>2. stack'[d].n = stack[d].n /\ d \in Nat /\ Len(stack) \in Nat
  BY FrameNode DEF TopKept
<1>3. ASSUME AllDiffer(home)
      PROVE  JumpsHome(home, d)' /\ \A j \in 1..d : NamesMapped(j)'
  <2>1. \A j \in 1..Len(stack) : NamesMapped(j) /\ JumpsHome(home, j)
    BY <1>3 DEF ScopeInv
  <2>2. JumpsHome(home, d)'
    BY <2>1, TopKeptJumps
  <2>3. ASSUME NEW j \in 1..d PROVE NamesMapped(j)'
    <3>1. j \in 1..Len(stack)
      BY <1>2
    <3>2. CASE j = d
      BY <2>1, <3>2, TopKeptMapped
    <3>3. CASE j # d
      <4>1. stack'[j].n = stack[j].n /\ stack'[j].bbs = stack[j].bbs
        BY <3>3, <1>2
      <4> QED
        BY <2>1, <3>1, <4>1, MappedSame
    <3> QED
      BY <3>2, <3>3
  <2> QED
    BY <2>2, <2>3
<1> QED
  BY <1>1, <1>2, <1>3, ScopesStep

(***************************************************************************)
(* The writes to the tree, which keep the names.                           *)
(***************************************************************************)
LEMMA NamesKept ==
  ASSUME TypeOK, ast' = ast
  PROVE  KeepsNames /\ Len(ast') = Len(ast)
BY BodyOwned DEF KeepsNames

LEMMA NamesOfIncoming ==
  ASSUME TypeOK, NEW n \in 0..Len(ast), NEW v, NEW b, ast' = AddIncomingPhi(ast, n, v, b)
  PROVE  KeepsNames /\ Len(ast') = Len(ast)
<1>1. CASE ast' = ast
  BY <1>1, NamesKept
<1>2. CASE ast' # ast
  <2> DEFINE in == Append(ast[n].incoming, [val |-> v, from |-> b])
             x  == [ast[n] EXCEPT !.incoming = in]
  <2>1. n \in 1..Len(ast) /\ ast' = [ast EXCEPT ![n] = x]
    BY <1>2, BodyOwned DEF AddIncomingPhi
  <2>2. ast[n] \in Nodes /\ ast \in Seq(Nodes)
    BY <2>1 DEF TypeOK, AstOK
  <2> HIDE DEF in
  <2>3. /\ x.op = ast[n].op /\ x.kids = ast[n].kids
        /\ x.name = ast[n].name /\ x.exit = ast[n].exit /\ x.depth = ast[n].depth
    BY <2>2 DEF Nodes
  <2> HIDE DEF x
  <2>4. Len(ast') = Len(ast) /\ \A i \in 1..Len(ast) : ast'[i] = IF i = n THEN x ELSE ast[i]
    BY <2>1, <2>2
  <2> QED
    BY <2>3, <2>4, BodyOwned DEF KeepsNames
<1> QED
  BY <1>1, <1>2

LEMMA NamesOfRenamed ==
  ASSUME TypeOK, NEW n \in 1..Len(ast), ast' = [ast EXCEPT ![n].renamed = TRUE]
  PROVE  KeepsNames /\ Len(ast') = Len(ast)
<1>1. ast[n] \in Nodes /\ ast \in Seq(Nodes)
  BY DEF TypeOK, AstOK
<1>2. Len(ast') = Len(ast) /\ \A i \in 1..Len(ast) : i # n => ast'[i] = ast[i]
  BY <1>1
<1>3. /\ ast'[n].op = ast[n].op /\ ast'[n].kids = ast[n].kids
      /\ ast'[n].name = ast[n].name /\ ast'[n].exit = ast[n].exit
      /\ ast'[n].depth = ast[n].depth
  BY <1>1
<1> QED
  BY <1>2, <1>3, BodyOwned DEF KeepsNames

LEMMA NamesOfPasses ==
  ASSUME TypeOK, RunPasses
  PROVE  KeepsNames /\ Len(ast') = Len(ast)
<1>1. ast \in Seq(Nodes) /\ Len(ast) \in Nat
  BY DEF TypeOK, AstOK
<1>2. PICK c : ast' = [n \in 1..Len(ast) |-> [ast[n] EXCEPT !.merge = @ /\ n \notin c]]
  BY DEF RunPasses, RunUnreachablePass
<1>3. Len(ast') = Len(ast)
  BY <1>1, <1>2
<1>4. ASSUME NEW n \in 1..Len(ast)
      PROVE  /\ ast'[n].op = ast[n].op /\ ast'[n].kids = ast[n].kids
             /\ ast'[n].name = ast[n].name /\ ast'[n].exit = ast[n].exit
             /\ ast'[n].depth = ast[n].depth
  <2>1. ast'[n] = [ast[n] EXCEPT !.merge = @ /\ n \notin c] /\ ast[n] \in Nodes
    BY <1>1, <1>2
  <2> QED
    BY <2>1 DEF Nodes
<1> QED
  BY <1>1, <1>3, <1>4 DEF KeepsNames

(***************************************************************************)
(* The three things a step that pushes no label can do with the stack.     *)
(***************************************************************************)
LEMMA StackSame ==
  ASSUME TypeOK, KeepsNames, Len(ast') = Len(ast), mapped' = mapped, stack' = stack,
         NEW home, ScopeInv(home)
  PROVE  ScopeInv(home)'
<1>1. PICK m \in 1..Len(stack) : m = Len(stack) /\ Len(stack) \in Nat
  BY TopTyped
<1>2. /\ m <= Len(stack') /\ Len(stack') <= m + 1 /\ Len(stack') \in Nat
      /\ ~(Len(stack') = m + 1) /\ TopKept(m)
  BY <1>1 DEF TopKept
<1>3. \A j \in 1..(m - 1) : stack'[j].n = stack[j].n /\ stack'[j].bbs = stack[j].bbs
  OBVIOUS
<1> QED
  BY <1>2, <1>3, ScopesKept

LEMMA ReturnScopes ==
  ASSUME TypeOK, KeepsNames, Len(ast') = Len(ast), mapped' = mapped, Len(stack) > 1,
         NEW v \in Values, Return(v), NEW home, ScopeInv(home)
  PROVE  ScopeInv(home)'
<1>1. PICK m \in Nat : m > 0 /\ m + 1 = Len(stack)
  <2>1. Len(stack) \in Nat /\ Len(stack) - 1 \in Nat
    BY TopTyped
  <2> QED
    BY <2>1
<1> DEFINE g == [stack[m] EXCEPT !.vals = Append(stack[m].vals, v)]
<1>2. /\ Len(stack') = m
      /\ \A j \in 1..m : stack'[j] = IF j = m THEN g ELSE stack[j]
      /\ g.n = stack[m].n /\ g.bbs = stack[m].bbs
  BY <1>1, ReturnFrames, ZenonT(40)
<1> HIDE DEF g
<1>3. /\ m \in 1..Len(stack) /\ m <= Len(stack') /\ Len(stack') <= m + 1 /\ Len(stack') \in Nat
      /\ ~(Len(stack') = m + 1)
  BY <1>1, <1>2
<1>4. \A j \in 1..m : stack'[j].n = stack[j].n /\ stack'[j].bbs = stack[j].bbs
  BY <1>2
<1>5. TopKept(m) /\ \A j \in 1..(m - 1) : j \in 1..m
  BY <1>1, <1>4 DEF TopKept
<1> QED
  BY <1>3, <1>4, <1>5, ScopesKept

LEMMA ReplaceScopes ==
  ASSUME TypeOK, KeepsNames, Len(ast') = Len(ast), mapped' = mapped,
         NEW m \in Nat, m = Len(stack), NEW g \in Frames, stack' = [stack EXCEPT ![m] = g],
         TopKept(m), NEW home, ScopeInv(home)
  PROVE  ScopeInv(home)'
<1>1. stack \in Seq(Frames) /\ m \in 1..Len(stack)
  BY TopTyped DEF TypeOK, StackOK
<1>2. Len(stack') = m /\ \A j \in 1..m : stack'[j] = IF j = m THEN g ELSE stack[j]
  BY <1>1, ExceptTyped
<1>3. /\ m <= Len(stack') /\ Len(stack') <= m + 1 /\ Len(stack') \in Nat
      /\ ~(Len(stack') = m + 1)
  BY <1>2
<1>4. \A j \in 1..(m - 1) : stack'[j].n = stack[j].n /\ stack'[j].bbs = stack[j].bbs
  BY <1>1, <1>2
<1> QED
  BY <1>1, <1>3, <1>4, ScopesKept

LEMMA OperandHome ==
  ASSUME TypeOK, NEW home, IsHome(home), NEW k \in 1..Len(Node.kids)
  PROVE  home[Node.kids[k]] = home[Top.n] \o Opens(ast, Top.n, Node.kids[k])
BY TopTyped DEF IsHome, Node

LEMMA DescendShape ==
  ASSUME TypeOK, NEW m \in Nat, m = Len(stack), NEW k \in 1..Len(Node.kids),
         NEW bbs \in Seq(Nat), NEW base \in Nat, DescendFrom(k, bbs, base)
  PROVE  /\ Len(stack') = m + 1
         /\ \A j \in 1..(m - 1) : stack'[j] = stack[j]
         /\ stack'[m] \in Frames /\ stack'[m].n = Top.n /\ stack'[m].bbs = bbs
         /\ stack'[m + 1].n = Node.kids[k] /\ stack'[m + 1].bbs = <<>>
<1> DEFINE f == Frame(Node.kids[k], base)
           g == [Top EXCEPT !.bbs = bbs]
<1>1. /\ Len(stack') = m + 1
      /\ \A j \in 1..m : stack'[j] = IF j = m THEN g ELSE stack[j]
      /\ stack'[m + 1] = f
  BY DescendFromFrames, ZenonT(40)
<1>2. g \in Frames /\ g.n = Top.n /\ g.bbs = bbs
  BY TopTyped, FrameBbs
<1>3. f.n = Node.kids[k] /\ f.bbs = <<>>
  BY DEF Frame
<1>4. m > 0
  BY TopTyped
<1> HIDE DEF f, g
<1> QED
  BY <1>1, <1>2, <1>3, <1>4

LEMMA DescendScopes ==
  ASSUME TypeOK, ast' = ast, mapped' = mapped, NEW home, ScopeInv(home),
         NEW k \in 1..Len(Node.kids), NEW bbs \in Seq(Nat), NEW base \in Nat,
         DescendFrom(k, bbs, base),
         \A f \in Frames : f.n = Top.n /\ f.bbs = bbs =>
           OpenedBy(f) = Opens(ast, Top.n, Node.kids[k]),
         \/ bbs = Top.bbs
         \/ Node.op \notin Labelled \cup {"br", "br_if"}
         \/ /\ Node.op = "switch" /\ bbs[2] = Top.bbs[2]
            /\ Opens(ast, Top.n, Node.kids[k]) \in {<<>>, OpenedBy(Top)}
  PROVE  ScopeInv(home)'
<1>1. PICK m \in Nat : m = Len(stack)
  BY TopTyped
<1>2. /\ Len(stack') = m + 1
      /\ \A j \in 1..(m - 1) : stack'[j] = stack[j]
      /\ stack'[m] \in Frames /\ stack'[m].n = Top.n /\ stack'[m].bbs = bbs
      /\ stack'[m + 1].n = Node.kids[k] /\ stack'[m + 1].bbs = <<>>
  BY <1>1, DescendShape, ZenonT(60)
<1>3. PICK g \in Frames : g = stack'[m] /\ g.n = Top.n /\ g.bbs = bbs
  BY <1>2
<1>5. m \in 1..Len(stack) /\ Top = stack[m] /\ KeepsNames /\ Len(ast') = Len(ast)
  BY <1>1, TopTyped, NamesKept DEF Top
<1>7. OpenedBy(stack[m])' = OpenedBy(g)
  BY <1>3 DEF OpenedBy
<1>8. OpenedBy(stack[m])' = Opens(ast, Top.n, Node.kids[k])
  BY <1>3, <1>7
<1>9. home[stack'[m + 1].n] = home[stack[m].n] \o OpenedBy(stack[m])'
  <2>1. home[Node.kids[k]] = home[Top.n] \o Opens(ast, Top.n, Node.kids[k])
    BY OperandHome DEF ScopeInv
  <2> QED
    BY <2>1, <1>2, <1>5, <1>8
<1>10. TopKept(m)
  <2>1. stack'[m].n = stack[m].n /\ stack'[m].bbs = bbs
    BY <1>2, <1>5
  <2> QED
    BY <2>1, <1>5, <1>8 DEF TopKept, Node
<1>11. /\ m <= Len(stack') /\ Len(stack') <= m + 1 /\ Len(stack') \in Nat
       /\ stack'[m + 1].bbs = <<>>
  BY <1>2
<1>12. \A j \in 1..(m - 1) : stack'[j].n = stack[j].n /\ stack'[j].bbs = stack[j].bbs
  BY <1>2
<1> QED
  BY <1>5, <1>9, <1>10, <1>11, <1>12, ScopesKept

(***************************************************************************)
(* The actions and ScopeInv.                                               *)
(***************************************************************************)
LEMMA CrashScopes ==
  ASSUME TypeOK, NEW home, ScopeInv(home), Crash
  PROVE  ScopeInv(home)'
BY NamesKept, StackSame DEF Crash

LEMMA ReturnInstScopes ==
  ASSUME TypeOK, NEW home, ScopeInv(home), Len(stack) > 1, NEW args, NEW ty \in ValueTypes,
         ReturnInst(args, ty)
  PROVE  ScopeInv(home)'
<1>1. Return([ty |-> ty, at |-> cur]) /\ UNCHANGED <<ast, mapped>>
  BY DEF ReturnInst
<1>2. [ty |-> ty, at |-> cur] \in Values
  BY BodyOwned DEF Values
<1>3. KeepsNames /\ Len(ast') = Len(ast)
  BY <1>1, NamesKept
<1> QED
  BY <1>1, <1>2, <1>3, ReturnScopes

LEMMA StraightScopes ==
  ASSUME TypeOK, NEW home, ScopeInv(home),
         GenConst \/ GenGetLocal \/ GenUnreachable \/ GenSetLocal \/ GenCall \/ GenBinop
           \/ GenSelect \/ GenReturn
  PROVE  ScopeInv(home)'
<1>1. Running({"const", "nop", "get_local", "unreachable", "set_local", "call", "bin", "cmp",
               "select", "return"})
  BY DEF GenConst, GenGetLocal, GenUnreachable, GenSetLocal, GenCall, GenBinop, GenSelect,
         GenReturn, Running
<1>2. Len(stack) > 1
  BY <1>1, NotFunc DEF Running
<1>3. CASE Crash
  BY <1>3, CrashScopes
<1>4. ASSUME NEW v \in Values, Return(v), UNCHANGED <<ast, mapped>>
      PROVE  ScopeInv(home)'
  BY <1>2, <1>4, NamesKept, ReturnScopes
<1>5. ASSUME NEW args, NEW ty \in ValueTypes, ReturnInst(args, ty)
      PROVE  ScopeInv(home)'
  BY <1>2, <1>5, ReturnInstScopes
<1>6. Top.vals \in Seq(Values) /\ Node \in Nodes /\ Last \in Values
  BY TopTyped DEF Frames
<1>7. CASE GenConst
  <2>1. Return(IF Node.op = "const" THEN Const ELSE Null) /\ UNCHANGED <<ast, mapped>>
    BY <1>7 DEF GenConst
  <2> QED
    BY <2>1, <1>4, ConstTyped
<1>8. CASE GenGetLocal
  BY <1>8, <1>5 DEF GenGetLocal, ValueTypes
<1>9. CASE GenUnreachable
  BY <1>9, <1>5 DEF GenUnreachable, ValueTypes
<1>10. CASE GenSetLocal /\ ~Crash
  <2>1. Return(Last) /\ UNCHANGED <<ast, mapped>>
    BY <1>10 DEF GenSetLocal
  <2> QED
    BY <2>1, <1>4, <1>6
<1>11. CASE GenCall /\ ~Crash
  <2>1. ReturnInst(Top.vals, Node.ty) /\ Node.ty \in ValueTypes
    BY <1>11, <1>6 DEF GenCall, Nodes, ValueTypes
  <2> QED
    BY <2>1, <1>5
<1>12. CASE GenBinop /\ ~Crash
  <2> DEFINE lv == Top.vals[1]
             rv == Top.vals[2]
             ty == IF Node.op = "cmp" THEN "i1" ELSE lv.ty
  <2>1. \/ Return(Null) /\ UNCHANGED <<ast, mapped>>
        \/ IsMachine(lv) /\ ReturnInst(<<lv, rv>>, ty)
    BY <1>12 DEF GenBinop
  <2>2. CASE Return(Null) /\ UNCHANGED <<ast, mapped>>
    BY <2>2, <1>4, ConstTyped
  <2>3. CASE IsMachine(lv) /\ ReturnInst(<<lv, rv>>, ty)
    <3>1. ty \in ValueTypes
      BY <2>3 DEF IsMachine, ValueTypes
    <3> HIDE DEF ty, lv, rv
    <3> QED
      BY <2>3, <3>1, <1>5
  <2> QED
    BY <2>1, <2>2, <2>3
<1>13. CASE GenSelect /\ ~Crash
  <2>1. \/ Return(Last) /\ UNCHANGED <<ast, mapped>>
        \/ IsMachine(Top.vals[2]) /\ ReturnInst(Top.vals, Top.vals[2].ty)
    BY <1>13 DEF GenSelect
  <2>2. CASE Return(Last) /\ UNCHANGED <<ast, mapped>>
    BY <2>2, <1>4, <1>6
  <2>3. CASE IsMachine(Top.vals[2]) /\ ReturnInst(Top.vals, Top.vals[2].ty)
    <3>1. Top.vals[2].ty \in ValueTypes
      BY <2>3 DEF IsMachine, ValueTypes
    <3> QED
      BY <2>3, <3>1, <1>5
  <2> QED
    BY <2>1, <2>2, <2>3
<1>14. CASE GenReturn /\ ~Crash
  <2>1. Return([ty |-> "term", at |-> cur]) /\ UNCHANGED <<ast, mapped>>
    BY <1>14 DEF GenReturn
  <2>2. [ty |-> "term", at |-> cur] \in Values
    BY BodyOwned DEF Values, ValueTypes
  <2> QED
    BY <2>1, <2>2, <1>4
<1> QED
  BY <1>3, <1>7, <1>8, <1>9, <1>10, <1>11, <1>12, <1>13, <1>14

LEMMA NextOperandScopes ==
  ASSUME TypeOK, NEW home, ScopeInv(home), NextOperand
  PROVE  ScopeInv(home)'
<1>1. Node.op \in Sequential /\ ~OperandsDone /\ Entered /\ Descend(Done + 1, Top.bbs)
      /\ UNCHANGED <<ast, mapped>>
  BY DEF NextOperand, Running
<1>2. Done + 1 \in 1..Len(Node.kids)
  <2>1. FrameOK(Len(stack))
    BY TopTyped DEF TypeOK, StackOK
  <2>2. Done <= MostValues(Node)
    BY <2>1 DEF FrameOK, Top, Node, Done
  <2>3. Done <= Len(Node.kids) /\ Done # Len(Node.kids)
    BY <2>2, <1>1 DEF MostValues, OperandsDone, Sequential
  <2>4. Node.kids \in Seq(Nat) /\ Done \in Nat
    BY TopTyped DEF Nodes
  <2> QED
    BY <2>3, <2>4
<1>3. PICK k \in 1..Len(Node.kids) : k = Done + 1
  BY <1>2
<1>4. PICK base \in Nat : base = Len(labels)
  BY DEF TypeOK, BodyOK
<1>5. DescendFrom(k, Top.bbs, base) /\ Top.bbs \in Seq(Nat)
  BY <1>1, <1>3, <1>4, TopTyped DEF Frames, Descend
<1>6. ASSUME NEW f \in Frames, f.n = Top.n, f.bbs = Top.bbs
      PROVE  OpenedBy(f) = Opens(ast, Top.n, Node.kids[k])
  <2>1. Opens(ast, Top.n, Node.kids[k]) = OwnScopes(ast, Top.n)
    BY <1>1 DEF Opens, Node, Sequential
  <2>2. CASE Node.op \in Labelled
    <3>1. f.bbs # <<>>
      BY <1>1, <1>6, <2>2 DEF Entered, Labelled
    <3> QED
      BY <3>1, <2>1, <1>1, <1>6 DEF OpenedBy, Node, Sequential
  <2>3. CASE Node.op \notin Labelled
    <3>1. OwnScopes(ast, Top.n) = <<>>
      BY <2>3 DEF OwnScopes, Node, Labelled
    <3> QED
      BY <3>1, <2>1, <1>6, <2>3, OpenedNone DEF Node
  <2> QED
    BY <2>2, <2>3
<1> QED
  BY <1>1, <1>5, <1>6, DescendScopes

LEMMA IfScopes ==
  ASSUME TypeOK, NEW home, ScopeInv(home), IfCondition \/ IfTrueSide \/ IfFalseSide \/ IfMerge
  PROVE  ScopeInv(home)'
<1>1. Node.op = "if" /\ Len(stack) > 1
  <2>1. Running({"if"})
    BY DEF IfCondition, IfTrueSide, IfFalseSide, IfMerge
  <2> QED
    BY <2>1, NotFunc DEF Running
<1>2. Node.kids \in Seq(Nat) /\ Len(Node.kids) >= 2
  BY <1>1, TopTyped, IfHasOperands DEF Nodes
<1>3. CASE Crash
  BY <1>3, CrashScopes
<1>4. ASSUME NEW k \in 1..Len(Node.kids), NEW bbs \in Seq(Nat), Descend(k, bbs),
             UNCHANGED <<ast, mapped>>
      PROVE  ScopeInv(home)'
  <2>1. PICK base \in Nat : base = Len(labels)
    BY DEF TypeOK, BodyOK
  <2>2. DescendFrom(k, bbs, base)
    BY <1>4, <2>1 DEF Descend
  <2>3. Opens(ast, Top.n, Node.kids[k]) = <<>>
    BY <1>1 DEF Opens, OwnScopes, Labelled, Node
  <2>4. ASSUME NEW f \in Frames, f.n = Top.n, f.bbs = bbs
        PROVE  OpenedBy(f) = Opens(ast, Top.n, Node.kids[k])
    <3>1. ast[f.n].op \notin Labelled
      BY <1>1, <2>4 DEF Node, Labelled
    <3> QED
      BY <3>1, <2>3, OpenedNone
  <2>5. Node.op \notin Labelled \cup {"br", "br_if"}
    BY <1>1 DEF Labelled
  <2> QED
    BY <1>4, <2>2, <2>4, <2>5, DescendScopes
<1>5. CASE IfCondition
  <2>1. 1 \in 1..Len(Node.kids) /\ <<>> \in Seq(Nat)
    BY <1>2
  <2> QED
    BY <2>1, <1>4, <1>5 DEF IfCondition
<1>6. CASE IfTrueSide /\ ~Crash
  <2> DEFINE t == Len(body) + 1
  <2>1. Descend(2, <<t, t + 1, t + 2>>) /\ UNCHANGED <<ast, mapped>>
    BY <1>6 DEF IfTrueSide
  <2>2. 2 \in 1..Len(Node.kids) /\ <<t, t + 1, t + 2>> \in Seq(Nat)
    BY <1>2, BodyOwned
  <2> HIDE DEF t
  <2> QED
    BY <2>1, <2>2, <1>4
<1>7. CASE IfFalseSide
  <2> DEFINE bbs == <<cur, Top.bbs[2], Top.bbs[3]>>
  <2>1. /\ UNCHANGED <<ast, mapped>> /\ Done = 2
        /\ IF Len(Node.kids) = 3
           THEN Descend(3, bbs)
           ELSE stack' = [stack EXCEPT ![Len(stack)].bbs = bbs,
                                       ![Len(stack)].vals = Append(@, Null)]
    BY <1>7 DEF IfFalseSide
  <2>2. bbs \in Seq(Nat)
    <3>1. \A i \in 1..3 : Top.bbs[i] \in 1..Len(body)
      BY <1>1, <2>1, IfHasOperands
    <3>2. cur \in Nat /\ Top.bbs[2] \in Nat /\ Top.bbs[3] \in Nat
      BY <3>1, BodyOwned
    <3> QED
      BY <3>2
  <2> HIDE DEF bbs
  <2>3. CASE Len(Node.kids) = 3
    <3>1. 3 \in 1..Len(Node.kids)
      BY <2>3
    <3> QED
      BY <3>1, <2>1, <2>2, <2>3, <1>4
  <2>4. CASE Len(Node.kids) # 3
    <3> DEFINE h == [Top EXCEPT !.bbs = bbs]
               g == [h EXCEPT !.vals = Append(h.vals, Null)]
    <3>1. h \in Frames /\ h.n = Top.n /\ h.base = Top.base
      BY <2>2, TopTyped, FrameBbs
    <3>2. g \in Frames /\ g.n = Top.n /\ g.base = Top.base
      BY <3>1, ConstTyped, FrameVals
    <3>3. PICK m \in Nat : m = Len(stack)
      BY TopTyped
    <3>4. stack' = [stack EXCEPT ![m] = g]
      BY <2>1, <2>4, <3>3, TopTyped DEF Top, Frames, StackOK, TypeOK
    <3> HIDE DEF g, h
    <3>5. TopKept(m) /\ KeepsNames /\ Len(ast') = Len(ast)
      <4>1. stack'[m] = g /\ stack[m] = Top
        BY <3>3, <3>4, TopTyped DEF TypeOK, StackOK, Top
      <4> QED
        BY <4>1, <1>1, <2>1, <3>2, NamesKept DEF TopKept, Labelled, Node
    <3> QED
      BY <2>1, <3>2, <3>3, <3>4, <3>5, ReplaceScopes
  <2> QED
    BY <2>3, <2>4
<1>8. CASE IfMerge /\ ~Crash
  <2> DEFINE tv     == Top.vals[2]
             fv     == Top.vals[3]
             end    == Top.bbs[3]
             merges == tv.ty \notin {"null", "term"} /\ fv # Null /\ Node.merge
             value  == CASE tv.ty \in {"null", "term"} -> fv
                         [] merges                     -> [ty |-> tv.ty, at |-> end]
                         [] OTHER                      -> tv
  <2>1. Return(value) /\ UNCHANGED <<ast, mapped>> /\ Done = 3
    BY <1>8 DEF IfMerge
  <2>2. tv \in Values /\ fv \in Values
    <3>1. Top.vals \in Seq(Values) /\ 2 \in 1..Len(Top.vals) /\ 3 \in 1..Len(Top.vals)
      BY <2>1, TopTyped DEF Frames, Done
    <3> QED
      BY <3>1
  <2>3. end \in Nat
    <3>1. \A i \in 1..3 : Top.bbs[i] \in 1..Len(body)
      BY <1>1, <2>1, IfHasOperands
    <3> QED
      BY <3>1, BodyOwned
  <2>4. value \in Values
    BY <2>2, <2>3 DEF Values
  <2> HIDE DEF value
  <2> QED
    BY <2>1, <2>4, <1>1, NamesKept, ReturnScopes
<1> QED
  BY <1>3, <1>5, <1>6, <1>7, <1>8

LEMMA LeaveToScopes ==
  ASSUME TypeOK, NEW home, ScopeInv(home), Len(stack) > 1, NEW x \in 1..Len(body),
         NEW v \in Values, NEW jumps, NEW p, LeaveTo(x, v, jumps, p)
  PROVE  ScopeInv(home)'
<1>1. CASE Crash
  BY <1>1, CrashScopes
<1>2. CASE ~Crash
  <2> DEFINE nodes == AddIncomingPhi(ast, Top.n, v, cur)
             in    == nodes[Top.n].incoming
  <2>1. PhiOk(in) /\ ast' = nodes /\ Return(PhiValue(in, x)) /\ mapped' = mapped
    BY <1>2 DEF LeaveTo, PopLabels
  <2>2. Top.n \in 0..Len(ast) /\ cur \in Nat
    BY TopTyped, BodyOwned
  <2>3. AstOK' /\ KeepsNames /\ Len(ast') = Len(ast)
    BY <2>1, <2>2, IncomingTyped, NamesOfIncoming
  <2>4. PhiValue(in, x) \in Values
    <3>1. Top.n \in 1..Len(ast')
      BY <2>3, TopTyped
    <3>2. ast'[Top.n] \in Nodes
      BY <3>1, <2>3 DEF AstOK
    <3>3. in \in Seq(Incomings) /\ x \in Nat
      BY <3>2, <2>1, BodyOwned DEF Nodes
    <3> HIDE DEF in, nodes
    <3> QED
      BY <3>3, <2>1, PhiTyped
  <2> HIDE DEF in, nodes
  <2> QED
    BY <2>1, <2>3, <2>4, ReturnScopes
<1> QED
  BY <1>1, <1>2

LEMMA ExitNamedScopes ==
  ASSUME TypeOK, NEW home, ScopeInv(home), LabelExit \/ LoopExit \/ BlockExit
  PROVE  ScopeInv(home)'
<1>1. Node.op \in {"label", "loop", "block"} /\ Entered /\ Last \in Values
  BY TopTyped DEF LabelExit, LoopExit, BlockExit, Running, OperandsDone
<1>2. Len(stack) > 1
  BY <1>1, TopTyped
<1>3. CASE LabelExit
  <2>1. Top.bbs[1] \in 1..Len(body) /\ LeaveTo(Top.bbs[1], Last, TRUE, 1)
    BY <1>1, <1>3, EnteredHolds DEF LabelExit, Running
  <2> QED
    BY <2>1, <1>1, <1>2, LeaveToScopes
<1>4. CASE BlockExit
  <2>1. Top.bbs[2] \in 1..Len(body) /\ LeaveTo(Top.bbs[2], Last, ~Stopped, 1)
    BY <1>1, <1>4, EnteredHolds DEF BlockExit, Running
  <2> QED
    BY <2>1, <1>1, <1>2, LeaveToScopes
<1>5. CASE LoopExit
  <2>1. /\ Top.bbs[2] \in 1..Len(body)
        /\ LeaveTo(Top.bbs[2], Last, Last.ty \notin {"null", "term"}, 2)
    BY <1>1, <1>5, EnteredHolds DEF LoopExit, Running
  <2> QED
    BY <2>1, <1>1, <1>2, LeaveToScopes
<1> QED
  BY <1>3, <1>4, <1>5

LEMMA GenBreakScopes ==
  ASSUME TypeOK, NEW home, ScopeInv(home), GenBreak \/ GenBreakIf
  PROVE  ScopeInv(home)'
<1>1. Node.op \in {"br", "br_if"}
  BY DEF GenBreak, GenBreakIf, Running
<1>2. Len(stack) > 1
  BY <1>1, TopTyped
<1>3. CASE Crash
  BY <1>3, CrashScopes
<1>4. CASE GenBreak
  <2> DEFINE target == Top.bbs[1]
             v      == [ty |-> "term", at |-> cur]
  <2>1. /\ Entered /\ Node.op = "br"
        /\ ast' = AddIncomingPhi(ast, body[target].owner, Last, cur)
        /\ Return(v) /\ mapped' = mapped
    BY <1>4 DEF GenBreak, OperandsDone, Running
  <2>2. body[target].owner \in 0..Len(ast) /\ v \in Values
    BY <2>1, EnteredHolds, OwnerTyped, BodyOwned DEF Values, ValueTypes
  <2> HIDE DEF target, v
  <2>3. KeepsNames /\ Len(ast') = Len(ast)
    BY <2>1, <2>2, NamesOfIncoming
  <2> QED
    BY <1>2, <2>1, <2>2, <2>3, ReturnScopes
<1>5. CASE GenBreakIf /\ ~Crash
  <2> DEFINE target == Top.bbs[1]
             v      == IF Done = 2 THEN Top.vals[1] ELSE Null
             t      == Len(body) + 1
  <2>1. /\ Entered /\ Node.op = "br_if"
        /\ ast' = AddIncomingPhi(ast, body[target].owner, v, t)
        /\ Return(Null) /\ mapped' = mapped
    BY <1>5 DEF GenBreakIf, OperandsDone, Running
  <2>2. body[target].owner \in 0..Len(ast)
    BY <2>1, EnteredHolds, OwnerTyped
  <2> HIDE DEF target, v, t
  <2>3. KeepsNames /\ Len(ast') = Len(ast)
    BY <2>1, <2>2, NamesOfIncoming
  <2> QED
    BY <1>2, <2>1, <2>3, ConstTyped, ReturnScopes
<1> QED
  BY <1>3, <1>4, <1>5

LEMMA StillScopes ==
  ASSUME TypeOK, NEW home, ScopeInv(home),
         RunPasses \/ GenCase \/ FunctionEnd \/ Verify \/ UNCHANGED vars
  PROVE  ScopeInv(home)'
<1>1. CASE RunPasses
  BY <1>1, NamesOfPasses, StackSame DEF RunPasses
<1>2. CASE FunctionEnd \/ Verify \/ UNCHANGED vars
  <2>1. UNCHANGED <<ast, stack, mapped>>
    BY <1>2 DEF FunctionEnd, Verify, vars
  <2> QED
    BY <2>1, NamesKept, StackSame
<1>3. CASE GenCase
  <2>1. Len(stack) > 1
    BY <1>3, NotFunc DEF GenCase, Running
  <2>2. Return(Last) /\ UNCHANGED <<ast, mapped>> /\ Last \in Values
    BY <1>3, TopTyped DEF GenCase
  <2> QED
    BY <2>1, <2>2, NamesKept, ReturnScopes
<1> QED
  BY <1>1, <1>2, <1>3

(***************************************************************************)
(* The tableswitch and its scope: open as long as it holds a block less    *)
(* than at the end.                                                        *)
(***************************************************************************)
LEMMA SwitchOpened ==
  ASSUME NEW f \in Frames, Node.op = "switch", f.n = Top.n, Len(f.bbs) > 0
  PROVE  OpenedBy(f) = IF Len(f.bbs) >= Len(Node.kids) + 2 THEN <<>> ELSE OwnScopes(ast, Top.n)
<1>1. f.bbs # <<>>
  OBVIOUS
<1> QED
  BY <1>1 DEF OpenedBy, Node

LEMMA SwitchOpenNow ==
  ASSUME TypeOK, Node.op = "switch", Entered, Done < Len(Node.kids)
  PROVE  OpenedBy(Top) = OwnScopes(ast, Top.n)
<1>1. PICK k \in Nat : k = Done
  BY SwitchHolds
<1>2. PICK n \in Nat : n = Len(Node.kids)
  BY SwitchHolds
<1>3. PICK l \in Nat : l = Len(Top.bbs)
  BY SwitchHolds
<1>4. (l \in {k + 1, k + 2} \/ (k = 0 /\ l = 2)) /\ l >= 2 /\ k < n
  BY <1>1, <1>2, <1>3, SwitchHolds
<1>5. ~(l >= n + 2) /\ l > 0
  BY <1>4
<1> QED
  BY <1>2, <1>3, <1>5, TopTyped, SwitchOpened

LEMMA SwitchOpens ==
  ASSUME TypeOK, OwnSelector, Node.op = "switch", NEW k \in 1..Len(Node.kids)
  PROVE  Opens(ast, Top.n, Node.kids[k]) =
           IF k = Len(Node.kids) THEN <<>> ELSE OwnScopes(ast, Top.n)
<1>1. k # Len(Node.kids) => Node.kids[k] # Node.kids[Len(Node.kids)]
  BY TopTyped DEF OwnSelector, Node
<1> QED
  BY <1>1 DEF Opens, Node

LEMMA SwitchDescendScopes ==
  ASSUME TypeOK, NEW home, ScopeInv(home), ast' = ast, mapped' = mapped,
         Node.op = "switch", Entered, Done < Len(Node.kids),
         NEW k \in 1..Len(Node.kids), NEW bbs \in Seq(Nat), NEW base \in Nat,
         Len(bbs) > 0, bbs[2] = Top.bbs[2],
         Len(bbs) >= Len(Node.kids) + 2 <=> k = Len(Node.kids),
         DescendFrom(k, bbs, base)
  PROVE  ScopeInv(home)'
<1>1. Opens(ast, Top.n, Node.kids[k]) = IF k = Len(Node.kids) THEN <<>> ELSE OwnScopes(ast, Top.n)
  BY SwitchOpens DEF ScopeInv
<1>2. ASSUME NEW f \in Frames, f.n = Top.n, f.bbs = bbs
      PROVE  OpenedBy(f) = Opens(ast, Top.n, Node.kids[k])
  <2>1. Len(f.bbs) > 0
    BY <1>2
  <2>2. OpenedBy(f) = IF Len(f.bbs) >= Len(Node.kids) + 2 THEN <<>> ELSE OwnScopes(ast, Top.n)
    BY <2>1, <1>2, SwitchOpened
  <2> QED
    BY <2>2, <1>1, <1>2
<1>3. Opens(ast, Top.n, Node.kids[k]) \in {<<>>, OpenedBy(Top)}
  BY <1>1, SwitchOpenNow
<1> QED
  BY <1>2, <1>3, DescendScopes

LEMMA SwitchCaseScopes ==
  ASSUME TypeOK, NEW home, ScopeInv(home), SwitchCase
  PROVE  ScopeInv(home)'
<1>1. /\ Node.op = "switch" /\ Entered /\ Done < Node.cases /\ Descend(Done + 1, Recorded)
      /\ UNCHANGED <<ast, mapped>>
  BY DEF SwitchCase, Running
<1>2. PICK n \in Nat : n = Len(Node.kids)
  BY <1>1, SwitchHolds
<1>3. PICK k \in Nat : k = Done + 1
  BY TopTyped
<1>4. k < n /\ k > 0 /\ Done < n
  <2>1. PICK c \in Nat : c = Node.cases
    BY <1>1, TableHolds
  <2>2. c < n
    BY <2>1, <1>1, <1>2, TableHolds
  <2>3. Done \in Nat
    BY TopTyped
  <2> QED
    BY <2>1, <2>2, <2>3, <1>1, <1>3
<1>5. PICK bbs \in Seq(Nat) : bbs = Recorded
  BY <1>1, RecordedTyped
<1>6. Len(bbs) = k + 1 /\ bbs[2] = Top.bbs[2]
  <2>1. Len(bbs) = Done + 2 /\ Done \in Nat /\ bbs[2] = Top.bbs[2]
    BY <1>1, <1>5, RecordedTyped, TopTyped
  <2> QED
    BY <2>1, <1>3
<1>7. /\ k \in 1..Len(Node.kids) /\ Len(bbs) > 0 /\ Done < Len(Node.kids)
      /\ (Len(bbs) >= Len(Node.kids) + 2 <=> k = Len(Node.kids))
  BY <1>2, <1>4, <1>6
<1>8. PICK base \in Nat : base = Len(labels)
  BY DEF TypeOK, BodyOK
<1>9. DescendFrom(k, bbs, base)
  BY <1>1, <1>3, <1>5, <1>8 DEF Descend
<1> QED
  BY <1>1, <1>6, <1>7, <1>9, SwitchDescendScopes

LEMMA SwitchBreakScopes ==
  ASSUME TypeOK, NEW home, ScopeInv(home), SwitchBreak
  PROVE  ScopeInv(home)'
<1>a. PICK x \in Nat : x = Len(body) + 1
  BY BodyOwned
<1>1. /\ Node.op = "switch" /\ Entered /\ Done + 1 < Len(Node.kids)
      /\ Descend(Done + 1, IF Default = Done + 1 THEN Append(Recorded, x) ELSE Recorded)
      /\ UNCHANGED <<ast, mapped>>
  BY <1>a DEF SwitchBreak, AtBreak, Running
<1>2. PICK n \in Nat : n = Len(Node.kids)
  BY <1>1, SwitchHolds
<1>3. PICK k \in Nat : k = Done + 1
  BY TopTyped
<1>4. k < n /\ k > 0 /\ Done < n
  <2>1. Done \in Nat
    BY TopTyped
  <2> QED
    BY <2>1, <1>1, <1>2, <1>3
<1>5. PICK old \in Seq(Nat) : old = Recorded
  BY <1>1, RecordedTyped
<1>6. Len(old) = k + 1 /\ old[2] = Top.bbs[2]
  <2>1. Len(old) = Done + 2 /\ Done \in Nat /\ old[2] = Top.bbs[2]
    BY <1>1, <1>5, RecordedTyped, TopTyped
  <2> QED
    BY <2>1, <1>3
<1>7. PICK bbs \in Seq(Nat) : bbs = IF Default = Done + 1 THEN Append(old, x) ELSE old
  BY AppendTyped
<1>8. Len(bbs) \in {k + 1, k + 2} /\ bbs[2] = Top.bbs[2]
  <2>1. Len(Append(old, x)) = k + 2 /\ Append(old, x)[2] = old[2]
    <3>1. 2 \in 1..Len(old)
      BY <1>4, <1>6
    <3> QED
      BY <3>1, <1>6, AppendTyped
  <2> QED
    BY <2>1, <1>6, <1>7
<1>9. /\ k \in 1..Len(Node.kids) /\ Len(bbs) > 0 /\ Done < Len(Node.kids)
      /\ (Len(bbs) >= Len(Node.kids) + 2 <=> k = Len(Node.kids))
  <2>1. PICK b \in Nat : b = Len(bbs) /\ b \in {k + 1, k + 2}
    BY <1>8
  <2> QED
    BY <2>1, <1>2, <1>4
<1>10. PICK base \in Nat : base = Len(labels)
  BY DEF TypeOK, BodyOK
<1>11. DescendFrom(k, bbs, base)
  BY <1>1, <1>3, <1>5, <1>7, <1>10 DEF Descend
<1> QED
  BY <1>1, <1>8, <1>9, <1>11, SwitchDescendScopes

LEMMA SwitchSelectorScopes ==
  ASSUME TypeOK, NEW home, ScopeInv(home), SwitchSelector
  PROVE  ScopeInv(home)'
<1>1. CASE Crash
  BY <1>1, CrashScopes
<1>2. CASE ~Crash
  <2>1. /\ Node.op = "switch" /\ Entered /\ Done + 1 = Len(Node.kids) /\ PopLabels(1)
        /\ DescendFrom(Done + 1, Append(Recorded, Recorded[Default + 2]), Len(labels'))
        /\ ast' = ast /\ mapped' = mapped
    BY <1>2 DEF SwitchSelector, Running, PopLabels
  <2>2. PICK k \in Nat : k = Done + 1
    BY TopTyped
  <2>3. k = Len(Node.kids) /\ k > 0 /\ Done < Len(Node.kids) /\ k \in 1..Len(Node.kids)
    <3>1. Done \in Nat
      BY TopTyped
    <3> QED
      BY <3>1, <2>1, <2>2
  <2>4. PICK old \in Seq(Nat) : old = Recorded
    BY <2>1, RecordedTyped
  <2>5. Len(old) = k + 1 /\ old[2] = Top.bbs[2] /\ \A i \in 1..Len(old) : old[i] \in Nat
    <3>1. Len(old) = Done + 2 /\ Done \in Nat /\ old[2] = Top.bbs[2]
      BY <2>1, <2>4, RecordedTyped, TopTyped
    <3> QED
      BY <3>1, <2>2
  <2>6. PICK d \in Nat : d = old[Default + 2]
    <3>1. Default \in Nat /\ Default < k
      BY <2>1, <2>3, TableHolds
    <3>2. Default + 2 \in 1..Len(old)
      BY <3>1, <2>5
    <3> QED
      BY <3>2, <2>5
  <2>7. PICK bbs \in Seq(Nat) : bbs = Append(old, d)
    BY <2>6, AppendTyped
  <2>8. Len(bbs) = k + 2 /\ bbs[2] = Top.bbs[2]
    <3>1. Len(bbs) = Len(old) + 1 /\ \A i \in 1..Len(old) : bbs[i] = old[i]
      BY <2>7, AppendTyped
    <3>2. 2 \in 1..Len(old)
      BY <2>3, <2>5
    <3> QED
      BY <3>1, <3>2, <2>5
  <2>9. PICK base \in Nat : base = Len(labels')
    <3>1. labels \in Seq(1..Len(body)) /\ 1 \in Nat
      BY DEF TypeOK, BodyOK
    <3>2. labels' \in Seq(1..Len(body))
      BY <3>1, <2>1, PopTyped DEF PopLabels
    <3> QED
      BY <3>2
  <2>10. DescendFrom(k, bbs, base)
    BY <2>1, <2>2, <2>4, <2>6, <2>7, <2>9
  <2>11. Len(bbs) > 0 /\ Len(bbs) >= Len(Node.kids) + 2
    BY <2>3, <2>8
  <2> QED
    BY <2>1, <2>3, <2>8, <2>10, <2>11, SwitchDescendScopes
<1> QED
  BY <1>1, <1>2

LEMMA SwitchExitScopes ==
  ASSUME TypeOK, NEW home, ScopeInv(home), SwitchExit
  PROVE  ScopeInv(home)'
<1>1. CASE Crash
  BY <1>1, CrashScopes
<1>2. CASE ~Crash
  <2> DEFINE in == Node.incoming
             v  == PhiValue(in, Top.bbs[2])
  <2>1. /\ Node.op = "switch" /\ Entered /\ PhiOk(in)
        /\ ast' = [ast EXCEPT ![Top.n].renamed = TRUE] /\ Return(v) /\ mapped' = mapped
    BY <1>2 DEF SwitchExit, Running
  <2>2. v \in Values
    <3>1. Top.bbs[2] \in Nat
      BY <2>1, SwitchHolds, BodyOwned
    <3>2. in \in Seq(Incomings)
      BY TopTyped DEF Nodes
    <3> HIDE DEF in
    <3> QED
      BY <3>1, <3>2, <2>1, PhiTyped
  <2> HIDE DEF v, in
  <2>3. KeepsNames /\ Len(ast') = Len(ast)
    BY <2>1, TopTyped, NamesOfRenamed
  <2>4. Len(stack) > 1
    BY <2>1, TopTyped
  <2> QED
    BY <2>1, <2>2, <2>3, <2>4, ReturnScopes
<1> QED
  BY <1>1, <1>2

LEMMA SwitchRecordScopes ==
  ASSUME TypeOK, NEW home, ScopeInv(home), KeepsNames, Len(ast') = Len(ast), mapped' = mapped,
         Node.op = "switch", Entered, Done < Len(Node.kids),
         NEW g \in Frames, g.n = Top.n,
         Len(g.bbs) > 0, Len(g.bbs) < Len(Node.kids) + 2, g.bbs[2] = Top.bbs[2],
         stack' = [stack EXCEPT ![Len(stack)] = g]
  PROVE  ScopeInv(home)'
<1>1. PICK m \in Nat : m = Len(stack)
  BY TopTyped
<1>2. stack \in Seq(Frames) /\ m \in 1..Len(stack) /\ Top = stack[m]
  BY <1>1, TopTyped DEF TypeOK, StackOK, Top
<1>3. stack'[m] = g
  BY <1>1, <1>2
<1>4. /\ Top.n \in 1..Len(ast) /\ ast'[Top.n].op = "switch" /\ ast'[Top.n].kids = Node.kids
      /\ OwnScopes(ast', Top.n) = OwnScopes(ast, Top.n)
  BY TopTyped, SameNode DEF Node
<1>5. OpenedBy(stack[m])' = OwnScopes(ast, Top.n)
  <2>1. g.bbs # <<>>
    OBVIOUS
  <2>2. Len(g.bbs) \in Nat /\ Len(Node.kids) \in Nat
    BY SwitchHolds DEF Frames
  <2>3. ~(Len(g.bbs) >= Len(Node.kids) + 2)
    BY <2>2
  <2> QED
    BY <1>3, <1>4, <2>1, <2>3 DEF OpenedBy
<1>6. TopKept(m)
  BY <1>2, <1>3, <1>5, SwitchOpenNow DEF TopKept, Node
<1> QED
  BY <1>1, <1>6, ReplaceScopes

LEMMA SwitchFallOutScopes ==
  ASSUME TypeOK, NEW home, ScopeInv(home), SwitchFallOut
  PROVE  ScopeInv(home)'
<1>1. /\ Node.op = "switch" /\ Entered /\ Done = Node.cases
      /\ ast' = AddIncomingPhi(ast, Top.n, Last, cur)
      /\ Enter(Recorded) /\ mapped' = mapped
  BY DEF SwitchFallOut, Running
<1>2. KeepsNames /\ Len(ast') = Len(ast)
  <2>1. Top.n \in 0..Len(ast)
    BY TopTyped, BodyOwned
  <2> QED
    BY <2>1, <1>1, NamesOfIncoming
<1>3. PICK n \in Nat : n = Len(Node.kids)
  BY <1>1, SwitchHolds
<1>4. PICK k \in Nat : k = Done
  BY TopTyped
<1>5. k < n
  BY <1>1, <1>3, <1>4, TableHolds
<1>6. PICK bbs \in Seq(Nat) : bbs = Recorded
  BY <1>1, RecordedTyped
<1>7. Len(bbs) = k + 2 /\ bbs[2] = Top.bbs[2]
  BY <1>1, <1>4, <1>6, RecordedTyped
<1> DEFINE g == [Top EXCEPT !.bbs = bbs]
<1>8. g \in Frames /\ g.n = Top.n /\ g.bbs = bbs
  BY TopTyped, FrameBbs
<1>9. stack' = [stack EXCEPT ![Len(stack)] = g]
  BY <1>1, <1>6 DEF Enter, Top
<1> HIDE DEF g
<1>10. /\ Len(g.bbs) > 0 /\ Len(g.bbs) < Len(Node.kids) + 2 /\ g.bbs[2] = Top.bbs[2]
       /\ Done < Len(Node.kids)
  BY <1>3, <1>4, <1>5, <1>7, <1>8
<1> QED
  BY <1>1, <1>2, <1>8, <1>9, <1>10, SwitchRecordScopes

LEMMA SwitchRenamedScopes ==
  ASSUME TypeOK, NEW home, ScopeInv(home), SwitchRenamed
  PROVE  ScopeInv(home)'
<1>1. /\ Node.op = "switch" /\ Entered /\ Done + 1 < Len(Node.kids)
      /\ stack' = [stack EXCEPT ![Len(stack)].bbs = Append(Recorded, cur),
                                ![Len(stack)].vals = Append(@, Null)]
      /\ UNCHANGED <<ast, mapped>>
  BY DEF SwitchRenamed, AtBreak, Running
<1>2. KeepsNames /\ Len(ast') = Len(ast)
  BY <1>1, NamesKept
<1>3. PICK n \in Nat : n = Len(Node.kids)
  BY <1>1, SwitchHolds
<1>4. PICK k \in Nat : k = Done
  BY TopTyped
<1>5. k + 1 < n
  BY <1>1, <1>3, <1>4
<1>6. PICK old \in Seq(Nat) : old = Recorded
  BY <1>1, RecordedTyped
<1>7. Len(old) = k + 2 /\ old[2] = Top.bbs[2]
  BY <1>1, <1>4, <1>6, RecordedTyped
<1>a. PICK bbs \in Seq(Nat) : bbs = Append(old, cur)
  BY BodyOwned, AppendTyped
<1>b. Len(bbs) = k + 3 /\ bbs[2] = Top.bbs[2]
  <2>1. Len(bbs) = Len(old) + 1 /\ \A i \in 1..Len(old) : bbs[i] = old[i]
    BY <1>a, BodyOwned, AppendTyped
  <2> QED
    BY <2>1, <1>7
<1> DEFINE h == [Top EXCEPT !.bbs = bbs]
           g == [h EXCEPT !.vals = Append(h.vals, Null)]
<1>c. h \in Frames /\ h.n = Top.n /\ h.bbs = bbs /\ h.vals = Top.vals
  BY TopTyped, FrameBbs
<1>8. g \in Frames /\ g.n = Top.n /\ g.bbs = bbs
  BY <1>c, ConstTyped, FrameVals, ZenonT(40)
<1>9. stack' = [stack EXCEPT ![Len(stack)] = g]
  BY <1>1, <1>6, <1>a, TopTyped DEF Top, Frames, StackOK, TypeOK
<1> HIDE DEF g, h
<1>10. /\ Len(g.bbs) > 0 /\ Len(g.bbs) < Len(Node.kids) + 2 /\ g.bbs[2] = Top.bbs[2]
       /\ Done < Len(Node.kids)
  BY <1>3, <1>4, <1>5, <1>b, <1>8
<1> QED
  BY <1>1, <1>2, <1>8, <1>9, <1>10, SwitchRecordScopes

(***************************************************************************)
(* A name that is pushed is the name of no open scope, when no label hides *)
(* another.                                                                *)
(***************************************************************************)
LEMMA OwnNamesFresh ==
  ASSUME TypeOK, LabelInv, NEW home, IsHome(home), OnStack(home), AllDiffer(home),
         NEW m \in 1..Len(stack), ast[stack[m].n].op \in Labelled,
         NEW own, own = OwnScopes(ast, stack[m].n)
  PROVE  /\ \A j \in 1..(m - 1) : \A t \in 1..Len(OpenedBy(stack[j])) : \A u \in 1..Len(own) :
              own[u].name = OpenedBy(stack[j])[t].name => own[u].name = NoName
         /\ \A t, u \in 1..Len(own) : own[t].name = own[u].name => t = u \/ own[t].name = NoName
<1>1. PICK s : s = home[stack[m].n]
  OBVIOUS
<1>2. s \in Seq(AllScopes) /\ Len(s) \in Nat /\ stack[m].n \in 1..Len(ast)
  BY <1>1, HomeTyped
<1>3. own \in Seq(AllScopes) /\ Len(own) \in Nat
  BY <1>2, OwnTyped
<1>4. PICK c : c = s \o own
  OBVIOUS
<1>5. /\ Len(c) = Len(s) + Len(own)
      /\ \A i \in 1..Len(s) : c[i] = s[i]
      /\ \A i \in 1..Len(own) : c[Len(s) + i] = own[i]
  BY <1>2, <1>3, <1>4, ConcatTyped
<1>6. \A i, j \in 1..Len(c) : c[i].name = c[j].name => i = j \/ c[i].name = NoName
  BY <1>1, <1>2, <1>4 DEF AllDiffer, NamesDiffer
<1>7. ASSUME NEW j \in 1..(m - 1), NEW t \in 1..Len(OpenedBy(stack[j])), NEW u \in 1..Len(own),
             own[u].name = OpenedBy(stack[j])[t].name
      PROVE  own[u].name = NoName
  <2>1. PICK i \in 1..Len(s) : s[i] = OpenedBy(stack[j])[t]
    <3>1. InScopes(home, m)
      BY AllInScopes
    <3> QED
      BY <3>1, <1>1 DEF InScopes
  <2>2. i \in 1..Len(c) /\ Len(s) + u \in 1..Len(c) /\ i # Len(s) + u
    BY <1>2, <1>3, <1>5
  <2>3. c[i].name = c[Len(s) + u].name /\ c[Len(s) + u] = own[u] /\ c[i] = s[i]
    BY <2>1, <1>5, <1>7
  <2> QED
    BY <2>2, <2>3, <1>6
<1>8. ASSUME NEW t \in 1..Len(own), NEW u \in 1..Len(own), own[t].name = own[u].name
      PROVE  t = u \/ own[t].name = NoName
  <2>1. Len(s) + t \in 1..Len(c) /\ Len(s) + u \in 1..Len(c)
    BY <1>2, <1>3, <1>5
  <2>2. c[Len(s) + t].name = c[Len(s) + u].name
    BY <1>5, <1>8
  <2>3. Len(s) + t = Len(s) + u => t = u
    BY <1>2, <1>3
  <2> QED
    BY <2>1, <2>2, <2>3, <1>5, <1>6
<1> QED
  BY <1>7, <1>8

LEMMA EnterShape ==
  ASSUME TypeOK, NEW m \in Nat, m = Len(stack), NEW bbs \in Seq(Nat), Enter(bbs)
  PROVE  /\ Len(stack') = m
         /\ \A j \in 1..(m - 1) : stack'[j].n = stack[j].n /\ stack'[j].bbs = stack[j].bbs
         /\ stack'[m].n = stack[m].n /\ stack'[m].bbs = bbs
         /\ m \in 1..Len(stack) /\ Top = stack[m]
<1>1. stack \in Seq(Frames) /\ m \in 1..Len(stack) /\ Top = stack[m]
  BY TopTyped DEF TypeOK, StackOK, Top
<1> DEFINE g == [Top EXCEPT !.bbs = bbs]
<1>2. g \in Frames /\ g.n = Top.n /\ g.bbs = bbs
  BY TopTyped, FrameBbs
<1>3. stack' = [stack EXCEPT ![m] = g]
  BY DEF Enter, Top
<1> HIDE DEF g
<1>4. Len(stack') = m /\ \A j \in 1..m : stack'[j] = IF j = m THEN g ELSE stack[j]
  BY <1>1, <1>2, <1>3, ExceptTyped
<1> QED
  BY <1>1, <1>2, <1>4

(***************************************************************************)
(* A named expression that enters maps its names, and no others.           *)
(***************************************************************************)
OthersMapped(own) ==
  \A l \in LabelNames : (\A t \in 1..Len(own) : own[t].name # l) => mapped'[l] = mapped[l]

OwnMapped(own, bbs) ==
  \A t \in 1..Len(own) :
    /\ own[t].name # NoName
    /\ \A u \in 1..Len(own) : own[t].name = own[u].name => t = u
    => mapped'[own[t].name] = bbs[IF own[t].end /\ Node.op # "label" THEN 2 ELSE 1]

LEMMA NamedEnterScopes ==
  ASSUME TypeOK, LabelInv, NEW home, ScopeInv(home), ~Entered, Node.op \in Labelled,
         NEW bbs \in Seq(Nat), Len(bbs) > 0,
         Node.op = "switch" => ~(Len(bbs) >= Len(Node.kids) + 2),
         Enter(bbs), ast' = ast,
         NEW own, own = OwnScopes(ast, Top.n),
         OthersMapped(own), OwnMapped(own, bbs)
  PROVE  ScopeInv(home)'
<1>1. PICK m \in Nat : m = Len(stack)
  BY TopTyped
<1>2. /\ m \in 1..Len(stack) /\ Top = stack[m] /\ KeepsNames
      /\ Len(ast') = Len(ast) /\ stack[m].n \in 1..Len(ast)
  BY <1>1, TopTyped, NamesKept DEF Top
<1>5. /\ Len(stack') = m
      /\ \A j \in 1..(m - 1) : stack'[j].n = stack[j].n /\ stack'[j].bbs = stack[j].bbs
      /\ stack'[m].n = stack[m].n /\ stack'[m].bbs = bbs
  BY <1>1, EnterShape, ZenonT(60)
<1>6. stack'[m].n = stack[m].n /\ stack'[m].bbs = bbs
  BY <1>5
<1>7. Node = ast[stack[m].n] /\ ast'[stack'[m].n] = Node
  BY <1>2, <1>6 DEF Node
<1>8. OpenedBy(stack[m])' = own
  <2>1. bbs # <<>>
    OBVIOUS
  <2> QED
    BY <2>1, <1>2, <1>6, <1>7 DEF OpenedBy
<1>9. \A j \in 1..(m - 1) : stack'[j].n = stack[j].n /\ stack'[j].bbs = stack[j].bbs
  BY <1>5
<1>10. ASSUME AllDiffer(home)
       PROVE  JumpsHome(home, m)' /\ \A j \in 1..m : NamesMapped(j)'
  <2>1. /\ \A j \in 1..(m - 1) : \A t \in 1..Len(OpenedBy(stack[j])) : \A u \in 1..Len(own) :
             own[u].name = OpenedBy(stack[j])[t].name => own[u].name = NoName
        /\ \A t, u \in 1..Len(own) : own[t].name = own[u].name => t = u \/ own[t].name = NoName
    <3>1. IsHome(home) /\ OnStack(home)
      BY DEF ScopeInv
    <3>2. ast[stack[m].n].op \in Labelled /\ own = OwnScopes(ast, stack[m].n)
      BY <1>2, <1>7
    <3> QED
      BY <3>1, <3>2, <1>2, <1>10, OwnNamesFresh, ZenonT(60)
  <2>2. JumpsHome(home, m)'
    BY <1>7 DEF JumpsHome, IsBreak, Labelled
  <2>3. ASSUME NEW t \in 1..Len(own), own[t].name # NoName
        PROVE  mapped'[own[t].name] = ScopeBlock(stack[m], own[t])'
    <3>1. mapped'[own[t].name] = bbs[IF own[t].end /\ Node.op # "label" THEN 2 ELSE 1]
      BY <2>1, <2>3 DEF OwnMapped
    <3> QED
      BY <3>1, <1>6, <1>7 DEF ScopeBlock
  <2>4. NamesMapped(m)'
    BY <2>3, <1>8 DEF NamesMapped
  <2>5. ASSUME NEW j \in 1..(m - 1) PROVE NamesMapped(j)'
    <3>1. j \in 1..Len(stack)
      BY <1>1
    <3>2. NamesMapped(j)
      BY <3>1, <1>10 DEF ScopeInv
    <3>3. ASSUME NEW t \in 1..Len(OpenedBy(stack[j])), OpenedBy(stack[j])[t].name # NoName
          PROVE  mapped'[OpenedBy(stack[j])[t].name] = mapped[OpenedBy(stack[j])[t].name]
      <4>1. OpenedBy(stack[j])[t].name \in LabelNames
        <5>1. OpenedBy(stack[j])[t] \in AllScopes
          BY <3>1, OpenedTyped
        <5> QED
          BY <5>1 DEF AllScopes
      <4>2. \A u \in 1..Len(own) : own[u].name # OpenedBy(stack[j])[t].name
        BY <2>1, <3>3
      <4> QED
        BY <4>1, <4>2 DEF OthersMapped
    <3> QED
      BY <3>1, <3>2, <3>3, <1>2, <1>9, MappedSame
  <2>6. \A j \in 1..m : j = m \/ j \in 1..(m - 1)
    OBVIOUS
  <2> QED
    BY <2>2, <2>4, <2>5, <2>6
<1>11. Written' /\ OwnSelector' /\ IsHome(home)' /\ (AllDiffer(home)' => AllDiffer(home))
  BY <1>2, SameTree DEF ScopeInv
<1>12. /\ m <= Len(stack') /\ Len(stack') <= m + 1 /\ Len(stack') \in Nat
       /\ ~(Len(stack') = m + 1) /\ home[stack'[m].n] = home[stack[m].n]
  BY <1>5, <1>6
<1> QED
  BY <1>2, <1>9, <1>10, <1>11, <1>12, ScopesStep

LEMMA TopNames ==
  ASSUME TypeOK
  PROVE  Node.name \in LabelNames /\ Node.exit \in LabelNames
BY TopTyped DEF Nodes

LEMMA EnterOneScopes ==
  ASSUME TypeOK, LabelInv, NEW home, ScopeInv(home), ~Entered,
         Node.op \in Labelled \ {"loop"},
         NEW x, NEW bbs \in Seq(Nat), Len(bbs) > 0,
         Node.op = "switch" => ~(Len(bbs) >= Len(Node.kids) + 2),
         bbs[IF Node.op # "label" THEN 2 ELSE 1] = x,
         Enter(bbs), ast' = ast, mapped' = [mapped EXCEPT ![Node.name] = x]
  PROVE  ScopeInv(home)'
<1>1. PICK own : own = OwnScopes(ast, Top.n)
  OBVIOUS
<1>2. Len(own) = 1 /\ own[1] = Scope(Top.n, Node.name, TRUE)
  BY <1>1, TopTyped, OwnTyped DEF Node
<1>3. own[1].name = Node.name /\ own[1].end = TRUE
  BY <1>2 DEF Scope
<1>4. 1 \in 1..Len(own) /\ \A t \in 1..Len(own) : t = 1
  BY <1>2
<1>5. mapped'[Node.name] = x /\ \A l \in LabelNames : l # Node.name => mapped'[l] = mapped[l]
  <2>1. mapped \in [LabelNames -> 0..Len(body)]
    BY DEF TypeOK, BodyOK
  <2> QED
    BY <2>1, TopNames
<1>6. OthersMapped(own)
  BY <1>3, <1>4, <1>5 DEF OthersMapped
<1>7. OwnMapped(own, bbs)
  BY <1>3, <1>4, <1>5 DEF OwnMapped
<1> QED
  BY <1>1, <1>6, <1>7, NamedEnterScopes

LEMMA LoopEnterScopes ==
  ASSUME TypeOK, LabelInv, NEW home, ScopeInv(home), LoopEnter
  PROVE  ScopeInv(home)'
<1>1. PICK x \in Nat : x = Len(body) + 1
  BY BodyOwned
<1>2. PICK y \in Nat : y = x + 1
  OBVIOUS
<1>3. /\ Node.op = "loop" /\ ~Entered /\ Enter(<<x, y>>) /\ ast' = ast
      /\ mapped' = [mapped EXCEPT ![Node.exit] = y, ![Node.name] = x]
  BY <1>1, <1>2 DEF LoopEnter, Running
<1>a. <<x, y>> \in Seq(Nat) /\ Len(<<x, y>>) = 2 /\ <<x, y>>[1] = x /\ <<x, y>>[2] = y
  BY TwoOf
<1>4. PICK bbs \in Seq(Nat) : bbs = <<x, y>> /\ Len(bbs) = 2 /\ bbs[1] = x /\ bbs[2] = y
  BY <1>a
<1>5. PICK own : own = OwnScopes(ast, Top.n)
  OBVIOUS
<1>6. /\ Len(own) = 2
      /\ own[1] = Scope(Top.n, Node.exit, TRUE) /\ own[2] = Scope(Top.n, Node.name, FALSE)
  BY <1>3, <1>5, TopTyped, OwnTyped DEF Node
<1>7. /\ own[1].name = Node.exit /\ own[1].end = TRUE
      /\ own[2].name = Node.name /\ own[2].end = FALSE
  BY <1>6 DEF Scope
<1>8. 1 \in 1..Len(own) /\ 2 \in 1..Len(own) /\ \A t \in 1..Len(own) : t = 1 \/ t = 2
  BY <1>6
<1>9. /\ \A l \in LabelNames : l # Node.exit /\ l # Node.name => mapped'[l] = mapped[l]
      /\ mapped'[Node.name] = x
      /\ Node.exit # Node.name => mapped'[Node.exit] = y
  <2>1. mapped \in [LabelNames -> 0..Len(body)]
    BY DEF TypeOK, BodyOK
  <2> QED
    BY <2>1, <1>3, TopNames
<1>10. OthersMapped(own)
  BY <1>7, <1>8, <1>9 DEF OthersMapped
<1>11. ASSUME NEW t \in 1..Len(own), own[t].name # NoName,
              \A u \in 1..Len(own) : own[t].name = own[u].name => t = u
       PROVE  mapped'[own[t].name] = bbs[IF own[t].end /\ Node.op # "label" THEN 2 ELSE 1]
  <2>1. CASE t = 1
    <3>1. Node.exit # Node.name
      BY <2>1, <1>7, <1>8, <1>11
    <3> QED
      BY <3>1, <2>1, <1>3, <1>4, <1>7, <1>9
  <2>2. CASE t = 2
    BY <2>2, <1>3, <1>4, <1>7, <1>9
  <2> QED
    BY <2>1, <2>2, <1>8
<1>12. Node.op \in Labelled /\ Node.op # "switch" /\ Len(bbs) > 0 /\ Enter(bbs)
  BY <1>3, <1>4 DEF Labelled
<1>13. OwnMapped(own, bbs)
  BY <1>11 DEF OwnMapped
<1> QED
  BY <1>3, <1>5, <1>10, <1>12, <1>13, NamedEnterScopes

LEMMA EnterNamedScopes ==
  ASSUME TypeOK, LabelInv, NEW home, ScopeInv(home), LabelEnter \/ BlockEnter \/ SwitchEnter
  PROVE  ScopeInv(home)'
<1>1. PICK x \in Nat : x = Len(body) + 1
  BY BodyOwned
<1>2. PICK y \in Nat : y = x + 1
  OBVIOUS
<1>3. CASE LabelEnter
  <2>1. /\ Node.op = "label" /\ ~Entered /\ Enter(<<x>>) /\ ast' = ast
        /\ mapped' = [mapped EXCEPT ![Node.name] = x]
    BY <1>1, <1>3 DEF LabelEnter, Running, PushLabel
  <2>2. PICK bbs \in Seq(Nat) : bbs = <<x>> /\ Len(bbs) = 1 /\ bbs[1] = x
    BY OneOf
  <2>3. /\ Node.op \in Labelled \ {"loop"} /\ Node.op # "switch" /\ Len(bbs) > 0
        /\ bbs[IF Node.op # "label" THEN 2 ELSE 1] = x /\ Enter(bbs)
    BY <2>1, <2>2 DEF Labelled
  <2> QED
    BY <2>1, <2>3, EnterOneScopes
<1>4. CASE BlockEnter
  <2>1. /\ Node.op = "block" /\ ~Entered /\ Enter(<<x, y>>) /\ ast' = ast
        /\ mapped' = [mapped EXCEPT ![Node.name] = y]
    BY <1>1, <1>2, <1>4 DEF BlockEnter, Running, PushLabel
  <2>a. <<x, y>> \in Seq(Nat) /\ Len(<<x, y>>) = 2 /\ <<x, y>>[2] = y
    BY TwoOf
  <2>2. PICK bbs \in Seq(Nat) : bbs = <<x, y>> /\ Len(bbs) = 2 /\ bbs[2] = y
    BY <2>a
  <2>3. /\ Node.op \in Labelled \ {"loop"} /\ Node.op # "switch" /\ Len(bbs) > 0
        /\ bbs[IF Node.op # "label" THEN 2 ELSE 1] = y /\ Enter(bbs)
    BY <2>1, <2>2 DEF Labelled
  <2> QED
    BY <2>1, <2>3, EnterOneScopes
<1>5. CASE SwitchEnter
  <2>1. PICK c \in Nat : c = cur
    BY BodyOwned
  <2>2. /\ Node.op = "switch" /\ ~Entered /\ Enter(<<c, x>>) /\ ast' = ast
        /\ mapped' = [mapped EXCEPT ![Node.name] = x]
    BY <1>1, <1>5, <2>1 DEF SwitchEnter, Running, PushLabel
  <2>a. <<c, x>> \in Seq(Nat) /\ Len(<<c, x>>) = 2 /\ <<c, x>>[2] = x
    BY TwoOf
  <2>3. PICK bbs \in Seq(Nat) : bbs = <<c, x>> /\ Len(bbs) = 2 /\ bbs[2] = x
    BY <2>a
  <2>4. Len(Node.kids) \in Nat /\ Len(Node.kids) > 0
    <3>1. Arities("switch") = Nat \ {0}
      BY DEF Arities
    <3>2. Len(Node.kids) \in Arities("switch")
      BY <2>2, ArityOfTop
    <3> QED
      BY <3>1, <3>2
  <2>5. /\ Node.op \in Labelled \ {"loop"} /\ Len(bbs) > 0
        /\ ~(Len(bbs) >= Len(Node.kids) + 2)
        /\ bbs[IF Node.op # "label" THEN 2 ELSE 1] = x /\ Enter(bbs)
    BY <2>2, <2>3, <2>4 DEF Labelled
  <2> QED
    BY <2>2, <2>5, EnterOneScopes
<1> QED
  BY <1>3, <1>4, <1>5

-----------------------------------------------------------------------------
(***************************************************************************)
(* What GetLabel answers for a break is the block of the scope it means:   *)
(* by index because labels_ corresponds to the scopes, by name because     *)
(* each name of an open scope is mapped to the block of that scope.        *)
(***************************************************************************)
LEMMA GetLabelMeant ==
  ASSUME TypeOK, LabelInv, NEW home, ScopeInv(home), AllDiffer(home), IsBreak(Node),
         NEW m \in 1..Len(stack), m = Len(stack),
         NEW meant, meant = Meant(home[Top.n], Node), meant # {}
  PROVE  \E s \in meant : \E g \in 1..(m - 1) :
           stack[g].n = s.n /\ GetLabel(Node) = ScopeBlock(stack[g], s)
<1>1. Top = stack[m] /\ Len(stack) \in Nat /\ Node = ast[stack[m].n]
  BY FrameNode DEF Top, Node
<1>2. PICK c : c = home[stack[m].n]
  OBVIOUS
<1>3. /\ Len(c) = stack[m].base
      /\ \A i \in 1..Len(c) : \E g \in 1..(m - 1) : \E t \in 1..Len(OpenedBy(stack[g])) :
           c[i] = OpenedBy(stack[g])[t] /\ labels[i] = ScopeBlock(stack[g], c[i])
  <2>1. InScopes(home, m)
    BY AllInScopes DEF ScopeInv
  <2> QED
    BY <2>1, <1>2 DEF InScopes
<1>4. Len(c) \in Nat
  BY <1>2, HomeTyped DEF ScopeInv
<1>5. Len(labels) = Len(c)
  <2>1. Pushed(stack[m]) = <<>>
    BY <1>1, PushedNone DEF IsBreak
  <2>2. stack[m].base + Len(Pushed(stack[m])) = Len(labels)
    BY DEF LabelInv, LabelDiscipline
  <2> QED
    BY <2>1, <2>2, <1>3, <1>4
<1>6. meant = Meant(c, Node) /\ Node.depth \in Nat
  BY <1>1, <1>2, TopTyped DEF Nodes
<1>7. CASE Node.name = NoName
  <2>1. meant = {c[i] : i \in {Len(c) - Node.depth} \cap (1..Len(c))}
    BY <1>6, <1>7 DEF Meant
  <2>2. PICK i \in 1..Len(c) : i = Len(c) - Node.depth /\ c[i] \in meant
    BY <2>1
  <2>3. PICK g \in 1..(m - 1) : \E t \in 1..Len(OpenedBy(stack[g])) :
           c[i] = OpenedBy(stack[g])[t] /\ labels[i] = ScopeBlock(stack[g], c[i])
    BY <1>3
  <2>4. g \in 1..Len(stack)
    BY <1>1
  <2>5. c[i].n = stack[g].n
    BY <2>3, <2>4, OpenedTyped
  <2>6. GetLabel(Node) = labels[i]
    BY <2>2, <1>4, <1>5, <1>6, <1>7 DEF GetLabel
  <2> QED
    BY <2>2, <2>3, <2>5, <2>6
<1>8. CASE Node.name # NoName
  <2>1. PICK i \in 1..Len(c) : c[i].name = Node.name /\ c[i] \in meant
    BY <1>6, <1>8 DEF Meant
  <2>2. PICK g \in 1..(m - 1) : \E t \in 1..Len(OpenedBy(stack[g])) :
           c[i] = OpenedBy(stack[g])[t]
    BY <1>3
  <2>3. PICK t \in 1..Len(OpenedBy(stack[g])) : c[i] = OpenedBy(stack[g])[t]
    BY <2>2
  <2>4. g \in 1..Len(stack)
    BY <1>1
  <2>5. c[i].n = stack[g].n
    BY <2>3, <2>4, OpenedTyped
  <2>6. NamesMapped(g)
    BY <2>4 DEF ScopeInv
  <2>7. mapped[Node.name] = ScopeBlock(stack[g], c[i])
    BY <2>1, <2>3, <2>6, <1>8 DEF NamesMapped
  <2>8. GetLabel(Node) = mapped[Node.name]
    BY <1>8 DEF GetLabel
  <2> QED
    BY <2>1, <2>5, <2>7, <2>8
<1> QED
  BY <1>7, <1>8

LEMMA BreakTargetScopes ==
  ASSUME TypeOK, LabelInv, NEW home, ScopeInv(home), BreakTarget
  PROVE  ScopeInv(home)'
<1>1. CASE Crash
  BY <1>1, CrashScopes
<1>2. CASE ~Crash
  <2>1. /\ IsBreak(Node) /\ Enter(<<GetLabel(Node)>>) /\ GetLabel(Node) # 0
        /\ ast' = ast /\ mapped' = mapped
    BY <1>2 DEF BreakTarget, Running, IsBreak
  <2>2. PICK m \in Nat : m = Len(stack)
    BY TopTyped
  <2>3. PICK x \in Nat : x = GetLabel(Node)
    <3>1. GetLabel(Node) \in 1..Len(body)
      BY <2>1, GetLabelTyped DEF IsBreak
    <3> QED
      BY <3>1, BodyOwned
  <2>4. <<x>> \in Seq(Nat) /\ <<x>>[1] = x
    OBVIOUS
  <2>5. Enter(<<x>>)
    BY <2>1, <2>3
  <2>6. /\ Len(stack') = m
        /\ \A j \in 1..(m - 1) : stack'[j].n = stack[j].n /\ stack'[j].bbs = stack[j].bbs
        /\ stack'[m].n = stack[m].n /\ stack'[m].bbs = <<x>>
        /\ m \in 1..Len(stack) /\ Top = stack[m]
    BY <2>2, <2>4, <2>5, EnterShape, ZenonT(60)
  <2>7. /\ Node = ast[stack[m].n] /\ ast'[stack'[m].n] = Node /\ stack'[m].bbs[1] = x
        /\ Top.n = stack[m].n
    BY <2>1, <2>4, <2>6 DEF Node
  <2>8. KeepsNames /\ Len(ast') = Len(ast)
    BY <2>1, NamesKept
  <2>9. ASSUME AllDiffer(home) PROVE JumpsHome(home, m)'
    <3>1. PICK meant : meant = Meant(home[stack[m].n], Node)
      OBVIOUS
    <3>2. ASSUME meant # {} PROVE ReachesOneOf(meant, m)'
      <4>1. PICK s \in meant : \E g \in 1..(m - 1) :
               stack[g].n = s.n /\ GetLabel(Node) = ScopeBlock(stack[g], s)
        BY <2>1, <2>2, <2>6, <2>7, <2>9, <3>1, <3>2, GetLabelMeant, ZenonT(60)
      <4>2. PICK g \in 1..(m - 1) : stack[g].n = s.n /\ GetLabel(Node) = ScopeBlock(stack[g], s)
        BY <4>1
      <4>3. g \in 1..Len(stack) /\ stack'[g].n = stack[g].n /\ stack'[g].bbs = stack[g].bbs
        BY <2>2, <2>6
      <4>4. ScopeBlock(stack[g], s)' = ScopeBlock(stack[g], s)
        BY <2>8, <4>3, BlockSame
      <4> QED
        BY <2>3, <2>7, <4>2, <4>3, <4>4 DEF ReachesOneOf
    <3>3. meant = Meant(home[stack'[m].n], ast'[stack'[m].n])
      BY <2>6, <2>7, <3>1
    <3> QED
      BY <3>2, <3>3 DEF JumpsHome
  <2>10. ASSUME AllDiffer(home), NEW j \in 1..m PROVE NamesMapped(j)'
    <3>1. j \in 1..Len(stack) /\ NamesMapped(j)
      BY <2>2, <2>10 DEF ScopeInv
    <3>2. CASE j = m
      <4>1. OpenedBy(stack[m])' = <<>>
        BY <2>1, <2>6, <2>7 DEF OpenedBy, OwnScopes, Labelled, IsBreak
      <4> QED
        BY <3>2, <4>1 DEF NamesMapped
    <3>3. CASE j # m
      <4>1. stack'[j].n = stack[j].n /\ stack'[j].bbs = stack[j].bbs
        BY <3>3, <2>6
      <4> QED
        BY <2>1, <2>8, <3>1, <4>1, MappedSame
    <3> QED
      BY <3>2, <3>3
  <2>11. Written' /\ OwnSelector' /\ IsHome(home)' /\ (AllDiffer(home)' => AllDiffer(home))
    BY <2>8, SameTree DEF ScopeInv
  <2>12. /\ m <= Len(stack') /\ Len(stack') <= m + 1 /\ Len(stack') \in Nat
         /\ ~(Len(stack') = m + 1) /\ home[stack'[m].n] = home[stack[m].n]
    BY <2>6
  <2> QED
    BY <2>6, <2>8, <2>9, <2>10, <2>11, <2>12, ScopesStep
<1> QED
  BY <1>1, <1>2

-----------------------------------------------------------------------------
(***************************************************************************)
(* HandleDivRem: the nodes it makes open no scope, and refer to each other *)
(* and to the operands of the operation they replace, so they are in its   *)
(* scopes.                                                                 *)
(***************************************************************************)
LEMMA DivRemNodes ==
  ASSUME TypeOK, HandleDivRem, NEW m \in Nat, m = Len(ast)
  PROVE  /\ Node.op = "divrem" /\ Len(Node.kids) \in Nat
         /\ Len(ast') = m + 9
         /\ \A n \in 1..m : ast'[n] = ast[n]
         /\ \A n \in (m + 1)..(m + 9) :
              /\ ast'[n].op \in Made
              /\ Len(ast'[n].kids) \in Nat
              /\ \A i \in 1..Len(ast'[n].kids) :
                   \/ ast'[n].kids[i] \in (m + 1)..(n - 1)
                   \/ \E k \in 1..Len(Node.kids) : ast'[n].kids[i] = Node.kids[k]
<1> DEFINE l == Node.kids[1]
           r == Node.kids[2]
           new == << NewNode("const", <<>>), NewNode("cmp", <<l, m + 1>>),
                     NewNode("const", <<>>), NewNode("bin", <<l, r>>),
                     NewNode("if", <<m + 2, m + 3, m + 4>>),
                     NewNode("const", <<>>), NewNode("cmp", <<r, m + 6>>),
                     NewNode("bin", <<l, r>>), NewNode("if", <<m + 7, m + 5, m + 8>>) >>
<1>1. Node.op = "divrem" /\ ast' = ast \o new
  BY DEF HandleDivRem, Running
<1>2. 1 \in 1..Len(Node.kids) /\ 2 \in 1..Len(Node.kids) /\ Len(Node.kids) \in Nat
  <2>1. Len(Node.kids) >= 2
    <3>1. \A k \in Arities("divrem") : k >= 2
      BY DEF Arities
    <3> QED
      BY <3>1, <1>1, ArityOfTop
  <2>2. Node.kids \in Seq(Nat)
    BY TopTyped DEF Nodes
  <2> QED
    BY <2>1, <2>2
<1>3. l \in Nat /\ r \in Nat
  BY <1>2, TopTyped DEF Nodes
<1> DEFINE Shared == {Node.kids[k] : k \in 1..Len(Node.kids)}
           Good(x, n) == /\ x.op \in Made /\ Len(x.kids) \in Nat
                         /\ \A i \in 1..Len(x.kids) : x.kids[i] \in Shared \cup (m + 1)..(n - 1)
<1>4. l \in Shared /\ r \in Shared
  BY <1>2
<1> HIDE DEF l, r, Shared
<1>5. \A n : Good(NewNode("const", <<>>), n)
  BY DEF NewNode, Made
<1>6. ASSUME NEW op \in {"cmp", "bin"}, NEW n \in Nat, NEW x, NEW y,
             x \in Shared \cup (m + 1)..(n - 1), y \in Shared \cup (m + 1)..(n - 1)
      PROVE  Good(NewNode(op, <<x, y>>), n)
  <2>1. \A i \in 1..2 : <<x, y>>[i] \in {x, y}
    OBVIOUS
  <2> QED
    BY <1>6, <2>1 DEF NewNode, Made
<1>7. ASSUME NEW n \in Nat, NEW x, NEW y, NEW z, x \in (m + 1)..(n - 1),
             y \in (m + 1)..(n - 1), z \in (m + 1)..(n - 1)
      PROVE  Good(NewNode("if", <<x, y, z>>), n)
  <2>1. \A i \in 1..3 : <<x, y, z>>[i] \in {x, y, z}
    OBVIOUS
  <2> QED
    BY <1>7, <2>1 DEF NewNode, Made
<1>8. /\ Good(NewNode("cmp", <<l, m + 1>>), m + 2) /\ Good(NewNode("bin", <<l, r>>), m + 4)
      /\ Good(NewNode("cmp", <<r, m + 6>>), m + 7) /\ Good(NewNode("bin", <<l, r>>), m + 8)
      /\ Good(NewNode("if", <<m + 2, m + 3, m + 4>>), m + 5)
      /\ Good(NewNode("if", <<m + 7, m + 5, m + 8>>), m + 9)
  <2>1. /\ m + 1 \in (m + 1)..((m + 2) - 1) /\ m + 6 \in (m + 1)..((m + 7) - 1)
        /\ m + 2 \in (m + 1)..((m + 5) - 1) /\ m + 3 \in (m + 1)..((m + 5) - 1)
        /\ m + 4 \in (m + 1)..((m + 5) - 1) /\ m + 7 \in (m + 1)..((m + 9) - 1)
        /\ m + 5 \in (m + 1)..((m + 9) - 1) /\ m + 8 \in (m + 1)..((m + 9) - 1)
        /\ m + 2 \in Nat /\ m + 4 \in Nat /\ m + 5 \in Nat /\ m + 7 \in Nat
        /\ m + 8 \in Nat /\ m + 9 \in Nat
    OBVIOUS
  <2>2. /\ Good(NewNode("cmp", <<l, m + 1>>), m + 2) /\ Good(NewNode("bin", <<l, r>>), m + 4)
        /\ Good(NewNode("cmp", <<r, m + 6>>), m + 7) /\ Good(NewNode("bin", <<l, r>>), m + 8)
    <3> HIDE DEF Good, NewNode
    <3> QED
      BY <2>1, <1>4, <1>6
  <2>3. /\ Good(NewNode("if", <<m + 2, m + 3, m + 4>>), m + 5)
        /\ Good(NewNode("if", <<m + 7, m + 5, m + 8>>), m + 9)
    <3> HIDE DEF Good, NewNode
    <3> QED
      BY <2>1, <1>7
  <2> QED
    BY <2>2, <2>3
<1>9. Len(new) = 9 /\ \A i \in 1..9 : Good(new[i], m + i)
  <2> HIDE DEF Good, NewNode
  <2>1. /\ new[1] = NewNode("const", <<>>) /\ new[2] = NewNode("cmp", <<l, m + 1>>)
        /\ new[3] = NewNode("const", <<>>) /\ new[4] = NewNode("bin", <<l, r>>)
        /\ new[5] = NewNode("if", <<m + 2, m + 3, m + 4>>) /\ new[6] = NewNode("const", <<>>)
        /\ new[7] = NewNode("cmp", <<r, m + 6>>) /\ new[8] = NewNode("bin", <<l, r>>)
        /\ new[9] = NewNode("if", <<m + 7, m + 5, m + 8>>) /\ Len(new) = 9
    OBVIOUS
  <2>2. \A i \in 1..9 : i \in {1, 2, 3, 4, 5, 6, 7, 8, 9}
    OBVIOUS
  <2> HIDE DEF new
  <2>3. ASSUME NEW i \in {1, 2, 3, 4, 5, 6, 7, 8, 9} PROVE Good(new[i], m + i)
    BY <2>1, <1>5, <1>8
  <2> QED
    BY <2>1, <2>2, <2>3
<1>10. /\ Len(ast') = m + 9 /\ \A n \in 1..m : ast'[n] = ast[n]
       /\ \A i \in 1..9 : ast'[m + i] = new[i]
  <2>1. PICK q : q = new
    OBVIOUS
  <2>2. q \in Seq({q[i] : i \in 1..9}) /\ Len(q) = 9 /\ ast' = ast \o q
    <3>1. new \in Seq({new[i] : i \in 1..9}) /\ Len(new) = 9
      OBVIOUS
    <3> QED
      BY <2>1, <3>1, <1>1
  <2>3. ast \in Seq(Nodes)
    BY DEF TypeOK, AstOK
  <2> HIDE DEF new
  <2>4. /\ Len(ast \o q) = Len(ast) + Len(q)
        /\ \A i \in 1..Len(ast) : (ast \o q)[i] = ast[i]
        /\ \A i \in 1..Len(q) : (ast \o q)[Len(ast) + i] = q[i]
    <3> DEFINE T == Nodes \cup {q[i] : i \in 1..9}
    <3>1. ast \in Seq(T) /\ q \in Seq(T)
      BY <2>2, <2>3
    <3> HIDE DEF T
    <3> QED
      BY <3>1, ConcatTyped
  <2> QED
    BY <2>1, <2>2, <2>4
<1> HIDE DEF new
<1>11. ASSUME NEW n \in (m + 1)..(m + 9) PROVE Good(ast'[n], n)
  <2>1. n - m \in 1..9 /\ m + (n - m) = n
    OBVIOUS
  <2> HIDE DEF Good
  <2> QED
    BY <2>1, <1>9, <1>10
<1>12. ASSUME NEW n \in (m + 1)..(m + 9)
       PROVE  /\ ast'[n].op \in Made
              /\ Len(ast'[n].kids) \in Nat
              /\ \A i \in 1..Len(ast'[n].kids) :
                   \/ ast'[n].kids[i] \in (m + 1)..(n - 1)
                   \/ \E k \in 1..Len(Node.kids) : ast'[n].kids[i] = Node.kids[k]
  <2>1. Good(ast'[n], n)
    BY <1>11
  <2>2. \A x \in Shared : \E k \in 1..Len(Node.kids) : x = Node.kids[k]
    BY DEF Shared
  <2> QED
    BY <2>1, <2>2
<1> HIDE DEF Good
<1> QED
  BY <1>1, <1>2, <1>10, <1>12

LEMMA HandleDivRemScopes ==
  ASSUME TypeOK, NEW home, ScopeInv(home), HandleDivRem
  PROVE  \E g : ScopeInv(g)'
<1>1. PICK m \in Nat : m = Len(ast)
  BY BodyOwned
<1>2. /\ Node.op = "divrem" /\ Len(Node.kids) \in Nat /\ Len(ast') = m + 9
      /\ \A n \in 1..m : ast'[n] = ast[n]
      /\ \A n \in (m + 1)..(m + 9) :
           /\ ast'[n].op \in Made /\ Len(ast'[n].kids) \in Nat
           /\ \A i \in 1..Len(ast'[n].kids) :
                \/ ast'[n].kids[i] \in (m + 1)..(n - 1)
                \/ \E k \in 1..Len(Node.kids) : ast'[n].kids[i] = Node.kids[k]
  BY <1>1, DivRemNodes
<1>3. PICK p \in 1..m : p = Top.n
  BY <1>1, TopTyped
<1>4. Node = ast[p]
  BY <1>3 DEF Node
<1> DEFINE g == [n \in 1..(m + 9) |-> IF n <= m THEN home[n] ELSE home[p]]
<1>5. home \in [1..m -> Seq(AllScopes)]
  BY <1>1 DEF ScopeInv, IsHome
<1>6. /\ g \in [1..(m + 9) -> Seq(AllScopes)]
      /\ \A n \in 1..m : g[n] = home[n]
      /\ \A n \in (m + 1)..(m + 9) : g[n] = home[p]
  BY <1>5
<1> HIDE DEF g
<1>7. \A n \in 1..m : \A i \in 1..Len(ast[n].kids) : ast[n].kids[i] \in 1..m
  BY <1>1 DEF TypeOK, AstOK
<1>8. \A n \in 1..m : \A i \in 1..Len(ast[n].kids) :
        home[ast[n].kids[i]] = home[n] \o Opens(ast, n, ast[n].kids[i])
  BY <1>1 DEF ScopeInv, IsHome
<1>9. \A n \in 1..(m + 9) : n \in 1..m \/ n \in (m + 1)..(m + 9)
  OBVIOUS
<1>10. KeepsNames
  BY <1>1, <1>2 DEF KeepsNames
<1>11. \A n \in (m + 1)..(m + 9) : \A k : OwnScopes(ast', n) = <<>> /\ Opens(ast', n, k) = <<>>
  BY <1>2 DEF OwnScopes, Opens, Labelled, Made
<1>12. Written'
  <2>1. ASSUME NEW n \in 2..(m + 9)
        PROVE  \/ HasParent(ast', n)
               \/ ast'[n].op \in Made /\ \A i \in 1..Len(ast'[n].kids) : ast'[n].kids[i] < n
    <3>1. CASE n \in 1..m
      <4>1. CASE HasParent(ast, n)
        <5>1. PICK q \in 1..(n - 1) : \E i \in 1..Len(ast[q].kids) : ast[q].kids[i] = n
          BY <4>1 DEF HasParent
        <5>2. ast'[q] = ast[q]
          BY <3>1, <1>2
        <5> QED
          BY <5>1, <5>2 DEF HasParent
      <4>2. CASE ~HasParent(ast, n)
        <5>1. ast[n].op \in Made /\ \A i \in 1..Len(ast[n].kids) : ast[n].kids[i] < n
          BY <3>1, <4>2, <1>1 DEF ScopeInv, Written
        <5> QED
          BY <3>1, <5>1, <1>2
      <4> QED
        BY <4>1, <4>2
    <3>2. CASE n \in (m + 1)..(m + 9)
      <4>1. ASSUME NEW i \in 1..Len(ast'[n].kids) PROVE ast'[n].kids[i] < n
        <5>1. CASE ast'[n].kids[i] \in (m + 1)..(n - 1)
          BY <5>1
        <5>2. CASE \E k \in 1..Len(Node.kids) : ast'[n].kids[i] = Node.kids[k]
          <6>1. ast'[n].kids[i] \in 1..m
            BY <5>2, <1>4, <1>7
          <6> QED
            BY <6>1, <3>2
        <5> QED
          BY <3>2, <5>1, <5>2, <1>2
      <4> QED
        BY <3>2, <4>1, <1>2
    <3> QED
      BY <3>1, <3>2, <1>9
  <2> QED
    BY <2>1, <1>2 DEF Written
<1>13. OwnSelector'
  <2>1. ASSUME NEW n \in 1..(m + 9), ast'[n].op = "switch"
        PROVE  \A i \in 1..Len(ast'[n].kids) :
                 ast'[n].kids[i] = ast'[n].kids[Len(ast'[n].kids)] => i = Len(ast'[n].kids)
    <3>1. n \in 1..m
      BY <2>1, <1>2, <1>9 DEF Made
    <3> QED
      BY <2>1, <3>1, <1>1, <1>2 DEF ScopeInv, OwnSelector
  <2> QED
    BY <2>1, <1>2 DEF OwnSelector
<1>14. IsHome(g)'
  <2>1. ASSUME NEW n \in 1..(m + 9), NEW i \in 1..Len(ast'[n].kids)
        PROVE  g[ast'[n].kids[i]] = g[n] \o Opens(ast', n, ast'[n].kids[i])
    <3>1. CASE n \in 1..m
      <4>1. Opens(ast', n, ast[n].kids[i]) = Opens(ast, n, ast[n].kids[i])
        BY <3>1, <1>2 DEF Opens, OwnScopes
      <4>2. ast'[n] = ast[n] /\ i \in 1..Len(ast[n].kids)
        BY <3>1, <1>2
      <4>3. PICK k : k = ast[n].kids[i]
        OBVIOUS
      <4>4. k \in 1..m /\ home[k] = home[n] \o Opens(ast, n, k)
        BY <3>1, <4>2, <4>3, <1>7, <1>8
      <4>5. g[k] = home[k] /\ g[n] = home[n]
        BY <3>1, <4>4, <1>6
      <4> QED
        BY <4>1, <4>2, <4>3, <4>4, <4>5
    <3>2. CASE n \in (m + 1)..(m + 9)
      <4>1. g[n] \o Opens(ast', n, ast'[n].kids[i]) = home[p]
        <5>1. home[p] \o <<>> = home[p]
          BY <1>5
        <5> QED
          BY <3>2, <5>1, <1>6, <1>11
      <4>2. CASE ast'[n].kids[i] \in (m + 1)..(n - 1)
        <5>1. ast'[n].kids[i] \in (m + 1)..(m + 9)
          BY <4>2, <3>2
        <5> QED
          BY <4>1, <5>1, <1>6
      <4>3. CASE \E k \in 1..Len(Node.kids) : ast'[n].kids[i] = Node.kids[k]
        <5>1. PICK k \in 1..Len(ast[p].kids) : ast'[n].kids[i] = ast[p].kids[k]
          BY <4>3, <1>4
        <5>2. home[ast[p].kids[k]] = home[p] \o Opens(ast, p, ast[p].kids[k])
          BY <1>8
        <5>3. Opens(ast, p, ast[p].kids[k]) = <<>> /\ home[p] \o <<>> = home[p]
          BY <1>2, <1>4, <1>5 DEF Opens, OwnScopes, Labelled
        <5>4. ast[p].kids[k] \in 1..m
          BY <1>7
        <5> QED
          BY <4>1, <5>1, <5>2, <5>3, <5>4, <1>6
      <4> QED
        BY <3>2, <4>2, <4>3, <1>2
    <3> QED
      BY <3>1, <3>2, <1>9
  <2>2. g[1] = <<>>
    BY <1>3, <1>6 DEF ScopeInv, IsHome
  <2> QED
    BY <2>1, <2>2, <1>2, <1>6 DEF IsHome
<1>15. AllDiffer(g)' => AllDiffer(home)
  <2> SUFFICES ASSUME AllDiffer(g)', NEW n \in 1..m, ast[n].op \in Labelled
               PROVE  NamesDiffer(home[n] \o OwnScopes(ast, n))
    BY <1>1 DEF AllDiffer
  <2>1. n \in 1..Len(ast') /\ ast'[n] = ast[n] /\ g[n] = home[n]
    BY <1>2, <1>6
  <2>2. OwnScopes(ast', n) = OwnScopes(ast, n)
    BY <2>1 DEF OwnScopes
  <2>3. NamesDiffer(g[n] \o OwnScopes(ast', n))
    BY <2>1 DEF AllDiffer
  <2> QED
    BY <2>1, <2>2, <2>3
<1>16. PICK d \in Nat : d = Len(stack)
  BY TopTyped
<1> DEFINE f == [Top EXCEPT !.n = m + 9]
<1>17. f \in Frames /\ f.n = m + 9 /\ f.bbs = Top.bbs
  <2>1. Top \in Frames /\ m + 9 \in Nat
    BY TopTyped
  <2> QED
    BY <2>1 DEF Frames
<1>18. stack' = [stack EXCEPT ![d] = f] /\ mapped' = mapped
  BY <1>1, <1>16 DEF HandleDivRem, Top
<1> HIDE DEF f
<1>19. /\ d \in 1..Len(stack) /\ Top = stack[d] /\ Len(stack') = d
       /\ \A j \in 1..d : stack'[j] = IF j = d THEN f ELSE stack[j]
  <2>1. stack \in Seq(Frames) /\ d \in 1..Len(stack) /\ Top = stack[d]
    BY <1>16, TopTyped DEF TypeOK, StackOK, Top
  <2> QED
    BY <2>1, <1>16, <1>17, <1>18, ExceptTyped
<1>20. /\ \A j \in 1..(d - 1) : stack'[j].n = stack[j].n /\ stack'[j].bbs = stack[j].bbs
       /\ stack'[d].n = m + 9 /\ stack[d].n = p
  BY <1>3, <1>17, <1>19
<1>21. g[stack'[d].n] = home[stack[d].n]
  BY <1>6, <1>20
<1>22. ast'[stack'[d].n].op \in Made
  BY <1>2, <1>20
<1>23. ASSUME AllDiffer(home) PROVE JumpsHome(g, d)' /\ \A j \in 1..d : NamesMapped(j)'
  <2>1. JumpsHome(g, d)'
    BY <1>22 DEF JumpsHome, IsBreak, Made
  <2>2. OpenedBy(stack[d])' = <<>>
    BY <1>22 DEF OpenedBy, OwnScopes, Labelled, Made
  <2>3. ASSUME NEW j \in 1..d PROVE NamesMapped(j)'
    <3>1. CASE j = d
      BY <2>2, <3>1 DEF NamesMapped
    <3>2. CASE j # d
      <4>1. /\ j \in 1..Len(stack) /\ stack'[j].n = stack[j].n /\ stack'[j].bbs = stack[j].bbs
        BY <3>2, <1>16, <1>20
      <4>2. NamesMapped(j)
        BY <4>1, <1>23 DEF ScopeInv
      <4> QED
        BY <4>1, <4>2, <1>10, <1>18, MappedSame
    <3> QED
      BY <3>1, <3>2
  <2> QED
    BY <2>1, <2>3
<1>24. /\ d <= Len(stack') /\ Len(stack') <= d + 1 /\ Len(stack') \in Nat
       /\ ~(Len(stack') = d + 1) /\ \A n \in 1..Len(ast) : g[n] = home[n]
  BY <1>1, <1>6, <1>19
<1>25. ScopeInv(g)'
  BY <1>10, <1>12, <1>13, <1>14, <1>15, <1>19, <1>20, <1>21, <1>23, <1>24, ScopesStep
<1> QED
  BY <1>25

LEMMA NextScopes ==
  ASSUME TypeOK, LabelInv, NEW home, ScopeInv(home), [Next]_vars
  PROVE  \E g : ScopeInv(g)'
<1>1. CASE HandleDivRem
  BY <1>1, HandleDivRemScopes
<1>2. CASE BreakTarget
  BY <1>2, BreakTargetScopes
<1>3. CASE LabelEnter \/ BlockEnter \/ SwitchEnter \/ LoopEnter
  BY <1>3, EnterNamedScopes, LoopEnterScopes
<1>4. CASE LabelExit \/ LoopExit \/ BlockExit
  BY <1>4, ExitNamedScopes
<1>5. CASE GenBreak \/ GenBreakIf
  BY <1>5, GenBreakScopes
<1>6. CASE \/ GenConst \/ GenGetLocal \/ GenUnreachable \/ GenSetLocal \/ GenCall \/ GenBinop
           \/ GenSelect \/ GenReturn
  BY <1>6, StraightScopes
<1>7. CASE NextOperand
  BY <1>7, NextOperandScopes
<1>8. CASE IfCondition \/ IfTrueSide \/ IfFalseSide \/ IfMerge
  BY <1>8, IfScopes
<1>9. CASE SwitchCase \/ SwitchBreak \/ SwitchSelector \/ SwitchExit \/ SwitchFallOut
           \/ SwitchRenamed
  BY <1>9, SwitchCaseScopes, SwitchBreakScopes, SwitchSelectorScopes, SwitchExitScopes,
     SwitchFallOutScopes, SwitchRenamedScopes
<1>10. CASE RunPasses \/ GenCase \/ FunctionEnd \/ Verify \/ UNCHANGED vars
  BY <1>10, StillScopes
<1>11. CASE Terminated
  BY <1>11, StillScopes DEF Terminated
<1> QED
  BY <1>1, <1>2, <1>3, <1>4, <1>5, <1>6, <1>7, <1>8, <1>9, <1>10, <1>11 DEF Next, Step

-----------------------------------------------------------------------------
(***************************************************************************)
(* The initial states: the scopes of the nodes of a tree, from the         *)
(* function downwards.                                                     *)
(***************************************************************************)
HomeUpTo(h, k) ==
  /\ h \in [1..k -> Seq(AllScopes)]
  /\ h[1] = <<>>
  /\ \A n \in 1..k : \A p \in 1..(n - 1) : \A i \in 1..Len(ast[p].kids) :
       ast[p].kids[i] = n => h[n] = h[p] \o Opens(ast, p, n)

LEMMA ParsedTree ==
  ASSUME Init
  PROVE  /\ \A n \in 1..Len(ast) : \A i \in 1..Len(ast[n].kids) :
              ast[n].kids[i] \in (n + 1)..Len(ast)
         /\ \A p, q \in 1..Len(ast) : \A i \in 1..Len(ast[p].kids), j \in 1..Len(ast[q].kids) :
              ast[p].kids[i] = ast[q].kids[j] => p = q /\ i = j
         /\ \A k \in 2..Len(ast) : HasParent(ast, k)
<1>1. IsParsed(ast) /\ IsTree(ast)
  BY DEF Init, IsParsed
<1>2. \A n \in 1..Len(ast) : \A i \in 1..Len(ast[n].kids) :
        ast[n].kids[i] \in (n + 1)..Len(ast)
  BY <1>1 DEF IsParsed
<1>3. \A p, q \in 1..Len(ast) : \A i \in 1..Len(ast[p].kids), j \in 1..Len(ast[q].kids) :
        ast[p].kids[i] = ast[q].kids[j] => p = q /\ i = j
  BY <1>1 DEF IsTree
<1>4. ASSUME NEW k \in 2..Len(ast) PROVE HasParent(ast, k)
  <2>1. PICK p \in 1..Len(ast) : \E i \in 1..Len(ast[p].kids) : ast[p].kids[i] = k
    BY <1>1 DEF IsTree
  <2>2. k \in (p + 1)..Len(ast)
    BY <2>1, <1>2
  <2>3. p \in 1..(k - 1)
    BY <2>2
  <2> QED
    BY <2>1, <2>3 DEF HasParent
<1> QED
  BY <1>2, <1>3, <1>4

LEMMA OneMoreHome ==
  ASSUME Init, TypeOK, NEW k \in Nat, k > 0, k + 1 \in 1..Len(ast), NEW h, HomeUpTo(h, k)
  PROVE  \E g : HomeUpTo(g, k + 1)
<1>1. PICK p \in 1..k : \E i \in 1..Len(ast[p].kids) : ast[p].kids[i] = k + 1
  <2>1. HasParent(ast, k + 1)
    <3>1. k + 1 \in 2..Len(ast)
      OBVIOUS
    <3> QED
      BY <3>1, ParsedTree
  <2>2. (k + 1) - 1 = k
    OBVIOUS
  <2> QED
    BY <2>1, <2>2 DEF HasParent
<1>2. p \in 1..Len(ast) /\ 1..k \subseteq 1..Len(ast)
  BY NodeTyped
<1>3. PICK new \in Seq(AllScopes) : new = Opens(ast, p, k + 1)
  <2>1. OwnScopes(ast, p) \in Seq(AllScopes)
    BY <1>2, OwnTyped
  <2>2. <<>> \in Seq(AllScopes)
    OBVIOUS
  <2> QED
    BY <2>1, <2>2 DEF Opens
<1>4. h[p] \in Seq(AllScopes)
  BY DEF HomeUpTo
<1> DEFINE g == [x \in 1..(k + 1) |-> IF x <= k THEN h[x] ELSE h[p] \o new]
<1>5. /\ g \in [1..(k + 1) -> Seq(AllScopes)]
      /\ \A x \in 1..k : g[x] = h[x]
      /\ g[k + 1] = h[p] \o new
  <2>1. h[p] \o new \in Seq(AllScopes)
    BY <1>4, ConcatTyped
  <2> QED
    BY <2>1 DEF HomeUpTo
<1> HIDE DEF g
<1>6. ASSUME NEW n \in 1..(k + 1), NEW q \in 1..(n - 1), NEW i \in 1..Len(ast[q].kids),
             ast[q].kids[i] = n
      PROVE  g[n] = g[q] \o Opens(ast, q, n)
  <2>1. CASE n = k + 1
    <3>1. q \in 1..Len(ast) /\ q \in 1..k
      BY <2>1, <1>2
    <3>2. q = p
      BY <2>1, <3>1, <1>1, <1>2, <1>6, ParsedTree
    <3> QED
      BY <2>1, <3>2, <1>3, <1>5
  <2>2. CASE n # k + 1
    <3>1. n \in 1..k /\ q \in 1..k
      BY <2>2
    <3>2. h[n] = h[q] \o Opens(ast, q, n)
      BY <3>1, <1>6 DEF HomeUpTo
    <3> QED
      BY <3>1, <3>2, <1>5
  <2> QED
    BY <2>1, <2>2
<1>7. g[1] = <<>>
  BY <1>5 DEF HomeUpTo
<1> QED
  BY <1>5, <1>6, <1>7 DEF HomeUpTo

LEMMA InitScopes ==
  ASSUME Init
  PROVE  \E home : ScopeInv(home)
<1>1. TypeOK
  BY InitTyped
<1>2. PICK m \in Nat : m = Len(ast) /\ m > 0
  BY <1>1 DEF TypeOK, AstOK
<1> DEFINE S == {k \in 1..m : \E h : HomeUpTo(h, k)}
<1>3. ASSUME NEW k \in 1..m, \A j \in 1..(k - 1) : j \in S PROVE k \in S
  <2>1. CASE k = 1
    <3> DEFINE h == [x \in 1..1 |-> <<>>]
    <3>1. h \in [1..1 -> Seq(AllScopes)] /\ h[1] = <<>>
      OBVIOUS
    <3>2. \A n \in 1..1 : ~ \E p \in 1..(n - 1) : TRUE
      OBVIOUS
    <3> HIDE DEF h
    <3>3. HomeUpTo(h, 1)
      BY <3>1, <3>2 DEF HomeUpTo
    <3> QED
      BY <2>1, <3>3
  <2>2. CASE k # 1
    <3>1. PICK j \in Nat : j > 0 /\ j + 1 = k
      <4>1. k - 1 \in Nat /\ k - 1 > 0 /\ (k - 1) + 1 = k
        BY <2>2
      <4> QED
        BY <4>1
    <3>2. PICK h : HomeUpTo(h, j)
      <4>1. j \in 1..(k - 1)
        BY <3>1
      <4> QED
        BY <4>1, <1>3
    <3>3. \E g : HomeUpTo(g, j + 1)
      BY <1>1, <1>2, <3>1, <3>2, OneMoreHome
    <3> QED
      BY <3>1, <3>3
  <2> QED
    BY <2>1, <2>2
<1>4. S \in SUBSET 1..m
  OBVIOUS
<1>5. m \in S
  <2> HIDE DEF S
  <2>1. S = 1..m
    BY <1>3, <1>4, AllUpTo
  <2> QED
    BY <1>2, <2>1
<1>6. PICK home : HomeUpTo(home, m)
  BY <1>5
<1>7. IsHome(home)
  <2>1. ASSUME NEW n \in 1..m, NEW i \in 1..Len(ast[n].kids)
        PROVE  home[ast[n].kids[i]] = home[n] \o Opens(ast, n, ast[n].kids[i])
    <3>1. PICK k \in (n + 1)..m : k = ast[n].kids[i]
      BY <1>2, ParsedTree
    <3>2. k \in 1..m /\ n \in 1..(k - 1)
      OBVIOUS
    <3> QED
      BY <3>1, <3>2, <1>6 DEF HomeUpTo
  <2> QED
    BY <2>1, <1>2, <1>6 DEF IsHome, HomeUpTo
<1>8. Written
  BY ParsedTree DEF Written
<1>9. OwnSelector
  <2>1. ASSUME NEW n \in 1..m, NEW i \in 1..Len(ast[n].kids),
               ast[n].kids[i] = ast[n].kids[Len(ast[n].kids)]
        PROVE  i = Len(ast[n].kids)
    <3>1. PICK j \in 1..Len(ast[n].kids) : j = Len(ast[n].kids)
      BY <1>1, <1>2, NodeTyped
    <3>2. \A x, y \in 1..Len(ast[n].kids) : ast[n].kids[x] = ast[n].kids[y] => x = y
      BY <1>2, ParsedTree
    <3>3. ast[n].kids[i] = ast[n].kids[j]
      BY <2>1, <3>1
    <3> QED
      BY <3>1, <3>2, <3>3
  <2> QED
    BY <2>1, <1>2 DEF OwnSelector
<1>10. stack = <<Frame(1, 0)>> /\ Frame(1, 0).bbs = <<>>
  BY DEF Init, Frame
<1> HIDE DEF Frame
<1>11. Len(stack) = 1 /\ stack[1].bbs = <<>>
  BY <1>10
<1>12. OnStack(home)
  BY <1>11 DEF OnStack
<1>13. NamesMapped(1) /\ JumpsHome(home, 1)
  <2>1. OpenedBy(stack[1]) = <<>>
    BY <1>11 DEF OpenedBy
  <2> QED
    BY <2>1, <1>11 DEF NamesMapped, JumpsHome
<1>14. \A j \in 1..Len(stack) : j = 1
  BY <1>11
<1> QED
  BY <1>7, <1>8, <1>9, <1>12, <1>13, <1>14 DEF ScopeInv

-----------------------------------------------------------------------------
(***************************************************************************)
(* For an expression of the program home is ScopesAt: the only function    *)
(* that follows the parents.                                               *)
(***************************************************************************)
FollowsParents(f) ==
  f = [k \in 1..Len(ast) |->
         IF ~HasParent(ast, k) THEN <<>>
         ELSE LET p == ParentOf(ast, k) IN f[p] \o Opens(ast, p, k)]

LEMMA ParentHas ==
  ASSUME NEW k \in Nat, HasParent(ast, k)
  PROVE  LET p == ParentOf(ast, k)
         IN p \in 1..(k - 1) /\ \E i \in 1..Len(ast[p].kids) : ast[p].kids[i] = k
BY DEF HasParent, ParentOf

LEMMA OneFollows ==
  ASSUME TypeOK, NEW f, NEW g, FollowsParents(f), FollowsParents(g), NEW k \in 1..Len(ast)
  PROVE  f[k] = g[k]
<1>1. PICK m \in Nat : m = Len(ast)
  BY NodeTyped
<1> DEFINE S == {x \in 1..m : f[x] = g[x]}
<1>2. ASSUME NEW x \in 1..m, \A j \in 1..(x - 1) : j \in S PROVE x \in S
  <2>1. CASE ~HasParent(ast, x)
    <3>1. f[x] = <<>> /\ g[x] = <<>>
      BY <2>1, <1>1 DEF FollowsParents
    <3> QED
      BY <3>1
  <2>2. CASE HasParent(ast, x)
    <3>1. PICK p \in 1..(x - 1) : p = ParentOf(ast, x)
      BY <2>2, ParentHas
    <3>2. f[x] = f[p] \o Opens(ast, p, x) /\ g[x] = g[p] \o Opens(ast, p, x)
      BY <2>2, <3>1, <1>1 DEF FollowsParents
    <3>3. f[p] = g[p]
      BY <3>1, <1>2
    <3> QED
      BY <3>2, <3>3
  <2> QED
    BY <2>1, <2>2
<1>3. S \in SUBSET 1..m
  OBVIOUS
<1>4. k \in S
  <2> HIDE DEF S
  <2> QED
    BY <1>1, <1>2, <1>3, AllUpTo
<1> QED
  BY <1>4

LEMMA ScopesAtFollows ==
  ASSUME NEW f, FollowsParents(f)
  PROVE  \E g : FollowsParents(g) /\ \A n : ScopesAt(ast, n) = g[n]
BY DEF ScopesAt, FollowsParents

LEMMA ScopesAtHome ==
  ASSUME TypeOK, NEW home, ScopeInv(home), NEW n \in 1..Len(ast),
         IsBreak(ast[n]) \/ ast[n].op \in Labelled
  PROVE  ScopesAt(ast, n) = home[n]
<1> DEFINE f == [k \in 1..Len(ast) |-> IF HasParent(ast, k) THEN home[k] ELSE <<>>]
<1>1. ASSUME NEW k \in 1..Len(ast), HasParent(ast, k)
      PROVE  LET p == ParentOf(ast, k) IN f[k] = f[p] \o Opens(ast, p, k)
  <2>1. PICK p : p = ParentOf(ast, k)
    OBVIOUS
  <2>2. p \in 1..(k - 1) /\ \E i \in 1..Len(ast[p].kids) : ast[p].kids[i] = k
    BY <1>1, <2>1, ParentHas
  <2>3. PICK i \in 1..Len(ast[p].kids) : ast[p].kids[i] = k
    BY <2>2
  <2>4. p \in 1..Len(ast)
    BY <2>2, NodeTyped
  <2>5. home[k] = home[p] \o Opens(ast, p, k)
    BY <2>3, <2>4 DEF ScopeInv, IsHome
  <2>6. f[p] = home[p]
    <3>1. CASE p = 1
      <4>1. ~HasParent(ast, 1)
        BY DEF HasParent
      <4> QED
        BY <3>1, <4>1, <2>4 DEF ScopeInv, IsHome
    <3>2. CASE p # 1
      <4>1. p \in 2..Len(ast) /\ ~(k < p)
        BY <2>2, <2>4, <3>2
      <4>2. HasParent(ast, p)
        BY <4>1, <2>3 DEF ScopeInv, Written
      <4> QED
        BY <4>2, <2>4
    <3> QED
      BY <3>1, <3>2
  <2> QED
    BY <1>1, <2>1, <2>5, <2>6
<1>2. FollowsParents(f)
  BY <1>1 DEF FollowsParents
<1>3. f[n] = home[n]
  <2>1. n # 1
    BY DEF TypeOK, AstOK, IsBreak, Labelled
  <2>2. n \in 2..Len(ast) /\ ast[n].op \notin Made
    BY <2>1 DEF IsBreak, Labelled, Made
  <2>3. HasParent(ast, n)
    BY <2>2 DEF ScopeInv, Written
  <2> QED
    BY <2>3
<1> HIDE DEF f
<1>4. PICK g : FollowsParents(g) /\ \A k : ScopesAt(ast, k) = g[k]
  BY <1>2, ScopesAtFollows
<1>5. g[n] = f[n]
  BY <1>2, <1>4, OneFollows
<1> QED
  BY <1>3, <1>4, <1>5

LEMMA ScopesReached ==
  ASSUME TypeOK, NEW home, ScopeInv(home)
  PROVE  BreakTargetsScope
<1> SUFFICES ASSUME NEW j \in 1..Len(stack), Valid(ast), NoneHidden(ast) PROVE JumpsToScope(j)
  BY DEF BreakTargetsScope
<1>1. stack[j].n \in 1..Len(ast)
  BY FrameNode
<1>2. AllDiffer(home)
  <2> SUFFICES ASSUME NEW n \in 1..Len(ast), ast[n].op \in Labelled
               PROVE  NamesDiffer(home[n] \o OwnScopes(ast, n))
    BY DEF AllDiffer
  <2>1. ScopesAt(ast, n) = home[n]
    BY ScopesAtHome
  <2>2. NamesDiffer(ScopesAt(ast, n) \o OwnScopes(ast, n))
    BY DEF NoneHidden, NamesDiffer
  <2> QED
    BY <2>1, <2>2
<1> SUFFICES ASSUME IsBreak(ast[stack[j].n]), stack[j].bbs # <<>>
             PROVE  ReachesOneOf(Targets(ast, stack[j].n), j)
  BY DEF JumpsToScope
<1>3. PICK meant : meant = Meant(home[stack[j].n], ast[stack[j].n])
  OBVIOUS
<1>4. ScopesAt(ast, stack[j].n) = home[stack[j].n]
  BY <1>1, ScopesAtHome
<1>5. Targets(ast, stack[j].n) = meant
  BY <1>3, <1>4 DEF Targets
<1>6. Targets(ast, stack[j].n) # {}
  BY <1>1 DEF Valid
<1>7. meant = {} \/ ReachesOneOf(meant, j)
  BY <1>2, <1>3 DEF ScopeInv, JumpsHome
<1> QED
  BY <1>5, <1>6, <1>7

(***************************************************************************)
(* For every function the parser can build, and however its labels are     *)
(* nested: a break by name or by index jumps to a block of the expression  *)
(* its label means by scoping, when the function is valid and none of its  *)
(* labels hides another (WasmFunction::GetLabel, PushLabel and PopLabel).  *)
(***************************************************************************)
THEOREM BreaksReachScopes == Spec => []BreakTargetsScope
<1> DEFINE Inv == TypeOK /\ LabelInv /\ \E home : ScopeInv(home)
<1>1. Init => Inv
  BY InitTyped, InitLabels, InitScopes
<1>2. Inv /\ [Next]_vars => Inv'
  <2> SUFFICES ASSUME TypeOK, LabelInv, NEW home, ScopeInv(home), [Next]_vars
               PROVE  TypeOK' /\ LabelInv' /\ \E g : ScopeInv(g)'
    OBVIOUS
  <2> QED
    BY NextTyped, NextLabels, NextScopes
<1>3. Inv => BreakTargetsScope
  BY ScopesReached
<1> QED
  BY <1>1, <1>2, <1>3, PTL DEF Spec
=============================================================================
