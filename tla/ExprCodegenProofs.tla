------------------------- MODULE ExprCodegenProofs -------------------------
(***************************************************************************)
(* Proofs about ExprCodegen.                                               *)
(***************************************************************************)
EXTENDS ExprCodegenProps, TLAPS

LEMMA AppendTyped ==
  ASSUME NEW S, NEW s \in Seq(S), NEW x \in S
  PROVE  /\ Append(s, x) \in Seq(S)
         /\ Len(Append(s, x)) = Len(s) + 1
         /\ \A i \in 1..Len(s) : Append(s, x)[i] = s[i]
         /\ Append(s, x)[Len(s) + 1] = x
  OBVIOUS

LEMMA ConcatTyped ==
  ASSUME NEW S, NEW s \in Seq(S), NEW t \in Seq(S)
  PROVE  /\ s \o t \in Seq(S)
         /\ Len(s \o t) = Len(s) + Len(t)
         /\ \A i \in 1..Len(s) : (s \o t)[i] = s[i]
         /\ \A i \in 1..Len(t) : (s \o t)[Len(s) + i] = t[i]
  OBVIOUS

LEMMA ExceptTyped ==
  ASSUME NEW S, NEW s \in Seq(S), NEW k \in 1..Len(s), NEW x \in S
  PROVE  /\ [s EXCEPT ![k] = x] \in Seq(S)
         /\ Len([s EXCEPT ![k] = x]) = Len(s)
         /\ \A i \in 1..Len(s) : [s EXCEPT ![k] = x][i] = IF i = k THEN x ELSE s[i]
  OBVIOUS

LEMMA SubSeqTyped ==
  ASSUME NEW S, NEW s \in Seq(S), NEW k \in 0..Len(s)
  PROVE  /\ SubSeq(s, 1, k) \in Seq(S)
         /\ Len(SubSeq(s, 1, k)) = k
         /\ \A i \in 1..k : SubSeq(s, 1, k)[i] = s[i]
  OBVIOUS

LEMMA EmitTyped ==
  ASSUME NEW bs \in Seq(Blocks), NEW b \in 1..Len(bs), NEW i \in Insts
  PROVE  /\ Emit(bs, b, i) \in Seq(Blocks)
         /\ Len(Emit(bs, b, i)) = Len(bs)
         /\ \A k \in 1..Len(bs) : Emit(bs, b, i)[k].owner = bs[k].owner
<1>1. bs[b] \in Blocks
  OBVIOUS
<1>2. bs[b].insts \in Seq(Insts) /\ bs[b].owner \in Nat
  BY <1>1 DEF Blocks
<1>3. Append(bs[b].insts, i) \in Seq(Insts)
  BY <1>2, AppendTyped
<1> DEFINE x == [bs[b] EXCEPT !.insts = Append(bs[b].insts, i)]
<1>4. x \in Blocks /\ x.owner = bs[b].owner
  BY <1>1, <1>3 DEF Blocks
<1>5. Emit(bs, b, i) = [bs EXCEPT ![b] = x]
  BY DEF Emit
<1> QED
  BY <1>4, <1>5, ExceptTyped

LEMMA TopTyped ==
  ASSUME TypeOK
  PROVE  /\ Len(stack) \in Nat /\ Len(stack) > 0
         /\ Top \in Frames
         /\ Top.n \in 1..Len(ast)
         /\ Node \in Nodes
         /\ Done \in Nat
         /\ Last \in Values
         /\ Node.op # "func" => Len(stack) > 1
<1>1. Len(stack) \in Nat /\ Len(stack) > 0 /\ Top \in Frames
  BY DEF TypeOK, StackOK, Top
<1>2. FrameOK(Len(stack))
  BY <1>1 DEF TypeOK, StackOK
<1>3. Top.n \in 1..Len(ast) /\ (Top.n > 1 <=> Len(stack) > 1)
  BY <1>2 DEF FrameOK, Top
<1>4. Node \in Nodes /\ (Top.n > 1 \/ Node.op = "func")
  BY <1>3 DEF TypeOK, AstOK, Node
<1>5. Top.vals \in Seq(Values) /\ Done \in Nat
  BY <1>1 DEF Frames, Done
<1>6. Last \in Values
  <2>1. Null \in Values
    BY DEF Null, Values, ValueTypes
  <2>2. Done # 0 => Top.vals[Done] \in Values
    BY <1>5 DEF Done
  <2> QED
    BY <2>1, <2>2 DEF Last
<1> QED
  BY <1>1, <1>3, <1>4, <1>5, <1>6

LEMMA InstTyped ==
  ASSUME TypeOK, NEW args \in Seq(Values)
  PROVE  /\ Plain(args) \in Insts
         /\ \A from \in Seq(Nat) : Inst("phi", args, <<>>, from) \in Insts
         /\ Inst("ret", args, <<>>, <<>>) \in Insts
         /\ Inst("retvoid", <<>>, <<>>, <<>>) \in Insts
<1>1. stack[Len(stack)].n \in Nat
  BY TopTyped DEF Top, Frames
<1> QED
  BY <1>1 DEF Plain, Inst, Insts, Terminators

LEMMA JumpTyped ==
  ASSUME TypeOK, NEW v \in Values, NEW t \in Nat, NEW f \in Nat
  PROVE  Jump(t) \in Insts /\ CondJump(v, t, f) \in Insts
<1>1. stack[Len(stack)].n \in Nat
  BY TopTyped DEF Top, Frames
<1> QED
  BY <1>1 DEF Jump, CondJump, Inst, Insts, Terminators

(***************************************************************************)
(* What no step does: forget a node or change what it is.                  *)
(***************************************************************************)
KeepsShape ==
  /\ Len(ast) <= Len(ast')
  /\ \A n \in 1..Len(ast) : /\ ast'[n].op = ast[n].op /\ ast'[n].kids = ast[n].kids
                          /\ ast'[n].cases = ast[n].cases /\ ast'[n].table = ast[n].table

(***************************************************************************)
(* Nodes that keep what they are stay a tree.                              *)
(***************************************************************************)
LEMMA ShapeTyped ==
  ASSUME TypeOK, KeepsShape, ast' \in Seq(Nodes), Len(ast') = Len(ast)
  PROVE  AstOK'
<1>1. ASSUME NEW n \in 1..Len(ast)
      PROVE  TableOK(ast'[n])
  <2>1. TableOK(ast[n])
    BY DEF TypeOK, AstOK
  <2> QED
    BY <2>1 DEF TableOK, KeepsShape
<1> QED
  BY <1>1 DEF TypeOK, AstOK, KeepsShape

LEMMA IfArity ==
  ASSUME AstOK, NEW n \in 1..Len(ast), ast[n].op = "if"
  PROVE  Len(ast[n].kids) <= 3 /\ Len(ast[n].kids) >= 2
<1>1. Arities("if") = {2, 3}
  BY DEF Arities
<1>2. Len(ast[n].kids) \in Arities("if")
  BY DEF AstOK
<1> QED
  BY <1>1, <1>2

LEMMA HeldSame ==
  ASSUME NEW x, NEW y, y.op = x.op, y.kids = x.kids, NEW k
  PROVE  BlocksHeld(y, k) = BlocksHeld(x, k) /\ MostValues(y) = MostValues(x)
BY DEF BlocksHeld, MostValues

LEMMA FrameVals ==
  ASSUME NEW f \in Frames, NEW v \in Values
  PROVE  LET g == [f EXCEPT !.vals = Append(f.vals, v)]
         IN /\ g \in Frames /\ g.n = f.n /\ g.bbs = f.bbs /\ g.base = f.base
            /\ g.vals = Append(f.vals, v) /\ Len(g.vals) = Len(f.vals) + 1
<1>1. f.vals \in Seq(Values)
  BY DEF Frames
<1>2. Append(f.vals, v) \in Seq(Values) /\ Len(Append(f.vals, v)) = Len(f.vals) + 1
  BY <1>1, AppendTyped
<1> QED
  BY <1>2 DEF Frames

LEMMA FrameBbs ==
  ASSUME NEW f \in Frames, NEW bbs \in Seq(Nat)
  PROVE  LET g == [f EXCEPT !.bbs = bbs]
         IN g \in Frames /\ g.n = f.n /\ g.bbs = bbs /\ g.base = f.base /\ g.vals = f.vals
BY DEF Frames

(***************************************************************************)
(* What is left of the stack when the active method returns.               *)
(***************************************************************************)
LEMMA ReturnFrames ==
  ASSUME TypeOK, NEW m \in Nat, m > 0, m + 1 = Len(stack), NEW v \in Values, Return(v)
  PROVE  LET g == [stack[m] EXCEPT !.vals = Append(stack[m].vals, v)]
         IN /\ stack' \in Seq(Frames)
            /\ Len(stack') = m
            /\ \A j \in 1..m : stack'[j] = IF j = m THEN g ELSE stack[j]
            /\ g \in Frames /\ g.n = stack[m].n /\ g.bbs = stack[m].bbs
            /\ g.base = stack[m].base
            /\ g.vals = Append(stack[m].vals, v) /\ Len(g.vals) = Len(stack[m].vals) + 1
<1> DEFINE g == [stack[m] EXCEPT !.vals = Append(stack[m].vals, v)]
           below == SubSeq(stack, 1, m)
<1>1. stack \in Seq(Frames) /\ m \in 1..Len(stack) /\ m \in 0..Len(stack) /\ m = Len(stack) - 1
  BY DEF TypeOK, StackOK
<1>2. stack[m] \in Frames
  BY <1>1
<1>3. /\ g \in Frames /\ g.n = stack[m].n /\ g.bbs = stack[m].bbs /\ g.base = stack[m].base
      /\ g.vals = Append(stack[m].vals, v) /\ Len(g.vals) = Len(stack[m].vals) + 1
  BY <1>2, FrameVals
<1>4. below \in Seq(Frames) /\ Len(below) = m /\ \A j \in 1..m : below[j] = stack[j]
  BY <1>1, SubSeqTyped
<1>5. stack' = [below EXCEPT ![m] = g]
  <2>1. stack' = [below EXCEPT ![Len(below)].vals = Append(@, v)]
    BY <1>1 DEF Return
  <2> QED
    BY <2>1, <1>1, <1>4
<1>6. m \in 1..Len(below)
  BY <1>1, <1>4
<1> HIDE DEF below, g
<1>7. /\ stack' \in Seq(Frames) /\ Len(stack') = m
      /\ \A j \in 1..m : stack'[j] = IF j = m THEN g ELSE stack[j]
  BY <1>3, <1>4, <1>5, <1>6, ExceptTyped
<1> QED
  BY <1>3, <1>7 DEF g

LEMMA ReturnTyped ==
  ASSUME TypeOK, AstOK', KeepsShape, Len(body) <= Len(body'), Len(stack) > 1,
         NEW v \in Values, Return(v)
  PROVE  StackOK'
<1>a. PICK m \in Nat : m = Len(stack) - 1
  BY DEF TypeOK, StackOK
<1> DEFINE g == [stack[m] EXCEPT !.vals = Append(stack[m].vals, v)]
<1>1. stack \in Seq(Frames) /\ m \in 1..Len(stack) /\ m \in Nat /\ m < Len(stack)
      /\ m + 1 = Len(stack) /\ m > 0
  BY <1>a DEF TypeOK, StackOK
<1>2. stack[m] \in Frames
  BY <1>1
<1>3. /\ g \in Frames /\ g.n = stack[m].n /\ g.bbs = stack[m].bbs
      /\ g.vals = Append(stack[m].vals, v) /\ Len(g.vals) = Len(stack[m].vals) + 1
  BY <1>1, ReturnFrames
<1>4. /\ stack' \in Seq(Frames)
      /\ Len(stack') = m
      /\ \A j \in 1..m : stack'[j] = IF j = m THEN g ELSE stack[j]
  BY <1>1, ReturnFrames
<1> HIDE DEF g
<1>5. ASSUME NEW j \in 1..m
      PROVE  FrameOK(j)'
  <2>1. FrameOK(j) /\ j < Len(stack)
    BY <1>1 DEF TypeOK, StackOK
  <2>2. stack[j].n \in 1..Len(ast) /\ stack'[j].n = stack[j].n /\ stack'[j].bbs = stack[j].bbs
    BY <2>1, <1>3, <1>4 DEF FrameOK, MostValues
  <2>3. /\ ast'[stack[j].n].op = ast[stack[j].n].op
        /\ ast'[stack[j].n].kids = ast[stack[j].n].kids
        /\ stack[j].n \in 1..Len(ast')
    BY <2>2, SMTT(30) DEF KeepsShape, AstOK
  <2>4. CASE j < m
    <3>1. stack'[j] = stack[j] /\ j < Len(stack')
      BY <2>4, <1>4
    <3>2. Begun(j)' = Begun(j)
      BY <3>1, <2>1 DEF Begun
    <3>3. \A k : /\ BlocksHeld(ast'[stack[j].n], k) = BlocksHeld(ast[stack[j].n], k)
                 /\ MostValues(ast'[stack[j].n]) = MostValues(ast[stack[j].n])
      BY <2>3, HeldSame
    <3> QED
      BY <3>1, <3>2, <3>3, <2>1, <2>3 DEF FrameOK
  <2>5. CASE j = m
    <3>1. stack'[j] = g /\ ~(j < Len(stack'))
      BY <2>5, <1>4
    <3>2. Begun(j)' = Begun(j)
      BY <3>1, <2>1, <2>5, <1>2, <1>3 DEF Begun, Frames
    <3>3. Len(g.vals) <= MostValues(ast[stack[j].n])
      <4>1. Len(stack[j].vals) < MostValues(ast[stack[j].n])
        BY <2>1 DEF FrameOK
      <4>2. MostValues(ast[stack[j].n]) \in Nat
        <5>1. ast[stack[j].n] \in Nodes
          BY <2>2 DEF TypeOK, AstOK
        <5>2. ast[stack[j].n].kids \in Seq(Nat)
          BY <5>1 DEF Nodes
        <5> QED
          BY <5>2, SMTT(30) DEF MostValues
      <4>3. Len(g.vals) = Len(stack[j].vals) + 1 /\ Len(stack[j].vals) \in Nat
        BY <2>5, <1>2, <1>3 DEF Frames
      <4> QED
        BY <4>1, <4>2, <4>3
    <3>4. /\ stack[j].n > 1 <=> j > 1
          /\ \A i \in 1..Len(stack[j].bbs) : stack[j].bbs[i] \in 1..Len(body')
          /\ Len(stack[j].bbs) \in BlocksHeld(ast[stack[j].n], Begun(j))
          /\ MostValues(ast'[stack[j].n]) = MostValues(ast[stack[j].n])
          /\ BlocksHeld(ast'[stack[j].n], Begun(j)) = BlocksHeld(ast[stack[j].n], Begun(j))
      <4>1. 1..Len(body) \subseteq 1..Len(body')
        OBVIOUS
      <4>2. /\ stack[j].n > 1 <=> j > 1
            /\ \A i \in 1..Len(stack[j].bbs) : stack[j].bbs[i] \in 1..Len(body)
            /\ Len(stack[j].bbs) \in BlocksHeld(ast[stack[j].n], Begun(j))
        BY <2>1 DEF FrameOK
      <4> QED
        BY <4>1, <4>2, <2>3, HeldSame
    <3> QED
      BY <3>1, <3>2, <3>3, <3>4, <2>2, <2>3 DEF FrameOK
  <2> QED
    BY <2>4, <2>5, <1>1
<1> QED
  BY <1>1, <1>4, <1>5 DEF StackOK

(***************************************************************************)
(* The top frame is replaced by g.                                         *)
(***************************************************************************)
LEMMA ReplaceTyped ==
  ASSUME TypeOK, AstOK', KeepsShape, Len(body) <= Len(body'),
         NEW g \in Frames,
         g.n \in 1..Len(ast'), g.n > 1 <=> Len(stack) > 1,
         Len(g.vals) <= MostValues(ast'[g.n]),
         \A i \in 1..Len(g.bbs) : g.bbs[i] \in 1..Len(body'),
         Len(g.bbs) \in BlocksHeld(ast'[g.n], Len(g.vals)),
         stack' = [stack EXCEPT ![Len(stack)] = g]
  PROVE  StackOK'
<1>a. PICK m \in Nat : m = Len(stack)
  BY DEF TypeOK, StackOK
<1>1. stack \in Seq(Frames) /\ m \in Nat /\ m > 0 /\ m \in 1..Len(stack)
  BY <1>a DEF TypeOK, StackOK
<1>2. /\ stack' \in Seq(Frames)
      /\ Len(stack') = m
      /\ \A j \in 1..m : stack'[j] = IF j = m THEN g ELSE stack[j]
  BY <1>1, <1>a, ExceptTyped
<1>3. ASSUME NEW j \in 1..m, j < m
      PROVE  FrameOK(j)'
  <2>1. FrameOK(j) /\ j < Len(stack)
    BY <1>1, <1>3, <1>a DEF TypeOK, StackOK
  <2>2. stack[j].n \in 1..Len(ast) /\ stack'[j] = stack[j] /\ j < Len(stack')
    BY <2>1, <1>2, <1>3, <1>1 DEF FrameOK
  <2>3. /\ ast'[stack[j].n].op = ast[stack[j].n].op
        /\ ast'[stack[j].n].kids = ast[stack[j].n].kids
        /\ stack[j].n \in 1..Len(ast')
    BY <2>2, SMTT(30) DEF KeepsShape, AstOK
  <2>4. Begun(j)' = Begun(j)
    BY <2>2, <1>3 DEF Begun
  <2>5. stack[j].n > 1 <=> j > 1
    BY <2>1 DEF FrameOK
  <2>6. \A i \in 1..Len(stack[j].bbs) : stack[j].bbs[i] \in 1..Len(body')
    <3>1. \A i \in 1..Len(stack[j].bbs) : stack[j].bbs[i] \in 1..Len(body)
      BY <2>1 DEF FrameOK
    <3>2. 1..Len(body) \subseteq 1..Len(body')
      OBVIOUS
    <3> QED
      BY <3>1, <3>2
  <2>7. \A k : /\ BlocksHeld(ast'[stack[j].n], k) = BlocksHeld(ast[stack[j].n], k)
               /\ MostValues(ast'[stack[j].n]) = MostValues(ast[stack[j].n])
    BY <2>3, HeldSame
  <2> QED
    BY <2>1, <2>2, <2>3, <2>4, <2>5, <2>6, <2>7 DEF FrameOK
<1>4. FrameOK(m)'
  <2>1. stack'[m] = g /\ ~(m < Len(stack'))
    BY <1>1, <1>2
  <2>2. g.vals \in Seq(Values)
    BY DEF Frames
  <2>3. Begun(m)' = Len(g.vals)
    BY <2>1, <2>2 DEF Begun
  <2> QED
    BY <2>1, <2>3, <1>1, <1>a DEF FrameOK
<1> QED
  <2>1. \A j \in 1..m : FrameOK(j)'
    BY <1>1, <1>3, <1>4
  <2> QED
    BY <2>1, <1>1, <1>2 DEF StackOK

(***************************************************************************)
(* The stack when the active method generates operand k.                   *)
(***************************************************************************)
LEMMA DescendFromFrames ==
  ASSUME TypeOK, NEW m \in Nat, m = Len(stack), NEW k \in 1..Len(Node.kids),
         NEW bbs \in Seq(Nat), NEW base \in Nat, DescendFrom(k, bbs, base)
  PROVE  LET f == Frame(Node.kids[k], base)
             g == [Top EXCEPT !.bbs = bbs]
         IN /\ stack' \in Seq(Frames)
            /\ Len(stack') = m + 1
            /\ \A j \in 1..m : stack'[j] = IF j = m THEN g ELSE stack[j]
            /\ stack'[m + 1] = f
            /\ m < Len(stack') /\ ~(m + 1 < Len(stack'))
<1> DEFINE g == [Top EXCEPT !.bbs = bbs]
           f == Frame(Node.kids[k], base)
           s == [stack EXCEPT ![m] = g]
<1>1. stack \in Seq(Frames) /\ m \in 1..Len(stack) /\ Top \in Frames /\ Node \in Nodes
  BY TopTyped DEF TypeOK, StackOK
<1>2. g \in Frames
  BY <1>1, FrameBbs
<1>3. f \in Frames
  <2>1. Node.kids[k] \in Nat
    BY <1>1, SMTT(30) DEF Nodes
  <2> QED
    BY <2>1 DEF Frame, Frames
<1>4. stack' = Append(s, f)
  BY DEF DescendFrom, Top
<1> HIDE DEF f, g
<1>5. s \in Seq(Frames) /\ Len(s) = m /\ \A j \in 1..m : s[j] = IF j = m THEN g ELSE stack[j]
  BY <1>1, <1>2, ExceptTyped
<1> HIDE DEF s
<1>6. /\ stack' \in Seq(Frames) /\ Len(stack') = m + 1
      /\ \A j \in 1..m : stack'[j] = s[j]
      /\ stack'[m + 1] = f
  BY <1>3, <1>4, <1>5, AppendTyped
<1>7. m < Len(stack') /\ ~(m + 1 < Len(stack'))
  BY <1>6
<1> QED
  BY <1>5, <1>6, <1>7 DEF f, g

LEMMA DescendFrames ==
  ASSUME TypeOK, NEW m \in Nat, m = Len(stack), NEW k \in 1..Len(Node.kids),
         NEW bbs \in Seq(Nat), Descend(k, bbs)
  PROVE  LET f == Frame(Node.kids[k], Len(labels))
             g == [Top EXCEPT !.bbs = bbs]
         IN /\ stack' \in Seq(Frames)
            /\ Len(stack') = m + 1
            /\ \A j \in 1..m : stack'[j] = IF j = m THEN g ELSE stack[j]
            /\ stack'[m + 1] = f
            /\ m < Len(stack') /\ ~(m + 1 < Len(stack'))
<1>1. PICK base \in Nat : base = Len(labels)
  BY DEF TypeOK, BodyOK
<1>2. DescendFrom(k, bbs, base)
  BY <1>1 DEF Descend
<1> QED
  BY <1>1, <1>2, DescendFromFrames, ZenonT(40)

LEMMA DescendFromTyped ==
  ASSUME TypeOK, ast' = ast, Len(body) <= Len(body'),
         NEW k \in Nat, k = Done + 1, k <= Len(Node.kids), k <= MostValues(Node),
         NEW bbs \in Seq(Nat),
         \A i \in 1..Len(bbs) : bbs[i] \in 1..Len(body'),
         Len(bbs) \in BlocksHeld(Node, k),
         NEW base \in Nat, DescendFrom(k, bbs, base)
  PROVE  StackOK'
<1>a. PICK m \in Nat : m = Len(stack)
  BY DEF TypeOK, StackOK
<1> DEFINE g == [Top EXCEPT !.bbs = bbs]
           f == Frame(Node.kids[k], base)
<1>1. /\ stack \in Seq(Frames) /\ m \in Nat /\ m > 0 /\ m \in 1..Len(stack)
      /\ Top \in Frames /\ Node \in Nodes /\ Top.n \in 1..Len(ast)
  BY TopTyped, <1>a DEF TypeOK, StackOK
<1>2. g \in Frames /\ g.n = Top.n /\ g.bbs = bbs /\ g.vals = Top.vals
  BY <1>1, FrameBbs
<1>3. f.n \in 2..Len(ast) /\ f.vals = <<>> /\ f.bbs = <<>> /\ f \in Frames
  <2>1. Node.kids[k] \in 2..Len(ast)
    <3>1. k \in 1..Len(ast[Top.n].kids)
      BY TopTyped DEF Node
    <3> QED
      BY <3>1, <1>1 DEF TypeOK, AstOK, Node
  <2>2. Len(ast) \in Nat
    BY DEF TypeOK, AstOK
  <2> QED
    BY <2>1, <2>2 DEF Frame, Frames
<1>4. k \in 1..Len(Node.kids)
  BY TopTyped
<1>5. /\ stack' \in Seq(Frames)
      /\ Len(stack') = m + 1
      /\ \A j \in 1..m : stack'[j] = IF j = m THEN g ELSE stack[j]
      /\ stack'[m + 1] = f
      /\ m < Len(stack') /\ ~(m + 1 < Len(stack'))
  BY <1>4, <1>a, DescendFromFrames, ZenonT(40)
<1>b. Top = stack[m]
  BY <1>a DEF Top
<1> HIDE DEF g, f
<1>6. ASSUME NEW j \in 1..m, j < m
      PROVE  FrameOK(j)'
  <2>1. FrameOK(j) /\ j < Len(stack) /\ j < Len(stack') /\ stack'[j] = stack[j]
    <3>1. j \in 1..Len(stack) /\ j < Len(stack)
      BY <1>1, <1>6, <1>a
    <3>2. FrameOK(j)
      BY <3>1 DEF TypeOK, StackOK
    <3>3. j < Len(stack')
      BY <1>1, <1>5, <1>6
    <3>4. stack'[j] = stack[j]
      BY <1>5, <1>6
    <3> QED
      BY <3>1, <3>2, <3>3, <3>4
  <2>2. Begun(j)' = Begun(j)
    BY <2>1 DEF Begun
  <2>3. \A i \in 1..Len(stack[j].bbs) : stack[j].bbs[i] \in 1..Len(body')
    <3>1. \A i \in 1..Len(stack[j].bbs) : stack[j].bbs[i] \in 1..Len(body)
      BY <2>1 DEF FrameOK
    <3>2. 1..Len(body) \subseteq 1..Len(body')
      OBVIOUS
    <3> QED
      BY <3>1, <3>2
  <2> QED
    BY <2>1, <2>2, <2>3 DEF FrameOK
<1>7. FrameOK(m)'
  <2>1. stack'[m] = g /\ m < Len(stack')
    <3>1. m \in 1..m
      BY <1>1
    <3> QED
      BY <3>1, <1>5
  <2>2. FrameOK(m)
    BY <1>1, <1>a DEF TypeOK, StackOK
  <2>3. Len(g.vals) = Done /\ Done \in Nat
    BY <1>2, TopTyped DEF Done
  <2>4. Begun(m)' = k
    BY <2>1, <2>3 DEF Begun
  <2>5. Node.kids \in Seq(Nat)
    BY <1>1 DEF Nodes
  <2>6. Len(g.vals) < Len(Node.kids) /\ Len(g.vals) < MostValues(Node)
    <3>1. MostValues(Node) \in Nat
      BY <2>5 DEF MostValues
    <3> QED
      BY <2>3, <2>5, <3>1
  <2>7. stack[m].n \in 1..Len(ast) /\ (stack[m].n > 1 <=> m > 1)
        /\ Len(stack[m].vals) <= MostValues(ast[stack[m].n])
    BY <2>2 DEF FrameOK
  <2>8. ast[g.n] = Node /\ g.n = stack[m].n /\ g.vals = stack[m].vals
    BY <1>b, <1>2 DEF Node
  <2> QED
    BY <2>1, <2>4, <2>6, <2>7, <2>8, <1>2 DEF FrameOK
<1>8. FrameOK(m + 1)'
  <2>1. stack'[m + 1] = f /\ ~(m + 1 < Len(stack')) /\ m + 1 > 1
    BY <1>1, <1>5
  <2>2. Len(f.vals) = 0 /\ Len(f.bbs) = 0
    BY <1>3
  <2>3. Begun(m + 1)' = 0
    BY <2>1, <2>2 DEF Begun
  <2>4. f.n \in 1..Len(ast) /\ f.n > 1
    BY <1>3 DEF TypeOK, AstOK
  <2>5. 0 <= MostValues(ast[f.n])
    <3>1. ast[f.n] \in Nodes
      BY <2>4 DEF TypeOK, AstOK
    <3>2. ast[f.n].kids \in Seq(Nat)
      BY <3>1 DEF Nodes
    <3> QED
      BY <3>2 DEF MostValues
  <2>6. 0 \in BlocksHeld(ast[f.n], 0)
    BY DEF BlocksHeld
  <2> QED
    BY <2>1, <2>2, <2>3, <2>4, <2>5, <2>6 DEF FrameOK
<1> QED
  <2>1. \A j \in 1..(m + 1) : FrameOK(j)'
    BY <1>1, <1>6, <1>7, <1>8
  <2> QED
    BY <2>1, <1>1, <1>5 DEF StackOK

LEMMA DescendTyped ==
  ASSUME TypeOK, ast' = ast, Len(body) <= Len(body'),
         NEW k \in Nat, k = Done + 1, k <= Len(Node.kids), k <= MostValues(Node),
         NEW bbs \in Seq(Nat),
         \A i \in 1..Len(bbs) : bbs[i] \in 1..Len(body'),
         Len(bbs) \in BlocksHeld(Node, k),
         Descend(k, bbs)
  PROVE  StackOK'
<1>1. PICK base \in Nat : base = Len(labels)
  BY DEF TypeOK, BodyOK
<1>2. DescendFrom(k, bbs, base)
  BY <1>1 DEF Descend
<1> QED
  BY <1>2, DescendFromTyped

LEMMA LabelsGrow ==
  ASSUME NEW m \in Nat, NEW n \in Nat, m <= n, NEW s \in Seq(1..m)
  PROVE  s \in Seq(1..n)
OBVIOUS

LEMMA SameAst ==
  ASSUME TypeOK, ast' = ast
  PROVE  AstOK' /\ KeepsShape /\ Len(ast) <= Len(ast')
BY DEF TypeOK, AstOK, KeepsShape

(***************************************************************************)
(* The body grows, and the labels stay.                                    *)
(***************************************************************************)
LEMMA BodyTyped ==
  ASSUME TypeOK, AstOK', Len(ast) <= Len(ast'),
         NEW bs \in Seq(Blocks), body' = bs, Len(body) <= Len(bs),
         \A b \in 1..Len(bs) : bs[b].owner \in 0..Len(ast'),
         cur' \in 1..Len(bs)
  PROVE  /\ UNCHANGED <<labels, mapped>> => BodyOK'
         /\ labels' \in Seq(1..Len(bs)) /\ mapped' \in [LabelNames -> 0..Len(bs)] => BodyOK'
<1>1. labels \in Seq(1..Len(body)) /\ mapped \in [LabelNames -> 0..Len(body)]
      /\ Len(body) \in Nat /\ Len(bs) \in Nat
  BY DEF TypeOK, BodyOK
<1>2. labels \in Seq(1..Len(bs))
  BY <1>1, LabelsGrow
<1>3. mapped \in [LabelNames -> 0..Len(bs)]
  BY <1>1
<1> QED
  BY <1>2, <1>3 DEF BodyOK

LEMMA SameBody ==
  ASSUME TypeOK, AstOK', Len(ast) <= Len(ast'), UNCHANGED <<body, cur, labels, mapped>>
  PROVE  BodyOK'
<1>1. \A b \in 1..Len(body) : body[b].owner \in 0..Len(ast')
  BY DEF TypeOK, BodyOK
<1> QED
  BY <1>1 DEF TypeOK, BodyOK

LEMMA StatusTyped ==
  ASSUME TypeOK, AstOK', BodyOK', StackOK', Continue
  PROVE  TypeOK'
BY DEF TypeOK, Continue

LEMMA CrashTyped == TypeOK /\ Crash => TypeOK'
<1> SUFFICES ASSUME TypeOK, Crash PROVE TypeOK'
  OBVIOUS
<1>1. UNCHANGED <<ast, body, cur, labels, mapped, stack>>
  BY DEF Crash
<1>2. AstOK' /\ BodyOK'
  BY <1>1, SameAst, SameBody
<1>3. StackOK'
  BY <1>1 DEF TypeOK, StackOK, FrameOK, Begun
<1> QED
  BY <1>2, <1>3 DEF Crash, TypeOK

LEMMA ReturnOnlyTyped ==
  ASSUME TypeOK, Len(stack) > 1, NEW v \in Values, Return(v), Continue,
         UNCHANGED <<ast, body, cur, labels, mapped>>
  PROVE  TypeOK'
<1>1. AstOK' /\ KeepsShape /\ Len(ast) <= Len(ast') /\ Len(body) <= Len(body')
  BY SameAst
<1>2. BodyOK'
  BY <1>1, SameBody
<1>3. StackOK'
  BY <1>1, ReturnTyped
<1> QED
  BY <1>1, <1>2, <1>3, StatusTyped

(***************************************************************************)
(* An instruction is added to the current block.                           *)
(***************************************************************************)
LEMMA EmitBodyTyped ==
  ASSUME TypeOK, NEW i \in Insts
  PROVE  LET bs == Emit(body, cur, i)
         IN /\ bs \in Seq(Blocks) /\ Len(bs) = Len(body) /\ cur \in 1..Len(bs)
            /\ \A b \in 1..Len(bs) : bs[b].owner \in 0..Len(ast)
<1>1. body \in Seq(Blocks) /\ cur \in 1..Len(body)
  BY DEF TypeOK, BodyOK
<1>2. \A b \in 1..Len(body) : body[b].owner \in 0..Len(ast)
  BY DEF TypeOK, BodyOK
<1> QED
  BY <1>1, <1>2, EmitTyped

LEMMA ReturnInstTyped ==
  ASSUME TypeOK, Len(stack) > 1, NEW args \in Seq(Values), NEW ty \in ValueTypes,
         ReturnInst(args, ty)
  PROVE  TypeOK'
<1>1. /\ Return([ty |-> ty, at |-> cur]) /\ Continue
      /\ UNCHANGED <<ast, cur, labels, mapped>> /\ body' = Emit(body, cur, Plain(args))
  BY DEF ReturnInst
<1>2. Plain(args) \in Insts
  BY InstTyped
<1>3. AstOK' /\ KeepsShape /\ Len(ast) <= Len(ast')
  BY <1>1, SameAst
<1>4. /\ body' \in Seq(Blocks) /\ Len(body') = Len(body) /\ cur' \in 1..Len(body')
      /\ \A b \in 1..Len(body') : body'[b].owner \in 0..Len(ast')
  BY <1>1, <1>2, EmitBodyTyped
<1>5. BodyOK'
  BY <1>1, <1>3, <1>4, BodyTyped
<1>6. [ty |-> ty, at |-> cur] \in Values
  BY DEF TypeOK, BodyOK, Values
<1>7. StackOK'
  BY <1>1, <1>3, <1>4, <1>6, ReturnTyped
<1> QED
  BY <1>1, <1>3, <1>5, <1>7, StatusTyped

(***************************************************************************)
(* Expressions without operands, and those of straight-line code.          *)
(***************************************************************************)
LEMMA ConstTyped == Const \in Values /\ Null \in Values
BY DEF Const, Null, Values, ValueTypes

LEMMA NotFunc ==
  ASSUME TypeOK, NEW ops, "func" \notin ops, Running(ops)
  PROVE  Len(stack) > 1
BY TopTyped DEF Running

LEMMA GenConstTyped == TypeOK /\ GenConst => TypeOK'
<1> SUFFICES ASSUME TypeOK, GenConst PROVE TypeOK'
  OBVIOUS
<1> DEFINE v == IF Node.op = "const" THEN Const ELSE Null
<1>1. v \in Values
  BY ConstTyped
<1>2. Return(v) /\ Continue /\ UNCHANGED <<ast, body, cur, labels, mapped>>
  BY DEF GenConst
<1>3. Len(stack) > 1
  BY NotFunc DEF GenConst
<1> QED
  BY <1>1, <1>2, <1>3, ReturnOnlyTyped

LEMMA GenGetLocalTyped == TypeOK /\ GenGetLocal => TypeOK'
<1> SUFFICES ASSUME TypeOK, GenGetLocal PROVE TypeOK'
  OBVIOUS
<1>1. Len(stack) > 1
  BY NotFunc DEF GenGetLocal
<1>2. <<>> \in Seq(Values) /\ "i32" \in ValueTypes
  BY DEF ValueTypes
<1>3. ReturnInst(<<>>, "i32")
  BY DEF GenGetLocal
<1> QED
  BY <1>1, <1>2, <1>3, ReturnInstTyped

LEMMA GenUnreachableTyped == TypeOK /\ GenUnreachable => TypeOK'
<1> SUFFICES ASSUME TypeOK, GenUnreachable PROVE TypeOK'
  OBVIOUS
<1>1. Len(stack) > 1
  BY NotFunc DEF GenUnreachable
<1>2. <<>> \in Seq(Values) /\ "void" \in ValueTypes
  BY DEF ValueTypes
<1>3. ReturnInst(<<>>, "void")
  BY DEF GenUnreachable
<1> QED
  BY <1>1, <1>2, <1>3, ReturnInstTyped

LEMMA GenSetLocalTyped == TypeOK /\ GenSetLocal => TypeOK'
<1> SUFFICES ASSUME TypeOK, GenSetLocal PROVE TypeOK'
  OBVIOUS
<1>1. Len(stack) > 1
  BY NotFunc DEF GenSetLocal
<1>2. CASE Crash
  BY <1>2, CrashTyped
<1>3. CASE ~Crash
  <2>1. /\ body' = Emit(body, cur, Plain(<<Last>>)) /\ Return(Last) /\ Continue
        /\ UNCHANGED <<ast, cur, labels, mapped>>
    BY <1>3 DEF GenSetLocal
  <2>2. Last \in Values /\ <<Last>> \in Seq(Values)
    BY TopTyped
  <2>3. AstOK' /\ KeepsShape /\ Len(ast) <= Len(ast')
    BY <2>1, SameAst
  <2>4. /\ body' \in Seq(Blocks) /\ Len(body') = Len(body) /\ cur' \in 1..Len(body')
        /\ \A b \in 1..Len(body') : body'[b].owner \in 0..Len(ast')
    BY <2>1, <2>2, InstTyped, EmitBodyTyped
  <2>5. BodyOK'
    BY <2>1, <2>3, <2>4, BodyTyped
  <2>6. StackOK'
    BY <1>1, <2>1, <2>2, <2>3, <2>4, ReturnTyped
  <2> QED
    BY <2>1, <2>3, <2>5, <2>6, StatusTyped
<1> QED
  BY <1>2, <1>3

LEMMA GenCallTyped == TypeOK /\ GenCall => TypeOK'
<1> SUFFICES ASSUME TypeOK, GenCall PROVE TypeOK'
  OBVIOUS
<1>1. Len(stack) > 1
  BY NotFunc DEF GenCall
<1>2. CASE Crash
  BY <1>2, CrashTyped
<1>3. CASE ReturnInst(Top.vals, Node.ty)
  <2>1. Top.vals \in Seq(Values) /\ Node.ty \in ValueTypes
    BY TopTyped DEF Frames, Nodes, ValueTypes
  <2> QED
    BY <1>1, <1>3, <2>1, ReturnInstTyped
<1> QED
  BY <1>2, <1>3 DEF GenCall

(***************************************************************************)
(* When its operands are done, an operator has all of them.                *)
(***************************************************************************)
LEMMA AllOperands ==
  ASSUME TypeOK, OperandsDone, Node.op \notin {"func", "block", "select"}
  PROVE  Len(Top.vals) = Len(Node.kids)
BY DEF OperandsDone, Stopped, Done

LEMMA ArityOfTop ==
  ASSUME TypeOK
  PROVE  Len(Node.kids) \in Arities(Node.op)
BY TopTyped DEF TypeOK, AstOK, Node

LEMMA GenBinopTyped == TypeOK /\ GenBinop => TypeOK'
<1> SUFFICES ASSUME TypeOK, GenBinop PROVE TypeOK'
  OBVIOUS
<1> DEFINE lv == Top.vals[1]
           rv == Top.vals[2]
<1>1. Len(stack) > 1
  BY NotFunc DEF GenBinop
<1>2. lv \in Values /\ rv \in Values
  <2>1. Node.op \in {"bin", "cmp"} /\ OperandsDone
    BY DEF GenBinop, Running
  <2>2. Len(Top.vals) = Len(Node.kids)
    BY <2>1, AllOperands
  <2>3. Len(Node.kids) >= 2
    BY <2>1, ArityOfTop DEF Arities
  <2>4. Top.vals \in Seq(Values) /\ 1 \in 1..Len(Top.vals) /\ 2 \in 1..Len(Top.vals)
    BY <2>2, <2>3, TopTyped DEF Frames
  <2> QED
    BY <2>4
<1>3. CASE Crash
  BY <1>3, CrashTyped
<1>4. CASE Return(Null) /\ Continue /\ UNCHANGED <<ast, body, cur, labels, mapped>>
  BY <1>1, <1>4, ConstTyped, ReturnOnlyTyped
<1>5. CASE ReturnInst(<<lv, rv>>, IF Node.op = "cmp" THEN "i1" ELSE lv.ty)
  <2>1. <<lv, rv>> \in Seq(Values)
    BY <1>2
  <2>2. (IF Node.op = "cmp" THEN "i1" ELSE lv.ty) \in ValueTypes
    BY <1>2 DEF Values, ValueTypes
  <2> QED
    BY <1>1, <1>5, <2>1, <2>2, ReturnInstTyped
<1> QED
  BY <1>3, <1>4, <1>5 DEF GenBinop

LEMMA GenSelectTyped == TypeOK /\ GenSelect => TypeOK'
<1> SUFFICES ASSUME TypeOK, GenSelect PROVE TypeOK'
  OBVIOUS
<1>1. Len(stack) > 1
  BY NotFunc DEF GenSelect
<1>2. CASE Crash
  BY <1>2, CrashTyped
<1>3. CASE Stopped
  <2>1. Return(Last) /\ Continue /\ UNCHANGED <<ast, body, cur, labels, mapped>>
    BY <1>3 DEF GenSelect
  <2> QED
    BY <1>1, <2>1, TopTyped, ReturnOnlyTyped
<1>4. CASE ~Stopped /\ ~Crash
  <2>1. ReturnInst(Top.vals, Top.vals[2].ty)
    BY <1>4 DEF GenSelect
  <2>2. Top.vals \in Seq(Values)
    BY TopTyped DEF Frames
  <2>3. Top.vals[2].ty \in ValueTypes
    <3>1. Node.op = "select" /\ OperandsDone
      BY DEF GenSelect, Running
    <3>2. Len(Top.vals) = Len(Node.kids)
      BY <3>1, <1>4 DEF OperandsDone, Done
    <3>3. Len(Node.kids) >= 2
      <4>1. \A k \in Arities("select") : k >= 2
        BY DEF Arities
      <4> QED
        BY <3>1, <4>1, ArityOfTop
    <3>4. 2 \in 1..Len(Top.vals)
      BY <3>2, <3>3, <2>2
    <3>5. Top.vals[2] \in Values
      BY <3>4, <2>2
    <3> QED
      BY <3>5 DEF Values
  <2> QED
    BY <1>1, <2>1, <2>2, <2>3, ReturnInstTyped
<1> QED
  BY <1>2, <1>3, <1>4

(***************************************************************************)
(* Blocks, with owners up to m.                                            *)
(***************************************************************************)
Owned(bs, m) == bs \in Seq(Blocks) /\ \A b \in 1..Len(bs) : bs[b].owner \in 0..m

LEMMA ConcatOwned ==
  ASSUME NEW m \in Nat, NEW bs, NEW new, Owned(bs, m), Owned(new, m)
  PROVE  Owned(bs \o new, m) /\ Len(bs \o new) = Len(bs) + Len(new)
<1>1. bs \in Seq(Blocks) /\ new \in Seq(Blocks)
  BY DEF Owned
<1>2. /\ bs \o new \in Seq(Blocks) /\ Len(bs \o new) = Len(bs) + Len(new)
      /\ \A i \in 1..Len(bs) : (bs \o new)[i] = bs[i]
      /\ \A i \in 1..Len(new) : (bs \o new)[Len(bs) + i] = new[i]
  BY <1>1, ConcatTyped
<1>3. ASSUME NEW b \in 1..Len(bs \o new) PROVE (bs \o new)[b].owner \in 0..m
  <2>1. CASE b <= Len(bs)
    BY <1>1, <1>2, <2>1 DEF Owned
  <2>2. CASE b > Len(bs)
    <3>1. b - Len(bs) \in 1..Len(new) /\ b = Len(bs) + (b - Len(bs))
      BY <1>1, <1>2, <2>2
    <3> QED
      BY <1>2, <3>1 DEF Owned
  <2> QED
    BY <1>1, <2>1, <2>2
<1> QED
  BY <1>2, <1>3 DEF Owned

LEMMA NewBlockOwned ==
  ASSUME NEW m \in Nat, NEW n \in 0..m, NEW k \in 0..m
  PROVE  /\ NewBlock(n) \in Blocks /\ NewBlock(k) \in Blocks
         /\ Owned(<<NewBlock(n)>>, m) /\ Len(<<NewBlock(n)>>) = 1
         /\ Owned(<<NewBlock(n), NewBlock(k)>>, m) /\ Len(<<NewBlock(n), NewBlock(k)>>) = 2
<1>1. /\ NewBlock(n) \in Blocks /\ NewBlock(n).owner = n
      /\ NewBlock(k) \in Blocks /\ NewBlock(k).owner = k
  BY DEF NewBlock, Blocks
<1> HIDE DEF NewBlock
<1> QED
  BY <1>1 DEF Owned

LEMMA EmitOwned ==
  ASSUME NEW m \in Nat, NEW bs, Owned(bs, m), NEW b \in 1..Len(bs), NEW i \in Insts
  PROVE  Owned(Emit(bs, b, i), m) /\ Len(Emit(bs, b, i)) = Len(bs)
BY EmitTyped, ZenonT(40) DEF Owned

LEMMA BodyOwned ==
  ASSUME TypeOK
  PROVE  Owned(body, Len(ast)) /\ Len(ast) \in Nat /\ Len(body) \in Nat
         /\ cur \in 1..Len(body) /\ cur \in Nat
BY DEF TypeOK, BodyOK, AstOK, Owned

(***************************************************************************)
(* Steps that leave the body alone.                                        *)
(***************************************************************************)
LEMMA SameStack ==
  ASSUME TypeOK, AstOK', KeepsShape, stack' = stack, Len(body) <= Len(body')
  PROVE  StackOK'
<1>1. Top \in Frames /\ Len(stack) \in Nat /\ Len(stack) > 0 /\ stack \in Seq(Frames)
  BY TopTyped DEF TypeOK, StackOK
<1>2. stack' = [stack EXCEPT ![Len(stack)] = Top]
  BY <1>1 DEF Top
<1>3. FrameOK(Len(stack))
  BY <1>1 DEF TypeOK, StackOK
<1>4. /\ Top.n \in 1..Len(ast) /\ (Top.n > 1 <=> Len(stack) > 1)
      /\ Len(Top.vals) <= MostValues(ast[Top.n])
      /\ \A i \in 1..Len(Top.bbs) : Top.bbs[i] \in 1..Len(body)
      /\ Len(Top.bbs) \in BlocksHeld(ast[Top.n], Begun(Len(stack)))
  BY <1>3 DEF FrameOK, Top
<1>5. Begun(Len(stack)) = Len(Top.vals)
  <2>1. ~(Len(stack) < Len(stack)) /\ Len(stack[Len(stack)].vals) \in Nat
    BY <1>1, SMTT(30) DEF Top, Frames
  <2> QED
    BY <2>1 DEF Begun, Top
<1>6. ast'[Top.n].op = ast[Top.n].op /\ ast'[Top.n].kids = ast[Top.n].kids /\ Top.n \in 1..Len(ast')
  BY <1>4 DEF KeepsShape, AstOK
<1>7. \A i \in 1..Len(Top.bbs) : Top.bbs[i] \in 1..Len(body')
  <2>1. 1..Len(body) \subseteq 1..Len(body')
    OBVIOUS
  <2> QED
    BY <1>4, <2>1
<1>8. /\ MostValues(ast'[Top.n]) = MostValues(ast[Top.n])
      /\ BlocksHeld(ast'[Top.n], Len(Top.vals)) = BlocksHeld(ast[Top.n], Len(Top.vals))
  BY <1>6, HeldSame
<1> QED
  BY <1>1, <1>2, <1>4, <1>5, <1>6, <1>7, <1>8, ReplaceTyped

LEMMA RunPassesAst ==
  ASSUME TypeOK, RunPasses
  PROVE  AstOK' /\ KeepsShape /\ Len(ast) <= Len(ast')
<1>1. ast \in Seq(Nodes) /\ Len(ast) \in Nat
  BY DEF TypeOK, AstOK
<1>2. PICK c : ast' = [n \in 1..Len(ast) |-> [ast[n] EXCEPT !.merge = @ /\ n \notin c]]
  BY DEF RunPasses, RunUnreachablePass
<1>3. \A n \in 1..Len(ast) : [ast[n] EXCEPT !.merge = @ /\ n \notin c] \in Nodes
  <2> TAKE n \in 1..Len(ast)
  <2>1. ast[n] \in Nodes
    BY <1>1
  <2>2. (ast[n].merge /\ n \notin c) \in BOOLEAN
    OBVIOUS
  <2> QED
    BY <2>1, <2>2 DEF Nodes
<1>4. ast' \in Seq(Nodes) /\ Len(ast') = Len(ast)
  BY <1>1, <1>2, <1>3
<1>5. KeepsShape
  <2>1. ASSUME NEW n \in 1..Len(ast)
        PROVE  /\ ast'[n].op = ast[n].op /\ ast'[n].kids = ast[n].kids
               /\ ast'[n].cases = ast[n].cases /\ ast'[n].table = ast[n].table
    <3>1. ast'[n] = [ast[n] EXCEPT !.merge = @ /\ n \notin c] /\ ast[n] \in Nodes
      BY <1>1, <1>2
    <3> QED
      BY <3>1 DEF Nodes
  <2> QED
    BY <2>1, <1>4 DEF KeepsShape
<1>6. AstOK'
  BY <1>4, <1>5, ShapeTyped
<1> QED
  BY <1>1, <1>4, <1>5, <1>6

LEMMA RunPassesTyped == TypeOK /\ RunPasses => TypeOK'
<1> SUFFICES ASSUME TypeOK, RunPasses PROVE TypeOK'
  OBVIOUS
<1>1. AstOK' /\ KeepsShape /\ Len(ast) <= Len(ast')
  BY RunPassesAst
<1>2. BodyOK'
  BY <1>1, SameBody DEF RunPasses
<1>3. StackOK'
  BY <1>1, SameStack, BodyOwned DEF RunPasses
<1> QED
  BY <1>1, <1>2, <1>3 DEF RunPasses, TypeOK

LEMMA NextOperandTyped == TypeOK /\ NextOperand => TypeOK'
<1> SUFFICES ASSUME TypeOK, NextOperand PROVE TypeOK'
  OBVIOUS
<1>1. /\ Node.op \in Sequential /\ Entered /\ ~OperandsDone
      /\ Descend(Done + 1, Top.bbs) /\ Continue
      /\ UNCHANGED <<ast, body, cur, labels, mapped>>
  BY DEF NextOperand, Running
<1>2. AstOK' /\ BodyOK'
  BY <1>1, SameAst, SameBody
<1>3. FrameOK(Len(stack))
  BY TopTyped DEF TypeOK, StackOK
<1>4. /\ Done <= MostValues(Node)
      /\ \A i \in 1..Len(Top.bbs) : Top.bbs[i] \in 1..Len(body)
      /\ Len(Top.bbs) \in BlocksHeld(Node, Begun(Len(stack)))
  BY <1>3 DEF FrameOK, Top, Node, Done
<1>5. Node.op # "if" /\ Node.op # "divrem" /\ Node.op # "switch"
  BY <1>1 DEF Sequential
<1>6. Done + 1 <= Len(Node.kids) /\ Done + 1 \in Nat
  <2>1. Done <= Len(Node.kids) /\ Done # Len(Node.kids)
    BY <1>1, <1>4, <1>5 DEF MostValues, OperandsDone
  <2>2. Node.kids \in Seq(Nat) /\ Done \in Nat
    BY TopTyped DEF Nodes
  <2> QED
    BY <2>1, <2>2
<1>7. Len(Top.bbs) \in BlocksHeld(Node, Done + 1)
  BY <1>4, <1>5 DEF BlocksHeld
<1>8. Top.bbs \in Seq(Nat)
  BY TopTyped DEF Frames
<1>9. StackOK'
  <2>1. PICK k \in Nat : k = Done + 1
    BY <1>6
  <2>2. /\ ast' = ast /\ Len(body) <= Len(body') /\ k <= Len(Node.kids) /\ Descend(k, Top.bbs)
        /\ k <= MostValues(Node)
        /\ \A i \in 1..Len(Top.bbs) : Top.bbs[i] \in 1..Len(body')
        /\ Len(Top.bbs) \in BlocksHeld(Node, k)
    BY <2>1, <1>1, <1>4, <1>5, <1>6, <1>7 DEF MostValues
  <2> QED
    BY <2>1, <2>2, <1>8, DescendTyped
<1> QED
  BY <1>1, <1>2, <1>9, StatusTyped

LEMMA IfConditionTyped == TypeOK /\ IfCondition => TypeOK'
<1> SUFFICES ASSUME TypeOK, IfCondition PROVE TypeOK'
  OBVIOUS
<1>1. /\ Node.op = "if" /\ Done = 0 /\ Descend(1, <<>>) /\ Continue
      /\ UNCHANGED <<ast, body, cur, labels, mapped>>
  BY DEF IfCondition, Running
<1>2. AstOK' /\ BodyOK'
  BY <1>1, SameAst, SameBody
<1>3. 1 <= Len(Node.kids)
  BY <1>1, TopTyped, IfArity DEF TypeOK, Node
<1>4. Len(<<>>) \in BlocksHeld(Node, 1) /\ <<>> \in Seq(Nat)
  BY <1>1 DEF BlocksHeld
<1>5. StackOK'
  <2>1. /\ ast' = ast /\ Len(body) <= Len(body') /\ 1 = Done + 1 /\ 1 \in Nat
        /\ \A i \in 1..Len(<<>>) : <<>>[i] \in 1..Len(body')
        /\ 1 <= MostValues(Node)
    BY <1>1 DEF MostValues
  <2> QED
    BY <2>1, <1>1, <1>3, <1>4, DescendTyped
<1> QED
  BY <1>1, <1>2, <1>5, StatusTyped

(***************************************************************************)
(* The operands and blocks of an if.                                       *)
(***************************************************************************)
LEMMA IfHasOperands ==
  ASSUME TypeOK, Node.op = "if"
  PROVE  /\ Len(Node.kids) <= 3 /\ Len(Node.kids) >= 2
         /\ Done > 1 => /\ Len(Top.bbs) = 3
                        /\ \A i \in 1..3 : Top.bbs[i] \in 1..Len(body)
<1>1. Len(Node.kids) <= 3 /\ Len(Node.kids) >= 2
  BY TopTyped, IfArity DEF TypeOK, Node
<1>2. FrameOK(Len(stack))
  BY TopTyped DEF TypeOK, StackOK
<1>3. /\ \A i \in 1..Len(Top.bbs) : Top.bbs[i] \in 1..Len(body)
      /\ Len(Top.bbs) \in BlocksHeld(Node, Begun(Len(stack)))
  BY <1>2 DEF FrameOK, Top, Node
<1>4. Begun(Len(stack)) = Done
  <2>1. ~(Len(stack) < Len(stack)) /\ Done \in Nat
    BY TopTyped
  <2> QED
    BY <2>1 DEF Begun, Top, Done
<1>5. ASSUME Done > 1 PROVE Len(Top.bbs) = 3
  BY <1>3, <1>4, <1>5 DEF BlocksHeld, Node
<1> QED
  BY <1>1, <1>3, <1>5

LEMMA IfTrueSideTyped == TypeOK /\ IfTrueSide => TypeOK'
<1> SUFFICES ASSUME TypeOK, IfTrueSide PROVE TypeOK'
  OBVIOUS
<1>1. CASE Crash
  BY <1>1, CrashTyped
<1>2. CASE ~Crash
  <2> DEFINE t == Len(body) + 1
             bs == Emit(body, cur, CondJump(Last, t, t + 1))
             new == <<NewBlock(0), NewBlock(0), NewBlock(0)>>
  <2>1. /\ Node.op = "if" /\ Done = 1
        /\ body' = bs \o new /\ cur' = t
        /\ Descend(2, <<t, t + 1, t + 2>>) /\ Continue
        /\ UNCHANGED <<ast, labels, mapped>>
    BY <1>2 DEF IfTrueSide, Running
  <2>2. t \in Nat /\ t + 1 \in Nat /\ t + 2 \in Nat /\ t = Len(body) + 1
    BY BodyOwned
  <2>3. Owned(bs, Len(ast)) /\ Len(bs) = Len(body)
    BY <2>2, TopTyped, JumpTyped, BodyOwned, EmitOwned
  <2>4. Owned(new, Len(ast)) /\ Len(new) = 3
    <3>1. NewBlock(0) \in Blocks /\ NewBlock(0).owner = 0 /\ Len(ast) \in Nat
      BY BodyOwned DEF NewBlock, Blocks
    <3> HIDE DEF NewBlock
    <3> QED
      BY <3>1 DEF Owned
  <2> HIDE DEF bs, new, t
  <2>5. Owned(body', Len(ast)) /\ Len(body') = Len(body) + 3
    <3>a. Len(ast) \in Nat /\ Owned(bs, Len(ast)) /\ Owned(new, Len(ast))
      BY <2>3, <2>4, BodyOwned
    <3>1. Owned(bs \o new, Len(ast)) /\ Len(bs \o new) = Len(bs) + Len(new)
      BY <3>a, ConcatOwned
    <3> QED
      BY <3>1, <2>1, <2>3, <2>4
  <2>6. AstOK' /\ Len(ast) <= Len(ast') /\ ast' = ast
    BY <2>1, SameAst
  <2>7. cur' \in 1..Len(body') /\ Len(body) <= Len(body')
    BY <2>1, <2>2, <2>5, BodyOwned
  <2>8. BodyOK'
    BY <2>1, <2>5, <2>6, <2>7, BodyTyped DEF Owned
  <2>9. StackOK'
    <3>a. <<t, t + 1, t + 2>> \in Seq(Nat)
      BY <2>2
    <3>1. PICK bbs \in Seq(Nat) : bbs = <<t, t + 1, t + 2>>
      BY <3>a
    <3>2. \A i \in 1..Len(bbs) : bbs[i] \in 1..Len(body')
      BY <3>1, <2>2, <2>5, BodyOwned
    <3>3. Len(bbs) \in BlocksHeld(Node, 2)
      BY <3>1, <2>1 DEF BlocksHeld
    <3>4. /\ 2 \in Nat /\ 2 = Done + 1 /\ 2 <= Len(Node.kids) /\ Descend(2, bbs)
          /\ 2 <= MostValues(Node)
      BY <2>1, <3>1, IfHasOperands DEF MostValues
    <3> QED
      BY <2>6, <2>7, <3>2, <3>3, <3>4, DescendTyped
  <2> QED
    BY <2>1, <2>6, <2>8, <2>9, StatusTyped
<1> QED
  BY <1>1, <1>2

(***************************************************************************)
(* The top frame gets other blocks.                                        *)
(***************************************************************************)
LEMMA EnterTyped ==
  ASSUME TypeOK, ast' = ast, Len(body) <= Len(body'),
         NEW bbs \in Seq(Nat),
         \A i \in 1..Len(bbs) : bbs[i] \in 1..Len(body'),
         Len(bbs) \in BlocksHeld(Node, Done),
         Enter(bbs)
  PROVE  StackOK'
<1> DEFINE g == [Top EXCEPT !.bbs = bbs]
<1>1. g \in Frames /\ g.n = Top.n /\ g.bbs = bbs /\ g.vals = Top.vals
  BY TopTyped, FrameBbs
<1>2. FrameOK(Len(stack))
  BY TopTyped DEF TypeOK, StackOK
<1>3. /\ g.n \in 1..Len(ast') /\ (g.n > 1 <=> Len(stack) > 1)
      /\ Len(g.vals) <= MostValues(ast'[g.n])
  BY <1>1, <1>2 DEF FrameOK, Top
<1>4. Len(g.bbs) \in BlocksHeld(ast'[g.n], Len(g.vals))
  BY <1>1 DEF Node, Done
<1>5. stack' = [stack EXCEPT ![Len(stack)] = g]
  BY DEF Enter, Top
<1>6. \A i \in 1..Len(g.bbs) : g.bbs[i] \in 1..Len(body')
  BY <1>1
<1> HIDE DEF g
<1> QED
  BY <1>1, <1>3, <1>4, <1>5, <1>6, SameAst, ReplaceTyped

LEMMA IfFalseSideTyped == TypeOK /\ IfFalseSide => TypeOK'
<1> SUFFICES ASSUME TypeOK, IfFalseSide PROVE TypeOK'
  OBVIOUS
<1>1. Node.op = "if" /\ Done = 2
  BY DEF IfFalseSide, Running
<1> DEFINE bbs == <<cur, Top.bbs[2], Top.bbs[3]>>
<1>2. /\ body' = IF IsTerm(Last) THEN body ELSE Emit(body, cur, Jump(bbs[3]))
      /\ cur' = bbs[2] /\ Continue /\ UNCHANGED <<ast, labels, mapped>>
      /\ IF Len(Node.kids) = 3
         THEN Descend(3, bbs)
         ELSE stack' = [stack EXCEPT ![Len(stack)].bbs = bbs,
                                     ![Len(stack)].vals = Append(@, Null)]
  BY DEF IfFalseSide
<1>3. \A i \in 1..3 : Top.bbs[i] \in 1..Len(body)
  BY <1>1, IfHasOperands
<1>4. bbs[1] \in 1..Len(body) /\ bbs[2] \in 1..Len(body) /\ bbs[3] \in 1..Len(body)
  BY <1>3, BodyOwned
<1>5. bbs \in Seq(Nat) /\ Len(bbs) = 3 /\ \A i \in 1..Len(bbs) : bbs[i] \in 1..Len(body)
  BY <1>4
<1> HIDE DEF bbs
<1>6. Owned(body', Len(ast)) /\ Len(body') = Len(body)
  <2>1. CASE IsTerm(Last)
    BY <1>2, <2>1, BodyOwned
  <2>2. CASE ~IsTerm(Last)
    <3>1. Jump(bbs[3]) \in Insts
      BY <1>4, TopTyped, JumpTyped
    <3>2. /\ Owned(Emit(body, cur, Jump(bbs[3])), Len(ast))
          /\ Len(Emit(body, cur, Jump(bbs[3]))) = Len(body)
      BY <3>1, BodyOwned, EmitOwned
    <3> QED
      BY <1>2, <2>2, <3>2
  <2> QED
    BY <2>1, <2>2
<1>7. AstOK' /\ KeepsShape /\ Len(ast) <= Len(ast') /\ ast' = ast
  BY <1>2, SameAst
<1>a. Len(body) <= Len(body')
  BY <1>6, BodyOwned
<1>8. BodyOK'
  BY <1>2, <1>4, <1>6, <1>7, BodyTyped DEF Owned
<1>9. StackOK'
  <2>1. CASE Len(Node.kids) = 3
    <3>1. /\ 3 \in Nat /\ 3 = Done + 1 /\ 3 <= Len(Node.kids) /\ Descend(3, bbs)
          /\ 3 <= MostValues(Node)
      BY <1>1, <1>2, <2>1 DEF MostValues
    <3>2. Len(bbs) \in BlocksHeld(Node, 3)
      BY <1>1, <1>5 DEF BlocksHeld
    <3>3. \A i \in 1..Len(bbs) : bbs[i] \in 1..Len(body')
      BY <1>5, <1>6
    <3> QED
      BY <1>5, <1>a, <1>7, <3>1, <3>2, <3>3, DescendTyped
  <2>2. CASE Len(Node.kids) # 3
    <3> DEFINE h == [Top EXCEPT !.bbs = bbs]
               g == [h EXCEPT !.vals = Append(h.vals, Null)]
    <3>1. h \in Frames /\ h.n = Top.n /\ h.bbs = bbs /\ h.vals = Top.vals
      BY <1>5, TopTyped, FrameBbs
    <3>2. /\ g \in Frames /\ g.n = Top.n /\ g.bbs = bbs /\ Len(g.vals) = Len(Top.vals) + 1
      BY <3>1, ConstTyped, FrameVals, ZenonT(40)
    <3>3. stack' = [stack EXCEPT ![Len(stack)] = g]
      BY <1>2, <2>2, TopTyped DEF Top, Frames, StackOK, TypeOK
    <3>4. Len(g.vals) = 3
      BY <3>2, <1>1 DEF Done
    <3>5. g.n \in 1..Len(ast') /\ (g.n > 1 <=> Len(stack) > 1)
      <4>1. FrameOK(Len(stack))
        BY TopTyped DEF TypeOK, StackOK
      <4> QED
        BY <4>1, <3>2, <1>7 DEF FrameOK, Top
    <3>6. Len(g.vals) <= MostValues(ast'[g.n])
      BY <1>1, <1>7, <3>2, <3>4 DEF MostValues, Node
    <3>7. Len(g.bbs) \in BlocksHeld(ast'[g.n], Len(g.vals))
      BY <1>1, <1>5, <1>7, <3>2, <3>4 DEF BlocksHeld, Node
    <3>8. \A i \in 1..Len(g.bbs) : g.bbs[i] \in 1..Len(body')
      BY <3>2, <1>5, <1>6
    <3> HIDE DEF g, h
    <3> QED
      BY <1>a, <1>7, <3>2, <3>3, <3>5, <3>6, <3>7, <3>8, ReplaceTyped
  <2> QED
    BY <2>1, <2>2
<1> QED
  BY <1>2, <1>7, <1>8, <1>9, StatusTyped

LEMMA IfMergeTyped == TypeOK /\ IfMerge => TypeOK'
<1> SUFFICES ASSUME TypeOK, IfMerge PROVE TypeOK'
  OBVIOUS
<1>1. Node.op = "if" /\ Done = 3 /\ Len(stack) > 1
  BY NotFunc DEF IfMerge, Running
<1>2. CASE Crash
  BY <1>2, CrashTyped
<1>3. CASE ~Crash
  <2> DEFINE tv     == Top.vals[2]
             fv     == Top.vals[3]
             end    == Top.bbs[3]
             jumped == Emit(body, cur, Jump(end))
             phi    == Inst("phi", <<tv, fv>>, <<>>, <<Top.bbs[1], cur>>)
             merges == tv.ty \notin {"null", "term"} /\ fv # Null /\ Node.merge
             value  == CASE tv.ty \in {"null", "term"} -> fv
                         [] merges                     -> [ty |-> tv.ty, at |-> end]
                         [] OTHER                      -> tv
  <2>1. /\ body' = IF merges THEN Emit(jumped, end, phi) ELSE jumped
        /\ cur' = end /\ Return(value) /\ Continue /\ UNCHANGED <<ast, labels, mapped>>
    BY <1>3 DEF IfMerge
  <2>2. tv \in Values /\ fv \in Values
    <3>1. Top.vals \in Seq(Values) /\ 2 \in 1..Len(Top.vals) /\ 3 \in 1..Len(Top.vals)
      BY <1>1, TopTyped DEF Frames, Done
    <3> QED
      BY <3>1
  <2>3. \A i \in 1..3 : Top.bbs[i] \in 1..Len(body)
    BY <1>1, IfHasOperands
  <2>4. end \in 1..Len(body) /\ end \in Nat /\ Top.bbs[1] \in Nat /\ cur \in Nat
    BY <2>3, BodyOwned
  <2>5. value \in Values
    BY <2>2, <2>4 DEF Values
  <2>6. Jump(end) \in Insts /\ phi \in Insts
    <3>1. <<tv, fv>> \in Seq(Values) /\ <<Top.bbs[1], cur>> \in Seq(Nat)
      BY <2>2, <2>4
    <3> QED
      BY <3>1, <2>4, <2>2, InstTyped, JumpTyped
  <2> HIDE DEF tv, fv, end, phi, merges, value
  <2>7. Owned(jumped, Len(ast)) /\ Len(jumped) = Len(body)
    BY <2>6, BodyOwned, EmitOwned
  <2> HIDE DEF jumped
  <2>8. Owned(body', Len(ast)) /\ Len(body') = Len(body)
    <3>1. end \in 1..Len(jumped) /\ Len(ast) \in Nat
      BY <2>4, <2>7, BodyOwned
    <3>2. Owned(Emit(jumped, end, phi), Len(ast)) /\ Len(Emit(jumped, end, phi)) = Len(jumped)
      BY <3>1, <2>6, <2>7, EmitOwned
    <3> QED
      BY <2>1, <2>7, <3>2
  <2>9. AstOK' /\ KeepsShape /\ Len(ast) <= Len(ast') /\ ast' = ast
    BY <2>1, SameAst
  <2>10. Len(body) <= Len(body')
    BY <2>8, BodyOwned
  <2>11. BodyOK'
    BY <2>1, <2>4, <2>8, <2>9, <2>10, BodyTyped DEF Owned
  <2>12. StackOK'
    BY <1>1, <2>1, <2>5, <2>9, <2>10, ReturnTyped
  <2> QED
    BY <2>1, <2>9, <2>11, <2>12, StatusTyped
<1> QED
  BY <1>2, <1>3

LEMMA NewNodeTyped ==
  ASSUME NEW op \in Ops, NEW kids \in Seq(Nat)
  PROVE  /\ NewNode(op, kids) \in Nodes
         /\ NewNode(op, kids).op = op /\ NewNode(op, kids).kids = kids
         /\ op # "switch" => TableOK(NewNode(op, kids))
<1>1. NewNode(op, kids) \in Nodes
  <2>1. NoName \in LabelNames /\ <<>> \in Seq(Incomings) /\ <<>> \in Seq(Nat)
    BY DEF LabelNames
  <2> QED
    BY <2>1 DEF NewNode, Nodes
<1> QED
  BY <1>1 DEF NewNode, TableOK

(***************************************************************************)
(* What HandleDivRem appends to ast.                                       *)
(***************************************************************************)
LEMMA HandleDivRemAst ==
  ASSUME TypeOK, HandleDivRem
  PROVE  /\ AstOK' /\ KeepsShape /\ Len(ast) <= Len(ast')
         /\ Len(ast) + 9 \in 1..Len(ast') /\ ast'[Len(ast) + 9].op = "if"
<1>a. PICK m \in Nat : m = Len(ast)
  BY BodyOwned
<1> DEFINE l == Node.kids[1]
           r == Node.kids[2]
           new == << NewNode("const", <<>>), NewNode("cmp", <<l, m + 1>>),
                     NewNode("const", <<>>), NewNode("bin", <<l, r>>),
                     NewNode("if", <<m + 2, m + 3, m + 4>>),
                     NewNode("const", <<>>), NewNode("cmp", <<r, m + 6>>),
                     NewNode("bin", <<l, r>>), NewNode("if", <<m + 7, m + 5, m + 8>>) >>
<1>1. /\ Node.op = "divrem" /\ ast' = ast \o new
      /\ stack' = [stack EXCEPT ![Len(stack)].n = m + 9]
      /\ Continue /\ UNCHANGED <<body, cur, labels, mapped>>
  BY <1>a DEF HandleDivRem, Running
<1>2. l \in 2..m /\ r \in 2..m
  <2>1. Len(Node.kids) >= 2
    <3>1. \A k \in Arities("divrem") : k >= 2
      BY DEF Arities
    <3> QED
      BY <3>1, <1>1, ArityOfTop
  <2>2. Node.kids \in Seq(Nat)
    BY TopTyped DEF Nodes
  <2>3. 1 \in 1..Len(Node.kids) /\ 2 \in 1..Len(Node.kids)
    BY <2>1, <2>2
  <2> QED
    BY <2>3, <1>a, TopTyped DEF TypeOK, AstOK, Node
<1> HIDE DEF l, r
<1> DEFINE Good(x) == /\ x \in Nodes /\ x.op # "func" /\ Len(x.kids) \in Arities(x.op)
                      /\ TableOK(x)
                      /\ \A i \in 1..Len(x.kids) : x.kids[i] \in 2..(m + 9)
<1>3. Good(NewNode("const", <<>>))
  <2>0. "const" \in Ops /\ <<>> \in Seq(Nat)
    BY DEF Ops
  <2>1. NewNode("const", <<>>).kids = <<>> /\ NewNode("const", <<>>).op = "const"
        /\ NewNode("const", <<>>) \in Nodes /\ TableOK(NewNode("const", <<>>))
    BY <2>0, NewNodeTyped
  <2> HIDE DEF NewNode
  <2>2. Len(<<>>) \in Arities("const")
    BY DEF Arities
  <2> QED
    BY <2>1, <2>2
<1>4. ASSUME NEW op \in {"cmp", "bin"}, NEW x \in 2..(m + 9), NEW y \in 2..(m + 9)
      PROVE  Good(NewNode(op, <<x, y>>))
  <2>1. <<x, y>> \in Seq(Nat) /\ op \in Ops
    BY DEF Ops
  <2>2. NewNode(op, <<x, y>>).kids = <<x, y>> /\ NewNode(op, <<x, y>>).op = op
        /\ NewNode(op, <<x, y>>) \in Nodes /\ TableOK(NewNode(op, <<x, y>>))
    BY <2>1, NewNodeTyped
  <2>3. Len(<<x, y>>) \in Arities(op)
    BY DEF Arities
  <2>4. \A i \in 1..Len(<<x, y>>) : <<x, y>>[i] \in 2..(m + 9)
    OBVIOUS
  <2>5. op # "func"
    OBVIOUS
  <2> HIDE DEF NewNode
  <2> QED
    BY <2>2, <2>3, <2>4, <2>5
<1>5. ASSUME NEW x \in 2..(m + 9), NEW y \in 2..(m + 9), NEW z \in 2..(m + 9)
      PROVE  Good(NewNode("if", <<x, y, z>>))
  <2>1. <<x, y, z>> \in Seq(Nat) /\ "if" \in Ops
    BY DEF Ops
  <2>2. NewNode("if", <<x, y, z>>).kids = <<x, y, z>> /\ NewNode("if", <<x, y, z>>).op = "if"
        /\ NewNode("if", <<x, y, z>>) \in Nodes /\ TableOK(NewNode("if", <<x, y, z>>))
    BY <2>1, NewNodeTyped
  <2>3. Len(<<x, y, z>>) \in Arities("if")
    BY DEF Arities
  <2>4. \A i \in 1..Len(<<x, y, z>>) : <<x, y, z>>[i] \in 2..(m + 9)
    OBVIOUS
  <2>5. "if" # "func"
    OBVIOUS
  <2> HIDE DEF NewNode
  <2> QED
    BY <2>2, <2>3, <2>4, <2>5
<1>6. Len(new) = 9 /\ \A i \in 1..9 : Good(new[i])
  <2>1. /\ l \in 2..(m + 9) /\ r \in 2..(m + 9) /\ m + 1 \in 2..(m + 9)
        /\ m + 2 \in 2..(m + 9) /\ m + 3 \in 2..(m + 9) /\ m + 4 \in 2..(m + 9)
        /\ m + 5 \in 2..(m + 9) /\ m + 6 \in 2..(m + 9) /\ m + 7 \in 2..(m + 9)
        /\ m + 8 \in 2..(m + 9)
    BY <1>2
  <2>2. /\ Good(NewNode("cmp", <<l, m + 1>>)) /\ Good(NewNode("bin", <<l, r>>))
        /\ Good(NewNode("cmp", <<r, m + 6>>))
    BY <2>1, <1>4
  <2>3. /\ Good(NewNode("if", <<m + 2, m + 3, m + 4>>))
        /\ Good(NewNode("if", <<m + 7, m + 5, m + 8>>))
    BY <2>1, <1>5
  <2> HIDE DEF Good, NewNode
  <2> QED
    BY <1>3, <2>2, <2>3
<1>7. /\ ast' \in Seq(Nodes) /\ Len(ast') = m + 9
      /\ \A i \in 1..m : ast'[i] = ast[i]
      /\ \A i \in 1..9 : ast'[m + i] = new[i]
      /\ new[9].op = "if"
  <2>1. new \in Seq(Nodes)
    BY <1>6
  <2>2. new[9].op = "if"
    BY DEF NewNode
  <2>3. ast \in Seq(Nodes)
    BY DEF TypeOK, AstOK
  <2> HIDE DEF new, Good
  <2>4. /\ ast \o new \in Seq(Nodes) /\ Len(ast \o new) = Len(ast) + Len(new)
        /\ \A i \in 1..Len(ast) : (ast \o new)[i] = ast[i]
        /\ \A i \in 1..Len(new) : (ast \o new)[Len(ast) + i] = new[i]
    BY <2>1, <2>3, ConcatTyped
  <2>5. Len(new) = 9
    BY <1>6
  <2> QED
    BY <2>2, <2>4, <2>5, <1>1, <1>a
<1> HIDE DEF new
<1>8. AstOK'
  <2>1. ast'[1].op = "func" /\ Len(ast') > 0
    BY <1>2, <1>7, <1>a, SMTT(30) DEF TypeOK, AstOK
  <2>2. ASSUME NEW n \in 1..m
        PROVE  /\ n > 1 => ast'[n].op # "func"
               /\ Len(ast'[n].kids) \in Arities(ast'[n].op)
               /\ \A i \in 1..Len(ast'[n].kids) : ast'[n].kids[i] \in 2..(m + 9)
               /\ TableOK(ast'[n])
    <3>1. ast'[n] = ast[n]
      BY <1>7
    <3>2. /\ n > 1 => ast[n].op # "func"
          /\ Len(ast[n].kids) \in Arities(ast[n].op)
          /\ \A i \in 1..Len(ast[n].kids) : ast[n].kids[i] \in 2..m
          /\ TableOK(ast[n])
      BY <1>a DEF TypeOK, AstOK
    <3>3. 2..m \subseteq 2..(m + 9)
      OBVIOUS
    <3> QED
      BY <3>1, <3>2, <3>3
  <2>3. ASSUME NEW n \in (m + 1)..(m + 9)
        PROVE  /\ ast'[n].op # "func"
               /\ Len(ast'[n].kids) \in Arities(ast'[n].op)
               /\ \A i \in 1..Len(ast'[n].kids) : ast'[n].kids[i] \in 2..(m + 9)
               /\ TableOK(ast'[n])
    <3>1. n - m \in 1..9 /\ n = m + (n - m)
      OBVIOUS
    <3> QED
      BY <3>1, <1>6, <1>7, ZenonT(40)
  <2>4. \A n \in 1..(m + 9) : n \in 1..m \/ n \in (m + 1)..(m + 9)
    OBVIOUS
  <2> HIDE DEF Good
  <2> QED
    BY <1>7, <2>1, <2>2, <2>3, <2>4 DEF AstOK
<1>9. KeepsShape /\ Len(ast) <= Len(ast')
  BY <1>7, <1>a, SMTT(30) DEF KeepsShape
<1> QED
  BY <1>7, <1>8, <1>9, <1>a, SMTT(30)

LEMMA HandleDivRemTyped == TypeOK /\ HandleDivRem => TypeOK'
<1> SUFFICES ASSUME TypeOK, HandleDivRem PROVE TypeOK'
  OBVIOUS
<1>a. PICK m \in Nat : m = Len(ast)
  BY BodyOwned
<1>1. /\ Node.op = "divrem"
      /\ stack' = [stack EXCEPT ![Len(stack)].n = m + 9]
      /\ Continue /\ UNCHANGED <<body, cur, labels, mapped>>
  BY <1>a DEF HandleDivRem, Running
<1>3. /\ AstOK' /\ KeepsShape /\ Len(ast) <= Len(ast')
      /\ m + 9 \in 1..Len(ast') /\ ast'[m + 9].op = "if"
  BY <1>a, HandleDivRemAst
<1>4. BodyOK'
  BY <1>1, <1>3, SameBody
<1>5. StackOK'
  <2> DEFINE g == [Top EXCEPT !.n = m + 9]
  <2>1. g \in Frames /\ g.n = m + 9 /\ g.bbs = Top.bbs /\ g.vals = Top.vals
    <3>1. Top \in Frames /\ m + 9 \in Nat
      BY TopTyped
    <3> QED
      BY <3>1 DEF Frames
  <2>2. stack' = [stack EXCEPT ![Len(stack)] = g]
    BY <1>1 DEF Top
  <2> HIDE DEF g
  <2>3. FrameOK(Len(stack)) /\ Top.vals \in Seq(Values) /\ ~(Len(stack) < Len(stack))
    BY TopTyped, SMTT(20) DEF TypeOK, StackOK, Frames
  <2>4. /\ Len(Top.vals) <= MostValues(Node)
        /\ \A i \in 1..Len(Top.bbs) : Top.bbs[i] \in 1..Len(body)
        /\ Len(Top.bbs) \in BlocksHeld(Node, Begun(Len(stack)))
    BY <2>3 DEF FrameOK, Top, Node
  <2>5. Len(Top.vals) <= 0 /\ Len(Top.vals) \in Nat
    BY <2>3, <2>4, <1>1 DEF MostValues
  <2>7. ast'[g.n].op = "if" /\ g.n \in 1..Len(ast')
    BY <2>1, <1>3
  <2>6. Len(Top.bbs) \in BlocksHeld(ast'[g.n], Len(g.vals))
    BY <2>1, <2>4, <2>5, <2>7, <1>1 DEF BlocksHeld
  <2>8. Len(g.vals) <= MostValues(ast'[g.n])
    BY <2>1, <2>5, <2>7 DEF MostValues
  <2>9. g.n > 1 <=> Len(stack) > 1
    BY <2>1, <1>1, TopTyped
  <2>10. Len(body) <= Len(body') /\ \A i \in 1..Len(g.bbs) : g.bbs[i] \in 1..Len(body')
    BY <2>1, <2>4, <1>1
  <2> QED
    BY <1>3, <2>1, <2>2, <2>6, <2>7, <2>8, <2>9, <2>10, ReplaceTyped
<1> QED
  BY <1>1, <1>3, <1>4, <1>5, StatusTyped

(***************************************************************************)
(* Named expressions.                                                      *)
(***************************************************************************)
LEMMA LabelEnterTyped == TypeOK /\ LabelEnter => TypeOK'
<1> SUFFICES ASSUME TypeOK, LabelEnter PROVE TypeOK'
  OBVIOUS
<1>a. PICK x \in Nat : x = Len(body) + 1
  BY BodyOwned
<1>1. /\ Node.op = "label" /\ ~Entered
      /\ body' = Append(body, NewBlock(Top.n)) /\ PushLabel(Node.name, x) /\ Enter(<<x>>)
      /\ Continue /\ UNCHANGED <<ast, cur>>
  BY <1>a DEF LabelEnter, Running
<1>2. NewBlock(Top.n) \in Blocks /\ NewBlock(Top.n).owner = Top.n /\ Top.n \in 0..Len(ast)
  BY TopTyped, BodyOwned DEF NewBlock, Blocks
<1> HIDE DEF NewBlock
<1>3. body' \in Seq(Blocks) /\ Len(body') = Len(body) + 1 /\ Len(body) <= Len(body')
      /\ \A b \in 1..Len(body') : body'[b].owner \in 0..Len(ast)
  <2>1. /\ body' \in Seq(Blocks) /\ Len(body') = Len(body) + 1
        /\ \A b \in 1..Len(body) : body'[b] = body[b]
        /\ body'[Len(body) + 1] = NewBlock(Top.n)
    BY <1>1, <1>2, BodyOwned, AppendTyped DEF Owned
  <2> QED
    BY <2>1, <1>2, BodyOwned DEF Owned
<1>4. AstOK' /\ ast' = ast /\ Len(ast) <= Len(ast')
  BY <1>1, SameAst
<1>5. x \in 1..Len(body') /\ cur' \in 1..Len(body')
  BY <1>a, <1>1, <1>3, BodyOwned
<1>6. labels' \in Seq(1..Len(body')) /\ mapped' \in [LabelNames -> 0..Len(body')]
  <2>1. labels \in Seq(1..Len(body)) /\ mapped \in [LabelNames -> 0..Len(body)]
    BY DEF TypeOK, BodyOK
  <2>2. labels \in Seq(1..Len(body')) /\ mapped \in [LabelNames -> 0..Len(body')]
    BY <2>1, <1>3, BodyOwned, LabelsGrow
  <2>3. labels' = Append(labels, x) /\ mapped' = [mapped EXCEPT ![Node.name] = x]
    BY <1>1 DEF PushLabel
  <2>4. labels' \in Seq(1..Len(body'))
    BY <2>2, <2>3, <1>5, AppendTyped
  <2>5. mapped' \in [LabelNames -> 0..Len(body')]
    <3>1. x \in 0..Len(body')
      BY <1>5
    <3> QED
      BY <2>2, <2>3, <3>1
  <2> QED
    BY <2>4, <2>5
<1>7. BodyOK'
  BY <1>1, <1>3, <1>4, <1>5, <1>6, BodyTyped
<1>8. StackOK'
  <2>0. <<x>> \in Seq(Nat)
    OBVIOUS
  <2>1. PICK bbs \in Seq(Nat) : bbs = <<x>>
    BY <2>0
  <2>2. (\A i \in 1..Len(bbs) : bbs[i] \in 1..Len(body')) /\ Len(bbs) \in BlocksHeld(Node, Done)
    BY <2>1, <1>1, <1>5 DEF BlocksHeld
  <2> QED
    BY <2>1, <2>2, <1>1, <1>3, <1>4, EnterTyped
<1> QED
  BY <1>1, <1>4, <1>7, <1>8, StatusTyped

(***************************************************************************)
(* Two blocks are added, the code and the exit of a loop or block.         *)
(***************************************************************************)
LEMMA TwoBlocksTyped ==
  ASSUME TypeOK, NEW x \in Nat, x = Len(body) + 1, UNCHANGED ast,
         body' = Emit(body, cur, Jump(x)) \o <<NewBlock(0), NewBlock(Top.n)>>
  PROVE  /\ Owned(body', Len(ast')) /\ Len(body') = Len(body) + 2 /\ Len(body) <= Len(body')
         /\ x \in 1..Len(body') /\ x + 1 \in 1..Len(body')
         /\ labels \in Seq(1..Len(body')) /\ mapped \in [LabelNames -> 0..Len(body')]
<1> DEFINE bs  == Emit(body, cur, Jump(x))
           new == <<NewBlock(0), NewBlock(Top.n)>>
<1>1. Owned(bs, Len(ast)) /\ Len(bs) = Len(body)
  BY TopTyped, JumpTyped, BodyOwned, EmitOwned
<1>2. Owned(new, Len(ast)) /\ Len(new) = 2
  <2>1. Top.n \in 0..Len(ast) /\ 0 \in 0..Len(ast) /\ Len(ast) \in Nat
    BY TopTyped, BodyOwned
  <2> QED
    BY <2>1, NewBlockOwned
<1>3. body' = bs \o new /\ Len(ast) \in Nat /\ ast' = ast
  BY BodyOwned
<1> HIDE DEF bs, new
<1>4. Owned(bs \o new, Len(ast)) /\ Len(bs \o new) = Len(bs) + Len(new)
  BY <1>1, <1>2, <1>3, ConcatOwned
<1>5. Owned(body', Len(ast')) /\ Len(body') = Len(body) + 2
  BY <1>1, <1>2, <1>3, <1>4
<1>6. Len(body) <= Len(body') /\ x \in 1..Len(body') /\ x + 1 \in 1..Len(body')
  BY <1>5, BodyOwned
<1>7. labels \in Seq(1..Len(body)) /\ mapped \in [LabelNames -> 0..Len(body)]
  BY DEF TypeOK, BodyOK
<1>8. labels \in Seq(1..Len(body')) /\ mapped \in [LabelNames -> 0..Len(body')]
  BY <1>6, <1>7, BodyOwned, LabelsGrow
<1> QED
  BY <1>5, <1>6, <1>8

LEMMA LoopEnterTyped == TypeOK /\ LoopEnter => TypeOK'
<1> SUFFICES ASSUME TypeOK, LoopEnter PROVE TypeOK'
  OBVIOUS
<1>a. PICK x \in Nat : x = Len(body) + 1
  BY BodyOwned
<1>1. /\ Node.op = "loop" /\ ~Entered
      /\ body' = Emit(body, cur, Jump(x)) \o <<NewBlock(0), NewBlock(Top.n)>>
      /\ labels' = labels \o <<x + 1, x>>
      /\ mapped' = [mapped EXCEPT ![Node.exit] = x + 1, ![Node.name] = x]
      /\ cur' = x /\ Enter(<<x, x + 1>>) /\ Continue /\ UNCHANGED ast
  BY <1>a DEF LoopEnter, Running
<1>2. /\ Owned(body', Len(ast')) /\ Len(body') = Len(body) + 2 /\ Len(body) <= Len(body')
      /\ x \in 1..Len(body') /\ x + 1 \in 1..Len(body')
      /\ labels \in Seq(1..Len(body')) /\ mapped \in [LabelNames -> 0..Len(body')]
  BY <1>a, <1>1, TwoBlocksTyped
<1>3. AstOK' /\ ast' = ast /\ Len(ast) <= Len(ast')
  BY <1>1, SameAst
<1>4. labels' \in Seq(1..Len(body')) /\ mapped' \in [LabelNames -> 0..Len(body')]
  <2>1. <<x + 1, x>> \in Seq(1..Len(body'))
    BY <1>2
  <2>2. labels' \in Seq(1..Len(body'))
    BY <2>1, <1>1, <1>2, ConcatTyped
  <2>3. mapped' \in [LabelNames -> 0..Len(body')]
    <3>1. x + 1 \in 0..Len(body') /\ x \in 0..Len(body')
      BY <1>2
    <3>2. [mapped EXCEPT ![Node.exit] = x + 1] \in [LabelNames -> 0..Len(body')]
      BY <3>1, <1>2
    <3> QED
      BY <3>1, <3>2, <1>1
  <2> QED
    BY <2>2, <2>3
<1>5. BodyOK'
  BY <1>1, <1>2, <1>3, <1>4, BodyTyped DEF Owned
<1>6. StackOK'
  <2>0. <<x, x + 1>> \in Seq(Nat)
    OBVIOUS
  <2>1. PICK bbs \in Seq(Nat) : bbs = <<x, x + 1>>
    BY <2>0
  <2>2. (\A i \in 1..Len(bbs) : bbs[i] \in 1..Len(body')) /\ Len(bbs) \in BlocksHeld(Node, Done)
    BY <2>1, <1>1, <1>2 DEF BlocksHeld
  <2> QED
    BY <2>1, <2>2, <1>1, <1>2, <1>3, EnterTyped
<1> QED
  BY <1>1, <1>3, <1>5, <1>6, StatusTyped

LEMMA BlockEnterTyped == TypeOK /\ BlockEnter => TypeOK'
<1> SUFFICES ASSUME TypeOK, BlockEnter PROVE TypeOK'
  OBVIOUS
<1>a. PICK x \in Nat : x = Len(body) + 1
  BY BodyOwned
<1>1. /\ Node.op = "block" /\ ~Entered
      /\ body' = Emit(body, cur, Jump(x)) \o <<NewBlock(0), NewBlock(Top.n)>>
      /\ labels' = Append(labels, x + 1)
      /\ mapped' = [mapped EXCEPT ![Node.name] = x + 1]
      /\ cur' = x /\ Enter(<<x, x + 1>>) /\ Continue /\ UNCHANGED ast
  BY <1>a DEF BlockEnter, Running, PushLabel
<1>2. /\ Owned(body', Len(ast')) /\ Len(body') = Len(body) + 2 /\ Len(body) <= Len(body')
      /\ x \in 1..Len(body') /\ x + 1 \in 1..Len(body')
      /\ labels \in Seq(1..Len(body')) /\ mapped \in [LabelNames -> 0..Len(body')]
  BY <1>a, <1>1, TwoBlocksTyped
<1>3. AstOK' /\ ast' = ast /\ Len(ast) <= Len(ast')
  BY <1>1, SameAst
<1>4. labels' \in Seq(1..Len(body')) /\ mapped' \in [LabelNames -> 0..Len(body')]
  <2>1. labels' \in Seq(1..Len(body'))
    BY <1>1, <1>2, AppendTyped
  <2>2. mapped' \in [LabelNames -> 0..Len(body')]
    <3>1. x + 1 \in 0..Len(body')
      BY <1>2
    <3> QED
      BY <3>1, <1>1, <1>2
  <2> QED
    BY <2>1, <2>2
<1>5. BodyOK'
  BY <1>1, <1>2, <1>3, <1>4, BodyTyped DEF Owned
<1>6. StackOK'
  <2>0. <<x, x + 1>> \in Seq(Nat)
    OBVIOUS
  <2>1. PICK bbs \in Seq(Nat) : bbs = <<x, x + 1>>
    BY <2>0
  <2>2. (\A i \in 1..Len(bbs) : bbs[i] \in 1..Len(body')) /\ Len(bbs) \in BlocksHeld(Node, Done)
    BY <2>1, <1>1, <1>2 DEF BlocksHeld
  <2> QED
    BY <2>1, <2>2, <1>1, <1>2, <1>3, EnterTyped
<1> QED
  BY <1>1, <1>3, <1>5, <1>6, StatusTyped

(***************************************************************************)
(* Incoming values.                                                        *)
(***************************************************************************)
LEMMA IncomingTyped ==
  ASSUME TypeOK, NEW n \in 0..Len(ast), NEW v \in Values, NEW b \in Nat,
         ast' = AddIncomingPhi(ast, n, v, b)
  PROVE  AstOK' /\ KeepsShape /\ Len(ast') = Len(ast)
<1>1. CASE ast' = ast
  BY <1>1, SameAst
<1>2. CASE ast' # ast
  <2> DEFINE x == [ast[n] EXCEPT !.incoming = Append(ast[n].incoming, [val |-> v, from |-> b])]
  <2>1. n \in 1..Len(ast) /\ ast' = [ast EXCEPT ![n] = x]
    BY <1>2, BodyOwned DEF AddIncomingPhi
  <2>2. ast[n] \in Nodes /\ ast \in Seq(Nodes)
    BY <2>1 DEF TypeOK, AstOK
  <2>3. Append(ast[n].incoming, [val |-> v, from |-> b]) \in Seq(Incomings)
    <3>1. [val |-> v, from |-> b] \in Incomings
      BY DEF Incomings
    <3>2. ast[n].incoming \in Seq(Incomings)
      BY <2>2 DEF Nodes
    <3> QED
      BY <3>1, <3>2, AppendTyped
  <2>4. /\ x \in Nodes /\ x.op = ast[n].op /\ x.kids = ast[n].kids
        /\ x.cases = ast[n].cases /\ x.table = ast[n].table
    BY <2>2, <2>3 DEF Nodes
  <2> HIDE DEF x
  <2>5. /\ ast' \in Seq(Nodes) /\ Len(ast') = Len(ast)
        /\ \A i \in 1..Len(ast) : ast'[i] = IF i = n THEN x ELSE ast[i]
    BY <2>1, <2>2, <2>4, ExceptTyped
  <2>6. KeepsShape
    BY <2>4, <2>5, BodyOwned DEF KeepsShape
  <2>7. AstOK'
    BY <2>5, <2>6, ShapeTyped
  <2> QED
    BY <2>5, <2>6, <2>7
<1> QED
  BY <1>1, <1>2

LEMMA PhiTyped ==
  ASSUME TypeOK, NEW in \in Seq(Incomings), NEW x \in Nat
  PROVE  PhiInst(in) \in Insts /\ (PhiOk(in) => PhiValue(in, x) \in Values)
<1>1. \A i \in 1..Len(in) : in[i] \in Incomings
  OBVIOUS
<1>2. \A i \in 1..Len(in) : in[i].val \in Values /\ in[i].from \in Nat
  BY <1>1 DEF Incomings
<1> DEFINE args == [i \in 1..Len(in) |-> in[i].val]
           from == [i \in 1..Len(in) |-> in[i].from]
<1>3. args \in Seq(Values) /\ from \in Seq(Nat)
  BY <1>2
<1> HIDE DEF args, from
<1>4. Inst("phi", args, <<>>, from) \in Insts
  BY <1>3, InstTyped
<1>5. PhiInst(in) \in Insts
  BY <1>4 DEF PhiInst, args, from
<1>6. PhiValue(in, x) \in Values
  <2>1. CASE Len(in) = 0
    BY <2>1, ConstTyped DEF PhiValue
  <2>2. CASE Len(in) # 0
    <3>1. 1 \in 1..Len(in)
      BY <2>2
    <3>2. in[1].val \in Values /\ [ty |-> in[1].val.ty, at |-> x] \in Values
      BY <3>1, <1>2 DEF Values
    <3> QED
      BY <2>2, <3>2 DEF PhiValue
  <2> QED
    BY <2>1, <2>2
<1> QED
  BY <1>5, <1>6

LEMMA PopTyped ==
  ASSUME NEW S, NEW s \in Seq(S), NEW k \in Nat
  PROVE  SubSeq(s, 1, Len(s) - k) \in Seq(S)
<1>1. CASE k <= Len(s)
  <2>1. Len(s) - k \in 0..Len(s)
    BY <1>1
  <2> QED
    BY <2>1, SubSeqTyped
<1>2. CASE ~(k <= Len(s))
  <2>1. SubSeq(s, 1, Len(s) - k) = <<>>
    BY <1>2
  <2> QED
    BY <2>1
<1> QED
  BY <1>1, <1>2

(***************************************************************************)
(* The end of a named expression.                                          *)
(***************************************************************************)
LEMMA LeaveToTyped ==
  ASSUME TypeOK, Len(stack) > 1, NEW x \in 1..Len(body), NEW v \in Values, NEW jumps,
         NEW pops \in Nat, LeaveTo(x, v, jumps, pops)
  PROVE  TypeOK'
<1>1. CASE Crash
  BY <1>1, CrashTyped
<1>2. CASE ~Crash
  <2> DEFINE nodes  == AddIncomingPhi(ast, Top.n, v, cur)
             in     == nodes[Top.n].incoming
             jumped == IF jumps THEN Emit(body, cur, Jump(x)) ELSE body
  <2>1. /\ PhiOk(in) /\ ast' = nodes /\ body' = EmitPhi(jumped, x, in) /\ cur' = x
        /\ Return(PhiValue(in, x)) /\ PopLabels(pops) /\ Continue
    BY <1>2 DEF LeaveTo
  <2>2. AstOK' /\ KeepsShape /\ Len(ast') = Len(ast)
    <3>1. Top.n \in 0..Len(ast) /\ cur \in Nat
      BY TopTyped, BodyOwned
    <3> QED
      BY <3>1, <2>1, IncomingTyped
  <2>3. in \in Seq(Incomings)
    <3>1. Top.n \in 1..Len(ast')
      BY <2>2, TopTyped
    <3>2. ast'[Top.n] \in Nodes
      BY <3>1, <2>2 DEF AstOK
    <3> QED
      BY <3>2, <2>1 DEF Nodes
  <2>4. x \in Nat /\ Jump(x) \in Insts
    BY BodyOwned, TopTyped, JumpTyped
  <2> HIDE DEF nodes, in
  <2>5. Owned(jumped, Len(ast)) /\ Len(jumped) = Len(body)
    BY <2>4, BodyOwned, EmitOwned
  <2> HIDE DEF jumped
  <2>6. PhiInst(in) \in Insts /\ PhiValue(in, x) \in Values
    BY <2>1, <2>3, <2>4, PhiTyped
  <2>7. Owned(body', Len(ast)) /\ Len(body') = Len(body)
    <3>1. x \in 1..Len(jumped) /\ Len(ast) \in Nat
      BY <2>5, BodyOwned
    <3>2. /\ Owned(Emit(jumped, x, PhiInst(in)), Len(ast))
          /\ Len(Emit(jumped, x, PhiInst(in))) = Len(jumped)
      BY <3>1, <2>5, <2>6, EmitOwned
    <3> QED
      BY <3>2, <2>1, <2>5 DEF EmitPhi
  <2>8. Len(body) <= Len(body') /\ Len(ast) <= Len(ast') /\ cur' \in 1..Len(body')
    BY <2>1, <2>2, <2>7, BodyOwned
  <2>9. labels' \in Seq(1..Len(body')) /\ mapped' \in [LabelNames -> 0..Len(body')]
    <3>1. labels \in Seq(1..Len(body)) /\ mapped \in [LabelNames -> 0..Len(body)]
      BY DEF TypeOK, BodyOK
    <3>2. SubSeq(labels, 1, Len(labels) - pops) \in Seq(1..Len(body))
      BY <3>1, PopTyped
    <3> QED
      BY <3>1, <3>2, <2>1, <2>7 DEF PopLabels
  <2>10. BodyOK'
    BY <2>2, <2>7, <2>8, <2>9, BodyTyped DEF Owned
  <2>11. StackOK'
    BY <2>1, <2>2, <2>6, <2>8, ReturnTyped
  <2> QED
    BY <2>1, <2>2, <2>10, <2>11, StatusTyped
<1> QED
  BY <1>1, <1>2

(***************************************************************************)
(* The blocks a named expression or a break holds once it has entered.     *)
(***************************************************************************)
LEMMA EnteredHolds ==
  ASSUME TypeOK, Entered
  PROVE  /\ Node.op \in {"label", "br", "br_if"} => Top.bbs[1] \in 1..Len(body)
         /\ Node.op \in {"loop", "block"} => Top.bbs[1] \in 1..Len(body) /\ Top.bbs[2] \in 1..Len(body)
<1>1. FrameOK(Len(stack)) /\ Top.bbs \in Seq(Nat)
  BY TopTyped, SMTT(20) DEF TypeOK, StackOK, Frames
<1>2. /\ \A i \in 1..Len(Top.bbs) : Top.bbs[i] \in 1..Len(body)
      /\ Len(Top.bbs) \in BlocksHeld(Node, Begun(Len(stack)))
  BY <1>1 DEF FrameOK, Top, Node
<1>3. ASSUME Top.bbs # <<>> PROVE Len(Top.bbs) >= 1
  BY <1>1, <1>3
<1>4. ASSUME Node.op \in {"label", "br", "br_if"} PROVE Top.bbs[1] \in 1..Len(body)
  <2>1. Len(Top.bbs) >= 1
    BY <1>3, <1>4 DEF Entered
  <2> QED
    BY <2>1, <1>1, <1>2
<1>5. ASSUME Node.op \in {"loop", "block"}
      PROVE  Top.bbs[1] \in 1..Len(body) /\ Top.bbs[2] \in 1..Len(body)
  <2>1. Len(Top.bbs) >= 1
    BY <1>3, <1>5 DEF Entered
  <2>2. \A k \in BlocksHeld(Node, Begun(Len(stack))) : k >= 1 => k >= 2
    BY <1>5 DEF BlocksHeld
  <2>3. Len(Top.bbs) >= 2
    BY <2>1, <2>2, <1>2
  <2> QED
    BY <2>3, <1>1, <1>2
<1> QED
  BY <1>4, <1>5

LEMMA LabelExitTyped == TypeOK /\ LabelExit => TypeOK'
<1> SUFFICES ASSUME TypeOK, LabelExit PROVE TypeOK'
  OBVIOUS
<1>1. Len(stack) > 1
  BY NotFunc DEF LabelExit
<1>2. Node.op = "label" /\ Entered /\ LeaveTo(Top.bbs[1], Last, TRUE, 1)
  BY DEF LabelExit, Running, OperandsDone
<1>3. Top.bbs[1] \in 1..Len(body) /\ Last \in Values /\ 1 \in Nat
  BY <1>2, EnteredHolds, TopTyped
<1> QED
  BY <1>1, <1>2, <1>3, LeaveToTyped

LEMMA LoopExitTyped == TypeOK /\ LoopExit => TypeOK'
<1> SUFFICES ASSUME TypeOK, LoopExit PROVE TypeOK'
  OBVIOUS
<1>1. Len(stack) > 1
  BY NotFunc DEF LoopExit
<1>2. /\ Node.op = "loop" /\ Entered
      /\ LeaveTo(Top.bbs[2], Last, Last.ty \notin {"null", "term"}, 2)
  BY DEF LoopExit, Running, OperandsDone
<1>3. Top.bbs[2] \in 1..Len(body) /\ Last \in Values /\ 2 \in Nat
  BY <1>2, EnteredHolds, TopTyped
<1> QED
  BY <1>1, <1>2, <1>3, LeaveToTyped

LEMMA BlockExitTyped == TypeOK /\ BlockExit => TypeOK'
<1> SUFFICES ASSUME TypeOK, BlockExit PROVE TypeOK'
  OBVIOUS
<1>1. Len(stack) > 1
  BY NotFunc DEF BlockExit
<1>2. Node.op = "block" /\ Entered /\ LeaveTo(Top.bbs[2], Last, ~Stopped, 1)
  BY DEF BlockExit, Running, OperandsDone
<1>3. Top.bbs[2] \in 1..Len(body) /\ Last \in Values /\ 1 \in Nat
  BY <1>2, EnteredHolds, TopTyped
<1> QED
  BY <1>1, <1>2, <1>3, LeaveToTyped

(***************************************************************************)
(* What a switch holds once it has entered, and what its table refers to.  *)
(***************************************************************************)
LEMMA SwitchHeld ==
  ASSUME NEW node, node.op = "switch", NEW k \in Nat, NEW n \in Nat, n = Len(node.kids)
  PROVE  BlocksHeld(node, k) =
           IF k = 0 THEN {0, 2} ELSE IF k < n THEN {k + 1, k + 2} ELSE {k + 2}
BY DEF BlocksHeld

LEMMA SwitchHolds ==
  ASSUME TypeOK, Node.op = "switch", Entered
  PROVE  /\ Top.bbs \in Seq(Nat) /\ Len(Top.bbs) \in Nat /\ Len(Top.bbs) >= 2
         /\ \A i \in 1..Len(Top.bbs) : Top.bbs[i] \in 1..Len(body)
         /\ Top.bbs[1] \in 1..Len(body) /\ Top.bbs[2] \in 1..Len(body)
         /\ Done \in Nat /\ Len(Node.kids) \in Nat /\ Done <= Len(Node.kids)
         /\ Done > 0 => Len(Top.bbs) \in {Done + 1, Done + 2}
         /\ Done = 0 => Len(Top.bbs) = 2
         /\ Done = Len(Node.kids) => Len(Top.bbs) = Done + 2
         /\ MostValues(Node) = Len(Node.kids)
<1>1. PICK n \in Nat : n = Len(Node.kids)
  <2>1. Node.kids \in Seq(Nat)
    BY TopTyped DEF Nodes
  <2> QED
    BY <2>1
<1>2. PICK k \in Nat : k = Done
  BY TopTyped
<1>3. PICK bbs \in Seq(Nat) : bbs = Top.bbs
  BY TopTyped DEF Frames
<1>4. Begun(Len(stack)) = k
  <2>1. ~(Len(stack) < Len(stack)) /\ Done \in Nat
    BY TopTyped
  <2> QED
    BY <2>1, <1>2 DEF Begun, Top, Done
<1>5. MostValues(Node) = n
  BY <1>1 DEF MostValues
<1>6. /\ \A i \in 1..Len(bbs) : bbs[i] \in 1..Len(body)
      /\ Len(bbs) \in BlocksHeld(Node, k)
      /\ k <= n
  <2>1. FrameOK(Len(stack))
    BY TopTyped DEF TypeOK, StackOK
  <2>2. /\ \A i \in 1..Len(Top.bbs) : Top.bbs[i] \in 1..Len(body)
        /\ Len(Top.bbs) \in BlocksHeld(Node, Begun(Len(stack)))
        /\ Len(Top.vals) <= MostValues(Node)
    BY <2>1 DEF FrameOK, Top, Node
  <2> QED
    BY <2>2, <1>2, <1>3, <1>4, <1>5 DEF Done
<1>7. n > 0
  <2>1. Arities("switch") = Nat \ {0}
    BY DEF Arities
  <2>2. Len(Node.kids) \in Arities("switch")
    BY ArityOfTop
  <2> QED
    BY <2>1, <2>2, <1>1
<1>8. Len(bbs) > 0 /\ Len(bbs) \in Nat
  BY <1>3 DEF Entered
<1>9. Len(bbs) \in IF k = 0 THEN {0, 2} ELSE IF k < n THEN {k + 1, k + 2} ELSE {k + 2}
  BY <1>1, <1>6, SwitchHeld
<1>10. /\ Len(bbs) >= 2
       /\ k > 0 => Len(bbs) \in {k + 1, k + 2}
       /\ k = 0 => Len(bbs) = 2
       /\ k = n => Len(bbs) = k + 2
  <2>1. CASE k = 0
    <3>1. Len(bbs) \in {0, 2}
      BY <1>9, <2>1
    <3>2. Len(bbs) = 2
      BY <3>1, <1>8
    <3>3. ~(k > 0) /\ k # n
      BY <2>1, <1>7
    <3> QED
      BY <3>2, <3>3, <2>1
  <2>2. CASE k > 0 /\ k < n
    <3>1. Len(bbs) \in {k + 1, k + 2}
      BY <1>9, <2>2
    <3> QED
      BY <3>1, <2>2
  <2>3. CASE k > 0 /\ k = n
    <3>1. Len(bbs) \in {k + 2}
      BY <1>9, <2>3
    <3> QED
      BY <3>1, <2>3
  <2> QED
    BY <2>1, <2>2, <2>3, <1>6
<1>11. bbs[1] \in 1..Len(body) /\ bbs[2] \in 1..Len(body)
  BY <1>6, <1>8, <1>10
<1> QED
  BY <1>1, <1>2, <1>3, <1>5, <1>6, <1>8, <1>10, <1>11

LEMMA TableHolds ==
  ASSUME TypeOK, Node.op = "switch"
  PROVE  /\ Node.cases \in Nat /\ Node.cases < Len(Node.kids)
         /\ Node.table \in Seq(Nat) /\ Len(Node.table) > 0
         /\ \A i \in 1..Len(Node.table) : Node.table[i] \in Nat /\ Node.table[i] < Len(Node.kids)
         /\ Default \in Nat /\ Default < Len(Node.kids)
<1>1. TableOK(Node)
  BY TopTyped DEF TypeOK, AstOK, Node
<1>2. Node.cases \in Nat /\ Node.table \in Seq(Nat)
  BY TopTyped DEF Nodes
<1>3. /\ Node.cases < Len(Node.kids) /\ Node.table # <<>>
      /\ \A i \in 1..Len(Node.table) : Node.table[i] < Len(Node.kids)
  BY <1>1 DEF TableOK
<1>4. Len(Node.table) > 0 /\ Len(Node.table) \in 1..Len(Node.table)
  BY <1>2, <1>3
<1> QED
  BY <1>2, <1>3, <1>4 DEF Default

(***************************************************************************)
(* A block is appended to those a method holds.                            *)
(***************************************************************************)
LEMMA HoldsOneMore ==
  ASSUME NEW m \in Nat, NEW s \in Seq(Nat), \A i \in 1..Len(s) : s[i] \in 1..m, NEW b \in 1..m
  PROVE  /\ Append(s, b) \in Seq(Nat) /\ Len(Append(s, b)) = Len(s) + 1
         /\ \A i \in 1..Len(Append(s, b)) : Append(s, b)[i] \in 1..m
         /\ \A i \in 1..Len(s) : Append(s, b)[i] = s[i]
<1>1. /\ Append(s, b) \in Seq(Nat) /\ Len(Append(s, b)) = Len(s) + 1
      /\ \A i \in 1..Len(s) : Append(s, b)[i] = s[i]
      /\ Append(s, b)[Len(s) + 1] = b
  BY AppendTyped
<1>2. \A i \in 1..(Len(s) + 1) : i \in 1..Len(s) \/ i = Len(s) + 1
  OBVIOUS
<1> QED
  BY <1>1, <1>2

LEMMA RecordedTyped ==
  ASSUME TypeOK, Node.op = "switch", Entered
  PROVE  /\ Recorded \in Seq(Nat) /\ Len(Recorded) = Done + 2
         /\ \A i \in 1..Len(Recorded) : Recorded[i] \in 1..Len(body)
         /\ Recorded[2] = Top.bbs[2]
<1>1. cur \in 1..Len(body) /\ Len(body) \in Nat
  BY BodyOwned
<1>2. PICK bbs \in Seq(Nat) : bbs = Top.bbs
  BY SwitchHolds
<1>3. PICK k \in Nat : k = Done
  BY SwitchHolds
<1>4. /\ \A i \in 1..Len(bbs) : bbs[i] \in 1..Len(body)
      /\ Len(bbs) \in {k + 1, k + 2} /\ Len(bbs) >= 2
  BY <1>2, <1>3, SwitchHolds, SMTT(20)
<1>5. CASE Len(bbs) < k + 2
  <2>1. Recorded = Append(bbs, cur) /\ Len(bbs) = k + 1
    BY <1>2, <1>3, <1>4, <1>5 DEF Recorded
  <2>2. /\ Append(bbs, cur) \in Seq(Nat) /\ Len(Append(bbs, cur)) = Len(bbs) + 1
        /\ \A i \in 1..Len(Append(bbs, cur)) : Append(bbs, cur)[i] \in 1..Len(body)
        /\ \A i \in 1..Len(bbs) : Append(bbs, cur)[i] = bbs[i]
    BY <1>1, <1>4, HoldsOneMore
  <2>3. 2 \in 1..Len(bbs)
    BY <1>4
  <2> QED
    BY <2>1, <2>2, <2>3, <1>2, <1>3
<1>6. CASE ~(Len(bbs) < k + 2)
  <2>1. Recorded = bbs /\ Len(bbs) = k + 2
    BY <1>2, <1>3, <1>4, <1>6 DEF Recorded
  <2> QED
    BY <2>1, <1>2, <1>3, <1>4
<1> QED
  BY <1>5, <1>6

(***************************************************************************)
(* A block is added.                                                       *)
(***************************************************************************)
LEMMA OneBlockTyped ==
  ASSUME TypeOK, NEW bs, Owned(bs, Len(ast)), Len(bs) = Len(body), NEW n \in 0..Len(ast),
         body' = Append(bs, NewBlock(n)), UNCHANGED ast,
         NEW x \in Nat, x = Len(body) + 1
  PROVE  /\ Owned(body', Len(ast')) /\ Len(body') = x /\ Len(body) <= Len(body')
         /\ x \in 1..Len(body')
         /\ \A b \in 1..Len(body) : b \in 1..Len(body')
         /\ labels \in Seq(1..Len(body')) /\ mapped \in [LabelNames -> 0..Len(body')]
<1>1. NewBlock(n) \in Blocks /\ NewBlock(n).owner = n
  BY BodyOwned DEF NewBlock, Blocks
<1> HIDE DEF NewBlock
<1>2. /\ body' \in Seq(Blocks) /\ Len(body') = Len(bs) + 1
      /\ \A b \in 1..Len(bs) : body'[b] = bs[b]
      /\ body'[Len(bs) + 1] = NewBlock(n)
  BY <1>1, AppendTyped DEF Owned
<1>3. Owned(body', Len(ast')) /\ Len(body') = x
  BY <1>1, <1>2, BodyOwned DEF Owned
<1>4. Len(body) <= Len(body') /\ x \in 1..Len(body') /\ \A b \in 1..Len(body) : b \in 1..Len(body')
  BY <1>3, BodyOwned
<1>5. labels \in Seq(1..Len(body)) /\ mapped \in [LabelNames -> 0..Len(body)]
  BY DEF TypeOK, BodyOK
<1>6. labels \in Seq(1..Len(body')) /\ mapped \in [LabelNames -> 0..Len(body')]
  BY <1>4, <1>5, <1>3, BodyOwned, LabelsGrow
<1> QED
  BY <1>3, <1>4, <1>6

(***************************************************************************)
(* The tableswitch.                                                        *)
(***************************************************************************)
LEMMA SwitchEnterTyped == TypeOK /\ SwitchEnter => TypeOK'
<1> SUFFICES ASSUME TypeOK, SwitchEnter PROVE TypeOK'
  OBVIOUS
<1>a. PICK x \in Nat : x = Len(body) + 1
  BY BodyOwned
<1>1. /\ Node.op = "switch" /\ ~Entered
      /\ body' = Append(body, NewBlock(Top.n)) /\ PushLabel(Node.name, x) /\ Enter(<<cur, x>>)
      /\ Continue /\ UNCHANGED <<ast, cur>>
  BY <1>a DEF SwitchEnter, Running
<1>2. Top.n \in 0..Len(ast)
  BY TopTyped, BodyOwned
<1>3. /\ Owned(body', Len(ast')) /\ Len(body') = x /\ Len(body) <= Len(body')
      /\ x \in 1..Len(body') /\ \A b \in 1..Len(body) : b \in 1..Len(body')
      /\ labels \in Seq(1..Len(body')) /\ mapped \in [LabelNames -> 0..Len(body')]
  BY <1>a, <1>1, <1>2, BodyOwned, OneBlockTyped
<1>4. AstOK' /\ ast' = ast /\ Len(ast) <= Len(ast')
  BY <1>1, SameAst
<1>5. cur \in 1..Len(body') /\ cur' \in 1..Len(body')
  BY <1>1, <1>3, BodyOwned
<1>6. labels' \in Seq(1..Len(body')) /\ mapped' \in [LabelNames -> 0..Len(body')]
  <2>1. labels' = Append(labels, x) /\ mapped' = [mapped EXCEPT ![Node.name] = x]
    BY <1>1 DEF PushLabel
  <2>2. labels' \in Seq(1..Len(body'))
    BY <2>1, <1>3, AppendTyped
  <2>3. x \in 0..Len(body')
    BY <1>3
  <2> QED
    BY <2>1, <2>2, <2>3, <1>3
<1>7. BodyOK'
  BY <1>3, <1>4, <1>5, <1>6, BodyTyped DEF Owned
<1>8. StackOK'
  <2>0. <<cur, x>> \in Seq(Nat)
    BY BodyOwned
  <2>1. PICK bbs \in Seq(Nat) : bbs = <<cur, x>>
    BY <2>0
  <2>2. Done = 0
    <3>1. Top.bbs = <<>>
      BY <1>1 DEF Entered
    <3>2. FrameOK(Len(stack)) /\ ~(Len(stack) < Len(stack)) /\ Done \in Nat
      BY TopTyped DEF TypeOK, StackOK
    <3>3. Begun(Len(stack)) = Done
      BY <3>2 DEF Begun, Top, Done
    <3>4. 0 \in BlocksHeld(Node, Done)
      BY <3>1, <3>2, <3>3 DEF FrameOK, Top, Node
    <3> QED
      BY <3>2, <3>4, <1>1 DEF BlocksHeld
  <2>3. (\A i \in 1..Len(bbs) : bbs[i] \in 1..Len(body')) /\ Len(bbs) \in BlocksHeld(Node, Done)
    BY <2>1, <2>2, <1>1, <1>3, <1>5 DEF BlocksHeld
  <2> QED
    BY <2>1, <2>3, <1>1, <1>3, <1>4, EnterTyped
<1> QED
  BY <1>1, <1>4, <1>7, <1>8, StatusTyped

LEMMA SwitchCaseTyped == TypeOK /\ SwitchCase => TypeOK'
<1> SUFFICES ASSUME TypeOK, SwitchCase PROVE TypeOK'
  OBVIOUS
<1>a. PICK x \in Nat : x = Len(body) + 1
  BY BodyOwned
<1> DEFINE bs == IF Done = 0 \/ IsTerm(Last) THEN body ELSE Emit(body, cur, Jump(x))
<1>1. /\ Node.op = "switch" /\ Entered /\ Done < Node.cases
      /\ body' = Append(bs, NewBlock(0)) /\ cur' = x /\ Descend(Done + 1, Recorded)
      /\ Continue /\ UNCHANGED <<ast, labels, mapped>>
  BY <1>a DEF SwitchCase, Running
<1>2. Owned(bs, Len(ast)) /\ Len(bs) = Len(body) /\ 0 \in 0..Len(ast)
  <2>1. Jump(x) \in Insts
    BY TopTyped, JumpTyped
  <2>2. Owned(Emit(body, cur, Jump(x)), Len(ast)) /\ Len(Emit(body, cur, Jump(x))) = Len(body)
    BY <2>1, BodyOwned, EmitOwned
  <2> QED
    BY <2>2, BodyOwned
<1> HIDE DEF bs
<1>3. /\ Owned(body', Len(ast')) /\ Len(body') = x /\ Len(body) <= Len(body')
      /\ x \in 1..Len(body') /\ \A b \in 1..Len(body) : b \in 1..Len(body')
  BY <1>a, <1>1, <1>2, OneBlockTyped
<1>4. AstOK' /\ ast' = ast /\ Len(ast) <= Len(ast')
  BY <1>1, SameAst
<1>5. BodyOK'
  BY <1>1, <1>3, <1>4, BodyTyped DEF Owned
<1>6. StackOK'
  <2>1. PICK k \in Nat : k = Done + 1
    BY TopTyped
  <2>2. k <= Len(Node.kids) /\ k <= MostValues(Node) /\ k < Len(Node.kids)
    <3>1. PICK c \in Nat : c = Node.cases
      BY <1>1, TableHolds
    <3>2. PICK n \in Nat : n = Len(Node.kids)
      BY <1>1, SwitchHolds
    <3>3. k <= c /\ c < n
      BY <2>1, <3>1, <3>2, <1>1, TableHolds, TopTyped
    <3>4. MostValues(Node) = n
      BY <3>2, <1>1, SwitchHolds
    <3> QED
      BY <3>2, <3>3, <3>4
  <2>3. PICK bbs \in Seq(Nat) : bbs = Recorded
    BY <1>1, RecordedTyped
  <2>4. Len(bbs) = k + 1 /\ \A i \in 1..Len(bbs) : bbs[i] \in 1..Len(body')
    <3>1. Len(bbs) = Done + 2 /\ Done \in Nat /\ \A i \in 1..Len(bbs) : bbs[i] \in 1..Len(body)
      BY <2>3, <1>1, RecordedTyped, TopTyped
    <3> QED
      BY <3>1, <2>1, <1>3
  <2>5. Len(bbs) \in BlocksHeld(Node, k)
    <3>1. PICK n \in Nat : n = Len(Node.kids)
      BY <1>1, SwitchHolds
    <3>2. k < n /\ k > 0
      BY <2>1, <2>2, <3>1, TopTyped
    <3>3. BlocksHeld(Node, k) = IF k = 0 THEN {0, 2} ELSE IF k < n THEN {k + 1, k + 2} ELSE {k + 2}
      BY <3>1, <1>1, SwitchHeld
    <3> QED
      BY <2>4, <3>2, <3>3
  <2>6. Descend(k, bbs)
    BY <2>1, <2>3, <1>1
  <2> QED
    BY <2>1, <2>2, <2>4, <2>5, <2>6, <1>3, <1>4, DescendTyped
<1> QED
  BY <1>1, <1>4, <1>5, <1>6, StatusTyped

LEMMA GenCaseTyped == TypeOK /\ GenCase => TypeOK'
<1> SUFFICES ASSUME TypeOK, GenCase PROVE TypeOK'
  OBVIOUS
<1>1. Len(stack) > 1
  BY NotFunc DEF GenCase
<1> QED
  BY <1>1, TopTyped, ReturnOnlyTyped DEF GenCase

LEMMA SwitchFallOutTyped == TypeOK /\ SwitchFallOut => TypeOK'
<1> SUFFICES ASSUME TypeOK, SwitchFallOut PROVE TypeOK'
  OBVIOUS
<1>1. /\ Node.op = "switch" /\ Entered /\ Done = Node.cases
      /\ ast' = AddIncomingPhi(ast, Top.n, Last, cur)
      /\ body' = IF IsTerm(Last) THEN body ELSE Emit(body, cur, Jump(Top.bbs[2]))
      /\ Enter(Recorded) /\ Continue /\ UNCHANGED <<cur, labels, mapped>>
  BY DEF SwitchFallOut, Running
<1>2. AstOK' /\ KeepsShape /\ Len(ast') = Len(ast)
  <2>1. Top.n \in 0..Len(ast) /\ cur \in Nat /\ Last \in Values
    BY TopTyped, BodyOwned
  <2> QED
    BY <2>1, <1>1, IncomingTyped
<1>3. Owned(body', Len(ast)) /\ Len(body') = Len(body)
  <2>1. CASE IsTerm(Last)
    BY <1>1, <2>1, BodyOwned
  <2>2. CASE ~IsTerm(Last)
    <3>1. PICK x \in Nat : x = Top.bbs[2]
      BY <1>1, SwitchHolds, BodyOwned
    <3>2. Jump(x) \in Insts
      BY TopTyped, JumpTyped
    <3>3. Owned(Emit(body, cur, Jump(x)), Len(ast)) /\ Len(Emit(body, cur, Jump(x))) = Len(body)
      BY <3>2, BodyOwned, EmitOwned
    <3> QED
      BY <1>1, <2>2, <3>1, <3>3
  <2> QED
    BY <2>1, <2>2
<1>4. Len(body) <= Len(body') /\ Len(ast) <= Len(ast') /\ cur' \in 1..Len(body')
  BY <1>1, <1>2, <1>3, BodyOwned
<1>5. BodyOK'
  BY <1>1, <1>2, <1>3, <1>4, BodyTyped DEF Owned
<1>6. StackOK'
  <2>1. PICK bbs \in Seq(Nat) : bbs = Recorded
    BY <1>1, RecordedTyped
  <2> DEFINE g == [Top EXCEPT !.bbs = bbs]
  <2>2. g \in Frames /\ g.n = Top.n /\ g.bbs = bbs /\ g.vals = Top.vals
    BY TopTyped, FrameBbs
  <2>3. FrameOK(Len(stack))
    BY TopTyped DEF TypeOK, StackOK
  <2>4. /\ Top.n \in 1..Len(ast') /\ (Top.n > 1 <=> Len(stack) > 1)
        /\ Len(Top.vals) <= MostValues(Node)
    BY <2>3, <1>2 DEF FrameOK, Top, Node
  <2>5. Len(bbs) \in BlocksHeld(Node, Done)
    <3>1. PICK k \in Nat : k = Done
      BY <1>1, SwitchHolds
    <3>2. PICK n \in Nat : n = Len(Node.kids)
      BY <1>1, SwitchHolds
    <3>3. k < n /\ Len(bbs) = k + 2
      BY <2>1, <3>1, <3>2, <1>1, TableHolds, RecordedTyped
    <3>4. BlocksHeld(Node, k) = IF k = 0 THEN {0, 2} ELSE IF k < n THEN {k + 1, k + 2} ELSE {k + 2}
      BY <3>2, <1>1, SwitchHeld
    <3> QED
      BY <3>1, <3>3, <3>4
  <2>6. \A k : BlocksHeld(ast'[Top.n], k) = BlocksHeld(Node, k) /\ MostValues(ast'[Top.n]) = MostValues(Node)
    <3>1. ast'[Top.n].op = Node.op /\ ast'[Top.n].kids = Node.kids
      BY <1>2, TopTyped DEF KeepsShape, Node
    <3> QED
      BY <3>1, HeldSame
  <2>7. stack' = [stack EXCEPT ![Len(stack)] = g]
    BY <1>1, <2>1 DEF Enter, Top
  <2>8. \A i \in 1..Len(bbs) : bbs[i] \in 1..Len(body')
    BY <2>1, <1>1, <1>3, RecordedTyped
  <2>9. Len(g.bbs) \in BlocksHeld(ast'[g.n], Len(g.vals)) /\ Len(g.vals) <= MostValues(ast'[g.n])
    BY <2>2, <2>4, <2>5, <2>6 DEF Done
  <2>10. g.n \in 1..Len(ast') /\ (g.n > 1 <=> Len(stack) > 1) /\ \A i \in 1..Len(g.bbs) : g.bbs[i] \in 1..Len(body')
    BY <2>2, <2>4, <2>8
  <2> HIDE DEF g
  <2> QED
    BY <2>2, <2>7, <2>9, <2>10, <1>2, <1>4, ReplaceTyped
<1> QED
  BY <1>1, <1>2, <1>5, <1>6, StatusTyped

LEMMA SwitchBreakTyped == TypeOK /\ SwitchBreak => TypeOK'
<1> SUFFICES ASSUME TypeOK, SwitchBreak PROVE TypeOK'
  OBVIOUS
<1>a. PICK x \in Nat : x = Len(body) + 1
  BY BodyOwned
<1>1. /\ Node.op = "switch" /\ Entered /\ Done + 1 < Len(Node.kids)
      /\ body' = Append(body, NewBlock(0)) /\ cur' = x
      /\ Descend(Done + 1, IF Default = Done + 1 THEN Append(Recorded, x) ELSE Recorded)
      /\ Continue /\ UNCHANGED <<ast, labels, mapped>>
  BY <1>a DEF SwitchBreak, AtBreak, Running
<1>2. 0 \in 0..Len(ast)
  BY BodyOwned
<1>3. /\ Owned(body', Len(ast')) /\ Len(body') = x /\ Len(body) <= Len(body')
      /\ x \in 1..Len(body') /\ \A b \in 1..Len(body) : b \in 1..Len(body')
  BY <1>a, <1>1, <1>2, BodyOwned, OneBlockTyped
<1>4. AstOK' /\ ast' = ast /\ Len(ast) <= Len(ast')
  BY <1>1, SameAst
<1>5. BodyOK'
  BY <1>1, <1>3, <1>4, BodyTyped DEF Owned
<1>6. StackOK'
  <2>1. PICK k \in Nat : k = Done + 1
    BY TopTyped
  <2>2. k <= Len(Node.kids) /\ k <= MostValues(Node) /\ k < Len(Node.kids)
    BY <2>1, <1>1, SwitchHolds, SMTT(20)
  <2>3. PICK old \in Seq(Nat) : old = Recorded
    BY <1>1, RecordedTyped
  <2>4. Len(old) = k + 1 /\ \A i \in 1..Len(old) : old[i] \in 1..Len(body')
    <3>1. Len(old) = Done + 2 /\ Done \in Nat /\ \A i \in 1..Len(old) : old[i] \in 1..Len(body)
      BY <2>3, <1>1, RecordedTyped, TopTyped
    <3> QED
      BY <3>1, <2>1, <1>3
  <2>5. /\ Append(old, x) \in Seq(Nat) /\ Len(Append(old, x)) = k + 2
        /\ \A i \in 1..Len(Append(old, x)) : Append(old, x)[i] \in 1..Len(body')
    <3>1. Len(body') \in Nat /\ x \in 1..Len(body')
      BY <1>3
    <3>2. /\ Append(old, x) \in Seq(Nat) /\ Len(Append(old, x)) = Len(old) + 1
          /\ \A i \in 1..Len(Append(old, x)) : Append(old, x)[i] \in 1..Len(body')
      BY <3>1, <2>4, HoldsOneMore
    <3> QED
      BY <3>2, <2>4
  <2>6. PICK bbs \in Seq(Nat) : bbs = IF Default = Done + 1 THEN Append(old, x) ELSE old
    BY <2>5
  <2>7. Len(bbs) \in {k + 1, k + 2} /\ \A i \in 1..Len(bbs) : bbs[i] \in 1..Len(body')
    BY <2>4, <2>5, <2>6
  <2>8. Len(bbs) \in BlocksHeld(Node, k)
    <3>1. PICK n \in Nat : n = Len(Node.kids)
      BY <1>1, SwitchHolds
    <3>2. k < n /\ k > 0
      BY <2>1, <2>2, <3>1, TopTyped
    <3>3. BlocksHeld(Node, k) = IF k = 0 THEN {0, 2} ELSE IF k < n THEN {k + 1, k + 2} ELSE {k + 2}
      BY <3>1, <1>1, SwitchHeld
    <3> QED
      BY <2>7, <3>2, <3>3
  <2>9. Descend(k, bbs)
    BY <2>1, <2>3, <2>6, <1>1
  <2> QED
    BY <2>1, <2>2, <2>7, <2>8, <2>9, <1>3, <1>4, DescendTyped
<1> QED
  BY <1>1, <1>4, <1>5, <1>6, StatusTyped

LEMMA SwitchRenamedTyped == TypeOK /\ SwitchRenamed => TypeOK'
<1> SUFFICES ASSUME TypeOK, SwitchRenamed PROVE TypeOK'
  OBVIOUS
<1>1. /\ Node.op = "switch" /\ Entered /\ Done + 1 < Len(Node.kids)
      /\ stack' = [stack EXCEPT ![Len(stack)].bbs = Append(Recorded, cur),
                                ![Len(stack)].vals = Append(@, Null)]
      /\ Continue /\ UNCHANGED <<ast, body, cur, labels, mapped>>
  BY DEF SwitchRenamed, AtBreak, Running
<1>2. AstOK' /\ KeepsShape /\ Len(ast) <= Len(ast') /\ ast' = ast
  BY <1>1, SameAst
<1>3. BodyOK'
  BY <1>1, <1>2, SameBody
<1>4. StackOK'
  <2>a. PICK old \in Seq(Nat) : old = Recorded
    BY <1>1, RecordedTyped
  <2>b. Len(old) = Done + 2 /\ Done \in Nat /\ \A i \in 1..Len(old) : old[i] \in 1..Len(body)
    BY <2>a, <1>1, RecordedTyped, SwitchHolds
  <2>c. /\ Append(old, cur) \in Seq(Nat) /\ Len(Append(old, cur)) = Len(old) + 1
        /\ \A i \in 1..Len(Append(old, cur)) : Append(old, cur)[i] \in 1..Len(body)
    BY <2>b, BodyOwned, HoldsOneMore
  <2>1. PICK bbs \in Seq(Nat) : bbs = Append(old, cur)
    BY <2>c
  <2>2. Len(bbs) = Done + 3 /\ \A i \in 1..Len(bbs) : bbs[i] \in 1..Len(body')
    <3>1. PICK k \in Nat : k = Done
      BY <2>b
    <3>2. Len(bbs) = k + 3
      BY <2>1, <2>b, <2>c, <3>1
    <3>3. \A i \in 1..Len(bbs) : bbs[i] \in 1..Len(body')
      BY <2>1, <2>c, <1>1
    <3> QED
      BY <3>1, <3>2, <3>3
  <2> DEFINE h == [Top EXCEPT !.bbs = bbs]
             g == [h EXCEPT !.vals = Append(h.vals, Null)]
  <2>3. h \in Frames /\ h.n = Top.n /\ h.bbs = bbs /\ h.vals = Top.vals
    BY TopTyped, FrameBbs
  <2>4. /\ g \in Frames /\ g.n = Top.n /\ g.bbs = bbs /\ Len(g.vals) = Len(Top.vals) + 1
    BY <2>3, ConstTyped, FrameVals, ZenonT(40)
  <2>5. stack' = [stack EXCEPT ![Len(stack)] = g]
    BY <1>1, <2>a, <2>1, TopTyped DEF Top, Frames, StackOK, TypeOK
  <2>6. FrameOK(Len(stack))
    BY TopTyped DEF TypeOK, StackOK
  <2>7. g.n \in 1..Len(ast') /\ (g.n > 1 <=> Len(stack) > 1)
    BY <2>6, <2>4, <1>2 DEF FrameOK, Top
  <2>8. Len(g.vals) = Done + 1 /\ Done + 1 < Len(Node.kids) /\ Done \in Nat
    BY <2>4, <1>1, TopTyped DEF Done
  <2>9. ast'[g.n] = Node
    BY <2>4, <1>2 DEF Node
  <2>10. Len(g.vals) <= MostValues(ast'[g.n]) /\ Len(g.bbs) \in BlocksHeld(ast'[g.n], Len(g.vals))
    <3>1. PICK n \in Nat : n = Len(Node.kids)
      BY <1>1, SwitchHolds
    <3>2. PICK k \in Nat : k = Len(g.vals) /\ k > 0 /\ k < n /\ Len(g.bbs) = k + 2
      BY <3>1, <2>2, <2>4, <2>8, SMTT(20)
    <3>3. BlocksHeld(Node, k) = IF k = 0 THEN {0, 2} ELSE IF k < n THEN {k + 1, k + 2} ELSE {k + 2}
      BY <3>1, <1>1, SwitchHeld
    <3>4. MostValues(Node) = n
      BY <3>1, <1>1, SwitchHolds
    <3> HIDE DEF g, h
    <3> QED
      BY <3>2, <3>3, <3>4, <2>9
  <2>11. \A i \in 1..Len(g.bbs) : g.bbs[i] \in 1..Len(body')
    BY <2>2, <2>4
  <2>12. Len(body) <= Len(body')
    BY <1>1, BodyOwned
  <2>13. g \in Frames /\ Len(g.vals) <= MostValues(ast'[g.n])
         /\ Len(g.bbs) \in BlocksHeld(ast'[g.n], Len(g.vals))
    BY <2>4, <2>10
  <2> HIDE DEF g, h
  <2> QED
    BY <1>2, <2>5, <2>7, <2>11, <2>12, <2>13, ReplaceTyped
<1> QED
  BY <1>1, <1>2, <1>3, <1>4, StatusTyped

LEMMA SwitchSelectorTyped == TypeOK /\ SwitchSelector => TypeOK'
<1> SUFFICES ASSUME TypeOK, SwitchSelector PROVE TypeOK'
  OBVIOUS
<1>1. CASE Crash
  BY <1>1, CrashTyped
<1>2. CASE ~Crash
  <2>1. /\ Node.op = "switch" /\ Entered /\ Done + 1 = Len(Node.kids) /\ Default # 0
        /\ PopLabels(1) /\ cur' = Top.bbs[1]
        /\ DescendFrom(Done + 1, Append(Recorded, Recorded[Default + 2]), Len(labels'))
        /\ Continue /\ UNCHANGED <<ast, body>>
    BY <1>2 DEF SwitchSelector, Running
  <2>2. AstOK' /\ ast' = ast /\ Len(ast) <= Len(ast')
    BY <2>1, SameAst
  <2>3. labels' \in Seq(1..Len(body)) /\ mapped' \in [LabelNames -> 0..Len(body)]
    <3>1. labels \in Seq(1..Len(body)) /\ mapped \in [LabelNames -> 0..Len(body)] /\ 1 \in Nat
      BY DEF TypeOK, BodyOK
    <3>2. SubSeq(labels, 1, Len(labels) - 1) \in Seq(1..Len(body))
      BY <3>1, PopTyped
    <3> QED
      BY <3>1, <3>2, <2>1 DEF PopLabels
  <2>4. Owned(body', Len(ast')) /\ Len(body') = Len(body) /\ Len(body) <= Len(body') /\ cur' \in 1..Len(body')
    BY <2>1, BodyOwned, SwitchHolds
  <2>5. BodyOK'
    BY <2>1, <2>2, <2>3, <2>4, BodyTyped DEF Owned
  <2>6. StackOK'
    <3>1. PICK k \in Nat : k = Done + 1
      BY TopTyped
    <3>2. k <= Len(Node.kids) /\ k <= MostValues(Node) /\ k = Len(Node.kids)
      BY <3>1, <2>1, SwitchHolds, SMTT(20)
    <3>3. PICK old \in Seq(Nat) : old = Recorded
      BY <2>1, RecordedTyped
    <3>4. Len(old) = k + 1 /\ \A i \in 1..Len(old) : old[i] \in 1..Len(body')
      <4>1. Len(old) = Done + 2 /\ Done \in Nat /\ \A i \in 1..Len(old) : old[i] \in 1..Len(body)
        BY <3>3, <2>1, RecordedTyped, TopTyped
      <4> QED
        BY <4>1, <3>1, <2>4
    <3>5. Default + 2 \in 1..Len(old)
      <4>1. Default \in Nat /\ Default < k
        BY <3>2, <2>1, TableHolds
      <4> QED
        BY <4>1, <3>4
    <3>6. PICK d \in Nat : d = old[Default + 2] /\ d \in 1..Len(body')
      BY <3>4, <3>5
    <3>7. PICK bbs \in Seq(Nat) : bbs = Append(old, d)
      BY <3>6, AppendTyped
    <3>8. Len(bbs) = k + 2 /\ \A i \in 1..Len(bbs) : bbs[i] \in 1..Len(body')
      <4>1. Len(body') \in Nat /\ d \in 1..Len(body')
        BY <3>6, <2>4, BodyOwned
      <4>2. /\ Len(bbs) = Len(old) + 1 /\ \A i \in 1..Len(bbs) : bbs[i] \in 1..Len(body')
        BY <4>1, <3>4, <3>7, HoldsOneMore
      <4> QED
        BY <4>2, <3>4
    <3>9. Len(bbs) \in BlocksHeld(Node, k)
      <4>1. k > 0
        BY <3>1, TopTyped
      <4>2. BlocksHeld(Node, k) = IF k = 0 THEN {0, 2} ELSE IF k < k THEN {k + 1, k + 2} ELSE {k + 2}
        BY <3>2, <2>1, SwitchHeld
      <4> QED
        BY <4>1, <4>2, <3>8
    <3>10. PICK base \in Nat : base = Len(labels')
      BY <2>3
    <3>11. DescendFrom(k, bbs, base)
      BY <3>1, <3>3, <3>6, <3>7, <3>10, <2>1
    <3> QED
      BY <3>1, <3>2, <3>8, <3>9, <3>11, <2>2, <2>4, DescendFromTyped
  <2> QED
    BY <2>1, <2>2, <2>5, <2>6, StatusTyped
<1> QED
  BY <1>1, <1>2

(***************************************************************************)
(* The blocks of the cases, linked, and the switch instruction.            *)
(***************************************************************************)
LEMMA LinkTyped ==
  ASSUME TypeOK, Node.op = "switch", Entered, Done = Len(Node.kids), NEW b \in 1..Len(body)
  PROVE  LinkCases(b) \in Blocks /\ LinkCases(b).owner \in 0..Len(ast)
<1> DEFINE open == {k \in 1..(Node.cases - 1) :
                      /\ TableEntries = <<>> /\ Top.bbs[k + 2] = b
                      /\ LET insts == body[b].insts
                         IN insts = <<>> \/ ~IsTerminator(insts[Len(insts)])}
           link == Append(body[b].insts, Jump(Top.bbs[(CHOOSE k \in open : TRUE) + 3]))
<1>1. body[b] \in Blocks /\ body[b].owner \in 0..Len(ast)
  BY DEF TypeOK, BodyOK
<1>2. body[b].insts \in Seq(Insts) /\ body[b].owner \in Nat
  BY <1>1 DEF Blocks
<1>3. LinkCases(b) = IF open = {} THEN body[b] ELSE [owner |-> body[b].owner, insts |-> link]
  BY DEF LinkCases
<1>4. ASSUME open # {} PROVE link \in Seq(Insts)
  <2>1. PICK k : k = CHOOSE i \in open : TRUE
    OBVIOUS
  <2>2. k \in open
    BY <2>1, <1>4
  <2>3. k \in 1..(Node.cases - 1)
    BY <2>2
  <2>4. k + 3 \in 1..Len(Top.bbs)
    <3>1. PICK c \in Nat : c = Node.cases
      BY TableHolds
    <3>2. PICK n \in Nat : n = Len(Node.kids)
      BY SwitchHolds
    <3>3. c < n /\ Len(Top.bbs) = n + 2
      BY <3>1, <3>2, TableHolds, SwitchHolds
    <3> QED
      BY <2>3, <3>1, <3>3
  <2>5. PICK t \in Nat : t = Top.bbs[k + 3]
    BY <2>4, SwitchHolds, SMTT(20)
  <2>6. Jump(t) \in Insts
    BY <2>5, TopTyped, JumpTyped
  <2>7. link = Append(body[b].insts, Jump(t))
    BY <2>1, <2>5
  <2> HIDE DEF link, open
  <2> QED
    BY <2>6, <2>7, <1>2, AppendTyped
<1> HIDE DEF link, open
<1> QED
  BY <1>1, <1>2, <1>3, <1>4 DEF Blocks

LEMMA SwitchBlocksTyped ==
  ASSUME TypeOK, Node.op = "switch", Entered, Done = Len(Node.kids)
  PROVE  SwitchBlocks \in Seq(Nat)
<1>1. /\ TableEntries \in Seq(Nat)
      /\ \A i \in 1..Len(TableEntries) : TableEntries[i] \in Nat /\ TableEntries[i] < Len(Node.kids)
  <2>0. Len(Node.table) \in Nat /\ Len(Node.table) > 0
    BY TableHolds
  <2>1. PICK k \in Nat : k = Len(Node.table) - 1
    BY <2>0
  <2>2. k \in 0..Len(Node.table)
    BY <2>0, <2>1
  <2>3. /\ SubSeq(Node.table, 1, k) \in Seq(Nat) /\ Len(SubSeq(Node.table, 1, k)) = k
        /\ \A i \in 1..k : SubSeq(Node.table, 1, k)[i] = Node.table[i]
    BY <2>2, TableHolds, SubSeqTyped
  <2>4. TableEntries = SubSeq(Node.table, 1, k)
    BY <2>1 DEF TableEntries
  <2> QED
    BY <2>1, <2>3, <2>4, TableHolds
<1>a. PICK bbs \in Seq(Nat) : bbs = Top.bbs
  BY SwitchHolds
<1>b. PICK n \in Nat : n = Len(Node.kids)
  BY SwitchHolds
<1>c. PICK c \in Nat : c = Node.cases
  BY TableHolds
<1>d. c < n /\ Len(bbs) = n + 2
  BY <1>a, <1>b, <1>c, SwitchHolds, TableHolds
<1>2. \A k \in 1..Node.cases : Top.bbs[k + 2] \in Nat
  <2>1. \A k \in 1..c : k + 2 \in 1..Len(bbs)
    BY <1>d
  <2> QED
    BY <2>1, <1>a, <1>c
<1>3. \A i \in 1..Len(TableEntries) : Top.bbs[TableEntries[i] + 2] \in Nat
  <2>1. ASSUME NEW i \in 1..Len(TableEntries) PROVE TableEntries[i] + 2 \in 1..Len(bbs)
    <3>1. PICK t \in Nat : t = TableEntries[i]
      BY <1>1
    <3>2. t < n
      BY <3>1, <1>1, <1>b
    <3> QED
      BY <3>1, <3>2, <1>d
  <2> QED
    BY <2>1, <1>a
<1>4. Node.cases \in Nat
  BY TableHolds
<1> DEFINE p == [k \in 1..Node.cases |-> Top.bbs[k + 2]]
           q == [i \in 1..Len(TableEntries) |-> Top.bbs[TableEntries[i] + 2]]
<1>5. p \in Seq(Nat)
  <2>1. p = [k \in 1..c |-> Top.bbs[k + 2]] /\ \A k \in 1..c : Top.bbs[k + 2] \in Nat
    BY <1>2, <1>c
  <2> HIDE DEF p
  <2> QED
    BY <2>1
<1>6. q \in Seq(Nat)
  <2>1. Len(TableEntries) \in Nat
    BY <1>1
  <2> HIDE DEF TableEntries
  <2> QED
    BY <2>1, <1>3
<1> QED
  BY <1>5, <1>6 DEF SwitchBlocks

LEMMA SwitchExitTyped == TypeOK /\ SwitchExit => TypeOK'
<1> SUFFICES ASSUME TypeOK, SwitchExit PROVE TypeOK'
  OBVIOUS
<1>1. CASE Crash
  BY <1>1, CrashTyped
<1>2. CASE ~Crash
  <2> DEFINE linked == [b \in 1..Len(body) |-> LinkCases(b)]
             to     == <<Top.bbs[Len(Top.bbs)]>> \o SwitchBlocks
             switch == Inst("switch", <<Last>>, to, <<>>)
             in     == Node.incoming
             v      == PhiValue(in, Top.bbs[2])
  <2>1. Node.op = "switch" /\ Entered /\ Done = Len(Node.kids) /\ PhiOk(in)
    BY <1>2 DEF SwitchExit, Running
  <2>2. /\ body' = EmitPhi(Emit(linked, cur, switch), Top.bbs[2], in)
        /\ ast' = [ast EXCEPT ![Top.n].renamed = TRUE]
        /\ cur' = Top.bbs[2] /\ Return(v) /\ Continue /\ UNCHANGED <<labels, mapped>>
    BY <1>2 DEF SwitchExit
  <2>3. Len(stack) > 1
    BY <2>1, TopTyped
  <2>4. PICK x \in 1..Len(body) : x = Top.bbs[2]
    BY <2>1, SwitchHolds
  <2>5. x \in Nat /\ Len(ast) \in Nat
    BY <2>4, BodyOwned
  <2>6. Owned(linked, Len(ast)) /\ Len(linked) = Len(body)
    <3>1. \A b \in 1..Len(body) : LinkCases(b) \in Blocks /\ LinkCases(b).owner \in 0..Len(ast)
      BY <2>1, LinkTyped
    <3>2. linked \in Seq(Blocks) /\ Len(linked) = Len(body) /\ \A b \in 1..Len(body) : linked[b] = LinkCases(b)
      BY <3>1, BodyOwned
    <3> HIDE DEF linked
    <3> QED
      BY <3>1, <3>2 DEF Owned
  <2>7. switch \in Insts
    <3>1. Top.bbs[Len(Top.bbs)] \in Nat
      BY <2>1, SwitchHolds
    <3>2. to \in Seq(Nat)
      BY <3>1, <2>1, SwitchBlocksTyped
    <3>3. <<Last>> \in Seq(Values) /\ stack[Len(stack)].n \in Nat
      BY TopTyped DEF Top, Frames
    <3> HIDE DEF to
    <3> QED
      BY <3>2, <3>3 DEF Inst, Insts, Terminators
  <2>8. in \in Seq(Incomings)
    BY TopTyped DEF Nodes
  <2>9. PhiInst(in) \in Insts /\ v \in Values
    BY <2>1, <2>4, <2>5, <2>8, PhiTyped
  <2> HIDE DEF linked, to, switch, in, v
  <2>10. Owned(Emit(linked, cur, switch), Len(ast)) /\ Len(Emit(linked, cur, switch)) = Len(body)
    BY <2>5, <2>6, <2>7, BodyOwned, EmitOwned
  <2>11. Owned(body', Len(ast)) /\ Len(body') = Len(body)
    <3>1. PICK bs : bs = Emit(linked, cur, switch)
      OBVIOUS
    <3>2. Owned(bs, Len(ast)) /\ Len(bs) = Len(body) /\ x \in 1..Len(bs)
      BY <3>1, <2>10
    <3>3. Owned(Emit(bs, x, PhiInst(in)), Len(ast)) /\ Len(Emit(bs, x, PhiInst(in))) = Len(bs)
      BY <3>2, <2>5, <2>9, EmitOwned
    <3>4. body' = EmitPhi(bs, x, in)
      BY <2>2, <2>4, <3>1
    <3> QED
      BY <3>2, <3>3, <3>4 DEF EmitPhi
  <2>12. AstOK' /\ KeepsShape /\ Len(ast') = Len(ast)
    <3> DEFINE y == [ast[Top.n] EXCEPT !.renamed = TRUE]
    <3>1. Top.n \in 1..Len(ast) /\ ast \in Seq(Nodes) /\ ast[Top.n] \in Nodes
      BY TopTyped DEF TypeOK, AstOK
    <3>2. /\ y \in Nodes /\ y.op = ast[Top.n].op /\ y.kids = ast[Top.n].kids
          /\ y.cases = ast[Top.n].cases /\ y.table = ast[Top.n].table
      BY <3>1 DEF Nodes
    <3>3. ast' = [ast EXCEPT ![Top.n] = y]
      BY <2>2
    <3> HIDE DEF y
    <3>4. /\ ast' \in Seq(Nodes) /\ Len(ast') = Len(ast)
          /\ \A i \in 1..Len(ast) : ast'[i] = IF i = Top.n THEN y ELSE ast[i]
      BY <3>1, <3>2, <3>3, ExceptTyped
    <3>5. KeepsShape
      BY <3>2, <3>4, BodyOwned DEF KeepsShape
    <3> QED
      BY <3>4, <3>5, ShapeTyped
  <2>13. Len(body) <= Len(body') /\ Len(ast) <= Len(ast') /\ cur' \in 1..Len(body')
    BY <2>2, <2>4, <2>11, <2>12, BodyOwned
  <2>14. BodyOK'
    BY <2>2, <2>11, <2>12, <2>13, BodyTyped DEF Owned
  <2>15. StackOK'
    BY <2>2, <2>3, <2>9, <2>12, <2>13, ReturnTyped
  <2> QED
    BY <2>2, <2>12, <2>14, <2>15, StatusTyped
<1> QED
  BY <1>1, <1>2

(***************************************************************************)
(* Breaks and returns.                                                     *)
(***************************************************************************)
LEMMA GetLabelTyped ==
  ASSUME TypeOK, Node.op \in {"br", "br_if"}, GetLabel(Node) # 0
  PROVE  GetLabel(Node) \in 1..Len(body)
<1>1. /\ labels \in Seq(1..Len(body)) /\ mapped \in [LabelNames -> 0..Len(body)]
      /\ Len(body) \in Nat
  BY DEF TypeOK, BodyOK
<1>2. Node.name \in LabelNames /\ Node.depth \in Nat
  BY TopTyped DEF Nodes
<1>3. CASE Node.name # NoName
  <2>1. mapped[Node.name] \in 0..Len(body) /\ GetLabel(Node) = mapped[Node.name]
    BY <1>1, <1>2, <1>3 DEF GetLabel
  <2> QED
    BY <2>1
<1>4. CASE Node.name = NoName
  <2>1. Node.depth < Len(labels) /\ GetLabel(Node) = labels[Len(labels) - Node.depth]
    BY <1>4 DEF GetLabel
  <2>2. Len(labels) - Node.depth \in 1..Len(labels)
    BY <2>1, <1>1, <1>2
  <2> QED
    BY <2>1, <2>2, <1>1
<1> QED
  BY <1>3, <1>4

LEMMA BreakTargetTyped == TypeOK /\ BreakTarget => TypeOK'
<1> SUFFICES ASSUME TypeOK, BreakTarget PROVE TypeOK'
  OBVIOUS
<1>1. CASE Crash
  BY <1>1, CrashTyped
<1>2. CASE ~Crash
  <2>1. /\ Node.op \in {"br", "br_if"} /\ GetLabel(Node) # 0
        /\ Enter(<<GetLabel(Node)>>) /\ Continue /\ UNCHANGED <<ast, body, cur, labels, mapped>>
    BY <1>2 DEF BreakTarget, Running
  <2>2. GetLabel(Node) \in 1..Len(body)
    BY <2>1, GetLabelTyped
  <2>3. PICK x \in 1..Len(body) : x = GetLabel(Node)
    BY <2>2
  <2>4. <<x>> \in Seq(Nat)
    OBVIOUS
  <2>5. PICK bbs \in Seq(Nat) : bbs = <<x>>
    BY <2>4
  <2>6. /\ \A i \in 1..Len(bbs) : bbs[i] \in 1..Len(body')
        /\ Len(bbs) \in BlocksHeld(Node, Done) /\ Enter(bbs)
        /\ Len(body) <= Len(body') /\ ast' = ast
    BY <2>1, <2>3, <2>5, BodyOwned DEF BlocksHeld
  <2>7. StackOK'
    BY <2>6, EnterTyped
  <2>8. AstOK' /\ BodyOK'
    BY <2>1, SameAst, SameBody
  <2> QED
    BY <2>1, <2>7, <2>8, StatusTyped
<1> QED
  BY <1>1, <1>2

LEMMA OwnerTyped ==
  ASSUME TypeOK, NEW b \in 1..Len(body)
  PROVE  body[b].owner \in 0..Len(ast)
BY DEF TypeOK, BodyOK

LEMMA GenBreakTyped == TypeOK /\ GenBreak => TypeOK'
<1> SUFFICES ASSUME TypeOK, GenBreak PROVE TypeOK'
  OBVIOUS
<1>1. Len(stack) > 1
  BY NotFunc DEF GenBreak
<1> DEFINE target == Top.bbs[1]
           v      == [ty |-> "term", at |-> cur]
<1>2. /\ Node.op = "br" /\ Entered
      /\ ast' = AddIncomingPhi(ast, body[target].owner, Last, cur)
      /\ body' = Emit(body, cur, Jump(target))
      /\ Return(v) /\ Continue /\ UNCHANGED <<cur, labels, mapped>>
  BY DEF GenBreak, Running, OperandsDone
<1>3. target \in 1..Len(body) /\ target \in Nat /\ body[target].owner \in 0..Len(ast)
  BY <1>2, EnteredHolds, OwnerTyped, BodyOwned
<1>4. Last \in Values /\ cur \in Nat /\ v \in Values
  BY TopTyped, BodyOwned DEF Values, ValueTypes
<1> HIDE DEF target, v
<1>5. AstOK' /\ KeepsShape /\ Len(ast') = Len(ast)
  BY <1>2, <1>3, <1>4, IncomingTyped
<1>6. Owned(body', Len(ast)) /\ Len(body') = Len(body)
  <2>1. Jump(target) \in Insts
    BY <1>3, TopTyped, JumpTyped
  <2> QED
    BY <2>1, <1>2, BodyOwned, EmitOwned
<1>7. Len(body) <= Len(body') /\ Len(ast) <= Len(ast') /\ cur' \in 1..Len(body')
  BY <1>2, <1>5, <1>6, BodyOwned
<1>8. BodyOK'
  BY <1>2, <1>5, <1>6, <1>7, BodyTyped DEF Owned
<1>9. StackOK'
  BY <1>1, <1>2, <1>4, <1>5, <1>7, ReturnTyped
<1> QED
  BY <1>2, <1>5, <1>8, <1>9, StatusTyped

LEMMA GenBreakIfTyped == TypeOK /\ GenBreakIf => TypeOK'
<1> SUFFICES ASSUME TypeOK, GenBreakIf PROVE TypeOK'
  OBVIOUS
<1>1. Len(stack) > 1
  BY NotFunc DEF GenBreakIf
<1>2. CASE Crash
  BY <1>2, CrashTyped
<1>3. CASE ~Crash
  <2> DEFINE target == Top.bbs[1]
             v      == IF Done = 2 THEN Top.vals[1] ELSE Null
  <2>a. PICK t \in Nat : t = Len(body) + 1
    BY BodyOwned
  <2> DEFINE split == Emit(body, cur, CondJump(Last, t, t + 1))
             new   == <<NewBlock(0), NewBlock(0)>>
  <2>1. /\ Node.op = "br_if" /\ Entered
        /\ ast' = AddIncomingPhi(ast, body[target].owner, v, t)
        /\ body' = Emit(split \o new, t, Jump(target))
        /\ cur' = t + 1 /\ Return(Null) /\ Continue /\ UNCHANGED <<labels, mapped>>
    BY <1>3, <2>a DEF GenBreakIf, Running, OperandsDone
  <2>2. target \in 1..Len(body) /\ target \in Nat /\ body[target].owner \in 0..Len(ast)
    BY <2>1, EnteredHolds, OwnerTyped, BodyOwned
  <2>3. v \in Values
    <3>1. CASE Done = 2
      <4>1. Top.vals \in Seq(Values) /\ 1 \in 1..Len(Top.vals)
        BY <3>1, TopTyped DEF Frames, Done
      <4> QED
        BY <3>1, <4>1
    <3>2. CASE Done # 2
      BY <3>2, ConstTyped
    <3> QED
      BY <3>1, <3>2
  <2> HIDE DEF target, v
  <2>4. AstOK' /\ KeepsShape /\ Len(ast') = Len(ast)
    BY <2>1, <2>2, <2>3, IncomingTyped
  <2>5. Owned(split, Len(ast)) /\ Len(split) = Len(body)
    <3>1. CondJump(Last, t, t + 1) \in Insts
      BY TopTyped, JumpTyped
    <3> QED
      BY <3>1, BodyOwned, EmitOwned
  <2>6. Owned(new, Len(ast)) /\ Len(new) = 2
    <3>1. 0 \in 0..Len(ast) /\ Len(ast) \in Nat
      BY BodyOwned
    <3> QED
      BY <3>1, NewBlockOwned
  <2>7. Jump(target) \in Insts /\ Len(ast) \in Nat
    BY <2>2, TopTyped, JumpTyped, BodyOwned
  <2> HIDE DEF split, new
  <2>8. Owned(split \o new, Len(ast)) /\ Len(split \o new) = Len(split) + Len(new)
    BY <2>5, <2>6, <2>7, ConcatOwned
  <2>9. Owned(body', Len(ast)) /\ Len(body') = Len(split \o new)
    <3>1. t \in 1..Len(split \o new)
      BY <2>a, <2>5, <2>6, <2>8, BodyOwned
    <3> QED
      BY <3>1, <2>1, <2>7, <2>8, EmitOwned
  <2>10. Len(body) <= Len(body') /\ Len(ast) <= Len(ast') /\ cur' \in 1..Len(body')
    BY <2>a, <2>1, <2>4, <2>5, <2>6, <2>8, <2>9, BodyOwned
  <2>11. BodyOK'
    BY <2>1, <2>4, <2>9, <2>10, BodyTyped DEF Owned
  <2>12. StackOK'
    BY <1>1, <2>1, <2>4, <2>10, ConstTyped, ReturnTyped
  <2> QED
    BY <2>1, <2>4, <2>11, <2>12, StatusTyped
<1> QED
  BY <1>2, <1>3

LEMMA EmitReturnTyped ==
  ASSUME TypeOK, NEW v \in Values
  PROVE  Owned(EmitReturn(v), Len(ast)) /\ Len(EmitReturn(v)) = Len(body)
<1> DEFINE w == IF IsMachine(v) THEN v ELSE Const
<1>1. <<w>> \in Seq(Values)
  BY ConstTyped
<1>2. Inst("ret", <<w>>, <<>>, <<>>) \in Insts
  BY <1>1, InstTyped
<1> QED
  BY <1>2, BodyOwned, EmitOwned DEF EmitReturn

LEMMA GenReturnTyped == TypeOK /\ GenReturn => TypeOK'
<1> SUFFICES ASSUME TypeOK, GenReturn PROVE TypeOK'
  OBVIOUS
<1>1. Len(stack) > 1
  BY NotFunc DEF GenReturn
<1>2. CASE Crash
  BY <1>2, CrashTyped
<1>3. CASE ~Crash
  <2> DEFINE v == [ty |-> "term", at |-> cur]
  <2>1. /\ body' = EmitReturn(Last) /\ Return(v) /\ Continue
        /\ UNCHANGED <<ast, cur, labels, mapped>>
    BY <1>3 DEF GenReturn
  <2>2. v \in Values
    BY BodyOwned DEF Values, ValueTypes
  <2> HIDE DEF v
  <2>3. AstOK' /\ KeepsShape /\ Len(ast) <= Len(ast') /\ ast' = ast
    BY <2>1, SameAst
  <2>4. Owned(body', Len(ast')) /\ Len(body') = Len(body)
    BY <2>1, <2>3, TopTyped, EmitReturnTyped
  <2>5. Len(body) <= Len(body') /\ cur' \in 1..Len(body')
    BY <2>1, <2>4, BodyOwned
  <2>6. BodyOK'
    BY <2>1, <2>3, <2>4, <2>5, BodyTyped DEF Owned
  <2>7. StackOK'
    BY <1>1, <2>1, <2>2, <2>3, <2>5, ReturnTyped
  <2> QED
    BY <2>1, <2>3, <2>6, <2>7, StatusTyped
<1> QED
  BY <1>2, <1>3

(***************************************************************************)
(* The end of the function.                                                *)
(***************************************************************************)
LEMMA FunctionEndTyped == TypeOK /\ FunctionEnd => TypeOK'
<1> SUFFICES ASSUME TypeOK, FunctionEnd PROVE TypeOK'
  OBVIOUS
<1>1. /\ UNCHANGED <<ast, cur, labels, mapped, stack>> /\ status' = "generated"
      /\ \/ body' = Emit(body, cur, Inst("retvoid", <<>>, <<>>, <<>>))
         \/ body' = body
         \/ body' = EmitReturn(Last)
  BY DEF FunctionEnd
<1>2. AstOK' /\ KeepsShape /\ Len(ast) <= Len(ast') /\ ast' = ast
  BY <1>1, SameAst
<1>3. Owned(body', Len(ast')) /\ Len(body') = Len(body)
  <2>1. CASE body' = body
    BY <2>1, <1>2, BodyOwned
  <2>2. CASE body' = EmitReturn(Last)
    BY <2>2, <1>2, TopTyped, EmitReturnTyped
  <2>3. CASE body' = Emit(body, cur, Inst("retvoid", <<>>, <<>>, <<>>))
    <3>1. <<>> \in Seq(Values)
      OBVIOUS
    <3>2. Inst("retvoid", <<>>, <<>>, <<>>) \in Insts
      BY <3>1, InstTyped
    <3> QED
      BY <3>2, <2>3, <1>2, BodyOwned, EmitOwned
  <2> QED
    BY <1>1, <2>1, <2>2, <2>3
<1>4. Len(body) <= Len(body') /\ cur' \in 1..Len(body')
  BY <1>1, <1>3, BodyOwned
<1>5. BodyOK'
  BY <1>1, <1>2, <1>3, <1>4, BodyTyped DEF Owned
<1>6. StackOK'
  BY <1>1, <1>2, <1>4, SameStack
<1> QED
  BY <1>1, <1>2, <1>5, <1>6 DEF TypeOK

LEMMA VerifyTyped == TypeOK /\ Verify => TypeOK'
<1> SUFFICES ASSUME TypeOK, Verify PROVE TypeOK'
  OBVIOUS
<1>1. UNCHANGED <<ast, body, cur, labels, mapped, stack>> /\ status' \in {"verified", "rejected"}
  BY DEF Verify
<1>2. AstOK' /\ BodyOK' /\ KeepsShape /\ Len(body) <= Len(body')
  BY <1>1, SameAst, SameBody, BodyOwned
<1>3. StackOK'
  BY <1>1, <1>2, SameStack
<1> QED
  BY <1>1, <1>2, <1>3 DEF TypeOK

LEMMA InitTyped == Init => TypeOK
<1> SUFFICES ASSUME Init PROVE TypeOK
  OBVIOUS
<1>1. AstOK
  <2>1. IsParsed(ast)
    BY DEF Init
  <2>2. ASSUME NEW n \in 1..Len(ast)
        PROVE  /\ n > 1 => ast[n].op # "func"
               /\ Len(ast[n].kids) \in Arities(ast[n].op)
               /\ \A i \in 1..Len(ast[n].kids) : ast[n].kids[i] \in 2..Len(ast)
               /\ TableOK(ast[n])
    <3>1. /\ n > 1 => ast[n].op # "func"
          /\ Len(ast[n].kids) \in Arities(ast[n].op)
          /\ \A i \in 1..Len(ast[n].kids) : ast[n].kids[i] \in (n + 1)..Len(ast)
          /\ IsSwitchParsed(ast, n)
      BY <2>1 DEF IsParsed
    <3>2. (n + 1)..Len(ast) \subseteq 2..Len(ast)
      BY <2>1 DEF IsParsed
    <3>3. TableOK(ast[n])
      BY <3>1 DEF IsSwitchParsed
    <3> QED
      BY <3>1, <3>2, <3>3
  <2> QED
    BY <2>1, <2>2 DEF IsParsed, AstOK
<1>2. Len(ast) \in Nat /\ Len(ast) > 0
  BY <1>1 DEF AstOK
<1>3. BodyOK
  <2>1. Owned(<<NewBlock(0)>>, Len(ast)) /\ Len(<<NewBlock(0)>>) = 1
    <3>1. 0 \in 0..Len(ast)
      BY <1>2
    <3> QED
      BY <3>1, <1>2, NewBlockOwned
  <2>2. body = <<NewBlock(0)>> /\ cur = 1 /\ labels = <<>> /\ mapped = [l \in LabelNames |-> 0]
    BY DEF Init
  <2>3. Owned(body, Len(ast)) /\ Len(body) = 1
    BY <2>1, <2>2
  <2>4. labels \in Seq(1..Len(body)) /\ mapped \in [LabelNames -> 0..Len(body)]
    BY <2>2, <2>3
  <2> QED
    BY <2>2, <2>3, <2>4 DEF BodyOK, Owned
<1>4. StackOK
  <2>1. stack = <<Frame(1, 0)>>
    BY DEF Init
  <2>2. Frame(1, 0) \in Frames /\ Frame(1, 0).n = 1
        /\ Len(Frame(1, 0).vals) = 0 /\ Len(Frame(1, 0).bbs) = 0
    BY DEF Frame, Frames
  <2> HIDE DEF Frame
  <2>3. stack \in Seq(Frames) /\ Len(stack) = 1 /\ stack[1] = Frame(1, 0)
    BY <2>1, <2>2
  <2>4. Begun(1) = 0
    BY <2>2, <2>3 DEF Begun
  <2>5. 0 <= MostValues(ast[1])
    <3>1. ast[1] \in Nodes
      BY <1>1, <1>2 DEF AstOK
    <3>2. ast[1].kids \in Seq(Nat)
      BY <3>1 DEF Nodes
    <3> QED
      BY <3>2 DEF MostValues
  <2>6. 0 \in BlocksHeld(ast[1], 0)
    BY DEF BlocksHeld
  <2>7. FrameOK(1)
    BY <1>2, <2>2, <2>3, <2>4, <2>5, <2>6 DEF FrameOK
  <2> QED
    BY <2>3, <2>7 DEF StackOK
<1> QED
  BY <1>1, <1>3, <1>4 DEF Init, TypeOK

LEMMA NextTyped == TypeOK /\ [Next]_vars => TypeOK'
<1> SUFFICES ASSUME TypeOK, [Next]_vars PROVE TypeOK'
  OBVIOUS
<1>1. CASE UNCHANGED vars
  <2>1. UNCHANGED <<ast, body, cur, labels, mapped, stack, status>>
    BY <1>1 DEF vars
  <2>2. AstOK' /\ BodyOK' /\ KeepsShape /\ Len(body) <= Len(body')
    BY <2>1, SameAst, SameBody, BodyOwned
  <2>3. StackOK'
    BY <2>1, <2>2, SameStack
  <2> QED
    BY <2>1, <2>2, <2>3 DEF TypeOK
<1>2. CASE Step
  BY <1>2, RunPassesTyped, NextOperandTyped, GenConstTyped, GenGetLocalTyped,
     GenUnreachableTyped, GenSetLocalTyped, GenCallTyped, GenBinopTyped, HandleDivRemTyped,
     GenSelectTyped, IfConditionTyped, IfTrueSideTyped, IfFalseSideTyped, IfMergeTyped,
     LabelEnterTyped, LabelExitTyped, LoopEnterTyped, LoopExitTyped, BlockEnterTyped,
     BlockExitTyped, BreakTargetTyped, GenBreakTyped, GenBreakIfTyped, GenReturnTyped,
     FunctionEndTyped, VerifyTyped, SwitchEnterTyped, SwitchCaseTyped, GenCaseTyped,
     SwitchFallOutTyped, SwitchBreakTyped, SwitchRenamedTyped, SwitchSelectorTyped,
     SwitchExitTyped DEF Step
<1> QED
  BY <1>1, <1>2 DEF Next, Terminated

(***************************************************************************)
(* For every function the parser can build: the code generator never loses *)
(* its insertion point, never refers to a block or an expression that does *)
(* not exist, and its nested Codegen calls hold the operand values and the *)
(* blocks of their class.                                                  *)
(***************************************************************************)
THEOREM TypeCorrect == Spec => []TypeOK
<1>1. Init => TypeOK
  BY InitTyped
<1>2. TypeOK /\ [Next]_vars => TypeOK'
  BY NextTyped
<1> QED
  BY <1>1, <1>2, PTL DEF Spec

(***************************************************************************)
(* LabelDiscipline says where the labels of each frame are.  That a step   *)
(* which drops the labels of the top frame keeps those of the frames below *)
(* needs that theirs come before: the strengthening is Nested.             *)
(***************************************************************************)
Nested ==
  \A j \in 1..Len(stack) :
    /\ stack[j].base + Len(Pushed(stack[j])) <= Len(labels)
    /\ \A i \in 1..(j - 1) : stack[i].base + Len(Pushed(stack[i])) <= stack[j].base

LabelInv == LabelDiscipline /\ Nested

LEMMA PushedLen ==
  ASSUME NEW f
  PROVE  Len(Pushed(f)) \in Nat
<1>1. /\ Len(<<>>) \in Nat /\ Len(<<f.bbs[Len(f.bbs)]>>) \in Nat
      /\ Len(<<f.bbs[2], f.bbs[1]>>) \in Nat /\ Len(<<f.bbs[2]>>) \in Nat
  OBVIOUS
<1> QED
  BY <1>1 DEF Pushed

LEMMA PushedNone ==
  ASSUME NEW f, f.bbs = <<>> \/ ast[f.n].op \notin {"label", "block", "loop", "switch"}
  PROVE  Pushed(f) = <<>>
BY DEF Pushed

(***************************************************************************)
(* Frames whose method, blocks and base are the same have pushed the same. *)
(***************************************************************************)
LEMMA PushedSame ==
  ASSUME TypeOK, KeepsShape, NEW j \in 1..Len(stack),
         stack'[j].n = stack[j].n, stack'[j].bbs = stack[j].bbs
  PROVE  Pushed(stack[j])' = Pushed(stack[j])
<1>1. stack[j].n \in 1..Len(ast)
  BY DEF TypeOK, StackOK, FrameOK
<1>2. ast'[stack'[j].n].op = ast[stack[j].n].op /\ ast'[stack'[j].n].kids = ast[stack[j].n].kids
  BY <1>1 DEF KeepsShape
<1> QED
  BY <1>2 DEF Pushed

LEMMA BaseTyped ==
  ASSUME TypeOK
  PROVE  (\A j \in 1..Len(stack) : stack[j].base \in Nat) /\ Len(labels) \in Nat
<1>1. \A j \in 1..Len(stack) : stack[j] \in Frames
  BY DEF TypeOK, StackOK
<1> QED
  BY <1>1 DEF TypeOK, BodyOK, Frames

(***************************************************************************)
(* The method on top returns and takes what it pushed off labels_.         *)
(***************************************************************************)
LEMMA LabelsDropped ==
  ASSUME TypeOK, KeepsShape, LabelInv, NEW m \in Nat, m > 0, m + 1 = Len(stack),
         Len(stack') = m,
         \A j \in 1..m : /\ stack'[j].n = stack[j].n /\ stack'[j].bbs = stack[j].bbs
                         /\ stack'[j].base = stack[j].base,
         NEW p \in Nat, p = Len(Pushed(stack[m + 1])),
         Len(labels') = Len(labels) - p,
         \A i \in 1..(Len(labels) - p) : labels'[i] = labels[i]
  PROVE  LabelInv'
<1> DEFINE B(j) == stack[j].base
           P(j) == Pushed(stack[j])
<1>1. \A j \in 1..(m + 1) : B(j) \in Nat /\ Len(P(j)) \in Nat
  BY BaseTyped, PushedLen
<1>2. Len(labels) \in Nat
  BY BaseTyped
<1>3. B(m + 1) + p = Len(labels)
  BY DEF LabelInv, LabelDiscipline
<1>4. Len(labels') = B(m + 1) /\ \A i \in 1..B(m + 1) : labels'[i] = labels[i]
  <2>1. m + 1 \in 1..(m + 1)
    OBVIOUS
  <2>2. B(m + 1) \in Nat
    BY <2>1, <1>1
  <2>3. Len(labels) - p = B(m + 1)
    BY <2>2, <1>2, <1>3
  <2> QED
    BY <2>3
<1>5. \A j \in 1..m : stack'[j].base = B(j) /\ Pushed(stack[j])' = P(j)
  <2> TAKE j \in 1..m
  <2>1. j \in 1..Len(stack) /\ stack'[j].n = stack[j].n /\ stack'[j].bbs = stack[j].bbs
    OBVIOUS
  <2>2. stack'[j].base = stack[j].base
    OBVIOUS
  <2> QED
    BY <2>1, <2>2, PushedSame
<1>6. \A j \in 1..m : B(j) + Len(P(j)) <= B(m + 1)
  BY DEF LabelInv, Nested
<1>7. \A j \in 1..m : \A i \in 1..Len(P(j)) : labels[B(j) + i] = P(j)[i]
  <2> TAKE j \in 1..m
  <2>1. j \in 1..Len(stack)
    OBVIOUS
  <2> QED
    BY <2>1 DEF LabelInv, LabelDiscipline
<1>8. \A j \in 1..m : B(j) + Len(P(j)) = B(j + 1)
  <2> TAKE j \in 1..m
  <2>1. j \in 1..Len(stack) /\ j # Len(stack)
    OBVIOUS
  <2> QED
    BY <2>1 DEF LabelInv, LabelDiscipline
<1>9. \A j \in 1..m : \A i \in 1..(j - 1) : B(i) + Len(P(i)) <= B(j)
  <2> TAKE j \in 1..m
  <2>1. j \in 1..Len(stack)
    OBVIOUS
  <2> QED
    BY <2>1 DEF LabelInv, Nested
<1>10. stack'[1].base = 0
  BY <1>5 DEF LabelInv, LabelDiscipline
<1> HIDE DEF B, P
<1>11. ASSUME NEW j \in 1..m
       PROVE  /\ stack'[j].base + Len(Pushed(stack[j])') =
                   (IF j = Len(stack') THEN Len(labels') ELSE stack'[j + 1].base)
              /\ \A i \in 1..Len(Pushed(stack[j])') :
                   labels'[stack'[j].base + i] = Pushed(stack[j])'[i]
  <2>1. ASSUME j = m PROVE B(j) + Len(P(j)) = Len(labels')
    BY <2>1, <1>4, <1>8
  <2>2. ASSUME j # m PROVE B(j) + Len(P(j)) = stack'[j + 1].base
    <3>1. j + 1 \in 1..m
      BY <2>2
    <3> QED
      BY <3>1, <1>5, <1>8
  <2>3. ASSUME NEW i \in 1..Len(P(j)) PROVE labels'[B(j) + i] = P(j)[i]
    <3>1. B(j) + i \in 1..B(m + 1)
      <4>1. B(j) \in Nat /\ Len(P(j)) \in Nat /\ B(m + 1) \in Nat
        BY <1>1
      <4>2. B(j) + Len(P(j)) <= B(m + 1)
        BY <1>6
      <4> QED
        BY <4>1, <4>2
    <3> QED
      BY <3>1, <1>4, <1>7
  <2> QED
    BY <2>1, <2>2, <2>3, <1>5
<1>12. LabelDiscipline'
  BY <1>10, <1>11 DEF LabelDiscipline
<1>13. Nested'
  BY <1>4, <1>5, <1>6, <1>9 DEF Nested
<1> QED
  BY <1>12, <1>13 DEF LabelInv

(***************************************************************************)
(* The method on top, which has pushed nothing so far, pushes q.           *)
(***************************************************************************)
LEMMA LabelsPushed ==
  ASSUME TypeOK, KeepsShape, LabelInv, NEW m \in Nat, m > 0, m = Len(stack),
         Len(stack') = m,
         \A j \in 1..(m - 1) : stack'[j] = stack[j],
         stack'[m].base = stack[m].base, Pushed(stack[m]) = <<>>,
         NEW q, q = Pushed(stack[m])', Len(q) \in Nat,
         Len(labels') = Len(labels) + Len(q),
         \A i \in 1..Len(labels) : labels'[i] = labels[i],
         \A i \in 1..Len(q) : labels'[Len(labels) + i] = q[i]
  PROVE  LabelInv'
<1> DEFINE B(j) == stack[j].base
           P(j) == Pushed(stack[j])
<1>1. \A j \in 1..m : B(j) \in Nat /\ Len(P(j)) \in Nat
  BY BaseTyped, PushedLen
<1>2. Len(labels) \in Nat
  BY BaseTyped
<1>3. B(m) = Len(labels)
  <2>1. m \in 1..Len(stack) /\ Len(Pushed(stack[m])) = 0
    OBVIOUS
  <2>2. B(m) + Len(Pushed(stack[m])) = Len(labels)
    BY <2>1 DEF LabelInv, LabelDiscipline
  <2>3. B(m) \in Nat
    BY <2>1, BaseTyped
  <2> QED
    BY <2>1, <2>2, <2>3
<1>4. \A j \in 1..(m - 1) : stack'[j].base = B(j) /\ Pushed(stack[j])' = P(j)
  <2> TAKE j \in 1..(m - 1)
  <2>1. j \in 1..Len(stack) /\ stack'[j] = stack[j]
    OBVIOUS
  <2> QED
    BY <2>1, PushedSame
<1>5. \A j \in 1..(m - 1) : B(j) + Len(P(j)) <= B(m)
  BY DEF LabelInv, Nested
<1>6. \A j \in 1..(m - 1) : \A i \in 1..Len(P(j)) : labels[B(j) + i] = P(j)[i]
  <2> TAKE j \in 1..(m - 1)
  <2>1. j \in 1..Len(stack)
    OBVIOUS
  <2> QED
    BY <2>1 DEF LabelInv, LabelDiscipline
<1>7. \A j \in 1..(m - 1) : B(j) + Len(P(j)) = B(j + 1)
  <2> TAKE j \in 1..(m - 1)
  <2>1. j \in 1..Len(stack) /\ j # Len(stack)
    OBVIOUS
  <2> QED
    BY <2>1 DEF LabelInv, LabelDiscipline
<1>8. \A j \in 1..m : \A i \in 1..(j - 1) : B(i) + Len(P(i)) <= B(j)
  BY DEF LabelInv, Nested
<1>9. stack'[m].base = B(m) /\ Pushed(stack[m])' = q
  OBVIOUS
<1>10. stack'[1].base = 0
  <2>1. 1 \in 1..(m - 1) \/ 1 = m
    OBVIOUS
  <2>2. B(1) = 0
    BY DEF LabelInv, LabelDiscipline
  <2> QED
    BY <2>1, <2>2, <1>4, <1>9
<1> HIDE DEF B, P
<1>11. ASSUME NEW j \in 1..(m - 1)
       PROVE  /\ stack'[j].base + Len(Pushed(stack[j])') = stack'[j + 1].base
              /\ \A i \in 1..Len(Pushed(stack[j])') :
                   labels'[stack'[j].base + i] = Pushed(stack[j])'[i]
  <2>1. stack'[j + 1].base = B(j + 1)
    <3>1. j + 1 \in 1..(m - 1) \/ j + 1 = m
      OBVIOUS
    <3> QED
      BY <3>1, <1>4, <1>9
  <2>2. ASSUME NEW i \in 1..Len(P(j)) PROVE labels'[B(j) + i] = P(j)[i]
    <3>1. B(j) + i \in 1..Len(labels)
      <4>1. B(j) \in Nat /\ Len(P(j)) \in Nat
        BY <1>1
      <4>2. B(j) + Len(P(j)) <= Len(labels)
        BY <1>3, <1>5
      <4> QED
        BY <4>1, <4>2, <1>2
    <3> QED
      BY <3>1, <1>6
  <2> QED
    BY <2>1, <2>2, <1>4, <1>7
<1>12. /\ stack'[m].base + Len(Pushed(stack[m])') = Len(labels')
       /\ \A i \in 1..Len(Pushed(stack[m])') :
            labels'[stack'[m].base + i] = Pushed(stack[m])'[i]
  BY <1>2, <1>3, <1>9
<1>13. LabelDiscipline'
  <2>1. ASSUME NEW j \in 1..Len(stack')
        PROVE  /\ stack'[j].base + Len(Pushed(stack[j])') =
                    (IF j = Len(stack') THEN Len(labels') ELSE stack'[j + 1].base)
               /\ \A i \in 1..Len(Pushed(stack[j])') :
                    labels'[stack'[j].base + i] = Pushed(stack[j])'[i]
    <3>1. CASE j = m
      BY <3>1, <1>12
    <3>2. CASE j # m
      <4>1. j \in 1..(m - 1) /\ j # Len(stack')
        BY <3>2
      <4> QED
        BY <4>1, <1>11
    <3> QED
      BY <3>1, <3>2
  <2> QED
    BY <2>1, <1>10 DEF LabelDiscipline
<1>14. Nested'
  <2>1. ASSUME NEW j \in 1..(m - 1) PROVE B(j) + Len(P(j)) <= Len(labels')
    <3>1. j \in 1..m
      OBVIOUS
    <3>2. B(j) \in Nat /\ Len(P(j)) \in Nat
      BY <3>1, <1>1
    <3>3. B(j) + Len(P(j)) <= Len(labels)
      BY <1>3, <1>5
    <3> QED
      BY <3>2, <3>3, <1>2
  <2>2. stack'[m].base + Len(q) <= Len(labels')
    BY <1>2, <1>3, <1>9
  <2>3. \A j \in 1..m : stack'[j].base = B(j)
    <3>1. \A j \in 1..m : j \in 1..(m - 1) \/ j = m
      OBVIOUS
    <3> QED
      BY <3>1, <1>4, <1>9
  <2>4. ASSUME NEW j \in 1..m
        PROVE  /\ stack'[j].base + Len(Pushed(stack[j])') <= Len(labels')
               /\ \A i \in 1..(j - 1) :
                    stack'[i].base + Len(Pushed(stack[i])') <= stack'[j].base
    <3>1. j \in 1..(m - 1) \/ j = m
      OBVIOUS
    <3>2. stack'[j].base + Len(Pushed(stack[j])') <= Len(labels')
      BY <3>1, <2>1, <2>2, <1>4, <1>9
    <3>3. ASSUME NEW i \in 1..(j - 1)
          PROVE  stack'[i].base + Len(Pushed(stack[i])') <= stack'[j].base
      <4>1. i \in 1..(m - 1)
        OBVIOUS
      <4> QED
        BY <4>1, <2>3, <1>4, <1>8
    <3> QED
      BY <3>2, <3>3
  <2> QED
    BY <2>4 DEF Nested
<1> QED
  BY <1>13, <1>14 DEF LabelInv

(***************************************************************************)
(* The method on top calls another one, which has pushed nothing yet.      *)
(***************************************************************************)
LEMMA LabelsOfCallee ==
  ASSUME TypeOK, KeepsShape, LabelInv, NEW m \in Nat, m > 0, m = Len(stack),
         Len(stack') = m + 1,
         \A j \in 1..m : stack'[j].base = stack[j].base /\ Pushed(stack[j])' = Pushed(stack[j]),
         stack'[m + 1].base = Len(labels), Pushed(stack[m + 1])' = <<>>,
         labels' = labels
  PROVE  LabelInv'
<1> DEFINE B(j) == stack[j].base
           P(j) == Pushed(stack[j])
<1>1. \A j \in 1..m : B(j) \in Nat /\ Len(P(j)) \in Nat
  BY BaseTyped, PushedLen
<1>2. Len(labels) \in Nat
  BY BaseTyped
<1>3. \A j \in 1..m : B(j) + Len(P(j)) <= Len(labels)
  BY DEF LabelInv, Nested
<1>4. \A j \in 1..m : \A i \in 1..Len(P(j)) : labels[B(j) + i] = P(j)[i]
  BY DEF LabelInv, LabelDiscipline
<1>5. \A j \in 1..m : B(j) + Len(P(j)) = IF j = m THEN Len(labels) ELSE B(j + 1)
  BY DEF LabelInv, LabelDiscipline
<1>6. \A j \in 1..m : \A i \in 1..(j - 1) : B(i) + Len(P(i)) <= B(j)
  BY DEF LabelInv, Nested
<1>7. \A j \in 1..m : stack'[j].base = B(j) /\ Pushed(stack[j])' = P(j)
  OBVIOUS
<1>8. stack'[1].base = 0
  BY <1>7 DEF LabelInv, LabelDiscipline
<1>9. \A j \in 1..(m + 1) : j \in 1..m \/ j = m + 1
  OBVIOUS
<1> HIDE DEF B, P
<1>10. ASSUME NEW j \in 1..m
       PROVE  /\ stack'[j].base + Len(Pushed(stack[j])') = stack'[j + 1].base
              /\ \A i \in 1..Len(Pushed(stack[j])') :
                   labels'[stack'[j].base + i] = Pushed(stack[j])'[i]
  <2>1. CASE j = m
    BY <2>1, <1>4, <1>5, <1>7
  <2>2. CASE j # m
    <3>1. j + 1 \in 1..m
      BY <2>2
    <3> QED
      BY <3>1, <2>2, <1>4, <1>5, <1>7
  <2> QED
    BY <2>1, <2>2
<1>11. /\ stack'[m + 1].base + Len(Pushed(stack[m + 1])') = Len(labels')
       /\ \A i \in 1..Len(Pushed(stack[m + 1])') :
            labels'[stack'[m + 1].base + i] = Pushed(stack[m + 1])'[i]
  <2>1. Len(Pushed(stack[m + 1])') = 0
    OBVIOUS
  <2> QED
    BY <2>1, <1>2
<1>12. LabelDiscipline'
  BY <1>8, <1>9, <1>10, <1>11 DEF LabelDiscipline
<1>13. Nested'
  <2>1. ASSUME NEW j \in 1..m
        PROVE  /\ stack'[j].base + Len(Pushed(stack[j])') <= Len(labels')
               /\ \A i \in 1..(j - 1) :
                    stack'[i].base + Len(Pushed(stack[i])') <= stack'[j].base
    BY <1>3, <1>6, <1>7
  <2>2. stack'[m + 1].base + Len(Pushed(stack[m + 1])') <= Len(labels')
    BY <1>2, <1>11
  <2>3. \A i \in 1..m : stack'[i].base + Len(Pushed(stack[i])') <= stack'[m + 1].base
    BY <1>3, <1>7
  <2> QED
    BY <2>1, <2>2, <2>3, <1>9 DEF Nested
<1> QED
  BY <1>12, <1>13 DEF LabelInv

(***************************************************************************)
(* Nothing happens to the frames and the labels.                           *)
(***************************************************************************)
LEMMA LabelsKept ==
  ASSUME TypeOK, KeepsShape, LabelInv, UNCHANGED <<stack, labels>>
  PROVE  LabelInv'
<1>1. \A j \in 1..Len(stack) : Pushed(stack[j])' = Pushed(stack[j])
  BY PushedSame
<1>2. LabelDiscipline'
  BY <1>1 DEF LabelInv, LabelDiscipline
<1>3. Nested'
  <2>1. ASSUME NEW j \in 1..Len(stack), NEW i \in 1..(j - 1)
        PROVE  stack[i].base + Len(Pushed(stack[i])') <= stack[j].base
    <3>1. i \in 1..Len(stack)
      BY TopTyped
    <3> QED
      BY <3>1, <1>1 DEF LabelInv, Nested
  <2>2. ASSUME NEW j \in 1..Len(stack)
        PROVE  stack[j].base + Len(Pushed(stack[j])') <= Len(labels)
    BY <1>1 DEF LabelInv, Nested
  <2> QED
    BY <2>1, <2>2 DEF Nested
<1> QED
  BY <1>2, <1>3 DEF LabelInv

(***************************************************************************)
(* The effects of Return, Descend and of new blocks on the labels.         *)
(***************************************************************************)
LEMMA ReturnLabels ==
  ASSUME TypeOK, KeepsShape, LabelInv, Len(stack) > 1, NEW v \in Values, Return(v),
         NEW p \in Nat, p = Len(Pushed(Top)),
         Len(labels') = Len(labels) - p,
         \A i \in 1..(Len(labels) - p) : labels'[i] = labels[i]
  PROVE  LabelInv'
<1>1. PICK m \in Nat : m = Len(stack) - 1
  <2>1. Len(stack) - 1 \in Nat
    BY TopTyped
  <2> QED
    BY <2>1
<1>2. m > 0 /\ m + 1 = Len(stack) /\ Top = stack[m + 1]
  BY <1>1, TopTyped DEF Top
<1>3. /\ Len(stack') = m
      /\ \A j \in 1..m : /\ stack'[j].n = stack[j].n /\ stack'[j].bbs = stack[j].bbs
                         /\ stack'[j].base = stack[j].base
  <2> DEFINE g == [stack[m] EXCEPT !.vals = Append(stack[m].vals, v)]
  <2>1. /\ Len(stack') = m
        /\ \A j \in 1..m : stack'[j] = IF j = m THEN g ELSE stack[j]
        /\ g.n = stack[m].n /\ g.bbs = stack[m].bbs /\ g.base = stack[m].base
    BY <1>2, ReturnFrames
  <2> HIDE DEF g
  <2> QED
    BY <2>1
<1>4. p = Len(Pushed(stack[m + 1]))
  BY <1>2
<1> QED
  BY <1>2, <1>3, <1>4, LabelsDropped

LEMMA ReturnNoLabels ==
  ASSUME TypeOK, KeepsShape, LabelInv, Len(stack) > 1, NEW v \in Values, Return(v),
         Node.op \notin {"label", "block", "loop", "switch"}, labels' = labels
  PROVE  LabelInv'
<1>1. Pushed(Top) = <<>>
  BY PushedNone DEF Node
<1>2. 0 \in Nat /\ 0 = Len(Pushed(Top))
  BY <1>1
<1>3. Len(labels') = Len(labels) - 0 /\ \A i \in 1..(Len(labels) - 0) : labels'[i] = labels[i]
  BY BaseTyped
<1> QED
  BY <1>2, <1>3, ReturnLabels

LEMMA LeaveToLabels ==
  ASSUME TypeOK, LabelInv, Len(stack) > 1, NEW x \in 1..Len(body), NEW v \in Values, NEW jumps,
         NEW p \in Nat, p = Len(Pushed(Top)), LeaveTo(x, v, jumps, p)
  PROVE  LabelInv'
<1>1. CASE Crash
  BY <1>1, SameAst, LabelsKept DEF Crash
<1>2. CASE ~Crash
  <2> DEFINE nodes == AddIncomingPhi(ast, Top.n, v, cur)
             in    == nodes[Top.n].incoming
  <2>1. PhiOk(in) /\ ast' = nodes /\ Return(PhiValue(in, x)) /\ PopLabels(p)
    BY <1>2 DEF LeaveTo
  <2>2. AstOK' /\ KeepsShape /\ Len(ast') = Len(ast)
    <3>1. Top.n \in 0..Len(ast) /\ cur \in Nat
      BY TopTyped, BodyOwned
    <3> QED
      BY <3>1, <2>1, IncomingTyped
  <2>3. PhiValue(in, x) \in Values
    <3>1. Top.n \in 1..Len(ast')
      BY <2>2, TopTyped
    <3>2. ast'[Top.n] \in Nodes
      BY <3>1, <2>2 DEF AstOK
    <3>3. in \in Seq(Incomings) /\ x \in Nat
      BY <3>2, <2>1, BodyOwned DEF Nodes
    <3> HIDE DEF in, nodes
    <3> QED
      BY <3>3, <2>1, PhiTyped
  <2> HIDE DEF in, nodes
  <2>4. Len(labels) - p \in 0..Len(labels)
    <3>1. PICK m \in Nat : m = Len(stack)
      BY TopTyped
    <3>2. stack[m].base + Len(Pushed(stack[m])) = Len(labels) /\ m \in 1..Len(stack)
      BY <3>1, TopTyped DEF LabelInv, LabelDiscipline
    <3>3. stack[m].base \in Nat /\ Len(labels) \in Nat /\ p = Len(Pushed(stack[m]))
      BY <3>1, <3>2, BaseTyped DEF Top
    <3> QED
      BY <3>2, <3>3
  <2>5. /\ Len(labels') = Len(labels) - p
        /\ \A i \in 1..(Len(labels) - p) : labels'[i] = labels[i]
    <3>1. labels \in Seq(1..Len(body))
      BY DEF TypeOK, BodyOK
    <3>2. labels' = SubSeq(labels, 1, Len(labels) - p)
      BY <2>1 DEF PopLabels
    <3> QED
      BY <3>1, <3>2, <2>4, SubSeqTyped
  <2> QED
    BY <2>1, <2>2, <2>3, <2>5, ReturnLabels
<1> QED
  BY <1>1, <1>2

LEMMA DescendLabels ==
  ASSUME TypeOK, LabelInv, ast' = ast, NEW k \in 1..Len(Node.kids), NEW bbs \in Seq(Nat),
         Descend(k, bbs), bbs = Top.bbs \/ Node.op \notin {"label", "block", "loop", "switch"},
         labels' = labels
  PROVE  LabelInv'
<1> DEFINE f == Frame(Node.kids[k], Len(labels))
           g == [Top EXCEPT !.bbs = bbs]
<1>1. PICK m \in Nat : m = Len(stack)
  BY TopTyped
<1>2. /\ Len(stack') = m + 1
      /\ \A j \in 1..m : stack'[j] = IF j = m THEN g ELSE stack[j]
      /\ stack'[m + 1] = f
  BY <1>1, DescendFrames
<1>3. g.n = Top.n /\ g.bbs = bbs /\ g.base = Top.base
  BY TopTyped, FrameBbs
<1>4. f.base = Len(labels) /\ f.bbs = <<>>
  BY DEF Frame
<1>5. m > 0 /\ Top = stack[m] /\ KeepsShape
  BY <1>1, TopTyped, SameAst DEF Top
<1> HIDE DEF f, g
<1>6. ASSUME NEW j \in 1..m
      PROVE  stack'[j].base = stack[j].base /\ Pushed(stack[j])' = Pushed(stack[j])
  <2>1. j \in 1..Len(stack)
    BY <1>1
  <2>2. CASE j # m
    <3>1. stack'[j] = stack[j]
      BY <2>2, <1>2
    <3> QED
      BY <3>1, <2>1, <1>5, PushedSame
  <2>3. CASE j = m
    <3>1. stack'[j].base = stack[j].base /\ stack'[j].n = stack[j].n /\ stack'[j].bbs = bbs
      BY <2>3, <1>2, <1>3, <1>5
    <3>2. CASE bbs = Top.bbs
      BY <3>1, <3>2, <2>1, <2>3, <1>5, PushedSame
    <3>3. CASE Node.op \notin {"label", "block", "loop", "switch"}
      <4>1. ast[stack[j].n].op \notin {"label", "block", "loop", "switch"}
        BY <3>3, <2>3, <1>5 DEF Node
      <4> QED
        BY <4>1, <3>1 DEF Pushed
    <3> QED
      BY <3>2, <3>3, <3>1
  <2> QED
    BY <2>2, <2>3
<1>7. stack'[m + 1].base = Len(labels) /\ Pushed(stack[m + 1])' = <<>>
  BY <1>2, <1>4 DEF Pushed
<1> QED
  BY <1>1, <1>2, <1>5, <1>6, <1>7, LabelsOfCallee

(***************************************************************************)
(* The method on top gets the blocks bbs, and pushes the labels q if it is *)
(* a named expression.                                                     *)
(***************************************************************************)
LEMMA EnterLabels ==
  ASSUME TypeOK, LabelInv, KeepsShape, NEW m \in Nat, m = Len(stack), NEW g \in Frames,
         stack' = [stack EXCEPT ![m] = g], g.base = Top.base, Pushed(Top) = <<>>,
         NEW q, Len(q) \in Nat, q = Pushed(stack[m])',
         Len(labels') = Len(labels) + Len(q),
         \A i \in 1..Len(labels) : labels'[i] = labels[i],
         \A i \in 1..Len(q) : labels'[Len(labels) + i] = q[i]
  PROVE  LabelInv'
<1>1. stack \in Seq(Frames) /\ m \in 1..Len(stack) /\ m > 0 /\ Top = stack[m]
  BY TopTyped DEF TypeOK, StackOK, Top
<1>2. /\ Len(stack') = m
      /\ \A j \in 1..m : stack'[j] = IF j = m THEN g ELSE stack[j]
  BY <1>1, ExceptTyped
<1>3. /\ \A j \in 1..(m - 1) : stack'[j] = stack[j]
      /\ stack'[m].base = stack[m].base /\ Pushed(stack[m]) = <<>>
  BY <1>1, <1>2
<1> QED
  BY <1>1, <1>2, <1>3, LabelsPushed

LEMMA EnterNoLabels ==
  ASSUME TypeOK, LabelInv, KeepsShape, NEW m \in Nat, m = Len(stack), NEW g \in Frames,
         stack' = [stack EXCEPT ![m] = g], g.base = Top.base,
         Node.op \notin {"label", "block", "loop", "switch"},
         ast'[g.n].op \notin {"label", "block", "loop", "switch"}, labels' = labels
  PROVE  LabelInv'
<1>1. stack \in Seq(Frames) /\ m \in 1..Len(stack) /\ m > 0
  BY TopTyped DEF TypeOK, StackOK
<1>2. stack'[m] = g
  BY <1>1
<1>3. Pushed(stack[m])' = <<>>
  BY <1>2 DEF Pushed
<1>4. Pushed(Top) = <<>>
  BY PushedNone DEF Node
<1>5. PICK q : q = <<>>
  OBVIOUS
<1>6. Len(q) = 0 /\ q = Pushed(stack[m])' /\ Len(labels) \in Nat
  BY <1>3, <1>5, BaseTyped
<1>7. /\ Len(labels') = Len(labels) + Len(q)
      /\ \A i \in 1..Len(labels) : labels'[i] = labels[i]
      /\ \A i \in 1..Len(q) : labels'[Len(labels) + i] = q[i]
      /\ Len(q) \in Nat
  BY <1>6
<1> QED
  BY <1>4, <1>6, <1>7, EnterLabels

(***************************************************************************)
(* The actions and LabelInv.                                               *)
(***************************************************************************)
LEMMA CrashLabels == TypeOK /\ LabelInv /\ Crash => LabelInv'
BY SameAst, LabelsKept DEF Crash

LEMMA ReturnInstLabels ==
  ASSUME TypeOK, LabelInv, Len(stack) > 1, NEW args, NEW ty \in ValueTypes,
         ReturnInst(args, ty), Node.op \notin {"label", "block", "loop", "switch"}
  PROVE  LabelInv'
<1>1. Return([ty |-> ty, at |-> cur]) /\ UNCHANGED <<ast, labels>>
  BY DEF ReturnInst
<1>2. [ty |-> ty, at |-> cur] \in Values
  BY BodyOwned DEF Values
<1>3. KeepsShape
  BY <1>1, SameAst
<1> QED
  BY <1>1, <1>2, <1>3, ReturnNoLabels

LEMMA StraightLabels ==
  ASSUME TypeOK, LabelInv,
         GenConst \/ GenGetLocal \/ GenUnreachable \/ GenSetLocal \/ GenCall \/ GenBinop
           \/ GenSelect \/ GenReturn
  PROVE  LabelInv'
<1>1. Running({"const", "nop", "get_local", "unreachable", "set_local", "call", "bin", "cmp",
               "select", "return"})
  BY DEF GenConst, GenGetLocal, GenUnreachable, GenSetLocal, GenCall, GenBinop, GenSelect,
         GenReturn, Running
<1>2. Len(stack) > 1 /\ Node.op \notin {"label", "block", "loop", "switch"}
  BY <1>1, NotFunc DEF Running
<1>3. CASE Crash
  BY <1>3, CrashLabels
<1>4. ASSUME NEW v \in Values, Return(v), UNCHANGED <<ast, labels>>
      PROVE  LabelInv'
  BY <1>2, <1>4, SameAst, ReturnNoLabels
<1>5. ASSUME NEW args, NEW ty \in ValueTypes, ReturnInst(args, ty)
      PROVE  LabelInv'
  BY <1>2, <1>5, ReturnInstLabels
<1>6. Top.vals \in Seq(Values) /\ Node \in Nodes /\ Last \in Values
  BY TopTyped DEF Frames
<1>7. CASE GenConst
  <2>1. Return(IF Node.op = "const" THEN Const ELSE Null) /\ UNCHANGED <<ast, labels>>
    BY <1>7 DEF GenConst
  <2> QED
    BY <2>1, <1>4, ConstTyped
<1>8. CASE GenGetLocal
  BY <1>8, <1>5 DEF GenGetLocal, ValueTypes
<1>9. CASE GenUnreachable
  BY <1>9, <1>5 DEF GenUnreachable, ValueTypes
<1>10. CASE GenSetLocal /\ ~Crash
  <2>1. Return(Last) /\ UNCHANGED <<ast, labels>>
    BY <1>10 DEF GenSetLocal
  <2> QED
    BY <2>1, <1>4, <1>6
<1>11. CASE GenCall /\ ~Crash
  <2>1. ReturnInst(Top.vals, Node.ty) /\ Node.ty \in ValueTypes
    BY <1>11, <1>6 DEF GenCall, Nodes, ValueTypes
  <2> QED
    BY <2>1, <1>5
<1>12. CASE GenBinop /\ ~Crash
  <2> DEFINE lv == Top.vals[1]
             rv == Top.vals[2]
             ty == IF Node.op = "cmp" THEN "i1" ELSE lv.ty
  <2>1. \/ Return(Null) /\ UNCHANGED <<ast, labels>>
        \/ IsMachine(lv) /\ ReturnInst(<<lv, rv>>, ty)
    BY <1>12 DEF GenBinop
  <2>2. CASE Return(Null) /\ UNCHANGED <<ast, labels>>
    BY <2>2, <1>4, ConstTyped
  <2>3. CASE IsMachine(lv) /\ ReturnInst(<<lv, rv>>, ty)
    <3>1. ty \in ValueTypes
      BY <2>3 DEF IsMachine, ValueTypes
    <3> HIDE DEF ty, lv, rv
    <3> QED
      BY <2>3, <3>1, <1>5
  <2> QED
    BY <2>1, <2>2, <2>3
<1>13. CASE GenSelect /\ ~Crash
  <2>1. \/ Return(Last) /\ UNCHANGED <<ast, labels>>
        \/ IsMachine(Top.vals[2]) /\ ReturnInst(Top.vals, Top.vals[2].ty)
    BY <1>13 DEF GenSelect
  <2>2. CASE Return(Last) /\ UNCHANGED <<ast, labels>>
    BY <2>2, <1>4, <1>6
  <2>3. CASE IsMachine(Top.vals[2]) /\ ReturnInst(Top.vals, Top.vals[2].ty)
    <3>1. Top.vals[2].ty \in ValueTypes
      BY <2>3 DEF IsMachine, ValueTypes
    <3> QED
      BY <2>3, <3>1, <1>5
  <2> QED
    BY <2>1, <2>2, <2>3
<1>14. CASE GenReturn /\ ~Crash
  <2>1. Return([ty |-> "term", at |-> cur]) /\ UNCHANGED <<ast, labels>>
    BY <1>14 DEF GenReturn
  <2>2. [ty |-> "term", at |-> cur] \in Values
    BY BodyOwned DEF Values, ValueTypes
  <2> QED
    BY <2>1, <2>2, <1>4
<1> QED
  BY <1>3, <1>7, <1>8, <1>9, <1>10, <1>11, <1>12, <1>13, <1>14

LEMMA NextOperandLabels ==
  ASSUME TypeOK, LabelInv, NextOperand
  PROVE  LabelInv'
<1>1. Node.op \in Sequential /\ ~OperandsDone /\ Entered /\ Descend(Done + 1, Top.bbs)
      /\ UNCHANGED <<ast, labels>>
  BY DEF NextOperand, Running
<1>2. Done + 1 \in 1..Len(Node.kids)
  <2>1. FrameOK(Len(stack))
    BY TopTyped DEF TypeOK, StackOK
  <2>2. Done <= MostValues(Node)
    BY <2>1 DEF FrameOK, Top, Node, Done
  <2>3. Done <= Len(Node.kids) /\ Done # Len(Node.kids)
    BY <2>2, <1>1 DEF MostValues, OperandsDone, Sequential
  <2>4. Node.kids \in Seq(Nat) /\ Done \in Nat
    BY TopTyped DEF Nodes
  <2> QED
    BY <2>3, <2>4
<1>3. PICK k \in 1..Len(Node.kids) : k = Done + 1
  BY <1>2
<1>4. Descend(k, Top.bbs) /\ Top.bbs \in Seq(Nat)
  BY <1>1, <1>3, TopTyped DEF Frames
<1> QED
  BY <1>1, <1>4, DescendLabels

LEMMA IfLabels ==
  ASSUME TypeOK, LabelInv, IfCondition \/ IfTrueSide \/ IfFalseSide \/ IfMerge
  PROVE  LabelInv'
<1>1. Node.op = "if" /\ Len(stack) > 1
  <2>1. Running({"if"})
    BY DEF IfCondition, IfTrueSide, IfFalseSide, IfMerge
  <2> QED
    BY <2>1, NotFunc DEF Running
<1>2. Node.kids \in Seq(Nat) /\ Len(Node.kids) >= 2
  BY <1>1, TopTyped, IfHasOperands DEF Nodes
<1>3. CASE Crash
  BY <1>3, CrashLabels
<1>4. ASSUME NEW k \in 1..Len(Node.kids), NEW bbs \in Seq(Nat), Descend(k, bbs),
             UNCHANGED <<ast, labels>>
      PROVE  LabelInv'
  BY <1>1, <1>4, DescendLabels
<1>5. CASE IfCondition
  <2>1. 1 \in 1..Len(Node.kids) /\ <<>> \in Seq(Nat)
    BY <1>2
  <2> QED
    BY <2>1, <1>4, <1>5 DEF IfCondition
<1>6. CASE IfTrueSide /\ ~Crash
  <2> DEFINE t == Len(body) + 1
  <2>1. Descend(2, <<t, t + 1, t + 2>>) /\ UNCHANGED <<ast, labels>>
    BY <1>6 DEF IfTrueSide
  <2>2. 2 \in 1..Len(Node.kids) /\ <<t, t + 1, t + 2>> \in Seq(Nat)
    BY <1>2, BodyOwned
  <2> HIDE DEF t
  <2> QED
    BY <2>1, <2>2, <1>4
<1>7. CASE IfFalseSide
  <2> DEFINE bbs == <<cur, Top.bbs[2], Top.bbs[3]>>
  <2>1. /\ UNCHANGED <<ast, labels>> /\ Done = 2
        /\ IF Len(Node.kids) = 3
           THEN Descend(3, bbs)
           ELSE stack' = [stack EXCEPT ![Len(stack)].bbs = bbs,
                                       ![Len(stack)].vals = Append(@, Null)]
    BY <1>7 DEF IfFalseSide
  <2>2. bbs \in Seq(Nat)
    <3>1. \A i \in 1..3 : Top.bbs[i] \in 1..Len(body)
      BY <1>1, <2>1, IfHasOperands
    <3>2. cur \in Nat /\ Top.bbs[2] \in Nat /\ Top.bbs[3] \in Nat
      BY <3>1, BodyOwned
    <3> QED
      BY <3>2
  <2> HIDE DEF bbs
  <2>3. CASE Len(Node.kids) = 3
    <3>1. 3 \in 1..Len(Node.kids)
      BY <2>3
    <3> QED
      BY <3>1, <2>1, <2>2, <2>3, <1>4
  <2>4. CASE Len(Node.kids) # 3
    <3> DEFINE h == [Top EXCEPT !.bbs = bbs]
               g == [h EXCEPT !.vals = Append(h.vals, Null)]
    <3>1. h \in Frames /\ h.n = Top.n /\ h.base = Top.base
      BY <2>2, TopTyped, FrameBbs
    <3>2. g \in Frames /\ g.n = Top.n /\ g.base = Top.base
      BY <3>1, ConstTyped, FrameVals
    <3>3. PICK m \in Nat : m = Len(stack)
      BY TopTyped
    <3>4. stack' = [stack EXCEPT ![m] = g]
      BY <2>1, <2>4, <3>3, TopTyped DEF Top, Frames, StackOK, TypeOK
    <3> HIDE DEF g, h
    <3>5. ast'[g.n].op = "if" /\ KeepsShape
      BY <1>1, <2>1, <3>2, SameAst DEF Node
    <3> QED
      BY <1>1, <2>1, <3>2, <3>3, <3>4, <3>5, EnterNoLabels
  <2> QED
    BY <2>3, <2>4
<1>8. CASE IfMerge /\ ~Crash
  <2> DEFINE tv     == Top.vals[2]
             fv     == Top.vals[3]
             end    == Top.bbs[3]
             merges == tv.ty \notin {"null", "term"} /\ fv # Null /\ Node.merge
             value  == CASE tv.ty \in {"null", "term"} -> fv
                         [] merges                     -> [ty |-> tv.ty, at |-> end]
                         [] OTHER                      -> tv
  <2>1. Return(value) /\ UNCHANGED <<ast, labels>> /\ Done = 3
    BY <1>8 DEF IfMerge
  <2>2. tv \in Values /\ fv \in Values
    <3>1. Top.vals \in Seq(Values) /\ 2 \in 1..Len(Top.vals) /\ 3 \in 1..Len(Top.vals)
      BY <2>1, TopTyped DEF Frames, Done
    <3> QED
      BY <3>1
  <2>3. end \in Nat
    <3>1. \A i \in 1..3 : Top.bbs[i] \in 1..Len(body)
      BY <1>1, <2>1, IfHasOperands
    <3> QED
      BY <3>1, BodyOwned
  <2>4. value \in Values
    BY <2>2, <2>3 DEF Values
  <2> HIDE DEF value
  <2> QED
    BY <2>1, <2>4, <1>1, SameAst, ReturnNoLabels
<1> QED
  BY <1>3, <1>5, <1>6, <1>7, <1>8

LEMMA HandleDivRemLabels ==
  ASSUME TypeOK, LabelInv, HandleDivRem
  PROVE  LabelInv'
<1>1. PICK m \in Nat : m = Len(stack)
  BY TopTyped
<1>2. PICK n \in Nat : n = Len(ast) + 9
  BY BodyOwned
<1> DEFINE g == [Top EXCEPT !.n = n]
<1>3. Node.op = "divrem" /\ stack' = [stack EXCEPT ![m] = g] /\ labels' = labels
  BY <1>1, <1>2 DEF HandleDivRem, Running, Top
<1>4. KeepsShape /\ ast'[n].op = "if"
  BY <1>2, HandleDivRemAst
<1>5. g \in Frames /\ g.n = n /\ g.base = Top.base
  BY TopTyped DEF Frames
<1> HIDE DEF g
<1>6. ast'[g.n].op \notin {"label", "block", "loop", "switch"}
  BY <1>4, <1>5
<1> QED
  BY <1>1, <1>3, <1>4, <1>5, <1>6, EnterNoLabels

(***************************************************************************)
(* A named expression that enters stores bbs and pushes q.                 *)
(***************************************************************************)
LEMMA NamedEnterLabels ==
  ASSUME TypeOK, LabelInv, ~Entered, Node.op \in {"label", "block", "loop", "switch"},
         NEW bbs \in Seq(Nat), Enter(bbs), ast' = ast,
         NEW q \in Seq(Nat),
         \A f \in Frames : f.n = Top.n /\ f.bbs = bbs => Pushed(f) = q,
         labels' = labels \o q
  PROVE  LabelInv'
<1>1. PICK m \in Nat : m = Len(stack)
  BY TopTyped
<1> DEFINE g == [Top EXCEPT !.bbs = bbs]
<1>2. g \in Frames /\ g.n = Top.n /\ g.bbs = bbs /\ g.base = Top.base
  BY TopTyped, FrameBbs
<1>3. stack' = [stack EXCEPT ![m] = g] /\ KeepsShape
  BY <1>1, SameAst DEF Enter, Top
<1>4. stack'[m] = g
  <2>1. stack \in Seq(Frames) /\ m \in 1..Len(stack)
    BY <1>1, TopTyped DEF TypeOK, StackOK
  <2> HIDE DEF g
  <2> QED
    BY <2>1, <1>3
<1>5. Pushed(Top) = <<>>
  <2>1. Top.bbs = <<>>
    BY DEF Entered
  <2> QED
    BY <2>1, PushedNone
<1> HIDE DEF g
<1>6. q = Pushed(stack[m])'
  <2>1. Pushed(g) = q
    BY <1>2
  <2> QED
    BY <2>1, <1>4 DEF Pushed
<1>7. labels \in Seq(Nat)
  BY DEF TypeOK, BodyOK
<1>8. /\ Len(q) \in Nat
      /\ Len(labels') = Len(labels) + Len(q)
      /\ \A i \in 1..Len(labels) : labels'[i] = labels[i]
      /\ \A i \in 1..Len(q) : labels'[Len(labels) + i] = q[i]
  BY <1>7, ConcatTyped
<1> QED
  BY <1>1, <1>2, <1>3, <1>5, <1>6, <1>8, EnterLabels, ZenonT(40)

LEMMA EnterNamedLabels ==
  ASSUME TypeOK, LabelInv, LabelEnter \/ LoopEnter \/ BlockEnter
  PROVE  LabelInv'
<1>1. PICK x \in Nat : x = Len(body) + 1
  BY BodyOwned
<1>2. labels \in Seq(Nat)
  BY DEF TypeOK, BodyOK
<1>3. CASE LabelEnter
  <2>1. /\ Node.op = "label" /\ ~Entered /\ labels' = Append(labels, x)
        /\ Enter(<<x>>) /\ ast' = ast
    BY <1>1, <1>3 DEF LabelEnter, Running, PushLabel
  <2>2. <<x>> \in Seq(Nat)
    OBVIOUS
  <2>3. PICK bbs \in Seq(Nat) : bbs = <<x>>
    BY <2>2
  <2>4. PICK q \in Seq(Nat) : q = <<x>>
    BY <2>2
  <2>5. labels' = labels \o q
    BY <2>1, <2>4, <1>2
  <2>6. \A f \in Frames : f.n = Top.n /\ f.bbs = bbs => Pushed(f) = q
    BY <2>1, <2>3, <2>4 DEF Pushed, Node
  <2> QED
    BY <2>1, <2>3, <2>5, <2>6, NamedEnterLabels
<1>4. CASE BlockEnter
  <2>1. /\ Node.op = "block" /\ ~Entered /\ labels' = Append(labels, x + 1)
        /\ Enter(<<x, x + 1>>) /\ ast' = ast
    BY <1>1, <1>4 DEF BlockEnter, Running, PushLabel
  <2>2. <<x, x + 1>> \in Seq(Nat) /\ <<x + 1>> \in Seq(Nat)
    OBVIOUS
  <2>3. PICK bbs \in Seq(Nat) : bbs = <<x, x + 1>>
    BY <2>2
  <2>4. PICK q \in Seq(Nat) : q = <<x + 1>>
    BY <2>2
  <2>5. labels' = labels \o q
    <3>1. x + 1 \in Nat
      OBVIOUS
    <3>2. PICK y \in Nat : y = x + 1
      BY <3>1
    <3>3. labels' = Append(labels, y) /\ q = <<y>>
      BY <2>1, <2>4, <3>2
    <3>4. Append(labels, y) = labels \o <<y>>
      BY <1>2
    <3> QED
      BY <3>3, <3>4
  <2>6. \A f \in Frames : f.n = Top.n /\ f.bbs = bbs => Pushed(f) = q
    BY <2>1, <2>3, <2>4 DEF Pushed, Node
  <2> QED
    BY <2>1, <2>3, <2>5, <2>6, NamedEnterLabels
<1>5. CASE LoopEnter
  <2>1. /\ Node.op = "loop" /\ ~Entered /\ labels' = labels \o <<x + 1, x>>
        /\ Enter(<<x, x + 1>>) /\ ast' = ast
    BY <1>1, <1>5 DEF LoopEnter, Running
  <2>2. <<x, x + 1>> \in Seq(Nat) /\ <<x + 1, x>> \in Seq(Nat)
    OBVIOUS
  <2>3. PICK bbs \in Seq(Nat) : bbs = <<x, x + 1>>
    BY <2>2
  <2>4. PICK q \in Seq(Nat) : q = <<x + 1, x>>
    BY <2>2
  <2>5. labels' = labels \o q
    BY <2>1, <2>4
  <2>6. \A f \in Frames : f.n = Top.n /\ f.bbs = bbs => Pushed(f) = q
    BY <2>1, <2>3, <2>4 DEF Pushed, Node
  <2> QED
    BY <2>1, <2>3, <2>5, <2>6, NamedEnterLabels
<1> QED
  BY <1>3, <1>4, <1>5

LEMMA ExitNamedLabels ==
  ASSUME TypeOK, LabelInv, LabelExit \/ LoopExit \/ BlockExit
  PROVE  LabelInv'
<1>1. /\ Node.op \in {"label", "loop", "block"} /\ Entered /\ Last \in Values
  BY TopTyped DEF LabelExit, LoopExit, BlockExit, Running, OperandsDone
<1>2. Len(stack) > 1
  BY <1>1, TopTyped
<1>3. Top.bbs # <<>>
  BY <1>1 DEF Entered
<1>4. CASE LabelExit
  <2>1. Node.op = "label" /\ LeaveTo(Top.bbs[1], Last, TRUE, 1)
    BY <1>4 DEF LabelExit, Running
  <2>2. Pushed(Top) = <<Top.bbs[Len(Top.bbs)]>>
    BY <2>1, <1>3 DEF Pushed, Node
  <2>3. 1 \in Nat /\ 1 = Len(Pushed(Top)) /\ Top.bbs[1] \in 1..Len(body)
    BY <2>1, <2>2, <1>1, EnteredHolds
  <2> QED
    BY <2>1, <2>3, <1>1, <1>2, LeaveToLabels
<1>5. CASE BlockExit
  <2>1. Node.op = "block" /\ LeaveTo(Top.bbs[2], Last, ~Stopped, 1)
    BY <1>5 DEF BlockExit, Running
  <2>2. Pushed(Top) = <<Top.bbs[Len(Top.bbs)]>>
    BY <2>1, <1>3 DEF Pushed, Node
  <2>3. 1 \in Nat /\ 1 = Len(Pushed(Top)) /\ Top.bbs[2] \in 1..Len(body)
    BY <2>1, <2>2, <1>1, EnteredHolds
  <2> QED
    BY <2>1, <2>3, <1>1, <1>2, LeaveToLabels
<1>6. CASE LoopExit
  <2>1. Node.op = "loop" /\ LeaveTo(Top.bbs[2], Last, Last.ty \notin {"null", "term"}, 2)
    BY <1>6 DEF LoopExit, Running
  <2>2. Pushed(Top) = <<Top.bbs[2], Top.bbs[1]>>
    BY <2>1, <1>3 DEF Pushed, Node
  <2>3. 2 \in Nat /\ 2 = Len(Pushed(Top)) /\ Top.bbs[2] \in 1..Len(body)
    BY <2>1, <2>2, <1>1, EnteredHolds
  <2> QED
    BY <2>1, <2>3, <1>1, <1>2, LeaveToLabels
<1> QED
  BY <1>4, <1>5, <1>6

LEMMA BreakLabels ==
  ASSUME TypeOK, LabelInv, BreakTarget \/ GenBreak \/ GenBreakIf
  PROVE  LabelInv'
<1>1. Node.op \in {"br", "br_if"}
  BY DEF BreakTarget, GenBreak, GenBreakIf, Running
<1>2. Len(stack) > 1
  BY <1>1, TopTyped
<1>3. CASE Crash
  BY <1>3, CrashLabels
<1>4. CASE BreakTarget /\ ~Crash
  <2> DEFINE g == [Top EXCEPT !.bbs = <<GetLabel(Node)>>]
  <2>1. /\ GetLabel(Node) # 0 /\ Enter(<<GetLabel(Node)>>) /\ UNCHANGED <<ast, labels>>
    BY <1>4 DEF BreakTarget
  <2>2. GetLabel(Node) \in 1..Len(body)
    BY <2>1, <1>1, GetLabelTyped
  <2>3. <<GetLabel(Node)>> \in Seq(Nat)
    BY <2>2
  <2>4. g \in Frames /\ g.n = Top.n /\ g.base = Top.base
    BY <2>3, TopTyped, FrameBbs
  <2>5. PICK m \in Nat : m = Len(stack)
    BY TopTyped
  <2>6. stack' = [stack EXCEPT ![m] = g] /\ KeepsShape
    BY <2>1, <2>5, SameAst DEF Enter, Top
  <2> HIDE DEF g
  <2>7. ast'[g.n].op \notin {"label", "block", "loop", "switch"}
    BY <1>1, <2>1, <2>4 DEF Node
  <2> QED
    BY <1>1, <2>1, <2>4, <2>5, <2>6, <2>7, EnterNoLabels
<1>5. CASE GenBreak
  <2> DEFINE target == Top.bbs[1]
             v      == [ty |-> "term", at |-> cur]
  <2>1. /\ Entered /\ Node.op = "br"
        /\ ast' = AddIncomingPhi(ast, body[target].owner, Last, cur)
        /\ Return(v) /\ labels' = labels
    BY <1>5 DEF GenBreak, OperandsDone, Running
  <2>2. body[target].owner \in 0..Len(ast) /\ Last \in Values /\ cur \in Nat /\ v \in Values
    BY <2>1, EnteredHolds, OwnerTyped, BodyOwned, TopTyped DEF Values, ValueTypes
  <2> HIDE DEF target, v
  <2>3. KeepsShape
    BY <2>1, <2>2, IncomingTyped
  <2> QED
    BY <1>1, <1>2, <2>1, <2>2, <2>3, ReturnNoLabels
<1>6. CASE GenBreakIf /\ ~Crash
  <2> DEFINE target == Top.bbs[1]
             v      == IF Done = 2 THEN Top.vals[1] ELSE Null
             t      == Len(body) + 1
  <2>1. /\ Entered /\ Node.op = "br_if"
        /\ ast' = AddIncomingPhi(ast, body[target].owner, v, t)
        /\ Return(Null) /\ labels' = labels
    BY <1>6 DEF GenBreakIf, OperandsDone, Running
  <2>2. body[target].owner \in 0..Len(ast) /\ t \in Nat
    BY <2>1, EnteredHolds, OwnerTyped, BodyOwned
  <2>3. v \in Values
    <3>1. CASE Done = 2
      <4>1. Top.vals \in Seq(Values) /\ 1 \in 1..Len(Top.vals)
        BY <3>1, TopTyped DEF Frames, Done
      <4> QED
        BY <3>1, <4>1
    <3>2. CASE Done # 2
      BY <3>2, ConstTyped
    <3> QED
      BY <3>1, <3>2
  <2> HIDE DEF target, v, t
  <2>4. KeepsShape
    BY <2>1, <2>2, <2>3, IncomingTyped
  <2> QED
    BY <1>1, <1>2, <2>1, <2>4, ConstTyped, ReturnNoLabels
<1> QED
  BY <1>3, <1>4, <1>5, <1>6

(***************************************************************************)
(* The tableswitch and its label.                                          *)
(***************************************************************************)
LEMMA SwitchPushed ==
  ASSUME TypeOK, KeepsShape, Node.op = "switch", NEW j \in Nat, NEW bbs \in Seq(Nat),
         Len(bbs) > 0, stack'[j].n = Top.n, stack'[j].bbs = bbs
  PROVE  Pushed(stack[j])' = IF Len(bbs) < Len(Node.kids) + 2 THEN <<bbs[2]>> ELSE <<>>
<1>1. /\ ast'[Top.n].op = "switch" /\ ast'[Top.n].kids = Node.kids
  BY TopTyped DEF KeepsShape, Node
<1>2. bbs # <<>>
  OBVIOUS
<1> QED
  BY <1>1, <1>2 DEF Pushed

LEMMA SwitchPushedNow ==
  ASSUME TypeOK, Node.op = "switch", Entered
  PROVE  /\ Done < Len(Node.kids) => Pushed(Top) = <<Top.bbs[2]>>
         /\ Done = Len(Node.kids) => Pushed(Top) = <<>>
<1>1. PICK k \in Nat : k = Done
  BY SwitchHolds
<1>2. PICK n \in Nat : n = Len(Node.kids)
  BY SwitchHolds
<1>3. PICK l \in Nat : l = Len(Top.bbs)
  BY SwitchHolds
<1>4. /\ l \in {k + 1, k + 2} \/ (k = 0 /\ l = 2)
      /\ k <= n
      /\ l >= 2
      /\ k = n => l = k + 2
  BY <1>1, <1>2, <1>3, SwitchHolds
<1>5. Top.bbs # <<>>
  BY SwitchHolds
<1>6. k < n => l < n + 2
  BY <1>4
<1>7. k = n => ~(l < n + 2)
  BY <1>4
<1>8. Pushed(Top) = IF l < n + 2 THEN <<Top.bbs[2]>> ELSE <<>>
  BY <1>2, <1>3, <1>5 DEF Pushed, Node
<1> QED
  BY <1>1, <1>2, <1>6, <1>7, <1>8

(***************************************************************************)
(* The top frame is replaced by one that has pushed the same.              *)
(***************************************************************************)
LEMMA ReplaceLabels ==
  ASSUME TypeOK, LabelInv, KeepsShape, NEW m \in Nat, m = Len(stack), NEW g \in Frames,
         stack' = [stack EXCEPT ![m] = g], g.base = Top.base,
         Pushed(stack[m])' = Pushed(stack[m]), labels' = labels
  PROVE  LabelInv'
<1>1. stack \in Seq(Frames) /\ m \in 1..Len(stack) /\ m > 0 /\ Top = stack[m]
  BY TopTyped DEF TypeOK, StackOK, Top
<1>2. /\ Len(stack') = m
      /\ \A j \in 1..m : stack'[j] = IF j = m THEN g ELSE stack[j]
  BY <1>1, ExceptTyped
<1>3. \A j \in 1..m : stack'[j].base = stack[j].base
  BY <1>1, <1>2
<1>4. ASSUME NEW j \in 1..m PROVE Pushed(stack[j])' = Pushed(stack[j])
  <2>1. CASE j = m
    BY <2>1
  <2>2. CASE j # m
    <3>1. stack'[j] = stack[j] /\ j \in 1..Len(stack)
      BY <2>2, <1>2
    <3> QED
      BY <3>1, PushedSame
  <2> QED
    BY <2>1, <2>2
<1>5. LabelDiscipline'
  <2>1. stack'[1].base = 0
    BY <1>1, <1>3 DEF LabelInv, LabelDiscipline
  <2>2. ASSUME NEW j \in 1..m
        PROVE  /\ stack'[j].base + Len(Pushed(stack[j])') =
                    (IF j = m THEN Len(labels') ELSE stack'[j + 1].base)
               /\ \A i \in 1..Len(Pushed(stack[j])') :
                    labels'[stack'[j].base + i] = Pushed(stack[j])'[i]
    <3>1. /\ stack[j].base + Len(Pushed(stack[j])) =
               (IF j = m THEN Len(labels) ELSE stack[j + 1].base)
          /\ \A i \in 1..Len(Pushed(stack[j])) :
               labels[stack[j].base + i] = Pushed(stack[j])[i]
      BY DEF LabelInv, LabelDiscipline
    <3>2. j # m => stack'[j + 1].base = stack[j + 1].base
      <4>1. j # m => j + 1 \in 1..m
        OBVIOUS
      <4> QED
        BY <4>1, <1>3
    <3> QED
      BY <3>1, <3>2, <1>3, <1>4
  <2> QED
    BY <2>1, <2>2, <1>2 DEF LabelDiscipline
<1>6. Nested'
  <2>1. ASSUME NEW j \in 1..m, NEW i \in 1..(j - 1)
        PROVE  stack'[i].base + Len(Pushed(stack[i])') <= stack'[j].base
    <3>1. i \in 1..m
      OBVIOUS
    <3> QED
      BY <3>1, <1>3, <1>4 DEF LabelInv, Nested
  <2>2. ASSUME NEW j \in 1..m
        PROVE  stack'[j].base + Len(Pushed(stack[j])') <= Len(labels')
    BY <1>3, <1>4 DEF LabelInv, Nested
  <2> QED
    BY <2>1, <2>2, <1>2 DEF Nested
<1> QED
  BY <1>5, <1>6 DEF LabelInv

(***************************************************************************)
(* The method on top drops the one label it has pushed, and calls another. *)
(***************************************************************************)
LEMMA LabelDroppedForCallee ==
  ASSUME TypeOK, KeepsShape, LabelInv, NEW m \in Nat, m > 0, m = Len(stack),
         Len(stack') = m + 1,
         \A j \in 1..m : stack'[j].base = stack[j].base,
         \A j \in 1..(m - 1) : Pushed(stack[j])' = Pushed(stack[j]),
         Len(Pushed(stack[m])) = 1, Pushed(stack[m])' = <<>>,
         stack'[m + 1].base = Len(labels'), Pushed(stack[m + 1])' = <<>>,
         Len(labels') = Len(labels) - 1,
         \A i \in 1..(Len(labels) - 1) : labels'[i] = labels[i]
  PROVE  LabelInv'
<1> DEFINE B(j) == stack[j].base
           P(j) == Pushed(stack[j])
<1>1. \A j \in 1..m : B(j) \in Nat /\ Len(P(j)) \in Nat
  BY BaseTyped, PushedLen
<1>0. m \in 1..Len(stack)
  OBVIOUS
<1>20. stack[m].base \in Nat
  BY <1>0, BaseTyped
<1>2. PICK b \in Nat : b = stack[m].base
  BY <1>20
<1>3. Len(labels') = b /\ \A i \in 1..b : labels'[i] = labels[i]
  <2>1. stack[m].base + Len(Pushed(stack[m])) = Len(labels)
    BY <1>0 DEF LabelInv, LabelDiscipline
  <2>2. Len(labels) = b + 1
    BY <2>1, <1>2
  <2> QED
    BY <2>2
<1>4. \A j \in 1..(m - 1) : B(j) + Len(P(j)) <= b
  BY <1>2 DEF LabelInv, Nested
<1>5. \A j \in 1..(m - 1) : \A i \in 1..Len(P(j)) : labels[B(j) + i] = P(j)[i]
  <2> TAKE j \in 1..(m - 1)
  <2>1. j \in 1..Len(stack)
    OBVIOUS
  <2> QED
    BY <2>1 DEF LabelInv, LabelDiscipline
<1>6. \A j \in 1..(m - 1) : B(j) + Len(P(j)) = B(j + 1)
  <2> TAKE j \in 1..(m - 1)
  <2>1. j \in 1..Len(stack) /\ j # Len(stack)
    OBVIOUS
  <2> QED
    BY <2>1 DEF LabelInv, LabelDiscipline
<1>7. \A j \in 1..m : \A i \in 1..(j - 1) : B(i) + Len(P(i)) <= B(j)
  BY DEF LabelInv, Nested
<1>8. \A j \in 1..m : stack'[j].base = B(j)
  OBVIOUS
<1>9. \A j \in 1..(m - 1) : Pushed(stack[j])' = P(j)
  OBVIOUS
<1>10. stack'[1].base = 0
  BY <1>8 DEF LabelInv, LabelDiscipline
<1>11. \A j \in 1..(m + 1) : j \in 1..(m - 1) \/ j = m \/ j = m + 1
  OBVIOUS
<1>12. Len(Pushed(stack[m])') = 0 /\ Len(Pushed(stack[m + 1])') = 0
  OBVIOUS
<1>13. stack'[m].base = b /\ stack'[m + 1].base = b
  BY <1>2, <1>3, <1>8
<1> HIDE DEF B, P
<1>14. ASSUME NEW j \in 1..(m - 1)
       PROVE  /\ stack'[j].base + Len(Pushed(stack[j])') = stack'[j + 1].base
              /\ \A i \in 1..Len(Pushed(stack[j])') :
                   labels'[stack'[j].base + i] = Pushed(stack[j])'[i]
  <2>1. j \in 1..m /\ j + 1 \in 1..m
    OBVIOUS
  <2>2. ASSUME NEW i \in 1..Len(P(j)) PROVE labels'[B(j) + i] = P(j)[i]
    <3>1. B(j) \in Nat /\ Len(P(j)) \in Nat /\ B(j) + Len(P(j)) <= b
      BY <2>1, <1>1, <1>4
    <3>2. B(j) + i \in 1..b
      BY <3>1
    <3> QED
      BY <3>2, <1>3, <1>5
  <2> QED
    BY <2>1, <2>2, <1>6, <1>8, <1>9
<1>15. LabelDiscipline'
  <2>1. ASSUME NEW j \in 1..(m + 1)
        PROVE  /\ stack'[j].base + Len(Pushed(stack[j])') =
                    (IF j = m + 1 THEN Len(labels') ELSE stack'[j + 1].base)
               /\ \A i \in 1..Len(Pushed(stack[j])') :
                    labels'[stack'[j].base + i] = Pushed(stack[j])'[i]
    <3>1. CASE j \in 1..(m - 1)
      BY <3>1, <1>14
    <3>2. CASE j = m
      BY <3>2, <1>12, <1>13
    <3>3. CASE j = m + 1
      BY <3>3, <1>3, <1>12, <1>13
    <3> QED
      BY <3>1, <3>2, <3>3, <1>11
  <2> QED
    BY <2>1, <1>10 DEF LabelDiscipline
<1>16. Nested'
  <2>1. ASSUME NEW j \in 1..(m + 1)
        PROVE  stack'[j].base + Len(Pushed(stack[j])') <= b
    <3>1. CASE j \in 1..(m - 1)
      BY <3>1, <1>4, <1>8, <1>9
    <3>2. CASE j = m \/ j = m + 1
      BY <3>2, <1>12, <1>13
    <3> QED
      BY <3>1, <3>2, <1>11
  <2>2. ASSUME NEW j \in 1..(m + 1), NEW i \in 1..(j - 1)
        PROVE  stack'[i].base + Len(Pushed(stack[i])') <= stack'[j].base
    <3>1. CASE j = m + 1
      <4>1. i \in 1..(m + 1)
        BY <3>1
      <4> QED
        BY <3>1, <4>1, <2>1, <1>13
    <3>2. CASE j # m + 1
      <4>1. j \in 1..m /\ i \in 1..(m - 1) /\ i \in 1..m
        BY <3>2
      <4> QED
        BY <4>1, <1>7, <1>8, <1>9
    <3> QED
      BY <3>1, <3>2
  <2> QED
    BY <2>1, <2>2, <1>3 DEF Nested
<1> QED
  BY <1>15, <1>16 DEF LabelInv

(***************************************************************************)
(* The switch calls a case or a break with the blocks bbs.                 *)
(***************************************************************************)
LEMMA SwitchDescendLabels ==
  ASSUME TypeOK, LabelInv, ast' = ast, Node.op = "switch", Entered,
         NEW k \in 1..Len(Node.kids), Done < Len(Node.kids),
         NEW bbs \in Seq(Nat), Len(bbs) < Len(Node.kids) + 2, Len(bbs) > 0,
         bbs[2] = Top.bbs[2], Descend(k, bbs), labels' = labels
  PROVE  LabelInv'
<1> DEFINE f == Frame(Node.kids[k], Len(labels))
           g == [Top EXCEPT !.bbs = bbs]
<1>1. PICK m \in Nat : m = Len(stack)
  BY TopTyped
<1>2. /\ Len(stack') = m + 1
      /\ \A j \in 1..m : stack'[j] = IF j = m THEN g ELSE stack[j]
      /\ stack'[m + 1] = f
  BY <1>1, DescendFrames, ZenonT(40)
<1>3. g.n = Top.n /\ g.bbs = bbs /\ g.base = Top.base
  BY TopTyped, FrameBbs
<1>4. f.base = Len(labels) /\ f.bbs = <<>>
  BY DEF Frame
<1>5. m > 0 /\ Top = stack[m] /\ KeepsShape
  BY <1>1, TopTyped, SameAst DEF Top
<1> HIDE DEF f, g
<1>6. ASSUME NEW j \in 1..m
      PROVE  stack'[j].base = stack[j].base /\ Pushed(stack[j])' = Pushed(stack[j])
  <2>1. j \in 1..Len(stack)
    BY <1>1
  <2>2. CASE j # m
    <3>1. stack'[j] = stack[j]
      BY <2>2, <1>2
    <3> QED
      BY <3>1, <2>1, <1>5, PushedSame
  <2>3. CASE j = m
    <3>1. stack'[j].base = stack[j].base /\ stack'[j].n = Top.n /\ stack'[j].bbs = bbs
      BY <2>3, <1>2, <1>3, <1>5
    <3>2. j \in Nat
      OBVIOUS
    <3>3. Pushed(stack[j])' = <<bbs[2]>>
      BY <3>1, <3>2, <1>5, SwitchPushed
    <3>4. Pushed(Top) = <<Top.bbs[2]>>
      BY SwitchPushedNow
    <3> QED
      BY <3>1, <3>3, <3>4, <2>3, <1>5
  <2> QED
    BY <2>2, <2>3
<1>7. stack'[m + 1].base = Len(labels) /\ Pushed(stack[m + 1])' = <<>>
  BY <1>2, <1>4 DEF Pushed
<1> QED
  BY <1>1, <1>2, <1>5, <1>6, <1>7, LabelsOfCallee

LEMMA SwitchEnterLabels ==
  ASSUME TypeOK, LabelInv, SwitchEnter
  PROVE  LabelInv'
<1>1. PICK x \in Nat : x = Len(body) + 1
  BY BodyOwned
<1>2. PICK c \in Nat : c = cur
  BY BodyOwned
<1>3. /\ Node.op = "switch" /\ ~Entered /\ labels' = Append(labels, x)
      /\ Enter(<<c, x>>) /\ ast' = ast
  BY <1>1, <1>2 DEF SwitchEnter, Running, PushLabel
<1>8. <<c, x>> \in Seq(Nat) /\ <<x>> \in Seq(Nat)
  OBVIOUS
<1>4. PICK bbs \in Seq(Nat) : bbs = <<c, x>>
  BY <1>8
<1>5. PICK q \in Seq(Nat) : q = <<x>>
  BY <1>8
<1>6. labels' = labels \o q
  <2>1. labels \in Seq(Nat)
    BY DEF TypeOK, BodyOK
  <2> QED
    BY <2>1, <1>3, <1>5
<1>7. ASSUME NEW f \in Frames, f.n = Top.n, f.bbs = bbs PROVE Pushed(f) = q
  <2>1. Len(Node.kids) \in Nat /\ Len(Node.kids) > 0
    <3>1. Arities("switch") = Nat \ {0}
      BY DEF Arities
    <3>2. Len(Node.kids) \in Arities("switch")
      BY <1>3, ArityOfTop
    <3> QED
      BY <3>1, <3>2
  <2>2. f.bbs # <<>> /\ Len(f.bbs) = 2 /\ f.bbs[2] = x
    BY <1>4, <1>7
  <2>3. ast[f.n].op = "switch" /\ ast[f.n].kids = Node.kids
    BY <1>3, <1>7 DEF Node
  <2>4. Len(f.bbs) < Len(ast[f.n].kids) + 2
    BY <2>1, <2>2, <2>3
  <2> QED
    BY <2>2, <2>3, <2>4, <1>5 DEF Pushed
<1> QED
  BY <1>3, <1>4, <1>6, <1>7, NamedEnterLabels

LEMMA SwitchCaseLabels ==
  ASSUME TypeOK, LabelInv, SwitchCase
  PROVE  LabelInv'
<1>1. /\ Node.op = "switch" /\ Entered /\ Done < Node.cases /\ Descend(Done + 1, Recorded)
      /\ UNCHANGED <<ast, labels>>
  BY DEF SwitchCase, Running
<1>2. PICK n \in Nat : n = Len(Node.kids)
  BY <1>1, SwitchHolds
<1>3. PICK k \in Nat : k = Done + 1
  BY TopTyped
<1>4. k <= n /\ k < n /\ k > 0 /\ Done < n
  <2>1. PICK c \in Nat : c = Node.cases
    BY <1>1, TableHolds
  <2>2. c < n
    BY <2>1, <1>1, <1>2, TableHolds
  <2>3. Done \in Nat
    BY TopTyped
  <2> QED
    BY <2>1, <2>2, <2>3, <1>1, <1>3
<1>5. PICK bbs \in Seq(Nat) : bbs = Recorded
  BY <1>1, RecordedTyped
<1>6. Len(bbs) = k + 1 /\ bbs[2] = Top.bbs[2]
  <2>1. Len(bbs) = Done + 2 /\ Done \in Nat /\ bbs[2] = Top.bbs[2]
    BY <1>1, <1>5, RecordedTyped, TopTyped
  <2> QED
    BY <2>1, <1>3
<1>7. /\ k \in 1..Len(Node.kids) /\ Len(bbs) < Len(Node.kids) + 2 /\ Len(bbs) > 0
      /\ Done < Len(Node.kids) /\ Descend(k, bbs)
  BY <1>1, <1>2, <1>3, <1>4, <1>5, <1>6
<1> QED
  BY <1>1, <1>6, <1>7, SwitchDescendLabels

LEMMA SwitchBreakLabels ==
  ASSUME TypeOK, LabelInv, SwitchBreak
  PROVE  LabelInv'
<1>a. PICK x \in Nat : x = Len(body) + 1
  BY BodyOwned
<1>1. /\ Node.op = "switch" /\ Entered /\ Done + 1 < Len(Node.kids)
      /\ Descend(Done + 1, IF Default = Done + 1 THEN Append(Recorded, x) ELSE Recorded)
      /\ UNCHANGED <<ast, labels>>
  BY <1>a DEF SwitchBreak, AtBreak, Running
<1>2. PICK n \in Nat : n = Len(Node.kids)
  BY <1>1, SwitchHolds
<1>3. PICK k \in Nat : k = Done + 1
  BY TopTyped
<1>4. k < n /\ k > 0 /\ Done < n
  <2>1. Done \in Nat
    BY TopTyped
  <2> QED
    BY <2>1, <1>1, <1>2, <1>3
<1>5. PICK old \in Seq(Nat) : old = Recorded
  BY <1>1, RecordedTyped
<1>6. Len(old) = k + 1 /\ old[2] = Top.bbs[2]
  <2>1. Len(old) = Done + 2 /\ Done \in Nat /\ old[2] = Top.bbs[2]
    BY <1>1, <1>5, RecordedTyped, TopTyped
  <2> QED
    BY <2>1, <1>3
<1>7. PICK bbs \in Seq(Nat) : bbs = IF Default = Done + 1 THEN Append(old, x) ELSE old
  BY AppendTyped
<1>8. Len(bbs) \in {k + 1, k + 2} /\ bbs[2] = Top.bbs[2]
  <2>1. Len(Append(old, x)) = k + 2 /\ Append(old, x)[2] = old[2]
    <3>1. 2 \in 1..Len(old)
      BY <1>4, <1>6
    <3> QED
      BY <3>1, <1>6, AppendTyped
  <2> QED
    BY <2>1, <1>6, <1>7
<1>9. /\ k \in 1..Len(Node.kids) /\ Len(bbs) < Len(Node.kids) + 2 /\ Len(bbs) > 0
      /\ Done < Len(Node.kids)
  BY <1>2, <1>4, <1>8, SMTT(20)
<1>10. Descend(k, bbs)
  BY <1>1, <1>3, <1>5, <1>7
<1> QED
  BY <1>1, <1>8, <1>9, <1>10, SwitchDescendLabels

LEMMA SwitchSelectorLabels ==
  ASSUME TypeOK, LabelInv, SwitchSelector
  PROVE  LabelInv'
<1>1. CASE Crash
  BY <1>1, CrashLabels
<1>2. CASE ~Crash
  <2>1. /\ Node.op = "switch" /\ Entered /\ Done + 1 = Len(Node.kids) /\ PopLabels(1)
        /\ DescendFrom(Done + 1, Append(Recorded, Recorded[Default + 2]), Len(labels'))
        /\ ast' = ast
    BY <1>2 DEF SwitchSelector, Running
  <2>2. PICK k \in Nat : k = Done + 1
    BY TopTyped
  <2>3. k = Len(Node.kids) /\ k > 0 /\ Done < Len(Node.kids) /\ k \in 1..Len(Node.kids)
    <3>1. Done \in Nat
      BY TopTyped
    <3> QED
      BY <3>1, <2>1, <2>2
  <2>4. PICK old \in Seq(Nat) : old = Recorded
    BY <2>1, RecordedTyped
  <2>5. Len(old) = k + 1 /\ \A i \in 1..Len(old) : old[i] \in Nat
    <3>1. Len(old) = Done + 2 /\ Done \in Nat
      BY <2>1, <2>4, RecordedTyped, TopTyped
    <3> QED
      BY <3>1, <2>2
  <2>6. PICK d \in Nat : d = old[Default + 2]
    <3>1. Default \in Nat /\ Default < k
      BY <2>1, <2>3, TableHolds
    <3>2. Default + 2 \in 1..Len(old)
      BY <3>1, <2>5
    <3> QED
      BY <3>2, <2>5
  <2>7. PICK bbs \in Seq(Nat) : bbs = Append(old, d)
    BY <2>6, AppendTyped
  <2>8. Len(bbs) = k + 2
    BY <2>5, <2>7, AppendTyped
  <2>9. PICK base \in Nat : base = Len(labels')
    <3>1. labels \in Seq(1..Len(body)) /\ 1 \in Nat
      BY DEF TypeOK, BodyOK
    <3>2. labels' \in Seq(1..Len(body))
      BY <3>1, <2>1, PopTyped DEF PopLabels
    <3> QED
      BY <3>2
  <2>10. DescendFrom(k, bbs, base)
    BY <2>1, <2>2, <2>4, <2>6, <2>7, <2>9
  <2>11. PICK m \in Nat : m = Len(stack)
    BY TopTyped
  <2> DEFINE f == Frame(Node.kids[k], base)
             g == [Top EXCEPT !.bbs = bbs]
  <2>12. /\ Len(stack') = m + 1
         /\ \A j \in 1..m : stack'[j] = IF j = m THEN g ELSE stack[j]
         /\ stack'[m + 1] = f
    BY <2>3, <2>10, <2>11, DescendFromFrames, ZenonT(40)
  <2>13. g.n = Top.n /\ g.bbs = bbs /\ g.base = Top.base
    BY TopTyped, FrameBbs
  <2>14. f.base = base /\ f.bbs = <<>>
    BY DEF Frame
  <2>15. m > 0 /\ Top = stack[m] /\ KeepsShape /\ m \in 1..m
    BY <2>1, <2>11, TopTyped, SameAst DEF Top
  <2> HIDE DEF f, g
  <2>16. \A j \in 1..m : stack'[j].base = stack[j].base
    BY <2>12, <2>13, <2>15
  <2>17. ASSUME NEW j \in 1..(m - 1) PROVE Pushed(stack[j])' = Pushed(stack[j])
    <3>1. j \in 1..Len(stack) /\ j \in 1..m /\ j # m
      BY <2>11
    <3>2. stack'[j] = stack[j]
      BY <3>1, <2>12
    <3> QED
      BY <3>1, <3>2, <2>15, PushedSame
  <2>18. Pushed(stack[m]) = <<Top.bbs[2]>>
    BY <2>1, <2>3, <2>15, SwitchPushedNow
  <2>19. Pushed(stack[m])' = <<>>
    <3>1. stack'[m].n = Top.n /\ stack'[m].bbs = bbs
      BY <2>12, <2>13, <2>15
    <3>2. ~(Len(bbs) < Len(Node.kids) + 2) /\ Len(bbs) > 0
      BY <2>3, <2>8
    <3> QED
      BY <3>1, <3>2, <2>1, <2>15, SwitchPushed
  <2>20. stack'[m + 1].base = Len(labels') /\ Pushed(stack[m + 1])' = <<>>
    BY <2>9, <2>12, <2>14 DEF Pushed
  <2>21. Len(Pushed(stack[m])) = 1
    BY <2>18
  <2>22. /\ Len(labels') = Len(labels) - 1
         /\ \A i \in 1..(Len(labels) - 1) : labels'[i] = labels[i]
    <3>1. stack[m].base + Len(Pushed(stack[m])) = Len(labels) /\ m \in 1..Len(stack)
      BY <2>11, <2>15 DEF LabelInv, LabelDiscipline
    <3>2. stack[m].base \in Nat /\ Len(labels) \in Nat
      BY <3>1, BaseTyped
    <3>3. Len(labels) - 1 \in 0..Len(labels)
      BY <3>1, <3>2, <2>21
    <3>4. labels \in Seq(1..Len(body)) /\ labels' = SubSeq(labels, 1, Len(labels) - 1)
      BY <2>1 DEF TypeOK, BodyOK, PopLabels
    <3> QED
      BY <3>3, <3>4, SubSeqTyped
  <2> QED
    BY <2>11, <2>12, <2>15, <2>16, <2>17, <2>19, <2>20, <2>21, <2>22, LabelDroppedForCallee
<1> QED
  BY <1>1, <1>2

LEMMA SwitchExitLabels ==
  ASSUME TypeOK, LabelInv, SwitchExit
  PROVE  LabelInv'
<1>1. CASE Crash
  BY <1>1, CrashLabels
<1>2. CASE ~Crash
  <2> DEFINE in == Node.incoming
             v  == PhiValue(in, Top.bbs[2])
  <2>1. /\ Node.op = "switch" /\ Entered /\ Done = Len(Node.kids) /\ PhiOk(in)
        /\ ast' = [ast EXCEPT ![Top.n].renamed = TRUE] /\ Return(v) /\ labels' = labels
    BY <1>2 DEF SwitchExit, Running
  <2>2. v \in Values
    <3>1. Top.bbs[2] \in Nat
      BY <2>1, SwitchHolds, BodyOwned
    <3>2. in \in Seq(Incomings)
      BY TopTyped DEF Nodes
    <3> HIDE DEF in
    <3> QED
      BY <3>1, <3>2, <2>1, PhiTyped
  <2> HIDE DEF v, in
  <2>3. KeepsShape
    <3>1. Top.n \in 1..Len(ast) /\ ast \in Seq(Nodes)
      BY TopTyped DEF TypeOK, AstOK
    <3>2. Len(ast') = Len(ast) /\ \A i \in 1..Len(ast) : i # Top.n => ast'[i] = ast[i]
      BY <3>1, <2>1
    <3>3. /\ ast'[Top.n].op = ast[Top.n].op /\ ast'[Top.n].kids = ast[Top.n].kids
          /\ ast'[Top.n].cases = ast[Top.n].cases /\ ast'[Top.n].table = ast[Top.n].table
      BY <3>1, <2>1
    <3> QED
      BY <3>2, <3>3, BodyOwned DEF KeepsShape
  <2>4. Len(stack) > 1
    BY <2>1, TopTyped
  <2>5. Pushed(Top) = <<>>
    BY <2>1, SwitchPushedNow
  <2>6. 0 \in Nat /\ 0 = Len(Pushed(Top))
    BY <2>5
  <2>7. Len(labels') = Len(labels) - 0 /\ \A i \in 1..(Len(labels) - 0) : labels'[i] = labels[i]
    BY <2>1, BaseTyped
  <2> QED
    BY <2>1, <2>2, <2>3, <2>4, <2>6, <2>7, ReturnLabels
<1> QED
  BY <1>1, <1>2

(***************************************************************************)
(* The steps of a switch that only record blocks.                          *)
(***************************************************************************)
LEMMA SwitchRecordLabels ==
  ASSUME TypeOK, LabelInv, KeepsShape, Node.op = "switch", Entered, Done < Len(Node.kids),
         NEW g \in Frames, g.n = Top.n, g.base = Top.base,
         Len(g.bbs) > 0, Len(g.bbs) < Len(Node.kids) + 2, g.bbs[2] = Top.bbs[2],
         stack' = [stack EXCEPT ![Len(stack)] = g], labels' = labels
  PROVE  LabelInv'
<1>1. PICK m \in Nat : m = Len(stack)
  BY TopTyped
<1>2. stack \in Seq(Frames) /\ m \in 1..Len(stack) /\ Top = stack[m]
  BY <1>1, TopTyped DEF TypeOK, StackOK, Top
<1>3. stack'[m] = g
  BY <1>1, <1>2
<1>4. PICK bbs \in Seq(Nat) : bbs = g.bbs
  BY DEF Frames
<1>5. Pushed(stack[m])' = <<bbs[2]>>
  BY <1>3, <1>4, SwitchPushed
<1>6. Pushed(stack[m]) = <<Top.bbs[2]>>
  BY <1>2, SwitchPushedNow
<1> QED
  BY <1>1, <1>4, <1>5, <1>6, ReplaceLabels

LEMMA SwitchFallOutLabels ==
  ASSUME TypeOK, LabelInv, SwitchFallOut
  PROVE  LabelInv'
<1>1. /\ Node.op = "switch" /\ Entered /\ Done = Node.cases
      /\ ast' = AddIncomingPhi(ast, Top.n, Last, cur)
      /\ Enter(Recorded) /\ labels' = labels
  BY DEF SwitchFallOut, Running
<1>2. KeepsShape
  <2>1. Top.n \in 0..Len(ast) /\ cur \in Nat /\ Last \in Values
    BY TopTyped, BodyOwned
  <2> QED
    BY <2>1, <1>1, IncomingTyped
<1>3. PICK n \in Nat : n = Len(Node.kids)
  BY <1>1, SwitchHolds
<1>4. PICK k \in Nat : k = Done
  BY TopTyped
<1>5. k < n
  BY <1>1, <1>3, <1>4, TableHolds
<1>6. PICK bbs \in Seq(Nat) : bbs = Recorded
  BY <1>1, RecordedTyped
<1>7. Len(bbs) = k + 2 /\ bbs[2] = Top.bbs[2]
  BY <1>1, <1>4, <1>6, RecordedTyped
<1> DEFINE g == [Top EXCEPT !.bbs = bbs]
<1>8. g \in Frames /\ g.n = Top.n /\ g.bbs = bbs /\ g.base = Top.base
  BY TopTyped, FrameBbs
<1>9. stack' = [stack EXCEPT ![Len(stack)] = g]
  BY <1>1, <1>6 DEF Enter, Top
<1> HIDE DEF g
<1>10. /\ Len(g.bbs) > 0 /\ Len(g.bbs) < Len(Node.kids) + 2 /\ g.bbs[2] = Top.bbs[2]
       /\ Done < Len(Node.kids)
  BY <1>3, <1>4, <1>5, <1>7, <1>8
<1> QED
  BY <1>1, <1>2, <1>8, <1>9, <1>10, SwitchRecordLabels

LEMMA SwitchRenamedLabels ==
  ASSUME TypeOK, LabelInv, SwitchRenamed
  PROVE  LabelInv'
<1>1. /\ Node.op = "switch" /\ Entered /\ Done + 1 < Len(Node.kids)
      /\ stack' = [stack EXCEPT ![Len(stack)].bbs = Append(Recorded, cur),
                                ![Len(stack)].vals = Append(@, Null)]
      /\ UNCHANGED <<ast, labels>>
  BY DEF SwitchRenamed, AtBreak, Running
<1>2. KeepsShape
  BY <1>1, SameAst
<1>3. PICK n \in Nat : n = Len(Node.kids)
  BY <1>1, SwitchHolds
<1>4. PICK k \in Nat : k = Done
  BY TopTyped
<1>5. k + 1 < n
  BY <1>1, <1>3, <1>4
<1>6. PICK old \in Seq(Nat) : old = Recorded
  BY <1>1, RecordedTyped
<1>7. Len(old) = k + 2 /\ old[2] = Top.bbs[2]
  BY <1>1, <1>4, <1>6, RecordedTyped
<1>a. PICK bbs \in Seq(Nat) : bbs = Append(old, cur)
  BY BodyOwned, AppendTyped
<1>b. Len(bbs) = k + 3 /\ bbs[2] = Top.bbs[2]
  <2>1. Len(bbs) = Len(old) + 1 /\ \A i \in 1..Len(old) : bbs[i] = old[i]
    BY <1>a, BodyOwned, AppendTyped
  <2> QED
    BY <2>1, <1>7
<1> DEFINE h == [Top EXCEPT !.bbs = bbs]
           g == [h EXCEPT !.vals = Append(h.vals, Null)]
<1>c. h \in Frames /\ h.n = Top.n /\ h.bbs = bbs /\ h.vals = Top.vals /\ h.base = Top.base
  BY TopTyped, FrameBbs
<1>8. g \in Frames /\ g.n = Top.n /\ g.bbs = bbs /\ g.base = Top.base
  BY <1>c, ConstTyped, FrameVals, ZenonT(40)
<1>9. stack' = [stack EXCEPT ![Len(stack)] = g]
  BY <1>1, <1>6, <1>a, TopTyped DEF Top, Frames, StackOK, TypeOK
<1> HIDE DEF g, h
<1>10. /\ Len(g.bbs) > 0 /\ Len(g.bbs) < Len(Node.kids) + 2 /\ g.bbs[2] = Top.bbs[2]
       /\ Done < Len(Node.kids)
  BY <1>3, <1>4, <1>5, <1>b, <1>8
<1> QED
  BY <1>1, <1>2, <1>8, <1>9, <1>10, SwitchRecordLabels

LEMMA GenCaseLabels ==
  ASSUME TypeOK, LabelInv, GenCase
  PROVE  LabelInv'
<1>1. Len(stack) > 1 /\ Node.op = "case"
  BY NotFunc DEF GenCase, Running
<1>2. Return(Last) /\ UNCHANGED <<ast, labels>> /\ Last \in Values
  BY TopTyped DEF GenCase
<1> QED
  BY <1>1, <1>2, SameAst, ReturnNoLabels

LEMMA InitLabels == Init => LabelInv
<1> SUFFICES ASSUME Init PROVE LabelInv
  OBVIOUS
<1>1. stack = <<Frame(1, 0)>> /\ labels = <<>>
  BY DEF Init
<1>2. Frame(1, 0).base = 0 /\ Frame(1, 0).bbs = <<>>
  BY DEF Frame
<1> HIDE DEF Frame
<1>3. Len(stack) = 1 /\ stack[1] = Frame(1, 0) /\ Len(labels) = 0
  BY <1>1
<1>4. Pushed(stack[1]) = <<>>
  BY <1>2, <1>3, PushedNone
<1>5. Len(Pushed(stack[1])) = 0
  BY <1>4
<1> QED
  BY <1>2, <1>3, <1>5 DEF LabelInv, LabelDiscipline, Nested

LEMMA NextLabels == TypeOK /\ LabelInv /\ [Next]_vars => LabelInv'
<1> SUFFICES ASSUME TypeOK, LabelInv, [Next]_vars PROVE LabelInv'
  OBVIOUS
<1>1. CASE RunPasses
  BY <1>1, RunPassesAst, LabelsKept DEF RunPasses
<1>2. CASE FunctionEnd \/ Verify \/ UNCHANGED vars
  <2>1. UNCHANGED <<ast, stack, labels>>
    BY <1>2 DEF FunctionEnd, Verify, vars
  <2> QED
    BY <2>1, SameAst, LabelsKept
<1> QED
  BY <1>1, <1>2, StraightLabels, NextOperandLabels, HandleDivRemLabels, IfLabels,
     EnterNamedLabels, ExitNamedLabels, BreakLabels, SwitchEnterLabels, SwitchCaseLabels,
     SwitchBreakLabels, SwitchSelectorLabels, SwitchExitLabels, SwitchFallOutLabels,
     SwitchRenamedLabels, GenCaseLabels DEF Next, Step, Terminated

(***************************************************************************)
(* For every function the parser can build: labels_ holds exactly the      *)
(* labels of the label, loop, block and tableswitch methods that are       *)
(* running (a tableswitch until it comes to its selector), in the          *)
(* order they were entered (WasmFunction::PushLabel and PopLabel).         *)
(***************************************************************************)
THEOREM LabelsDisciplined == Spec => []LabelDiscipline
<1>1. Init => TypeOK /\ LabelInv
  BY InitTyped, InitLabels
<1>2. TypeOK /\ LabelInv /\ [Next]_vars => TypeOK' /\ LabelInv'
  BY NextTyped, NextLabels
<1>3. LabelInv => LabelDiscipline
  BY DEF LabelInv
<1> QED
  BY <1>1, <1>2, <1>3, PTL DEF Spec
=============================================================================
