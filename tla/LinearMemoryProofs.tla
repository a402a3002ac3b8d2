------------------------- MODULE LinearMemoryProofs -------------------------
(***************************************************************************)
(* Proofs about LinearMemory, for every heap, every segments and every     *)
(* bound on calls and grows.                                               *)
(***************************************************************************)
EXTENDS LinearMemory, TLAPS

Disjoint(blocks) ==
  \A b, c \in blocks : b # c => Space(b.at, b.len) \cap Space(c.at, c.len) = {}

(***************************************************************************)
(* TypeOK without the frames: what allocation has to preserve.             *)
(***************************************************************************)
HeapOK(h, blocks) ==
  /\ h \in [Heap -> Bytes]
  /\ blocks \subseteq Blocks
  /\ \A b \in blocks : Space(b.at, b.len) \subseteq Heap
  /\ Disjoint(blocks)

(***************************************************************************)
(* A block takes at least one cell, and those of all its bytes.            *)
(***************************************************************************)
LEMMA SpaceHolds ==
  ASSUME NEW p \in Nat, NEW n \in Nat
  PROVE  p \in Space(p, n) /\ Cells(p, n) \subseteq Space(p, n)
BY DEF Space, Room, Cells

(***************************************************************************)
(* A block at a place beside the others keeps the blocks apart.            *)
(***************************************************************************)
LEMMA PlaceApart ==
  ASSUME NEW h, NEW blocks, HeapOK(h, blocks),
         NEW n \in Nat, NEW q \in Places(n, blocks)
  PROVE  HeapOK(h, blocks \cup {[at |-> q, len |-> n]})
<1> DEFINE new == [at |-> q, len |-> n]
<1>1. q \in Heap /\ Space(q, n) \subseteq Heap
  BY DEF Places
<1>2. new \in Blocks /\ new.at = q /\ new.len = n
  BY <1>1 DEF Blocks
<1>3. \A b \in blocks : Space(q, n) \cap Space(b.at, b.len) = {}
  BY DEF Places
<1>4. Disjoint(blocks \cup {new})
  <2> SUFFICES ASSUME NEW b \in blocks \cup {new}, NEW c \in blocks \cup {new}, b # c
               PROVE  Space(b.at, b.len) \cap Space(c.at, c.len) = {}
    BY DEF Disjoint
  <2>1. CASE b \in blocks /\ c \in blocks
    BY <2>1 DEF HeapOK, Disjoint
  <2>2. CASE b = new /\ c \in blocks
    BY <1>2, <1>3, <2>2
  <2>3. CASE b \in blocks /\ c = new
    BY <1>2, <1>3, <2>3
  <2> QED
    BY <2>1, <2>2, <2>3
<1> QED
  BY <1>1, <1>2, <1>4 DEF HeapOK

(***************************************************************************)
(* A subset of the blocks is as well kept apart.                           *)
(***************************************************************************)
LEMMA FewerBlocks ==
  ASSUME NEW h, NEW blocks, HeapOK(h, blocks), NEW some \in SUBSET blocks
  PROVE  HeapOK(h, some)
BY DEF HeapOK, Disjoint

(***************************************************************************)
(* Every outcome of realloc of null or of a block leaves the heap in order *)
(* and returns null or the address of a block of the size asked for.       *)
(***************************************************************************)
LEMMA ReallocKeepsHeap ==
  ASSUME HeapOK(heap, live), NEW p \in Heap \cup {0}, NEW n \in Nat,
         NEW q \in Heap \cup {0}, Realloc(p, n, q)
  PROVE  HeapOK(heap, live)' /\ (q # 0 => [at |-> q, len |-> n] \in live')
<1>0. 0 \notin Heap /\ Heap \subseteq Nat
  BY HeapTyped
<1>1. CASE q = 0 /\ live' = (IF n = 0 THEN {b \in live : b.at # p} ELSE live) /\ heap' = heap
  <2>1. live' \in SUBSET live
    BY <1>1
  <2>2. HeapOK(heap, live')
    BY <2>1, FewerBlocks
  <2> QED
    BY <1>1, <2>2
<1>2. CASE /\ p = 0 /\ q \in Places(n, live)
           /\ live' = live \cup {[at |-> q, len |-> n]}
           /\ heap' = heap
  BY <1>2, PlaceApart
<1>3. ASSUME n > 0, NEW b \in live, b.at = p,
             q \in Places(n, live) \/ (q = p /\ q \in Places(n, live \ {b})),
             Moved(b, q, n)
      PROVE  HeapOK(heap, live)' /\ [at |-> q, len |-> n] \in live'
  <2>1. q \in Places(n, live \ {b})
    BY <1>3 DEF Places
  <2>2. HeapOK(heap, live \ {b})
    BY FewerBlocks
  <2>3. HeapOK(heap, (live \ {b}) \cup {[at |-> q, len |-> n]})
    BY <1>3, <2>1, <2>2, PlaceApart
  <2>4. heap' \in [Heap -> Bytes]
    <3>1. b.at \in Nat /\ b.len \in Nat /\ Cells(b.at, b.len) \subseteq Heap /\ q \in Nat
      <4>1. b \in Blocks /\ Space(b.at, b.len) \subseteq Heap
        BY DEF HeapOK
      <4>2. b.at \in Heap /\ b.len \in Nat
        BY <4>1 DEF Blocks
      <4>3. q \in Nat
        BY <1>0
      <4>4. Cells(b.at, b.len) \subseteq Heap
        BY <1>0, <4>1, <4>2, SpaceHolds
      <4> QED
        BY <1>0, <4>2, <4>3, <4>4
    <3>2. Kept(b, n) \in Nat /\ Kept(b, n) <= b.len
      BY <3>1 DEF Kept
    <3>3. ASSUME NEW a \in Heap, a \in Cells(q, Kept(b, n))
          PROVE  heap[b.at + (a - q)] \in Bytes
      <4>1. b.at + (a - q) \in Cells(b.at, b.len)
        BY <3>1, <3>2, <3>3, HeapTyped DEF Cells
      <4> QED
        BY <3>1, <4>1 DEF HeapOK
    <3> QED
      BY <1>3, <3>3 DEF Moved, HeapOK
  <2> QED
    BY <1>3, <2>3, <2>4 DEF Moved, HeapOK
<1> QED
  BY <1>1, <1>2, <1>3, <1>0 DEF Realloc

-----------------------------------------------------------------------------
LEMMA ElementTyped ==
  ASSUME NEW S, NEW f \in Seq(S), NEW i \in 1..Len(f)
  PROVE  f[i] \in S
OBVIOUS

LEMMA AddressTyped == \A p \in Heap \cup {0} : p \in Nat
<1>1. \A p \in Heap : p \in Nat
  BY HeapTyped
<1> QED
  BY <1>1

(***************************************************************************)
(* The segments are copied within the block, byte by byte.                 *)
(***************************************************************************)
LEMMA SegmentsCopied ==
  ASSUME heap \in [Heap -> Bytes], NEW p \in Heap, HandleSegments(p)
  PROVE  heap' \in [Heap -> Bytes]
<1> SUFFICES ASSUME NEW a \in Heap,
                    NEW s \in 1..Len(Segments), a + 1 - p \in SegmentBytes(s)
             PROVE  Segments[s].data[a + 1 - p - Segments[s].start] \in Bytes
  BY DEF HandleSegments
<1>1. Segments[s] \in [start : Nat, data : Seq(Bytes)]
  <2> DEFINE S == [start : Nat, data : Seq(Bytes)]
  <2>1. Segments \in Seq(S)
    BY SegmentsTyped
  <2> HIDE DEF S
  <2>2. Segments[s] \in S
    BY <2>1, ElementTyped
  <2> QED
    BY <2>2 DEF S
<1>2. a \in Nat /\ p \in Nat
  BY HeapTyped
<1>3. a + 1 - p - Segments[s].start \in 1..Len(Segments[s].data)
  <2> DEFINE st == Segments[s].start
             ln == Len(Segments[s].data)
  <2>1. st \in Nat /\ ln \in Nat
    BY <1>1
  <2>2. a + 1 - p \in (st + 1)..(st + ln)
    BY DEF SegmentBytes
  <2> HIDE DEF st, ln
  <2>3. a + 1 - p - st \in 1..ln
    BY <1>2, <2>1, <2>2
  <2> QED
    BY <2>3 DEF st, ln
<1> QED
  BY <1>1, <1>3

(***************************************************************************)
(* Storing within a block changes bytes and nothing else.                  *)
(***************************************************************************)
LEMMA StoredBytes ==
  ASSUME heap \in [Heap -> Bytes], NEW p, NEW w \in Nat, NEW data \in [1..w -> Bytes], p \in Int,
         heap' = [x \in Heap |-> IF x \in Cells(p, Len(data)) THEN data[x - p + 1] ELSE heap[x]]
  PROVE  heap' \in [Heap -> Bytes]
<1>1. Len(data) = w
  OBVIOUS
<1>2. ASSUME NEW x \in Heap, x \in Cells(p, w)
      PROVE  data[x - p + 1] \in Bytes
  <2>1. x \in Nat
    BY HeapTyped
  <2>2. x - p + 1 \in 1..w
    BY <1>2, <2>1 DEF Cells
  <2> QED
    BY <2>2
<1> QED
  BY <1>1, <1>2

(***************************************************************************)
(* Frames stay frames when one is entered, left, or grows.                 *)
(***************************************************************************)
LEMMA FrameAppended ==
  ASSUME NEW fs \in Seq(Frames), NEW b \in Heap \cup {0}
  PROVE  Append(fs, [base |-> b, grown |-> FALSE, growing |-> <<>>]) \in Seq(Frames)
<1>1. [base |-> b, grown |-> FALSE, growing |-> <<>>] \in Frames
  BY DEF Frames
<1> QED
  BY <1>1

LEMMA LastFrame ==
  ASSUME NEW fs \in Seq(Frames), fs # <<>>
  PROVE  /\ Len(fs) \in 1..Len(fs)
         /\ fs[Len(fs)] \in Frames
OBVIOUS

LEMMA GrowingSet ==
  ASSUME NEW fs \in Seq(Frames), fs # <<>>, NEW g \in Seq(Growing)
  PROVE  [fs EXCEPT ![Len(fs)] = WithGrowing(@, g)] \in Seq(Frames)
<1>1. fs[Len(fs)] \in Frames
  BY LastFrame
<1>2. WithGrowing(fs[Len(fs)], g) \in Frames
  BY <1>1 DEF WithGrowing, Frames
<1> QED
  BY <1>2

LEMMA StaleFrames ==
  ASSUME NEW fs \in Seq(Frames)
  PROVE  [j \in 1..Len(fs) |-> Stale(fs[j])] \in Seq(Frames)
<1>1. ASSUME NEW j \in 1..Len(fs)
      PROVE  Stale(fs[j]) \in Frames
  <2> DEFINE f == fs[j]
             g == [k \in 1..Len(f.growing) |-> [ptr |-> f.growing[k].ptr, stale |-> TRUE]]
  <2>1. f \in Frames
    OBVIOUS
  <2>2. f.growing \in Seq(Growing) /\ f.base \in Heap \cup {0}
    BY <2>1 DEF Frames
  <2> HIDE DEF f
  <2>3. \A k \in 1..Len(f.growing) : [ptr |-> f.growing[k].ptr, stale |-> TRUE] \in Growing
    <3> TAKE k \in 1..Len(f.growing)
    <3>1. f.growing[k] \in Growing
      BY <2>2
    <3> QED
      BY <3>1 DEF Growing
  <2>4. g \in Seq(Growing)
    <3>1. PICK m \in Nat : m = Len(f.growing)
      BY <2>2
    <3>2. g \in [1..m -> Growing]
      BY <2>3, <3>1
    <3> QED
      BY <3>2
  <2> HIDE DEF g
  <2>5. [base |-> f.base, grown |-> TRUE, growing |-> g] \in Frames
    BY <2>2, <2>4 DEF Frames
  <2> QED
    BY <2>5 DEF Stale, f, g
<1>2. PICK m \in Nat : m = Len(fs)
  OBVIOUS
<1>3. [j \in 1..m |-> Stale(fs[j])] \in [1..m -> Frames]
  BY <1>1, <1>2
<1> QED
  BY <1>2, <1>3

-----------------------------------------------------------------------------
(***************************************************************************)
(* TypeOK in two parts.                                                    *)
(***************************************************************************)
RestOK ==
  /\ base \in Heap \cup {0} /\ size \in Nat
  /\ frames \in Seq(Frames)
  /\ status \in {"start", "running", "wild"}

LEMMA TypeParts == TypeOK <=> HeapOK(heap, live) /\ RestOK
BY DEF TypeOK, HeapOK, RestOK, Disjoint

(***************************************************************************)
(* What is unknown after a wild access is of its type.                     *)
(***************************************************************************)
LEMMA WildTyped ==
  ASSUME TypeOK, Wild
  PROVE  TypeOK'
BY DEF TypeOK, Wild

(***************************************************************************)
(* One lemma for each operation: it keeps the heap in order and the types. *)
(***************************************************************************)
LEMMA StartTyped ==
  ASSUME TypeOK, SetMemoryBase
  PROVE  TypeOK'
<1>0. HeapOK(heap, live) /\ RestOK
  BY TypeParts
<1>1. ASSUME NEW p \in Places(Memory, {}),
             live' = {[at |-> p, len |-> Memory]},
             UpdateMemoryInformation(p, Memory), HandleSegments(p),
             status' = "running", UNCHANGED <<frames, did>>
      PROVE  TypeOK'
  <2>1. HeapOK(heap, {})
    BY <1>0, FewerBlocks
  <2>2. HeapOK(heap, {} \cup {[at |-> p, len |-> Memory]})
    BY <1>1, <2>1, PlaceApart, SizesTyped
  <2>3. p \in Heap
    BY DEF Places
  <2>4. heap' \in [Heap -> Bytes]
    BY <1>0, <1>1, <2>3, SegmentsCopied DEF HeapOK
  <2>5. HeapOK(heap, live)'
    BY <1>1, <2>2, <2>4 DEF HeapOK
  <2>6. RestOK'
    BY <1>0, <1>1, <2>3, SizesTyped DEF RestOK, UpdateMemoryInformation
  <2> QED
    BY <2>5, <2>6 DEF TypeOK, HeapOK, RestOK, Disjoint
<1>2. ASSUME UpdateMemoryInformation(0, Memory), status' = "running",
             UNCHANGED <<heap, live, frames, did>>
      PROVE  TypeOK'
  BY <1>2, SizesTyped DEF TypeOK, UpdateMemoryInformation
<1> QED
  BY <1>1, <1>2, WildTyped DEF SetMemoryBase

LEMMA CallTyped ==
  ASSUME TypeOK, Call
  PROVE  TypeOK'
<1>1. frames' \in Seq(Frames)
  BY FrameAppended DEF TypeOK, Call, GetBaseMemory
<1> QED
  BY <1>1 DEF TypeOK, Call

LEMMA ReturnTyped ==
  ASSUME TypeOK, Return
  PROVE  TypeOK'
<1>1. frames' \in Seq(Frames)
  <2>1. PICK m \in Nat : m = Len(frames)
    BY DEF TypeOK
  <2>2. m > 0
    BY <2>1 DEF TypeOK, Return, Running
  <2>3. \A j \in 1..(m - 1) : frames[j] \in Frames
    BY <2>1 DEF TypeOK
  <2>4. frames' = SubSeq(frames, 1, m - 1)
    BY <2>1 DEF Return
  <2> QED
    BY <2>1, <2>2, <2>3, <2>4 DEF TypeOK
<1> QED
  BY <1>1 DEF TypeOK, Return

LEMMA StoreTyped ==
  ASSUME TypeOK, NEW a \in Addresses, NEW o \in Offsets, NEW w \in Widths,
         NEW data \in [1..w -> Bytes], Store(a, o, data)
  PROVE  TypeOK'
<1>1. CASE Wild
  BY <1>1, WildTyped
<1>2. CASE ~Wild
  <2> DEFINE p == GetPointer(a, o)
  <2>1. p \in Int
    <3>1. Current \in Frames
      BY LastFrame DEF TypeOK, Store, Running, Current
    <3>2. Current.base \in Heap \cup {0}
      BY <3>1 DEF Frames
    <3>3. Current.base \in Int /\ a \in Int /\ o \in Int
      <4>1. Current.base \in Nat
        BY <3>2, AddressTyped
      <4>2. a \in Nat /\ o \in Nat
        BY AccessTyped
      <4> QED
        BY <4>1, <4>2
    <3> QED
      BY <3>3 DEF GetPointer
  <2>2. /\ heap' = [x \in Heap |-> IF x \in Cells(p, Len(data)) THEN data[x - p + 1] ELSE heap[x]]
        /\ UNCHANGED <<live, base, size, frames, status>>
    BY <1>2 DEF Store
  <2>3. heap \in [Heap -> Bytes] /\ w \in Nat
    BY AccessTyped DEF TypeOK
  <2> HIDE DEF p
  <2>4. heap' \in [Heap -> Bytes]
    BY <2>1, <2>2, <2>3, StoredBytes
  <2> QED
    BY <2>2, <2>4 DEF TypeOK
<1> QED
  BY <1>1, <1>2

LEMMA GrowStartTyped ==
  ASSUME TypeOK, GrowStart
  PROVE  TypeOK'
<1>1. frames \in Seq(Frames) /\ frames # <<>> /\ base \in Heap \cup {0}
  BY DEF TypeOK, GrowStart, Running
<1>2. frames[Len(frames)] \in Frames
  BY <1>1, LastFrame
<1>3. [ptr |-> base, stale |-> FALSE] \in Growing
  BY <1>1 DEF Growing
<1>4. Append(frames[Len(frames)].growing, [ptr |-> base, stale |-> FALSE]) \in Seq(Growing)
  BY <1>2, <1>3 DEF Frames
<1>5. frames' \in Seq(Frames)
  BY <1>1, <1>4, GrowingSet DEF GrowStart
<1> QED
  BY <1>5 DEF TypeOK, GrowStart

(***************************************************************************)
(* The grow that ends is taken off, and its block is null or was one.      *)
(***************************************************************************)
LEMMA GrowPopped ==
  ASSUME TypeOK, Running, Current.growing # <<>>
  PROVE  LET left == Len(Current.growing) - 1
         IN /\ Current.growing[left + 1].ptr \in Heap \cup {0}
            /\ [frames EXCEPT ![Len(frames)] = WithGrowing(@, SubSeq(@.growing, 1, left))] \in Seq(Frames)
<1>1. frames \in Seq(Frames) /\ frames # <<>>
  BY DEF TypeOK, Running
<1>2. Current = frames[Len(frames)] /\ Current \in Frames
  BY <1>1, LastFrame DEF Current
<1>3. PICK g \in Seq(Growing) : g = Current.growing
  BY <1>2 DEF Frames
<1>4. PICK m \in Nat : m = Len(g) /\ m > 0
  BY <1>3
<1>5. g[m] \in Growing
  BY <1>4, <1>3
<1>6. g[m].ptr \in Heap \cup {0}
  BY <1>5 DEF Growing
<1>7. SubSeq(g, 1, m - 1) \in Seq(Growing)
  BY <1>3, <1>4
<1>8. [frames EXCEPT ![Len(frames)] = WithGrowing(@, SubSeq(g, 1, m - 1))] \in Seq(Frames)
  BY <1>1, <1>7, GrowingSet
<1>9. m - 1 + 1 = m
  OBVIOUS
<1> QED
  BY <1>2, <1>3, <1>4, <1>6, <1>8, <1>9

LEMMA GrowTyped ==
  ASSUME TypeOK, NEW n \in Requests, Grow(n)
  PROVE  TypeOK'
<1> DEFINE left   == Len(Current.growing) - 1
           p      == Current.growing[left + 1].ptr
           popped == [frames EXCEPT ![Len(frames)] = WithGrowing(@, SubSeq(@.growing, 1, left))]
<1>1. p \in Heap \cup {0} /\ popped \in Seq(Frames)
  BY GrowPopped DEF Grow
<1>2. CASE Wild
  BY <1>2, WildTyped
<1>3. CASE ~Wild
  <2>1. PICK q \in Heap \cup {0} :
          /\ Realloc(p, n, q)
          /\ UpdateMemoryInformation(q, n)
          /\ frames' = [j \in 1..Len(frames) |-> Stale(popped[j])]
          /\ UNCHANGED status
    BY <1>3 DEF Grow
  <2>2. Len(popped) = Len(frames)
    BY DEF TypeOK
  <2>3. frames' \in Seq(Frames)
    <3> HIDE DEF popped
    <3> QED
      BY <1>1, <2>1, <2>2, StaleFrames
  <2>4. HeapOK(heap, live) /\ RestOK
    BY TypeParts
  <2> HIDE DEF p, popped
  <2>5. n \in Nat
    BY SizesTyped
  <2>6. HeapOK(heap, live)'
    BY <1>1, <2>1, <2>4, <2>5, ReallocKeepsHeap
  <2>7. RestOK'
    BY <2>1, <2>3, <2>4, <2>5 DEF RestOK, UpdateMemoryInformation
  <2> QED
    BY <2>6, <2>7 DEF TypeOK, HeapOK, RestOK, Disjoint
<1> QED
  BY <1>2, <1>3

(***************************************************************************)
(* TypeOK is kept by every step: blocks that malloc and realloc give out,  *)
(* move, shrink and free stay within the heap and apart.                   *)
(***************************************************************************)
LEMMA StepTyped ==
  ASSUME TypeOK, [Next]_vars
  PROVE  TypeOK'
<1>1. CASE MemorySize
  BY <1>1 DEF TypeOK, MemorySize
<1>2. ASSUME NEW a \in Addresses, NEW o \in Offsets, NEW w \in Widths, Load(a, o, w)
      PROVE  TypeOK'
  <2>1. CASE Wild
    BY <2>1, WildTyped
  <2>2. CASE ~Wild
    BY <1>2, <2>2 DEF TypeOK, Load
  <2> QED
    BY <2>1, <2>2
<1>3. CASE UNCHANGED vars
  BY <1>3 DEF TypeOK, vars
<1> QED
  BY <1>1, <1>2, <1>3, StartTyped, CallTyped, ReturnTyped, GrowStartTyped, StoreTyped, GrowTyped
  DEF Next, Terminated

(***************************************************************************)
(* In every reachable state the memory globals, the allocated blocks and   *)
(* the bases that functions hold are well typed, and blocks do not         *)
(* overlap, whatever malloc and realloc return.                            *)
(***************************************************************************)
THEOREM MemoryTyped == Spec => []TypeOK
<1>1. Init => TypeOK
  BY DEF Init, TypeOK, Blocks
<1>2. TypeOK /\ [Next]_vars => TypeOK'
  BY StepTyped
<1> QED
  BY <1>1, <1>2, PTL DEF Spec

-----------------------------------------------------------------------------
(***************************************************************************)
(* How a grow that is defined ends, with names for its parts.              *)
(***************************************************************************)
Popped == [frames EXCEPT ![Len(frames)] =
             WithGrowing(@, SubSeq(@.growing, 1, Len(Current.growing) - 1))]

Argument == Current.growing[Len(Current.growing)].ptr

Grew(n, q) ==
  /\ Realloc(Argument, n, q)
  /\ base' = q /\ size' = n
  /\ frames' = [j \in 1..Len(frames) |-> Stale(Popped[j])]
  /\ did' = Did("grow", 0, <<n>>)
  /\ UNCHANGED status

LEMMA GrowEnds ==
  ASSUME TypeOK, NEW n \in Requests, Grow(n), ~Wild
  PROVE  /\ Argument \in Heap \cup {0}
         /\ Popped \in Seq(Frames)
         /\ Len(Popped) = Len(frames)
         /\ \E q \in Heap \cup {0} : Grew(n, q)
<1>1. frames \in Seq(Frames) /\ frames # <<>>
  BY DEF TypeOK, Grow, Running
<1>2. Current = frames[Len(frames)] /\ Current \in Frames
  BY <1>1, LastFrame DEF Current
<1>3. Len(Current.growing) - 1 + 1 = Len(Current.growing)
  <2>1. PICK m \in Nat : m = Len(Current.growing)
    BY <1>2 DEF Frames
  <2> QED
    BY <2>1
<1>4. Argument \in Heap \cup {0} /\ Popped \in Seq(Frames)
  BY <1>3, GrowPopped DEF Grow, Argument, Popped
<1>5. Len(Popped) = Len(frames)
  BY <1>1 DEF Popped
<1>6. \E q \in Heap \cup {0} : Grew(n, q)
  BY <1>3 DEF Grow, Grew, Argument, Popped, UpdateMemoryInformation
<1> QED
  BY <1>4, <1>5, <1>6

LEMMA StepBaseLive ==
  ASSUME TypeOK, BaseLive, [Next]_vars
  PROVE  BaseLive'
<1>1. CASE Wild
  BY <1>1 DEF Wild, BaseLive
<1>2. CASE SetMemoryBase /\ ~Wild
  BY <1>2 DEF SetMemoryBase, BaseLive, UpdateMemoryInformation
<1>3. ASSUME NEW n \in Requests, Grow(n), ~Wild
      PROVE  BaseLive'
  <2>1. PICK q \in Heap \cup {0} : Grew(n, q)
    BY <1>3, GrowEnds
  <2>2. Argument \in Heap \cup {0}
    BY <1>3, GrowEnds
  <2>3. n \in Nat
    BY SizesTyped
  <2>4. Realloc(Argument, n, q)
    BY <2>1 DEF Grew
  <2>5. q # 0 => [at |-> q, len |-> n] \in live'
    BY <2>2, <2>3, <2>4, TypeParts, ReallocKeepsHeap
  <2> QED
    BY <2>1, <2>5 DEF Grew, BaseLive
<1>4. ASSUME UNCHANGED <<live, base, size>>
      PROVE  BaseLive'
  BY <1>4 DEF BaseLive
<1>5. ASSUME NEW a \in Addresses, NEW o \in Offsets, NEW w \in Widths, Load(a, o, w), ~Wild
      PROVE  BaseLive'
  BY <1>4, <1>5 DEF Load
<1>6. ASSUME NEW a \in Addresses, NEW o \in Offsets, NEW w \in Widths,
             NEW data \in [1..w -> Bytes], Store(a, o, data), ~Wild
      PROVE  BaseLive'
  BY <1>4, <1>6 DEF Store
<1>7. CASE Call \/ Return \/ MemorySize \/ GrowStart \/ UNCHANGED vars
  BY <1>4, <1>7 DEF Call, Return, MemorySize, GrowStart, vars
<1> QED
  BY <1>1, <1>2, <1>3, <1>5, <1>6, <1>7 DEF Next, Terminated

(***************************************************************************)
(* In every reachable state the two globals, read together, describe one   *)
(* allocated block, unless the base is null: no order of grows that are    *)
(* nested in each other or fail takes them apart.                          *)
(***************************************************************************)
THEOREM GlobalsAgree == Spec => []BaseLive
<1>1. Init => TypeOK /\ BaseLive
  BY DEF Init, TypeOK, Blocks, BaseLive
<1>2. TypeOK /\ BaseLive /\ [Next]_vars => TypeOK' /\ BaseLive'
  BY StepTyped, StepBaseLive
<1> QED
  BY <1>1, <1>2, PTL DEF Spec

-----------------------------------------------------------------------------
(***************************************************************************)
(* CachedCurrent of one invocation, with base b.                           *)
(***************************************************************************)
FrameCurrent(f, b) ==
  /\ ~f.grown => f.base = b
  /\ \A k \in 1..Len(f.growing) : ~f.growing[k].stale => f.growing[k].ptr = b

LEMMA CachedByFrame ==
  CachedCurrent <=> \A j \in 1..Len(frames) : FrameCurrent(frames[j], base)
BY DEF CachedCurrent, FrameCurrent

LEMMA StaleCurrent ==
  ASSUME NEW f \in Frames, NEW b
  PROVE  FrameCurrent(Stale(f), b)
<1>1. PICK m \in Nat : m = Len(f.growing)
  BY DEF Frames
<1>2. Stale(f).grown = TRUE
  BY DEF Stale
<1>3. Stale(f).growing = [k \in 1..m |-> [ptr |-> f.growing[k].ptr, stale |-> TRUE]]
  BY <1>1 DEF Stale
<1>4. \A k \in 1..m : Stale(f).growing[k].stale = TRUE
  BY <1>3
<1>5. Len(Stale(f).growing) = m
  BY <1>3
<1> QED
  BY <1>2, <1>4, <1>5 DEF FrameCurrent

(***************************************************************************)
(* Nothing is called before wasm_llvm_init has run.                        *)
(***************************************************************************)
QuietStart == status = "start" => frames = <<>>

LEMMA StepQuiet ==
  ASSUME QuietStart, [Next]_vars
  PROVE  QuietStart'
<1>1. CASE Wild
  BY <1>1 DEF Wild, QuietStart
<1>2. ASSUME NEW a \in Addresses, NEW o \in Offsets, NEW w \in Widths, Load(a, o, w), ~Wild
      PROVE  QuietStart'
  BY <1>2 DEF Load, QuietStart
<1>3. ASSUME NEW a \in Addresses, NEW o \in Offsets, NEW w \in Widths,
             NEW data \in [1..w -> Bytes], Store(a, o, data), ~Wild
      PROVE  QuietStart'
  BY <1>3 DEF Store, QuietStart
<1>4. ASSUME NEW n \in Requests, Grow(n), ~Wild
      PROVE  QuietStart'
  BY <1>4 DEF Grow, Running, QuietStart
<1>5. CASE (SetMemoryBase /\ ~Wild) \/ Call \/ Return \/ MemorySize \/ GrowStart \/ UNCHANGED vars
  BY <1>5 DEF SetMemoryBase, Call, Return, MemorySize, GrowStart, Running, vars, QuietStart
<1> QED
  BY <1>1, <1>2, <1>3, <1>4, <1>5 DEF Next, Terminated

LEMMA StepCached ==
  ASSUME TypeOK, QuietStart, CachedCurrent, [Next]_vars
  PROVE  CachedCurrent'
<1>0. frames \in Seq(Frames)
  BY DEF TypeOK
<1>1. CASE Wild
  BY <1>1 DEF Wild, CachedCurrent
<1>2. CASE SetMemoryBase /\ ~Wild
  <2>1. frames' = <<>>
    BY <1>2 DEF SetMemoryBase, QuietStart
  <2> QED
    BY <2>1 DEF CachedCurrent
<1>3. ASSUME NEW n \in Requests, Grow(n), ~Wild
      PROVE  CachedCurrent'
  <2>1. PICK q \in Heap \cup {0} : Grew(n, q)
    BY <1>3, GrowEnds
  <2>2. Popped \in Seq(Frames) /\ Len(Popped) = Len(frames)
    BY <1>3, GrowEnds
  <2>3. frames' = [j \in 1..Len(frames) |-> Stale(Popped[j])]
    BY <2>1 DEF Grew
  <2>4. Len(frames') = Len(frames)
    BY <1>0, <2>3
  <2> SUFFICES ASSUME NEW j \in 1..Len(frames')
               PROVE  FrameCurrent(frames'[j], base')
    BY DEF CachedCurrent, FrameCurrent
  <2>5. Popped[j] \in Frames /\ frames'[j] = Stale(Popped[j])
    BY <2>2, <2>3, <2>4
  <2> QED
    BY <2>5, StaleCurrent
<1>4. CASE Call
  <2> DEFINE f == [base |-> base, grown |-> FALSE, growing |-> <<>>]
  <2>1. frames' = Append(frames, f) /\ base' = base
    BY <1>4 DEF Call, GetBaseMemory
  <2>2. FrameCurrent(f, base)
    BY DEF FrameCurrent
  <2> SUFFICES ASSUME NEW j \in 1..Len(frames')
               PROVE  FrameCurrent(frames'[j], base')
    BY DEF CachedCurrent, FrameCurrent
  <2> HIDE DEF f
  <2>3. PICK m \in Nat : m = Len(frames)
    BY <1>0
  <2>4. j \in 1..m \/ j = m + 1
    BY <1>0, <2>1, <2>3
  <2>5. CASE j \in 1..m
    <3>1. frames'[j] = frames[j]
      BY <1>0, <2>1, <2>3, <2>5
    <3> QED
      BY <2>1, <2>3, <2>5, <3>1, CachedByFrame
  <2>6. CASE j = m + 1
    <3>1. frames'[j] = f
      BY <1>0, <2>1, <2>3, <2>6
    <3> QED
      BY <2>1, <2>2, <3>1
  <2> QED
    BY <2>4, <2>5, <2>6
<1>5. CASE Return
  <2>1. frames' = SubSeq(frames, 1, Len(frames) - 1) /\ base' = base
    BY <1>5 DEF Return
  <2>2. PICK m \in Nat : m = Len(frames) /\ m > 0
    BY <1>0, <1>5 DEF Return, Running
  <2> SUFFICES ASSUME NEW j \in 1..Len(frames')
               PROVE  FrameCurrent(frames'[j], base')
    BY DEF CachedCurrent, FrameCurrent
  <2>3. Len(frames') = m - 1
    BY <1>0, <2>1, <2>2
  <2>4. j \in 1..m /\ frames'[j] = frames[j]
    BY <1>0, <2>1, <2>2, <2>3
  <2> QED
    BY <2>1, <2>2, <2>4, CachedByFrame
<1>6. CASE GrowStart
  <2> DEFINE new == [ptr |-> base, stale |-> FALSE]
             old == frames[Len(frames)]
  <2>1. /\ frames' = [frames EXCEPT ![Len(frames)] = WithGrowing(@, Append(@.growing, new))]
        /\ base' = base /\ frames # <<>>
    BY <1>6 DEF GrowStart, Running
  <2>2. old \in Frames /\ Len(frames) \in 1..Len(frames)
    BY <1>0, <2>1, LastFrame
  <2>3. new.stale = FALSE /\ new.ptr = base
    OBVIOUS
  <2> HIDE DEF new
  <2>4. FrameCurrent(old, base)
    BY <2>2, CachedByFrame
  <2> HIDE DEF old
  <2>5. FrameCurrent(WithGrowing(old, Append(old.growing, new)), base)
    <3> DEFINE gs == old.growing
    <3>1. PICK m \in Nat : m = Len(gs)
      BY <2>2 DEF Frames
    <3>2. gs \in Seq(Growing)
      BY <2>2 DEF Frames
    <3>3. \A k \in 1..m : ~gs[k].stale => gs[k].ptr = base
      BY <2>4, <3>1 DEF FrameCurrent
    <3> HIDE DEF gs
    <3>4. Len(Append(gs, new)) = m + 1
      BY <3>1, <3>2
    <3>5. \A k \in 1..m : Append(gs, new)[k] = gs[k]
      BY <3>1, <3>2
    <3>6. Append(gs, new)[m + 1] = new
      BY <3>1, <3>2
    <3>7. \A k \in 1..(m + 1) : ~Append(gs, new)[k].stale => Append(gs, new)[k].ptr = base
      <4> TAKE k \in 1..(m + 1)
      <4>1. k \in 1..m \/ k = m + 1
        OBVIOUS
      <4> QED
        BY <2>3, <3>3, <3>5, <3>6, <4>1
    <3>8. ~old.grown => old.base = base
      BY <2>4 DEF FrameCurrent
    <3> QED
      BY <3>4, <3>7, <3>8 DEF FrameCurrent, WithGrowing, gs
  <2> SUFFICES ASSUME NEW j \in 1..Len(frames')
               PROVE  FrameCurrent(frames'[j], base')
    BY DEF CachedCurrent, FrameCurrent
  <2>6. Len(frames') = Len(frames)
    BY <1>0, <2>1
  <2>7. CASE j = Len(frames)
    <3>1. frames'[j] = WithGrowing(old, Append(old.growing, new))
      BY <1>0, <2>1, <2>2, <2>7 DEF old
    <3> QED
      BY <2>1, <2>5, <3>1
  <2>8. CASE j # Len(frames)
    <3>1. j \in 1..Len(frames)
      BY <2>6
    <3>2. frames'[j] = frames[j]
      BY <1>0, <2>1, <2>8, <3>1
    <3> QED
      BY <2>1, <3>1, <3>2, CachedByFrame
  <2> QED
    BY <2>7, <2>8
<1>7. ASSUME UNCHANGED <<base, frames>>
      PROVE  CachedCurrent'
  BY <1>7 DEF CachedCurrent
<1>8. ASSUME NEW a \in Addresses, NEW o \in Offsets, NEW w \in Widths, Load(a, o, w), ~Wild
      PROVE  CachedCurrent'
  BY <1>7, <1>8 DEF Load
<1>9. ASSUME NEW a \in Addresses, NEW o \in Offsets, NEW w \in Widths,
             NEW data \in [1..w -> Bytes], Store(a, o, data), ~Wild
      PROVE  CachedCurrent'
  BY <1>7, <1>9 DEF Store
<1>10. CASE MemorySize \/ UNCHANGED vars
  BY <1>7, <1>10 DEF MemorySize, vars
<1> QED
  BY <1>1, <1>2, <1>3, <1>4, <1>5, <1>6, <1>8, <1>9, <1>10 DEF Next, Terminated

(***************************************************************************)
(* The inductive invariant.                                                *)
(***************************************************************************)
MemoryInv == TypeOK /\ BaseLive /\ QuietStart /\ CachedCurrent

LEMMA MemoryInvHolds == Spec => []MemoryInv
<1>1. Init => MemoryInv
  BY DEF Init, MemoryInv, TypeOK, Blocks, BaseLive, QuietStart, CachedCurrent
<1>2. MemoryInv /\ [Next]_vars => MemoryInv'
  BY StepTyped, StepBaseLive, StepQuiet, StepCached DEF MemoryInv
<1> QED
  BY <1>1, <1>2, PTL DEF Spec

(***************************************************************************)
(* In every reachable state the base that an invocation or an unfinished   *)
(* grow holds is the one of the module, unless something has grown since:  *)
(* calls, returns and grows that end in another order do not hide it.      *)
(***************************************************************************)
THEOREM BasesCurrent == Spec => []CachedCurrent
<1>1. MemoryInv => CachedCurrent
  BY DEF MemoryInv
<1> QED
  BY <1>1, MemoryInvHolds, PTL

-----------------------------------------------------------------------------
(***************************************************************************)
(* LinearMemory implements WasmMemory, for every heap, every segments and  *)
(* every bound: each operation of the generated program is the operation   *)
(* of the memory that WasmMemory describes.                                *)
(***************************************************************************)

(***************************************************************************)
(* The memory the program sees: null, or the bytes of the block.           *)
(***************************************************************************)
LEMMA NoContents ==
  ASSUME base = 0
  PROVE  Contents = <<>> /\ Len(Contents) = 0
BY DEF Contents

LEMMA BlockContents ==
  ASSUME TypeOK, BaseLive, base # 0
  PROVE  /\ base \in Nat /\ size \in Nat
         /\ [at |-> base, len |-> size] \in live
         /\ Cells(base, size) \subseteq Heap
         /\ \A i \in 1..size : base + i - 1 \in Heap
         /\ Contents = [i \in 1..size |-> heap[base + i - 1]]
         /\ Contents \in [1..size -> Bytes]
         /\ Len(Contents) = size
<1>1. base \in Nat /\ size \in Nat
  BY AddressTyped DEF TypeOK
<1>2. [at |-> base, len |-> size] \in live
  BY DEF BaseLive
<1>3. Cells(base, size) \subseteq Heap
  <2> DEFINE b == [at |-> base, len |-> size]
  <2>1. Space(b.at, b.len) \subseteq Heap
    BY <1>2 DEF TypeOK
  <2> QED
    BY <1>1, <2>1, SpaceHolds
<1>4. \A i \in 1..size : base + i - 1 \in Heap
  BY <1>1, <1>3 DEF Cells
<1>5. Contents = [i \in 1..size |-> heap[base + i - 1]]
  BY DEF Contents
<1>6. Contents \in [1..size -> Bytes]
  BY <1>4, <1>5 DEF TypeOK
<1>7. Len(Contents) = size
  BY <1>1, <1>5
<1> QED
  BY <1>1, <1>2, <1>3, <1>4, <1>5, <1>6, <1>7

LEMMA ContentsLength ==
  ASSUME TypeOK, BaseLive
  PROVE  /\ Len(Contents) \in Nat
         /\ Contents \in [1..Len(Contents) -> Bytes]
<1>1. CASE base = 0
  BY <1>1 DEF Contents
<1>2. CASE base # 0
  BY <1>2, BlockContents
<1> QED
  BY <1>1, <1>2

(***************************************************************************)
(* The invocations the program sees.                                       *)
(***************************************************************************)
LEMMA SeenFacts ==
  ASSUME NEW f \in Frames
  PROVE  /\ Seen(f).grown = f.grown
         /\ Len(Seen(f).growing) = Len(f.growing)
         /\ Len(f.growing) \in Nat
         /\ \A k \in 1..Len(f.growing) : Seen(f).growing[k] = f.growing[k].stale
         /\ Seen(f).growing \in Seq(BOOLEAN)
<1>1. PICK m \in Nat : m = Len(f.growing)
  BY DEF Frames
<1>2. \A k \in 1..m : f.growing[k].stale \in BOOLEAN
  <2> TAKE k \in 1..m
  <2>1. f.growing \in Seq(Growing)
    BY DEF Frames
  <2>2. f.growing[k] \in Growing
    BY <1>1, <2>1
  <2> QED
    BY <2>2 DEF Growing
<1>3. Seen(f).growing = [k \in 1..m |-> f.growing[k].stale]
  BY <1>1 DEF Seen
<1>4. Seen(f).grown = f.grown
  BY DEF Seen
<1>5. Seen(f).growing \in [1..m -> BOOLEAN]
  BY <1>2, <1>3, Zenon
<1>6. Seen(f).growing \in Seq(BOOLEAN) /\ Len(Seen(f).growing) = m
  BY <1>5
<1>7. \A k \in 1..m : Seen(f).growing[k] = f.growing[k].stale
  BY <1>3
<1> QED
  BY <1>1, <1>4, <1>6, <1>7

LEMMA InvocationFacts ==
  ASSUME frames \in Seq(Frames)
  PROVE  /\ Len(Invocations) = Len(frames)
         /\ Len(frames) \in Nat
         /\ \A j \in 1..Len(frames) : Invocations[j] = Seen(frames[j])
         /\ frames # <<>> => Len(Invocations) > 0 /\ Invocations # <<>>
<1>1. PICK m \in Nat : m = Len(frames)
  OBVIOUS
<1>2. Invocations = [j \in 1..m |-> Seen(frames[j])]
  BY <1>1 DEF Invocations
<1>3. Len(Invocations) = m
  BY <1>1, <1>2
<1>4. frames # <<>> => m > 0
  BY <1>1
<1> QED
  BY <1>1, <1>2, <1>3, <1>4

LEMMA NoInvocations ==
  ASSUME frames = <<>>
  PROVE  Invocations = <<>>
BY DEF Invocations

LEMMA RunningMaps ==
  ASSUME TypeOK, Running
  PROVE  M!Running /\ M!Current = Seen(Current) /\ Current \in Frames
<1>1. frames \in Seq(Frames) /\ frames # <<>>
  BY DEF TypeOK, Running
<1>2. Len(frames) \in 1..Len(frames) /\ frames[Len(frames)] \in Frames
  BY <1>1, LastFrame
<1>3. M!Current = Seen(Current)
  BY <1>1, <1>2, InvocationFacts DEF M!Current, Current
<1>4. M!Running
  BY <1>1, InvocationFacts DEF Running, M!Running
<1> QED
  BY <1>2, <1>3, <1>4 DEF Current

(***************************************************************************)
(* What is read or written within bounds by an invocation during which     *)
(* nothing has grown lies in the block.                                    *)
(***************************************************************************)
LEMMA SoundOwned ==
  ASSUME MemoryInv, Running, NEW a \in Addresses, NEW o \in Offsets, NEW w \in Widths,
         M!Sound(a + o, w)
  PROVE  /\ base # 0
         /\ Owned(GetPointer(a, o), w)
         /\ GetPointer(a, o) = base + a + o
         /\ a + o + w <= size
<1>1. TypeOK /\ BaseLive /\ CachedCurrent
  BY DEF MemoryInv
<1>2. a \in Nat /\ o \in Nat /\ w \in Nat /\ w > 0
  BY AccessTyped
<1>3. a + o + w <= Len(Contents) /\ ~M!Current.grown
  BY DEF M!Sound
<1>4. base # 0
  BY <1>2, <1>3, NoContents
<1>5. Len(Contents) = size /\ base \in Nat /\ size \in Nat /\ [at |-> base, len |-> size] \in live
  BY <1>1, <1>4, BlockContents
<1>6. Current.base = base
  <2>1. Current \in Frames /\ M!Current = Seen(Current)
    BY <1>1, RunningMaps
  <2>2. ~Current.grown
    BY <1>3, <2>1, SeenFacts
  <2>3. Len(frames) \in 1..Len(frames)
    BY <1>1, LastFrame DEF TypeOK, Running
  <2> QED
    BY <1>1, <2>2, <2>3 DEF CachedCurrent, Current
<1>7. GetPointer(a, o) = base + a + o
  BY <1>6 DEF GetPointer
<1>8. Cells(base + a + o, w) \subseteq Cells(base, size)
  BY <1>2, <1>3, <1>5 DEF Cells
<1>9. Owned(base + a + o, w)
  <2> DEFINE b == [at |-> base, len |-> size]
  <2>1. b \in live /\ Cells(base + a + o, w) \subseteq Cells(b.at, b.len)
    BY <1>5, <1>8
  <2> QED
    BY <2>1 DEF Owned
<1> QED
  BY <1>3, <1>4, <1>5, <1>7, <1>9

-----------------------------------------------------------------------------
(***************************************************************************)
(* The operations, one by one.                                             *)
(***************************************************************************)
LEMMA WildMaps ==
  ASSUME Wild
  PROVE  M!Wild
<1>1. base' = 0 /\ frames' = <<>>
  BY DEF Wild
<1>2. Contents' = <<>>
  BY <1>1 DEF Contents
<1>3. Invocations' = <<>>
  BY <1>1 DEF Invocations
<1> QED
  BY <1>2, <1>3 DEF Wild, M!Wild, Nothing, M!Nothing, Did, M!Did

LEMMA InitMaps ==
  ASSUME Init
  PROVE  M!Init
<1>1. Contents = <<>>
  BY NoContents DEF Init
<1>2. Invocations = <<>>
  BY NoInvocations DEF Init
<1> QED
  BY <1>1, <1>2 DEF Init, M!Init, Nothing, M!Nothing, Did, M!Did

(***************************************************************************)
(* The bytes of the segments are in place after they have been copied.     *)
(***************************************************************************)
LEMMA SegmentsInPlace ==
  ASSUME NEW p \in Heap, HandleSegments(p),
         Cells(p, Memory) \subseteq Heap,
         \A s \in 1..Len(Segments) : SegmentBytes(s) \subseteq 1..Memory
  PROVE  M!HoldsSegments([i \in 1..Memory |-> heap'[p + i - 1]])
<1> DEFINE b == [i \in 1..Memory |-> heap'[p + i - 1]]
<1> SUFFICES ASSUME NEW s \in 1..Len(Segments), NEW k \in 1..Len(Segments[s].data)
             PROVE  b[Segments[s].start + k] = Segments[s].data[k]
  BY DEF M!HoldsSegments
<1> DEFINE st == Segments[s].start
           ln == Len(Segments[s].data)
           a  == p + st + k - 1
<1>1. st \in Nat /\ ln \in Nat
  <2> DEFINE S == [start : Nat, data : Seq(Bytes)]
  <2>1. Segments \in Seq(S)
    BY SegmentsTyped
  <2> HIDE DEF S
  <2>2. Segments[s] \in S
    BY <2>1, ElementTyped
  <2> QED
    BY <2>2 DEF S
<1>2. p \in Nat /\ Memory \in Nat
  BY AddressTyped, SizesTyped
<1>3. SegmentBytes(s) = (st + 1)..(st + ln)
  BY DEF SegmentBytes
<1> HIDE DEF st, ln
<1>4. k \in 1..ln
  BY DEF ln
<1>5. st + k \in SegmentBytes(s) /\ st + k \in 1..Memory
  BY <1>1, <1>3, <1>4
<1>6. a \in Heap /\ a + 1 - p = st + k
  BY <1>1, <1>2, <1>4, <1>5 DEF Cells
<1>7. \A t \in 1..Len(Segments) : a + 1 - p \in SegmentBytes(t) => t = s
  BY <1>5, <1>6, SegmentsTyped
<1>8. (CHOOSE t \in 1..Len(Segments) : a + 1 - p \in SegmentBytes(t)) = s
  BY <1>5, <1>6, <1>7
<1>9. heap'[a] = Segments[s].data[a + 1 - p - st]
  BY <1>5, <1>6, <1>8 DEF HandleSegments, st
<1>10. a + 1 - p - st = k
  BY <1>1, <1>2, <1>4
<1>11. b[st + k] = heap'[p + (st + k) - 1]
  BY <1>5
<1>12. p + (st + k) - 1 = a
  BY <1>1, <1>2, <1>4
<1> QED
  BY <1>9, <1>10, <1>11, <1>12 DEF st

LEMMA StartMaps ==
  ASSUME MemoryInv, MemoryInv', SetMemoryBase
  PROVE  M!Start
<1>1. CASE Wild
  BY <1>1, WildMaps DEF SetMemoryBase, M!Start
<1>2. ASSUME NEW p \in Places(Memory, {}),
             \A s \in 1..Len(Segments) : SegmentBytes(s) \subseteq 1..Memory,
             UpdateMemoryInformation(p, Memory), HandleSegments(p),
             status = "start", status' = "running", UNCHANGED <<frames, did>>
      PROVE  M!Start
  <2>1. p \in Heap /\ Cells(p, Memory) \subseteq Heap
    BY AddressTyped, SizesTyped, SpaceHolds DEF Places
  <2>2. base' = p /\ size' = Memory /\ p # 0
    BY <1>2, <2>1, HeapTyped DEF UpdateMemoryInformation
  <2>3. Contents' = [i \in 1..Memory |-> heap'[p + i - 1]]
    BY <2>2 DEF Contents
  <2>4. M!HoldsSegments([i \in 1..Memory |-> heap'[p + i - 1]])
    BY <1>2, <2>1, SegmentsInPlace
  <2>5. Contents' \in [1..Memory -> Bytes]
    <3>1. heap' \in [Heap -> Bytes]
      BY DEF MemoryInv, TypeOK
    <3>2. \A i \in 1..Memory : p + i - 1 \in Heap
      BY <2>1, AddressTyped, SizesTyped DEF Cells
    <3> QED
      BY <2>3, <3>1, <3>2
  <2>6. Invocations' = Invocations
    BY <1>2 DEF Invocations
  <2>7. M!HoldsSegments(Contents')
    BY <2>3, <2>4
  <2> QED
    BY <1>2, <2>2, <2>5, <2>6, <2>7 DEF M!Start
<1>3. ASSUME UpdateMemoryInformation(0, Memory), status = "start", status' = "running",
             UNCHANGED <<heap, live, frames, did>>
      PROVE  M!Start
  <2>1. Contents' = <<>> /\ size' = Memory
    BY <1>3 DEF Contents, UpdateMemoryInformation
  <2>2. Invocations' = Invocations
    BY <1>3 DEF Invocations
  <2> QED
    BY <1>3, <2>1, <2>2 DEF M!Start
<1> QED
  BY <1>1, <1>2, <1>3 DEF SetMemoryBase

LEMMA CallMaps ==
  ASSUME TypeOK, Call
  PROVE  M!Call
<1> DEFINE f == [base |-> base, grown |-> FALSE, growing |-> <<>>]
<1>1. frames' = Append(frames, f) /\ frames \in Seq(Frames)
  BY DEF Call, GetBaseMemory, TypeOK
<1>2. Seen(f) = [grown |-> FALSE, growing |-> <<>>]
  BY DEF Seen
<1> HIDE DEF f
<1>3. PICK m \in Nat : m = Len(frames)
  BY <1>1
<1>4. Len(frames') = m + 1 /\ frames'[m + 1] = f /\ \A j \in 1..m : frames'[j] = frames[j]
  BY <1>1, <1>3
<1>5. Invocations' = [j \in 1..(m + 1) |-> Seen(frames'[j])]
  BY <1>4 DEF Invocations
<1>6. Invocations = [j \in 1..m |-> Seen(frames[j])]
  BY <1>3 DEF Invocations
<1>7. Invocations' = [j \in 1..(m + 1) |-> IF j = m + 1 THEN Seen(f) ELSE Seen(frames[j])]
  BY <1>4, <1>5
<1>8. Invocations' = Append(Invocations, Seen(f))
  BY <1>3, <1>6, <1>7
<1>9. Contents' = Contents
  BY DEF Call, Contents
<1> QED
  BY <1>2, <1>8, <1>9 DEF Call, M!Call, Nothing, M!Nothing, Did, M!Did

LEMMA ReturnMaps ==
  ASSUME TypeOK, Return
  PROVE  M!Return
<1>1. frames \in Seq(Frames) /\ frames # <<>>
  BY DEF TypeOK, Return, Running
<1>2. PICK m \in Nat : m = Len(frames) /\ m > 0
  BY <1>1
<1>3. frames' = SubSeq(frames, 1, m - 1)
  BY <1>2 DEF Return
<1>4. Len(frames') = m - 1 /\ \A j \in 1..(m - 1) : frames'[j] = frames[j]
  BY <1>1, <1>2, <1>3
<1>5. Invocations' = [j \in 1..(m - 1) |-> Seen(frames'[j])]
  BY <1>4 DEF Invocations
<1>6. Invocations = [j \in 1..m |-> Seen(frames[j])]
  BY <1>2 DEF Invocations
<1>7. Invocations' = [j \in 1..(m - 1) |-> Seen(frames[j])]
  BY <1>4, <1>5
<1>8. Invocations' = SubSeq(Invocations, 1, m - 1) /\ Len(Invocations) = m
  BY <1>2, <1>6, <1>7
<1>9. Contents' = Contents
  BY DEF Return, Contents
<1> QED
  BY <1>8, <1>9, RunningMaps DEF Return, M!Return, Nothing, M!Nothing, Did, M!Did

LEMMA SizeMaps ==
  ASSUME TypeOK, MemorySize
  PROVE  M!Size
<1>1. Contents' = Contents /\ Invocations' = Invocations
  BY DEF MemorySize, Contents, Invocations
<1> QED
  BY <1>1, RunningMaps DEF MemorySize, M!Size, Did, M!Did

LEMMA LoadMaps ==
  ASSUME MemoryInv, NEW a \in Addresses, NEW o \in Offsets, NEW w \in Widths, Load(a, o, w)
  PROVE  M!Load(a + o, w)
<1> DEFINE p == GetPointer(a, o)
<1>1. TypeOK /\ Running
  BY DEF MemoryInv, Load
<1>2. M!Running
  BY <1>1, RunningMaps
<1>3. CASE ~Owned(p, w)
  <2>1. Wild
    BY <1>3 DEF Load
  <2>2. ~M!Sound(a + o, w)
    BY <1>1, <1>3, SoundOwned
  <2> QED
    BY <1>2, <2>1, <2>2, WildMaps DEF M!Load
<1>4. CASE Owned(p, w)
  <2> DEFINE data == [k \in 1..w |-> heap[p + k - 1]]
  <2>1. /\ did' = Did("load", a + o, data)
        /\ UNCHANGED <<heap, live, base, size, frames, status>>
    BY <1>4 DEF Load
  <2>2. Contents' = Contents /\ Invocations' = Invocations
    BY <2>1 DEF Contents, Invocations
  <2>3. data \in [1..w -> Bytes]
    <3>1. p \in Int /\ w \in Nat
      <4>1. Current.base \in Nat
        BY <1>1, RunningMaps, AddressTyped DEF Frames
      <4> QED
        BY <4>1, AccessTyped DEF GetPointer
    <3>2. Cells(p, w) \subseteq Heap
      <4>1. PICK b \in live : Cells(p, w) \subseteq Cells(b.at, b.len)
        BY <1>4 DEF Owned
      <4>2. b.at \in Heap /\ b.len \in Nat /\ Space(b.at, b.len) \subseteq Heap
        <5>1. b \in Blocks
          BY <1>1 DEF TypeOK
        <5> QED
          BY <1>1, <5>1 DEF TypeOK, Blocks
      <4>3. Cells(b.at, b.len) \subseteq Heap
        BY <4>2, AddressTyped, SpaceHolds
      <4> QED
        BY <4>1, <4>3
    <3> HIDE DEF p
    <3>3. \A k \in 1..w : p + k - 1 \in Heap
      BY <3>1, <3>2 DEF Cells
    <3> QED
      BY <1>1, <3>3 DEF TypeOK
  <2>4. M!Sound(a + o, w) => \A k \in 1..w : data[k] = Contents[a + o + k]
    <3> SUFFICES ASSUME M!Sound(a + o, w), NEW k \in 1..w
                 PROVE  data[k] = Contents[a + o + k]
      OBVIOUS
    <3>1. base # 0 /\ p = base + a + o /\ a + o + w <= size
      BY <1>1, SoundOwned
    <3>2. base \in Nat /\ size \in Nat /\ Contents = [i \in 1..size |-> heap[base + i - 1]]
      BY <3>1, BlockContents DEF MemoryInv
    <3>3. a \in Nat /\ o \in Nat /\ w \in Nat
      BY AccessTyped
    <3>4. data[k] = heap[p + k - 1]
      OBVIOUS
    <3> HIDE DEF p, data
    <3>5. a + o + k \in 1..size
      BY <3>1, <3>2, <3>3
    <3>6. Contents[a + o + k] = heap[base + (a + o + k) - 1]
      BY <3>2, <3>5
    <3>7. base + (a + o + k) - 1 = p + k - 1
      BY <3>1, <3>2, <3>3
    <3> QED
      BY <3>4, <3>6, <3>7
  <2> HIDE DEF data
  <2> QED
    BY <1>2, <2>1, <2>2, <2>3, <2>4 DEF M!Load, Did, M!Did
<1> QED
  BY <1>3, <1>4

LEMMA StoreMaps ==
  ASSUME MemoryInv, NEW a \in Addresses, NEW o \in Offsets, NEW w \in Widths,
         NEW data \in [1..w -> Bytes], Store(a, o, data), TypeOK'
  PROVE  M!Store(a + o, data)
<1> DEFINE p == GetPointer(a, o)
<1>0. a \in Nat /\ o \in Nat /\ w \in Nat /\ Len(data) = w
  BY AccessTyped
<1>1. TypeOK /\ BaseLive /\ Running
  BY DEF MemoryInv, Store
<1>2. M!Running
  BY <1>1, RunningMaps
<1>3. CASE ~Owned(p, w)
  <2>1. Wild
    BY <1>0, <1>3 DEF Store
  <2>2. ~M!Sound(a + o, Len(data))
    BY <1>0, <1>1, <1>3, SoundOwned
  <2> QED
    BY <1>2, <2>1, <2>2, WildMaps DEF M!Store
<1>4. CASE Owned(p, w)
  <2>1. /\ heap' = [x \in Heap |-> IF x \in Cells(p, w) THEN data[x - p + 1] ELSE heap[x]]
        /\ did' = Did("store", a + o, data)
        /\ UNCHANGED <<live, base, size, frames, status>>
    BY <1>0, <1>4 DEF Store
  <2>2. Invocations' = Invocations
    BY <2>1 DEF Invocations
  <2>3. Contents' \in [1..Len(Contents) -> Bytes]
    <3>1. CASE base = 0
      <4>1. Contents' = Contents
        BY <2>1, <3>1 DEF Contents
      <4> QED
        BY <1>1, <4>1, ContentsLength
    <3>2. CASE base # 0
      <4>1. Contents' = [i \in 1..size |-> heap'[base + i - 1]]
        BY <2>1, <3>2 DEF Contents
      <4>2. \A i \in 1..size : base + i - 1 \in Heap
        BY <1>1, <3>2, BlockContents
      <4>3. Len(Contents) = size
        BY <1>1, <3>2, BlockContents
      <4>4. heap' \in [Heap -> Bytes]
        BY DEF TypeOK
      <4> QED
        BY <4>1, <4>2, <4>3, <4>4
    <3> QED
      BY <3>1, <3>2
  <2>4. \A x \in Heap :
          heap'[x] = IF x \in Cells(p, w) THEN data[x - p + 1] ELSE heap[x]
    BY <2>1, Zenon
  <2>5. ASSUME M!Sound(a + o, w), NEW i \in 1..Len(Contents)
        PROVE  Contents'[i] = IF i \in (a + o + 1)..(a + o + w) THEN data[i - (a + o)] ELSE Contents[i]
    <3>1. base # 0 /\ p = base + a + o /\ a + o + w <= size
      BY <1>1, <2>5, SoundOwned DEF MemoryInv
    <3>2. /\ base \in Nat /\ size \in Nat
          /\ Contents = [k \in 1..size |-> heap[base + k - 1]]
          /\ Len(Contents) = size
          /\ \A k \in 1..size : base + k - 1 \in Heap
      BY <1>1, <3>1, BlockContents
    <3>3. Contents' = [k \in 1..size |-> heap'[base + k - 1]]
      BY <2>1, <3>1 DEF Contents
    <3> HIDE DEF p
    <3>4. base + i - 1 \in Heap /\ i \in 1..size
      BY <3>2
    <3>5. PICK x \in Heap : x = base + i - 1
      BY <3>4
    <3>6. Contents'[i] = heap'[x] /\ Contents[i] = heap[x]
      BY <3>2, <3>3, <3>4, <3>5
    <3>7. x \in Cells(p, w) <=> i \in (a + o + 1)..(a + o + w)
      BY <1>0, <3>1, <3>2, <3>4, <3>5 DEF Cells
    <3>8. x - p + 1 = i - (a + o)
      BY <1>0, <3>1, <3>2, <3>4, <3>5
    <3>9. heap'[x] = IF x \in Cells(p, w) THEN data[x - p + 1] ELSE heap[x]
      BY <2>4, Zenon
    <3> QED
      BY <3>6, <3>7, <3>8, <3>9, Zenon
  <2>6. M!Sound(a + o, Len(data)) =>
          \A i \in 1..Len(Contents) :
            Contents'[i] = IF i \in (a + o + 1)..(a + o + Len(data))
                           THEN data[i - (a + o)] ELSE Contents[i]
    BY <1>0, <2>5
  <2> QED
    BY <1>2, <2>1, <2>2, <2>3, <2>6 DEF M!Store, Did, M!Did
<1> QED
  BY <1>3, <1>4

(***************************************************************************)
(* A grow starts and ends: the invocations the program sees.               *)
(***************************************************************************)
LEMMA SeenWithGrowing ==
  ASSUME NEW f \in Frames, NEW g \in Seq(Growing)
  PROVE  Seen(WithGrowing(f, g)) = M!WithGrowing(Seen(f), [k \in 1..Len(g) |-> g[k].stale])
BY SeenFacts DEF Seen, WithGrowing, M!WithGrowing

LEMMA InvocationSet ==
  ASSUME NEW m \in Nat, m = Len(frames), m > 0, frames \in Seq(Frames), NEW f
  PROVE  [j \in 1..m |-> Seen([frames EXCEPT ![m] = f][j])] = [Invocations EXCEPT ![m] = Seen(f)]
<1>1. Invocations = [j \in 1..m |-> Seen(frames[j])]
  BY DEF Invocations
<1>2. \A j \in 1..m : [frames EXCEPT ![m] = f][j] = IF j = m THEN f ELSE frames[j]
  OBVIOUS
<1>3. [Invocations EXCEPT ![m] = Seen(f)] = [j \in 1..m |-> IF j = m THEN Seen(f) ELSE Seen(frames[j])]
  BY <1>1
<1> QED
  BY <1>2, <1>3

LEMMA AppendedFunction ==
  ASSUME NEW n \in Nat, NEW s, s = [k \in 1..n |-> s[k]], NEW e
  PROVE  Append(s, e) = [k \in 1..(n + 1) |-> IF k = n + 1 THEN e ELSE s[k]]
OBVIOUS

LEMMA GrowStartMaps ==
  ASSUME TypeOK, GrowStart
  PROVE  M!GrowStart
<1> DEFINE new == [ptr |-> base, stale |-> FALSE]
<1>1. frames \in Seq(Frames) /\ frames # <<>> /\ new \in Growing
  BY DEF TypeOK, GrowStart, Running, Growing
<1>2. PICK m \in Nat : m = Len(frames) /\ m > 0
  BY <1>1
<1>3. PICK f \in Frames : f = frames[m]
  BY <1>1, <1>2
<1>4. PICK g \in Seq(Growing) : g = f.growing
  BY <1>3 DEF Frames
<1>5. PICK n \in Nat : n = Len(g)
  BY <1>4
<1>6. new.stale = FALSE
  OBVIOUS
<1>7. frames' = [frames EXCEPT ![m] = WithGrowing(f, Append(g, new))]
  BY <1>2, <1>3, <1>4 DEF GrowStart
<1> HIDE DEF new
<1>8. Append(g, new) \in Seq(Growing) /\ Len(Append(g, new)) = n + 1
  BY <1>1, <1>4, <1>5
<1>9. Len(frames') = m
  BY <1>1, <1>2, <1>7
<1>10. Invocations' = [Invocations EXCEPT ![m] = Seen(WithGrowing(f, Append(g, new)))]
  <2>1. Invocations' = [j \in 1..m |-> Seen(frames'[j])]
    BY <1>9 DEF Invocations
  <2> DEFINE h == WithGrowing(f, Append(g, new))
  <2>2. frames' = [frames EXCEPT ![m] = h]
    BY <1>7
  <2> HIDE DEF h
  <2>3. [j \in 1..m |-> Seen([frames EXCEPT ![m] = h][j])] = [Invocations EXCEPT ![m] = Seen(h)]
    BY <1>1, <1>2, InvocationSet
  <2>4. Invocations' = [Invocations EXCEPT ![m] = Seen(h)]
    BY <2>1, <2>2, <2>3
  <2> QED
    BY <2>4 DEF h
<1>11. Seen(WithGrowing(f, Append(g, new))) =
         M!WithGrowing(Seen(f), [k \in 1..(n + 1) |-> Append(g, new)[k].stale])
  BY <1>8, SeenWithGrowing
<1>12. [k \in 1..(n + 1) |-> Append(g, new)[k].stale] = Append(Seen(f).growing, FALSE)
  <2>1. Seen(f).growing = [k \in 1..n |-> g[k].stale]
    BY <1>4, <1>5 DEF Seen
  <2>2. \A k \in 1..(n + 1) : Append(g, new)[k] = IF k = n + 1 THEN new ELSE g[k]
    BY <1>1, <1>4, <1>5
  <2>3. [k \in 1..(n + 1) |-> Append(g, new)[k].stale] =
          [k \in 1..(n + 1) |-> IF k = n + 1 THEN FALSE ELSE g[k].stale]
    BY <1>6, <2>2
  <2> DEFINE s == [k \in 1..n |-> g[k].stale]
  <2>4. Append(s, FALSE) = [k \in 1..(n + 1) |-> IF k = n + 1 THEN FALSE ELSE s[k]]
    <3>1. s = [k \in 1..n |-> s[k]]
      OBVIOUS
    <3> HIDE DEF s
    <3>2. \A e : Append(s, e) = [k \in 1..(n + 1) |-> IF k = n + 1 THEN e ELSE s[k]]
      BY <1>5, <3>1, AppendedFunction
    <3> QED
      BY <3>2, Zenon
  <2>5. \A k \in 1..(n + 1) : k # n + 1 => s[k] = g[k].stale
    BY <1>5
  <2>6. Append(s, FALSE) = [k \in 1..(n + 1) |-> IF k = n + 1 THEN FALSE ELSE g[k].stale]
    <3> HIDE DEF s
    <3> QED
      BY <2>4, <2>5, Zenon
  <2> QED
    BY <2>1, <2>3, <2>6
<1>13. Invocations[m] = Seen(f) /\ Len(Invocations) = m
  BY <1>1, <1>2, <1>3, InvocationFacts
<1>14. Contents' = Contents
  BY DEF GrowStart, Contents
<1>15. Invocations' = [Invocations EXCEPT ![Len(Invocations)] =
                         M!WithGrowing(@, Append(@.growing, FALSE))]
  BY <1>10, <1>11, <1>12, <1>13
<1> QED
  BY <1>14, <1>15, RunningMaps DEF GrowStart, M!GrowStart, Nothing, M!Nothing, Did, M!Did

LEMMA SeenStale ==
  ASSUME NEW f \in Frames
  PROVE  Seen(Stale(f)) = M!Grown(Seen(f))
<1>1. PICK m \in Nat : m = Len(f.growing)
  BY DEF Frames
<1>2. Stale(f).grown = TRUE
  BY DEF Stale
<1>3. Stale(f).growing = [k \in 1..m |-> [ptr |-> f.growing[k].ptr, stale |-> TRUE]]
  BY <1>1 DEF Stale
<1>4. Len(Stale(f).growing) = m /\ \A k \in 1..m : Stale(f).growing[k].stale = TRUE
  BY <1>3
<1>5. Seen(Stale(f)) = [grown |-> TRUE, growing |-> [k \in 1..m |-> TRUE]]
  BY <1>2, <1>4 DEF Seen
<1>6. Len(Seen(f).growing) = m
  BY <1>1, SeenFacts
<1> QED
  BY <1>5, <1>6 DEF M!Grown

(***************************************************************************)
(* The grow that ends is taken off, also as the program sees it.           *)
(***************************************************************************)
MPopped == [Invocations EXCEPT ![Len(Invocations)] =
              M!WithGrowing(@, SubSeq(@.growing, 1, Len(M!Current.growing) - 1))]

LEMMA PoppedMaps ==
  ASSUME TypeOK, Running, Current.growing # <<>>
  PROVE  /\ [j \in 1..Len(frames) |-> Seen(Popped[j])] = MPopped
         /\ Len(MPopped) = Len(frames)
<1>1. frames \in Seq(Frames) /\ frames # <<>>
  BY DEF TypeOK, Running
<1>2. PICK m \in Nat : m = Len(frames) /\ m > 0
  BY <1>1
<1>3. PICK f \in Frames : f = frames[m]
  BY <1>1, <1>2
<1>4. PICK g \in Seq(Growing) : g = f.growing
  BY <1>3 DEF Frames
<1>5. Current = f
  BY <1>2, <1>3 DEF Current
<1>6. PICK n \in Nat : n = Len(g) /\ n > 0
  BY <1>4, <1>5
<1>7. Popped = [frames EXCEPT ![m] = WithGrowing(f, SubSeq(g, 1, n - 1))]
  BY <1>2, <1>3, <1>4, <1>5, <1>6 DEF Popped
<1>8. SubSeq(g, 1, n - 1) \in Seq(Growing) /\ Len(SubSeq(g, 1, n - 1)) = n - 1
  BY <1>4, <1>6
<1>9. [j \in 1..m |-> Seen(Popped[j])] =
        [Invocations EXCEPT ![m] = Seen(WithGrowing(f, SubSeq(g, 1, n - 1)))]
  <2> DEFINE h == WithGrowing(f, SubSeq(g, 1, n - 1))
  <2>1. Popped = [frames EXCEPT ![m] = h]
    BY <1>7
  <2> HIDE DEF h
  <2>2. [j \in 1..m |-> Seen([frames EXCEPT ![m] = h][j])] = [Invocations EXCEPT ![m] = Seen(h)]
    BY <1>1, <1>2, InvocationSet
  <2>3. [j \in 1..m |-> Seen(Popped[j])] = [Invocations EXCEPT ![m] = Seen(h)]
    BY <2>1, <2>2
  <2> QED
    BY <2>3 DEF h
<1>10. Seen(WithGrowing(f, SubSeq(g, 1, n - 1))) =
         M!WithGrowing(Seen(f), [k \in 1..(n - 1) |-> SubSeq(g, 1, n - 1)[k].stale])
  BY <1>8, SeenWithGrowing
<1>11. [k \in 1..(n - 1) |-> SubSeq(g, 1, n - 1)[k].stale] = SubSeq(Seen(f).growing, 1, n - 1)
  <2> DEFINE s == [k \in 1..n |-> g[k].stale]
  <2>1. Seen(f).growing = s
    BY <1>4, <1>6 DEF Seen
  <2>2. \A k \in 1..(n - 1) : SubSeq(g, 1, n - 1)[k] = g[k]
    BY <1>4, <1>6
  <2>3. \A k \in 1..(n - 1) : s[k] = g[k].stale
    BY <1>6
  <2>4. s = [k \in 1..n |-> s[k]]
    OBVIOUS
  <2> HIDE DEF s
  <2>5. SubSeq(s, 1, n - 1) = [k \in 1..(n - 1) |-> s[k]]
    BY <1>6, <2>4
  <2>6. [k \in 1..(n - 1) |-> SubSeq(g, 1, n - 1)[k].stale] = [k \in 1..(n - 1) |-> s[k]]
    BY <2>2, <2>3, Zenon
  <2> QED
    BY <2>1, <2>5, <2>6
<1>12. Invocations[m] = Seen(f) /\ Len(Invocations) = m
  BY <1>1, <1>2, <1>3, InvocationFacts
<1>13. M!Current = Seen(f) /\ Len(M!Current.growing) = n
  BY <1>4, <1>6, <1>12, SeenFacts DEF M!Current
<1>14. MPopped = [Invocations EXCEPT ![m] = M!WithGrowing(Seen(f), SubSeq(Seen(f).growing, 1, n - 1))]
  BY <1>12, <1>13 DEF MPopped
<1>15. Len(MPopped) = m
  <2>1. Invocations = [j \in 1..m |-> Invocations[j]]
    BY <1>2 DEF Invocations
  <2>2. MPopped = [j \in 1..m |-> MPopped[j]]
    BY <1>14, <2>1
  <2> QED
    BY <1>2, <2>2
<1> QED
  BY <1>2, <1>9, <1>10, <1>11, <1>14, <1>15

LEMMA GrownMaps ==
  ASSUME TypeOK, Running, Current.growing # <<>>, Popped \in Seq(Frames),
         Len(Popped) = Len(frames),
         frames' = [j \in 1..Len(frames) |-> Stale(Popped[j])]
  PROVE  Invocations' = [j \in 1..Len(Invocations) |-> M!Grown(MPopped[j])]
<1>1. PICK m \in Nat : m = Len(frames)
  BY DEF TypeOK
<1>2. Len(frames') = m
  BY <1>1
<1>3. Invocations' = [j \in 1..m |-> Seen(frames'[j])]
  BY <1>2 DEF Invocations
<1>4. \A j \in 1..m : Seen(frames'[j]) = M!Grown(MPopped[j])
  <2> TAKE j \in 1..m
  <2>1. Popped[j] \in Frames
    BY <1>1
  <2>2. frames'[j] = Stale(Popped[j])
    BY <1>1
  <2>3. Seen(frames'[j]) = M!Grown(Seen(Popped[j]))
    BY <2>1, <2>2, SeenStale
  <2>4. MPopped[j] = Seen(Popped[j])
    <3>1. MPopped = [i \in 1..m |-> Seen(Popped[i])]
      BY <1>1, PoppedMaps
    <3> QED
      BY <3>1
  <2> QED
    BY <2>3, <2>4
<1>5. Len(Invocations) = m
  BY <1>1, InvocationFacts DEF TypeOK
<1> QED
  BY <1>3, <1>4, <1>5, Zenon

(***************************************************************************)
(* Two allocated blocks have not the same address.                         *)
(***************************************************************************)
LEMMA OneBlock ==
  ASSUME TypeOK, NEW b \in live, NEW c \in live, b.at = c.at
  PROVE  b = c
<1>1. b.at \in Nat /\ b.len \in Nat /\ c.len \in Nat
  <2>1. b \in Blocks /\ c \in Blocks
    BY DEF TypeOK
  <2>2. b.at \in Heap /\ b.len \in Nat /\ c.len \in Nat
    BY <2>1 DEF Blocks
  <2> QED
    BY <2>2, AddressTyped DEF TypeOK
<1>2. b.at \in Space(b.at, b.len) /\ b.at \in Space(c.at, c.len)
  BY <1>1, SpaceHolds
<1> QED
  BY <1>2 DEF TypeOK

(***************************************************************************)
(* realloc of the current base keeps what fits.                            *)
(***************************************************************************)
LEMMA ReallocKeeps ==
  ASSUME TypeOK, BaseLive, NEW n \in Nat, NEW q \in Heap, Realloc(base, n, q),
         NEW i \in 1..n, i <= Len(Contents)
  PROVE  heap'[q + i - 1] = Contents[i]
<1>1. base # 0
  <2> SUFFICES ASSUME base = 0
               PROVE  FALSE
    OBVIOUS
  <2> QED
    BY NoContents
<1>2. /\ base \in Nat /\ size \in Nat
      /\ Contents = [k \in 1..size |-> heap[base + k - 1]]
      /\ Len(Contents) = size
      /\ [at |-> base, len |-> size] \in live
  BY <1>1, BlockContents
<1>3. q # 0 /\ q \in Nat
  BY HeapTyped, AddressTyped
<1>4. PICK b \in live :
        /\ b.at = base
        /\ q \in Places(n, live) \/ (q = base /\ q \in Places(n, live \ {b}))
        /\ Moved(b, q, n)
  BY <1>1, <1>3 DEF Realloc
<1>5. b.len = size
  <2>1. PICK c \in live : c.at = base /\ c.len = size
    BY <1>2
  <2>2. b.at = c.at
    BY <1>4, <2>1, Zenon
  <2>3. b = c
    BY <2>2, OneBlock
  <2> QED
    BY <2>1, <2>3
<1>6. q + i - 1 \in Heap
  <2>1. Space(q, n) \subseteq Heap
    BY <1>4 DEF Places
  <2>2. Cells(q, n) \subseteq Heap
    BY <1>3, <2>1, SpaceHolds
  <2> QED
    BY <1>3, <2>2 DEF Cells
<1>7. q + i - 1 \in Cells(q, Kept(b, n))
  BY <1>2, <1>3, <1>5 DEF Cells, Kept
<1>8. PICK a \in Heap : a = q + i - 1
  BY <1>6
<1>9. heap'[a] = heap[b.at + (a - q)]
  BY <1>4, <1>7, <1>8 DEF Moved
<1>10. b.at + (a - q) = base + i - 1
  <2>1. b.at = base
    BY <1>4, Zenon
  <2>2. base + (a - q) = base + i - 1
    BY <1>2, <1>3, <1>8
  <2> QED
    BY <2>1, <2>2
<1>11. Contents[i] = heap[base + i - 1]
  BY <1>2
<1> QED
  BY <1>8, <1>9, <1>10, <1>11

LEMMA GrowMaps ==
  ASSUME MemoryInv, MemoryInv', NEW n \in Requests, Grow(n)
  PROVE  M!Grow(n)
<1> DEFINE nested == M!Current.growing[Len(M!Current.growing) - 1 + 1]
           last   == Current.growing[Len(Current.growing)]
<1>0. TypeOK /\ BaseLive /\ CachedCurrent /\ Running /\ Current.growing # <<>> /\ n \in Nat
  BY SizesTyped DEF MemoryInv, Grow
<1>1. M!Running /\ M!Current = Seen(Current) /\ Current \in Frames
  BY <1>0, RunningMaps
<1>2. PICK m \in Nat : m = Len(Current.growing) /\ m > 0 /\ m = Len(M!Current.growing)
  <2>1. Current.growing \in Seq(Growing)
    BY <1>1 DEF Frames
  <2>2. Len(Current.growing) > 0
    BY <1>0, <2>1
  <2> QED
    BY <1>1, <2>2, SeenFacts
<1>3. M!Current.growing # <<>>
  BY <1>2
<1>4. nested = last.stale
  BY <1>1, <1>2, SeenFacts
<1>5. ~nested => Argument = base
  <2>1. Len(frames) \in 1..Len(frames) /\ Current = frames[Len(frames)]
    BY <1>0, LastFrame DEF TypeOK, Running, Current
  <2>2. m \in 1..Len(Current.growing)
    BY <1>2
  <2>3. ~last.stale => last.ptr = base
    BY <1>0, <1>2, <2>1, <2>2 DEF CachedCurrent
  <2> QED
    BY <1>4, <2>3 DEF Argument
<1>6. CASE Wild
  <2>1. Argument # 0 /\ \A b \in live : b.at # Argument
    <3>1. status' # status
      BY <1>0, <1>6 DEF Wild, Running
    <3>2. m - 1 + 1 = m
      OBVIOUS
    <3> QED
      BY <1>2, <3>1, <3>2 DEF Grow, Argument
  <2>2. Argument # base
    <3> SUFFICES ASSUME Argument = base
                 PROVE  FALSE
      OBVIOUS
    <3> DEFINE b == [at |-> base, len |-> size]
    <3>1. b \in live /\ b.at = base
      BY <1>0, <2>1 DEF BaseLive
    <3> QED
      BY <2>1, <3>1
  <2>3. nested
    BY <1>5, <2>2
  <2> QED
    BY <1>1, <1>3, <1>6, <2>3, WildMaps DEF M!Grow
<1>7. CASE ~Wild
  <2>1. PICK q \in Heap \cup {0} : Grew(n, q)
    BY <1>0, <1>7, GrowEnds
  <2>2. Popped \in Seq(Frames) /\ Len(Popped) = Len(frames)
    BY <1>0, <1>7, GrowEnds
  <2>3. Invocations' = [j \in 1..Len(Invocations) |-> M!Grown(MPopped[j])]
    BY <1>0, <2>1, <2>2, GrownMaps DEF Grew
  <2>4. base' = q /\ size' = n /\ Realloc(Argument, n, q)
        /\ did' = Did("grow", 0, <<n>>) /\ UNCHANGED status
    BY <2>1 DEF Grew
  <2>5. CASE q = 0
    <3>1. Contents' = <<>>
      BY <2>4, <2>5 DEF Contents
    <3> QED
      BY <1>1, <1>3, <2>3, <2>4, <3>1 DEF M!Grow, MPopped, Did, M!Did
  <2>6. CASE q # 0
    <3>1. q \in Heap
      BY <2>6
    <3>2. Contents' = [i \in 1..n |-> heap'[q + i - 1]]
      BY <2>4, <2>6 DEF Contents
    <3>3. Contents' \in [1..n -> Bytes]
      <4>1. [at |-> q, len |-> n] \in live'
        BY <2>4, <2>6 DEF MemoryInv, BaseLive
      <4>2. Cells(q, n) \subseteq Heap
        <5> DEFINE b == [at |-> q, len |-> n]
        <5>1. b \in live' /\ b.at = q /\ b.len = n
          BY <4>1
        <5> HIDE DEF b
        <5>2. Space(q, n) \subseteq Heap
          BY <5>1 DEF MemoryInv, TypeOK
        <5>3. q \in Nat /\ n \in Nat
          BY AddressTyped, SizesTyped
        <5> QED
          BY <5>2, <5>3, SpaceHolds
      <4>3. q \in Nat
        BY AddressTyped
      <4>4. \A i \in 1..n : q + i - 1 \in Heap
        BY <1>0, <4>2, <4>3 DEF Cells
      <4>5. heap' \in [Heap -> Bytes]
        BY DEF MemoryInv, TypeOK
      <4> QED
        BY <3>2, <4>4, <4>5
    <3>4. ~nested => \A i \in 1..n : i <= Len(Contents) => Contents'[i] = Contents[i]
      <4> SUFFICES ASSUME ~nested, NEW i \in 1..n, i <= Len(Contents)
                   PROVE  Contents'[i] = Contents[i]
        OBVIOUS
      <4>1. Realloc(base, n, q)
        BY <1>5, <2>4
      <4>2. heap'[q + i - 1] = Contents[i]
        BY <1>0, <3>1, <4>1, ReallocKeeps
      <4> QED
        BY <3>2, <4>2
    <3> QED
      BY <1>1, <1>3, <2>3, <2>4, <3>3, <3>4 DEF M!Grow, MPopped, Did, M!Did
  <2> QED
    BY <2>5, <2>6
<1> QED
  BY <1>6, <1>7

-----------------------------------------------------------------------------
LEMMA StepMaps ==
  ASSUME MemoryInv, MemoryInv', [Next]_vars
  PROVE  [M!Next]_(M!mvars)
<1>0. TypeOK /\ TypeOK'
  BY DEF MemoryInv
<1>1. CASE SetMemoryBase \/ Call \/ Return \/ MemorySize \/ GrowStart
  BY <1>0, <1>1, StartMaps, CallMaps, ReturnMaps, SizeMaps, GrowStartMaps DEF M!Next
<1>2. ASSUME NEW a \in Addresses, NEW o \in Offsets, NEW w \in Widths, Load(a, o, w)
      PROVE  M!Next
  <2> DEFINE x == <<a + o, w>>
  <2>1. x \in AccessPairs /\ x[1] = a + o /\ x[2] = w
    BY DEF AccessPairs
  <2>2. M!Load(x[1], x[2])
    BY <1>2, <2>1, LoadMaps
  <2> HIDE DEF x
  <2> QED
    BY <2>1, <2>2 DEF M!Next
<1>3. ASSUME NEW a \in Addresses, NEW o \in Offsets, NEW w \in Widths,
             NEW data \in [1..w -> Bytes], Store(a, o, data)
      PROVE  M!Next
  <2> DEFINE x == <<a + o, w>>
  <2>1. x \in AccessPairs /\ x[1] = a + o /\ x[2] = w
    BY DEF AccessPairs
  <2>2. M!Store(x[1], data)
    BY <1>0, <1>3, <2>1, StoreMaps
  <2> HIDE DEF x
  <2>3. data \in [1..x[2] -> Bytes]
    BY <2>1
  <2> QED
    BY <2>1, <2>2, <2>3 DEF M!Next
<1>4. ASSUME NEW n \in Requests, Grow(n)
      PROVE  M!Next
  BY <1>4, GrowMaps DEF M!Next
<1>5. CASE UNCHANGED vars
  <2>1. Contents' = Contents /\ Invocations' = Invocations
    BY <1>5 DEF vars, Contents, Invocations
  <2> QED
    BY <1>5, <2>1 DEF vars, M!mvars
<1> QED
  BY <1>1, <1>2, <1>3, <1>4, <1>5 DEF Next, Terminated

(***************************************************************************)
(* The generated program keeps the memory that WasmMemory describes: what  *)
(* is loaded is what was stored last, over calls, returns and moves of the *)
(* block, in whatever order grows end that contain each other, unless the  *)
(* invocation itself was active while something grew.                      *)
(***************************************************************************)
THEOREM MemoryImplements == Spec => Contract
<1>1. Init => M!Init
  BY InitMaps
<1>2. MemoryInv /\ MemoryInv' /\ [Next]_vars => [M!Next]_(M!mvars)
  BY StepMaps
<1>3. Spec => M!Spec
  BY <1>1, <1>2, MemoryInvHolds, PTL DEF Spec, M!Spec
<1> QED
  BY <1>3 DEF Contract
=============================================================================
