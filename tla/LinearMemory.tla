---------------------------- MODULE LinearMemory ----------------------------
(***************************************************************************)
(* The linear memory of one module as the generated program keeps it: two  *)
(* globals, base and size, a block of the C heap, and in each invocation   *)
(* of a function the base as it was when the function was entered.         *)
(*                                                                         *)
(* The program is any sequence of calls, loads, stores, sizes and grows.   *)
(* The operand of a grow is evaluated between the load of the base and the *)
(* realloc, and may contain any of these.                                  *)
(***************************************************************************)
EXTENDS Integers, Sequences

CONSTANTS
  Bytes,      \* values of a byte
  Memory,     \* memory_, the initial size
  Segments,   \* segments_, in the order of the text: [start, data]
  Heap,       \* addresses of the C heap
  Addresses,  \* addresses the program computes
  Offsets,    \* offset_ of its loads and stores
  Widths,     \* numbers of bytes it loads and stores
  Requests,   \* operands of its grows
  MaxCalls,   \* bound on the depth of calls
  MaxGrowing  \* bound on grows within the operands of grows, in one function

ASSUME HeapTyped    == Heap \subseteq Nat \ {0}
ASSUME SizesTyped   == Memory \in Nat /\ Requests \subseteq Nat
ASSUME AccessTyped  == Addresses \subseteq Nat /\ Offsets \subseteq Nat /\ Widths \subseteq Nat \ {0}

SegmentBytes(s) == (Segments[s].start + 1)..(Segments[s].start + Len(Segments[s].data))

(***************************************************************************)
(* WASM wants the segments disjoint, so their order does not matter.       *)
(***************************************************************************)
ASSUME SegmentsTyped ==
  /\ Segments \in Seq([start : Nat, data : Seq(Bytes)])
  /\ \A s, t \in 1..Len(Segments) : s # t => SegmentBytes(s) \cap SegmentBytes(t) = {}

VARIABLES
  heap,    \* the contents of the C heap
  live,    \* its allocated blocks
  base,    \* <module>_memory_base; 0 is null
  size,    \* <module>_memory_size
  frames,  \* the active invocations
  did,     \* (history) what the program asked of the memory in the last step
  status

vars == <<heap, live, base, size, frames, did, status>>

(***************************************************************************)
(* An invocation: local_base, the base loaded by each grow it has begun,   *)
(* and (history) whether some memory has grown since each was loaded.      *)
(***************************************************************************)
Growing == [ptr : Heap \cup {0}, stale : BOOLEAN]
Frames  == [base : Heap \cup {0}, grown : BOOLEAN, growing : Seq(Growing)]
Blocks  == [at : Heap, len : Nat]

(***************************************************************************)
(* A request of the program: the operation, the address with its offset,   *)
(* and the bytes or the size that are its answer, or that it stores.       *)
(***************************************************************************)
Did(op, a, data) == [op |-> op, at |-> a, data |-> data]
Nothing == Did("none", 0, <<>>)

Cells(p, n) == p..(p + n - 1)

(***************************************************************************)
(* What a block of n bytes at p takes of the heap.  One of no bytes has an *)
(* address of its own as well.                                             *)
(***************************************************************************)
Room(n) == IF n = 0 THEN 1 ELSE n

Space(p, n) == Cells(p, Room(n))

Owned(p, n) == \E b \in live : Cells(p, n) \subseteq Cells(b.at, b.len)

Init ==
  /\ heap \in [Heap -> Bytes]
  /\ live = {}
  /\ base = 0 /\ size = 0
  /\ frames = <<>>
  /\ did = Nothing
  /\ status = "start"

(***************************************************************************)
(* A use of memory that is not allocated: the program may do anything, and *)
(* nothing is said of its state.                                           *)
(***************************************************************************)
Wild ==
  /\ status' = "wild"
  /\ live' = {} /\ base' = 0 /\ size' = 0
  /\ frames' = <<>> /\ did' = Nothing
  /\ heap' = heap

-----------------------------------------------------------------------------
\* Mutated UpdateMemoryInformation: only the base is stored.
UpdateBaseOnly(p, n) == base' = p /\ size' = size

UpdateMemoryInformation(p, n) == base' = p /\ size' = n

(***************************************************************************)
(* Where malloc and realloc may put a block of n bytes, beside the blocks  *)
(* of a set.                                                               *)
(***************************************************************************)
Places(n, blocks) ==
  {p \in Heap : /\ Space(p, n) \subseteq Heap
                /\ \A b \in blocks : Space(p, n) \cap Space(b.at, b.len) = {}}

HandleSegments(p) ==
  heap' = [a \in Heap |->
    IF \E s \in 1..Len(Segments) : a + 1 - p \in SegmentBytes(s)
    THEN LET s == CHOOSE s \in 1..Len(Segments) : a + 1 - p \in SegmentBytes(s)
         IN Segments[s].data[a + 1 - p - Segments[s].start]
    ELSE heap[a]]

(***************************************************************************)
(* set_<module>_memory_base, called by wasm_llvm_init: malloc, the globals *)
(* and the segments.  That malloc may fail is not checked.                 *)
(***************************************************************************)
SetMemoryBase ==
  /\ status = "start"
  /\ \/ /\ \A s \in 1..Len(Segments) : SegmentBytes(s) \subseteq 1..Memory
        /\ \E p \in Places(Memory, {}) :
             /\ live' = {[at |-> p, len |-> Memory]}
             /\ UpdateMemoryInformation(p, Memory)
             /\ HandleSegments(p)
        /\ status' = "running"
        /\ UNCHANGED <<frames, did>>
     \/ /\ \A s \in 1..Len(Segments) : SegmentBytes(s) = {}
        /\ UpdateMemoryInformation(0, Memory)
        /\ status' = "running"
        /\ UNCHANGED <<heap, live, frames, did>>
     \/ /\ \E s \in 1..Len(Segments) : SegmentBytes(s) # {}
        /\ Wild

-----------------------------------------------------------------------------
Running == status = "running" /\ frames # <<>>

Current == frames[Len(frames)]

\* Mutated GetBaseMemory: the base of the caller is handed on.
GetBaseOfCaller(p) == IF frames = <<>> THEN p ELSE Current.base

(***************************************************************************)
(* local_base_ of a function that is entered.                              *)
(***************************************************************************)
GetBaseMemory(p) == p

Call ==
  /\ status = "running"
  /\ Len(frames) < MaxCalls
  /\ frames' = Append(frames, [base |-> GetBaseMemory(base), grown |-> FALSE, growing |-> <<>>])
  /\ did' = Nothing
  /\ UNCHANGED <<heap, live, base, size, status>>

Return ==
  /\ Running
  /\ Current.growing = <<>>
  /\ frames' = SubSeq(frames, 1, Len(frames) - 1)
  /\ did' = Nothing
  /\ UNCHANGED <<heap, live, base, size, status>>

\* Mutated GetPointer: the offset is left out.
GetPointerWithoutOffset(a, offset) == Current.base + a

(***************************************************************************)
(* The address is an i32, extended without sign to 64 bits, in which       *)
(* nothing overflows.                                                      *)
(***************************************************************************)
GetPointer(a, offset) == Current.base + a + offset

Load(a, offset, w) ==
  /\ Running
  /\ LET p == GetPointer(a, offset)
     IN IF Owned(p, w)
        THEN /\ did' = Did("load", a + offset, [k \in 1..w |-> heap[p + k - 1]])
             /\ UNCHANGED <<heap, live, base, size, frames, status>>
        ELSE Wild

Store(a, offset, data) ==
  /\ Running
  /\ LET p == GetPointer(a, offset)
     IN IF Owned(p, Len(data))
        THEN /\ heap' = [x \in Heap |-> IF x \in Cells(p, Len(data)) THEN data[x - p + 1] ELSE heap[x]]
             /\ did' = Did("store", a + offset, data)
             /\ UNCHANGED <<live, base, size, frames, status>>
        ELSE Wild

MemorySize ==
  /\ Running
  /\ did' = Did("size", 0, <<size>>)
  /\ UNCHANGED <<heap, live, base, size, frames, status>>

-----------------------------------------------------------------------------
WithGrowing(f, growing) == [base |-> f.base, grown |-> f.grown, growing |-> growing]

(***************************************************************************)
(* MemoryGrow::Codegen: the base is loaded, the operand is evaluated, then *)
(* realloc is called and both globals are stored, also when it has failed. *)
(***************************************************************************)
GrowStart ==
  /\ Running
  /\ Len(Current.growing) < MaxGrowing
  /\ frames' = [frames EXCEPT ![Len(frames)] =
                   WithGrowing(@, Append(@.growing, [ptr |-> base, stale |-> FALSE]))]
  /\ did' = Nothing
  /\ UNCHANGED <<heap, live, base, size, status>>

Stale(f) ==
  [base    |-> f.base,
   grown   |-> TRUE,
   growing |-> [k \in 1..Len(f.growing) |-> [ptr |-> f.growing[k].ptr, stale |-> TRUE]]]

Kept(b, n) == IF b.len <= n THEN b.len ELSE n

\* Mutated Moved: the old block stays allocated.
MovedWithoutFree(b, q, n) ==
  /\ heap' = [a \in Heap |-> IF a \in Cells(q, Kept(b, n)) THEN heap[b.at + (a - q)] ELSE heap[a]]
  /\ live' = live \cup {[at |-> q, len |-> n]}

(***************************************************************************)
(* realloc has given block b the place q and n bytes.                      *)
(***************************************************************************)
Moved(b, q, n) ==
  /\ heap' = [a \in Heap |-> IF a \in Cells(q, Kept(b, n)) THEN heap[b.at + (a - q)] ELSE heap[a]]
  /\ live' = (live \ {b}) \cup {[at |-> q, len |-> n]}

(***************************************************************************)
(* realloc of p, which is null or a block, returns q: null when it fails   *)
(* and when a block gets the size 0, which frees it.  The block grows in   *)
(* place or is copied to another one.  The program declares realloc with a *)
(* size of 32 bits, which the C library reads as one of 64: the number is  *)
(* taken to be the same, as it is where the upper half of a register that  *)
(* gets an i32 is cleared.                                                 *)
(***************************************************************************)
Realloc(p, n, q) ==
  \/ /\ q = 0
     /\ live' = IF n = 0 THEN {b \in live : b.at # p} ELSE live
     /\ heap' = heap
  \/ /\ p = 0 /\ q \in Places(n, live)
     /\ live' = live \cup {[at |-> q, len |-> n]}
     /\ heap' = heap
  \/ /\ n > 0
     /\ \E b \in live :
          /\ b.at = p
          /\ q \in Places(n, live) \/ (q = p /\ q \in Places(n, live \ {b}))
          /\ Moved(b, q, n)

Grow(n) ==
  /\ Running
  /\ Current.growing # <<>>
  /\ LET left   == Len(Current.growing) - 1
         p      == Current.growing[left + 1].ptr
         popped == [frames EXCEPT ![Len(frames)] = WithGrowing(@, SubSeq(@.growing, 1, left))]
     IN IF p # 0 /\ \A b \in live : b.at # p
        THEN Wild
        ELSE \E q \in Heap \cup {0} :
               /\ Realloc(p, n, q)
               /\ UpdateMemoryInformation(q, n)
               /\ frames' = [j \in 1..Len(frames) |-> Stale(popped[j])]
               /\ did' = Did("grow", 0, <<n>>)
               /\ UNCHANGED status

Terminated == status = "wild" /\ UNCHANGED vars

Next ==
  \/ SetMemoryBase \/ Call \/ Return \/ MemorySize \/ GrowStart
  \/ \E a \in Addresses, o \in Offsets, w \in Widths : Load(a, o, w)
  \/ \E a \in Addresses, o \in Offsets, w \in Widths :
       \E data \in [1..w -> Bytes] : Store(a, o, data)
  \/ \E n \in Requests : Grow(n)
  \/ Terminated

Spec == Init /\ [][Next]_vars

-----------------------------------------------------------------------------
(***************************************************************************)
(* The globals are null or describe one allocated block; blocks lie in the *)
(* heap and do not overlap; the types of the rest.                         *)
(***************************************************************************)
TypeOK ==
  /\ heap \in [Heap -> Bytes]
  /\ live \subseteq Blocks
  /\ base \in Heap \cup {0} /\ size \in Nat
  /\ frames \in Seq(Frames)
  /\ status \in {"start", "running", "wild"}
  /\ \A b \in live : Space(b.at, b.len) \subseteq Heap
  /\ \A b, c \in live : b # c => Space(b.at, b.len) \cap Space(c.at, c.len) = {}

(***************************************************************************)
(* Both globals speak of the same allocation after every grow, in whatever *)
(* order grows end that were begun within each other: a base that is not   *)
(* null has size bytes behind it.                                          *)
(***************************************************************************)
BaseLive == base # 0 => [at |-> base, len |-> size] \in live

(***************************************************************************)
(* The base an invocation or an unfinished grow holds is the current one   *)
(* as long as nothing has grown since, so that calls back and forth do not *)
(* make local_base_ stale.                                                 *)
(***************************************************************************)
CachedCurrent ==
  \A j \in 1..Len(frames) :
    /\ ~frames[j].grown => frames[j].base = base
    /\ \A k \in 1..Len(frames[j].growing) :
         ~frames[j].growing[k].stale => frames[j].growing[k].ptr = base

AccessPairs == {<<a + o, w>> : a \in Addresses, o \in Offsets, w \in Widths}

(***************************************************************************)
(* The addresses that are in use are of the block that is allocated: those *)
(* below the size, in a function that was entered when there was a memory, *)
(* and what a grow will hand to realloc when its operand has been          *)
(* evaluated. (The code does not keep this: both bases are loaded once,    *)
(* and the memory may grow after that, in the function or the operand or   *)
(* in a function that one of them calls.)                                  *)
(***************************************************************************)
AccessesAllocated ==
  Running /\ base # 0 /\ Current.base # 0 =>
    \A x \in AccessPairs : x[1] + x[2] <= size => Owned(Current.base + x[1], x[2])

GrowsAllocated ==
  \A j \in 1..Len(frames) : \A k \in 1..Len(frames[j].growing) :
    LET p == frames[j].growing[k].ptr IN p # 0 => \E b \in live : b.at = p

BasesAllocated == AccessesAllocated /\ GrowsAllocated

(***************************************************************************)
(* What a program in WASM sees of the memory and of its invocations.       *)
(***************************************************************************)
Contents == IF base = 0 THEN <<>> ELSE [i \in 1..size |-> heap[base + i - 1]]

Seen(f) ==
  [grown   |-> f.grown,
   growing |-> [k \in 1..Len(f.growing) |-> f.growing[k].stale]]

Invocations == [j \in 1..Len(frames) |-> Seen(frames[j])]

M == INSTANCE WasmMemory WITH
       bytes <- Contents, calls <- Invocations, Accesses <- AccessPairs

(***************************************************************************)
(* Loads, stores, calls and grows do what WasmMemory promises: what is     *)
(* read is what was written last, by whichever function, also after the    *)
(* block has moved, unless the invocation itself was active while          *)
(* something grew.                                                         *)
(***************************************************************************)
Contract == M!Spec
=============================================================================
