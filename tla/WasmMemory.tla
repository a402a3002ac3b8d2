----------------------------- MODULE WasmMemory -----------------------------
(***************************************************************************)
(* What the generated program promises of the memory of a module: a        *)
(* sequence of bytes that is read as it was written, by all functions, as  *)
(* long as an invocation does not go on using it after it has grown.       *)
(* Promised less than WASM does: bytes never written are arbitrary, growth *)
(* may lose the memory, and what is used then or out of bounds is wild.    *)
(***************************************************************************)
EXTENDS Integers, Sequences

CONSTANTS
  Bytes,      \* values of a byte
  Memory,     \* the initial size
  Segments,   \* the data segments, [start, data]
  Accesses,   \* pairs of an address and a number of bytes
  Requests    \* sizes a program asks for

VARIABLES
  bytes,   \* the memory; <<>> when there is none
  size,    \* the size the program is told
  calls,   \* the invocations: has something grown, also since the start of its own grows
  did,     \* what the last step asked of the memory, with the answer
  status

mvars == <<bytes, size, calls, did, status>>

Did(op, a, data) == [op |-> op, at |-> a, data |-> data]
Nothing == Did("none", 0, <<>>)

Init ==
  /\ bytes = <<>> /\ size = 0
  /\ calls = <<>>
  /\ did = Nothing
  /\ status = "start"

Wild ==
  /\ status' = "wild"
  /\ bytes' = <<>> /\ size' = 0 /\ calls' = <<>> /\ did' = Nothing

HoldsSegments(b) ==
  \A s \in 1..Len(Segments) : \A k \in 1..Len(Segments[s].data) :
    b[Segments[s].start + k] = Segments[s].data[k]

Start ==
  /\ status = "start"
  /\ \/ Wild
     \/ /\ status' = "running"
        /\ size' = Memory
        /\ \/ bytes' \in [1..Memory -> Bytes] /\ HoldsSegments(bytes')
           \/ bytes' = <<>>
        /\ UNCHANGED <<calls, did>>

Running == status = "running" /\ calls # <<>>

Current == calls[Len(calls)]

Call ==
  /\ status = "running"
  /\ calls' = Append(calls, [grown |-> FALSE, growing |-> <<>>])
  /\ did' = Nothing
  /\ UNCHANGED <<bytes, size, status>>

Return ==
  /\ Running
  /\ calls' = SubSeq(calls, 1, Len(calls) - 1)
  /\ did' = Nothing
  /\ UNCHANGED <<bytes, size, status>>

(***************************************************************************)
(* Within bounds, and not after something has grown.                       *)
(***************************************************************************)
Sound(a, w) == a + w <= Len(bytes) /\ ~Current.grown

Load(a, w) ==
  /\ Running
  /\ \/ ~Sound(a, w) /\ Wild
     \/ /\ \E data \in [1..w -> Bytes] :
             /\ Sound(a, w) => \A k \in 1..w : data[k] = bytes[a + k]
             /\ did' = Did("load", a, data)
        /\ UNCHANGED <<bytes, size, calls, status>>

Store(a, data) ==
  /\ Running
  /\ \/ ~Sound(a, Len(data)) /\ Wild
     \/ /\ bytes' \in [1..Len(bytes) -> Bytes]
        /\ Sound(a, Len(data)) =>
             \A i \in 1..Len(bytes) :
               bytes'[i] = IF i \in (a + 1)..(a + Len(data)) THEN data[i - a] ELSE bytes[i]
        /\ did' = Did("store", a, data)
        /\ UNCHANGED <<size, calls, status>>

Size ==
  /\ Running
  /\ did' = Did("size", 0, <<size>>)
  /\ UNCHANGED <<bytes, size, calls, status>>

WithGrowing(c, growing) == [grown |-> c.grown, growing |-> growing]

(***************************************************************************)
(* A grow starts, evaluates its operand, and ends.                         *)
(***************************************************************************)
GrowStart ==
  /\ Running
  /\ calls' = [calls EXCEPT ![Len(calls)] = WithGrowing(@, Append(@.growing, FALSE))]
  /\ did' = Nothing
  /\ UNCHANGED <<bytes, size, status>>

Grown(c) == [grown |-> TRUE, growing |-> [k \in 1..Len(c.growing) |-> TRUE]]

Grow(n) ==
  /\ Running
  /\ Current.growing # <<>>
  /\ LET left    == Len(Current.growing) - 1
         nested  == Current.growing[left + 1]
         popped  == [calls EXCEPT ![Len(calls)] = WithGrowing(@, SubSeq(@.growing, 1, left))]
     IN \/ nested /\ Wild
        \/ /\ size' = n
           /\ calls' = [j \in 1..Len(calls) |-> Grown(popped[j])]
           /\ \/ bytes' = <<>>
              \/ /\ bytes' \in [1..n -> Bytes]
                 /\ ~nested => \A i \in 1..n : i <= Len(bytes) => bytes'[i] = bytes[i]
           /\ did' = Did("grow", 0, <<n>>)
           /\ UNCHANGED status

Next ==
  \/ Start \/ Call \/ Return \/ Size \/ GrowStart
  \/ \E x \in Accesses : Load(x[1], x[2])
  \/ \E x \in Accesses : \E data \in [1..x[2] -> Bytes] : Store(x[1], data)
  \/ \E n \in Requests : Grow(n)

Spec == Init /\ [][Next]_mvars
=============================================================================
