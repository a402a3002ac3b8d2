--------------------------- MODULE MCLinearMemory ---------------------------
(***************************************************************************)
(* Model checking of LinearMemory: a heap of three bytes.                  *)
(***************************************************************************)
EXTENDS LinearMemory

MCHeap     == 1..3
MCSegments == <<[start |-> 0, data |-> <<1>>]>>
=============================================================================
