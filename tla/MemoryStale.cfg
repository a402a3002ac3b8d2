SPECIFICATION Spec
CONSTANTS
  Bytes = {0, 1}
  Memory = 1
  Segments <- MCSegments
  Heap <- MCHeap
  Addresses = {0}
  Offsets = {0, 1}
  Widths = {1, 2}
  Requests = {0, 2}
  MaxCalls = 2
  MaxGrowing = 1
INVARIANTS
  BasesAllocated
