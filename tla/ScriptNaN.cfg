SPECIFICATION Spec
CONSTANTS
  Lines = {1}
  Numbers = {"one"}
  Scripts <- MCScripts
  MaxLength = 1
INVARIANTS
  SuccessMeansHeld
