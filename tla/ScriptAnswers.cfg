SPECIFICATION Spec
CONSTANTS
  Lines = {1, 2}
  Numbers = {"one", "two"}
  Scripts <- MCScripts
  MaxLength = 3
INVARIANTS
  TypeOK
  FirstFailureReported
