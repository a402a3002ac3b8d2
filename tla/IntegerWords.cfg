SPECIFICATION NumberSpec
CONSTANTS
  INT_32 = 2
  INT_64 = 4
  FLOAT_32 = 32
  FLOAT_64 = 64
  Precision <- MCPrecision
  Largest = 32
  Sizes = {0, 1}
  MaxOperands = 3
INVARIANTS
  NumbersTyped
  ValuesAgree
  UndefinedTraps
