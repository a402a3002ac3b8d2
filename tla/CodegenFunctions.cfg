SPECIFICATION MCFairSpec
CONSTANTS
  a = a
  b = b
  NoName = NoName
  Names <- MCNames
  Families <- CodegenFamilies
INVARIANTS
  TypeOK
  LabelDiscipline
  BreakTargetsScope
  SupportedAccepted
  RepeatedRefused
  ValuesArrive
  MeaningKept
PROPERTIES
  Terminates
