SPECIFICATION FairSpec
CONSTANTS
  a = a
  b = b
  f = f
  g = g
  i = i
  s = s
  x = x
  an0 = an0
  an1 = an1
  an2 = an2
  an3 = an3
  NoName = NoName
  Scripts <- MCScripts
  Anonymous <- MCAnonymous
  Ids <- MCIds
  Labels <- MCLabels
  Exported <- MCExported
  Hosts <- MCHosts
INVARIANTS
  TypeOK
  LinesInOrder
  FileHoldsText
  LinesAreEnds
  LinkAssumed
  CodegenAssumed
  LocalsNumbered
  WellFormedRead
PROPERTIES
  Terminates
