SPECIFICATION MCSpec
CONSTANTS
  a = a
  b = b
  NoName = NoName
  Names <- MCNames
  Families <- NamedFamilies
INVARIANTS
  BreaksFollowScopes
