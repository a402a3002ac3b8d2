SPECIFICATION MCSpec
CONSTANTS
  f = f
  g = g
  h = h
  f1 = f1
  fa = fa
  d = d
  e = e
  sf = sf
  sg = sg
  sa = sa
  p = p
  q = q
  trap = trap
  Ids <- MCIds
  Exported <- MCExported
  Symbols <- MCSymbols
  Flat <- MCFlat
  Letters <- MCLetters
  Intrinsics <- MCIntrinsics
  MaxTail = 2
  Family = "shared"
INVARIANTS
  CallsBindOwn
