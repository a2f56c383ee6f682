SPECIFICATION FileSpec
CONSTANTS
  w1 = w1
  w2 = w2
  w3 = w3
  d1 = d1
  d2 = d2
  Writers <- MCWriters
  Data <- MCData
  Missing = Missing
  Empty = Empty
  Torn = Torn
  MaxWrites = 4
  FileFaults = {"crash", "io"}
SYMMETRY MCSymmetry
INVARIANT FileTypeOK
PROPERTIES
  ReplacesAtomically
  NeverDisappears
