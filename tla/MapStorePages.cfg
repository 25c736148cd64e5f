CONSTANTS
  Pages = {u1, u2}
  Items = {i1, i2}
  Slots = {c1, c2}
  NoMap = NoMap
  NoOne = NoOne
  NoCall = NoCall
SPECIFICATION Spec
SYMMETRY Symmetry
CONSTRAINTS FewCalls OneWritten OneStirs
INVARIANTS TypeOK SureIsStored NothingOverwritten
