CONSTANTS
  Pages = {u1}
  Items = {i1, i2}
  Slots = {c1, c2}
  NoMap = NoMap
  NoOne = NoOne
  NoCall = NoCall
SPECIFICATION Spec
CONSTRAINT NoCopies
ACTION_CONSTRAINT WaitsBetweenClicks
INVARIANTS AnsweredIsStored
