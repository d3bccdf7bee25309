SPECIFICATION Spec
CONSTANTS
  Producer = {p1, p2}
  Consumer = {c1, c2}
  Capacity = 3
  MaxFetch = 2
  MaxChunk = 2
  MaxRows = 2
INVARIANTS TypeOK Bounded Conserved NoLostWakeup
PROPERTIES NothingServedAfterCancel ReleasedAtEnd
