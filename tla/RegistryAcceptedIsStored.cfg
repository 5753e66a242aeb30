SPECIFICATION Spec
CONSTANTS
  Publishes = {p1, p2}
  Downloads = {}
  Coordinates = {c1, c2}
  Contents = {x1}
  Empty = Empty
  NoRow = NoRow
  Nobody = Nobody
  MAX_FAULTS = 1
INVARIANT
  AcceptedIsStored
