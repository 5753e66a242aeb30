\* Two publishes and a download over two coordinates and two bodies, one of
\* which is empty; two kills, failed writes or failed inserts.
SPECIFICATION FairSpec
CONSTANTS
  Publishes = {p1, p2}
  Downloads = {d1}
  Coordinates = {c1, c2}
  Contents = {x1, x2}
  Empty = x2
  NoRow = NoRow
  Nobody = Nobody
  MAX_FAULTS = 2
INVARIANTS
  AnswersAreTrue
  RowsSound
  DownloadsIntact
PROPERTIES
  AllAnswered
  StoreSpec
