CONSTANTS
  Addr <- MCAddr
  AddressStep <- MCAddressStep
  KeyEnc <- MCKeyEnc
  Val = {v1}
  Instant = {1, 2}
  DefaultNow = 1
  Definition = {d1}
  Composition = {c1}
  Point = {p1}
  Blob = {b1}
  None = None
  Absent = Absent
  Corrupt = Corrupt
  MaxOps = 3
  MaxCommits = 3
  MaxIncarnation = 2
  MaxCalls = 1
  Sub = {1, 2}
  Closed = Closed
  Unseen = Unseen
  InOrder = TRUE
  Capacity = 3
  MaxServerCommits = 1
  MaxCuts = 1
  MaxStalls = 1
  SourceNames = {"s1", "s2"}
  Parents = {q1, q2}
  ItemNames = {i1}
  Starts = {0, 3}
  Instants = {0, 3, 6, 7}
  SeriesCap = 20
  Depth = 12
  MaxNow = 1
SPECIFICATION EdgesSpec
CHECK_DEADLOCK FALSE
INVARIANTS
  TreeIsLogFold
  ScansMatchReference
  GeneratedKeysAreUnique
  TemporalReadsAreComplete
PROPERTIES
  ImplementsContract
  TheStreamSelfHeals
