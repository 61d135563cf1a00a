CONSTANTS
  Nil = Nil
  CompanyKey = {c1, c2}
  OfficeKey = {o1, o2}
  AccountKey = {a1, a2}
  Schemas <- Packages
  Level <- MCLevel
  Address <- MCAddress
  Seeds <- MCSeeds
  PatchOf <- MCPatchOf
  CheckPasses <- MCCheckPasses
  MaxSeedRows = 2
  MaxBatch = 2
  MaxStatements = 2
  MaxCalls = 1
  Addr = {a1, a2}
  Val = {v1}
  Instant = {1, 2}
  DefaultNow = 1
  Definition = {d1}
  Composition = {m1}
  Point = {p1}
  Blob = {b1}
  None = None
  Absent = Absent
  Corrupt = Corrupt
  MaxOps = 2
  MaxCommits = 3
  MaxIncarnation = 2
SPECIFICATION AdmissionSpec
CONSTRAINT StoreDepth
SYMMETRY KeySymmetry
INVARIANTS
  CurrentIsReplay
  StagedIsWhatCommits
  GovernedReferencesResolve
PROPERTIES
  HistoryIsImmutable
  ImplementsContract
  AdmissionKeepsConstraints
  ErasureCapturesWhatItRemoves
  RekeyKeepsReferences
CHECK_DEADLOCK FALSE
