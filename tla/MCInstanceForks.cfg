CONSTANTS
  Engine = {home, copy}
  Home = home
  None = None
  MaxCommits = 4
  MaxArtifacts = 2
  Address = {1, 2}
  Field = {"slot", "ref"}
  Value = {1, 2}
  Absent = Absent
  Ref = "ref"
  Unique = {{"slot", "ref"}}
  MaxEdits = 0
  lo = lo  mid = mid  hi = hi
  x = x  y = y
  one = one  two = two  three = three
  Label = {lo, mid, hi}
  Scalar = {x, y}
  Release = {one, two, three}
  MaxCalls = 0
  people1 = people1 people2 = people2 people3 = people3 people4 = people4
  sales = sales shop = shop mall = mall id = id label = label num = num text = text
  uses = uses catalog = catalog peer = peer firm = firm
  board = board add = add drop = drop person = person
  Space = {r1, r2}
  Name = {n1, n2}
  Interface = {uses, catalog}
  Nothing = Nothing
  Package <- MCPackage
  Line <- MCLine
  VersionOf <- MCVersion
  Surfaces <- MCSurfaces
  Mutations <- MCMutations
  Keys <- MCKeys
  View <- MCView
  PassesThrough <- MCPassesThrough
  Binds <- MCBinds
  Reads <- MCReads
  Guard <- MCGuard
  Uses <- MCUses
  Parents <- MCParents
  Offered = {firm}
  Contract <- MCContract
  MaxInstalls = 0
  MaxSteps = 0
  Company = Company
  Account = {a1, a2}
  PoolKey = {1, 2}
  SpendKey = {1, 2}
  TwinKey = {}
  Quantity <- MCQuantity
  SeedQuantity <- MCSeedQuantity
  Amount = {1, 2}
  Time = {0, 1}
  Until <- MCUntil
  MaxSpendCalls = 0
  MaxStatements = 2
  Never = None
  Every = 2
  Overlap = 1
  Retain = 3
  MaxTime = 1
  MaxVersions = 1
  MaxTokens = 0
  MaxAdmin = 0
  s1 = s1  s2 = s2  s3 = s3
  c1 = c1  c2 = c2  c3 = c3
  Store = {s1, s2, s3}
  Connector = {c1, c2, c3}
  MaxFaults = 0
SPECIFICATION InstanceSpec
CHECK_DEADLOCK FALSE
INVARIANT RelationIsTrue
