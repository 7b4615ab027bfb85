SPECIFICATION SearchesSpec
CONSTANTS
  u1 = u1
  Anon = anon
  Users = {u1}
  Admins = {}
  Materials = {m1, m2}
  Owner <- OwnedByFirst
  Searches = {s1}
  Writers = {w1}
  InitVersion = 1
  MaxVersion = 3
  MaxRevision = 1
  Flaky = FALSE
  Readers = {u1}
  Placed = {u1}
  RecPages = {p1, p2}
  RecRequests = {r1, r2}
  MaxTaste = 1
  MaxRecFaults = 1
  Illustrated = {1, 2, 3}
  Unsupported = {2}
  PageLimit = 2
  MaxPreviewChanges = 1
  Rows = {1, 2, 3, 4, 5}
  PageSize = 2
  Few = 2
  Favoured = {1, 2, 3, 4}
  MaxWalks = 2
  MaxPosition = 6
  MaxListChanges = 1
SYMMETRY SearchesSymmetry
CHECK_DEADLOCK FALSE
INVARIANTS
  SearchesTypeOK
  ReadYourWrites
  WipeReachesAll
  RecsFollowTheUser
  ProtectedStays
  EachRowOnce
