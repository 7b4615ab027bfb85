SPECIFICATION MembersSpec
CONSTANTS
  u1 = u1
  f1 = f1
  v1 = v1
  v2 = v2
  Emails = {e1, e2}
  Matrics = {x1}
  Passwords = {p1}
  None = none
  Requests = {r1, r2}
  MaxFaults = 1
  Tokens = {t1, t2}
  NewPasswords = {p1, p2}
  NoToken = none
  ResetRequests = {r1, r2}
  Applicants = {e1, e2}
  ModRequests = {r1, r2}
  MaxModFaults = 1
  Members = {u1}
  Shelves = {f1}
  ShelfOwner <- FirstOwns
  Items = {m1}
  Nil = none
  LibRequests = {r1, r2}
  MaxBookmarks = 2
  Viewables = {w1, w2, w3, w4}
  Limit = 2
  ViewRequests = {v1, v2}
  Size <- OneAndTwo
  PayRequests = {r1, r2}
  MaxDays = 1
  MaxRows = 2
  MaxAwards = 3
  MaxPayFaults = 1
  Calls = {r1, r2}
  Windows = {"auth"}
  MaxOf <- FewRequests
  MaxViolations = 2
  BansToEscalate = 1
  MaxBans = 1
  MaxLimitFaults = 1
SYMMETRY MembersSymmetry
CHECK_DEADLOCK FALSE
INVARIANTS
  MembersTypeOK
  OrphansComeFromFailures
  SessionsAreProven
  ModeratorsHaveApplied
  ListedOnce
  OneBookmark
  RecentsHold
  PaidOnce
  CountersExpire
  BansHold
PROPERTIES
  DeadLinksStayDead
  ImplementsLedger
