SPECIFICATION BothFair
CONSTANTS
  u1 = u1
  m1 = m1
  Anon = anon
  Users = {u1}
  Admins = {}
  Materials = {m1}
  Owner <- OwnedByFirst
  Searches = {s1, s2}
  Writers = {w1}
  InitVersion = 0
  MaxVersion = 1
  MaxRevision = 1
  Flaky = TRUE
  Emails = {e1}
  Matrics = {}
  Passwords = {p1, p2}
  None = none
  Requests = {r1, r2}
  MaxFaults = 2
INVARIANT AckedSignupIsComplete
PROPERTIES
  DeletedFadesOut
  GoogleGetsIn
