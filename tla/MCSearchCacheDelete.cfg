SPECIFICATION Spec
CONSTANTS
  u1 = u1
  u2 = u2
  m1 = m1
  m2 = m2
  Anon = anon
  Users = {u1}
  Admins = {}
  Materials = {m1}
  Owner <- OwnedByFirst
  Searches = {s1, s2}
  Writers = {w1}
  InitVersion = 1
  MaxVersion = 2
  MaxRevision = 2
  Flaky = FALSE
INVARIANT DeletedStaysHidden
