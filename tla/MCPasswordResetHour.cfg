SPECIFICATION ResetSpec
CONSTANTS
  Tokens = {t1, t2}
  NewPasswords = {p1, p2}
  NoToken = none
  ResetRequests = {r1, r2}
CHECK_DEADLOCK FALSE
INVARIANT LinkLastsAnHour
