SPECIFICATION NestSpec
CONSTANTS
  Folders = {f1, f2}
  None = none
  NestRequests = {r1}
  SelfNesting = TRUE
CHECK_DEADLOCK FALSE
INVARIANT NoCircularNesting
