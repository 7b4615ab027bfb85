SPECIFICATION PointsSpec
CONSTANTS
  PayRequests = {r1, r2}
  MaxDays = 0
  MaxRows = 2
  MaxAwards = 3
  MaxPayFaults = 1
SYMMETRY PointsSymmetry
CHECK_DEADLOCK FALSE
INVARIANT ReadingIsPaid
