SPECIFICATION MediaSpec
CONSTANTS
  Pictures = {k1, k2}
  NoPicture = none
  MediaRequests = {r1, r2}
  MaxPeriods = 2
  MaxMediaFaults = 0
SYMMETRY MediaSymmetry
CHECK_DEADLOCK FALSE
INVARIANT ExpiredLinkIsRenewed
