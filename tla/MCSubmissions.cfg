SPECIFICATION SubmissionsSpec
CONSTANTS
  j1 = j1
  j2 = j2
  r1 = r1
  r2 = r2
  r3 = r3
  Requests = {r1, r2}
  Files = {k1, k2, k3}
  NoFile = none
  MaxFaults = 1
  Folders = {k1, k2, k3}
  None = none
  NestRequests = {r1, r2}
  SelfNesting = FALSE
  Joiners = {j1}
  Targets = {d1}
  ClubRequests = {r1, r2}
  SentStatuses = {"pending"}
  SentCounts = {0}
  MaxJoins = 2
  MaxApprovals = 2
  MaxClubFaults = 1
  Pictures = {k1, k2, k3}
  NoPicture = none
  MediaRequests = {r1, r2}
  MaxPeriods = 3
  MaxMediaFaults = 1
  Users = {j1, j2}
  LikeRequests = {r1, r2, r3}
  Sender <- DoubleClick
  MaxCount = 3
  MaxLikeFaults = 1
SYMMETRY SubmissionsSymmetry
CHECK_DEADLOCK FALSE
INVARIANTS
  SubmissionsTypeOK
  FileBehindRow
  NoFileLeaks
  AddressFits
  NoCycleWithoutOverlap
  PublicHasNoTargets
  JoinsAreCounted
  OneApprovalMail
  RowPictureIsStored
  LinkLeadsToPicture
  CounterMatchesRows
  NeverOvercounted
