SPECIFICATION CatalogueSpec
CONSTANTS
  i1 = i1
  i2 = i2
  Courses = {k1, k2}
  Codes = {c1, c2}
  Names = {n1, n2}
  Departments = {d1}
  Levels = {l1, l2}
  Students = {s1}
  NoCourse = none
  CatRequests = {r1, r2}
  MaxCatFaults = 1
  Reviewed = {i1, i2}
  Kind <- KindOf
  Seeded = {i2}
  ReviewRequests = {r1, r2}
  MaxCounting = 1
  MaxReviewFaults = 1
  Mails = {l1, l2}
  Providers <- ProviderList
SYMMETRY CatalogueSymmetry
CHECK_DEADLOCK FALSE
INVARIANTS
  CatalogueTypeOK
  NamesAreDistinct
  EnrolmentFitsRow
  CreatorKnowsVerdict
  CountsAddUp
  MailIsAccountedFor
