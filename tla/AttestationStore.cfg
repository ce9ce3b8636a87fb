CONSTANTS
  m1 = m1
  m2 = m2
  r1 = r1
  b1 = b1
  b2 = b2
  bad = bad
  t1 = t1
  badTag = badTag
  img = img
  Makers <- mcMakers
  Readers = {r1}
  Bundles <- mcBundles
  WellFormed <- mcWellFormed
  Tags = {t1, badTag}
  ValidTags = {t1}
  Images = {img}
  Foreign <- mcForeign
  Absent = Absent
  MaxRuns = 2
  Cap = 2
SPECIFICATION mcSpec
INVARIANTS
  TypeOK
  NoHalfPublishSeen
  RepushIsIdempotent
PROPERTIES
  ImplementsRegister
  RefusedRunWritesNothing
\* Once every run and every discovery is over, nothing happens any more.
CHECK_DEADLOCK FALSE
