CONSTANTS
  NULL = NULL
  s1 = s1
  s2 = s2
  m1 = m1
  m2 = m2
  Calls = {s1, s2, m1, m2}
  Op <- MixedOps
  ADepth = 5
  AtInit = 3
  IrqInstalled = TRUE
SPECIFICATION FairSpec
INVARIANTS
  TypeOK
  AnswersOwn
  EachCompletionOnce
  CacheReal
  VwcTracks
PROPERTY AllReturn
CHECK_DEADLOCK FALSE
