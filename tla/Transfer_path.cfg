CONSTANTS
  r1 = r1
  r2 = r2
  r3 = r3
  NULL = NULL
  Req = {r1, r2, r3}
  Shapes <- Mixed
  Frame <- Pages
  MaxInflight = 2
  PageSize = 4
  HostPage = 4
  BlockSize = 2
  BounceSize = 12
  DirectMinPages = 2
  MaxPrp = 4
  SanityCap = 16
  MaxNlb = 16
  MaxRanges = 2
  Word = 32
  Mdts = {0, 1}
  DiskSize = 60
  MaxGiveUps = 1
SPECIFICATION Spec
INVARIANTS
  TypeOK
  PinsBalanced
  ListFits
  DeviceMemoryHeld
  AnswersRight
PROPERTIES
  ImplementsBlockDevice
CHECK_DEADLOCK FALSE
