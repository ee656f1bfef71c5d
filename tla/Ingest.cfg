\* A root and two replies, one or two mentions; one file; its deletion and a mishap.
CONSTANTS
  root = root  p1 = p1  m1 = m1
  Msg = {root, p1, m1}
  Root = root
  Mentions <- OneOrTwo
  WithFile = {p1}
  PageSize = 2
  None = None
  Mishap <- AllMishaps
  Removable = {p1}
  MaxMishaps = 1
SPECIFICATION Spec
INVARIANT RecordedOnce
INVARIANT MirrorTrue
PROPERTY BackfillWhole
INVARIANT FilesFollowRecords
CHECK_DEADLOCK FALSE
