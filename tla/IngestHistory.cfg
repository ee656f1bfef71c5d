\* The root of a thread is never heard of; a reply comes before the mention.
CONSTANTS
  root = root  p1 = p1  m1 = m1
  Msg = {root, p1, m1}
  Root = root
  Mentions <- LastOnly
  WithFile = {}
  PageSize = 2
  None = None
  Mishap <- NoMishaps
  Removable = {}
  MaxMishaps = 0
SPECIFICATION Spec
INVARIANT HistoryWhole
CHECK_DEADLOCK FALSE
