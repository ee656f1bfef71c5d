\* Two first mentions with different homes, a /delete and a lookup at any time.
CONSTANTS
  m1 = m1  m2 = m2  homeA = homeA  homeB = homeB  d1 = d1  l1 = l1
  Mention = {m1, m2}
  HomeOf <- TwoHomes
  Delete = {d1}
  Lookup = {l1}
  Handle = Handle
  NoFile = NoFile
  Unset = Unset
  LookupFails = TRUE
SPECIFICATION Spec
INVARIANT HomeBeforeTurn
PROPERTY ImplementsRecord
INVARIANT SandboxAgreed
CHECK_DEADLOCK FALSE
