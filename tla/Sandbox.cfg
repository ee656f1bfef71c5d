\* Two ensures, every provider, two mishaps of any kind.
CONSTANTS
  o1 = o1  o2 = o2
  Op = {o1, o2}
  Provider <- AllProviders
  Mishap <- AllMishaps
  MaxMade = 4
  MaxMishaps = 2
  None = None
SPECIFICATION Spec
INVARIANT TokenMatches
INVARIANT InUseIsRecorded
INVARIANT WorkspaceKept
INVARIANT RemoveFrees
SYMMETRY Ensures
CHECK_DEADLOCK FALSE
