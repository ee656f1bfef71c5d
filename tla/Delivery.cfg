\* Two events, two sendings each, one crash, everything fails.
CONSTANTS
  e1 = e1  e2 = e2
  Event = {e1, e2}
  MaxSends = 2
  MaxCrashes = 1
  Faults <- AllFaults
SPECIFICATION Spec
INVARIANT OncePerLife
PROPERTY AckedIsRecorded
CHECK_DEADLOCK FALSE
