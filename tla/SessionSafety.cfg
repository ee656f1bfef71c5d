\* Three mentions and two /stops; turns and kickoffs may throw, the tenant may die.
CONSTANTS
  m1 = m1  m2 = m2  m3 = m3
  s1 = s1  s2 = s2
  Mention = {m1, m2, m3}
  Stop = {s1, s2}
  Faults <- MemoryFaults
  NoOwner = NoOwner
SPECIFICATION SteadySpec
INVARIANT OneLoop
INVARIANT NoPhantomTurn
INVARIANT IdleAtRest
PROPERTY QueueDrains
PROPERTY ImplementsOwnership
PROPERTY StopHolds
CHECK_DEADLOCK FALSE
