\* Two tool calls, one of them a command behind a command of the bootstrap; one chunk
\* of output, one fault of any kind, a /stop.
CONSTANTS
  t1 = t1  t2 = t2
  Tool = {t1, t2}
  Run = {t1}
  Cmd <- Commands
  MaxOut <- Output
  None = None
  Fault <- AllFaults
  MaxFaults = 1
SPECIFICATION Spec
INVARIANT OutputWhole
INVARIANT ReplyIsRecorded
PROPERTY StopReachesCommands
PROPERTY StopEndsTurn
INVARIANT MessageSettled
PROPERTY CommandsEnd
CHECK_DEADLOCK FALSE
