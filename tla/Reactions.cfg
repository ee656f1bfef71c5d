\* Two mentions and a /stop; turns, kickoffs and the file system fail; Slack
\* applies the calls in any order, or refuses them.
CONSTANTS
  m1 = m1  m2 = m2
  s1 = s1
  Mention = {m1, m2}
  Stop = {s1}
  Faults <- DiskFaults
  NoOwner = NoOwner
SPECIFICATION ReactionsSpec
PROPERTY MentionsReturn
PROPERTY ReactionsGo
INVARIANT ReactionsAccounted
CHECK_DEADLOCK FALSE
