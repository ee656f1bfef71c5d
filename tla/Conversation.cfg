\* Two mentions, a plain message, a /stop and a /delete; turns and kickoffs throw.
CONSTANTS
  m1 = m1  m2 = m2  p1 = p1  s1 = s1  d1 = d1
  Mention = {m1, m2}
  Stop = {s1}
  Plain = {p1}
  Delete = {d1}
  Faults <- TurnFaults
  NoOwner = NoOwner
  Reply = Reply
  MaxReplies = 1
  Contents <- SomeContents
SPECIFICATION ConvSpec
INVARIANT PromptNotEmpty
PROPERTY MentionAnswered
CHECK_DEADLOCK FALSE
