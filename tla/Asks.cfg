\* Overlapping calls, a call of the next turn, two clicks and a reply.
CONSTANTS
  c1 = c1  c2 = c2  c3 = c3
  Call = {c1, c2, c3}
  TurnOf <- Turns
  KindOf <- Kinds
  Option = {yes, no}
  Reply = {x1}
  NoAsk = NoAsk
  MaxClicks = 2
SPECIFICATION Spec
INVARIANT RegistryAgrees
INVARIANT ReplyKept
INVARIANT OwnAnswer
PROPERTY EveryAskReturns
CHECK_DEADLOCK FALSE
