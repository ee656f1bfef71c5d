\* Two connections, three sockets, two chunks up and one down, one broken WebSocket.
CONSTANTS
  MaxConns = 2
  MaxSocks = 3
  MaxAsked = 2
  MaxAnswered = 1
  MaxDrops = 1
SPECIFICATION StreamSpec
PROPERTY StreamsKept
PROPERTY HangupCrosses
CHECK_DEADLOCK FALSE
