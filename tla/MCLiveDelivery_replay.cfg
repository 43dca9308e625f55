SPECIFICATION Spec
CONSTANTS
  rd = rd
  wr = wr
  wr2 = wr2
  Conns <- Three
  Subscribers <- OnlyReader
  Publishers <- NoConns
  Committers <- Writers
  Beaters <- NoConns
  Version1 <- NoConns
  Fragile <- OnlyReader
  Bound = 2
  MaxHeld = 2
  Page = 1
  MaxFrames <- ReplayFrames
  AnswerLost = TRUE
INVARIANTS HandshakeInOrder HandshakeComplete
CHECK_DEADLOCK FALSE
