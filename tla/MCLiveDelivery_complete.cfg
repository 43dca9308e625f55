SPECIFICATION Spec
CONSTANTS
  rd = rd
  wr = wr
  wr2 = wr2
  Conns <- Three
  Subscribers <- OnlyReader
  Publishers <- NoConns
  Committers <- Writers
  Beaters <- NoConns
  Version1 <- NoConns
  Fragile <- NoConns
  Bound = 3
  MaxHeld = 2
  Page = 1
  MaxFrames <- RaceFrames
  AnswerLost = FALSE
INVARIANTS HandshakeEvery
CHECK_DEADLOCK FALSE
