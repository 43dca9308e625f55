SPECIFICATION Spec
CONSTANTS
  rd = rd
  wr = wr
  wr2 = wr2
  Conns <- Two
  Subscribers <- OnlyReader
  Publishers <- OnlyWriter
  Committers <- NoConns
  Beaters <- OnlyWriter
  Version1 <- NoConns
  Fragile <- OnlyReader
  Bound = 2
  MaxHeld = 1
  Page = 1
  MaxFrames <- LiveFrames
  AnswerLost = FALSE
INVARIANTS TypeOK NoUndeclaredHole NoGhostEntry
CHECK_DEADLOCK FALSE
