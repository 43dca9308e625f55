SPECIFICATION FairSpec
CONSTANTS
  rd = rd
  wr = wr
  wr2 = wr2
  Conns <- Two
  Subscribers <- OnlyReader
  Publishers <- OnlyWriter
  Committers <- OnlyWriter
  Beaters <- OnlyWriter
  Version1 <- OnlyReader
  Fragile <- OnlyReader
  Bound = 1
  MaxHeld = 1
  Page = 1
  MaxFrames <- SettleFrames
  AnswerLost = FALSE
PROPERTIES DebtPaid HandlerEnds
CHECK_DEADLOCK FALSE
