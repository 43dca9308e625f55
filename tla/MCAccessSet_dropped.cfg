SPECIFICATION Spec
CONSTANTS
  a = a
  j = j
  r = r
  t = t
  c1 = c1
  c2 = c2
  Keys <- AllKeys
  QuorumKeys <- Nobody
  Contents <- JoinContents
  MaxVersion = 2
  NoSet = NoSet
  NoQuorum = NoQuorum
  NoKey = NoKey
  Conns <- OneConn
  Devices <- OnlyA
  Signers <- OnlyA
  Joiners <- OnlyJ
  Founders <- OnlyA
INVARIANT DroppedIsVoid
CHECK_DEADLOCK FALSE
