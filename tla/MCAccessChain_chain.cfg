SPECIFICATION ChainSpec
CONSTANTS
  a = a
  b = b
  x = x
  r = r
  t = t
  q = q
  Keys <- AllKeys
  QuorumKeys <- OneQuorum
  Contents <- MCContents
  MaxVersion = 4
  NoSet = NoSet
  NoQuorum = NoQuorum
SYMMETRY Symmetric
INVARIANTS ChainTypeOK AuthorityRooted Extendable RootKept
CHECK_DEADLOCK FALSE
