SPECIFICATION Spec
CONSTANTS
  a = a
  j = j
  r = r
  t = t
  c1 = c1
  c2 = c2
  Keys <- AllKeys
  QuorumKeys <- Nobody
  Contents <- MCContents
  MaxVersion = 1
  NoSet = NoSet
  NoQuorum = NoQuorum
  NoKey = NoKey
  Conns <- TwoConns
  Devices <- AAndJ
  Signers <- AAndR
  Joiners <- OnlyJ
  Founders <- OnlyA
SYMMETRY Symmetric
INVARIANTS NoStaleSocket RegistryLive
PROPERTIES ChainSpec
CHECK_DEADLOCK FALSE
