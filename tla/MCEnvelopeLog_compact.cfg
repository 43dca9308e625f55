SPECIFICATION FairSpec
CONSTANTS
    c1 = c1  c2 = c2  c3 = c3
    g1 = g1  g2 = g2
    h1 = h1  h2 = h2  h3 = h3
    m1 = m1  m2 = m2
    Conns = {c1, c2}
    Droppers = {c1}
    NoConn = NoConn
    Groups = {g1}
    Hashes = {h1, h2, h3}
    Messages = {m1}
    Bytes <- MCBytes
    Limit = 4
    MaxFrames = 4
INVARIANTS AnchorsHeld
PROPERTIES DropCovered AtomicSpec Answered
