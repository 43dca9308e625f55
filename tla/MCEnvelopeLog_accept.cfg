SPECIFICATION Spec
CONSTANTS
    c1 = c1  c2 = c2  c3 = c3
    g1 = g1  g2 = g2
    h1 = h1  h2 = h2  h3 = h3
    m1 = m1  m2 = m2
    Conns = {c1, c2, c3}
    Droppers = {}
    NoConn = NoConn
    Groups = {g1, g2}
    Hashes = {h1, h2}
    Messages = {m1, m2}
    Bytes <- MCBytes
    Limit = 3
    MaxFrames = 4
SYMMETRY ConnSymmetry
INVARIANTS TypeOK SeqUnique AckedHeld BudgetExact WithinLimit HandshakeDense
PROPERTIES CommitOrder FrozenStopsAccept
