--------------------------- MODULE MCEnvelopeLog ---------------------------
(* Instances of EnvelopeLog for TLC. *)
EXTENDS EnvelopeLog, TLC

CONSTANTS c1, c2, c3, g1, g2, h1, h2, h3, m1, m2

\* h2 is twice the size of everything else, so that with a Limit of 3 two writers
\* can race for the last byte and lose.
Size(item) == IF item = h2 THEN 2 ELSE 1

MCBytes == [S \in SUBSET (Groups \X (Hashes \cup Messages)) |->
               MapThenSumSet(LAMBDA r : Size(r[2]), S)]

ConnSymmetry == Permutations(Conns \ Droppers)
=============================================================================
