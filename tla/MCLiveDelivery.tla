--------------------------- MODULE MCLiveDelivery ---------------------------
(* Instances of LiveDelivery for TLC.                                      *)
EXTENDS LiveDelivery

CONSTANTS rd, wr, wr2

NoConns == {}
OnlyReader == {rd}
OnlyWriter == {wr}
Two == {rd, wr}
Three == {rd, wr, wr2}
Writers == {wr, wr2}

\* The requests of the reader and of the two writers: connect, then SUB, RECON or sends.
Frames(a, b, d) == [c \in Conns |-> IF c = rd THEN a ELSE IF c = wr THEN b ELSE d]
LiveFrames == Frames(3, 4, 0)
ReplayFrames == Frames(2, 3, 2)
RaceFrames == Frames(2, 2, 2)
SettleFrames == Frames(2, 3, 0)
=============================================================================
