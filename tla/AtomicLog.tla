----------------------------- MODULE AtomicLog -----------------------------
(***************************************************************************)
(* What the log tables promise their readers: every SEND, HANDSHAKE and    *)
(* DROP takes effect at one instant, as if the relay served one frame at a *)
(* time.  No connections, no locks and no transactions: EnvelopeLog, which *)
(* has all three, implements this specification when at most one           *)
(* connection at a time compacts.                                          *)
(***************************************************************************)
EXTENDS Integers, FiniteSetsExt

CONSTANTS Groups, Hashes, Messages, Bytes, Limit

VARIABLES next_seq, frozen, row, hs, used, anchors

vars == <<next_seq, frozen, row, hs, used, anchors>>

Init ==
    /\ next_seq = [g \in Groups |-> 1]
    /\ frozen = [g \in Groups |-> FALSE]
    /\ row = [g \in Groups |-> [h \in Hashes |-> 0]]
    /\ hs = [g \in Groups |-> [m \in Messages |-> -1]]
    /\ used = 0
    /\ anchors = [g \in Groups |-> {}]

Fits(g, item) == used + Bytes[{<<g, item>>}] <= Limit

\* An envelope enters an unfrozen group under the next number.
Accept(g, h) ==
    /\ ~frozen[g]
    /\ row[g][h] = 0
    /\ Fits(g, h)
    /\ row' = [row EXCEPT ![g][h] = next_seq[g]]
    /\ next_seq' = [next_seq EXCEPT ![g] = @ + 1]
    /\ used' = used + Bytes[{<<g, h>>}]
    /\ UNCHANGED <<frozen, hs, anchors>>

\* A handshake message enters the group's handshake log one past its last.
Append(g, m) ==
    /\ hs[g][m] = -1
    /\ Fits(g, m)
    /\ hs' = [hs EXCEPT ![g][m] = Max({hs[g][k] : k \in Messages} \cup {-1}) + 1]
    /\ used' = used + Bytes[{<<g, m>>}]
    /\ UNCHANGED <<next_seq, frozen, row, anchors>>

\* A checkpoint's manifest and snapshots, all of them held, become anchors, and
\* everything below the manifest that no checkpoint anchors goes.
Compact(g, manifest, snaps) ==
    LET kept == anchors[g] \cup {manifest} \cup snaps
        gone == {h \in Hashes : /\ row[g][h] # 0
                                /\ row[g][h] < row[g][manifest]
                                /\ h \notin kept}
    IN
    /\ \A h \in {manifest} \cup snaps : row[g][h] # 0
    /\ row' = [row EXCEPT ![g] = [h \in Hashes |-> IF h \in gone THEN 0 ELSE row[g][h]]]
    /\ used' = used - Bytes[{g} \X gone]
    /\ anchors' = [anchors EXCEPT ![g] = kept]
    /\ UNCHANGED <<next_seq, frozen, hs>>

Toggle(g) ==
    /\ frozen' = [frozen EXCEPT ![g] = ~ frozen[g]]
    /\ UNCHANGED <<next_seq, row, hs, used, anchors>>

Next ==
    \E g \in Groups :
        \/ \E h \in Hashes : Accept(g, h)
        \/ \E m \in Messages : Append(g, m)
        \/ \E h \in Hashes, s \in SUBSET Hashes : Compact(g, h, s)
        \/ Toggle(g)

Spec == Init /\ [][Next]_vars
=============================================================================
