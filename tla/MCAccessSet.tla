----------------------------- MODULE MCAccessSet -----------------------------
(* Instances of AccessSet for TLC.                                           *)
EXTENDS AccessSet, TLC

CONSTANTS a, j, r, t, c1, c2

OneConn    == {c1}
TwoConns   == {c1, c2}
AllKeys    == {a, j, r, t}
AAndJ      == {a, j}
AAndR      == {a, r}
OnlyA      == {a}
OnlyJ      == {j}
Nobody     == {}

SetWith(A, P, R) ==
  [entries |-> A \cup P \cup R, authorizers |-> A, recovery |-> R,
   quorum |-> NoQuorum, sigs |-> {}, pending |-> {}]

(* The founder alone, the founder with the joiner, the joiner alone, and a   *)
(* rotation of the phrase that brings the joiner in as an authorizer.        *)
MCContents ==
  {SetWith({a}, {}, {r}), SetWith({a, j}, {}, {r}), SetWith({j}, {}, {r}),
   SetWith({a, j}, {}, {t})}

(* Sets the founder publishes around one join. *)
JoinContents == {SetWith({a}, {}, {r}), SetWith({a}, {j}, {r})}

Symmetric == Permutations(Conns)
=============================================================================
