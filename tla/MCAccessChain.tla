---------------------------- MODULE MCAccessChain ----------------------------
(* Instances of AccessChain for TLC.                                         *)
EXTENDS AccessChain, TLC

CONSTANTS a, b, x, r, t, q

Devices    == {a, b, x}
Phrases    == {r, t}
AllKeys    == Devices \cup Phrases
OneQuorum  == {q}
TheQuorum  == [keys |-> {q}, threshold |-> 1]

(* Devices are members or authorizers, phrases are recovery keys.  A set     *)
(* carries no quorum, a quorum, or a quorum with a signature over a device;  *)
(* a set without a quorum may pin one device.                                *)
Plain(A, P, R) ==
  {[entries |-> A \cup P \cup R, authorizers |-> A, recovery |-> R,
    quorum |-> NoQuorum, sigs |-> {}, pending |-> N] :
     N \in {{}} \cup {{d} : d \in Devices}}
Confirmed(A, P, R) ==
  {[entries |-> A \cup P \cup R, authorizers |-> A, recovery |-> R,
    quorum |-> TheQuorum, sigs |-> {q} \X D, pending |-> {}] :
     D \in {{}} \cup {{d} : d \in Devices}}
MCContents ==
  UNION {Plain(A, P, R) \cup Confirmed(A, P, R) :
           A \in SUBSET Devices, P \in SUBSET Devices, R \in SUBSET Phrases}

Symmetric == Permutations(Devices) \cup Permutations(Phrases)
=============================================================================
