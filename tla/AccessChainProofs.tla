-------------------------- MODULE AccessChainProofs --------------------------
(***************************************************************************)
(* Proofs about the chain of access sets, for any keys, quorums, contents  *)
(* and number of versions.  The four properties are proved together, from  *)
(* the inductive invariant ChainInv: which probations are cleared depends  *)
(* on who holds authority (AuthorityRooted), who holds authority depends   *)
(* on an authorizer free of probation being left (RootKept), and both need *)
(* the shape of the set in force and the origin of its quorum.             *)
(***************************************************************************)
EXTENDS AccessChain, TLAPS

(* The set in force satisfies what check_shape and principals_are_entries    *)
(* ask of a candidate.                                                       *)
WellShaped == head # NoSet => CheckShape(head) /\ PrincipalsAreEntries(head)

(* Nothing is on probation before genesis. *)
UnfoundedFree == head = NoSet => onProbation = {}

(* While no quorum strayed, the one in force is the one last registered.     *)
QuorumKnown == head # NoSet /\ ~strayed => head.quorum \in {NoQuorum, registered}

ChainInv ==
  /\ ChainTypeOK
  /\ WellShaped
  /\ UnfoundedFree
  /\ QuorumKnown
  /\ AuthorityRooted
  /\ RootKept

(* What is known of the candidates that ChainNext offers. *)
Offered(c) ==
  /\ c.content \in Content
  /\ c.version \in Nat
  /\ c.signer \in Keys

-----------------------------------------------------------------------------
(* A candidate is stored with the lists it carries (store::publish).         *)
LEMMA StoredSet ==
  ASSUME NEW c, Offered(c)
  PROVE  /\ SetOf(c) \in Prior
         /\ SetOf(c) # NoSet
         /\ SetOf(c).entries = c.content.entries
         /\ SetOf(c).authorizers = c.content.authorizers
         /\ SetOf(c).recovery = c.content.recovery
         /\ SetOf(c).quorum = c.content.quorum
BY ChainConstants DEF Offered, SetOf, Prior, Content

(* What a candidate must satisfy holds of the set stored from it.            *)
LEMMA StoredShape ==
  ASSUME NEW c, Offered(c), CheckShape(c.content),
         PrincipalsAreEntries(c.content)
  PROVE  CheckShape(SetOf(c)) /\ PrincipalsAreEntries(SetOf(c))
BY StoredSet DEF CheckShape, PrincipalsAreEntries

(* The one authorizer a rotation adds is the device its probation names      *)
(* (judge_rotation, added_authorizers).                                      *)
LEMMA RotationDevice ==
  ASSUME NEW c, ChainTypeOK, head # NoSet, Offered(c),
         JudgeRotation(c, head, c.signer \in rotated), StoreRotation(c)
  PROVE  \E device \in Keys :
           /\ c.content.authorizers = head.authorizers \cup {device}
           /\ device \notin head.authorizers
           /\ onProbation' = onProbation \cup {device}
           /\ pins' = [pins EXCEPT ![device] = c.content.pending]
           /\ rooted' = rooted \ {device}
<1> DEFINE device == CHOOSE k \in Keys : AddedAuthorizers(c.content, head) = {k}
<1>1. \E k \in Keys : AddedAuthorizers(c.content, head) = {k}
  BY DEF JudgeRotation
<1>2. device \in Keys /\ AddedAuthorizers(c.content, head) = {device}
  BY <1>1
<1>3. /\ onProbation' = onProbation \cup {device}
      /\ pins' = [pins EXCEPT ![device] = c.content.pending]
      /\ rooted' = rooted \ {device}
  BY DEF StoreRotation
<1>4. head.authorizers \subseteq c.content.authorizers
  BY DEF JudgeRotation
<1> HIDE DEF device
<1>5. /\ c.content.authorizers = head.authorizers \cup {device}
      /\ device \notin head.authorizers
  BY <1>2, <1>4 DEF AddedAuthorizers
<1> QED
  BY ZenonT(30), <1>2, <1>3, <1>5

(* What is recorded of the quorum a publication carries.                     *)
LEMMA QuorumStored ==
  ASSUME NEW c, ChainInv, Offered(c), head' = SetOf(c), RecordQuorum(c)
  PROVE  /\ registered' \in Quorum \cup {NoQuorum} /\ strayed' \in BOOLEAN
         /\ QuorumKnown'
         /\ ~strayed' => ~strayed
<1>1. c.content.quorum \in Quorum \cup {NoQuorum}
  BY DEF Offered, Content
<1>2. registered' \in Quorum \cup {NoQuorum}
  BY <1>1 DEF RecordQuorum, ChainInv, ChainTypeOK
<1>3. strayed' = (strayed \/ c.content.quorum \notin {NoQuorum, registered'})
  BY DEF RecordQuorum
<1>4. SetOf(c).quorum = c.content.quorum
  BY StoredSet
<1> QED
  BY Zenon, <1>2, <1>3, <1>4 DEF QuorumKnown, ChainInv, ChainTypeOK

-----------------------------------------------------------------------------
(* One lemma for each way a publication is accepted. *)

(* The genesis set establishes the invariant (judge, genesis).               *)
LEMMA GenesisKeeps ==
  ASSUME NEW c, ChainInv, Offered(c), head = NoSet,
         CheckShape(c.content), PrincipalsAreEntries(c.content),
         head' = SetOf(c), RecordQuorum(c), StoreGenesis(c)
  PROVE  ChainInv'
<1>1. ChainTypeOK'
  BY StoredSet, QuorumStored DEF ChainInv, ChainTypeOK, StoreGenesis, Offered, Content
<1>2. WellShaped' /\ UnfoundedFree'
  BY StoredSet, StoredShape
  DEF WellShaped, UnfoundedFree, CheckShape, PrincipalsAreEntries
<1>3. AuthorityRooted'
  BY StoredSet DEF AuthorityRooted, ProbationHolds, StoreGenesis
<1>4. RootKept'
  BY StoredSet DEF RootKept, StoreGenesis, ChainInv, UnfoundedFree, CheckShape
<1> QED
  BY <1>1, <1>2, <1>3, <1>4, QuorumStored DEF ChainInv

(* A publication by an authorizer free of probation vouches for every        *)
(* authorizer it names and clears each that was on probation.                *)
LEMMA FreeKeeps ==
  ASSUME NEW c, ChainInv, Offered(c), head # NoSet,
         CheckShape(c.content), PrincipalsAreEntries(c.content),
         c.signer \in head.authorizers, c.signer \notin onProbation,
         head' = SetOf(c), RecordQuorum(c), StoreOrdinary(c)
  PROVE  ChainInv'
<1>1. ~strayed => c.signer \in rooted \ onProbation
  BY DEF ChainInv, AuthorityRooted, ProbationHolds
<1>2. ~strayed' => rooted' = rooted \cup c.content.authorizers
                                   \cup (onProbation \cap c.content.entries)
  BY <1>1, QuorumStored DEF StoreOrdinary, Vouched
<1>3. onProbation' = onProbation \ c.content.entries
  BY DEF StoreOrdinary, Clears
<1>4. ChainTypeOK'
  <2>1. Vouched(c) \in SUBSET Keys
    BY DEF Vouched, ChainInv, ChainTypeOK, Offered, Content
  <2> QED
    BY StoredSet, QuorumStored, <1>3, <2>1 DEF ChainInv, ChainTypeOK, StoreOrdinary
<1>5. WellShaped' /\ UnfoundedFree'
  BY StoredSet, StoredShape
  DEF WellShaped, UnfoundedFree, CheckShape, PrincipalsAreEntries
<1>6. AuthorityRooted'
  BY StoredSet, <1>2 DEF AuthorityRooted, ProbationHolds
<1>7. RootKept'
  BY StoredSet, <1>2, <1>3 DEF RootKept, CheckShape, PrincipalsAreEntries
<1> QED
  BY <1>4, <1>5, <1>6, <1>7, QuorumStored DEF ChainInv

(* A publication by a device on probation changes no authorizer, and clears  *)
(* only what the configured quorum confirms, which is the registered one.    *)
LEMMA ProbationKeeps ==
  ASSUME NEW c, ChainInv, Offered(c), head # NoSet,
         CheckShape(c.content), PrincipalsAreEntries(c.content),
         c.signer \in onProbation,
         JudgeOrdinary(c, head, onProbation, pins),
         head' = SetOf(c), RecordQuorum(c), StoreOrdinary(c)
  PROVE  ChainInv'
<1>1. c.content.authorizers = head.authorizers
  BY DEF JudgeOrdinary, WithinProbation
<1>2. onProbation' = onProbation \ Clears(c, head, onProbation)
  BY DEF StoreOrdinary
<1>3. rooted' = rooted \cup Vouched(c)
  BY DEF StoreOrdinary
<1>4. ~strayed' => Clears(c, head, onProbation) \subseteq Vouched(c)
  <2>1. ~strayed' => head.quorum \in {NoQuorum, registered}
    BY QuorumStored DEF ChainInv, QuorumKnown
  <2> QED
    BY <2>1 DEF Clears, Vouched
<1>5. Vouched(c) \subseteq onProbation
  BY DEF Vouched
<1>6. ChainTypeOK'
  BY StoredSet, QuorumStored, <1>2, <1>3, <1>5
  DEF ChainInv, ChainTypeOK, StoreOrdinary
<1>7. WellShaped' /\ UnfoundedFree'
  BY StoredSet, StoredShape
  DEF WellShaped, UnfoundedFree, CheckShape, PrincipalsAreEntries
<1>8. AuthorityRooted'
  BY StoredSet, QuorumStored, <1>1, <1>2, <1>3, <1>4
  DEF ChainInv, AuthorityRooted, ProbationHolds
<1>9. RootKept'
  BY StoredSet, QuorumStored, <1>1, <1>2, <1>3 DEF ChainInv, RootKept
<1> QED
  BY <1>6, <1>7, <1>8, <1>9, QuorumStored DEF ChainInv

(* A recovery rotation adds one authorizer, on probation, and removes none.  *)
LEMMA RotationKeeps ==
  ASSUME NEW c, ChainInv, Offered(c), head # NoSet,
         CheckShape(c.content), PrincipalsAreEntries(c.content),
         JudgeRotation(c, head, c.signer \in rotated),
         head' = SetOf(c), RecordQuorum(c), StoreRotation(c)
  PROVE  ChainInv'
<1>1. ChainTypeOK
  BY DEF ChainInv
<1>2. PICK device \in Keys :
           /\ c.content.authorizers = head.authorizers \cup {device}
           /\ device \notin head.authorizers
           /\ onProbation' = onProbation \cup {device}
           /\ pins' = [pins EXCEPT ![device] = c.content.pending]
           /\ rooted' = rooted \ {device}
  BY <1>1, RotationDevice
<1>3. rotated' = rotated \cup {c.signer}
  BY DEF StoreRotation
<1>4. ChainTypeOK'
  BY StoredSet, QuorumStored, <1>1, <1>2, <1>3 DEF ChainTypeOK, Offered, Content
<1>5. WellShaped' /\ UnfoundedFree'
  BY StoredSet, StoredShape
  DEF WellShaped, UnfoundedFree, CheckShape, PrincipalsAreEntries
<1>6. AuthorityRooted'
  BY StoredSet, QuorumStored, <1>2 DEF ChainInv, AuthorityRooted, ProbationHolds
<1>7. RootKept'
  BY StoredSet, QuorumStored, <1>2 DEF ChainInv, RootKept
<1> QED
  BY <1>4, <1>5, <1>6, <1>7, QuorumStored DEF ChainInv

-----------------------------------------------------------------------------
(* Whatever the relay accepts keeps the invariant (store::publish).          *)
LEMMA PublishKeeps ==
  ASSUME NEW c, ChainInv, Offered(c), Publish(c)
  PROVE  ChainInv'
<1>1. /\ CheckShape(c.content) /\ PrincipalsAreEntries(c.content)
      /\ head' = SetOf(c) /\ RecordQuorum(c)
  BY DEF Publish, Judge, Store
<1>2. CASE head = NoSet
  BY <1>1, <1>2, GenesisKeeps DEF Publish, Store
<1>3. CASE head # NoSet /\ AsAuthorizer(c, head)
  <2>1. JudgeOrdinary(c, head, onProbation, pins) /\ StoreOrdinary(c)
    BY <1>3 DEF Publish, Judge, Store
  <2>2. CASE c.signer \in onProbation
    BY <1>1, <1>3, <2>1, <2>2, ProbationKeeps
  <2>3. CASE c.signer \notin onProbation
    BY <1>1, <1>3, <2>1, <2>3, FreeKeeps DEF AsAuthorizer
  <2> QED
    BY <2>2, <2>3
<1>4. CASE head # NoSet /\ ~AsAuthorizer(c, head)
  <2>1. JudgeRotation(c, head, c.signer \in rotated) /\ StoreRotation(c)
    BY <1>4 DEF Publish, Judge, Store
  <2> QED
    BY <1>1, <1>4, <2>1, RotationKeeps
<1> QED
  BY <1>2, <1>3, <1>4

(* Every step of the chain keeps the invariant.                              *)
LEMMA NextKeeps == ChainInv /\ [ChainNext]_chainVars => ChainInv'
<1> SUFFICES ASSUME ChainInv, [ChainNext]_chainVars PROVE ChainInv'
  OBVIOUS
<1>1. ASSUME NEW s \in Contents, NEW k \in Keys,
             Publish([content |-> s, version |-> NextVersion, signer |-> k])
      PROVE  ChainInv'
  <2>1. NextVersion \in Nat
    BY DEF ChainInv, ChainTypeOK, NextVersion, Prior
  <2>2. Offered([content |-> s, version |-> NextVersion, signer |-> k])
    BY <2>1, ChainConstants DEF Offered
  <2> QED
    BY <1>1, <2>2, PublishKeeps
<1>2. ASSUME NEW k \in Keys, WindowPasses(k)
      PROVE  ChainInv'
  BY <1>2
  DEF WindowPasses, ChainInv, ChainTypeOK, WellShaped, UnfoundedFree,
      QuorumKnown, AuthorityRooted, ProbationHolds, RootKept, CheckShape, PrincipalsAreEntries
<1>3. CASE UNCHANGED chainVars
  BY <1>3
  DEF chainVars, ChainInv, ChainTypeOK, WellShaped, UnfoundedFree,
      QuorumKnown, AuthorityRooted, ProbationHolds, RootKept, CheckShape, PrincipalsAreEntries
<1> QED
  BY ZenonT(30), <1>1, <1>2, <1>3 DEF ChainNext

(* The invariant holds of every chain.                                       *)
THEOREM ChainInvariant == ChainSpec => []ChainInv
<1>1. ChainInit => ChainInv
  BY DEF ChainInit, ChainInv, ChainTypeOK, WellShaped, UnfoundedFree,
         QuorumKnown, AuthorityRooted, ProbationHolds, RootKept
<1> QED
  BY <1>1, NextKeeps, PTL DEF ChainSpec

-----------------------------------------------------------------------------
(* The stored chain, the probations and the rotation limit stay well typed.  *)
THEOREM ChainTypeCorrect == ChainSpec => []ChainTypeOK
<1>1. ChainInv => ChainTypeOK
  BY DEF ChainInv
<1> QED
  BY <1>1, ChainInvariant, PTL

(* As long as each quorum in force was registered by an authorizer free of   *)
(* probation, nobody leaves probation except by the word of an authorizer    *)
(* whose own authority traces back to genesis, or of such a quorum           *)
(* (judge_ordinary, judge_rotation).                                         *)
THEOREM AuthorityRootedCorrect == ChainSpec => []AuthorityRooted
<1>1. ChainInv => AuthorityRooted
  BY DEF ChainInv
<1> QED
  BY <1>1, ChainInvariant, PTL

(* Under the same condition, an authorizer free of probation whose authority *)
(* traces back to genesis is left after every publication (judge_ordinary,   *)
(* judge_rotation).                                                          *)
THEOREM RootKeptCorrect == ChainSpec => []RootKept
<1>1. ChainInv => RootKept
  BY DEF ChainInv
<1> QED
  BY <1>1, ChainInvariant, PTL

(* Whatever was accepted, each authorizer can publish again (judge).         *)
THEOREM ExtendableCorrect == ChainSpec => []Extendable
<1>1. ChainInv => Extendable
  <2> SUFFICES ASSUME ChainInv, head # NoSet, NEW k \in head.authorizers
               PROVE  Judge(Republished(k), head, onProbation, pins,
                            k \in rotated)
    BY DEF Extendable
  <2> DEFINE again == Republished(k)
  <2>1. /\ again.content.entries = head.entries
        /\ again.content.authorizers = head.authorizers
        /\ again.content.recovery = head.recovery
        /\ again.content.quorum = head.quorum
        /\ again.content.pending = {}
        /\ again.version = head.version + 1
        /\ again.signer = k
    BY DEF Republished
  <2> HIDE DEF again
  <2>2. CheckShape(head) /\ PrincipalsAreEntries(head)
    BY DEF ChainInv, WellShaped
  <2>3. CheckShape(again.content) /\ PrincipalsAreEntries(again.content)
    BY <2>1, <2>2 DEF CheckShape, PrincipalsAreEntries
  <2>4. JudgeOrdinary(again, head, onProbation, pins)
    BY <2>1, <2>2 DEF JudgeOrdinary, WithinProbation, Removed, CheckShape
  <2>5. AsAuthorizer(again, head)
    BY <2>1 DEF AsAuthorizer
  <2>6. Judge(again, head, onProbation, pins, k \in rotated)
    BY <2>1, <2>3, <2>4, <2>5 DEF Judge
  <2> QED
    BY <2>6 DEF again
<1> QED
  BY <1>1, ChainInvariant, PTL

=============================================================================
