----------------------------- MODULE AccessChain -----------------------------
(***************************************************************************)
(* The chain of access sets of one workspace, as the relay promises it:    *)
(* one set is in force, and a successor is judged against that set, the    *)
(* open probations and the rotation limit and takes its place, in one      *)
(* step.  This module holds the transition rules (access/mod.rs, `judge`)  *)
(* and is the abstract specification that AccessSet, in which reading,     *)
(* judging and storing are separate steps of concurrent handlers,          *)
(* implements.                                                             *)
(*                                                                         *)
(* A key stands for itself and for its salted hash: the salt is fixed for  *)
(* the life of a workspace, so entry_hash is injective.  Signatures are    *)
(* taken as verified; `version` stands also for prev_hash, since the chain *)
(* is linear and a digest names the one set of its version.  The bounds on *)
(* list sizes and the sortedness of the lists are left out.                *)
(***************************************************************************)
EXTENDS Naturals, FiniteSets

CONSTANTS
  Keys,        \* device keys and recovery keys
  QuorumKeys,  \* the confirm-only external keys
  Contents,    \* the set contents a client may publish
  MaxVersion,  \* bound: the last version published
  NoSet,       \* before genesis
  NoQuorum     \* a set without a recovery quorum

VARIABLES
  head,         \* relay_access_set: the set of the greatest version
  onProbation,  \* relay_access_probation: devices whose row is not cleared
  pins,         \* relay_access_probation.pending of each device
  rotated,      \* relay_recovery_rotation: keys that rotated in the window
  rooted,       \* history: keys whose authority traces back to genesis
  registered,   \* history: the quorum of the last set that a rooted authorizer signed
  strayed       \* history: has a set been in force that carried another quorum?

chainVars == <<head, onProbation, pins, rotated, rooted, registered, strayed>>

Quorum == [keys : SUBSET QuorumKeys, threshold : Nat]

(* What a publication says besides its version and its signer.  `sigs` holds *)
(* the valid quorum signatures, each by a key over one replacement entry.    *)
Content ==
  [entries : SUBSET Keys, authorizers : SUBSET Keys, recovery : SUBSET Keys,
   quorum : Quorum \cup {NoQuorum}, sigs : SUBSET (QuorumKeys \X Keys),
   pending : SUBSET Keys]

(* A set in force, as read_prior rebuilds it from the tables. *)
Prior ==
  [version : Nat, entries : SUBSET Keys, authorizers : SUBSET Keys,
   recovery : SUBSET Keys, quorum : Quorum \cup {NoQuorum}]

ASSUME ChainConstants ==
  /\ Contents \subseteq Content
  /\ MaxVersion \in Nat
  /\ NoSet \notin Prior
  /\ NoQuorum \notin Quorum

ChainTypeOK ==
  /\ head \in Prior \cup {NoSet}
  /\ onProbation \in SUBSET Keys
  /\ pins \in [Keys -> SUBSET Keys]
  /\ rotated \in SUBSET Keys
  /\ rooted \in SUBSET Keys
  /\ registered \in Quorum \cup {NoQuorum}
  /\ strayed \in BOOLEAN

-----------------------------------------------------------------------------
(* The transition rules, for a publication c: a content, the version it      *)
(* claims and the key that signed it.                                        *)

CheckShapeOpen(s) ==
  /\ s.entries # {} /\ s.authorizers # {}
  /\ s.quorum # NoQuorum =>
       s.quorum.keys # {} /\ s.quorum.threshold \in 1..Cardinality(s.quorum.keys)

CheckShape(s) ==
  /\ s.entries # {} /\ s.authorizers # {} /\ s.recovery # {}
  /\ s.quorum # NoQuorum =>
       s.quorum.keys # {} /\ s.quorum.threshold \in 1..Cardinality(s.quorum.keys)

PrincipalsAreEntries(s) == s.authorizers \cup s.recovery \subseteq s.entries

QuorumConfirms(s, configured, replacement) ==
  /\ s.quorum # NoQuorum
  /\ s.sigs # {}
  /\ Cardinality({k \in configured.keys : <<k, replacement>> \in s.sigs})
       >= configured.threshold

Removed(s, prior) == prior.entries \ s.entries

JudgeGenesis(c) ==
  /\ c.version = 0
  /\ c.signer \in c.content.authorizers
  /\ c.content.pending = {}

ProbationSheds(s, prior, pinned) ==
  /\ Removed(s, prior) \subseteq pinned
  /\ s.authorizers \subseteq prior.authorizers

(* The limits on a signer that a recovery rotation introduced. *)
WithinProbation(s, prior, pinned) ==
  /\ Removed(s, prior) \subseteq pinned
  /\ prior.authorizers = s.authorizers

JudgeOrdinary(c, prior, open, pinned) ==
  LET s == c.content IN
    /\ prior.authorizers \cap s.authorizers # {}
    /\ prior.recovery \cap s.recovery # {}
    /\ s.pending = {}
    /\ c.signer \in open => WithinProbation(s, prior, pinned[c.signer])

ClearsAny(c, prior, open) == {d \in open \ {c.signer} : d \in c.content.entries}

(* The probations an ordinary publication clears: by a signer that is not    *)
(* itself on probation, or by the quorum the prior set configured.           *)
Clears(c, prior, open) ==
  {d \in open \ {c.signer} :
     /\ d \in c.content.entries
     /\ \/ c.signer \notin open
        \/ prior.quorum # NoQuorum /\ QuorumConfirms(c.content, prior.quorum, d)}

AddedAuthorizers(s, prior) == s.authorizers \ prior.authorizers

JudgeRotation(c, prior, recent) ==
  LET s         == c.content
      successor == s.recovery \ prior.recovery
      added     == AddedAuthorizers(s, prior)
  IN /\ ~recent
     /\ c.signer \notin s.recovery
     /\ \E k \in Keys : successor = {k}
     /\ prior.recovery \ s.recovery = {c.signer}
     /\ Removed(s, prior) \subseteq {c.signer}
     /\ \E k \in Keys : added = {k}
     /\ s.entries \ prior.entries = successor \cup added
     /\ prior.authorizers \subseteq s.authorizers
     /\ s.pending \subseteq prior.entries \ prior.authorizers

AsAuthorizer(c, prior) == c.signer \in prior.authorizers

(* `judge`: authority as an authorizer takes precedence over recovery. *)
Judge(c, prior, open, pinned, recent) ==
  /\ CheckShape(c.content)
  /\ PrincipalsAreEntries(c.content)
  /\ IF prior = NoSet
     THEN JudgeGenesis(c)
     ELSE /\ c.version = prior.version + 1
          /\ IF AsAuthorizer(c, prior)
             THEN JudgeOrdinary(c, prior, open, pinned)
             ELSE c.signer \in prior.recovery /\ JudgeRotation(c, prior, recent)

-----------------------------------------------------------------------------
(* What accepting a publication stores. *)

SetOfEarlier(c) ==
  [version |-> c.version - 1, entries |-> c.content.entries,
   authorizers |-> c.content.authorizers, recovery |-> c.content.recovery,
   quorum |-> c.content.quorum]

SetOf(c) ==
  [version |-> c.version, entries |-> c.content.entries,
   authorizers |-> c.content.authorizers, recovery |-> c.content.recovery,
   quorum |-> c.content.quorum]

StoreRotation(c) ==
  LET device == CHOOSE k \in Keys : AddedAuthorizers(c.content, head) = {k} IN
    /\ rotated' = rotated \cup {c.signer}
    /\ onProbation' = onProbation \cup {device}
    /\ pins' = [pins EXCEPT ![device] = c.content.pending]
    /\ rooted' = rooted \ {device}

(* The keys a publication vouches for: a free authorizer's, all those it     *)
(* names as authorizers and all probationary devices it carries; otherwise   *)
(* the devices that the quorum of the prior set confirms, if that quorum is  *)
(* one a free authorizer registered.                                         *)
Vouched(c) ==
  IF c.signer \in rooted \ onProbation
  THEN c.content.authorizers \cup (onProbation \cap c.content.entries)
  ELSE {d \in onProbation \ {c.signer} :
          /\ head.quorum # NoQuorum /\ head.quorum = registered
          /\ QuorumConfirms(c.content, head.quorum, d)}

(* Who may register a quorum (wire.md): genesis, then an authorizer that     *)
(* holds its authority from genesis and is not on probation.  No rule of     *)
(* `judge` asks for it: the quorum of a set signed by a phrase or by a       *)
(* device on probation is stored like any other.                             *)
Registers(c) ==
  head # NoSet => AsAuthorizer(c, head) /\ c.signer \in rooted \ onProbation

RecordQuorum(c) ==
  /\ registered' = IF Registers(c) THEN c.content.quorum ELSE registered
  /\ strayed' = (strayed \/ c.content.quorum \notin {NoQuorum, registered'})

StoreOrdinary(c) ==
  /\ onProbation' = onProbation \ Clears(c, head, onProbation)
  /\ rooted' = rooted \cup Vouched(c)
  /\ UNCHANGED <<pins, rotated>>

StoreGenesis(c) ==
  /\ rooted' = c.content.authorizers
  /\ UNCHANGED <<onProbation, pins, rotated>>

Store(c) ==
  /\ head' = SetOf(c)
  /\ RecordQuorum(c)
  /\ IF head = NoSet THEN StoreGenesis(c)
     ELSE IF AsAuthorizer(c, head) THEN StoreOrdinary(c)
     ELSE StoreRotation(c)

Publish(c) ==
  /\ Judge(c, head, onProbation, pins, c.signer \in rotated)
  /\ Store(c)

(* ROTATION_WINDOW_HOURS pass since the key rotated. *)
WindowPasses(k) ==
  /\ k \in rotated
  /\ rotated' = rotated \ {k}
  /\ UNCHANGED <<head, onProbation, pins, rooted, registered, strayed>>

ChainInit ==
  /\ head = NoSet
  /\ onProbation = {}
  /\ pins = [k \in Keys |-> {}]
  /\ rotated = {}
  /\ rooted = {}
  /\ registered = NoQuorum
  /\ strayed = FALSE

NextVersion == IF head = NoSet THEN 0 ELSE head.version + 1

(* A publication of any other version than the next is refused (`judge`,     *)
(* VersionNotNext), so only the next one is offered here.                    *)
ChainNext ==
  \/ /\ NextVersion <= MaxVersion
     /\ \E s \in Contents, k \in Keys :
          Publish([content |-> s, version |-> NextVersion, signer |-> k])
  \/ \E k \in Keys : WindowPasses(k)

ChainSpec == ChainInit /\ [][ChainNext]_chainVars

-----------------------------------------------------------------------------
(* Properties. *)

(* An authorizer of the set in force is still on probation or holds its      *)
(* authority from genesis: through publications signed by authorizers free   *)
(* of probation, or through a confirmation by a quorum such an authorizer    *)
(* registered.  The wire specification promises this of a recovery phrase,   *)
(* over any number of rotations and publications by the devices it           *)
(* introduced (wire.md:793, "It cannot remove an admin, another recovery     *)
(* principal, or itself from probation").                                    *)
ProbationHolds ==
  head # NoSet => head.authorizers \subseteq rooted \cup onProbation

(* What `judge` guarantees of it: probation holds for as long as every       *)
(* quorum in force was registered by an authorizer free of probation.  With  *)
(* such quorums no sequence of rotations and of publications by the devices  *)
(* they introduced frees one of them (judge_ordinary: the clearing loop,     *)
(* "Nor may it grow the authorizer set"; judge_rotation).                    *)
AuthorityRooted == ~strayed => ProbationHolds

(* The chain can always be extended: republishing the set in force under the *)
(* next version is accepted from any of its authorizers.  No sequence of     *)
(* accepted sets strands the connection authority of the workspace           *)
(* (judge_ordinary, WouldStrandAuthority; check_shape; principals_are_entries)*)
Republished(k) ==
  [content |-> [entries |-> head.entries, authorizers |-> head.authorizers,
                recovery |-> head.recovery, quorum |-> head.quorum,
                sigs |-> {}, pending |-> {}],
   version |-> head.version + 1, signer |-> k]

Extendable ==
  head # NoSet =>
    \A k \in head.authorizers :
      Judge(Republished(k), head, onProbation, pins, k \in rotated)

(* Under the same condition on quorums, an authorizer that holds its         *)
(* authority from genesis and is free of probation is left after every       *)
(* publication: devices that recovery introduced never remove the last of    *)
(* the authorizers that predate them, by any sequence of sets                *)
(* (judge_ordinary, the probation branch; judge_rotation, "remove no         *)
(* authorizer").                                                             *)
RootKept ==
  head # NoSet /\ ~strayed => head.authorizers \cap (rooted \ onProbation) # {}

=============================================================================
