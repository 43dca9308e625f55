--------------------------- MODULE AccessSetProofs ---------------------------
(***************************************************************************)
(* Proofs about admission, for any number of sockets, devices, joiners and *)
(* versions: the handlers, cut at every await, implement the atomic chain  *)
(* of AccessChain, and no socket keeps serving a device that lost its      *)
(* place.                                                                  *)
(*                                                                         *)
(* The inductive invariant AccessInv says what a handler in the middle of  *)
(* its work knows.  A publication whose version is still free was read     *)
(* from the set in force and, past `judge`, is acceptable to it: whatever  *)
(* changed the chain meanwhile has taken the version.  A socket past its   *)
(* registration is in the hub or was signalled.  A grant marked as seen is *)
(* carried by the set in force, so that a set that voids it also removes   *)
(* its entry, and evicts it.                                               *)
(***************************************************************************)
EXTENDS AccessSet, AccessChainProofs

Publishing == {"judge", "commit"}

(* A handler runs on an open socket, and AUTH is the first it runs. *)
StepsFit ==
  \A c \in Conns :
    /\ IF session[c] = "closed" THEN step[c] = "idle" ELSE dev[c] \in Keys
    /\ session[c] = "auth" <=> step[c] \in {"identify", "confirm"}

(* Only an evicting handler has entries left to evict. *)
DoomedFits == \A c \in Conns : step[c] # "evict" => doomed[c] = {}

(* What a publishing handler read is still so, while its version is free. *)
ReadFits ==
  \A c \in Conns : step[c] \in Publishing =>
    /\ cand[c] \in Candidates
    /\ VersionFree(cand[c]) =>
         prior[c] = head /\ cand[c].version = NextVersion

(* And so is its judgement. *)
JudgedFits ==
  \A c \in Conns : step[c] = "commit" /\ VersionFree(cand[c]) =>
    Judge(cand[c], head, onProbation, pins, cand[c].signer \in rotated)

(* A socket past its registration is in the hub, or was signalled. *)
Registered ==
  \A c \in Conns : step[c] = "confirm" \/ session[c] = "ready" =>
    c \in evicted \/ <<dev[c], c>> \in principals

(* A grant that is marked as seen and not void is carried now. *)
SeenCarried ==
  \A d \in seen : grant[d] \in {"live", "expired"} => d \in Entries

SocketInv == StepsFit /\ DoomedFits
CandInv   == ReadFits /\ JudgedFits
HubInv    == RegistryLive /\ Registered
GrantInv  == SeenCarried /\ NoStaleSocket

AccessInv == ChainInv /\ TypeOK /\ SocketInv /\ CandInv /\ HubInv /\ GrantInv

-----------------------------------------------------------------------------
(* A judgement still stands when the rotation window has passed              *)
(* (judge_rotation, rotated_recently).                                       *)
LEMMA JudgeMonotone ==
  ASSUME NEW c, NEW p, NEW o, NEW i, NEW r1, NEW r2, r2 => r1,
         Judge(c, p, o, i, r1)
  PROVE  Judge(c, p, o, i, r2)
BY DEF Judge, JudgeRotation

(* What the invariant says of a handler about to store its set: the set in   *)
(* force is the one it was judged against (store::publish).                  *)
LEMMA AboutToStore ==
  ASSUME ChainTypeOK, CandInv, NEW c \in Conns, step[c] = "commit",
         VersionFree(cand[c])
  PROVE  /\ cand[c] \in Candidates
         /\ Offered(cand[c])
         /\ prior[c] = head
         /\ cand[c].version = NextVersion
         /\ Judge(cand[c], head, onProbation, pins, cand[c].signer \in rotated)
<1>1. /\ cand[c] \in Candidates
      /\ prior[c] = head
      /\ cand[c].version = NextVersion
  BY DEF CandInv, ReadFits, Publishing
<1>2. Judge(cand[c], head, onProbation, pins, cand[c].signer \in rotated)
  BY DEF CandInv, JudgedFits
<1>3. Offered(cand[c])
  BY <1>1, ChainConstants, AccessConstants DEF Candidates, Offered
<1> QED
  BY <1>1, <1>2, <1>3

(* Storing takes the version: no candidate that was read before is free      *)
(* afterwards (relay_access_set, primary key).                               *)
LEMMA StoreTakesVersion ==
  ASSUME ChainTypeOK, NEW k, Offered(k), k.version = NextVersion,
         head' = SetOf(k), NEW n \in Nat,
         (head = NoSet \/ n > head.version) => n = NextVersion
  PROVE  head' # NoSet /\ ~(n > head'.version)
<1>1. head'.version = NextVersion /\ head' # NoSet
  BY StoredSet DEF SetOf
<1>2. CASE head = NoSet
  BY <1>1, <1>2
<1>3. CASE head # NoSet
  BY <1>1, <1>3 DEF NextVersion, ChainTypeOK, Prior
<1> QED
  BY <1>2, <1>3

-----------------------------------------------------------------------------
(* Every step of admission is a step of the chain, or leaves it alone.       *)
LEMMA StepRefines ==
  ASSUME ChainInv, CandInv, [Next]_vars
  PROVE  [ChainNext]_chainVars
<1>1. ASSUME NEW c \in Conns, Commit(c)
      PROVE  [ChainNext]_chainVars
  <2>1. CASE VersionFree(cand[c])
    <3>1. /\ cand[c] \in Candidates
          /\ cand[c].version = NextVersion
          /\ Judge(cand[c], head, onProbation, pins, cand[c].signer \in rotated)
      BY <1>1, <2>1, AboutToStore DEF Commit, ChainInv
    <3>2. Publish(cand[c])
      BY <1>1, <2>1, <3>1 DEF Commit, Publish
    <3>3. /\ cand[c] = [content |-> cand[c].content, version |-> NextVersion,
                        signer |-> cand[c].signer]
          /\ cand[c].content \in Contents /\ cand[c].signer \in Keys
          /\ NextVersion <= MaxVersion
      BY <3>1, AccessConstants, ChainConstants DEF Candidates
    <3> QED
      BY <3>2, <3>3 DEF ChainNext
  <2>2. CASE ~VersionFree(cand[c])
    BY <1>1, <2>2 DEF Commit
  <2> QED
    BY <2>1, <2>2
<1>2. ASSUME NEW k \in Keys, RotationWindow(k)
      PROVE  [ChainNext]_chainVars
  BY <1>2 DEF RotationWindow, ChainNext
<1>3. ASSUME NEW c \in Conns, \/ Identify(c) \/ Confirm(c) \/ Close(c)
                              \/ JudgeCandidate(c) \/ CommitFails(c)
                              \/ EnsureGroups(c)
      PROVE  [ChainNext]_chainVars
  BY ZenonT(30), <1>3 DEF Identify, Confirm, Close, JudgeCandidate, CommitFails, EnsureGroups
<1>4. ASSUME NEW c \in Conns, NEW d \in Keys,
             Evict(c, d) \/ Authenticate(c, d) \/ VoidGrants(c, d)
      PROVE  [ChainNext]_chainVars
  BY <1>4 DEF Evict, Authenticate, VoidGrants
<1>5. ASSUME NEW c \in Conns, NEW k \in Candidates, ReadPrior(c, k)
      PROVE  [ChainNext]_chainVars
  BY <1>5 DEF ReadPrior
<1>6. ASSUME NEW d \in Keys, \/ Reserve(d) \/ Consume(d) \/ ReleaseExpired(d)
                             \/ GrantExpires(d) \/ ReserveBootstrap(d)
      PROVE  [ChainNext]_chainVars
  BY <1>6 DEF Reserve, Consume, ReleaseExpired, GrantExpires, ReserveBootstrap
<1>7. CASE ReleaseBootstrap \/ Crash \/ UNCHANGED vars
  BY <1>7 DEF ReleaseBootstrap, Crash, vars
<1>8. Devices \subseteq Keys /\ Joiners \subseteq Keys
  BY AccessConstants
<1> QED
  BY <1>1, <1>2, <1>3, <1>4, <1>5, <1>6, <1>7, <1>8 DEF Next

-----------------------------------------------------------------------------
(* The handlers' state, the hub and the grants stay well typed.              *)
LEMMA TypeKept ==
  ASSUME ChainTypeOK', TypeOK, SocketInv, CandInv, Next
  PROVE  TypeOK'
<1> USE DEF TypeOK, Steps, connVars, hubVars, grantVars, restVars
<1>1. ASSUME NEW c \in Conns, NEW d \in Devices, Authenticate(c, d)
      PROVE  TypeOK'
  BY <1>1, AccessConstants DEF Authenticate, Register, Resolves
<1>2. ASSUME NEW c \in Conns, Identify(c)
      PROVE  TypeOK'
  <2>1. dev[c] \in Keys
    BY <1>2 DEF Identify, SocketInv, StepsFit
  <2> QED
    BY <1>2, <2>1 DEF Identify
<1>3. ASSUME NEW c \in Conns, Confirm(c)
      PROVE  TypeOK'
  BY <1>3 DEF Confirm, Teardown, Register, Resolves
<1>4. ASSUME NEW c \in Conns, Close(c)
      PROVE  TypeOK'
  BY <1>4 DEF Close, Teardown
<1>5. ASSUME NEW c \in Conns, NEW k \in Candidates, ReadPrior(c, k)
      PROVE  TypeOK'
  BY <1>5 DEF ReadPrior, ChainTypeOK
<1>6. ASSUME NEW c \in Conns, JudgeCandidate(c)
      PROVE  TypeOK'
  BY <1>6 DEF JudgeCandidate, Leave
<1>7. ASSUME NEW c \in Conns, Commit(c)
      PROVE  TypeOK'
  <2>1. CASE VersionFree(cand[c])
    <3>1. /\ cand[c].content.entries \in SUBSET Keys
          /\ cand[c].content.authorizers \in SUBSET Keys
      BY <1>7, <2>1, AboutToStore DEF Commit, Offered, Content
    <3>2. Gone(c) \in SUBSET Keys
      BY DEF Gone, Removed, Prior
    <3>3. /\ seen' \in SUBSET Keys
          /\ grant' \in [Keys -> {"none", "live", "expired", "void"}]
          /\ dropped' \in SUBSET Keys /\ carried' \in SUBSET Keys
      BY <1>7, <2>1, <3>1 DEF Commit, Supersede
    <3>4. founding' \in Keys \cup {NoKey} /\ redeemed' \in BOOLEAN
      BY ZenonT(30), <1>7, <2>1 DEF Commit, ConsumeGenesis
    <3>5. /\ step' \in [Conns -> Steps]
          /\ cand' \in [Conns -> Candidates \cup {NoSet}]
          /\ prior' \in [Conns -> Prior \cup {NoSet}]
          /\ doomed' \in [Conns -> SUBSET Keys]
          /\ unanswered' \in SUBSET Keys
      BY <1>7, <2>1, <3>2 DEF Commit, AfterCommit, AnswerLost, Leave
    <3> QED
      BY <1>7, <2>1, <3>3, <3>4, <3>5 DEF Commit
  <2>2. CASE ~VersionFree(cand[c])
    BY <1>7, <2>2 DEF Commit, Leave
  <2> QED
    BY <2>1, <2>2
<1>8. ASSUME NEW c \in Conns, CommitFails(c) \/ EnsureGroups(c)
      PROVE  TypeOK'
  BY ZenonT(30), <1>8 DEF CommitFails, EnsureGroups, Leave
<1>9. ASSUME NEW c \in Conns, NEW e \in Keys, Evict(c, e)
      PROVE  TypeOK'
  BY <1>9 DEF Evict
<1>10. ASSUME NEW c \in Conns, NEW d \in Joiners, VoidGrants(c, d)
       PROVE  TypeOK'
  BY <1>10, AccessConstants DEF VoidGrants
<1>11. ASSUME NEW d \in Keys, Reserve(d) \/ Consume(d) \/ ReserveBootstrap(d)
       PROVE  TypeOK'
  BY <1>11 DEF Reserve, Consume, ReserveBootstrap, GrantTo
<1>12. ASSUME NEW d \in Keys, ReleaseExpired(d) \/ GrantExpires(d)
       PROVE  TypeOK'
  BY <1>12 DEF ReleaseExpired, GrantExpires
<1>13. ASSUME NEW d \in Keys, RotationWindow(d)
       PROVE  TypeOK'
  BY <1>13 DEF RotationWindow
<1>14. CASE ReleaseBootstrap
  BY <1>14 DEF ReleaseBootstrap
<1>15. CASE Crash
  BY <1>15 DEF Crash
<1> QED
  BY ZenonT(30), <1>1, <1>2, <1>3, <1>4, <1>5, <1>6, <1>7, <1>8, <1>9, <1>10, <1>11,
     <1>12, <1>13, <1>14, <1>15 DEF Next

-----------------------------------------------------------------------------
(* A handler stays within its socket, and dooms entries only to evict them.  *)
LEMMA SocketKept ==
  ASSUME TypeOK, SocketInv, CandInv, Next
  PROVE  SocketInv'
<1> USE DEF TypeOK, Steps, SocketInv, StepsFit, DoomedFits
<1>1. ASSUME NEW c \in Conns, NEW d \in Devices, Authenticate(c, d)
      PROVE  SocketInv'
  BY <1>1, AccessConstants DEF Authenticate
<1>2. ASSUME NEW c \in Conns, Identify(c)
      PROVE  SocketInv'
  BY <1>2 DEF Identify
<1>3. ASSUME NEW c \in Conns, Confirm(c) \/ Close(c)
      PROVE  SocketInv'
  BY <1>3 DEF Confirm, Close, Teardown
<1>4. ASSUME NEW c \in Conns, NEW k \in Candidates, ReadPrior(c, k)
      PROVE  SocketInv'
  BY <1>4 DEF ReadPrior, Receives
<1>5. ASSUME NEW c \in Conns,
             JudgeCandidate(c) \/ CommitFails(c) \/ EnsureGroups(c)
      PROVE  SocketInv'
  <2>1. /\ UNCHANGED <<session, dev, doomed>>
        /\ step[c] \in {"judge", "commit", "groups"}
        /\ \E next \in {"idle", "commit"} : step' = [step EXCEPT ![c] = next]
    BY ZenonT(30), <1>5 DEF JudgeCandidate, CommitFails, EnsureGroups, Leave
  <2> QED
    BY <2>1
<1>6. ASSUME NEW c \in Conns, Commit(c)
      PROVE  SocketInv'
  <2>1. UNCHANGED <<session, dev>> /\ step[c] = "commit"
    BY <1>6 DEF Commit
  <2>2. CASE VersionFree(cand[c]) /\ AfterCommit(c)
    <3>1. cand[c].version = 0 => Gone(c) = {}
      BY <1>6, <2>2, AboutToStore
      DEF Commit, Gone, NextVersion, ChainTypeOK, Prior
    <3> QED
      BY <2>1, <2>2, <3>1 DEF AfterCommit, Leave
  <2>3. CASE VersionFree(cand[c]) /\ AnswerLost(c)
    BY <2>1, <2>3 DEF AnswerLost, Leave
  <2>4. CASE ~VersionFree(cand[c])
    BY <1>6, <2>1, <2>4 DEF Commit, Leave
  <2> QED
    BY <1>6, <2>2, <2>3, <2>4 DEF Commit
<1>7. ASSUME NEW c \in Conns, NEW e \in Keys, Evict(c, e)
      PROVE  SocketInv'
  BY <1>7 DEF Evict
<1>8. ASSUME NEW c \in Conns, NEW d \in Joiners, VoidGrants(c, d)
      PROVE  SocketInv'
  BY <1>8 DEF VoidGrants, Receives
<1>9. ASSUME NEW d \in Keys, \/ Reserve(d) \/ Consume(d) \/ ReleaseExpired(d)
                             \/ GrantExpires(d) \/ ReserveBootstrap(d)
                             \/ RotationWindow(d)
      PROVE  SocketInv'
  BY <1>9 DEF Reserve, Consume, ReleaseExpired, GrantExpires, ReserveBootstrap,
              RotationWindow, connVars
<1>10. CASE ReleaseBootstrap
  BY <1>10 DEF ReleaseBootstrap, connVars
<1>11. CASE Crash
  BY <1>11 DEF Crash
<1> QED
  BY ZenonT(30), <1>1, <1>2, <1>3, <1>4, <1>5, <1>6, <1>7, <1>8, <1>9, <1>10, <1>11 DEF Next

-----------------------------------------------------------------------------
(* A publication keeps what was read and judged for it, or loses its         *)
(* version (store::publish, the compare-and-swap).                           *)
LEMMA CandKept ==
  ASSUME TypeOK, SocketInv, CandInv, Next
  PROVE  CandInv'
<1> USE DEF TypeOK, Steps, CandInv, ReadFits, JudgedFits, Publishing
<1>1. ASSUME UNCHANGED <<chainVars, cand, prior>>,
             \A c \in Conns : step'[c] \in Publishing => step'[c] = step[c]
      PROVE  CandInv'
  BY <1>1 DEF chainVars, VersionFree, NextVersion
<1>2. ASSUME NEW c \in Conns, NEW k \in Candidates, ReadPrior(c, k)
      PROVE  CandInv'
  BY <1>2 DEF ReadPrior, chainVars, VersionFree, NextVersion
<1>3. ASSUME NEW c \in Conns, JudgeCandidate(c)
      PROVE  CandInv'
  <2>1. CASE Judge(cand[c], prior[c], onProbation, pins,
                   cand[c].signer \in rotated)
    BY <1>3, <2>1 DEF JudgeCandidate, chainVars, VersionFree, NextVersion
  <2>2. CASE ~Judge(cand[c], prior[c], onProbation, pins,
                    cand[c].signer \in rotated)
    BY <1>3, <2>2 DEF JudgeCandidate, Leave, chainVars, VersionFree, NextVersion
  <2> QED
    BY <2>1, <2>2
<1>4. ASSUME NEW c \in Conns, Leave(c, step'[c]), step'[c] \notin Publishing,
             UNCHANGED chainVars
      PROVE  CandInv'
  BY <1>4 DEF Leave, chainVars, VersionFree, NextVersion
<1>5. ASSUME NEW c \in Conns, Commit(c)
      PROVE  CandInv'
  <2>1. Leave(c, step'[c]) /\ step'[c] \notin Publishing
    BY <1>5 DEF Commit, AfterCommit, AnswerLost, Leave
  <2>2. CASE VersionFree(cand[c])
    <3>1. /\ Offered(cand[c])
          /\ cand[c].version = NextVersion
          /\ head' = SetOf(cand[c])
      BY <1>5, <2>2, AboutToStore DEF Commit, Store
    <3>2. ASSUME NEW k \in Conns, step'[k] \in Publishing
          PROVE  cand'[k] \in Candidates /\ ~VersionFree(cand[k])'
      <4>1. /\ k # c /\ cand'[k] = cand[k]
            /\ step[k] \in Publishing
        BY <2>1, <3>2 DEF Leave
      <4>2. /\ cand[k] \in Candidates /\ cand[k].version \in Nat
            /\ VersionFree(cand[k]) => cand[k].version = NextVersion
        BY <4>1, ChainConstants DEF Candidates
      <4>3. (head = NoSet \/ cand[k].version > head.version)
              => cand[k].version = NextVersion
        BY <4>2 DEF VersionFree
      <4>4. head' # NoSet /\ ~(cand[k].version > head'.version)
        BY <3>1, <4>2, <4>3, StoreTakesVersion
      <4> QED
        BY <4>1, <4>2, <4>4 DEF VersionFree
    <3> QED
      BY <3>2 DEF VersionFree
  <2>3. CASE ~VersionFree(cand[c])
    BY ZenonT(30), <1>4, <1>5, <2>1, <2>3 DEF Commit
  <2> QED
    BY <2>2, <2>3
<1>6. ASSUME NEW c \in Conns, CommitFails(c)
      PROVE  CandInv'
  BY ZenonT(30), <1>4, <1>6 DEF CommitFails, Leave
<1>7. ASSUME NEW k \in Keys, RotationWindow(k)
      PROVE  CandInv'
  <2>1. /\ UNCHANGED <<head, onProbation, pins, step, cand, prior>>
        /\ rotated' \subseteq rotated
    BY <1>7 DEF RotationWindow, WindowPasses, connVars
  <2>2. ReadFits'
    BY <2>1 DEF VersionFree, NextVersion
  <2>3. ASSUME NEW c \in Conns, step'[c] = "commit", VersionFree(cand[c])'
        PROVE  Judge(cand[c], head, onProbation, pins,
                     cand[c].signer \in rotated)'
    <3>1. Judge(cand[c], head, onProbation, pins, cand[c].signer \in rotated)
      BY <2>1, <2>3 DEF VersionFree
    <3>2. Judge(cand[c], head, onProbation, pins, cand[c].signer \in rotated')
      BY <2>1, <3>1, JudgeMonotone
    <3> QED
      BY <2>1, <3>2
  <2> QED
    BY ZenonT(30), <2>2, <2>3
<1>8. ASSUME NEW c \in Conns, NEW d \in Keys,
             Authenticate(c, d) \/ Evict(c, d) \/ VoidGrants(c, d)
      PROVE  CandInv'
  <2>1. UNCHANGED <<chainVars, cand, prior>>
    BY <1>8 DEF Authenticate, Evict, VoidGrants
  <2>2. \/ UNCHANGED step
        \/ \E next \in {"identify", "idle", "evict"} :
             step' = [step EXCEPT ![c] = next]
    BY <1>8 DEF Authenticate, Evict, VoidGrants
  <2> QED
    BY <1>1, <2>1, <2>2
<1>9. ASSUME NEW c \in Conns,
             Identify(c) \/ Confirm(c) \/ Close(c) \/ EnsureGroups(c)
      PROVE  CandInv'
  BY ZenonT(30), <1>1, <1>9 DEF Identify, Confirm, Close, Teardown, EnsureGroups
<1>10. ASSUME NEW d \in Keys, \/ Reserve(d) \/ Consume(d) \/ ReleaseExpired(d)
                              \/ GrantExpires(d) \/ ReserveBootstrap(d)
       PROVE  CandInv'
  BY ZenonT(30), <1>1, <1>10 DEF Reserve, Consume, ReleaseExpired, GrantExpires,
                     ReserveBootstrap, connVars
<1>11. CASE ReleaseBootstrap
  BY <1>1, <1>11 DEF ReleaseBootstrap, connVars
<1>12. CASE Crash
  BY <1>12 DEF Crash
<1>13. Devices \subseteq Keys /\ Joiners \subseteq Keys
  BY AccessConstants
<1> QED
  BY ZenonT(30), <1>2, <1>3, <1>5, <1>6, <1>7, <1>8, <1>9, <1>10, <1>11, <1>12, <1>13
  DEF Next

-----------------------------------------------------------------------------
(* The hub knows exactly the sockets it must: registered until they end or   *)
(* are signalled (Hub::identify, Hub::evict, Hub::disconnect).               *)
LEMMA HubKept ==
  ASSUME TypeOK, SocketInv, HubInv, Next
  PROVE  HubInv'
<1> USE DEF TypeOK, Steps, HubInv, RegistryLive, Registered
<1>1. ASSUME UNCHANGED <<session, dev, principals, evicted>>,
             \A c \in Conns : step'[c] = "confirm" => step'[c] = step[c]
      PROVE  HubInv'
  BY <1>1
<1>2. ASSUME NEW c \in Conns, NEW d \in Devices, Authenticate(c, d)
      PROVE  HubInv'
  BY <1>2 DEF Authenticate, hubVars
<1>3. ASSUME NEW c \in Conns, Identify(c)
      PROVE  HubInv'
  BY <1>3 DEF Identify, SocketInv, StepsFit
<1>4. ASSUME NEW c \in Conns, Teardown(c)
      PROVE  HubInv'
  BY <1>4 DEF Teardown
<1>5. ASSUME NEW c \in Conns, Confirm(c)
      PROVE  HubInv'
  BY <1>4, <1>5 DEF Confirm, hubVars
<1>6. ASSUME NEW c \in Conns, NEW e \in Keys, Evict(c, e)
      PROVE  HubInv'
  BY <1>6 DEF Evict
<1>7. ASSUME NEW c \in Conns,
             \/ Close(c) \/ JudgeCandidate(c) \/ Commit(c)
             \/ CommitFails(c) \/ EnsureGroups(c)
      PROVE  HubInv'
  <2>1. CASE Close(c)
    BY <1>4, <2>1 DEF Close
  <2>2. CASE Commit(c)
    <3>1. /\ UNCHANGED <<session, dev, principals, evicted>>
          /\ \E next \in {"idle", "groups", "evict"} :
               step' = [step EXCEPT ![c] = next]
      BY <2>2 DEF Commit, AfterCommit, AnswerLost, Leave, hubVars
    <3> QED
      BY <1>1, <3>1
  <2>3. CASE JudgeCandidate(c) \/ CommitFails(c) \/ EnsureGroups(c)
    <3>1. /\ UNCHANGED <<session, dev, principals, evicted>>
          /\ \E next \in {"idle", "commit"} : step' = [step EXCEPT ![c] = next]
      BY ZenonT(30), <2>3 DEF JudgeCandidate, CommitFails, EnsureGroups, Leave, hubVars
    <3> QED
      BY <1>1, <3>1
  <2> QED
    BY <1>7, <2>1, <2>2, <2>3
<1>8. ASSUME NEW c \in Conns, NEW k \in Candidates, ReadPrior(c, k)
      PROVE  HubInv'
  BY <1>1, <1>8 DEF ReadPrior, hubVars
<1>9. ASSUME NEW c \in Conns, NEW d \in Joiners, VoidGrants(c, d)
      PROVE  HubInv'
  BY <1>1, <1>9 DEF VoidGrants, hubVars
<1>10. ASSUME NEW d \in Keys, \/ Reserve(d) \/ Consume(d) \/ ReleaseExpired(d)
                              \/ GrantExpires(d) \/ ReserveBootstrap(d)
                              \/ RotationWindow(d)
       PROVE  HubInv'
  BY <1>1, <1>10 DEF Reserve, Consume, ReleaseExpired, GrantExpires,
                     ReserveBootstrap, RotationWindow, connVars, hubVars
<1>11. CASE ReleaseBootstrap
  BY <1>1, <1>11 DEF ReleaseBootstrap, connVars, hubVars
<1>12. CASE Crash
  BY <1>12 DEF Crash
<1> QED
  BY ZenonT(30), <1>2, <1>3, <1>5, <1>6, <1>7, <1>8, <1>9, <1>10, <1>11, <1>12 DEF Next

-----------------------------------------------------------------------------
(* A socket whose device loses its place is signalled, or its eviction is    *)
(* under way (ws::rotate_access_set, ws::administer_invite).                 *)
LEMMA GrantKept ==
  ASSUME TypeOK, SocketInv, CandInv, HubInv, GrantInv, Next
  PROVE  GrantInv'
<1> USE DEF TypeOK, GrantInv, SeenCarried, NoStaleSocket, Placeless, Entries
(* Steps that neither open a socket nor take a place. *)
<1>1. ASSUME UNCHANGED <<head, grant, seen, doomed, evicted, unanswered>>,
             \A c \in Conns : session'[c] = "ready" =>
                                session[c] = "ready" /\ dev'[c] = dev[c]
      PROVE  GrantInv'
  BY <1>1
<1>2. ASSUME NEW c \in Conns, NEW d \in Devices, Authenticate(c, d)
      PROVE  GrantInv'
  BY <1>1, <1>2 DEF Authenticate, chainVars, hubVars, grantVars
<1>3. ASSUME NEW c \in Conns, Teardown(c),
             UNCHANGED <<head, grant, seen, doomed, unanswered>>
      PROVE  GrantInv'
  BY <1>3 DEF Teardown
<1>4. ASSUME NEW c \in Conns, Confirm(c)
      PROVE  GrantInv'
  <2>1. CASE Admitted(dev[c])
    BY <1>4, <2>1
    DEF Confirm, Admitted, Admits, chainVars, hubVars, grantVars
  <2>2. CASE ~Admitted(dev[c])
    BY <1>3, <1>4, <2>2 DEF Confirm, chainVars, grantVars
  <2> QED
    BY <2>1, <2>2
<1>5. ASSUME NEW c \in Conns,
             \/ Identify(c) \/ Close(c) \/ JudgeCandidate(c)
             \/ CommitFails(c) \/ EnsureGroups(c)
      PROVE  GrantInv'
  BY ZenonT(30), <1>1, <1>3, <1>5
  DEF Identify, Close, JudgeCandidate, CommitFails, EnsureGroups, chainVars,
      hubVars, grantVars, restVars
<1>6. ASSUME NEW c \in Conns, NEW k \in Candidates, ReadPrior(c, k)
      PROVE  GrantInv'
  BY <1>1, <1>6 DEF ReadPrior, chainVars, hubVars, grantVars, restVars
<1>7. ASSUME NEW c \in Conns, Commit(c)
      PROVE  GrantInv'
  <2>1. CASE VersionFree(cand[c])
    <3> DEFINE kept == cand[c].content.entries
    <3>1. /\ head' # NoSet /\ head'.entries = kept
          /\ prior[c] = head
          /\ UNCHANGED <<session, dev, evicted>>
          /\ doomed[c] = {}
      BY ZenonT(30), <1>7, <2>1, AboutToStore, StoredSet
      DEF Commit, Store, SocketInv, DoomedFits, hubVars
    <3>2. Gone(c) = Entries \ kept
      BY <3>1 DEF Gone, Removed
    <3>3. \A h \in Conns : h # c => doomed'[h] = doomed[h]
      BY <1>7, <2>1 DEF Commit, AfterCommit, AnswerLost
    <3>4. /\ Gone(c) \subseteq doomed'[c] \cup unanswered'
          /\ unanswered \ kept \subseteq unanswered'
      BY ZenonT(30), <1>7, <2>1 DEF Commit, AfterCommit, AnswerLost
    <3> DEFINE marked == seen \cup {d \in kept : grant[d] \in {"live", "expired"}}
    <3>5. /\ seen' = marked
          /\ \A d \in Keys :
               grant'[d] = IF d \in marked \ kept
                              /\ grant[d] \in {"live", "expired"}
                           THEN "void" ELSE grant[d]
      BY ZenonT(30), <1>7, <2>1 DEF Commit, Supersede
    <3>6. SeenCarried'
      BY <3>1, <3>5
    <3>7. ASSUME NEW k \in Conns, session'[k] = "ready", Placeless(dev[k])'
          PROVE  \/ k \in evicted'
                 \/ \E h \in Conns : dev'[k] \in doomed'[h]
                 \/ dev'[k] \in unanswered'
      <4> DEFINE d == dev[k]
      <4>1. dev'[k] = d /\ session[k] = "ready" /\ d \in Keys
        BY <3>1, <3>7 DEF SocketInv, StepsFit
      <4>2. d \notin kept /\ grant'[d] \in {"none", "void"}
        BY <3>1, <3>7, <4>1
      <4>3. CASE d \in Entries
        BY <3>2, <3>4, <4>1, <4>2, <4>3
      <4>4. CASE d \notin Entries
        <5>1. ~(d \in seen /\ grant[d] \in {"live", "expired"})
          BY <4>4
        <5>2. grant[d] \in {"none", "void"}
          BY <3>5, <4>1, <4>2, <5>1
        <5>3. \/ k \in evicted
              \/ \E h \in Conns : d \in doomed[h]
              \/ d \in unanswered
          BY <4>1, <4>4, <5>2
        <5> QED
          BY <3>1, <3>3, <3>4, <4>1, <4>2, <5>3
      <4> QED
        BY <4>3, <4>4
    <3> QED
      BY <3>6, <3>7
  <2>2. CASE ~VersionFree(cand[c])
    BY ZenonT(30), <1>1, <1>7, <2>2 DEF Commit, chainVars, hubVars, grantVars
  <2> QED
    BY <2>1, <2>2
<1>8. ASSUME NEW c \in Conns, NEW e \in Keys, Evict(c, e)
      PROVE  GrantInv'
  <2>1. /\ UNCHANGED <<head, grant, seen, session, dev, unanswered>>
        /\ evicted \subseteq evicted'
        /\ \A k \in Conns : <<e, k>> \in principals => k \in evicted'
        /\ \A h \in Conns : doomed[h] \ {e} \subseteq doomed'[h]
    BY <1>8 DEF Evict, chainVars, grantVars, restVars
  <2>2. \A k \in Conns : session[k] = "ready" /\ dev[k] = e => k \in evicted'
    BY ZenonT(30), <2>1 DEF HubInv, Registered
  <2> QED
    BY <2>1, <2>2
<1>9. ASSUME NEW c \in Conns, NEW d \in Joiners, VoidGrants(c, d)
      PROVE  GrantInv'
  <2>1. /\ UNCHANGED <<head, seen, session, dev, evicted>>
        /\ grant' = [grant EXCEPT ![d] = "void"]
    BY ZenonT(30), <1>9 DEF VoidGrants, chainVars, hubVars
  <2>2. doomed[c] = {}
    BY ZenonT(30), <1>9 DEF VoidGrants, Receives, SocketInv, DoomedFits
  <2>3. \/ doomed' = [doomed EXCEPT ![c] = {d}] /\ UNCHANGED unanswered
        \/ unanswered' = unanswered \cup {d} /\ UNCHANGED doomed
    BY <1>9 DEF VoidGrants
  <2>4. /\ d \in doomed'[c] \cup unanswered'
        /\ unanswered \subseteq unanswered'
        /\ \A h \in Conns : doomed[h] \subseteq doomed'[h]
    BY <2>2, <2>3
  <2>5. SeenCarried'
    BY <2>1
  <2>6. \A k \in Keys \ {d} : grant'[k] = grant[k]
    BY <2>1
  <2>7. \A k \in Conns : session[k] = "ready" => dev[k] \in Keys
    BY DEF SocketInv, StepsFit
  <2>8. ASSUME NEW k \in Conns, session'[k] = "ready", Placeless(dev[k])'
        PROVE  \/ k \in evicted'
               \/ \E h \in Conns : dev'[k] \in doomed'[h]
               \/ dev'[k] \in unanswered'
    <3>1. CASE dev[k] = d
      BY <2>1, <2>4, <3>1
    <3>2. CASE dev[k] # d
      <4>1. session[k] = "ready" /\ Placeless(dev[k])
        BY <2>1, <2>6, <2>7, <2>8, <3>2
      <4>2. \/ k \in evicted
            \/ \E h \in Conns : dev[k] \in doomed[h]
            \/ dev[k] \in unanswered
        BY <4>1
      <4> QED
        BY <2>1, <2>4, <4>2
    <3> QED
      BY <3>1, <3>2
  <2> QED
    BY ZenonT(30), <2>5, <2>8
<1>10. ASSUME NEW d \in Keys, \/ Reserve(d) \/ Consume(d)
                              \/ GrantExpires(d) \/ ReserveBootstrap(d)
       PROVE  GrantInv'
  <2>1. UNCHANGED <<head, session, dev, doomed, evicted, unanswered>>
    BY ZenonT(30), <1>10 DEF Reserve, Consume, GrantExpires, ReserveBootstrap,
                 chainVars, connVars, hubVars, restVars
  <2>2. \/ UNCHANGED <<grant, seen>>
        \/ grant' = [grant EXCEPT ![d] = "live"] /\ seen' = seen \ {d}
        \/ /\ grant[d] = "live" /\ UNCHANGED seen
           /\ grant' = [grant EXCEPT ![d] = "expired"]
    BY <1>10 DEF Reserve, Consume, GrantExpires, ReserveBootstrap, GrantTo
  <2>3. SeenCarried'
    BY <2>1, <2>2
  <2>4. \A k \in Keys : grant'[k] \in {"none", "void"} => grant'[k] = grant[k]
    BY <2>2
  <2>5. \A c \in Conns : session[c] = "ready" => dev[c] \in Keys
    BY DEF SocketInv, StepsFit
  <2>6. NoStaleSocket'
    BY <2>1, <2>4, <2>5
  <2> QED
    BY ZenonT(30), <2>3, <2>6
<1>11. ASSUME NEW d \in Keys, ReleaseExpired(d) \/ RotationWindow(d)
       PROVE  GrantInv'
  BY <1>1, <1>11 DEF ReleaseExpired, RotationWindow, WindowPasses, chainVars,
                     connVars, hubVars, grantVars, restVars
<1>12. CASE ReleaseBootstrap
  BY ZenonT(30), <1>1, <1>12 DEF ReleaseBootstrap, chainVars, connVars, hubVars, restVars
<1>13. CASE Crash
  BY <1>13 DEF Crash, chainVars, grantVars
<1> QED
  BY ZenonT(30), <1>2, <1>4, <1>5, <1>6, <1>7, <1>8, <1>9, <1>10, <1>11, <1>12, <1>13
  DEF Next

-----------------------------------------------------------------------------
(* Every step keeps the invariant.                                           *)
LEMMA AccessNextKeeps == AccessInv /\ [Next]_vars => AccessInv'
<1> SUFFICES ASSUME AccessInv, [Next]_vars PROVE AccessInv'
  OBVIOUS
<1>1. ChainInv'
  BY StepRefines, NextKeeps DEF AccessInv
<1>2. CASE Next
  <2>1. ChainTypeOK'
    BY <1>1 DEF ChainInv
  <2> QED
    BY <1>1, <1>2, <2>1, TypeKept, SocketKept, CandKept, HubKept, GrantKept
    DEF AccessInv
<1>3. CASE UNCHANGED vars
  <2> USE <1>3 DEF vars, connVars, hubVars, grantVars, restVars, chainVars
  <2>1. TypeOK'
    BY DEF AccessInv, TypeOK, ChainTypeOK
  <2>2. SocketInv'
    BY ZenonT(30) DEF AccessInv, SocketInv, StepsFit, DoomedFits
  <2>3. CandInv'
    BY DEF AccessInv, CandInv, ReadFits, JudgedFits, VersionFree, NextVersion
  <2>4. HubInv'
    BY DEF AccessInv, HubInv, RegistryLive, Registered
  <2>5. GrantInv'
    BY DEF AccessInv, GrantInv, SeenCarried, NoStaleSocket, Placeless, Entries
  <2> QED
    BY <1>1, <2>1, <2>2, <2>3, <2>4, <2>5 DEF AccessInv
<1> QED
  BY <1>2, <1>3

(* The invariant holds in every behaviour.                                   *)
THEOREM AccessInvariant == Spec => []AccessInv
<1>1. Init => AccessInv
  <2> SUFFICES ASSUME Init PROVE AccessInv
    OBVIOUS
  <2>1. ChainInv
    BY ZenonT(30) DEF Init, ChainInit, ChainInv, ChainTypeOK, WellShaped, UnfoundedFree,
           QuorumKnown, ProbationHolds, AuthorityRooted, RootKept
  <2>2. TypeOK
    BY ZenonT(30), <2>1 DEF Init, TypeOK, Steps, ChainInv
  <2>3. SocketInv /\ CandInv
    BY DEF Init, SocketInv, StepsFit, DoomedFits, CandInv, ReadFits,
           JudgedFits, Publishing
  <2>4. HubInv /\ GrantInv
    BY DEF Init, HubInv, RegistryLive, Registered, GrantInv, SeenCarried,
           NoStaleSocket
  <2> QED
    BY <2>1, <2>2, <2>3, <2>4 DEF AccessInv
<1> QED
  BY <1>1, AccessNextKeeps, PTL DEF Spec

(* The tables, the hub and the handlers stay well typed.                     *)
THEOREM AccessTypeCorrect == Spec => []TypeOK
<1>1. AccessInv => TypeOK
  BY DEF AccessInv
<1> QED
  BY <1>1, AccessInvariant, PTL

(* The interleaved handlers implement the atomic chain: a publication is     *)
(* judged against the set it replaces (store::publish).                      *)
THEOREM ChainRefined == Spec => ChainSpec
<1>1. Init => ChainInit
  BY DEF Init
<1>2. AccessInv /\ [Next]_vars => [ChainNext]_chainVars
  BY StepRefines DEF AccessInv
<1> QED
  BY <1>1, <1>2, AccessInvariant, PTL DEF Spec, ChainSpec

(* No admitted socket survives the set, or the void, that took its device's  *)
(* place (ws::perform, Work::Authenticate; Hub::evict).                      *)
THEOREM NoStaleSocketCorrect == Spec => []NoStaleSocket
<1>1. AccessInv => NoStaleSocket
  BY DEF AccessInv, GrantInv
<1> QED
  BY <1>1, AccessInvariant, PTL

(* The hub lists only open sockets, under their own device                   *)
(* (Hub::disconnect).                                                        *)
THEOREM RegistryLiveCorrect == Spec => []RegistryLive
<1>1. AccessInv => RegistryLive
  BY DEF AccessInv, HubInv
<1> QED
  BY <1>1, AccessInvariant, PTL

(* Under concurrent publications too, and as long as the group has only had   *)
(* quorums that an authorizer off probation registered, no authorizer escapes *)
(* probation and one free of it is left (store::publish, judge).              *)
THEOREM AuthorityKept == Spec => [](AuthorityRooted /\ RootKept)
<1>1. AccessInv => AuthorityRooted /\ RootKept
  BY DEF AccessInv, ChainInv
<1> QED
  BY <1>1, AccessInvariant, PTL

=============================================================================
