------------------------------ MODULE AccessSet ------------------------------
(***************************************************************************)
(* Admission to one workspace: sockets that authenticate, handlers that    *)
(* publish access sets, provisional grants, and the hub that closes the    *)
(* sockets of a device that lost its place (access/store.rs, ws.rs,        *)
(* hub.rs).  Each socket runs one handler at a time; a handler is cut      *)
(* where it awaits the database or a lock of the hub, and handlers of      *)
(* different sockets interleave at these cuts.  What one transaction does  *)
(* is one step: of two transactions that touch the same grant row one      *)
(* waits for the other, and a row that a transaction does not see yet      *)
(* orders its writer after it.                                             *)
(*                                                                         *)
(* The judgement and the stored chain are AccessChain's.  Left out: the    *)
(* diagnostic mode with enforcement off, read-only mode, the frame rate    *)
(* limits, push registrations, and all of an invite (its uses, extension   *)
(* and revocation, the attempts on its code) but the seat that             *)
(* backs a grant.  A bootstrap reservation and its grant expire together,  *)
(* so the founder is admitted on the grant and the session state           *)
(* Bootstrapping, for a founder without one, is not reached.               *)
(***************************************************************************)
EXTENDS AccessChain

CONSTANTS
  Conns,       \* sockets
  Devices,     \* keys that open sockets
  Signers,     \* keys that sign publications
  Joiners,     \* devices that may redeem an invite
  Founders,    \* devices that may redeem the bootstrap invite
  NoKey        \* no device

VARIABLES
  session,     \* Session::state of each socket
  step,        \* where its handler is
  dev,         \* the device it authenticates as
  cand,        \* the publication its handler carries
  prior,       \* the set that publication is judged against, as it was read
  doomed,      \* entries its handler has yet to evict
  principals,  \* Hub::principals: <<entry, socket>>
  evicted,     \* sockets whose eviction signal is set
  grant,       \* relay_provisional_grant of each device
  seen,        \* grants whose seen_version is set
  seat,        \* relay_invite_reservation of each device
  founding,    \* the device holding the bootstrap reservation
  redeemed,    \* relay_genesis.secret_key is null
  groups,      \* relay_group has the rows of the workspace's groups
  carried,     \* history: joiners that an accepted set carried
  dropped,     \* history: of those, the ones a later set did not carry
  unanswered   \* history: entries whose handler never learned they were removed

connVars  == <<session, step, dev, cand, prior, doomed>>
hubVars   == <<principals, evicted>>
grantVars == <<grant, seen, seat, founding, redeemed, carried, dropped>>
restVars  == <<groups, unanswered>>
vars == <<chainVars, connVars, hubVars, grantVars, restVars>>

Steps == {"idle", "identify", "confirm", "judge", "commit", "groups", "evict"}
Candidates == [content : Contents, version : 0..MaxVersion, signer : Signers]

ASSUME AccessConstants ==
  /\ {Devices, Signers, Joiners, Founders} \subseteq SUBSET Keys
  /\ NoKey \notin Keys

TypeOK ==
  /\ ChainTypeOK
  /\ session \in [Conns -> {"closed", "auth", "ready"}]
  /\ step \in [Conns -> Steps]
  /\ dev \in [Conns -> Keys \cup {NoKey}]
  /\ cand \in [Conns -> Candidates \cup {NoSet}]
  /\ prior \in [Conns -> Prior \cup {NoSet}]
  /\ doomed \in [Conns -> SUBSET Keys]
  /\ principals \in SUBSET (Keys \X Conns)
  /\ evicted \in SUBSET Conns
  /\ grant \in [Keys -> {"none", "live", "expired", "void"}]
  /\ seen \in SUBSET Keys
  /\ seat \in [Keys -> {"none", "held", "spent"}]
  /\ founding \in Keys \cup {NoKey}
  /\ redeemed \in BOOLEAN /\ groups \in BOOLEAN
  /\ {carried, dropped, unanswered} \subseteq SUBSET Keys

-----------------------------------------------------------------------------
(* Admission. *)

Entries == IF head = NoSet THEN {} ELSE head.entries

Admits(d) == d \in Entries \/ grant[d] = "live"

(* The workspace is resolved from a group row, else from the bootstrap       *)
(* reservation, which is live exactly as long as the grant it wrote.         *)
Resolves(d) == groups \/ (founding = d /\ grant[d] = "live")

Admitted(d) == Resolves(d) /\ Admits(d)

(* A member's admission registers the groups it named (ensure_groups). *)
Register(d) == groups' = (groups \/ (Resolves(d) /\ d \in Entries))

(* AUTH, up to the first answer of `admit`. *)
Authenticate(c, d) ==
  /\ session[c] = "closed"
  /\ Admitted(d)
  /\ session' = [session EXCEPT ![c] = "auth"]
  /\ step' = [step EXCEPT ![c] = "identify"]
  /\ dev' = [dev EXCEPT ![c] = d]
  /\ Register(d)
  /\ UNCHANGED <<chainVars, cand, prior, doomed, hubVars, grantVars,
                 unanswered>>

Identify(c) ==
  /\ step[c] = "identify"
  /\ principals' = principals \cup {<<dev[c], c>>}
  /\ step' = [step EXCEPT ![c] = "confirm"]
  /\ UNCHANGED <<chainVars, session, dev, cand, prior, doomed, evicted,
                 grantVars, restVars>>

TeardownUnlisted(c) ==
  /\ session' = [session EXCEPT ![c] = "closed"]
  /\ step' = [step EXCEPT ![c] = "idle"]
  /\ dev' = [dev EXCEPT ![c] = NoKey]
  /\ UNCHANGED principals
  /\ evicted' = evicted \ {c}

(* Hub::disconnect and the end of the socket. *)
Teardown(c) ==
  /\ session' = [session EXCEPT ![c] = "closed"]
  /\ step' = [step EXCEPT ![c] = "idle"]
  /\ dev' = [dev EXCEPT ![c] = NoKey]
  /\ principals' = {p \in principals : p[2] # c}
  /\ evicted' = evicted \ {c}

ConfirmOnce(c) ==
  /\ step[c] = "confirm"
  /\ session' = [session EXCEPT ![c] = "ready"]
  /\ step' = [step EXCEPT ![c] = "idle"]
  /\ UNCHANGED <<dev, hubVars>>
  /\ Register(dev[c])
  /\ UNCHANGED <<chainVars, cand, prior, doomed, grantVars, unanswered>>

(* Membership is read again once the hub knows the socket. *)
Confirm(c) ==
  /\ step[c] = "confirm"
  /\ IF Admitted(dev[c])
     THEN /\ session' = [session EXCEPT ![c] = "ready"]
          /\ step' = [step EXCEPT ![c] = "idle"]
          /\ UNCHANGED <<dev, hubVars>>
     ELSE Teardown(c)
  /\ Register(dev[c])
  /\ UNCHANGED <<chainVars, cand, prior, doomed, grantVars, unanswered>>

(* The reader loop ends: the peer went away, a deadline passed, or the       *)
(* eviction signal is set.                                                   *)
Close(c) ==
  /\ session[c] = "ready" /\ step[c] = "idle"
  /\ Teardown(c)
  /\ UNCHANGED <<chainVars, cand, prior, doomed, grantVars, restVars>>

(* The next frame of a socket is handled only if it is not evicted. *)
Receives(c) ==
  /\ session[c] = "ready" /\ step[c] = "idle"
  /\ c \notin evicted

-----------------------------------------------------------------------------
(* Publication. *)

(* `current` reads the set in force.  A publication of another version than  *)
(* the next is refused by `judge` and changes nothing.                       *)
ReadPrior(c, k) ==
  /\ Receives(c)
  /\ k.version = NextVersion
  /\ cand' = [cand EXCEPT ![c] = k]
  /\ prior' = [prior EXCEPT ![c] = head]
  /\ step' = [step EXCEPT ![c] = "judge"]
  /\ UNCHANGED <<chainVars, session, dev, doomed, hubVars, grantVars, restVars>>

(* The handler moves on from the publication it carried. *)
Leave(c, next) ==
  /\ step' = [step EXCEPT ![c] = next]
  /\ cand' = [cand EXCEPT ![c] = NoSet]
  /\ prior' = [prior EXCEPT ![c] = NoSet]

(* It then reads the probations, and `publish` the rotation limit. *)
JudgeCandidate(c) ==
  /\ step[c] = "judge"
  /\ IF Judge(cand[c], prior[c], onProbation, pins, cand[c].signer \in rotated)
     THEN /\ step' = [step EXCEPT ![c] = "commit"]
          /\ UNCHANGED <<cand, prior>>
     ELSE Leave(c, "idle")
  /\ UNCHANGED <<chainVars, session, dev, doomed, hubVars, grantVars, restVars>>

OverwritesVersion(k) == TRUE

(* The compare-and-swap: no row for (workspace, version) yet. *)
VersionFree(k) == head = NoSet \/ k.version > head.version

(* Both halves of the implicit rule: a carried grant is marked, a marked     *)
(* grant that is not carried is void.                                        *)
Supersede(entries) ==
  LET marked == seen \cup {d \in entries : grant[d] \in {"live", "expired"}}
      voids  == {d \in marked \ entries : grant[d] \in {"live", "expired"}}
  IN /\ seen' = marked
     /\ grant' = [d \in Keys |-> IF d \in voids THEN "void" ELSE grant[d]]
     /\ dropped' = dropped \cup (carried \ entries)
     /\ carried' = carried \cup {d \in entries : seat[d] # "none"}

(* genesis::consume_in_tx: the bootstrap seat is spent, the genesis key dies.*)
ConsumeGenesis(k) ==
  IF k.version = 0 /\ founding # NoKey /\ k.content.authorizers = {founding}
  THEN founding' = NoKey /\ redeemed' = TRUE
  ELSE UNCHANGED <<founding, redeemed>>

Gone(c) == IF prior[c] = NoSet THEN {} ELSE Removed(cand[c].content, prior[c])

(* What is left to do after the transaction: publish_founding registers the  *)
(* founder's groups, then the removed entries are evicted.                   *)
AfterCommit(c) ==
  /\ doomed' = [doomed EXCEPT ![c] = Gone(c)]
  /\ Leave(c, IF cand[c].version = 0 THEN "groups"
              ELSE IF Gone(c) = {} THEN "idle" ELSE "evict")
  /\ unanswered' = unanswered \ cand[c].content.entries

(* The transaction lands but the connection to the database breaks before it *)
(* says so: `publish` reports an error and nothing follows.                  *)
AnswerLost(c) ==
  /\ Leave(c, "idle")
  /\ unanswered' = (unanswered \ cand[c].content.entries) \cup Gone(c)
  /\ UNCHANGED doomed

Commit(c) ==
  /\ step[c] = "commit"
  /\ IF VersionFree(cand[c])
     THEN /\ Store(cand[c])
          /\ Supersede(cand[c].content.entries)
          /\ ConsumeGenesis(cand[c])
          /\ UNCHANGED seat
          /\ AfterCommit(c) \/ AnswerLost(c)
     ELSE /\ Leave(c, "idle")
          /\ UNCHANGED <<chainVars, doomed, grantVars, unanswered>>
  /\ UNCHANGED <<session, dev, hubVars, groups>>

(* The transaction fails: the client is told to come back. *)
CommitFails(c) ==
  /\ step[c] = "commit"
  /\ Leave(c, "idle")
  /\ UNCHANGED <<chainVars, session, dev, doomed, hubVars, grantVars, restVars>>

(* The group rows are written, or the database fails and they are not. *)
EnsureGroups(c) ==
  /\ step[c] = "groups"
  /\ step' = [step EXCEPT ![c] = "idle"]
  /\ groups' \in {groups, TRUE}
  /\ UNCHANGED <<chainVars, session, dev, cand, prior, doomed, hubVars,
                 grantVars, unanswered>>

(* Hub::evict: every socket registered for the entry leaves the hub and is   *)
(* signalled.                                                                *)
Evict(c, e) ==
  /\ step[c] = "evict" /\ e \in doomed[c]
  /\ LET taken == {k \in Conns : <<e, k>> \in principals}
     IN /\ evicted' = evicted \cup taken
        /\ principals' = {p \in principals : p[2] \notin taken}
  /\ doomed' = [doomed EXCEPT ![c] = @ \ {e}]
  /\ step' = [step EXCEPT ![c] = IF doomed[c] = {e} THEN "idle" ELSE "evict"]
  /\ UNCHANGED <<chainVars, session, dev, cand, prior, grantVars, restVars>>

-----------------------------------------------------------------------------
(* Provisional grants. *)

(* The upsert never clears a void; any other row starts over, unseen. *)
GrantTo(d) ==
  IF grant[d] = "void" THEN UNCHANGED <<grant, seen>>
  ELSE grant' = [grant EXCEPT ![d] = "live"] /\ seen' = seen \ {d}

(* A joiner takes a seat of an invite, and with it a fresh grant. *)
Reserve(d) ==
  /\ d \in Joiners /\ head # NoSet
  /\ seat[d] = "none" /\ grant[d] # "void"
  /\ seat' = [seat EXCEPT ![d] = "held"]
  /\ GrantTo(d)
  /\ carried' = carried \ {d} /\ dropped' = dropped \ {d}
  /\ UNCHANGED <<chainVars, connVars, hubVars, founding, redeemed, restVars>>

(* The last scope commit spends the seat and promotes the same grant. *)
Consume(d) ==
  /\ seat[d] = "held"
  /\ seat' = [seat EXCEPT ![d] = "spent"]
  /\ GrantTo(d)
  /\ UNCHANGED <<chainVars, connVars, hubVars, founding, redeemed, carried,
                 dropped, restVars>>

(* The reservation lapses unspent and the janitor returns the seat. *)
ReleaseExpired(d) ==
  /\ seat[d] = "held" /\ grant[d] # "live"
  /\ seat' = [seat EXCEPT ![d] = "none"]
  /\ UNCHANGED <<chainVars, connVars, hubVars, grant, seen, founding, redeemed,
                 carried, dropped, restVars>>

GrantExpires(d) ==
  /\ grant[d] = "live"
  /\ grant' = [grant EXCEPT ![d] = "expired"]
  /\ UNCHANGED <<chainVars, connVars, hubVars, seen, seat, founding, redeemed,
                 carried, dropped, restVars>>

(* An authorizer voids a grant; its sockets are evicted after that, unless   *)
(* the answer, or a later grant of the same request, fails.                  *)
VoidGrants(c, d) ==
  /\ Receives(c)
  /\ head # NoSet /\ dev[c] \in head.authorizers
  /\ grant[d] \in {"live", "expired"}
  /\ grant' = [grant EXCEPT ![d] = "void"]
  /\ \/ /\ doomed' = [doomed EXCEPT ![c] = {d}]
        /\ step' = [step EXCEPT ![c] = "evict"]
        /\ UNCHANGED unanswered
     \/ /\ unanswered' = unanswered \cup {d}
        /\ UNCHANGED <<doomed, step>>
  /\ UNCHANGED <<chainVars, session, dev, cand, prior, hubVars, seen, seat,
                 founding, redeemed, carried, dropped, groups>>

(* A device redeems the bootstrap invite, while the genesis key lives. *)
ReserveBootstrap(d) ==
  /\ d \in Founders /\ ~redeemed /\ founding = NoKey /\ grant[d] # "void"
  /\ founding' = d
  /\ GrantTo(d)
  /\ UNCHANGED <<chainVars, connVars, hubVars, seat, redeemed, carried,
                 dropped, restVars>>

(* Its reservation expired and the janitor returned the seat. *)
ReleaseBootstrap ==
  /\ founding # NoKey /\ grant[founding] # "live"
  /\ founding' = NoKey
  /\ UNCHANGED <<chainVars, connVars, hubVars, grant, seen, seat, redeemed,
                 carried, dropped, restVars>>

-----------------------------------------------------------------------------
(* The process dies with all its sockets; the tables stay. *)
Crash ==
  /\ \E c \in Conns : session[c] # "closed"
  /\ session' = [c \in Conns |-> "closed"]
  /\ step' = [c \in Conns |-> "idle"]
  /\ dev' = [c \in Conns |-> NoKey]
  /\ cand' = [c \in Conns |-> NoSet]
  /\ prior' = [c \in Conns |-> NoSet]
  /\ doomed' = [c \in Conns |-> {}]
  /\ principals' = {} /\ evicted' = {} /\ unanswered' = {}
  /\ UNCHANGED <<chainVars, grantVars, groups>>

RotationWindow(k) ==
  /\ WindowPasses(k)
  /\ UNCHANGED <<connVars, hubVars, grantVars, restVars>>

Init ==
  /\ ChainInit
  /\ session = [c \in Conns |-> "closed"]
  /\ step = [c \in Conns |-> "idle"]
  /\ dev = [c \in Conns |-> NoKey]
  /\ cand = [c \in Conns |-> NoSet]
  /\ prior = [c \in Conns |-> NoSet]
  /\ doomed = [c \in Conns |-> {}]
  /\ principals = {} /\ evicted = {}
  /\ grant = [k \in Keys |-> "none"]
  /\ seen = {} /\ seat = [k \in Keys |-> "none"]
  /\ founding = NoKey /\ redeemed = FALSE /\ groups = FALSE
  /\ carried = {} /\ dropped = {} /\ unanswered = {}

Next ==
  \/ \E c \in Conns :
       \/ Identify(c) \/ Confirm(c) \/ Close(c)
       \/ JudgeCandidate(c) \/ Commit(c) \/ CommitFails(c) \/ EnsureGroups(c)
       \/ \E e \in Keys : Evict(c, e)
       \/ \E d \in Devices : Authenticate(c, d)
       \/ \E k \in Candidates : ReadPrior(c, k)
       \/ \E d \in Joiners : VoidGrants(c, d)
  \/ \E d \in Keys : \/ Reserve(d) \/ Consume(d) \/ ReleaseExpired(d)
                     \/ GrantExpires(d) \/ ReserveBootstrap(d)
                     \/ RotationWindow(d)
  \/ ReleaseBootstrap
  \/ Crash

Spec == Init /\ [][Next]_vars

-----------------------------------------------------------------------------
(* Properties. *)

(* A device with no place: no set carries it and its grant, if it had one,   *)
(* was voided.  (A grant that merely expires closes no socket.)              *)
Placeless(d) == d \notin Entries /\ grant[d] \in {"none", "void"}

(* No admitted socket survives the set, or the void, that took its device's  *)
(* place: it is signalled, or the handler that took it is about to evict it. *)
(* The two reads of membership bracket the registration (ws.rs, perform).    *)
(* The one exception is a set or a void whose handler never learned that it  *)
(* was stored.                                                               *)
NoStaleSocket ==
  \A c \in Conns :
    session[c] = "ready" /\ Placeless(dev[c])
      => \/ c \in evicted
         \/ \E h \in Conns : dev[c] \in doomed[h]
         \/ dev[c] \in unanswered

(* The hub holds only sockets that are open, each under its own device: what *)
(* Hub::disconnect leaves behind would be signalled, and fanned out to, for  *)
(* another connection's sake.                                                *)
RegistryLive ==
  \A p \in principals : dev[p[2]] = p[1] /\ session[p[2]] \in {"auth", "ready"}

(* A grant is void once an accepted set has carried its device and a later   *)
(* accepted set does not (wire.md, "Implicit").                              *)
DroppedIsVoid == \A d \in dropped : grant[d] # "live"

(* The genesis set and the first group rows are one act (publish_founding):  *)
(* a workspace that has its set can be resolved by its groups, unless the    *)
(* registration is still under way.                                          *)
FoundedReachable ==
  head # NoSet /\ redeemed => groups \/ \E c \in Conns : step[c] = "groups"

=============================================================================
