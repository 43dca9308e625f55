# Verification of the weald relay

TLA+ specifications of `src/backend/wealdrelay`, the blind store-and-forward
relay of the weald protocol, the TLC configurations that check them on small
instances, and theorems that TLAPS checks for every value of the constants.
Paths below are relative to `src/backend/wealdrelay/src/` unless they say
otherwise.

The relay stores opaque envelopes and MLS handshake messages for groups, sends
them to the sockets that subscribe, and admits a device by a set of keys that
the workspace itself publishes and signs. It reads no content. What it promises
is order, completeness, bounds and admission, and it promises them while many
sockets run handlers at once against one Postgres database. These promises are
what the project states and checks.

Contents: 1 inventory, 2 the modules, 3 the runs, 4 the proofs, 5 findings,
6 what is not modelled, 7 plan.

## 1. Inventory

### Parts that are modelled

**Envelope accept** (`accept.rs`, `log_budget.rs`, migrations 0010 and 0017).
State: `relay_group.next_seq` and `frozen_reason`, the rows of
`relay_envelope`, the counter `relay_log_budget.used_bytes` that triggers
maintain. Operation: SEND, four to five awaited statements (look for the
content address, claim a number under the lock of the group row, insert unless
the budget is full or the address is taken, re-read the winner of a duplicate
race, commit). It meets HANDSHAKE at both row locks, DROP at the rows, a
retention conflict at `frozen_reason`, and live delivery after the commit.
Hard: the decision, the number and the insert are separate statements at READ
COMMITTED. Correct when numbers are unique and become visible in order, an
acknowledged envelope is held under the number acknowledged, the ceiling is
never overshot, the counter equals the rows and the envelope log of a frozen
group does not grow.

**Handshake log** (`handshake/`). State: `relay_handshake`. Operation:
HANDSHAKE (`append_within`): the group lock, the next number, a budgeted
insert, commit. Correct when the numbers of a group are dense from zero, since
a client replays them in order and a gap cannot be filled.

**Compaction** (`lifecycle/`). State: `relay_checkpoint` and its anchors.
Operation: DROP, three reads on the pool (is it frozen, are the manifest's
envelopes held, is there a barrier) and then a transaction that records the
anchors and deletes below them. Hard: the reads decide about what another
transaction may have changed since. Correct when every anchor is held and
nothing leaves the log except below an anchor.

**Live delivery** (`hub.rs`, `sync.rs`, the queues of `ws.rs`). State: the
hub's registry (per group and connection: a hold on handshakes, the frames
held, a downgrade notice owed), each connection's bounded queue, the reader's
handler. Operations: SEND's fan-out, HANDSHAKE's fan-out, LIVE, SUB (head,
registration, paged replay, release of the hold, backfill), RECON, the
janitor's `settle_downgrades`, teardown, eviction. Hard: a subscription is five
awaited steps during which writers commit and fan out, the queue fills and
drains, the socket fails. Correct when nothing is missing at a subscriber
without the subscriber knowing, handshakes come in order and all of them (which
holds but for one that another publisher overtakes, finding 2), and notices and
handlers do not wait for ever.

**Access set** (`access/`). State: the chain of sets, open probations with
their pinned removals, the rotation limit. Operation: ACCESS (read the set in
force, judge the candidate, compare-and-swap the next version in a
transaction that also clears probations and supersedes grants). Hard: the
judgement uses what was read before the transaction; the rules for a device
that a recovery phrase introduced must hold over any number of publications.
Correct when no device escapes probation without an authorizer that is free of
it or a quorum that such an authorizer registered (which holds only as long as
no other quorum has been in force, finding 5), the chain can always be
extended, and interleaved publications behave like one after another.

**Admission and eviction** (`access/store.rs`, `ws.rs`, `hub.rs`, `invite/` as
far as it grants). State: sessions, the registry of principals, eviction
signals, provisional grants with `seen_version`, the seat behind each, the
bootstrap reservation, the group rows. Operations: AUTH (admit, identify in the
hub, admit again), publication by a socket, eviction of the removed, reserve,
consume and expire of a seat, voiding a grant, founding. Hard: a set removes a
device while that device is between being admitted and being registered.
Correct when no admitted socket outlives its device's place.

### Parts that are not modelled yet

For each: its state and operations, what makes it hard, what would make it
correct. `PROJECT.json` lists their most consequential hazards at their lines.

| Part | State and operations | Hard | Correct when |
|---|---|---|---|
| Invites (`invite/`) | invites, seats, reservations, tombstones, handoffs; redeem, reserve, consume, extend, revoke, sweep | the last seat and the end of an invite are decided from a subquery that two consumers may run at once; locks are taken in two orders | uses never exceed the seats, an invite whose last seat is consumed has ended, an expired reservation returns its seat once |
| Media (`media/`) | quota row, reservations, objects, references; put, multipart, claim, delete, sweeps | quota and reservation rows are locked in two orders; a failed `head` of the object store reads as "not stored"; one sweep holds its locks across the deletion and one does not | quota equals the reservations, an object a manifest names is never deleted |
| Retention chain (`media/retention.rs`) | control epochs, manifests, policies, freeze; record, conflict, resolve, destroy | conflict and freeze are two statements, reads precede the transaction | one manifest per epoch and sequence, a conflict leads to a freeze, nothing is destroyed before its floor |
| Restore marker (`media/restore.rs`, `restore.rs`, `backup.rs`) | a countdown of janitor passes | set last in a restore, read by every sweep | no sweep deletes between a restore and the end of the countdown |
| Key packages (`keys/`) | a shelf per device; publish, take, restore | restore does not take the lock that publish and take do | a one-time package is handed out once, the shelf stays below its cap |
| Recovery wraps (`recovery/`) | the current and the prior wrap of each slot; publish, fetch, forget | two publications meet in an empty slot; forget is two statements | the newest epoch wins, a forgotten slot stays empty |
| Session and deadlines (`session.rs`, `deadline.rs`) | Fresh, Challenged, Ready or Bootstrapping, Closed; frame budgets; handshake, idle and probe deadlines | a probe races a late answer | no frame is served before AUTH, a silent socket is closed, a live one is not |
| Rate budgets (`send_budget.rs`, `group_ingress.rs`) | counts per fixed window | the boundary of two windows, a clock that steps back | no more than twice the allowance passes in any span of one window |
| Push (`push/`) | registrations, queue, worker, ringer | coalescing, retry and a token revoked while a wake is queued | a wake is attempted, coalesced or its registration is gone |
| Calls (`calls/`) | a registry of calls and participants; join, leave, route, forget | idle calls are dropped only on a join; a leave takes the registry lock twice | one owner never takes more than its share of the calls, a frame reaches only participants of its call |
| Janitor (`janitor.rs`) | one pass over every sweep | a sweep that fails must not starve the others | every sweep runs again |
| Range reconciliation (`negentropy/`, `log.rs`) | fingerprints over ranges | recursion, frames cut by a budget | the rounds end with both sides holding the union |
| MLS engine (`src/backend/weald-mls/src/`) | device, sessions, staged commits, handles | a signer is created in two statements, a commit is staged, merged or cleared across calls | the stored epoch and the answer given agree after a crash |
| Agent identity (`src/backend/weald-mls/src/agent_*.rs`) | life cycle of an agent's key | codecs apart, an order of legal calls | a retired agent signs nothing |

Left out for good: the frame codec (`frame.rs`, `cbor.rs`), whose correctness
is a statement about bytes that the repository's vectors and fuzz corpus make;
storage backends (`storage.rs`, `storage/s3.rs`), pure I/O; the server's
wiring, configuration, logging, metrics and probes.

### How the parts meet

    client -> ws.rs reader -> session -> handler --+-> accept / handshake / lifecycle -> Postgres
                                                   |        | after commit
                                                   |        v
                                                   |     hub fan-out -> queue -> writer -> client
                                                   +-> access -> Postgres, then Hub::evict
                                                   +-> sync (SUB, RECON): hub, log, handshake log
    janitor -> settle_downgrades, release_expired, the sweeps of media, keys and invites

`EnvelopeLog` is the database side of the upper path and `LiveDelivery` is
everything after the commit. They are joined by two facts that the first
establishes and the second assumes: envelopes become visible in the order of
their numbers (`CommitOrder`), and handshakes are numbered densely
(`HandshakeDense`). This is why `LiveDelivery` may represent both logs by their
lengths. `AccessSet` extends `AccessChain` and implements it.

## 2. The modules

| Module | What it is |
|---|---|
| `EnvelopeLog` | the database side of SEND, HANDSHAKE, DROP and freeze, one action per awaited statement |
| `AtomicLog` | the same tables when every frame takes effect at one instant: what `EnvelopeLog` implements |
| `EnvelopeLogProofs` | its inductive invariant and the theorems about it |
| `EnvelopeLogRefinement` | compaction by one connection: anchors, coverage, and the refinement of `AtomicLog` |
| `LiveDelivery` | hub, queues, SUB, RECON, fan-out and the janitor's settling, for one group |
| `AccessChain` | the rules of the access-set chain, with atomic publication |
| `AccessSet` | sockets, handlers, grants, eviction and founding over that chain |
| `AccessChainProofs`, `AccessSetProofs` | their inductive invariants, the theorems, the refinement |
| `MCEnvelopeLog`, `MCLiveDelivery`, `MCAccessChain`, `MCAccessSet` | instances for TLC |

Beside some definitions stands a faulty twin (`Claim_noLock` before `Claim`,
`ConfirmOnce` before `Confirm`): a plausible mistake in that code. No
specification uses one. The `mutants` of `PROJECT.json` pair each with the
property that TLC finds violated when the twin takes the definition's place,
which shows that the property depends on the code.

### EnvelopeLog

| Variable | Code |
|---|---|
| `next_seq`, `frozen` | `relay_group.next_seq`, `relay_group.frozen_reason` is set |
| `row` | `relay_envelope`: the number of each content address, 0 for no row |
| `hs` | `relay_handshake`: the number of each message, -1 for no row |
| `used` | `relay_log_budget.used_bytes` |
| `anchors` | `relay_checkpoint_anchor` |
| `groupLock`, `budgetLock` | who holds the row lock of a group, of the counter |
| `tx` | per connection: the statement its handler is at and its local variables |
| `acked`, `frames` | history: what was acknowledged, frames sent (bounded by `MaxFrames`) |

| Action | Code |
|---|---|
| `Send`, `existing_seq`, `Claim`, `Insert`, `Reread`, `Commit` | `accept.rs`: `accept` statement by statement |
| `Handshake`, `AppendLock`, `AppendInsert`, `AppendCommit` | `handshake/store.rs`: `append_within` |
| `Drop`, `DropFrozen`, `DropManifest`, `DropBarrier`, `DropBegin`, `DropCommit` | `lifecycle/mod.rs` and `lifecycle/store.rs`: `drop_before` |
| `Freeze`, `clear_freeze` | `media/retention.rs` |
| `Fail` | any statement fails or the process dies: the transaction rolls back |

A statement sees what was committed before it began. What a transaction has
written and not committed is implied by its `pc`, so a rollback is a step to
"idle" that changes no table. In particular a claim that is rolled back
returns its number, since `next_seq` is updated in the transaction; the
comment at `accept.rs:155` says that such a rollback spends one, which is not
so, and nothing depends on it. The delete of DROP looks again at each row it
selected: one that was dropped and stored again meanwhile lies above the
barrier and stays (`Deleted`). `used` counts the rows of both logs, as the
triggers of migrations 0010 and 0017 do; the sum that `summed_bytes`
(`log_budget.rs:119`) compares it with predates 0017 and covers envelopes only.
One workspace, hence one counter row;
signatures, the retention epoch and the due date of a policy are taken as
verified. An unlimited budget, read-only mode and an unknown group, which only
refuse, are left out.

### LiveDelivery

| Variable | Code |
|---|---|
| `log`, `hlog` | the lengths of the two logs of one group |
| `status`, `queue` | the socket, and its `OutboundSender` queue; "broken" once the writer task has ended |
| `entry` | the hub's `Subscriber`: registered, holding, the frames held, notice owed |
| `evicted` | the eviction signal of the connection |
| `gone` | the connections a handler's fan-out is about to take out of the hub, after it gave the lock back |
| `pc`, `job` | where the reader's handler is, and its local variables |
| `client`, `sent` | what the client holds and knows (external), and how many requests it made |
| `unsent`, `client.late` | history: handshakes committed and not yet fanned out; those a later one was fanned out before |

The actions follow `sync::subscribe` (`SubHead`, `SubRegister`, `ReplayPage`,
`ReplayQueue`, `SubRelease`, `BackfillRead`, `BackfillQueue`),
`sync::reconcile` (`ReconRead`, `ReconQueue`), SEND after its commit (`Accept`,
`AcceptDuplicate`, `Deliver`, `SendAck`), HANDSHAKE (`AppendHandshake`,
`PublishHandshake`, `AnswerHandshake`), LIVE (`publish_live`), the janitor
(`settle_downgrades`), the writer and the socket (`Read`, `Break`) and teardown
(`End`). What the hub does under its lock is one action. Evicting is two:
`fanout_frame` and `release_handshakes` signal the connection under the lock and
take it out (`Disconnect`) under the lock again, and a frame fanned out in
between may still be queued to a connection that has missed one; it is evicted
and reads to the end of its queue at most. A resent handshake is fanned out
again, and a commit whose answer is lost is in the log without being fanned
out until its publisher sends it again. Abstractions: one group; one bound on the
queue stands for frames and bytes, since both refuse in the same way; a
negentropy round is reduced to what the client lacks; the check of room and
the queueing that follows it without an await are one action; a connection that
ends loses its queue at once, although the writer drains it for up to
`WRITER_DRAIN_TIMEOUT` (`ws.rs:298`): what the client could still have read is
taken as lost, and no property is about a connection that has ended. The client is
external: it keeps what it is sent and treats a notice, an error and an open
range as reasons to reconcile.

### AccessChain and AccessSet

`AccessChain` holds `judge` of `access/mod.rs` as predicates (`CheckShape`,
`JudgeGenesis`, `JudgeOrdinary`, `JudgeRotation`, `Clears`) over the set in
force, the open probations with their pins and the keys that rotated within
the window, and one action that judges and stores. `rooted` is history: the
keys whose authority comes from genesis through authorizers free of probation
or through a quorum that such an authorizer registered (`registered`; `strayed`
says that another one has been in force). A key stands for its salted hash (the salt is fixed),
signatures are taken as verified, a version stands for the digest of the
previous set, and the bounds and the order of the lists are left out.

`AccessSet` cuts publication where the code awaits: `ReadPrior`,
`JudgeCandidate`, `Commit` (compare-and-swap, chain, grants, genesis; its
answer may be lost), `EnsureGroups`, `Evict`. AUTH is `Authenticate`,
`Identify`, `Confirm`. `Reserve`, `Consume`, `ReleaseExpired`, `GrantExpires`,
`ReserveBootstrap`, `ReleaseBootstrap` and `VoidGrants` are what invites do to
grants, and `Crash` ends every socket and keeps the tables. A transaction is
one step, which the module's head justifies. `Evict` signals all sockets of a
removed device in one step where `Hub::evict` (`hub.rs:274`) signals them one
after another; until it is done the publisher's handler counts as evicting,
which is what `NoStaleSocket` allows. A fan-out that finds a closed queue also
unregisters its connection (`hub.rs:566`); such a socket can be sent nothing
more and is torn down by its own reader, so the registry keeps only `Teardown`. Left out: enforcement off,
read-only mode, rate limits, push registrations, and of an invite everything
but the seat behind a grant.

## 3. The runs

`tlc -config <cfg> <module>` in this directory. The properties of each run are
in its cfg and defined, with the code they are about, in the module.

| Run (cfg) | Instance | What it shows |
|---|---|---|
| `MCEnvelopeLog_accept` | 3 connections, 2 groups, 2 envelopes (of 1 and 2 bytes), 2 messages, ceiling 3, 4 frames | numbers unique, visible in order and dense where they must be; acknowledgements truthful; the counter exact and the ceiling never overshot; the envelope log of a frozen group does not grow |
| `MCEnvelopeLog_compact` | 2 connections of which 1 compacts, 3 envelopes, 1 message, 4 frames, fair | anchors held, deletions covered by an anchor, the refinement of `AtomicLog`, and every frame answered, among them a DROP that deletes and has to wait for the counter |
| `MCEnvelopeLog_anchors` | 2 connections that both compact | `AnchorsHeld` is violated: finding 1 |
| `MCLiveDelivery_live` | a subscriber with a fragile socket and a writer, queue of 2 | nothing is missing without being declared, no registry entry outlives its connection |
| `MCLiveDelivery_replay` | a subscriber with a fragile socket and two publishers of handshakes whose answers may be lost, queue and hold of 2, pages of 1 | but for those overtaken on their way, handshakes never skip ahead and none is lost |
| `MCLiveDelivery_settle` | queue of 1, fair relay, clients that may stop reading, the reader on protocol version 1 | handlers end and evicted connections close; notices are paid if the clients read |
| `MCLiveDelivery_complete` | a subscriber and two publishers | `HandshakeEvery` is violated: finding 2 |
| `MCAccessChain_chain` | 3 devices, 2 phrases, a quorum of one key, 5 versions | while only registered quorums have been in force, probation is not escaped and a free authorizer remains; the chain can always be extended |
| `MCAccessChain_probation` | the same | `ProbationHolds` is violated: finding 5 |
| `MCAccessSet_access` | 2 sockets, 4 keys, 2 versions | no stale socket, a truthful registry, refinement of `AccessChain` |
| `MCAccessSet_dropped` | 1 socket, 1 join | `DroppedIsVoid` is violated: finding 3 |
| `MCAccessSet_founded` | 1 socket, the founding | `FoundedReachable` is violated: finding 4 |

**Why the bounds are enough.** The races of `EnvelopeLog` are between two
transactions at a row, a third party that holds or changes it (three
connections), two items of unequal size at a ceiling that one of them reaches,
and a frame that is sent again (four frames over two envelopes force repeats).
In `LiveDelivery` a queue of one or two overflows at once, pages of one make
every replay a loop, and a subscriber's requests (connect, SUB, RECON or
another SUB) meet a writer's in every order. Three handshakes of two publishers
overtake each other, overflow a hold of two and are resent; the same instance
with one more request of the subscriber (a second SUB or a reconnect; 19.5
million states) passes too and takes too long to be kept as a run. In `AccessChain` five versions
hold genesis, a rotation, what the new device publishes, a confirmation and a
second rotation. In `AccessSet` a set and its competitor, a join and an
eviction need two sockets and two versions. The theorems then remove the
bounds for everything in section 4.

**Symmetry.** Connections that do not compact, sockets, devices and phrases
are interchangeable in the runs that declare it; no run with a liveness
property does.

**Deadlock** is checked for the envelope log, where a freeze can always come or
go; that handlers do not block each other is `Answered`. It is off in the instances of
`LiveDelivery`, `AccessChain` and `AccessSet`, where the clients' requests or
the versions are bounded and the system really comes to rest.

**Fairness.** `EnvelopeLog!FairSpec`: strong fairness of each handler's next
statement, because Postgres queues the waiters of a row lock, so a statement
that can run again and again does. `LiveDelivery!FairSpec`: weak fairness of a
handler's next step, of the reader's loop (`End`) and of the janitor's pass, all
tasks of one runtime. Nothing is assumed of the clients: `HandlerEnds` holds
although they may stop reading, because a handler that waits for room gives up
(`queue_awaiting`). Only `DebtPaid` takes as its premise that the clients go on
reading (`ClientsRead`): a notice cannot be queued to one that does not. No
client is assumed to send anything.

## 4. The proofs

TLAPS checks these for every value of the constants that the modules' named
assumptions allow: any number of connections, groups, envelopes, messages,
keys and versions, any additive size function, any ceiling.

**EnvelopeLogProofs.** `LogInvariant`'s invariant `LogInv` says, besides types
and `SeqUnique`: a handler's program counter and the row locks say the same
(`LockInv`); between claim and commit the number claimed is still the next one
and the group is not frozen, and an insert that met no conflict would still
meet none (`ClaimInv`); likewise for the handshake number (`AppendInv`); the
numbers in use with -1 form an interval (`Dense`), which is what makes
`coalesce(max(seq) + 1, 0)` the first free number. `SeqUnique` alone is not
inductive: nothing in it says that the claimed number is still unused when the
insert commits; the lock does. From it follow `TypeCorrect`,
`SeqUniqueCorrect`, `HandshakeDenseCorrect`, `BudgetExactCorrect`,
`WithinLimitCorrect` and the action properties `CommitOrderCorrect` and
`FrozenStopsAcceptCorrect`.

**EnvelopeLogRefinement.** Assumes that at most one connection compacts
(`OneDropper`); without it the statements are false, as finding 1 shows.
`CompactInv` adds that what DROP has read is still true when it deletes:
the manifest it checked is stored, its cursor is the number of its checkpoint,
and what it will delete is what it selected. From it `AnchorsHeldCorrect`,
`DropCoveredCorrect` and `AtomicCorrect`: every step of the interleaved
handlers is a step of `AtomicLog` on the tables or changes none of them.
`AckedHeldCorrect` assumes that nobody compacts.

**AccessChainProofs.** `ChainInv` joins types, the shape of the set in force
(`WellShaped`), that nothing is on probation before genesis
(`UnfoundedFree`), that the quorum in force is the registered one unless the
chain has strayed (`QuorumKnown`), `AuthorityRooted` and `RootKept`. The two
last need each other: an ordinary signer is free of probation only if it is
rooted, and a rooted authorizer stays because a device on probation may not
shrink the authorizers. Both say nothing of a chain in which another quorum has
been in force (`strayed`); without that condition they are false, finding 5. `ExtendableCorrect` follows from the shape.

**AccessSetProofs.** `AccessInv` adds to the chain's invariant what a handler
knows at each cut: what it read and judged still fits the stored chain if its
version is still free (`CandInv`); which step goes with which session and
which entries it owes an eviction (`SocketInv`); the registry lists every
socket past `Identify` (`HubInv`); and a grant
that is marked as seen and not void belongs to a device that the set in force
carries, so the set that drops the device finds it (`GrantInv`). `ChainRefined` is the refinement: a commit whose
compare-and-swap succeeds is a publication of `AccessChain` and every other
step leaves the chain alone. `NoStaleSocketCorrect`, `RegistryLiveCorrect`
and `AccessTypeCorrect` follow, and `AuthorityKept` carries the theorems of the
chain, with their condition, over to the interleaved handlers.

**Only model-checked.** Everything about `LiveDelivery` so far, and the
liveness properties (`Answered`, `DebtPaid`, `HandlerEnds`): liveness under
fairness and ENABLED are out of the prover's reach, as are induction over data
and recursive operators; no module with a theorem uses one.

## 5. Findings

Each is a run in which TLC reaches a state that a document or a comment of the
repository rules out.

1. **Two compactions of one group** (`MCEnvelopeLog_anchors`,
   `lifecycle/mod.rs:170`). The manifest is checked before the transaction that
   records it and under no lock. Two DROPs can each check what the other then
   deletes, and a checkpoint is recorded whose anchor is gone, although "every
   anchor stays" (`lifecycle/store.rs`).
2. **Handshakes fanned out in the opposite order** (`MCLiveDelivery_complete`,
   `hub.rs:226`). Appending and fanning out are two steps with no lock across
   them, so with two publishers a live subscriber may be sent 1 before 0, where
   a handshake has to be applied in order (`hub.rs:133`). A subscriber that is replaying holds what arrives, in the order of
   arrival; the release skips every number below the highest released, so the
   lower of the two never reaches that subscriber, although "a subscriber
   receives every handshake message" (`wire.md`).
3. **A promoted grant forgets that a set carried it** (`MCAccessSet_dropped`,
   `access/store.rs:809`). The upsert that promotes a grant at the last scope
   commit sets `seen_version` to null. If a set had already carried the joiner,
   the set that drops it leaves the grant live until the invite expires.
4. **A founded workspace with no groups** (`MCAccessSet_founded`,
   `access/store.rs:602`). The genesis set commits before the group rows are
   written, in statements of their own. A crash or an error in between leaves a
   workspace that the founder can neither found again nor reach, although "the
   genesis set and the first group rows are one act".
5. **The quorum is stored from any accepted set** (`MCAccessChain_probation`,
   `access/mod.rs:619`). No rule of `judge` looks at the quorum a candidate
   carries, so that of a rotation, or of a set signed on probation, is the
   configured one for the next set, and its confirmation clears a probation.
   The document says that the relay "accepts a registration or change only from
   a prior authorizer" (`wire.md:763`) and that a recovery phrase cannot remove
   itself from probation (`wire.md:795`).

The modules also state five properties that a comment or a document suggests
and the code does not keep. They are kept next to the ones that hold, because
each explains why its neighbour is stated the way it is; none is part of a run.

| Property | What happens instead |
|---|---|
| `EnvelopeLog!AckNamesOne` | a loser of a duplicate race that re-reads after a compaction took the winner is answered with its own rolled-back number (`accept.rs:186`), which another envelope then gets |
| `EnvelopeLog!ResendKeepsNumber` | a resend of an envelope that compaction deleted is stored again under a new number |
| `EnvelopeLog!FrozenStopsDrop` | DROP reads `frozen_reason` before its transaction; a freeze in between does not stop the deletion |
| `LiveDelivery!BackfillDeclared` | an envelope accepted between reading the head and registering lies above the head acknowledged; if the backfill is cut below it, nothing says so (`sync.rs:457`) |
| `LiveDelivery!DuplicateWasSent` | after a lost commit answer the resend is a duplicate and is not fanned out, and the first write never was (`ws.rs:1847`) |

## 6. What is not modelled

The parts listed in section 1 as not modelled, each with its reason in
`PROJECT.json`. Within the modelled parts: cryptography (signatures and hashes
are taken as verified and collision-free), the wire form of frames, rate
limits, read-only mode, several workspaces in one database, and the client,
which is external and is given only the behaviour the relay's code relies on.
`LiveDelivery` treats the database as answering or failing, not as slow; time
appears only as the timeout of a waiting handler.

## 7. Plan

Done: `EnvelopeLog` with its abstract specification and proofs, `LiveDelivery`,
`AccessChain` and `AccessSet` with the refinement between them and proofs.

Next, in this order, most consequential behaviour first:

1. `MediaStore`: quota row, reservations, objects, claim, the two sweeps, the
   restore marker. Abstract specification: a set of objects, each referenced,
   reserved or gone, with quota the sum of sizes. Two uploaders, a sweeper, two
   objects, a failing object store. Properties: quota exact, a referenced object
   is never deleted, no deadlock of the two lock orders. Theorem: quota exact.
2. `RetentionChain`: control epochs, manifests, conflict, freeze, resolve and
   destruction, composed with the freeze of `EnvelopeLog`.
3. `InviteSeats`: seats, reservations, consume, terminate, sweep; implements a
   counter of seats. Two joiners and one administrator on one invite of two
   seats. Theorem: uses never exceed the seats. It replaces the seat that
   `AccessSet` keeps.
4. `KeyShelf` and `RecoveryWraps`: two devices and two takers. Theorem: a
   one-time package is handed out at most once.
5. `Session`: the protocol automaton of a socket with its deadlines and
   budgets; with it `AccessSet`'s sessions get their challenge and their
   timeouts. Liveness: a silent socket is closed.
6. `PushWake`, `Calls`, `RateBudget`, `Janitor`: small modules, each with the
   bound or the progress it promises.
7. `Reconcile`: the range reconciliation, recursive and so for TLC alone,
   checked against the difference of two sets for every pair of small sets.
   It justifies `LiveDelivery`'s reduction of a round.
8. `MlsDevice`: staged, merged and cleared commits and the persistence around
   them, with OpenMLS external; crash and restart between any two statements.
9. `BackupRestore`: a backup taken under concurrent writes, the restore and its
   marker, composed with `MediaStore`.

Proofs to add: `NoUndeclaredHole`, `HandshakeInOrder` and `NoGhostEntry` of
`LiveDelivery` (an invariant over each pair of connection and envelope, with the
state of the subscription between registration and release), then the theorems
named above. Compositions to add: `LiveDelivery` over `AtomicLog` instead of
over two lengths, and eviction from `AccessSet` as a cause of `LiveDelivery`'s
teardown.
