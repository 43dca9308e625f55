---------------------------- MODULE EnvelopeLog ----------------------------
(***************************************************************************)
(* The durable half of the relay: the per-group envelope log, the MLS      *)
(* handshake log beside it and the workspace byte counter both charge,     *)
(* under concurrent transactions.                                          *)
(*                                                                         *)
(*   accept.rs            SEND:  accept, existing_seq                      *)
(*   handshake/store.rs   HANDSHAKE: append_within                         *)
(*   lifecycle/           DROP: drop_before (compaction)                   *)
(*   media/retention.rs   freeze, unfreeze                                 *)
(*   log_budget.rs        over_budget, and the triggers of migrations      *)
(*                        0010 and 0017 that charge and credit the counter *)
(*                                                                         *)
(* One step per database statement that another transaction can interleave *)
(* with.  Postgres runs at READ COMMITTED: a statement sees what committed *)
(* before it started, plus its own transaction's writes.  An uncommitted   *)
(* write is not in the tables below; it is implied by the pc of the        *)
(* transaction that will commit it.  The two row locks every writer takes, *)
(* the relay_group row and then the relay_log_budget row, are explicit.    *)
(*                                                                         *)
(* Simplifications.  One workspace, hence one counter row.  Signatures,    *)
(* the retention epoch and the policy's due date are taken as verified:    *)
(* what is modelled of DROP is what it reads and deletes.                  *)
(***************************************************************************)
EXTENDS Integers, FiniteSets, FiniteSetsExt

CONSTANTS
    Conns,      \* connections, each serving one frame at a time
    Droppers,   \* the connections whose clients send DROP
    NoConn,     \* the holder of a lock nobody holds
    Groups,     \* rows of relay_group, all of one workspace
    Hashes,     \* content addresses of envelopes
    Messages,   \* content addresses of handshake messages
    Bytes,      \* octet_length summed over a set of rows <<group, item>>
    Limit,      \* WEALD_RELAY_MAX_LOG_GB, in bytes
    MaxFrames   \* bound: frames the connections send between them

ASSUME EnvelopeLogAssumption ==
    /\ NoConn \notin Conns
    /\ Droppers \subseteq Conns
    /\ Groups # {}
    /\ Hashes # {}
    /\ Hashes \cap Messages = {}
    /\ Bytes \in [SUBSET (Groups \X (Hashes \cup Messages)) -> Nat]
    /\ \A A, B \in SUBSET (Groups \X (Hashes \cup Messages)) :
           A \cap B = {} => Bytes[A \cup B] = Bytes[A] + Bytes[B]
    /\ Limit \in Nat
    /\ MaxFrames \in Nat

VARIABLES
    next_seq,    \* relay_group.next_seq, committed
    frozen,      \* relay_group.frozen_reason is not null
    row,         \* relay_envelope: the seq of each stored hash, 0 for no row
    hs,          \* relay_handshake: the seq of each message, -1 for no row
    used,        \* relay_log_budget.used_bytes, committed
    anchors,     \* relay_checkpoint_anchor
    groupLock,   \* who holds the relay_group row
    budgetLock,  \* who holds the relay_log_budget row
    tx,          \* what each connection's handler is doing
    acked,       \* history: every <<group, hash, seq>> a SEND_ACK carried
    frames       \* history: frames sent so far

vars == <<next_seq, frozen, row, hs, used, anchors, groupLock, budgetLock,
          tx, acked, frames>>

tables == <<next_seq, row, hs, used, anchors>>

AnyGroup == CHOOSE g \in Groups : TRUE
AnyHash == CHOOSE h \in Hashes : TRUE

PC == {"idle", "check", "claim", "insert", "reread", "commit",
       "lock", "append", "appended",
       "frozen", "manifest", "barrier", "begin", "delete"}

\* A handler between frames.
IdleTx == [pc |-> "idle", group |-> AnyGroup, item |-> AnyHash, seq |-> 0,
           snaps |-> {}, doomed |-> {}]

TxRecord == [pc : PC, group : Groups, item : Hashes \cup Messages, seq : Nat,
             snaps : SUBSET Hashes, doomed : SUBSET Hashes]

Stored(g) == {h \in Hashes : row[g][h] # 0}

TypeOK ==
    /\ next_seq \in [Groups -> Nat \ {0}]
    /\ frozen \in [Groups -> BOOLEAN]
    /\ row \in [Groups -> [Hashes -> Nat]]
    /\ hs \in [Groups -> [Messages -> Nat \cup {-1}]]
    /\ used \in Nat
    /\ anchors \in [Groups -> SUBSET Hashes]
    /\ groupLock \in [Groups -> Conns \cup {NoConn}]
    /\ budgetLock \in Conns \cup {NoConn}
    /\ tx \in [Conns -> TxRecord]
    /\ acked \subseteq Groups \X Hashes \X Nat
    /\ frames \in Nat

Init ==
    /\ next_seq = [g \in Groups |-> 1]
    /\ frozen = [g \in Groups |-> FALSE]
    /\ row = [g \in Groups |-> [h \in Hashes |-> 0]]
    /\ hs = [g \in Groups |-> [m \in Messages |-> -1]]
    /\ used = 0
    /\ anchors = [g \in Groups |-> {}]
    /\ groupLock = [g \in Groups |-> NoConn]
    /\ budgetLock = NoConn
    /\ tx = [c \in Conns |-> IdleTx]
    /\ acked = {}
    /\ frames = 0

(***************************************************************************)
(* Locks and the end of a transaction.                                     *)
(***************************************************************************)
LockGroup(c, g) ==
    /\ groupLock[g] = NoConn
    /\ groupLock' = [groupLock EXCEPT ![g] = c]

\* Commit and rollback both release every row lock the transaction holds.
Unlock(c) ==
    /\ groupLock' = [g \in Groups |-> IF groupLock[g] = c THEN NoConn
                                                          ELSE groupLock[g]]
    /\ budgetLock' = IF budgetLock = c THEN NoConn ELSE budgetLock

\* The handler answers its frame and the connection reads the next one.
Finish(c) ==
    /\ tx' = [tx EXCEPT ![c] = IdleTx]
    /\ Unlock(c)

Ack(g, h, s) == acked' = acked \cup {<<g, h, s>>}

\* Mutant: the ceiling is compared before the write is counted.
over_budget_before(g, item) == used > Limit

\* log_budget::over_budget, on the total after the write.
over_budget(g, item) == used + Bytes[{<<g, item>>}] > Limit

(***************************************************************************)
(* A frame arrives on an idle connection.                                  *)
(***************************************************************************)
Receive(c, pc, g, item, snaps) ==
    /\ tx[c].pc = "idle"
    /\ frames < MaxFrames
    /\ frames' = frames + 1
    /\ tx' = [tx EXCEPT ![c] = [pc |-> pc, group |-> g, item |-> item, seq |-> 0,
                                snaps |-> snaps, doomed |-> {}]]
    /\ UNCHANGED <<tables, frozen, groupLock, budgetLock, acked>>

Send(c) == \E g \in Groups, h \in Hashes : Receive(c, "check", g, h, {})
Handshake(c) == \E g \in Groups, m \in Messages : Receive(c, "lock", g, m, {})
Drop(c) == /\ c \in Droppers
           /\ \E g \in Groups, m \in Hashes, s \in SUBSET Hashes :
                  Receive(c, "frozen", g, m, s)

(***************************************************************************)
(* SEND: accept.                                                           *)
(***************************************************************************)

\* The duplicate check, outside any transaction and under no lock.
existing_seq(c) ==
    LET t == tx[c] IN
    /\ t.pc = "check"
    /\ IF row[t.group][t.item] # 0
       THEN /\ Ack(t.group, t.item, row[t.group][t.item])
            /\ Finish(c)
       ELSE /\ tx' = [tx EXCEPT ![c].pc = "claim"]
            /\ UNCHANGED <<groupLock, budgetLock, acked>>
    /\ UNCHANGED <<tables, frozen, frames>>

\* Mutant: the number is read without the row lock.
Claim_noLock(c) ==
    /\ tx[c].pc = "claim"
    /\ ~frozen[tx[c].group]
    /\ tx' = [tx EXCEPT ![c].pc = "insert", ![c].seq = next_seq[tx[c].group]]
    /\ UNCHANGED <<tables, frozen, groupLock, budgetLock, acked, frames>>

\* Mutant: the number comes from a sequence, outside the transaction.
Claim_sequence(c) ==
    LET g == tx[c].group IN
    /\ tx[c].pc = "claim"
    /\ ~frozen[g]
    /\ tx' = [tx EXCEPT ![c].pc = "insert", ![c].seq = next_seq[g]]
    /\ next_seq' = [next_seq EXCEPT ![g] = @ + 1]
    /\ UNCHANGED <<row, hs, used, anchors, frozen, groupLock, budgetLock, acked, frames>>

\* Mutant: the frozen path returns without ending its transaction.
Claim_leaksLock(c) ==
    LET t == tx[c] IN
    /\ t.pc = "claim"
    /\ LockGroup(c, t.group)
    /\ tx' = [tx EXCEPT ![c] = IF frozen[t.group] THEN IdleTx
                               ELSE [t EXCEPT !.pc = "insert", !.seq = next_seq[t.group]]]
    /\ UNCHANGED <<tables, frozen, budgetLock, acked, frames>>

\* update relay_group set next_seq = next_seq + 1 ... returning: the number and
\* frozen_reason come from one statement, and its row lock is held to the end.
\* The increment itself is undone by every path but the commit.
Claim(c) ==
    LET t == tx[c] IN
    /\ t.pc = "claim"
    /\ groupLock[t.group] = NoConn
    /\ IF frozen[t.group]
       THEN Finish(c)
       ELSE /\ LockGroup(c, t.group)
            /\ tx' = [tx EXCEPT ![c].pc = "insert", ![c].seq = next_seq[t.group]]
            /\ UNCHANGED budgetLock
    /\ UNCHANGED <<tables, frozen, acked, frames>>

\* Mutant: on conflict do update, so the loser of a race renumbers the row.
Insert_upsert(c) ==
    /\ tx[c].pc = "insert"
    /\ budgetLock = NoConn
    /\ budgetLock' = c
    /\ tx' = [tx EXCEPT ![c].pc = "commit"]
    /\ UNCHANGED <<tables, frozen, groupLock, acked, frames>>

\* insert ... on conflict do nothing.  A conflict rolls back; otherwise the
\* trigger charges the counter, which takes its row lock.
Insert(c) ==
    LET t == tx[c] IN
    /\ t.pc = "insert"
    /\ IF row[t.group][t.item] # 0
       THEN /\ tx' = [tx EXCEPT ![c].pc = "reread"]
            /\ Unlock(c)
       ELSE /\ budgetLock = NoConn
            /\ budgetLock' = c
            /\ tx' = [tx EXCEPT ![c].pc = "commit"]
            /\ UNCHANGED groupLock
    /\ UNCHANGED <<tables, frozen, acked, frames>>

\* Mutant: the loser answers with the number it claimed and rolled back.
Reread_ownNumber(c) ==
    /\ tx[c].pc = "reread"
    /\ Ack(tx[c].group, tx[c].item, tx[c].seq)
    /\ Finish(c)
    /\ UNCHANGED <<tables, frozen, frames>>

\* The loser of the race answers with the winner's number, or with the number
\* its own rolled-back claim returned if the row is no longer there.
Reread(c) ==
    LET t == tx[c] IN
    /\ t.pc = "reread"
    /\ Ack(t.group, t.item,
           IF row[t.group][t.item] # 0 THEN row[t.group][t.item] ELSE t.seq)
    /\ Finish(c)
    /\ UNCHANGED <<tables, frozen, frames>>

\* The budget is read inside the transaction, after the insert charged it; over
\* it, everything rolls back.  A commit whose answer is lost on the way back from
\* Postgres is stored and answered retry/backpressure: nothing is acked.
Commit(c) ==
    LET t == tx[c] IN
    /\ t.pc = "commit"
    /\ IF over_budget(t.group, t.item)
       THEN UNCHANGED <<tables, acked>>
       ELSE /\ next_seq' = [next_seq EXCEPT ![t.group] = @ + 1]
            /\ row' = [row EXCEPT ![t.group][t.item] = t.seq]
            /\ used' = used + Bytes[{<<t.group, t.item>>}]
            /\ Ack(t.group, t.item, t.seq) \/ UNCHANGED acked
            /\ UNCHANGED <<hs, anchors>>
    /\ Finish(c)
    /\ UNCHANGED <<frozen, frames>>

(***************************************************************************)
(* HANDSHAKE: append_within.                                               *)
(***************************************************************************)

\* A DROP inserting its checkpoint row holds a key-share lock on relay_group,
\* which only the select ... for update of append_within conflicts with.
KeyShared(g) == \E d \in Conns : tx[d].pc = "delete" /\ tx[d].group = g

\* Mutant: coalesce(max(seq), -1), without the increment.
NextHandshake_last(g) == Max({hs[g][m] : m \in Messages} \cup {-1})

\* coalesce(max(seq) + 1, 0)
NextHandshake(g) == Max({hs[g][m] : m \in Messages} \cup {-1}) + 1

\* Mutant: the select is not for update.
AppendLock_noLock(c) ==
    LET t == tx[c] IN
    /\ t.pc = "lock"
    /\ hs[t.group][t.item] = -1
    /\ tx' = [tx EXCEPT ![c].pc = "append", ![c].seq = NextHandshake(t.group)]
    /\ UNCHANGED <<tables, frozen, groupLock, budgetLock, acked, frames>>

\* select ... for update, then the existing number and the next one, read under it.
AppendLock(c) ==
    LET t == tx[c] IN
    /\ t.pc = "lock"
    /\ groupLock[t.group] = NoConn
    /\ ~KeyShared(t.group)
    /\ IF hs[t.group][t.item] # -1
       THEN Finish(c)
       ELSE /\ LockGroup(c, t.group)
            /\ tx' = [tx EXCEPT ![c].pc = "append", ![c].seq = NextHandshake(t.group)]
            /\ UNCHANGED budgetLock
    /\ UNCHANGED <<tables, frozen, acked, frames>>

\* The insert, whose trigger charges the counter both logs share.
AppendInsert(c) ==
    /\ tx[c].pc = "append"
    /\ budgetLock = NoConn
    /\ budgetLock' = c
    /\ tx' = [tx EXCEPT ![c].pc = "appended"]
    /\ UNCHANGED <<tables, frozen, groupLock, acked, frames>>

\* Mutant: the handshake log has no charging trigger.
AppendCommit_uncharged(c) ==
    LET t == tx[c] IN
    /\ t.pc = "appended"
    /\ hs' = [hs EXCEPT ![t.group][t.item] = t.seq]
    /\ Finish(c)
    /\ UNCHANGED <<next_seq, row, used, anchors, frozen, acked, frames>>

AppendCommit(c) ==
    LET t == tx[c] IN
    /\ t.pc = "appended"
    /\ IF over_budget(t.group, t.item)
       THEN UNCHANGED tables
       ELSE /\ hs' = [hs EXCEPT ![t.group][t.item] = t.seq]
            /\ used' = used + Bytes[{<<t.group, t.item>>}]
            /\ UNCHANGED <<next_seq, row, anchors>>
    /\ Finish(c)
    /\ UNCHANGED <<frozen, acked, frames>>

(***************************************************************************)
(* DROP: lifecycle::drop_before.  Three reads, each on its own, and then   *)
(* one transaction.                                                        *)
(***************************************************************************)
DropFrozen(c) ==
    LET t == tx[c] IN
    /\ t.pc = "frozen"
    /\ IF frozen[t.group]
       THEN Finish(c)
       ELSE /\ tx' = [tx EXCEPT ![c].pc = "manifest"]
            /\ UNCHANGED <<groupLock, budgetLock>>
    /\ UNCHANGED <<tables, frozen, acked, frames>>

\* missing_envelopes: the manifest and every snapshot it names must be held.
DropManifest(c) ==
    LET t == tx[c] IN
    /\ t.pc = "manifest"
    /\ IF {t.item} \cup t.snaps \subseteq Stored(t.group)
       THEN /\ tx' = [tx EXCEPT ![c].pc = "barrier"]
            /\ UNCHANGED <<groupLock, budgetLock>>
       ELSE Finish(c)
    /\ UNCHANGED <<tables, frozen, acked, frames>>

\* Mutant: the barrier is the head of the log instead of the manifest's place.
DropBarrier_head(c) ==
    /\ tx[c].pc = "barrier"
    /\ tx' = [tx EXCEPT ![c].pc = "begin", ![c].seq = next_seq[tx[c].group]]
    /\ UNCHANGED <<tables, frozen, groupLock, budgetLock, acked, frames>>

\* seq_of(manifest).unwrap_or_default(): the barrier is the manifest's own place.
DropBarrier(c) ==
    LET t == tx[c] IN
    /\ t.pc = "barrier"
    /\ tx' = [tx EXCEPT ![c].pc = "begin", ![c].seq = row[t.group][t.item]]
    /\ UNCHANGED <<tables, frozen, groupLock, budgetLock, acked, frames>>

\* Mutant: the delete keeps only this checkpoint's own anchors.
Doomed_ownAnchors(c) ==
    LET t == tx[c] IN
    {h \in Stored(t.group) : row[t.group][h] < t.seq /\ h \notin {t.item} \cup t.snaps}

\* What the delete takes: below the barrier, and anchored by no committed
\* checkpoint and not by this one.
Doomed(c) ==
    LET t == tx[c] IN
    {h \in Stored(t.group) :
        /\ row[t.group][h] < t.seq
        /\ h \notin anchors[t.group] \cup {t.item} \cup t.snaps}

\* The checkpoint and its anchors are inserted, uncommitted, and the delete takes
\* its snapshot.  A barrier of zero fails the table's check and rolls back; a
\* second drop under the same checkpoint waits for the first on its key.
DropBegin(c) ==
    LET t == tx[c] IN
    /\ t.pc = "begin"
    /\ IF t.seq = 0
       THEN Finish(c)
       ELSE /\ groupLock[t.group] # NoConn =>
                  tx[groupLock[t.group]].pc \notin {"append", "appended"}
            /\ \A d \in Conns : ~(/\ tx[d].pc = "delete"
                                  /\ tx[d].group = t.group
                                  /\ tx[d].item = t.item)
            /\ tx' = [tx EXCEPT ![c].pc = "delete", ![c].doomed = Doomed(c)]
            /\ UNCHANGED <<groupLock, budgetLock>>
    /\ UNCHANGED <<tables, frozen, acked, frames>>

\* Mutant: the delete has no crediting trigger.
DropCommit_uncredited(c) ==
    LET t == tx[c] IN
    /\ t.pc = "delete"
    /\ row' = [row EXCEPT ![t.group] =
                  [h \in Hashes |-> IF h \in t.doomed THEN 0 ELSE row[t.group][h]]]
    /\ anchors' = [anchors EXCEPT ![t.group] = @ \cup {t.item} \cup t.snaps]
    /\ Finish(c)
    /\ UNCHANGED <<next_seq, hs, used, frozen, acked, frames>>

\* What the delete removes: the rows its snapshot named that are still there below
\* the barrier.  One that was dropped and sent again since has a later number, and
\* stays.
Deleted(c) ==
    {h \in tx[c].doomed \cap Stored(tx[c].group) : row[tx[c].group][h] < tx[c].seq}

\* The trigger of the delete credits the counter (floored at zero) if anything is
\* removed, and the anchors become visible.
DropCommit(c) ==
    LET t == tx[c]
        gone == Deleted(c)
        freed == Bytes[{t.group} \X gone]
    IN
    /\ t.pc = "delete"
    /\ gone = {} \/ budgetLock = NoConn
    /\ row' = [row EXCEPT ![t.group] =
                  [h \in Hashes |-> IF h \in gone THEN 0 ELSE row[t.group][h]]]
    /\ used' = IF used > freed THEN used - freed ELSE 0
    /\ anchors' = [anchors EXCEPT ![t.group] = @ \cup {t.item} \cup t.snaps]
    /\ Finish(c)
    /\ UNCHANGED <<next_seq, hs, frozen, acked, frames>>

(***************************************************************************)
(* A contested retention chain freezes a group; a resolution clears it.    *)
(* Each is one update of the relay_group row, so it waits for the row.     *)
(***************************************************************************)

\* Mutant: the freeze is recorded outside the group row, so it waits for nobody.
Freeze_elsewhere(g) ==
    /\ ~frozen[g]
    /\ frozen' = [frozen EXCEPT ![g] = TRUE]
    /\ UNCHANGED <<tables, groupLock, budgetLock, tx, acked, frames>>

Freeze(g) ==
    /\ groupLock[g] = NoConn
    /\ ~frozen[g]
    /\ frozen' = [frozen EXCEPT ![g] = TRUE]
    /\ UNCHANGED <<tables, groupLock, budgetLock, tx, acked, frames>>

clear_freeze(g) ==
    /\ groupLock[g] = NoConn
    /\ frozen[g]
    /\ frozen' = [frozen EXCEPT ![g] = FALSE]
    /\ UNCHANGED <<tables, groupLock, budgetLock, tx, acked, frames>>

\* Any statement can fail, and so can the process: the transaction rolls back and
\* the client, if it is still there, is told retry/backpressure.
Fail(c) ==
    /\ tx[c].pc # "idle"
    /\ Finish(c)
    /\ UNCHANGED <<tables, frozen, acked, frames>>

Step(c) ==
    \/ existing_seq(c) \/ Claim(c) \/ Insert(c) \/ Reread(c) \/ Commit(c)
    \/ AppendLock(c) \/ AppendInsert(c) \/ AppendCommit(c)
    \/ DropFrozen(c) \/ DropManifest(c) \/ DropBarrier(c)
    \/ DropBegin(c) \/ DropCommit(c)

Next ==
    \/ \E c \in Conns : Send(c) \/ Handshake(c) \/ Drop(c) \/ Step(c) \/ Fail(c)
    \/ \E g \in Groups : Freeze(g) \/ clear_freeze(g)

Spec == Init /\ [][Next]_vars

\* Postgres queues the waiters of a row lock, so a handler whose statement can
\* run again and again does run.
FairSpec == Spec /\ \A c \in Conns : SF_vars(Step(c))

(***************************************************************************)
(* Safety.                                                                 *)
(***************************************************************************)

\* The unique index on (group_id, seq) is never what refuses a SEND: no two
\* envelopes of a group hold one number, and every number ever handed out lies
\* below the counter, whichever transactions committed, lost or rolled back.
SeqUnique ==
    \A g \in Groups, h, k \in Hashes :
        /\ row[g][h] < next_seq[g]
        /\ row[g][h] = row[g][k] /\ row[g][h] # 0 => h = k

\* Numbers become visible in the order they were assigned: a reader holding a
\* cursor (SUB's from_seq, the floor of a RECON round) never has an envelope
\* appear below it later.
CommitOrder ==
    [][\A g \in Groups, h \in Hashes :
          row'[g][h] # row[g][h] /\ row'[g][h] # 0 =>
              \A k \in Hashes : row[g][k] < row'[g][h]]_vars

\* What a SEND_ACK promised is in the log under the number it carried, whichever
\* of two racing senders of one envelope it answered.  (While nothing compacts:
\* see AckNamesOne.)
AckedHeld == \A a \in acked : row[a[1]][a[2]] = a[3]

\* The counter the triggers maintain is the sum over the rows it describes.
Rows == {r \in Groups \X Hashes : row[r[1]][r[2]] # 0}
            \cup {r \in Groups \X Messages : hs[r[1]][r[2]] # -1}
BudgetExact == used = Bytes[Rows]

\* The ceiling is exact under concurrent writers of both logs: no interleaving of
\* transactions overshoots it by an envelope.
WithinLimit == used <= Limit

\* The handshake log is dense from zero: a replay in order meets no gap.
HandshakeDense ==
    \A g \in Groups :
        /\ \A m, k \in Messages : hs[g][m] = hs[g][k] /\ hs[g][m] # -1 => m = k
        /\ \A m \in Messages : \A n \in 0 .. hs[g][m] - 1 :
               \E k \in Messages : hs[g][k] = n

\* The envelope log of a frozen group does not grow: accept reads frozen_reason in
\* the statement that locks the row, so a freeze cannot slip between.  (A handshake
\* is still appended: append_within does not look at frozen_reason.)
FrozenStopsAccept ==
    [][\A g \in Groups, h \in Hashes :
          row'[g][h] # row[g][h] /\ row'[g][h] # 0 => ~frozen[g]]_vars

\* Every anchor a committed checkpoint names is an envelope the relay holds
\* ("every anchor stays", lifecycle/store.rs:8).
AnchorsHeld == \A g \in Groups : anchors[g] \subseteq Stored(g)

\* An envelope leaves the log only below a checkpoint the relay holds, although the
\* three reads a DROP decides on are not in the transaction that deletes.
DropCovered ==
    [][\A g \in Groups, h \in Hashes :
          row[g][h] # 0 /\ row'[g][h] = 0 =>
              \E k \in anchors'[g] : row'[g][k] > row[g][h]]_vars

\* A number a SEND_ACK carried names one envelope: accept.rs answers the loser of
\* a duplicate race with "the sequence number the winner was given".
AckNamesOne ==
    \A a, b \in acked : a[1] = b[1] /\ a[3] = b[3] => a[2] = b[2]

\* A resend is answered with the number the first write was given
\* (operations.md: "returns the original `seq`").
ResendKeepsNumber ==
    \A a, b \in acked : a[1] = b[1] /\ a[2] = b[2] => a[3] = b[3]

\* A frozen group stops dropping (lifecycle.md: "stops dropping anything until a
\* member resolves the conflict").
FrozenStopsDrop ==
    [][\A g \in Groups, h \in Hashes :
          row[g][h] # 0 /\ row'[g][h] = 0 => ~frozen[g]]_vars

\* Every frame is answered: the row locks of SEND, HANDSHAKE, DROP and the freeze
\* are taken in one order, so nobody waits on somebody waiting on them.
Answered == \A c \in Conns : tx[c].pc # "idle" ~> tx[c].pc = "idle"

(***************************************************************************)
(* Refinement.  The committed tables behave as if every frame were served  *)
(* at one instant: the transaction's commit.                               *)
(***************************************************************************)
Atomic == INSTANCE AtomicLog
AtomicSpec == Atomic!Spec
=============================================================================
