------------------------- MODULE EnvelopeLogProofs -------------------------
(***************************************************************************)
(* Theorems about EnvelopeLog, for every set of connections, groups,       *)
(* envelopes and messages, every size function and every ceiling.          *)
(***************************************************************************)
EXTENDS EnvelopeLog, TLAPS

(***************************************************************************)
(* The inductive invariant.  A transaction past its claim is described by  *)
(* what its row locks guarantee about the committed tables.                *)
(***************************************************************************)
GroupPCs == {"insert", "commit", "append", "appended"}
BudgetPCs == {"commit", "appended"}
MessagePCs == {"lock", "append", "appended"}

\* Row locks and program counters say the same thing.
LockInv ==
    /\ \A c \in Conns : tx[c].pc \in GroupPCs => groupLock[tx[c].group] = c
    /\ \A c \in Conns, g \in Groups :
           groupLock[g] = c => tx[c].pc \in GroupPCs /\ tx[c].group = g
    /\ \A c \in Conns : (tx[c].pc \in BudgetPCs) <=> (budgetLock = c)

\* HANDSHAKE works on messages, everything else on envelopes.
ItemInv ==
    \A c \in Conns : tx[c].item \in IF tx[c].pc \in MessagePCs THEN Messages ELSE Hashes

\* The group's lock keeps the claimed number the next one and the group unfrozen,
\* and an insert that did not conflict still would not.
ClaimInv ==
    \A c \in Conns :
        /\ tx[c].pc \in {"insert", "commit"} =>
               tx[c].seq = next_seq[tx[c].group] /\ ~frozen[tx[c].group]
        /\ tx[c].pc = "commit" => row[tx[c].group][tx[c].item] = 0

AppendInv ==
    \A c \in Conns :
        tx[c].pc \in {"append", "appended"} =>
            /\ hs[tx[c].group][tx[c].item] = -1
            /\ tx[c].seq = NextHandshake(tx[c].group)

\* Numbers in use with the -1 of "no row": an interval, which is what makes
\* coalesce(max(seq) + 1, 0) the first number free.
InUse(g) == {hs[g][m] : m \in Messages} \cup {-1}
Dense ==
    \A g \in Groups :
        /\ \E n \in Nat : InUse(g) = -1 .. (n - 1)
        /\ \A m, k \in Messages : hs[g][m] = hs[g][k] /\ hs[g][m] # -1 => m = k

LogInv ==
    /\ TypeOK
    /\ LockInv
    /\ ItemInv
    /\ ClaimInv
    /\ AppendInv
    /\ Dense
    /\ SeqUnique

LEMMA AnyInRange == AnyGroup \in Groups /\ AnyHash \in Hashes
BY EnvelopeLogAssumption DEF AnyGroup, AnyHash

LEMMA IdleType == IdleTx \in TxRecord
BY AnyInRange DEF IdleTx, PC, TxRecord

\* The next handshake number, where the numbers in use are an interval.
LEMMA NextHandshakeIs ==
    ASSUME NEW g \in Groups, NEW n \in Nat, InUse(g) = -1 .. (n - 1)
    PROVE  NextHandshake(g) = n
<1> DEFINE S == -1 .. (n - 1)
<1>1. (n - 1) \in S /\ \A y \in S : n - 1 >= y
  OBVIOUS
<1>2. \A x \in S : (\A y \in S : x >= y) => x = n - 1
  OBVIOUS
<1>3. Max(S) = n - 1
  BY <1>1, <1>2 DEF Max
<1>4. NextHandshake(g) = Max(S) + 1
  BY ZenonT(30) DEF NextHandshake, InUse
<1> QED
  BY <1>3, <1>4

LEMMA NextHandshakeNat ==
    ASSUME Dense, NEW g \in Groups
    PROVE  NextHandshake(g) \in Nat
BY NextHandshakeIs DEF Dense

LEMMA DenseKept ==
    ASSUME Dense, hs' = hs
    PROVE  Dense' /\ \A g \in Groups : NextHandshake(g)' = NextHandshake(g)
BY DEF Dense, InUse, NextHandshake

LEMMA InitLogInv == Init => LogInv
<1> SUFFICES ASSUME Init PROVE LogInv
  OBVIOUS
<1>1. TypeOK
  BY IdleType, EnvelopeLogAssumption DEF Init, TypeOK
<1>2. LockInv /\ ItemInv /\ ClaimInv /\ AppendInv
  BY AnyInRange, EnvelopeLogAssumption
     DEF Init, IdleTx, LockInv, ItemInv, ClaimInv, AppendInv, GroupPCs, BudgetPCs, MessagePCs
<1>3. Dense
  <2> SUFFICES ASSUME NEW g \in Groups PROVE InUse(g) = -1 .. (0 - 1)
    BY ZenonT(30) DEF Init, Dense
  <2> QED
    BY DEF Init, InUse
<1>4. SeqUnique
  BY DEF Init, SeqUnique
<1> QED
  BY <1>1, <1>2, <1>3, <1>4 DEF LogInv

(***************************************************************************)
(* One lemma per part of the invariant, one step per action.               *)
(***************************************************************************)
\* What a step writes to its own record keeps the record's type.
LEMMA SetTx ==
    ASSUME TypeOK, NEW c \in Conns, NEW r \in TxRecord
    PROVE  [tx EXCEPT ![c] = r] \in [Conns -> TxRecord]
BY DEF TypeOK

LEMMA SetPc ==
    ASSUME TypeOK, NEW c \in Conns, NEW p \in PC
    PROVE  [tx EXCEPT ![c].pc = p] \in [Conns -> TxRecord]
<1>1. tx \in [Conns -> TxRecord] /\ tx[c] \in TxRecord
  BY DEF TypeOK
<1>2. [tx[c] EXCEPT !.pc = p] \in TxRecord
  BY <1>1 DEF TxRecord
<1> QED
  BY <1>1, <1>2, SetTx

LEMMA SetPcSeq ==
    ASSUME TypeOK, NEW c \in Conns, NEW p \in PC, NEW n \in Nat
    PROVE  [tx EXCEPT ![c].pc = p, ![c].seq = n] \in [Conns -> TxRecord]
<1>1. tx \in [Conns -> TxRecord] /\ tx[c] \in TxRecord
  BY DEF TypeOK
<1>2. [tx[c] EXCEPT !.pc = p, !.seq = n] \in TxRecord
  BY ZenonT(30), <1>1 DEF TxRecord
<1> QED
  BY <1>1, <1>2, SetTx

LEMMA SetPcDoomed ==
    ASSUME TypeOK, NEW c \in Conns, NEW p \in PC, NEW d \in SUBSET Hashes
    PROVE  [tx EXCEPT ![c].pc = p, ![c].doomed = d] \in [Conns -> TxRecord]
<1>1. tx \in [Conns -> TxRecord] /\ tx[c] \in TxRecord
  BY DEF TypeOK
<1>2. [tx[c] EXCEPT !.pc = p, !.doomed = d] \in TxRecord
  BY ZenonT(30), <1>1 DEF TxRecord
<1> QED
  BY <1>1, <1>2, SetTx

LEMMA ReceiveType ==
    ASSUME TypeOK, NEW c \in Conns, NEW p \in PC, NEW g \in Groups,
           NEW i \in Hashes \cup Messages, NEW s \in SUBSET Hashes, Receive(c, p, g, i, s)
    PROVE  TypeOK'
<1>1. [pc |-> p, group |-> g, item |-> i, seq |-> 0, snaps |-> s, doomed |-> {}] \in TxRecord
  BY DEF TxRecord
<1> QED
  BY <1>1 DEF Receive, TypeOK, tables

LEMMA UnlockType ==
    ASSUME TypeOK, NEW c \in Conns, Unlock(c)
    PROVE  /\ groupLock' \in [Groups -> Conns \cup {NoConn}]
           /\ budgetLock' \in Conns \cup {NoConn}
BY DEF TypeOK, Unlock

LEMMA FinishType ==
    ASSUME TypeOK, NEW c \in Conns, Finish(c)
    PROVE  /\ groupLock' \in [Groups -> Conns \cup {NoConn}]
           /\ budgetLock' \in Conns \cup {NoConn}
           /\ tx' \in [Conns -> TxRecord]
BY UnlockType, IdleType DEF TypeOK, Finish, TxRecord

LEMMA ChargeNat ==
    ASSUME NEW g \in Groups, NEW i \in Hashes \cup Messages
    PROVE  Bytes[{<<g, i>>}] \in Nat
BY EnvelopeLogAssumption

LEMMA TypeStep == LogInv /\ [Next]_vars => TypeOK'
<1> SUFFICES ASSUME LogInv, [Next]_vars PROVE TypeOK'
  OBVIOUS
<1> USE DEF LogInv
<1>1. CASE UNCHANGED vars
  BY <1>1 DEF vars, TypeOK
<1>2. ASSUME NEW c \in Conns, Send(c) \/ Handshake(c) \/ Drop(c)
      PROVE  TypeOK'
  BY <1>2, ReceiveType DEF Send, Handshake, Drop, PC
<1>3. ASSUME NEW c \in Conns, existing_seq(c)
      PROVE  TypeOK'
  <2>1. tx[c] \in TxRecord
    BY DEF TypeOK, TxRecord
  <2>2. CASE row[tx[c].group][tx[c].item] # 0
    <3>1. tx[c].item \in Hashes
      BY <1>3 DEF existing_seq, ItemInv, MessagePCs
    <3> QED
      BY <1>3, <2>1, <2>2, <3>1, FinishType DEF existing_seq, TypeOK, Ack, tables, TxRecord
  <2>3. CASE row[tx[c].group][tx[c].item] = 0
    <3>1. tx' \in [Conns -> TxRecord]
      <4>1. tx' = [tx EXCEPT ![c].pc = "claim"] /\ "claim" \in PC
        BY <1>3, <2>3 DEF existing_seq, PC
      <4> QED
        BY <4>1, SetPc
    <3> QED
      BY <1>3, <2>3, <3>1 DEF existing_seq, TypeOK, tables
  <2> QED
    BY <2>2, <2>3
<1>4. ASSUME NEW c \in Conns, Claim(c)
      PROVE  TypeOK'
  <2>1. tx[c] \in TxRecord
    BY DEF TypeOK, TxRecord
  <2>4. next_seq[tx[c].group] \in Nat
    BY <2>1 DEF TypeOK, TxRecord
  <2>2. CASE frozen[tx[c].group]
    BY <1>4, <2>2, FinishType DEF Claim, TypeOK, tables, TxRecord
  <2>3. CASE ~frozen[tx[c].group]
    <3>1. tx' \in [Conns -> TxRecord]
      <4>1. /\ tx' = [tx EXCEPT ![c].pc = "insert", ![c].seq = next_seq[tx[c].group]]
            /\ "insert" \in PC
        BY <1>4, <2>3 DEF Claim, PC
      <4> QED
        BY <2>4, <4>1, SetPcSeq
    <3> QED
      BY <1>4, <2>3, <3>1 DEF Claim, LockGroup, TypeOK, tables
  <2> QED
    BY <2>2, <2>3
<1>5. ASSUME NEW c \in Conns, Insert(c)
      PROVE  TypeOK'
  <2>1. tx' \in [Conns -> TxRecord]
    <3>1. "reread" \in PC /\ "commit" \in PC
      BY DEF PC
    <3>2. \/ tx' = [tx EXCEPT ![c].pc = "reread"]
          \/ tx' = [tx EXCEPT ![c].pc = "commit"]
      BY <1>5 DEF Insert
    <3>3. [tx EXCEPT ![c].pc = "reread"] \in [Conns -> TxRecord]
      BY <3>1, SetPc
    <3>4. [tx EXCEPT ![c].pc = "commit"] \in [Conns -> TxRecord]
      BY <3>1, SetPc
    <3> QED
      BY <3>2, <3>3, <3>4, Zenon
  <2>2. CASE row[tx[c].group][tx[c].item] # 0
    BY <1>5, <2>1, <2>2, UnlockType DEF Insert, TypeOK, tables
  <2>3. CASE row[tx[c].group][tx[c].item] = 0
    BY <1>5, <2>1, <2>3 DEF Insert, TypeOK, tables
  <2> QED
    BY <2>2, <2>3
<1>6. ASSUME NEW c \in Conns, Reread(c)
      PROVE  TypeOK'
  <2>1. tx[c].item \in Hashes /\ tx[c] \in TxRecord
    BY ZenonT(30), <1>6 DEF Reread, ItemInv, MessagePCs, TypeOK, TxRecord
  <2> QED
    BY <1>6, <2>1, FinishType DEF Reread, TypeOK, Ack, tables, TxRecord
<1>7. ASSUME NEW c \in Conns, Commit(c)
      PROVE  TypeOK'
  <2>1. tx[c].item \in Hashes /\ tx[c] \in TxRecord
    BY ZenonT(30), <1>7 DEF Commit, ItemInv, MessagePCs, TypeOK, TxRecord
  <2>2. CASE over_budget(tx[c].group, tx[c].item)
    BY <1>7, <2>2, FinishType DEF Commit, TypeOK, tables, TxRecord
  <2>3. CASE ~over_budget(tx[c].group, tx[c].item)
    <3>1. tx[c].group \in Groups /\ tx[c].seq \in Nat /\ Bytes[{<<tx[c].group, tx[c].item>>}] \in Nat
      BY ZenonT(30), <2>1, ChargeNat DEF TxRecord
    <3>2. used' \in Nat /\ acked' \subseteq Groups \X Hashes \X Nat
      BY <1>7, <2>1, <2>3, <3>1 DEF Commit, TypeOK, Ack
    <3>3. row' \in [Groups -> [Hashes -> Nat]] /\ next_seq' \in [Groups -> Nat \ {0}]
      <4>1. /\ row' = [row EXCEPT ![tx[c].group][tx[c].item] = tx[c].seq]
            /\ next_seq' = [next_seq EXCEPT ![tx[c].group] = @ + 1]
        BY <1>7, <2>3 DEF Commit
      <4>2. row \in [Groups -> [Hashes -> Nat]] /\ next_seq \in [Groups -> Nat \ {0}]
        BY DEF TypeOK
      <4>3. [row[tx[c].group] EXCEPT ![tx[c].item] = tx[c].seq] \in [Hashes -> Nat]
        BY <2>1, <3>1, <4>2
      <4> QED
        BY <3>1, <4>1, <4>2, <4>3
    <3> QED
      BY <1>7, <2>3, <3>2, <3>3, FinishType DEF Commit, TypeOK
  <2> QED
    BY <2>2, <2>3
<1>8. ASSUME NEW c \in Conns, AppendLock(c)
      PROVE  TypeOK'
  <2>1. tx[c] \in TxRecord
    BY DEF TypeOK, TxRecord
  <2>4. NextHandshake(tx[c].group) \in Nat
    BY <2>1, NextHandshakeNat DEF TxRecord
  <2>2. CASE hs[tx[c].group][tx[c].item] # -1
    BY <1>8, <2>2, FinishType DEF AppendLock, TypeOK, tables, TxRecord
  <2>3. CASE hs[tx[c].group][tx[c].item] = -1
    <3>1. tx' \in [Conns -> TxRecord]
      <4>1. /\ tx' = [tx EXCEPT ![c].pc = "append", ![c].seq = NextHandshake(tx[c].group)]
            /\ "append" \in PC
        BY <1>8, <2>3 DEF AppendLock, PC
      <4> QED
        BY <2>4, <4>1, SetPcSeq
    <3> QED
      BY ZenonT(30), <1>8, <2>3, <3>1 DEF AppendLock, LockGroup, TypeOK, tables
  <2> QED
    BY <2>2, <2>3
<1>9. ASSUME NEW c \in Conns, AppendInsert(c)
      PROVE  TypeOK'
  BY ZenonT(30), <1>9, SetPc DEF AppendInsert, TypeOK, tables, PC
<1>10. ASSUME NEW c \in Conns, AppendCommit(c)
       PROVE  TypeOK'
  <2>1. tx[c].item \in Messages /\ tx[c] \in TxRecord
    BY <1>10 DEF AppendCommit, ItemInv, MessagePCs, TypeOK, TxRecord
  <2>2. CASE over_budget(tx[c].group, tx[c].item)
    BY <1>10, <2>2, FinishType DEF AppendCommit, TypeOK, tables, TxRecord
  <2>3. CASE ~over_budget(tx[c].group, tx[c].item)
    <3>1. tx[c].group \in Groups /\ tx[c].seq \in Nat /\ Bytes[{<<tx[c].group, tx[c].item>>}] \in Nat
      BY <2>1, ChargeNat DEF TxRecord
    <3>2. used' \in Nat
      BY <1>10, <2>3, <3>1 DEF AppendCommit, TypeOK
    <3>3. hs' \in [Groups -> [Messages -> Nat \cup {-1}]]
      <4>1. hs' = [hs EXCEPT ![tx[c].group][tx[c].item] = tx[c].seq]
        BY <1>10, <2>3 DEF AppendCommit
      <4>2. hs \in [Groups -> [Messages -> Nat \cup {-1}]]
        BY DEF TypeOK
      <4>3. [hs[tx[c].group] EXCEPT ![tx[c].item] = tx[c].seq] \in [Messages -> Nat \cup {-1}]
        BY <2>1, <3>1, <4>2
      <4> QED
        BY <3>1, <4>1, <4>2, <4>3
    <3> QED
      BY <1>10, <2>3, <3>2, <3>3, FinishType DEF AppendCommit, TypeOK
  <2> QED
    BY <2>2, <2>3
<1>11. ASSUME NEW c \in Conns, DropFrozen(c) \/ DropManifest(c) \/ DropBarrier(c) \/ DropBegin(c)
       PROVE  TypeOK'
  <2>1. tx[c] \in TxRecord
    BY DEF TypeOK, TxRecord
  <2>2. CASE DropFrozen(c)
    <3>1. CASE frozen[tx[c].group]
      BY <2>2, <3>1, FinishType DEF DropFrozen, TypeOK, tables
    <3>2. CASE ~frozen[tx[c].group]
      <4>1. tx' = [tx EXCEPT ![c].pc = "manifest"] /\ "manifest" \in PC
        BY <2>2, <3>2 DEF DropFrozen, PC
      <4>2. tx' \in [Conns -> TxRecord]
        BY <4>1, SetPc
      <4> QED
        BY <2>2, <3>2, <4>2 DEF DropFrozen, TypeOK, tables
    <3> QED
      BY <3>1, <3>2
  <2>3. CASE DropManifest(c)
    <3>1. tx' \in [Conns -> TxRecord]
      <4>1. "barrier" \in PC
        BY DEF PC
      <4>2. tx' = [tx EXCEPT ![c].pc = "barrier"] \/ Finish(c)
        BY <2>3 DEF DropManifest
      <4> QED
        BY ZenonT(30), <4>1, <4>2, SetPc, FinishType
    <3>2. /\ groupLock' \in [Groups -> Conns \cup {NoConn}]
          /\ budgetLock' \in Conns \cup {NoConn}
      BY <2>3, FinishType DEF DropManifest, TypeOK
    <3> QED
      BY <2>3, <3>1, <3>2 DEF DropManifest, TypeOK, tables
  <2>4. CASE DropBarrier(c)
    <3>1. tx[c].item \in Hashes
      BY <2>4 DEF DropBarrier, ItemInv, MessagePCs
    <3> QED
      <4>1. row[tx[c].group][tx[c].item] \in Nat
        BY <2>1, <3>1 DEF TypeOK, TxRecord
      <4>2. tx' \in [Conns -> TxRecord]
        <5>1. /\ tx' = [tx EXCEPT ![c].pc = "begin", ![c].seq = row[tx[c].group][tx[c].item]]
              /\ "begin" \in PC
          BY <2>4 DEF DropBarrier, PC
        <5> QED
          BY <4>1, <5>1, SetPcSeq
      <4> QED
        BY <2>4, <4>2 DEF DropBarrier, TypeOK, tables
  <2>5. CASE DropBegin(c)
    <3>1. Doomed(c) \in SUBSET Hashes
      BY DEF Doomed, Stored
    <3> QED
      <4>1. tx' \in [Conns -> TxRecord]
        <5>1. "delete" \in PC
          BY DEF PC
        <5>2. \/ tx' = [tx EXCEPT ![c].pc = "delete", ![c].doomed = Doomed(c)]
              \/ Finish(c)
          BY <2>5 DEF DropBegin
        <5> QED
          <6>1. [tx EXCEPT ![c].pc = "delete", ![c].doomed = Doomed(c)] \in [Conns -> TxRecord]
            BY <3>1, <5>1, SetPcDoomed
          <6> QED
            BY <5>2, <6>1, FinishType, Zenon
      <4>2. /\ groupLock' \in [Groups -> Conns \cup {NoConn}]
            /\ budgetLock' \in Conns \cup {NoConn}
        BY <2>5, FinishType DEF DropBegin, TypeOK
      <4> QED
        BY <2>5, <4>1, <4>2 DEF DropBegin, TypeOK, tables
  <2> QED
    BY <1>11, <2>2, <2>3, <2>4, <2>5
<1>12. ASSUME NEW c \in Conns, DropCommit(c)
       PROVE  TypeOK'
  <2> DEFINE gone == Deleted(c)
  <2>1. tx[c].item \in Hashes /\ tx[c] \in TxRecord
    BY ZenonT(30), <1>12 DEF DropCommit, ItemInv, MessagePCs, TypeOK, TxRecord
  <2>2. Bytes[{tx[c].group} \X gone] \in Nat
    BY <2>1, EnvelopeLogAssumption DEF TxRecord, Deleted, Stored
  <2> QED
    BY <1>12, <2>1, <2>2, FinishType DEF DropCommit, TypeOK, TxRecord
<1>13. ASSUME NEW c \in Conns, Fail(c)
       PROVE  TypeOK'
  BY <1>13, FinishType DEF Fail, TypeOK, tables, TxRecord
<1>14. ASSUME NEW g \in Groups, Freeze(g) \/ clear_freeze(g)
       PROVE  TypeOK'
  BY ZenonT(30), <1>14 DEF Freeze, clear_freeze, TypeOK, tables
<1> QED
  BY <1>1, <1>2, <1>3, <1>4, <1>5, <1>6, <1>7, <1>8, <1>9, <1>10, <1>11, <1>12, <1>13, <1>14
     DEF Next, Step

(***************************************************************************)
(* What a step does to the handlers and the locks: one of six shapes.      *)
(***************************************************************************)
Others(c) == \A d \in Conns \ {c} : tx'[d] = tx[d]
Keeps(c) == tx'[c].group = tx[c].group /\ tx'[c].item = tx[c].item
LocksKept == groupLock' = groupLock /\ budgetLock' = budgetLock
Releases(c) ==
    /\ \A g \in Groups : groupLock'[g] = IF groupLock[g] = c THEN NoConn ELSE groupLock[g]
    /\ budgetLock' = IF budgetLock = c THEN NoConn ELSE budgetLock

Idles(c) == tx'[c] = IdleTx /\ Releases(c)
Begins(c) ==
    /\ tx'[c].pc \in {"check", "lock", "frozen"}
    /\ tx[c].pc = "idle"
    /\ tx'[c].item \in IF tx'[c].pc = "lock" THEN Messages ELSE Hashes
    /\ LocksKept
Moves(c) ==
    /\ tx[c].pc \notin GroupPCs \cup MessagePCs
    /\ tx'[c].pc \notin GroupPCs \cup MessagePCs
    /\ Keeps(c)
    /\ LocksKept
TakesGroup(c) ==
    /\ \/ /\ tx[c].pc = "claim" /\ tx'[c].pc = "insert"
          /\ ~frozen[tx[c].group]
          /\ tx'[c].seq = next_seq[tx[c].group]
       \/ /\ tx[c].pc = "lock" /\ tx'[c].pc = "append"
          /\ hs[tx[c].group][tx[c].item] = -1
          /\ tx'[c].seq = NextHandshake(tx[c].group)
    /\ Keeps(c)
    /\ groupLock[tx[c].group] = NoConn
    /\ groupLock' = [groupLock EXCEPT ![tx[c].group] = c]
    /\ budgetLock' = budgetLock
TakesBudget(c) ==
    /\ \/ /\ tx[c].pc = "insert" /\ tx'[c].pc = "commit"
          /\ row[tx[c].group][tx[c].item] = 0
       \/ tx[c].pc = "append" /\ tx'[c].pc = "appended"
    /\ Keeps(c)
    /\ tx'[c].seq = tx[c].seq
    /\ budgetLock = NoConn
    /\ budgetLock' = c
    /\ groupLock' = groupLock
LosesRace(c) ==
    /\ tx[c].pc = "insert" /\ tx'[c].pc = "reread"
    /\ Keeps(c)
    /\ Releases(c)

Shape(c) == Idles(c) \/ Begins(c) \/ Moves(c) \/ TakesGroup(c) \/ TakesBudget(c) \/ LosesRace(c)

TablesKept == UNCHANGED tables /\ frozen' = frozen

LEMMA FinishShape ==
    ASSUME TypeOK, NEW c \in Conns, Finish(c)
    PROVE  Others(c) /\ Idles(c)
BY DEF TypeOK, Finish, Unlock, Others, Idles, Releases

LEMMA ReceiveShape ==
    ASSUME TypeOK, NEW c \in Conns, NEW p \in {"check", "lock", "frozen"}, NEW g \in Groups,
           NEW i \in IF p = "lock" THEN Messages ELSE Hashes,
           NEW s \in SUBSET Hashes, Receive(c, p, g, i, s)
    PROVE  Others(c) /\ Begins(c) /\ TablesKept
BY DEF TypeOK, Receive, Others, Begins, LocksKept, TablesKept, tables

LEMMA PcShape ==
    ASSUME TypeOK, NEW c \in Conns, NEW p \in PC, tx' = [tx EXCEPT ![c].pc = p]
    PROVE  Others(c) /\ Keeps(c) /\ tx'[c].pc = p /\ tx'[c].seq = tx[c].seq
<1>1. tx \in [Conns -> TxRecord] /\ tx[c] \in TxRecord
  BY DEF TypeOK
<1> QED
  BY <1>1 DEF Others, Keeps, TxRecord

LEMMA PcSeqShape ==
    ASSUME TypeOK, NEW c \in Conns, NEW p \in PC, NEW n \in Nat,
           tx' = [tx EXCEPT ![c].pc = p, ![c].seq = n]
    PROVE  Others(c) /\ Keeps(c) /\ tx'[c].pc = p /\ tx'[c].seq = n
<1>1. tx \in [Conns -> TxRecord] /\ tx[c] \in TxRecord
  BY DEF TypeOK
<1> QED
  BY <1>1 DEF Others, Keeps, TxRecord

LEMMA PcDoomedShape ==
    ASSUME TypeOK, NEW c \in Conns, NEW p \in PC, NEW d,
           tx' = [tx EXCEPT ![c].pc = p, ![c].doomed = d]
    PROVE  Others(c) /\ Keeps(c) /\ tx'[c].pc = p
<1>1. tx \in [Conns -> TxRecord] /\ tx[c] \in TxRecord
  BY DEF TypeOK
<1> QED
  BY <1>1 DEF Others, Keeps, TxRecord

\* The three steps that write the log tables end their transaction; no other step
\* of a handler writes any of them.
Writes(c) == (Commit(c) \/ AppendCommit(c) \/ DropCommit(c)) /\ Idles(c) /\ frozen' = frozen

LEMMA StepShape ==
    ASSUME LogInv, NEW c \in Conns,
           Send(c) \/ Handshake(c) \/ Drop(c) \/ Step(c) \/ Fail(c)
    PROVE  Others(c) /\ Shape(c) /\ (TablesKept \/ Writes(c))
<1> USE DEF LogInv
<1> DEFINE Goal == Others(c) /\ Shape(c) /\ (TablesKept \/ Writes(c))
<1>t. tx[c].group \in Groups /\ tx[c].item \in Hashes \cup Messages
  BY DEF TypeOK, TxRecord
<1>p. /\ "claim" \in PC /\ "insert" \in PC /\ "reread" \in PC /\ "commit" \in PC
      /\ "append" \in PC /\ "appended" \in PC /\ "manifest" \in PC
      /\ "barrier" \in PC /\ "begin" \in PC /\ "delete" \in PC
  BY DEF PC
<1>f. CASE Finish(c) /\ TablesKept
  BY <1>f, FinishShape DEF Shape
<1>1. CASE Send(c) \/ Handshake(c) \/ Drop(c)
  BY <1>1, ReceiveShape DEF Send, Handshake, Drop, Shape
<1>2. CASE existing_seq(c)
  <2>1. TablesKept
    BY <1>2 DEF existing_seq, TablesKept
  <2>2. CASE ~Finish(c)
    <3>1. /\ tx' = [tx EXCEPT ![c].pc = "claim"]
          /\ tx[c].pc = "check"
          /\ LocksKept
      BY <1>2, <2>2 DEF existing_seq, LocksKept
    <3>2. Others(c) /\ Keeps(c) /\ tx'[c].pc = "claim"
      BY ZenonT(30), <1>p, <3>1, PcShape
    <3> QED
      BY <2>1, <3>1, <3>2 DEF Shape, Moves, GroupPCs, MessagePCs
  <2> QED
    BY <1>f, <2>1, <2>2
<1>3. CASE Claim(c)
  <2>1. TablesKept
    BY <1>3 DEF Claim, TablesKept
  <2>2. CASE ~Finish(c)
    <3>1. /\ tx' = [tx EXCEPT ![c].pc = "insert", ![c].seq = next_seq[tx[c].group]]
          /\ tx[c].pc = "claim"
          /\ ~frozen[tx[c].group]
          /\ groupLock[tx[c].group] = NoConn
          /\ groupLock' = [groupLock EXCEPT ![tx[c].group] = c]
          /\ budgetLock' = budgetLock
      BY <1>3, <2>2 DEF Claim, LockGroup
    <3>2. next_seq[tx[c].group] \in Nat
      BY <1>t DEF TypeOK
    <3>3. Others(c) /\ Keeps(c) /\ tx'[c].pc = "insert" /\ tx'[c].seq = next_seq[tx[c].group]
      BY ZenonT(30), <1>p, <3>1, <3>2, PcSeqShape
    <3>4. TakesGroup(c)
      BY <3>1, <3>3 DEF TakesGroup
    <3> QED
      BY <2>1, <3>3, <3>4 DEF Shape
  <2> QED
    BY <1>f, <2>1, <2>2
<1>4. CASE Insert(c)
  <2>1. TablesKept
    BY <1>4 DEF Insert, TablesKept
  <2>2. CASE row[tx[c].group][tx[c].item] # 0
    <3>1. /\ tx' = [tx EXCEPT ![c].pc = "reread"]
          /\ tx[c].pc = "insert"
          /\ Unlock(c)
      BY <1>4, <2>2 DEF Insert
    <3>2. Others(c) /\ Keeps(c) /\ tx'[c].pc = "reread"
      BY ZenonT(30), <1>p, <3>1, PcShape
    <3>3. Releases(c)
      BY <3>1 DEF Unlock, Releases
    <3> QED
      BY <2>1, <3>1, <3>2, <3>3 DEF Shape, LosesRace
  <2>3. CASE row[tx[c].group][tx[c].item] = 0
    <3>1. /\ tx' = [tx EXCEPT ![c].pc = "commit"]
          /\ tx[c].pc = "insert"
          /\ budgetLock = NoConn
          /\ budgetLock' = c
          /\ groupLock' = groupLock
      BY <1>4, <2>3 DEF Insert
    <3>2. Others(c) /\ Keeps(c) /\ tx'[c].pc = "commit" /\ tx'[c].seq = tx[c].seq
      BY ZenonT(30), <1>p, <3>1, PcShape
    <3>3. TakesBudget(c)
      BY <2>3, <3>1, <3>2 DEF TakesBudget
    <3> QED
      BY <2>1, <3>2, <3>3 DEF Shape
  <2> QED
    BY <2>2, <2>3
<1>5. CASE Reread(c)
  BY <1>5, <1>f DEF Reread, TablesKept
<1>6. CASE Commit(c)
  BY <1>6, FinishShape DEF Commit, Shape, Writes
<1>7. CASE AppendLock(c)
  <2>1. TablesKept
    BY <1>7 DEF AppendLock, TablesKept
  <2>2. CASE ~Finish(c)
    <3>1. /\ tx' = [tx EXCEPT ![c].pc = "append", ![c].seq = NextHandshake(tx[c].group)]
          /\ tx[c].pc = "lock"
          /\ hs[tx[c].group][tx[c].item] = -1
          /\ groupLock[tx[c].group] = NoConn
          /\ groupLock' = [groupLock EXCEPT ![tx[c].group] = c]
          /\ budgetLock' = budgetLock
      BY <1>7, <2>2 DEF AppendLock, LockGroup
    <3>2. NextHandshake(tx[c].group) \in Nat
      BY <1>t, NextHandshakeNat
    <3>3. Others(c) /\ Keeps(c) /\ tx'[c].pc = "append" /\ tx'[c].seq = NextHandshake(tx[c].group)
      BY ZenonT(30), <1>p, <3>1, <3>2, PcSeqShape
    <3>4. TakesGroup(c)
      BY <3>1, <3>3 DEF TakesGroup
    <3> QED
      BY <2>1, <3>3, <3>4 DEF Shape
  <2> QED
    BY <1>f, <2>1, <2>2
<1>8. CASE AppendInsert(c)
  <2>1. /\ tx' = [tx EXCEPT ![c].pc = "appended"]
        /\ tx[c].pc = "append"
        /\ budgetLock = NoConn
        /\ budgetLock' = c
        /\ groupLock' = groupLock
        /\ TablesKept
    BY <1>8 DEF AppendInsert, TablesKept
  <2>2. Others(c) /\ Keeps(c) /\ tx'[c].pc = "appended" /\ tx'[c].seq = tx[c].seq
    BY ZenonT(30), <1>p, <2>1, PcShape
  <2>3. TakesBudget(c)
    BY <2>1, <2>2 DEF TakesBudget
  <2> QED
    BY <2>1, <2>2, <2>3 DEF Shape
<1>9. CASE AppendCommit(c)
  BY <1>9, FinishShape DEF AppendCommit, Shape, Writes
<1>10. CASE DropFrozen(c)
  <2>1. TablesKept
    BY <1>10 DEF DropFrozen, TablesKept
  <2>2. CASE ~Finish(c)
    <3>1. tx' = [tx EXCEPT ![c].pc = "manifest"] /\ tx[c].pc = "frozen" /\ LocksKept
      BY <1>10, <2>2 DEF DropFrozen, LocksKept
    <3>2. Others(c) /\ Keeps(c) /\ tx'[c].pc = "manifest"
      BY ZenonT(30), <1>p, <3>1, PcShape
    <3> QED
      BY <2>1, <3>1, <3>2 DEF Shape, Moves, GroupPCs, MessagePCs
  <2> QED
    BY <1>f, <2>1, <2>2
<1>11. CASE DropManifest(c)
  <2>1. TablesKept
    BY <1>11 DEF DropManifest, TablesKept
  <2>2. CASE ~Finish(c)
    <3>1. tx' = [tx EXCEPT ![c].pc = "barrier"] /\ tx[c].pc = "manifest" /\ LocksKept
      BY <1>11, <2>2 DEF DropManifest, LocksKept
    <3>2. Others(c) /\ Keeps(c) /\ tx'[c].pc = "barrier"
      BY ZenonT(30), <1>p, <3>1, PcShape
    <3> QED
      BY <2>1, <3>1, <3>2 DEF Shape, Moves, GroupPCs, MessagePCs
  <2> QED
    BY <1>f, <2>1, <2>2
<1>12. CASE DropBarrier(c)
  <2>1. /\ tx' = [tx EXCEPT ![c].pc = "begin", ![c].seq = row[tx[c].group][tx[c].item]]
        /\ tx[c].pc = "barrier" /\ LocksKept /\ TablesKept
    BY <1>12 DEF DropBarrier, LocksKept, TablesKept
  <2>2. row[tx[c].group][tx[c].item] \in Nat
    BY ZenonT(60), <1>t, <2>1 DEF ItemInv, MessagePCs, TypeOK
  <2>3. PICK n \in Nat : tx' = [tx EXCEPT ![c].pc = "begin", ![c].seq = n]
    BY ZenonT(30), <2>1, <2>2
  <2>4. Others(c) /\ Keeps(c) /\ tx'[c].pc = "begin"
    BY ZenonT(30), <1>p, <2>3, PcSeqShape
  <2> QED
    BY <2>1, <2>4 DEF Shape, Moves, GroupPCs, MessagePCs
<1>13. CASE DropBegin(c)
  <2>1. TablesKept
    BY <1>13 DEF DropBegin, TablesKept
  <2>2. CASE ~Finish(c)
    <3>1. /\ tx' = [tx EXCEPT ![c].pc = "delete", ![c].doomed = Doomed(c)]
          /\ tx[c].pc = "begin" /\ LocksKept
      BY <1>13, <2>2 DEF DropBegin, LocksKept
    <3>2. Others(c) /\ Keeps(c) /\ tx'[c].pc = "delete"
      BY ZenonT(30), <1>p, <3>1, PcDoomedShape
    <3> QED
      BY <2>1, <3>1, <3>2 DEF Shape, Moves, GroupPCs, MessagePCs
  <2> QED
    BY <1>f, <2>1, <2>2
<1>14. CASE DropCommit(c)
  BY <1>14, FinishShape DEF DropCommit, Shape, Writes
<1>15. CASE Fail(c)
  BY <1>15, <1>f DEF Fail, TablesKept
<1> QED
  BY <1>1, <1>2, <1>3, <1>4, <1>5, <1>6, <1>7, <1>8, <1>9, <1>10, <1>11, <1>12, <1>13, <1>14, <1>15
     DEF Step

LEMMA LockStep ==
    ASSUME LogInv, NEW c \in Conns, Others(c), Shape(c)
    PROVE  LockInv' /\ ItemInv'
<1> USE DEF LogInv
<1>t. /\ tx[c].group \in Groups
      /\ groupLock \in [Groups -> Conns \cup {NoConn}]
      /\ NoConn \notin Conns
      /\ \A d \in Conns : tx[d].group \in Groups
  BY EnvelopeLogAssumption DEF TypeOK, TxRecord
<1> USE DEF LockInv, ItemInv, GroupPCs, BudgetPCs, MessagePCs, Others
<1>1. CASE Idles(c)
  <2>1. tx'[c].pc = "idle" /\ tx'[c].item \in Hashes
    BY <1>1, AnyInRange DEF Idles, IdleTx
  <2> QED
    BY <1>1, <1>t, <2>1 DEF Idles, Releases
<1>2. CASE Begins(c)
  BY <1>2, <1>t DEF Begins, LocksKept
<1>3. CASE Moves(c)
  BY <1>3, <1>t DEF Moves, LocksKept, Keeps
<1>4. CASE TakesGroup(c)
  BY <1>4, <1>t DEF TakesGroup, Keeps
<1>5. CASE TakesBudget(c)
  BY <1>5, <1>t DEF TakesBudget, Keeps
<1>6. CASE LosesRace(c)
  BY <1>6, <1>t DEF LosesRace, Releases, Keeps
<1> QED
  BY <1>1, <1>2, <1>3, <1>4, <1>5, <1>6 DEF Shape

\* A step that leaves the tables alone keeps what the claims rest on.
LEMMA QuietStep ==
    ASSUME LogInv, NEW c \in Conns, Others(c), Shape(c), TablesKept
    PROVE  ClaimInv' /\ AppendInv' /\ Dense' /\ SeqUnique'
<1> USE DEF LogInv
<1>1. next_seq' = next_seq /\ row' = row /\ hs' = hs /\ frozen' = frozen
  BY DEF TablesKept, tables
<1>2. SeqUnique'
  BY <1>1 DEF SeqUnique
<1>3. Dense' /\ \A g \in Groups : NextHandshake(g)' = NextHandshake(g)
  BY <1>1, DenseKept
<1>4. \A d \in Conns : tx[d].group \in Groups
  BY DEF TypeOK, TxRecord
<1>5. ClaimInv'
  <2>1. CASE Idles(c)
    <3>1. \A d \in Conns : tx'[d].pc \in {"insert", "commit"} => tx'[d] = tx[d]
      BY <2>1 DEF Idles, IdleTx, Others
    <3> HIDE DEF LogInv
    <3>2. ClaimInv
      BY DEF LogInv
    <3> QED
      BY <1>1, <3>1, <3>2 DEF ClaimInv
  <2>2. CASE ~Idles(c)
    BY ZenonT(60), <1>1, <2>2 DEF Shape, Begins, Moves, TakesGroup, TakesBudget, LosesRace, ClaimInv,
                      Others, Keeps, GroupPCs
  <2> QED
    BY <2>1, <2>2
<1>6. AppendInv'
  <2>1. CASE Idles(c)
    <3>1. \A d \in Conns : tx'[d].pc \in {"append", "appended"} => tx'[d] = tx[d]
      BY <2>1 DEF Idles, IdleTx, Others
    <3> HIDE DEF LogInv
    <3>2. AppendInv
      BY DEF LogInv
    <3> QED
      BY <1>1, <1>3, <1>4, <3>1, <3>2 DEF AppendInv
  <2>2. CASE ~Idles(c)
    BY ZenonT(60), <1>1, <1>3, <1>4, <2>2
       DEF Shape, Begins, Moves, TakesGroup, TakesBudget, LosesRace, AppendInv,
           Others, Keeps, GroupPCs
  <2> QED
    BY <2>1, <2>2
<1> QED
  BY <1>2, <1>3, <1>5, <1>6

\* What each of the three writing steps does to the tables.
Stores(g, h) ==
    /\ next_seq' = [next_seq EXCEPT ![g] = @ + 1]
    /\ row' = [row EXCEPT ![g][h] = next_seq[g]]
    /\ used' = used + Bytes[{<<g, h>>}]
    /\ used + Bytes[{<<g, h>>}] <= Limit
    /\ ~frozen[g]
    /\ row[g][h] = 0
    /\ hs' = hs /\ anchors' = anchors

Appends(g, m) ==
    /\ hs' = [hs EXCEPT ![g][m] = NextHandshake(g)]
    /\ hs[g][m] = -1
    /\ used' = used + Bytes[{<<g, m>>}]
    /\ used + Bytes[{<<g, m>>}] <= Limit
    /\ next_seq' = next_seq /\ row' = row /\ anchors' = anchors

Deletes(g, gone) ==
    /\ row' = [row EXCEPT ![g] = [h \in Hashes |-> IF h \in gone THEN 0 ELSE row[g][h]]]
    /\ used' = IF used > Bytes[{g} \X gone] THEN used - Bytes[{g} \X gone] ELSE 0
    /\ next_seq' = next_seq /\ hs' = hs

LEMMA CommitWrites ==
    ASSUME LogInv, NEW c \in Conns, Commit(c)
    PROVE  /\ tx[c].item \in Hashes /\ tx[c].group \in Groups /\ groupLock[tx[c].group] = c
           /\ UNCHANGED tables \/ Stores(tx[c].group, tx[c].item)
<1>1. tx[c].pc = "commit"
  BY DEF Commit
<1>2. tx[c].item \in Hashes /\ tx[c].group \in Groups /\ groupLock[tx[c].group] = c
  BY ZenonT(30), <1>1 DEF LogInv, ItemInv, MessagePCs, LockInv, GroupPCs, TypeOK, TxRecord
<1>3. tx[c].seq = next_seq[tx[c].group] /\ ~frozen[tx[c].group] /\ row[tx[c].group][tx[c].item] = 0
  BY <1>1 DEF LogInv, ClaimInv
<1>4. used \in Nat /\ Bytes[{<<tx[c].group, tx[c].item>>}] \in Nat /\ Limit \in Nat
  BY <1>2, ChargeNat, EnvelopeLogAssumption DEF LogInv, TypeOK
<1> QED
  BY <1>2, <1>3, <1>4 DEF Commit, Stores, over_budget

LEMMA AppendWrites ==
    ASSUME LogInv, NEW c \in Conns, AppendCommit(c)
    PROVE  /\ tx[c].item \in Messages /\ tx[c].group \in Groups /\ groupLock[tx[c].group] = c
           /\ UNCHANGED tables \/ Appends(tx[c].group, tx[c].item)
<1>1. tx[c].pc = "appended"
  BY DEF AppendCommit
<1>2. tx[c].item \in Messages /\ tx[c].group \in Groups /\ groupLock[tx[c].group] = c
  BY <1>1 DEF LogInv, ItemInv, MessagePCs, LockInv, GroupPCs, TypeOK, TxRecord
<1>3. tx[c].seq = NextHandshake(tx[c].group) /\ hs[tx[c].group][tx[c].item] = -1
  BY <1>1 DEF LogInv, AppendInv
<1>4. used \in Nat /\ Bytes[{<<tx[c].group, tx[c].item>>}] \in Nat /\ Limit \in Nat
  BY <1>2, ChargeNat, EnvelopeLogAssumption DEF LogInv, TypeOK
<1> QED
  BY <1>2, <1>3, <1>4 DEF AppendCommit, Appends, over_budget

LEMMA DropWrites ==
    ASSUME LogInv, NEW c \in Conns, DropCommit(c)
    PROVE  /\ tx[c].group \in Groups
           /\ Deletes(tx[c].group, Deleted(c))
BY DEF LogInv, TypeOK, TxRecord, DropCommit, Deletes

LEMMA CommitStep ==
    ASSUME LogInv, NEW c \in Conns, Others(c), Idles(c), frozen' = frozen,
           NEW g \in Groups, NEW h \in Hashes, groupLock[g] = c, Stores(g, h)
    PROVE  ClaimInv' /\ AppendInv' /\ Dense' /\ SeqUnique'
<1> USE DEF LogInv
<1>1. /\ next_seq \in [Groups -> Nat \ {0}] /\ row \in [Groups -> [Hashes -> Nat]]
      /\ \A d \in Conns : tx[d].group \in Groups
  BY DEF TypeOK, TxRecord
<1>2. tx'[c].pc = "idle"
  BY DEF Idles, IdleTx
<1>3. \A d \in Conns \ {c} : tx[d].pc \in GroupPCs => tx[d].group # g
  BY DEF LockInv
<1>4. \A x \in Groups \ {g} : next_seq'[x] = next_seq[x] /\ row'[x] = row[x]
  BY <1>1 DEF Stores
<1>5. ClaimInv'
  BY <1>1, <1>2, <1>3, <1>4 DEF ClaimInv, Others, GroupPCs
<1>6. Dense' /\ \A x \in Groups : NextHandshake(x)' = NextHandshake(x)
  BY DenseKept DEF Stores
<1>7. AppendInv'
  BY <1>1, <1>2, <1>6 DEF AppendInv, Others, Stores
<1>8. SeqUnique'
  <2>1. /\ next_seq'[g] = next_seq[g] + 1
        /\ row'[g][h] = next_seq[g]
        /\ \A k \in Hashes \ {h} : row'[g][k] = row[g][k]
    BY <1>1 DEF Stores
  <2>2. \A x \in Groups, k \in Hashes : row[x][k] \in Nat /\ next_seq[x] \in Nat
    BY <1>1
  <2> QED
    BY <1>4, <2>1, <2>2 DEF SeqUnique
<1> QED
  BY <1>5, <1>6, <1>7, <1>8

LEMMA AppendStep ==
    ASSUME LogInv, NEW c \in Conns, Others(c), Idles(c), frozen' = frozen,
           NEW g \in Groups, NEW m \in Messages, groupLock[g] = c, Appends(g, m)
    PROVE  ClaimInv' /\ AppendInv' /\ Dense' /\ SeqUnique'
<1> USE DEF LogInv
<1>1. hs \in [Groups -> [Messages -> Nat \cup {-1}]] /\ \A d \in Conns : tx[d].group \in Groups
  BY DEF TypeOK, TxRecord
<1>2. tx'[c].pc = "idle"
  BY DEF Idles, IdleTx
<1>3. \A d \in Conns \ {c} : tx[d].pc \in GroupPCs => tx[d].group # g
  BY DEF LockInv
<1>4. \A x \in Groups \ {g} : hs'[x] = hs[x]
  BY <1>1 DEF Appends
<1>5. \A x \in Groups \ {g} : NextHandshake(x)' = NextHandshake(x) /\ InUse(x)' = InUse(x)
  BY <1>4 DEF NextHandshake, InUse
<1>6. ClaimInv' /\ SeqUnique'
  BY <1>2 DEF ClaimInv, Others, Appends, SeqUnique
<1>7. AppendInv'
  BY <1>1, <1>2, <1>3, <1>4, <1>5 DEF AppendInv, Others, GroupPCs
<1>8. PICK n \in Nat : InUse(g) = -1 .. (n - 1)
  BY DEF Dense
<1>9. NextHandshake(g) = n
  BY <1>8, NextHandshakeIs
<1>10. hs'[g][m] = n /\ \A k \in Messages \ {m} : hs'[g][k] = hs[g][k]
  BY <1>1, <1>9 DEF Appends
<1>11. \A k \in Messages : hs[g][k] \in -1 .. (n - 1)
  BY <1>8 DEF InUse
<1>12. InUse(g)' = -1 .. ((n + 1) - 1)
  <2>1. InUse(g)' = {hs'[g][k] : k \in Messages} \cup {-1}
    BY DEF InUse
  <2>2. ASSUME NEW i \in InUse(g)' PROVE i \in -1 .. ((n + 1) - 1)
    BY <1>10, <1>11, <2>1, <2>2
  <2>3. ASSUME NEW i \in -1 .. ((n + 1) - 1) PROVE i \in InUse(g)'
    <3>1. CASE i = n
      BY <1>10, <2>1, <3>1
    <3>2. CASE i = -1
      BY <2>1, <3>2
    <3>3. CASE i # n /\ i # -1
      <4>1. i \in InUse(g)
        BY <1>8, <2>3, <3>3
      <4>2. PICK k \in Messages : hs[g][k] = i
        BY <3>3, <4>1 DEF InUse
      <4>3. k # m
        BY <3>3, <4>2 DEF Appends
      <4> QED
        BY <1>10, <2>1, <4>2, <4>3
    <3> QED
      BY <3>1, <3>2, <3>3
  <2> QED
    BY ZenonT(30), <2>2, <2>3
<1>13. \A k, l \in Messages : hs'[g][k] = hs'[g][l] /\ hs'[g][k] # -1 => k = l
  <2>1. \A k, l \in Messages : hs[g][k] = hs[g][l] /\ hs[g][k] # -1 => k = l
    BY DEF Dense
  <2>2. \A k \in Messages : hs[g][k] # n
    BY <1>11
  <2> QED
    BY <1>10, <2>1, <2>2
<1>14. Dense'
  <2>1. \E i \in Nat : InUse(g)' = -1 .. (i - 1)
    <3>1. n + 1 \in Nat
      OBVIOUS
    <3> QED
      BY <1>12, <3>1
  <2> QED
    BY <1>4, <1>5, <1>13, <2>1 DEF Dense
<1> QED
  BY <1>6, <1>7, <1>14

LEMMA DropStep ==
    ASSUME LogInv, NEW c \in Conns, Others(c), Idles(c), frozen' = frozen,
           NEW g \in Groups, NEW gone, Deletes(g, gone)
    PROVE  ClaimInv' /\ AppendInv' /\ Dense' /\ SeqUnique'
<1> USE DEF LogInv
<1>1. /\ next_seq \in [Groups -> Nat \ {0}] /\ row \in [Groups -> [Hashes -> Nat]]
      /\ \A d \in Conns : tx[d].group \in Groups
  BY DEF TypeOK, TxRecord
<1>2. tx'[c].pc = "idle"
  BY DEF Idles, IdleTx
<1>3. \A x \in Groups, k \in Hashes : row'[x][k] = row[x][k] \/ row'[x][k] = 0
  BY <1>1 DEF Deletes
<1>4. Dense' /\ \A x \in Groups : NextHandshake(x)' = NextHandshake(x)
  BY DenseKept DEF Deletes
<1>5. AppendInv'
  BY <1>1, <1>2, <1>4 DEF AppendInv, Others, Deletes
<1>6. SeqUnique'
  BY <1>1, <1>3 DEF SeqUnique, Deletes
<1>7. ClaimInv'
  <2>1. \A d \in Conns : tx[d].pc = "commit" => tx[d].item \in Hashes
    BY DEF ItemInv, MessagePCs
  <2> QED
    BY <1>1, <1>2, <1>3, <2>1 DEF ClaimInv, Others, Deletes
<1> QED
  BY <1>4, <1>5, <1>6, <1>7

LEMMA FreezeStep ==
    ASSUME LogInv, NEW g \in Groups, Freeze(g) \/ clear_freeze(g)
    PROVE  LockInv' /\ ItemInv' /\ ClaimInv' /\ AppendInv' /\ Dense' /\ SeqUnique'
<1> USE DEF LogInv
<1>1. /\ groupLock[g] = NoConn
      /\ next_seq' = next_seq /\ row' = row /\ hs' = hs /\ tx' = tx
      /\ groupLock' = groupLock /\ budgetLock' = budgetLock
      /\ \A x \in Groups \ {g} : frozen'[x] = frozen[x]
  BY DEF Freeze, clear_freeze, tables, TypeOK
<1>2. \A d \in Conns : tx[d].pc \in GroupPCs => tx[d].group # g
  BY <1>1, EnvelopeLogAssumption DEF LockInv
<1>3. \A d \in Conns : tx[d].group \in Groups
  BY DEF TypeOK, TxRecord
<1>4. LockInv' /\ ItemInv' /\ SeqUnique'
  BY <1>1 DEF LockInv, ItemInv, SeqUnique
<1>5. Dense' /\ \A x \in Groups : NextHandshake(x)' = NextHandshake(x)
  BY <1>1, DenseKept
<1>6. AppendInv'
  BY <1>1, <1>3, <1>5 DEF AppendInv
<1>7. ClaimInv'
  BY <1>1, <1>2, <1>3 DEF ClaimInv, GroupPCs
<1> QED
  BY <1>4, <1>5, <1>6, <1>7

LEMMA StutterStep == LogInv /\ UNCHANGED vars => LogInv'
<1> SUFFICES ASSUME LogInv, UNCHANGED vars PROVE LogInv'
  OBVIOUS
<1>1. TypeOK' /\ LockInv' /\ ItemInv' /\ ClaimInv' /\ SeqUnique'
  BY DEF LogInv, vars, TypeOK, LockInv, ItemInv, ClaimInv, SeqUnique
<1>2. Dense' /\ AppendInv'
  BY DEF LogInv, vars, Dense, InUse, AppendInv, NextHandshake
<1> QED
  BY <1>1, <1>2 DEF LogInv

LEMMA NextLogInv == LogInv /\ [Next]_vars => LogInv'
<1> SUFFICES ASSUME LogInv, [Next]_vars PROVE LogInv'
  OBVIOUS
<1>1. TypeOK'
  BY TypeStep
<1>2. CASE UNCHANGED vars
  BY <1>2, StutterStep
<1>3. ASSUME NEW g \in Groups, Freeze(g) \/ clear_freeze(g)
      PROVE  LogInv'
  BY <1>1, <1>3, FreezeStep DEF LogInv
<1>4. ASSUME NEW c \in Conns, Send(c) \/ Handshake(c) \/ Drop(c) \/ Step(c) \/ Fail(c)
      PROVE  LogInv'
  <2>1. Others(c) /\ Shape(c) /\ (TablesKept \/ Writes(c))
    BY <1>4, StepShape
  <2>2. LockInv' /\ ItemInv'
    BY <2>1, LockStep
  <2>3. CASE TablesKept
    BY <1>1, <2>1, <2>2, <2>3, QuietStep DEF LogInv
  <2>4. CASE Writes(c)
    <3>1. Idles(c) /\ frozen' = frozen
      BY <2>4 DEF Writes
    <3>2. CASE UNCHANGED tables
      BY <1>1, <2>1, <2>2, <3>1, <3>2, QuietStep DEF LogInv, TablesKept
    <3>3. CASE Commit(c) /\ ~UNCHANGED tables
      BY <1>1, <2>1, <2>2, <3>1, <3>3, CommitWrites, CommitStep DEF LogInv
    <3>4. CASE AppendCommit(c) /\ ~UNCHANGED tables
      BY <1>1, <2>1, <2>2, <3>1, <3>4, AppendWrites, AppendStep DEF LogInv
    <3>5. CASE DropCommit(c)
      BY ZenonT(30), <1>1, <2>1, <2>2, <3>1, <3>5, DropWrites, DropStep DEF LogInv
    <3> QED
      BY <2>4, <3>2, <3>3, <3>4, <3>5 DEF Writes
  <2> QED
    BY <2>1, <2>3, <2>4
<1> QED
  BY <1>2, <1>3, <1>4 DEF Next

\* The inductive invariant holds in every reachable state.
THEOREM LogInvariant == Spec => []LogInv
BY InitLogInv, NextLogInv, PTL DEF Spec

\* Every table, lock and handler stays well typed; in particular the next number a
\* handshake is given is always a natural, whatever the messages (append_within).
THEOREM TypeCorrect == Spec => []TypeOK
<1>1. LogInv => TypeOK
  BY DEF LogInv
<1> QED
  BY <1>1, LogInvariant, PTL

\* accept.rs: no two envelopes of a group ever hold one number, and every number
\* handed out lies below the counter, for any number of connections.
THEOREM SeqUniqueCorrect == Spec => []SeqUnique
<1>1. LogInv => SeqUnique
  BY DEF LogInv
<1> QED
  BY <1>1, LogInvariant, PTL

\* handshake/store.rs: the handshake log of a group is dense from zero.
THEOREM HandshakeDenseCorrect == Spec => []HandshakeDense
<1>1. LogInv => HandshakeDense
  <2> SUFFICES ASSUME LogInv, NEW g \in Groups, NEW m \in Messages,
                      NEW i \in 0 .. hs[g][m] - 1
               PROVE  \E k \in Messages : hs[g][k] = i
    BY DEF LogInv, Dense, HandshakeDense
  <2>1. PICK n \in Nat : InUse(g) = -1 .. (n - 1)
    BY DEF LogInv, Dense
  <2>2. hs[g][m] \in -1 .. (n - 1)
    BY <2>1 DEF InUse
  <2>3. i \in InUse(g) /\ i # -1
    BY <2>1, <2>2
  <2> QED
    BY <2>3 DEF InUse
<1> QED
  BY <1>1, LogInvariant, PTL

(***************************************************************************)
(* The committed tables change in one of five ways; every property of the  *)
(* tables alone follows from this one lemma.                               *)
(***************************************************************************)
TableStep ==
    \/ UNCHANGED tables
    \/ \E g \in Groups, h \in Hashes : Stores(g, h) /\ frozen' = frozen
    \/ \E g \in Groups, m \in Messages : Appends(g, m) /\ frozen' = frozen
    \/ \E c \in Conns : DropCommit(c)

LEMMA NextTableStep == LogInv /\ [Next]_vars => TableStep
<1> SUFFICES ASSUME LogInv, [Next]_vars PROVE TableStep
  OBVIOUS
<1>1. CASE UNCHANGED vars
  BY <1>1 DEF vars, tables, TableStep
<1>2. ASSUME NEW g \in Groups, Freeze(g) \/ clear_freeze(g)
      PROVE  TableStep
  BY <1>2 DEF Freeze, clear_freeze, TableStep
<1>3. ASSUME NEW c \in Conns, Send(c) \/ Handshake(c) \/ Drop(c) \/ Step(c) \/ Fail(c)
      PROVE  TableStep
  <2>1. TablesKept \/ Writes(c)
    BY <1>3, StepShape
  <2>2. CASE TablesKept
    BY <2>2 DEF TablesKept, TableStep
  <2>3. CASE Writes(c)
    <3>1. CASE Commit(c)
      BY <2>3, <3>1, CommitWrites DEF Writes, TableStep
    <3>2. CASE AppendCommit(c)
      BY <2>3, <3>2, AppendWrites DEF Writes, TableStep
    <3>3. CASE DropCommit(c)
      BY <3>3 DEF TableStep
    <3> QED
      BY <2>3, <3>1, <3>2, <3>3 DEF Writes
  <2> QED
    BY <2>1, <2>2, <2>3
<1> QED
  BY <1>1, <1>2, <1>3 DEF Next

\* The counter: exact, and within the ceiling.
BudgetInv == BudgetExact /\ WithinLimit

LEMMA RowsInRange == Rows \in SUBSET (Groups \X (Hashes \cup Messages))
BY DEF Rows

LEMMA EmptyBytes == Bytes[{}] = 0
<1>1. {} \in SUBSET (Groups \X (Hashes \cup Messages)) /\ {} \cap {} = {} /\ {} \cup {} = {}
  OBVIOUS
<1>2. Bytes[{}] \in Nat /\ Bytes[{}] = Bytes[{}] + Bytes[{}]
  BY <1>1, EnvelopeLogAssumption
<1>3. \A x \in Nat : x = x + x => x = 0
  OBVIOUS
<1> QED
  BY <1>2, <1>3

LEMMA InitBudget == Init => BudgetInv
<1> SUFFICES ASSUME Init PROVE BudgetInv
  OBVIOUS
<1>1. Rows = {}
  BY DEF Init, Rows
<1> QED
  BY <1>1, EmptyBytes, EnvelopeLogAssumption DEF Init, BudgetInv, BudgetExact, WithinLimit

\* A row that was not there is charged once.
LEMMA ChargeOne ==
    ASSUME NEW R \in SUBSET (Groups \X (Hashes \cup Messages)),
           NEW r \in Groups \X (Hashes \cup Messages), r \notin R
    PROVE  Bytes[R \cup {r}] = Bytes[R] + Bytes[{r}]
<1>1. {r} \in SUBSET (Groups \X (Hashes \cup Messages)) /\ R \cap {r} = {}
  OBVIOUS
<1> QED
  BY ZenonT(30), <1>1, EnvelopeLogAssumption

LEMMA StoreBudget ==
    ASSUME TypeOK, BudgetInv, NEW g \in Groups, NEW h \in Hashes, Stores(g, h)
    PROVE  BudgetInv'
<1>1. <<g, h>> \notin Rows
  BY EnvelopeLogAssumption DEF Rows, Stores
<1>2. Rows' = Rows \cup {<<g, h>>}
  <2>1. /\ row'[g][h] # 0
        /\ \A x \in Groups, k \in Hashes : <<x, k>> # <<g, h>> => row'[x][k] = row[x][k]
    BY DEF Stores, TypeOK
  <2>2. hs' = hs
    BY DEF Stores
  <2>3. {r \in Groups \X Hashes : row'[r[1]][r[2]] # 0}
            = {r \in Groups \X Hashes : row[r[1]][r[2]] # 0} \cup {<<g, h>>}
    BY <2>1
  <2> QED
    BY <2>2, <2>3 DEF Rows
<1>3. Bytes[Rows'] = Bytes[Rows] + Bytes[{<<g, h>>}]
  BY <1>1, <1>2, ChargeOne, RowsInRange
<1> QED
  BY <1>3 DEF BudgetInv, BudgetExact, WithinLimit, Stores

LEMMA AppendBudget ==
    ASSUME LogInv, BudgetInv, NEW g \in Groups, NEW m \in Messages, Appends(g, m)
    PROVE  BudgetInv'
<1>1. <<g, m>> \notin Rows
  BY EnvelopeLogAssumption DEF Rows, Appends
<1>2. Rows' = Rows \cup {<<g, m>>}
  <2>0. NextHandshake(g) \in Nat
    BY NextHandshakeNat DEF LogInv
  <2>1. /\ hs'[g][m] # -1
        /\ \A x \in Groups, k \in Messages : <<x, k>> # <<g, m>> => hs'[x][k] = hs[x][k]
    BY <2>0 DEF Appends, LogInv, TypeOK
  <2>2. row' = row
    BY DEF Appends
  <2>3. {r \in Groups \X Messages : hs'[r[1]][r[2]] # -1}
            = {r \in Groups \X Messages : hs[r[1]][r[2]] # -1} \cup {<<g, m>>}
    BY <2>1
  <2> QED
    BY <2>2, <2>3 DEF Rows
<1>3. Bytes[Rows'] = Bytes[Rows] + Bytes[{<<g, m>>}]
  BY <1>1, <1>2, ChargeOne, RowsInRange
<1> QED
  BY <1>3 DEF BudgetInv, BudgetExact, WithinLimit, Appends

LEMMA DropBudget ==
    ASSUME TypeOK, BudgetInv, NEW g \in Groups, NEW gone \in SUBSET Stored(g), Deletes(g, gone)
    PROVE  BudgetInv' /\ used' = used - Bytes[{g} \X gone]
<1>1. /\ Rows' \in SUBSET (Groups \X (Hashes \cup Messages))
      /\ {g} \X gone \in SUBSET (Groups \X (Hashes \cup Messages))
  BY DEF Rows, Stored
<1>2. /\ \A k \in Hashes : row'[g][k] = IF k \in gone THEN 0 ELSE row[g][k]
      /\ \A x \in Groups \ {g}, k \in Hashes : row'[x][k] = row[x][k]
      /\ hs' = hs
  BY DEF Deletes, TypeOK
<1>3. Rows' \cap ({g} \X gone) = {}
  BY <1>2, EnvelopeLogAssumption DEF Rows, Stored
<1>4. Rows = Rows' \cup ({g} \X gone)
  BY <1>2 DEF Rows, Stored
<1>5. Bytes[Rows] = Bytes[Rows'] + Bytes[{g} \X gone]
  BY <1>1, <1>3, <1>4, EnvelopeLogAssumption
<1>6. Bytes[Rows'] \in Nat /\ Bytes[{g} \X gone] \in Nat
  BY <1>1, EnvelopeLogAssumption
<1>7. used = Bytes[Rows] /\ used <= Limit /\ Limit \in Nat
  BY EnvelopeLogAssumption DEF BudgetInv, BudgetExact, WithinLimit
<1>8. used' = IF used > Bytes[{g} \X gone] THEN used - Bytes[{g} \X gone] ELSE 0
  BY DEF Deletes
<1>9. used' = Bytes[Rows'] /\ used' = used - Bytes[{g} \X gone] /\ used' <= Limit
  <2> DEFINE a == Bytes[Rows']
             b == Bytes[{g} \X gone]
  <2> HIDE DEF a, b
  <2>1. a \in Nat /\ b \in Nat /\ used = a + b /\ used <= Limit /\ Limit \in Nat
    BY <1>5, <1>6, <1>7 DEF a, b
  <2>2. used' = IF used > b THEN used - b ELSE 0
    BY <1>8 DEF b
  <2>3. used' = a /\ used' = used - b /\ used' <= Limit
    BY <2>1, <2>2
  <2> QED
    BY <2>3 DEF a, b
<1> QED
  BY <1>9 DEF BudgetInv, BudgetExact, WithinLimit

LEMMA NextBudget == LogInv /\ BudgetInv /\ [Next]_vars => BudgetInv'
<1> SUFFICES ASSUME LogInv, BudgetInv, [Next]_vars PROVE BudgetInv'
  OBVIOUS
<1>1. CASE UNCHANGED tables
  BY <1>1 DEF tables, BudgetInv, BudgetExact, WithinLimit, Rows
<1>2. ASSUME NEW c \in Conns, DropCommit(c)
      PROVE  BudgetInv'
  <2>1. Deleted(c) \in SUBSET Stored(tx[c].group)
    BY DEF Deleted
  <2> QED
    BY ZenonT(30), <1>2, <2>1, DropWrites, DropBudget DEF LogInv
<1> QED
  BY <1>1, <1>2, NextTableStep, StoreBudget, AppendBudget DEF TableStep, LogInv

LEMMA BudgetInvariant == Spec => []BudgetInv
BY InitBudget, NextBudget, LogInvariant, PTL DEF Spec

\* migrations 0010 and 0017: the counter is the sum over the rows it describes, and
\* its floor at zero never hides a drift.
THEOREM BudgetExactCorrect == Spec => []BudgetExact
<1>1. BudgetInv => BudgetExact
  BY DEF BudgetInv
<1> QED
  BY <1>1, BudgetInvariant, PTL

\* log_budget.rs: the ceiling is never overshot, by any number of writers of both logs.
THEOREM WithinLimitCorrect == Spec => []WithinLimit
<1>1. BudgetInv => WithinLimit
  BY DEF BudgetInv
<1> QED
  BY <1>1, BudgetInvariant, PTL

(***************************************************************************)
(* Action properties.                                                      *)
(***************************************************************************)

\* What a step writes into the envelope table: one new row under the next number, or
\* nothing but deletions.
LEMMA RowStep ==
    ASSUME LogInv, [Next]_vars, NEW g \in Groups, NEW h \in Hashes,
           row'[g][h] # row[g][h], row'[g][h] # 0
    PROVE  row'[g][h] = next_seq[g] /\ ~frozen[g]
<1>1. row \in [Groups -> [Hashes -> Nat]]
  BY DEF LogInv, TypeOK
<1>2. ASSUME NEW x \in Groups, NEW k \in Hashes, Stores(x, k)
      PROVE  row'[g][h] = next_seq[g] /\ ~frozen[g]
  BY <1>1, <1>2 DEF Stores
<1>3. ASSUME NEW c \in Conns, DropCommit(c) PROVE FALSE
  <2>0. Deleted(c) \in SUBSET Hashes
    BY DEF Deleted, Stored
  <2>1. PICK x \in Groups, gone \in SUBSET Hashes : Deletes(x, gone)
    BY ZenonT(30), <1>3, <2>0, DropWrites DEF LogInv, TypeOK, TxRecord
  <2>2. row'[g][h] = row[g][h] \/ row'[g][h] = 0
    BY <1>1, <2>1 DEF Deletes
  <2> QED
    BY <2>2
<1> QED
  BY ZenonT(30), <1>2, <1>3, NextTableStep DEF TableStep, tables, Appends

\* accept.rs: numbers become visible in the order they are assigned, so that a cursor
\* never has an envelope appear below it.
THEOREM CommitOrderCorrect == Spec => CommitOrder
<1>1. LogInv /\ [Next]_vars =>
          [\A g \in Groups, h \in Hashes :
              row'[g][h] # row[g][h] /\ row'[g][h] # 0 =>
                  \A k \in Hashes : row[g][k] < row'[g][h]]_vars
  <2> SUFFICES ASSUME LogInv, [Next]_vars, NEW g \in Groups, NEW h \in Hashes,
                      row'[g][h] # row[g][h], row'[g][h] # 0, NEW k \in Hashes
               PROVE  row[g][k] < row'[g][h]
    OBVIOUS
  <2>1. row'[g][h] = next_seq[g]
    BY RowStep
  <2>2. row[g][k] < next_seq[g]
    BY DEF LogInv, SeqUnique
  <2> QED
    BY <2>1, <2>2
<1> QED
  BY <1>1, LogInvariant, PTL DEF Spec, CommitOrder

\* accept.rs: no envelope enters a frozen group.
THEOREM FrozenStopsAcceptCorrect == Spec => FrozenStopsAccept
<1>1. LogInv /\ [Next]_vars =>
          [\A g \in Groups, h \in Hashes :
              row'[g][h] # row[g][h] /\ row'[g][h] # 0 => ~frozen[g]]_vars
  BY RowStep
<1> QED
  BY <1>1, LogInvariant, PTL DEF Spec, FrozenStopsAccept
=============================================================================
