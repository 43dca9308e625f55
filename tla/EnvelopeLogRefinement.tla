----------------------- MODULE EnvelopeLogRefinement -----------------------
(***************************************************************************)
(* With at most one connection compacting, every anchor stays and the      *)
(* interleaved transactions of EnvelopeLog implement AtomicLog.            *)
(***************************************************************************)
EXTENDS EnvelopeLogProofs

OneDropper == \A c, d \in Droppers : c = d

DropPCs == {"frozen", "manifest", "barrier", "begin", "delete"}

\* What a DROP has read outside its transaction is still so when it deletes.
DropInv ==
    \A c \in Conns :
        /\ tx[c].pc \in DropPCs => c \in Droppers
        /\ tx[c].pc \in {"barrier", "begin", "delete"} =>
               {tx[c].item} \cup tx[c].snaps \subseteq Stored(tx[c].group)
        /\ tx[c].pc \in {"begin", "delete"} => tx[c].seq = row[tx[c].group][tx[c].item]
        /\ tx[c].pc = "delete" => tx[c].doomed = Doomed(c)

CompactInv == DropInv /\ AnchorsHeld

LEMMA InitCompact == Init => CompactInv
BY DEF Init, IdleTx, CompactInv, DropInv, DropPCs, AnchorsHeld, Stored

\* A handler that another one's step leaves alone, by what the step did to the tables.
LEMMA OthersCompact ==
    ASSUME LogInv, CompactInv, NEW d \in Conns, tx'[d] = tx[d],
           \/ UNCHANGED tables
           \/ \E g \in Groups, h \in Hashes : Stores(g, h)
           \/ \E g \in Groups, m \in Messages : Appends(g, m)
    PROVE  /\ tx'[d].pc \in DropPCs => d \in Droppers
           /\ tx'[d].pc \in {"barrier", "begin", "delete"} =>
                  {tx'[d].item} \cup tx'[d].snaps \subseteq Stored(tx[d].group)'
           /\ tx'[d].pc \in {"begin", "delete"} => tx'[d].seq = row'[tx'[d].group][tx'[d].item]
           /\ tx'[d].pc = "delete" => tx'[d].doomed = Doomed(d)'
<1>1. /\ tx[d].group \in Groups
      /\ row \in [Groups -> [Hashes -> Nat]] /\ next_seq \in [Groups -> Nat \ {0}]
  BY DEF LogInv, TypeOK, TxRecord
<1>2. anchors' = anchors
  BY ZenonT(30) DEF tables, Stores, Appends
<1>3. /\ \A k \in Stored(tx[d].group) : row'[tx[d].group][k] = row[tx[d].group][k]
      /\ \A k \in Hashes \ Stored(tx[d].group) :
             \/ row'[tx[d].group][k] = 0
             \/ row'[tx[d].group][k] = next_seq[tx[d].group]
  <2>1. CASE row' = row
    BY <2>1 DEF Stored
  <2>2. ASSUME NEW g \in Groups, NEW h \in Hashes, Stores(g, h)
        PROVE  <1>3!1 /\ <1>3!2
    <3>1. \A k \in Hashes : \/ row'[tx[d].group][k] = row[tx[d].group][k]
                            \/ /\ row[tx[d].group][k] = 0
                               /\ row'[tx[d].group][k] = next_seq[tx[d].group]
      BY <1>1, <2>2 DEF Stores
    <3> QED
      BY <3>1 DEF Stored
  <2> QED
    BY ZenonT(30), <2>1, <2>2 DEF tables, Appends
<1>4. /\ tx[d].pc \in DropPCs => d \in Droppers
      /\ tx[d].pc \in {"barrier", "begin", "delete"} =>
             {tx[d].item} \cup tx[d].snaps \subseteq Stored(tx[d].group)
      /\ tx[d].pc \in {"begin", "delete"} => tx[d].seq = row[tx[d].group][tx[d].item]
      /\ tx[d].pc = "delete" => tx[d].doomed = Doomed(d)
  BY DEF CompactInv, DropInv
<1>5. \A k \in Hashes : row[tx[d].group][k] \in Nat /\ row[tx[d].group][k] < next_seq[tx[d].group]
  BY <1>1 DEF LogInv, SeqUnique
<1>6. Stored(tx[d].group) \subseteq Stored(tx[d].group)'
  BY <1>3 DEF Stored
<1>7. ASSUME tx[d].pc \in {"begin", "delete"}
      PROVE  tx[d].seq = row'[tx[d].group][tx[d].item] /\ tx[d].item \in Stored(tx[d].group)
  BY <1>3, <1>4, <1>7
<1>8. ASSUME tx[d].pc = "delete"
      PROVE  tx[d].doomed = Doomed(d)'
  <2>1. tx[d].seq = row[tx[d].group][tx[d].item] /\ tx[d].item \in Hashes
    BY <1>4, <1>7, <1>8 DEF Stored
  <2>2. \A k \in Hashes :
            (row'[tx[d].group][k] # 0 /\ row'[tx[d].group][k] < tx[d].seq)
              <=> (row[tx[d].group][k] # 0 /\ row[tx[d].group][k] < tx[d].seq)
    <3> SUFFICES ASSUME NEW k \in Hashes
                 PROVE  (row'[tx[d].group][k] # 0 /\ row'[tx[d].group][k] < tx[d].seq)
                          <=> (row[tx[d].group][k] # 0 /\ row[tx[d].group][k] < tx[d].seq)
      OBVIOUS
    <3>1. CASE k \in Stored(tx[d].group)
      BY <1>3, <3>1
    <3>2. CASE k \notin Stored(tx[d].group)
      <4>1. row[tx[d].group][k] = 0
        BY <3>2 DEF Stored
      <4>2. CASE row'[tx[d].group][k] = 0
        BY <4>1, <4>2
      <4>3. CASE row'[tx[d].group][k] = next_seq[tx[d].group]
        <5>1. row[tx[d].group][tx[d].item] < next_seq[tx[d].group]
          BY <1>5, <2>1
        <5>2. ~(next_seq[tx[d].group] < tx[d].seq)
          BY <1>1, <1>5, <2>1, <5>1
        <5> QED
          BY <4>1, <4>3, <5>2
      <4> QED
        BY <1>3, <3>2, <4>2, <4>3
    <3> QED
      BY <3>1, <3>2
  <2>3. Doomed(d)' = Doomed(d)
    BY <1>2, <2>2 DEF Doomed, Stored
  <2> QED
    BY <1>4, <1>8, <2>3
<1> QED
  BY <1>4, <1>6, <1>7, <1>8

LEMMA DropsAlone ==
    ASSUME OneDropper, CompactInv, NEW c \in Conns, NEW d \in Conns \ {c},
           tx[c].pc \in DropPCs
    PROVE  tx[d].pc \notin DropPCs
BY DEF OneDropper, CompactInv, DropInv

\* The steps of the compacting handler itself, up to its delete.
LEMMA OwnDropStep ==
    ASSUME LogInv, CompactInv, NEW c \in Conns,
           Drop(c) \/ DropFrozen(c) \/ DropManifest(c) \/ DropBarrier(c) \/ DropBegin(c)
    PROVE  /\ tx'[c].pc \in DropPCs => c \in Droppers
           /\ tx'[c].pc \in {"barrier", "begin", "delete"} =>
                  {tx'[c].item} \cup tx'[c].snaps \subseteq Stored(tx[c].group)'
           /\ tx'[c].pc \in {"begin", "delete"} => tx'[c].seq = row'[tx'[c].group][tx'[c].item]
           /\ tx'[c].pc = "delete" => tx'[c].doomed = Doomed(c)'
<1> DEFINE Goal == /\ tx'[c].pc \in DropPCs => c \in Droppers
                   /\ tx'[c].pc \in {"barrier", "begin", "delete"} =>
                          {tx'[c].item} \cup tx'[c].snaps \subseteq Stored(tx[c].group)'
                   /\ tx'[c].pc \in {"begin", "delete"} => tx'[c].seq = row'[tx'[c].group][tx'[c].item]
                   /\ tx'[c].pc = "delete" => tx'[c].doomed = Doomed(c)'
<1>1. tx \in [Conns -> TxRecord] /\ tx[c] \in TxRecord
  BY DEF LogInv, TypeOK
<1>2. /\ tx[c].pc \in DropPCs => c \in Droppers
      /\ tx[c].pc \in {"barrier", "begin", "delete"} =>
             {tx[c].item} \cup tx[c].snaps \subseteq Stored(tx[c].group)
      /\ tx[c].pc \in {"begin", "delete"} => tx[c].seq = row[tx[c].group][tx[c].item]
  BY DEF CompactInv, DropInv
<1>3. row' = row /\ anchors' = anchors
  BY DEF Drop, Receive, DropFrozen, DropManifest, DropBarrier, DropBegin, tables
<1>f. CASE Finish(c)
  <2>1. tx'[c].pc = "idle"
    BY <1>f, <1>1 DEF Finish, IdleTx
  <2> QED
    BY <2>1 DEF DropPCs
<1>5. CASE Drop(c)
  <2>1. c \in Droppers /\ tx'[c].pc = "frozen"
    BY <1>1, <1>5 DEF Drop, Receive
  <2> QED
    BY <2>1 DEF DropPCs
<1>6. CASE DropFrozen(c) /\ ~Finish(c)
  <2>1. tx' = [tx EXCEPT ![c].pc = "manifest"] /\ tx[c].pc = "frozen"
    BY <1>6 DEF DropFrozen
  <2>2. tx'[c].pc = "manifest"
    BY <1>1, <2>1 DEF TxRecord
  <2> QED
    BY <1>2, <2>1, <2>2 DEF DropPCs
<1>7. CASE DropManifest(c) /\ ~Finish(c)
  <2>1. /\ tx' = [tx EXCEPT ![c].pc = "barrier"] /\ tx[c].pc = "manifest"
        /\ {tx[c].item} \cup tx[c].snaps \subseteq Stored(tx[c].group)
    BY <1>7 DEF DropManifest
  <2>2. /\ tx'[c].pc = "barrier" /\ tx'[c].group = tx[c].group
        /\ tx'[c].item = tx[c].item /\ tx'[c].snaps = tx[c].snaps
    BY <1>1, <2>1 DEF TxRecord
  <2> QED
    BY <1>2, <1>3, <2>1, <2>2 DEF DropPCs, Stored
<1>8. CASE DropBarrier(c)
  <2>1. /\ tx' = [tx EXCEPT ![c].pc = "begin", ![c].seq = row[tx[c].group][tx[c].item]]
        /\ tx[c].pc = "barrier"
    BY <1>8 DEF DropBarrier
  <2>2. /\ tx'[c].pc = "begin" /\ tx'[c].group = tx[c].group
        /\ tx'[c].item = tx[c].item /\ tx'[c].snaps = tx[c].snaps
        /\ tx'[c].seq = row[tx[c].group][tx[c].item]
    BY <1>1, <2>1 DEF TxRecord
  <2> QED
    BY ZenonT(30), <1>2, <1>3, <2>1, <2>2 DEF DropPCs, Stored
<1>9. CASE DropBegin(c) /\ ~Finish(c)
  <2>1. /\ tx' = [tx EXCEPT ![c].pc = "delete", ![c].doomed = Doomed(c)]
        /\ tx[c].pc = "begin"
    BY <1>9 DEF DropBegin
  <2>2. /\ tx'[c].pc = "delete" /\ tx'[c].group = tx[c].group
        /\ tx'[c].item = tx[c].item /\ tx'[c].snaps = tx[c].snaps
        /\ tx'[c].seq = tx[c].seq /\ tx'[c].doomed = Doomed(c)
    BY <1>1, <2>1 DEF TxRecord
  <2>3. Doomed(c)' = Doomed(c)
    BY <1>3, <2>2 DEF Doomed, Stored
  <2> QED
    BY ZenonT(30), <1>2, <1>3, <2>1, <2>2, <2>3 DEF DropPCs, Stored
<1> QED
  BY <1>f, <1>5, <1>6, <1>7, <1>8, <1>9

\* What the delete takes is what the checkpoint allows, and its anchors are there.
LEMMA DropEffect ==
    ASSUME LogInv, CompactInv, NEW c \in Conns, DropCommit(c)
    PROVE  /\ tx[c].group \in Groups /\ tx[c].item \in Hashes /\ tx[c].snaps \in SUBSET Hashes
           /\ Deletes(tx[c].group, Doomed(c))
           /\ Doomed(c) \in SUBSET Stored(tx[c].group)
           /\ anchors' = [anchors EXCEPT ![tx[c].group] = @ \cup {tx[c].item} \cup tx[c].snaps]
           /\ {tx[c].item} \cup tx[c].snaps \subseteq Stored(tx[c].group)
           /\ tx[c].seq = row[tx[c].group][tx[c].item]
           /\ frozen' = frozen
<1>1. tx[c].pc = "delete"
  BY DEF DropCommit
<1>2. /\ tx[c].doomed = Doomed(c)
      /\ {tx[c].item} \cup tx[c].snaps \subseteq Stored(tx[c].group)
      /\ tx[c].seq = row[tx[c].group][tx[c].item]
  BY <1>1 DEF CompactInv, DropInv
<1>3. Doomed(c) \in SUBSET Stored(tx[c].group)
  BY DEF Doomed
<1>4. Deleted(c) = Doomed(c)
  BY <1>2, <1>3 DEF Deleted, Doomed
<1>5. Deletes(tx[c].group, Deleted(c)) /\ tx[c].group \in Groups
  BY DropWrites
<1>6. Deletes(tx[c].group, Doomed(c))
  BY <1>2, <1>4, <1>5, Zenon
<1> QED
  BY <1>2, <1>3, <1>5, <1>6 DEF DropCommit, LogInv, TypeOK, TxRecord, Stored

LEMMA NextCompact == OneDropper /\ LogInv /\ CompactInv /\ [Next]_vars => CompactInv'
<1> SUFFICES ASSUME OneDropper, LogInv, CompactInv, [Next]_vars PROVE CompactInv'
  OBVIOUS
<1> DEFINE Ok(d) == /\ tx'[d].pc \in DropPCs => d \in Droppers
                    /\ tx'[d].pc \in {"barrier", "begin", "delete"} =>
                           {tx'[d].item} \cup tx'[d].snaps \subseteq Stored(tx[d].group)'
                    /\ tx'[d].pc \in {"begin", "delete"} =>
                           tx'[d].seq = row'[tx'[d].group][tx'[d].item]
                    /\ tx'[d].pc = "delete" => tx'[d].doomed = Doomed(d)'
<1>0. (\A d \in Conns : Ok(d)) => DropInv'
  BY DEF DropInv
<1> HIDE DEF Ok
<1>1. ASSUME \A c \in Conns : ~DropCommit(c) PROVE AnchorsHeld'
  <2>1. anchors' = anchors /\ \A g \in Groups : \A k \in Stored(g) : row'[g][k] = row[g][k]
    <3>1. CASE UNCHANGED tables
      BY <3>1 DEF tables
    <3>2. ASSUME NEW g \in Groups, NEW h \in Hashes, Stores(g, h)
          PROVE  anchors' = anchors /\ \A x \in Groups : \A k \in Stored(x) : row'[x][k] = row[x][k]
      BY <3>2 DEF Stores, Stored, LogInv, TypeOK
    <3> QED
      BY ZenonT(30), <1>1, <3>1, <3>2, NextTableStep DEF TableStep, Appends
  <2> QED
    BY <2>1 DEF CompactInv, AnchorsHeld, Stored
<1>2. ASSUME NEW d \in Conns, tx'[d] = tx[d], \A c \in Conns : ~DropCommit(c)
      PROVE  Ok(d)
  BY <1>2, NextTableStep, OthersCompact DEF TableStep, Ok
<1>3. CASE tx' = tx /\ \A c \in Conns : ~DropCommit(c)
  BY <1>0, <1>1, <1>2, <1>3 DEF CompactInv
<1>4. ASSUME NEW c \in Conns, Others(c), Shape(c), \A d \in Conns : ~DropCommit(d), Ok(c)
      PROVE  CompactInv'
  BY <1>0, <1>1, <1>2, <1>4 DEF CompactInv, Others
<1>5. ASSUME NEW c \in Conns, tx'[c].pc \notin DropPCs
      PROVE  Ok(c)
  BY <1>5 DEF Ok, DropPCs
<1>6. ASSUME NEW c \in Conns, DropCommit(c)
      PROVE  CompactInv'
  <2>1. Others(c) /\ tx'[c].pc \notin DropPCs
    BY <1>6, FinishShape DEF DropCommit, Idles, IdleTx, DropPCs, LogInv
  <2>2. tx[c].pc \in DropPCs
    BY <1>6 DEF DropCommit, DropPCs
  <2>3. \A d \in Conns \ {c} : tx'[d].pc \notin DropPCs
    BY <2>1, <2>2, DropsAlone DEF Others
  <2>4. DropInv'
    BY <1>0, <1>5, <2>1, <2>3
  <2>5. AnchorsHeld'
    <3>1. row \in [Groups -> [Hashes -> Nat]] /\ anchors \in [Groups -> SUBSET Hashes]
      BY DEF LogInv, TypeOK
    <3>2. /\ \A k \in Hashes \ Doomed(c) : row'[tx[c].group][k] = row[tx[c].group][k]
          /\ \A g \in Groups \ {tx[c].group}, k \in Hashes : row'[g][k] = row[g][k]
      <4>1. /\ row' = [row EXCEPT ![tx[c].group] =
                          [h \in Hashes |-> IF h \in Doomed(c) THEN 0 ELSE row[tx[c].group][h]]]
            /\ tx[c].group \in Groups
        BY ZenonT(30), <1>6, DropEffect DEF Deletes
      <4> QED
        BY <3>1, <4>1
    <3>3. /\ anchors'[tx[c].group] = anchors[tx[c].group] \cup {tx[c].item} \cup tx[c].snaps
          /\ \A g \in Groups \ {tx[c].group} : anchors'[g] = anchors[g]
      BY <1>6, <3>1, DropEffect
    <3>4. (anchors[tx[c].group] \cup {tx[c].item} \cup tx[c].snaps) \cap Doomed(c) = {}
      BY DEF Doomed
    <3>5. \A g \in Groups : anchors[g] \subseteq Stored(g)
      BY DEF CompactInv, AnchorsHeld
    <3>6. {tx[c].item} \cup tx[c].snaps \subseteq Stored(tx[c].group)
      BY <1>6, DropEffect
    <3>7. ASSUME NEW g \in Groups, NEW k \in anchors'[g]
          PROVE  k \in Hashes /\ row'[g][k] # 0
      <4>1. CASE g = tx[c].group
        <5>1. k \in Stored(g) /\ k \notin Doomed(c)
          BY <3>3, <3>4, <3>5, <3>6, <3>7, <4>1
        <5> QED
          BY <3>2, <4>1, <5>1 DEF Stored
      <4>2. CASE g # tx[c].group
        BY <3>2, <3>3, <3>5, <3>7, <4>2 DEF Stored
      <4> QED
        BY <4>1, <4>2
    <3> QED
      BY <3>7 DEF AnchorsHeld, Stored
  <2> QED
    BY <2>4, <2>5 DEF CompactInv
<1>7. CASE UNCHANGED vars
  BY <1>0, <1>1, <1>2, <1>7, <1>6, <1>3 DEF vars
<1>8. ASSUME NEW g \in Groups, Freeze(g) \/ clear_freeze(g)
      PROVE  CompactInv'
  BY <1>3, <1>6, <1>8 DEF Freeze, clear_freeze
<1>9. ASSUME NEW c \in Conns, Send(c) \/ Handshake(c) \/ Drop(c) \/ Step(c) \/ Fail(c)
      PROVE  CompactInv'
  <2>1. Others(c) /\ Shape(c)
    BY <1>9, StepShape
  <2>2. CASE Drop(c) \/ DropFrozen(c) \/ DropManifest(c) \/ DropBarrier(c) \/ DropBegin(c)
    <3>1. Ok(c)
      BY <2>2, OwnDropStep DEF Ok
    <3> QED
      BY <1>4, <1>6, <2>1, <3>1
  <2>3. CASE tx'[c].pc \notin DropPCs
    BY <1>4, <1>5, <1>6, <2>1, <2>3
  <2>4. CASE Send(c) \/ Handshake(c)
    <3>1. tx \in [Conns -> TxRecord]
      BY DEF LogInv, TypeOK
    <3>2. tx'[c].pc \notin DropPCs
      BY <2>4, <3>1 DEF Send, Handshake, Receive, DropPCs
    <3> QED
      BY <2>3, <3>2
  <2>5. CASE Step(c) \/ Fail(c)
    <3>1. CASE Finish(c)
      BY <2>3, <3>1, FinishShape DEF Idles, IdleTx, DropPCs, LogInv
    <3>2. CASE existing_seq(c) \/ Claim(c) \/ Insert(c) \/ AppendLock(c) \/ AppendInsert(c)
      <4>1. tx[c].pc \in {"check", "claim", "insert", "lock", "append"}
        BY <3>2 DEF existing_seq, Claim, Insert, AppendLock, AppendInsert
      <4>2. CASE ~Finish(c)
        <5>1. \E p \in {"claim", "insert", "reread", "commit", "append", "appended"} :
                  tx'[c].pc = p
          <6>1. tx \in [Conns -> TxRecord] /\ tx[c] \in TxRecord
            BY DEF LogInv, TypeOK
          <6>2. \/ tx' = [tx EXCEPT ![c].pc = "claim"]
                \/ tx' = [tx EXCEPT ![c].pc = "insert", ![c].seq = next_seq[tx[c].group]]
                \/ tx' = [tx EXCEPT ![c].pc = "reread"]
                \/ tx' = [tx EXCEPT ![c].pc = "commit"]
                \/ tx' = [tx EXCEPT ![c].pc = "append", ![c].seq = NextHandshake(tx[c].group)]
                \/ tx' = [tx EXCEPT ![c].pc = "appended"]
            BY <3>2, <4>2 DEF existing_seq, Claim, Insert, AppendLock, AppendInsert
          <6> QED
            BY <6>1, <6>2 DEF TxRecord
        <5> QED
          BY <2>3, <5>1 DEF DropPCs
      <4> QED
        BY <3>1, <4>2
    <3>3. CASE Reread(c) \/ Commit(c) \/ AppendCommit(c) \/ DropCommit(c) \/ Fail(c)
      BY <3>1, <3>3 DEF Reread, Commit, AppendCommit, DropCommit, Fail
    <3> QED
      BY <2>2, <2>5, <3>2, <3>3 DEF Step
  <2> QED
    BY <1>9, <2>2, <2>4, <2>5
<1> QED
  BY <1>7, <1>8, <1>9 DEF Next

LEMMA CompactInvariant ==
    ASSUME OneDropper
    PROVE  Spec => []CompactInv
<1>1. LogInv /\ CompactInv /\ [Next]_vars => CompactInv'
  BY NextCompact
<1> QED
  BY <1>1, InitCompact, LogInvariant, PTL DEF Spec

\* lifecycle/store.rs: with one connection compacting at a time, every anchor of every
\* checkpoint stays in the log.
THEOREM AnchorsHeldCorrect ==
    ASSUME OneDropper
    PROVE  Spec => []AnchorsHeld
<1>1. CompactInv => AnchorsHeld
  BY DEF CompactInv
<1> QED
  BY <1>1, CompactInvariant, PTL

\* lifecycle: with one connection compacting at a time, an envelope leaves the log only
\* below a checkpoint that is itself held.
THEOREM DropCoveredCorrect ==
    ASSUME OneDropper
    PROVE  Spec => DropCovered
<1>1. LogInv /\ CompactInv /\ [Next]_vars =>
          [\A g \in Groups, h \in Hashes :
              row[g][h] # 0 /\ row'[g][h] = 0 =>
                  \E k \in anchors'[g] : row'[g][k] > row[g][h]]_vars
  <2> SUFFICES ASSUME LogInv, CompactInv, [Next]_vars, NEW g \in Groups, NEW h \in Hashes,
                      row[g][h] # 0, row'[g][h] = 0
               PROVE  \E k \in anchors'[g] : row'[g][k] > row[g][h]
    OBVIOUS
  <2>1. /\ row \in [Groups -> [Hashes -> Nat]] /\ anchors \in [Groups -> SUBSET Hashes]
        /\ next_seq \in [Groups -> Nat \ {0}]
    BY DEF LogInv, TypeOK
  <2>2. ASSUME NEW x \in Groups, NEW k \in Hashes, Stores(x, k) PROVE FALSE
    BY <2>1, <2>2 DEF Stores
  <2>3. PICK c \in Conns : DropCommit(c)
    BY ZenonT(30), <2>2, NextTableStep DEF TableStep, tables, Appends
  <2>4. /\ row' = [row EXCEPT ![tx[c].group] =
                      [k \in Hashes |-> IF k \in Doomed(c) THEN 0 ELSE row[tx[c].group][k]]]
        /\ tx[c].group \in Groups /\ tx[c].item \in Hashes
        /\ tx[c].seq = row[tx[c].group][tx[c].item]
        /\ anchors' = [anchors EXCEPT ![tx[c].group] = @ \cup {tx[c].item} \cup tx[c].snaps]
    BY ZenonT(30), <2>3, DropEffect DEF Deletes
  <2>5. g = tx[c].group /\ h \in Doomed(c)
    BY <2>1, <2>4
  <2>6. row[g][h] < row[g][tx[c].item] /\ tx[c].item \notin Doomed(c)
    BY <2>4, <2>5 DEF Doomed
  <2>7. row'[g][tx[c].item] = row[g][tx[c].item]
    BY <2>1, <2>4, <2>5, <2>6
  <2>8. tx[c].item \in anchors'[g]
    BY <2>1, <2>4, <2>5
  <2>9. row[g][h] \in Nat /\ row[g][tx[c].item] \in Nat
    BY <2>1, <2>4
  <2>10. row'[g][tx[c].item] > row[g][h]
    BY <2>6, <2>7, <2>9
  <2> QED
    BY <2>8, <2>10
<1> QED
  BY <1>1, CompactInvariant, LogInvariant, PTL DEF Spec, DropCovered

(***************************************************************************)
(* Refinement, one abstract action at a time.                              *)
(***************************************************************************)
LEMMA StoresIsAccept ==
    ASSUME NEW g \in Groups, NEW h \in Hashes, Stores(g, h), frozen' = frozen
    PROVE  Atomic!Next
<1>1. Atomic!Accept(g, h)
  BY DEF Stores, Atomic!Accept, Atomic!Fits
<1> QED
  BY <1>1 DEF Atomic!Next

LEMMA AppendsIsAppend ==
    ASSUME NEW g \in Groups, NEW m \in Messages, Appends(g, m), frozen' = frozen
    PROVE  Atomic!Next
<1>1. Atomic!Append(g, m)
  <2>1. NextHandshake(g) = Atomic!Max({hs[g][k] : k \in Messages} \cup {-1}) + 1
    BY DEF NextHandshake, Max, Atomic!Max
  <2> QED
    BY <2>1 DEF Appends, Atomic!Append, Atomic!Fits
<1> QED
  BY <1>1 DEF Atomic!Next

LEMMA DropIsCompact ==
    ASSUME LogInv, CompactInv, BudgetInv, NEW c \in Conns, DropCommit(c)
    PROVE  Atomic!Next
<1> DEFINE g == tx[c].group
           kept == anchors[g] \cup {tx[c].item} \cup tx[c].snaps
           gone == {h \in Hashes : /\ row[g][h] # 0
                                   /\ row[g][h] < row[g][tx[c].item]
                                   /\ h \notin kept}
<1>1. /\ g \in Groups /\ tx[c].item \in Hashes /\ tx[c].snaps \in SUBSET Hashes
      /\ Deletes(g, Doomed(c)) /\ Doomed(c) \in SUBSET Stored(g)
      /\ anchors' = [anchors EXCEPT ![g] = @ \cup {tx[c].item} \cup tx[c].snaps]
      /\ {tx[c].item} \cup tx[c].snaps \subseteq Stored(g)
      /\ tx[c].seq = row[g][tx[c].item]
      /\ frozen' = frozen
  BY DropEffect
<1>2. Doomed(c) = gone
  BY ZenonT(30), <1>1 DEF Doomed, Stored
<1>3. used' = used - Bytes[{g} \X gone]
  <2>1. used' = used - Bytes[{g} \X Doomed(c)]
    BY ZenonT(30), <1>1, DropBudget DEF LogInv
  <2> QED
    BY <1>2, <2>1, Zenon
<1>4. row' = [row EXCEPT ![g] = [h \in Hashes |-> IF h \in gone THEN 0 ELSE row[g][h]]]
  <2>1. row' = [row EXCEPT ![g] = [h \in Hashes |-> IF h \in Doomed(c) THEN 0 ELSE row[g][h]]]
    BY <1>1 DEF Deletes
  <2> QED
    BY <1>2, <2>1, Zenon
<1>5. next_seq' = next_seq /\ hs' = hs
  BY <1>1 DEF Deletes
<1>6. anchors' = [anchors EXCEPT ![g] = kept]
  BY <1>1 DEF LogInv, TypeOK
<1>7. \A h \in {tx[c].item} \cup tx[c].snaps : row[g][h] # 0
  BY <1>1 DEF Stored
<1>8. Atomic!Compact(g, tx[c].item, tx[c].snaps)
  BY ZenonT(30), <1>1, <1>3, <1>4, <1>5, <1>6, <1>7 DEF Atomic!Compact
<1> QED
  BY <1>1, <1>8 DEF Atomic!Next

\* Freezing toggles; every other step that leaves the tables alone is a stutter.
LEMMA FreezeIsToggle ==
    ASSUME LogInv, NEW g \in Groups, Freeze(g) \/ clear_freeze(g)
    PROVE  Atomic!Next
<1>1. frozen \in [Groups -> BOOLEAN]
  BY DEF LogInv, TypeOK
<1>2. frozen' = [frozen EXCEPT ![g] = ~ frozen[g]]
  BY ZenonT(30), <1>1 DEF Freeze, clear_freeze
<1>3. Atomic!Toggle(g)
  BY <1>2 DEF Atomic!Toggle, Freeze, clear_freeze, tables
<1> QED
  BY <1>3 DEF Atomic!Next

LEMMA NextRefines ==
    LogInv /\ CompactInv /\ BudgetInv /\ [Next]_vars => [Atomic!Next]_(Atomic!vars)
<1> SUFFICES ASSUME LogInv, CompactInv, BudgetInv, [Next]_vars
             PROVE  Atomic!Next \/ UNCHANGED Atomic!vars
  OBVIOUS
<1>1. CASE UNCHANGED vars
  BY <1>1 DEF vars, Atomic!vars
<1>2. ASSUME NEW g \in Groups, Freeze(g) \/ clear_freeze(g)
      PROVE  Atomic!Next
  BY <1>2, FreezeIsToggle
<1>3. ASSUME NEW c \in Conns, Send(c) \/ Handshake(c) \/ Drop(c) \/ Step(c) \/ Fail(c)
      PROVE  Atomic!Next \/ UNCHANGED Atomic!vars
  <2>1. TablesKept \/ Writes(c)
    BY <1>3, StepShape
  <2>2. frozen' = frozen
    BY <2>1 DEF TablesKept, Writes
  <2>3. CASE UNCHANGED tables
    BY <2>2, <2>3 DEF tables, Atomic!vars
  <2>4. CASE ~UNCHANGED tables
    BY <2>2, <2>4, NextTableStep, StoresIsAccept, AppendsIsAppend, DropIsCompact DEF TableStep
  <2> QED
    BY <2>3, <2>4
<1> QED
  BY <1>1, <1>2, <1>3 DEF Next

\* accept.rs, handshake/store.rs, lifecycle/store.rs: with one connection compacting at a
\* time, the relay's transactions behave as if every frame were served at one instant.
THEOREM AtomicCorrect ==
    ASSUME OneDropper
    PROVE  Spec => AtomicSpec
<1>1. Init => Atomic!Init
  BY DEF Init, Atomic!Init
<1>2. LogInv /\ CompactInv /\ BudgetInv /\ [Next]_vars => [Atomic!Next]_(Atomic!vars)
  BY NextRefines
<1> QED
  BY <1>1, <1>2, LogInvariant, CompactInvariant, BudgetInvariant, PTL
     DEF Spec, AtomicSpec, Atomic!Spec

(***************************************************************************)
(* Where nothing compacts, every acknowledgement stays true.               *)
(***************************************************************************)
AckInv ==
    /\ \A a \in acked : row[a[1]][a[2]] = a[3] /\ a[3] # 0
    /\ \A c \in Conns : tx[c].pc = "reread" => row[tx[c].group][tx[c].item] # 0

\* What a step acknowledges is in the table when the step is over.
LEMMA AckStep ==
    ASSUME LogInv, AckInv, NEW c \in Conns, Step(c), NEW a \in acked' \ acked
    PROVE  row'[a[1]][a[2]] = a[3] /\ a[3] # 0
<1> DEFINE g == tx[c].group
           h == tx[c].item
<1>1. /\ g \in Groups /\ row \in [Groups -> [Hashes -> Nat]] /\ next_seq \in [Groups -> Nat \ {0}]
  BY DEF LogInv, TypeOK, TxRecord
<1>2. CASE existing_seq(c)
  <2>1. a = <<g, h, row[g][h]>> /\ row[g][h] # 0 /\ row' = row
    BY <1>2 DEF existing_seq, Ack, tables
  <2> QED
    BY <2>1
<1>3. CASE Reread(c)
  <2>1. row[g][h] # 0
    BY <1>3 DEF Reread, AckInv
  <2>2. a = <<g, h, row[g][h]>> /\ row' = row
    BY <1>3, <2>1 DEF Reread, Ack, tables
  <2> QED
    BY <2>1, <2>2
<1>4. CASE Commit(c)
  <2>1. a = <<g, h, tx[c].seq>> /\ ~UNCHANGED tables
    <3>1. ~over_budget(g, h)
      BY <1>4 DEF Commit
    <3>2. next_seq' = [next_seq EXCEPT ![g] = @ + 1]
      BY <1>4, <3>1 DEF Commit
    <3>3. next_seq' # next_seq
      BY <1>1, <3>2
    <3> QED
      BY <1>4, <3>1, <3>3 DEF Commit, Ack, tables
  <2>2. Stores(g, h) /\ h \in Hashes
    BY <1>4, <2>1, CommitWrites
  <2>3. tx[c].seq = next_seq[g]
    BY <1>4 DEF Commit, LogInv, ClaimInv
  <2>4. row'[g][h] = next_seq[g] /\ next_seq[g] # 0
    BY <1>1, <2>2 DEF Stores
  <2> QED
    BY <2>1, <2>3, <2>4
<1> QED
  BY ZenonT(30), <1>2, <1>3, <1>4
     DEF Step, Claim, Insert, AppendLock, AppendInsert, AppendCommit, DropFrozen,
         DropManifest, DropBarrier, DropBegin, DropCommit

LEMMA NextAck == Droppers = {} /\ LogInv /\ CompactInv /\ AckInv /\ [Next]_vars => AckInv'
<1> SUFFICES ASSUME Droppers = {}, LogInv, CompactInv, AckInv, [Next]_vars PROVE AckInv'
  OBVIOUS
<1>1. /\ row \in [Groups -> [Hashes -> Nat]] /\ acked \subseteq Groups \X Hashes \X Nat
      /\ tx \in [Conns -> TxRecord]
      /\ \A c \in Conns : tx[c].group \in Groups
  BY DEF LogInv, TypeOK, TxRecord
<1>2. \A g \in Groups, k \in Hashes : row[g][k] # 0 => row'[g][k] = row[g][k]
  <2>1. \A c \in Conns : ~DropCommit(c)
    BY DEF DropCommit, CompactInv, DropInv, DropPCs
  <2>2. ASSUME NEW x \in Groups, NEW h \in Hashes, Stores(x, h)
        PROVE  \A g \in Groups, k \in Hashes : row[g][k] # 0 => row'[g][k] = row[g][k]
    BY <1>1, <2>2 DEF Stores
  <2> QED
    BY ZenonT(30), <2>1, <2>2, NextTableStep DEF TableStep, tables, Appends
<1>3. \A a \in acked : row'[a[1]][a[2]] = a[3] /\ a[3] # 0
  <2> SUFFICES ASSUME NEW a \in acked PROVE row'[a[1]][a[2]] = a[3] /\ a[3] # 0
    OBVIOUS
  <2>1. a[1] \in Groups /\ a[2] \in Hashes /\ row[a[1]][a[2]] = a[3] /\ a[3] # 0
    BY <1>1 DEF AckInv
  <2> QED
    BY <1>2, <2>1
<1>4. \A a \in acked' \ acked : row'[a[1]][a[2]] = a[3] /\ a[3] # 0
  <2>1. ASSUME NEW c \in Conns, Step(c)
        PROVE  \A a \in acked' \ acked : row'[a[1]][a[2]] = a[3] /\ a[3] # 0
    BY <2>1, AckStep
  <2>2. CASE \A c \in Conns : ~Step(c)
    BY <2>2 DEF Next, vars, Send, Handshake, Drop, Receive, Fail, Freeze, clear_freeze
  <2> QED
    BY <2>1, <2>2
<1>5. ASSUME NEW d \in Conns, tx'[d].pc = "reread"
      PROVE  row'[tx'[d].group][tx'[d].item] # 0
  <2>1. CASE tx'[d] = tx[d]
    <3>1. tx[d].item \in Hashes /\ row[tx[d].group][tx[d].item] # 0
      BY <1>5, <2>1 DEF AckInv, LogInv, ItemInv, MessagePCs
    <3> QED
      BY <1>1, <1>2, <2>1, <3>1
  <2>2. CASE tx'[d] # tx[d]
    <3>1. PICK c \in Conns : Send(c) \/ Handshake(c) \/ Drop(c) \/ Step(c) \/ Fail(c)
      BY <2>2 DEF Next, vars, Freeze, clear_freeze
    <3>2. Insert(d) /\ LosesRace(d)
      <4>1. Others(c) /\ Shape(c)
        BY <3>1, StepShape
      <4>2. c = d
        BY <2>2, <4>1 DEF Others
      <4>3. ~Finish(d) /\ ~Send(d) /\ ~Handshake(d) /\ ~Drop(d)
        <5>1. tx'[d].pc # "idle" /\ tx'[d].pc \notin {"check", "lock", "frozen"} /\ TypeOK
          BY <1>1, <1>5 DEF LogInv
        <5>2. ~Finish(d)
          BY <5>1, FinishShape DEF Idles, IdleTx
        <5>3. ASSUME NEW p, NEW g, NEW i, NEW s, Receive(d, p, g, i, s)
              PROVE  tx'[d].pc = p
          BY <5>1, <5>3 DEF Receive, TypeOK
        <5> QED
          BY <5>1, <5>2, <5>3 DEF Send, Handshake, Drop
      <4>4. \/ Insert(d)
            \/ tx' = [tx EXCEPT ![d].pc = "claim"]
            \/ tx' = [tx EXCEPT ![d].pc = "insert", ![d].seq = next_seq[tx[d].group]]
            \/ tx' = [tx EXCEPT ![d].pc = "append", ![d].seq = NextHandshake(tx[d].group)]
            \/ tx' = [tx EXCEPT ![d].pc = "appended"]
            \/ tx' = [tx EXCEPT ![d].pc = "manifest"]
            \/ tx' = [tx EXCEPT ![d].pc = "barrier"]
            \/ tx' = [tx EXCEPT ![d].pc = "begin", ![d].seq = row[tx[d].group][tx[d].item]]
            \/ tx' = [tx EXCEPT ![d].pc = "delete", ![d].doomed = Doomed(d)]
        <5>1. Step(d) /\ ~Finish(d)
          BY <3>1, <4>2, <4>3 DEF Fail
        <5>2. CASE existing_seq(d) \/ Claim(d) \/ Reread(d) \/ Commit(d)
          BY ZenonT(60), <5>1, <5>2 DEF existing_seq, Claim, Reread, Commit
        <5>3. CASE AppendLock(d) \/ AppendInsert(d) \/ AppendCommit(d)
          BY <5>1, <5>3 DEF AppendLock, AppendInsert, AppendCommit
        <5>4. CASE DropFrozen(d) \/ DropManifest(d) \/ DropBarrier(d) \/ DropBegin(d)
                   \/ DropCommit(d)
          BY ZenonT(60), <5>1, <5>4 DEF DropFrozen, DropManifest, DropBarrier, DropBegin, DropCommit
        <5> QED
          BY ZenonT(60), <5>1, <5>2, <5>3, <5>4 DEF Step
      <4>5. Insert(d)
        BY <1>1, <1>5, <4>4 DEF TxRecord
      <4>6. tx[d].pc = "insert"
        BY <4>5 DEF Insert
      <4>7. ~Idles(d) /\ ~Begins(d)
        BY <1>5, <4>6 DEF Idles, IdleTx, Begins
      <4>8. ~Moves(d) /\ ~TakesGroup(d) /\ ~TakesBudget(d)
        BY <1>5, <4>6 DEF Moves, TakesGroup, TakesBudget, GroupPCs
      <4> QED
        BY <4>1, <4>2, <4>5, <4>7, <4>8 DEF Shape
    <3>3. row[tx[d].group][tx[d].item] # 0
      <4>1. CASE row[tx[d].group][tx[d].item] = 0
        <5>1. tx' = [tx EXCEPT ![d].pc = "commit"]
          BY <3>2, <4>1 DEF Insert
        <5> QED
          BY <1>1, <1>5, <5>1 DEF TxRecord
      <4> QED
        BY <4>1
    <3>4. row' = row /\ tx'[d].group = tx[d].group /\ tx'[d].item = tx[d].item
      BY <3>2 DEF Insert, tables, LosesRace, Keeps
    <3> QED
      BY <3>3, <3>4
  <2> QED
    BY <2>1, <2>2
<1> QED
  BY <1>3, <1>4, <1>5 DEF AckInv

\* accept.rs: where nothing compacts, what a SEND_ACK promised stays in the log under the
\* number it carried, for either sender of a duplicate race.
THEOREM AckedHeldCorrect ==
    ASSUME Droppers = {}
    PROVE  Spec => []AckedHeld
<1>1. Init => AckInv
  BY DEF Init, IdleTx, AckInv
<1>2. LogInv /\ CompactInv /\ AckInv /\ [Next]_vars => AckInv'
  BY NextAck
<1>3. OneDropper
  BY DEF OneDropper
<1>4. Spec => []CompactInv
  BY <1>3, CompactInvariant
<1>5. AckInv => AckedHeld
  BY DEF AckInv, AckedHeld
<1> QED
  BY <1>1, <1>2, <1>4, <1>5, LogInvariant, PTL DEF Spec
=============================================================================
