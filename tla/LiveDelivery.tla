---------------------------- MODULE LiveDelivery ----------------------------
(***************************************************************************)
(* The live path of one group (hub.rs, sync.rs and the queues of ws.rs).   *)
(*                                                                         *)
(* Each connection has a reader task, which runs one handler at a time, a  *)
(* bounded queue of frames and a writer task that drains it to the client. *)
(* The hub is the registry of subscribers.  A handler is split where it    *)
(* awaits the database, the hub or room in a queue; what runs under one    *)
(* hub lock is one action.                                                 *)
(*                                                                         *)
(* Envelopes are the numbers 1..log, in the order they become visible      *)
(* (EnvelopeLog!CommitOrder); handshakes are the numbers 0..hlog-1         *)
(* (EnvelopeLog!HandshakeDense).  One bound on the queue stands for the    *)
(* two of the code, frames and bytes: both refuse with `Full`.  What the   *)
(* client does with a frame (Read, and which requests it makes) is         *)
(* external: the repository holds no client.                               *)
(***************************************************************************)
EXTENDS Integers, Sequences, FiniteSetsExt, Functions

CONSTANTS
  Conns,          \* connections
  Subscribers,    \* those whose client subscribes and reconciles
  Publishers,     \* those whose client sends envelopes
  Committers,     \* those whose client publishes handshakes
  Beaters,        \* those whose client sends ephemeral frames
  Version1,       \* those that negotiated protocol version 1
  Fragile,        \* those whose socket may fail
  Bound,          \* SEND_QUEUE_BOUND
  MaxHeld,        \* MAX_HELD_HANDSHAKES
  Page,           \* HANDSHAKE_REPLAY_PAGE
  MaxFrames,      \* bounds on the requests of each client, connects included
  AnswerLost      \* may a commit succeed and its answer be lost?

ASSUME LiveAssumption ==
  /\ Subscribers \cup Publishers \cup Committers \cup Beaters \cup Version1
       \cup Fragile \subseteq Conns
  /\ Bound \in Nat \ {0} /\ MaxHeld \in Nat /\ Page \in Nat \ {0}
  /\ MaxFrames \in [Conns -> Nat] /\ AnswerLost \in BOOLEAN

VARIABLES
  log,       \* envelopes committed
  hlog,      \* handshakes committed
  status,    \* "closed", "open", or "broken": the writer and its queue are gone
  queue,     \* frames queued and not yet read by the client
  entry,     \* the subscriber record the hub holds for the connection
  evicted,   \* OutboundSender::evict has run
  gone,      \* the connections its handler is about to take out of the hub
  pc, job,   \* where the reader's handler is, and its local variables
  sent,      \* requests the client has made
  client,    \* what the client knows
  unsent     \* history: handshakes committed and not yet fanned out

vars == <<log, hlog, status, queue, entry, evicted, gone, pc, job, sent, client, unsent>>

(* Frames: a kind and a number (0 where the frame carries none).  The      *)
(* downgrade notice is an acknowledgement of head zero.                    *)
Kinds == {"push", "hs", "suback", "ack", "beat", "recon", "error"}
Push(n) == <<"push", n>>
Handshake(n) == <<"hs", n>>
downgrade_frame == <<"suback", 0>>
Beat == <<"beat", 0>>
Error == <<"error", 0>>

NoEntry == [live |-> FALSE, holding |-> FALSE, held |-> <<>>, owed |-> FALSE]
NoJob == [n |-> 0, head |-> 0, from |-> 0, cursor |-> 0, batch |-> <<>>,
          short |-> FALSE, top |-> 0, open |-> FALSE, dup |-> FALSE]

(* What a client keeps: the envelopes it holds, the head it was told of,   *)
(* whether it knows it must reconcile, whether a round is outstanding and  *)
(* a notice or an error was read since it was asked, the handshakes of     *)
(* this connection in order, whether it was told to retry; and, as         *)
(* history, whether a replay of the connection failed, which envelopes the *)
(* last backfill cut above the head it had acknowledged, and which         *)
(* handshakes were still on their way when a later one was fanned out.     *)
NewClient == [has |-> {}, told |-> 0, behind |-> FALSE, asked |-> FALSE,
              noticed |-> FALSE, stream |-> <<>>, retry |-> FALSE, failed |-> FALSE, cut |-> {},
              late |-> {}]

SubPcs == {"register", "page", "replay", "release", "release_failed",
           "backfill", "backfill_queue"}
Pcs == {"idle", "fanout", "ack", "commit_fanout", "answer", "recon_queue"} \cup SubPcs

Prefix(s, n) == SubSeq(s, 1, Min({n, Len(s)}))
Ascending(a, b) == [i \in 1..(IF b < a THEN 0 ELSE b - a + 1) |-> a + i - 1]

-----------------------------------------------------------------------------
(* The queue.                                                              *)

(* try_queue, against a queue that holds q.                                *)
try_queue(c, q) ==
  IF status[c] # "open" THEN "closed"
  ELSE IF Len(q) < Bound THEN "sent" ELSE "full"

(* push_frame_allowance: the slots a batch may take, one held back for the *)
(* frame that closes the round.                                            *)
push_frame_allowance(c) == Max({Bound - Len(queue[c]) - 1, 0})

(* The connection ends: the reader loop is left, Hub::disconnect removes   *)
(* its entry, and the queue goes with its last sender.  (What the writer   *)
(* still drains is taken as lost.)  Connection ids are used once: a        *)
(* disconnect that others still owe this one finds nothing.                *)
Closed(c) ==
  /\ status' = [status EXCEPT ![c] = "closed"]
  /\ queue' = [queue EXCEPT ![c] = <<>>]
  /\ entry' = [entry EXCEPT ![c] = NoEntry]
  /\ evicted' = [evicted EXCEPT ![c] = FALSE]
  /\ gone' = [w \in Conns |-> gone[w] \ {c}]
  /\ pc' = [pc EXCEPT ![c] = "idle"]
  /\ job' = [job EXCEPT ![c] = NoJob]

(* queue_all: queue a run of frames without waiting; a run that does not   *)
(* fit ends the connection.                                                *)
queue_all(c, frames, next, j) ==
  IF try_queue(c, queue[c]) = "closed" \/ Len(queue[c]) + Len(frames) > Bound
  THEN Closed(c)
  ELSE /\ queue' = [queue EXCEPT ![c] = @ \o frames]
       /\ pc' = [pc EXCEPT ![c] = next]
       /\ job' = [job EXCEPT ![c] = j]
       /\ UNCHANGED <<status, entry, evicted, gone>>

(* queue_all_awaiting, one frame: wait for room, or give up.               *)
queue_awaiting_forever(c, frame, next, j) ==
  /\ try_queue(c, queue[c]) = "sent"
  /\ queue' = [queue EXCEPT ![c] = Append(@, frame)]
  /\ pc' = [pc EXCEPT ![c] = next]
  /\ job' = [job EXCEPT ![c] = j]
  /\ UNCHANGED <<status, entry, evicted, gone>>

queue_awaiting(c, frame, next, j) ==
  \/ /\ try_queue(c, queue[c]) = "sent"
     /\ queue' = [queue EXCEPT ![c] = Append(@, frame)]
     /\ pc' = [pc EXCEPT ![c] = next]
     /\ job' = [job EXCEPT ![c] = j]
     /\ UNCHANGED <<status, entry, evicted, gone>>
  \/ try_queue(c, queue[c]) # "sent" /\ Closed(c)

-----------------------------------------------------------------------------
(* The hub.                                                                *)

(* fanout_frame for one subscriber: its queue, its entry, whether it is    *)
(* evicted, and whether it is to be taken out of the hub.  A handshake is  *)
(* held while the subscriber replays; a notice owed goes first; a full     *)
(* queue downgrades an envelope, sheds an ephemeral frame, and ends a      *)
(* connection that would miss a handshake.                                 *)
Result(q, e, ev, out) == [q |-> q, e |-> e, ev |-> ev, out |-> out]

Offer_forgets(c, f) ==
  LET e == entry[c]
      out == try_queue(c, queue[c])
  IN IF f[1] = "hs" /\ e.holding
     THEN IF Len(e.held) < MaxHeld
          THEN Result(queue[c], [e EXCEPT !.held = Append(@, f)], FALSE, FALSE)
          ELSE Result(queue[c], e, TRUE, TRUE)
     ELSE CASE out = "sent" -> Result(Append(queue[c], f), e, FALSE, FALSE)
            [] out = "closed" -> Result(queue[c], e, FALSE, TRUE)
            [] out = "full" -> Result(queue[c], e, f[1] = "hs", f[1] = "hs")

Offer(c, f) ==
  LET e == entry[c]
      first == try_queue(c, queue[c])
      paying == e.owed /\ first = "sent"
      q == IF paying THEN Append(queue[c], downgrade_frame) ELSE queue[c]
      paid == [e EXCEPT !.owed = e.owed /\ ~paying]
      out == IF paid.owed THEN first ELSE try_queue(c, q)
  IN IF f[1] = "hs" /\ e.holding
     THEN IF Len(e.held) < MaxHeld
          THEN Result(queue[c], [e EXCEPT !.held = Append(@, f)], FALSE, FALSE)
          ELSE Result(queue[c], e, TRUE, TRUE)
     ELSE CASE out = "closed" -> Result(q, paid, FALSE, TRUE)
            [] out = "full" /\ f[1] = "hs" -> Result(q, paid, TRUE, TRUE)
            [] out = "full" /\ f[1] = "push" -> Result(q, [paid EXCEPT !.owed = TRUE], FALSE, FALSE)
            [] out = "full" /\ f[1] = "beat" -> Result(q, paid, FALSE, FALSE)
            [] out = "sent" -> Result(Append(q, f), paid, FALSE, FALSE)

(* fanout_frame, under the hub's lock: every subscriber but the writer, and *)
(* not one whose version has no such frame.  Those it must take out are    *)
(* left to disconnect, which takes the lock again.                         *)
fanout_frame(w, f) ==
  LET reached == {c \in Conns \ {w} : entry[c].live /\ ~(f[1] = "beat" /\ c \in Version1)}
  IN /\ queue' = [c \in Conns |-> IF c \in reached THEN Offer(c, f).q ELSE queue[c]]
     /\ entry' = [c \in Conns |-> IF c \in reached THEN Offer(c, f).e ELSE entry[c]]
     /\ evicted' = [c \in Conns |-> evicted[c] \/ (c \in reached /\ Offer(c, f).ev)]
     /\ gone' = [gone EXCEPT ![w] = {c \in reached : Offer(c, f).out}]

(* Hub::disconnect, for one of those: between the two locks other frames   *)
(* may have been queued to it.                                             *)
Disconnect(w) ==
  \E c \in gone[w] :
    /\ entry' = [entry EXCEPT ![c] = NoEntry]
    /\ gone' = [gone EXCEPT ![w] = @ \ {c}]
    /\ UNCHANGED <<log, hlog, status, queue, evicted, pc, job, sent, client, unsent>>

(* The handler has nothing left to disconnect, and goes on at pc p.        *)
At(c, p) == pc[c] = p /\ gone[c] = {}

(* release_handshakes: the frames the hold kept, less those the replay     *)
(* covered, in the order they were held; `next` only grows.                *)
Kept_after(held, replayed_to) == SelectSeq(held, LAMBDA f : f[2] > replayed_to)

Kept(held, replayed_to) ==
  LET Below(i) == {held[j][2] : j \in {k \in 1..(i-1) : held[k][2] >= replayed_to}}
  IN SelectSeq([i \in DOMAIN held |->
                 IF held[i][2] >= replayed_to /\ \A n \in Below(i) : n < held[i][2]
                 THEN held[i] ELSE Error],
               LAMBDA f : f # Error)

-----------------------------------------------------------------------------
(* Requests of the client.                                                 *)

Idle(c) == status[c] = "open" /\ At(c, "idle") /\ ~evicted[c]

Request(c) == sent[c] < MaxFrames[c] /\ sent' = [sent EXCEPT ![c] = @ + 1]

(* The socket is upgraded; the hub knows nothing of it yet.  The client    *)
(* keeps what it holds.                                                    *)
Connect(c) ==
  /\ status[c] = "closed"
  /\ Request(c)
  /\ status' = [status EXCEPT ![c] = "open"]
  /\ client' = [client EXCEPT ![c].stream = <<>>, ![c].asked = FALSE,
                              ![c].cut = {}, ![c].retry = FALSE, ![c].failed = FALSE,
                              ![c].late = {}]
  /\ UNCHANGED <<log, hlog, queue, entry, evicted, gone, pc, job, unsent>>

(* SEND: accept commits the envelope, which takes the next number, and the *)
(* handler goes on to fan it out.  If the answer of the commit is lost the *)
(* handler ends with an error and the client will send again.              *)
Accept(c) ==
  /\ c \in Publishers /\ Idle(c) /\ Request(c)
  /\ log' = log + 1
  /\ client' = [client EXCEPT ![c].has = @ \cup {log + 1}]
  /\ \/ /\ pc' = [pc EXCEPT ![c] = "fanout"]
        /\ job' = [job EXCEPT ![c] = [NoJob EXCEPT !.n = log + 1]]
        /\ UNCHANGED <<status, queue, entry, evicted, gone>>
     \/ AnswerLost /\ queue_all(c, <<Error>>, "idle", NoJob)
  /\ UNCHANGED <<hlog, unsent>>

(* SEND of an envelope that is already stored: answered with its number    *)
(* and not fanned out.                                                     *)
AcceptDuplicate(c) ==
  /\ c \in Publishers /\ Idle(c) /\ Request(c)
  /\ \E n \in 1..log \cap client[c].has :
       job' = [job EXCEPT ![c] = [NoJob EXCEPT !.n = n, !.dup = TRUE]]
  /\ pc' = [pc EXCEPT ![c] = "ack"]
  /\ UNCHANGED <<log, hlog, status, queue, entry, evicted, gone, client, unsent>>

(* deliver: the accepted envelope goes to every other subscriber.          *)
Deliver(c) ==
  /\ pc[c] = "fanout"
  /\ fanout_frame(c, Push(job[c].n))
  /\ pc' = [pc EXCEPT ![c] = "ack"]
  /\ UNCHANGED <<log, hlog, status, job, sent, client, unsent>>

(* SEND_ACK, for which the handler waits if it must.                       *)
SendAck(c) ==
  /\ At(c, "ack")
  /\ queue_awaiting(c, <<"ack", job[c].n>>, "idle", NoJob)
  /\ UNCHANGED <<log, hlog, sent, client, unsent>>

(* A new handshake is committed: it is unsent until it is fanned out.      *)
Committed ==
  /\ hlog' = hlog + 1
  /\ unsent' = unsent \cup {hlog}

(* HANDSHAKE: append_within commits the message under the next number, or  *)
(* finds it stored (a resend) and answers its number.  It may refuse or    *)
(* fail, and an answer of the commit may be lost: an error frame each.     *)
AppendHandshake(c) ==
  /\ c \in Committers /\ Idle(c) /\ Request(c)
  /\ \/ /\ \E n \in 0..hlog :
             /\ job' = [job EXCEPT ![c] = [NoJob EXCEPT !.n = n]]
             /\ IF n = hlog THEN Committed ELSE UNCHANGED <<hlog, unsent>>
        /\ pc' = [pc EXCEPT ![c] = "commit_fanout"]
        /\ UNCHANGED <<status, queue, entry, evicted, gone>>
     \/ /\ queue_all(c, <<Error>>, "idle", NoJob)
        /\ \/ UNCHANGED <<hlog, unsent>>
           \/ AnswerLost /\ Committed
  /\ UNCHANGED <<log, client>>

(* The handshakes still to be sent to d: those not yet fanned out, and the *)
(* one d publishes itself until it is answered.                            *)
OnTheWay(d) == unsent \cup (IF pc[d] = "answer" THEN {job[d].n} ELSE {})

(* The rest of publish_handshake: fan out, a resend too ...                *)
PublishHandshake(c) ==
  /\ pc[c] = "commit_fanout"
  /\ fanout_frame(c, Handshake(job[c].n))
  /\ pc' = [pc EXCEPT ![c] = "answer"]
  /\ unsent' = unsent \ {job[c].n}
  /\ client' = [d \in Conns |-> [client[d] EXCEPT !.late = @ \cup
                   IF entry[d].live THEN {n \in OnTheWay(d) : n < job[c].n} ELSE {}]]
  /\ UNCHANGED <<log, hlog, status, job, sent>>

(* ... then answer the publisher with the same frame.                      *)
AnswerHandshake(c) ==
  /\ At(c, "answer")
  /\ queue_all(c, <<Handshake(job[c].n)>>, "idle", NoJob)
  /\ UNCHANGED <<log, hlog, sent, client, unsent>>

(* LIVE: an ephemeral frame, fanned out and forgotten.                     *)
publish_live(c) ==
  /\ c \in Beaters /\ Idle(c) /\ Request(c)
  /\ fanout_frame(c, Beat)
  /\ UNCHANGED <<log, hlog, status, pc, job, client, unsent>>

-----------------------------------------------------------------------------
(* SUB (sync::subscribe).                                                  *)

(* The longest prefix of the log the client holds: the cursor it names.    *)
from_seq(c) == Max({n \in 0..log : 1..n \subseteq client[c].has})

(* The head is read and acknowledged; a read that fails is an error frame. *)
SubHead(c) ==
  /\ c \in Subscribers /\ Idle(c) /\ Request(c)
  /\ \/ queue_all(c, <<<<"suback", Max({log, from_seq(c)})>>>>, "register",
                  [NoJob EXCEPT !.from = from_seq(c), !.head = log])
     \/ queue_all(c, <<Error>>, "idle", NoJob)
  /\ client' = [client EXCEPT ![c].retry = FALSE]
  /\ UNCHANGED <<log, hlog, unsent>>

(* subscribe_holding_handshakes: a connection the hub already knows keeps  *)
(* its entry, and with it no hold.                                         *)
SubRegister_noHold(c) ==
  /\ pc[c] = "register"
  /\ entry' = [entry EXCEPT ![c].live = TRUE]
  /\ pc' = [pc EXCEPT ![c] = "page"]
  /\ UNCHANGED <<log, hlog, status, queue, evicted, gone, job, sent, client, unsent>>

SubRegister(c) ==
  /\ pc[c] = "register"
  /\ entry' = IF entry[c].live THEN entry
              ELSE [entry EXCEPT ![c] = [NoEntry EXCEPT !.live = TRUE, !.holding = TRUE]]
  /\ pc' = [pc EXCEPT ![c] = "page"]
  /\ UNCHANGED <<log, hlog, status, queue, evicted, gone, job, sent, client, unsent>>

(* One page of the replay is read; the cursor moves past it.  An empty     *)
(* page ends the replay, and so does a read that fails.                    *)
ReplayPage(c) ==
  /\ pc[c] = "page"
  /\ LET last == Min({hlog, job[c].cursor + Page})
         batch == Ascending(job[c].cursor, last - 1)
     IN \/ /\ pc' = [pc EXCEPT ![c] = IF batch = <<>> THEN "release" ELSE "replay"]
           /\ job' = [job EXCEPT ![c].batch = batch, ![c].cursor = Max({last, @}),
                                 ![c].short = Len(batch) < Page]
           /\ UNCHANGED <<status, queue, entry, evicted, gone, client>>
        \/ /\ queue_all(c, <<Error>>, "release_failed", job[c])
           /\ client' = [client EXCEPT ![c].failed = TRUE]
  /\ UNCHANGED <<log, hlog, sent, unsent>>

(* The page is queued, a frame at a time, as room appears.                 *)
ReplayQueue(c) ==
  /\ pc[c] = "replay"
  /\ LET rest == Tail(job[c].batch)
         next == IF rest # <<>> THEN "replay"
                 ELSE IF job[c].short THEN "release" ELSE "page"
     IN queue_awaiting(c, Handshake(Head(job[c].batch)), next, [job[c] EXCEPT !.batch = rest])
  /\ UNCHANGED <<log, hlog, sent, client, unsent>>

(* release_handshakes, at the cursor the replay reached.  A held frame     *)
(* that finds no room evicts the connection, which is then taken out.      *)
SubRelease(c) ==
  /\ pc[c] \in {"release", "release_failed"}
  /\ LET frames == Kept(entry[c].held, job[c].cursor)
         room == IF status[c] = "open" THEN Bound - Len(queue[c]) ELSE 0
         full == Len(frames) > room
     IN /\ queue' = [queue EXCEPT ![c] = @ \o Prefix(frames, room)]
        /\ entry' = [entry EXCEPT ![c] = [@ EXCEPT !.holding = FALSE, !.held = <<>>]]
        /\ evicted' = [evicted EXCEPT ![c] = @ \/ full]
        /\ gone' = [gone EXCEPT ![c] = IF full THEN {c} ELSE {}]
  /\ pc' = [pc EXCEPT ![c] = IF @ = "release" THEN "backfill" ELSE "idle"]
  /\ job' = [job EXCEPT ![c] = IF pc[c] = "release" THEN @ ELSE NoJob]
  /\ UNCHANGED <<log, hlog, status, sent, client, unsent>>

(* log::since, limited to the slots that are free when it is called.       *)
BackfillRead(c) ==
  /\ At(c, "backfill")
  /\ \/ /\ job' = [job EXCEPT ![c].batch =
                     Prefix(Ascending(Max({job[c].from, 1}), log), push_frame_allowance(c)),
                   ![c].top = log]
        /\ pc' = [pc EXCEPT ![c] = "backfill_queue"]
        /\ UNCHANGED <<status, queue, entry, evicted, gone>>
     \/ queue_all(c, <<Error>>, "idle", NoJob)
  /\ UNCHANGED <<log, hlog, sent, client, unsent>>

(* The batch is cut again to the slots that are free now, and queued.      *)
BackfillQueue(c) ==
  /\ pc[c] = "backfill_queue"
  /\ LET batch == Prefix(job[c].batch, push_frame_allowance(c))
         frames == [i \in DOMAIN batch |-> Push(batch[i])]
     IN /\ queue_all(c, frames, "idle", NoJob)
        /\ client' = [client EXCEPT ![c].cut =
             {n \in (job[c].head + 1)..job[c].top : n >= job[c].from} \ Range(batch)]
  /\ UNCHANGED <<log, hlog, sent, unsent>>

-----------------------------------------------------------------------------
(* RECON (sync::reconcile), one round.  Which envelopes the client lacks   *)
(* is what the negentropy exchange settles; here the round finds them.     *)

ReconRead(c) ==
  /\ c \in Subscribers /\ Idle(c) /\ Request(c) /\ ~client[c].asked
  /\ LET missing == SelectSeq(Ascending(1, log), LAMBDA n : n \notin client[c].has)
         batch == Prefix(missing, push_frame_allowance(c))
     IN \/ /\ job' = [job EXCEPT ![c] = [NoJob EXCEPT !.batch = batch,
                                           !.open = Len(batch) < Len(missing)]]
           /\ pc' = [pc EXCEPT ![c] = "recon_queue"]
           /\ UNCHANGED <<status, queue, entry, evicted, gone>>
        \/ queue_all(c, <<Error>>, "idle", NoJob)
  /\ client' = [client EXCEPT ![c].asked = TRUE, ![c].noticed = FALSE]
  /\ UNCHANGED <<log, hlog, unsent>>

(* What fits now is pushed; the reply leaves open the ranges of what was   *)
(* omitted (reopen_omitted).                                               *)
ReconQueue(c) ==
  /\ pc[c] = "recon_queue"
  /\ LET batch == Prefix(job[c].batch, push_frame_allowance(c))
         open == job[c].open \/ Len(batch) < Len(job[c].batch)
     IN queue_all(c, [i \in DOMAIN batch |-> Push(batch[i])]
                       \o <<<<"recon", IF open THEN 1 ELSE 0>>>>, "idle", NoJob)
  /\ UNCHANGED <<log, hlog, sent, client, unsent>>

-----------------------------------------------------------------------------
(* settle_downgrades, run by the janitor: every notice that fits is paid.  *)
Paying_all == {c \in Conns : entry[c].owed /\ status[c] = "open"}

Paying_none == {c \in Conns : FALSE}

Paying == {c \in Conns : entry[c].owed /\ try_queue(c, queue[c]) = "sent"}

settle_downgrades ==
  /\ Paying # {}
  /\ queue' = [c \in Conns |-> IF c \in Paying THEN Append(queue[c], downgrade_frame) ELSE queue[c]]
  /\ entry' = [c \in Conns |-> IF c \in Paying THEN [entry[c] EXCEPT !.owed = FALSE] ELSE entry[c]]
  /\ UNCHANGED <<log, hlog, status, evicted, gone, pc, job, sent, client, unsent>>

(* The writer sends the next frame and the client takes it: it keeps what  *)
(* it is sent; a notice, an error or an open range makes it reconcile; a   *)
(* round that closes, with no notice read since it was asked, ends that.   *)
Read(c) ==
  /\ status[c] = "open" /\ queue[c] # <<>>
  /\ queue' = [queue EXCEPT ![c] = Tail(@)]
  /\ LET f == Head(queue[c])
         k == client[c]
     IN client' = [client EXCEPT ![c] =
          CASE f[1] = "push" -> [k EXCEPT !.has = @ \cup {f[2]}]
            [] f[1] = "hs" -> [k EXCEPT !.stream = Append(@, f[2])]
            [] f = downgrade_frame -> [k EXCEPT !.behind = TRUE, !.noticed = TRUE]
            [] f[1] = "suback" /\ f[2] > 0 -> [k EXCEPT !.told = Max({@, f[2]})]
            [] f[1] = "error" ->
                 [k EXCEPT !.behind = TRUE, !.noticed = TRUE, !.retry = TRUE, !.asked = FALSE]
            [] f[1] = "recon" ->
                 IF f[2] = 1 \/ k.noticed
                 THEN [k EXCEPT !.behind = TRUE, !.asked = FALSE]
                 ELSE [k EXCEPT !.behind = FALSE, !.told = 0, !.asked = FALSE]
            [] OTHER -> k]
  /\ UNCHANGED <<log, hlog, status, entry, evicted, gone, pc, job, sent, unsent>>

(* The socket fails: the writer ends and drops the queue.                  *)
Break(c) ==
  /\ c \in Fragile /\ status[c] = "open"
  /\ status' = [status EXCEPT ![c] = "broken"]
  /\ queue' = [queue EXCEPT ![c] = <<>>]
  /\ UNCHANGED <<log, hlog, entry, evicted, gone, pc, job, sent, client, unsent>>

(* Between two messages the reader sees that its socket is gone or that it *)
(* was evicted, and tears the connection down.                             *)
End_keepsEntry(c) ==
  /\ At(c, "idle") /\ status[c] # "closed"
  /\ status[c] = "broken" \/ evicted[c]
  /\ status' = [status EXCEPT ![c] = "closed"]
  /\ queue' = [queue EXCEPT ![c] = <<>>]
  /\ evicted' = [evicted EXCEPT ![c] = FALSE]
  /\ gone' = [w \in Conns |-> gone[w] \ {c}]
  /\ UNCHANGED <<log, hlog, entry, pc, job, sent, client, unsent>>

End(c) ==
  /\ At(c, "idle") /\ status[c] # "closed"
  /\ status[c] = "broken" \/ evicted[c]
  /\ Closed(c)
  /\ UNCHANGED <<log, hlog, sent, client, unsent>>

-----------------------------------------------------------------------------
Init ==
  /\ log = 0 /\ hlog = 0
  /\ status = [c \in Conns |-> "closed"]
  /\ queue = [c \in Conns |-> <<>>]
  /\ entry = [c \in Conns |-> NoEntry]
  /\ evicted = [c \in Conns |-> FALSE]
  /\ gone = [c \in Conns |-> {}]
  /\ pc = [c \in Conns |-> "idle"]
  /\ job = [c \in Conns |-> NoJob]
  /\ sent = [c \in Conns |-> 0]
  /\ client = [c \in Conns |-> NewClient]
  /\ unsent = {}

Step(c) ==
  \/ Deliver(c) \/ SendAck(c) \/ PublishHandshake(c) \/ AnswerHandshake(c) \/ Disconnect(c)
  \/ SubRegister(c) \/ ReplayPage(c) \/ ReplayQueue(c) \/ SubRelease(c)
  \/ BackfillRead(c) \/ BackfillQueue(c) \/ ReconQueue(c)

Next ==
  \/ \E c \in Conns :
       \/ Connect(c) \/ Accept(c) \/ AcceptDuplicate(c) \/ AppendHandshake(c)
       \/ publish_live(c) \/ SubHead(c) \/ ReconRead(c)
       \/ Step(c) \/ Read(c) \/ Break(c) \/ End(c)
  \/ settle_downgrades

Spec == Init /\ [][Next]_vars

(* A handler's steps, the reader's loop and the janitor are tasks of one   *)
(* runtime and keep running.  Nothing is assumed of the clients: one may   *)
(* stop reading for good, and its queue then stays as it is.               *)
Fairness ==
  /\ \A c \in Conns : WF_vars(Step(c)) /\ WF_vars(End(c))
  /\ WF_vars(settle_downgrades)

FairSpec == Spec /\ Fairness

-----------------------------------------------------------------------------
TypeOK ==
  /\ log \in Nat /\ hlog \in Nat
  /\ status \in [Conns -> {"closed", "open", "broken"}]
  /\ \A c \in Conns : queue[c] \in Seq(Kinds \X Nat) /\ Len(queue[c]) <= Bound
  /\ \A c \in Conns :
       /\ entry[c] \in [live : BOOLEAN, holding : BOOLEAN, held : Seq(Kinds \X Nat), owed : BOOLEAN]
       /\ Len(entry[c].held) <= MaxHeld
       /\ ~entry[c].live => entry[c] = NoEntry
  /\ evicted \in [Conns -> BOOLEAN]
  /\ gone \in [Conns -> SUBSET Conns]
  /\ pc \in [Conns -> Pcs]
  /\ \A c \in Conns : sent[c] \in 0..MaxFrames[c]

(* A subscriber the hub serves: its socket is up and its SUB has returned. *)
Live(c) == entry[c].live /\ status[c] = "open" /\ ~evicted[c] /\ pc[c] \notin SubPcs

(* Envelope n reaches c, or c learns that it must reconcile: it holds it,  *)
(* the push is queued or still to be fanned out, the notice is owed,       *)
(* queued or read, a round is being answered, or the head c was told of    *)
(* is not below n.                                                         *)
Covered(c, n) ==
  LET q == Range(queue[c]) IN
  \/ n \in client[c].has \/ Push(n) \in q
  \/ \E w \in Conns : pc[w] = "fanout" /\ job[w].n = n
  \/ entry[c].owed \/ client[c].behind \/ pc[c] = "recon_queue"
  \/ {downgrade_frame, Error, <<"recon", 1>>} \cap q # {}
  \/ n <= client[c].told \/ \E h \in n..log : <<"suback", h>> \in q

(* "A dropped envelope is impossible": no envelope is missing at a live    *)
(* subscriber without the subscriber being told, or about to be, whatever  *)
(* queues overflow, rounds overlap and notices wait (Hub::fanout_frame,    *)
(* settle_downgrades, sync::subscribe, sync::reconcile).  The one          *)
(* exception is the cut that BackfillDeclared is about.                    *)
NoUndeclaredHole ==
  \A c \in Conns : Live(c) =>
    \A n \in 1..log : Covered(c, n) \/ n \in client[c].cut

(* What a SUB's backfill cuts lies at or below the head it acknowledged    *)
(* (sync::subscribe: "the acknowledgement already sent carries a head      *)
(* beyond what arrives").                                                  *)
BackfillDeclared ==
  \A c \in Conns : Live(c) => \A n \in client[c].cut : Covered(c, n)

(* A SEND answered as a duplicate is of an envelope every other subscriber *)
(* has been sent (perform: "a duplicate is an envelope every subscriber    *)
(* has already been sent").                                                *)
DuplicateWasSent ==
  \A c, d \in Conns :
    pc[c] = "ack" /\ job[c].dup /\ Live(d) /\ d # c =>
      Covered(d, job[c].n) \/ job[c].n \in client[d].cut

HandshakesOf(c) ==
  client[c].stream \o
    LET hs == SelectSeq(queue[c], LAMBDA f : f[1] = "hs") IN [i \in DOMAIN hs |-> hs[i][2]]

(* A subscriber that was sent a handshake was sent every lower one before, *)
(* but for those a later one overtook between their commit and their       *)
(* fan-out: whatever replays, holds, resends and lost answers interleave   *)
(* (publish_handshake, replay_handshakes, release_handshakes).  A client   *)
(* whose replay failed was told so; an evicted one is about to be cut off. *)
HandshakeInOrder ==
  \A c \in Conns :
    entry[c].live /\ status[c] = "open" /\ ~evicted[c] /\ ~client[c].failed =>
      LET s == HandshakesOf(c) IN
      \A i \in DOMAIN s : \A n \in 0..(s[i] - 1) \ client[c].late :
        \E j \in 1..(i-1) : s[j] = n

(* A client that was told, or is about to be, that a request failed asks   *)
(* again: nothing is promised until it has.                                *)
ToldToRetry(c) == client[c].retry \/ Error \in Range(queue[c])

(* And none is lost: a live subscriber has been sent every handshake that  *)
(* is committed, but for those on their way and those overtaken, and a     *)
(* connection that cannot be given one is ended (Hub::fanout_frame,        *)
(* release_handshakes).                                                    *)
HandshakeComplete ==
  \A c \in Conns : Live(c) /\ ~ToldToRetry(c) =>
    0..(hlog - 1) \subseteq Range(HandshakesOf(c)) \cup OnTheWay(c) \cup client[c].late

(* "A subscriber receives every handshake message for the group": those    *)
(* another publisher overtook as well.                                     *)
HandshakeEvery ==
  \A c \in Conns : Live(c) /\ ~ToldToRetry(c) =>
    0..(hlog - 1) \subseteq Range(HandshakesOf(c)) \cup OnTheWay(c)

(* No entry outlives its connection: the hub never fans out to a socket    *)
(* that is gone for good (Hub::disconnect).                                *)
NoGhostEntry == \A c \in Conns : status[c] = "closed" => entry[c] = NoEntry

(* Every client whose socket is up goes on taking what it is sent.         *)
ClientsRead == \A c \in Conns : WF_vars(Read(c))

(* A notice that is owed is paid or its connection ends, as long as the    *)
(* clients read; it does not wait for the next write to the group          *)
(* (settle_downgrades).                                                    *)
DebtPaid == ClientsRead => \A c \in Conns : entry[c].owed ~> ~entry[c].owed

(* A handler that waits for room in a queue is never stuck, even if its    *)
(* client has stopped reading (the timeouts of queue_all_awaiting), and an *)
(* evicted connection ends.                                                *)
HandlerEnds ==
  \A c \in Conns :
    (pc[c] # "idle" \/ gone[c] # {} \/ evicted[c])
      ~> (pc[c] = "idle" /\ gone[c] = {} /\ ~evicted[c])
=============================================================================
