------------------------------ MODULE Delivery ------------------------------
(***************************************************************************)
(* The way of a task event out of the database: the transactional outbox,  *)
(* the publishers that claim and send its rows, RabbitMQ, the inbox of the *)
(* consumers, the live fan-out of an instance and the WebSocket of one     *)
(* page.  Every API instance runs a publisher, a consumer and the fan-out; *)
(* instances share the database and the broker's one durable queue.  With  *)
(* the local transport a publisher sends to its own instance's fan-out.    *)
(*                                                                         *)
(* A delivery id is a digest of message, fence and owner, so the fence of  *)
(* the claim stands for it.  Time is left out: a claim is live until       *)
(* claim_expires, a failed row waits until backoff_ends.                   *)
(***************************************************************************)
EXTENDS Naturals, Sequences, SequencesExt, FiniteSets

CONSTANTS
  Tasks,
  LastSeq,        \* the seq of the last event of a task, a terminal one
  Instances,
  NoOwner,        \* claim_owner_id is NULL
  ClientTask,     \* the task the page shows
  QueueSize,      \* maxsize of a subscriber's queue
  Deployments,    \* the settings of the instances, with the bounds below
  MaxRequeues,    \* bound on the dead letters an operator requeues
  MaxForgets      \* bound on the receipts retention removes

\* transport is event_transport, attempts is max_attempts, consumers are the
\* instances whose RabbitMQ consumer is up.  events bounds the events of a
\* task, faults the crashes, lost connections, failed sends and overdue
\* claims, opens the sockets the page opens.
Deployment ==
  [transport : {"local", "rabbitmq"}, attempts : Nat \ {0},
   consumers : SUBSET Instances, events : Nat, faults : Nat, opens : Nat]

ASSUME DeliveryAssumption ==
  /\ LastSeq \in [Tasks -> Nat \ {0}]
  /\ Deployments \subseteq Deployment
  /\ NoOwner \notin Instances
  /\ ClientTask \in Tasks
  /\ QueueSize \in Nat \ {0}
  /\ MaxRequeues \in Nat /\ MaxForgets \in Nat

VARIABLES
  dep,        \* the deployment, fixed
  last,       \* last_event_seq of a task; its events are 1..last
  outbox,     \* the outbox row of an event
  hand,       \* the batch a publisher works through
  broker,     \* deliveries RabbitMQ holds, unacknowledged ones included
  flights,    \* runs of _consume_message
  inbox,      \* messages with a receipt
  pushed,     \* how often the fan-out of an instance got an event
  client,     \* the page: the events it has, whether it is archived
  socket,     \* the server's end of its WebSocket
  lossy,      \* events a full subscriber queue dropped from this socket
  retired,    \* messages whose receipt retention has removed
  faults, requeues, opens

vars == <<dep, last, outbox, hand, broker, flights, inbox, pushed, client, socket,
          lossy, retired, faults, requeues, opens>>
outside == <<client, socket, lossy, opens>>

Messages == UNION {{<<t, n>> : n \in 1..LastSeq[t]} : t \in Tasks}
Earlier(m) == {e \in Messages : e[1] = m[1] /\ e[2] < m[2]}
Appended == {m \in Messages : m[2] <= last[m[1]]}

NoRow == [status |-> "absent", attempts |-> 0, waiting |-> FALSE,
          owner |-> NoOwner, live |-> FALSE, fence |-> 0, requeued |-> FALSE]
NewRow == [NoRow EXCEPT !.status = "pending"]
NoSocket == [at |-> NoOwner, phase |-> "closed", cursor |-> 0,
             upto |-> 0, queue |-> <<>>]

\* The rows of the outbox under max_attempts n, a publisher's copy of one, a
\* delivery, a run of _consume_message, the page and its socket.
Row(n) ==
  [status : {"absent", "pending", "published", "dead", "deleted"},
   attempts : 0..n, waiting : BOOLEAN,
   owner : Instances \cup {NoOwner}, live : BOOLEAN, fence : Nat,
   requeued : BOOLEAN]
Copy(n) ==
  [msg : Messages, fence : Nat, attempts : 0..n,
   stage : {"claimed", "sent", "failed"}]
Letter == [msg : Messages, fence : Nat]
Flight ==
  [delivery : Letter, at : Instances,
   stage : {"received", "inserting", "processed", "done"}, open : BOOLEAN]
PageState == [seen : SUBSET Nat, archived : BOOLEAN]
Socket ==
  [at : Instances \cup {NoOwner},
   phase : {"closed", "subscribed", "replaying", "streaming"},
   cursor : Nat, upto : Nat, queue : Seq(Nat)]

TypeOK ==
  /\ dep \in Deployments
  /\ last \in [Tasks -> Nat]
  /\ \A t \in Tasks : last[t] <= LastSeq[t]
  /\ outbox \in [Messages -> Row(dep.attempts)]
  /\ hand \in [Instances -> SUBSET Copy(dep.attempts)]
  /\ broker \subseteq Letter
  /\ flights \subseteq Flight
  /\ inbox \subseteq Messages
  /\ pushed \in [Messages -> [Instances -> Nat]]
  /\ client \in PageState
  /\ socket \in Socket
  /\ lossy \subseteq Nat
  /\ retired \subseteq Messages
  /\ faults \in 0..dep.faults /\ requeues \in 0..MaxRequeues
  /\ opens \in 0..dep.opens

Init ==
  /\ dep \in Deployments
  /\ last = [t \in Tasks |-> 0]
  /\ outbox = [m \in Messages |-> NoRow]
  /\ hand = [p \in Instances |-> {}]
  /\ broker = {} /\ flights = {} /\ inbox = {}
  /\ pushed = [m \in Messages |-> [i \in Instances |-> 0]]
  /\ client = [seen |-> {}, archived |-> FALSE]
  /\ socket = NoSocket /\ lossy = {}
  /\ retired = {}
  /\ faults = 0 /\ requeues = 0 /\ opens = 0

------------------------------------------------------------------------------
(* The outbox. *)

\* The event and its outbox row, in the transaction of the change.
append_event(t) ==
  /\ last[t] < LastSeq[t] /\ last[t] < dep.events
  /\ last' = [last EXCEPT ![t] = @ + 1]
  /\ outbox' = [outbox EXCEPT ![<<t, last[t] + 1>>] = NewRow]
  /\ UNCHANGED <<dep, hand, broker, flights, inbox, pushed, outside, retired,
                 faults, requeues>>

\* Mutant: the claim does not look for an unpublished earlier event.
ClaimableAnyOrder ==
  {m \in Messages :
     /\ outbox[m].status = "pending"
     /\ ~outbox[m].waiting
     /\ outbox[m].owner = NoOwner \/ ~outbox[m].live}

\* Mutant: an expired claim still blocks its row.
ClaimableUnlessClaimed ==
  {m \in Messages :
     /\ outbox[m].status = "pending"
     /\ ~outbox[m].waiting
     /\ outbox[m].owner = NoOwner
     /\ \A e \in Earlier(m) : outbox[e].status # "pending"}

\* Unpublished, due, without a live claim, and the first such of its task.
Claimable ==
  {m \in Messages :
     /\ outbox[m].status = "pending"
     /\ ~outbox[m].waiting
     /\ outbox[m].owner = NoOwner \/ ~outbox[m].live
     /\ \A e \in Earlier(m) : outbox[e].status # "pending"}

Claimed(r, p) == [r EXCEPT !.owner = p, !.live = TRUE, !.fence = @ + 1]

\* Rows another claim has locked are skipped and the batch is limited, so
\* any part of the claimable rows may be taken.
claim_batch(p, batch) ==
  /\ hand[p] = {}
  /\ batch # {} /\ batch \subseteq Claimable
  /\ outbox' = [m \in Messages |->
       IF m \in batch THEN Claimed(outbox[m], p) ELSE outbox[m]]
  /\ hand' = [hand EXCEPT ![p] =
       {[msg |-> m, fence |-> outbox[m].fence + 1,
         attempts |-> outbox[m].attempts, stage |-> "claimed"] : m \in batch}]
  /\ UNCHANGED <<dep, last, broker, flights, inbox, pushed, outside, retired,
                 faults, requeues>>

\* The loop of publish_pending finishes one message before the next.
Turn(p, c) ==
  /\ c \in hand[p] /\ c.stage = "claimed"
  /\ \A d \in hand[p] : d.stage = "claimed"

Stage(p, c, s) ==
  hand' = [hand EXCEPT ![p] = (@ \ {c}) \cup {[c EXCEPT !.stage = s]}]

Envelope(c) == [msg |-> c.msg, fence |-> c.fence]

\* EventBroker.publish: a full queue loses its oldest event.
Offer(q, n) == Append(IF Len(q) = QueueSize THEN Tail(q) ELSE q, n)

\* Mutant: the socket subscribes once it has sent the backlog.
SubscribedLate(i, t) ==
  socket.at = i /\ t = ClientTask /\ socket.phase = "streaming"

\* The page's socket is among the subscribers of the task at this instance.
Subscribed(i, t) == socket.at = i /\ t = ClientTask

FanOut(i, m) ==
  /\ pushed' = [pushed EXCEPT ![m][i] = @ + 1]
  /\ IF Subscribed(i, m[1])
     THEN /\ socket' = [socket EXCEPT !.queue = Offer(@, m[2])]
          /\ lossy' = IF Len(socket.queue) = QueueSize
                      THEN lossy \cup {Head(socket.queue)} ELSE lossy
     ELSE UNCHANGED <<socket, lossy>>

\* The local transport: publish_delivery of the instance's own fan-out.
publish_local(p, c) ==
  /\ dep.transport = "local"
  /\ Turn(p, c)
  /\ FanOut(p, c.msg)
  /\ Stage(p, c, "sent")
  /\ UNCHANGED <<dep, last, outbox, broker, flights, inbox, client,
                 retired, faults, requeues, opens>>

\* publish_delivery returns: the broker has confirmed the message.
publish_confirmed(p, c) ==
  /\ dep.transport = "rabbitmq"
  /\ Turn(p, c)
  /\ broker' = broker \cup {Envelope(c)}
  /\ Stage(p, c, "sent")
  /\ UNCHANGED <<dep, last, outbox, flights, inbox, pushed, outside, retired,
                 faults, requeues>>

\* publish_delivery raises.  When the confirm timed out or was lost, the
\* broker may have the message all the same.
publish_fails(p, c, arrived) ==
  /\ dep.transport = "rabbitmq"
  /\ Turn(p, c)
  /\ faults < dep.faults /\ faults' = faults + 1
  /\ broker' = IF arrived THEN broker \cup {Envelope(c)} ELSE broker
  /\ Stage(p, c, "failed")
  /\ UNCHANGED <<dep, last, outbox, flights, inbox, pushed, outside, retired,
                 requeues>>

\* UPDATE ... WHERE the claim is the one in hand and has not expired.
HoldsClaim(p, c) ==
  /\ outbox[c.msg].status = "pending"
  /\ outbox[c.msg].owner = p /\ outbox[c.msg].live
  /\ outbox[c.msg].fence = c.fence

Unclaimed(r) == [r EXCEPT !.owner = NoOwner, !.live = FALSE]

Published(r) == [Unclaimed(r) EXCEPT !.status = "published", !.attempts = @ + 1]

mark_published(p, c) ==
  /\ c \in hand[p] /\ c.stage = "sent"
  /\ outbox' = IF HoldsClaim(p, c)
       THEN [outbox EXCEPT ![c.msg] = Published(@)] ELSE outbox
  /\ hand' = [hand EXCEPT ![p] = @ \ {c}]
  /\ UNCHANGED <<dep, last, broker, flights, inbox, pushed, outside, retired,
                 faults, requeues>>

\* A dead letter at the last attempt, otherwise a retry after a delay.
Failed(r, attempts) ==
  [Unclaimed(r) EXCEPT
     !.attempts = attempts,
     !.status = IF attempts >= dep.attempts THEN "dead" ELSE @,
     !.waiting = attempts < dep.attempts]

\* The number of attempts is the one the claim read.
mark_failed(p, c) ==
  /\ c \in hand[p] /\ c.stage = "failed"
  /\ outbox' = IF HoldsClaim(p, c)
       THEN [outbox EXCEPT ![c.msg] = Failed(@, c.attempts + 1)] ELSE outbox
  /\ hand' = [hand EXCEPT ![p] = @ \ {c}]
  /\ UNCHANGED <<dep, last, broker, flights, inbox, pushed, outside, retired,
                 faults, requeues>>

\* available_at is reached.
backoff_ends(m) ==
  /\ outbox[m].waiting
  /\ outbox' = [outbox EXCEPT ![m].waiting = FALSE]
  /\ UNCHANGED <<dep, last, hand, broker, flights, inbox, pushed, outside, retired,
                 faults, requeues>>

InHand(m) == \E p \in Instances : \E c \in hand[p] :
               c.msg = m /\ c.fence = outbox[m].fence

\* The TTL of a claim runs out; while its holder still works, it is overdue.
claim_expires(m) ==
  /\ outbox[m].live
  /\ faults' = IF InHand(m) THEN faults + 1 ELSE faults
  /\ faults' <= dep.faults
  /\ outbox' = [outbox EXCEPT ![m].live = FALSE]
  /\ UNCHANGED <<dep, last, hand, broker, flights, inbox, pushed, outside, retired,
                 requeues>>

Requeued(r) ==
  [Unclaimed(r) EXCEPT !.status = "pending", !.attempts = 0, !.waiting = FALSE,
                       !.fence = @ + 1, !.requeued = TRUE]

\* An operator's requeue of a dead letter.
requeue_dead_letter(m) ==
  /\ requeues < MaxRequeues /\ requeues' = requeues + 1
  /\ outbox[m].status = "dead"
  /\ outbox' = [outbox EXCEPT ![m] = Requeued(@)]
  /\ UNCHANGED <<dep, last, hand, broker, flights, inbox, pushed, outside, retired,
                 faults>>

\* Retention removes a published row.
cleanup_published(m) ==
  /\ outbox[m].status = "published"
  /\ outbox' = [outbox EXCEPT ![m].status = "deleted"]
  /\ UNCHANGED <<dep, last, hand, broker, flights, inbox, pushed, outside, retired,
                 faults, requeues>>

------------------------------------------------------------------------------
(* RabbitMQ and the inbox. *)

Ready == {d \in broker : ~\E f \in flights : f.delivery = d /\ f.open}

\* Mutant: the queue is consumed with no_ack.
deliver_no_ack(i, d) ==
  /\ i \in dep.consumers /\ d \in Ready
  /\ flights' = flights \cup
       {[delivery |-> d, at |-> i, stage |-> "received", open |-> TRUE]}
  /\ broker' = broker \ {d}
  /\ UNCHANGED <<dep, last, outbox, hand, inbox, pushed, outside, retired,
                 faults, requeues>>

\* The broker hands a delivery to a consumer.
deliver(i, d) ==
  /\ i \in dep.consumers /\ d \in Ready
  /\ flights' = flights \cup
       {[delivery |-> d, at |-> i, stage |-> "received", open |-> TRUE]}
  /\ UNCHANGED <<dep, last, outbox, hand, broker, inbox, pushed, outside, retired,
                 faults, requeues>>

Advance(f, s) == flights' = (flights \ {f}) \cup {[f EXCEPT !.stage = s]}
MsgOf(f) == f.delivery.msg

\* Mutant: a receipt is looked up by delivery id, which a new claim changes.
HasReceiptOfDelivery(f) == MsgOf(f) \in inbox /\ outbox[MsgOf(f)].fence = f.delivery.fence

\* A row with this consumer and message id exists.
HasReceipt(f) == MsgOf(f) \in inbox

\* consume: the SELECT of an existing receipt.
consume_lookup(f) ==
  /\ f \in flights /\ f.stage = "received"
  /\ Advance(f, IF HasReceipt(f) THEN "done" ELSE "inserting")
  /\ UNCHANGED <<dep, last, outbox, hand, broker, inbox, pushed, outside, retired,
                 faults, requeues>>

\* The INSERT of the receipt and the handler, in one transaction.  The unique
\* index makes the loser of a race a duplicate.
consume_commit(f) ==
  /\ f \in flights /\ f.stage = "inserting"
  /\ HasReceipt(f) \/ outbox[MsgOf(f)].status # "deleted"
  /\ inbox' = inbox \cup {MsgOf(f)}
  /\ Advance(f, IF HasReceipt(f) THEN "done" ELSE "processed")
  /\ UNCHANGED <<dep, last, outbox, hand, broker, pushed, outside, retired,
                 faults, requeues>>

\* verify_task_event_delivery: the outbox row is gone.  The receipt is rolled
\* back and the delivery rejected for good.
consume_permanent_error(f) ==
  /\ f \in flights /\ f.stage = "inserting"
  /\ ~HasReceipt(f) /\ outbox[MsgOf(f)].status = "deleted"
  /\ flights' = flights \ {f}
  /\ broker' = IF f.open THEN broker \ {f.delivery} ELSE broker
  /\ UNCHANGED <<dep, last, outbox, hand, inbox, pushed, outside, retired,
                 faults, requeues>>

\* Any other failure: the delivery is requeued.
consume_transient_error(f) ==
  /\ f \in flights /\ f.stage \in {"received", "inserting"}
  /\ faults < dep.faults /\ faults' = faults + 1
  /\ flights' = flights \ {f}
  /\ UNCHANGED <<dep, last, outbox, hand, broker, inbox, pushed, outside, retired,
                 requeues>>

publish_live(f) ==
  /\ f \in flights /\ f.stage = "processed"
  /\ FanOut(f.at, MsgOf(f))
  /\ Advance(f, "done")
  /\ UNCHANGED <<dep, last, outbox, hand, broker, inbox, client, retired, faults,
                 requeues, opens>>

\* basic.ack; on a closed channel it raises and the broker keeps the message.
ack(f) ==
  /\ f \in flights /\ f.stage = "done"
  /\ flights' = flights \ {f}
  /\ broker' = IF f.open THEN broker \ {f.delivery} ELSE broker
  /\ UNCHANGED <<dep, last, outbox, hand, inbox, pushed, outside, retired, faults,
                 requeues>>

\* The consumer's connection breaks.  Its handlers run on.
connection_lost(i) ==
  /\ faults < dep.faults /\ faults' = faults + 1
  /\ \E f \in flights : f.at = i /\ f.open
  /\ flights' = {IF f.at = i THEN [f EXCEPT !.open = FALSE] ELSE f : f \in flights}
  /\ UNCHANGED <<dep, last, outbox, hand, broker, inbox, pushed, outside, retired,
                 requeues>>

\* Retention removes an old receipt.
cleanup_inbox(m) ==
  /\ m \in inbox \ retired /\ Cardinality(retired) < MaxForgets
  /\ inbox' = inbox \ {m}
  /\ retired' = retired \cup {m}
  /\ UNCHANGED <<dep, last, outbox, hand, broker, flights, pushed, outside, faults,
                 requeues>>

\* An instance crashes and starts again; a batch whose marking raised is
\* dropped the same way.
crash(i) ==
  /\ faults < dep.faults /\ faults' = faults + 1
  /\ hand' = [hand EXCEPT ![i] = {}]
  /\ flights' = {f \in flights : f.at # i}
  /\ socket' = IF socket.at = i THEN NoSocket ELSE socket
  /\ UNCHANGED <<dep, last, outbox, broker, inbox, pushed, client, lossy, retired,
                 requeues, opens>>

------------------------------------------------------------------------------
(* The WebSocket and the page. *)
inside == <<dep, last, outbox, hand, broker, flights, inbox, pushed, retired,
            faults, requeues>>

Terminal(n) == n = LastSeq[ClientTask]
MaxSeen == IF client.seen = {} THEN 0 ELSE CHOOSE n \in client.seen :
                                            \A k \in client.seen : k <= n

\* The page connects after the last event it has; the server subscribes the
\* socket before it reads the backlog.
open_socket(i) ==
  /\ ~client.archived /\ socket = NoSocket
  /\ opens < dep.opens /\ opens' = opens + 1
  /\ socket' = [NoSocket EXCEPT !.at = i, !.phase = "subscribed",
                                !.cursor = MaxSeen]
  /\ lossy' = {}
  /\ UNCHANGED <<inside, client>>

\* onmessage; the page archives the stream at a terminal event and the server
\* closes the socket.
Show(ns, next) ==
  /\ client' = [seen |-> client.seen \cup ns,
                archived |-> \E n \in ns : Terminal(n)]
  /\ socket' = IF client'.archived THEN NoSocket ELSE next

\* list_events reads what is committed at that moment.
read_backlog ==
  /\ socket.phase = "subscribed"
  /\ socket' = [socket EXCEPT !.phase = "replaying", !.upto = last[ClientTask]]
  /\ UNCHANGED <<inside, client, lossy, opens>>

send_backlog ==
  /\ socket.phase = "replaying"
  /\ Show((socket.cursor + 1)..socket.upto,
          [socket EXCEPT !.phase = "streaming", !.upto = 0,
                         !.cursor = IF socket.upto > @ THEN socket.upto ELSE @])
  /\ UNCHANGED <<inside, lossy, opens>>

\* An event behind the cursor is skipped.
Forward(n) ==
  IF n > socket.cursor
  THEN Show({n}, [socket EXCEPT !.queue = Tail(@), !.cursor = n])
  ELSE /\ socket' = [socket EXCEPT !.queue = Tail(@)]
       /\ UNCHANGED client

stream_live_event ==
  /\ socket.phase = "streaming" /\ socket.queue # <<>>
  /\ Forward(Head(socket.queue))
  /\ UNCHANGED <<inside, lossy, opens>>

disconnect ==
  /\ socket # NoSocket
  /\ socket' = NoSocket
  /\ UNCHANGED <<inside, client, lossy, opens>>

------------------------------------------------------------------------------
Publish(p) ==
  \/ \E batch \in SUBSET Messages : claim_batch(p, batch)
  \/ \E c \in hand[p] :
       \/ publish_local(p, c)
       \/ publish_confirmed(p, c)
       \/ mark_published(p, c)
       \/ mark_failed(p, c)

Consume(i) ==
  \/ \E d \in broker : deliver(i, d)
  \/ \E f \in {g \in flights : g.at = i} :
       \/ consume_lookup(f)
       \/ consume_commit(f)
       \/ consume_permanent_error(f)
       \/ publish_live(f)
       \/ ack(f)

Time ==
  \E m \in Messages : backoff_ends(m) \/ (claim_expires(m) /\ ~InHand(m))

Fault ==
  \/ \E p \in Instances, arrived \in BOOLEAN : \E c \in hand[p] :
       publish_fails(p, c, arrived)
  \/ \E m \in Messages : claim_expires(m) /\ InHand(m)
  \/ \E f \in flights : consume_transient_error(f)
  \/ \E i \in Instances : connection_lost(i) \/ crash(i)

Operate ==
  \E m \in Messages :
    requeue_dead_letter(m) \/ cleanup_published(m) \/ cleanup_inbox(m)

Page ==
  \/ \E i \in Instances : open_socket(i)
  \/ read_backlog \/ send_backlog \/ stream_live_event
  \/ disconnect

Next ==
  \/ \E t \in Tasks : append_event(t)
  \/ \E i \in Instances : Publish(i) \/ Consume(i)
  \/ Time \/ Fault \/ Operate \/ Page

\* Publishers poll, RabbitMQ redelivers what is not acknowledged, consumers
\* answer, and time passes.
Fairness ==
  /\ \A i \in Instances : WF_vars(Publish(i)) /\ WF_vars(Consume(i))
  /\ WF_vars(Time)

Spec == Init /\ [][Next]_vars /\ Fairness

------------------------------------------------------------------------------
(* Properties. *)

\* An event reaches the fan-outs of all instances together at most once, until
\* retention removes its receipt: neither a second send after a crash or a lost
\* confirm nor a redelivery after a lost ack repeats it (_consume_message).
AppliedOnce ==
  dep.transport = "rabbitmq" => \A m \in Messages :
    m \notin retired =>
      \A i, j \in Instances :
        pushed[m][i] <= 1 /\ (pushed[m][i] + pushed[m][j] > 1 => i = j)

\* A row marked as published is in the broker or was consumed: between the
\* confirm of the publisher and the ack of the consumer no crash, lost
\* connection or requeue leaves an event nowhere (_mark_published, ack).
PublishedIsNotLost ==
  \A m \in Messages :
    dep.transport = "rabbitmq" /\ outbox[m].status = "published" =>
      \/ m \in inbox \cup retired
      \/ \E d \in broker : d.msg = m

\* No event of a task is published while an earlier one still waits, unless
\* that one was a dead letter and came back (_claim_batch, NOT EXISTS).
PublishedInOrder ==
  \A m \in Messages : \A e \in Earlier(m) :
    outbox[m].status \in {"published", "deleted"} /\ outbox[e].status = "pending"
      => outbox[e].requeued

\* What the fan-out of the socket's instance has got is behind the cursor, in
\* the socket's queue, or was dropped from a full queue: nothing falls between
\* the replay of the backlog and the live events (task_events).
BacklogMeetsLive ==
  socket.phase = "streaming" =>
    \A n \in 1..LastSeq[ClientTask] :
      pushed[<<ClientTask, n>>][socket.at] > 0 =>
        n <= socket.cursor \/ Contains(socket.queue, n) \/ n \in lossy

Settled(m) ==
  \/ outbox[m].status \in {"dead", "deleted"} \/ m \in retired
  \/ IF dep.transport = "local" THEN outbox[m].status = "published" ELSE m \in inbox

\* Every event is eventually published and, through RabbitMQ, in the inbox,
\* unless it became a dead letter or retention removed its row first
\* (publish_pending, _consume_message).
EventSettles == \A m \in Messages : m \in Appended ~> Settled(m)
=============================================================================
