--------------------------- MODULE DeliveryProofs ---------------------------
(***************************************************************************)
(* Proofs, for every set of tasks and instances, every deployment and      *)
(* every bound, of what the way of an event promises.                      *)
(*                                                                         *)
(* Each property needs a fact about something on its way: AppliedOnce      *)
(* about a handler that has its receipt and not yet pushed,                *)
(* PublishedIsNotLost about a publisher that has its confirm and not yet   *)
(* marked, PublishedInOrder about a claim that is not yet used, and        *)
(* BacklogMeetsLive about a socket that has read its backlog and not yet   *)
(* sent it.                                                                *)
(***************************************************************************)
EXTENDS Delivery, TLAPS

\* A row exists exactly for the events appended, and a row without a claim has
\* no owner.
RowOfEvent ==
  \A m \in Messages :
    /\ outbox[m].status = "absent" <=> last[m[1]] < m[2]
    /\ outbox[m].status = "absent" => outbox[m].owner = NoOwner

\* Only events with a row are claimed, sent, consumed and pushed.
OnlyAppended ==
  /\ \A p \in Instances : \A c \in hand[p] : outbox[c.msg].status # "absent"
  /\ \A d \in broker : outbox[d.msg].status # "absent"
  /\ \A f \in flights : outbox[f.delivery.msg].status # "absent"
  /\ \A m \in Messages, i \in Instances :
       pushed[m][i] > 0 => outbox[m].status # "absent"

\* A row that may be sent has an attempt left, and so has the copy in hand.
AttemptLeft ==
  /\ \A m \in Messages : outbox[m].status = "pending" => outbox[m].attempts < dep.attempts
  /\ \A p \in Instances : \A c \in hand[p] : c.attempts < dep.attempts

\* A handler that went on past the INSERT has its receipt; one handler at most
\* is between the receipt and the push, and none once the event was pushed.
ReceiptBeforePush ==
  /\ \A f \in flights :
       f.stage \in {"processed", "done"} => f.delivery.msg \in inbox \cup retired
  /\ \A f, g \in flights :
       /\ f.stage = "processed" /\ g.stage = "processed"
       /\ f.delivery.msg = g.delivery.msg /\ f.delivery.msg \notin retired
       => f = g
  /\ dep.transport = "rabbitmq" =>
       \A m \in Messages, i \in Instances :
         m \notin retired /\ pushed[m][i] > 0 =>
           /\ m \in inbox
           /\ \A f \in flights : f.delivery.msg = m => f.stage # "processed"

\* The event is at the broker or was consumed.
Kept(m) == m \in inbox \cup retired \/ \E d \in broker : d.msg = m

\* What a publisher knows to be sent is kept, until its row is deleted.
SentIsKept ==
  dep.transport = "rabbitmq" =>
    \A p \in Instances : \A c \in hand[p] :
      c.stage = "sent" => Kept(c.msg) \/ outbox[c.msg].status = "deleted"

\* Already when a row is claimed, no earlier one waits that never was dead.
ClaimedInOrder ==
  \A m \in Messages : \A e \in Earlier(m) :
    /\ outbox[m].status \in {"published", "deleted"} \/ outbox[m].owner # NoOwner
    /\ outbox[e].status = "pending"
    => outbox[e].requeued

\* Already when the backlog is read, what was pushed is in it, in the queue, or
\* was dropped; before that the socket needs only its place among the subscribers.
SocketFilled ==
  /\ socket.phase # "closed" => socket.at \in Instances
  /\ socket.phase = "replaying" =>
       \A n \in 1..LastSeq[ClientTask] :
         pushed[<<ClientTask, n>>][socket.at] > 0 =>
           n <= socket.upto \/ Contains(socket.queue, n) \/ n \in lossy

\* The page can tell the last event it has.
SeenHasLast ==
  client.seen # {} => \E n \in client.seen : \A k \in client.seen : k <= n

IInv == /\ TypeOK
        /\ RowOfEvent
        /\ OnlyAppended
        /\ AttemptLeft
        /\ ReceiptBeforePush
        /\ AppliedOnce
        /\ SentIsKept
        /\ PublishedIsNotLost
        /\ ClaimedInOrder
        /\ SocketFilled
        /\ BacklogMeetsLive
        /\ SeenHasLast
-----------------------------------------------------------------------------
(* Lemmas on messages, rows and queues.                                    *)

\* A message is an event of a task, by its number.
LEMMA MessageIs ==
  /\ \A m \in Messages : m[1] \in Tasks /\ m[2] \in 1..LastSeq[m[1]] /\ m = <<m[1], m[2]>>
  /\ \A t \in Tasks : \A n \in 1..LastSeq[t] : <<t, n>> \in Messages
  BY DEF Messages

\* The settings of a deployment are numbers.
LEMMA DepIs ==
  ASSUME dep \in Deployments
  PROVE  /\ dep.attempts \in Nat \ {0} /\ dep.events \in Nat
         /\ dep.faults \in Nat /\ dep.opens \in Nat
  BY DeliveryAssumption DEF Deployment

\* What a row holds.
LEMMA RowIs ==
  ASSUME NEW n \in Nat, NEW r \in Row(n)
  PROVE  /\ r.status \in {"absent", "pending", "published", "dead", "deleted"}
         /\ r.attempts \in 0..n /\ r.waiting \in BOOLEAN
         /\ r.owner \in Instances \cup {NoOwner} /\ r.live \in BOOLEAN
         /\ r.fence \in Nat /\ r.requeued \in BOOLEAN
  BY DEF Row

\* What append_event, a publisher, an operator or retention makes of a row is
\* a row ...
LEMMA RowUpdate ==
  ASSUME dep.attempts \in Nat \ {0}, NEW r \in Row(dep.attempts)
  PROVE  /\ NoRow \in Row(dep.attempts) /\ NewRow \in Row(dep.attempts)
         /\ \A p \in Instances : Claimed(r, p) \in Row(dep.attempts)
         /\ r.attempts < dep.attempts => Published(r) \in Row(dep.attempts)
         /\ \A a \in 0..dep.attempts : Failed(r, a) \in Row(dep.attempts)
         /\ [r EXCEPT !.waiting = FALSE] \in Row(dep.attempts)
         /\ [r EXCEPT !.live = FALSE] \in Row(dep.attempts)
         /\ [r EXCEPT !.status = "deleted"] \in Row(dep.attempts)
         /\ Requeued(r) \in Row(dep.attempts)
<1>a. /\ r.fence + 1 \in Nat /\ 0 \in 0..dep.attempts /\ 0 \in Nat
      /\ r.attempts < dep.attempts => r.attempts + 1 \in 0..dep.attempts
  BY RowIs
<1> USE <1>a DEF Row, NoRow, NewRow, Unclaimed
<1>1. NoRow \in Row(dep.attempts)
  OBVIOUS
<1>2. NewRow \in Row(dep.attempts)
  BY <1>1
<1>3. ASSUME NEW p \in Instances PROVE Claimed(r, p) \in Row(dep.attempts)
  BY DEF Claimed
<1>4. r.attempts < dep.attempts => Published(r) \in Row(dep.attempts)
  BY DEF Published
<1>5. ASSUME NEW a \in 0..dep.attempts PROVE Failed(r, a) \in Row(dep.attempts)
  <2>1. (a < dep.attempts) \in BOOLEAN
    OBVIOUS
  <2> QED BY <2>1 DEF Failed
<1>6. /\ [r EXCEPT !.waiting = FALSE] \in Row(dep.attempts)
      /\ [r EXCEPT !.live = FALSE] \in Row(dep.attempts)
      /\ [r EXCEPT !.status = "deleted"] \in Row(dep.attempts)
  OBVIOUS
<1>7. Requeued(r) \in Row(dep.attempts)
  BY DEF Requeued
<1> QED BY <1>1, <1>2, <1>3, <1>4, <1>5, <1>6, <1>7

\* ... and these are the fields that matter below.
LEMMA RowFields ==
  ASSUME dep.attempts \in Nat \ {0}, NEW r \in Row(dep.attempts)
  PROVE  /\ NewRow.status = "pending" /\ NewRow.owner = NoOwner /\ NewRow.attempts = 0
         /\ \A p \in Instances : LET s == Claimed(r, p) IN
              /\ s.status = r.status /\ s.attempts = r.attempts
              /\ s.requeued = r.requeued /\ s.owner = p
         /\ LET s == Published(r) IN
              s.status = "published" /\ s.owner = NoOwner /\ s.requeued = r.requeued
         /\ \A a \in 0..dep.attempts : LET s == Failed(r, a) IN
              /\ s.status = IF a >= dep.attempts THEN "dead" ELSE r.status
              /\ s.attempts = a /\ s.owner = NoOwner /\ s.requeued = r.requeued
         /\ LET s == Requeued(r) IN
              s.status = "pending" /\ s.attempts = 0 /\ s.owner = NoOwner /\ s.requeued
  BY DEF Row, NoRow, NewRow, Claimed, Published, Failed, Requeued, Unclaimed

\* A publisher's copy moves on to another stage.
LEMMA StageIs ==
  ASSUME NEW n, NEW c \in Copy(n), NEW s \in {"claimed", "sent", "failed"}
  PROVE  LET d == [c EXCEPT !.stage = s] IN
         d \in Copy(n) /\ d.msg = c.msg /\ d.attempts = c.attempts /\ d.stage = s
  BY DEF Copy

\* A handler moves on to another stage, or loses its channel.
LEMMA AdvanceIs ==
  ASSUME NEW f \in Flight, NEW s \in {"received", "inserting", "processed", "done"}
  PROVE  /\ LET g == [f EXCEPT !.stage = s] IN
            g \in Flight /\ g.delivery = f.delivery /\ g.stage = s
         /\ LET g == [f EXCEPT !.open = FALSE] IN
            g \in Flight /\ g.delivery = f.delivery /\ g.stage = f.stage
         /\ f.delivery \in Letter /\ f.delivery.msg \in Messages /\ f.at \in Instances
  BY DEF Flight, Letter

\* What a copy holds, and the envelope made of it.
LEMMA CopyIs ==
  ASSUME NEW n, NEW c \in Copy(n)
  PROVE  /\ c.msg \in Messages /\ c.fence \in Nat /\ c.attempts \in 0..n
         /\ c.stage \in {"claimed", "sent", "failed"}
         /\ Envelope(c) \in Letter /\ Envelope(c).msg = c.msg
  BY DEF Copy, Letter, Envelope

\* A queue that takes one event more.
LEMMA OfferIs ==
  ASSUME NEW q \in Seq(Nat), NEW n \in Nat
  PROVE  /\ Offer(q, n) \in Seq(Nat)
         /\ Contains(Offer(q, n), n)
         /\ \A k \in Nat : Contains(q, k) =>
              \/ Contains(Offer(q, n), k)
              \/ Len(q) = QueueSize /\ k = Head(q)
         /\ Len(q) = QueueSize => Head(q) \in Nat
<1>1. CASE Len(q) = QueueSize
  <2>1. q # <<>> /\ Tail(q) \in Seq(Nat) /\ Len(Tail(q)) = Len(q) - 1
    BY <1>1, DeliveryAssumption
  <2>2. \A j \in 1..Len(Tail(q)) : Append(Tail(q), n)[j] = q[j + 1]
    BY <2>1
  <2>a. /\ Len(Append(Tail(q), n)) = Len(q) /\ Append(Tail(q), n) \in Seq(Nat)
        /\ Append(Tail(q), n)[Len(q)] = n /\ Len(q) \in Nat \ {0}
    BY <2>1
  <2>3. ASSUME NEW k \in Nat, NEW j \in 1..Len(q), q[j] = k, k # Head(q)
        PROVE  Contains(Append(Tail(q), n), k)
    <3>1. j # 1 /\ j - 1 \in 1..Len(Tail(q)) /\ j - 1 \in 1..Len(q) /\ (j - 1) + 1 = j
      BY <2>1, <2>3
    <3>2. Append(Tail(q), n)[j - 1] = k
      BY <2>2, <2>3, <3>1
    <3> QED BY <2>a, <3>1, <3>2 DEF Contains
  <2>4. Contains(Append(Tail(q), n), n)
    <3>1. Len(q) \in 1..Len(Append(Tail(q), n))
      BY <2>a
    <3> QED BY <2>a, <3>1 DEF Contains
  <2>5. Offer(q, n) = Append(Tail(q), n)
    BY <1>1 DEF Offer
  <2>6. \A k \in Nat : Contains(q, k) => k = Head(q) \/ Contains(Append(Tail(q), n), k)
    BY <2>3 DEF Contains
  <2>7. Head(q) \in Nat
    BY <2>1
  <2> HIDE DEF Contains
  <2> QED BY <1>1, <2>a, <2>4, <2>5, <2>6, <2>7
<1>2. CASE Len(q) # QueueSize
  BY <1>2 DEF Offer, Contains
<1> QED BY <1>1, <1>2

\* A queue whose first event is taken.
LEMMA TailIs ==
  ASSUME NEW q \in Seq(Nat), q # <<>>
  PROVE  /\ Tail(q) \in Seq(Nat) /\ Head(q) \in Nat
         /\ \A k \in Nat : Contains(q, k) => k = Head(q) \/ Contains(Tail(q), k)
  BY DEF Contains
-----------------------------------------------------------------------------
(* The types.                                                              *)

\* The event goes to the fan-out of an instance.
LEMMA FanOutType ==
  ASSUME TypeOK, NEW i \in Instances, NEW m \in Messages, FanOut(i, m)
  PROVE  /\ pushed' \in [Messages -> [Instances -> Nat]]
         /\ socket' \in Socket /\ lossy' \subseteq Nat
<1>1. socket.queue \in Seq(Nat) /\ m[2] \in Nat
  BY MessageIs, DeliveryAssumption DEF TypeOK, Socket
<1>2. /\ Offer(socket.queue, m[2]) \in Seq(Nat)
      /\ Len(socket.queue) = QueueSize => Head(socket.queue) \in Nat
  BY <1>1, OfferIs
<1>3. pushed' \in [Messages -> [Instances -> Nat]]
  BY DEF FanOut, TypeOK
<1>4. socket' \in Socket
  BY <1>2 DEF FanOut, TypeOK, Socket
<1>5. lossy' \subseteq Nat
  BY <1>2 DEF FanOut, TypeOK
<1> QED BY <1>3, <1>4, <1>5

\* The last event the page has is a number.
LEMMA MaxSeenType ==
  ASSUME client \in PageState, SeenHasLast
  PROVE  MaxSeen \in Nat
  BY DEF PageState, SeenHasLast, MaxSeen

-----------------------------------------------------------------------------
(* Which actions touch what.                                               *)

\* The rows: append_event, the publishers, the clock and the operator.
LEMMA TouchOutbox ==
  [Next]_vars =>
    \/ UNCHANGED outbox
    \/ \E t \in Tasks : append_event(t)
    \/ \E p \in Instances, batch \in SUBSET Messages : claim_batch(p, batch)
    \/ \E p \in Instances : \E c \in hand[p] : mark_published(p, c)
    \/ \E p \in Instances : \E c \in hand[p] : mark_failed(p, c)
    \/ \E m \in Messages : backoff_ends(m)
    \/ \E m \in Messages : claim_expires(m)
    \/ \E m \in Messages : requeue_dead_letter(m)
    \/ \E m \in Messages : cleanup_published(m)
<1>1. ASSUME NEW p \in Instances, NEW c \in hand[p],
             \/ publish_local(p, c) \/ publish_confirmed(p, c)
      PROVE  UNCHANGED outbox
  BY <1>1 DEF publish_local, publish_confirmed, outside, inside
<1>2. ASSUME NEW p \in Instances, NEW b \in BOOLEAN, NEW c \in hand[p],
             publish_fails(p, c, b)
      PROVE  UNCHANGED outbox
  BY <1>2 DEF publish_fails, outside, inside
<1>3. ASSUME NEW i \in Instances, NEW d \in broker,
             deliver(i, d)
      PROVE  UNCHANGED outbox
  BY <1>3 DEF deliver, outside, inside
<1>4. ASSUME NEW f \in flights,
             \/ consume_lookup(f) \/ consume_commit(f) \/ consume_permanent_error(f)
             \/ consume_transient_error(f) \/ publish_live(f) \/ ack(f)
      PROVE  UNCHANGED outbox
  BY <1>4 DEF consume_lookup, consume_commit, consume_permanent_error,
     consume_transient_error, publish_live, ack, outside, inside
<1>5. ASSUME NEW i \in Instances,
             \/ connection_lost(i) \/ crash(i) \/ open_socket(i)
      PROVE  UNCHANGED outbox
  BY <1>5 DEF connection_lost, crash, open_socket, outside, inside
<1>6. ASSUME NEW m \in Messages, cleanup_inbox(m) PROVE UNCHANGED outbox
  BY <1>6 DEF cleanup_inbox, outside, inside
<1>7. ASSUME \/ read_backlog \/ send_backlog \/ stream_live_event \/ disconnect
      PROVE  UNCHANGED outbox
  BY <1>7 DEF read_backlog, send_backlog, stream_live_event, disconnect, outside, inside
<1>8. ASSUME UNCHANGED vars PROVE UNCHANGED outbox
  BY <1>8 DEF vars
<1> QED BY <1>1, <1>2, <1>3, <1>4, <1>5, <1>6, <1>7, <1>8
   DEF Next, Publish, Consume, Time, Fault, Operate, Page

\* The batches: the publishers, and a crash.
LEMMA TouchHand ==
  [Next]_vars =>
    \/ UNCHANGED hand
    \/ \E p \in Instances, batch \in SUBSET Messages : claim_batch(p, batch)
    \/ \E p \in Instances : \E c \in hand[p] : publish_local(p, c)
    \/ \E p \in Instances : \E c \in hand[p] : publish_confirmed(p, c)
    \/ \E p \in Instances, b \in BOOLEAN : \E c \in hand[p] : publish_fails(p, c, b)
    \/ \E p \in Instances : \E c \in hand[p] : mark_published(p, c)
    \/ \E p \in Instances : \E c \in hand[p] : mark_failed(p, c)
    \/ \E i \in Instances : crash(i)
<1>1. ASSUME NEW t \in Tasks, append_event(t) PROVE UNCHANGED hand
  BY <1>1 DEF append_event, outside, inside
<1>2. ASSUME NEW m \in Messages,
             \/ backoff_ends(m) \/ claim_expires(m) \/ requeue_dead_letter(m)
             \/ cleanup_published(m) \/ cleanup_inbox(m)
      PROVE  UNCHANGED hand
  BY <1>2 DEF backoff_ends, claim_expires, requeue_dead_letter, cleanup_published,
     cleanup_inbox, outside, inside
<1>3. ASSUME NEW i \in Instances, NEW d \in broker, deliver(i, d) PROVE UNCHANGED hand
  BY <1>3 DEF deliver, outside, inside
<1>4. ASSUME NEW f \in flights,
             \/ consume_lookup(f) \/ consume_commit(f) \/ consume_permanent_error(f)
             \/ consume_transient_error(f) \/ publish_live(f) \/ ack(f)
      PROVE  UNCHANGED hand
  BY <1>4 DEF consume_lookup, consume_commit, consume_permanent_error,
     consume_transient_error, publish_live, ack, outside, inside
<1>5. ASSUME NEW i \in Instances,
             \/ connection_lost(i) \/ open_socket(i)
      PROVE  UNCHANGED hand
  BY <1>5 DEF connection_lost, open_socket, outside, inside
<1>6. ASSUME \/ read_backlog \/ send_backlog \/ stream_live_event \/ disconnect
      PROVE  UNCHANGED hand
  BY <1>6 DEF read_backlog, send_backlog, stream_live_event, disconnect, outside, inside
<1>7. ASSUME UNCHANGED vars PROVE UNCHANGED hand
  BY <1>7 DEF vars
<1> QED BY <1>1, <1>2, <1>3, <1>4, <1>5, <1>6, <1>7
   DEF Next, Publish, Consume, Time, Fault, Operate, Page

\* The handlers.
LEMMA TouchFlights ==
  [Next]_vars =>
    \/ UNCHANGED flights
    \/ \E i \in Instances : \E d \in broker : deliver(i, d)
    \/ \E f \in flights : consume_lookup(f)
    \/ \E f \in flights : consume_commit(f)
    \/ \E f \in flights : consume_permanent_error(f)
    \/ \E f \in flights : consume_transient_error(f)
    \/ \E f \in flights : publish_live(f)
    \/ \E f \in flights : ack(f)
    \/ \E i \in Instances : connection_lost(i)
    \/ \E i \in Instances : crash(i)
<1>1. ASSUME NEW t \in Tasks, append_event(t) PROVE UNCHANGED flights
  BY <1>1 DEF append_event, outside, inside
<1>2. ASSUME NEW p \in Instances,
             NEW batch \in SUBSET Messages, claim_batch(p, batch)
      PROVE  UNCHANGED flights
  BY <1>2 DEF claim_batch, outside, inside
<1>3. ASSUME NEW p \in Instances, NEW c \in hand[p],
             \/ publish_local(p, c) \/ publish_confirmed(p, c) \/ mark_published(p, c)
             \/ mark_failed(p, c)
      PROVE  UNCHANGED flights
  BY <1>3 DEF publish_local, publish_confirmed, mark_published, mark_failed, outside,
     inside
<1>4. ASSUME NEW p \in Instances, NEW b \in BOOLEAN, NEW c \in hand[p],
             publish_fails(p, c, b)
      PROVE  UNCHANGED flights
  BY <1>4 DEF publish_fails, outside, inside
<1>5. ASSUME NEW m \in Messages,
             \/ backoff_ends(m) \/ claim_expires(m) \/ requeue_dead_letter(m)
             \/ cleanup_published(m) \/ cleanup_inbox(m)
      PROVE  UNCHANGED flights
  BY <1>5 DEF backoff_ends, claim_expires, requeue_dead_letter, cleanup_published,
     cleanup_inbox, outside, inside
<1>6. ASSUME NEW i \in Instances, open_socket(i) PROVE UNCHANGED flights
  BY <1>6 DEF open_socket, outside, inside
<1>7. ASSUME \/ read_backlog \/ send_backlog \/ stream_live_event \/ disconnect
      PROVE  UNCHANGED flights
  BY <1>7 DEF read_backlog, send_backlog, stream_live_event, disconnect, outside, inside
<1>8. ASSUME UNCHANGED vars PROVE UNCHANGED flights
  BY <1>8 DEF vars
<1> QED BY <1>1, <1>2, <1>3, <1>4, <1>5, <1>6, <1>7, <1>8
   DEF Next, Publish, Consume, Time, Fault, Operate, Page

\* The broker.
LEMMA TouchBroker ==
  [Next]_vars =>
    \/ UNCHANGED broker
    \/ \E p \in Instances : \E c \in hand[p] : publish_confirmed(p, c)
    \/ \E p \in Instances, b \in BOOLEAN : \E c \in hand[p] : publish_fails(p, c, b)
    \/ \E f \in flights : consume_permanent_error(f)
    \/ \E f \in flights : ack(f)
<1>1. ASSUME NEW t \in Tasks, append_event(t) PROVE UNCHANGED broker
  BY <1>1 DEF append_event, outside, inside
<1>2. ASSUME NEW p \in Instances,
             NEW batch \in SUBSET Messages, claim_batch(p, batch)
      PROVE  UNCHANGED broker
  BY <1>2 DEF claim_batch, outside, inside
<1>3. ASSUME NEW p \in Instances, NEW c \in hand[p],
             \/ publish_local(p, c) \/ mark_published(p, c) \/ mark_failed(p, c)
      PROVE  UNCHANGED broker
  BY <1>3 DEF publish_local, mark_published, mark_failed, outside, inside
<1>4. ASSUME NEW m \in Messages,
             \/ backoff_ends(m) \/ claim_expires(m) \/ requeue_dead_letter(m)
             \/ cleanup_published(m) \/ cleanup_inbox(m)
      PROVE  UNCHANGED broker
  BY <1>4 DEF backoff_ends, claim_expires, requeue_dead_letter, cleanup_published,
     cleanup_inbox, outside, inside
<1>5. ASSUME NEW i \in Instances, NEW d \in broker,
             deliver(i, d)
      PROVE  UNCHANGED broker
  BY <1>5 DEF deliver, outside, inside
<1>6. ASSUME NEW f \in flights,
             \/ consume_lookup(f) \/ consume_commit(f) \/ consume_transient_error(f)
             \/ publish_live(f)
      PROVE  UNCHANGED broker
  BY <1>6 DEF consume_lookup, consume_commit, consume_transient_error, publish_live,
     outside, inside
<1>7. ASSUME NEW i \in Instances,
             \/ connection_lost(i) \/ crash(i) \/ open_socket(i)
      PROVE  UNCHANGED broker
  BY <1>7 DEF connection_lost, crash, open_socket, outside, inside
<1>8. ASSUME \/ read_backlog \/ send_backlog \/ stream_live_event \/ disconnect
      PROVE  UNCHANGED broker
  BY <1>8 DEF read_backlog, send_backlog, stream_live_event, disconnect, outside, inside
<1>9. ASSUME UNCHANGED vars PROVE UNCHANGED broker
  BY <1>9 DEF vars
<1> QED BY <1>1, <1>2, <1>3, <1>4, <1>5, <1>6, <1>7, <1>8, <1>9
   DEF Next, Publish, Consume, Time, Fault, Operate, Page

\* The receipts.
LEMMA TouchInbox ==
  [Next]_vars =>
    \/ UNCHANGED <<inbox, retired>>
    \/ \E f \in flights : consume_commit(f)
    \/ \E m \in Messages : cleanup_inbox(m)
<1>1. ASSUME NEW t \in Tasks, append_event(t) PROVE UNCHANGED <<inbox, retired>>
  BY <1>1 DEF append_event, outside, inside
<1>2. ASSUME NEW p \in Instances,
             NEW batch \in SUBSET Messages, claim_batch(p, batch)
      PROVE  UNCHANGED <<inbox, retired>>
  BY <1>2 DEF claim_batch, outside, inside
<1>3. ASSUME NEW p \in Instances, NEW c \in hand[p],
             \/ publish_local(p, c) \/ publish_confirmed(p, c) \/ mark_published(p, c)
             \/ mark_failed(p, c)
      PROVE  UNCHANGED <<inbox, retired>>
  BY <1>3 DEF publish_local, publish_confirmed, mark_published, mark_failed, outside,
     inside
<1>4. ASSUME NEW p \in Instances, NEW b \in BOOLEAN, NEW c \in hand[p],
             publish_fails(p, c, b)
      PROVE  UNCHANGED <<inbox, retired>>
  BY <1>4 DEF publish_fails, outside, inside
<1>5. ASSUME NEW m \in Messages,
             \/ backoff_ends(m) \/ claim_expires(m) \/ requeue_dead_letter(m)
             \/ cleanup_published(m)
      PROVE  UNCHANGED <<inbox, retired>>
  BY <1>5 DEF backoff_ends, claim_expires, requeue_dead_letter, cleanup_published,
     outside, inside
<1>6. ASSUME NEW i \in Instances, NEW d \in broker,
             deliver(i, d)
      PROVE  UNCHANGED <<inbox,
        retired>>
  BY <1>6 DEF deliver, outside, inside
<1>7. ASSUME NEW f \in flights,
             \/ consume_lookup(f) \/ consume_permanent_error(f)
             \/ consume_transient_error(f) \/ publish_live(f) \/ ack(f)
      PROVE  UNCHANGED <<inbox,
        retired>>
  BY <1>7 DEF consume_lookup, consume_permanent_error, consume_transient_error,
     publish_live, ack, outside, inside
<1>8. ASSUME NEW i \in Instances,
             \/ connection_lost(i) \/ crash(i) \/ open_socket(i)
      PROVE  UNCHANGED <<inbox, retired>>
  BY <1>8 DEF connection_lost, crash, open_socket, outside, inside
<1>9. ASSUME \/ read_backlog \/ send_backlog \/ stream_live_event \/ disconnect
      PROVE  UNCHANGED <<inbox, retired>>
  BY <1>9 DEF read_backlog, send_backlog, stream_live_event, disconnect, outside, inside
<1>10. ASSUME UNCHANGED vars PROVE UNCHANGED <<inbox, retired>>
  BY <1>10 DEF vars
<1> QED BY <1>1, <1>2, <1>3, <1>4, <1>5, <1>6, <1>7, <1>8, <1>9, <1>10
   DEF Next, Publish, Consume, Time, Fault, Operate, Page

\* The fan-outs.
LEMMA TouchPushed ==
  [Next]_vars =>
    \/ UNCHANGED pushed
    \/ \E p \in Instances : \E c \in hand[p] : publish_local(p, c)
    \/ \E f \in flights : publish_live(f)
<1>1. ASSUME NEW t \in Tasks, append_event(t) PROVE UNCHANGED pushed
  BY <1>1 DEF append_event, outside, inside
<1>2. ASSUME NEW p \in Instances,
             NEW batch \in SUBSET Messages, claim_batch(p, batch)
      PROVE  UNCHANGED pushed
  BY <1>2 DEF claim_batch, outside, inside
<1>3. ASSUME NEW p \in Instances, NEW c \in hand[p],
             \/ publish_confirmed(p, c) \/ mark_published(p, c) \/ mark_failed(p, c)
      PROVE  UNCHANGED pushed
  BY <1>3 DEF publish_confirmed, mark_published, mark_failed, outside, inside
<1>4. ASSUME NEW p \in Instances, NEW b \in BOOLEAN, NEW c \in hand[p],
             publish_fails(p, c, b)
      PROVE  UNCHANGED pushed
  BY <1>4 DEF publish_fails, outside, inside
<1>5. ASSUME NEW m \in Messages,
             \/ backoff_ends(m) \/ claim_expires(m) \/ requeue_dead_letter(m)
             \/ cleanup_published(m) \/ cleanup_inbox(m)
      PROVE  UNCHANGED pushed
  BY <1>5 DEF backoff_ends, claim_expires, requeue_dead_letter, cleanup_published,
     cleanup_inbox, outside, inside
<1>6. ASSUME NEW i \in Instances, NEW d \in broker,
             deliver(i, d)
      PROVE  UNCHANGED pushed
  BY <1>6 DEF deliver, outside, inside
<1>7. ASSUME NEW f \in flights,
             \/ consume_lookup(f) \/ consume_commit(f) \/ consume_permanent_error(f)
             \/ consume_transient_error(f) \/ ack(f)
      PROVE  UNCHANGED pushed
  BY <1>7 DEF consume_lookup, consume_commit, consume_permanent_error,
     consume_transient_error, ack, outside, inside
<1>8. ASSUME NEW i \in Instances,
             \/ connection_lost(i) \/ crash(i) \/ open_socket(i)
      PROVE  UNCHANGED pushed
  BY <1>8 DEF connection_lost, crash, open_socket, outside, inside
<1>9. ASSUME \/ read_backlog \/ send_backlog \/ stream_live_event \/ disconnect
      PROVE  UNCHANGED pushed
  BY <1>9 DEF read_backlog, send_backlog, stream_live_event, disconnect, outside, inside
<1>10. ASSUME UNCHANGED vars PROVE UNCHANGED pushed
  BY <1>10 DEF vars
<1> QED BY <1>1, <1>2, <1>3, <1>4, <1>5, <1>6, <1>7, <1>8, <1>9, <1>10
   DEF Next, Publish, Consume, Time, Fault, Operate, Page

\* The socket and what its queue dropped.
LEMMA TouchSocket ==
  [Next]_vars =>
    \/ UNCHANGED <<socket, lossy>>
    \/ \E p \in Instances : \E c \in hand[p] : publish_local(p, c)
    \/ \E f \in flights : publish_live(f)
    \/ \E i \in Instances : crash(i)
    \/ \E i \in Instances : open_socket(i)
    \/ read_backlog
    \/ send_backlog
    \/ stream_live_event
    \/ disconnect
<1>1. ASSUME NEW t \in Tasks, append_event(t) PROVE UNCHANGED <<socket, lossy>>
  BY <1>1 DEF append_event, outside, inside
<1>2. ASSUME NEW p \in Instances,
             NEW batch \in SUBSET Messages, claim_batch(p, batch)
      PROVE  UNCHANGED <<socket, lossy>>
  BY <1>2 DEF claim_batch, outside, inside
<1>3. ASSUME NEW p \in Instances, NEW c \in hand[p],
             \/ publish_confirmed(p, c) \/ mark_published(p, c) \/ mark_failed(p, c)
      PROVE  UNCHANGED <<socket, lossy>>
  BY <1>3 DEF publish_confirmed, mark_published, mark_failed, outside, inside
<1>4. ASSUME NEW p \in Instances, NEW b \in BOOLEAN, NEW c \in hand[p],
             publish_fails(p, c, b)
      PROVE  UNCHANGED <<socket, lossy>>
  BY <1>4 DEF publish_fails, outside, inside
<1>5. ASSUME NEW m \in Messages,
             \/ backoff_ends(m) \/ claim_expires(m) \/ requeue_dead_letter(m)
             \/ cleanup_published(m) \/ cleanup_inbox(m)
      PROVE  UNCHANGED <<socket, lossy>>
  BY <1>5 DEF backoff_ends, claim_expires, requeue_dead_letter, cleanup_published,
     cleanup_inbox, outside, inside
<1>6. ASSUME NEW i \in Instances, NEW d \in broker,
             deliver(i, d)
      PROVE  UNCHANGED <<socket,
        lossy>>
  BY <1>6 DEF deliver, outside, inside
<1>7. ASSUME NEW f \in flights,
             \/ consume_lookup(f) \/ consume_commit(f) \/ consume_permanent_error(f)
             \/ consume_transient_error(f) \/ ack(f)
      PROVE  UNCHANGED <<socket, lossy>>
  BY <1>7 DEF consume_lookup, consume_commit, consume_permanent_error,
     consume_transient_error, ack, outside, inside
<1>8. ASSUME NEW i \in Instances, connection_lost(i) PROVE UNCHANGED <<socket, lossy>>
  BY <1>8 DEF connection_lost, outside, inside
<1>9. ASSUME UNCHANGED vars PROVE UNCHANGED <<socket, lossy>>
  BY <1>9 DEF vars
<1> QED BY <1>1, <1>2, <1>3, <1>4, <1>5, <1>6, <1>7, <1>8, <1>9
   DEF Next, Publish, Consume, Time, Fault, Operate, Page

\* The page.
LEMMA TouchPage ==
  [Next]_vars =>
    \/ UNCHANGED client
    \/ send_backlog
    \/ stream_live_event
<1>1. ASSUME NEW t \in Tasks, append_event(t) PROVE UNCHANGED client
  BY <1>1 DEF append_event, outside, inside
<1>2. ASSUME NEW p \in Instances,
             NEW batch \in SUBSET Messages, claim_batch(p, batch)
      PROVE  UNCHANGED client
  BY <1>2 DEF claim_batch, outside, inside
<1>3. ASSUME NEW p \in Instances, NEW c \in hand[p],
             \/ publish_local(p, c) \/ publish_confirmed(p, c) \/ mark_published(p, c)
             \/ mark_failed(p, c)
      PROVE  UNCHANGED client
  BY <1>3 DEF publish_local, publish_confirmed, mark_published, mark_failed, outside,
     inside
<1>4. ASSUME NEW p \in Instances, NEW b \in BOOLEAN, NEW c \in hand[p],
             publish_fails(p, c, b)
      PROVE  UNCHANGED client
  BY <1>4 DEF publish_fails, outside, inside
<1>5. ASSUME NEW m \in Messages,
             \/ backoff_ends(m) \/ claim_expires(m) \/ requeue_dead_letter(m)
             \/ cleanup_published(m) \/ cleanup_inbox(m)
      PROVE  UNCHANGED client
  BY <1>5 DEF backoff_ends, claim_expires, requeue_dead_letter, cleanup_published,
     cleanup_inbox, outside, inside
<1>6. ASSUME NEW i \in Instances, NEW d \in broker,
             deliver(i, d)
      PROVE  UNCHANGED client
  BY <1>6 DEF deliver, outside, inside
<1>7. ASSUME NEW f \in flights,
             \/ consume_lookup(f) \/ consume_commit(f) \/ consume_permanent_error(f)
             \/ consume_transient_error(f) \/ publish_live(f) \/ ack(f)
      PROVE  UNCHANGED client
  BY <1>7 DEF consume_lookup, consume_commit, consume_permanent_error,
     consume_transient_error, publish_live, ack, outside, inside
<1>8. ASSUME NEW i \in Instances,
             \/ connection_lost(i) \/ crash(i) \/ open_socket(i)
      PROVE  UNCHANGED client
  BY <1>8 DEF connection_lost, crash, open_socket, outside, inside
<1>9. ASSUME read_backlog \/ disconnect PROVE UNCHANGED client
  BY <1>9 DEF read_backlog, disconnect, outside, inside
<1>10. ASSUME UNCHANGED vars PROVE UNCHANGED client
  BY <1>10 DEF vars
<1> QED BY <1>1, <1>2, <1>3, <1>4, <1>5, <1>6, <1>7, <1>8, <1>9, <1>10
   DEF Next, Publish, Consume, Time, Fault, Operate, Page

\* The sequence numbers: append_event alone.
LEMMA TouchLast == [Next]_vars => UNCHANGED last \/ \E t \in Tasks : append_event(t)
  BY DEF Next, Publish, Consume, Time, Fault, Operate, Page, vars, outside, inside,
     claim_batch, publish_local, publish_confirmed, publish_fails, mark_published, mark_failed,
     backoff_ends, claim_expires, requeue_dead_letter, cleanup_published, deliver,
     consume_lookup, consume_commit, consume_permanent_error, consume_transient_error,
     publish_live, ack, connection_lost, cleanup_inbox, crash, open_socket, read_backlog,
     send_backlog, stream_live_event, disconnect
-----------------------------------------------------------------------------
(* The types, part by part.                                                *)

\* The outbox of an event that is appended, claimed, marked, expired, requeued
\* or cleaned up.
LEMMA OutboxType ==
  ASSUME TypeOK, AttemptLeft, [Next]_vars
  PROVE  outbox' \in [Messages -> Row(dep.attempts)]
<1>d. dep.attempts \in Nat \ {0}
  BY DepIs DEF TypeOK
<1>o. outbox \in [Messages -> Row(dep.attempts)]
  BY DEF TypeOK
<1>r. ASSUME NEW m \in Messages, NEW r \in Row(dep.attempts), outbox' = [outbox EXCEPT ![m] = r]
      PROVE  outbox' \in [Messages -> Row(dep.attempts)]
  BY <1>o, <1>r
<1>1. ASSUME NEW t \in Tasks, append_event(t) PROVE outbox' \in [Messages -> Row(dep.attempts)]
  <2>1. <<t, last[t] + 1>> \in Messages
    <3>1. last[t] + 1 \in 1..LastSeq[t]
      <4>1. last[t] \in Nat /\ LastSeq[t] \in Nat /\ last[t] < LastSeq[t]
        BY <1>1, DeliveryAssumption DEF append_event, TypeOK
      <4> QED BY <4>1
    <3> QED BY <3>1, MessageIs
  <2> QED BY <1>1, <1>d, <1>o, <1>r, <2>1, RowUpdate DEF append_event
<1>2. ASSUME NEW p \in Instances, NEW batch \in SUBSET Messages, claim_batch(p, batch)
      PROVE  outbox' \in [Messages -> Row(dep.attempts)]
  BY <1>2, <1>d, <1>o, RowUpdate DEF claim_batch
<1>3. ASSUME NEW p \in Instances, NEW c \in hand[p], mark_published(p, c)
      PROVE  outbox' \in [Messages -> Row(dep.attempts)]
  <2>1. CASE HoldsClaim(p, c)
    <3>1. c.msg \in Messages
      BY CopyIs DEF TypeOK
    <3>2. outbox[c.msg].attempts < dep.attempts
      BY <2>1, <3>1 DEF HoldsClaim, AttemptLeft
    <3> QED BY <1>3, <1>d, <1>o, <1>r, <2>1, <3>1, <3>2, RowUpdate DEF mark_published
  <2> QED BY <1>3, <1>o, <2>1 DEF mark_published
<1>4. ASSUME NEW p \in Instances, NEW c \in hand[p], mark_failed(p, c)
      PROVE  outbox' \in [Messages -> Row(dep.attempts)]
  <2>1. c.msg \in Messages /\ c.attempts + 1 \in 0..dep.attempts
    BY <1>d, CopyIs DEF TypeOK, AttemptLeft
  <2> QED BY <1>4, <1>d, <1>o, <1>r, <2>1, RowUpdate DEF mark_failed
<1>5. ASSUME NEW m \in Messages,
             \/ backoff_ends(m) \/ claim_expires(m)
             \/ requeue_dead_letter(m) \/ cleanup_published(m)
      PROVE  outbox' \in [Messages -> Row(dep.attempts)]
  BY <1>5, <1>d, <1>o, <1>r, RowUpdate
     DEF backoff_ends, claim_expires, requeue_dead_letter, cleanup_published
<1>6. ASSUME UNCHANGED outbox PROVE outbox' \in [Messages -> Row(dep.attempts)]
  BY <1>6, <1>o
<1> QED BY <1>1, <1>2, <1>3, <1>4, <1>5, <1>6, TouchOutbox

\* The copies in the batches.
LEMMA HandType ==
  ASSUME TypeOK, [Next]_vars
  PROVE  hand' \in [Instances -> SUBSET Copy(dep.attempts)]
<1> DEFINE Goal == hand' \in [Instances -> SUBSET Copy(dep.attempts)]
<1>h. hand \in [Instances -> SUBSET Copy(dep.attempts)]
  BY DEF TypeOK
<1>s. ASSUME NEW p \in Instances, NEW b \in SUBSET Copy(dep.attempts),
             hand' = [hand EXCEPT ![p] = b]
      PROVE  Goal
  BY <1>h, <1>s
<1>1. ASSUME NEW p \in Instances, NEW batch \in SUBSET Messages, claim_batch(p, batch)
      PROVE  Goal
  <2>1. ASSUME NEW m \in Messages
        PROVE  [msg |-> m, fence |-> outbox[m].fence + 1,
                attempts |-> outbox[m].attempts, stage |-> "claimed"] \in Copy(dep.attempts)
    <3>1. dep.attempts \in Nat
      BY DepIs DEF TypeOK
    <3>2. outbox[m] \in Row(dep.attempts)
      BY DEF TypeOK
    <3>3. outbox[m].fence + 1 \in Nat /\ outbox[m].attempts \in 0..dep.attempts
      BY <3>1, <3>2, RowIs
    <3> QED BY <3>3 DEF Copy
  <2>2. {[msg |-> m, fence |-> outbox[m].fence + 1, attempts |-> outbox[m].attempts,
          stage |-> "claimed"] : m \in batch} \in SUBSET Copy(dep.attempts)
    BY <2>1
  <2> QED BY <1>1, <1>s, <2>2 DEF claim_batch
<1>2. ASSUME NEW p \in Instances, NEW c \in hand[p], NEW s \in {"sent", "failed"}, Stage(p, c, s)
      PROVE  Goal
  <2>1. c \in Copy(dep.attempts)
    BY <1>h
  <2>2. [c EXCEPT !.stage = s] \in Copy(dep.attempts)
    BY <2>1, StageIs
  <2> QED BY <1>2, <1>h, <1>s, <2>2 DEF Stage
<1>3. ASSUME NEW p \in Instances, NEW c \in hand[p], mark_published(p, c) \/ mark_failed(p, c)
      PROVE  Goal
  BY <1>3, <1>h, <1>s DEF mark_published, mark_failed
<1>4. ASSUME NEW i \in Instances, crash(i) PROVE Goal
  BY <1>4, <1>h, <1>s DEF crash
<1>5. ASSUME UNCHANGED hand PROVE Goal
  BY <1>5, <1>h
<1>6. ASSUME NEW p \in Instances, NEW c \in hand[p], NEW b \in BOOLEAN,
             publish_local(p, c) \/ publish_confirmed(p, c) \/ publish_fails(p, c, b)
      PROVE  Goal
  BY <1>2, <1>6 DEF publish_local, publish_confirmed, publish_fails
<1> QED BY <1>1, <1>3, <1>4, <1>5, <1>6, TouchHand

\* The deliveries of the broker and of the handlers, and the receipts.
LEMMA RabbitType ==
  ASSUME TypeOK, [Next]_vars
  PROVE  broker' \subseteq Letter /\ flights' \subseteq Flight
         /\ inbox' \subseteq Messages /\ retired' \subseteq Messages
<1>b. /\ broker \subseteq Letter /\ flights \subseteq Flight
      /\ inbox \subseteq Messages /\ retired \subseteq Messages
      /\ \A p \in Instances : hand[p] \subseteq Copy(dep.attempts)
  BY DEF TypeOK
<1>1. broker' \subseteq Letter
  BY <1>b, CopyIs, TouchBroker DEF publish_confirmed, publish_fails, consume_permanent_error, ack
<1>2. ASSUME NEW f \in flights, NEW s \in {"received", "inserting", "processed", "done"},
             Advance(f, s)
      PROVE  flights' \subseteq Flight
  <2>1. f \in Flight
    BY <1>b
  <2>2. [f EXCEPT !.stage = s] \in Flight
    BY <2>1, AdvanceIs
  <2> QED BY <1>2, <1>b, <2>2 DEF Advance
<1>3. ASSUME NEW i \in Instances, NEW d \in broker, deliver(i, d) PROVE flights' \subseteq Flight
  <2>1. [delivery |-> d, at |-> i, stage |-> "received", open |-> TRUE] \in Flight
    BY <1>b DEF Flight
  <2> QED BY <1>3, <1>b, <2>1 DEF deliver
<1>4. ASSUME NEW f \in flights,
             consume_lookup(f) \/ consume_commit(f) \/ publish_live(f)
      PROVE  flights' \subseteq Flight
  BY <1>2, <1>4 DEF consume_lookup, consume_commit, publish_live
<1>5. ASSUME NEW f \in flights,
             consume_permanent_error(f) \/ consume_transient_error(f) \/ ack(f)
      PROVE  flights' \subseteq Flight
  BY <1>5, <1>b DEF consume_permanent_error, consume_transient_error, ack
<1>6. ASSUME NEW i \in Instances, connection_lost(i) \/ crash(i) PROVE flights' \subseteq Flight
  <2>1. ASSUME NEW f \in flights
        PROVE  (IF f.at = i THEN [f EXCEPT !.open = FALSE] ELSE f) \in Flight
    BY <1>b, AdvanceIs
  <2>2. CASE connection_lost(i)
    BY <2>1, <2>2 DEF connection_lost
  <2>3. CASE crash(i)
    BY <1>b, <2>3 DEF crash
  <2> QED BY <1>6, <2>2, <2>3
<1>7. flights' \subseteq Flight
  BY <1>b, <1>3, <1>4, <1>5, <1>6, TouchFlights
<1>8. inbox' \subseteq Messages /\ retired' \subseteq Messages
  BY <1>b, AdvanceIs, TouchInbox DEF consume_commit, cleanup_inbox, MsgOf
<1> QED BY <1>1, <1>7, <1>8

\* The fan-outs, the socket and the page.
LEMMA PageType ==
  ASSUME TypeOK, SeenHasLast, [Next]_vars
  PROVE  /\ pushed' \in [Messages -> [Instances -> Nat]]
         /\ client' \in PageState /\ socket' \in Socket /\ lossy' \subseteq Nat
<1>t. /\ pushed \in [Messages -> [Instances -> Nat]]
      /\ client \in PageState /\ socket \in Socket /\ lossy \subseteq Nat
  BY DEF TypeOK
<1>s. /\ socket.cursor \in Nat /\ socket.upto \in Nat /\ socket.queue \in Seq(Nat)
      /\ client.seen \subseteq Nat
  BY <1>t DEF Socket, PageState
<1>n. NoSocket \in Socket
  BY DEF NoSocket, Socket
<1>1. ASSUME NEW p \in Instances, NEW c \in hand[p], publish_local(p, c)
      PROVE  /\ pushed' \in [Messages -> [Instances -> Nat]]
             /\ socket' \in Socket /\ lossy' \subseteq Nat
  <2>1. c.msg \in Messages
    BY CopyIs DEF TypeOK
  <2> QED BY <1>1, <2>1, FanOutType DEF publish_local
<1>2. ASSUME NEW f \in flights, publish_live(f)
      PROVE  /\ pushed' \in [Messages -> [Instances -> Nat]]
             /\ socket' \in Socket /\ lossy' \subseteq Nat
  <2>1. f.delivery.msg \in Messages /\ f.at \in Instances
    BY AdvanceIs DEF TypeOK
  <2> QED BY <1>2, <2>1, FanOutType DEF publish_live, MsgOf
<1>3. pushed' \in [Messages -> [Instances -> Nat]]
  BY <1>t, <1>1, <1>2, TouchPushed
<1>4. ASSUME NEW ns \in SUBSET Nat, NEW next, Show(ns, next), next \in Socket
      PROVE  client' \in PageState /\ socket' \in Socket
  <2>1. (\E n \in ns : Terminal(n)) \in BOOLEAN
    OBVIOUS
  <2>2. client.seen \cup ns \in SUBSET Nat
    BY <1>s
  <2>3. client' \in PageState
    BY <1>4, <2>1, <2>2 DEF Show, PageState
  <2> QED BY <1>4, <1>n, <2>3 DEF Show
<1>5. ASSUME send_backlog PROVE client' \in PageState /\ socket' \in Socket
  <2> DEFINE next == [socket EXCEPT !.phase = "streaming", !.upto = 0,
                        !.cursor = IF socket.upto > @ THEN socket.upto ELSE @]
  <2>1. next \in Socket
    BY <1>t, <1>s DEF Socket
  <2>2. (socket.cursor + 1)..socket.upto \in SUBSET Nat
    BY <1>s
  <2>3. Show((socket.cursor + 1)..socket.upto, next)
    BY <1>5 DEF send_backlog
  <2> HIDE DEF next
  <2> QED BY <1>4, <2>1, <2>2, <2>3
<1>6. ASSUME stream_live_event PROVE client' \in PageState /\ socket' \in Socket
  <2>1. Tail(socket.queue) \in Seq(Nat) /\ Head(socket.queue) \in Nat
    BY <1>6, <1>s, TailIs DEF stream_live_event
  <2> DEFINE next == [socket EXCEPT !.queue = Tail(@), !.cursor = Head(socket.queue)]
  <2>2. next \in Socket /\ [socket EXCEPT !.queue = Tail(@)] \in Socket
    BY <1>t, <2>1 DEF Socket
  <2>3. \/ Show({Head(socket.queue)}, next)
        \/ socket' = [socket EXCEPT !.queue = Tail(@)] /\ UNCHANGED client
    BY <1>6 DEF stream_live_event, Forward
  <2>4. {Head(socket.queue)} \in SUBSET Nat
    BY <2>1
  <2> HIDE DEF next
  <2> QED BY <1>t, <1>4, <2>2, <2>3, <2>4
<1>7. client' \in PageState
  BY <1>t, <1>5, <1>6, TouchPage
<1>8. ASSUME NEW i \in Instances, open_socket(i) PROVE socket' \in Socket /\ lossy' \subseteq Nat
  BY <1>8, <1>t, <1>n, MaxSeenType DEF open_socket, Socket
<1>9. ASSUME read_backlog PROVE socket' \in Socket
  <2>1. last[ClientTask] \in Nat
    BY DeliveryAssumption DEF TypeOK
  <2> QED BY <1>9, <1>t, <2>1 DEF read_backlog, Socket
<1>10. ASSUME NEW i \in Instances, crash(i) PROVE socket' \in Socket
  BY <1>10, <1>t, <1>n DEF crash
<1>11. ASSUME disconnect PROVE socket' \in Socket
  BY <1>11, <1>n DEF disconnect
<1>12. socket' \in Socket /\ lossy' \subseteq Nat
  BY <1>t, <1>1, <1>2, <1>5, <1>6, <1>8, <1>9, <1>10, <1>11, TouchSocket
     DEF crash, read_backlog, send_backlog, stream_live_event, disconnect
<1> QED BY <1>3, <1>7, <1>12

\* The deployment is fixed; the sequence numbers and the counters stay in bounds.
LEMMA CounterType ==
  ASSUME TypeOK, [Next]_vars
  PROVE  /\ dep' = dep
         /\ last' \in [Tasks -> Nat] /\ \A t \in Tasks : last'[t] <= LastSeq[t]
         /\ faults' \in 0..dep.faults /\ requeues' \in 0..MaxRequeues
         /\ opens' \in 0..dep.opens
<1> DEFINE Goal ==
      /\ dep' = dep
      /\ last' \in [Tasks -> Nat] /\ \A t \in Tasks : last'[t] <= LastSeq[t]
      /\ faults' \in 0..dep.faults /\ requeues' \in 0..MaxRequeues
      /\ opens' \in 0..dep.opens
<1>d. /\ dep.faults \in Nat /\ dep.opens \in Nat /\ MaxRequeues \in Nat
      /\ LastSeq \in [Tasks -> Nat]
  BY DepIs, DeliveryAssumption DEF TypeOK
<1>t. /\ last \in [Tasks -> Nat] /\ \A t \in Tasks : last[t] <= LastSeq[t]
      /\ faults \in 0..dep.faults /\ requeues \in 0..MaxRequeues
      /\ opens \in 0..dep.opens
  BY DEF TypeOK
<1> USE DEF vars, outside, inside
<1>1. ASSUME NEW t \in Tasks, append_event(t) PROVE Goal
  BY <1>1, <1>d, <1>t DEF append_event
<1>2. ASSUME NEW p \in Instances, NEW batch \in SUBSET Messages, claim_batch(p, batch) PROVE Goal
  BY <1>2, <1>d, <1>t DEF claim_batch
<1>3. ASSUME NEW p \in Instances, NEW c \in hand[p], publish_local(p, c) PROVE Goal
  BY <1>3, <1>d, <1>t DEF publish_local
<1>4. ASSUME NEW p \in Instances, NEW c \in hand[p], publish_confirmed(p, c) PROVE Goal
  BY <1>4, <1>d, <1>t DEF publish_confirmed
<1>5. ASSUME NEW p \in Instances, NEW b \in BOOLEAN, NEW c \in hand[p], publish_fails(p, c, b) PROVE Goal
  BY <1>5, <1>d, <1>t DEF publish_fails
<1>6. ASSUME NEW p \in Instances, NEW c \in hand[p], mark_published(p, c) PROVE Goal
  BY <1>6, <1>d, <1>t DEF mark_published
<1>7. ASSUME NEW p \in Instances, NEW c \in hand[p], mark_failed(p, c) PROVE Goal
  BY <1>7, <1>d, <1>t DEF mark_failed
<1>8. ASSUME NEW m \in Messages, backoff_ends(m) PROVE Goal
  BY <1>8, <1>d, <1>t DEF backoff_ends
<1>9. ASSUME NEW m \in Messages, claim_expires(m) PROVE Goal
  BY <1>9, <1>d, <1>t DEF claim_expires
<1>10. ASSUME NEW m \in Messages, requeue_dead_letter(m) PROVE Goal
  BY <1>10, <1>d, <1>t DEF requeue_dead_letter
<1>11. ASSUME NEW m \in Messages, cleanup_published(m) PROVE Goal
  BY <1>11, <1>d, <1>t DEF cleanup_published
<1>12. ASSUME NEW i \in Instances, NEW d \in broker, deliver(i, d) PROVE Goal
  BY <1>12, <1>d, <1>t DEF deliver
<1>13. ASSUME NEW f \in flights, consume_lookup(f) PROVE Goal
  BY <1>13, <1>d, <1>t DEF consume_lookup
<1>14. ASSUME NEW f \in flights, consume_commit(f) PROVE Goal
  BY <1>14, <1>d, <1>t DEF consume_commit
<1>15. ASSUME NEW f \in flights, consume_permanent_error(f) PROVE Goal
  BY <1>15, <1>d, <1>t DEF consume_permanent_error
<1>16. ASSUME NEW f \in flights, consume_transient_error(f) PROVE Goal
  BY <1>16, <1>d, <1>t DEF consume_transient_error
<1>17. ASSUME NEW f \in flights, publish_live(f) PROVE Goal
  BY <1>17, <1>d, <1>t DEF publish_live
<1>18. ASSUME NEW f \in flights, ack(f) PROVE Goal
  BY <1>18, <1>d, <1>t DEF ack
<1>19. ASSUME NEW i \in Instances, connection_lost(i) PROVE Goal
  BY <1>19, <1>d, <1>t DEF connection_lost
<1>20. ASSUME NEW m \in Messages, cleanup_inbox(m) PROVE Goal
  BY <1>20, <1>d, <1>t DEF cleanup_inbox
<1>21. ASSUME NEW i \in Instances, crash(i) PROVE Goal
  BY <1>21, <1>d, <1>t DEF crash
<1>22. ASSUME NEW i \in Instances, open_socket(i) PROVE Goal
  BY <1>22, <1>d, <1>t DEF open_socket
<1>23. ASSUME read_backlog PROVE Goal
  BY <1>23, <1>d, <1>t DEF read_backlog
<1>24. ASSUME send_backlog PROVE Goal
  BY <1>24, <1>d, <1>t DEF send_backlog
<1>25. ASSUME stream_live_event PROVE Goal
  BY <1>25, <1>d, <1>t DEF stream_live_event
<1>26. ASSUME disconnect PROVE Goal
  BY <1>26, <1>d, <1>t DEF disconnect
<1>27. ASSUME UNCHANGED vars PROVE Goal
  BY <1>27, <1>d, <1>t
<1> QED BY <1>1, <1>2, <1>3, <1>4, <1>5, <1>6, <1>7, <1>8, <1>9, <1>10, <1>11, <1>12,
       <1>13, <1>14, <1>15, <1>16, <1>17, <1>18, <1>19, <1>20, <1>21, <1>22, <1>23,
       <1>24, <1>25, <1>26, <1>27
   DEF Next, Publish, Consume, Time, Fault, Operate, Page

\* Together: every action keeps the types.
LEMMA NextTypeOK == TypeOK /\ AttemptLeft /\ SeenHasLast /\ [Next]_vars => TypeOK'
  BY OutboxType, HandType, RabbitType, PageType, CounterType DEF TypeOK
-----------------------------------------------------------------------------
(* What a step may do to a row, a batch and a delivery.                    *)

\* Finished or claimed: what ClaimedInOrder is about.
Taken(m) == outbox[m].status \in {"published", "deleted"} \/ outbox[m].owner # NoOwner

\* append_event makes the row of the next event and leaves every other alone.
LEMMA AppendStep ==
  ASSUME TypeOK, RowOfEvent, NEW t \in Tasks, append_event(t), NEW m \in Messages
  PROVE  \/ /\ m[1] = t /\ m[2] = last[t] + 1 /\ last'[t] = m[2]
            /\ outbox[m].status = "absent" /\ outbox'[m] = NewRow
         \/ /\ outbox'[m] = outbox[m]
            /\ last'[m[1]] < m[2] <=> last[m[1]] < m[2]
<1>m. m[1] \in Tasks /\ m[2] \in Nat /\ m = <<m[1], m[2]>>
  BY MessageIs, DeliveryAssumption
<1>t. /\ last \in [Tasks -> Nat] /\ last[t] \in Nat /\ outbox \in [Messages -> Row(dep.attempts)]
  BY DEF TypeOK
<1>1. CASE m = <<t, last[t] + 1>>
  <2>1. m[1] = t /\ m[2] = last[t] + 1 /\ last'[t] = m[2]
    BY <1>1, <1>t DEF append_event
  <2>2. outbox[m].status = "absent"
    BY <1>t, <2>1 DEF RowOfEvent
  <2> QED BY <1>1, <1>t, <2>1, <2>2 DEF append_event
<1>2. CASE m # <<t, last[t] + 1>>
  <2>1. m[1] # t \/ m[2] # last[t] + 1
    BY <1>2, <1>m
  <2>2. last'[m[1]] < m[2] <=> last[m[1]] < m[2]
    BY <1>m, <1>t, <2>1 DEF append_event
  <2> QED BY <1>2, <1>t, <2>2 DEF append_event
<1> QED BY <1>1, <1>2

\* One row of the step: either it is left alone, or one of the eight ways to
\* change it applies.
LEMMA RowCases ==
  ASSUME TypeOK, [Next]_vars, NEW m \in Messages
  PROVE  \/ outbox'[m] = outbox[m]
         \/ \E t \in Tasks : append_event(t)
         \/ \E p \in Instances : m \in Claimable /\ outbox'[m] = Claimed(outbox[m], p)
         \/ \E p \in Instances : \E c \in hand[p] :
               /\ mark_published(p, c) /\ c.msg = m /\ HoldsClaim(p, c)
               /\ outbox'[m] = Published(outbox[m])
         \/ \E p \in Instances : \E c \in hand[p] :
               /\ mark_failed(p, c) /\ c.msg = m /\ HoldsClaim(p, c)
               /\ outbox'[m] = Failed(outbox[m], c.attempts + 1)
         \/ outbox'[m] = [outbox[m] EXCEPT !.waiting = FALSE]
         \/ outbox'[m] = [outbox[m] EXCEPT !.live = FALSE]
         \/ outbox[m].status = "dead" /\ outbox'[m] = Requeued(outbox[m])
         \/ outbox[m].status = "published" /\ outbox'[m] = [outbox[m] EXCEPT !.status = "deleted"]
<1>o. outbox \in [Messages -> Row(dep.attempts)]
  BY DEF TypeOK
<1> USE <1>o
<1>1. ASSUME NEW p \in Instances, NEW batch \in SUBSET Messages, claim_batch(p, batch)
      PROVE  \/ outbox'[m] = outbox[m]
             \/ m \in Claimable /\ outbox'[m] = Claimed(outbox[m], p)
  BY <1>1 DEF claim_batch
<1>2. ASSUME NEW p \in Instances, NEW c \in hand[p], mark_published(p, c)
      PROVE  \/ outbox'[m] = outbox[m]
             \/ /\ c.msg = m /\ HoldsClaim(p, c)
                /\ outbox'[m] = Published(outbox[m])
  BY <1>2 DEF mark_published
<1>3. ASSUME NEW p \in Instances, NEW c \in hand[p], mark_failed(p, c)
      PROVE  \/ outbox'[m] = outbox[m]
             \/ /\ c.msg = m /\ HoldsClaim(p, c)
                /\ outbox'[m] = Failed(outbox[m], c.attempts + 1)
  BY <1>3 DEF mark_failed
<1>4. ASSUME NEW n \in Messages, backoff_ends(n)
      PROVE  \/ outbox'[m] = outbox[m]
             \/ outbox'[m] = [outbox[m] EXCEPT !.waiting = FALSE]
  BY <1>4 DEF backoff_ends
<1>5. ASSUME NEW n \in Messages, claim_expires(n)
      PROVE  \/ outbox'[m] = outbox[m]
             \/ outbox'[m] = [outbox[m] EXCEPT !.live = FALSE]
  BY <1>5 DEF claim_expires
<1>6. ASSUME NEW n \in Messages, requeue_dead_letter(n)
      PROVE  \/ outbox'[m] = outbox[m]
             \/ outbox[m].status = "dead" /\ outbox'[m] = Requeued(outbox[m])
  BY <1>6 DEF requeue_dead_letter
<1>7. ASSUME NEW n \in Messages, cleanup_published(n)
      PROVE  \/ outbox'[m] = outbox[m]
             \/ /\ outbox[m].status = "published"
                /\ outbox'[m] = [outbox[m] EXCEPT !.status = "deleted"]
  BY <1>7 DEF cleanup_published
<1>8. ASSUME UNCHANGED outbox PROVE outbox'[m] = outbox[m]
  BY <1>8
<1> QED BY <1>1, <1>2, <1>3, <1>4, <1>5, <1>6, <1>7, <1>8, TouchOutbox

\* What no step does to a row: unmake it, undo its deletion, take the last
\* attempt of a row that still waits, finish or claim one that was not
\* claimable, make one wait again without saying so.
LEMMA RowStep ==
  ASSUME TypeOK, RowOfEvent, AttemptLeft, [Next]_vars, NEW m \in Messages
  PROVE  /\ outbox'[m].status = "absent" <=> last'[m[1]] < m[2]
         /\ outbox'[m].status = "absent" => outbox'[m].owner = NoOwner
         /\ outbox[m].status # "absent" => outbox'[m].status # "absent"
         /\ outbox[m].status = "deleted" => outbox'[m].status = "deleted"
         /\ outbox'[m].status = "deleted" => outbox[m].status \in {"deleted", "published"}
         /\ outbox'[m].status = "pending" => outbox'[m].attempts < dep.attempts
         /\ Taken(m)' => Taken(m) \/ m \in Claimable
         /\ outbox'[m].status = "pending" =>
              \/ outbox[m].status = "pending"
              \/ outbox'[m].requeued
              \/ outbox[m].status = "absent" /\ last'[m[1]] = m[2]
         /\ outbox[m].status # "absent" /\ outbox[m].requeued => outbox'[m].requeued
         /\ outbox'[m].status = "published" =>
              \/ outbox[m].status = "published"
              \/ \E p \in Instances : \E c \in hand[p] :
                    mark_published(p, c) /\ c.msg = m /\ outbox[m].status = "pending"
<1>d. dep.attempts \in Nat \ {0}
  BY DepIs DEF TypeOK
<1>o. outbox[m] \in Row(dep.attempts)
  BY DEF TypeOK
<1>i. /\ outbox[m].status = "absent" <=> last[m[1]] < m[2]
      /\ outbox[m].status = "absent" => outbox[m].owner = NoOwner
      /\ outbox[m].status = "pending" => outbox[m].attempts < dep.attempts
  BY DEF RowOfEvent, AttemptLeft
<1>1. CASE \E t \in Tasks : append_event(t)
  <2>1. PICK t \in Tasks : append_event(t)
    BY <1>1
  <2>2. CASE /\ m[1] = t /\ m[2] = last[t] + 1 /\ last'[t] = m[2]
             /\ outbox[m].status = "absent" /\ outbox'[m] = NewRow
    <3>1. m[2] \in Nat
      BY MessageIs, DeliveryAssumption
    <3> QED BY <1>d, <1>o, <2>2, <3>1, RowFields DEF Taken
  <2>3. CASE /\ outbox'[m] = outbox[m]
             /\ last'[m[1]] < m[2] <=> last[m[1]] < m[2]
    BY <1>i, <2>3 DEF Taken
  <2> QED BY <2>1, <2>2, <2>3, AppendStep
<1>2. CASE UNCHANGED last
  <2>1. CASE outbox'[m] = outbox[m]
    BY <1>2, <1>i, <2>1 DEF Taken
  <2>2. CASE \E p \in Instances : m \in Claimable /\ outbox'[m] = Claimed(outbox[m], p)
    BY <1>2, <1>d, <1>o, <1>i, <2>2, RowFields DEF Taken, Claimable
  <2>3. CASE \E p \in Instances : \E c \in hand[p] :
               /\ mark_published(p, c) /\ c.msg = m /\ HoldsClaim(p, c)
               /\ outbox'[m] = Published(outbox[m])
    <3>0. PICK p \in Instances : \E c \in hand[p] :
               /\ mark_published(p, c) /\ c.msg = m /\ HoldsClaim(p, c)
               /\ outbox'[m] = Published(outbox[m])
      BY <2>3
    <3>1. PICK c \in hand[p] :
               /\ mark_published(p, c) /\ c.msg = m /\ HoldsClaim(p, c)
               /\ outbox'[m] = Published(outbox[m])
      BY <3>0
    <3>2. outbox[m].status = "pending" /\ outbox[m].owner # NoOwner
      BY <3>1, DeliveryAssumption DEF HoldsClaim
    <3> QED BY <1>2, <1>d, <1>o, <1>i, <3>1, <3>2, RowFields DEF Taken
  <2>4. CASE \E p \in Instances : \E c \in hand[p] :
               /\ mark_failed(p, c) /\ c.msg = m /\ HoldsClaim(p, c)
               /\ outbox'[m] = Failed(outbox[m], c.attempts + 1)
    <3>0. PICK p \in Instances : \E c \in hand[p] :
               /\ c.msg = m /\ HoldsClaim(p, c)
               /\ outbox'[m] = Failed(outbox[m], c.attempts + 1)
      BY <2>4
    <3>1. PICK c \in hand[p] :
               /\ c.msg = m /\ HoldsClaim(p, c)
               /\ outbox'[m] = Failed(outbox[m], c.attempts + 1)
      BY <3>0
    <3>2. outbox[m].status = "pending"
      BY <3>1 DEF HoldsClaim
    <3>3. c.attempts + 1 \in 0..dep.attempts
      BY <1>d, CopyIs DEF TypeOK, AttemptLeft
    <3>4. LET f == Failed(outbox[m], c.attempts + 1) IN
            /\ f.status = IF c.attempts + 1 >= dep.attempts THEN "dead" ELSE outbox[m].status
            /\ f.attempts = c.attempts + 1 /\ f.owner = NoOwner /\ f.requeued = outbox[m].requeued
      BY <1>d, <1>o, <3>3, RowFields
    <3> QED BY <1>2, <1>d, <1>i, <3>1, <3>2, <3>3, <3>4 DEF Taken
  <2>5. CASE \/ outbox'[m] = [outbox[m] EXCEPT !.waiting = FALSE]
             \/ outbox'[m] = [outbox[m] EXCEPT !.live = FALSE]
    BY <1>2, <1>o, <1>i, <2>5 DEF Taken, Row
  <2>6. CASE outbox[m].status = "dead" /\ outbox'[m] = Requeued(outbox[m])
    BY <1>2, <1>d, <1>o, <1>i, <2>6, RowFields DEF Taken
  <2>7. CASE /\ outbox[m].status = "published"
             /\ outbox'[m] = [outbox[m] EXCEPT !.status = "deleted"]
    BY <1>2, <1>o, <1>i, <2>7 DEF Taken, Row
  <2> QED BY <1>1, <2>1, <2>2, <2>3, <2>4, <2>5, <2>6, <2>7, RowCases
<1> QED BY <1>1, <1>2, TouchLast

\* A copy in hand is an old one, or one of a row just claimed; it is sent when
\* the broker has it.
LEMMA HandStep ==
  ASSUME TypeOK, [Next]_vars, NEW p \in Instances, NEW c \in hand'[p]
  PROVE  \/ \E b \in hand[p] :
              /\ c.msg = b.msg /\ c.attempts = b.attempts
              /\ c.stage = "sent" =>
                   \/ b.stage = "sent" \/ dep.transport = "local"
                   \/ \E d \in broker' : d.msg = c.msg
         \/ /\ c.msg \in Claimable /\ c.stage = "claimed"
            /\ c.attempts = outbox[c.msg].attempts
<1> DEFINE Goal ==
      \/ \E b \in hand[p] :
            /\ c.msg = b.msg /\ c.attempts = b.attempts
            /\ c.stage = "sent" =>
                 \/ b.stage = "sent" \/ dep.transport = "local"
                 \/ \E d \in broker' : d.msg = c.msg
      \/ /\ c.msg \in Claimable /\ c.stage = "claimed"
         /\ c.attempts = outbox[c.msg].attempts
<1>h. hand \in [Instances -> SUBSET Copy(dep.attempts)]
  BY DEF TypeOK
<1>0. ASSUME c \in hand[p] PROVE Goal
  BY <1>0
<1>s. ASSUME NEW q \in Instances, NEW b \in hand[q], NEW s \in {"sent", "failed"}, Stage(q, b, s),
             s = "sent" => dep.transport = "local" \/ \E d \in broker' : d.msg = b.msg
      PROVE  Goal
  <2>1. b \in Copy(dep.attempts)
    BY <1>h
  <2>2. LET d == [b EXCEPT !.stage = s] IN d.msg = b.msg /\ d.attempts = b.attempts /\ d.stage = s
    BY <2>1, StageIs
  <2>3. c \in hand[p] \/ (p = q /\ c = [b EXCEPT !.stage = s])
    BY <1>h, <1>s DEF Stage
  <2> QED BY <1>0, <1>s, <2>2, <2>3
<1>1. ASSUME NEW q \in Instances, NEW batch \in SUBSET Messages, claim_batch(q, batch) PROVE Goal
  <2>1. CASE p # q
    BY <1>0, <1>1, <1>h, <2>1 DEF claim_batch
  <2>2. CASE p = q
    <3>1. PICK m \in batch : c = [msg |-> m, fence |-> outbox[m].fence + 1,
                                 attempts |-> outbox[m].attempts, stage |-> "claimed"]
      BY <1>1, <1>h, <2>2 DEF claim_batch
    <3> QED BY <1>1, <3>1 DEF claim_batch
  <2> QED BY <2>1, <2>2
<1>2. ASSUME NEW q \in Instances, NEW b \in hand[q], publish_local(q, b) PROVE Goal
  BY <1>2, <1>s DEF publish_local
<1>3. ASSUME NEW q \in Instances, NEW b \in hand[q], publish_confirmed(q, b) PROVE Goal
  <2>1. Envelope(b).msg = b.msg
    BY <1>h, CopyIs
  <2>2. \E d \in broker' : d.msg = b.msg
    BY <1>3, <2>1 DEF publish_confirmed
  <2> QED BY <1>3, <1>s, <2>2 DEF publish_confirmed
<1>4. ASSUME NEW q \in Instances, NEW b \in hand[q], NEW a \in BOOLEAN, publish_fails(q, b, a)
      PROVE  Goal
  BY <1>4, <1>s DEF publish_fails
<1>5. ASSUME NEW q \in Instances, NEW b \in hand[q], mark_published(q, b) \/ mark_failed(q, b)
      PROVE  Goal
  BY <1>0, <1>5, <1>h DEF mark_published, mark_failed
<1>6. ASSUME NEW i \in Instances, crash(i) PROVE Goal
  BY <1>0, <1>6, <1>h DEF crash
<1>7. ASSUME UNCHANGED hand PROVE Goal
  BY <1>0, <1>7
<1> QED BY <1>1, <1>2, <1>3, <1>4, <1>5, <1>6, <1>7, TouchHand

\* A delivery is an old one, or that of a copy in hand.
LEMMA BrokerStep ==
  ASSUME TypeOK, [Next]_vars, NEW d \in broker'
  PROVE  d \in broker \/ \E p \in Instances : \E c \in hand[p] : d.msg = c.msg
<1>h. hand \in [Instances -> SUBSET Copy(dep.attempts)]
  BY DEF TypeOK
<1>1. ASSUME NEW p \in Instances, NEW c \in hand[p] PROVE Envelope(c).msg = c.msg
  BY <1>h, CopyIs
<1> QED BY <1>1, TouchBroker DEF publish_confirmed, publish_fails, consume_permanent_error, ack

\* A handler is an old one, perhaps at another stage, or that of a delivery.
LEMMA FlightStep ==
  ASSUME TypeOK, [Next]_vars, NEW g \in flights'
  PROVE  \/ \E f \in flights : g.delivery = f.delivery
         \/ g.delivery \in broker
<1>f. flights \subseteq Flight
  BY DEF TypeOK
<1>1. ASSUME NEW f \in flights, NEW s \in {"received", "inserting", "processed", "done"},
             Advance(f, s)
      PROVE  \E h \in flights : g.delivery = h.delivery
  <2>1. [f EXCEPT !.stage = s].delivery = f.delivery
    BY <1>f, AdvanceIs
  <2> QED BY <1>1, <2>1 DEF Advance
<1>2. ASSUME NEW i \in Instances, NEW d \in broker, deliver(i, d)
      PROVE  g \in flights \/ g.delivery \in broker
  BY <1>2 DEF deliver
<1>3. ASSUME NEW f \in flights, consume_lookup(f) \/ consume_commit(f) \/ publish_live(f)
      PROVE  \E h \in flights : g.delivery = h.delivery
  BY <1>1, <1>3 DEF consume_lookup, consume_commit, publish_live
<1>4. ASSUME NEW f \in flights,
             consume_permanent_error(f) \/ consume_transient_error(f) \/ ack(f)
      PROVE  g \in flights
  BY <1>4 DEF consume_permanent_error, consume_transient_error, ack
<1>5. ASSUME NEW i \in Instances, connection_lost(i)
      PROVE  \E h \in flights : g.delivery = h.delivery
  <2>1. PICK h \in flights : g = IF h.at = i THEN [h EXCEPT !.open = FALSE] ELSE h
    BY <1>5 DEF connection_lost
  <2>2. [h EXCEPT !.open = FALSE].delivery = h.delivery
    BY <1>f, AdvanceIs
  <2> QED BY <2>1, <2>2
<1>6. ASSUME NEW i \in Instances, crash(i) PROVE g \in flights
  BY <1>6 DEF crash
<1> QED BY <1>2, <1>3, <1>4, <1>5, <1>6, TouchFlights

\* Only what a publisher has in hand or a handler works on is pushed.
LEMMA PushStep ==
  ASSUME TypeOK, [Next]_vars, NEW m \in Messages, NEW i \in Instances
  PROVE  \/ pushed'[m][i] = pushed[m][i]
         \/ \E p \in Instances : \E c \in hand[p] : c.msg = m
         \/ \E f \in flights : f.delivery.msg = m
<1>1. ASSUME NEW j \in Instances, NEW n \in Messages, FanOut(j, n)
      PROVE  pushed'[m][i] = pushed[m][i] \/ m = n
  BY <1>1 DEF FanOut, TypeOK
<1>2. ASSUME NEW p \in Instances, NEW c \in hand[p] PROVE c.msg \in Messages
  BY CopyIs DEF TypeOK
<1>3. ASSUME NEW f \in flights PROVE f.delivery.msg \in Messages /\ f.at \in Instances
  BY AdvanceIs DEF TypeOK
<1> QED BY <1>1, <1>2, <1>3, TouchPushed DEF publish_local, publish_live, MsgOf
-----------------------------------------------------------------------------
(* The parts of the invariant, one by one.                                 *)

\* append_event writes the event and its row together.
LEMMA NextRowOfEvent ==
  TypeOK /\ RowOfEvent /\ AttemptLeft /\ [Next]_vars => RowOfEvent'
<1> SUFFICES ASSUME TypeOK, RowOfEvent, AttemptLeft, [Next]_vars, NEW m \in Messages
             PROVE  /\ outbox'[m].status = "absent" <=> last'[m[1]] < m[2]
                    /\ outbox'[m].status = "absent" => outbox'[m].owner = NoOwner
  BY DEF RowOfEvent
<1> QED BY RowStep

\* A row without an attempt left is a dead letter, and is requeued with all.
LEMMA NextAttemptLeft ==
  TypeOK /\ RowOfEvent /\ AttemptLeft /\ [Next]_vars => AttemptLeft'
<1> SUFFICES ASSUME TypeOK, RowOfEvent, AttemptLeft, [Next]_vars PROVE AttemptLeft'
  OBVIOUS
<1>1. dep' = dep
  BY CounterType
<1>2. ASSUME NEW m \in Messages, outbox'[m].status = "pending"
      PROVE  outbox'[m].attempts < dep.attempts
  BY <1>2, RowStep
<1>3. ASSUME NEW p \in Instances, NEW c \in hand'[p] PROVE c.attempts < dep.attempts
  <2>1. \A m \in Claimable : outbox[m].attempts < dep.attempts
    BY DEF Claimable, AttemptLeft
  <2> QED BY <2>1, HandStep DEF AttemptLeft
<1> QED BY <1>1, <1>2, <1>3 DEF AttemptLeft

\* Copies, deliveries and handlers are of rows that are there, and rows stay.
LEMMA NextOnlyAppended ==
  TypeOK /\ RowOfEvent /\ AttemptLeft /\ OnlyAppended /\ [Next]_vars => OnlyAppended'
<1> SUFFICES ASSUME TypeOK, RowOfEvent, AttemptLeft, OnlyAppended, [Next]_vars
             PROVE  OnlyAppended'
  OBVIOUS
<1>1. \A m \in Messages : outbox[m].status # "absent" => outbox'[m].status # "absent"
  BY RowStep
<1>2. ASSUME NEW p \in Instances, NEW c \in hand[p]
      PROVE  c.msg \in Messages /\ outbox[c.msg].status # "absent"
  BY CopyIs DEF TypeOK, OnlyAppended
<1>3. ASSUME NEW d \in broker PROVE d.msg \in Messages /\ outbox[d.msg].status # "absent"
  BY DEF TypeOK, Letter, OnlyAppended
<1>4. ASSUME NEW f \in flights
      PROVE  f.delivery.msg \in Messages /\ outbox[f.delivery.msg].status # "absent"
  BY AdvanceIs DEF TypeOK, OnlyAppended
<1>5. \A m \in Claimable : m \in Messages /\ outbox[m].status # "absent"
  BY DEF Claimable
<1>6. \A p \in Instances : \A c \in hand'[p] : outbox'[c.msg].status # "absent"
  BY <1>1, <1>2, <1>5, HandStep
<1>7. \A d \in broker' : outbox'[d.msg].status # "absent"
  BY <1>1, <1>2, <1>3, BrokerStep
<1>8. \A f \in flights' : outbox'[f.delivery.msg].status # "absent"
  BY <1>1, <1>3, <1>4, FlightStep
<1>9. ASSUME NEW m \in Messages, NEW i \in Instances, pushed'[m][i] > 0
      PROVE  outbox'[m].status # "absent"
  BY <1>1, <1>2, <1>4, <1>9, PushStep DEF OnlyAppended
<1> QED BY <1>6, <1>7, <1>8, <1>9 DEF OnlyAppended

\* A row is claimed when no earlier one waits, and only a requeue makes one wait
\* again.
LEMMA NextClaimedInOrder ==
  TypeOK /\ RowOfEvent /\ AttemptLeft /\ ClaimedInOrder /\ [Next]_vars => ClaimedInOrder'
<1> SUFFICES ASSUME TypeOK, RowOfEvent, AttemptLeft, ClaimedInOrder, [Next]_vars,
                    NEW m \in Messages, NEW e \in Earlier(m),
                    Taken(m)', outbox'[e].status = "pending"
             PROVE  outbox'[e].requeued
  BY DEF ClaimedInOrder, Taken, Earlier
<1>1. e \in Messages /\ e[1] = m[1] /\ e[2] < m[2] /\ e[2] \in Nat /\ m[2] \in Nat
  BY MessageIs, DeliveryAssumption DEF Earlier
<1>2. Taken(m) \/ m \in Claimable
  BY RowStep
<1>3. CASE outbox[e].status = "pending"
  <2>1. outbox[e].requeued
    BY <1>2, <1>3 DEF ClaimedInOrder, Taken, Claimable
  <2> QED BY <1>1, <1>3, <2>1, RowStep
<1>4. CASE outbox[e].status = "absent" /\ last'[e[1]] = e[2]
  <2>1. outbox'[m].status = "absent" /\ outbox'[m].owner = NoOwner
    BY <1>1, <1>4, RowStep
  <2> QED BY <2>1 DEF Taken
<1> QED BY <1>1, <1>3, <1>4, RowStep

\* The event stays with the broker until its receipt is there or its row is gone.
LEMMA KeptStep ==
  ASSUME TypeOK, ReceiptBeforePush, [Next]_vars, NEW m \in Messages, Kept(m)
  PROVE  Kept(m)' \/ outbox[m].status = "deleted"
<1>1. inbox \cup retired \subseteq inbox' \cup retired'
  BY TouchInbox DEF consume_commit, cleanup_inbox
<1>2. ASSUME NEW d \in broker, d.msg = m, d \notin broker'
      PROVE  m \in inbox \cup retired \/ outbox[m].status = "deleted"
  <2>1. CASE \E f \in flights : ack(f)
    BY <1>2, <2>1 DEF ack, ReceiptBeforePush
  <2>2. CASE \E f \in flights : consume_permanent_error(f)
    BY <1>2, <2>2 DEF consume_permanent_error, MsgOf
  <2> QED BY <1>2, <2>1, <2>2, TouchBroker DEF publish_confirmed, publish_fails
<1> QED BY <1>1, <1>2 DEF Kept

\* A copy is sent with the confirm of the broker.
LEMMA NextSentIsKept ==
  /\ TypeOK /\ RowOfEvent /\ AttemptLeft /\ ReceiptBeforePush /\ SentIsKept
  /\ [Next]_vars
  => SentIsKept'
<1> SUFFICES ASSUME TypeOK, RowOfEvent, AttemptLeft, ReceiptBeforePush, SentIsKept, [Next]_vars,
                    dep.transport = "rabbitmq", NEW p \in Instances, NEW c \in hand'[p],
                    c.stage = "sent"
             PROVE  Kept(c.msg)' \/ outbox'[c.msg].status = "deleted"
  BY CounterType DEF SentIsKept
<1>1. PICK b \in hand[p] :
        /\ c.msg = b.msg
        /\ b.stage = "sent" \/ \E d \in broker' : d.msg = c.msg
  BY HandStep
<1>2. b.msg \in Messages
  BY CopyIs DEF TypeOK
<1>3. CASE \E d \in broker' : d.msg = c.msg
  BY <1>3 DEF Kept
<1>4. CASE b.stage = "sent"
  <2>1. Kept(b.msg) \/ outbox[b.msg].status = "deleted"
    BY <1>4 DEF SentIsKept
  <2> QED BY <1>1, <1>2, <2>1, KeptStep, RowStep
<1> QED BY <1>1, <1>3, <1>4

\* A row is marked as published for a copy that was sent.
LEMMA NextPublishedIsNotLost ==
  /\ TypeOK /\ RowOfEvent /\ AttemptLeft /\ ReceiptBeforePush /\ SentIsKept
  /\ PublishedIsNotLost /\ [Next]_vars
  => PublishedIsNotLost'
<1> SUFFICES ASSUME TypeOK, RowOfEvent, AttemptLeft, ReceiptBeforePush, SentIsKept,
                    PublishedIsNotLost, [Next]_vars,
                    dep.transport = "rabbitmq", NEW m \in Messages, outbox'[m].status = "published"
             PROVE  Kept(m)'
  BY CounterType DEF PublishedIsNotLost, Kept
<1>1. CASE outbox[m].status = "published"
  BY <1>1, KeptStep DEF PublishedIsNotLost, Kept
<1>2. CASE \E p \in Instances : \E c \in hand[p] :
             mark_published(p, c) /\ c.msg = m /\ outbox[m].status = "pending"
  BY <1>2, KeptStep DEF SentIsKept, mark_published
<1> QED BY <1>1, <1>2, RowStep

\* The fan-out of one instance counts one event.
LEMMA FanOutCounts ==
  ASSUME TypeOK, NEW j \in Instances, NEW n \in Messages, FanOut(j, n)
  PROVE  \A m \in Messages, i \in Instances :
           /\ pushed[m][i] \in Nat
           /\ pushed'[m][i] = IF m = n /\ i = j THEN pushed[m][i] + 1 ELSE pushed[m][i]
  BY DEF FanOut, TypeOK

\* Under RabbitMQ an event is pushed by a handler that has its receipt, once.
LEMMA NextAppliedOnce ==
  TypeOK /\ ReceiptBeforePush /\ AppliedOnce /\ [Next]_vars => AppliedOnce'
<1> SUFFICES ASSUME TypeOK, ReceiptBeforePush, AppliedOnce, [Next]_vars,
                    dep.transport = "rabbitmq", NEW m \in Messages, m \notin retired',
                    NEW i \in Instances, NEW j \in Instances
             PROVE  pushed'[m][i] <= 1 /\ (pushed'[m][i] + pushed'[m][j] > 1 => i = j)
  BY CounterType DEF AppliedOnce
<1>1. m \notin retired
  BY TouchInbox DEF consume_commit, cleanup_inbox
<1>2. pushed[m][i] <= 1 /\ (pushed[m][i] + pushed[m][j] > 1 => i = j)
  BY <1>1 DEF AppliedOnce
<1>3. CASE UNCHANGED pushed
  BY <1>2, <1>3
<1>4. ASSUME NEW f \in flights, publish_live(f)
      PROVE  pushed'[m][i] <= 1 /\ (pushed'[m][i] + pushed'[m][j] > 1 => i = j)
  <2> DEFINE n == f.delivery.msg
  <2>1. n \in Messages /\ f.at \in Instances
    BY AdvanceIs DEF TypeOK
  <2>2. FanOut(f.at, n) /\ f.stage = "processed"
    BY <1>4 DEF publish_live, MsgOf
  <2>3. \A k \in Instances : m = n => ~(pushed[m][k] > 0)
    BY <1>1, <2>2 DEF ReceiptBeforePush
  <2>4. \A k \in Instances :
          /\ pushed[m][k] \in Nat
          /\ pushed'[m][k] = IF m = n /\ k = f.at THEN pushed[m][k] + 1 ELSE pushed[m][k]
    BY <2>1, <2>2, FanOutCounts
  <2>5. CASE m = n
    <3>1. pushed[m][i] = 0 /\ pushed[m][j] = 0
      BY <2>3, <2>4, <2>5
    <3> QED BY <2>4, <3>1
  <2>6. CASE m # n
    BY <1>2, <2>4, <2>6
  <2> QED BY <2>5, <2>6
<1> QED BY <1>3, <1>4, TouchPushed DEF publish_local

\* One handler between receipt and push, and none after the push.
LEMMA NextReceiptBeforePush ==
  TypeOK /\ ReceiptBeforePush /\ [Next]_vars => ReceiptBeforePush'
<1> SUFFICES ASSUME TypeOK, ReceiptBeforePush, [Next]_vars PROVE ReceiptBeforePush'
  OBVIOUS
<1>f. flights \subseteq Flight
  BY DEF TypeOK
<1>r. /\ inbox \cup retired \subseteq inbox' \cup retired' /\ retired \subseteq retired'
      /\ dep' = dep
  BY TouchInbox, CounterType DEF consume_commit, cleanup_inbox
<1>n. \A m \in inbox : m \notin retired' => m \in inbox'
  BY <1>r
\* Handlers that went on have a receipt.
<1>1. ASSUME NEW g \in flights', g.stage \in {"processed", "done"}
      PROVE  g.delivery.msg \in inbox' \cup retired'
  <2>0. ASSUME NEW f \in flights, g.delivery = f.delivery, g.stage = f.stage
        PROVE  g.delivery.msg \in inbox' \cup retired'
    BY <1>1, <1>r, <2>0 DEF ReceiptBeforePush
  <2>1. ASSUME NEW f \in flights, NEW s \in {"received", "inserting", "processed", "done"},
               Advance(f, s), s \in {"processed", "done"} => f.delivery.msg \in inbox' \cup retired'
        PROVE  g.delivery.msg \in inbox' \cup retired'
    <3>1. [f EXCEPT !.stage = s].delivery = f.delivery /\ [f EXCEPT !.stage = s].stage = s
      BY <1>f, AdvanceIs
    <3> QED BY <1>1, <2>0, <2>1, <3>1 DEF Advance
  <2>2. ASSUME NEW i \in Instances, NEW d \in broker, deliver(i, d)
        PROVE  g.delivery.msg \in inbox' \cup retired'
    BY <1>1, <2>0, <2>2 DEF deliver
  <2>3. ASSUME NEW f \in flights, consume_lookup(f) PROVE g.delivery.msg \in inbox' \cup retired'
    BY <1>r, <2>1, <2>3 DEF consume_lookup, HasReceipt, MsgOf
  <2>4. ASSUME NEW f \in flights, consume_commit(f) PROVE g.delivery.msg \in inbox' \cup retired'
    BY <2>1, <2>4 DEF consume_commit, MsgOf
  <2>5. ASSUME NEW f \in flights, publish_live(f) PROVE g.delivery.msg \in inbox' \cup retired'
    BY <1>r, <2>1, <2>5 DEF publish_live, ReceiptBeforePush
  <2>6. ASSUME NEW f \in flights,
               consume_permanent_error(f) \/ consume_transient_error(f) \/ ack(f)
        PROVE  g.delivery.msg \in inbox' \cup retired'
    BY <2>0, <2>6 DEF consume_permanent_error, consume_transient_error, ack
  <2>7. ASSUME NEW i \in Instances, connection_lost(i) PROVE g.delivery.msg \in inbox' \cup retired'
    <3>1. PICK h \in flights : g = IF h.at = i THEN [h EXCEPT !.open = FALSE] ELSE h
      BY <2>7 DEF connection_lost
    <3>2. [h EXCEPT !.open = FALSE].delivery = h.delivery /\ [h EXCEPT !.open = FALSE].stage = h.stage
      BY <1>f, AdvanceIs
    <3> QED BY <2>0, <3>1, <3>2
  <2>8. ASSUME NEW i \in Instances, crash(i) PROVE g.delivery.msg \in inbox' \cup retired'
    BY <2>0, <2>8 DEF crash
  <2> QED BY <2>0, <2>2, <2>3, <2>4, <2>5, <2>6, <2>7, <2>8, TouchFlights
\* Every step but connection_lost adds one handler at most, and it is between
\* receipt and push only when there was no receipt.
<1>2. ASSUME \A i \in Instances : ~connection_lost(i)
      PROVE  \E x : /\ flights' \subseteq flights \cup {x}
                    /\ x.stage = "processed" => x.delivery.msg \notin inbox
  <2> DEFINE One(x) == /\ flights' \subseteq flights \cup {x}
                       /\ x.stage = "processed" => x.delivery.msg \notin inbox
  <2>1. ASSUME NEW f \in flights, NEW s \in {"received", "inserting", "processed", "done"},
               Advance(f, s), s = "processed" => f.delivery.msg \notin inbox
        PROVE  One([f EXCEPT !.stage = s])
    <3>1. [f EXCEPT !.stage = s].delivery = f.delivery /\ [f EXCEPT !.stage = s].stage = s
      BY <1>f, AdvanceIs
    <3> QED BY <2>1, <3>1 DEF Advance
  <2>2. ASSUME NEW i \in Instances, NEW d \in broker, deliver(i, d)
        PROVE  One([delivery |-> d, at |-> i, stage |-> "received", open |-> TRUE])
    BY <2>2 DEF deliver
  <2>3. ASSUME NEW f \in flights, consume_lookup(f) PROVE \E x : One(x)
    BY <2>1, <2>3 DEF consume_lookup
  <2>4. ASSUME NEW f \in flights, consume_commit(f) PROVE \E x : One(x)
    BY <2>1, <2>4 DEF consume_commit, HasReceipt, MsgOf
  <2>5. ASSUME NEW f \in flights, publish_live(f) PROVE \E x : One(x)
    BY <2>1, <2>5 DEF publish_live
  <2>6. ASSUME flights' \subseteq flights PROVE \E x : One(x)
    <3>1. One([stage |-> "done"])
      BY <2>6
    <3> HIDE DEF One
    <3> QED BY <3>1
  <2>7. ASSUME NEW f \in flights,
               consume_permanent_error(f) \/ consume_transient_error(f) \/ ack(f)
        PROVE  flights' \subseteq flights
    BY <2>7 DEF consume_permanent_error, consume_transient_error, ack
  <2>8. ASSUME NEW i \in Instances, crash(i) PROVE flights' \subseteq flights
    BY <2>8 DEF crash
  <2> HIDE DEF One
  <2>9. \E x : One(x)
    BY <1>2, <2>2, <2>3, <2>4, <2>5, <2>6, <2>7, <2>8, TouchFlights
  <2> QED BY <2>9 DEF One
<1>3. ASSUME NEW f \in flights, f.stage = "processed", f.delivery.msg \notin retired
      PROVE  f.delivery.msg \in inbox
  BY <1>3 DEF ReceiptBeforePush
\* At most one handler of an event is between receipt and push.
<1>4. ASSUME NEW f \in flights', NEW g \in flights', f.stage = "processed", g.stage = "processed",
             f.delivery.msg = g.delivery.msg, f.delivery.msg \notin retired'
      PROVE  f = g
  <2>1. f.delivery.msg \notin retired
    BY <1>4, <1>r
  <2>2. ASSUME NEW i \in Instances, connection_lost(i) PROVE f = g
    <3>1. PICK k \in flights : f = IF k.at = i THEN [k EXCEPT !.open = FALSE] ELSE k
      BY <2>2 DEF connection_lost
    <3>2. PICK l \in flights : g = IF l.at = i THEN [l EXCEPT !.open = FALSE] ELSE l
      BY <2>2 DEF connection_lost
    <3>3. /\ [k EXCEPT !.open = FALSE].delivery = k.delivery
          /\ [k EXCEPT !.open = FALSE].stage = k.stage
          /\ [l EXCEPT !.open = FALSE].delivery = l.delivery
          /\ [l EXCEPT !.open = FALSE].stage = l.stage
      BY <1>f, AdvanceIs
    <3>4. k.delivery = f.delivery /\ k.stage = "processed" /\ l.delivery = g.delivery
          /\ l.stage = "processed"
      BY <1>4, <3>1, <3>2, <3>3
    <3>5. k = l
      BY <1>4, <2>1, <3>4 DEF ReceiptBeforePush
    <3> QED BY <3>1, <3>2, <3>5
  <2>3. CASE \A i \in Instances : ~connection_lost(i)
    <3>1. PICK x : /\ flights' \subseteq flights \cup {x}
                   /\ x.stage = "processed" => x.delivery.msg \notin inbox
      BY <1>2, <2>3
    <3>2. CASE f \in flights /\ g \in flights
      BY <1>4, <2>1, <3>2 DEF ReceiptBeforePush
    <3> QED BY <1>3, <1>4, <2>1, <3>1, <3>2
  <2> QED BY <2>2, <2>3
\* None is once the event was pushed.
<1>5. ASSUME dep.transport = "rabbitmq", NEW m \in Messages, NEW i \in Instances,
             m \notin retired', pushed'[m][i] > 0
      PROVE  m \in inbox' /\ \A g \in flights' : g.delivery.msg = m => g.stage # "processed"
  <2>1. m \notin retired
    BY <1>5, <1>r
  <2>2. ASSUME pushed[m][i] > 0
        PROVE  m \in inbox' /\ \A g \in flights' : g.delivery.msg = m => g.stage # "processed"
    <3>1. m \in inbox /\ \A f \in flights : f.delivery.msg = m => f.stage # "processed"
      BY <1>5, <2>1, <2>2 DEF ReceiptBeforePush
    <3>2. m \in inbox'
      BY <1>5, <1>r, <3>1
    <3>3. ASSUME NEW g \in flights', g.delivery.msg = m PROVE g.stage # "processed"
      <4>1. ASSUME NEW j \in Instances, connection_lost(j) PROVE g.stage # "processed"
        <5>1. PICK k \in flights : g = IF k.at = j THEN [k EXCEPT !.open = FALSE] ELSE k
          BY <4>1 DEF connection_lost
        <5>2. /\ [k EXCEPT !.open = FALSE].delivery = k.delivery
              /\ [k EXCEPT !.open = FALSE].stage = k.stage
          BY <1>f, AdvanceIs
        <5> QED BY <3>1, <3>3, <5>1, <5>2
      <4>2. CASE \A j \in Instances : ~connection_lost(j)
        BY <1>2, <3>1, <3>3, <4>2
      <4> QED BY <4>1, <4>2
    <3> QED BY <3>2, <3>3
  <2>3. ASSUME ~(pushed[m][i] > 0)
        PROVE  m \in inbox' /\ \A g \in flights' : g.delivery.msg = m => g.stage # "processed"
    <3>1. PICK f \in flights : publish_live(f)
      BY <1>5, <2>3, TouchPushed DEF publish_local
    <3>2. f.delivery.msg \in Messages /\ f.at \in Instances
      BY AdvanceIs DEF TypeOK
    <3>3. FanOut(f.at, f.delivery.msg) /\ f.stage = "processed" /\ Advance(f, "done")
      BY <3>1 DEF publish_live, MsgOf
    <3>4. f.delivery.msg = m
      BY <1>5, <2>3, <3>2, <3>3, FanOutCounts
    <3>5. m \in inbox'
      BY <1>3, <1>5, <1>r, <2>1, <3>3, <3>4
    <3>6. [f EXCEPT !.stage = "done"].stage = "done"
      BY <1>f, AdvanceIs
    <3>7. ASSUME NEW g \in flights', g.delivery.msg = m PROVE g.stage # "processed"
      BY <2>1, <3>3, <3>4, <3>6, <3>7 DEF Advance, ReceiptBeforePush
    <3> QED BY <3>5, <3>7
  <2> QED BY <2>2, <2>3
<1> QED BY <1>r, <1>1, <1>4, <1>5 DEF ReceiptBeforePush

\* Numbers up to a bound, added to a set that has a last one, leave a last one.
LEMMA LastOfUnion ==
  ASSUME NEW S \in SUBSET Nat, NEW T \in SUBSET Nat,
         S # {} => \E n \in S : \A k \in S : k <= n,
         T # {} => \E n \in T : \A k \in T : k <= n
  PROVE  S \cup T # {} => \E n \in S \cup T : \A k \in S \cup T : k <= n
<1>1. CASE S = {} \/ T = {}
  BY <1>1
<1>2. CASE S # {} /\ T # {}
  <2>1. PICK a \in S : \A k \in S : k <= a
    BY <1>2
  <2>2. PICK b \in T : \A k \in T : k <= b
    BY <1>2
  <2>3. CASE a <= b
    BY <2>1, <2>2, <2>3
  <2>4. CASE ~(a <= b)
    BY <2>1, <2>2, <2>4
  <2> QED BY <2>3, <2>4
<1> QED BY <1>1, <1>2

\* The page gets a stretch of the backlog, or one event.
LEMMA NextSeenHasLast == TypeOK /\ SeenHasLast /\ [Next]_vars => SeenHasLast'
<1> SUFFICES ASSUME TypeOK, SeenHasLast, [Next]_vars PROVE SeenHasLast'
  OBVIOUS
<1>1. /\ socket.cursor \in Nat /\ socket.upto \in Nat /\ socket.queue \in Seq(Nat)
      /\ client.seen \in SUBSET Nat
  BY DEF TypeOK, Socket, PageState
<1>2. ASSUME NEW ns \in SUBSET Nat, NEW next, Show(ns, next),
             ns # {} => \E n \in ns : \A k \in ns : k <= n
      PROVE  SeenHasLast'
  <2>1. client'.seen = client.seen \cup ns
    BY <1>2 DEF Show
  <2> QED BY <1>1, <1>2, <2>1, LastOfUnion DEF SeenHasLast
<1>3. CASE UNCHANGED client
  BY <1>3 DEF SeenHasLast
<1>4. CASE send_backlog
  <2> DEFINE ns == (socket.cursor + 1)..socket.upto
  <2>1. ns \in SUBSET Nat
    BY <1>1
  <2>2. ns # {} => socket.upto \in ns /\ \A k \in ns : k <= socket.upto
    BY <1>1
  <2>3. PICK next : Show(ns, next)
    BY <1>4 DEF send_backlog
  <2> HIDE DEF ns
  <2> QED BY <1>2, <2>1, <2>2, <2>3
<1>5. CASE stream_live_event
  <2>1. Head(socket.queue) \in Nat
    BY <1>1, <1>5, TailIs DEF stream_live_event
  <2>2. (\E next : Show({Head(socket.queue)}, next)) \/ UNCHANGED client
    BY <1>5 DEF stream_live_event, Forward
  <2> QED BY <1>2, <1>3, <2>1, <2>2
<1> QED BY <1>3, <1>4, <1>5, TouchPage

\* The socket s with the losses ls has, or needs no more, what its instance got.
Filled(s, ls) ==
  /\ s.phase # "closed" => s.at \in Instances
  /\ s.phase \in {"replaying", "streaming"} =>
       \A n \in 1..LastSeq[ClientTask] :
         pushed[<<ClientTask, n>>][s.at] > 0 =>
           \/ n <= IF s.phase = "replaying" THEN s.upto ELSE s.cursor
           \/ Contains(s.queue, n) \/ n \in ls

\* The two facts about the socket are one.
LEMMA FilledIs == SocketFilled /\ BacklogMeetsLive <=> Filled(socket, lossy)
  BY Zenon DEF SocketFilled, BacklogMeetsLive, Filled

\* The fan-out puts the event into the queue of the socket it counts for.
LEMMA FanOutFills ==
  ASSUME TypeOK, SocketFilled, BacklogMeetsLive,
         NEW j \in Instances, NEW m \in Messages, FanOut(j, m)
  PROVE  SocketFilled' /\ BacklogMeetsLive'
<1>1. socket \in Socket /\ socket.queue \in Seq(Nat) /\ m[2] \in Nat
  BY MessageIs, DeliveryAssumption DEF TypeOK, Socket
<1>2. Filled(socket, lossy)
  BY FilledIs
<1>3. /\ socket'.phase = socket.phase /\ socket'.at = socket.at
      /\ socket'.upto = socket.upto /\ socket'.cursor = socket.cursor
  BY <1>1 DEF FanOut, Socket
<1>4. ASSUME NEW n \in 1..LastSeq[ClientTask],
             socket.phase \in {"replaying", "streaming"},
             pushed'[<<ClientTask, n>>][socket.at] > 0
      PROVE  \/ n <= IF socket.phase = "replaying" THEN socket.upto ELSE socket.cursor
             \/ Contains(socket'.queue, n) \/ n \in lossy'
  <2>1. <<ClientTask, n>> \in Messages /\ socket.at \in Instances /\ n \in Nat
    BY <1>2, <1>4, MessageIs, DeliveryAssumption DEF Filled
  <2>2. CASE m = <<ClientTask, n>> /\ socket.at = j
    <3>1. m[1] = ClientTask /\ m[2] = n
      BY <2>2
    <3>2. socket'.queue = Offer(socket.queue, n)
      BY <1>1, <2>2, <3>1 DEF FanOut, Subscribed, Socket
    <3> QED BY <1>1, <3>1, <3>2, OfferIs
  <2>3. CASE ~(m = <<ClientTask, n>> /\ socket.at = j)
    <3>1. pushed[<<ClientTask, n>>][socket.at] > 0
      BY <1>4, <2>1, <2>3, FanOutCounts
    <3>2. \/ n <= IF socket.phase = "replaying" THEN socket.upto ELSE socket.cursor
          \/ Contains(socket.queue, n) \/ n \in lossy
      BY <1>2, <1>4, <3>1 DEF Filled
    <3>3. CASE Subscribed(j, m[1])
      <4>1. /\ socket'.queue = Offer(socket.queue, m[2])
            /\ lossy \subseteq lossy'
            /\ Len(socket.queue) = QueueSize => Head(socket.queue) \in lossy'
        BY <1>1, <3>3 DEF FanOut, Socket
      <4>2. Contains(socket.queue, n) => Contains(socket'.queue, n) \/ n \in lossy'
        <5>1. Contains(socket.queue, n) =>
                \/ Contains(Offer(socket.queue, m[2]), n)
                \/ Len(socket.queue) = QueueSize /\ n = Head(socket.queue)
          BY <1>1, <2>1, OfferIs
        <5> QED BY <4>1, <5>1
      <4> QED BY <3>2, <4>1, <4>2
    <3>4. CASE ~Subscribed(j, m[1])
      BY <3>2, <3>4 DEF FanOut
    <3> QED BY <3>3, <3>4
  <2> QED BY <2>2, <2>3
<1>5. Filled(socket, lossy)'
  BY <1>2, <1>3, <1>4 DEF Filled
<1> QED BY <1>5, FilledIs, PTL

\* The socket is subscribed before it reads the backlog, and its queue is read
\* only after the backlog was sent.
LEMMA NextSocketFilled ==
  /\ TypeOK /\ RowOfEvent /\ OnlyAppended /\ SocketFilled /\ BacklogMeetsLive
  /\ [Next]_vars
  => SocketFilled' /\ BacklogMeetsLive'
<1> SUFFICES ASSUME TypeOK, RowOfEvent, OnlyAppended, SocketFilled, BacklogMeetsLive, [Next]_vars
             PROVE  SocketFilled' /\ BacklogMeetsLive'
  OBVIOUS
<1>t. /\ socket \in Socket /\ socket.queue \in Seq(Nat)
      /\ socket.cursor \in Nat /\ socket.upto \in Nat
  BY DEF TypeOK, Socket
<1>0. Filled(socket, lossy)
  BY FilledIs
<1>g. Filled(socket, lossy)' => SocketFilled' /\ BacklogMeetsLive'
  BY FilledIs, PTL
<1>n. ASSUME socket' = NoSocket PROVE Filled(socket, lossy)'
  BY <1>n DEF Filled, NoSocket
<1>1. ASSUME NEW p \in Instances, NEW c \in hand[p], publish_local(p, c)
      PROVE  SocketFilled' /\ BacklogMeetsLive'
  <2>1. c.msg \in Messages
    BY CopyIs DEF TypeOK
  <2> QED BY <1>1, <2>1, FanOutFills DEF publish_local
<1>2. ASSUME NEW f \in flights, publish_live(f) PROVE SocketFilled' /\ BacklogMeetsLive'
  <2>1. f.delivery.msg \in Messages /\ f.at \in Instances
    BY AdvanceIs DEF TypeOK
  <2> QED BY <1>2, <2>1, FanOutFills DEF publish_live, MsgOf
<1>3. ASSUME UNCHANGED <<socket, lossy, pushed>> PROVE Filled(socket, lossy)'
  BY <1>0, <1>3 DEF Filled
<1>4. ASSUME NEW i \in Instances, crash(i) PROVE Filled(socket, lossy)'
  BY <1>3, <1>4, <1>n DEF crash
<1>5. ASSUME NEW i \in Instances, open_socket(i) PROVE Filled(socket, lossy)'
  <2>1. socket'.at = i /\ socket'.phase = "subscribed"
    BY <1>5 DEF open_socket, NoSocket
  <2> QED BY <2>1 DEF Filled
<1>6. ASSUME read_backlog PROVE Filled(socket, lossy)'
  <2>1. /\ socket'.phase = "replaying" /\ socket'.upto = last[ClientTask]
        /\ socket'.at = socket.at /\ socket.phase = "subscribed"
        /\ UNCHANGED pushed
    BY <1>6, <1>t DEF read_backlog, inside, Socket
  <2>2. socket.at \in Instances
    BY <1>0, <2>1 DEF Filled
  <2>3. ASSUME NEW n \in 1..LastSeq[ClientTask], pushed[<<ClientTask, n>>][socket.at] > 0
        PROVE  n <= last[ClientTask]
    <3>1. <<ClientTask, n>> \in Messages /\ last[ClientTask] \in Nat /\ n \in Nat
      BY MessageIs, DeliveryAssumption DEF TypeOK
    <3>2. outbox[<<ClientTask, n>>].status # "absent"
      BY <2>2, <2>3, <3>1 DEF OnlyAppended
    <3>3. ~(last[ClientTask] < n)
      BY <3>1, <3>2 DEF RowOfEvent
    <3> QED BY <3>1, <3>3
  <2> QED BY <2>1, <2>2, <2>3 DEF Filled
<1>7. ASSUME send_backlog PROVE Filled(socket, lossy)'
  <2> DEFINE next == [socket EXCEPT !.phase = "streaming", !.upto = 0,
                        !.cursor = IF socket.upto > @ THEN socket.upto ELSE @]
  <2>1. /\ next.phase = "streaming" /\ next.at = socket.at /\ next.queue = socket.queue
        /\ next.cursor \in Nat /\ next.cursor >= socket.upto
    BY <1>t DEF Socket
  <2>2. socket.phase = "replaying" /\ UNCHANGED <<pushed, lossy>>
        /\ (socket' = NoSocket \/ socket' = next)
    BY <1>7 DEF send_backlog, Show, inside
  <2>3. CASE socket' = next
    <3>1. \A n \in 1..LastSeq[ClientTask] : n <= socket.upto => n <= next.cursor
      BY <1>t, <2>1, DeliveryAssumption
    <3>2. /\ socket'.phase = "streaming" /\ socket'.at = socket.at
          /\ socket'.queue = socket.queue /\ socket'.cursor = next.cursor
      BY <2>1, <2>3
    <3> HIDE DEF next
    <3> QED BY <1>0, <2>2, <3>1, <3>2 DEF Filled
  <2> QED BY <1>n, <2>2, <2>3
<1>8. ASSUME stream_live_event PROVE Filled(socket, lossy)'
  <2> DEFINE h == Head(socket.queue)
             rest == Tail(socket.queue)
  <2>1. /\ rest \in Seq(Nat) /\ h \in Nat
        /\ \A k \in Nat : Contains(socket.queue, k) => k = h \/ Contains(rest, k)
    BY <1>8, <1>t, TailIs DEF stream_live_event
  <2>2. /\ socket.phase = "streaming" /\ UNCHANGED <<pushed, lossy>>
        /\ \/ socket' = NoSocket
           \/ h > socket.cursor /\ socket' = [socket EXCEPT !.queue = rest, !.cursor = h]
           \/ ~(h > socket.cursor) /\ socket' = [socket EXCEPT !.queue = rest]
    BY <1>8 DEF stream_live_event, Forward, Show, inside
  <2>3. ASSUME socket' # NoSocket
        PROVE  /\ socket'.phase = "streaming" /\ socket'.at = socket.at
               /\ socket'.queue = rest /\ socket'.cursor \in Nat
               /\ socket'.cursor >= socket.cursor /\ socket'.cursor >= h
    <3> HIDE DEF h, rest
    <3>1. CASE h > socket.cursor /\ socket' = [socket EXCEPT !.queue = rest, !.cursor = h]
      BY <1>t, <2>1, <2>2, <3>1 DEF Socket
    <3>2. CASE ~(h > socket.cursor) /\ socket' = [socket EXCEPT !.queue = rest]
      BY <1>t, <2>1, <2>2, <3>2 DEF Socket
    <3> QED BY <2>2, <2>3, <3>1, <3>2
  <2> HIDE DEF h, rest
  <2>4. ASSUME socket' # NoSocket, NEW n \in 1..LastSeq[ClientTask],
               n <= socket.cursor \/ Contains(socket.queue, n)
        PROVE  n <= socket'.cursor \/ Contains(rest, n)
    <3>1. n \in Nat
      BY DeliveryAssumption
    <3>2. CASE n <= socket.cursor
      BY <1>t, <2>3, <2>4, <3>1, <3>2
    <3>3. CASE n = h
      BY <2>3, <2>4, <3>3
    <3> QED BY <2>1, <2>4, <3>1, <3>2, <3>3
  <2> QED BY <1>0, <1>n, <2>2, <2>3, <2>4 DEF Filled
<1>9. ASSUME disconnect PROVE Filled(socket, lossy)'
  BY <1>9, <1>n DEF disconnect
<1> HIDE DEF Filled
<1> QED BY <1>g, <1>1, <1>2, <1>3, <1>4, <1>5, <1>6, <1>7, <1>8, <1>9, TouchSocket, TouchPushed
-----------------------------------------------------------------------------
(* The inductive invariant and what follows from it.                       *)

\* At the start there is no row, no delivery and no socket.
LEMMA InitIInv == Init => IInv
<1> SUFFICES ASSUME Init PROVE IInv
  OBVIOUS
<1> USE DEF Init
<1>d. dep.attempts \in Nat \ {0} /\ dep.faults \in Nat /\ dep.opens \in Nat
  BY DepIs
<1>m. \A m \in Messages : outbox[m] = NoRow /\ m[1] \in Tasks /\ m[2] \in Nat /\ m[2] >= 1
  BY MessageIs, DeliveryAssumption
<1>1. TypeOK
  <2>1. NoRow \in Row(dep.attempts)
    BY <1>d DEF NoRow, Row
  <2>2. outbox \in [Messages -> Row(dep.attempts)]
    BY <2>1
  <2>3. NoSocket \in Socket
    BY DEF NoSocket, Socket
  <2>4. client \in PageState
    BY DEF PageState
  <2>5. pushed \in [Messages -> [Instances -> Nat]]
    OBVIOUS
  <2>6. \A t \in Tasks : last[t] <= LastSeq[t]
    BY DeliveryAssumption
  <2>7. faults \in 0..dep.faults /\ requeues \in 0..MaxRequeues /\ opens \in 0..dep.opens
    BY <1>d, DeliveryAssumption
  <2> QED BY <2>2, <2>3, <2>4, <2>5, <2>6, <2>7 DEF TypeOK
<1>2. RowOfEvent
  BY <1>m DEF RowOfEvent, NoRow
<1>3. OnlyAppended
  BY DEF OnlyAppended
<1>4. AttemptLeft
  BY <1>m DEF AttemptLeft, NoRow
<1>5. ReceiptBeforePush
  BY DEF ReceiptBeforePush
<1>6. AppliedOnce
  BY DEF AppliedOnce
<1>7. SentIsKept
  BY DEF SentIsKept
<1>8. PublishedIsNotLost
  BY <1>m DEF PublishedIsNotLost, NoRow
<1>9. ClaimedInOrder
  BY <1>m DEF ClaimedInOrder, NoRow
<1>10. SocketFilled /\ BacklogMeetsLive
  BY DEF SocketFilled, BacklogMeetsLive, NoSocket
<1>11. SeenHasLast
  BY DEF SeenHasLast
<1> QED BY <1>1, <1>2, <1>3, <1>4, <1>5, <1>6, <1>7, <1>8, <1>9, <1>10, <1>11 DEF IInv

\* Every step keeps the invariant.
LEMMA NextIInv == IInv /\ [Next]_vars => IInv'
<1> SUFFICES ASSUME IInv, [Next]_vars PROVE IInv'
  OBVIOUS
<1>1. TypeOK'
  BY NextTypeOK DEF IInv
<1>2. RowOfEvent' /\ OnlyAppended' /\ AttemptLeft'
  BY NextRowOfEvent, NextOnlyAppended, NextAttemptLeft DEF IInv
<1>3. ReceiptBeforePush' /\ AppliedOnce'
  BY NextReceiptBeforePush, NextAppliedOnce DEF IInv
<1>4. SentIsKept' /\ PublishedIsNotLost'
  BY NextSentIsKept, NextPublishedIsNotLost DEF IInv
<1>5. ClaimedInOrder'
  BY NextClaimedInOrder DEF IInv
<1>6. SocketFilled' /\ BacklogMeetsLive' /\ SeenHasLast'
  BY NextSocketFilled, NextSeenHasLast DEF IInv
<1> QED BY <1>1, <1>2, <1>3, <1>4, <1>5, <1>6 DEF IInv

\* The invariant holds in every state.
LEMMA InductiveInvariant == Spec => []IInv
  BY InitIInv, NextIInv, PTL DEF Spec

\* Every variable of the delivery keeps its type.
THEOREM TypeCorrect == Spec => []TypeOK
  BY InductiveInvariant, PTL DEF IInv

\* Until retention removes its receipt, an event reaches the fan-outs of all
\* instances together at most once (_consume_message).
THEOREM PushedAtMostOnce == Spec => []AppliedOnce
  BY InductiveInvariant, PTL DEF IInv

\* A row marked as published is at the broker or was consumed (_mark_published).
THEOREM NothingLost == Spec => []PublishedIsNotLost
  BY InductiveInvariant, PTL DEF IInv

\* A claim only taken in order is only published in order (_claim_batch).
THEOREM OrderKept == Spec => []PublishedInOrder
<1>1. IInv => PublishedInOrder
  BY DEF IInv, ClaimedInOrder, PublishedInOrder
<1> QED BY <1>1, InductiveInvariant, PTL

\* Nothing falls between the replay of the backlog and the live events
\* (task_events).
THEOREM NoGapAfterReplay == Spec => []BacklogMeetsLive
  BY InductiveInvariant, PTL DEF IInv
=============================================================================
