------------------------------ MODULE Admission ------------------------------
(***************************************************************************)
(* Cluster-wide admission of effect DAG nodes.  A dispatcher registers a   *)
(* batch of tickets for the nodes it may start, waits until some of them   *)
(* are granted, claims those nodes with the permits as proof, runs them    *)
(* and releases the permits.  Every instance may run the scheduler; one    *)
(* run of it is one transaction, serialised by the revision of the state   *)
(* row (SQLite) or by SERIALIZABLE isolation (PostgreSQL).  A change of    *)
(* the configuration is one step with SQLite, where the transaction holds  *)
(* the only write lock; with PostgreSQL it counts and then writes at READ  *)
(* COMMITTED, and others register and are granted in between.              *)
(*                                                                         *)
(* rows[i][n] is the latest ticket instance i registered for node n;       *)
(* "none" also stands for released and withdrawn, which nobody reads       *)
(* again.  Time is left out: a ticket is live until it lapses, and its     *)
(* heartbeat keeps it from lapsing.                                        *)
(***************************************************************************)
EXTENDS Naturals, Sequences, SequencesExt, FiniteSets

CONSTANTS
  Instances, Graphs, Nodes,
  GraphOf,        \* the graph of a node
  Tools,
  ToolOf,         \* tool_name of a node
  ShardOf,        \* scheduling_shard of a graph
  Shards,         \* all shards, by id
  Configs,        \* configuration digests
  NoConfig,       \* configuration_digest is NULL
  GlobalLimit, PerGraphLimit, ToolLimit,   \* the limits of a configuration
  Deployments     \* settings of the instances, with bounds

\* conf is the configuration an instance was started with, faults bounds the
\* crashes, shutdowns and missed heartbeats, work bounds the nodes asked for;
\* drivers are the first holders of the graphs.
Deployment ==
  [dialect : {"sqlite", "postgresql"}, conf : [Instances -> Configs],
   faults : Nat, work : SUBSET Nodes, drivers : SUBSET [Graphs -> Instances]]

ASSUME AdmissionAssumption ==
  /\ IsFiniteSet(Instances) /\ IsFiniteSet(Nodes)
  /\ GraphOf \in [Nodes -> Graphs] /\ ToolOf \in [Nodes -> Tools]
  /\ Shards \in Seq(Range(Shards)) /\ ShardOf \in [Graphs -> Range(Shards)]
  /\ NoConfig \notin Configs
  /\ GlobalLimit \in [Configs -> Nat \ {0}]
  /\ PerGraphLimit \in [Configs -> Nat \ {0}]
  /\ ToolLimit \in [Configs -> [Tools -> Nat \ {0}]]
  /\ Deployments \subseteq Deployment

VARIABLES
  dep,        \* the deployment, fixed
  config,     \* configuration_digest of the scheduler's state row
  changing,   \* the instance whose transaction has the state row locked and
              \* is about to write its configuration (PostgreSQL)
  rows,       \* tickets
  order,      \* batches with pending tickets, in the order of registration
  served,     \* graphs by their latest grant_sequence, oldest first
  turns,      \* shards by last_grant_sequence, oldest first
  driver,     \* the instance whose dispatcher holds the graph's lease
  phase,      \* where the dispatcher of a graph is
  batch,      \* the nodes its acquire_batch has asked for
  permits,    \* the permits it holds
  running,    \* its nodes with Runner work in progress
  cancelled,  \* graphs with a cancel request
  down,       \* instances that have stopped
  faults

vars == <<dep, config, changing, rows, order, served, turns, driver, phase, batch,
          permits, running, cancelled, down, faults>>
configuration == <<dep, config, changing>>
scheduling == <<config, changing, rows, order, served, turns>>
dispatching == <<driver, phase, batch, permits, running, cancelled, down>>

NoTicket == [status |-> "none", live |-> FALSE]
Pending == [status |-> "pending", live |-> TRUE]
Granted == [status |-> "granted", live |-> TRUE]

Init ==
  /\ dep \in Deployments
  /\ config = NoConfig /\ changing = {}
  /\ rows = [i \in Instances |-> [n \in Nodes |-> NoTicket]]
  /\ order = <<>> /\ served = <<>> /\ turns = Shards
  /\ driver \in dep.drivers
  /\ phase = [g \in Graphs |-> "idle"]
  /\ batch = [g \in Graphs |-> <<>>]
  /\ permits = [g \in Graphs |-> {}]
  /\ running = [g \in Graphs |-> {}]
  /\ cancelled = {} /\ down = {} /\ faults = 0

------------------------------------------------------------------------------
(* The store. *)

LiveTickets == {t \in Instances \X Nodes : rows[t[1]][t[2]].live}

\* Mutant: the limits change under live tickets.
ensure_configuration_blind(i) ==
  /\ dep.dialect = "sqlite" /\ i \notin down
  /\ config # dep.conf[i]
  /\ config' = dep.conf[i]
  /\ UNCHANGED <<dep, changing, rows, order, served, turns, dispatching, faults>>

\* ensure_configuration: only an idle cluster changes its limits.
ensure_configuration(i) ==
  /\ dep.dialect = "sqlite" /\ i \notin down
  /\ config # dep.conf[i]
  /\ config = NoConfig \/ LiveTickets = {}
  /\ config' = dep.conf[i]
  /\ UNCHANGED <<dep, changing, rows, order, served, turns, dispatching, faults>>

\* The same with PostgreSQL.  _lock_scheduler takes the state row, which only
\* withdrawals, cancels and other changes wait for, and the live tickets are
\* counted;
count_live(i) ==
  /\ dep.dialect = "postgresql" /\ i \notin down
  /\ changing = {} /\ config # dep.conf[i]
  /\ config = NoConfig \/ LiveTickets = {}
  /\ changing' = {i}
  /\ UNCHANGED <<dep, config, rows, order, served, turns, dispatching, faults>>

\* then _write_configuration writes, whatever was registered or granted since.
write_configuration(i) ==
  /\ dep.dialect = "postgresql" /\ i \in changing
  /\ config' = dep.conf[i] /\ changing' = {}
  /\ UNCHANGED <<dep, rows, order, served, turns, dispatching, faults>>

Active(rs) == {t \in Instances \X Nodes : rs[t[1]][t[2]] = Granted}

\* The graph and the tool of a ticket are below their limits.
Room(rs, c, n) ==
  LET active == Active(rs) IN
  /\ Cardinality({t \in active : GraphOf[t[2]] = GraphOf[n]}) < PerGraphLimit[c]
  /\ Cardinality({t \in active : ToolOf[t[2]] = ToolOf[n]}) < ToolLimit[c][ToolOf[n]]

Waiting(rs, b) == {n \in Range(b.nodes) : rs[b.owner][n] = Pending}
Grantable(rs, c, b) == {n \in Waiting(rs, b) : Room(rs, c, n)}
HasPending(rs, b) == \E n \in Range(b.nodes) : rs[b.owner][n].status = "pending"
Unfinished(rs) == SelectSeq(order, LAMBDA b : HasPending(rs, b))

\* The oldest batch of a graph with a live pending ticket.
HeadsIn(rs) ==
  LET H(g) == {k \in DOMAIN order :
                 order[k].graph = g /\ Waiting(rs, order[k]) # {}}
      Heading == {g \in Graphs : H(g) # {}}
  IN  [g \in Heading |-> order[CHOOSE k \in H(g) : \A l \in H(g) : k <= l]]

\* Tickets of instance o past their lease are expired.
Sweep(rs, o) ==
  [n \in Nodes |->
     IF ~rs[o][n].live /\ rs[o][n].status \in {"pending", "granted"}
     THEN [status |-> "expired", live |-> FALSE] ELSE rs[o][n]]

Position(q, e) == CHOOSE k \in DOMAIN q : q[k] = e
LastGrant(sv, g) == IF Contains(sv, g) THEN Position(sv, g) ELSE 0

\* Mutant: the most recently served graph goes first.
GoesFirstLatest(sv, heads, g, h) ==
  \/ LastGrant(sv, g) > LastGrant(sv, h)
  \/ /\ LastGrant(sv, g) = LastGrant(sv, h)
     /\ Position(order, heads[g]) <= Position(order, heads[h])

\* min(candidates): least recently served, then longest registered.
GoesFirst(sv, heads, g, h) ==
  \/ LastGrant(sv, g) < LastGrant(sv, h)
  \/ /\ LastGrant(sv, g) = LastGrant(sv, h)
     /\ Position(order, heads[g]) <= Position(order, heads[h])

\* One turn of the loop of _schedule_once grants at most one ticket: the first
\* of the head batch that there is room for.
Candidates(s, c, heads) ==
  IF Cardinality(Active(s.rows)) >= GlobalLimit[c] THEN {}
  ELSE {g \in DOMAIN heads : Grantable(s.rows, c, heads[g]) # {}}

FirstGrantable(rs, c, b) ==
  LET K == {k \in DOMAIN b.nodes : b.nodes[k] \in Grantable(rs, c, b)}
  IN  {b.nodes[k] : k \in {j \in K : \A l \in K : j <= l}}

Grant(s, g, b, n) == [rows |-> [s.rows EXCEPT ![b.owner][n] = Granted],
                      served |-> Append(Remove(s.served, g), g)]

GrantNext(s, c, heads) ==
  UNION {IF C = {} THEN {s}
         ELSE UNION {{Grant(s, g, heads[g], n) :
                        n \in FirstGrantable(s.rows, c, heads[g])} :
                     g \in {x \in C : \A h \in C : GoesFirst(s.served, heads, x, h)}}
         : C \in {Candidates(s, c, heads)}}

\* What the loop of _schedule_once can come to.
GrantAll(s, c, heads) ==
  LET f[k \in 0..GlobalLimit[c]] ==
        IF k = 0 THEN {s} ELSE UNION {GrantNext(t, c, heads) : t \in f[k - 1]}
  IN  f[GlobalLimit[c]]

\* The tickets of a granted batch that got no permit are withdrawn.
WithdrawRest(before, after, heads) ==
  [o \in Instances |-> [n \in Nodes |->
     IF /\ GraphOf[n] \in DOMAIN heads
        /\ LET head == heads[GraphOf[n]] IN
             /\ head.owner = o /\ n \in Waiting(after, head)
             /\ Waiting(after, head) # Waiting(before, head)
     THEN NoTicket ELSE after[o][n]]]

\* _schedule_once: expire, grant while there is room, withdraw the rest.
schedule_sqlite(i) ==
  /\ dep.dialect = "sqlite" /\ i \notin down /\ config = dep.conf[i]
  /\ \E swept \in {[o \in Instances |-> Sweep(rows, o)]} :
     \E heads \in {HeadsIn(swept)} :
     \E done \in GrantAll([rows |-> swept, served |-> served], config, heads) :
       /\ rows' = WithdrawRest(swept, done.rows, heads)
       /\ served' = done.served
       /\ order' = Unfinished(rows')
       /\ rows' # rows
  /\ UNCHANGED <<configuration, turns, dispatching, faults>>

\* The least recently served shard with live pending work.
NextShard ==
  LET busy == {ShardOf[order[k].graph] : k \in {j \in DOMAIN order :
                                                  Waiting(rows, order[j]) # {}}}
  IN  SelectSeq(turns, LAMBDA s : s \in busy)

\* Permits are expired everywhere, pending tickets in the chosen shard only.
SweepShard(shard) ==
  [o \in Instances |-> [n \in Nodes |->
     IF rows[o][n].status = "granted" \/ ShardOf[GraphOf[n]] = shard
     THEN Sweep(rows, o)[n] ELSE rows[o][n]]]

\* Among the batches of a graph the one that expires first is the head, which
\* their renewals decide.
HeadsOfShard(rs, shard) ==
  LET mine == {order[k] : k \in {j \in DOMAIN order :
                 ShardOf[order[j].graph] = shard /\ Waiting(rs, order[j]) # {}}}
  IN  {h \in [{b.graph : b \in mine} -> mine] : \A g \in DOMAIN h : h[g].graph = g}

\* _schedule_postgresql_once.  Without a grantable ticket the shard still uses up
\* its turn.
schedule_postgresql(i) ==
  /\ dep.dialect = "postgresql" /\ i \notin down /\ config = dep.conf[i]
  /\ NextShard # <<>>
  /\ \E shard \in {NextShard[1]} :
     \E swept \in {SweepShard(shard)} :
     \E heads \in HeadsOfShard(swept, shard) :
     \E done \in GrantNext([rows |-> swept, served |-> served], config, heads) :
       /\ rows' = WithdrawRest(swept, done.rows, heads)
       /\ served' = done.served
       /\ order' = Unfinished(rows')
       /\ turns' = IF Cardinality(Active(swept)) < GlobalLimit[config]
                   THEN Append(Remove(turns, shard), shard) ELSE turns
  /\ UNCHANGED <<configuration, dispatching, faults>>

------------------------------------------------------------------------------
(* The dispatcher of a graph and its permits.  Every transaction that ends a *)
(* wait or a permit is followed by a run of the scheduler, a transaction of  *)
(* its own.                                                                  *)

\* acquire_batch of a dispatcher that saw no cancel finds its configuration in
\* force;
acquire_batch(g) ==
  /\ driver[g] \notin down /\ g \notin cancelled /\ phase[g] = "idle"
  /\ config = dep.conf[driver[g]]
  /\ phase' = [phase EXCEPT ![g] = "entering"]
  /\ UNCHANGED <<dep, scheduling, driver, batch, permits, running, cancelled,
                 down, faults>>

\* then, in a transaction of its own, it registers tickets for the nodes in some
\* order: the configuration may have changed and the graph been cancelled.
register_batch(g, nodes) ==
  LET i == driver[g] IN
  /\ phase[g] = "entering"
  /\ Range(nodes) \subseteq dep.work
  /\ rows' = [rows EXCEPT ![i] = [n \in Nodes |->
       IF n \in Range(nodes) THEN Pending ELSE @[n]]]
  /\ order' = Append(order, [owner |-> i, graph |-> g, nodes |-> nodes])
  /\ phase' = [phase EXCEPT ![g] = "waiting"]
  /\ batch' = [batch EXCEPT ![g] = nodes]
  /\ UNCHANGED <<configuration, served, turns, driver, permits, running,
                 cancelled, down, faults>>

\* withdraw_batch: pending tickets are withdrawn, granted ones released, once the
\* state row is free.
Withdrawn(i, nodes) ==
  [rows EXCEPT ![i] = [n \in Nodes |-> IF n \in nodes THEN NoTicket ELSE @[n]]]

StopWaiting(g) ==
  /\ changing = {}
  /\ rows' = Withdrawn(driver[g], Range(batch[g]))
  /\ order' = Unfinished(rows')
  /\ phase' = [phase EXCEPT ![g] = "idle"]
  /\ batch' = [batch EXCEPT ![g] = <<>>]
  /\ UNCHANGED <<configuration, served, turns, driver, permits, running,
                 cancelled, down>>

Found(g, status) ==
  {n \in Range(batch[g]) : rows[driver[g]][n].status = status}

\* read_batch finds permits, be they live or not.
acquire_granted(g) ==
  /\ phase[g] = "waiting" /\ Found(g, "granted") # {}
  /\ phase' = [phase EXCEPT ![g] = "holding"]
  /\ permits' = [permits EXCEPT ![g] = Found(g, "granted")]
  /\ batch' = [batch EXCEPT ![g] = <<>>]
  /\ UNCHANGED <<dep, scheduling, driver, running, cancelled, down, faults>>

\* EffectDagAdmissionCancelledError, EffectDagAdmissionPermitLostError.
acquire_refused(g) ==
  /\ phase[g] = "waiting" /\ Found(g, "granted") = {}
  /\ Found(g, "cancelled") # {} \/ Found(g, "pending") = {}
  /\ StopWaiting(g)
  /\ UNCHANGED faults

\* EffectDagAdmissionConfigurationMismatchError: others are live under another
\* configuration, or one brings it back between ensure_configuration and the
\* scheduler's own check.
acquire_mismatched(g) ==
  /\ phase[g] = "waiting"
  /\ config # dep.conf[driver[g]]
  /\ LiveTickets # {} \/ \E j \in Instances \ down : dep.conf[j] = config
  /\ StopWaiting(g)
  /\ UNCHANGED faults

\* The dispatcher is cancelled while it waits.
acquire_abandoned(g) ==
  /\ phase[g] = "waiting"
  /\ faults < dep.faults /\ faults' = faults + 1
  /\ StopWaiting(g)

\* release_permit: only a live permit is marked, another is left to expire.
Released(i, nodes) ==
  [rows EXCEPT ![i] = [n \in Nodes |->
     IF n \in nodes /\ @[n] = Granted THEN NoTicket ELSE @[n]]]

ReleaseAll(g) ==
  /\ rows' = Released(driver[g], permits[g])
  /\ phase' = [phase EXCEPT ![g] = "idle"]
  /\ permits' = [permits EXCEPT ![g] = {}]

\* _fence_effect_dag_admission_proofs: every permit is live, or no node starts.
claim_nodes(g) ==
  /\ phase[g] = "holding"
  /\ \A n \in permits[g] : rows[driver[g]][n] = Granted
  /\ phase' = [phase EXCEPT ![g] = "running"]
  /\ running' = [running EXCEPT ![g] = permits[g]]
  /\ UNCHANGED <<dep, scheduling, driver, batch, permits, cancelled, down, faults>>

claim_rejected(g) ==
  /\ phase[g] = "holding"
  /\ \E n \in permits[g] : rows[driver[g]][n] # Granted
  /\ ReleaseAll(g)
  /\ UNCHANGED <<configuration, order, served, turns, driver, batch, running,
                 cancelled, down, faults>>

\* The Runner answers, or the heartbeat finds the permit lost and the work is
\* cancelled.
work_ends(g, n) ==
  /\ n \in running[g]
  /\ running' = [running EXCEPT ![g] = @ \ {n}]
  /\ UNCHANGED <<dep, scheduling, driver, phase, batch, permits, cancelled,
                 down, faults>>

release_permits(g) ==
  /\ phase[g] = "running" /\ running[g] = {}
  /\ ReleaseAll(g)
  /\ UNCHANGED <<configuration, order, served, turns, driver, batch, running,
                 cancelled, down, faults>>

\* request_cancel of the dispatcher cancels every pending ticket of the graph.
cancel_waiters(g) ==
  /\ driver[g] \notin down /\ g \notin cancelled /\ changing = {}
  /\ faults < dep.faults /\ faults' = faults + 1
  /\ cancelled' = cancelled \cup {g}
  /\ rows' = [i \in Instances |-> [n \in Nodes |->
       IF GraphOf[n] = g /\ rows[i][n].status = "pending"
       THEN [status |-> "cancelled", live |-> FALSE] ELSE rows[i][n]]]
  /\ order' = Unfinished(rows')
  /\ UNCHANGED <<configuration, served, turns, driver, phase, batch, permits,
                 running, down>>

\* Somebody renews the ticket: the loop of acquire_batch or a permit's
\* heartbeat.
Renewed(i, n) ==
  /\ i \notin down /\ driver[GraphOf[n]] = i
  /\ n \in Range(batch[GraphOf[n]]) \cup permits[GraphOf[n]]

\* The lease of a ticket runs out; of a renewed one only through a fault.
lapse(i, n) ==
  /\ rows[i][n].live
  /\ faults' = IF Renewed(i, n) THEN faults + 1 ELSE faults
  /\ faults' <= dep.faults
  /\ rows' = [rows EXCEPT ![i][n].live = FALSE]
  /\ UNCHANGED <<configuration, order, served, turns, dispatching>>

Leave(i) ==
  /\ Cardinality(Instances \ down) > 1 /\ i \notin down
  /\ faults < dep.faults /\ faults' = faults + 1
  /\ down' = down \cup {i}
  /\ changing' = changing \ {i}      \* its transaction is rolled back
  /\ phase' = [g \in Graphs |-> IF driver[g] = i THEN "idle" ELSE phase[g]]
  /\ batch' = [g \in Graphs |-> IF driver[g] = i THEN <<>> ELSE batch[g]]
  /\ permits' = [g \in Graphs |-> IF driver[g] = i THEN {} ELSE permits[g]]
  /\ running' = [g \in Graphs |-> IF driver[g] = i THEN {} ELSE running[g]]
  /\ UNCHANGED <<dep, config, served, turns, driver, cancelled>>

crash(i) == Leave(i) /\ UNCHANGED <<rows, order>>

\* shutdown withdraws the batches and releases the permits.
shutdown(i) ==
  /\ \A g \in Graphs : driver[g] = i /\ phase[g] = "waiting" => changing = {}
  /\ Leave(i)
  /\ rows' = [rows EXCEPT ![i] = [n \in Nodes |->
       IF @[n].status = "pending" \/ @[n] = Granted THEN NoTicket ELSE @[n]]]
  /\ order' = Unfinished(rows')

\* Another instance takes over the lease of the graph.
takeover(g, i) ==
  /\ driver[g] \in down /\ i \notin down
  /\ driver' = [driver EXCEPT ![g] = i]
  /\ UNCHANGED <<dep, scheduling, phase, batch, permits, running, cancelled,
                 down, faults>>

------------------------------------------------------------------------------
Schedule(i) == schedule_sqlite(i) \/ schedule_postgresql(i)

Dispatch(g) ==
  \/ acquire_granted(g) \/ acquire_refused(g) \/ acquire_mismatched(g)
  \/ claim_nodes(g) \/ claim_rejected(g)
  \/ \E n \in Nodes : work_ends(g, n)
  \/ release_permits(g)

\* The nodes of a graph in every order in which their tickets may be read.
Requests(g) ==
  LET own == {n \in Nodes : GraphOf[n] = g}
  IN  UNION {SetToSeqs(S) : S \in SUBSET own \ {{}}}

AllRequests == [g \in Graphs |-> Requests(g)]

Next ==
  \/ \E i \in Instances :
       \/ ensure_configuration(i) \/ count_live(i) \/ write_configuration(i)
       \/ Schedule(i)
  \/ \E g \in Graphs :
       \/ acquire_batch(g)
       \/ \E nodes \in AllRequests[g] : register_batch(g, nodes)
       \/ Dispatch(g)
       \/ acquire_abandoned(g)
       \/ cancel_waiters(g)
       \/ \E i \in Instances : takeover(g, i)
  \/ \E i \in Instances, n \in Nodes : lapse(i, n)
  \/ \E i \in Instances : crash(i) \/ shutdown(i)

\* One poll of a waiting dispatcher: the scheduler runs, or refuses to.
Poll(g) ==
  phase[g] = "waiting" /\ (Schedule(driver[g]) \/ acquire_mismatched(g))

\* A waiting dispatcher polls the scheduler and its batch, the Runner answers, a
\* transaction ends, and a ticket nobody renews runs out.
Fairness ==
  /\ \A g \in Graphs :
       /\ WF_vars(Dispatch(g)) /\ WF_vars(Poll(g))
       /\ WF_vars(phase[g] = "waiting" /\ ensure_configuration(driver[g]))
       /\ WF_vars(phase[g] = "waiting" /\ count_live(driver[g]))
  /\ \A i \in Instances :
       /\ WF_vars(write_configuration(i))
       /\ \A n \in Nodes : WF_vars(lapse(i, n) /\ ~Renewed(i, n))

Spec == Init /\ [][Next]_vars /\ Fairness

------------------------------------------------------------------------------
(* Properties. *)

\* The configurations whose limits count: with SQLite the one in force; with
\* PostgreSQL every one an instance was started with, since a configuration may
\* be replaced under the permits it gave.
Limiting == IF dep.dialect = "sqlite" THEN {config} ELSE Range(dep.conf)

\* The live permits of all instances together stay within the global, the
\* per-graph and the per-tool limit, whatever instances crash, lapse, release
\* late or bring another configuration: with SQLite those in force, with
\* PostgreSQL the widest of the instances, which are the ones in force when all
\* share a configuration (_schedule_once, _schedule_postgresql_once,
\* ensure_configuration).
CapacityHeld ==
  LET active == Active(rows) IN
  active # {} =>
    /\ \E c \in Limiting : Cardinality(active) <= GlobalLimit[c]
    /\ \A g \in Graphs : \E c \in Limiting :
         Cardinality({t \in active : GraphOf[t[2]] = g}) <= PerGraphLimit[c]
    /\ \A x \in Tools : \E c \in Limiting :
         Cardinality({t \in active : ToolOf[t[2]] = x}) <= ToolLimit[c][x]

\* What may keep a batch waiting for ever with PostgreSQL: its own tickets have
\* lapsed, or another graph competes for the same turn.
Overtaken(g) ==
  /\ dep.dialect = "postgresql"
  /\ \/ \A n \in Range(batch[g]) : ~rows[driver[g]][n].live
     \/ \E h \in Graphs \ {g} : phase[h] \notin {"idle", "entering"}

\* A dispatcher that waits for admission is eventually answered: with SQLite no
\* graph is starved by others that come back, and with either database the
\* permits of a crashed instance return to whoever waits (acquire_batch,
\* schedule).
AcquireEnds ==
  \A g \in Graphs :
    phase[g] = "waiting" ~> phase[g] # "waiting" \/ Overtaken(g)

=============================================================================
