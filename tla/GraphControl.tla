---------------------------- MODULE GraphControl ----------------------------
(***************************************************************************)
(* The mailbox that carries a cancel to the instance that owns a version 2 *)
(* effect DAG.  A request on an instance without the task's runtime writes *)
(* one control row per graph; every instance's router polls the mailbox,   *)
(* addresses the row to the live lease, takes the lease over when there is *)
(* none, claims the row, applies it and acknowledges it.  Meanwhile the    *)
(* workers of the task (one per instance that restored its checkpoint)     *)
(* take and release the same lease round after round.                      *)
(*                                                                         *)
(* One graph and its row: the other rows of a router's batch show up only  *)
(* as a delay without heartbeat and as an exception that drops the batch.  *)
(* Fencing tokens are only ever compared for equality, so a new one is the *)
(* least number nobody remembers and the state space stays finite however  *)
(* often a delivery is retried.                                            *)
(***************************************************************************)
EXTENDS Naturals, FiniteSets, FiniteSetsExt

CONSTANTS
  Instances,  \* API processes; a restart gives a process a new identity
  Nobody,     \* owner column is NULL
  Gone,       \* the identity of a process that has died
  Deployments \* who has restored the task, with bounds

\* Any set of instances may have restored the task's checkpoint: recovery takes
\* no lease for a version 2 graph.  rounds bounds the dispatcher's rounds, asks
\* the suspensions for an approval, faults the crashes and, on their own, the
\* lost heartbeats and failed handlers.
Deployment == [restored : SUBSET Instances, rounds : Nat \ {0}, asks : Nat,
               crashes : Nat, faults : Nat]

ASSUME ControlAssumption ==
  /\ IsFiniteSet(Instances) /\ {Nobody, Gone} \cap Instances = {} /\ Nobody # Gone
  /\ Deployments \subseteq Deployment

VARIABLES
  graph,    \* "active" or "ended"
  cancel,   \* cancel_requested_at is set
  waiting,  \* a node is waiting_approval
  left,     \* rounds left
  asks,     \* approvals left to ask for
  lease,    \* lease columns of the graph row
  task,     \* "open", "cancelled" or "ended"
  ctl,      \* the control row
  router,   \* what each router is doing
  rt,       \* the task's runtime in each instance
  crashes,  \* crashes left
  faults    \* other faults left

vars == <<graph, cancel, waiting, left, asks, lease, task, ctl, router, rt, crashes, faults>>
work == <<waiting, left, asks>>

Owners == Instances \cup {Nobody, Gone}
Tokens == 0 .. 3 * Cardinality(Instances) + 2

\* What nobody can read again is reset: columns of a lease or claim that lapsed.
NoLease == [owner |-> Nobody, fence |-> 0, live |-> FALSE]
NoControl == [status |-> "none", target |-> Nobody, tfence |-> 0, due |-> TRUE,
              claimer |-> Nobody, cfence |-> 0, clive |-> FALSE]
Resting == [pc |-> "idle", took |-> FALSE, direct |-> FALSE, late |-> FALSE,
            tfence |-> 0, cfence |-> 0]
NoRuntime == [pc |-> "none", stop |-> FALSE, fence |-> 0]

RouterPc == {"idle", "takeover", "reroute", "claim", "queued", "persist",
             "cancelling", "reducing", "awaiting", "closing", "marking",
             "superseding", "retrying", "releasing"}
\* loop: head of _run_trusted_effect_dag; stopX: _cancel_inactive_effect_dag.
WorkerPc == {"none", "idle", "loop", "prepare", "gap", "dispatch", "leave",
             "stop_cancel", "stop_reduce", "stop_release"}

TypeOK ==
  /\ graph \in {"active", "ended"} /\ task \in {"open", "cancelled", "ended"}
  /\ cancel \in BOOLEAN /\ waiting \in BOOLEAN
  /\ left \in Nat /\ asks \in Nat /\ crashes \in Nat /\ faults \in Nat
  /\ lease \in [owner : Owners, fence : Tokens, live : BOOLEAN]
  /\ ctl \in [status : {"none", "pending", "processing", "applied", "superseded"},
              target : Owners, tfence : Tokens, due : BOOLEAN,
              claimer : Owners, cfence : Tokens, clive : BOOLEAN]
  /\ router \in [Instances -> [pc : RouterPc, took : BOOLEAN, direct : BOOLEAN,
                               late : BOOLEAN, tfence : Tokens, cfence : Tokens]]
  /\ rt \in [Instances -> [pc : WorkerPc, stop : BOOLEAN, fence : Tokens]]

Init ==
  /\ graph = "active" /\ cancel = FALSE /\ waiting = FALSE
  /\ task = "open"
  /\ \E d \in Deployments :
       /\ left = d.rounds /\ asks = d.asks /\ crashes = d.crashes /\ faults = d.faults
       /\ rt = [i \in Instances |->
                 IF i \in d.restored THEN [NoRuntime EXCEPT !.pc = "loop"] ELSE NoRuntime]
  /\ lease = NoLease
  /\ ctl = NoControl
  /\ router = [i \in Instances |-> Resting]

-----------------------------------------------------------------------------
(* The graph's lease.                                                      *)

\* _assert_effect_graph_lease: the caller still is the live owner.
Fenced(i, f) == lease.live /\ lease.owner = i /\ lease.fence = f

Remembered ==
  {lease.fence, ctl.tfence} \cup {router[i].tfence : i \in Instances}
    \cup {rt[i].fence : i \in Instances}
Fresh(used) == Min(Tokens \ ({0} \cup used))

Free(i) == ~lease.live \/ lease.owner = i

\* A live owner renews under its fence, anyone may replace a lapsed one.
acquire_effect_graph_lease(i) ==
  /\ Free(i)
  /\ lease' = IF lease.live THEN lease
              ELSE [owner |-> i, fence |-> Fresh(Remembered), live |-> TRUE]

release_effect_graph_lease(i, f) ==
  lease' = IF lease.owner = i /\ lease.fence = f
           THEN NoLease ELSE lease

\* reduce_effect_dag under a cancel intent: nothing in flight, the graph ends.
Reduced == IF cancel /\ ~waiting THEN "ended" ELSE graph

-----------------------------------------------------------------------------
(* The control row.                                                        *)

\* _live_target
Addressed(c) ==
  IF lease.live THEN [c EXCEPT !.target = lease.owner, !.tfence = lease.fence]
  ELSE [c EXCEPT !.target = Nobody, !.tfence = 0]

\* Mutant: the claim of a router that died is never taken back.
RoutableUnlessClaimed == ctl.status \notin {"none", "applied", "processing"}

\* Every row not applied and without a live claim is addressed anew, a row
\* that waits for its retry too.
Routable ==
  /\ ctl.status \notin {"none", "applied"}
  /\ ~(ctl.status = "processing" /\ ctl.clive)

route_pending ==
  ctl' = IF Routable
         THEN [Addressed(ctl) EXCEPT !.status = "pending"]
         ELSE ctl

\* _matches_live_target and the WHERE clause of the candidates.
Claimable(i) ==
  /\ ctl.status = "pending" /\ ctl.target = i /\ ctl.due
  /\ Fenced(i, ctl.tfence)

\* The claim of router i still is the row's.
HoldsClaim(i) ==
  /\ ctl.status = "processing" /\ ctl.clive
  /\ ctl.claimer = i /\ ctl.cfence = router[i].cfence

\* retry: refused, like the acknowledgement, once the claim is lost.
retry(i, superseded) ==
  ctl' = IF ~HoldsClaim(i) THEN ctl
         ELSE [ctl EXCEPT !.status = IF superseded THEN "superseded" ELSE "pending",
                          !.target = IF superseded THEN Nobody ELSE @,
                          !.tfence = IF superseded THEN 0 ELSE @,
                          !.due = FALSE, !.claimer = Nobody, !.cfence = 0,
                          !.clive = FALSE]

-----------------------------------------------------------------------------
(* EffectGraphControlRouter.                                               *)

Goto(i, pc) == router' = [router EXCEPT ![i].pc = pc]

\* process_once: address the row, take over a graph nobody owns, address the
\* row again, claim it.
route(i) ==
  /\ router[i].pc = "idle" /\ Routable
  /\ route_pending
  /\ Goto(i, IF lease.live THEN "claim" ELSE "takeover")
  /\ UNCHANGED <<graph, cancel, work, lease, task, rt, crashes, faults>>

takeover(i) ==
  /\ router[i].pc = "takeover"
  /\ IF Free(i)
     THEN /\ acquire_effect_graph_lease(i)
          /\ router' = [router EXCEPT ![i].pc = "reroute", ![i].took = TRUE]
     ELSE UNCHANGED lease /\ Goto(i, "claim")
  /\ UNCHANGED <<graph, cancel, work, task, ctl, rt, crashes, faults>>

reroute(i) ==
  /\ router[i].pc = "reroute"
  /\ route_pending
  /\ Goto(i, "claim")
  /\ UNCHANGED <<graph, cancel, work, lease, task, rt, crashes, faults>>

claim_for_owner(i) ==
  /\ router[i].pc = "claim"
  /\ IF Claimable(i)
     THEN LET c == Fresh({ctl.cfence} \cup {router[j].cfence : j \in Instances})
          IN /\ ctl' = [ctl EXCEPT !.status = "processing", !.claimer = i,
                                   !.cfence = c, !.clive = TRUE]
             /\ router' = [router EXCEPT ![i].pc = "queued", ![i].cfence = c,
                                         ![i].tfence = ctl.tfence]
     ELSE UNCHANGED ctl /\ router' = [router EXCEPT ![i] = Resting]
  /\ UNCHANGED <<graph, cancel, work, lease, task, rt, crashes, faults>>

\* apply_effect_graph_control, up to its first write: through the dispatcher
\* if its fence is the claimed one, without one for an idle runtime, directly
\* when this instance does not run the task.
HasDispatcher(i) == rt[i].pc \in {"gap", "dispatch", "leave"}
DispatcherUnder(i, f) == rt[i].pc \in {"dispatch", "leave"} /\ rt[i].fence = f

apply_effect_graph_control(i) ==
  /\ router[i].pc = "queued"
  /\ \/ /\ rt[i].pc = "none"
        /\ router' = [router EXCEPT ![i].pc = "cancelling", ![i].direct = TRUE]
        /\ UNCHANGED rt
     \/ /\ HasDispatcher(i)
        /\ rt' = [rt EXCEPT ![i].stop = TRUE]
        /\ Goto(i, IF DispatcherUnder(i, router[i].tfence) THEN "persist"
                   ELSE "superseding")
     \/ /\ rt[i].pc # "none" /\ ~HasDispatcher(i)
        /\ Goto(i, "cancelling")
        /\ UNCHANGED rt
  /\ UNCHANGED <<graph, cancel, work, lease, task, ctl, crashes, faults>>

\* _apply_pending_cancel, after the admission's waiters were cancelled: by
\* now the dispatcher may have left, and then nothing is written.
apply_pending_cancel(i) ==
  /\ router[i].pc = "persist"
  /\ LET f == router[i].tfence
     IN IF DispatcherUnder(i, f)
        THEN /\ cancel' = (cancel \/ Fenced(i, f))
             /\ Goto(i, IF Fenced(i, f) THEN "awaiting" ELSE "superseding")
        ELSE /\ router' = [router EXCEPT ![i].pc = "awaiting", ![i].late = TRUE]
             /\ UNCHANGED cancel
  /\ UNCHANGED <<graph, work, lease, task, ctl, rt, crashes, faults>>

\* Mutant: a lost fence is taken for a cancel somebody else applies.
request_effect_dag_cancel_lenient(i) ==
  /\ router[i].pc = "cancelling"
  /\ LET f == Fenced(i, router[i].tfence)
     IN /\ cancel' = (cancel \/ f)
        /\ Goto(i, IF f THEN "reducing" ELSE "closing")
  /\ UNCHANGED <<graph, work, lease, task, ctl, rt, crashes, faults>>

request_effect_dag_cancel(i) ==
  /\ router[i].pc = "cancelling"
  /\ LET f == Fenced(i, router[i].tfence)
     IN /\ cancel' = (cancel \/ f)
        /\ Goto(i, IF f THEN "reducing" ELSE "superseding")
  /\ UNCHANGED <<graph, work, lease, task, ctl, rt, crashes, faults>>

reduce_effect_dag(i) ==
  /\ router[i].pc = "reducing"
  /\ IF Fenced(i, router[i].tfence)
     THEN /\ graph' = Reduced
          /\ rt' = IF rt[i].pc = "none" THEN rt ELSE [rt EXCEPT ![i].stop = TRUE]
          /\ Goto(i, IF router[i].direct THEN "closing" ELSE "awaiting")
     ELSE UNCHANGED <<graph, rt>> /\ Goto(i, "superseding")
  /\ UNCHANGED <<cancel, work, lease, task, ctl, crashes, faults>>

WorkerDone(i) == rt[i].pc \in {"none", "idle"}

await_worker(i) ==
  /\ router[i].pc = "awaiting" /\ WorkerDone(i)
  /\ Goto(i, "closing")
  /\ UNCHANGED <<graph, cancel, work, lease, task, ctl, rt, crashes, faults>>

\* The heartbeat of the claim has failed.
heartbeat_lost(i) ==
  /\ router[i].pc = "closing" /\ ~HoldsClaim(i)
  /\ Goto(i, "superseding")
  /\ UNCHANGED <<graph, cancel, work, lease, task, ctl, rt, crashes, faults>>

cancel_task(i) ==
  /\ router[i].pc = "closing"
  /\ task' = IF task = "open" THEN "cancelled" ELSE task
  /\ Goto(i, "marking")
  /\ UNCHANGED <<graph, cancel, work, lease, ctl, rt, crashes, faults>>

\* forget: a worker that runs again goes on without its entry.
Forgotten(i) == IF WorkerDone(i) THEN [rt EXCEPT ![i] = NoRuntime] ELSE rt

mark_applied(i) ==
  /\ router[i].pc = "marking"
  /\ IF HoldsClaim(i)
     THEN /\ ctl' = [NoControl EXCEPT !.status = "applied"]
          /\ rt' = Forgotten(i)
          /\ Goto(i, "releasing")
     ELSE UNCHANGED <<ctl, rt>> /\ Goto(i, "superseding")
  /\ UNCHANGED <<graph, cancel, work, lease, task, crashes, faults>>

give_back(i) ==
  /\ \/ router[i].pc = "superseding" /\ retry(i, TRUE)
     \/ router[i].pc = "retrying" /\ retry(i, FALSE)
  /\ Goto(i, "releasing")
  /\ UNCHANGED <<graph, cancel, work, lease, task, rt, crashes, faults>>

\* The finally clause of _apply_claim.
release(i) ==
  /\ router[i].pc = "releasing"
  /\ IF router[i].direct \/ router[i].took
     THEN release_effect_graph_lease(i, router[i].tfence)
     ELSE UNCHANGED lease
  /\ router' = [router EXCEPT ![i] = Resting]
  /\ UNCHANGED <<graph, cancel, work, task, ctl, rt, crashes, faults>>

-----------------------------------------------------------------------------
(* POST /tasks/{id}:cancel on an instance that does not run the task.  The *)
(* request then only reads the row until it is applied or 503 is due, and  *)
(* a repeated request finds the row: neither changes any state.            *)

request_cancel(i) ==
  /\ ctl.status = "none" /\ task = "open" /\ rt[i].pc = "none"
  /\ ctl' = [Addressed(ctl) EXCEPT !.status = "pending"]
  /\ UNCHANGED <<graph, cancel, work, lease, task, router, rt, crashes, faults>>

-----------------------------------------------------------------------------
(* The worker of the task, as far as the lease and the cancel go.          *)

Worker(i, pc) == rt' = [rt EXCEPT ![i].pc = pc]
Unleased(i, pc) == rt' = [rt EXCEPT ![i].pc = pc, ![i].fence = 0]
Leased(i, pc) == rt' = [rt EXCEPT ![i].pc = pc, ![i].fence = lease'.fence]
Dropped(i) == rt' = [rt EXCEPT ![i] = NoRuntime]

\* Head of the loop.  LeaseUnavailable ends the worker; a graph that has
\* ended ends the task, except when a result stayed unknown or when whoever
\* stopped the worker is about to cancel the task.
worker_head(i) ==
  /\ rt[i].pc = "loop"
  /\ \/ /\ graph = "ended"
        /\ task' \in IF task = "open" /\ ~(cancel /\ rt[i].stop)
                     THEN {"open", "ended"} ELSE {task}
        /\ Dropped(i) /\ UNCHANGED lease
     \/ /\ graph = "active" /\ ~Free(i)
        /\ Dropped(i) /\ UNCHANGED <<lease, task>>
     \/ /\ graph = "active"
        /\ acquire_effect_graph_lease(i)
        /\ Leased(i, IF rt[i].stop THEN "stop_cancel" ELSE "prepare")
        /\ UNCHANGED task
  /\ UNCHANGED <<graph, cancel, work, ctl, router, crashes, faults>>

\* Policy, approvals and ready set are prepared under a lease of their own.
prepare(i) ==
  /\ rt[i].pc = "prepare"
  /\ release_effect_graph_lease(i, rt[i].fence)
  /\ IF ~Fenced(i, rt[i].fence) THEN Dropped(i) /\ UNCHANGED work
     ELSE \/ /\ waiting
             /\ Unleased(i, "idle") /\ UNCHANGED work
          \/ /\ ~waiting /\ asks > 0
             /\ waiting' = TRUE /\ asks' = asks - 1
             /\ Unleased(i, "idle") /\ UNCHANGED left
          \/ /\ ~waiting
             /\ Unleased(i, IF rt[i].stop THEN "loop" ELSE "gap") /\ UNCHANGED work
  /\ UNCHANGED <<graph, cancel, task, ctl, router, crashes, faults>>

\* continue_after_approval forgets an earlier stop.
continue_after_approval(i) ==
  /\ rt[i].pc = "idle" /\ waiting /\ task = "open"
  /\ waiting' = FALSE
  /\ rt' = [rt EXCEPT ![i].pc = "loop", ![i].stop = FALSE]
  /\ UNCHANGED <<graph, cancel, left, asks, lease, task, ctl, router, crashes, faults>>

\* run_until_idle: one round of the dispatcher under a new lease.
dispatcher_starts(i) ==
  /\ rt[i].pc = "gap"
  /\ \/ ~Free(i) /\ Dropped(i) /\ UNCHANGED lease
     \/ acquire_effect_graph_lease(i) /\ Leased(i, "dispatch")
  /\ UNCHANGED <<graph, cancel, work, task, ctl, router, crashes, faults>>

dispatch(i) ==
  /\ rt[i].pc = "dispatch"
  /\ IF Fenced(i, rt[i].fence)
     THEN /\ left' = IF cancel \/ graph = "ended" THEN left ELSE left - 1
          /\ graph' = IF cancel THEN Reduced
                      ELSE IF left' = 0 THEN "ended" ELSE graph
          /\ Worker(i, "leave") /\ UNCHANGED lease
     ELSE /\ release_effect_graph_lease(i, rt[i].fence)
          /\ Dropped(i) /\ UNCHANGED <<graph, left>>
  /\ UNCHANGED <<cancel, waiting, asks, task, ctl, router, crashes, faults>>

dispatcher_leaves(i) ==
  /\ rt[i].pc = "leave"
  /\ release_effect_graph_lease(i, rt[i].fence)
  /\ Unleased(i, "loop")
  /\ UNCHANGED <<graph, cancel, work, task, ctl, router, crashes, faults>>

\* _cancel_inactive_effect_dag; a graph that stays active (a node waits for
\* an approval) uses up the worker's rounds and fails the task.
stop_cancel(i) ==
  /\ rt[i].pc = "stop_cancel"
  /\ IF Fenced(i, rt[i].fence)
     THEN cancel' = TRUE /\ Worker(i, "stop_reduce") /\ UNCHANGED lease
     ELSE UNCHANGED cancel /\ Dropped(i) /\ release_effect_graph_lease(i, rt[i].fence)
  /\ UNCHANGED <<graph, work, task, ctl, router, crashes, faults>>

stop_reduce(i) ==
  /\ rt[i].pc = "stop_reduce"
  /\ IF Fenced(i, rt[i].fence)
     THEN graph' = Reduced /\ Worker(i, "stop_release") /\ UNCHANGED lease
     ELSE UNCHANGED graph /\ Dropped(i) /\ release_effect_graph_lease(i, rt[i].fence)
  /\ UNCHANGED <<cancel, work, task, ctl, router, crashes, faults>>

stop_release(i) ==
  /\ rt[i].pc = "stop_release"
  /\ release_effect_graph_lease(i, rt[i].fence)
  /\ IF graph = "active"
     THEN Dropped(i) /\ task' = IF task = "open" THEN "ended" ELSE task
     ELSE Unleased(i, "loop") /\ UNCHANGED task
  /\ UNCHANGED <<graph, cancel, work, ctl, router, crashes, faults>>

-----------------------------------------------------------------------------
(* Time and faults.                                                        *)

\* Heartbeats in progress: a worker's graph lease, the claim being applied.
LeaseRenewed == \E i \in Instances :
  /\ lease.owner = i
  /\ \/ rt[i].fence = lease.fence /\ rt[i].pc \notin {"none", "idle", "loop", "gap"}
     \/ router[i].pc # "idle"
ClaimRenewed == \E i \in Instances : HoldsClaim(i) /\ router[i].pc # "idle"

Charge(renewed) == faults' = IF renewed THEN faults - 1 ELSE faults

\* A lease or a claim that nobody renews expires; one that is renewed, or so
\* young that its router has not finished its round, only by a fault.
lease_lapses ==
  /\ lease.live /\ (LeaseRenewed => faults > 0)
  /\ lease' = NoLease
  /\ Charge(LeaseRenewed)
  /\ UNCHANGED <<graph, cancel, work, task, ctl, router, rt, crashes>>

claim_lapses ==
  /\ ctl.status = "processing" /\ ctl.clive /\ (ClaimRenewed => faults > 0)
  /\ ctl' = [ctl EXCEPT !.claimer = Nobody, !.cfence = 0, !.clive = FALSE]
  /\ Charge(ClaimRenewed)
  /\ UNCHANGED <<graph, cancel, work, lease, task, router, rt, crashes>>

backoff_ends ==
  /\ ctl.status \in {"pending", "superseded"} /\ ~ctl.due
  /\ ctl' = [ctl EXCEPT !.due = TRUE]
  /\ UNCHANGED <<graph, cancel, work, lease, task, router, rt, crashes, faults>>

\* Any other exception of the handler.
handler_fails(i) ==
  /\ faults > 0 /\ faults' = faults - 1
  /\ router[i].pc \in {"persist", "cancelling", "reducing", "closing"}
  /\ Goto(i, "retrying")
  /\ UNCHANGED <<graph, cancel, work, lease, task, ctl, rt, crashes>>

\* An earlier row of the batch lost its claim: its exception ends
\* process_once, and the rest of the batch keeps its claims.
batch_dropped(i) ==
  /\ faults > 0 /\ faults' = faults - 1
  /\ router[i].pc = "queued"
  /\ router' = [router EXCEPT ![i] = Resting]
  /\ UNCHANGED <<graph, cancel, work, lease, task, ctl, rt, crashes>>

\* The process dies; the one that replaces it has another identity and may
\* restore the task's checkpoint.
crash(i) ==
  /\ crashes > 0 /\ crashes' = crashes - 1
  /\ LET Renamed(x) == IF x = i THEN Gone ELSE x
     IN /\ lease' = [lease EXCEPT !.owner = Renamed(@)]
        /\ ctl' = [ctl EXCEPT !.target = Renamed(@), !.claimer = Renamed(@)]
  /\ router' = [router EXCEPT ![i] = Resting]
  /\ \/ Dropped(i)
     \/ /\ task = "open"
        /\ rt' = [rt EXCEPT ![i] = [NoRuntime EXCEPT !.pc = IF waiting THEN "idle" ELSE "loop"]]
  /\ UNCHANGED <<graph, cancel, work, task, faults>>

-----------------------------------------------------------------------------
Route(i) ==
  \/ route(i) \/ takeover(i) \/ reroute(i) \/ claim_for_owner(i)
  \/ apply_effect_graph_control(i) \/ apply_pending_cancel(i)
  \/ request_effect_dag_cancel(i) \/ reduce_effect_dag(i)
  \/ await_worker(i) \/ heartbeat_lost(i) \/ cancel_task(i) \/ mark_applied(i)
  \/ give_back(i) \/ release(i)

Work(i) ==
  \/ worker_head(i) \/ prepare(i) \/ dispatcher_starts(i) \/ dispatch(i)
  \/ dispatcher_leaves(i) \/ stop_cancel(i) \/ stop_reduce(i) \/ stop_release(i)

Time == lease_lapses \/ claim_lapses \/ backoff_ends
Fault(i) == handler_fails(i) \/ batch_dropped(i) \/ crash(i)

Next ==
  \/ \E i \in Instances :
       Route(i) \/ Work(i) \/ request_cancel(i) \/ continue_after_approval(i) \/ Fault(i)
  \/ Time

\* Routers poll for ever, workers run to their end, and time passes.
\* Approvals, requests and faults need not happen.
Fairness ==
  /\ \A i \in Instances : WF_vars(Route(i)) /\ WF_vars(Work(i))
  /\ WF_vars(lease_lapses /\ ~LeaseRenewed)
  /\ WF_vars(claim_lapses /\ ~ClaimRenewed)
  /\ WF_vars(backoff_ends)

Spec == Init /\ [][Next]_vars /\ Fairness

-----------------------------------------------------------------------------
\* A cancel is acknowledged only after it took effect, whichever router
\* applied it, however often it was delivered and whoever held the lease
\* meanwhile: the task is terminal, and the graph has ended or carries the
\* cancel intent (_apply_claim), unless the dispatcher it was handed to had
\* already left its round when _apply_pending_cancel came to write.
AppliedUnderIntent ==
  [][\A i \in Instances :
       ctl.status # "applied" /\ ctl'.status = "applied" /\ ctl.claimer = i =>
         task # "open" /\ (cancel \/ graph = "ended" \/ router[i].late)]_vars

\* A cancel once written to the mailbox is applied in the end: claims of dead
\* routers, leases of dead owners, lost fences and failed handlers only delay
\* it (route_pending, retry, takeover).
ControlSettles == ctl.status # "none" ~> ctl.status = "applied"
=============================================================================
