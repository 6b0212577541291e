------------------------------- MODULE EffectDag -------------------------------
(***************************************************************************)
(* A version 2 effect graph: the tables TaskService keeps for it (nodes,   *)
(* claims, attempts, branch decisions, the incremental ready projection,   *)
(* the compensation plan) and the one worker that drives it, i.e.          *)
(* _run_trusted_effect_dag with its preparer, dispatcher, executor and     *)
(* compensation dispatcher.  One action is one database transaction or one *)
(* answer from outside.  Only the holder of the graph lease can write      *)
(* (EffectGraphLease), so there is one driver; a second writer appears     *)
(* only as the router that applies a cancel sent from another instance.    *)
(* The rows of the Tool call ledger (ToolLedger) are reduced to attempt    *)
(* and grant.                                                              *)
(***************************************************************************)
EXTENDS Integers, FiniteSets, Sequences, FiniteSetsExt

CONSTANTS
  NodeCount,      \* number of nodes; a node is its ordinal
  Success,        \* pairs <<from, to>>: SUCCESS edges
  Conditional,    \* records [from, to, key, outcome]: CONDITIONAL edges
  Reversible,     \* nodes with strategy RECEIPT_BOUND_REVERSE
  Answers,        \* Answers[<<k, n>>]: what the policy may say of attempt k of n
  MaxConcurrency, \* effect_dag_max_concurrency
  MaxLapses       \* bound: claims and permits lost while they are in use

Nodes == 1..NodeCount
Kinds == {"forward", "compensation"}
Edges == Success \cup {<<e.from, e.to>> : e \in Conditional}
Pred(n) == {m \in Nodes : <<m, n>> \in Edges}
Succ(n) == {m \in Nodes : <<n, m>> \in Edges}
\* n and every node it depends on, directly or not.
UpTo == [n \in Nodes |->
           {m \in Nodes : \A S \in SUBSET Nodes :
              (n \in S /\ \A k \in S : Pred(k) \subseteq S) => m \in S}]
BranchesInto(n) == {e \in Conditional : e.to = n}
Decisions == {<<e.from, e.key>> : e \in Conditional}
Outcomes(d) == {e.outcome : e \in {f \in Conditional : <<f.from, f.key>> = d}}
EffectOf == {"allow", "deny", "require_approval"}

\* What _validate_effect_dag accepts: no predecessor is named twice, and the
\* dependencies have no cycle.
ValidDag ==
  /\ NodeCount \in Nat \ {0}
  /\ Success \subseteq Nodes \X Nodes
  /\ \A e \in Conditional : e.from \in Nodes /\ e.to \in Nodes /\ e.outcome # "none"
  /\ \A e \in Conditional : <<e.from, e.to>> \notin Success
  /\ \A e, f \in Conditional : (e.from = f.from /\ e.to = f.to) => e = f
  /\ \A S \in (SUBSET Nodes) \ {{}} : \E n \in S : Pred(n) \cap S = {}

ASSUME DagAssumption == ValidDag

ASSUME BoundAssumption ==
  /\ Reversible \subseteq Nodes
  /\ Answers \in [Kinds \X Nodes -> (SUBSET EffectOf) \ {{}}]
  /\ MaxConcurrency \in Nat \ {0}
  /\ MaxLapses \in Nat

VARIABLES
  graph,    \* status of the graph
  cancel,   \* cancel_requested_at is set
  node,     \* node -> status
  claim,    \* node -> its claim: none, held, or lapsed (expired, not cleared)
  attempt,  \* <<kind, node>> -> status of the attempt and of its Tool call
  grant,    \* <<kind, node>> -> policy answer or state of the approval
  decided,  \* <<source, key>> -> recorded outcome, or "none"
  row,      \* node -> its row of the ready projection
  ready_node_count,
  plan,     \* waves of the compensation plan; empty: no plan yet
  task,     \* running, waiting (approval), reconciling, ended
  at,       \* where the driver is
  batch,    \* nodes being prepared, or claimed and executing
  todo,     \* nodes selected for a claim that are not yet claimed
  asking,   \* the first node of batch got its attempt in this visit
  held,     \* prepare_nodes met a pending approval
  denied,   \* prepare_nodes met a denial
  wave,     \* wave of the plan being compensated
  stop,     \* runtime.stop_requested
  routed,   \* cancel from another instance: none, sent, persisted, reduced, applied
  lapses    \* claims and permits lost so far

tables == <<graph, cancel, node, claim, attempt, grant, decided, row,
            ready_node_count, plan>>
driver == <<at, batch, todo, asking, held, denied, wave>>
vars == <<tables, task, driver, stop, routed, lapses>>

GraphStatus == {"active", "compensating", "succeeded", "failed", "cancelled",
                "compensated", "blocked_unknown", "blocked_non_compensable",
                "blocked_compensation_failed", "blocked_compensation_unknown"}
NodeStatus == {"pending", "active", "waiting_approval", "running", "succeeded",
               "failed", "unknown", "skipped", "cancelled", "compensating",
               "compensated", "compensation_failed", "compensation_unknown"}
AttemptStatus == {"none", "requested", "running", "succeeded", "failed",
                  "cancelled", "unknown"}
GrantStatus == {"none", "allow", "deny", "pending", "approved", "closed"}
Phase == {"idle", "refresh", "ready", "prepare", "dispatch", "select",
          "decide", "claim", "run", "reduce", "plan", "comp", "comp_prepare",
          "comp_remaining", "comp_claim", "comp_run", "comp_reduce",
          "suspended", "gone"}
\* Phases of run_until_idle: only there a cancel finds a dispatcher.
Dispatching == {"dispatch", "select", "decide", "claim", "run", "reduce", "plan"}

Init ==
  /\ graph = "active" /\ cancel = FALSE
  /\ node = [n \in Nodes |-> "pending"]
  /\ claim = [n \in Nodes |-> "none"]
  /\ attempt = [a \in Kinds \X Nodes |-> "none"]
  /\ grant = [a \in Kinds \X Nodes |-> "none"]
  /\ decided = [d \in Decisions |-> "none"]
  /\ row = [n \in Nodes |->
              [remaining |-> Cardinality(Pred(n)),
               unresolved |-> Cardinality(BranchesInto(n)),
               rejected |-> FALSE,
               ready |-> Pred(n) = {}]]
  /\ ready_node_count = Cardinality({n \in Nodes : Pred(n) = {}})
  /\ plan = <<>>
  /\ task = "running" /\ at = "idle" /\ batch = {} /\ todo = {} /\ asking = FALSE
  /\ held = FALSE /\ denied = FALSE /\ wave = 1
  /\ stop = FALSE /\ routed = "none" /\ lapses = 0

------------------------------------------------------------------------------
(* The ready projection.                                                    *)

\* _effect_ready_projection_membership, of a row r of node n.
Membership(n, r, nd, cl) ==
  /\ ~r.rejected /\ r.remaining = 0 /\ r.unresolved = 0
  /\ nd[n] \in {"pending", "active"}
  /\ cl[n] # "held"

\* Mutant: a success is not counted down at the successors' rows.
RowsAfterUncounted(T, nd, cl) ==
  [n \in Nodes |->
     IF n \in T THEN [row[n] EXCEPT !.ready = Membership(n, row[n], nd, cl)]
     ELSE row[n]]

\* _apply_effect_dag_ready_transition for every node of T, whose statuses and
\* claims become nd and cl: a node that starts or ceases to be succeeded moves
\* the counters of its successors, and only T and these successors get their
\* membership recomputed.
RowsAfter(T, nd, cl) ==
  LET toggled == {m \in T : (node[m] = "succeeded") # (nd[m] = "succeeded")}
      gained(n) == {m \in toggled \cap Pred(n) : nd[m] = "succeeded"}
      lost(n) == {m \in toggled \cap Pred(n) : nd[m] # "succeeded"}
      counted(n) == [row[n] EXCEPT !.remaining =
                       @ - Cardinality(gained(n)) + Cardinality(lost(n))]
      touched == T \cup UNION {Succ(m) : m \in toggled}
  IN  [n \in Nodes |->
         IF n \in touched
         THEN [counted(n) EXCEPT !.ready = Membership(n, counted(n), nd, cl)]
         ELSE row[n]]

\* ready_node_count moves by one per membership that changes.
CountAfter(rows) ==
  ready_node_count
    + Cardinality({n \in Nodes : rows[n].ready /\ ~row[n].ready})
    - Cardinality({n \in Nodes : row[n].ready /\ ~rows[n].ready})

\* _record_effect_transition for the nodes T of one transaction.
Record(T, nd, cl, g) ==
  /\ node' = nd /\ claim' = cl /\ graph' = g
  /\ row' = RowsAfter(T, nd, cl)
  /\ ready_node_count' = CountAfter(row')

RecordOne(n, s, c, g) ==
  Record({n}, [node EXCEPT ![n] = s], [claim EXCEPT ![n] = c], g)

\* The reference the projection replaces: _build_effect_ready_set, from nodes,
\* edges and decisions alone.
Selected(n) == \A e \in BranchesInto(n) : decided[<<e.from, e.key>>] = e.outcome
ReadySet ==
  {n \in Nodes : /\ node[n] \in {"pending", "active"}
                 /\ claim[n] # "held"
                 /\ \A m \in Pred(n) : node[m] = "succeeded"
                 /\ Selected(n)}

\* _reconcile_expired_effect_ready_memberships: rows whose claim has expired.
Expired ==
  {n \in Nodes : /\ claim[n] = "lapsed" /\ ~row[n].ready
                 /\ Membership(n, row[n], node, claim)}

\* Mutant: the page lists a node whose branch is not decided yet.
PageUndecided ==
  IF graph = "active" /\ ~cancel
  THEN {n \in Nodes : /\ row[n].remaining = 0 /\ ~row[n].rejected
                      /\ node[n] \in {"pending", "active"} /\ claim[n] # "held"}
  ELSE {}

\* checkpoint_effect_dag_ready_set: the first page of the reconciled rows.  The
\* nodes of the page are compared with nodes, edges and decisions once more,
\* which ProjectionExact shows to be in vain.
Page ==
  IF graph = "active" /\ ~cancel
  THEN {n \in Nodes : row[n].ready} \cup Expired ELSE {}
FirstOf(S) == {n \in S : Cardinality({m \in S : m < n}) < MaxConcurrency}
checkpoint_effect_dag_ready_set ==
  /\ row' = [n \in Nodes |-> IF n \in Expired THEN [row[n] EXCEPT !.ready = TRUE]
                             ELSE row[n]]
  /\ ready_node_count' = ready_node_count + Cardinality(Expired)
  /\ UNCHANGED <<graph, cancel, node, claim, attempt, grant, decided, plan>>

------------------------------------------------------------------------------
(* Reduction and compensation plan.                                         *)

Pending == {n \in Nodes : node[n] = "pending"}
Propagating == {"failed", "unknown", "skipped", "cancelled",
                "compensation_failed", "compensation_unknown"}
Rejected(n) ==
  \E e \in BranchesInto(n) : decided[<<e.from, e.key>>] \notin {"none", e.outcome}

\* Pending nodes the reducer cancels when the cancel intent c is set: nothing
\* blocks them and nothing is open before them.
Cancellable(c) ==
  {n \in Pending : /\ c /\ ~Rejected(n)
                   /\ \A m \in Pred(n) : node[m] = "succeeded"}

\* Pending nodes the reducer skips: it goes over the nodes until none is left
\* with a predecessor that did not succeed.  Nothing after a pending node has
\* left "pending", so these are the nodes stopped themselves and all after them.
Skippable(c) ==
  LET stopped(n) == \/ Rejected(n)
                    \/ \E m \in Pred(n) : \/ node[m] \in Propagating
                                          \/ m \in Cancellable(c)
  IN  {n \in Pending : \E m \in UpTo[n] \cap Pending : stopped(m)}

Reduced(c) ==
  [n \in Nodes |-> IF n \in Skippable(c) THEN "skipped"
                   ELSE IF n \in Cancellable(c) THEN "cancelled" ELSE node[n]]

InFlight == {"pending", "active", "waiting_approval", "running", "compensating"}

\* Mutant: a node that failed does not keep the graph from succeeding.
OutcomeLenient(nd, c) ==
  IF \E n \in Nodes : nd[n] \in InFlight THEN graph
  ELSE IF \E n \in Nodes : nd[n] = "succeeded" THEN "succeeded" ELSE "failed"

\* The status reduce_effect_dag derives from nodes with statuses nd, its tests
\* in the order of the code.
Outcome(nd, c) ==
  LET some(S) == \E n \in Nodes : nd[n] \in S
      applied == {n \in Nodes : nd[n] = "succeeded"}
  IN  IF some(InFlight) THEN graph
      ELSE IF some({"unknown", "compensation_unknown"}) THEN "blocked_unknown"
      ELSE IF c \/ some({"cancelled"}) THEN "cancelled"
      ELSE IF some({"failed", "compensation_failed"})
           THEN IF ~(applied \subseteq Reversible) THEN "blocked_non_compensable"
                ELSE IF applied # {} THEN "compensating" ELSE "failed"
      ELSE IF \A n \in Nodes : nd[n] \in {"succeeded", "skipped"}
           THEN "succeeded" ELSE graph

reduce_effect_dag(c) ==
  /\ cancel' = c
  /\ \E nd \in {Reduced(c)} :
       Record({n \in Nodes : nd[n] # node[n]}, nd, claim, Outcome(nd, c))
  /\ UNCHANGED <<attempt, grant, decided, plan>>

Applied == {n \in Nodes : node[n] = "succeeded" /\ n \in Reversible}
\* Mutant: the plan forgets the dependencies and has a single wave.
OneWave == IF Applied = {} THEN <<>> ELSE <<Applied>>

\* What the first i rounds of the loop in plan_effect_dag_compensation take from
\* the applied nodes: each takes those without a successor among the remaining.
Taken[i \in 0..NodeCount] ==
  IF i = 0 THEN {}
  ELSE Taken[i - 1] \cup {n \in Applied : Succ(n) \cap Applied \subseteq Taken[i - 1]}

\* A round is a wave; the loop ends when nothing remains.
Waves ==
  [i \in 1..Min({k \in 0..NodeCount : Taken[k] = Applied}) |->
     Taken[i] \ Taken[i - 1]]
plan_effect_dag_compensation ==
  /\ plan' = Waves
  /\ UNCHANGED <<graph, cancel, node, claim, attempt, grant, decided, row,
                 ready_node_count>>

------------------------------------------------------------------------------
(* Steps of the driver.                                                     *)

Goto(p) == at' = p
Keep == UNCHANGED <<stop, routed, lapses>>
Live == task # "ended"
\* The worker returns to wait for approvals; a task that has ended meanwhile
\* has no runtime to come back to.
Suspend == IF Live THEN "suspended" ELSE "gone"

\* An exception leaves _run_trusted_effect_dag: the runtime is forgotten and
\* task.failed is appended unless the task has ended already.
Fail ==
  /\ at' = "gone" /\ batch' = {} /\ todo' = {} /\ asking' = FALSE
  /\ task' = "ended"
  /\ UNCHANGED <<held, denied, wave>> /\ Keep

\* Head of the loop: what the graph's status asks for.
forward_pass ==
  /\ at = "idle" /\ graph = "active" /\ ~stop
  /\ Goto("refresh")
  /\ batch' = {n \in Nodes : node[n] = "waiting_approval"}
  /\ held' = FALSE /\ denied' = FALSE
  /\ UNCHANGED <<tables, task, todo, asking, wave>> /\ Keep

compensation_pass ==
  /\ at = "idle" /\ graph = "compensating"
  /\ Goto("comp") /\ wave' = 1
  /\ IF plan = <<>> THEN plan_effect_dag_compensation ELSE UNCHANGED tables
  /\ UNCHANGED <<task, batch, todo, asking, held, denied>> /\ Keep

\* _cancel_inactive_effect_dag, which a stop finds at the head of the loop: the
\* intent, then the reduction.  A graph that a waiting approval keeps active
\* spins until the 100 rounds are used up.
stop_persists ==
  /\ at = "idle" /\ graph = "active" /\ stop /\ ~cancel
  /\ cancel' = TRUE
  /\ UNCHANGED <<graph, node, claim, attempt, grant, decided, row,
                 ready_node_count, plan, task, driver>> /\ Keep

stop_reduces ==
  /\ at = "idle" /\ graph = "active" /\ stop /\ cancel
  /\ reduce_effect_dag(cancel)
  /\ IF graph' = "active" THEN Fail
     ELSE UNCHANGED <<task, driver>> /\ Keep

\* The graph has ended: the task follows, unless a stop or a case is pending.
graph_ended ==
  /\ at = "idle" /\ graph \notin {"active", "compensating"}
  /\ Goto("gone")
  /\ task' = IF \/ graph \in {"blocked_unknown", "blocked_compensation_unknown"}
                \/ graph = "cancelled" /\ stop
             THEN task ELSE "ended"
  /\ UNCHANGED <<tables, batch, todo, asking, held, denied, wave>> /\ Keep

------------------------------------------------------------------------------
(* prepare_nodes: attempt, policy and approval of each node of the batch,   *)
(* in ordinal order, for the forward pass and for a wave.                   *)

Kind == IF at = "comp_prepare" THEN "compensation" ELSE "forward"
Resting == IF Kind = "forward" THEN "pending" ELSE "succeeded"
Preparing == at \in {"refresh", "prepare", "comp_prepare"} /\ batch # {}
Current == Min(batch)
Asked == attempt[<<Kind, Current>>]
Answer == grant[<<Kind, Current>>]
NextNode == batch' = batch \ {Current} /\ asking' = FALSE

\* A node that has its attempt: only an approval that was waited for moves it.
prepare_waiting ==
  /\ Preparing /\ Asked # "none" /\ ~asking
  /\ NextNode
  /\ IF node[Current] = "waiting_approval" /\ Answer = "approved"
     THEN RecordOne(Current, Resting, claim[Current],
                    IF Kind = "forward" THEN "active" ELSE "compensating")
     ELSE UNCHANGED <<graph, node, claim, row, ready_node_count>>
  /\ held' = (held \/ (node[Current] = "waiting_approval" /\ Answer = "pending"))
  /\ denied' = (denied \/ (node[Current] = "waiting_approval" /\ Answer = "closed"))
  /\ UNCHANGED <<cancel, attempt, grant, decided, plan, task, at, todo, wave>>
  /\ Keep

request_effect_tool_call ==
  /\ Preparing /\ Asked = "none" /\ Live
  /\ attempt' = [attempt EXCEPT ![<<Kind, Current>>] = "requested"]
  /\ asking' = TRUE
  /\ RecordOne(Current, node[Current], claim[Current], graph)
  /\ UNCHANGED <<cancel, grant, decided, plan, task, at, batch, todo, held,
                 denied, wave>> /\ Keep

\* apply_policy_decision with fail_task_on_deny off.
MayDecide == task \in {"running", "waiting"}
apply_policy_decision(answer) ==
  /\ Preparing /\ asking /\ Answer = "none" /\ MayDecide
  /\ answer \in Answers[<<Kind, Current>>]
  /\ grant' = [grant EXCEPT ![<<Kind, Current>>] =
                 IF answer = "require_approval" THEN "pending" ELSE answer]
  /\ task' = IF answer = "require_approval" THEN "waiting" ELSE task
  /\ UNCHANGED <<graph, cancel, node, claim, attempt, decided, row,
                 ready_node_count, plan, driver>> /\ Keep

\* The transition that follows the decision; it names the status it expects.
settle_prepared ==
  /\ Preparing /\ asking /\ Answer # "none"
  /\ NextNode
  /\ \/ /\ Answer = "allow"
        /\ UNCHANGED <<graph, node, claim, row, ready_node_count, attempt, held,
                       denied>>
     \/ /\ Answer = "deny" /\ node[Current] = Resting
        /\ RecordOne(Current,
                     IF Kind = "forward" THEN "failed" ELSE "compensation_failed",
                     claim[Current],
                     IF Kind = "forward" THEN "active" ELSE "compensating")
        /\ attempt' = [attempt EXCEPT ![<<Kind, Current>>] = "failed"]
        /\ denied' = TRUE /\ UNCHANGED held
     \/ /\ Answer \in {"pending", "approved", "closed"} /\ node[Current] = Resting
        /\ RecordOne(Current, "waiting_approval", claim[Current],
                     IF Kind = "forward" THEN "active" ELSE "compensating")
        /\ held' = TRUE /\ UNCHANGED <<attempt, denied>>
  /\ UNCHANGED <<cancel, grant, decided, plan, task, at, todo, wave>> /\ Keep

\* The task ended, another node's result is unknown and the task waits for
\* reconciliation, or a routed cancel changed the node.
prepare_refused ==
  /\ Preparing
  /\ \/ ~Live /\ Asked = "none"
     \/ asking /\ Answer = "none" /\ ~MayDecide
     \/ asking /\ Answer \notin {"none", "allow"} /\ node[Current] # Resting
  /\ UNCHANGED tables /\ Fail

\* _run_trusted_effect_dag after each preparation.
refreshed ==
  /\ at = "refresh" /\ batch = {}
  /\ Goto(IF held THEN Suspend ELSE "ready")
  /\ UNCHANGED <<tables, task, batch, todo, asking, held, denied, wave>> /\ Keep

prepare_ready ==
  /\ at = "ready"
  /\ checkpoint_effect_dag_ready_set
  /\ batch' = FirstOf(Page) /\ denied' = FALSE
  /\ Goto("prepare")
  /\ UNCHANGED <<task, todo, asking, held, wave>> /\ Keep

prepared ==
  /\ at = "prepare" /\ batch = {}
  /\ IF denied THEN reduce_effect_dag(cancel) ELSE UNCHANGED tables
  /\ Goto(IF held THEN Suspend ELSE IF stop THEN "idle" ELSE "dispatch")
  /\ UNCHANGED <<task, batch, todo, asking, held, denied, wave>> /\ Keep

\* A suspended worker resumes when the last pending approval is granted.
resume_after_approval ==
  /\ at = "suspended" /\ task = "running"
  /\ Goto("idle") /\ stop' = FALSE
  /\ UNCHANGED <<tables, task, batch, todo, asking, held, denied, wave, routed,
                 lapses>>

------------------------------------------------------------------------------
(* run_until_idle with max_rounds = 1.                                      *)

dispatch_reduces ==
  /\ at \in {"dispatch", "reduce"}
  /\ reduce_effect_dag(cancel)
  /\ Goto(IF graph' = "compensating" THEN "plan"
          ELSE IF at = "dispatch" /\ graph' = "active" THEN "select" ELSE "idle")
  /\ UNCHANGED <<task, batch, todo, asking, held, denied, wave>> /\ Keep

dispatch_plans ==
  /\ at = "plan"
  /\ plan_effect_dag_compensation
  /\ Goto("idle")
  /\ UNCHANGED <<task, batch, todo, asking, held, denied, wave>> /\ Keep

\* The ready nodes of a checkpoint; the admission controller (external) lets a
\* nonempty part of them through.
select_nodes ==
  /\ at = "select" /\ Page # {}
  /\ checkpoint_effect_dag_ready_set
  /\ \E S \in SUBSET FirstOf(Page) : S # {} /\ todo' = S
  /\ Goto("claim")
  /\ UNCHANGED <<task, batch, asking, held, denied, wave>> /\ Keep

\* Nothing is ready: reduce, and decide branches if the graph is still active.
select_nothing ==
  /\ at = "select" /\ Page = {}
  /\ reduce_effect_dag(cancel)
  /\ Goto(IF graph' = "active" THEN "decide"
          ELSE IF graph' = "compensating" THEN "plan" ELSE "idle")
  /\ UNCHANGED <<task, batch, todo, asking, held, denied, wave>> /\ Keep

Undecided == {d \in Decisions : node[d[1]] = "succeeded" /\ decided[d] = "none"}

\* record_effect_dag_branch_decision, with the rows of the decision's edges.
record_effect_dag_branch_decision(d, outcome) ==
  /\ at = "decide" /\ d \in Undecided /\ ~cancel /\ graph = "active"
  /\ outcome \in Outcomes(d)
  /\ decided' = [decided EXCEPT ![d] = outcome]
  /\ row' = [n \in Nodes |->
       LET own == {e \in BranchesInto(n) : <<e.from, e.key>> = d}
           r == [row[n] EXCEPT
                   !.unresolved = @ - Cardinality(own),
                   !.rejected = @ \/ \E e \in own : e.outcome # outcome]
       IN  IF own = {} THEN row[n]
           ELSE [r EXCEPT !.ready = Membership(n, r, node, claim)]]
  /\ ready_node_count' = CountAfter(row')
  /\ batch' = batch \cup {d[1]}
  /\ UNCHANGED <<graph, cancel, node, claim, attempt, grant, plan, task, at,
                 todo, asking, held, denied, wave>> /\ Keep

\* stop_after_branch_decision: back to the head of the loop, reduced.
decided_all ==
  /\ at = "decide" /\ Undecided = {} /\ batch # {}
  /\ reduce_effect_dag(cancel)
  /\ Goto(IF graph' = "compensating" THEN "plan" ELSE "idle")
  /\ batch' = {}
  /\ UNCHANGED <<task, todo, asking, held, denied, wave>> /\ Keep

\* Mutant: a pass without progress is simply tried again.
retry_without_progress ==
  /\ at = "decide" /\ Undecided = {} /\ batch = {}
  /\ Goto("idle")
  /\ UNCHANGED <<tables, task, batch, todo, asking, held, denied, wave>> /\ Keep

\* No claim and no decision ("made no dispatch progress"), or a decision that a
\* cancel has overtaken.
no_progress ==
  /\ at = "decide"
  /\ \/ Undecided = {} /\ batch = {}
     \/ Undecided # {} /\ cancel
  /\ UNCHANGED tables /\ Fail

\* claim_effect_dag_nodes checks the proof of the checkpoint again: only a
\* cancel can have made it stale.
claim_effect_dag_nodes ==
  /\ at = "claim" /\ ~cancel
  /\ Record(todo, [n \in Nodes |-> IF n \in todo THEN "active" ELSE node[n]],
            [n \in Nodes |-> IF n \in todo THEN "held" ELSE claim[n]], "active")
  /\ Goto("run") /\ batch' = todo /\ todo' = {}
  /\ UNCHANGED <<cancel, attempt, grant, decided, plan, task, asking, held,
                 denied, wave>> /\ Keep
claim_proof_rejected ==
  /\ at = "claim" /\ cancel
  /\ Goto("dispatch") /\ todo' = {}
  /\ UNCHANGED <<tables, task, batch, asking, held, denied, wave>> /\ Keep

------------------------------------------------------------------------------
(* LedgerBoundEffectNodeExecutor, one per node of the batch, in parallel.   *)

Executing(n) == at \in {"run", "comp_run"} /\ n \in batch /\ claim[n] = "held"
ExecKind == IF at = "run" THEN "forward" ELSE "compensation"
ExecGraph == IF at = "run" THEN "active" ELSE "compensating"
Claimed == IF at = "run" THEN "active" ELSE "compensating"

\* start_tool_call; a forward start reads the cancel intent again.
start_tool_call(n) ==
  /\ Executing(n) /\ Live /\ node[n] = Claimed
  /\ at = "run" => ~cancel
  /\ attempt[<<ExecKind, n>>] = "requested" /\ grant[<<ExecKind, n>>] \in {"allow", "approved"}
  /\ attempt' = [attempt EXCEPT ![<<ExecKind, n>>] = "running"]
  /\ RecordOne(n, "running", claim[n], ExecGraph)
  /\ UNCHANGED <<cancel, grant, decided, plan, task, driver>> /\ Keep

\* The approval has expired by then: its call and the task are cancelled.
start_tool_call_expired(n) ==
  /\ Executing(n) /\ Live
  /\ attempt[<<ExecKind, n>>] = "requested" /\ grant[<<ExecKind, n>>] = "approved"
  /\ attempt' = [attempt EXCEPT ![<<ExecKind, n>>] = "cancelled"]
  /\ grant' = [grant EXCEPT ![<<ExecKind, n>>] = "closed"]
  /\ task' = "ended"
  /\ UNCHANGED <<graph, cancel, node, claim, decided, row, ready_node_count,
                 plan, driver>> /\ Keep

\* Node status for the terminal status s of a call (_target_status).
TargetStatus(s) ==
  IF at = "run" THEN s
  ELSE IF s = "succeeded" THEN "compensated"
  ELSE IF s = "unknown" THEN "compensation_unknown" ELSE "compensation_failed"

\* finish_effect_tool_call: the claim is given up with the result.
finish_effect_tool_call(n, s) ==
  /\ Executing(n) /\ Live
  /\ \/ attempt[<<ExecKind, n>>] = "running"
        /\ (s = "cancelled" => cancel)
        /\ (s = "unknown" => task # "reconciling")
     \/ attempt[<<ExecKind, n>>] = "requested"
        /\ (s = "failed" \/ (s = "cancelled" /\ cancel /\ at = "run"))
  /\ attempt' = [attempt EXCEPT ![<<ExecKind, n>>] = s]
  /\ RecordOne(n, TargetStatus(s), "none", ExecGraph)
  /\ batch' = batch \ {n}
  /\ task' = IF s = "unknown" THEN "reconciling" ELSE task
  /\ UNCHANGED <<cancel, grant, decided, plan, at, todo, asking, held, denied,
                 wave>> /\ Keep

\* The result is refused: it is a second unknown one, and the task already
\* waits for reconciliation, or the task has ended, or the node was never
\* prepared (a denial has let it move up into the selection) and has no call.
\* _execute_claim falls back to an unknown node, which must still be active;
\* otherwise the exception leaves the gather.
result_refused(n) ==
  /\ Executing(n)
  /\ \/ ~Live \/ attempt[<<ExecKind, n>>] = "none"
     \/ attempt[<<ExecKind, n>>] = "running" /\ task = "reconciling"
  /\ IF node[n] = "active"
     THEN /\ RecordOne(n, "unknown", "none", graph)
          /\ batch' = batch \ {n}
          /\ UNCHANGED <<cancel, attempt, grant, decided, plan, task, at, todo,
                         asking, held, denied, wave>> /\ Keep
     ELSE UNCHANGED tables /\ Fail

\* The claim expires, or the admission permit is lost, while the node executes.
\* Whatever the executor still does is refused; a wave cannot go on without it.
lose_claim(n) ==
  /\ Executing(n) /\ lapses < MaxLapses
  /\ lapses' = lapses + 1
  /\ claim' = [claim EXCEPT ![n] = "lapsed"]
  /\ UNCHANGED <<graph, cancel, node, attempt, grant, decided, row,
                 ready_node_count, plan, stop, routed>>
  /\ IF at = "run"
     THEN batch' = batch \ {n} /\ UNCHANGED <<task, at, todo, asking, held,
                                              denied, wave>>
     ELSE /\ at' = "gone" /\ batch' = {} /\ todo' = {}
          /\ task' = "ended"
          /\ UNCHANGED <<asking, held, denied, wave>>

executed ==
  /\ at = "run" /\ batch = {}
  /\ Goto("reduce")
  /\ UNCHANGED <<tables, task, batch, todo, asking, held, denied, wave>> /\ Keep

------------------------------------------------------------------------------
(* EffectDagCompensationDispatcher: the waves of the plan, with a barrier.  *)

WaveNodes == plan[wave]

comp_prepares ==
  /\ at = "comp" /\ wave <= Len(plan)
  /\ \E n \in WaveNodes : node[n] # "compensated"
  /\ Goto("comp_prepare")
  /\ batch' = {n \in WaveNodes : node[n] \in {"succeeded", "waiting_approval"}}
  /\ held' = FALSE
  /\ UNCHANGED <<tables, task, todo, asking, denied, wave>> /\ Keep

comp_skips_wave ==
  /\ at = "comp" /\ wave <= Len(plan)
  /\ \A n \in WaveNodes : node[n] = "compensated"
  /\ wave' = wave + 1
  /\ UNCHANGED <<tables, task, at, batch, todo, asking, held, denied>> /\ Keep

comp_prepared ==
  /\ at = "comp_prepare" /\ batch = {}
  /\ Goto(IF held THEN Suspend ELSE "comp_remaining")
  /\ todo' = IF held THEN {} ELSE {n \in WaveNodes : node[n] = "succeeded"}
  /\ UNCHANGED <<tables, task, batch, asking, held, denied, wave>> /\ Keep

comp_next_batch ==
  /\ at = "comp_remaining"
  /\ Goto(IF todo = {} THEN "comp_reduce" ELSE "comp_claim")
  /\ UNCHANGED <<tables, task, batch, todo, asking, held, denied, wave>> /\ Keep

Barrier == \A i \in 1..(wave - 1) : \A n \in plan[i] : node[n] = "compensated"

claim_effect_dag_compensation_nodes ==
  /\ at = "comp_claim" /\ graph = "compensating" /\ Barrier
  /\ \E S \in SUBSET FirstOf(todo) :
       /\ S # {} /\ \A n \in S : node[n] = "succeeded"
       /\ Record(S, [n \in Nodes |-> IF n \in S THEN "compensating" ELSE node[n]],
                 [n \in Nodes |-> IF n \in S THEN "held" ELSE claim[n]],
                 "compensating")
       /\ batch' = S /\ todo' = todo \ S
  /\ Goto("comp_run")
  /\ UNCHANGED <<cancel, attempt, grant, decided, plan, task, asking, held,
                 denied, wave>> /\ Keep

comp_claim_refused ==
  /\ at = "comp_claim"
  /\ graph # "compensating" \/ ~Barrier
  /\ UNCHANGED tables /\ Fail

comp_executed ==
  /\ at = "comp_run" /\ batch = {}
  /\ Goto("comp_remaining")
  /\ UNCHANGED <<tables, task, batch, todo, asking, held, denied, wave>> /\ Keep

\* reduce_effect_dag_compensation, after a wave and after the last one.
CompensationOutcome ==
  LET planned == UNION {plan[i] : i \in 1..Len(plan)}
      some(s) == \E n \in planned : node[n] = s
  IN  IF some("compensation_unknown") THEN "blocked_compensation_unknown"
      ELSE IF some("compensation_failed") THEN "blocked_compensation_failed"
      ELSE IF planned # {} /\ \A n \in planned : node[n] = "compensated"
           THEN "compensated" ELSE graph

reduce_effect_dag_compensation ==
  /\ at = "comp_reduce" \/ (at = "comp" /\ wave > Len(plan))
  /\ graph' = CompensationOutcome
  /\ Goto(IF graph' = "compensating" /\ at = "comp_reduce" THEN "comp" ELSE "idle")
  /\ wave' = IF at' = "comp" THEN wave + 1 ELSE wave
  /\ UNCHANGED <<cancel, node, claim, attempt, grant, decided, row,
                 ready_node_count, plan, task, batch, todo, asking, held,
                 denied>> /\ Keep

------------------------------------------------------------------------------
(* The world around the driver.                                             *)

Open == {a \in Kinds \X Nodes : grant[a] = "pending"}

\* The task runs again when its last pending approval is granted.
resolve_approval_approve(a) ==
  /\ a \in Open /\ task = "waiting"
  /\ grant' = [grant EXCEPT ![a] = "approved"]
  /\ task' = IF Open = {a} THEN "running" ELSE task
  /\ UNCHANGED <<graph, cancel, node, claim, attempt, decided, row,
                 ready_node_count, plan, driver>> /\ Keep

\* A rejection, or the expiry of the request, closes the batch, ends the task
\* and forgets the runtime; the graph is not told.
resolve_approval_reject(a) ==
  /\ a \in Open /\ task = "waiting"
  /\ LET closed == {b \in Kinds \X Nodes : /\ grant[b] \in {"pending", "approved"}
                                           /\ attempt[b] = "requested"}
     IN  /\ grant' = [b \in Kinds \X Nodes |->
                        IF b \in closed THEN "closed" ELSE grant[b]]
         /\ attempt' = [b \in Kinds \X Nodes |->
                          IF b \in closed THEN "cancelled" ELSE attempt[b]]
  /\ task' = "ended"
  /\ at' = IF at = "suspended" THEN "gone" ELSE at
  /\ UNCHANGED <<graph, cancel, node, claim, decided, row, ready_node_count,
                 plan, batch, todo, asking, held, denied, wave>> /\ Keep

\* TaskProcessor.cancel where the runtime is: a stop for the worker and, while
\* a dispatcher runs, the intent in the database.
cancel_local ==
  /\ Live /\ at \notin {"gone", "suspended"} /\ ~stop
  /\ stop' = TRUE
  /\ cancel' = (cancel \/ at \in Dispatching)
  /\ UNCHANGED <<graph, node, claim, attempt, grant, decided, row,
                 ready_node_count, plan, task, driver, routed, lapses>>

\* The same without a worker: _cancel_inactive_effect_dag under a fresh lease,
\* its two transactions with nobody between them.
cancel_suspended ==
  /\ Live /\ at = "suspended" /\ ~stop
  /\ stop' = TRUE
  /\ IF graph = "active" THEN reduce_effect_dag(TRUE) ELSE UNCHANGED tables
  /\ UNCHANGED <<task, driver, routed, lapses>>

\* The route then ends the task, once the worker is done.
cancel_task ==
  /\ Live /\ stop /\ at \in {"gone", "suspended"}
  /\ task' = "ended" /\ at' = "gone"
  /\ UNCHANGED <<tables, batch, todo, asking, held, denied, wave>> /\ Keep

\* A cancel from another instance goes through the mailbox.  It is applied by
\* whoever holds the lease (a dispatcher takes it as its own cancel), or by a
\* router that takes the free lease.
control_sent ==
  /\ Live /\ routed = "none" /\ ~cancel
  /\ routed' = "sent"
  /\ UNCHANGED <<tables, task, driver, stop, lapses>>

control_to_dispatcher ==
  /\ routed = "sent" /\ at \in Dispatching
  /\ cancel' = TRUE /\ stop' = TRUE /\ routed' = "applied"
  /\ UNCHANGED <<graph, node, claim, attempt, grant, decided, row,
                 ready_node_count, plan, task, driver, lapses>>

request_effect_dag_cancel ==
  /\ routed = "sent" /\ at \notin Dispatching
  /\ cancel' = TRUE /\ routed' = "persisted"
  /\ UNCHANGED <<graph, node, claim, attempt, grant, decided, row,
                 ready_node_count, plan, task, driver, stop, lapses>>

\* The owner also stops its worker and waits for it; a router that has taken
\* the free lease does not know the worker and ends the task at once.
control_reduces ==
  /\ routed = "persisted" /\ at \notin Dispatching
  /\ reduce_effect_dag(cancel)
  /\ \/ at # "gone" /\ stop' = TRUE /\ routed' = "applied"
     \/ at \in {"idle", "suspended", "gone"} /\ UNCHANGED stop /\ routed' = "reduced"
  /\ UNCHANGED <<task, driver, lapses>>

control_cancels_task ==
  /\ routed = "reduced"
  /\ routed' = "applied" /\ task' = "ended"
  /\ at' = IF at = "suspended" THEN "gone" ELSE at
  /\ UNCHANGED <<tables, batch, todo, asking, held, denied, wave, stop, lapses>>

\* The driver's lease is lost or not available: the runtime is forgotten
\* without a word to the task.  Its claims expire.
lose_lease ==
  /\ at \notin {"gone", "suspended"} /\ lapses < MaxLapses
  /\ lapses' = lapses + 1
  /\ at' = "gone" /\ batch' = {} /\ todo' = {} /\ asking' = FALSE
  /\ claim' = [n \in Nodes |-> IF claim[n] = "held" THEN "lapsed" ELSE claim[n]]
  /\ UNCHANGED <<graph, cancel, node, attempt, grant, decided, row,
                 ready_node_count, plan, task, held, denied, wave, stop, routed>>

Finished == at = "gone" /\ UNCHANGED vars

DriverStep ==
  \/ forward_pass \/ compensation_pass \/ stop_persists \/ stop_reduces
  \/ graph_ended
  \/ prepare_waiting \/ request_effect_tool_call
  \/ \E answer \in EffectOf : apply_policy_decision(answer)
  \/ settle_prepared \/ prepare_refused \/ refreshed \/ prepare_ready \/ prepared
  \/ dispatch_reduces \/ dispatch_plans \/ select_nodes \/ select_nothing
  \/ \E d \in Decisions : \E o \in Outcomes(d) :
       record_effect_dag_branch_decision(d, o)
  \/ decided_all \/ no_progress
  \/ claim_effect_dag_nodes \/ claim_proof_rejected
  \/ \E n \in Nodes : \/ start_tool_call(n) \/ result_refused(n)
                      \/ \E s \in {"succeeded", "failed", "cancelled", "unknown"} :
                           finish_effect_tool_call(n, s)
  \/ executed
  \/ comp_prepares \/ comp_skips_wave \/ comp_prepared \/ comp_next_batch
  \/ claim_effect_dag_compensation_nodes \/ comp_claim_refused \/ comp_executed
  \/ reduce_effect_dag_compensation

Next ==
  \/ DriverStep \/ resume_after_approval
  \/ \E n \in Nodes : lose_claim(n) \/ start_tool_call_expired(n)
  \/ \E a \in Kinds \X Nodes : \/ resolve_approval_approve(a)
                               \/ resolve_approval_reject(a)
  \/ cancel_local \/ cancel_suspended \/ cancel_task
  \/ control_sent \/ control_to_dispatcher
  \/ request_effect_dag_cancel \/ control_reduces \/ control_cancels_task
  \/ lose_lease \/ Finished

\* The worker is a task of the event loop: it keeps running while it can, and a
\* call of the Runner ends, at the latest by its timeout.
Spec == Init /\ [][Next]_vars /\ WF_vars(DriverStep)

------------------------------------------------------------------------------
(* Properties.                                                              *)

\* The statuses are those of the enumerations, no counter of a row and not the
\* count of the ready nodes ever falls below zero.
TypeOK ==
  /\ graph \in GraphStatus /\ cancel \in BOOLEAN
  /\ node \in [Nodes -> NodeStatus]
  /\ claim \in [Nodes -> {"none", "held", "lapsed"}]
  /\ attempt \in [Kinds \X Nodes -> AttemptStatus]
  /\ grant \in [Kinds \X Nodes -> GrantStatus]
  /\ decided \in [Decisions -> {"none"} \cup {e.outcome : e \in Conditional}]
  /\ row \in [Nodes -> [remaining : Nat, unresolved : Nat, rejected : BOOLEAN,
                        ready : BOOLEAN]]
  /\ ready_node_count \in Nat
  /\ plan \in Seq(SUBSET Nodes)
  /\ task \in {"running", "waiting", "reconciling", "ended"}
  /\ at \in Phase /\ batch \subseteq Nodes /\ todo \subseteq Nodes
  /\ asking \in BOOLEAN /\ held \in BOOLEAN /\ denied \in BOOLEAN
  /\ wave \in Nat \ {0} /\ stop \in BOOLEAN
  /\ routed \in {"none", "sent", "persisted", "reduced", "applied"}
  /\ lapses \in 0..MaxLapses

\* The incremental projection is the ready set of the reference definition: no
\* counter drifts, no node that is not ready is listed, only a claim that has
\* just expired may be missing, and the count is that of the rows.
ProjectionExact ==
  /\ \A n \in Nodes :
       /\ row[n].remaining = Cardinality({m \in Pred(n) : node[m] # "succeeded"})
       /\ row[n].unresolved =
            Cardinality({e \in BranchesInto(n) : decided[<<e.from, e.key>>] = "none"})
       /\ row[n].rejected = Rejected(n)
       /\ row[n].ready => n \in ReadySet
       /\ (n \in ReadySet /\ ~row[n].ready) => claim[n] = "lapsed"
  /\ ready_node_count = Cardinality({n \in Nodes : row[n].ready})

\* No Tool of a node is started before every predecessor has succeeded and
\* every branch into it has been decided its way, whatever was retried,
\* reclaimed, cancelled or compensated since.
ForwardInOrder ==
  \A n \in Nodes : attempt[<<"forward", n>>] \in {"running", "succeeded", "unknown"} =>
    /\ \A m \in Pred(n) : attempt[<<"forward", m>>] = "succeeded"
    /\ Selected(n)

\* No effect is reversed while the effect of a later node that builds on it
\* still stands, or may stand.
CompensationInWaves ==
  \A n \in Nodes : attempt[<<"compensation", n>>] \in {"running", "succeeded", "unknown"} =>
    \A m \in Succ(n) :
      \/ attempt[<<"forward", m>>] \in {"none", "requested", "failed", "cancelled"}
      \/ attempt[<<"compensation", m>>] = "succeeded"

\* An end that claims a clean slate has one: a graph that succeeded applied all
\* it selected, one that failed or was compensated left no effect behind.
EndIsTruthful ==
  LET stands(n) == /\ attempt[<<"forward", n>>] = "succeeded"
                   /\ attempt[<<"compensation", n>>] # "succeeded"
      open(k, n) == attempt[<<k, n>>] \in {"running", "unknown"}
  IN  /\ graph = "succeeded" =>
           \A n \in Nodes : stands(n) \/ node[n] = "skipped"
      /\ graph \in {"failed", "compensated"} =>
           \A n \in Nodes : ~stands(n) /\ \A k \in Kinds : ~open(k, n)

\* The driver never runs for ever and never hangs: whenever it is woken it ends,
\* or waits for an approval again.
DriverSettles == []<>(at \in {"gone", "suspended"})

\* doc/45, lines 51 and 85: compensation that has begun is not interrupted by a
\* cancel; it ends compensated or blocked.
CompensationNotInterrupted ==
  [][graph = "compensating" =>
       graph' \in {"compensating", "compensated", "blocked_compensation_failed",
                   "blocked_compensation_unknown"}]_vars
==============================================================================
