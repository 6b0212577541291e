---------------------------- MODULE SagaExecution ----------------------------
(***************************************************************************)
(* TaskProcessor driving one task through its nine stages over a linear    *)
(* effect graph: a saga of file moves, or the single Tool call of any      *)
(* other version 1 request.  The worker coroutine runs one transaction of  *)
(* TaskService after the other; between two of them the process may crash, *)
(* the lease may be lost and HTTP requests (pause, resume, cancel, approve,*)
(* reject, reconciliation) may take their own steps.  The ledger part of   *)
(* every step is the action of ToolLedger with the same name.              *)
(*                                                                         *)
(* A graceful shutdown is a pause of the running worker followed by the    *)
(* end of the process, and needs no action of its own.                     *)
(***************************************************************************)
EXTENDS ToolLedger, Naturals

CONSTANTS NodeCount,  \* number of operations of the request
          IsSaga      \* FileMoveSagaRequest, or a request with one Tool call

Nodes == 1..NodeCount
Modes == {"forward", "compensating"}

\* A node has one call in each direction (effect_call_id).
ASSUME SagaAssumption ==
  /\ NodeCount \in Nat \ {0}
  /\ IsSaga \in BOOLEAN
  /\ IF IsSaga THEN NodeCount >= 2 ELSE NodeCount = 1
  /\ Calls = Modes \X Nodes
  /\ EffectCalls = Calls

VARIABLES
  graph,       \* ToolEffectGraphRecord.status, "none" before stage 1
  mode,        \* ToolEffectGraphRecord.execution_mode
  node,        \* ToolEffectNodeRecord.status
  verdict,     \* the outcome a person gave for an unknown call
  saved,       \* the payload of the checkpoint row
  rt,          \* the fields of _TaskRuntime a checkpoint holds
  known,       \* the task is in _runtimes
  worker,      \* where the worker coroutine is, "done" when there is none
  stop,        \* stop_requested
  fence,       \* the runtime holds a fencing token of a lease it renews
  pausing,     \* how far a pause request has come
  cancelling,  \* how far a cancel request has come
  starting,    \* the request that has committed and starts the worker next
  recovering   \* how far the restore after a committed verdict has come

durable == <<graph, mode, node, verdict>>
requests == <<pausing, cancelling, starting, recovering>>
memory == <<rt, known, worker, stop, fence>>
sagaVars == <<vars, durable, saved, memory, requests>>

NodeStatus ==
  {"pending", "active", "running", "succeeded", "failed", "unknown",
   "compensating", "compensated", "compensation_failed",
   "compensation_unknown"}
GraphStatus ==
  {"none", "active", "compensating", "succeeded", "failed", "compensated",
   "blocked_unknown"}
Verdict == {"none", "confirmed_succeeded", "confirmed_no_effect", "undecided"}
Place ==
  {"done", "top", "planned", "stepping", "denied", "dispatched", "failing",
   "closing", "save", "save_suspend", "suspended", "leaving", "raised"}
Runtime == [stage : 0..9, index : Nodes, mode : Modes, approval : BOOLEAN,
            reconciled : BOOLEAN]

FreshRuntime == [stage |-> 0, index |-> 1, mode |-> "forward",
                 approval |-> FALSE, reconciled |-> FALSE]

SagaTypeOK ==
  /\ TypeOK
  /\ graph \in GraphStatus /\ mode \in Modes
  /\ node \in [Nodes -> NodeStatus]
  /\ verdict \in [Calls -> Verdict]
  /\ saved \in Runtime /\ rt \in Runtime
  /\ known \in BOOLEAN /\ stop \in BOOLEAN /\ fence \in BOOLEAN
  /\ worker \in Place
  /\ pausing \in {"no", "asked", "stopped"}
  /\ starting \in {"no", "approve", "resume"}
  /\ cancelling \in {"no", "asked", "closed", "committed", "routed"}
  /\ recovering \in {"no", "committed", "loaded"}

\* create_task has committed and TaskProcessor.start has been called.
SagaInit ==
  /\ Init
  /\ graph = "none" /\ mode = "forward"
  /\ node = [i \in Nodes |-> "pending"]
  /\ verdict = [c \in Calls |-> "none"]
  /\ saved = FreshRuntime /\ rt = FreshRuntime
  /\ known = TRUE /\ worker = "top" /\ stop = FALSE /\ fence = FALSE
  /\ pausing = "no" /\ cancelling = "no" /\ starting = "no"
  /\ recovering = "no"

------------------------------------------------------------------------------
(* Pieces of the stages.                                                   *)

Current == <<rt.mode, rt.index>>
Compensating == rt.mode = "compensating"

\* A request that resumes the worker goes on, from its commit to the start of
\* the worker, without giving up control: until then no other transaction
\* gets the task lock, and only steps that need no lock are taken.
Serving == phase = "serving" /\ starting = "no"

\* The worker is at the head of its loop and goes on with stage s.
At(s) ==
  /\ Serving /\ worker = "top" /\ ~stop
  /\ rt.stage = s

In(place) == Serving /\ worker = place

Advance ==
  /\ rt' = [rt EXCEPT !.stage = @ + 1]
  /\ worker' = "save"

SetNode(i, s) == node' = [node EXCEPT ![i] = s]

\* transition_effect_node appends its event without asking whether the task
\* has ended.
record_event ==
  /\ Journal(task)
  /\ UNCHANGED <<call, policy, approval, consumed, lapsed, recon, startup>>

\* forget: the runtime leaves _runtimes and gives up its lease.
forget == known' = FALSE /\ fence' = FALSE

Finish == worker' = "done" /\ forget

\* Mutant: compensation starts at the first node.
CompensationOfFirst(i) ==
  [FreshRuntime EXCEPT !.stage = 3, !.index = 1, !.mode = "compensating"]

\* The runtime that compensates the node before i.
CompensationOf(i) ==
  [FreshRuntime EXCEPT !.stage = 3, !.index = i - 1, !.mode = "compensating"]

\* A failed forward node of a saga has predecessors to compensate.
HasAppliedPredecessor == IsSaga /\ ~Compensating /\ rt.index > 1

\* Mutant: the mode of the graph is left to the first compensating step.
FailNodeOnly ==
  /\ SetNode(rt.index, IF Compensating THEN "compensation_failed" ELSE "failed")
  /\ graph' = IF HasAppliedPredecessor THEN "compensating" ELSE "failed"
  /\ mode' = mode

\* The node and the graph after the current attempt failed.
FailNode ==
  /\ SetNode(rt.index, IF Compensating THEN "compensation_failed" ELSE "failed")
  /\ graph' = IF HasAppliedPredecessor THEN "compensating" ELSE "failed"
  /\ mode' = IF HasAppliedPredecessor \/ Compensating THEN "compensating"
             ELSE "forward"

\* Mutant: the saga goes on with the node after the failed one.
AfterFailureGoesOn ==
  IF HasAppliedPredecessor
  THEN /\ rt' = IF rt.index < NodeCount
                THEN [FreshRuntime EXCEPT !.stage = 3, !.index = rt.index + 1]
                ELSE CompensationOf(rt.index)
       /\ worker' = "save"
  ELSE rt' = rt /\ worker' = "failing"

\* _handle_effect_call_failure: compensate the predecessor, or fail the task.
AfterFailure ==
  IF HasAppliedPredecessor
  THEN rt' = CompensationOf(rt.index) /\ worker' = "save"
  ELSE rt' = rt /\ worker' = "failing"

------------------------------------------------------------------------------
(* The worker, stage by stage.                                             *)

worker_stops ==
  /\ In("top") /\ stop
  /\ worker' = "done"
  /\ UNCHANGED <<vars, durable, saved, rt, known, stop, fence, requests>>

stage_0_classifying ==
  /\ At(0)
  /\ append_event("classifying")
  /\ Advance
  /\ UNCHANGED <<durable, saved, known, stop, fence, requests>>

stage_1_plan ==
  /\ At(1)
  /\ append_progress
  /\ worker' = "planned"
  /\ UNCHANGED <<durable, saved, rt, known, stop, fence, requests>>

\* No model answer, or a plan outside the trusted slice.
stage_1_raises ==
  /\ At(1)
  /\ worker' = "raised"
  /\ forget
  /\ UNCHANGED <<vars, durable, saved, rt, stop, requests>>

ensure_effect_graph ==
  /\ In("planned")
  /\ record_event
  /\ graph' = "active" /\ fence' = TRUE
  /\ Advance
  /\ UNCHANGED <<mode, node, verdict, saved, known, stop, requests>>

stage_2_running ==
  /\ At(2)
  /\ append_event("running")
  /\ Advance
  /\ UNCHANGED <<durable, saved, known, stop, fence, requests>>

stage_3_start_node ==
  /\ At(3) /\ fence
  /\ node[rt.index] = IF Compensating THEN "succeeded" ELSE "pending"
  /\ record_event
  /\ SetNode(rt.index, IF Compensating THEN "compensating" ELSE "active")
  /\ graph' = IF Compensating THEN "compensating" ELSE "active"
  /\ mode' = rt.mode
  /\ rt' = [rt EXCEPT !.approval = FALSE]
  /\ worker' = "stepping"
  /\ UNCHANGED <<verdict, saved, known, stop, fence, requests>>

stage_3_step_started ==
  /\ In("stepping")
  /\ append_progress
  /\ Advance
  /\ UNCHANGED <<durable, saved, known, stop, fence, requests>>

stage_4_request ==
  /\ At(4) /\ fence
  /\ record_tool_requested(Current, TRUE)
  /\ saved' = [rt EXCEPT !.stage = 5]
  /\ Advance
  /\ UNCHANGED <<durable, known, stop, fence, requests>>

\* _handle_saga_pre_dispatch_failure: the resources are not as expected.
stage_4_saga_conflict ==
  /\ At(4) /\ fence /\ IsSaga
  /\ record_event
  /\ FailNode
  /\ AfterFailure
  /\ UNCHANGED <<verdict, saved, known, stop, fence, requests>>

stage_4_raises ==
  /\ At(4) /\ ~IsSaga
  /\ worker' = "raised"
  /\ forget
  /\ UNCHANGED <<vars, durable, saved, rt, stop, requests>>

\* The policy engine gives the same request the same answer again.
PolicyAnswers(effect) == At(5) /\ policy[Current] \in {"none", effect}

stage_5_allow ==
  /\ PolicyAnswers("allow")
  /\ apply_policy_decision_allow(Current)
  /\ Advance
  /\ UNCHANGED <<durable, saved, known, stop, fence, requests>>

stage_5_require_approval ==
  /\ PolicyAnswers("require_approval")
  /\ apply_policy_decision_require_approval(Current)
  /\ rt' = [rt EXCEPT !.stage = 6, !.approval = TRUE]
  /\ worker' = "save_suspend"
  /\ UNCHANGED <<durable, saved, known, stop, fence, requests>>

\* A restored runtime asks for an approval the call already has, and the
\* unique key of approvals.call_id refuses the second one.
stage_5_raises ==
  /\ PolicyAnswers("require_approval")
  /\ PolicyMayDecide(Current) /\ approval[Current] # "none"
  /\ worker' = "raised"
  /\ forget
  /\ UNCHANGED <<vars, durable, saved, rt, stop, requests>>

stage_5_deny ==
  /\ PolicyAnswers("deny")
  /\ apply_policy_decision_deny(Current, FALSE)
  /\ worker' = "denied"
  /\ UNCHANGED <<durable, saved, rt, known, stop, fence, requests>>

stage_5_denied_node ==
  /\ In("denied") /\ fence
  /\ record_event
  /\ FailNode
  /\ AfterFailure
  /\ UNCHANGED <<verdict, saved, known, stop, fence, requests>>

\* The attempt failed: one transaction for the call, the node, the graph
\* and, when there is something to compensate, the checkpoint.
FinishFailure(s) ==
  /\ finish_effect_tool_call(Current, s, HasAppliedPredecessor)
  /\ saved' = IF HasAppliedPredecessor THEN CompensationOf(rt.index) ELSE saved
  /\ FailNode
  /\ AfterFailure
  /\ UNCHANGED <<verdict, known, stop, fence, requests>>

stage_6_runner_not_ready ==
  /\ At(6) /\ fence
  /\ FinishFailure("failed")

stage_6_start ==
  /\ At(6) /\ fence
  /\ start_tool_call(Current, TRUE)
  /\ saved' = rt
  /\ SetNode(rt.index, "running")
  /\ graph' = IF Compensating THEN "compensating" ELSE "active"
  /\ mode' = rt.mode
  /\ worker' = "dispatched"
  /\ UNCHANGED <<verdict, rt, known, stop, fence, requests>>

stage_6_expired ==
  /\ At(6) /\ fence
  /\ start_tool_call_expired(Current)
  /\ Finish
  /\ UNCHANGED <<durable, saved, rt, stop, requests>>

\* A cancel request closed the call before a racing resume let the worker go
\* on: policy and start refuse it, and a failure is no longer recorded.
stage_call_gone ==
  /\ At(5) \/ (At(6) /\ fence)
  /\ Live /\ call[Current] \in TerminalCall
  /\ \/ worker' = "raised" /\ forget /\ rt' = rt
     \/ rt.stage = 6 /\ AfterFailure /\ UNCHANGED <<known, fence>>
  /\ UNCHANGED <<vars, durable, saved, stop, requests>>

runner_succeeded ==
  /\ In("dispatched") /\ fence
  /\ finish_effect_tool_call(Current, "succeeded", TRUE)
  /\ saved' = [rt EXCEPT !.stage = 7]
  /\ SetNode(rt.index, IF Compensating THEN "compensated" ELSE "succeeded")
  /\ Advance
  /\ UNCHANGED <<graph, mode, verdict, known, stop, fence, requests>>

runner_failed(s) ==
  /\ In("dispatched") /\ fence
  /\ FinishFailure(s)

\* No trustworthy answer: the graph is blocked until a person decides.
runner_unknown ==
  /\ In("dispatched") /\ fence
  /\ finish_effect_tool_call(Current, "unknown", TRUE)
  /\ saved' = rt
  /\ SetNode(rt.index, IF Compensating THEN "compensation_unknown" ELSE "unknown")
  /\ graph' = "blocked_unknown"
  /\ Finish
  /\ UNCHANGED <<mode, verdict, rt, stop, requests>>

\* Mutant: the last node is forgotten.
NextStepShort ==
  LET to(i) == [FreshRuntime EXCEPT !.stage = 3, !.index = i, !.mode = rt.mode]
  IN  IF IsSaga /\ Compensating /\ rt.index > 1 THEN to(rt.index - 1)
      ELSE IF IsSaga /\ ~Compensating /\ rt.index < NodeCount - 1
           THEN to(rt.index + 1)
      ELSE rt

\* The runtime after a completed step, or stage 7 again when none is left.
NextStep ==
  LET to(i) == [FreshRuntime EXCEPT !.stage = 3, !.index = i, !.mode = rt.mode]
  IN  IF IsSaga /\ Compensating /\ rt.index > 1 THEN to(rt.index - 1)
      ELSE IF IsSaga /\ ~Compensating /\ rt.index < NodeCount THEN to(rt.index + 1)
      ELSE rt

stage_7_step_completed ==
  /\ At(7)
  /\ append_progress
  /\ rt' = NextStep
  /\ worker' = IF NextStep.stage = 7 THEN "closing" ELSE "save"
  /\ UNCHANGED <<durable, saved, known, stop, fence, requests>>

stage_7_close_graph ==
  /\ In("closing") /\ fence
  /\ record_event
  /\ IF Compensating
     THEN /\ node[rt.index] = "compensated" /\ graph' = "compensated"
          /\ worker' = "failing" /\ rt' = rt
     ELSE /\ node[rt.index] = "succeeded" /\ graph' = "succeeded"
          /\ Advance
  /\ UNCHANGED <<mode, node, verdict, saved, known, stop, fence, requests>>

stage_8_completed ==
  /\ At(8)
  /\ append_event("succeeded")
  /\ Finish
  /\ UNCHANGED <<durable, saved, rt, stop, requests>>

\* _fail_saga_task.
fail_task ==
  /\ In("failing")
  /\ append_event("failed")
  /\ Finish
  /\ UNCHANGED <<durable, saved, rt, stop, requests>>

\* Mutant: the status is written without _ensure_transition.
record_exception_unchecked ==
  /\ In("raised")
  /\ Journal("failed")
  /\ worker' = "done"
  /\ UNCHANGED <<call, policy, approval, consumed, lapsed, recon, startup>>
  /\ UNCHANGED <<durable, saved, rt, known, stop, fence, requests>>

\* The handler of an exception that reached _run.
record_exception ==
  /\ In("raised")
  /\ IF Live THEN append_event("failed") ELSE UNCHANGED vars
  /\ worker' = "done"
  /\ UNCHANGED <<durable, saved, rt, known, stop, fence, requests>>

\* save_task_checkpoint refuses an earlier stage of the same node.
MovesForward ==
  \/ rt.stage >= saved.stage
  \/ rt.stage >= 2 /\ <<rt.index, rt.mode>> # <<saved.index, saved.mode>>

\* After the stage: advance the checkpoint; a terminal task has none.
save_checkpoint ==
  /\ In("save") \/ In("save_suspend")
  /\ ckpt = "none" \/ MovesForward
  /\ save_task_checkpoint \/ (ckpt # "stale" /\ UNCHANGED vars)
  /\ saved' = rt
  /\ worker' = IF worker = "save" THEN "top" ELSE "suspended"
  /\ UNCHANGED <<durable, rt, known, stop, fence, requests>>

\* Mutant: the worker waits for the answer in a loop.
suspend_reads_approval_spins ==
  /\ phase = "serving" /\ worker = "suspended"
  /\ worker' = IF approval[Current] = "approved" THEN "top" ELSE "suspended"
  /\ UNCHANGED <<vars, durable, saved, rt, known, stop, fence, requests>>

\* A suspended worker reads its approval once more, and leaves unless the
\* answer came in the meantime.
suspend_reads_approval ==
  /\ phase = "serving" /\ worker = "suspended"
  /\ worker' = IF approval[Current] = "approved" THEN "top" ELSE "leaving"
  /\ UNCHANGED <<vars, durable, saved, rt, known, stop, fence, requests>>

suspend_leaves ==
  /\ phase = "serving" /\ worker = "leaving"
  /\ worker' = "done"
  /\ UNCHANGED <<vars, durable, saved, rt, known, stop, fence, requests>>

\* _effect_fence, or the conditional UPDATE, refuses a worker without lease.
worker_is_fenced ==
  /\ ~fence
  /\ \/ In("top") /\ ~stop /\ rt.stage \in {3, 4, 6}
     \/ In("denied") \/ In("dispatched") \/ In("closing")
  /\ Finish
  /\ UNCHANGED <<vars, durable, saved, rt, stop, requests>>

\* The transaction refuses to touch a task that has ended; so does the
\* task.failed the handler then tries to record.
worker_finds_task_ended ==
  /\ ~Live
  /\ \/ In("top") /\ ~stop /\ rt.stage \in {0, 1, 2, 4, 5, 6, 7, 8}
     \/ In("stepping") \/ In("dispatched") \/ In("failing")
  /\ Finish
  /\ UNCHANGED <<vars, durable, saved, rt, stop, requests>>

\* The task was paused under the worker: a policy decision, an unknown result
\* and the completion are refused.
worker_is_refused ==
  /\ task = "paused"
  /\ At(5) \/ At(8) \/ (In("dispatched") /\ fence)
  /\ worker' = "raised"
  /\ forget
  /\ UNCHANGED <<vars, durable, saved, rt, stop, requests>>

Worker ==
  \/ worker_stops \/ stage_0_classifying
  \/ stage_1_plan \/ stage_1_raises \/ ensure_effect_graph
  \/ stage_2_running
  \/ stage_3_start_node \/ stage_3_step_started
  \/ stage_4_request \/ stage_4_saga_conflict \/ stage_4_raises
  \/ stage_5_allow \/ stage_5_require_approval \/ stage_5_raises
  \/ stage_5_deny \/ stage_5_denied_node
  \/ stage_6_runner_not_ready \/ stage_6_start \/ stage_6_expired
  \/ stage_call_gone
  \/ runner_succeeded \/ runner_failed("failed") \/ runner_failed("cancelled")
  \/ runner_unknown
  \/ stage_7_step_completed \/ stage_7_close_graph \/ stage_8_completed
  \/ fail_task \/ record_exception \/ save_checkpoint
  \/ suspend_reads_approval \/ suspend_leaves
  \/ worker_is_fenced \/ worker_finds_task_ended \/ worker_is_refused

------------------------------------------------------------------------------
(* _runtime_from_checkpoint: the facts a checkpoint is checked against.    *)

StageFitsTask(t) ==
  t \in IF saved.stage = 0 THEN {"created"}
        ELSE IF saved.stage \in {1, 2} THEN {"classifying"}
        ELSE {"running", "paused", "waiting_approval"}

StageFitsNode ==
  saved.stage >= 3 =>
    node[saved.index] \in
      IF saved.stage = 3 THEN {"pending", "succeeded"}
      ELSE IF saved.stage \in {4, 5, 6} THEN {"active", "compensating"}
      ELSE IF saved.stage = 7 THEN {"succeeded", "compensated"}
      ELSE {"succeeded"}

SavedCall == <<saved.mode, saved.index>>

StageFitsCall ==
  saved.stage >= 5 =>
    \/ call[SavedCall] = IF saved.stage \in {5, 6} THEN "requested" ELSE "succeeded"
    \/ call[SavedCall] = "unknown" /\ saved.reconciled /\ saved.stage >= 7

StageFitsApproval(t) ==
  saved.stage >= 6 =>
    IF policy[SavedCall] # "require_approval"
    THEN ~saved.approval /\ t # "waiting_approval"
    ELSE /\ saved.approval
         /\ IF saved.stage = 6
            THEN \/ approval[SavedCall] = "pending" /\ t = "waiting_approval"
                 \/ /\ approval[SavedCall] = "approved"
                    /\ SavedCall \notin consumed
                    /\ t = "running"
            ELSE /\ approval[SavedCall] = "approved"
                 /\ SavedCall \in consumed
                 /\ t \in {"running", "paused"}

\* t is the status of the task as the caller has read it.
SavedFitsTask(t) ==
  /\ saved.stage >= 2 => graph # "none" /\ saved.mode = mode
  /\ StageFitsTask(t) /\ StageFitsNode /\ StageFitsCall /\ StageFitsApproval(t)

Restorable == ckpt = "bound" /\ SavedFitsTask(task)

------------------------------------------------------------------------------
(* HTTP requests and timers.                                               *)

start_worker == worker' = "top" /\ stop' = FALSE

\* Renewal was refused: graph_lease_lost.
lease_lost ==
  /\ phase = "serving" /\ known /\ fence
  /\ fence' = FALSE /\ stop' = TRUE
  /\ UNCHANGED <<vars, durable, saved, rt, known, worker, requests>>

\* The request has seen a running task; it waits for the worker it finds.
pause_asks ==
  /\ phase = "serving" /\ pausing = "no"
  /\ task = "running"
  /\ IF known /\ worker # "done" THEN pausing' = "asked" /\ stop' = TRUE
     ELSE pausing' = "stopped" /\ stop' = stop
  /\ UNCHANGED <<vars, durable, saved, rt, known, worker, fence, cancelling,
                 starting, recovering>>

pause_waited ==
  /\ phase = "serving" /\ pausing = "asked" /\ worker = "done"
  /\ pausing' = "stopped"
  /\ UNCHANGED <<vars, durable, saved, memory, cancelling, starting, recovering>>

\* A task that no longer runs refuses the pause; stop_requested stays set.
pause_commits ==
  /\ Serving /\ pausing = "stopped"
  /\ IF task = "running" THEN transition_task("paused") ELSE UNCHANGED vars
  /\ pausing' = "no"
  /\ UNCHANGED <<durable, saved, memory, cancelling, starting, recovering>>

can_resume == known /\ ~rt.approval /\ rt.stage < 9 /\ worker = "done"

resume ==
  /\ Serving /\ task = "paused"
  /\ can_resume
  /\ transition_task("running")
  /\ starting' = "resume"
  /\ UNCHANGED <<durable, saved, memory, pausing, cancelling, recovering>>

resume_starts ==
  /\ phase = "serving" /\ starting = "resume"
  /\ IF can_resume THEN start_worker ELSE UNCHANGED <<worker, stop>>
  /\ starting' = "no"
  /\ UNCHANGED <<vars, durable, saved, rt, known, fence, pausing, cancelling,
                 recovering>>

\* processor.cancel after the worker has stopped: a call that was requested
\* is closed, unless it waits for its approval.  While another request holds
\* the lock cancel waits in line before anyone else; closing the call then
\* commutes with that request's start of the worker, so it is taken at once.
CloseCall ==
  IF ~(rt.approval /\ rt.stage = 6) /\ Live /\ MayFinish(Current, "cancelled")
  THEN finish_tool_call(Current, "cancelled", FALSE) ELSE UNCHANGED vars

cancel_idle ==
  /\ phase = "serving" /\ Live /\ cancelling = "no"
  /\ known /\ worker = "done"
  /\ CloseCall
  /\ stop' = TRUE /\ cancelling' = "closed"
  /\ UNCHANGED <<durable, saved, rt, known, worker, fence, pausing, starting,
                 recovering>>

cancel_asks_worker ==
  /\ phase = "serving" /\ Live /\ cancelling = "no"
  /\ known /\ worker # "done"
  /\ stop' = TRUE /\ cancelling' = "asked"
  /\ UNCHANGED <<vars, durable, saved, rt, known, worker, fence, pausing,
                 starting, recovering>>

cancel_closes_call ==
  /\ Serving /\ cancelling = "asked" /\ worker = "done"
  /\ CloseCall
  /\ cancelling' = "closed"
  /\ UNCHANGED <<durable, saved, memory, pausing, starting, recovering>>

\* Without a runtime the cancel goes to the task itself when there is no
\* graph, and to the graph's owner when there is one.  The owner may cancel
\* version 2 graphs only (_ensure_effect_dag): it puts the control back and
\* tries again, and the control stays where it is.
cancel_unowned ==
  /\ phase = "serving" /\ Live /\ cancelling = "no"
  /\ ~known
  /\ cancelling' = IF graph = "none" THEN "closed" ELSE "routed"
  /\ UNCHANGED <<vars, durable, saved, memory, pausing, starting, recovering>>

\* Mutant: only a running task is cancelled.
cancel_commits_running ==
  /\ Serving /\ cancelling = "closed" /\ task = "running"
  /\ cancel_task
  /\ cancelling' = "committed"
  /\ UNCHANGED <<durable, saved, memory, pausing, starting, recovering>>

cancel_commits ==
  /\ Serving /\ cancelling = "closed"
  /\ \/ /\ cancel_task
        /\ cancelling' = "committed"
     \/ /\ ~Live /\ UNCHANGED vars
        /\ cancelling' = IF task = "cancelled" THEN "committed" ELSE "no"
  /\ UNCHANGED <<durable, saved, memory, pausing, starting, recovering>>

cancel_forgets ==
  /\ phase = "serving" /\ cancelling = "committed"
  /\ forget /\ cancelling' = "no"
  /\ UNCHANGED <<vars, durable, saved, rt, worker, stop, pausing, starting,
                 recovering>>

WaitsForApproval == known /\ rt.approval /\ rt.stage = 6

approve ==
  /\ Serving
  /\ WaitsForApproval
  /\ resolve_approval_approve(Current)
  /\ starting' = "approve"
  /\ UNCHANGED <<durable, saved, memory, pausing, cancelling, recovering>>

\* The same decision again; the task may have been paused since.
approve_replayed ==
  /\ Serving
  /\ WaitsForApproval
  /\ approval[Current] = "approved" /\ Current \notin consumed
  /\ Live /\ task # "waiting_approval"
  /\ starting' = "approve"
  /\ UNCHANGED <<vars, durable, saved, memory, pausing, cancelling, recovering>>

\* A worker that has not returned yet is expected to see the answer itself.
approve_continues ==
  /\ phase = "serving" /\ starting = "approve"
  /\ IF WaitsForApproval /\ worker = "done"
     THEN start_worker ELSE UNCHANGED <<worker, stop>>
  /\ starting' = "no"
  /\ UNCHANGED <<vars, durable, saved, rt, known, fence, pausing, cancelling,
                 recovering>>

reject ==
  /\ phase = "serving"
  /\ \E c \in Calls : resolve_approval_reject(c)
  /\ forget
  /\ UNCHANGED <<durable, saved, rt, worker, stop, requests>>

\* The expiry timer, or a decision that comes too late.
expire ==
  /\ phase = "serving"
  /\ \E c \in Calls : resolve_approval_expired(c)
  /\ forget
  /\ UNCHANGED <<durable, saved, rt, worker, stop, requests>>

lapse ==
  /\ \E c \in Calls : approval_lapses(c)
  /\ UNCHANGED <<durable, saved, memory, requests>>

decide(c, v) ==
  /\ phase = "serving"
  /\ resolve_reconciliation(c)
  /\ verdict' = [verdict EXCEPT ![c] = v]
  /\ UNCHANGED <<graph, mode, node, saved, memory, requests>>

Blocked == graph = "blocked_unknown" /\ Serving

recover_graph_terminate(c) ==
  /\ Blocked
  /\ recover_reconciliation_graph(c, "failed")
  /\ graph' = "failed"
  /\ UNCHANGED <<mode, node, verdict, saved, memory, requests>>

\* Mutant: the rewritten checkpoint is not stored.
ResumeUnsaved(snapshot) ==
  /\ saved' = saved
  /\ recovering' = "committed"
  /\ UNCHANGED memory

\* The commit rewrites the checkpoint; the request then restores it.
Resume(snapshot) ==
  /\ saved' = snapshot
  /\ recovering' = "committed"
  /\ UNCHANGED memory

\* Mutant: the verdict is not read.
recover_graph_succeeded_unread(c) ==
  /\ Blocked
  /\ recover_reconciliation_graph(c, "running")
  /\ SetNode(c[2], IF c[1] = "compensating" THEN "compensated" ELSE "succeeded")
  /\ graph' = IF c[1] = "compensating" THEN "compensating" ELSE "active"
  /\ Resume([saved EXCEPT !.stage = 7, !.reconciled = TRUE])
  /\ UNCHANGED <<mode, verdict, pausing, cancelling, starting>>

recover_graph_succeeded(c) ==
  /\ Blocked /\ verdict[c] = "confirmed_succeeded"
  /\ recover_reconciliation_graph(c, "running")
  /\ SetNode(c[2], IF c[1] = "compensating" THEN "compensated" ELSE "succeeded")
  /\ graph' = IF c[1] = "compensating" THEN "compensating" ELSE "active"
  /\ Resume([saved EXCEPT !.stage = 7, !.reconciled = TRUE])
  /\ UNCHANGED <<mode, verdict, pausing, cancelling, starting>>

recover_graph_no_effect(c) ==
  /\ Blocked /\ verdict[c] = "confirmed_no_effect"
  /\ ckpt # "none"
  /\ SetNode(c[2], IF c[1] = "compensating" THEN "compensation_failed" ELSE "failed")
  /\ IF c[1] = "forward" /\ c[2] > 1
     THEN /\ recover_reconciliation_graph(c, "running")
          /\ graph' = "compensating" /\ mode' = "compensating"
          /\ Resume(CompensationOf(c[2]))
     ELSE /\ recover_reconciliation_graph(c, "failed")
          /\ graph' = "failed"
          /\ UNCHANGED <<mode, saved, memory, recovering>>
  /\ UNCHANGED <<verdict, pausing, cancelling, starting>>

\* The request again, with the same idempotency key: the verdict is applied
\* already and the task runs, so the request goes on like the first one.  (One
\* that overlaps the first, or a worker's last step, is left out.)
recover_graph_repeated ==
  /\ Serving /\ recovering = "no"
  /\ task = "running" /\ \E c \in Calls : recon[c] = "applied"
  /\ ~known /\ worker = "done"
  /\ recovering' = "committed"
  /\ UNCHANGED <<vars, durable, saved, memory, pausing, cancelling, starting>>

\* The checkpoint must be bound to the last event the request's transaction
\* saw: a pause since then has bound it to its own.
recovery_loads ==
  /\ phase = "serving" /\ recovering = "committed"
  /\ recovering' = IF ~known /\ ckpt = "bound" /\ task = "running"
                   THEN "loaded" ELSE "no"
  /\ UNCHANGED <<vars, durable, saved, memory, pausing, cancelling, starting>>

\* The last checks of _runtime_from_checkpoint, made of the running task the
\* request has seen, and the start of the worker.
recovery_starts ==
  /\ phase = "serving" /\ recovering = "loaded"
  /\ IF SavedFitsTask("running")
     THEN rt' = saved /\ known' = TRUE /\ fence' = TRUE /\ start_worker
     ELSE UNCHANGED memory
  /\ recovering' = "no"
  /\ UNCHANGED <<vars, durable, saved, pausing, cancelling, starting>>

Control ==
  \/ lease_lost
  \/ pause_asks \/ pause_waited \/ pause_commits \/ resume \/ resume_starts
  \/ cancel_idle \/ cancel_asks_worker \/ cancel_closes_call \/ cancel_unowned
  \/ cancel_commits \/ cancel_forgets

Decisions ==
  \/ approve \/ approve_replayed \/ approve_continues \/ reject \/ expire \/ lapse
  \/ \E c \in Calls :
       \/ \E v \in Verdict \ {"none"} : decide(c, v)
       \/ recover_graph_terminate(c)
       \/ recover_graph_succeeded(c)
       \/ recover_graph_no_effect(c)
  \/ recover_graph_repeated \/ recovery_loads \/ recovery_starts

------------------------------------------------------------------------------
(* Crash and startup.                                                      *)

\* The process ends; a routed control is durable.
process_crash ==
  /\ crash
  /\ rt' = FreshRuntime /\ known' = FALSE /\ worker' = "done"
  /\ stop' = FALSE /\ fence' = FALSE
  /\ pausing' = "no" /\ starting' = "no" /\ recovering' = "no"
  /\ cancelling' = IF cancelling = "routed" THEN "routed" ELSE "no"
  /\ UNCHANGED <<durable, saved>>

restore_skips ==
  /\ prepare_durable_recovery_skip
  /\ UNCHANGED <<durable, saved, memory, requests>>

restore_runtime ==
  /\ Restorable
  /\ prepare_durable_recovery("restored")
  /\ rt' = saved /\ known' = TRUE /\ fence' = (saved.stage >= 2)
  /\ UNCHANGED <<durable, saved, worker, stop, requests>>

\* The lease of the previous process, or of another instance, is still live.
restore_contended ==
  /\ saved.stage >= 2
  /\ prepare_durable_recovery("contended")
  /\ UNCHANGED <<durable, saved, memory, requests>>

restore_fails ==
  /\ ~Restorable
  /\ fail_task_checkpoint
  /\ UNCHANGED <<durable, saved, memory, requests>>

settle_approvals ==
  /\ \/ /\ recover_pending_approvals_skip
        /\ Open = {} \/ kept # "dropped" \/ graph # "none"
     \/ recover_pending_approvals
  /\ UNCHANGED <<durable, saved, memory, requests>>

\* Requested calls a restored runtime goes on with.
Recoverable == IF kept = "restored" /\ rt.stage \in {5, 6} THEN {Current} ELSE {}

\* The graph follows the calls, but not under a task that has ended.
SettleGraph ==
  IF ~Live THEN UNCHANGED <<graph, node>>
  ELSE LET cut == Interrupted(Recoverable)
           status(c) == IF call[c] = "running"
                        THEN IF c[1] = "forward" THEN "unknown" ELSE "compensation_unknown"
                        ELSE IF c[1] = "forward" THEN "failed" ELSE "compensation_failed"
       IN  /\ node' = [i \in Nodes |->
                         IF \E m \in Modes : <<m, i>> \in cut
                         THEN status(CHOOSE c \in cut : c[2] = i) ELSE node[i]]
           /\ graph' = IF \E c \in cut : call[c] = "running"
                       THEN "blocked_unknown" ELSE "failed"

\* activate_durable_recovery: created, classifying and running tasks go on.
Activate ==
  worker' = IF known /\ task \in {"created", "classifying", "running"}
            THEN "top" ELSE "done"

settle_calls_skip ==
  /\ recover_incomplete_tool_calls_skip(Recoverable)
  /\ Interrupted(Recoverable) = {} \/ kept = "contended" \/ graph # "none"
  /\ Activate
  /\ UNCHANGED <<durable, saved, rt, known, stop, fence, requests>>

settle_calls ==
  /\ recover_incomplete_tool_calls(Recoverable)
  /\ SettleGraph
  /\ Activate
  /\ UNCHANGED <<mode, verdict, saved, rt, known, stop, fence, requests>>

ProcessStartup ==
  \/ process_crash
  \/ restore_skips \/ restore_runtime \/ restore_contended \/ restore_fails
  \/ settle_approvals
  \/ settle_calls_skip \/ settle_calls

SagaNext == Worker \/ Control \/ Decisions \/ ProcessStartup

SagaSpec == SagaInit /\ [][SagaNext]_sagaVars

\* The event loop runs every coroutine that is ready, the Runner client
\* answers or times out, a request that waits for the worker is woken when
\* it ends, and asyncio.Lock serves its waiters in the order they came: who
\* waits for the task lock again and again gets it (strong fairness).
FairSagaSpec ==
  /\ SagaSpec
  /\ SF_sagaVars(Worker)
  /\ SF_sagaVars(cancel_closes_call) /\ SF_sagaVars(cancel_commits)
  /\ WF_sagaVars(cancel_forgets)
  /\ WF_sagaVars(pause_waited) /\ SF_sagaVars(pause_commits)
  /\ WF_sagaVars(resume_starts) /\ WF_sagaVars(approve_continues)
  /\ WF_sagaVars(recovery_loads) /\ WF_sagaVars(recovery_starts)

------------------------------------------------------------------------------
(* What the execution promises.                                            *)

\* The worker, the requests and the startup never write the ledger in a way
\* TaskService does not offer: every invariant of ToolLedger holds here.
LedgerSpec == Spec

\* Statuses of a node whose Tool has not run, or has been taken back.
NoEffectStands == {"pending", "active", "failed", "compensated"}

\* Effects are taken back last to first: a node is compensated only when no
\* effect of a later node stands or may stand.
CompensationInReverse ==
  \A i \in Nodes :
    \/ node[i] \in {"compensating", "compensated", "compensation_failed",
                   "compensation_unknown"}
    \/ node[i] = "running" /\ mode = "compensating"
    => \A j \in i+1..NodeCount : node[j] \in NoEffectStands

\* The outcome reported for the graph and the task is the outcome of every
\* node, although stage 7 looks only at the node it has just finished.
OutcomeMatchesGraph ==
  /\ graph = "succeeded" => \A i \in Nodes : node[i] = "succeeded"
  /\ graph = "compensated" =>
       \A i \in Nodes : node[i] \in NoEffectStands
  /\ task = "succeeded" => graph = "succeeded"

\* How an effect got its proof: the Runner's result, or a person's verdict.
Evident(c) ==
  call[c] = "succeeded" \/ (call[c] = "unknown" /\ verdict[c] = "confirmed_succeeded")

\* The graph and the calls tell the same story: an effect the graph counts
\* on, or counts as taken back, has its proof in the ledger, and an effect
\* the Runner reported is never dropped from the graph.
EffectHasEvidence ==
  \A i \in Nodes :
    /\ node[i] \in {"succeeded", "compensating", "compensated",
                    "compensation_failed", "compensation_unknown"} =>
         Evident(<<"forward", i>>)
    /\ node[i] = "compensated" => Evident(<<"compensating", i>>)
    /\ call[<<"forward", i>>] = "succeeded" =>
         node[i] \notin {"pending", "active", "failed", "unknown"}
    /\ call[<<"compensating", i>>] = "succeeded" => node[i] = "compensated"

\* A crash between two stages loses nothing: the checkpoint is the runtime
\* the worker would go on with, and passes every check of the startup.
CrashBetweenStagesIsHarmless ==
  In("top") /\ Live /\ task # "paused" /\ cancelling = "no" /\ ckpt # "none" =>
    Restorable /\ saved = rt

\* The event binding stands for all the other checks: whatever stopped the
\* worker, and whoever wrote the row last (a stage, a decision, a verdict
\* whose request has not started the worker yet, or failed to), a checkpoint
\* bound to the last event of the task agrees with graph, call and approval.
\* Not so while a call is at the Runner, for a paused task (any checkpoint is
\* bound by the pause) and once a cancel has closed a call.
BoundCheckpointFits ==
  /\ ckpt = "bound" /\ Live /\ task \notin {"paused", "waiting_reconciliation"}
  /\ \A c \in Calls : call[c] \notin {"running", "cancelled"}
  => SavedFitsTask(task)

\* Once a node has failed the saga only goes backwards: no forward Tool is
\* started any more, not after a crash and not after a verdict.
ForwardStopsAfterFailure ==
  [][mode = "compensating" =>
       /\ mode' = "compensating"
       /\ \A i \in Nodes : call'[<<"forward", i>>] = "running" =>
                            call[<<"forward", i>>] = "running"]_sagaVars

\* The worker comes to an end: it completes, suspends, stops or fails.
WorkerSettles == worker # "done" ~> worker = "done"

\* A cancel request that waits for the worker ends the task, unless the
\* process ends first.
CancelEnds == cancelling = "asked" ~> (~Live \/ phase # "serving")

=============================================================================
