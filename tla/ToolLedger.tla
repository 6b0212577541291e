----------------------------- MODULE ToolLedger -----------------------------
(***************************************************************************)
(* The durable ledger that TaskService keeps for ONE task: the task's      *)
(* status, its Tool calls, their policy decisions and one-shot approvals,  *)
(* the reconciliation case of a call whose outcome is unknown, and the     *)
(* recovery checkpoint.  Every public method of TaskService runs inside    *)
(* one database transaction under the task lock (and every event it writes *)
(* takes the next number of a unique per-task sequence), so a method is    *)
(* one action here.  Its callers - the worker of the task, the HTTP        *)
(* routes, expiry timers, and the startup recovery after a crash - are     *)
(* concurrent, so Next lets the methods come in any order.                 *)
(*                                                                         *)
(* A method that raises rolls its transaction back: it is a step that is   *)
(* not taken.  A replayed request (same decision again, a result for a     *)
(* call that is already terminal) changes nothing and is a stuttering step.*)
(***************************************************************************)
CONSTANTS Calls,        \* the Tool call identities the task may use
          EffectCalls   \* those bound to an attempt of its effect graph

ASSUME EffectCallsAssumption == EffectCalls \subseteq Calls

VARIABLES
  task,      \* TaskRecord.status
  call,      \* ToolCallRecord.status of each call, "absent" before it exists
  policy,    \* ToolCallRecord.policy_effect
  approval,  \* ApprovalRecord.status of the call's only approval
  consumed,  \* calls whose approval has consumed_at set
  lapsed,    \* calls whose approval is past expires_at
  recon,     \* the reconciliation case of the call
  ckpt,      \* the checkpoint row, and whether its event_seq is current
  phase,     \* "serving", or the startup step the process has reached
  kept       \* what prepare_durable_recovery made of the task

vars == <<task, call, policy, approval, consumed, lapsed, recon, ckpt,
          phase, kept>>
startup == <<phase, kept>>

------------------------------------------------------------------------------
(* Vocabulary.                                                             *)

TerminalTask == {"succeeded", "failed", "cancelled"}
TaskStatus == TerminalTask \cup
  {"created", "classifying", "running", "paused", "waiting_approval",
   "waiting_reconciliation"}

TerminalCall == {"succeeded", "failed", "cancelled", "unknown"}
ToolCallStatus == TerminalCall \cup {"absent", "requested", "running"}

PolicyEffect == {"none", "allow", "deny", "require_approval"}
ApprovalStatus ==
  {"none", "pending", "approved", "rejected", "expired", "cancelled"}
CaseStatus == {"none", "pending", "resolved", "applied"}

\* The table of task status changes that _ensure_transition enforces.
ALLOWED_TASK_TRANSITIONS ==
  [s \in TaskStatus |->
     IF s \in TerminalTask THEN {}
     ELSE {"cancelled", "failed"} \cup
          (IF s = "created" THEN {"classifying"}
           ELSE IF s = "running"
                THEN {"paused", "waiting_approval", "waiting_reconciliation",
                      "succeeded"}
                ELSE {"running"})]

Live == task \notin TerminalTask

\* Approvals that can still be granted or spent.
Open == {c \in Calls : \/ approval[c] = "pending"
                       \/ approval[c] = "approved" /\ c \notin consumed}

TypeOK ==
  /\ task \in TaskStatus
  /\ call \in [Calls -> ToolCallStatus]
  /\ policy \in [Calls -> PolicyEffect]
  /\ approval \in [Calls -> ApprovalStatus]
  /\ consumed \subseteq Calls
  /\ lapsed \subseteq Calls
  /\ recon \in [Calls -> CaseStatus]
  /\ ckpt \in {"none", "stale", "bound"}
  /\ phase \in {"serving", "restoring", "approvals", "calls"}
  /\ kept \in {"dropped", "restored", "contended"}

\* create_task writes the task, its first event and, when a checkpoint
\* codec is configured, the first checkpoint.
Init ==
  /\ task = "created"
  /\ call = [c \in Calls |-> "absent"]
  /\ policy = [c \in Calls |-> "none"]
  /\ approval = [c \in Calls |-> "none"]
  /\ consumed = {}
  /\ lapsed = {}
  /\ recon = [c \in Calls |-> "none"]
  /\ ckpt \in {"none", "bound"}
  /\ phase = "serving"
  /\ kept = "dropped"

------------------------------------------------------------------------------
(* What a transaction does to the task row and the checkpoint row.         *)

\* Events were appended and the status is now t: the checkpoint falls
\* behind, and is deleted with the last event of a terminal task.
Journal(t) ==
  /\ task' = t
  /\ ckpt' = IF t \in TerminalTask THEN "none"
             ELSE IF ckpt = "bound" THEN "stale" ELSE ckpt

\* As Journal, but the transaction also writes the checkpoint, or moves its
\* event_seq forward.  A row exists from create_task to the terminal event.
JournalBound(t) ==
  /\ task' = t
  /\ ckpt' = IF t \in TerminalTask \/ ckpt = "none" THEN "none" ELSE "bound"

------------------------------------------------------------------------------
(* Task status.                                                            *)

\* append_event with a new status, and transition_task when the processor
\* commands it (classifying, running): the checkpoint is not moved forward.
append_event(t) ==
  /\ t \in ALLOWED_TASK_TRANSITIONS[task]
  /\ t \in {"classifying", "running", "succeeded", "failed"}
  /\ Journal(t)
  /\ UNCHANGED <<call, policy, approval, consumed, lapsed, recon, startup>>

\* append_event without a new status.
append_progress ==
  /\ Live
  /\ Journal(task)
  /\ UNCHANGED <<call, policy, approval, consumed, lapsed, recon, startup>>

\* The pause and resume commands; a repeated pause changes nothing.
transition_task(t) ==
  /\ t \in {"paused", "running"}
  /\ t \in ALLOWED_TASK_TRANSITIONS[task]
  /\ JournalBound(t)
  /\ UNCHANGED <<call, policy, approval, consumed, lapsed, recon, startup>>

\* Calls still only requested whose approval is closed with the task.
CancelRequested(S) ==
  [c \in Calls |-> IF c \in S /\ call[c] = "requested" THEN "cancelled"
                   ELSE call[c]]

\* Mutant: the filter on consumed_at is dropped.
cancel_task_spent ==
  /\ "cancelled" \in ALLOWED_TASK_TRANSITIONS[task]
  /\ approval' = [c \in Calls |-> IF approval[c] \in {"pending", "approved"}
                                 THEN "cancelled" ELSE approval[c]]
  /\ call' = CancelRequested(Open)
  /\ Journal("cancelled")
  /\ UNCHANGED <<policy, consumed, lapsed, recon, startup>>

\* Cancelling a task takes back every grant that is not spent.
cancel_task ==
  /\ "cancelled" \in ALLOWED_TASK_TRANSITIONS[task]
  /\ approval' = [c \in Calls |-> IF c \in Open THEN "cancelled" ELSE approval[c]]
  /\ call' = CancelRequested(Open)
  /\ Journal("cancelled")
  /\ UNCHANGED <<policy, consumed, lapsed, recon, startup>>

save_task_checkpoint ==
  /\ ckpt = "stale"
  /\ ckpt' = "bound"
  /\ UNCHANGED <<task, call, policy, approval, consumed, lapsed, recon, startup>>

------------------------------------------------------------------------------
(* Authorization of a call.                                                *)

\* record_tool_requested and, with a checkpoint, request_effect_tool_call.
record_tool_requested(c, with) ==
  /\ Live
  /\ call[c] = "absent"
  /\ call' = [call EXCEPT ![c] = "requested"]
  /\ IF with THEN JournalBound(task) ELSE Journal(task)
  /\ UNCHANGED <<policy, approval, consumed, lapsed, recon, startup>>

PolicyMayDecide(c) ==
  /\ task \in {"running", "waiting_approval"}
  /\ call[c] = "requested"

apply_policy_decision_allow(c) ==
  /\ PolicyMayDecide(c)
  /\ policy' = [policy EXCEPT ![c] = "allow"]
  /\ Journal(task)
  /\ UNCHANGED <<call, approval, consumed, lapsed, recon, startup>>

\* failTask is fail_task_on_deny; the DAG preparer passes False.
apply_policy_decision_deny(c, failTask) ==
  /\ PolicyMayDecide(c)
  /\ policy' = [policy EXCEPT ![c] = "deny"]
  /\ call' = [call EXCEPT ![c] = "failed"]
  /\ Journal(IF failTask THEN "failed" ELSE task)
  /\ UNCHANGED <<approval, consumed, lapsed, recon, startup>>

\* A call has at most one approval: approvals.call_id is unique.
apply_policy_decision_require_approval(c) ==
  /\ PolicyMayDecide(c)
  /\ approval[c] = "none"
  /\ policy' = [policy EXCEPT ![c] = "require_approval"]
  /\ approval' = [approval EXCEPT ![c] = "pending"]
  /\ Journal("waiting_approval")
  /\ UNCHANGED <<call, consumed, lapsed, recon, startup>>

\* The clock passes expires_at of an approval that is not closed or spent.
approval_lapses(c) ==
  /\ c \in Open \ lapsed
  /\ lapsed' = lapsed \cup {c}
  /\ UNCHANGED <<task, call, policy, approval, consumed, recon, ckpt, startup>>

ApprovalMayResolve(c) ==
  /\ approval[c] = "pending"
  /\ task = "waiting_approval"

\* Mutant: the approval being granted is counted among the pending ones.
resolve_approval_approve_waits(c) ==
  /\ ApprovalMayResolve(c)
  /\ c \notin lapsed
  /\ approval' = [approval EXCEPT ![c] = "approved"]
  /\ JournalBound(IF \E d \in Calls : approval[d] = "pending"
                 THEN task ELSE "running")
  /\ UNCHANGED <<call, policy, consumed, lapsed, recon, startup>>

\* The task runs again when the last pending approval is granted.
resolve_approval_approve(c) ==
  /\ ApprovalMayResolve(c)
  /\ c \notin lapsed
  /\ approval' = [approval EXCEPT ![c] = "approved"]
  /\ JournalBound(IF \E d \in Calls \ {c} : approval[d] = "pending"
                 THEN task ELSE "running")
  /\ UNCHANGED <<call, policy, consumed, lapsed, recon, startup>>

\* Mutant: _cancel_sibling_approvals is not called.
CloseBatchAlone(c, s) ==
  /\ call[c] = "requested"
  /\ approval' = [approval EXCEPT ![c] = s]
  /\ call' = CancelRequested({c})
  /\ Journal("cancelled")
  /\ UNCHANGED <<policy, consumed, lapsed, recon, startup>>

\* The whole batch goes with the approval that is rejected or has expired.
CloseBatch(c, s) ==
  /\ call[c] = "requested"
  /\ approval' = [d \in Calls |-> IF d = c THEN s
                                  ELSE IF d \in Open THEN "cancelled"
                                  ELSE approval[d]]
  /\ call' = CancelRequested(Open)
  /\ Journal("cancelled")
  /\ UNCHANGED <<policy, consumed, lapsed, recon, startup>>

resolve_approval_reject(c) ==
  /\ ApprovalMayResolve(c)
  /\ c \notin lapsed
  /\ CloseBatch(c, "rejected")

\* Any decision on a lapsed approval, and the expiry timer's expire_approval.
resolve_approval_expired(c) ==
  /\ ApprovalMayResolve(c)
  /\ c \in lapsed
  /\ CloseBatch(c, "expired")

------------------------------------------------------------------------------
(* Dispatch of a call and its result.                                      *)

\* Mutant: the approval's status is not read again at dispatch.
GrantedUnread(c) ==
  /\ policy[c] = "require_approval"
  /\ approval[c] # "none"
  /\ c \notin consumed

\* The grant start_tool_call accepts for an approval.
Granted(c) ==
  /\ policy[c] = "require_approval"
  /\ approval[c] = "approved"
  /\ c \notin consumed

\* A grant that lapsed before it was spent ends the task; the other
\* approvals of the task are left as they are.
start_tool_call_expired(c) ==
  /\ Live
  /\ call[c] = "requested"
  /\ Granted(c)
  /\ c \in lapsed
  /\ approval' = [approval EXCEPT ![c] = "expired"]
  /\ call' = [call EXCEPT ![c] = "cancelled"]
  /\ Journal("cancelled")
  /\ UNCHANGED <<policy, consumed, lapsed, recon, startup>>

\* with is TRUE when the caller writes a checkpoint in the same transaction.
start_tool_call(c, with) ==
  /\ Live
  /\ call[c] = "requested"
  /\ \/ policy[c] = "allow" /\ UNCHANGED consumed
     \/ Granted(c) /\ c \notin lapsed /\ consumed' = consumed \cup {c}
  /\ call' = [call EXCEPT ![c] = "running"]
  /\ IF with THEN JournalBound(task) ELSE Journal(task)
  /\ UNCHANGED <<policy, approval, lapsed, recon, startup>>

\* Mutant: a late result overwrites a recorded one.
MayFinishLate(c, s) ==
  \/ call[c] \in TerminalCall \cup {"running"}
  \/ call[c] = "requested" /\ s \in {"failed", "cancelled"}

\* A requested call can only be closed as never dispatched.
MayFinish(c, s) ==
  \/ call[c] = "running"
  \/ call[c] = "requested" /\ s \in {"failed", "cancelled"}

finish_tool_call(c, s, failTask) ==
  /\ Live
  /\ MayFinish(c, s)
  /\ s \in TerminalCall \ {"unknown"}
  /\ call' = [call EXCEPT ![c] = s]
  /\ Journal(IF failTask /\ s \in {"failed", "cancelled"} THEN "failed" ELSE task)
  /\ UNCHANGED <<policy, approval, consumed, lapsed, recon, startup>>

\* Mutant: _ensure_tool_reconciliation is not called.
finish_tool_call_unknown_uncased(c) ==
  /\ MayFinish(c, "unknown")
  /\ "waiting_reconciliation" \in ALLOWED_TASK_TRANSITIONS[task]
  /\ call' = [call EXCEPT ![c] = "unknown"]
  /\ JournalBound("waiting_reconciliation")
  /\ UNCHANGED <<policy, approval, consumed, lapsed, recon, startup>>

finish_tool_call_unknown(c) ==
  /\ MayFinish(c, "unknown")
  /\ "waiting_reconciliation" \in ALLOWED_TASK_TRANSITIONS[task]
  /\ call' = [call EXCEPT ![c] = "unknown"]
  /\ recon' = [recon EXCEPT ![c] = "pending"]
  /\ JournalBound("waiting_reconciliation")
  /\ UNCHANGED <<policy, approval, consumed, lapsed, startup>>

\* finish_effect_tool_call never fails the task; with is TRUE when the
\* caller hands over the checkpoint of the next stage.
finish_effect_tool_call(c, s, with) ==
  /\ c \in EffectCalls
  /\ MayFinish(c, s)
  /\ \/ /\ s \in TerminalCall \ {"unknown"}
        /\ Live
        /\ recon' = recon
        /\ IF with THEN JournalBound(task) ELSE Journal(task)
     \/ /\ s = "unknown"
        /\ "waiting_reconciliation" \in ALLOWED_TASK_TRANSITIONS[task]
        /\ recon' = [recon EXCEPT ![c] = "pending"]
        /\ IF with THEN JournalBound("waiting_reconciliation")
                   ELSE Journal("waiting_reconciliation")
  /\ call' = [call EXCEPT ![c] = s]
  /\ UNCHANGED <<policy, approval, consumed, lapsed, startup>>

------------------------------------------------------------------------------
(* Reconciliation of an unknown outcome.                                   *)

\* One human verdict per case; a repeated request is answered from its key.
resolve_reconciliation(c) ==
  /\ recon[c] = "pending"
  /\ recon' = [recon EXCEPT ![c] = "resolved"]
  /\ UNCHANGED <<task, call, policy, approval, consumed, lapsed, ckpt, startup>>

\* The verdict is applied once to the blocked graph: the task goes on from a
\* rewritten checkpoint, or ends.
recover_reconciliation_graph(c, t) ==
  /\ c \in EffectCalls
  /\ recon[c] = "resolved"
  /\ task = "waiting_reconciliation"
  /\ t \in {"running", "failed"}
  /\ t = "running" => ckpt # "none"
  /\ recon' = [recon EXCEPT ![c] = "applied"]
  /\ JournalBound(t)
  /\ UNCHANGED <<call, policy, approval, consumed, lapsed, startup>>

------------------------------------------------------------------------------
(* Crash and startup: prepare_durable_recovery, then                       *)
(* recover_pending_approvals, then recover_incomplete_tool_calls.          *)

crash ==
  /\ phase' = "restoring"
  /\ kept' = "dropped"
  /\ UNCHANGED <<task, call, policy, approval, consumed, lapsed, recon, ckpt>>

\* Without a checkpoint, or while a verdict is awaited, nothing is restored.
prepare_durable_recovery_skip ==
  /\ phase = "restoring"
  /\ ckpt = "none" \/ task = "waiting_reconciliation"
  /\ kept' = "dropped"
  /\ phase' = "approvals"
  /\ UNCHANGED <<task, call, policy, approval, consumed, lapsed, recon, ckpt>>

\* Restoring needs a checkpoint bound to the last event; another instance
\* that still holds the graph lease keeps the task.
prepare_durable_recovery(k) ==
  /\ phase = "restoring"
  /\ ckpt # "none" /\ task # "waiting_reconciliation"
  /\ k \in {"restored", "contended"}
  /\ k = "restored" => ckpt = "bound"
  /\ k = "contended" => EffectCalls # {}
  /\ kept' = k
  /\ phase' = "approvals"
  /\ UNCHANGED <<task, call, policy, approval, consumed, lapsed, recon, ckpt>>

\* A checkpoint whose bindings do not agree with the ledger fails the task.
fail_task_checkpoint ==
  /\ phase = "restoring"
  /\ ckpt # "none" /\ task # "waiting_reconciliation"
  /\ Journal("failed")
  /\ kept' = "dropped"
  /\ phase' = "approvals"
  /\ UNCHANGED <<call, policy, approval, consumed, lapsed, recon>>

\* Nothing open, the task is restored, or the graph lease is not available.
recover_pending_approvals_skip ==
  /\ phase = "approvals"
  /\ Open = {} \/ kept # "dropped" \/ EffectCalls # {}
  /\ phase' = "calls"
  /\ UNCHANGED <<task, call, policy, approval, consumed, lapsed, recon, ckpt, kept>>

\* Open approvals have lost their runtime.  A terminal task keeps its calls.
recover_pending_approvals ==
  /\ phase = "approvals"
  /\ kept = "dropped" /\ Open # {}
  /\ approval' = [c \in Calls |-> IF c \in Open THEN "cancelled" ELSE approval[c]]
  /\ IF Live THEN call' = CancelRequested(Open) /\ Journal("cancelled")
             ELSE UNCHANGED <<call, task, ckpt>>
  /\ phase' = "calls"
  /\ UNCHANGED <<policy, consumed, lapsed, recon, kept>>

\* Calls that startup closes, given the requested calls a restored runtime
\* will go on with.
Interrupted(keep) ==
  {c \in Calls : \/ call[c] = "running"
                 \/ call[c] = "requested" /\ c \notin keep}

SettledAtStartup(keep) ==
  IF \E c \in Interrupted(keep) : call[c] = "running"
  THEN "waiting_reconciliation" ELSE "failed"

recover_incomplete_tool_calls_skip(keep) ==
  /\ phase = "calls"
  /\ keep # {} => kept = "restored"
  /\ Interrupted(keep) = {} \/ kept = "contended" \/ EffectCalls # {}
  /\ phase' = "serving"
  /\ UNCHANGED <<task, call, policy, approval, consumed, lapsed, recon, ckpt, kept>>

\* A call that never started failed; one that was running may have acted.
recover_incomplete_tool_calls(keep) ==
  /\ phase = "calls"
  /\ kept # "contended"
  /\ keep # {} => kept = "restored"
  /\ Interrupted(keep) # {}
  /\ call' = [c \in Calls |-> IF c \notin Interrupted(keep) THEN call[c]
                              ELSE IF call[c] = "running" THEN "unknown"
                              ELSE "failed"]
  /\ recon' = [c \in Calls |-> IF call[c] = "running" THEN "pending" ELSE recon[c]]
  /\ IF Live THEN /\ SettledAtStartup(keep) \in ALLOWED_TASK_TRANSITIONS[task]
                  /\ JournalBound(SettledAtStartup(keep))
             ELSE UNCHANGED <<task, ckpt>>
  /\ phase' = "serving"
  /\ UNCHANGED <<policy, approval, consumed, lapsed, kept>>

\* The status change is refused, the transaction is rolled back and the
\* exception leaves the lifespan handler: the process does not come up.
recover_incomplete_tool_calls_raises(keep) ==
  /\ phase = "calls"
  /\ kept # "contended"
  /\ keep # {} => kept = "restored"
  /\ Interrupted(keep) # {}
  /\ Live /\ SettledAtStartup(keep) \notin ALLOWED_TASK_TRANSITIONS[task]
  /\ phase' = "restoring"
  /\ kept' = "dropped"
  /\ UNCHANGED <<task, call, policy, approval, consumed, lapsed, recon, ckpt>>

------------------------------------------------------------------------------
TaskCommand ==
  \/ \E t \in TaskStatus : append_event(t)
  \/ append_progress
  \/ \E t \in TaskStatus : transition_task(t)
  \/ cancel_task
  \/ save_task_checkpoint

Authorization(c) ==
  \/ \E w \in BOOLEAN : record_tool_requested(c, w)
  \/ apply_policy_decision_allow(c)
  \/ \E f \in BOOLEAN : apply_policy_decision_deny(c, f)
  \/ apply_policy_decision_require_approval(c)
  \/ resolve_approval_approve(c)
  \/ resolve_approval_reject(c)
  \/ resolve_approval_expired(c)

Dispatch(c) ==
  \/ start_tool_call_expired(c)
  \/ \E w \in BOOLEAN : start_tool_call(c, w)
  \/ \E s \in TerminalCall, f \in BOOLEAN : finish_tool_call(c, s, f)
  \/ finish_tool_call_unknown(c)
  \/ \E s \in TerminalCall, w \in BOOLEAN : finish_effect_tool_call(c, s, w)
  \/ resolve_reconciliation(c)
  \/ \E t \in TaskStatus : recover_reconciliation_graph(c, t)

Startup ==
  \/ crash
  \/ prepare_durable_recovery_skip
  \/ \E k \in {"restored", "contended"} : prepare_durable_recovery(k)
  \/ fail_task_checkpoint
  \/ recover_pending_approvals_skip
  \/ recover_pending_approvals
  \/ \E keep \in SUBSET Calls :
       \/ recover_incomplete_tool_calls_skip(keep)
       \/ recover_incomplete_tool_calls(keep)
       \/ recover_incomplete_tool_calls_raises(keep)

Next ==
  \/ phase = "serving" /\ TaskCommand
  \/ phase = "serving" /\ \E c \in Calls : Authorization(c) \/ Dispatch(c)
  \/ \E c \in Calls : approval_lapses(c)
  \/ Startup

Spec == Init /\ [][Next]_vars

------------------------------------------------------------------------------
(* What the ledger promises.                                               *)

\* A Tool that has run, or may have run, was allowed by the durable policy or
\* by an approval that a user granted and that this very dispatch spent.  It
\* is the promise of start_tool_call, and every later writer of the call, the
\* approval and the policy decision has to keep it.
AuthorizedDispatch ==
  \A c \in Calls :
    call[c] \in {"running", "succeeded", "unknown"} =>
      \/ policy[c] = "allow"
      \/ /\ policy[c] = "require_approval"
         /\ approval[c] = "approved"
         /\ c \in consumed

\* An unknown outcome and its reconciliation case come and stay together,
\* whichever of the three writers (finish_tool_call, finish_effect_tool_call,
\* startup recovery) finds the outcome unknown.
UnknownHasCase ==
  \A c \in Calls : call[c] = "unknown" <=> recon[c] # "none"

\* A task that waits has something to wait for: a pending approval, or an
\* unknown outcome whose verdict has not been applied.  Otherwise no user
\* action could move it again.
WaitingIsBacked ==
  /\ task = "waiting_approval" => \E c \in Calls : approval[c] = "pending"
  /\ task = "waiting_reconciliation" =>
       \E c \in Calls : call[c] = "unknown" /\ recon[c] \in {"pending", "resolved"}

\* Rejecting one approval of a batch leaves no other grant that could still be
\* given or spent, and the task is over (_cancel_sibling_approvals).
RejectionClosesBatch ==
  (\E c \in Calls : approval[c] = "rejected") =>
     Open = {} /\ task = "cancelled"

\* A task that has ended keeps no checkpoint that a restart could resume.
EndedHasNoCheckpoint == task \in TerminalTask => ckpt = "none"

\* A grant is spent by exactly one dispatch, never after it lapsed, and is
\* never given back: not by an expiry, a cancellation or a restart.
GrantSpentOnce ==
  [][/\ consumed \subseteq consumed'
     /\ \A c \in consumed : approval'[c] = "approved" /\ call'[c] # "requested"
     /\ \A c \in consumed' \ consumed :
          /\ call[c] = "requested" /\ call'[c] = "running"
          /\ c \notin lapsed]_vars

\* No recorded outcome is rewritten and no dispatch is taken back: a terminal
\* call and a terminal task keep their status, a running call can only reach
\* an outcome, and a task that has ended starts and requests nothing more.
SettledFactsStay ==
  [][/\ \A c \in Calls :
          /\ call[c] \in TerminalCall => call'[c] = call[c]
          /\ call[c] = "running" => call'[c] \in TerminalCall \cup {"running"}
          /\ recon[c] = "applied" => recon'[c] = "applied"
     /\ task \in TerminalTask =>
          /\ task' = task
          /\ \A c \in Calls : call'[c] # call[c] => call'[c] \in {"unknown", "failed"}
    ]_vars

=============================================================================
