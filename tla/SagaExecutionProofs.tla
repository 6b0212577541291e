------------------------- MODULE SagaExecutionProofs -------------------------
(***************************************************************************)
(* Proofs, for every number of nodes, about the execution of a task, and   *)
(* before them, for every set of calls, about the ledger it implements.    *)
(*                                                                         *)
(* The invariants of the ledger are inductive together with                *)
(* SpentIsDispatched; its two action properties follow step by step.       *)
(*                                                                         *)
(* For the execution the checkpoint is what everything hangs on.  At any   *)
(* moment, crashes included, the durable state is the one its payload      *)
(* describes, give or take what the current stage has written already: the *)
(* nodes before its index have succeeded, the ones after it are untouched  *)
(* or taken back, and its own node and call are where its stage may have   *)
(* brought them.  A runtime in memory is that payload, or the next one,    *)
(* about to be saved.                                                      *)
(*                                                                         *)
(* That is the first invariant, SagaInv.  A second one, ResumeInv, adds    *)
(* what a restart counts on: the checkpoint of a runtime at rest is bound, *)
(* and the task, the call and the grant are where its stage has brought    *)
(* them.  A bound checkpoint nobody drives, after a verdict or a crash,    *)
(* keeps to its rows because no step that binds one leaves them behind.    *)
(***************************************************************************)
EXTENDS SagaExecution, TLAPS

-----------------------------------------------------------------------------
(* The ledger.                                                             *)

\* The strengthening: a spent grant is frozen, and its call has left the
\* "requested" state.  Without it the ledger could cancel the approval of a
\* running call, or spend a grant a second time.
SpentIsDispatched ==
  \A c \in consumed : /\ approval[c] = "approved"
                      /\ call[c] \notin {"absent", "requested"}

IInv == /\ TypeOK
        /\ AuthorizedDispatch
        /\ UnknownHasCase
        /\ WaitingIsBacked
        /\ RejectionClosesBatch
        /\ EndedHasNoCheckpoint
        /\ SpentIsDispatched

\* The state create_task writes satisfies the invariant.
LEMMA InitIInv == Init => IInv
  BY DEF Init, IInv, TypeOK, AuthorizedDispatch, UnknownHasCase, WaitingIsBacked,
         RejectionClosesBatch, EndedHasNoCheckpoint, SpentIsDispatched, Open,
         TaskStatus, TerminalTask, ToolCallStatus, TerminalCall, PolicyEffect,
         ApprovalStatus, CaseStatus

\* Every method of the service, and every startup step, preserves it.
LEMMA NextIInv == IInv /\ [Next]_vars => IInv'
<1> SUFFICES ASSUME IInv, [Next]_vars PROVE IInv'
  OBVIOUS
<1> USE DEF IInv, TypeOK, AuthorizedDispatch, UnknownHasCase, WaitingIsBacked,
            RejectionClosesBatch, EndedHasNoCheckpoint, SpentIsDispatched, Open,
            TaskStatus, TerminalTask, ToolCallStatus, TerminalCall, PolicyEffect,
            ApprovalStatus, CaseStatus, Journal, JournalBound, startup
<1>1. ASSUME NEW t \in TaskStatus, append_event(t) PROVE IInv'
  BY <1>1 DEF append_event, ALLOWED_TASK_TRANSITIONS
<1>2. ASSUME append_progress PROVE IInv'
  BY <1>2 DEF append_progress, Live
<1>3. ASSUME NEW t \in TaskStatus, transition_task(t) PROVE IInv'
  BY <1>3 DEF transition_task, ALLOWED_TASK_TRANSITIONS
<1>4. ASSUME cancel_task PROVE IInv'
  BY <1>4 DEF cancel_task, ALLOWED_TASK_TRANSITIONS, CancelRequested, Open
<1>5. ASSUME save_task_checkpoint PROVE IInv'
  BY <1>5 DEF save_task_checkpoint
<1>6. ASSUME NEW c \in Calls, NEW w \in BOOLEAN, record_tool_requested(c, w) PROVE IInv'
  BY <1>6 DEF record_tool_requested, Live
<1>7. ASSUME NEW c \in Calls, apply_policy_decision_allow(c) PROVE IInv'
  BY <1>7 DEF apply_policy_decision_allow, PolicyMayDecide
<1>8. ASSUME NEW c \in Calls, NEW f \in BOOLEAN,
             apply_policy_decision_deny(c, f)
      PROVE  IInv'
  BY <1>8 DEF apply_policy_decision_deny, PolicyMayDecide
<1>9. ASSUME NEW c \in Calls, apply_policy_decision_require_approval(c)
      PROVE  IInv'
  BY <1>9 DEF apply_policy_decision_require_approval, PolicyMayDecide
<1>10. ASSUME NEW c \in Calls, resolve_approval_approve(c) PROVE IInv'
  BY <1>10 DEF resolve_approval_approve, ApprovalMayResolve
<1>11. ASSUME NEW c \in Calls, resolve_approval_reject(c) PROVE IInv'
  BY <1>11 DEF resolve_approval_reject, ApprovalMayResolve, CloseBatch,
       CancelRequested, Open
<1>12. ASSUME NEW c \in Calls, resolve_approval_expired(c) PROVE IInv'
  BY <1>12 DEF resolve_approval_expired, ApprovalMayResolve, CloseBatch,
       CancelRequested, Open
<1>13. ASSUME NEW c \in Calls, start_tool_call_expired(c) PROVE IInv'
  BY <1>13 DEF start_tool_call_expired, Live, Granted
<1>14. ASSUME NEW c \in Calls, NEW w \in BOOLEAN, start_tool_call(c, w)
      PROVE  IInv'
  BY <1>14 DEF start_tool_call, Live, Granted
<1>15. ASSUME NEW c \in Calls, NEW s \in TerminalCall, NEW f \in BOOLEAN,
             finish_tool_call(c, s, f)
      PROVE  IInv'
  BY <1>15 DEF finish_tool_call, Live, MayFinish
<1>16. ASSUME NEW c \in Calls, finish_tool_call_unknown(c) PROVE IInv'
  BY <1>16 DEF finish_tool_call_unknown, MayFinish, ALLOWED_TASK_TRANSITIONS
<1>17. ASSUME NEW c \in Calls, NEW s \in TerminalCall, NEW w \in BOOLEAN,
             finish_effect_tool_call(c, s, w)
      PROVE  IInv'
  BY <1>17 DEF finish_effect_tool_call, Live, MayFinish,
       ALLOWED_TASK_TRANSITIONS
<1>18. ASSUME NEW c \in Calls, resolve_reconciliation(c) PROVE IInv'
  BY <1>18 DEF resolve_reconciliation
<1>19. ASSUME NEW c \in Calls, NEW t \in TaskStatus,
             recover_reconciliation_graph(c, t)
      PROVE  IInv'
  BY <1>19 DEF recover_reconciliation_graph
<1>20. ASSUME NEW c \in Calls, approval_lapses(c) PROVE IInv'
  BY <1>20 DEF approval_lapses
<1>21. ASSUME crash PROVE IInv'
  BY <1>21 DEF crash
<1>22. ASSUME prepare_durable_recovery_skip PROVE IInv'
  BY <1>22 DEF prepare_durable_recovery_skip
<1>23. ASSUME NEW k \in {"restored", "contended"}, prepare_durable_recovery(k)
      PROVE  IInv'
  BY <1>23 DEF prepare_durable_recovery
<1>24. ASSUME fail_task_checkpoint PROVE IInv'
  BY <1>24 DEF fail_task_checkpoint
<1>25. ASSUME recover_pending_approvals_skip PROVE IInv'
  BY <1>25 DEF recover_pending_approvals_skip
<1>26. ASSUME recover_pending_approvals PROVE IInv'
  BY <1>26 DEF recover_pending_approvals, Live, CancelRequested, Open
<1>27. ASSUME NEW keep \in SUBSET Calls,
             recover_incomplete_tool_calls_skip(keep)
      PROVE  IInv'
  BY <1>27 DEF recover_incomplete_tool_calls_skip
<1>28. ASSUME NEW keep \in SUBSET Calls, recover_incomplete_tool_calls(keep)
      PROVE  IInv'
  BY <1>28 DEF recover_incomplete_tool_calls, Live, Interrupted,
       SettledAtStartup, ALLOWED_TASK_TRANSITIONS
<1>29. ASSUME NEW keep \in SUBSET Calls,
             recover_incomplete_tool_calls_raises(keep)
      PROVE  IInv'
  BY <1>29 DEF recover_incomplete_tool_calls_raises
<1>30. ASSUME UNCHANGED vars PROVE IInv'
  BY <1>30 DEF vars
<1> QED BY <1>1, <1>2, <1>3, <1>4, <1>5, <1>6, <1>7, <1>8, <1>9, <1>10,
       <1>11, <1>12, <1>13, <1>14, <1>15, <1>16, <1>17, <1>18, <1>19, <1>20,
       <1>21, <1>22, <1>23, <1>24, <1>25, <1>26, <1>27, <1>28, <1>29, <1>30
   DEF Next, TaskCommand, Authorization, Dispatch, Startup

\* The invariant holds in every state.
LEMMA InductiveInvariant == Spec => []IInv
  BY InitIInv, NextIInv, PTL DEF Spec

\* The rows of the ledger keep their types.
THEOREM TypeCorrect == Spec => []TypeOK
<1>1. IInv => TypeOK  BY DEF IInv
<1> QED BY <1>1, InductiveInvariant, PTL

\* No Tool runs without a policy that allows it, or an approval granted by a
\* user and spent by that dispatch (start_tool_call).
THEOREM DispatchAuthorized == Spec => []AuthorizedDispatch
<1>1. IInv => AuthorizedDispatch  BY DEF IInv
<1> QED BY <1>1, InductiveInvariant, PTL

\* Each unknown outcome has its reconciliation case, and no other call has one.
THEOREM UnknownReconciled == Spec => []UnknownHasCase
<1>1. IInv => UnknownHasCase  BY DEF IInv
<1> QED BY <1>1, InductiveInvariant, PTL

\* A waiting task always has the approval or the verdict it waits for.
THEOREM WaitsBacked == Spec => []WaitingIsBacked
<1>1. IInv => WaitingIsBacked  BY DEF IInv
<1> QED BY <1>1, InductiveInvariant, PTL

\* After a rejection no grant of the task can be given or spent any more.
THEOREM RejectionFinal == Spec => []RejectionClosesBatch
<1>1. IInv => RejectionClosesBatch  BY DEF IInv
<1> QED BY <1>1, InductiveInvariant, PTL

\* A task that has ended cannot be resumed from a checkpoint by a restart.
THEOREM EndedNotResumable == Spec => []EndedHasNoCheckpoint
<1>1. IInv => EndedHasNoCheckpoint  BY DEF IInv
<1> QED BY <1>1, InductiveInvariant, PTL

\* What one step may do to grants.
GrantStep ==
  /\ consumed \subseteq consumed'
  /\ \A c \in consumed : approval'[c] = "approved" /\ call'[c] # "requested"
  /\ \A c \in consumed' \ consumed :
       /\ call[c] = "requested" /\ call'[c] = "running"
       /\ c \notin lapsed

\* No method gives a grant back or spends it twice.
LEMMA NextGrantStep == IInv /\ [Next]_vars => GrantStep
<1> SUFFICES ASSUME IInv, [Next]_vars PROVE GrantStep
  OBVIOUS
<1> USE DEF GrantStep, IInv, TypeOK, SpentIsDispatched, TerminalCall, startup
<1>1. ASSUME NEW t \in TaskStatus, append_event(t) PROVE GrantStep
  BY <1>1 DEF append_event
<1>2. ASSUME append_progress PROVE GrantStep
  BY <1>2 DEF append_progress
<1>3. ASSUME NEW t \in TaskStatus, transition_task(t) PROVE GrantStep
  BY <1>3 DEF transition_task
<1>4. ASSUME cancel_task PROVE GrantStep
  BY <1>4 DEF cancel_task, CancelRequested, Open
<1>5. ASSUME save_task_checkpoint PROVE GrantStep
  BY <1>5 DEF save_task_checkpoint
<1>6. ASSUME NEW c \in Calls, NEW w \in BOOLEAN, record_tool_requested(c, w) PROVE GrantStep
  BY <1>6 DEF record_tool_requested
<1>7. ASSUME NEW c \in Calls, apply_policy_decision_allow(c) PROVE GrantStep
  BY <1>7 DEF apply_policy_decision_allow, PolicyMayDecide
<1>8. ASSUME NEW c \in Calls, NEW f \in BOOLEAN,
             apply_policy_decision_deny(c, f)
      PROVE  GrantStep
  BY <1>8 DEF apply_policy_decision_deny, PolicyMayDecide
<1>9. ASSUME NEW c \in Calls, apply_policy_decision_require_approval(c)
      PROVE  GrantStep
  BY <1>9 DEF apply_policy_decision_require_approval, PolicyMayDecide
<1>10. ASSUME NEW c \in Calls, resolve_approval_approve(c) PROVE GrantStep
  BY <1>10 DEF resolve_approval_approve, ApprovalMayResolve
<1>11. ASSUME NEW c \in Calls, resolve_approval_reject(c) PROVE GrantStep
  BY <1>11 DEF resolve_approval_reject, ApprovalMayResolve, CloseBatch,
       CancelRequested, Open
<1>12. ASSUME NEW c \in Calls, resolve_approval_expired(c) PROVE GrantStep
  BY <1>12 DEF resolve_approval_expired, ApprovalMayResolve, CloseBatch,
       CancelRequested, Open
<1>13. ASSUME NEW c \in Calls, start_tool_call_expired(c) PROVE GrantStep
  BY <1>13 DEF start_tool_call_expired, Granted
<1>14. ASSUME NEW c \in Calls, NEW w \in BOOLEAN, start_tool_call(c, w)
      PROVE  GrantStep
  BY <1>14 DEF start_tool_call, Granted
<1>15. ASSUME NEW c \in Calls, NEW s \in TerminalCall, NEW f \in BOOLEAN,
             finish_tool_call(c, s, f)
      PROVE  GrantStep
  BY <1>15 DEF finish_tool_call, MayFinish
<1>16. ASSUME NEW c \in Calls, finish_tool_call_unknown(c) PROVE GrantStep
  BY <1>16 DEF finish_tool_call_unknown, MayFinish
<1>17. ASSUME NEW c \in Calls, NEW s \in TerminalCall, NEW w \in BOOLEAN,
             finish_effect_tool_call(c, s, w)
      PROVE  GrantStep
  BY <1>17 DEF finish_effect_tool_call, MayFinish
<1>18. ASSUME NEW c \in Calls, resolve_reconciliation(c) PROVE GrantStep
  BY <1>18 DEF resolve_reconciliation
<1>19. ASSUME NEW c \in Calls, NEW t \in TaskStatus,
             recover_reconciliation_graph(c, t)
      PROVE  GrantStep
  BY <1>19 DEF recover_reconciliation_graph
<1>20. ASSUME NEW c \in Calls, approval_lapses(c) PROVE GrantStep
  BY <1>20 DEF approval_lapses
<1>21. ASSUME crash PROVE GrantStep
  BY <1>21 DEF crash
<1>22. ASSUME prepare_durable_recovery_skip PROVE GrantStep
  BY <1>22 DEF prepare_durable_recovery_skip
<1>23. ASSUME NEW k \in {"restored", "contended"}, prepare_durable_recovery(k)
      PROVE  GrantStep
  BY <1>23 DEF prepare_durable_recovery
<1>24. ASSUME fail_task_checkpoint PROVE GrantStep
  BY <1>24 DEF fail_task_checkpoint
<1>25. ASSUME recover_pending_approvals_skip PROVE GrantStep
  BY <1>25 DEF recover_pending_approvals_skip
<1>26. ASSUME recover_pending_approvals PROVE GrantStep
  BY <1>26 DEF recover_pending_approvals, CancelRequested, Open
<1>27. ASSUME NEW keep \in SUBSET Calls,
             recover_incomplete_tool_calls_skip(keep)
      PROVE  GrantStep
  BY <1>27 DEF recover_incomplete_tool_calls_skip
<1>28. ASSUME NEW keep \in SUBSET Calls, recover_incomplete_tool_calls(keep)
      PROVE  GrantStep
  BY <1>28 DEF recover_incomplete_tool_calls, Interrupted,
       SettledAtStartup
<1>29. ASSUME NEW keep \in SUBSET Calls,
             recover_incomplete_tool_calls_raises(keep)
      PROVE  GrantStep
  BY <1>29 DEF recover_incomplete_tool_calls_raises
<1>30. ASSUME UNCHANGED vars PROVE GrantStep
  BY <1>30 DEF vars
<1> QED BY <1>1, <1>2, <1>3, <1>4, <1>5, <1>6, <1>7, <1>8, <1>9, <1>10,
       <1>11, <1>12, <1>13, <1>14, <1>15, <1>16, <1>17, <1>18, <1>19, <1>20,
       <1>21, <1>22, <1>23, <1>24, <1>25, <1>26, <1>27, <1>28, <1>29, <1>30
   DEF Next, TaskCommand, Authorization, Dispatch, Startup

\* One-shot approvals: spent by one dispatch, in time, and never returned.
THEOREM GrantsSpentOnce == Spec => GrantSpentOnce
<1>1. IInv /\ [Next]_vars => [GrantStep]_vars
  BY NextGrantStep
<1>2. [][GrantStep]_vars => GrantSpentOnce
  BY PTL DEF GrantSpentOnce, GrantStep
<1> QED BY <1>1, <1>2, InductiveInvariant, PTL DEF Spec

\* What one step may do to recorded outcomes.
SettledStep ==
  /\ \A c \in Calls :
       /\ call[c] \in TerminalCall => call'[c] = call[c]
       /\ call[c] = "running" => call'[c] \in TerminalCall \cup {"running"}
       /\ recon[c] = "applied" => recon'[c] = "applied"
  /\ task \in TerminalTask =>
       /\ task' = task
       /\ \A c \in Calls : call'[c] # call[c] => call'[c] \in {"unknown", "failed"}

\* No method rewrites an outcome.
LEMMA NextSettledStep == IInv /\ [Next]_vars => SettledStep
<1> SUFFICES ASSUME IInv, [Next]_vars PROVE SettledStep
  OBVIOUS
<1> USE DEF SettledStep, IInv, TypeOK, UnknownHasCase, EndedHasNoCheckpoint, Open,
            TaskStatus, TerminalTask, ToolCallStatus, TerminalCall, Journal,
            JournalBound, startup
<1>1. ASSUME NEW t \in TaskStatus, append_event(t) PROVE SettledStep
  BY <1>1 DEF append_event, ALLOWED_TASK_TRANSITIONS
<1>2. ASSUME append_progress PROVE SettledStep
  BY <1>2 DEF append_progress, Live
<1>3. ASSUME NEW t \in TaskStatus, transition_task(t) PROVE SettledStep
  BY <1>3 DEF transition_task, ALLOWED_TASK_TRANSITIONS
<1>4. ASSUME cancel_task PROVE SettledStep
  BY <1>4 DEF cancel_task, ALLOWED_TASK_TRANSITIONS, CancelRequested, Open
<1>5. ASSUME save_task_checkpoint PROVE SettledStep
  BY <1>5 DEF save_task_checkpoint
<1>6. ASSUME NEW c \in Calls, NEW w \in BOOLEAN, record_tool_requested(c, w) PROVE SettledStep
  BY <1>6 DEF record_tool_requested, Live
<1>7. ASSUME NEW c \in Calls, apply_policy_decision_allow(c) PROVE SettledStep
  BY <1>7 DEF apply_policy_decision_allow, PolicyMayDecide
<1>8. ASSUME NEW c \in Calls, NEW f \in BOOLEAN,
             apply_policy_decision_deny(c, f)
      PROVE  SettledStep
  BY <1>8 DEF apply_policy_decision_deny, PolicyMayDecide
<1>9. ASSUME NEW c \in Calls, apply_policy_decision_require_approval(c)
      PROVE  SettledStep
  BY <1>9 DEF apply_policy_decision_require_approval, PolicyMayDecide
<1>10. ASSUME NEW c \in Calls, resolve_approval_approve(c) PROVE SettledStep
  BY <1>10 DEF resolve_approval_approve, ApprovalMayResolve
<1>11. ASSUME NEW c \in Calls, resolve_approval_reject(c) PROVE SettledStep
  BY <1>11 DEF resolve_approval_reject, ApprovalMayResolve, CloseBatch,
       CancelRequested, Open
<1>12. ASSUME NEW c \in Calls, resolve_approval_expired(c) PROVE SettledStep
  BY <1>12 DEF resolve_approval_expired, ApprovalMayResolve, CloseBatch,
       CancelRequested, Open
<1>13. ASSUME NEW c \in Calls, start_tool_call_expired(c) PROVE SettledStep
  BY <1>13 DEF start_tool_call_expired, Live, Granted
<1>14. ASSUME NEW c \in Calls, NEW w \in BOOLEAN, start_tool_call(c, w)
      PROVE  SettledStep
  BY <1>14 DEF start_tool_call, Live, Granted
<1>15. ASSUME NEW c \in Calls, NEW s \in TerminalCall, NEW f \in BOOLEAN,
             finish_tool_call(c, s, f)
      PROVE  SettledStep
  BY <1>15 DEF finish_tool_call, Live, MayFinish
<1>16. ASSUME NEW c \in Calls, finish_tool_call_unknown(c) PROVE SettledStep
  BY <1>16 DEF finish_tool_call_unknown, MayFinish, ALLOWED_TASK_TRANSITIONS
<1>17. ASSUME NEW c \in Calls, NEW s \in TerminalCall, NEW w \in BOOLEAN,
             finish_effect_tool_call(c, s, w)
      PROVE  SettledStep
  BY <1>17 DEF finish_effect_tool_call, Live, MayFinish,
       ALLOWED_TASK_TRANSITIONS
<1>18. ASSUME NEW c \in Calls, resolve_reconciliation(c) PROVE SettledStep
  BY <1>18 DEF resolve_reconciliation
<1>19. ASSUME NEW c \in Calls, NEW t \in TaskStatus,
             recover_reconciliation_graph(c, t)
      PROVE  SettledStep
  BY <1>19 DEF recover_reconciliation_graph
<1>20. ASSUME NEW c \in Calls, approval_lapses(c) PROVE SettledStep
  BY <1>20 DEF approval_lapses
<1>21. ASSUME crash PROVE SettledStep
  BY <1>21 DEF crash
<1>22. ASSUME prepare_durable_recovery_skip PROVE SettledStep
  BY <1>22 DEF prepare_durable_recovery_skip
<1>23. ASSUME NEW k \in {"restored", "contended"}, prepare_durable_recovery(k)
      PROVE  SettledStep
  BY <1>23 DEF prepare_durable_recovery
<1>24. ASSUME fail_task_checkpoint PROVE SettledStep
  BY <1>24 DEF fail_task_checkpoint
<1>25. ASSUME recover_pending_approvals_skip PROVE SettledStep
  BY <1>25 DEF recover_pending_approvals_skip
<1>26. ASSUME recover_pending_approvals PROVE SettledStep
  BY <1>26 DEF recover_pending_approvals, Live, CancelRequested, Open
<1>27. ASSUME NEW keep \in SUBSET Calls,
             recover_incomplete_tool_calls_skip(keep)
      PROVE  SettledStep
  BY <1>27 DEF recover_incomplete_tool_calls_skip
<1>28. ASSUME NEW keep \in SUBSET Calls, recover_incomplete_tool_calls(keep)
      PROVE  SettledStep
  BY <1>28 DEF recover_incomplete_tool_calls, Live, Interrupted,
       SettledAtStartup, ALLOWED_TASK_TRANSITIONS
<1>29. ASSUME NEW keep \in SUBSET Calls,
             recover_incomplete_tool_calls_raises(keep)
      PROVE  SettledStep
  BY <1>29 DEF recover_incomplete_tool_calls_raises
<1>30. ASSUME UNCHANGED vars PROVE SettledStep
  BY <1>30 DEF vars
<1> QED BY <1>1, <1>2, <1>3, <1>4, <1>5, <1>6, <1>7, <1>8, <1>9, <1>10,
       <1>11, <1>12, <1>13, <1>14, <1>15, <1>16, <1>17, <1>18, <1>19, <1>20,
       <1>21, <1>22, <1>23, <1>24, <1>25, <1>26, <1>27, <1>28, <1>29, <1>30
   DEF Next, TaskCommand, Authorization, Dispatch, Startup

\* Terminal calls and terminal tasks are final, whatever is retried, arrives
\* late or is recovered after a crash.
THEOREM FactsSettled == Spec => SettledFactsStay
<1>1. IInv /\ [Next]_vars => [SettledStep]_vars
  BY NextSettledStep
<1>2. [][SettledStep]_vars => SettledFactsStay
  BY PTL DEF SettledFactsStay, SettledStep
<1> QED BY <1>1, <1>2, InductiveInvariant, PTL DEF Spec

-----------------------------------------------------------------------------
(* The execution.                                                          *)

CallOf(r) == <<r.mode, r.index>>

\* Where stage r.stage may have brought its node ...
NodeOf(r) ==
  LET fwd == r.mode = "forward" IN
  IF r.stage <= 2 THEN {"pending"}
  ELSE IF r.stage = 3
       THEN IF fwd THEN {"pending", "active"} ELSE {"succeeded", "compensating"}
  ELSE IF r.stage \in {4, 5}
       THEN IF fwd THEN {"active", "failed"} ELSE {"compensating", "compensation_failed"}
  ELSE IF r.stage = 6
       THEN IF fwd THEN {"active", "running", "failed", "unknown"}
            ELSE {"compensating", "running", "compensation_failed", "compensation_unknown"}
  ELSE IF fwd THEN {"succeeded"} ELSE {"compensated"}

\* ... and its call.
StatusOf(r) ==
  IF r.stage <= 4 THEN {"absent"}
  ELSE IF r.stage = 5 THEN {"requested", "failed", "cancelled"}
  ELSE IF r.stage = 6 THEN {"requested", "running", "failed", "cancelled", "unknown"}
  ELSE {"succeeded", "unknown"}

\* Where a node is between two stages.
RestOf(r) ==
  LET fwd == r.mode = "forward" IN
  IF r.stage = 3 THEN IF fwd THEN {"pending"} ELSE {"succeeded"}
  ELSE IF r.stage \in {4, 5, 6} THEN IF fwd THEN {"active"} ELSE {"compensating"}
  ELSE NodeOf(r)

\* Nodes before the current one are applied, the ones after it are not.
Frontier(r) ==
  \A j \in Nodes :
    /\ j < r.index => node[j] = "succeeded"
    /\ j > r.index => node[j] \in NoEffectStands
    /\ j > r.index /\ r.mode = "forward" => node[j] = "pending"

\* Calls that are not due have not been made, and no other one is open.
NotDue(r) ==
  /\ \A j \in Nodes :
       /\ r.mode = "forward" => call[<<"compensating", j>>] = "absent"
       /\ r.mode = "forward" /\ j > r.index => call[<<"forward", j>>] = "absent"
       /\ j < r.index => call[<<"compensating", j>>] = "absent"
  /\ \A c \in Calls : c # CallOf(r) => call[c] \notin {"requested", "running"}

\* The durable state is the one the payload r describes.
Fits(r) ==
  /\ r.stage \in 0..8
  /\ r.stage < 6 => ~r.approval
  /\ r.stage <= 2 => r.index = 1 /\ r.mode = "forward" /\ mode = "forward"
  /\ r.stage = 8 => r.mode = "forward" /\ r.index = NodeCount /\ graph = "succeeded"
  /\ r.mode = "compensating" => Evident(<<"forward", r.index>>)
  /\ mode = "compensating" /\ r.mode = "forward" => node[r.index] = "failed"
  /\ node[r.index] \in NodeOf(r)
  /\ call[CallOf(r)] \in StatusOf(r)
  /\ node[r.index] \in {"failed", "compensation_failed"} =>
       call[CallOf(r)] \notin {"requested", "running"}
  /\ Frontier(r)
  /\ NotDue(r)

Saving == worker \in {"save", "save_suspend"}
Driven == worker # "done" \/ known

\* The durable state fits the checkpoint always, and a runtime that is about to
\* be saved; any other runtime in use is the checkpoint.
SavedFits == \A r \in {saved} : Fits(r)
NextFits == Saving => \A r \in {rt} : Fits(r)
RtIsSaved == Driven /\ ~Saving => rt = saved

\* Between two stages the node is where it rests, and inside of one where the
\* place of the worker says.
AtPlace ==
  \A r \in {rt} :
    /\ \/ worker \in {"top", "save", "save_suspend", "suspended", "leaving"}
       \/ worker = "done" /\ known
       => node[r.index] \in RestOf(r)
    /\ worker \in {"save_suspend", "suspended", "leaving"} => r.stage = 6
    /\ worker = "planned" => r.stage = 1
    /\ worker = "raised" => ~known
    /\ worker = "stepping" =>
         /\ r.stage = 3
         /\ node[r.index] = IF r.mode = "compensating" THEN "compensating" ELSE "active"
    /\ worker = "denied" =>
         /\ r.stage = 5 /\ call[CallOf(r)] = "failed"
         /\ node[r.index] = IF r.mode = "compensating" THEN "compensating" ELSE "active"
    /\ worker = "dispatched" => r.stage = 6 /\ node[r.index] = "running"
    /\ worker = "closing" =>
         r.stage = 7 /\ r.index = IF r.mode = "compensating" THEN 1 ELSE NodeCount

\* A case without an applied verdict is the one of the checkpoint's call, and
\* nobody drives the task until it is applied.
OpenCase ==
  \A c \in Calls : recon[c] \in {"pending", "resolved"} =>
    /\ c = SavedCall /\ saved.stage = 6
    /\ worker = "done" /\ ~known
    /\ Live => /\ task = "waiting_reconciliation"
               /\ node[saved.index] \in {"unknown", "compensation_unknown"}

\* A verdict is given once.
VerdictOnce == \A c \in Calls : recon[c] \in {"none", "pending"} => verdict[c] = "none"

\* During the startup no worker runs, and a restored runtime has its call.
StartupIsQuiet ==
  phase # "serving" =>
    /\ worker = "done"
    /\ known => /\ kept = "restored" /\ phase # "restoring"
                /\ rt.stage \in {5, 6} => call[Current] = "requested"

\* Nobody drives a task that has succeeded.
SuccessIsFinal == task = "succeeded" => worker = "done" /\ ~known

Core ==
  /\ SavedFits
  /\ NextFits
  /\ RtIsSaved
  /\ AtPlace
  /\ OpenCase
  /\ VerdictOnce
  /\ StartupIsQuiet
  /\ SuccessIsFinal
  /\ OutcomeMatchesGraph
  /\ EffectHasEvidence

\* A request that restores a checkpoint after a verdict finds no worker, no
\* runtime and no other request that starts one; the task it has seen running
\* may be paused or end, but not wait or succeed.
Recovering ==
  recovering # "no" =>
    /\ phase = "serving" /\ starting = "no"
    /\ worker = "done" /\ ~known
    /\ task \in {"running", "paused", "failed", "cancelled"}

SagaInv == IInv /\ SagaTypeOK /\ Core /\ Recovering
-----------------------------------------------------------------------------
(* The execution implements the ledger.                                    *)

\* The calls of the runtime and of the checkpoint are calls of the ledger.
LEMMA CallsAre ==
  /\ Calls = Modes \X Nodes /\ EffectCalls = Calls
  /\ \A m \in Modes, i \in Nodes : <<m, i>> \in Calls
  /\ \A c \in Calls : c = <<c[1], c[2]>> /\ c[1] \in Modes /\ c[2] \in Nodes
  /\ SagaTypeOK => Current \in Calls /\ SavedCall \in Calls
<1>1. Calls = Modes \X Nodes /\ EffectCalls = Calls
  BY SagaAssumption
<1>2. SagaTypeOK => Current \in Calls /\ SavedCall \in Calls
  BY <1>1 DEF SagaTypeOK, Runtime, Current, SavedCall
<1> QED BY <1>1, <1>2

\* An event of the graph is one of the ledger, or comes after the end of the
\* task, when there is no checkpoint left to fall behind.
LEMMA RecordEvent ==
  ASSUME IInv, record_event
  PROVE  append_progress \/ UNCHANGED vars
  BY DEF record_event, append_progress, Journal, Live, IInv, EndedHasNoCheckpoint, TypeOK,
         startup, vars

\* A stage of the worker is a method of TaskService, or writes nothing.
LEMMA WorkerStepsLedger ==
  ASSUME IInv, SagaTypeOK, Worker
  PROVE  [Next]_vars
<1> USE CallsAre DEF In, At, Serving
<1>s. /\ \A t : append_event(t) => t \in TaskStatus
      /\ \A s, w : \A c : finish_effect_tool_call(c, s, w) => s \in TerminalCall
  BY DEF append_event, TaskStatus, TerminalTask, finish_effect_tool_call, TerminalCall
<1>1. CASE worker_stops \/ stage_1_raises \/ stage_4_raises \/ stage_5_raises \/ stage_call_gone
           \/ suspend_reads_approval \/ suspend_leaves
           \/ worker_is_fenced \/ worker_finds_task_ended \/ worker_is_refused
  BY <1>1 DEF worker_stops, stage_1_raises, stage_4_raises, stage_5_raises, stage_call_gone,
     suspend_reads_approval, suspend_leaves, worker_is_fenced, worker_finds_task_ended,
     worker_is_refused
<1>2. CASE ensure_effect_graph \/ stage_3_start_node \/ stage_4_saga_conflict
           \/ stage_5_denied_node \/ stage_7_close_graph
  <2>1. record_event /\ phase = "serving"
    BY <1>2 DEF ensure_effect_graph, stage_3_start_node, stage_4_saga_conflict,
       stage_5_denied_node, stage_7_close_graph
  <2> QED BY <2>1, RecordEvent DEF Next, TaskCommand
<1>3. CASE stage_0_classifying \/ stage_2_running \/ stage_8_completed \/ fail_task
  BY <1>3, <1>s DEF stage_0_classifying, stage_2_running, stage_8_completed, fail_task, Next,
     TaskCommand
<1>4. CASE stage_1_plan \/ stage_3_step_started \/ stage_7_step_completed
  BY <1>4 DEF stage_1_plan, stage_3_step_started, stage_7_step_completed, Next, TaskCommand
<1>5. CASE stage_4_request
  BY <1>5 DEF stage_4_request, Next, Authorization
<1>6. CASE stage_5_allow \/ stage_5_require_approval \/ stage_5_deny
  BY <1>6 DEF stage_5_allow, stage_5_require_approval, stage_5_deny, PolicyAnswers, Next,
     Authorization
<1>7. ASSUME NEW s, FinishFailure(s), phase = "serving" PROVE Next
  <2>1. PICK w \in BOOLEAN : finish_effect_tool_call(Current, s, w)
    BY <1>7 DEF FinishFailure, HasAppliedPredecessor
  <2> QED BY <1>7, <1>s, <2>1 DEF Next, Dispatch
<1>8. CASE stage_6_runner_not_ready \/ runner_failed("failed") \/ runner_failed("cancelled")
  BY <1>7, <1>8 DEF stage_6_runner_not_ready, runner_failed
<1>9. CASE stage_6_start \/ stage_6_expired
  BY <1>9 DEF stage_6_start, stage_6_expired, Next, Dispatch
<1>10. CASE runner_succeeded \/ runner_unknown
  BY <1>10, <1>s DEF runner_succeeded, runner_unknown, Next, Dispatch
<1>11. CASE record_exception
  BY <1>11, <1>s DEF record_exception, Next, TaskCommand
<1>12. CASE save_checkpoint
  BY <1>12 DEF save_checkpoint, Next, TaskCommand
<1> QED BY <1>1, <1>2, <1>3, <1>4, <1>5, <1>6, <1>8, <1>9, <1>10, <1>11, <1>12 DEF Worker

\* So is what a request, a timer or a person does ...
LEMMA RequestStepsLedger ==
  ASSUME SagaTypeOK, Control \/ Decisions
  PROVE  [Next]_vars
<1> USE CallsAre DEF Serving
<1>1. CASE lease_lost \/ pause_asks \/ pause_waited \/ resume_starts \/ cancel_asks_worker
           \/ cancel_unowned \/ cancel_forgets \/ approve_replayed \/ approve_continues
           \/ recover_graph_repeated \/ recovery_loads \/ recovery_starts
  BY <1>1 DEF lease_lost, pause_asks, pause_waited, resume_starts, cancel_asks_worker,
     cancel_unowned, cancel_forgets, approve_replayed, approve_continues,
     recover_graph_repeated, recovery_loads, recovery_starts
<1>2. CASE pause_commits \/ resume
  BY <1>2 DEF pause_commits, resume, Next, TaskCommand, TaskStatus
<1>3. ASSUME CloseCall, phase = "serving" PROVE [Next]_vars
  BY <1>3 DEF CloseCall, Next, Dispatch, TerminalCall
<1>4. CASE cancel_idle \/ cancel_closes_call
  BY <1>3, <1>4 DEF cancel_idle, cancel_closes_call
<1>5. CASE cancel_commits
  BY <1>5 DEF cancel_commits, Next, TaskCommand
<1>6. CASE approve \/ reject \/ expire \/ lapse
  BY <1>6 DEF approve, reject, expire, lapse, Next, Authorization
<1>7. ASSUME NEW c \in Calls,
             \/ \E v \in Verdict \ {"none"} : decide(c, v)
             \/ recover_graph_terminate(c) \/ recover_graph_succeeded(c)
             \/ recover_graph_no_effect(c)
      PROVE  Next
  BY <1>7 DEF decide, recover_graph_terminate, recover_graph_succeeded,
     recover_graph_no_effect, Blocked, Next, Dispatch, TaskStatus, TerminalTask
<1> QED BY <1>1, <1>2, <1>4, <1>5, <1>6, <1>7 DEF Control, Decisions

\* ... and every step of the startup.
LEMMA StartupStepsLedger ==
  ASSUME SagaTypeOK, ProcessStartup
  PROVE  [Next]_vars
<1>1. Recoverable \in SUBSET Calls
  BY CallsAre DEF Recoverable
<1>2. CASE process_crash \/ restore_skips \/ restore_runtime \/ restore_contended \/ restore_fails
           \/ settle_approvals
  BY <1>2 DEF process_crash, restore_skips, restore_runtime, restore_contended, restore_fails,
     settle_approvals, Next, Startup
<1>3. CASE settle_calls_skip \/ settle_calls
  BY <1>1, <1>3 DEF settle_calls_skip, settle_calls, Next, Startup
<1> QED BY <1>2, <1>3 DEF ProcessStartup

\* Every step is a step of the ledger.
LEMMA StepsLedger ==
  ASSUME IInv, SagaTypeOK, [SagaNext]_sagaVars
  PROVE  [Next]_vars
<1>1. CASE UNCHANGED sagaVars
  BY <1>1 DEF sagaVars
<1> QED BY <1>1, WorkerStepsLedger, RequestStepsLedger, StartupStepsLedger DEF SagaNext
-----------------------------------------------------------------------------
(* Types.                                                                  *)

\* What a payload holds.
LEMMA RuntimeIs ==
  ASSUME NEW r \in Runtime
  PROVE  /\ r.stage \in 0..9 /\ r.index \in Nodes /\ r.mode \in Modes
         /\ r.approval \in BOOLEAN /\ r.reconciled \in BOOLEAN
         /\ CallOf(r) \in Calls
  BY CallsAre DEF Runtime, CallOf

\* Clearing approval of a payload that has none changes nothing.
LEMMA Unasked ==
  ASSUME NEW r \in Runtime, ~r.approval
  PROVE  [r EXCEPT !.approval = FALSE] = r
<1>1. r.approval = FALSE
  BY DEF Runtime
<1> QED BY <1>1 DEF Runtime

\* The payload a failure or a completed step goes on with.
LEMMA StartOf ==
  /\ FreshRuntime \in Runtime
  /\ \A i \in Nodes, m \in Modes :
       LET t == [FreshRuntime EXCEPT !.stage = 3, !.index = i, !.mode = m] IN
       t \in Runtime /\ t.stage = 3 /\ t.index = i /\ t.mode = m /\ ~t.approval
<1>1. FreshRuntime \in Runtime /\ ~FreshRuntime.approval
  BY SagaAssumption DEF FreshRuntime, Runtime, Nodes, Modes
<1>2. ASSUME NEW i \in Nodes, NEW m \in Modes
      PROVE  LET t == [FreshRuntime EXCEPT !.stage = 3, !.index = i, !.mode = m] IN
             t \in Runtime /\ t.stage = 3 /\ t.index = i /\ t.mode = m /\ ~t.approval
  <2> DEFINE u == [FreshRuntime EXCEPT !.stage = 3]
             v == [u EXCEPT !.index = i]
  <2>1. u \in Runtime /\ u.stage = 3 /\ ~u.approval
    BY <1>1 DEF Runtime
  <2> HIDE DEF u
  <2>2. v \in Runtime /\ v.stage = 3 /\ v.index = i /\ ~v.approval
    BY <2>1 DEF Runtime
  <2> HIDE DEF v
  <2>3. LET t == [v EXCEPT !.mode = m] IN
        t \in Runtime /\ t.stage = 3 /\ t.index = i /\ t.mode = m /\ ~t.approval
    BY <2>2 DEF Runtime
  <2> QED BY <2>3 DEF u, v
<1> QED BY <1>1, <1>2

\* The payload of the compensation of a predecessor.
LEMMA CompensationIs ==
  ASSUME NEW i \in Nodes, i > 1
  PROVE  /\ i - 1 \in Nodes
         /\ CompensationOf(i) \in Runtime
         /\ CompensationOf(i).stage = 3 /\ CompensationOf(i).index = i - 1
         /\ CompensationOf(i).mode = "compensating" /\ ~CompensationOf(i).approval
<1>1. i - 1 \in Nodes /\ "compensating" \in Modes
  BY SagaAssumption DEF Nodes, Modes
<1> QED BY <1>1, StartOf DEF CompensationOf

\* The payload of a stage that suspends, and of an applied verdict.
LEMMA SpecialPayloads ==
  ASSUME NEW r \in Runtime
  PROVE  /\ LET t == [r EXCEPT !.stage = 6, !.approval = TRUE] IN
            t \in Runtime /\ t.stage = 6 /\ t.index = r.index /\ t.mode = r.mode
         /\ LET t == [r EXCEPT !.stage = 7, !.reconciled = TRUE] IN
            t \in Runtime /\ t.stage = 7 /\ t.index = r.index /\ t.mode = r.mode
<1> DEFINE u == [r EXCEPT !.stage = 6]
           v == [r EXCEPT !.stage = 7]
<1>1. u \in Runtime /\ u.stage = 6 /\ u.index = r.index /\ u.mode = r.mode
  BY DEF Runtime
<1>2. v \in Runtime /\ v.stage = 7 /\ v.index = r.index /\ v.mode = r.mode
  BY DEF Runtime
<1> HIDE DEF u, v
<1>3. LET t == [u EXCEPT !.approval = TRUE] IN
      t \in Runtime /\ t.stage = 6 /\ t.index = r.index /\ t.mode = r.mode
  BY <1>1 DEF Runtime
<1>4. LET t == [v EXCEPT !.reconciled = TRUE] IN
      t \in Runtime /\ t.stage = 7 /\ t.index = r.index /\ t.mode = r.mode
  BY <1>2 DEF Runtime
<1> QED BY <1>3, <1>4 DEF u, v

\* The payload after a completed step.
LEMMA NextStepIs ==
  ASSUME rt \in Runtime, rt.stage = 7
  PROVE  /\ NextStep \in Runtime
         /\ \/ /\ NextStep = rt
               /\ rt.index = IF rt.mode = "compensating" THEN 1 ELSE NodeCount
            \/ /\ NextStep.stage = 3 /\ NextStep.mode = rt.mode /\ ~NextStep.approval
               /\ NextStep.index \in Nodes
               /\ NextStep.index = IF rt.mode = "compensating" THEN rt.index - 1
                                   ELSE rt.index + 1
<1> DEFINE to(i) == [FreshRuntime EXCEPT !.stage = 3, !.index = i, !.mode = rt.mode]
<1>1. rt.index \in Nodes /\ rt.mode \in Modes
  BY RuntimeIs
<1>2. ASSUME NEW i \in Nodes
      PROVE  /\ to(i) \in Runtime /\ to(i).stage = 3 /\ to(i).index = i /\ to(i).mode = rt.mode
             /\ ~to(i).approval
  BY <1>1, StartOf
<1>3. CASE IsSaga /\ Compensating /\ rt.index > 1
  <2>1. rt.index - 1 \in Nodes /\ rt.mode = "compensating" /\ NextStep = to(rt.index - 1)
    BY <1>1, <1>3, SagaAssumption DEF Nodes, NextStep, Compensating
  <2> HIDE DEF to
  <2> QED BY <1>2, <2>1
<1>4. CASE IsSaga /\ ~Compensating /\ rt.index < NodeCount
  <2>1. rt.index + 1 \in Nodes /\ rt.mode # "compensating" /\ NextStep = to(rt.index + 1)
    BY <1>1, <1>4, SagaAssumption DEF Nodes, NextStep, Compensating
  <2> HIDE DEF to
  <2> QED BY <1>2, <2>1
<1>5. CASE ~(IsSaga /\ Compensating /\ rt.index > 1)
           /\ ~(IsSaga /\ ~Compensating /\ rt.index < NodeCount)
  <2>1. NextStep = rt
    BY <1>5 DEF NextStep
  <2> QED BY <1>1, <1>5, <2>1, SagaAssumption DEF Nodes, Compensating
<1> QED BY <1>3, <1>4, <1>5

\* The runtime of a worker, unless it is about to be saved, has a stage left.
LEMMA StageIs ==
  ASSUME SagaTypeOK, SavedFits, NextFits, RtIsSaved, worker # "done"
  PROVE  rt.stage \in 0..8 /\ rt.stage + 1 \in 0..9
<1>1. rt.stage \in 0..8
  BY DEF SavedFits, NextFits, RtIsSaved, Driven, Fits
<1> QED BY <1>1

\* The next stage of the same node.
LEMMA AdvanceIs ==
  ASSUME rt \in Runtime, rt.stage \in 0..8, Advance
  PROVE  /\ rt' \in Runtime /\ rt'.stage = rt.stage + 1
         /\ rt'.index = rt.index /\ rt'.mode = rt.mode /\ rt'.approval = rt.approval
         /\ worker' = "save"
<1>1. rt.stage + 1 \in 0..9
  OBVIOUS
<1> QED BY <1>1 DEF Advance, Runtime

\* The runtime, and where it is, after a failed attempt.
LEMMA AfterFailureIs ==
  ASSUME rt \in Runtime, AfterFailure
  PROVE  \/ /\ HasAppliedPredecessor /\ rt.index > 1 /\ rt.mode = "forward"
            /\ rt' = CompensationOf(rt.index) /\ rt' \in Runtime /\ worker' = "save"
         \/ ~HasAppliedPredecessor /\ rt' = rt /\ worker' = "failing"
<1>1. rt.index \in Nodes /\ rt.mode \in {"forward", "compensating"}
  BY RuntimeIs DEF Modes
<1>2. CASE HasAppliedPredecessor
  <2>1. rt.index > 1 /\ rt.mode = "forward" /\ rt' = CompensationOf(rt.index) /\ worker' = "save"
    BY <1>1, <1>2 DEF HasAppliedPredecessor, Compensating, AfterFailure
  <2> QED BY <1>1, <1>2, <2>1, CompensationIs
<1>3. CASE ~HasAppliedPredecessor
  BY <1>3 DEF AfterFailure
<1> QED BY <1>2, <1>3

\* The nodes and the graph keep their types ...
DurableType ==
  /\ graph \in GraphStatus /\ mode \in Modes
  /\ node \in [Nodes -> NodeStatus]
  /\ verdict \in [Calls -> Verdict]

\* ... and so do the checkpoint, the worker and the requests.
MemoryType ==
  /\ saved \in Runtime /\ rt \in Runtime
  /\ known \in BOOLEAN /\ stop \in BOOLEAN /\ fence \in BOOLEAN
  /\ worker \in Place
  /\ pausing \in {"no", "asked", "stopped"}
  /\ starting \in {"no", "approve", "resume"}
  /\ cancelling \in {"no", "asked", "closed", "committed", "routed"}
  /\ recovering \in {"no", "committed", "loaded"}

\* A failed attempt writes a status of the graph and of its node.
LEMMA FailNodeType ==
  ASSUME DurableType, rt \in Runtime, FailNode
  PROVE  /\ graph' \in GraphStatus /\ mode' \in Modes
         /\ node' \in [Nodes -> NodeStatus]
  BY RuntimeIs DEF FailNode, SetNode, DurableType, GraphStatus, Modes, NodeStatus

\* Every step writes durable values of their types.
LEMMA NextDurableType ==
  ASSUME SagaTypeOK, [SagaNext]_sagaVars
  PROVE  DurableType'
<1>t. DurableType /\ rt \in Runtime /\ rt.index \in Nodes /\ rt.mode \in Modes
  BY RuntimeIs DEF SagaTypeOK, DurableType
<1>u. ASSUME UNCHANGED durable PROVE DurableType'
  BY <1>t, <1>u DEF durable, DurableType
<1>1. ASSUME Worker PROVE DurableType'
  <2> USE <1>t DEF DurableType, GraphStatus, Modes, NodeStatus, SetNode
  <2>1. CASE ensure_effect_graph
    BY <2>1 DEF ensure_effect_graph
  <2>2. CASE stage_3_start_node
    BY <2>2 DEF stage_3_start_node
  <2>3. CASE stage_4_saga_conflict
    BY <2>3, FailNodeType DEF stage_4_saga_conflict
  <2>4. CASE stage_5_denied_node
    BY <2>4, FailNodeType DEF stage_5_denied_node
  <2>5. ASSUME NEW s, FinishFailure(s) PROVE DurableType'
    BY <2>5, FailNodeType DEF FinishFailure
  <2>6. CASE stage_6_runner_not_ready \/ runner_failed("failed") \/ runner_failed("cancelled")
    BY <2>5, <2>6 DEF stage_6_runner_not_ready, runner_failed
  <2>7. CASE stage_6_start
    BY <2>7 DEF stage_6_start
  <2>8. CASE runner_succeeded
    BY <2>8 DEF runner_succeeded
  <2>9. CASE runner_unknown
    BY <2>9 DEF runner_unknown
  <2>10. CASE stage_7_close_graph
    BY <2>10 DEF stage_7_close_graph
  <2>11. CASE worker_stops \/ stage_0_classifying \/ stage_1_plan \/ stage_1_raises
              \/ stage_2_running \/ stage_3_step_started \/ stage_4_request \/ stage_4_raises
              \/ stage_5_allow \/ stage_5_require_approval \/ stage_5_raises \/ stage_5_deny
              \/ stage_6_expired \/ stage_call_gone \/ stage_7_step_completed
              \/ stage_8_completed \/ fail_task \/ record_exception \/ save_checkpoint
              \/ suspend_reads_approval \/ suspend_leaves
              \/ worker_is_fenced \/ worker_finds_task_ended \/ worker_is_refused
    <3>1. UNCHANGED durable
      BY <2>11 DEF worker_stops, stage_0_classifying, stage_1_plan, stage_1_raises,
         stage_2_running, stage_3_step_started, stage_4_request, stage_4_raises,
         stage_5_allow, stage_5_require_approval, stage_5_raises, stage_5_deny,
         stage_6_expired, stage_call_gone, stage_7_step_completed,
         stage_8_completed, fail_task, record_exception, save_checkpoint,
         suspend_reads_approval, suspend_leaves,
         worker_is_fenced, worker_finds_task_ended, worker_is_refused
    <3> QED BY <1>u, <3>1
  <2> QED BY <1>1, <2>1, <2>2, <2>3, <2>4, <2>6, <2>7, <2>8, <2>9, <2>10, <2>11 DEF Worker
<1>2. ASSUME Control PROVE UNCHANGED durable
  BY <1>2 DEF Control, lease_lost, pause_asks, pause_waited, pause_commits, resume,
     resume_starts, cancel_idle, cancel_asks_worker, cancel_closes_call, cancel_unowned,
     cancel_commits, cancel_forgets
<1>3. ASSUME Decisions PROVE DurableType'
  <2>1. CASE approve \/ approve_replayed \/ approve_continues \/ reject \/ expire \/ lapse
             \/ recover_graph_repeated \/ recovery_loads \/ recovery_starts
    BY <1>u, <2>1 DEF approve, approve_replayed, approve_continues, reject, expire, lapse,
       recover_graph_repeated, recovery_loads, recovery_starts
  <2>2. ASSUME NEW c \in Calls, NEW v \in Verdict \ {"none"}, decide(c, v) PROVE DurableType'
    BY <1>t, <2>2 DEF decide, DurableType
  <2>3. ASSUME NEW c \in Calls,
               \/ recover_graph_terminate(c) \/ recover_graph_succeeded(c)
               \/ recover_graph_no_effect(c)
        PROVE  DurableType'
    <3>1. c[2] \in Nodes
      BY CallsAre
    <3> QED BY <1>t, <2>3, <3>1 DEF recover_graph_terminate, recover_graph_succeeded,
       recover_graph_no_effect, DurableType, GraphStatus, Modes, NodeStatus, SetNode
  <2> QED BY <1>3, <2>1, <2>2, <2>3 DEF Decisions
<1>4. ASSUME ProcessStartup PROVE DurableType'
  <2>1. CASE process_crash \/ restore_skips \/ restore_runtime \/ restore_contended
             \/ restore_fails \/ settle_approvals \/ settle_calls_skip
    BY <1>u, <2>1 DEF process_crash, restore_skips, restore_runtime, restore_contended,
       restore_fails, settle_approvals, settle_calls_skip
  <2>2. CASE settle_calls
    <3>1. CASE ~Live
      BY <1>t, <2>2, <3>1 DEF settle_calls, SettleGraph, DurableType
    <3>2. CASE Live
      BY <1>t, <2>2, <3>2 DEF settle_calls, SettleGraph, DurableType, GraphStatus, NodeStatus
    <3> QED BY <3>1, <3>2
  <2> QED BY <1>4, <2>1, <2>2 DEF ProcessStartup
<1>5. CASE UNCHANGED sagaVars
  BY <1>u, <1>5 DEF sagaVars
<1> QED BY <1>u, <1>1, <1>2, <1>3, <1>4, <1>5 DEF SagaNext

\* Every step of the worker keeps the memory of the process well typed.
LEMMA WorkerMemoryType ==
  ASSUME SagaTypeOK, SavedFits, NextFits, RtIsSaved, Worker
  PROVE  MemoryType'
<1>t. MemoryType /\ rt \in Runtime
  BY DEF SagaTypeOK, MemoryType
<1>0. ASSUME worker = "done" PROVE FALSE
  BY <1>0 DEF Worker, In, At, Serving, worker_stops, stage_0_classifying, stage_1_plan, stage_1_raises,
     ensure_effect_graph, stage_2_running, stage_3_start_node, stage_3_step_started,
     stage_4_request, stage_4_saga_conflict, stage_4_raises, stage_5_allow,
     stage_5_require_approval, stage_5_raises, stage_5_deny, stage_5_denied_node, PolicyAnswers,
     stage_6_runner_not_ready, stage_6_start, stage_6_expired, stage_call_gone,
     runner_succeeded, runner_failed, runner_unknown, stage_7_step_completed,
     stage_7_close_graph, stage_8_completed, fail_task, record_exception, save_checkpoint,
     suspend_reads_approval, suspend_leaves, worker_is_fenced, worker_finds_task_ended,
     worker_is_refused
<1>s. rt.stage \in 0..8
  BY <1>0, StageIs
<1> USE <1>t, <1>s DEF MemoryType, Place, requests, memory
<1>1. CASE worker_stops \/ suspend_reads_approval \/ suspend_leaves
  BY <1>1 DEF worker_stops, suspend_reads_approval, suspend_leaves
<1>2. CASE stage_0_classifying \/ stage_2_running \/ stage_3_step_started \/ stage_5_allow
  BY <1>2, AdvanceIs DEF stage_0_classifying, stage_2_running, stage_3_step_started, stage_5_allow
<1>3. CASE stage_1_plan \/ stage_5_deny
  BY <1>3 DEF stage_1_plan, stage_5_deny
<1>4. CASE stage_1_raises \/ stage_4_raises \/ stage_5_raises \/ worker_is_refused
  BY <1>4 DEF stage_1_raises, stage_4_raises, stage_5_raises, worker_is_refused, forget
<1>5. CASE ensure_effect_graph
  BY <1>5, AdvanceIs DEF ensure_effect_graph
<1>6. CASE stage_3_start_node
  <2>1. [rt EXCEPT !.approval = FALSE] \in Runtime
    BY DEF Runtime
  <2> QED BY <1>6, <2>1 DEF stage_3_start_node
<1>7. CASE stage_4_request
  <2>1. [rt EXCEPT !.stage = 5] \in Runtime
    BY DEF Runtime
  <2> QED BY <1>7, <2>1, AdvanceIs DEF stage_4_request
<1>8. CASE stage_4_saga_conflict \/ stage_5_denied_node
  BY <1>8, AfterFailureIs DEF stage_4_saga_conflict, stage_5_denied_node
<1>9. CASE stage_5_require_approval
  BY <1>9, SpecialPayloads DEF stage_5_require_approval
<1>10. ASSUME NEW x, FinishFailure(x) PROVE MemoryType'
  BY <1>10, AfterFailureIs DEF FinishFailure
<1>11. CASE stage_6_runner_not_ready \/ runner_failed("failed") \/ runner_failed("cancelled")
  BY <1>10, <1>11 DEF stage_6_runner_not_ready, runner_failed
<1>12. CASE stage_6_start
  BY <1>12 DEF stage_6_start
<1>13. CASE stage_6_expired \/ stage_8_completed \/ fail_task \/ worker_is_fenced
            \/ worker_finds_task_ended \/ runner_unknown
  BY <1>13 DEF stage_6_expired, stage_8_completed, fail_task, worker_is_fenced,
     worker_finds_task_ended, runner_unknown, Finish, forget
<1>14. CASE stage_call_gone
  BY <1>14, AfterFailureIs DEF stage_call_gone, forget
<1>15. CASE runner_succeeded
  <2>1. [rt EXCEPT !.stage = 7] \in Runtime
    BY DEF Runtime
  <2> QED BY <1>15, <2>1, AdvanceIs DEF runner_succeeded
<1>16. CASE stage_7_step_completed
  BY <1>16, NextStepIs DEF stage_7_step_completed, At
<1>17. CASE stage_7_close_graph
  BY <1>17, AdvanceIs DEF stage_7_close_graph
<1>18. CASE record_exception \/ save_checkpoint
  BY <1>18 DEF record_exception, save_checkpoint
<1> QED BY <1>1, <1>2, <1>3, <1>4, <1>5, <1>6, <1>7, <1>8, <1>9, <1>11, <1>12, <1>13, <1>14, <1>15,
       <1>16, <1>17, <1>18 DEF Worker

\* So does everything else.
LEMMA NextMemoryType ==
  ASSUME SagaTypeOK, SavedFits, NextFits, RtIsSaved, [SagaNext]_sagaVars
  PROVE  MemoryType'
<1>t. MemoryType /\ rt \in Runtime /\ saved \in Runtime
  BY DEF SagaTypeOK, MemoryType
<1> USE <1>t DEF MemoryType, Place, requests, memory
<1>1. CASE Worker
  BY <1>1, WorkerMemoryType
<1>2. CASE Control
  BY <1>2 DEF Control, lease_lost, pause_asks, pause_waited, pause_commits, resume,
     resume_starts, cancel_idle, cancel_asks_worker, cancel_closes_call, cancel_unowned,
     cancel_commits, cancel_forgets, start_worker, forget
<1>3. CASE Decisions
  <2>1. CASE approve \/ approve_replayed \/ approve_continues \/ reject \/ expire \/ lapse
    BY <2>1 DEF approve, approve_replayed, approve_continues, reject, expire, lapse,
       start_worker, forget
  <2>2. ASSUME NEW c \in Calls, NEW v \in Verdict \ {"none"}, decide(c, v) PROVE MemoryType'
    BY <2>2 DEF decide
  <2>3. ASSUME NEW r \in Runtime, Resume(r), UNCHANGED <<pausing, cancelling, starting>>
        PROVE  MemoryType'
    BY <2>3 DEF Resume
  <2>7. CASE recover_graph_repeated \/ recovery_loads \/ recovery_starts
    BY <2>7 DEF recover_graph_repeated, recovery_loads, recovery_starts, start_worker
  <2>4. ASSUME NEW c \in Calls, recover_graph_terminate(c) PROVE MemoryType'
    BY <2>4 DEF recover_graph_terminate
  <2>5. ASSUME NEW c \in Calls, recover_graph_succeeded(c) PROVE MemoryType'
    <3>1. [saved EXCEPT !.stage = 7, !.reconciled = TRUE] \in Runtime
      BY SpecialPayloads
    <3> QED BY <2>3, <2>5, <3>1 DEF recover_graph_succeeded
  <2>6. ASSUME NEW c \in Calls, recover_graph_no_effect(c) PROVE MemoryType'
    <3>1. CASE c[1] = "forward" /\ c[2] > 1
      <4>1. CompensationOf(c[2]) \in Runtime
        BY <3>1, CallsAre, CompensationIs
      <4> QED BY <2>3, <2>6, <3>1, <4>1 DEF recover_graph_no_effect
    <3>2. CASE ~(c[1] = "forward" /\ c[2] > 1)
      BY <2>6, <3>2 DEF recover_graph_no_effect
    <3> QED BY <3>1, <3>2
  <2> QED BY <1>3, <2>1, <2>2, <2>4, <2>5, <2>6, <2>7 DEF Decisions
<1>4. CASE ProcessStartup
  <2>1. FreshRuntime \in Runtime
    BY StartOf
  <2>2. (saved.stage >= 2) \in BOOLEAN
    BY RuntimeIs
  <2> QED BY <1>4, <2>1, <2>2 DEF ProcessStartup, process_crash, restore_skips, restore_runtime,
     restore_contended, restore_fails, settle_approvals, settle_calls_skip, settle_calls, Activate
<1>5. CASE UNCHANGED sagaVars
  BY <1>5 DEF sagaVars
<1> QED BY <1>1, <1>2, <1>3, <1>4, <1>5 DEF SagaNext

\* The type invariant is kept.
LEMMA NextSagaTypeOK ==
  ASSUME IInv, SagaTypeOK, SavedFits, NextFits, RtIsSaved, [SagaNext]_sagaVars
  PROVE  IInv' /\ SagaTypeOK'
<1>1. IInv'
  BY StepsLedger, NextIInv
<1>2. SagaTypeOK'
  BY <1>1, NextDurableType, NextMemoryType DEF SagaTypeOK, IInv, DurableType, MemoryType
<1> QED BY <1>1, <1>2
-----------------------------------------------------------------------------
(* What a step does to a payload that fits.                                *)

\* Open calls are closed, the others stay as they are.
CallsClose ==
  \A c \in Calls :
    \/ call'[c] = call[c]
    \/ call[c] = "requested" /\ call'[c] \in {"failed", "cancelled"}
    \/ call[c] = "running" /\ call'[c] \in {"failed", "cancelled", "unknown"}

EvidenceStays == \A c \in Calls : Evident(c) => Evident(c)'

\* The node of r and its call are all that changes.
OnlyAt(r) ==
  /\ \A j \in Nodes : j # r.index => node'[j] = node[j]
  /\ \A c \in Calls : c # CallOf(r) => call'[c] = call[c]

\* A resting node is one its stage allows.
LEMMA RestFits == \A r \in Runtime : RestOf(r) \subseteq NodeOf(r)
  BY RuntimeIs DEF RestOf, NodeOf

\* A closed call loses no evidence.
LEMMA CloseKeepsEvidence ==
  ASSUME CallsClose, UNCHANGED verdict
  PROVE  EvidenceStays
  BY DEF CallsClose, EvidenceStays, Evident

\* A payload still fits when open calls are closed.
LEMMA FitsKeep ==
  ASSUME NEW r \in Runtime, Fits(r), UNCHANGED <<node, mode>>, r.stage = 8 => UNCHANGED graph,
         CallsClose, EvidenceStays
  PROVE  Fits(r)'
<1>1. CallOf(r) \in Calls /\ <<"forward", r.index>> \in Calls /\ r.index \in Nodes
  BY RuntimeIs, CallsAre DEF Modes
<1>2. /\ call'[CallOf(r)] \in StatusOf(r)
      /\ node[r.index] \in {"failed", "compensation_failed"} =>
           call'[CallOf(r)] \notin {"requested", "running"}
  BY <1>1 DEF Fits, StatusOf, CallsClose
<1>3. NotDue(r)'
  BY CallsAre DEF Fits, NotDue, CallsClose, Modes
<1>4. Frontier(r)'
  BY DEF Fits, Frontier
<1>5. r.mode = "compensating" => Evident(<<"forward", r.index>>)'
  BY <1>1 DEF Fits, EvidenceStays
<1> QED BY <1>2, <1>3, <1>4, <1>5 DEF Fits

\* t is another stage of the position of r, and the durable state allows it.
MovesTo(r, t) ==
  /\ Fits(r) /\ t.index = r.index /\ t.mode = r.mode
  /\ t.stage \in 0..8 /\ (t.stage < 6 => ~t.approval) /\ (t.stage <= 2 => r.stage <= 2)
  /\ t.stage = 8 => t.mode = "forward" /\ t.index = NodeCount /\ graph = "succeeded"
  /\ node[t.index] \in NodeOf(t) /\ call[CallOf(t)] \in StatusOf(t)

\* The same position at another stage.
LEMMA FitsMove == \A r, t \in Runtime : MovesTo(r, t) => Fits(t)
<1> SUFFICES ASSUME NEW r \in Runtime, NEW t \in Runtime, MovesTo(r, t) PROVE Fits(t)
  OBVIOUS
<1> USE DEF MovesTo
<1>1. Frontier(t)
  BY DEF Fits, Frontier
<1>2. CallOf(t) = CallOf(r)
  BY DEF CallOf
<1>3. NotDue(t)
  BY <1>2 DEF Fits, NotDue
<1> QED BY <1>1, <1>2, <1>3 DEF Fits

\* The same after a step.
LEMMA FitsMoveNext == (\A r, t \in Runtime : MovesTo(r, t) => Fits(t))'
  BY FitsMove, PTL

\* t starts the node after r, which is done.
GoesOn(r, t) ==
  /\ t.stage = 3 /\ t.index = r.index + 1 /\ t.mode = "forward" /\ ~t.approval
  /\ Frontier(r) /\ NotDue(r) /\ r.mode = "forward" /\ mode = "forward"
  /\ call[CallOf(r)] \notin {"requested", "running"} /\ node[r.index] = "succeeded"

\* From a completed step to the next node.
LEMMA GoOn == \A r, t \in Runtime : GoesOn(r, t) => Fits(t) /\ node[t.index] \in RestOf(t)
<1> SUFFICES ASSUME NEW r \in Runtime, NEW t \in Runtime, GoesOn(r, t) PROVE Fits(t) /\ node[t.index] \in RestOf(t)
  OBVIOUS
<1> USE DEF GoesOn
<1>1. r.index \in Nat /\ t.index \in Nodes /\ t.index > r.index /\ Nodes \subseteq Nat
  BY RuntimeIs, SagaAssumption DEF Nodes
<1>2. Frontier(t)
  BY <1>1 DEF Frontier
<1>3. node[t.index] = "pending"
  BY <1>1 DEF Frontier
<1>4. call[CallOf(t)] = "absent"
  BY <1>1 DEF NotDue, CallOf
<1>5. NotDue(t)
  <2>1. \A j \in Nodes : j > t.index => j > r.index
    BY <1>1
  <2>2. \A c \in Calls : c # CallOf(t) => call[c] \notin {"requested", "running"}
    BY DEF NotDue
  <2> QED BY <2>1, <2>2 DEF NotDue
<1> QED BY <1>2, <1>3, <1>4, <1>5 DEF Fits, NodeOf, RestOf, StatusOf

\* The same after a step.
LEMMA GoOnNext == (\A r, t \in Runtime : GoesOn(r, t) => Fits(t) /\ node[t.index] \in RestOf(t))'
  BY GoOn, PTL

\* t takes back the node before r, whose own effect does not stand.
GoesBack(r, t) ==
  /\ t.stage = 3 /\ t.index = r.index - 1 /\ t.mode = "compensating" /\ ~t.approval
  /\ Frontier(r) /\ NotDue(r) /\ EffectHasEvidence
  /\ call[CallOf(r)] \notin {"requested", "running"} /\ node[r.index] \in NoEffectStands

\* From a failed or compensated node to the compensation of the one before.
LEMMA GoBack == \A r, t \in Runtime : GoesBack(r, t) => Fits(t) /\ node[t.index] \in RestOf(t)
<1> SUFFICES ASSUME NEW r \in Runtime, NEW t \in Runtime, GoesBack(r, t) PROVE Fits(t) /\ node[t.index] \in RestOf(t)
  OBVIOUS
<1> USE DEF GoesBack
<1>1. r.index \in Nat /\ t.index \in Nodes /\ t.index < r.index /\ Nodes \subseteq Nat
  BY RuntimeIs, SagaAssumption DEF Nodes
<1>2. Frontier(t)
  BY <1>1 DEF Frontier
<1>3. node[t.index] = "succeeded"
  BY <1>1 DEF Frontier
<1>4. call[CallOf(t)] = "absent"
  BY <1>1 DEF NotDue, CallOf
<1>5. NotDue(t)
  <2>1. \A j \in Nodes : j < t.index => j < r.index
    BY <1>1
  <2>2. \A c \in Calls : c # CallOf(t) => call[c] \notin {"requested", "running"}
    BY DEF NotDue
  <2> QED BY <2>1, <2>2 DEF NotDue
<1>6. Evident(<<"forward", t.index>>)
  BY <1>1, <1>3 DEF EffectHasEvidence
<1> QED BY <1>2, <1>3, <1>4, <1>5, <1>6 DEF Fits, NodeOf, RestOf, StatusOf

\* The same after a step.
LEMMA GoBackNext == (\A r, t \in Runtime : GoesBack(r, t) => Fits(t) /\ node[t.index] \in RestOf(t))'
  BY GoBack, PTL

\* What happens at a position leaves its surroundings as they are.
LEMMA PositionKept ==
  ASSUME NEW r \in Runtime, Frontier(r), NotDue(r), OnlyAt(r)
  PROVE  Frontier(r)' /\ NotDue(r)'
<1>1. r.index \in Nodes /\ Nodes \subseteq Nat /\ r.mode \in {"forward", "compensating"}
  BY RuntimeIs, SagaAssumption DEF Nodes, Modes
<1>2. Frontier(r)'
  BY <1>1 DEF Frontier, OnlyAt
<1>3. \A j \in Nodes : <<"forward", j>> \in Calls /\ <<"compensating", j>> \in Calls
  BY CallsAre DEF Modes
<1>4. ASSUME NEW j \in Nodes
      PROVE  /\ r.mode = "forward" => <<"compensating", j>> # CallOf(r)
             /\ r.mode = "forward" /\ j > r.index => <<"forward", j>> # CallOf(r)
             /\ j < r.index => <<"compensating", j>> # CallOf(r)
  BY <1>1 DEF CallOf
<1>5. NotDue(r)'
  BY <1>1, <1>3, <1>4 DEF NotDue, OnlyAt
<1> QED BY <1>2, <1>5

\* Evidence is kept where nothing happens.
LEMMA EvidenceKept ==
  ASSUME UNCHANGED node, CallsClose, EvidenceStays, EffectHasEvidence
  PROVE  EffectHasEvidence'
<1>1. \A j \in Nodes : <<"forward", j>> \in Calls /\ <<"compensating", j>> \in Calls
  BY CallsAre DEF Modes
<1> QED BY <1>1 DEF EffectHasEvidence, CallsClose, EvidenceStays
-----------------------------------------------------------------------------
(* What is the same for every step of the worker.                          *)

\* While a worker runs the process serves, the task has not succeeded and no
\* case is open.
LEMMA Working ==
  ASSUME SagaInv, worker # "done"
  PROVE  /\ phase = "serving" /\ task # "succeeded"
         /\ \A c \in Calls : recon[c] \notin {"pending", "resolved"}
  BY DEF SagaInv, Core, StartupIsQuiet, SuccessIsFinal, OpenCase

\* Outside of a save its runtime is the checkpoint.
LEMMA AtWork ==
  ASSUME SagaInv, Driven, ~Saving
  PROVE  \E r \in Runtime : r = rt /\ r = saved /\ Fits(r)
  BY DEF SagaInv, SagaTypeOK, Core, SavedFits, RtIsSaved

\* What a step of the worker has to show.
LEMMA WorkerKeeps ==
  ASSUME SagaInv, worker # "done", UNCHANGED <<recon, verdict, phase>>,
         task' # "succeeded", SavedFits', NextFits', RtIsSaved', AtPlace',
         OutcomeMatchesGraph', EffectHasEvidence'
  PROVE  Core'
<1>1. OpenCase' /\ VerdictOnce' /\ StartupIsQuiet' /\ SuccessIsFinal'
  BY Working DEF SagaInv, Core, OpenCase, VerdictOnce, StartupIsQuiet, SuccessIsFinal
<1> QED BY <1>1 DEF Core

\* Closing calls keeps the checkpoint fitting and the evidence complete.
LEMMA StillFits ==
  ASSUME SagaInv, UNCHANGED <<node, mode, saved>>, saved.stage = 8 => UNCHANGED graph,
         CallsClose, EvidenceStays
  PROVE  SavedFits' /\ EffectHasEvidence'
<1>1. PICK r \in Runtime : r = saved /\ Fits(r)
  BY DEF SagaInv, SagaTypeOK, Core, SavedFits
<1>2. Fits(r)'
  BY <1>1, FitsKeep
<1> QED BY <1>1, <1>2, EvidenceKept DEF SavedFits, SagaInv, Core

\* The outcome stays true while the graph and its nodes stay as they are.
LEMMA OutcomeStays ==
  ASSUME SagaInv, UNCHANGED <<node, graph>>, task' = "succeeded" => task = "succeeded"
  PROVE  OutcomeMatchesGraph'
  BY DEF SagaInv, Core, OutcomeMatchesGraph

\* A step that writes no node.
LEMMA WorkerQuiet ==
  ASSUME SagaInv, worker # "done", UNCHANGED <<recon, verdict, phase, node, mode, saved>>,
         CallsClose, task' # "succeeded", saved.stage = 8 => UNCHANGED graph,
         OutcomeMatchesGraph', NextFits', RtIsSaved', AtPlace'
  PROVE  Core'
<1>1. SavedFits' /\ EffectHasEvidence'
  BY StillFits, CloseKeepsEvidence
<1> QED BY <1>1, WorkerKeeps

\* The worker leaves, and takes the runtime with it.
LEMMA WorkerLeaves ==
  ASSUME SagaInv, worker # "done", ~Saving,
         UNCHANGED <<recon, verdict, phase, node, mode, saved, rt>>,
         CallsClose, task' # "succeeded", saved.stage = 8 => UNCHANGED graph,
         OutcomeMatchesGraph',
         worker' = "failing" \/ (worker' \in {"done", "raised"} /\ ~known')
  PROVE  Core'
<1>1. NextFits' /\ AtPlace'
  BY DEF NextFits, AtPlace, Saving
<1>2. rt = saved
  BY AtWork DEF Driven
<1>3. RtIsSaved'
  BY <1>2 DEF RtIsSaved
<1> QED BY <1>1, <1>3, WorkerQuiet

\* The stage is done: the runtime t, at the same position, is to be saved.
LEMMA WorkerGoesOn ==
  ASSUME SagaInv, worker # "done", ~Saving,
         UNCHANGED <<call, recon, verdict, phase, node, mode, saved>>,
         task' # "succeeded", saved.stage # 8, OutcomeMatchesGraph',
         NEW t \in Runtime, rt' = t, t.index = rt.index, t.mode = rt.mode,
         t.stage \in 0..8, t.stage < 6 => ~t.approval, t.stage <= 2 => rt.stage <= 2,
         t.stage = 8 => t.mode = "forward" /\ t.index = NodeCount /\ graph' = "succeeded",
         node[t.index] \in RestOf(t), call[CallOf(t)] \in StatusOf(t),
         worker' = "save" \/ (worker' = "save_suspend" /\ t.stage = 6)
  PROVE  Core'
<1>1. PICK r \in Runtime : r = rt /\ r = saved /\ Fits(r)
  BY AtWork DEF Driven
<1>2. CallsClose /\ EvidenceStays
  BY DEF CallsClose, EvidenceStays, Evident
<1>3. Fits(r)'
  BY <1>1, <1>2, FitsKeep
<1>4. Fits(t)'
  <2>1. node[t.index] \in NodeOf(t)
    BY RestFits
  <2>2. MovesTo(r, t)'
    BY <1>1, <1>3, <2>1 DEF MovesTo
  <2> QED BY <2>2, FitsMoveNext
<1>5. NextFits' /\ AtPlace' /\ RtIsSaved'
  BY <1>4 DEF NextFits, AtPlace, RtIsSaved, Saving
<1> QED BY <1>1, <1>2, <1>5, WorkerQuiet

\* A worker that raises, is refused or fails the task.
LEMMA LeavingSteps ==
  ASSUME SagaInv,
         \/ stage_1_raises \/ stage_4_raises \/ stage_5_raises \/ stage_6_expired \/ fail_task
         \/ record_exception \/ worker_is_fenced \/ worker_finds_task_ended \/ worker_is_refused
  PROVE  Core'
<1>1. worker \notin {"done", "save", "save_suspend"}
  BY DEF stage_1_raises, stage_4_raises, stage_5_raises, stage_6_expired, fail_task,
     record_exception, worker_is_fenced, worker_finds_task_ended, worker_is_refused,
     PolicyAnswers, At, In
<1>2. /\ UNCHANGED <<recon, verdict, phase, node, graph, mode, saved, rt>>
      /\ worker' \in {"done", "raised"}
  BY DEF stage_1_raises, stage_4_raises, stage_5_raises, stage_6_expired, fail_task,
     record_exception, worker_is_fenced, worker_finds_task_ended, worker_is_refused,
     start_tool_call_expired, append_event, Finish, vars, startup, durable
<1>3. ~known'
  <2>1. CASE record_exception
    BY <2>1 DEF record_exception, In, SagaInv, Core, AtPlace
  <2>2. CASE ~record_exception
    BY <2>2 DEF stage_1_raises, stage_4_raises, stage_5_raises, stage_6_expired, fail_task,
       worker_is_fenced, worker_finds_task_ended, worker_is_refused, Finish, forget
  <2> QED BY <2>1, <2>2
<1>4. task' # "succeeded"
  <2>1. CASE fail_task \/ record_exception
    BY <1>1, <2>1, Working DEF fail_task, record_exception, append_event, Journal, vars
  <2>2. CASE stage_6_expired
    BY <2>2 DEF stage_6_expired, start_tool_call_expired, Journal
  <2>3. CASE ~(fail_task \/ record_exception \/ stage_6_expired)
    BY <1>1, <2>3, Working DEF stage_1_raises, stage_4_raises, stage_5_raises,
       worker_is_fenced, worker_finds_task_ended, worker_is_refused, vars
  <2> QED BY <2>1, <2>2, <2>3
<1>5. CallsClose
  <2>1. CASE stage_6_expired
    <3>1. call \in [Calls -> ToolCallStatus]
      BY DEF SagaInv, IInv, TypeOK
    <3> QED BY <2>1, <3>1 DEF stage_6_expired, start_tool_call_expired, CallsClose
  <2>2. CASE ~stage_6_expired
    BY <2>2 DEF stage_1_raises, stage_4_raises, stage_5_raises, fail_task,
       record_exception, worker_is_fenced, worker_finds_task_ended, worker_is_refused,
       append_event, vars, CallsClose
  <2> QED BY <2>1, <2>2
<1>6. OutcomeMatchesGraph'
  BY <1>2, <1>4, OutcomeStays
<1> QED BY <1>1, <1>2, <1>3, <1>4, <1>5, <1>6, WorkerLeaves DEF Saving

\* A stage that ends where its node already rests.
LEMMA AdvancingSteps ==
  ASSUME SagaInv,
         \/ stage_0_classifying \/ stage_2_running \/ stage_3_step_started
         \/ stage_5_allow \/ stage_5_require_approval
  PROVE  Core'
<1>1. /\ worker \in {"top", "stepping"} /\ ~Saving
      /\ worker = "top" => rt.stage \in {0, 2, 5}
  BY DEF stage_0_classifying, stage_2_running, stage_3_step_started, stage_5_allow,
     stage_5_require_approval, PolicyAnswers, At, In, Saving
<1>2. PICK r \in Runtime : r = rt /\ r = saved /\ Fits(r)
  BY <1>1, AtWork DEF Driven
<1>3. /\ UNCHANGED <<call, recon, verdict, phase, node, graph, mode, saved>>
      /\ task' # "succeeded"
  BY <1>1, Working DEF stage_0_classifying, stage_2_running, stage_3_step_started, stage_5_allow,
     stage_5_require_approval, append_event, append_progress, apply_policy_decision_allow,
     apply_policy_decision_require_approval, Journal, startup, durable
<1>4. OutcomeMatchesGraph'
  BY <1>3, OutcomeStays
<1>5. /\ worker = "top" => node[r.index] \in RestOf(r)
      /\ worker = "stepping" =>
           /\ r.stage = 3
           /\ node[r.index] = IF r.mode = "compensating" THEN "compensating" ELSE "active"
  BY <1>2 DEF SagaInv, Core, AtPlace
<1>6. r.mode \in {"forward", "compensating"} /\ r.stage \in {0, 2, 3, 5}
  BY <1>1, <1>2, <1>5, RuntimeIs DEF Modes
<1>7. PICK t \in Runtime : /\ rt' = t /\ t.index = r.index /\ t.mode = r.mode
                           /\ t.stage = r.stage + 1 /\ (t.stage < 6 => ~t.approval)
                           /\ worker' = "save" \/ (worker' = "save_suspend" /\ t.stage = 6)
  <2>1. CASE stage_5_require_approval
    <3> DEFINE u == [r EXCEPT !.stage = 6, !.approval = TRUE]
    <3>1. rt' = u /\ worker' = "save_suspend" /\ r.stage = 5
      BY <1>2, <2>1 DEF stage_5_require_approval, PolicyAnswers, At
    <3>2. u \in Runtime /\ u.stage = 6 /\ u.index = r.index /\ u.mode = r.mode
      BY SpecialPayloads
    <3> HIDE DEF u
    <3> QED BY <3>1, <3>2
  <2>2. CASE ~stage_5_require_approval
    <3>1. Advance /\ rt \in Runtime /\ rt.stage \in 0..8
      BY <1>2, <1>6, <2>2 DEF stage_0_classifying, stage_2_running, stage_3_step_started, stage_5_allow
    <3>2. r.stage < 6 => ~r.approval
      BY <1>2 DEF Fits
    <3>3. /\ rt' \in Runtime /\ rt'.stage = r.stage + 1
          /\ rt'.index = r.index /\ rt'.mode = r.mode /\ worker' = "save"
      BY <1>2, <3>1, AdvanceIs
    <3>4. rt'.stage < 6 => ~rt'.approval
      BY <1>2, <1>6, <3>1, <3>2, <3>3, AdvanceIs
    <3> QED BY <3>3, <3>4
  <2> QED BY <2>1, <2>2
<1>8. node[t.index] \in RestOf(t)
  <2>1. (r.stage <= 2 => r.mode = "forward") /\ (worker = "top" => r.stage \in {0, 2, 5})
    BY <1>1, <1>2 DEF Fits
  <2> QED BY <1>1, <1>5, <1>6, <1>7, <2>1 DEF RestOf, NodeOf
<1>9. call[CallOf(t)] \in StatusOf(t)
  <2>1. CASE r.stage # 5
    BY <1>2, <1>6, <1>7, <2>1 DEF Fits, StatusOf, CallOf
  <2>2. CASE r.stage = 5
    <3>1. stage_5_allow \/ stage_5_require_approval
      BY <1>2, <2>2, <1>5 DEF stage_0_classifying, stage_2_running, stage_3_step_started, At, In
    <3>2. call[Current] = "requested"
      BY <3>1 DEF stage_5_allow, stage_5_require_approval, apply_policy_decision_allow,
         apply_policy_decision_require_approval, PolicyMayDecide
    <3> QED BY <1>2, <1>7, <2>2, <3>2 DEF StatusOf, CallOf, Current
  <2> QED BY <2>1, <2>2
<1> QED BY <1>1, <1>2, <1>3, <1>4, <1>6, <1>7, <1>8, <1>9, WorkerGoesOn

\* A step that moves the worker and nothing else.
LEMMA MovingSteps ==
  ASSUME SagaInv,
         worker_stops \/ stage_1_plan \/ suspend_reads_approval \/ suspend_leaves
  PROVE  Core'
<1>1. /\ worker \in {"top", "suspended", "leaving"}
      /\ worker' \in {"top", "done", "planned", "leaving"}
      /\ worker' = "leaving" => worker = "suspended"
      /\ worker' = "planned" => rt.stage = 1
      /\ UNCHANGED <<call, recon, verdict, phase, node, graph, mode, saved, rt, task, known>>
  BY DEF worker_stops, stage_1_plan, suspend_reads_approval, suspend_leaves, At, In,
     append_progress, Journal, vars, startup, durable
<1>2. PICK r \in Runtime : r = rt /\ r = saved /\ Fits(r)
  BY <1>1, AtWork DEF Driven, Saving
<1>3. NextFits' /\ RtIsSaved'
  BY <1>1, <1>2 DEF NextFits, RtIsSaved, Saving
<1>4. AtPlace'
  BY <1>1 DEF SagaInv, Core, AtPlace
<1>5. OutcomeMatchesGraph' /\ CallsClose /\ task' # "succeeded"
  BY <1>1, OutcomeStays, Working DEF CallsClose
<1> QED BY <1>1, <1>3, <1>4, <1>5, WorkerQuiet

\* The graph is written, and the plan is done.
LEMMA GraphStep ==
  ASSUME SagaInv, ensure_effect_graph
  PROVE  Core'
<1>1. worker = "planned" /\ ~Saving
  BY DEF ensure_effect_graph, In, Saving
<1>2. PICK r \in Runtime : r = rt /\ r = saved /\ Fits(r)
  BY <1>1, AtWork DEF Driven
<1>3. /\ UNCHANGED <<call, recon, verdict, phase, node, mode, saved>>
      /\ graph' = "active" /\ task' # "succeeded"
  BY <1>1, Working DEF ensure_effect_graph, record_event, Journal, startup
<1>4. OutcomeMatchesGraph'
  BY <1>3 DEF OutcomeMatchesGraph
<1>5. r.stage = 1
  BY <1>1, <1>2 DEF SagaInv, Core, AtPlace
<1>6. /\ r.mode = "forward" /\ ~r.approval /\ node[r.index] = "pending"
      /\ call[CallOf(r)] = "absent"
  BY <1>2, <1>5 DEF Fits, NodeOf, StatusOf
<1>7. Advance /\ rt \in Runtime /\ rt.stage \in 0..8
  BY <1>2, <1>5 DEF ensure_effect_graph
<1>8. PICK t \in Runtime : /\ rt' = t /\ t.index = r.index /\ t.mode = r.mode
                           /\ t.stage = 2 /\ ~t.approval /\ worker' = "save"
  <2>1. /\ rt' \in Runtime /\ rt'.stage = 2 /\ rt'.index = r.index /\ rt'.mode = r.mode
        /\ worker' = "save"
    BY <1>2, <1>5, <1>7, AdvanceIs
  <2>2. ~rt'.approval
    BY <1>2, <1>6, <1>7, AdvanceIs
  <2> QED BY <2>1, <2>2
<1>9. node[t.index] \in RestOf(t) /\ call[CallOf(t)] \in StatusOf(t)
  BY <1>6, <1>8 DEF RestOf, NodeOf, StatusOf, CallOf
<1> QED BY <1>1, <1>2, <1>3, <1>4, <1>5, <1>8, <1>9, WorkerGoesOn

\* The runtime t, at another position, is to be saved.
LEMMA WorkerTurns ==
  ASSUME SagaInv, worker # "done",
         UNCHANGED <<call, recon, verdict, phase, node, graph, mode, saved>>,
         task' # "succeeded", NEW t \in Runtime, rt' = t, worker' = "save",
         Fits(t)', node'[t.index] \in RestOf(t)
  PROVE  Core'
<1>1. NextFits' /\ RtIsSaved' /\ AtPlace'
  BY DEF NextFits, RtIsSaved, AtPlace, Saving
<1>2. OutcomeMatchesGraph' /\ CallsClose
  BY OutcomeStays DEF CallsClose
<1> QED BY <1>1, <1>2, WorkerQuiet

\* The step of the node is complete: the next node, or none is left.
LEMMA CompletingStep ==
  ASSUME SagaInv, stage_7_step_completed
  PROVE  Core'
<1>1. worker = "top" /\ ~Saving /\ rt.stage = 7
  BY DEF stage_7_step_completed, At, Saving
<1>2. PICK r \in Runtime : r = rt /\ r = saved /\ Fits(r)
  BY <1>1, AtWork DEF Driven
<1>3. /\ UNCHANGED <<call, recon, verdict, phase, node, graph, mode, saved>>
      /\ task' # "succeeded" /\ rt' = NextStep
      /\ worker' = IF NextStep.stage = 7 THEN "closing" ELSE "save"
  BY <1>1, Working DEF stage_7_step_completed, append_progress, Journal, startup, durable
<1>4. CallsClose /\ EvidenceStays /\ OutcomeMatchesGraph'
  BY <1>3, OutcomeStays, Working DEF CallsClose, EvidenceStays, Evident
<1>5. /\ r.stage = 7 /\ r.mode \in {"forward", "compensating"}
      /\ node[r.index] = IF r.mode = "forward" THEN "succeeded" ELSE "compensated"
      /\ call[CallOf(r)] \notin {"requested", "running"}
      /\ mode \in {"forward", "compensating"}
      /\ mode = "compensating" => r.mode = "compensating"
  BY <1>1, <1>2, RuntimeIs DEF Fits, NodeOf, StatusOf, SagaInv, SagaTypeOK, Modes
<1>6. CASE /\ NextStep = rt
           /\ rt.index = IF rt.mode = "compensating" THEN 1 ELSE NodeCount
  <2>1. worker' = "closing" /\ rt' = r /\ r.index = IF r.mode = "compensating" THEN 1 ELSE NodeCount
    BY <1>1, <1>2, <1>3, <1>6
  <2>2. NextFits' /\ RtIsSaved' /\ AtPlace'
    BY <1>2, <1>3, <1>5, <2>1 DEF NextFits, RtIsSaved, AtPlace, Saving
  <2> QED BY <1>1, <1>3, <1>4, <2>2, WorkerQuiet
<1>7. CASE /\ NextStep.stage = 3 /\ NextStep.mode = rt.mode /\ ~NextStep.approval
           /\ NextStep.index = IF rt.mode = "compensating" THEN rt.index - 1 ELSE rt.index + 1
  <2>1. PICK t \in Runtime : t = NextStep
    BY <1>1, <1>2, NextStepIs
  <2>2. /\ rt' = t /\ worker' = "save" /\ t.stage = 3 /\ t.mode = r.mode /\ ~t.approval
        /\ t.index = IF r.mode = "compensating" THEN r.index - 1 ELSE r.index + 1
    BY <1>2, <1>3, <1>7, <2>1
  <2>3. Frontier(r)' /\ NotDue(r)' /\ EffectHasEvidence'
    <3>1. Fits(r)'
      BY <1>2, <1>3, <1>4, FitsKeep
    <3> QED BY <1>3, <1>4, <3>1, EvidenceKept DEF Fits, SagaInv, Core
  <2>4. CASE r.mode = "forward"
    <3>1. GoesOn(r, t)'
      BY <1>3, <1>5, <2>2, <2>3, <2>4 DEF GoesOn
    <3> QED BY <1>1, <1>3, <2>2, <3>1, GoOnNext, WorkerTurns
  <2>5. CASE r.mode = "compensating"
    <3>1. GoesBack(r, t)'
      BY <1>3, <1>5, <2>2, <2>3, <2>5 DEF GoesBack, NoEffectStands
    <3> QED BY <1>1, <1>3, <2>2, <3>1, GoBackNext, WorkerTurns
  <2> QED BY <1>5, <2>4, <2>5
<1> QED BY <1>1, <1>2, <1>6, <1>7, NextStepIs

\* The graph is closed on the word of its last node: the nodes before it and
\* after it are where the frontier says.
LEMMA ClosingStep ==
  ASSUME SagaInv, stage_7_close_graph
  PROVE  Core'
<1>1. worker = "closing" /\ ~Saving
  BY DEF stage_7_close_graph, In, Saving
<1>2. PICK r \in Runtime : r = rt /\ r = saved /\ Fits(r)
  BY <1>1, AtWork DEF Driven
<1>3. /\ UNCHANGED <<call, recon, verdict, phase, node, mode, saved>>
      /\ task' # "succeeded"
  BY <1>1, Working DEF stage_7_close_graph, record_event, Journal, startup
<1>4. CallsClose
  BY <1>3 DEF CallsClose
<1>5. r.stage = 7 /\ r.index = IF r.mode = "compensating" THEN 1 ELSE NodeCount
  BY <1>1, <1>2 DEF SagaInv, Core, AtPlace
<1>6. r.index \in Nodes /\ r.mode \in {"forward", "compensating"} /\ Frontier(r)
  BY <1>2, RuntimeIs DEF Fits, Modes
<1>7. CASE r.mode = "compensating"
  <2>1. /\ node[r.index] = "compensated" /\ graph' = "compensated"
        /\ worker' = "failing" /\ rt' = rt
    BY <1>2, <1>7 DEF stage_7_close_graph, Compensating
  <2>2. \A i \in Nodes : i = r.index \/ i > r.index
    BY <1>5, <1>7, SagaAssumption DEF Nodes
  <2>3. \A i \in Nodes : node'[i] \in NoEffectStands
    BY <1>3, <1>6, <2>1, <2>2 DEF Frontier, NoEffectStands
  <2>4. OutcomeMatchesGraph'
    BY <1>3, <2>1, <2>3 DEF OutcomeMatchesGraph
  <2>5. saved.stage # 8 /\ worker # "done"
    BY <1>1, <1>2, <1>5
  <2> QED BY <1>1, <1>3, <1>4, <2>1, <2>4, <2>5, WorkerLeaves
<1>8. CASE r.mode = "forward"
  <2>1. node[r.index] = "succeeded" /\ graph' = "succeeded" /\ Advance
    BY <1>2, <1>8 DEF stage_7_close_graph, Compensating
  <2>2. \A i \in Nodes : i = r.index \/ i < r.index
    BY <1>5, <1>8, SagaAssumption DEF Nodes
  <2>3. \A i \in Nodes : node'[i] = "succeeded"
    BY <1>3, <1>6, <2>1, <2>2 DEF Frontier
  <2>4. OutcomeMatchesGraph'
    BY <1>3, <2>1, <2>3 DEF OutcomeMatchesGraph
  <2>5. rt \in Runtime /\ rt.stage \in 0..8
    BY <1>2, <1>5
  <2>6. PICK t \in Runtime : /\ rt' = t /\ t.stage = 8 /\ t.index = r.index /\ t.mode = r.mode
                             /\ worker' = "save"
    BY <1>2, <1>5, <2>1, <2>5, AdvanceIs
  <2>7. node[t.index] \in RestOf(t) /\ call[CallOf(t)] \in StatusOf(t)
    BY <1>2, <1>5, <1>8, <2>1, <2>6 DEF RestOf, NodeOf, StatusOf, CallOf, Fits
  <2> QED BY <1>1, <1>2, <1>3, <1>5, <1>8, <2>1, <2>4, <2>6, <2>7, WorkerGoesOn
<1> QED BY <1>6, <1>7, <1>8

\* A call that a cancel has closed: the attempt has failed, unrecorded.
LEMMA GoneStep ==
  ASSUME SagaInv, stage_call_gone
  PROVE  Core'
<1>1. worker = "top" /\ ~Saving /\ rt.stage \in {5, 6} /\ call[Current] \in TerminalCall
  BY DEF stage_call_gone, At, Saving
<1>2. PICK r \in Runtime : r = rt /\ r = saved /\ Fits(r)
  BY <1>1, AtWork DEF Driven
<1>3. /\ UNCHANGED <<call, recon, verdict, phase, node, graph, mode, saved>>
      /\ task' # "succeeded"
  BY <1>1, Working DEF stage_call_gone, vars, durable
<1>4. CallsClose /\ EvidenceStays /\ OutcomeMatchesGraph'
  BY <1>3, OutcomeStays DEF CallsClose, EvidenceStays, Evident
<1>5. CASE worker' = "raised" /\ ~known' /\ rt' = rt
  BY <1>1, <1>3, <1>4, <1>5, WorkerLeaves
<1>6. CASE rt.stage = 6 /\ AfterFailure
  <2>1. CASE rt' = rt /\ worker' = "failing"
    BY <1>1, <1>3, <1>4, <2>1, WorkerLeaves
  <2>2. CASE /\ rt.index > 1 /\ rt.mode = "forward"
             /\ rt' = CompensationOf(rt.index) /\ worker' = "save"
    <3>1. PICK t \in Runtime : /\ rt' = t /\ t.stage = 3 /\ t.index = r.index - 1
                               /\ t.mode = "compensating" /\ ~t.approval
      BY <1>2, <2>2, RuntimeIs, CompensationIs
    <3>2. Frontier(r)' /\ NotDue(r)' /\ EffectHasEvidence'
      <4>1. Fits(r)'
        BY <1>2, <1>3, <1>4, FitsKeep
      <4> QED BY <1>3, <1>4, <4>1, EvidenceKept DEF Fits, SagaInv, Core
    <3>3. node[r.index] = "active" /\ call[CallOf(r)] \notin {"requested", "running"}
      BY <1>1, <1>2, <1>6, <2>2 DEF SagaInv, Core, AtPlace, RestOf, Current, CallOf, TerminalCall
    <3>4. GoesBack(r, t)'
      BY <1>3, <3>1, <3>2, <3>3 DEF GoesBack, NoEffectStands
    <3> QED BY <1>1, <1>3, <2>2, <3>1, <3>4, GoBackNext, WorkerTurns
  <2> QED BY <1>2, <1>6, <2>1, <2>2, AfterFailureIs
<1> QED BY <1>5, <1>6 DEF stage_call_gone, forget

\* The policy denies the call.
LEMMA DenyingStep ==
  ASSUME SagaInv, stage_5_deny
  PROVE  Core'
<1>1. worker = "top" /\ ~Saving /\ rt.stage = 5
  BY DEF stage_5_deny, PolicyAnswers, At, Saving
<1>2. PICK r \in Runtime : r = rt /\ r = saved /\ Fits(r)
  BY <1>1, AtWork DEF Driven
<1>3. /\ UNCHANGED <<recon, verdict, phase, node, graph, mode, saved, rt>>
      /\ task' # "succeeded" /\ worker' = "denied"
  BY <1>1, Working DEF stage_5_deny, apply_policy_decision_deny, Journal, startup, durable
<1>4. call \in [Calls -> ToolCallStatus] /\ CallOf(r) \in Calls
  BY RuntimeIs DEF SagaInv, IInv, TypeOK
<1>5. call[CallOf(r)] = "requested" /\ call' = [call EXCEPT ![CallOf(r)] = "failed"]
  BY <1>2 DEF stage_5_deny, apply_policy_decision_deny, PolicyMayDecide, Current, CallOf
<1>6. CallsClose /\ call'[CallOf(r)] = "failed" /\ OutcomeMatchesGraph'
  BY <1>3, <1>4, <1>5, OutcomeStays DEF CallsClose
<1>7. node[r.index] = IF r.mode = "compensating" THEN "compensating" ELSE "active"
  BY <1>1, <1>2, RuntimeIs DEF SagaInv, Core, AtPlace, RestOf, Modes
<1>8. NextFits' /\ RtIsSaved' /\ AtPlace'
  BY <1>1, <1>2, <1>3, <1>6, <1>7 DEF NextFits, RtIsSaved, AtPlace, Saving
<1> QED BY <1>1, <1>3, <1>6, <1>8, WorkerQuiet

\* The checkpoint follows the runtime.
LEMMA SavingStep ==
  ASSUME SagaInv, save_checkpoint
  PROVE  Core'
<1>1. /\ worker \in {"save", "save_suspend"}
      /\ worker' = IF worker = "save" THEN "top" ELSE "suspended"
      /\ saved' = rt /\ rt' = rt
  BY DEF save_checkpoint, In
<1>2. /\ UNCHANGED <<call, recon, verdict, phase, node, graph, mode, known>>
      /\ task' # "succeeded"
  BY <1>1, Working DEF save_checkpoint, save_task_checkpoint, vars, startup, durable
<1>3. PICK r \in Runtime : r = rt /\ Fits(r)
  BY <1>1 DEF SagaInv, SagaTypeOK, Core, NextFits, Saving
<1>4. CallsClose /\ EvidenceStays /\ OutcomeMatchesGraph'
  BY <1>2, OutcomeStays DEF CallsClose, EvidenceStays, Evident
<1>5. Fits(r)' /\ EffectHasEvidence'
  BY <1>2, <1>3, <1>4, FitsKeep, EvidenceKept DEF SagaInv, Core
<1>6. SavedFits' /\ NextFits' /\ RtIsSaved'
  BY <1>1, <1>3, <1>5 DEF SavedFits, NextFits, RtIsSaved, Saving
<1>7. AtPlace'
  BY <1>1, <1>2 DEF SagaInv, Core, AtPlace
<1> QED BY <1>1, <1>2, <1>4, <1>5, <1>6, <1>7, WorkerKeeps

\* The task succeeds, and so has its graph.
LEMMA SucceedingStep ==
  ASSUME SagaInv, stage_8_completed
  PROVE  Core'
<1>1. worker = "top" /\ ~Saving /\ rt.stage = 8
  BY DEF stage_8_completed, At, Saving
<1>2. PICK r \in Runtime : r = rt /\ r = saved /\ Fits(r)
  BY <1>1, AtWork DEF Driven
<1>3. /\ UNCHANGED <<call, recon, verdict, phase, node, graph, mode, saved, rt>>
      /\ worker' = "done" /\ ~known'
  BY DEF stage_8_completed, append_event, startup, durable, Finish, forget
<1>4. CallsClose /\ EvidenceStays
  BY <1>3 DEF CallsClose, EvidenceStays, Evident
<1>5. graph = "succeeded"
  BY <1>1, <1>2 DEF Fits
<1>6. OutcomeMatchesGraph'
  BY <1>3, <1>5 DEF SagaInv, Core, OutcomeMatchesGraph
<1>7. SavedFits' /\ EffectHasEvidence'
  BY <1>3, <1>4, StillFits
<1>8. NextFits' /\ RtIsSaved' /\ AtPlace'
  BY <1>3 DEF NextFits, RtIsSaved, AtPlace, Saving, Driven
<1>9. OpenCase' /\ VerdictOnce' /\ StartupIsQuiet' /\ SuccessIsFinal'
  BY <1>1, <1>3, Working DEF SagaInv, Core, OpenCase, VerdictOnce, StartupIsQuiet, SuccessIsFinal
<1> QED BY <1>6, <1>7, <1>8, <1>9 DEF Core
-----------------------------------------------------------------------------
(* The steps of the worker that write a node.                              *)

\* What an attempt in the direction of r may make of its node.
StepStatus(r) ==
  IF r.mode = "forward" THEN {"active", "running", "failed", "unknown", "succeeded"}
  ELSE {"compensating", "running", "compensation_failed", "compensation_unknown", "compensated"}
DoneStatus(r) == IF r.mode = "forward" THEN "succeeded" ELSE "compensated"

\* The evidence for one node.
EvidenceAt(i) ==
  /\ node[i] \in {"succeeded", "compensating", "compensated", "compensation_failed",
                  "compensation_unknown"} => Evident(<<"forward", i>>)
  /\ node[i] = "compensated" => Evident(<<"compensating", i>>)
  /\ call[<<"forward", i>>] = "succeeded" =>
       node[i] \notin {"pending", "active", "failed", "unknown"}
  /\ call[<<"compensating", i>>] = "succeeded" => node[i] = "compensated"

\* A step at the position r, which counts the node as done on evidence.
LEMMA PositionStep ==
  ASSUME SagaInv, NEW r \in Runtime, Fits(r), NEW s \in StepStatus(r), NEW k,
         node' = [node EXCEPT ![r.index] = s], call' = [call EXCEPT ![CallOf(r)] = k],
         UNCHANGED verdict, call[CallOf(r)] \in {"succeeded", "unknown"} => k = call[CallOf(r)],
         s = DoneStatus(r) => Evident(CallOf(r))', k = "succeeded" => s = DoneStatus(r)
  PROVE  /\ node'[r.index] = s /\ call'[CallOf(r)] = k
         /\ Frontier(r)' /\ NotDue(r)'
         /\ EffectHasEvidence'
         /\ r.mode = "compensating" => Evident(<<"forward", r.index>>)'
<1>1. /\ r.index \in Nodes /\ r.mode \in {"forward", "compensating"} /\ CallOf(r) \in Calls
      /\ node \in [Nodes -> NodeStatus] /\ call \in [Calls -> ToolCallStatus]
  BY RuntimeIs DEF Modes, SagaInv, SagaTypeOK, IInv, TypeOK
<1>2. node'[r.index] = s /\ call'[CallOf(r)] = k /\ OnlyAt(r)
  BY <1>1 DEF OnlyAt
<1>3. Frontier(r)' /\ NotDue(r)'
  BY <1>2, PositionKept DEF Fits
<1>4. EvidenceStays
  BY <1>2 DEF EvidenceStays, Evident, OnlyAt
<1>5. \A j \in Nodes : <<"forward", j>> \in Calls /\ <<"compensating", j>> \in Calls
  BY CallsAre DEF Modes
<1>6. r.mode = "compensating" => Evident(<<"forward", r.index>>)'
  BY <1>1, <1>4, <1>5 DEF Fits, EvidenceStays
<1>7. ASSUME NEW i \in Nodes, i # r.index
      PROVE  /\ node'[i] = node[i]
             /\ call'[<<"forward", i>>] = call[<<"forward", i>>]
             /\ call'[<<"compensating", i>>] = call[<<"compensating", i>>]
  <2>1. <<"forward", i>> # CallOf(r) /\ <<"compensating", i>> # CallOf(r)
    BY <1>7 DEF CallOf
  <2> QED BY <1>2, <1>5, <1>7, <2>1 DEF OnlyAt
<1>e. /\ \A i \in Nodes : EvidenceAt(i)
      /\ (\A i \in Nodes : EvidenceAt(i)') => EffectHasEvidence'
  BY DEF SagaInv, Core, EffectHasEvidence, EvidenceAt
<1>f. ASSUME NEW i \in Nodes, i # r.index PROVE EvidenceAt(i)'
  BY <1>e, <1>f, <1>4, <1>5, <1>7 DEF EvidenceAt, EvidenceStays
<1>8. CASE r.mode = "forward"
  <2>1. CallOf(r) = <<"forward", r.index>> /\ <<"compensating", r.index>> # CallOf(r)
    BY <1>8 DEF CallOf
  <2>2. call'[<<"compensating", r.index>>] = "absent"
    BY <1>1, <1>2, <1>5, <1>8, <2>1 DEF OnlyAt, Fits, NotDue
  <2>3. /\ s \in {"active", "running", "failed", "unknown", "succeeded"}
        /\ s = "succeeded" => Evident(CallOf(r))'
        /\ k = "succeeded" => s = "succeeded"
    BY <1>8 DEF StepStatus, DoneStatus
  <2>4. s = "succeeded" => Evident(<<"forward", r.index>>)'
    BY <2>1, <2>3
  <2>5. EvidenceAt(r.index)'
    BY <1>2, <2>1, <2>2, <2>3, <2>4 DEF EvidenceAt
  <2> QED BY <1>2, <1>3, <1>6, <1>e, <1>f, <2>5
<1>9. CASE r.mode = "compensating"
  <2>1. CallOf(r) = <<"compensating", r.index>> /\ <<"forward", r.index>> # CallOf(r)
    BY <1>9 DEF CallOf
  <2>2. /\ s \in {"compensating", "running", "compensation_failed", "compensation_unknown",
                  "compensated"}
        /\ s = "compensated" => Evident(CallOf(r))'
        /\ k = "succeeded" => s = "compensated"
    BY <1>9 DEF StepStatus, DoneStatus
  <2>3. s = "compensated" => Evident(<<"compensating", r.index>>)'
    BY <2>1, <2>2
  <2>4. EvidenceAt(r.index)'
    BY <1>2, <1>6, <1>9, <2>1, <2>2, <2>3 DEF EvidenceAt
  <2> QED BY <1>2, <1>3, <1>6, <1>e, <1>f, <2>4
<1> QED BY <1>1, <1>8, <1>9

\* A step that counts the node as done with its call.
LEMMA NodeStep ==
  ASSUME SagaInv, NEW r \in Runtime, Fits(r), NEW s \in StepStatus(r), NEW k,
         node' = [node EXCEPT ![r.index] = s], call' = [call EXCEPT ![CallOf(r)] = k],
         UNCHANGED verdict, call[CallOf(r)] \notin {"succeeded", "unknown"},
         s = DoneStatus(r) <=> k = "succeeded"
  PROVE  /\ node'[r.index] = s /\ call'[CallOf(r)] = k
         /\ Frontier(r)' /\ NotDue(r)'
         /\ EffectHasEvidence'
         /\ r.mode = "compensating" => Evident(<<"forward", r.index>>)'
<1>1. call'[CallOf(r)] = k
  BY RuntimeIs DEF SagaInv, IInv, TypeOK
<1>2. s = DoneStatus(r) => Evident(CallOf(r))'
  BY <1>1 DEF Evident
<1> QED BY <1>2, PositionStep

\* A payload at the position of r fits what the step has made of it.
LEMMA FitsHere ==
  ASSUME NEW r \in Runtime, NEW t \in Runtime, t.index = r.index, t.mode = r.mode,
         t.stage \in 3..7, t.stage < 6 => ~t.approval,
         Frontier(r)', NotDue(r)', r.mode = "compensating" => Evident(<<"forward", r.index>>)',
         mode' = "compensating" /\ r.mode = "forward" => node'[r.index] = "failed",
         node'[r.index] \in NodeOf(t), call'[CallOf(r)] \in StatusOf(t),
         node'[r.index] \in {"failed", "compensation_failed"} =>
           call'[CallOf(r)] \notin {"requested", "running"}
  PROVE  Fits(t)'
<1>1. CallOf(t) = CallOf(r) /\ t.stage \in 0..8 /\ ~(t.stage <= 2) /\ t.stage # 8
  BY DEF CallOf
<1>2. Frontier(t)'
  BY DEF Frontier
<1>3. NotDue(t)'
  BY <1>1 DEF NotDue
<1> QED BY <1>1, <1>2, <1>3 DEF Fits

\* The node is taken up.
LEMMA StartingStep ==
  ASSUME SagaInv, stage_3_start_node
  PROVE  Core'
<1>1. worker = "top" /\ ~Saving /\ rt.stage = 3
  BY DEF stage_3_start_node, At, Saving
<1>2. PICK r \in Runtime : r = rt /\ r = saved /\ Fits(r)
  BY <1>1, AtWork DEF Driven
<1>3. r.mode \in {"forward", "compensating"} /\ r.stage = 3 /\ ~r.approval
  BY <1>1, <1>2, RuntimeIs DEF Fits, Modes
<1> DEFINE s == IF r.mode = "compensating" THEN "compensating" ELSE "active"
<1>4. /\ UNCHANGED <<call, recon, verdict, phase, saved, rt>>
      /\ node' = [node EXCEPT ![r.index] = s] /\ mode' = r.mode /\ worker' = "stepping"
      /\ graph' \in {"active", "compensating"} /\ task' # "succeeded"
  <2>1. rt' = rt
    BY <1>2, <1>3, Unasked DEF stage_3_start_node
  <2> QED BY <1>1, <1>2, <2>1, Working DEF stage_3_start_node, record_event, Journal, startup,
         SetNode, Compensating
<1>5. call[CallOf(r)] = "absent" /\ call' = [call EXCEPT ![CallOf(r)] = "absent"]
  <2>1. call[CallOf(r)] = "absent"
    BY <1>2, <1>3 DEF Fits, StatusOf
  <2> QED BY <1>4, <2>1 DEF SagaInv, IInv, TypeOK
<1>6. s \in StepStatus(r) /\ s # DoneStatus(r)
  BY <1>3 DEF StepStatus, DoneStatus
<1> HIDE DEF s
<1>7. /\ node'[r.index] = s /\ call'[CallOf(r)] = "absent" /\ Frontier(r)' /\ NotDue(r)'
      /\ EffectHasEvidence' /\ (r.mode = "compensating" => Evident(<<"forward", r.index>>)')
  BY <1>2, <1>4, <1>5, <1>6, NodeStep
<1>8. s \in NodeOf(r) /\ "absent" \in StatusOf(r) /\ s \notin {"failed", "compensation_failed"}
  BY <1>3 DEF s, NodeOf, StatusOf
<1>9. Fits(r)'
  BY <1>3, <1>4, <1>7, <1>8, FitsHere
<1>10. SavedFits' /\ NextFits' /\ RtIsSaved' /\ AtPlace'
  BY <1>2, <1>3, <1>4, <1>7, <1>9 DEF SavedFits, NextFits, RtIsSaved, AtPlace, Saving, s
<1>11. OutcomeMatchesGraph'
  BY <1>4 DEF OutcomeMatchesGraph
<1> QED BY <1>1, <1>4, <1>7, <1>10, <1>11, WorkerKeeps

\* The call of the node is requested, and the checkpoint with it.
LEMMA RequestingStep ==
  ASSUME SagaInv, stage_4_request
  PROVE  Core'
<1>1. worker = "top" /\ ~Saving /\ rt.stage = 4
  BY DEF stage_4_request, At, Saving
<1>2. PICK r \in Runtime : r = rt /\ r = saved /\ Fits(r)
  BY <1>1, AtWork DEF Driven
<1>3. /\ r.mode \in {"forward", "compensating"} /\ r.stage = 4 /\ ~r.approval
      /\ r.index \in Nodes /\ node \in [Nodes -> NodeStatus]
  BY <1>1, <1>2, RuntimeIs DEF Fits, Modes, SagaInv, SagaTypeOK
<1> DEFINE s == IF r.mode = "compensating" THEN "compensating" ELSE "active"
<1>4. /\ UNCHANGED <<recon, verdict, phase, node, graph, mode>>
      /\ task' # "succeeded" /\ call' = [call EXCEPT ![CallOf(r)] = "requested"]
  BY <1>1, <1>2, Working DEF stage_4_request, record_tool_requested, Journal, JournalBound,
     startup, durable, Current, CallOf
<1>5. PICK t \in Runtime : /\ rt' = t /\ saved' = t /\ t.index = r.index /\ t.mode = r.mode
                           /\ t.stage = 5 /\ ~t.approval /\ worker' = "save"
  <2> DEFINE u == [r EXCEPT !.stage = 5]
  <2>1. rt' = u /\ saved' = u /\ worker' = "save"
    BY <1>2, <1>3 DEF stage_4_request, Advance
  <2>2. u \in Runtime /\ u.index = r.index /\ u.mode = r.mode /\ u.stage = 5 /\ ~u.approval
    BY <1>3 DEF Runtime
  <2> HIDE DEF u
  <2> QED BY <2>1, <2>2
<1>6. call[CallOf(r)] = "absent" /\ node[r.index] = s
  BY <1>1, <1>2, <1>3 DEF Fits, StatusOf, SagaInv, Core, AtPlace, RestOf
<1>7. s \in StepStatus(r) /\ s # DoneStatus(r) /\ node' = [node EXCEPT ![r.index] = s]
  BY <1>3, <1>4, <1>6 DEF StepStatus, DoneStatus
<1>8. s \in NodeOf(t) /\ s \in RestOf(t) /\ "requested" \in StatusOf(t)
      /\ s \notin {"failed", "compensation_failed"}
  BY <1>3, <1>5 DEF NodeOf, RestOf, StatusOf
<1>9. mode = "compensating" => r.mode = "compensating"
  BY <1>2, <1>3, <1>6 DEF Fits
<1> HIDE DEF s
<1>10. /\ node'[r.index] = s /\ call'[CallOf(r)] = "requested" /\ Frontier(r)' /\ NotDue(r)'
       /\ EffectHasEvidence' /\ (r.mode = "compensating" => Evident(<<"forward", r.index>>)')
  BY <1>2, <1>4, <1>6, <1>7, NodeStep
<1>11. Fits(t)'
  BY <1>4, <1>5, <1>8, <1>9, <1>10, FitsHere
<1>12. SavedFits' /\ NextFits' /\ RtIsSaved' /\ AtPlace'
  BY <1>5, <1>8, <1>10, <1>11 DEF SavedFits, NextFits, RtIsSaved, AtPlace, Saving
<1>13. OutcomeMatchesGraph'
  BY <1>4, OutcomeStays
<1> QED BY <1>1, <1>4, <1>10, <1>12, <1>13, WorkerKeeps

\* The attempt has failed: compensate the node before it, or fail.
LEMMA FailedNode ==
  ASSUME SagaInv, worker # "done", ~Saving, NEW k \in {"absent", "failed", "cancelled"},
         FailNode, AfterFailure, UNCHANGED <<recon, verdict, phase>>, task' # "succeeded",
         rt.stage \in {4, 5, 6}, call' = [call EXCEPT ![Current] = k],
         call[Current] \notin {"succeeded", "unknown"},
         \A r \in {rt} : k \in StatusOf(r),
         saved' = saved \/ (HasAppliedPredecessor /\ saved' = CompensationOf(rt.index))
  PROVE  Core'
<1>2. PICK r \in Runtime : r = rt /\ r = saved /\ Fits(r)
  BY AtWork DEF Driven
<1>3. r.mode \in {"forward", "compensating"} /\ r.index \in Nodes /\ Current = CallOf(r)
  BY <1>2, RuntimeIs DEF Modes, Current, CallOf
<1> DEFINE s == IF r.mode = "compensating" THEN "compensation_failed" ELSE "failed"
<1>4. node' = [node EXCEPT ![r.index] = s] /\ graph' \in {"failed", "compensating"}
  BY <1>2 DEF FailNode, SetNode, Compensating
<1>5. s \in StepStatus(r) /\ s # DoneStatus(r) /\ s \in NodeOf(r)
      /\ (r.mode = "forward" => s = "failed")
  BY <1>2, <1>3 DEF StepStatus, DoneStatus, NodeOf
<1> HIDE DEF s
<1>6. /\ node'[r.index] = s /\ call'[CallOf(r)] = k /\ Frontier(r)' /\ NotDue(r)'
      /\ EffectHasEvidence' /\ (r.mode = "compensating" => Evident(<<"forward", r.index>>)')
  BY <1>2, <1>3, <1>4, <1>5, NodeStep
<1>7. Fits(r)'
  <2>1. r.stage \in 3..7 /\ (r.stage < 6 => ~r.approval)
    BY <1>2 DEF Fits
  <2> QED BY <1>2, <1>5, <1>6, <2>1, FitsHere
<1>8. OutcomeMatchesGraph'
  BY <1>4 DEF OutcomeMatchesGraph
<1>9. CASE HasAppliedPredecessor /\ r.index > 1 /\ r.mode = "forward"
           /\ rt' = CompensationOf(r.index) /\ worker' = "save"
  <2>1. PICK t \in Runtime : /\ rt' = t /\ t = CompensationOf(r.index)
                             /\ t.stage = 3 /\ t.index = r.index - 1
                             /\ t.mode = "compensating" /\ ~t.approval
    BY <1>3, <1>9, CompensationIs
  <2>2. GoesBack(r, t)'
    BY <1>5, <1>6, <1>9, <2>1 DEF GoesBack, NoEffectStands
  <2>3. Fits(t)' /\ node'[t.index] \in RestOf(t)
    BY <2>2, GoBackNext
  <2>4. saved' = r \/ saved' = t
    BY <1>2, <2>1
  <2>5. SavedFits' /\ NextFits' /\ RtIsSaved' /\ AtPlace'
    BY <1>7, <1>9, <2>1, <2>3, <2>4 DEF SavedFits, NextFits, RtIsSaved, AtPlace, Saving
  <2> QED BY <1>6, <1>8, <2>5, WorkerKeeps
<1>10. CASE ~HasAppliedPredecessor /\ rt' = rt /\ worker' = "failing"
  <2>1. SavedFits' /\ NextFits' /\ RtIsSaved' /\ AtPlace'
    BY <1>2, <1>7, <1>10 DEF SavedFits, NextFits, RtIsSaved, AtPlace, Saving
  <2> QED BY <1>6, <1>8, <2>1, WorkerKeeps
<1> QED BY <1>2, <1>9, <1>10, AfterFailureIs

\* Every way an attempt fails.
LEMMA FailingSteps ==
  ASSUME SagaInv,
         \/ stage_4_saga_conflict \/ stage_5_denied_node \/ stage_6_runner_not_ready
         \/ runner_failed("failed") \/ runner_failed("cancelled")
  PROVE  Core'
<1>t. call \in [Calls -> ToolCallStatus] /\ Current \in Calls
  BY CallsAre DEF SagaInv, IInv, TypeOK
<1>1. CASE stage_4_saga_conflict
  <2>1. /\ worker = "top" /\ rt.stage = 4 /\ ~Saving /\ FailNode /\ AfterFailure
        /\ UNCHANGED <<call, recon, verdict, phase, saved, task>>
    BY <1>1 DEF stage_4_saga_conflict, At, record_event, Journal, startup, Saving
  <2>2. call[Current] = "absent" /\ \A r \in {rt} : "absent" \in StatusOf(r)
    <3>1. PICK r \in Runtime : r = rt /\ Fits(r)
      BY <2>1, AtWork DEF Driven
    <3> QED BY <2>1, <3>1 DEF Fits, StatusOf, Current, CallOf
  <2>3. call' = [call EXCEPT ![Current] = "absent"]
    BY <1>t, <2>1, <2>2
  <2>4. task' # "succeeded" /\ rt.stage \in {4, 5, 6} /\ "absent" \in {"absent", "failed", "cancelled"}
    BY <2>1, Working
  <2> QED BY <2>1, <2>2, <2>3, <2>4, FailedNode
<1>2. CASE stage_5_denied_node
  <2>1. /\ worker = "denied" /\ ~Saving /\ FailNode /\ AfterFailure
        /\ UNCHANGED <<call, recon, verdict, phase, saved, task>>
    BY <1>2 DEF stage_5_denied_node, In, record_event, Journal, startup, Saving
  <2>2. /\ rt.stage = 5 /\ call[Current] = "failed" /\ \A r \in {rt} : "failed" \in StatusOf(r)
    BY <2>1 DEF SagaInv, Core, AtPlace, StatusOf, Current, CallOf
  <2>3. call' = [call EXCEPT ![Current] = "failed"]
    BY <1>t, <2>1, <2>2
  <2>4. task' # "succeeded" /\ rt.stage \in {4, 5, 6} /\ "failed" \in {"absent", "failed", "cancelled"}
    BY <2>1, <2>2, Working
  <2> QED BY <2>1, <2>2, <2>3, <2>4, FailedNode
<1>3. ASSUME NEW s \in {"failed", "cancelled"}, FinishFailure(s), worker \in {"top", "dispatched"},
             rt.stage = 6
      PROVE  Core'
  <2>1. /\ ~Saving /\ FailNode /\ AfterFailure /\ UNCHANGED <<recon, verdict, phase, task>>
        /\ call' = [call EXCEPT ![Current] = s]
        /\ call[Current] \notin {"succeeded", "unknown"}
        /\ saved' = saved \/ (HasAppliedPredecessor /\ saved' = CompensationOf(rt.index))
    BY <1>3 DEF FinishFailure, finish_effect_tool_call, MayFinish, Journal, JournalBound, startup,
       Saving
  <2>2. \A r \in {rt} : s \in StatusOf(r)
    BY <1>3 DEF StatusOf
  <2>3. task' # "succeeded" /\ rt.stage \in {4, 5, 6} /\ s \in {"absent", "failed", "cancelled"}
        /\ worker # "done"
    BY <1>3, <2>1, Working
  <2> QED BY <2>1, <2>2, <2>3, FailedNode
<1>4. CASE stage_6_runner_not_ready \/ runner_failed("failed") \/ runner_failed("cancelled")
  <2>1. worker = "dispatched" => rt.stage = 6
    BY DEF SagaInv, Core, AtPlace
  <2> QED BY <1>3, <1>4, <2>1 DEF stage_6_runner_not_ready, runner_failed, At, In
<1> QED BY <1>1, <1>2, <1>4

\* The call is dispatched.
LEMMA DispatchingStep ==
  ASSUME SagaInv, stage_6_start
  PROVE  Core'
<1>1. worker = "top" /\ ~Saving /\ rt.stage = 6
  BY DEF stage_6_start, At, Saving
<1>2. PICK r \in Runtime : r = rt /\ r = saved /\ Fits(r)
  BY <1>1, AtWork DEF Driven
<1>3. r.mode \in {"forward", "compensating"} /\ r.stage = 6
  BY <1>1, <1>2, RuntimeIs DEF Modes
<1>4. /\ UNCHANGED <<recon, verdict, phase, rt>> /\ saved' = r
      /\ node' = [node EXCEPT ![r.index] = "running"] /\ mode' = r.mode
      /\ call' = [call EXCEPT ![CallOf(r)] = "running"] /\ call[CallOf(r)] = "requested"
      /\ worker' = "dispatched" /\ graph' \in {"active", "compensating"}
      /\ task' # "succeeded"
  BY <1>1, <1>2, Working DEF stage_6_start, start_tool_call, JournalBound, startup, SetNode,
     Current, CallOf
<1>5. PICK s \in StepStatus(r) : s = "running"
  BY <1>3 DEF StepStatus
<1>6. s # DoneStatus(r) /\ s \in NodeOf(r) /\ "running" \in StatusOf(r)
  BY <1>3, <1>5 DEF DoneStatus, NodeOf, StatusOf
<1>7. /\ node' = [node EXCEPT ![r.index] = s] /\ call' = [call EXCEPT ![CallOf(r)] = "running"]
      /\ UNCHANGED verdict /\ call[CallOf(r)] \notin {"succeeded", "unknown"}
      /\ s = DoneStatus(r) <=> "running" = "succeeded"
  BY <1>4, <1>5, <1>6
<1>8. /\ node'[r.index] = s /\ call'[CallOf(r)] = "running" /\ Frontier(r)' /\ NotDue(r)'
      /\ EffectHasEvidence' /\ (r.mode = "compensating" => Evident(<<"forward", r.index>>)')
  BY <1>2, <1>5, <1>7, NodeStep
<1>9. Fits(r)'
  BY <1>3, <1>4, <1>5, <1>8, <1>6, FitsHere
<1>10. SavedFits' /\ NextFits' /\ RtIsSaved' /\ AtPlace'
  BY <1>2, <1>3, <1>4, <1>5, <1>8, <1>9 DEF SavedFits, NextFits, RtIsSaved, AtPlace, Saving
<1>11. OutcomeMatchesGraph'
  BY <1>4 DEF OutcomeMatchesGraph
<1> QED BY <1>1, <1>4, <1>8, <1>10, <1>11, WorkerKeeps

\* The Runner reports success.
LEMMA AppliedStep ==
  ASSUME SagaInv, runner_succeeded
  PROVE  Core'
<1>1. worker = "dispatched" /\ ~Saving
  BY DEF runner_succeeded, In, Saving
<1>2. PICK r \in Runtime : r = rt /\ r = saved /\ Fits(r)
  BY <1>1, AtWork DEF Driven
<1>3. /\ r.mode \in {"forward", "compensating"} /\ r.stage = 6 /\ node[r.index] = "running"
      /\ r.index \in Nodes
  BY <1>1, <1>2, RuntimeIs DEF SagaInv, Core, AtPlace, Modes
<1> DEFINE s == DoneStatus(r)
<1>4. /\ UNCHANGED <<recon, verdict, phase, graph, mode>>
      /\ node' = [node EXCEPT ![r.index] = s]
      /\ call' = [call EXCEPT ![CallOf(r)] = "succeeded"]
      /\ call[CallOf(r)] \notin {"succeeded", "unknown"}
      /\ task' # "succeeded"
  BY <1>1, <1>2, <1>3, Working DEF runner_succeeded, finish_effect_tool_call, MayFinish,
     JournalBound, startup, SetNode, Current, CallOf, Compensating, DoneStatus
<1>5. PICK t \in Runtime : /\ rt' = t /\ saved' = t /\ t.index = r.index /\ t.mode = r.mode
                           /\ t.stage = 7 /\ worker' = "save"
  <2> DEFINE u == [r EXCEPT !.stage = 7]
  <2>1. rt' = u /\ saved' = u /\ worker' = "save"
    BY <1>2, <1>3 DEF runner_succeeded, Advance
  <2>2. u \in Runtime /\ u.index = r.index /\ u.mode = r.mode /\ u.stage = 7
    BY DEF Runtime
  <2> HIDE DEF u
  <2> QED BY <2>1, <2>2
<1>6. s \in StepStatus(r) /\ s \in NodeOf(t) /\ s \in RestOf(t) /\ "succeeded" \in StatusOf(t)
      /\ s \notin {"failed", "compensation_failed"}
  BY <1>3, <1>5 DEF StepStatus, DoneStatus, NodeOf, RestOf, StatusOf
<1>7. mode = "compensating" => r.mode = "compensating"
  BY <1>2, <1>3 DEF Fits
<1>8. graph \notin {"succeeded", "compensated"}
  BY <1>3 DEF SagaInv, Core, OutcomeMatchesGraph, NoEffectStands
<1>9. s = DoneStatus(r)
  OBVIOUS
<1> HIDE DEF s
<1>10. /\ node'[r.index] = s /\ call'[CallOf(r)] = "succeeded" /\ Frontier(r)' /\ NotDue(r)'
       /\ EffectHasEvidence' /\ (r.mode = "compensating" => Evident(<<"forward", r.index>>)')
  BY <1>2, <1>4, <1>6, <1>9, NodeStep
<1>11. Fits(t)'
  BY <1>4, <1>5, <1>6, <1>7, <1>10, FitsHere
<1>12. SavedFits' /\ NextFits' /\ RtIsSaved' /\ AtPlace'
  BY <1>5, <1>6, <1>10, <1>11 DEF SavedFits, NextFits, RtIsSaved, AtPlace, Saving
<1>13. OutcomeMatchesGraph'
  BY <1>4, <1>8 DEF OutcomeMatchesGraph
<1> QED BY <1>1, <1>4, <1>10, <1>12, <1>13, WorkerKeeps

\* The outcome is unknown: the case is opened, and the worker leaves.
LEMMA UnknownStep ==
  ASSUME SagaInv, runner_unknown
  PROVE  Core'
<1>1. worker = "dispatched" /\ ~Saving
  BY DEF runner_unknown, In, Saving
<1>2. PICK r \in Runtime : r = rt /\ r = saved /\ Fits(r)
  BY <1>1, AtWork DEF Driven
<1>3. /\ r.mode \in {"forward", "compensating"} /\ r.stage = 6 /\ node[r.index] = "running"
  BY <1>1, <1>2, RuntimeIs DEF SagaInv, Core, AtPlace, Modes
<1> DEFINE s == IF r.mode = "compensating" THEN "compensation_unknown" ELSE "unknown"
<1>4. /\ UNCHANGED <<verdict, phase, mode, rt>> /\ saved' = r
      /\ node' = [node EXCEPT ![r.index] = s]
      /\ call' = [call EXCEPT ![CallOf(r)] = "unknown"]
      /\ call[CallOf(r)] \notin {"succeeded", "unknown"}
      /\ recon' = [recon EXCEPT ![CallOf(r)] = "pending"]
      /\ task' = "waiting_reconciliation" /\ graph' = "blocked_unknown"
      /\ worker' = "done" /\ ~known'
  BY <1>2 DEF runner_unknown, finish_effect_tool_call, MayFinish,
     JournalBound, startup, SetNode, Current, CallOf, Compensating, Finish, forget, TerminalCall
<1>5. s \in StepStatus(r) /\ s # DoneStatus(r) /\ s \in NodeOf(r) /\ "unknown" \in StatusOf(r)
      /\ s \notin {"failed", "compensation_failed"} /\ s \in {"unknown", "compensation_unknown"}
  BY <1>3 DEF StepStatus, DoneStatus, NodeOf, StatusOf
<1>6. mode = "compensating" => r.mode = "compensating"
  BY <1>2, <1>3 DEF Fits
<1> HIDE DEF s
<1>7. /\ node'[r.index] = s /\ call'[CallOf(r)] = "unknown" /\ Frontier(r)' /\ NotDue(r)'
      /\ EffectHasEvidence' /\ (r.mode = "compensating" => Evident(<<"forward", r.index>>)')
  BY <1>2, <1>4, <1>5, NodeStep
<1>8. Fits(r)'
  BY <1>3, <1>4, <1>5, <1>6, <1>7, FitsHere
<1>9. SavedFits' /\ NextFits' /\ RtIsSaved' /\ AtPlace'
  BY <1>4, <1>8 DEF SavedFits, NextFits, RtIsSaved, AtPlace, Saving, Driven
<1>10. OutcomeMatchesGraph' /\ StartupIsQuiet' /\ SuccessIsFinal'
  BY <1>4 DEF OutcomeMatchesGraph, StartupIsQuiet, SuccessIsFinal
<1>11. recon \in [Calls -> CaseStatus] /\ CallOf(r) \in Calls /\ SavedCall' = CallOf(r)
  BY <1>4, RuntimeIs DEF SagaInv, IInv, TypeOK, SavedCall, CallOf
<1>12. verdict[CallOf(r)] = "none"
  <2>1. recon[CallOf(r)] = "none"
    BY <1>4, <1>11 DEF SagaInv, IInv, UnknownHasCase
  <2> QED BY <1>11, <2>1 DEF SagaInv, Core, VerdictOnce
<1>13. VerdictOnce'
  BY <1>4, <1>11, <1>12 DEF SagaInv, Core, VerdictOnce
<1>14. OpenCase'
  <2>1. \A c \in Calls : recon'[c] \in {"pending", "resolved"} => c = CallOf(r)
    BY <1>1, <1>4, <1>11, Working
  <2> QED BY <1>3, <1>4, <1>5, <1>7, <1>11, <2>1 DEF OpenCase
<1> QED BY <1>7, <1>9, <1>10, <1>13, <1>14 DEF Core

\* Every step of the worker keeps the invariant.
LEMMA WorkerCore ==
  ASSUME SagaInv, Worker
  PROVE  Core'
  BY LeavingSteps, AdvancingSteps, MovingSteps, GraphStep, CompletingStep, ClosingStep, GoneStep,
     DenyingStep, SavingStep, SucceedingStep, StartingStep, RequestingStep, FailingSteps,
     DispatchingStep, AppliedStep, UnknownStep
  DEF Worker
-----------------------------------------------------------------------------
(* Requests, timers and verdicts.                                          *)

\* A request that leaves the worker where it is, and closes calls at most.
LEMMA RequestKeeps ==
  ASSUME SagaInv, UNCHANGED <<node, graph, mode, verdict, saved, rt, worker, recon, phase, kept>>,
         known' => known, CallsClose, phase # "serving" => UNCHANGED call,
         task' = "succeeded" => task = "succeeded",
         task' = task \/ task' \in TerminalTask \/ (Live /\ task # "waiting_reconciliation")
  PROVE  Core'
<1>1. EvidenceStays /\ OutcomeMatchesGraph'
  BY CloseKeepsEvidence, OutcomeStays
<1>2. SavedFits' /\ EffectHasEvidence'
  BY <1>1, StillFits
<1>3. NextFits'
  <2>1. ASSUME Saving PROVE \A r \in {rt} : Fits(r)'
    <3>1. PICK r \in Runtime : r = rt /\ Fits(r)
      BY <2>1 DEF SagaInv, SagaTypeOK, Core, NextFits
    <3> QED BY <1>1, <3>1, FitsKeep
  <2> QED BY <2>1 DEF NextFits, Saving
<1>4. RtIsSaved'
  BY DEF SagaInv, Core, RtIsSaved, Driven, Saving
<1>5. AtPlace'
  <2>1. PICK r \in Runtime : r = rt
    BY DEF SagaInv, SagaTypeOK
  <2>2. call[CallOf(r)] = "failed" => call'[CallOf(r)] = "failed"
    BY RuntimeIs DEF CallsClose
  <2> QED BY <2>1, <2>2 DEF SagaInv, Core, AtPlace
<1>6. OpenCase'
  BY DEF SagaInv, Core, OpenCase, Live, SavedCall
<1>7. VerdictOnce' /\ SuccessIsFinal'
  BY DEF SagaInv, Core, VerdictOnce, SuccessIsFinal
<1>8. StartupIsQuiet'
  BY DEF SagaInv, Core, StartupIsQuiet, Current
<1> QED BY <1>1, <1>2, <1>3, <1>4, <1>5, <1>6, <1>7, <1>8 DEF Core

\* A request that starts the worker of a runtime at rest.
LEMMA StartKeeps ==
  ASSUME SagaInv, phase = "serving", known, worker = "done", worker' = "top",
         UNCHANGED <<node, graph, mode, verdict, saved, rt, known, vars>>
  PROVE  Core'
<1>1. UNCHANGED <<call, recon, task, phase, kept>>
  BY DEF vars
<1>2. CallsClose /\ EvidenceStays /\ OutcomeMatchesGraph'
  BY <1>1, OutcomeStays DEF CallsClose, EvidenceStays, Evident
<1>3. SavedFits' /\ EffectHasEvidence'
  BY <1>2, StillFits
<1>4. PICK r \in Runtime : r = rt /\ r = saved /\ Fits(r)
  BY AtWork DEF Driven, Saving
<1>5. NextFits' /\ RtIsSaved' /\ AtPlace'
  BY <1>1, <1>4 DEF SagaInv, Core, NextFits, RtIsSaved, AtPlace, Saving
<1>6. OpenCase' /\ VerdictOnce' /\ SuccessIsFinal' /\ StartupIsQuiet'
  BY <1>1 DEF SagaInv, Core, OpenCase, VerdictOnce, SuccessIsFinal, StartupIsQuiet
<1> QED BY <1>2, <1>3, <1>5, <1>6 DEF Core

\* Closing approvals and their calls.
LEMMA CancelCloses ==
  ASSUME NEW S, call' = CancelRequested(S)
  PROVE  CallsClose
  BY DEF CancelRequested, CallsClose

\* What cancel does to the call of the worker that has stopped.
LEMMA CloseCallCloses ==
  ASSUME SagaInv, CloseCall
  PROVE  /\ CallsClose /\ UNCHANGED <<recon, phase, kept, task>>
<1>1. CASE UNCHANGED vars
  BY <1>1 DEF CallsClose, vars
<1>2. CASE finish_tool_call(Current, "cancelled", FALSE)
  <2>1. call \in [Calls -> ToolCallStatus] /\ Current \in Calls
    BY CallsAre DEF SagaInv, IInv, TypeOK
  <2> QED BY <1>2, <2>1 DEF finish_tool_call, MayFinish, CallsClose, Journal, startup
<1> QED BY <1>1, <1>2 DEF CloseCall

\* Pause, resume, cancel and a lost lease.
LEMMA ControlCore ==
  ASSUME SagaInv, Control
  PROVE  Core'
<1>1. CASE lease_lost \/ pause_asks \/ pause_waited \/ cancel_asks_worker \/ cancel_unowned
           \/ cancel_forgets
  <2>1. /\ UNCHANGED <<node, graph, mode, verdict, saved, rt, worker, recon, phase, kept, call, task>>
        /\ known' => known
    BY <1>1 DEF lease_lost, pause_asks, pause_waited, cancel_asks_worker, cancel_unowned,
       cancel_forgets, vars, durable, memory, forget
  <2>2. CallsClose
    BY <2>1 DEF CallsClose
  <2> QED BY <2>1, <2>2, RequestKeeps
<1>2. CASE pause_commits \/ resume
  <2>1. /\ UNCHANGED <<node, graph, mode, verdict, saved, rt, worker, recon, phase, kept, call, known>>
        /\ task' = task \/ (task \in {"running", "paused"} /\ task' \in {"running", "paused"})
    BY <1>2 DEF pause_commits, resume, transition_task, JournalBound, vars, durable, memory, startup
  <2>2. CallsClose
    BY <2>1 DEF CallsClose
  <2> QED BY <2>1, <2>2, RequestKeeps DEF Live, TerminalTask
<1>3. CASE cancel_idle \/ cancel_closes_call
  <2>1. /\ UNCHANGED <<node, graph, mode, verdict, saved, rt, worker, known>>
        /\ CloseCall /\ phase = "serving"
    BY <1>3 DEF cancel_idle, cancel_closes_call, durable, memory, Serving
  <2> QED BY <2>1, CloseCallCloses, RequestKeeps
<1>4. CASE cancel_commits
  <2>1. /\ UNCHANGED <<node, graph, mode, verdict, saved, rt, worker, known>>
        /\ phase = "serving" /\ (cancel_task \/ UNCHANGED vars)
    BY <1>4 DEF cancel_commits, durable, memory, Serving
  <2>2. CASE cancel_task
    <3>1. UNCHANGED <<recon, phase, kept>> /\ task' = "cancelled" /\ CallsClose
      BY <2>2, CancelCloses DEF cancel_task, Journal, startup
    <3> QED BY <2>1, <3>1, RequestKeeps DEF TerminalTask
  <2>3. CASE UNCHANGED vars
    <3>1. UNCHANGED <<recon, phase, kept, task, call>> /\ CallsClose
      BY <2>3 DEF vars, CallsClose
    <3> QED BY <2>1, <3>1, RequestKeeps
  <2> QED BY <2>1, <2>2, <2>3
<1>5. CASE resume_starts
  <2>1. CASE can_resume
    BY <1>5, <2>1, StartKeeps DEF resume_starts, start_worker, durable, can_resume
  <2>2. CASE ~can_resume
    <3>1. UNCHANGED <<node, graph, mode, verdict, saved, rt, worker, recon, phase, kept, call, task,
                      known>>
      BY <1>5, <2>2 DEF resume_starts, durable, vars
    <3>2. CallsClose
      BY <3>1 DEF CallsClose
    <3> QED BY <3>1, <3>2, RequestKeeps
  <2> QED BY <2>1, <2>2
<1> QED BY <1>1, <1>2, <1>3, <1>4, <1>5 DEF Control

\* A decision on an approval, and its expiry.
LEMMA ApprovalCore ==
  ASSUME SagaInv,
         approve \/ approve_replayed \/ approve_continues \/ reject \/ expire \/ lapse
  PROVE  Core'
<1>1. CASE approve \/ approve_replayed \/ lapse
  <2>1. UNCHANGED <<node, graph, mode, verdict, saved, rt, worker, known, recon, phase, kept, call>>
    BY <1>1 DEF approve, approve_replayed, lapse, resolve_approval_approve, approval_lapses, durable,
       memory, vars, startup
  <2>2. task' = task \/ (task = "waiting_approval" /\ task' = "running")
    BY <1>1 DEF approve, approve_replayed, lapse, resolve_approval_approve, ApprovalMayResolve,
       approval_lapses, JournalBound, vars
  <2>3. CallsClose
    BY <2>1 DEF CallsClose
  <2> QED BY <2>1, <2>2, <2>3, RequestKeeps DEF Live, TerminalTask
<1>2. CASE reject \/ expire
  <2>1. PICK c \in Calls, x \in {"rejected", "expired"} : CloseBatch(c, x)
    BY <1>2 DEF reject, expire, resolve_approval_reject, resolve_approval_expired
  <2>2. /\ UNCHANGED <<node, graph, mode, verdict, saved, rt, worker, recon, phase, kept>>
        /\ ~known' /\ task' = "cancelled" /\ CallsClose /\ phase = "serving"
    BY <1>2, <2>1, CancelCloses DEF reject, expire, CloseBatch, Journal, durable, startup, forget
  <2> QED BY <2>2, RequestKeeps DEF TerminalTask
<1>3. CASE approve_continues
  <2>1. CASE WaitsForApproval /\ worker = "done"
    BY <1>3, <2>1, StartKeeps DEF approve_continues, start_worker, durable, WaitsForApproval
  <2>2. CASE ~(WaitsForApproval /\ worker = "done")
    <3>1. UNCHANGED <<node, graph, mode, verdict, saved, rt, worker, recon, phase, kept, call, task,
                      known>>
      BY <1>3, <2>2 DEF approve_continues, durable, vars
    <3>2. CallsClose
      BY <3>1 DEF CallsClose
    <3> QED BY <3>1, <3>2, RequestKeeps
  <2> QED BY <2>1, <2>2
<1> QED BY <1>1, <1>2, <1>3

\* A person gives a verdict: it is the first one for this call.
LEMMA VerdictCore ==
  ASSUME SagaInv, NEW c \in Calls, NEW v \in Verdict \ {"none"}, decide(c, v)
  PROVE  Core'
<1>1. /\ UNCHANGED <<node, graph, mode, saved, rt, worker, known, phase, kept, call, task>>
      /\ recon[c] = "pending" /\ recon' = [recon EXCEPT ![c] = "resolved"]
      /\ verdict' = [verdict EXCEPT ![c] = v]
  BY DEF decide, resolve_reconciliation, memory, startup
<1>2. /\ recon \in [Calls -> CaseStatus] /\ verdict \in [Calls -> Verdict]
      /\ call[c] = "unknown" /\ verdict[c] = "none"
  BY <1>1 DEF SagaInv, SagaTypeOK, IInv, TypeOK, UnknownHasCase, Core, VerdictOnce
<1>3. CallsClose /\ EvidenceStays /\ OutcomeMatchesGraph'
  BY <1>1, <1>2, OutcomeStays DEF CallsClose, EvidenceStays, Evident
<1>4. SavedFits' /\ EffectHasEvidence'
  BY <1>1, <1>3, StillFits
<1>5. worker = "done" /\ ~known
  BY <1>1 DEF SagaInv, Core, OpenCase
<1>6. NextFits' /\ RtIsSaved' /\ AtPlace' /\ StartupIsQuiet' /\ SuccessIsFinal'
  BY <1>1, <1>5 DEF NextFits, RtIsSaved, AtPlace, StartupIsQuiet, SuccessIsFinal, Saving, Driven
<1>7. VerdictOnce'
  BY <1>1, <1>2 DEF SagaInv, Core, VerdictOnce
<1>8. OpenCase'
  BY <1>1, <1>2 DEF SagaInv, Core, OpenCase, Live, SavedCall
<1> QED BY <1>3, <1>4, <1>6, <1>7, <1>8 DEF Core

\* A case whose verdict is applied is the one of the checkpoint's call, and
\* then no other is open.
LEMMA AppliedCase ==
  ASSUME SagaInv, NEW c \in Calls, NEW t, recover_reconciliation_graph(c, t)
  PROVE  /\ worker = "done" /\ ~known
         /\ \E r \in Runtime : /\ r = saved /\ Fits(r) /\ r.stage = 6 /\ c = CallOf(r)
                               /\ c[1] = r.mode /\ c[2] = r.index
                               /\ node[r.index] = IF r.mode = "forward" THEN "unknown"
                                                  ELSE "compensation_unknown"
         /\ call[c] = "unknown" /\ UNCHANGED <<call, phase, kept>> /\ task' = t
         /\ t \in {"running", "failed"}
         /\ \A d \in Calls : recon'[d] \notin {"pending", "resolved"}
         /\ \A d \in Calls : recon'[d] = "none" => recon[d] = "none"
<1>1. /\ recon[c] = "resolved" /\ task = "waiting_reconciliation"
      /\ recon' = [recon EXCEPT ![c] = "applied"] /\ UNCHANGED <<call, phase, kept>> /\ task' = t
      /\ t \in {"running", "failed"}
  BY DEF recover_reconciliation_graph, JournalBound, startup
<1>2. recon \in [Calls -> CaseStatus] /\ call[c] = "unknown"
  BY <1>1 DEF SagaInv, IInv, TypeOK, UnknownHasCase
<1>3. /\ c = SavedCall /\ saved.stage = 6 /\ worker = "done" /\ ~known
      /\ node[saved.index] \in {"unknown", "compensation_unknown"}
      /\ \A d \in Calls : recon[d] \in {"pending", "resolved"} => d = c
  BY <1>1 DEF SagaInv, Core, OpenCase, Live, TerminalTask
<1>4. PICK r \in Runtime : r = saved /\ Fits(r)
  BY DEF SagaInv, SagaTypeOK, Core, SavedFits
<1>5. r.mode \in {"forward", "compensating"} /\ r.stage = 6 /\ c = CallOf(r)
      /\ c[1] = r.mode /\ c[2] = r.index
  BY <1>3, <1>4, RuntimeIs DEF Modes, SavedCall, CallOf
<1>6. node[r.index] = IF r.mode = "forward" THEN "unknown" ELSE "compensation_unknown"
  BY <1>3, <1>4, <1>5 DEF Fits, NodeOf
<1>7. /\ \A d \in Calls : recon'[d] \notin {"pending", "resolved"}
      /\ \A d \in Calls : recon'[d] = "none" => recon[d] = "none"
  BY <1>1, <1>2, <1>3
<1> QED BY <1>1, <1>2, <1>3, <1>4, <1>5, <1>6, <1>7

\* The case is closed and nobody drives the task.
LEMMA RecoveryEnds ==
  ASSUME SagaInv, NEW c \in Calls, recover_reconciliation_graph(c, "failed"),
         UNCHANGED <<verdict, saved, rt, known, worker>>, graph' = "failed",
         SavedFits', EffectHasEvidence'
  PROVE  Core'
<1>1. /\ worker' = "done" /\ ~known' /\ task' = "failed" /\ UNCHANGED phase
      /\ \A d \in Calls : recon'[d] \notin {"pending", "resolved"}
      /\ \A d \in Calls : recon'[d] = "none" => recon[d] = "none"
  BY AppliedCase
<1>2. NextFits' /\ RtIsSaved' /\ AtPlace' /\ StartupIsQuiet' /\ SuccessIsFinal'
  BY <1>1 DEF NextFits, RtIsSaved, AtPlace, StartupIsQuiet, SuccessIsFinal, Saving, Driven
<1>3. OpenCase' /\ VerdictOnce' /\ OutcomeMatchesGraph'
  BY <1>1 DEF SagaInv, Core, OpenCase, VerdictOnce, OutcomeMatchesGraph
<1> QED BY <1>2, <1>3 DEF Core

\* The case is closed and the checkpoint holds the payload t.
LEMMA RecoveryResumes ==
  ASSUME SagaInv, NEW c \in Calls, recover_reconciliation_graph(c, "running"),
         UNCHANGED verdict, graph' \notin {"succeeded", "compensated"}, phase = "serving",
         NEW t \in Runtime, Resume(t), Fits(t)', EffectHasEvidence'
  PROVE  Core'
<1>1. /\ task' = "running" /\ UNCHANGED phase /\ worker = "done" /\ ~known
      /\ \A d \in Calls : recon'[d] \notin {"pending", "resolved"}
      /\ \A d \in Calls : recon'[d] = "none" => recon[d] = "none"
  BY AppliedCase
<1>2. saved' = t /\ worker' = "done" /\ ~known'
  BY <1>1 DEF Resume, memory
<1>3. SavedFits' /\ NextFits' /\ RtIsSaved' /\ AtPlace' /\ StartupIsQuiet' /\ SuccessIsFinal'
  BY <1>1, <1>2 DEF SavedFits, NextFits, RtIsSaved, AtPlace, StartupIsQuiet, SuccessIsFinal,
     Saving, Driven
<1>4. OpenCase' /\ VerdictOnce' /\ OutcomeMatchesGraph'
  BY <1>1 DEF SagaInv, Core, OpenCase, VerdictOnce, OutcomeMatchesGraph
<1> QED BY <1>3, <1>4 DEF Core

\* A verdict is applied to the blocked graph.
LEMMA RecoveryCore ==
  ASSUME SagaInv, NEW c \in Calls,
         \/ recover_graph_terminate(c) \/ recover_graph_succeeded(c)
         \/ recover_graph_no_effect(c)
  PROVE  Core'
<1>1. PICK x \in {"running", "failed"} : recover_reconciliation_graph(c, x)
  BY DEF recover_graph_terminate, recover_graph_succeeded, recover_graph_no_effect
<1>2. PICK r \in Runtime :
        /\ r = saved /\ Fits(r) /\ r.stage = 6 /\ c = CallOf(r)
        /\ c[1] = r.mode /\ c[2] = r.index
        /\ node[r.index] = IF r.mode = "forward" THEN "unknown" ELSE "compensation_unknown"
  BY <1>1, AppliedCase
<1>3. call[c] = "unknown" /\ UNCHANGED call /\ call' = [call EXCEPT ![CallOf(r)] = "unknown"]
  <2>1. call[c] = "unknown" /\ UNCHANGED call
    BY <1>1, AppliedCase
  <2> QED BY <1>2, <2>1 DEF SagaInv, IInv, TypeOK
<1>4. /\ r.mode \in {"forward", "compensating"} /\ r.index \in Nodes
      /\ mode = "compensating" => r.mode = "compensating"
  BY <1>2, RuntimeIs DEF Modes, Fits
<1>5. CASE recover_graph_terminate(c)
  <2>1. /\ recover_reconciliation_graph(c, "failed") /\ graph' = "failed"
        /\ UNCHANGED <<node, mode, verdict, saved, rt, known, worker>>
    BY <1>5 DEF recover_graph_terminate, memory
  <2>2. CallsClose /\ EvidenceStays
    BY <1>3, <2>1 DEF CallsClose, EvidenceStays, Evident
  <2>3. SavedFits' /\ EffectHasEvidence'
    BY <1>2, <2>1, <2>2, StillFits
  <2> QED BY <2>1, <2>3, RecoveryEnds
<1>6. CASE recover_graph_succeeded(c)
  <2>1. /\ recover_reconciliation_graph(c, "running") /\ graph' \notin {"succeeded", "compensated"}
        /\ UNCHANGED <<mode, verdict>> /\ phase = "serving"
        /\ verdict[c] = "confirmed_succeeded"
        /\ node' = [node EXCEPT ![r.index] = DoneStatus(r)]
    BY <1>2, <1>4, <1>6 DEF recover_graph_succeeded, Blocked, Serving,
       SetNode, DoneStatus
  <2> DEFINE u == [r EXCEPT !.stage = 7, !.reconciled = TRUE]
  <2>2. PICK t \in Runtime : Resume(t) /\ t.stage = 7 /\ t.index = r.index /\ t.mode = r.mode
    <3>1. u \in Runtime /\ u.stage = 7 /\ u.index = r.index /\ u.mode = r.mode
      BY SpecialPayloads
    <3>2. Resume(u)
      BY <1>2, <1>6 DEF recover_graph_succeeded
    <3> HIDE DEF u
    <3> QED BY <3>1, <3>2
  <2>3. PICK s \in StepStatus(r) : s = DoneStatus(r)
    BY <1>4 DEF StepStatus, DoneStatus
  <2>4. Evident(CallOf(r))'
    BY <1>2, <1>3, <2>1 DEF Evident
  <2>5. /\ node' = [node EXCEPT ![r.index] = s] /\ UNCHANGED verdict
        /\ call' = [call EXCEPT ![CallOf(r)] = "unknown"] /\ Fits(r)
        /\ call[CallOf(r)] \in {"succeeded", "unknown"} => "unknown" = call[CallOf(r)]
        /\ s = DoneStatus(r) => Evident(CallOf(r))'
        /\ "unknown" = "succeeded" => s = DoneStatus(r)
    BY <1>2, <1>3, <2>1, <2>3, <2>4
  <2>6. /\ node'[r.index] = s /\ call'[CallOf(r)] = "unknown" /\ Frontier(r)' /\ NotDue(r)'
        /\ EffectHasEvidence' /\ (r.mode = "compensating" => Evident(<<"forward", r.index>>)')
    BY <2>5, PositionStep
  <2>7. s \in NodeOf(t) /\ "unknown" \in StatusOf(t)
        /\ s \notin {"failed", "compensation_failed"}
    BY <1>4, <2>2, <2>3 DEF DoneStatus, NodeOf, StatusOf
  <2>8. Fits(t)'
    BY <1>4, <2>1, <2>2, <2>6, <2>7, FitsHere
  <2> QED BY <2>1, <2>2, <2>6, <2>7, <2>8, RecoveryResumes
<1>7. CASE recover_graph_no_effect(c)
  <2> DEFINE f == IF r.mode = "compensating" THEN "compensation_failed" ELSE "failed"
  <2>1. PICK s \in StepStatus(r) : s = f /\ s # DoneStatus(r) /\ s \in NodeOf(r)
                                  /\ (r.mode = "forward" => s = "failed")
    BY <1>2, <1>4 DEF StepStatus, DoneStatus, NodeOf
  <2>2. /\ node' = [node EXCEPT ![r.index] = s] /\ UNCHANGED verdict /\ phase = "serving"
        /\ call' = [call EXCEPT ![CallOf(r)] = "unknown"] /\ Fits(r)
        /\ call[CallOf(r)] \in {"succeeded", "unknown"} => "unknown" = call[CallOf(r)]
        /\ s = DoneStatus(r) => Evident(CallOf(r))'
        /\ "unknown" = "succeeded" => s = DoneStatus(r)
    BY <1>2, <1>3, <1>7, <2>1 DEF recover_graph_no_effect, Blocked, Serving, SetNode
  <2> HIDE DEF f
  <2>3. /\ node'[r.index] = s /\ call'[CallOf(r)] = "unknown" /\ Frontier(r)' /\ NotDue(r)'
        /\ EffectHasEvidence' /\ (r.mode = "compensating" => Evident(<<"forward", r.index>>)')
    BY <2>2, PositionStep
  <2>4. CASE r.mode = "forward" /\ r.index > 1
    <3>1. /\ recover_reconciliation_graph(c, "running") /\ graph' = "compensating"
          /\ Resume(CompensationOf(r.index))
      BY <1>2, <1>7, <2>4 DEF recover_graph_no_effect
    <3>2. PICK t \in Runtime : /\ t = CompensationOf(r.index)
                               /\ t.stage = 3 /\ t.index = r.index - 1
                               /\ t.mode = "compensating" /\ ~t.approval
      BY <1>4, <2>4, CompensationIs
    <3>3. GoesBack(r, t)'
      BY <2>1, <2>3, <2>4, <3>2 DEF GoesBack, NoEffectStands
    <3>4. Fits(t)'
      BY <3>3, GoBackNext
    <3> QED BY <2>2, <2>3, <3>1, <3>2, <3>4, RecoveryResumes
  <2>5. CASE ~(r.mode = "forward" /\ r.index > 1)
    <3>1. /\ recover_reconciliation_graph(c, "failed") /\ graph' = "failed"
          /\ UNCHANGED <<mode, saved, rt, known, worker>>
      BY <1>2, <1>7, <2>5 DEF recover_graph_no_effect, memory
    <3>2. "unknown" \in StatusOf(r)
      BY <1>2 DEF StatusOf
    <3>3. Fits(r)'
      BY <1>2, <1>4, <2>1, <2>3, <3>1, <3>2, FitsHere
    <3>4. SavedFits'
      BY <1>2, <3>1, <3>3 DEF SavedFits
    <3> QED BY <2>2, <2>3, <3>1, <3>4, RecoveryEnds
  <2> QED BY <2>4, <2>5
<1> QED BY <1>5, <1>6, <1>7

\* A request that repeats a recovery, or reads the checkpoint, writes nothing.
LEMMA LoadingCore ==
  ASSUME SagaInv, recover_graph_repeated \/ recovery_loads
  PROVE  Core'
<1>1. UNCHANGED <<node, graph, mode, verdict, saved, rt, worker, recon, phase, kept, call, task,
                  known>>
  BY DEF recover_graph_repeated, recovery_loads, vars, durable, memory
<1>2. CallsClose
  BY <1>1 DEF CallsClose
<1> QED BY <1>1, <1>2, RequestKeeps

\* A node whose checkpoint passes the checks is at rest.
LEMMA CheckedIsAtRest ==
  ASSUME NEW r \in Runtime, r = saved, Fits(r), StageFitsNode
  PROVE  node[r.index] \in RestOf(r)
<1>1. r.stage \in 0..8 /\ r.mode \in {"forward", "compensating"} /\ node[r.index] \in NodeOf(r)
  BY RuntimeIs DEF Fits, Modes
<1>2. /\ r.stage = 3 => node[r.index] \in {"pending", "succeeded"}
      /\ r.stage \in {4, 5, 6} => node[r.index] \in {"active", "compensating"}
  BY <1>1 DEF StageFitsNode
<1>3. CASE r.stage = 3
  BY <1>1, <1>2, <1>3 DEF NodeOf, RestOf
<1>4. CASE r.stage \in {4, 5, 6}
  BY <1>1, <1>2, <1>4 DEF NodeOf, RestOf
<1>5. CASE r.stage \notin {3, 4, 5, 6}
  BY <1>1, <1>5 DEF RestOf
<1> QED BY <1>3, <1>4, <1>5

\* The worker starts with a checkpoint that passes the checks: it is at rest,
\* and its call has no open case.
LEMMA StartsCore ==
  ASSUME SagaInv, recovery_starts
  PROVE  Core'
<1>1. /\ UNCHANGED <<node, graph, mode, verdict, saved, recon, phase, kept, call, task>>
      /\ phase = "serving" /\ recovering # "no"
  BY DEF recovery_starts, vars, durable
<1>2. worker = "done" /\ ~known /\ task # "succeeded"
  BY <1>1 DEF SagaInv, Recovering
<1>3. CallsClose /\ EvidenceStays /\ OutcomeMatchesGraph'
  BY <1>1, OutcomeStays DEF CallsClose, EvidenceStays, Evident
<1>4. CASE ~SavedFitsTask("running")
  BY <1>1, <1>3, <1>4, RequestKeeps DEF recovery_starts, memory
<1>5. CASE SavedFitsTask("running")
  <2>1. rt' = saved /\ known' /\ worker' = "top"
    BY <1>5 DEF recovery_starts, start_worker
  <2>2. PICK r \in Runtime : r = saved /\ Fits(r)
    BY DEF SagaInv, SagaTypeOK, Core, SavedFits
  <2>3. SavedFits' /\ EffectHasEvidence'
    BY <1>1, <1>3, StillFits
  <2>4. node[r.index] \in RestOf(r)
    BY <1>5, <2>2, CheckedIsAtRest DEF SavedFitsTask
  <2>5. \A c \in Calls : recon[c] \notin {"pending", "resolved"}
    <3> SUFFICES ASSUME NEW c \in Calls, recon[c] \in {"pending", "resolved"} PROVE FALSE
      OBVIOUS
    <3>1. c = SavedCall /\ saved.stage = 6
      BY DEF SagaInv, Core, OpenCase
    <3>2. call[SavedCall] = "requested"
      BY <1>5, <3>1 DEF SavedFitsTask, StageFitsCall
    <3>3. call[c] = "unknown"
      BY DEF SagaInv, IInv, UnknownHasCase
    <3> QED BY <3>1, <3>2, <3>3
  <2>6. NextFits' /\ RtIsSaved' /\ AtPlace' /\ StartupIsQuiet' /\ SuccessIsFinal'
    BY <1>1, <1>2, <2>1, <2>2, <2>4 DEF NextFits, RtIsSaved, AtPlace, StartupIsQuiet,
       SuccessIsFinal, Saving
  <2>7. OpenCase' /\ VerdictOnce'
    BY <1>1, <2>5 DEF SagaInv, Core, OpenCase, VerdictOnce
  <2> QED BY <1>3, <2>3, <2>6, <2>7 DEF Core
<1> QED BY <1>4, <1>5

\* Every decision keeps the invariant.
LEMMA DecisionsCore ==
  ASSUME SagaInv, Decisions
  PROVE  Core'
  BY ApprovalCore, VerdictCore, RecoveryCore, LoadingCore, StartsCore DEF Decisions

\* Only decisions begin a restore, or take it further.
LEMMA RecoveringFrame ==
  ASSUME Worker \/ Control \/ ProcessStartup \/ UNCHANGED sagaVars
  PROVE  recovering' \in {recovering, "no"}
BY DEF Worker, worker_stops, stage_0_classifying, stage_1_plan, stage_1_raises,
   ensure_effect_graph, stage_2_running, stage_3_start_node, stage_3_step_started,
   stage_4_request, stage_4_saga_conflict, stage_4_raises, stage_5_allow,
   stage_5_require_approval, stage_5_raises, stage_5_deny, stage_5_denied_node,
   FinishFailure, stage_6_runner_not_ready, stage_6_start, stage_6_expired,
   stage_call_gone, runner_succeeded, runner_failed, runner_unknown,
   stage_7_step_completed, stage_7_close_graph, stage_8_completed, fail_task,
   record_exception, save_checkpoint, suspend_reads_approval, suspend_leaves,
   worker_is_fenced, worker_finds_task_ended, worker_is_refused,
   Control, lease_lost, pause_asks, pause_waited, pause_commits, resume,
   resume_starts, cancel_idle, cancel_asks_worker, cancel_closes_call, cancel_unowned,
   cancel_commits, cancel_forgets, ProcessStartup, process_crash, restore_skips,
   restore_runtime, restore_contended, restore_fails, settle_approvals,
   settle_calls_skip, settle_calls, sagaVars, requests

\* Who starts a worker, or a request that will, first finds a runtime; only a
\* crash, or a person who ends the task, interrupts the restore.
LEMMA NextRecovering ==
  ASSUME SagaInv, [SagaNext]_sagaVars
  PROVE  Recovering'
<1> SUFFICES ASSUME recovering' # "no"
             PROVE  /\ phase' = "serving" /\ starting' = "no"
                    /\ worker' = "done" /\ ~known'
                    /\ task' \in {"running", "paused", "failed", "cancelled"}
  BY DEF Recovering
<1>1. CASE recovering = "no"
  <2>1. Decisions
    <3>1. ~(Worker \/ Control \/ ProcessStartup \/ UNCHANGED sagaVars)
      BY <1>1, RecoveringFrame
    <3> QED BY <3>1 DEF SagaNext
  <2>2. CASE approve \/ approve_replayed \/ approve_continues \/ reject \/ expire \/ lapse
             \/ recovery_loads \/ recovery_starts
    BY <1>1, <2>2 DEF approve, approve_replayed, approve_continues, reject, expire, lapse,
       recovery_loads, recovery_starts, requests
  <2>3. CASE recover_graph_repeated
    BY <2>3 DEF recover_graph_repeated, Serving, vars, memory
  <2>4. ASSUME NEW c \in Calls, \E v \in Verdict \ {"none"} : decide(c, v) PROVE FALSE
    BY <1>1, <2>4 DEF decide, requests
  <2>5. ASSUME NEW c \in Calls,
               recover_graph_terminate(c) \/ recover_graph_succeeded(c) \/ recover_graph_no_effect(c)
        PROVE  /\ phase' = "serving" /\ starting' = "no"
               /\ worker' = "done" /\ ~known' /\ task' = "running"
    <3>1. /\ recover_reconciliation_graph(c, "running") /\ UNCHANGED memory
          /\ Serving /\ starting' = starting
      BY <1>1, <2>5 DEF recover_graph_terminate, recover_graph_succeeded, recover_graph_no_effect,
         Resume, Blocked, requests
    <3>2. worker = "done" /\ ~known /\ UNCHANGED phase /\ task' = "running"
      BY <3>1, AppliedCase
    <3> QED BY <3>1, <3>2 DEF Serving, memory
  <2> QED BY <2>1, <2>2, <2>3, <2>4, <2>5 DEF Decisions
<1>2. CASE recovering # "no"
  <2>1. /\ phase = "serving" /\ starting = "no" /\ worker = "done" /\ ~known
        /\ task \in {"running", "paused", "failed", "cancelled"}
    BY <1>2 DEF SagaInv, Recovering
  <2>2. ~Worker
    BY <2>1 DEF Worker, In, At, Serving, worker_stops, stage_0_classifying, stage_1_plan, stage_1_raises,
       ensure_effect_graph, stage_2_running, stage_3_start_node, stage_3_step_started,
       stage_4_request, stage_4_saga_conflict, stage_4_raises, stage_5_allow,
       stage_5_require_approval, stage_5_raises, stage_5_deny, stage_5_denied_node, PolicyAnswers,
       stage_6_runner_not_ready, stage_6_start, stage_6_expired, stage_call_gone,
       runner_succeeded, runner_failed, runner_unknown, stage_7_step_completed,
       stage_7_close_graph, stage_8_completed, fail_task, record_exception, save_checkpoint,
       suspend_reads_approval, suspend_leaves, worker_is_fenced, worker_finds_task_ended,
       worker_is_refused
  <2>3. CASE Control
    <3>1. CASE lease_lost \/ pause_asks \/ pause_waited \/ cancel_asks_worker \/ cancel_unowned
               \/ cancel_forgets \/ resume_starts \/ resume
      BY <2>1, <3>1 DEF lease_lost, pause_asks, pause_waited, cancel_asks_worker, cancel_unowned,
         cancel_forgets, resume_starts, resume, can_resume, vars, memory, forget
    <3>2. CASE pause_commits
      BY <2>1, <3>2 DEF pause_commits, transition_task, JournalBound, vars, memory, startup
    <3>3. CASE cancel_idle \/ cancel_closes_call
      BY <2>1, <3>3, CloseCallCloses DEF cancel_idle, cancel_closes_call, memory
    <3>4. CASE cancel_commits
      BY <2>1, <3>4 DEF cancel_commits, cancel_task, Journal, vars, memory, startup
    <3> QED BY <2>3, <3>1, <3>2, <3>3, <3>4 DEF Control
  <2>4. CASE Decisions
    <3>1. CASE lapse
      BY <2>1, <3>1 DEF lapse, approval_lapses, memory, requests, startup
    <3>a. ~(approve \/ approve_replayed \/ approve_continues)
      BY <2>1 DEF approve, approve_replayed, approve_continues, WaitsForApproval
    <3>2. CASE reject \/ expire
      BY <2>1, <3>2 DEF reject, expire, resolve_approval_reject, resolve_approval_expired,
         CloseBatch, Journal, forget, requests, startup
    <3>3. CASE recover_graph_repeated \/ recovery_loads \/ recovery_starts
      BY <1>2, <2>1, <3>3 DEF recover_graph_repeated, recovery_loads, recovery_starts, vars, memory
    <3>4. ASSUME NEW c \in Calls, NEW v \in Verdict \ {"none"}, decide(c, v)
          PROVE  UNCHANGED <<phase, starting, worker, known, task>>
      BY <3>4 DEF decide, resolve_reconciliation, startup, memory, requests
    <3>5. ASSUME NEW c \in Calls,
                 recover_graph_terminate(c) \/ recover_graph_succeeded(c) \/ recover_graph_no_effect(c)
          PROVE  FALSE
      <4>1. task = "waiting_reconciliation"
        BY <3>5 DEF recover_graph_terminate, recover_graph_succeeded, recover_graph_no_effect,
           recover_reconciliation_graph
      <4> QED BY <2>1, <4>1
    <3> QED BY <2>1, <2>4, <3>1, <3>a, <3>2, <3>3, <3>4, <3>5 DEF Decisions
  <2>5. CASE ProcessStartup
    <3>1. ~process_crash
      BY DEF process_crash
    <3> QED BY <2>1, <2>5, <3>1 DEF ProcessStartup, restore_skips, prepare_durable_recovery_skip,
         restore_runtime, restore_contended, prepare_durable_recovery, restore_fails,
         fail_task_checkpoint, settle_approvals, recover_pending_approvals,
         recover_pending_approvals_skip, settle_calls_skip, recover_incomplete_tool_calls_skip,
         settle_calls, recover_incomplete_tool_calls
  <2>6. CASE UNCHANGED sagaVars
    BY <2>1, <2>6 DEF sagaVars, vars, memory, requests
  <2> QED BY <2>2, <2>3, <2>4, <2>5, <2>6 DEF SagaNext
<1> QED BY <1>1, <1>2
-----------------------------------------------------------------------------
(* Crash and startup.                                                      *)

\* Nobody drives the task after the step.
LEMMA IdleKeeps ==
  ASSUME SagaInv, UNCHANGED <<node, graph, mode, verdict, saved, recon>>,
         worker' = "done", ~known', CallsClose, task' = task \/ task' \in {"failed", "cancelled"}
  PROVE  Core'
<1>1. EvidenceStays /\ OutcomeMatchesGraph'
  BY CloseKeepsEvidence, OutcomeStays
<1>2. SavedFits' /\ EffectHasEvidence'
  BY <1>1, StillFits
<1>3. NextFits' /\ RtIsSaved' /\ AtPlace' /\ StartupIsQuiet' /\ SuccessIsFinal'
  BY DEF NextFits, RtIsSaved, AtPlace, StartupIsQuiet, SuccessIsFinal, Saving, Driven
<1>4. OpenCase' /\ VerdictOnce'
  BY DEF SagaInv, Core, OpenCase, VerdictOnce, Live, TerminalTask, SavedCall
<1> QED BY <1>1, <1>2, <1>3, <1>4 DEF Core

\* The startup goes on with what it has restored.
LEMMA StartupGoesOn ==
  ASSUME SagaInv, phase \in {"approvals", "calls"},
         UNCHANGED <<node, graph, mode, verdict, saved, rt, known, call, recon, task, kept>>,
         \/ worker' = "done" /\ phase' = "calls"
         \/ phase' = "serving" /\ (worker' = "done" \/ (worker' = "top" /\ known))
  PROVE  Core'
<1>1. CallsClose /\ EvidenceStays /\ OutcomeMatchesGraph' /\ worker = "done"
  BY OutcomeStays DEF CallsClose, EvidenceStays, Evident, SagaInv, Core, StartupIsQuiet
<1>2. SavedFits' /\ EffectHasEvidence'
  BY <1>1, StillFits
<1>3. NextFits' /\ RtIsSaved'
  BY <1>1 DEF SagaInv, Core, NextFits, RtIsSaved, Saving, Driven
<1>4. AtPlace' /\ SuccessIsFinal'
  BY <1>1 DEF SagaInv, Core, AtPlace, SuccessIsFinal
<1>5. StartupIsQuiet'
  BY DEF SagaInv, Core, StartupIsQuiet, Current
<1>6. OpenCase' /\ VerdictOnce'
  BY DEF SagaInv, Core, OpenCase, VerdictOnce, Live, SavedCall
<1> QED BY <1>1, <1>2, <1>3, <1>4, <1>5, <1>6 DEF Core

\* A checkpoint that passes every check is one at rest.
LEMMA RestoreCore ==
  ASSUME SagaInv, restore_runtime
  PROVE  Core'
<1>1. /\ UNCHANGED <<node, graph, mode, verdict, saved, worker, call, recon, task>>
      /\ rt' = saved /\ kept' = "restored" /\ phase' = "approvals"
      /\ task # "waiting_reconciliation" /\ phase = "restoring" /\ Restorable
  BY DEF restore_runtime, prepare_durable_recovery, durable
<1>2. Live /\ task # "succeeded"
  BY <1>1 DEF Restorable, SagaInv, IInv, EndedHasNoCheckpoint, Live, TerminalTask
<1>3. worker = "done" /\ SavedFitsTask(task)
  BY <1>1 DEF SagaInv, Core, StartupIsQuiet, Restorable
<1>4. CallsClose /\ EvidenceStays /\ OutcomeMatchesGraph'
  BY <1>1, OutcomeStays DEF CallsClose, EvidenceStays, Evident
<1>5. SavedFits' /\ EffectHasEvidence'
  BY <1>1, <1>4, StillFits
<1>6. PICK r \in Runtime : r = saved /\ Fits(r)
  BY DEF SagaInv, SagaTypeOK, Core, SavedFits
<1>9. node[r.index] \in RestOf(r)
  BY <1>3, <1>6, CheckedIsAtRest DEF SavedFitsTask
<1>10. r.stage \in {5, 6} => call[CallOf(r)] = "requested"
  BY <1>3, <1>6 DEF SavedFitsTask, StageFitsCall, SavedCall, CallOf
<1>11. NextFits' /\ RtIsSaved' /\ AtPlace' /\ SuccessIsFinal'
  BY <1>1, <1>2, <1>3, <1>6, <1>9 DEF NextFits, RtIsSaved, AtPlace, SuccessIsFinal, Saving
<1>12. StartupIsQuiet'
  BY <1>1, <1>3, <1>6, <1>10 DEF StartupIsQuiet, Current, CallOf
<1>13. OpenCase' /\ VerdictOnce'
  BY <1>1, <1>2 DEF SagaInv, Core, OpenCase, VerdictOnce
<1> QED BY <1>4, <1>5, <1>11, <1>12, <1>13 DEF Core

\* What the startup finds interrupted is the call of the checkpoint, and only
\* when nothing was restored.
LEMMA CutIsSaved ==
  ASSUME SagaInv, phase = "calls", Interrupted(Recoverable) # {}
  PROVE  /\ ~known /\ worker = "done"
         /\ \E r \in Runtime :
              /\ r = saved /\ Fits(r)
              /\ Interrupted(Recoverable) = {CallOf(r)}
              /\ call[CallOf(r)] \in {"requested", "running"}
              /\ r.stage \in {5, 6} /\ (call[CallOf(r)] = "running" => r.stage = 6)
<1>1. worker = "done"
  BY DEF SagaInv, Core, StartupIsQuiet
<1>2. PICK r \in Runtime : r = saved /\ Fits(r)
  BY DEF SagaInv, SagaTypeOK, Core, SavedFits
<1>3. \A c \in Interrupted(Recoverable) : c = CallOf(r) /\ call[c] \in {"requested", "running"}
  BY <1>2 DEF Fits, NotDue, Interrupted
<1>4. PICK c \in Interrupted(Recoverable) : TRUE
  OBVIOUS
<1>5. /\ Interrupted(Recoverable) = {CallOf(r)} /\ call[CallOf(r)] \in {"requested", "running"}
      /\ r.stage \in {5, 6} /\ (call[CallOf(r)] = "running" => r.stage = 6)
  <2>1. r.stage \in 0..8
    BY <1>2 DEF Fits
  <2> QED BY <1>2, <1>3, <1>4, <2>1 DEF Fits, StatusOf
<1>6. ASSUME known PROVE FALSE
  <2>1. rt = r
    BY <1>1, <1>2, <1>6, AtWork DEF Driven, Saving
  <2>2. kept = "restored" /\ call[CallOf(r)] = "requested" /\ Current = CallOf(r)
    BY <1>5, <1>6, <2>1 DEF SagaInv, Core, StartupIsQuiet, Current, CallOf
  <2>3. Recoverable = {CallOf(r)}
    BY <1>5, <2>1, <2>2 DEF Recoverable
  <2> QED BY <1>5, <2>2, <2>3 DEF Interrupted
<1> QED BY <1>1, <1>2, <1>5, <1>6

\* The graph follows the interrupted call.
LEMMA SettleGraphIs ==
  ASSUME SagaTypeOK, NEW r \in Runtime, Interrupted(Recoverable) = {CallOf(r)}, Live, SettleGraph
  PROVE  /\ node' = [node EXCEPT ![r.index] =
                       IF call[CallOf(r)] = "running"
                       THEN IF r.mode = "forward" THEN "unknown" ELSE "compensation_unknown"
                       ELSE IF r.mode = "forward" THEN "failed" ELSE "compensation_failed"]
         /\ graph' \in {"blocked_unknown", "failed"}
<1> DEFINE status(c) == IF call[c] = "running"
                        THEN IF c[1] = "forward" THEN "unknown" ELSE "compensation_unknown"
                        ELSE IF c[1] = "forward" THEN "failed" ELSE "compensation_failed"
           cut == {CallOf(r)}
<1>1. /\ node' = [i \in Nodes |-> IF \E m \in Modes : <<m, i>> \in cut
                                THEN status(CHOOSE c \in cut : c[2] = i) ELSE node[i]]
      /\ graph' \in {"blocked_unknown", "failed"}
  BY DEF SettleGraph
<1>2. /\ r.index \in Nodes /\ r.mode \in Modes /\ node \in [Nodes -> NodeStatus]
      /\ CallOf(r) = <<r.mode, r.index>>
  BY RuntimeIs DEF SagaTypeOK, CallOf
<1>3. (CHOOSE c \in cut : c[2] = r.index) = CallOf(r)
  BY <1>2
<1>4. status(CallOf(r)) = IF call[CallOf(r)] = "running"
                          THEN IF r.mode = "forward" THEN "unknown" ELSE "compensation_unknown"
                          ELSE IF r.mode = "forward" THEN "failed" ELSE "compensation_failed"
  BY <1>2
<1>5. \A i \in Nodes : (\E m \in Modes : <<m, i>> \in cut) <=> i = r.index
  BY <1>2
<1> HIDE DEF status
<1>6. node' = [i \in Nodes |-> IF i = r.index THEN status(CallOf(r)) ELSE node[i]]
  BY <1>1, <1>3, <1>5
<1> QED BY <1>1, <1>2, <1>4, <1>6

\* Interrupted calls are settled, and the graph with them.
LEMMA SettleCore ==
  ASSUME SagaInv, settle_calls
  PROVE  Core'
<1>1. /\ recover_incomplete_tool_calls(Recoverable) /\ SettleGraph /\ Activate
      /\ UNCHANGED <<mode, verdict, saved, rt, known>>
      /\ phase = "calls" /\ Interrupted(Recoverable) # {} /\ phase' = "serving"
  BY DEF settle_calls, recover_incomplete_tool_calls
<1>2. ~known /\ worker' = "done" /\ ~known'
  BY <1>1, CutIsSaved DEF Activate
<1>3. PICK r \in Runtime :
        /\ r = saved /\ Fits(r)
        /\ Interrupted(Recoverable) = {CallOf(r)}
        /\ call[CallOf(r)] \in {"requested", "running"}
        /\ r.stage \in {5, 6} /\ (call[CallOf(r)] = "running" => r.stage = 6)
  BY <1>1, CutIsSaved
<1>4. /\ r.mode \in {"forward", "compensating"} /\ r.index \in Nodes /\ CallOf(r) \in Calls
      /\ call \in [Calls -> ToolCallStatus] /\ recon \in [Calls -> CaseStatus]
  BY RuntimeIs DEF Modes, SagaInv, IInv, TypeOK
<1> DEFINE k == IF call[CallOf(r)] = "running" THEN "unknown" ELSE "failed"
           s == IF call[CallOf(r)] = "running"
                THEN IF r.mode = "forward" THEN "unknown" ELSE "compensation_unknown"
                ELSE IF r.mode = "forward" THEN "failed" ELSE "compensation_failed"
<1>5. call' = [call EXCEPT ![CallOf(r)] = k]
  BY <1>1, <1>3, <1>4 DEF recover_incomplete_tool_calls
<1>6. /\ \A c \in Calls : c # CallOf(r) => recon'[c] = recon[c]
      /\ recon'[CallOf(r)] = IF call[CallOf(r)] = "running" THEN "pending" ELSE recon[CallOf(r)]
  BY <1>1, <1>3, <1>4 DEF recover_incomplete_tool_calls, Fits, NotDue
<1>7. /\ \A c \in Calls : recon[c] \notin {"pending", "resolved"}
      /\ recon[CallOf(r)] = "none" /\ verdict[CallOf(r)] = "none"
  <2>1. recon[CallOf(r)] = "none"
    BY <1>3, <1>4 DEF SagaInv, IInv, UnknownHasCase
  <2>2. \A c \in Calls : recon[c] \in {"pending", "resolved"} => c = CallOf(r)
    BY <1>3 DEF SagaInv, Core, OpenCase, SavedCall, CallOf
  <2> QED BY <1>4, <2>1, <2>2 DEF SagaInv, Core, VerdictOnce
<1>8. VerdictOnce'
  BY <1>1, <1>6, <1>7 DEF SagaInv, Core, VerdictOnce
<1>9. \A c \in Calls : recon'[c] \in {"pending", "resolved"} =>
                         c = CallOf(r) /\ call[CallOf(r)] = "running"
  BY <1>6, <1>7
<1>10. SavedCall' = CallOf(r) /\ saved' = r
  BY <1>1, <1>3 DEF SavedCall, CallOf
<1>11. NextFits' /\ RtIsSaved' /\ AtPlace' /\ StartupIsQuiet' /\ SuccessIsFinal'
  BY <1>1, <1>2 DEF NextFits, RtIsSaved, AtPlace, StartupIsQuiet, SuccessIsFinal, Saving, Driven
<1>12. CASE ~Live
  <2>1. UNCHANGED <<graph, node, task>>
    BY <1>1, <1>12 DEF SettleGraph, recover_incomplete_tool_calls
  <2>2. CallsClose
    BY <1>3, <1>4, <1>5 DEF CallsClose
  <2>3. SavedFits' /\ EffectHasEvidence' /\ OutcomeMatchesGraph'
    BY <1>1, <2>1, <2>2, CloseKeepsEvidence, StillFits, OutcomeStays
  <2>4. OpenCase'
    BY <1>2, <1>3, <1>9, <1>10, <1>12, <2>1 DEF OpenCase, Live
  <2> QED BY <1>8, <1>11, <2>3, <2>4 DEF Core
<1>13. CASE Live
  <2>1. node' = [node EXCEPT ![r.index] = s] /\ graph' \in {"blocked_unknown", "failed"}
    BY <1>1, <1>3, <1>13, SettleGraphIs DEF SagaInv
  <2>2. task' = IF call[CallOf(r)] = "running" THEN "waiting_reconciliation" ELSE "failed"
    BY <1>1, <1>3, <1>13 DEF recover_incomplete_tool_calls, SettledAtStartup, JournalBound
  <2>3. PICK u \in StepStatus(r) : /\ u = s /\ u # DoneStatus(r) /\ u \in NodeOf(r)
    BY <1>3, <1>4 DEF StepStatus, DoneStatus, NodeOf
  <2>4. k \in StatusOf(r) /\ k \notin {"requested", "running", "succeeded"}
    BY <1>3 DEF StatusOf
  <2>5. mode' = "compensating" => r.mode = "compensating"
    BY <1>1, <1>3, <1>4 DEF Fits
  <2>6. call[CallOf(r)] = "running" => u \in {"unknown", "compensation_unknown"}
    BY <1>4, <2>3
  <2>7. node' = [node EXCEPT ![r.index] = u]
    BY <2>1, <2>3
  <2> HIDE DEF k, s
  <2>8. /\ call[CallOf(r)] \notin {"succeeded", "unknown"} /\ Fits(r) /\ UNCHANGED verdict
        /\ u = DoneStatus(r) <=> k = "succeeded"
    BY <1>1, <1>3, <2>3, <2>4
  <2>9. /\ node'[r.index] = u /\ call'[CallOf(r)] = k /\ Frontier(r)' /\ NotDue(r)'
        /\ EffectHasEvidence' /\ (r.mode = "compensating" => Evident(<<"forward", r.index>>)')
    BY <1>5, <2>7, <2>8, NodeStep
  <2>10. Fits(r)'
    <3>1. r.stage \in 3..7 /\ (r.stage < 6 => ~r.approval)
      BY <1>3 DEF Fits
    <3> QED BY <1>4, <2>3, <2>4, <2>5, <2>9, <3>1, FitsHere
  <2>11. SavedFits' /\ OutcomeMatchesGraph'
    BY <1>10, <2>1, <2>2, <2>10 DEF SavedFits, OutcomeMatchesGraph
  <2>12. OpenCase'
    BY <1>2, <1>3, <1>9, <1>10, <2>2, <2>6, <2>9 DEF OpenCase
  <2> QED BY <1>8, <1>11, <2>9, <2>11, <2>12 DEF Core
<1> QED BY <1>12, <1>13

\* Every step of a crash and of the startup keeps the invariant.
LEMMA StartupCore ==
  ASSUME SagaInv, ProcessStartup
  PROVE  Core'
<1>1. CASE process_crash \/ restore_skips \/ restore_contended \/ restore_fails
  <2>1. /\ UNCHANGED <<node, graph, mode, verdict, saved, recon, call>>
        /\ task' = task \/ task' \in {"failed", "cancelled"}
    BY <1>1 DEF process_crash, crash, restore_skips, prepare_durable_recovery_skip,
       restore_contended, prepare_durable_recovery, restore_fails, fail_task_checkpoint, durable,
       Journal
  <2>2. worker' = "done" /\ ~known'
    <3>1. CASE process_crash
      BY <3>1 DEF process_crash
    <3>2. CASE restore_skips \/ restore_contended \/ restore_fails
      <4>1. phase = "restoring" /\ UNCHANGED <<worker, known>>
        BY <3>2 DEF restore_skips, prepare_durable_recovery_skip, restore_contended,
           prepare_durable_recovery, restore_fails, fail_task_checkpoint, memory
      <4> QED BY <4>1 DEF SagaInv, Core, StartupIsQuiet
    <3> QED BY <1>1, <3>1, <3>2
  <2>3. CallsClose
    BY <2>1 DEF CallsClose
  <2> QED BY <2>1, <2>2, <2>3, IdleKeeps
<1>2. CASE settle_approvals
  <2>1. CASE recover_pending_approvals_skip
    <3>1. /\ UNCHANGED <<node, graph, mode, verdict, saved, rt, known, worker, call, recon, task, kept>>
          /\ phase = "approvals" /\ phase' = "calls"
      BY <1>2, <2>1 DEF settle_approvals, recover_pending_approvals_skip, durable, memory
    <3>2. worker' = "done"
      BY <3>1 DEF SagaInv, Core, StartupIsQuiet
    <3> QED BY <3>1, <3>2, StartupGoesOn
  <2>2. CASE recover_pending_approvals
    <3>1. /\ UNCHANGED <<node, graph, mode, verdict, saved, known, worker, recon>>
          /\ phase = "approvals" /\ kept = "dropped"
          /\ task' = task \/ task' \in {"failed", "cancelled"}
      BY <1>2, <2>2 DEF settle_approvals, recover_pending_approvals, durable, memory, Journal
    <3>2. worker' = "done" /\ ~known'
      BY <3>1 DEF SagaInv, Core, StartupIsQuiet
    <3>3. CASE Live
      <4>1. CallsClose
        BY <2>2, <3>3, CancelCloses DEF recover_pending_approvals
      <4> QED BY <3>1, <3>2, <4>1, IdleKeeps
    <3>4. CASE ~Live
      <4>1. CallsClose
        BY <2>2, <3>4 DEF recover_pending_approvals, CallsClose
      <4> QED BY <3>1, <3>2, <4>1, IdleKeeps
    <3> QED BY <3>3, <3>4
  <2> QED BY <1>2, <2>1, <2>2 DEF settle_approvals
<1>3. CASE settle_calls_skip
  <2>1. /\ UNCHANGED <<node, graph, mode, verdict, saved, rt, known, call, recon, task, kept>>
        /\ phase = "calls" /\ phase' = "serving"
        /\ worker' = "done" \/ (worker' = "top" /\ known)
    BY <1>3 DEF settle_calls_skip, recover_incomplete_tool_calls_skip, durable, Activate
  <2> QED BY <2>1, StartupGoesOn
<1> QED BY <1>1, <1>2, <1>3, RestoreCore, SettleCore DEF ProcessStartup
-----------------------------------------------------------------------------
(* The results.                                                            *)

\* A task that has just been created satisfies the invariant.
LEMMA InitSagaInv == SagaInit => SagaInv
<1> SUFFICES ASSUME SagaInit PROVE SagaInv
  OBVIOUS
<1>1. IInv
  BY InitIInv DEF SagaInit
<1>2. FreshRuntime \in Runtime /\ 1 \in Nodes
  <2>1. FreshRuntime \in Runtime
    BY StartOf
  <2>2. 1 \in Nodes
    BY SagaAssumption DEF Nodes
  <2> QED BY <2>1, <2>2
<1>3. SagaTypeOK
  BY <1>1, <1>2 DEF SagaInit, SagaTypeOK, IInv, GraphStatus, Modes, NodeStatus, Verdict, Place
<1>4. PICK r \in Runtime : /\ r = FreshRuntime /\ r.stage = 0 /\ r.index = 1 /\ r.mode = "forward"
                           /\ ~r.approval
  BY <1>2 DEF FreshRuntime
<1>5. \A c \in Calls : call[c] = "absent" /\ recon[c] = "none" /\ verdict[c] = "none"
  BY DEF SagaInit, Init
<1>6. \A i \in Nodes : node[i] = "pending"
  BY DEF SagaInit
<1>7. \A j \in Nodes : <<"forward", j>> \in Calls /\ <<"compensating", j>> \in Calls
  BY CallsAre DEF Modes
<1>8. Frontier(r)
  BY <1>2, <1>4, <1>6, SagaAssumption DEF Frontier, NoEffectStands, Nodes
<1>9. NotDue(r)
  BY <1>5, <1>7 DEF NotDue
<1>10. Fits(r)
  BY <1>2, <1>4, <1>5, <1>6, <1>8, <1>9, RuntimeIs DEF Fits, NodeOf, StatusOf, SagaInit
<1>11. SavedFits /\ NextFits /\ RtIsSaved
  BY <1>4, <1>10 DEF SagaInit, SavedFits, NextFits, RtIsSaved, Saving
<1>12. AtPlace
  BY <1>2, <1>4, <1>6 DEF SagaInit, AtPlace, RestOf, NodeOf
<1>13. OpenCase /\ VerdictOnce
  BY <1>5 DEF OpenCase, VerdictOnce
<1>14. StartupIsQuiet /\ SuccessIsFinal /\ OutcomeMatchesGraph
  BY DEF SagaInit, Init, StartupIsQuiet, SuccessIsFinal, OutcomeMatchesGraph
<1>15. EffectHasEvidence
  BY <1>5, <1>6, <1>7 DEF EffectHasEvidence
<1>16. Recovering
  BY DEF SagaInit, Recovering
<1> QED BY <1>1, <1>3, <1>11, <1>12, <1>13, <1>14, <1>15, <1>16 DEF SagaInv, Core

\* Every step keeps it.
LEMMA NextSagaInv == SagaInv /\ [SagaNext]_sagaVars => SagaInv'
<1> SUFFICES ASSUME SagaInv, [SagaNext]_sagaVars PROVE SagaInv'
  OBVIOUS
<1>1. IInv' /\ SagaTypeOK' /\ Recovering'
  BY NextSagaTypeOK, NextRecovering DEF SagaInv, Core
<1>2. CASE UNCHANGED sagaVars
  <2>1. UNCHANGED <<node, graph, mode, verdict, saved, rt, worker, recon, phase, kept, call, task, known>>
    BY <1>2 DEF sagaVars, vars, durable, memory
  <2>2. CallsClose
    BY <2>1 DEF CallsClose
  <2>3. Core'
    BY <2>1, <2>2, RequestKeeps
  <2> QED BY <1>1, <2>3 DEF SagaInv
<1>3. CASE SagaNext
  <2>1. Core'
    BY <1>3, WorkerCore, ControlCore, DecisionsCore, StartupCore DEF SagaNext
  <2> QED BY <1>1, <2>1 DEF SagaInv
<1> QED BY <1>2, <1>3

\* The invariant holds in every state of the execution.
LEMMA SagaInductiveInvariant == SagaSpec => []SagaInv
  BY InitSagaInv, NextSagaInv, PTL DEF SagaSpec

\* The state of the processor, of the graph and of the ledger keep their types.
THEOREM SagaTypeCorrect == SagaSpec => []SagaTypeOK
<1>1. SagaInv => SagaTypeOK  BY DEF SagaInv
<1> QED BY <1>1, SagaInductiveInvariant, PTL

\* TaskProcessor implements the ledger: its worker, the HTTP requests and the
\* startup write nothing that TaskService does not offer.
THEOREM ImplementsLedger == SagaSpec => LedgerSpec
<1>1. SagaInit => Init
  BY DEF SagaInit
<1>2. SagaInv /\ [SagaNext]_sagaVars => [Next]_vars
  BY StepsLedger DEF SagaInv
<1> QED BY <1>1, <1>2, SagaInductiveInvariant, PTL DEF SagaSpec, LedgerSpec, Spec

\* So no Tool of a saga runs without its authorization.
THEOREM SagaDispatchAuthorized == SagaSpec => []AuthorizedDispatch
  BY ImplementsLedger, DispatchAuthorized, PTL DEF LedgerSpec

\* The outcome of the graph and of the task is the outcome of every node, for
\* any number of nodes, although stage 7 looks at the last one only.
THEOREM OutcomeIsTrue == SagaSpec => []OutcomeMatchesGraph
<1>1. SagaInv => OutcomeMatchesGraph  BY DEF SagaInv, Core
<1> QED BY <1>1, SagaInductiveInvariant, PTL

\* What the graph counts on, or counts as taken back, has its proof in the
\* ledger, and what the Runner reported stays in the graph, whatever crashes,
\* verdicts and cancellations come between.  (A dispatched call that a cancel
\* closed later is not an effect the graph counts on.)
THEOREM EffectsAreEvident == SagaSpec => []EffectHasEvidence
<1>1. SagaInv => EffectHasEvidence  BY DEF SagaInv, Core
<1> QED BY <1>1, SagaInductiveInvariant, PTL

\* Effects are taken back last to first: the frontier of the checkpoint says
\* which nodes still stand.
THEOREM TakenBackInReverse == SagaSpec => []CompensationInReverse
<1>1. SagaInv => CompensationInReverse
  <2> SUFFICES ASSUME SagaInv, NEW i \in Nodes, NEW j \in i+1..NodeCount,
                      \/ node[i] \in {"compensating", "compensated", "compensation_failed",
                                      "compensation_unknown"}
                      \/ node[i] = "running" /\ mode = "compensating"
               PROVE  node[j] \in NoEffectStands
    BY DEF CompensationInReverse
  <2>1. PICK r \in Runtime : r = saved /\ Fits(r)
    BY DEF SagaInv, SagaTypeOK, Core, SavedFits
  <2>2. i \in Nat /\ j \in Nodes /\ j > i /\ r.index \in Nat
    BY RuntimeIs, SagaAssumption DEF Nodes
  <2>3. ~(i < r.index)
    BY <2>1 DEF Fits, Frontier
  <2>4. j > r.index
    BY <2>2, <2>3
  <2> QED BY <2>1, <2>2, <2>4 DEF Fits, Frontier
<1> QED BY <1>1, SagaInductiveInvariant, PTL

\* A call begins to run in one way only.
LEMMA OnlyStartRuns ==
  ASSUME SagaInv, [SagaNext]_sagaVars, ~stage_6_start
  PROVE  \A c \in Calls : call'[c] = "running" => call[c] = "running"
<1>t. call \in [Calls -> ToolCallStatus] /\ Current \in Calls
  BY CallsAre DEF SagaInv, IInv, TypeOK
<1>1. CASE Worker
  <2>1. CASE \/ worker_stops \/ stage_0_classifying \/ stage_1_plan \/ stage_1_raises
             \/ ensure_effect_graph \/ stage_2_running \/ stage_3_start_node
             \/ stage_3_step_started \/ stage_4_saga_conflict \/ stage_4_raises
             \/ stage_5_allow \/ stage_5_require_approval \/ stage_5_raises
             \/ stage_5_denied_node \/ stage_call_gone \/ stage_7_step_completed
             \/ stage_7_close_graph \/ stage_8_completed \/ fail_task \/ record_exception
             \/ save_checkpoint \/ suspend_reads_approval \/ suspend_leaves
             \/ worker_is_fenced \/ worker_finds_task_ended \/ worker_is_refused
    <3>1. UNCHANGED call
      BY <2>1 DEF worker_stops, stage_0_classifying, stage_1_plan, stage_1_raises,
         ensure_effect_graph, stage_2_running, stage_3_start_node, stage_3_step_started,
         stage_4_saga_conflict, stage_4_raises, stage_5_allow, stage_5_require_approval,
         stage_5_raises, stage_5_denied_node, stage_call_gone, stage_7_step_completed,
         stage_7_close_graph, stage_8_completed, fail_task, record_exception,
         save_checkpoint, suspend_reads_approval, suspend_leaves, worker_is_fenced,
         worker_finds_task_ended, worker_is_refused, append_event, append_progress, record_event,
         apply_policy_decision_allow, apply_policy_decision_require_approval,
         save_task_checkpoint, vars
    <3> QED BY <3>1
  <2>2. CASE \/ stage_4_request \/ stage_5_deny \/ stage_6_runner_not_ready \/ stage_6_expired
             \/ runner_succeeded \/ runner_failed("failed") \/ runner_failed("cancelled")
             \/ runner_unknown
    <3>1. PICK k : call' = [call EXCEPT ![Current] = k] /\ k # "running"
      BY <2>2 DEF stage_4_request, record_tool_requested, stage_5_deny, apply_policy_decision_deny,
         stage_6_runner_not_ready, FinishFailure, finish_effect_tool_call, stage_6_expired,
         start_tool_call_expired, runner_succeeded, runner_failed, runner_unknown
    <3> QED BY <1>t, <3>1
  <2> QED BY <1>1, <2>1, <2>2 DEF Worker
<1>2. CASE Control
  <2>1. CASE cancel_idle \/ cancel_closes_call
    BY <2>1, CloseCallCloses DEF cancel_idle, cancel_closes_call, CallsClose
  <2>2. CASE cancel_commits
    BY <2>2, CancelCloses DEF cancel_commits, cancel_task, CallsClose, vars
  <2>3. CASE ~(cancel_idle \/ cancel_closes_call \/ cancel_commits)
    <3>1. UNCHANGED call
      BY <1>2, <2>3 DEF Control, lease_lost, pause_asks, pause_waited, pause_commits, resume,
         resume_starts, cancel_asks_worker, cancel_unowned, cancel_forgets, transition_task, vars
    <3> QED BY <3>1
  <2> QED BY <2>1, <2>2, <2>3
<1>3. CASE Decisions
  <2>1. CASE approve \/ approve_replayed \/ approve_continues \/ lapse
             \/ recover_graph_repeated \/ recovery_loads \/ recovery_starts
    <3>1. UNCHANGED call
      BY <2>1 DEF approve, approve_replayed, approve_continues, lapse, resolve_approval_approve,
         approval_lapses, recover_graph_repeated, recovery_loads, recovery_starts, vars
    <3> QED BY <3>1
  <2>2. CASE reject \/ expire
    <3>1. CallsClose
      BY <2>2, CancelCloses DEF reject, expire, resolve_approval_reject, resolve_approval_expired,
         CloseBatch
    <3> QED BY <3>1 DEF CallsClose
  <2>3. ASSUME NEW c \in Calls,
               \/ \E v \in Verdict \ {"none"} : decide(c, v)
               \/ recover_graph_terminate(c) \/ recover_graph_succeeded(c)
               \/ recover_graph_no_effect(c)
        PROVE  UNCHANGED call
    BY <2>3 DEF decide, resolve_reconciliation, recover_graph_terminate, recover_graph_succeeded,
       recover_graph_no_effect, recover_reconciliation_graph
  <2> QED BY <1>3, <2>1, <2>2, <2>3 DEF Decisions
<1>4. CASE ProcessStartup
  <2>1. CASE settle_approvals
    <3>1. CASE Live
      <4>1. UNCHANGED call \/ CallsClose
        BY <2>1, <3>1, CancelCloses DEF settle_approvals, recover_pending_approvals,
           recover_pending_approvals_skip
      <4> QED BY <4>1 DEF CallsClose
    <3>2. CASE ~Live
      BY <2>1, <3>2 DEF settle_approvals, recover_pending_approvals, recover_pending_approvals_skip
    <3> QED BY <3>1, <3>2
  <2>2. CASE settle_calls
    BY <2>2 DEF settle_calls, recover_incomplete_tool_calls
  <2>3. CASE ~(settle_approvals \/ settle_calls)
    <3>1. UNCHANGED call
      BY <1>4, <2>3 DEF ProcessStartup, process_crash, crash, restore_skips,
         prepare_durable_recovery_skip, restore_runtime, restore_contended,
         prepare_durable_recovery, restore_fails, fail_task_checkpoint, settle_calls_skip,
         recover_incomplete_tool_calls_skip
    <3> QED BY <3>1
  <2> QED BY <2>1, <2>2, <2>3
<1>5. CASE UNCHANGED sagaVars
  BY <1>5 DEF sagaVars, vars
<1> QED BY <1>1, <1>2, <1>3, <1>4, <1>5 DEF SagaNext

\* Once the graph compensates it stays that way: a forward runtime would find
\* its node failed, and no stage starts from there.
LEMMA ModeStays ==
  ASSUME SagaInv, [SagaNext]_sagaVars, mode = "compensating"
  PROVE  mode' = "compensating" /\ ~(stage_6_start /\ rt.mode = "forward")
<1>f. ASSUME worker \in {"top", "denied", "dispatched"}, rt.stage \in {3, 4, 5, 6}
      PROVE  rt.mode = "compensating"
  <2>1. PICK r \in Runtime : r = rt /\ r = saved /\ Fits(r)
    BY <1>f, AtWork DEF Driven, Saving
  <2>2. r.mode = "forward" => node[r.index] \in {"pending", "active", "running"}
    BY <1>f, <2>1 DEF SagaInv, Core, AtPlace, RestOf
  <2>3. r.mode \in {"forward", "compensating"}
    BY RuntimeIs DEF Modes
  <2> QED BY <2>1, <2>2, <2>3 DEF Fits
<1>p. /\ worker = "denied" => rt.stage = 5
      /\ worker = "dispatched" => rt.stage = 6
  BY DEF SagaInv, Core, AtPlace
<1>1. stage_6_start => rt.mode = "compensating"
  BY <1>f DEF stage_6_start, At
<1>2. ASSUME FailNode, rt.mode = "compensating" PROVE mode' = "compensating"
  BY <1>2 DEF FailNode, Compensating
<1>3. CASE stage_3_start_node \/ stage_6_start
  BY <1>1, <1>3, <1>f DEF stage_3_start_node, stage_6_start, At
<1>4. CASE \/ stage_4_saga_conflict \/ stage_5_denied_node \/ stage_6_runner_not_ready
           \/ runner_failed("failed") \/ runner_failed("cancelled")
  <2>1. /\ FailNode /\ worker \in {"top", "denied", "dispatched"} /\ rt.stage \in {3, 4, 5, 6}
    BY <1>4, <1>p DEF stage_4_saga_conflict, stage_5_denied_node, stage_6_runner_not_ready,
       runner_failed, FinishFailure, At, In
  <2> QED BY <1>1, <1>2, <1>f, <2>1
<1>5. CASE Worker /\ ~(stage_3_start_node \/ stage_6_start \/ stage_4_saga_conflict
           \/ stage_5_denied_node \/ stage_6_runner_not_ready
           \/ runner_failed("failed") \/ runner_failed("cancelled"))
  <2>1. UNCHANGED mode
    BY <1>5 DEF Worker, worker_stops, stage_0_classifying, stage_1_plan, stage_1_raises,
       ensure_effect_graph, stage_2_running, stage_3_step_started, stage_4_request,
       stage_4_raises, stage_5_allow, stage_5_require_approval, stage_5_raises, stage_5_deny,
       stage_6_expired, stage_call_gone, runner_succeeded, runner_unknown,
       stage_7_step_completed, stage_7_close_graph, stage_8_completed, fail_task,
       record_exception, save_checkpoint, suspend_reads_approval, suspend_leaves,
       worker_is_fenced, worker_finds_task_ended, worker_is_refused, durable
  <2> QED BY <1>1, <2>1
<1>6. CASE Control \/ ProcessStartup \/ UNCHANGED sagaVars
  <2>1. UNCHANGED mode
    BY <1>6 DEF Control, lease_lost, pause_asks, pause_waited, pause_commits, resume,
       resume_starts, cancel_idle, cancel_asks_worker, cancel_closes_call, cancel_unowned,
       cancel_commits, cancel_forgets, ProcessStartup, process_crash, restore_skips,
       restore_runtime, restore_contended, restore_fails, settle_approvals, settle_calls_skip,
       settle_calls, sagaVars, durable
  <2> QED BY <1>1, <2>1
<1>7. CASE Decisions
  <2>1. mode' = mode \/ mode' = "compensating"
    BY <1>7 DEF Decisions, approve, approve_replayed, approve_continues, reject, expire, lapse,
       decide, recover_graph_terminate, recover_graph_succeeded, recover_graph_no_effect,
       recover_graph_repeated, recovery_loads, recovery_starts, durable
  <2> QED BY <1>1, <2>1
<1> QED BY <1>3, <1>4, <1>5, <1>6, <1>7 DEF SagaNext

\* Once a node has failed the saga only goes backwards, whatever crashes and
\* verdicts come between.
THEOREM OnlyBackwardsAfterFailure == SagaSpec => ForwardStopsAfterFailure
<1>1. SagaInv /\ [SagaNext]_sagaVars =>
        [mode = "compensating" =>
           /\ mode' = "compensating"
           /\ \A i \in Nodes : call'[<<"forward", i>>] = "running" =>
                               call[<<"forward", i>>] = "running"]_sagaVars
  <2> SUFFICES ASSUME SagaInv, [SagaNext]_sagaVars, mode = "compensating"
               PROVE  /\ mode' = "compensating"
                      /\ \A i \in Nodes : call'[<<"forward", i>>] = "running" =>
                                           call[<<"forward", i>>] = "running"
    OBVIOUS
  <2>1. \A i \in Nodes : <<"forward", i>> \in Calls
    BY CallsAre DEF Modes
  <2>2. CASE ~stage_6_start
    BY <2>1, <2>2, ModeStays, OnlyStartRuns
  <2>3. CASE stage_6_start
    <3>1. rt.mode # "forward" /\ mode' = "compensating"
      BY <2>3, ModeStays
    <3>2. call \in [Calls -> ToolCallStatus] /\ call' = [call EXCEPT ![Current] = "running"]
      BY <2>3 DEF stage_6_start, start_tool_call, SagaInv, IInv, TypeOK
    <3>3. \A i \in Nodes : Current # <<"forward", i>>
      BY <3>1 DEF Current
    <3> QED BY <2>1, <3>1, <3>2, <3>3
  <2> QED BY <2>2, <2>3
<1> QED BY <1>1, SagaInductiveInvariant, PTL DEF SagaSpec, ForwardStopsAfterFailure
-----------------------------------------------------------------------------
(* Crashes, and checkpoints that are restored.  The invariant above says   *)
(* where the durable state may be; this one says that it is where a        *)
(* restart wants it, unless a cancel request has closed a call under the   *)
(* worker.                                                                 *)

Calm == Live /\ (cancelling = "no" \/ \A c \in Calls : call[c] # "cancelled")
Suspending == worker \in {"save_suspend", "suspended", "leaving"}
AtRest == worker \in {"top", "save"} \/ Suspending \/ (worker = "done" /\ known)

\* A payload knows whether the policy asked for an approval.
Answered(r) == r.stage >= 6 => (r.approval <=> policy[CallOf(r)] = "require_approval")

\* A call that needs an approval has one that is pending or granted, and the
\* task waits for a pending one.
Grants ==
  Live => \A c \in Calls :
            /\ policy[c] = "require_approval" => approval[c] \in {"pending", "approved"}
            /\ approval[c] = "pending" => task = "waiting_approval" /\ call[c] = "requested"

GraphKnown == (saved.stage >= 2 => graph # "none") /\ (rt.stage >= 2 => graph # "none")
SavedAnswered == \A r \in {saved} : Answered(r)
NextAnswered == Saving => \A r \in {rt} : Answered(r)

\* The mode of the graph is the one of a call that has been dispatched, and
\* of a runtime that compensates.
DispatchedMode ==
  \A r \in {saved} : r.stage = 6 /\ call[CallOf(r)] \in {"running", "unknown"} => mode = r.mode
InMode ==
  Calm /\ Driven /\ worker # "raised" => (rt.mode = "compensating" => mode = "compensating")

\* A lease comes with the graph, and a worker at work has a runtime.
Leased == fence => rt.stage >= 2
Held == Live /\ worker \notin {"done", "raised"} => known

\* The task is where the stage has brought it.
TaskOf(s) ==
  IF s = 0 THEN {"created"} ELSE IF s \in {1, 2} THEN {"classifying"}
  ELSE {"running", "paused", "waiting_approval"}
TaskFits == Live /\ Driven /\ worker # "raised" => task \in TaskOf(rt.stage)

\* A task waits for an approval only between the suspension of its worker and
\* the answer, and the checkpoint knows.
Waits ==
  /\ Suspending => rt.approval
  /\ task = "waiting_approval" =>
       /\ starting = "no"
       /\ ckpt = "bound" => saved.stage = 6
       /\ Driven => (Suspending \/ worker = "done") /\ rt.stage = 6 /\ rt.approval
       /\ cancelling = "asked" => known

\* Between two stages the call is the one the next stage expects, and the
\* checkpoint is bound to the last event.
Ready ==
  AtRest =>
    /\ rt.stage \in {5, 6} => call[Current] \in {"requested", "failed", "cancelled"}
    /\ Calm => /\ rt.stage \in {5, 6} => call[Current] = "requested"
               /\ ~Saving => ckpt # "stale"
Proven == Driven /\ rt.stage >= 7 => call[Current] = "succeeded" \/ rt.reconciled

\* What the requests know of the task and its worker.
Over == cancelling = "committed" => ~Live
StartIsQuiet == phase # "serving" => ~stop /\ starting = "no"
Resuming == starting = "resume" => worker = "done" /\ ~rt.approval /\ (Live => task = "running")

DurableResume == Grants /\ GraphKnown /\ SavedAnswered /\ DispatchedMode
ResumeInv ==
  /\ DurableResume
  /\ NextAnswered /\ InMode /\ Leased /\ Held /\ TaskFits /\ Waits /\ Ready /\ Proven
  /\ Over /\ StartIsQuiet /\ Resuming

\* What the ledger and the first invariant say of a step.
LEMMA Before ==
  ASSUME SagaInv, SagaNext
  PROVE  /\ SagaInv' /\ SettledStep /\ (Live' => Live)
         /\ [Next]_vars
<1>1. SagaInv' /\ IInv /\ [Next]_vars
  BY NextSagaInv, StepsLedger DEF SagaInv
<1>2. SettledStep
  BY <1>1, NextSettledStep
<1> QED BY <1>1, <1>2 DEF SettledStep, Live

\* A worker that is at work does not wait.
LEMMA NotWaiting ==
  ASSUME ResumeInv, worker # "done", ~Suspending
  PROVE  task # "waiting_approval"
  BY DEF ResumeInv, Waits, Driven

\* At rest a runtime that is the checkpoint passes the checks of the startup.
LEMMA RestFitsTask ==
  SagaInv /\ ResumeInv /\ AtRest /\ Calm /\ rt = saved /\ task # "paused"
  => SavedFitsTask(task)
<1> SUFFICES ASSUME SagaInv, ResumeInv, AtRest, Calm, rt = saved, task # "paused"
             PROVE  SavedFitsTask(task)
  OBVIOUS
<1>1. PICK r \in Runtime : r = rt /\ r = saved /\ Fits(r)
  BY DEF SagaInv, SagaTypeOK, Core, SavedFits
<1>d. Driven /\ worker # "raised"
  BY DEF AtRest, Suspending, Driven
<1>2. /\ r.mode \in {"forward", "compensating"} /\ r.index \in Nodes /\ CallOf(r) \in Calls
      /\ r.stage \in 0..8 /\ node[r.index] \in RestOf(r)
      /\ Current = CallOf(r) /\ SavedCall = CallOf(r)
  <2>1. node[r.index] \in RestOf(r)
    BY <1>1 DEF SagaInv, Core, AtPlace, AtRest, Suspending
  <2> QED BY <1>1, <2>1, RuntimeIs DEF Modes, Fits, Current, SavedCall, CallOf
<1>4. r.stage >= 2 => graph # "none" /\ r.mode = mode
  <2>1. r.stage >= 2 => graph # "none"
    BY <1>1 DEF ResumeInv, DurableResume, GraphKnown
  <2>2. r.mode = "compensating" => mode = "compensating"
    BY <1>1, <1>d DEF ResumeInv, InMode
  <2>3. r.mode = "forward" => mode = "forward"
    <3>1. mode \in {"forward", "compensating"}
      BY DEF SagaInv, SagaTypeOK, Modes
    <3>2. r.mode = "forward" => node[r.index] # "failed"
      BY <1>2 DEF RestOf, NodeOf
    <3> QED BY <1>1, <3>1, <3>2 DEF Fits
  <2> QED BY <1>2, <2>1, <2>2, <2>3
<1>5. /\ task \in TaskOf(r.stage)
      /\ task = "waiting_approval" => r.stage = 6
  BY <1>1, <1>d DEF ResumeInv, TaskFits, Waits, Calm
<1>6. StageFitsTask(task)
  BY <1>1, <1>2, <1>5 DEF StageFitsTask, TaskOf
<1>7. StageFitsNode
  BY <1>1, <1>2 DEF StageFitsNode, RestOf, NodeOf, Fits
<1>c. r.stage \in {5, 6} => call[CallOf(r)] = "requested"
  BY <1>1, <1>2 DEF ResumeInv, Ready
<1>8. StageFitsCall
  <2>2. r.stage >= 7 => call[CallOf(r)] = "succeeded" \/ (call[CallOf(r)] = "unknown" /\ r.reconciled)
    BY <1>1, <1>2, <1>d DEF ResumeInv, Proven, Fits, StatusOf
  <2> QED BY <1>1, <1>2, <1>c, <2>2 DEF StageFitsCall
<1>9. StageFitsApproval(task)
  <2>1. SUFFICES ASSUME r.stage >= 6 PROVE StageFitsApproval(task)
    BY <1>1 DEF StageFitsApproval
  <2>2. r.approval <=> policy[CallOf(r)] = "require_approval"
    BY <1>1, <2>1 DEF ResumeInv, DurableResume, SavedAnswered, Answered
  <2>p. task = "waiting_approval" => r.approval /\ approval[CallOf(r)] = "pending"
    <3> SUFFICES ASSUME task = "waiting_approval" PROVE r.approval /\ approval[CallOf(r)] = "pending"
      OBVIOUS
    <3>1. PICK c \in Calls : approval[c] = "pending"
      BY DEF SagaInv, IInv, WaitingIsBacked
    <3>2. call[c] = "requested"
      BY <3>1 DEF ResumeInv, DurableResume, Grants, Calm
    <3>3. c = CallOf(r)
      BY <1>1, <3>2 DEF Fits, NotDue
    <3> QED BY <1>1, <1>d, <3>1, <3>3 DEF ResumeInv, Waits
  <2>3. CASE policy[CallOf(r)] # "require_approval"
    BY <1>1, <1>2, <2>p, <2>2, <2>3 DEF StageFitsApproval
  <2>4. CASE policy[CallOf(r)] = "require_approval"
    <3>0. task \in {"running", "waiting_approval"}
      BY <1>2, <1>5, <2>1 DEF TaskOf
    <3>1. \/ approval[CallOf(r)] = "pending" /\ task = "waiting_approval"
          \/ approval[CallOf(r)] = "approved" /\ task = "running"
      <4>1. approval[CallOf(r)] \in {"pending", "approved"}
        BY <1>2, <2>4 DEF ResumeInv, DurableResume, Grants, Calm
      <4>2. approval[CallOf(r)] = "pending" => task = "waiting_approval"
        BY <1>2, <2>4 DEF ResumeInv, DurableResume, Grants, Calm
      <4> QED BY <2>p, <3>0, <4>1, <4>2
    <3>3. CASE r.stage = 6
      <4>1. CallOf(r) \notin consumed
        BY <1>c, <3>3 DEF SagaInv, IInv, SpentIsDispatched
      <4> QED BY <1>1, <1>2, <2>2, <2>4, <3>1, <3>3, <4>1 DEF StageFitsApproval
    <3>4. CASE r.stage # 6
      <4>1. call[CallOf(r)] \in {"succeeded", "unknown"}
        BY <1>1, <1>2, <2>1, <3>4 DEF Fits, StatusOf
      <4>2. CallOf(r) \in consumed
        BY <1>2, <2>4, <4>1 DEF SagaInv, IInv, AuthorizedDispatch
      <4>3. task = "running" /\ approval[CallOf(r)] = "approved"
        BY <1>5, <3>1, <3>4
      <4> QED BY <1>1, <1>2, <2>1, <2>2, <2>4, <3>4, <4>2, <4>3 DEF StageFitsApproval
    <3> QED BY <3>3, <3>4
  <2> QED BY <2>3, <2>4
<1> QED BY <1>1, <1>4, <1>6, <1>7, <1>8, <1>9 DEF SavedFitsTask

LEMMA RestFitsTaskNext ==
  (SagaInv /\ ResumeInv /\ AtRest /\ Calm /\ rt = saved /\ task # "paused"
   => SavedFitsTask(task))'
BY RestFitsTask, PTL

-----------------------------------------------------------------------------
(* The steps of the worker.                                                *)

RuntimeInv ==
  /\ NextAnswered /\ InMode /\ Leased /\ Held /\ TaskFits /\ Waits /\ Ready /\ Proven
  /\ Over /\ StartIsQuiet /\ Resuming

\* The worker leaves requests alone.
LEMMA WorkerFrame ==
  ASSUME Worker
  PROVE  /\ worker # "done"
         /\ UNCHANGED <<phase, starting, pausing, cancelling, stop>>
         /\ known' => known
<1>1. CASE worker_stops \/ stage_0_classifying \/ stage_1_plan \/ stage_1_raises \/ ensure_effect_graph
           \/ stage_2_running \/ stage_3_start_node \/ stage_3_step_started
  BY <1>1 DEF worker_stops, stage_0_classifying, stage_1_plan, stage_1_raises, ensure_effect_graph,
     stage_2_running, stage_3_start_node, stage_3_step_started, At, In, vars, startup, requests,
     append_event, append_progress, record_event, forget
<1>2. CASE stage_4_request \/ stage_4_saga_conflict \/ stage_4_raises
           \/ stage_5_allow \/ stage_5_require_approval \/ stage_5_raises
           \/ stage_5_deny \/ stage_5_denied_node
  BY <1>2 DEF stage_4_request, stage_4_saga_conflict, stage_4_raises, stage_5_allow,
     stage_5_require_approval, stage_5_raises, stage_5_deny, stage_5_denied_node, PolicyAnswers,
     At, In, vars, startup, requests, record_event, record_tool_requested,
     apply_policy_decision_allow, apply_policy_decision_require_approval,
     apply_policy_decision_deny, forget
<1>3. CASE stage_6_runner_not_ready \/ stage_6_start \/ stage_6_expired \/ stage_call_gone
           \/ runner_succeeded \/ runner_failed("failed") \/ runner_failed("cancelled")
           \/ runner_unknown
  BY <1>3 DEF stage_6_runner_not_ready, stage_6_start, stage_6_expired, stage_call_gone,
     runner_succeeded, runner_failed, runner_unknown, FinishFailure, start_tool_call,
     start_tool_call_expired, finish_effect_tool_call,
     At, In, vars, startup, requests, Finish, forget
<1>4. CASE stage_7_step_completed \/ stage_7_close_graph \/ stage_8_completed
           \/ fail_task \/ record_exception \/ save_checkpoint
           \/ suspend_reads_approval \/ suspend_leaves
           \/ worker_is_fenced \/ worker_finds_task_ended \/ worker_is_refused
  BY <1>4 DEF stage_7_step_completed, stage_7_close_graph, stage_8_completed, fail_task,
     record_exception, save_checkpoint, suspend_reads_approval, suspend_leaves,
     worker_is_fenced, worker_finds_task_ended, worker_is_refused, append_progress, record_event,
     append_event, save_task_checkpoint, At, In, vars, startup, requests, Finish, forget
<1> QED BY <1>1, <1>2, <1>3, <1>4 DEF Worker

\* What every step of the worker keeps.
LEMMA WorkerRequests ==
  ASSUME SagaInv, ResumeInv, Worker
  PROVE  /\ SagaInv' /\ SettledStep /\ (Live' => Live) /\ (Calm' => Calm)
         /\ phase = "serving" /\ phase' = "serving" /\ starting' # "resume"
         /\ Over' /\ Resuming'
<1>1. SagaInv' /\ SettledStep /\ (Live' => Live)
  BY Before DEF SagaNext
<1>2. Calm' => Calm
  BY <1>1, WorkerFrame DEF Calm, SettledStep, TerminalCall
<1>3. phase = "serving" /\ phase' = "serving" /\ starting' # "resume"
  BY WorkerFrame, Working DEF ResumeInv, Resuming
<1>4. Over' /\ Resuming'
  BY <1>1, <1>3, WorkerFrame DEF ResumeInv, Over, Resuming
<1> QED BY <1>1, <1>2, <1>3, <1>4

\* A call that has an outcome keeps it.
LEMMA StillProven ==
  ASSUME SagaInv, ResumeInv, Worker, rt' = rt
  PROVE  Proven'
<1>1. Current \in Calls /\ Current' = Current
  BY CallsAre DEF SagaInv, Current
<1>2. SettledStep
  BY WorkerRequests
<1> QED BY <1>1, <1>2, WorkerFrame DEF ResumeInv, Proven, Driven, SettledStep, TerminalCall

\* The worker leaves, and takes the runtime with it.
LEMMA OutOfWork ==
  ASSUME SagaInv, ResumeInv, Worker, worker' \in {"done", "raised"}, ~known', rt' = rt,
         fence' => fence, task' # "waiting_approval"
  PROVE  RuntimeInv'
<1>1. Over' /\ Resuming' /\ Proven' /\ phase' = "serving"
  BY WorkerRequests, StillProven
<1>2. NextAnswered' /\ InMode' /\ TaskFits' /\ Held' /\ Leased'
  BY DEF ResumeInv, NextAnswered, InMode, TaskFits, Held, Leased, Saving, Driven
<1>3. Waits' /\ Ready'
  BY DEF Waits, Ready, Suspending, AtRest
<1>4. StartIsQuiet'
  BY <1>1 DEF StartIsQuiet
<1> QED BY <1>1, <1>2, <1>3, <1>4 DEF RuntimeInv

\* The worker is between two transactions of a stage.
LEMMA InsideOfStage ==
  ASSUME SagaInv, ResumeInv, Worker, worker \notin {"raised", "save"}, ~Suspending,
         worker' \in {"failing", "stepping", "planned", "denied", "dispatched", "closing"},
         rt' = rt, task' = task, known' = known, fence' = fence,
         rt.mode = "compensating" /\ mode = "compensating" => mode' = "compensating"
  PROVE  RuntimeInv'
<1>1. Over' /\ Resuming' /\ Proven' /\ phase' = "serving" /\ (Calm' => Calm)
  BY WorkerRequests, StillProven
<1>2. worker # "done" /\ task # "waiting_approval"
  BY WorkerFrame, NotWaiting
<1>3. NextAnswered' /\ InMode' /\ TaskFits' /\ Held' /\ Leased'
  BY <1>1, <1>2, WorkerRequests DEF ResumeInv, NextAnswered, InMode, TaskFits, Held, Leased, Saving,
     Driven, Live
<1>4. Waits' /\ Ready'
  BY <1>2 DEF Waits, Ready, Suspending, AtRest
<1>5. StartIsQuiet'
  BY <1>1, <1>2, WorkerFrame DEF ResumeInv, StartIsQuiet
<1> QED BY <1>1, <1>3, <1>4, <1>5 DEF RuntimeInv

\* The stage is done: the runtime t is to be saved.
LEMMA StageIsDone ==
  ASSUME SagaInv, ResumeInv, Worker, worker \notin {"raised", "save"}, ~Suspending,
         NEW t \in Runtime, rt' = t,
         worker' = "save" \/ (worker' = "save_suspend" /\ t.stage = 6 /\ t.approval),
         Answered(t)',
         Calm /\ t.mode = "compensating" => mode' = "compensating",
         Live' => task' \in TaskOf(t.stage),
         task' = "waiting_approval" => worker' = "save_suspend" /\ ckpt' # "bound" /\ starting = "no",
         t.stage \in {5, 6} => call'[CallOf(t)] = "requested",
         t.stage >= 7 => call'[CallOf(t)] = "succeeded" \/ t.reconciled,
         known' = known, rt.stage >= 2 => (fence' => fence) /\ t.stage >= 2, fence' => t.stage >= 2
  PROVE  RuntimeInv'
<1>1. Over' /\ Resuming' /\ phase' = "serving" /\ (Calm' => Calm)
  BY WorkerRequests
<1>2. worker # "done" /\ task # "waiting_approval" /\ starting' = starting
  BY WorkerFrame, NotWaiting
<1>3. Current' = CallOf(t)
  BY DEF Current, CallOf
<1>4. NextAnswered' /\ InMode' /\ TaskFits' /\ Held' /\ Leased'
  BY <1>1, <1>2, WorkerRequests DEF ResumeInv, NextAnswered, InMode, TaskFits, Held, Leased
<1>5. Ready' /\ Proven'
  BY <1>3 DEF Ready, Proven, Saving
<1>6. Waits'
  <2>1. task' = "waiting_approval" => known'
    BY <1>2, <1>4 DEF Held, Live, TerminalTask
  <2> QED BY <1>2, <2>1 DEF Waits, Suspending
<1>7. StartIsQuiet'
  BY <1>1, <1>2, WorkerFrame DEF ResumeInv, StartIsQuiet
<1> QED BY <1>1, <1>4, <1>5, <1>6, <1>7 DEF RuntimeInv

\* The checkpoint is saved, or the worker comes to rest or is woken.
LEMMA RestGoesOn ==
  ASSUME SagaInv, ResumeInv,
         save_checkpoint \/ worker_stops \/ suspend_reads_approval \/ suspend_leaves
  PROVE  RuntimeInv'
<1>w. Worker
  BY DEF Worker
<1>1. Over' /\ Resuming' /\ Proven' /\ phase = "serving" /\ (Calm' => Calm)
  <2>1. rt' = rt
    BY DEF save_checkpoint, worker_stops, suspend_reads_approval, suspend_leaves
  <2> QED BY <1>w, <2>1, WorkerRequests, StillProven
<1>2. /\ worker \in {"top", "save", "save_suspend", "suspended", "leaving"}
      /\ worker' \in {"top", "suspended", "leaving", "done"}
      /\ worker' \in {"suspended", "leaving"} => Suspending
      /\ worker' = "done" => worker = "leaving" \/ (worker = "top" /\ stop /\ starting = "no")
      /\ worker' = "top" => worker = "save" \/ (worker = "suspended" /\ approval[Current] = "approved")
      /\ UNCHANGED <<task, call, policy, approval, rt, known, fence, mode>>
      /\ Saving \/ (~Saving /\ ckpt' = ckpt /\ saved' = saved)
      /\ Saving => saved' = rt /\ ckpt' # "stale"
  BY DEF save_checkpoint, worker_stops, suspend_reads_approval, suspend_leaves, save_task_checkpoint,
     vars, durable, In, Serving, Suspending, Saving
<1>3. UNCHANGED <<starting, pausing, cancelling, stop, phase>> /\ Current' = Current
  BY <1>w, <1>2, WorkerFrame DEF Current
<1>4. NextAnswered'
  BY <1>2 DEF NextAnswered, Saving
<1>5. InMode' /\ TaskFits' /\ Held' /\ Leased'
  BY <1>1, <1>2 DEF ResumeInv, InMode, TaskFits, Held, Leased, Driven, Live
<1>6. Ready'
  BY <1>1, <1>2, <1>3 DEF ResumeInv, Ready, AtRest, Suspending, Saving
<1>7. task = "waiting_approval" => worker' # "top"
  <2> SUFFICES ASSUME task = "waiting_approval", worker' = "top" PROVE FALSE
    OBVIOUS
  <2>1. Suspending /\ rt.stage = 6
    BY <1>2 DEF ResumeInv, Waits, Driven
  <2>2. worker = "suspended" /\ approval[Current] = "approved"
    BY <1>2, <2>1 DEF Suspending
  <2>3. PICK r \in Runtime : r = rt /\ r = saved /\ Fits(r)
    BY <2>2, AtWork DEF Driven, Saving
  <2>4. Current = CallOf(r)
    BY <2>3 DEF Current, CallOf
  <2>5. PICK c \in Calls : approval[c] = "pending"
    BY DEF SagaInv, IInv, WaitingIsBacked
  <2>6. call[c] = "requested"
    BY <2>5 DEF ResumeInv, DurableResume, Grants, Live, TerminalTask
  <2>7. c = CallOf(r)
    BY <2>3, <2>6 DEF Fits, NotDue
  <2> QED BY <2>2, <2>3, <2>4, <2>5, <2>7
<1>8. Waits'
  <2>1. Suspending' => Suspending /\ rt'.approval
    BY <1>2 DEF ResumeInv, Waits, Suspending
  <2>2. ASSUME task' = "waiting_approval"
        PROVE  /\ starting' = "no" /\ Suspending /\ rt.stage = 6 /\ rt.approval
               /\ cancelling = "asked" => known
               /\ ckpt' = "bound" => saved'.stage = 6
    BY <1>2, <1>3, <2>2 DEF ResumeInv, Waits, Driven
  <2>3. task' = "waiting_approval" => (Suspending' \/ worker' = "done")
    BY <1>2, <1>7 DEF Suspending
  <2> QED BY <1>2, <1>3, <2>1, <2>2, <2>3 DEF Waits
<1>9. StartIsQuiet'
  BY <1>1, <1>2, <1>3 DEF ResumeInv, StartIsQuiet
<1> QED BY <1>1, <1>4, <1>5, <1>6, <1>8, <1>9 DEF RuntimeInv

\* A worker that raises, is refused or fails the task.
LEMMA LeavingResumes ==
  ASSUME SagaInv, ResumeInv,
         \/ stage_1_raises \/ stage_4_raises \/ stage_5_raises \/ stage_6_expired \/ fail_task
         \/ record_exception \/ worker_is_fenced \/ worker_finds_task_ended \/ worker_is_refused
         \/ runner_unknown \/ stage_8_completed
  PROVE  RuntimeInv'
<1>w. Worker
  BY DEF Worker
<1>1. worker # "done" /\ ~Suspending
  BY WorkerFrame, <1>w DEF stage_1_raises, stage_4_raises, stage_5_raises, stage_6_expired, fail_task,
     record_exception, worker_is_fenced, worker_finds_task_ended, worker_is_refused,
     runner_unknown, stage_8_completed, PolicyAnswers, At, In, Suspending
<1>2. rt' = rt /\ worker' \in {"done", "raised"}
  BY DEF stage_1_raises, stage_4_raises, stage_5_raises, stage_6_expired, fail_task,
     record_exception, worker_is_fenced, worker_finds_task_ended, worker_is_refused,
     runner_unknown, stage_8_completed, Finish, durable
<1>3. ~known' /\ (fence' => fence)
  <2>1. CASE record_exception
    BY <2>1 DEF record_exception, In, SagaInv, Core, AtPlace
  <2>2. CASE ~record_exception
    BY <2>2 DEF stage_1_raises, stage_4_raises, stage_5_raises, stage_6_expired, fail_task,
       worker_is_fenced, worker_finds_task_ended, worker_is_refused, runner_unknown,
       stage_8_completed, Finish, forget
  <2> QED BY <2>1, <2>2
<1>4. task' # "waiting_approval"
  <2>1. CASE fail_task \/ record_exception \/ stage_8_completed
    BY <1>1, <2>1, NotWaiting DEF fail_task, record_exception, stage_8_completed, append_event,
       Journal, vars
  <2>2. CASE stage_6_expired
    BY <2>2 DEF stage_6_expired, start_tool_call_expired, Journal
  <2>3. CASE runner_unknown
    BY <1>1, <2>3, NotWaiting DEF runner_unknown, finish_effect_tool_call, JournalBound, Journal
  <2>4. CASE stage_1_raises \/ stage_4_raises \/ stage_5_raises \/ worker_is_fenced
             \/ worker_finds_task_ended \/ worker_is_refused
    BY <1>1, <2>4, NotWaiting DEF stage_1_raises, stage_4_raises, stage_5_raises,
       worker_is_fenced, worker_finds_task_ended, worker_is_refused, vars
  <2> QED BY <2>1, <2>2, <2>3, <2>4
<1> QED BY <1>w, <1>2, <1>3, <1>4, OutOfWork

\* A transaction inside of a stage.
LEMMA InsideResumes ==
  ASSUME SagaInv, ResumeInv,
         stage_1_plan \/ stage_3_start_node \/ stage_5_deny \/ stage_6_start
  PROVE  RuntimeInv'
<1>w. Worker
  BY DEF Worker
<1>1. worker = "top" /\ ~Suspending
  BY DEF stage_1_plan, stage_3_start_node, stage_5_deny, stage_6_start, PolicyAnswers, At, Suspending
<1>2. /\ worker' \in {"stepping", "planned", "denied", "dispatched"}
      /\ known' = known /\ fence' = fence
  BY DEF stage_1_plan, stage_3_start_node, stage_5_deny, stage_6_start
<1>3. task' = task
  BY <1>1, Working DEF stage_1_plan, stage_3_start_node, stage_5_deny, stage_6_start, append_progress,
     record_event, apply_policy_decision_deny, start_tool_call, Journal, JournalBound
<1>4. rt' = rt
  <2>1. CASE stage_3_start_node
    <3>1. PICK r \in Runtime : r = rt /\ Fits(r)
      BY <1>1, AtWork DEF Driven, Saving
    <3>2. ~r.approval
      BY <2>1, <3>1 DEF Fits, stage_3_start_node, At
    <3> QED BY <2>1, <3>1, <3>2, Unasked DEF stage_3_start_node
  <2>2. CASE ~stage_3_start_node
    BY <2>2 DEF stage_1_plan, stage_5_deny, stage_6_start
  <2> QED BY <2>1, <2>2
<1>5. rt.mode = "compensating" /\ mode = "compensating" => mode' = "compensating"
  BY DEF stage_1_plan, stage_3_start_node, stage_5_deny, stage_6_start, durable
<1> QED BY <1>w, <1>1, <1>2, <1>3, <1>4, <1>5, InsideOfStage

\* A stage that goes on with the next one.
LEMMA AdvancingResumes ==
  ASSUME SagaInv, ResumeInv,
         \/ stage_0_classifying \/ ensure_effect_graph \/ stage_2_running \/ stage_3_step_started
         \/ stage_4_request \/ stage_5_allow \/ runner_succeeded
         \/ stage_7_close_graph /\ rt.mode # "compensating"
  PROVE  RuntimeInv'
<1>w. Worker
  BY DEF Worker
<1>1. /\ worker \in {"top", "planned", "stepping", "dispatched", "closing"}
      /\ ~Suspending /\ ~Saving /\ worker # "done"
  BY DEF stage_0_classifying, ensure_effect_graph, stage_2_running, stage_3_step_started,
     stage_4_request, stage_5_allow, runner_succeeded, stage_7_close_graph, PolicyAnswers, At, In,
     Suspending, Saving
<1>2. PICK r \in Runtime : r = rt /\ r = saved /\ Fits(r)
  BY <1>1, AtWork DEF Driven
<1>3. /\ stage_0_classifying => r.stage = 0
      /\ ensure_effect_graph => r.stage = 1
      /\ stage_2_running => r.stage = 2
      /\ stage_3_step_started => r.stage = 3
      /\ stage_4_request => r.stage = 4
      /\ stage_5_allow => r.stage = 5
      /\ runner_succeeded => r.stage = 6
      /\ stage_7_close_graph => r.stage = 7
  BY <1>2 DEF stage_0_classifying, ensure_effect_graph, stage_2_running, stage_3_step_started,
     stage_4_request, stage_5_allow, runner_succeeded, stage_7_close_graph, PolicyAnswers, At, In,
     SagaInv, Core, AtPlace
<1>k. /\ r.stage \in 0..7
      /\ r.stage = 4 => stage_4_request
      /\ r.stage = 5 => stage_5_allow
      /\ r.stage = 6 => runner_succeeded
      /\ r.stage = 7 => stage_7_close_graph
  BY <1>3
<1>4. Advance /\ known' = known /\ (r.stage # 1 => fence' = fence)
  BY <1>2, <1>3 DEF stage_0_classifying, ensure_effect_graph, stage_2_running,
     stage_3_step_started, stage_4_request, stage_5_allow, runner_succeeded, stage_7_close_graph,
     Compensating
<1>5. PICK t \in Runtime : /\ rt' = t /\ t.stage = r.stage + 1 /\ t.index = r.index
                           /\ t.mode = r.mode /\ t.approval = r.approval /\ worker' = "save"
  <2>1. r.stage \in 0..8
    BY <1>2 DEF Fits
  <2> QED BY <1>2, <1>4, <2>1, AdvanceIs
<1>6. CallOf(t) = CallOf(r) /\ CallOf(r) = Current /\ Current \in Calls
  BY <1>2, <1>5, RuntimeIs DEF CallOf, Current
<1>7. (task' \in TaskOf(t.stage) /\ task' # "waiting_approval") \/ ~Live'
  <2>1. Live => task \in TaskOf(r.stage) /\ task # "waiting_approval"
    <3>1. worker # "raised"
      BY <1>1
    <3> QED BY <1>1, <1>2, <3>1, NotWaiting DEF ResumeInv, TaskFits, Driven
  <2>2. CASE stage_0_classifying \/ stage_2_running
    BY <1>3, <1>5, <2>2 DEF stage_0_classifying, stage_2_running, append_event, Journal, TaskOf
  <2>3. CASE ~(stage_0_classifying \/ stage_2_running)
    <3>1. task' = task
      BY <2>3 DEF ensure_effect_graph, stage_3_step_started, stage_4_request, stage_5_allow,
         runner_succeeded, stage_7_close_graph, record_event, append_progress,
         record_tool_requested, apply_policy_decision_allow, finish_effect_tool_call, Journal,
         JournalBound
    <3>2. r.stage \in {1, 3, 4, 5, 6, 7}
      BY <1>3, <2>3
    <3> QED BY <1>5, <2>1, <3>1, <3>2 DEF TaskOf, Live
  <2> QED BY <2>2, <2>3
<1>8. /\ r.stage = 4 => call' = [call EXCEPT ![CallOf(r)] = "requested"]
      /\ r.stage = 5 => call' = call /\ call[CallOf(r)] = "requested"
      /\ r.stage = 6 => call' = [call EXCEPT ![CallOf(r)] = "succeeded"]
      /\ r.stage = 7 => call' = call
  BY <1>k, <1>6 DEF stage_4_request, stage_5_allow, runner_succeeded, stage_7_close_graph,
     record_tool_requested, apply_policy_decision_allow, PolicyMayDecide, finish_effect_tool_call,
     record_event
<1>9. t.stage \in {5, 6} => call'[CallOf(t)] = "requested"
  BY <1>k, <1>5, <1>6, <1>8 DEF SagaInv, IInv, TypeOK
<1>10. t.stage >= 7 => call'[CallOf(t)] = "succeeded" \/ t.reconciled
  <2>1. t.reconciled = r.reconciled
    <3>1. t = [r EXCEPT !.stage = @ + 1]
      BY <1>2, <1>4, <1>5 DEF Advance
    <3> QED BY <3>1 DEF Runtime
  <2>3. r.stage = 7 => call[CallOf(r)] = "succeeded" \/ r.reconciled
    BY <1>1, <1>2, <1>6 DEF ResumeInv, Proven, Driven
  <2> QED BY <1>k, <1>5, <1>6, <1>8, <2>1, <2>3 DEF SagaInv, IInv, TypeOK
<1>11. Answered(t)'
  <2>1. r.stage = 5 => ~r.approval /\ policy' = [policy EXCEPT ![CallOf(r)] = "allow"]
    BY <1>k, <1>2, <1>6 DEF stage_5_allow, apply_policy_decision_allow, Fits
  <2>2. r.stage \in {6, 7} => policy' = policy
    BY <1>k DEF runner_succeeded, stage_7_close_graph, record_event, finish_effect_tool_call
  <2>3. r.stage >= 6 => (r.approval <=> policy[CallOf(r)] = "require_approval")
    BY <1>2 DEF ResumeInv, DurableResume, SavedAnswered, Answered
  <2>5. policy \in [Calls -> PolicyEffect]
    BY DEF SagaInv, IInv, TypeOK
  <2> QED BY <1>k, <1>5, <1>6, <2>1, <2>2, <2>3, <2>5 DEF Answered
<1>12. Calm /\ t.mode = "compensating" => mode' = "compensating"
  <2>1. mode' = mode
    BY DEF stage_0_classifying, ensure_effect_graph, stage_2_running, stage_3_step_started,
       stage_4_request, stage_5_allow, runner_succeeded, stage_7_close_graph, durable
  <2> QED BY <1>1, <1>2, <1>5, <2>1 DEF ResumeInv, InMode, Driven
<1>13. /\ worker \notin {"raised", "save"} /\ (task' = "waiting_approval" => FALSE)
       /\ rt.stage >= 2 => (fence' => fence) /\ t.stage >= 2
       /\ fence' => t.stage >= 2
  <2>1. r.stage \in 0..8
    BY <1>2 DEF Fits
  <2>2. fence' => t.stage >= 2
    <3>1. fence => r.stage >= 2
      BY <1>2 DEF ResumeInv, Leased
    <3>2. r.stage # 1 => (fence' => fence)
      BY <1>4
    <3>3. t.stage = r.stage + 1
      BY <1>5
    <3> QED BY <2>1, <3>1, <3>2, <3>3
  <2> QED BY <1>1, <1>2, <1>4, <1>5, <1>7, <2>1, <2>2 DEF Live, TerminalTask
<1> QED BY <1>w, <1>1, <1>4, <1>5, <1>7, <1>9, <1>10, <1>11, <1>12, <1>13, StageIsDone

\* The worker asks for an approval and suspends.
LEMMA SuspendingResumes ==
  ASSUME SagaInv, ResumeInv, stage_5_require_approval
  PROVE  RuntimeInv'
<1>w. Worker
  BY DEF Worker
<1>1. worker = "top" /\ ~Suspending /\ ~Saving /\ starting = "no" /\ worker' = "save_suspend"
  BY DEF stage_5_require_approval, PolicyAnswers, At, Serving, Suspending, Saving
<1>2. PICK r \in Runtime : r = rt /\ r = saved /\ Fits(r)
  BY <1>1, AtWork DEF Driven
<1> DEFINE u == [r EXCEPT !.stage = 6, !.approval = TRUE]
<1>3. rt' = u /\ r.stage = 5 /\ known' = known /\ fence' = fence /\ mode' = mode
  BY <1>2 DEF stage_5_require_approval, PolicyAnswers, At, durable
<1>4. u \in Runtime /\ u.stage = 6 /\ u.index = r.index /\ u.mode = r.mode
  BY SpecialPayloads
<1>5. u.approval
  BY <1>2 DEF Runtime
<1> HIDE DEF u
<1>6. PICK t \in Runtime : t = u /\ CallOf(t) = CallOf(r)
  BY <1>4 DEF CallOf
<1>7. /\ policy' = [policy EXCEPT ![CallOf(r)] = "require_approval"]
      /\ call' = call /\ call[CallOf(r)] = "requested"
      /\ task' = "waiting_approval" /\ ckpt' # "bound"
  BY <1>2, <1>3 DEF stage_5_require_approval, apply_policy_decision_require_approval,
     PolicyMayDecide, Journal, TerminalTask, Current, CallOf
<1>8. Answered(t)'
  BY <1>2, <1>5, <1>6, <1>7, RuntimeIs DEF Answered, SagaInv, IInv, TypeOK
<1>9. Calm /\ t.mode = "compensating" => mode' = "compensating"
  BY <1>1, <1>2, <1>3, <1>4, <1>6 DEF ResumeInv, InMode, Driven
<1>10. task' \in TaskOf(t.stage)
  BY <1>4, <1>6, <1>7 DEF TaskOf
<1>11. /\ worker \notin {"raised", "save"} /\ rt' = t /\ t.stage = 6 /\ t.approval
       /\ rt.stage >= 2 => (fence' => fence) /\ t.stage >= 2
       /\ fence' => t.stage >= 2
       /\ t.stage \in {5, 6} => call'[CallOf(t)] = "requested"
       /\ ~(t.stage >= 7)
  BY <1>1, <1>2, <1>3, <1>4, <1>5, <1>6, <1>7
<1> QED BY <1>w, <1>1, <1>3, <1>7, <1>8, <1>9, <1>10, <1>11, StageIsDone

\* The step of the node is complete.
LEMMA CompletingResumes ==
  ASSUME SagaInv, ResumeInv, stage_7_step_completed
  PROVE  RuntimeInv'
<1>w. Worker
  BY DEF Worker
<1>1. worker = "top" /\ ~Suspending /\ ~Saving /\ rt.stage = 7
  BY DEF stage_7_step_completed, At, Suspending, Saving
<1>2. PICK r \in Runtime : r = rt /\ r = saved /\ Fits(r)
  BY <1>1, AtWork DEF Driven
<1>3. /\ task' = task /\ mode' = mode /\ known' = known /\ fence' = fence
      /\ rt' = NextStep /\ worker' = IF NextStep.stage = 7 THEN "closing" ELSE "save"
  BY DEF stage_7_step_completed, append_progress, Journal, durable
<1>4. task # "waiting_approval" /\ (Live => task \in TaskOf(7))
  BY <1>1, NotWaiting DEF ResumeInv, TaskFits, Driven
<1>5. CASE NextStep = rt
  BY <1>w, <1>1, <1>3, <1>5, InsideOfStage
<1>6. CASE NextStep.stage = 3 /\ NextStep.mode = rt.mode /\ ~NextStep.approval
  <2>1. PICK t \in Runtime : t = NextStep
    BY <1>1, <1>2, NextStepIs
  <2>2. rt' = t /\ t.stage = 3 /\ t.mode = rt.mode /\ worker' = "save"
    BY <1>3, <1>6, <2>1
  <2>3. Calm /\ t.mode = "compensating" => mode' = "compensating"
    BY <1>1, <1>3, <2>2 DEF ResumeInv, InMode, Driven
  <2>4. Live' => task' \in TaskOf(t.stage)
    BY <1>3, <1>4, <2>2 DEF Live, TaskOf
  <2>5. /\ worker \notin {"raised", "save"} /\ (t.stage >= 6 => FALSE) /\ (t.stage >= 7 => FALSE)
        /\ t.stage \notin {5, 6} /\ (task' = "waiting_approval" => FALSE)
        /\ rt.stage >= 2 => (fence' => fence) /\ t.stage >= 2
        /\ fence' => t.stage >= 2
    BY <1>1, <1>3, <1>4, <2>2
  <2>6. Answered(t)'
    BY <2>5 DEF Answered
  <2> QED BY <1>w, <1>1, <1>3, <2>2, <2>3, <2>4, <2>5, <2>6, StageIsDone
<1> QED BY <1>1, <1>2, <1>5, <1>6, NextStepIs

\* The attempt has failed: the predecessor is compensated, or the task fails.
LEMMA FailureResumes ==
  ASSUME SagaInv, ResumeInv, Worker, worker \in {"top", "denied", "dispatched"},
         rt.stage \in {4, 5, 6}, AfterFailure, task' = task, known' = known, fence' = fence,
         Calm /\ HasAppliedPredecessor => mode' = "compensating",
         rt.mode = "compensating" /\ mode = "compensating" => mode' = "compensating"
  PROVE  RuntimeInv'
<1>1. ~Suspending /\ ~Saving /\ worker \notin {"raised", "save", "done"}
  BY DEF Suspending, Saving
<1>2. PICK r \in Runtime : r = rt /\ r = saved /\ Fits(r)
  BY <1>1, AtWork DEF Driven
<1>3. task # "waiting_approval" /\ (Live => task \in TaskOf(rt.stage))
  BY <1>1, NotWaiting DEF ResumeInv, TaskFits, Driven
<1>4. CASE rt' = rt /\ worker' = "failing"
  BY <1>1, <1>4, InsideOfStage
<1>5. CASE /\ HasAppliedPredecessor /\ rt.index > 1
           /\ rt' = CompensationOf(rt.index) /\ worker' = "save"
  <2>1. PICK t \in Runtime : rt' = t /\ t.stage = 3 /\ t.mode = "compensating" /\ ~t.approval
    BY <1>2, <1>5, RuntimeIs, CompensationIs
  <2>2. Calm /\ t.mode = "compensating" => mode' = "compensating"
    BY <1>5
  <2>3. Live' => task' \in TaskOf(t.stage)
    BY <1>3, <2>1 DEF Live, TaskOf
  <2>4. /\ (t.stage >= 6 => FALSE) /\ (t.stage >= 7 => FALSE)
        /\ t.stage \notin {5, 6} /\ (task' = "waiting_approval" => FALSE)
        /\ rt.stage >= 2 => (fence' => fence) /\ t.stage >= 2
        /\ fence' => t.stage >= 2
    BY <1>3, <2>1
  <2>5. Answered(t)'
    BY <2>4 DEF Answered
  <2> QED BY <1>1, <1>5, <2>1, <2>2, <2>3, <2>4, <2>5, StageIsDone
<1> QED BY <1>2, <1>4, <1>5, AfterFailureIs

\* A stage that fails, before or after the dispatch of its call.
LEMMA FailingResumes ==
  ASSUME SagaInv, ResumeInv,
         \/ stage_4_saga_conflict \/ stage_5_denied_node \/ stage_6_runner_not_ready
         \/ runner_failed("failed") \/ runner_failed("cancelled")
         \/ stage_call_gone
         \/ stage_7_close_graph /\ rt.mode = "compensating"
  PROVE  RuntimeInv'
<1>w. Worker
  BY DEF Worker
<1>1. CASE \/ stage_4_saga_conflict \/ stage_5_denied_node \/ stage_6_runner_not_ready
           \/ runner_failed("failed") \/ runner_failed("cancelled")
  <2>1. /\ FailNode /\ AfterFailure /\ known' = known /\ fence' = fence
        /\ worker \in {"top", "denied", "dispatched"}
        /\ worker = "top" => rt.stage \in {4, 6}
    BY <1>1 DEF stage_4_saga_conflict, stage_5_denied_node, stage_6_runner_not_ready,
       runner_failed, FinishFailure, At, In
  <2>2. rt.stage \in {4, 5, 6}
    BY <2>1 DEF SagaInv, Core, AtPlace
  <2>3. task' = task
    BY <1>1 DEF stage_4_saga_conflict, stage_5_denied_node, stage_6_runner_not_ready,
       runner_failed, FinishFailure, finish_effect_tool_call, record_event, Journal, JournalBound
  <2>4. /\ HasAppliedPredecessor => mode' = "compensating"
        /\ rt.mode = "compensating" => mode' = "compensating"
    BY <2>1 DEF FailNode, Compensating
  <2> QED BY <1>w, <2>1, <2>2, <2>3, <2>4, FailureResumes
<1>2. CASE stage_call_gone
  <2>1. /\ worker = "top" /\ call[Current] \in TerminalCall /\ rt.stage \in {5, 6}
        /\ mode' = mode /\ task' = task
    BY <1>2 DEF stage_call_gone, At, vars, durable
  <2>2. CASE worker' = "raised" /\ forget /\ rt' = rt
    <3>1. task' # "waiting_approval"
      BY <2>1, NotWaiting DEF Suspending
    <3> QED BY <1>w, <2>2, <3>1, OutOfWork DEF forget
  <2>3. CASE AfterFailure /\ UNCHANGED <<known, fence>>
    <3>1. ~Calm
      BY <2>1 DEF ResumeInv, Ready, AtRest, TerminalCall
    <3> QED BY <1>w, <2>1, <2>3, <3>1, FailureResumes
  <2> QED BY <1>2, <2>2, <2>3 DEF stage_call_gone
<1>3. CASE stage_7_close_graph /\ rt.mode = "compensating"
  <2>1. /\ worker = "closing" /\ worker' = "failing" /\ rt' = rt /\ task' = task /\ mode' = mode
        /\ known' = known /\ fence' = fence
    BY <1>3 DEF stage_7_close_graph, In, Compensating, record_event, Journal
  <2> QED BY <1>w, <2>1, InsideOfStage DEF Suspending
<1> QED BY <1>1, <1>2, <1>3

\* What every step of the worker keeps of the runtime and the requests.
LEMMA WorkerResumes ==
  ASSUME SagaInv, ResumeInv, Worker
  PROVE  RuntimeInv'
<1>1. CASE stage_7_close_graph
  BY <1>1, AdvancingResumes, FailingResumes
<1>2. CASE save_checkpoint \/ worker_stops \/ suspend_reads_approval \/ suspend_leaves
  BY <1>2, RestGoesOn
<1>3. CASE \/ stage_1_plan \/ stage_3_start_node \/ stage_5_deny \/ stage_6_start
  BY <1>3, InsideResumes
<1>4. CASE \/ stage_0_classifying \/ ensure_effect_graph \/ stage_2_running \/ stage_3_step_started
           \/ stage_4_request \/ stage_5_allow \/ runner_succeeded
  BY <1>4, AdvancingResumes
<1>5. CASE stage_5_require_approval
  BY <1>5, SuspendingResumes
<1>6. CASE stage_7_step_completed
  BY <1>6, CompletingResumes
<1>7. CASE \/ stage_4_saga_conflict \/ stage_5_denied_node \/ stage_6_runner_not_ready
           \/ runner_failed("failed") \/ runner_failed("cancelled") \/ stage_call_gone
  <2>1. CASE runner_failed("failed")
    BY <2>1, FailingResumes
  <2>2. CASE runner_failed("cancelled")
    BY <2>2, FailingResumes
  <2>3. CASE stage_4_saga_conflict \/ stage_5_denied_node \/ stage_6_runner_not_ready \/ stage_call_gone
    BY <2>3, FailingResumes
  <2> QED BY <1>7, <2>1, <2>2, <2>3
<1>8. CASE \/ stage_1_raises \/ stage_4_raises \/ stage_5_raises \/ stage_6_expired \/ fail_task
           \/ record_exception \/ worker_is_fenced \/ worker_finds_task_ended \/ worker_is_refused
           \/ runner_unknown \/ stage_8_completed
  BY <1>8, LeavingResumes
<1> QED BY <1>1, <1>2, <1>3, <1>4, <1>5, <1>6, <1>7, <1>8 DEF Worker

\* Who does not wait has no approval that is pending.
LEMMA NothingPending ==
  ASSUME ResumeInv, task # "waiting_approval", Live
  PROVE  \A c \in Calls : approval[c] # "pending"
  BY DEF ResumeInv, DurableResume, Grants

\* A worker that is at work keeps and gives grants.
LEMMA WorkerGrants ==
  ASSUME SagaInv, ResumeInv, Worker
  PROVE  Grants'
<1>0. Live' => Live
  BY WorkerRequests
<1>1. CASE save_checkpoint \/ worker_stops \/ suspend_reads_approval \/ suspend_leaves
  <2>1. UNCHANGED <<task, call, policy, approval>>
    BY <1>1 DEF save_checkpoint, worker_stops, suspend_reads_approval, suspend_leaves,
       save_task_checkpoint, vars
  <2> QED BY <2>1 DEF ResumeInv, DurableResume, Grants, Live
<1> SUFFICES ASSUME ~(save_checkpoint \/ worker_stops \/ suspend_reads_approval \/ suspend_leaves)
             PROVE  Grants'
  BY <1>1
<1>2. worker # "done" /\ ~Suspending
  <2>1. CASE worker_stops \/ stage_0_classifying \/ stage_1_plan \/ stage_1_raises \/ ensure_effect_graph
           \/ stage_2_running \/ stage_3_start_node \/ stage_3_step_started
    BY <2>1 DEF worker_stops, stage_0_classifying, stage_1_plan, stage_1_raises, ensure_effect_graph,
       stage_2_running, stage_3_start_node, stage_3_step_started, At, In, Suspending
  <2>2. CASE stage_4_request \/ stage_4_saga_conflict \/ stage_4_raises
             \/ stage_5_allow \/ stage_5_require_approval \/ stage_5_raises
             \/ stage_5_deny \/ stage_5_denied_node
    BY <2>2 DEF stage_4_request, stage_4_saga_conflict, stage_4_raises, stage_5_allow,
       stage_5_require_approval, stage_5_raises, stage_5_deny, stage_5_denied_node, PolicyAnswers,
       At, In, Suspending
  <2>3. CASE stage_6_runner_not_ready \/ stage_6_start \/ stage_6_expired \/ stage_call_gone
             \/ runner_succeeded \/ runner_failed("failed") \/ runner_failed("cancelled")
             \/ runner_unknown
    BY <2>3 DEF stage_6_runner_not_ready, stage_6_start, stage_6_expired, stage_call_gone,
       runner_succeeded, runner_failed, runner_unknown, At, In, Suspending
  <2>4. CASE stage_7_step_completed \/ stage_7_close_graph \/ stage_8_completed
             \/ fail_task \/ record_exception
             \/ worker_is_fenced \/ worker_finds_task_ended \/ worker_is_refused
    BY <2>4 DEF stage_7_step_completed, stage_7_close_graph, stage_8_completed, fail_task,
       record_exception, worker_is_fenced, worker_finds_task_ended, worker_is_refused, At, In,
       Suspending
  <2> QED BY <2>1, <2>2, <2>3, <2>4 DEF Worker
<1>3. task # "waiting_approval" /\ (Live => \A c \in Calls : approval[c] # "pending")
  BY <1>2, NotWaiting, NothingPending
<1>4. /\ policy \in [Calls -> PolicyEffect] /\ approval \in [Calls -> ApprovalStatus]
      /\ Current \in Calls
  BY CallsAre DEF SagaInv, IInv, TypeOK
<1>5. CASE policy' = policy /\ approval' = approval
  BY <1>0, <1>3, <1>5 DEF ResumeInv, DurableResume, Grants
<1>6. CASE stage_5_allow
  <2>1. policy' = [policy EXCEPT ![Current] = "allow"] /\ approval' = approval
    BY <1>6 DEF stage_5_allow, apply_policy_decision_allow
  <2> QED BY <1>0, <1>3, <1>4, <2>1 DEF ResumeInv, DurableResume, Grants
<1>7. CASE stage_5_deny
  <2>1. policy' = [policy EXCEPT ![Current] = "deny"] /\ approval' = approval
    BY <1>7 DEF stage_5_deny, apply_policy_decision_deny
  <2> QED BY <1>0, <1>3, <1>4, <2>1 DEF ResumeInv, DurableResume, Grants
<1>8. CASE stage_5_require_approval
  <2>1. /\ policy' = [policy EXCEPT ![Current] = "require_approval"]
        /\ approval' = [approval EXCEPT ![Current] = "pending"]
        /\ task' = "waiting_approval" /\ call' = call /\ call[Current] = "requested"
    BY <1>8 DEF stage_5_require_approval, apply_policy_decision_require_approval, PolicyMayDecide,
       Journal
  <2> QED BY <1>0, <1>3, <1>4, <2>1 DEF ResumeInv, DurableResume, Grants
<1>9. CASE stage_6_expired
  BY <1>9 DEF stage_6_expired, start_tool_call_expired, Journal, Grants, Live, TerminalTask
<1>10. CASE stage_4_request \/ stage_6_start \/ stage_6_runner_not_ready \/ runner_succeeded
            \/ runner_failed("failed") \/ runner_failed("cancelled") \/ runner_unknown
  BY <1>5, <1>10 DEF stage_4_request, stage_6_start, stage_6_runner_not_ready, runner_succeeded,
     runner_failed, runner_unknown, FinishFailure, record_tool_requested, start_tool_call,
     finish_effect_tool_call
<1>11. CASE stage_0_classifying \/ stage_1_plan \/ stage_1_raises \/ ensure_effect_graph
           \/ stage_2_running \/ stage_3_start_node \/ stage_3_step_started
           \/ stage_4_saga_conflict \/ stage_4_raises \/ stage_5_raises \/ stage_5_denied_node
  BY <1>5, <1>11 DEF stage_0_classifying, stage_1_plan, stage_1_raises, ensure_effect_graph,
     stage_2_running, stage_3_start_node, stage_3_step_started, stage_4_saga_conflict, stage_4_raises,
     stage_5_raises, stage_5_denied_node, append_event, append_progress, record_event, vars
<1>12. CASE stage_call_gone \/ stage_7_step_completed \/ stage_7_close_graph \/ stage_8_completed
             \/ fail_task \/ record_exception
             \/ worker_is_fenced \/ worker_finds_task_ended \/ worker_is_refused
  BY <1>5, <1>12 DEF stage_call_gone, stage_7_step_completed, stage_7_close_graph, stage_8_completed,
     fail_task, record_exception, worker_is_fenced, worker_finds_task_ended, worker_is_refused,
     append_event, append_progress, record_event, vars
<1> QED BY <1>6, <1>7, <1>8, <1>9, <1>10, <1>11, <1>12 DEF Worker

\* The graph is there before the stages that write it.
LEMMA WorkerGraph ==
  ASSUME SagaInv, ResumeInv, Worker
  PROVE  GraphKnown'
<1>0. rt \in Runtime /\ rt.stage \in 0..9 /\ (saved.stage >= 2 \/ rt.stage >= 2 => graph # "none")
  BY RuntimeIs DEF ResumeInv, DurableResume, GraphKnown, SagaInv, SagaTypeOK
<1>1. CASE stage_0_classifying \/ ensure_effect_graph
  <2>1. rt'.stage = rt.stage + 1 /\ saved' = saved
    BY <1>1, AdvanceIs, StageIs DEF SagaInv, Core, SagaTypeOK, stage_0_classifying,
       ensure_effect_graph, At, In
  <2>2. stage_0_classifying => rt.stage = 0 /\ graph' = graph
    BY DEF stage_0_classifying, At, durable
  <2>3. ensure_effect_graph => graph' = "active"
    BY DEF ensure_effect_graph
  <2> QED BY <1>0, <1>1, <2>1, <2>2, <2>3 DEF GraphKnown
<1>2. CASE rt.stage >= 2 /\ (graph' = graph \/ graph' # "none")
  BY <1>0, <1>2 DEF GraphKnown
<1>3. CASE rt' = rt /\ (saved' = saved \/ saved' = rt) /\ graph' = graph
  BY <1>0, <1>3 DEF GraphKnown
<1>4. CASE stage_1_plan \/ stage_1_raises \/ stage_4_raises \/ stage_5_raises
           \/ stage_5_deny \/ stage_6_expired \/ stage_8_completed \/ fail_task \/ record_exception
           \/ worker_stops
  BY <1>3, <1>4 DEF stage_1_plan, stage_1_raises, stage_4_raises, stage_5_raises, stage_5_deny,
     stage_6_expired, stage_8_completed, fail_task, record_exception, worker_stops, durable
<1>5. CASE save_checkpoint \/ suspend_reads_approval \/ suspend_leaves
           \/ worker_is_fenced \/ worker_finds_task_ended \/ worker_is_refused
  BY <1>3, <1>5 DEF save_checkpoint, suspend_reads_approval, suspend_leaves,
     worker_is_fenced, worker_finds_task_ended, worker_is_refused, durable
<1>6. CASE stage_2_running \/ stage_3_start_node \/ stage_3_step_started
           \/ stage_4_request \/ stage_4_saga_conflict \/ stage_5_denied_node
  <2>1. rt.stage >= 2
    <3>1. rt.stage \in {2, 3, 4} \/ worker \in {"stepping", "denied"}
      BY <1>6 DEF stage_2_running, stage_3_start_node, stage_3_step_started, stage_4_request,
         stage_4_saga_conflict, stage_5_denied_node, At, In
    <3>2. rt.stage \in {2, 3, 4, 5}
      BY <3>1 DEF SagaInv, Core, AtPlace
    <3> QED BY <3>2
  <2>2. graph' = graph \/ graph' # "none"
    BY <1>6 DEF stage_2_running, stage_3_start_node, stage_3_step_started, stage_4_request,
       stage_4_saga_conflict, stage_5_denied_node, FailNode, durable
  <2> QED BY <1>2, <2>1, <2>2
<1>7. CASE stage_5_allow \/ stage_5_require_approval \/ stage_6_runner_not_ready \/ stage_6_start
           \/ stage_call_gone \/ runner_succeeded \/ runner_failed("failed")
           \/ runner_failed("cancelled") \/ runner_unknown
           \/ stage_7_step_completed \/ stage_7_close_graph
  <2>1. rt.stage >= 2
    <3>1. rt.stage \in {5, 6, 7} \/ worker \in {"dispatched", "closing"}
      BY <1>7 DEF stage_5_allow, stage_5_require_approval, stage_6_runner_not_ready, stage_6_start,
         stage_call_gone, runner_succeeded, runner_failed, runner_unknown, stage_7_step_completed,
         stage_7_close_graph, PolicyAnswers, At, In
    <3>2. rt.stage \in {5, 6, 7}
      BY <3>1 DEF SagaInv, Core, AtPlace
    <3> QED BY <3>2
  <2>2. graph' = graph \/ graph' # "none"
    BY <1>7 DEF stage_5_allow, stage_5_require_approval, stage_6_runner_not_ready, stage_6_start,
       stage_call_gone, runner_succeeded, runner_failed, runner_unknown, stage_7_step_completed,
       stage_7_close_graph, FinishFailure, FailNode, durable
  <2> QED BY <1>2, <2>1, <2>2
<1> QED BY <1>1, <1>4, <1>5, <1>6, <1>7 DEF Worker

\* A step that leaves the checkpoint's payload alone.
LEMMA SavedStays ==
  ASSUME SagaInv, ResumeInv, saved' = saved,
         saved.stage >= 6 => policy' = policy,
         saved.stage = 6 =>
           \/ call'[SavedCall] \notin {"running", "unknown"}
           \/ mode' = mode /\ call'[SavedCall] = call[SavedCall]
  PROVE  SavedAnswered' /\ DispatchedMode'
<1>1. PICK r \in Runtime : r = saved /\ CallOf(r) = SavedCall
  BY DEF SagaInv, SagaTypeOK, SavedCall, CallOf
<1>2. saved' = r
  BY <1>1
<1>3. SavedAnswered'
  BY <1>1, <1>2 DEF ResumeInv, DurableResume, SavedAnswered, Answered
<1>4. DispatchedMode'
  BY <1>1, <1>2 DEF ResumeInv, DurableResume, DispatchedMode
<1> QED BY <1>3, <1>4

\* What the worker writes to the checkpoint.
LEMMA WorkerSaved ==
  ASSUME SagaInv, ResumeInv, Worker
  PROVE  SavedAnswered' /\ DispatchedMode'
<1>w. worker # "done"
  BY WorkerFrame
<1>1. PICK r \in Runtime : r = rt /\ r.stage \in 0..8 /\ Current = CallOf(r)
  BY <1>w, StageIs DEF SagaInv, Core, SagaTypeOK, Current, CallOf
<1>2. CASE save_checkpoint
  <2>1. /\ saved' = r /\ Saving /\ UNCHANGED <<call, policy, mode>>
        /\ r.stage = 6 => call[CallOf(r)] \in {"requested", "failed", "cancelled"}
    <3>1. worker \in {"save", "save_suspend"} /\ saved' = r
      BY <1>1, <1>2 DEF save_checkpoint, In
    <3>2. UNCHANGED <<call, policy, mode>>
      BY <1>2 DEF save_checkpoint, save_task_checkpoint, vars, durable
    <3> QED BY <1>1, <3>1, <3>2 DEF Saving, ResumeInv, Ready, AtRest, Suspending
  <2>2. Answered(r)
    BY <1>1, <2>1 DEF ResumeInv, NextAnswered
  <2> QED BY <2>1, <2>2 DEF SavedAnswered, DispatchedMode, Answered
<1>3. CASE ~Saving /\ ~save_checkpoint
  <2>1. r = saved /\ SavedCall = CallOf(r)
    BY <1>1, <1>3, <1>w DEF SagaInv, Core, RtIsSaved, Driven, SavedCall, CallOf
  <2>2. Answered(r) /\ (r.stage = 6 /\ call[CallOf(r)] \in {"running", "unknown"} => mode = r.mode)
    BY <2>1 DEF ResumeInv, DurableResume, SavedAnswered, DispatchedMode
  <2>3. CASE saved' = saved /\ policy' = policy /\ mode' = mode /\ call' = call
    BY <2>3, SavedStays
  <2>4. CASE stage_4_request
    <3>1. saved' = [r EXCEPT !.stage = 5]
      BY <1>1, <2>4 DEF stage_4_request
    <3>2. saved'.stage = 5
      BY <3>1 DEF Runtime
    <3> QED BY <3>2 DEF SavedAnswered, DispatchedMode, Answered
  <2>5. CASE stage_5_allow \/ stage_5_deny \/ stage_5_require_approval
             \/ stage_3_start_node \/ stage_4_saga_conflict \/ stage_5_denied_node
    <3>1. saved' = saved /\ r.stage \in {3, 4, 5}
      BY <1>1, <2>5 DEF stage_5_allow, stage_5_deny, stage_5_require_approval, PolicyAnswers,
         stage_3_start_node, stage_4_saga_conflict, stage_5_denied_node, At, In, SagaInv, Core, AtPlace
    <3> QED BY <2>1, <3>1, SavedStays
  <2>6. ASSUME NEW s \in {"failed", "cancelled"}, FinishFailure(s) PROVE SavedAnswered' /\ DispatchedMode'
    <3>1. CASE HasAppliedPredecessor
      <4>1. saved' = CompensationOf(rt.index) /\ rt.index \in Nodes /\ rt.index > 1
        BY <1>1, <2>6, <3>1, RuntimeIs DEF FinishFailure, HasAppliedPredecessor
      <4>2. saved'.stage = 3
        BY <4>1, CompensationIs
      <4> QED BY <4>2 DEF SavedAnswered, DispatchedMode, Answered
    <3>2. CASE ~HasAppliedPredecessor
      <4>1. /\ saved' = saved /\ policy' = policy
            /\ call' = [call EXCEPT ![CallOf(r)] = s]
        BY <1>1, <2>6, <3>2 DEF FinishFailure, finish_effect_tool_call
      <4>2. call'[SavedCall] = s
        BY <1>1, <2>1, <4>1, RuntimeIs DEF SagaInv, IInv, TypeOK
      <4> QED BY <4>1, <4>2, SavedStays
    <3> QED BY <3>1, <3>2
  <2>7. CASE stage_6_runner_not_ready \/ runner_failed("failed") \/ runner_failed("cancelled")
    BY <2>6, <2>7 DEF stage_6_runner_not_ready, runner_failed
  <2>8. CASE stage_6_start
    <3>1. saved' = r /\ policy' = policy /\ mode' = r.mode
      BY <1>1, <2>8 DEF stage_6_start, start_tool_call
    <3> QED BY <2>2, <3>1 DEF SavedAnswered, DispatchedMode, Answered
  <2>9. CASE runner_succeeded
    <3>1. saved' = [r EXCEPT !.stage = 7] /\ policy' = policy /\ r.stage = 6
      BY <1>1, <2>9 DEF runner_succeeded, finish_effect_tool_call, In, SagaInv, Core, AtPlace
    <3>2. PICK t \in Runtime : /\ saved' = t /\ t.stage = 7 /\ CallOf(t) = CallOf(r)
                               /\ t.approval = r.approval
      BY <3>1 DEF Runtime, CallOf
    <3> QED BY <2>2, <3>1, <3>2 DEF SavedAnswered, DispatchedMode, Answered
  <2>10. CASE runner_unknown
    <3>1. /\ saved' = saved /\ policy' = policy /\ mode' = mode /\ r.stage = 6
          /\ call[CallOf(r)] = "running"
      BY <1>1, <2>1, <2>10 DEF runner_unknown, finish_effect_tool_call, MayFinish, In, SagaInv, Core, AtPlace
    <3>2. saved' = r
      BY <2>1, <3>1
    <3> QED BY <2>2, <3>1, <3>2 DEF SavedAnswered, DispatchedMode, Answered
  <2>11. CASE stage_6_expired
    <3>1. /\ saved' = saved /\ policy' = policy /\ call' = [call EXCEPT ![CallOf(r)] = "cancelled"]
      BY <1>1, <2>11 DEF stage_6_expired, start_tool_call_expired
    <3>2. call'[SavedCall] = "cancelled"
      BY <1>1, <2>1, <3>1, RuntimeIs DEF SagaInv, IInv, TypeOK
    <3> QED BY <3>1, <3>2, SavedStays
  <2>12. CASE stage_0_classifying \/ stage_1_plan \/ stage_1_raises \/ ensure_effect_graph
           \/ stage_2_running \/ stage_3_step_started \/ stage_4_raises \/ stage_5_raises
           \/ worker_stops \/ suspend_reads_approval \/ suspend_leaves
    BY <2>3, <2>12 DEF stage_0_classifying, stage_1_plan, stage_1_raises, ensure_effect_graph,
       stage_2_running, stage_3_step_started, stage_4_raises, stage_5_raises,
       worker_stops, suspend_reads_approval, suspend_leaves, append_event, append_progress,
       record_event, vars, durable
  <2>13. CASE stage_call_gone \/ stage_7_step_completed \/ stage_7_close_graph \/ stage_8_completed
             \/ fail_task \/ record_exception
             \/ worker_is_fenced \/ worker_finds_task_ended \/ worker_is_refused
    BY <2>3, <2>13 DEF stage_call_gone, stage_7_step_completed, stage_7_close_graph, stage_8_completed,
       fail_task, record_exception, worker_is_fenced, worker_finds_task_ended, worker_is_refused,
       append_event, append_progress, record_event, vars, durable
  <2> QED BY <1>3, <2>4, <2>5, <2>7, <2>8, <2>9, <2>10, <2>11, <2>12, <2>13 DEF Worker
<1>4. Saving => save_checkpoint
  <2> SUFFICES ASSUME Saving PROVE save_checkpoint
    OBVIOUS
  <2>1. ~(worker_stops \/ stage_0_classifying \/ stage_1_plan \/ stage_1_raises \/ ensure_effect_graph
           \/ stage_2_running \/ stage_3_start_node \/ stage_3_step_started)
    BY DEF worker_stops, stage_0_classifying, stage_1_plan, stage_1_raises, ensure_effect_graph,
       stage_2_running, stage_3_start_node, stage_3_step_started, At, In, Saving
  <2>2. ~(stage_4_request \/ stage_4_saga_conflict \/ stage_4_raises
           \/ stage_5_allow \/ stage_5_require_approval \/ stage_5_raises
           \/ stage_5_deny \/ stage_5_denied_node)
    BY DEF stage_4_request, stage_4_saga_conflict, stage_4_raises, stage_5_allow,
       stage_5_require_approval, stage_5_raises, stage_5_deny, stage_5_denied_node, PolicyAnswers,
       At, In, Saving
  <2>3. ~(stage_6_runner_not_ready \/ stage_6_start \/ stage_6_expired \/ stage_call_gone
           \/ runner_succeeded \/ runner_failed("failed") \/ runner_failed("cancelled")
           \/ runner_unknown)
    BY DEF stage_6_runner_not_ready, stage_6_start, stage_6_expired, stage_call_gone,
       runner_succeeded, runner_failed, runner_unknown, At, In, Saving
  <2>4. ~(stage_7_step_completed \/ stage_7_close_graph \/ stage_8_completed
           \/ fail_task \/ record_exception \/ suspend_reads_approval \/ suspend_leaves
           \/ worker_is_fenced \/ worker_finds_task_ended \/ worker_is_refused)
    BY DEF stage_7_step_completed, stage_7_close_graph, stage_8_completed, fail_task,
       record_exception, suspend_reads_approval, suspend_leaves, worker_is_fenced,
       worker_finds_task_ended, worker_is_refused, At, In, Saving
  <2> QED BY <2>1, <2>2, <2>3, <2>4 DEF Worker
<1> QED BY <1>2, <1>3, <1>4

\* The worker keeps the durable part of the invariant.
LEMMA WorkerDurable ==
  ASSUME SagaInv, ResumeInv, Worker
  PROVE  DurableResume'
BY WorkerGrants, WorkerGraph, WorkerSaved DEF DurableResume

-----------------------------------------------------------------------------
(* The requests.                                                           *)

\* The ledger, the graph and the checkpoint rest.
LEMMA DurableRests ==
  ASSUME ResumeInv, UNCHANGED <<vars, durable, saved, rt>>
  PROVE  DurableResume'
BY DEF ResumeInv, DurableResume, Grants, GraphKnown, SavedAnswered, DispatchedMode, Answered, vars,
       durable, Live

\* A request that writes nothing, and neither starts a worker nor ends one.
LEMMA RequestRests ==
  ASSUME SagaInv, ResumeInv,
         \/ lease_lost \/ pause_asks \/ pause_waited \/ cancel_asks_worker \/ cancel_unowned
         \/ cancel_forgets
  PROVE  ResumeInv'
<1>1. /\ UNCHANGED <<vars, durable, saved, rt, worker, starting>>
      /\ (fence' => fence) /\ (known' => known) /\ phase = "serving"
  <2>1. CASE lease_lost \/ pause_asks \/ cancel_asks_worker
    BY <2>1 DEF lease_lost, pause_asks, cancel_asks_worker, requests
  <2>2. CASE pause_waited \/ cancel_unowned \/ cancel_forgets
    BY <2>2 DEF pause_waited, cancel_unowned, cancel_forgets, forget, memory
  <2> QED BY <2>1, <2>2
<1>2. /\ UNCHANGED <<phase, task, call, policy, approval, ckpt, mode>> /\ Current' = Current
      /\ saved' = saved /\ rt' = rt /\ worker' = worker /\ starting' = starting
  BY <1>1 DEF vars, durable, Current
<1>3. Calm' => Calm
  <2>1. CASE cancel_forgets
    BY <1>2, <2>1 DEF cancel_forgets, ResumeInv, Over, Calm, Live
  <2>2. CASE cancel_asks_worker \/ cancel_unowned
    BY <1>2, <2>2 DEF cancel_asks_worker, cancel_unowned, Calm, Live
  <2>3. CASE lease_lost \/ pause_asks \/ pause_waited
    BY <1>2, <2>3 DEF lease_lost, pause_asks, pause_waited, Calm, Live, requests, memory
  <2> QED BY <2>1, <2>2, <2>3
<1>4. cancelling' = "asked" => known' \/ (cancelling = "asked" /\ known' = known)
  BY DEF lease_lost, pause_asks, pause_waited, cancel_asks_worker, cancel_unowned,
     cancel_forgets, requests, memory
<1>5. cancelling' = "committed" => cancelling = "committed"
  BY DEF lease_lost, pause_asks, pause_waited, cancel_asks_worker, cancel_unowned,
     cancel_forgets, requests, memory
<1>6. Live' /\ ~cancel_forgets => known' = known
  BY DEF lease_lost, pause_asks, pause_waited, cancel_asks_worker, cancel_unowned, memory
<1>7. cancel_forgets => ~Live'
  BY <1>2 DEF cancel_forgets, ResumeInv, Over, Live
<1>8. DurableResume' /\ NextAnswered'
  BY <1>1, <1>2, DurableRests DEF ResumeInv, NextAnswered, Saving, Answered
<1>9. InMode' /\ Leased' /\ Held' /\ TaskFits' /\ Proven' /\ Over' /\ Resuming'
  BY <1>1, <1>2, <1>3, <1>5, <1>6, <1>7 DEF ResumeInv, InMode, Leased, Held, TaskFits, Proven, Over,
     Resuming, Driven, Live
<1>10. Waits'
  BY <1>1, <1>2, <1>4 DEF ResumeInv, Waits, Suspending, Driven
<1>11. Ready'
  BY <1>1, <1>2, <1>3 DEF ResumeInv, Ready, AtRest, Suspending, Saving
<1>12. StartIsQuiet'
  BY <1>1, <1>2 DEF StartIsQuiet
<1> QED BY <1>8, <1>9, <1>10, <1>11, <1>12 DEF ResumeInv

\* The worker is started: there is a runtime at rest, and none waits.
LEMMA Starts ==
  ASSUME SagaInv, ResumeInv, UNCHANGED <<vars, durable, saved, rt, known, fence, cancelling, pausing>>,
         phase = "serving", worker = "done", known, start_worker, starting' = "no",
         task # "waiting_approval"
  PROVE  ResumeInv'
<1>1. /\ UNCHANGED <<phase, task, call, policy, approval, ckpt, mode>> /\ Current' = Current
      /\ worker' = "top" /\ ~stop'
  BY DEF vars, durable, Current, start_worker
<1>2. DurableResume' /\ NextAnswered'
  BY <1>1, DurableRests DEF NextAnswered, Saving
<1>3. InMode' /\ Leased' /\ Held' /\ TaskFits' /\ Proven' /\ Over' /\ Resuming'
  BY <1>1 DEF ResumeInv, InMode, Leased, Held, TaskFits, Proven, Over, Resuming, Driven, Live,
     Calm
<1>4. Waits' /\ Ready'
  BY <1>1 DEF ResumeInv, Waits, Ready, AtRest, Suspending, Saving, Calm, Live
<1>5. StartIsQuiet'
  BY <1>1 DEF StartIsQuiet
<1> QED BY <1>2, <1>3, <1>4, <1>5 DEF ResumeInv

\* A request that starts the worker, or finds that it must not.
LEMMA StartingResumes ==
  ASSUME SagaInv, ResumeInv, resume_starts \/ approve_continues
  PROVE  ResumeInv'
<1>1. /\ UNCHANGED <<vars, durable, saved, rt, known, fence, cancelling, pausing>>
      /\ phase = "serving" /\ starting \in {"resume", "approve"} /\ starting' = "no"
  BY DEF resume_starts, approve_continues
<1>2. task # "waiting_approval"
  BY <1>1 DEF ResumeInv, Waits
<1>3. CASE worker = "done" /\ known /\ start_worker
  BY <1>1, <1>2, <1>3, Starts
<1>4. CASE UNCHANGED <<worker, stop>> /\ (worker = "done" /\ known /\ starting = "approve" => ~(rt.approval /\ rt.stage = 6))
           /\ (starting = "resume" => ~known)
  <2>1. /\ UNCHANGED <<phase, task, call, policy, approval, ckpt, mode>> /\ Current' = Current
        /\ worker' = worker /\ stop' = stop
    BY <1>1, <1>4 DEF vars, durable, Current
  <2>2. DurableResume' /\ NextAnswered'
    BY <1>1, <2>1, DurableRests DEF ResumeInv, NextAnswered, Saving, Answered
  <2>3. InMode' /\ Leased' /\ Held' /\ TaskFits' /\ Proven' /\ Over' /\ Resuming'
    BY <1>1, <2>1 DEF ResumeInv, InMode, Leased, Held, TaskFits, Proven, Over, Resuming, Driven, Live,
       Calm
  <2>4. Waits' /\ Ready'
    BY <1>1, <1>2, <2>1 DEF ResumeInv, Waits, Ready, AtRest, Suspending, Saving, Calm, Live
  <2>5. StartIsQuiet'
    BY <1>1, <2>1 DEF ResumeInv, StartIsQuiet, Calm, Live
  <2> QED BY <2>2, <2>3, <2>4, <2>5 DEF ResumeInv
<1>5. resume_starts => \/ worker = "done" /\ known /\ start_worker
                       \/ UNCHANGED <<worker, stop>> /\ ~known /\ starting = "resume"
  <2> SUFFICES ASSUME resume_starts, known PROVE worker = "done" /\ start_worker
    BY DEF resume_starts, can_resume
  <2>1. worker = "done" /\ ~rt.approval
    BY DEF resume_starts, ResumeInv, Resuming
  <2>2. PICK r \in Runtime : r = rt /\ Fits(r)
    BY <2>1, AtWork DEF Driven, Saving
  <2>3. rt.stage < 9
    BY <2>2 DEF Fits
  <2> QED BY <2>1, <2>3 DEF resume_starts, can_resume
<1>6. approve_continues => \/ worker = "done" /\ known /\ start_worker
                           \/ /\ UNCHANGED <<worker, stop>> /\ starting = "approve"
                              /\ worker = "done" /\ known => ~(rt.approval /\ rt.stage = 6)
  BY DEF approve_continues, WaitsForApproval
<1> QED BY <1>3, <1>4, <1>5, <1>6

\* A running task is paused, and a paused one runs again.
LEMMA PausingResumes ==
  ASSUME SagaInv, ResumeInv, pause_commits \/ resume
  PROVE  ResumeInv'
<1>1. /\ UNCHANGED <<durable, saved, rt, known, worker, stop, fence, cancelling>>
      /\ phase = "serving" /\ starting = "no"
      /\ UNCHANGED <<call, policy, approval, phase>> /\ Current' = Current
  BY DEF pause_commits, resume, Serving, memory, transition_task, vars, startup, Current
<1>2. /\ saved' = saved /\ rt' = rt /\ worker' = worker /\ mode' = mode /\ graph' = graph
      /\ known' = known /\ fence' = fence /\ stop' = stop /\ cancelling' = cancelling
  BY <1>1 DEF durable
<1>3. \/ task' = task /\ ckpt' = ckpt /\ pause_commits /\ task # "running"
      \/ task = "running" /\ task' = "paused" /\ ckpt' # "stale" /\ pause_commits
      \/ task = "paused" /\ task' = "running" /\ ckpt' # "stale" /\ resume
  BY DEF pause_commits, resume, transition_task, JournalBound, vars, SagaInv, IInv, TypeOK
<1>4. task' = task \/ (task # "waiting_approval" /\ task' # "waiting_approval")
  BY <1>3
<1>5. (Live' <=> Live) /\ (Calm' <=> Calm)
  BY <1>1, <1>2, <1>3 DEF Live, TerminalTask, Calm
<1>6. DurableResume'
  <2>1. Grants'
    BY <1>1, <1>4, <1>5 DEF ResumeInv, DurableResume, Grants
  <2> QED BY <1>1, <1>2, <2>1 DEF ResumeInv, DurableResume, GraphKnown, SavedAnswered,
             DispatchedMode, Answered
<1>7. NextAnswered' /\ InMode' /\ Leased' /\ Held' /\ Proven' /\ Over'
  BY <1>1, <1>2, <1>5 DEF ResumeInv, NextAnswered, InMode, Leased, Held, Proven, Over, Driven, Saving,
     Answered
<1>8. TaskFits'
  BY <1>2, <1>3, <1>5 DEF ResumeInv, TaskFits, TaskOf, Driven
<1>9. Waits'
  <2>1. pause_commits => starting' = "no"
    BY <1>1 DEF pause_commits
  <2> QED BY <1>2, <1>3, <2>1 DEF ResumeInv, Waits, Suspending, Driven
<1>10. Ready'
  BY <1>1, <1>2, <1>3, <1>5 DEF ResumeInv, Ready, AtRest, Suspending, Saving
<1>11. CASE pause_commits
  <2>1. starting' = "no" /\ pausing = "stopped" /\ pausing' = "no"
    BY <1>1, <1>11 DEF pause_commits
  <2>2. task' # "running"
    BY <1>11 DEF pause_commits, transition_task, JournalBound, vars
  <2>3. StartIsQuiet'
    BY <1>1, <1>2, <1>5, <2>1 DEF ResumeInv, StartIsQuiet
  <2> QED BY <1>6, <1>7, <1>8, <1>9, <1>10, <2>1, <2>2, <2>3 DEF ResumeInv, Resuming
<1>12. CASE resume
  <2>1. starting' = "resume" /\ pausing' = pausing /\ worker = "done" /\ ~rt.approval
    BY <1>12 DEF resume, can_resume
  <2>2. task' = "running"
    BY <1>12 DEF resume, transition_task, JournalBound
  <2>3. StartIsQuiet' /\ Resuming'
    BY <1>1, <1>2, <2>1, <2>2 DEF StartIsQuiet, Resuming
  <2> QED BY <1>6, <1>7, <1>8, <1>9, <1>10, <2>3 DEF ResumeInv
<1> QED BY <1>11, <1>12

\* A task that has ended, with a graph and a runtime left as they were.
LEMMA EndedResumes ==
  ASSUME SagaInv, ResumeInv, ~Live', UNCHANGED <<mode, policy, saved, rt, worker>>,
         graph' = graph \/ graph' # "none", known' => known, fence' => fence,
         \A c \in Calls : /\ call'[c] = call[c] \/ call'[c] \in {"failed", "cancelled"}
                          /\ call[c] = "succeeded" => call'[c] = "succeeded",
         phase = "serving" \/ worker = "done",
         phase' = "serving" \/ (~stop' /\ starting' = "no"),
         starting' = "resume" => starting = "resume"
  PROVE  ResumeInv'
<1>1. ~Calm' /\ task' # "waiting_approval" /\ task' # "running"
  BY DEF Calm, Live, TerminalTask
<1>2. PICK r \in Runtime : r = rt
  BY DEF SagaInv, SagaTypeOK
<1>3. PICK p \in Runtime : p = saved
  BY DEF SagaInv, SagaTypeOK
<1>4. rt' = r /\ saved' = p /\ CallOf(r) \in Calls /\ CallOf(p) \in Calls
      /\ Current = CallOf(r) /\ Current' = CallOf(r)
  BY <1>2, <1>3, RuntimeIs DEF Current, CallOf
<1>5. DurableResume'
  <2>1. Grants' /\ GraphKnown'
    BY DEF ResumeInv, DurableResume, Grants, GraphKnown
  <2>2. SavedAnswered'
    BY DEF ResumeInv, DurableResume, SavedAnswered, Answered
  <2>3. DispatchedMode'
    BY <1>3, <1>4 DEF ResumeInv, DurableResume, DispatchedMode
  <2> QED BY <2>1, <2>2, <2>3 DEF DurableResume
<1>6. NextAnswered' /\ InMode' /\ Leased' /\ Held' /\ TaskFits' /\ Over'
  BY <1>1 DEF ResumeInv, NextAnswered, InMode, Leased, Held, TaskFits, Over, Saving, Answered
<1>7. Waits'
  BY <1>1 DEF ResumeInv, Waits, Suspending
<1>8. Ready'
  BY <1>1, <1>2, <1>4 DEF ResumeInv, Ready, AtRest, Suspending
<1>9. Proven'
  BY <1>2, <1>4 DEF ResumeInv, Proven, Driven
<1>10. StartIsQuiet' /\ Resuming'
  BY <1>1 DEF ResumeInv, StartIsQuiet, Resuming
<1> QED BY <1>5, <1>6, <1>7, <1>8, <1>9, <1>10 DEF ResumeInv

\* A cancel request closes the call, unless it waits for its approval.
LEMMA CancelResumes ==
  ASSUME SagaInv, ResumeInv, cancel_idle \/ cancel_closes_call
  PROVE  ResumeInv'
<1>1. /\ UNCHANGED <<durable, saved, rt, known, worker, fence, pausing, starting>>
      /\ phase = "serving" /\ worker = "done" /\ cancelling' = "closed" /\ CloseCall
  BY DEF cancel_idle, cancel_closes_call, Serving, memory
<1>2. /\ saved' = saved /\ rt' = rt /\ worker' = "done" /\ mode' = mode /\ graph' = graph
      /\ known' = known /\ fence' = fence /\ starting' = starting
  BY <1>1 DEF durable
<1>3. task' = task /\ phase' = phase /\ UNCHANGED <<policy, approval>>
  BY <1>1 DEF CloseCall, finish_tool_call, Journal, vars, startup
<1>4. task = "waiting_approval" => rt.stage = 6 /\ rt.approval
  BY DEF cancel_idle, cancel_closes_call, ResumeInv, Waits, Driven
<1>5. PICK r \in Runtime : r = rt /\ CallOf(r) \in Calls /\ Current = CallOf(r) /\ Current' = CallOf(r)
  BY <1>2, RuntimeIs DEF SagaInv, SagaTypeOK, Current, CallOf
<1>6. PICK p \in Runtime : p = saved /\ CallOf(p) \in Calls
  BY RuntimeIs DEF SagaInv, SagaTypeOK
<1>7. \/ UNCHANGED <<call, ckpt>>
      \/ /\ task # "waiting_approval" /\ call' = [call EXCEPT ![CallOf(r)] = "cancelled"]
         /\ call[CallOf(r)] \in {"requested", "running"} /\ ckpt' # "bound"
  BY <1>1, <1>3, <1>4, <1>5 DEF CloseCall, finish_tool_call, MayFinish, Journal, vars
<1>8. \A c \in Calls : \/ call'[c] = call[c]
                       \/ /\ c = CallOf(r) /\ call'[c] = "cancelled" /\ call[c] # "succeeded"
                          /\ task # "waiting_approval"
  BY <1>5, <1>7 DEF SagaInv, IInv, TypeOK
<1>c. Calm' => Calm /\ UNCHANGED <<call, ckpt>>
  <2>1. (\A c \in Calls : call'[c] # "cancelled") => UNCHANGED <<call, ckpt>>
    BY <1>5, <1>7 DEF SagaInv, IInv, TypeOK
  <2> QED BY <1>1, <1>3, <2>1 DEF Calm, Live
<1>9. DurableResume'
  <2>1. Grants'
    BY <1>3, <1>8 DEF ResumeInv, DurableResume, Grants, Live
  <2>2. GraphKnown'
    BY <1>2 DEF ResumeInv, DurableResume, GraphKnown
  <2>3. SavedAnswered'
    BY <1>2, <1>3 DEF ResumeInv, DurableResume, SavedAnswered, Answered
  <2>4. DispatchedMode'
    BY <1>2, <1>6, <1>8 DEF ResumeInv, DurableResume, DispatchedMode
  <2> QED BY <2>1, <2>2, <2>3, <2>4 DEF DurableResume
<1>10. NextAnswered' /\ InMode' /\ Leased' /\ Held' /\ TaskFits' /\ Over'
  BY <1>1, <1>2, <1>3, <1>c DEF ResumeInv, NextAnswered, InMode, Leased, Held, TaskFits, Over, Saving,
     Answered, Driven, Live
<1>11. Waits'
  BY <1>1, <1>2, <1>3, <1>7 DEF ResumeInv, Waits, Suspending, Driven
<1>12. Ready'
  BY <1>1, <1>2, <1>5, <1>8, <1>c DEF ResumeInv, Ready, AtRest, Suspending, Saving
<1>13. Proven'
  BY <1>1, <1>2, <1>5, <1>8 DEF ResumeInv, Proven, Driven
<1>14. StartIsQuiet' /\ Resuming'
  BY <1>1, <1>2, <1>3 DEF ResumeInv, StartIsQuiet, Resuming, Live
<1> QED BY <1>9, <1>10, <1>11, <1>12, <1>13, <1>14 DEF ResumeInv

\* Calls are closed by a task that is cancelled.
LEMMA CancelledCalls ==
  ASSUME NEW S, call' = CancelRequested(S)
  PROVE  \A c \in Calls : /\ call'[c] = call[c] \/ call'[c] \in {"failed", "cancelled"}
                          /\ call[c] = "succeeded" => call'[c] = "succeeded"
BY DEF CancelRequested

\* The cancel commits, or finds that the task has ended.
LEMMA CommitResumes ==
  ASSUME SagaInv, ResumeInv, cancel_commits
  PROVE  ResumeInv'
<1>1. /\ UNCHANGED <<durable, saved, rt, worker, known, fence, starting>>
      /\ phase = "serving"
  BY DEF cancel_commits, Serving, memory
<1>2. /\ ~Live' /\ policy' = policy /\ phase' = phase
      /\ \A c \in Calls : /\ call'[c] = call[c] \/ call'[c] \in {"failed", "cancelled"}
                          /\ call[c] = "succeeded" => call'[c] = "succeeded"
  <2>1. CASE cancel_task
    BY <2>1, CancelledCalls DEF cancel_task, Journal, Live, TerminalTask, startup
  <2>2. CASE ~Live /\ UNCHANGED vars
    BY <2>2 DEF Live, vars
  <2> QED BY <2>1, <2>2 DEF cancel_commits
<1> QED BY <1>1, <1>2, EndedResumes DEF durable

\* Every request keeps the second invariant ...
LEMMA ControlResumes ==
  ASSUME SagaInv, ResumeInv, Control
  PROVE  ResumeInv'
BY RequestRests, StartingResumes, PausingResumes, CancelResumes, CommitResumes DEF Control

-----------------------------------------------------------------------------
(* Decisions.                                                              *)

\* An approval is granted: no other one is pending, and the task runs again.
LEMMA ApproveResumes ==
  ASSUME SagaInv, ResumeInv, approve \/ approve_replayed
  PROVE  ResumeInv'
<1>1. /\ UNCHANGED <<durable, saved, rt, known, worker, stop, fence, pausing, cancelling>>
      /\ phase = "serving" /\ known /\ rt.approval /\ rt.stage = 6
      /\ starting = "no" /\ starting' = "approve" /\ UNCHANGED <<phase, policy, call>>
  BY DEF approve, approve_replayed, Serving, WaitsForApproval, memory, resolve_approval_approve,
     vars, startup
<1>2. /\ saved' = saved /\ rt' = rt /\ worker' = worker /\ mode' = mode /\ graph' = graph
      /\ Current' = Current /\ Current \in Calls
  BY <1>1, CallsAre DEF durable, Current, SagaInv
<1>3. PICK r \in Runtime : r = rt /\ Fits(r) /\ Current = CallOf(r)
  BY <1>1 DEF SagaInv, SagaTypeOK, Core, SavedFits, NextFits, RtIsSaved, Saving, Driven, Current, CallOf
<1>4. Live => \A c \in Calls : approval[c] = "pending" => c = Current
  BY <1>3 DEF ResumeInv, DurableResume, Grants, Fits, NotDue
<1>5. /\ Live /\ task' # "waiting_approval"
      /\ task' = task \/ (task = "waiting_approval" /\ task' = "running")
      /\ ckpt' # "stale" \/ ckpt' = ckpt
      /\ Grants'
  <2>1. CASE approve
    <3>1. /\ task = "waiting_approval" /\ approval' = [approval EXCEPT ![Current] = "approved"]
          /\ JournalBound(IF \E d \in Calls \ {Current} : approval[d] = "pending"
                          THEN task ELSE "running")
      BY <2>1 DEF approve, resolve_approval_approve, ApprovalMayResolve
    <3>2. ~ \E d \in Calls \ {Current} : approval[d] = "pending"
      BY <1>4, <3>1 DEF Live, TerminalTask
    <3>3. task' = "running" /\ ckpt' # "stale"
      BY <3>1, <3>2 DEF JournalBound
    <3>4. \A c \in Calls : approval'[c] = IF c = Current THEN "approved" ELSE approval[c]
      BY <1>2, <3>1 DEF SagaInv, IInv, TypeOK
    <3>5. Live
      BY <3>1 DEF Live, TerminalTask
    <3>6. \A c \in Calls : approval'[c] # "pending"
      BY <3>2, <3>4
    <3>7. Grants'
      BY <1>1, <3>4, <3>5, <3>6 DEF ResumeInv, DurableResume, Grants
    <3> QED BY <3>1, <3>3, <3>5, <3>7
  <2>2. CASE approve_replayed
    <3>1. UNCHANGED vars /\ Live /\ task # "waiting_approval"
      BY <2>2 DEF approve_replayed
    <3> QED BY <3>1 DEF ResumeInv, DurableResume, Grants, Live, vars
  <2> QED BY <2>1, <2>2
<1>6. Live /\ Live' /\ (Calm' => Calm)
  BY <1>1, <1>5 DEF Live, TerminalTask, Calm
<1>7. DurableResume'
  BY <1>1, <1>2, <1>5 DEF ResumeInv, DurableResume, GraphKnown, SavedAnswered, DispatchedMode, Answered
<1>8. NextAnswered' /\ InMode' /\ Leased' /\ Held' /\ Proven' /\ Over'
  BY <1>1, <1>2, <1>6 DEF ResumeInv, NextAnswered, InMode, Leased, Held, Proven, Over, Driven, Saving,
     Answered
<1>9. TaskFits' /\ Waits'
  BY <1>1, <1>2, <1>5, <1>6 DEF ResumeInv, TaskFits, TaskOf, Waits, Suspending, Driven
<1>10. Ready'
  BY <1>1, <1>2, <1>5, <1>6 DEF ResumeInv, Ready, AtRest, Suspending, Saving
<1>11. StartIsQuiet' /\ Resuming'
  BY <1>1, <1>2, <1>6 DEF ResumeInv, StartIsQuiet, Resuming
<1> QED BY <1>7, <1>8, <1>9, <1>10, <1>11 DEF ResumeInv

\* A rejected or expired approval ends the task.
LEMMA RefusalResumes ==
  ASSUME SagaInv, ResumeInv, reject \/ expire
  PROVE  ResumeInv'
<1>1. /\ UNCHANGED <<durable, saved, rt, worker, starting>> /\ phase = "serving"
      /\ ~known' /\ ~fence'
      /\ \E c \in Calls, s \in {"rejected", "expired"} : CloseBatch(c, s)
  BY DEF reject, expire, forget, requests, resolve_approval_reject, resolve_approval_expired
<1>2. task' = "cancelled" /\ policy' = policy /\ phase' = phase /\ call' = CancelRequested(Open)
  BY <1>1 DEF CloseBatch, Journal, startup
<1>3. ~Live'
  BY <1>2 DEF Live, TerminalTask
<1> QED BY <1>1, <1>2, <1>3, CancelledCalls, EndedResumes DEF durable

\* An approval lapses, or a verdict is given: nothing here depends on it.
LEMMA NotingResumes ==
  ASSUME SagaInv, ResumeInv, lapse \/ \E c \in Calls, v \in Verdict : decide(c, v)
  PROVE  ResumeInv'
<1>1. /\ UNCHANGED <<task, call, policy, approval, ckpt, phase, graph, mode, saved>>
      /\ UNCHANGED <<rt, known, worker, stop, fence, pausing, cancelling, starting>>
      /\ Current' = Current
  BY DEF lapse, approval_lapses, decide, resolve_reconciliation, durable, memory, requests, startup,
     Current
<1>2. (Live' <=> Live) /\ (Calm' <=> Calm)
  BY <1>1 DEF Live, Calm
<1>3. DurableResume'
  BY <1>1, <1>2 DEF ResumeInv, DurableResume, Grants, GraphKnown, SavedAnswered, DispatchedMode, Answered
<1>4. NextAnswered' /\ InMode' /\ Leased' /\ Held' /\ TaskFits' /\ Proven' /\ Over'
  BY <1>1, <1>2 DEF ResumeInv, NextAnswered, InMode, Leased, Held, TaskFits, Proven, Over, Driven,
     Saving, Answered
<1>5. Waits' /\ Ready'
  BY <1>1, <1>2 DEF ResumeInv, Waits, Ready, AtRest, Suspending, Saving, Driven
<1>6. StartIsQuiet' /\ Resuming'
  BY <1>1, <1>2 DEF ResumeInv, StartIsQuiet, Resuming
<1> QED BY <1>3, <1>4, <1>5, <1>6 DEF ResumeInv

\* A verdict is applied, and the checkpoint holds the payload t.
LEMMA VerdictResumes ==
  ASSUME SagaInv, ResumeInv, NEW c \in Calls, recover_reconciliation_graph(c, "running"),
         NEW t \in Runtime, Resume(t), UNCHANGED <<pausing, cancelling, starting>>,
         phase = "serving", graph' # "none", Answered(t), t.stage \in {3, 7}
  PROVE  ResumeInv'
<1>1. /\ task = "waiting_reconciliation" /\ task' = "running"
      /\ phase' = "serving" /\ UNCHANGED <<call, policy, approval>>
  BY DEF recover_reconciliation_graph, JournalBound, startup
<1>2. worker = "done" /\ ~known
  BY AppliedCase
<1>3. /\ saved' = t /\ rt' = rt /\ ~known' /\ fence' = fence /\ worker' = "done"
      /\ starting' = starting /\ cancelling' = cancelling
  BY <1>2 DEF Resume, memory
<1>4. starting # "resume" /\ Live
  BY <1>1 DEF ResumeInv, Resuming, Live, TerminalTask
<1>5. DurableResume'
  <2>1. Grants'
    BY <1>1, <1>4 DEF ResumeInv, DurableResume, Grants
  <2>2. GraphKnown' /\ DispatchedMode'
    BY <1>3 DEF GraphKnown, DispatchedMode
  <2>3. SavedAnswered'
    BY <1>1, <1>3 DEF SavedAnswered, Answered
  <2> QED BY <2>1, <2>2, <2>3 DEF DurableResume
<1>6. NextAnswered' /\ InMode' /\ Leased' /\ Held' /\ TaskFits' /\ Proven' /\ Over'
  BY <1>3, <1>4 DEF ResumeInv, NextAnswered, InMode, Leased, Held, TaskFits, Proven, Over,
     Driven, Saving
<1>7. Waits' /\ Ready'
  BY <1>1, <1>3 DEF Waits, Ready, AtRest, Suspending
<1>8. StartIsQuiet' /\ Resuming'
  BY <1>1, <1>3, <1>4 DEF StartIsQuiet, Resuming
<1> QED BY <1>5, <1>6, <1>7, <1>8 DEF ResumeInv

\* A verdict is applied, and the task has failed.
LEMMA VerdictEnds ==
  ASSUME SagaInv, ResumeInv, NEW c \in Calls, recover_reconciliation_graph(c, "failed"),
         UNCHANGED <<mode, saved, memory, starting>>, graph' = "failed", phase = "serving"
  PROVE  ResumeInv'
<1>1. task' = "failed" /\ phase' = phase /\ call' = call /\ policy' = policy
  BY DEF recover_reconciliation_graph, JournalBound, startup
<1>2. ~Live'
  BY <1>1 DEF Live, TerminalTask
<1> QED BY <1>1, <1>2, EndedResumes DEF memory

\* What the graph goes on with after a verdict.
LEMMA RecoveryKeeps ==
  ASSUME SagaInv, ResumeInv, NEW c \in Calls,
         recover_graph_terminate(c) \/ recover_graph_succeeded(c) \/ recover_graph_no_effect(c)
  PROVE  ResumeInv'
<1>1. CASE recover_graph_terminate(c)
  BY <1>1, VerdictEnds DEF recover_graph_terminate, Blocked, Serving, requests
<1>2. CASE recover_graph_succeeded(c)
  <2>1. recover_reconciliation_graph(c, "running")
    BY <1>2 DEF recover_graph_succeeded
  <2>2. PICK r \in Runtime : r = saved /\ r.stage = 6 /\ c = CallOf(r) /\ call[c] = "unknown"
    BY <2>1, AppliedCase
  <2> DEFINE u == [r EXCEPT !.stage = 7, !.reconciled = TRUE]
  <2>3. /\ Resume(u) /\ graph' # "none" /\ UNCHANGED <<pausing, cancelling, starting>>
        /\ phase = "serving"
    BY <1>2, <2>2 DEF recover_graph_succeeded, Blocked, Serving
  <2>4. u \in Runtime /\ u.stage = 7 /\ u.index = r.index /\ u.mode = r.mode
    BY SpecialPayloads
  <2>5. u.approval = r.approval
    BY DEF Runtime
  <2> HIDE DEF u
  <2>6. PICK t \in Runtime : t = u
    BY <2>4
  <2>7. Answered(t)
    BY <2>2, <2>4, <2>5, <2>6 DEF ResumeInv, DurableResume, SavedAnswered, Answered, CallOf
  <2>8. t.stage \in {3, 7} /\ Resume(t)
    BY <2>3, <2>4, <2>6
  <2> QED BY <2>1, <2>3, <2>7, <2>8, VerdictResumes
<1>3. CASE recover_graph_no_effect(c)
  <2>1. CASE c[1] = "forward" /\ c[2] > 1
    <3>1. /\ recover_reconciliation_graph(c, "running") /\ graph' = "compensating"
          /\ Resume(CompensationOf(c[2])) /\ UNCHANGED <<pausing, cancelling, starting>>
          /\ phase = "serving"
      BY <1>3, <2>1 DEF recover_graph_no_effect, Blocked, Serving
    <3>2. PICK t \in Runtime : t = CompensationOf(c[2]) /\ t.stage = 3
      BY <2>1, CallsAre, CompensationIs
    <3>3. Answered(t) /\ Resume(t)
      BY <3>1, <3>2 DEF Answered
    <3> QED BY <3>1, <3>2, <3>3, VerdictResumes
  <2>2. CASE ~(c[1] = "forward" /\ c[2] > 1)
    <3>1. /\ recover_reconciliation_graph(c, "failed") /\ graph' = "failed"
          /\ UNCHANGED <<mode, saved, memory, starting>> /\ phase = "serving"
      BY <1>3, <2>2 DEF recover_graph_no_effect, Blocked, Serving
    <3> QED BY <3>1, VerdictEnds
  <2> QED BY <2>1, <2>2
<1> QED BY <1>1, <1>2, <1>3

\* While a request restores a checkpoint that it has found bound, the
\* checkpoint does not fall behind.
Loaded == recovering = "loaded" /\ Calm => ckpt # "stale"

\* The restore is repeated, or goes on: it reads only.
LEMMA LoadingResumes ==
  ASSUME SagaInv, ResumeInv, recover_graph_repeated \/ recovery_loads
  PROVE  ResumeInv'
<1>1. /\ UNCHANGED <<vars, durable, saved, memory, pausing, cancelling, starting>>
      /\ phase = "serving"
  BY DEF recover_graph_repeated, recovery_loads, Serving
<1>2. /\ UNCHANGED <<task, call, policy, approval, ckpt, phase, graph, mode, saved>>
      /\ UNCHANGED <<rt, known, worker, stop, fence, pausing, cancelling, starting>>
      /\ Current' = Current
  BY <1>1 DEF vars, durable, memory, Current
<1>3. (Live' <=> Live) /\ (Calm' <=> Calm)
  BY <1>2 DEF Live, Calm
<1>4. DurableResume'
  BY <1>1, <1>2, DurableRests DEF memory
<1>5. NextAnswered' /\ InMode' /\ Leased' /\ Held' /\ TaskFits' /\ Proven' /\ Over'
  BY <1>2, <1>3 DEF ResumeInv, NextAnswered, InMode, Leased, Held, TaskFits, Proven, Over, Driven,
     Saving, Answered
<1>6. Waits' /\ Ready'
  BY <1>2, <1>3 DEF ResumeInv, Waits, Ready, AtRest, Suspending, Saving, Driven
<1>7. StartIsQuiet' /\ Resuming'
  BY <1>2, <1>3 DEF ResumeInv, StartIsQuiet, Resuming
<1> QED BY <1>4, <1>5, <1>6, <1>7 DEF ResumeInv

\* The worker starts with a checkpoint that passes the checks of the restore.
LEMMA RecoveredResumes ==
  ASSUME SagaInv, ResumeInv, Loaded, recovery_starts
  PROVE  ResumeInv'
<1>1. /\ UNCHANGED <<vars, durable, saved, pausing, cancelling, starting>>
      /\ phase = "serving" /\ recovering = "loaded"
  BY DEF recovery_starts
<1>2. /\ UNCHANGED <<task, call, policy, approval, ckpt, phase, graph, mode, saved>>
      /\ UNCHANGED <<pausing, cancelling, starting>>
  BY <1>1 DEF vars, durable
<1>3. /\ starting = "no" /\ worker = "done" /\ ~known
      /\ task \in {"running", "paused", "failed", "cancelled"}
  BY <1>1 DEF SagaInv, Recovering
<1>4. (Live' <=> Live) /\ (Calm' <=> Calm)
  BY <1>2 DEF Live, Calm
<1>5. CASE SavedFitsTask("running")
  <2>1. PICK r \in Runtime : r = saved /\ r.stage \in 0..8 /\ SavedCall = CallOf(r)
    BY DEF SagaInv, SagaTypeOK, Core, SavedFits, Fits, SavedCall, CallOf
  <2>2. /\ rt' = r /\ saved' = r /\ known' /\ worker' = "top" /\ ~stop' /\ Current' = CallOf(r)
    <3>1. rt' = r /\ saved' = r /\ known' /\ worker' = "top" /\ ~stop'
      BY <1>5, <2>1 DEF recovery_starts, start_worker
    <3> QED BY <3>1 DEF Current, CallOf
  <2>3. r.stage >= 3 /\ r.mode = mode /\ graph # "none"
    BY <1>5, <2>1 DEF SavedFitsTask, StageFitsTask
  <2>4. /\ r.stage \in {5, 6} => call[CallOf(r)] = "requested"
        /\ r.stage >= 7 => call[CallOf(r)] = "succeeded" \/ r.reconciled
    BY <1>5, <2>1 DEF SavedFitsTask, StageFitsCall
  <2>5. DurableResume'
    BY <1>2, <1>4, <2>1, <2>2, <2>3 DEF ResumeInv, DurableResume, Grants, GraphKnown, SavedAnswered,
       DispatchedMode, Answered
  <2>6. TaskFits'
    BY <1>2, <1>3, <2>1, <2>2, <2>3 DEF TaskFits, TaskOf, Live, TerminalTask
  <2>7. NextAnswered' /\ InMode' /\ Leased' /\ Held' /\ Proven' /\ Over'
    BY <1>2, <1>4, <2>1, <2>2, <2>3, <2>4 DEF ResumeInv, NextAnswered, InMode, Leased, Held, Proven, Over,
       Saving
  <2>8. Waits' /\ Ready'
    BY <1>1, <1>2, <1>3, <1>4, <2>2, <2>4 DEF Loaded, Waits, Ready, Suspending
  <2>9. StartIsQuiet' /\ Resuming'
    BY <1>1, <1>2, <1>3 DEF StartIsQuiet, Resuming
  <2> QED BY <2>5, <2>6, <2>7, <2>8, <2>9 DEF ResumeInv
<1>6. CASE ~SavedFitsTask("running")
  <2>1. UNCHANGED <<rt, known, worker, stop, fence>>
    BY <1>6 DEF recovery_starts, memory
  <2>2. DurableResume'
    BY <1>1, <2>1, DurableRests
  <2>3. NextAnswered' /\ InMode' /\ Leased' /\ Held' /\ TaskFits' /\ Proven' /\ Over'
    BY <1>2, <1>3, <1>4, <2>1 DEF ResumeInv, NextAnswered, InMode, Leased, Held, TaskFits, Proven, Over,
       Driven, Saving
  <2>4. Waits' /\ Ready'
    BY <1>2, <1>3, <1>4, <2>1 DEF Waits, Ready, AtRest, Suspending
  <2>5. StartIsQuiet' /\ Resuming'
    BY <1>1, <1>2, <1>3 DEF StartIsQuiet, Resuming
  <2> QED BY <2>2, <2>3, <2>4, <2>5 DEF ResumeInv
<1> QED BY <1>5, <1>6

\* ... every decision does ...
LEMMA DecisionsResume ==
  ASSUME SagaInv, ResumeInv, Loaded, Decisions
  PROVE  ResumeInv'
<1>1. CASE approve \/ approve_replayed
  BY <1>1, ApproveResumes
<1>2. CASE approve_continues
  BY <1>2, StartingResumes
<1>3. CASE reject \/ expire
  BY <1>3, RefusalResumes
<1>4. CASE lapse \/ \E c \in Calls, v \in Verdict : decide(c, v)
  BY <1>4, NotingResumes
<1>5. ASSUME NEW c \in Calls,
             recover_graph_terminate(c) \/ recover_graph_succeeded(c) \/ recover_graph_no_effect(c)
      PROVE  ResumeInv'
  BY <1>5, RecoveryKeeps
<1>6. CASE recover_graph_repeated \/ recovery_loads \/ recovery_starts
  BY <1>6, LoadingResumes, RecoveredResumes
<1> QED BY <1>1, <1>2, <1>3, <1>4, <1>5, <1>6 DEF Decisions

-----------------------------------------------------------------------------
(* Crash and startup.                                                      *)

\* Nobody drives the task, and the checkpoint stays as it is.
LEMMA NobodyResumes ==
  ASSUME SagaInv, ResumeInv, UNCHANGED <<mode, policy, saved>>,
         graph' = graph \/ graph' # "none",
         worker' = "done", ~known', fence' => fence /\ rt' = rt, ~stop', starting' = "no",
         cancelling' = "committed" => ~Live', task' = "waiting_approval" => cancelling' # "asked",
         rt'.stage = 0 \/ rt' = rt,
         \/ UNCHANGED <<task, call, approval, ckpt>>
         \/ task' # "waiting_approval" /\ (Live' => \A c \in Calls : approval'[c] # "pending")
            /\ (Live' => approval' = approval /\ Live),
         call'[SavedCall] \in {"running", "unknown"} => call[SavedCall] \in {"running", "unknown"}
  PROVE  ResumeInv'
<1>1. PICK p \in Runtime : p = saved /\ saved' = p /\ SavedCall = CallOf(p)
  BY DEF SagaInv, SagaTypeOK, SavedCall, CallOf
<1>2. DurableResume'
  <2>1. Grants'
    BY DEF ResumeInv, DurableResume, Grants, Live
  <2>2. GraphKnown'
    BY DEF ResumeInv, DurableResume, GraphKnown
  <2>3. SavedAnswered' /\ DispatchedMode'
    BY <1>1 DEF ResumeInv, DurableResume, SavedAnswered, Answered, DispatchedMode
  <2> QED BY <2>1, <2>2, <2>3 DEF DurableResume
<1>3. NextAnswered' /\ InMode' /\ Leased' /\ Held' /\ TaskFits' /\ Proven' /\ Over'
  BY DEF ResumeInv, NextAnswered, InMode, Leased, Held, TaskFits, Proven, Over, Saving, Driven
<1>4. Waits' /\ Ready'
  BY DEF ResumeInv, Waits, Ready, AtRest, Suspending, Driven
<1>5. StartIsQuiet' /\ Resuming'
  BY DEF StartIsQuiet, Resuming
<1> QED BY <1>2, <1>3, <1>4, <1>5 DEF ResumeInv

\* A crash leaves the checkpoint, and nobody who drives the task.
LEMMA CrashResumes ==
  ASSUME SagaInv, ResumeInv, process_crash
  PROVE  ResumeInv'
<1>1. UNCHANGED <<mode, policy, saved, task, call, approval, ckpt, graph>>
  BY DEF process_crash, crash, durable
<1>2. /\ worker' = "done" /\ ~known' /\ ~fence' /\ ~stop' /\ starting' = "no"
      /\ cancelling' \notin {"asked", "committed"}
  BY DEF process_crash
<1>3. rt'.stage = 0
  BY DEF process_crash, FreshRuntime
<1> QED BY <1>1, <1>2, <1>3, NobodyResumes

\* What the startup is allowed to rely on.
LEMMA Starting ==
  ASSUME SagaInv, ResumeInv, phase # "serving"
  PROVE  /\ worker = "done" /\ ~stop /\ starting = "no"
         /\ known => kept = "restored" /\ phase # "restoring"
BY DEF SagaInv, Core, StartupIsQuiet, ResumeInv, StartIsQuiet

\* The startup goes on, and the ledger rests.
LEMMA StartupRests ==
  ASSUME SagaInv, ResumeInv, phase # "serving",
         UNCHANGED <<task, call, policy, approval, ckpt, durable, saved, rt, known, stop, fence, requests>>,
         \/ phase' # "serving" /\ worker' = worker
         \/ phase' = "serving" /\ Activate
  PROVE  ResumeInv'
<1>1. /\ UNCHANGED <<mode, graph, saved, rt, known, fence, cancelling>>
      /\ worker = "done" /\ ~stop' /\ starting = "no" /\ starting' = "no" /\ Current' = Current
  BY Starting DEF durable, requests, Current
<1>2. worker' = "done" \/ (worker' = "top" /\ known /\ task # "waiting_approval")
  BY <1>1 DEF Activate
<1>3. (Live' <=> Live) /\ (Calm' <=> Calm)
  BY <1>1 DEF Live, Calm
<1>4. DurableResume'
  BY <1>1, <1>3 DEF ResumeInv, DurableResume, Grants, GraphKnown, SavedAnswered, DispatchedMode, Answered
<1>5. NextAnswered' /\ InMode' /\ Leased' /\ Held' /\ TaskFits' /\ Proven' /\ Over'
  BY <1>1, <1>2, <1>3 DEF ResumeInv, NextAnswered, InMode, Leased, Held, TaskFits, Proven, Over, Driven,
     Saving
<1>6. Waits'
  BY <1>1, <1>2, <1>3 DEF ResumeInv, Waits, Suspending, Driven
<1>7. Ready'
  BY <1>1, <1>2, <1>3 DEF ResumeInv, Ready, AtRest, Suspending, Saving
<1>8. StartIsQuiet' /\ Resuming'
  BY <1>1 DEF StartIsQuiet, Resuming
<1> QED BY <1>4, <1>5, <1>6, <1>7, <1>8 DEF ResumeInv

\* A checkpoint that passes every check is a runtime at rest.
LEMMA RestoreResumes ==
  ASSUME SagaInv, ResumeInv, restore_runtime
  PROVE  ResumeInv'
<1>1. /\ UNCHANGED <<task, call, policy, approval, ckpt, durable, saved, worker, stop, requests>>
      /\ phase = "restoring" /\ phase' = "approvals" /\ Restorable
  BY DEF restore_runtime, prepare_durable_recovery
<1>2. PICK r \in Runtime : r = saved /\ Fits(r) /\ SavedCall = CallOf(r)
  BY DEF SagaInv, SagaTypeOK, Core, SavedFits, SavedCall, CallOf
<1>3. /\ saved' = r /\ rt' = r /\ known' /\ (fence' => r.stage >= 2) /\ Current' = CallOf(r)
      /\ UNCHANGED <<mode, graph, cancelling>>
      /\ worker' = "done" /\ ~stop' /\ starting' = "no"
  <2>1. saved' = r /\ rt' = r /\ known' /\ (fence' => r.stage >= 2)
    BY <1>1, <1>2 DEF restore_runtime
  <2>2. Current' = CallOf(r)
    BY <2>1 DEF Current, CallOf
  <2>3. UNCHANGED <<mode, graph, cancelling, starting>>
    BY <1>1 DEF durable, requests
  <2> QED BY <1>1, <2>1, <2>2, <2>3, Starting
<1>4. (Live' <=> Live) /\ r.stage \in 0..8
  BY <1>1, <1>2 DEF Live, Fits
<1>5. DurableResume'
  BY <1>1, <1>2, <1>3, <1>4 DEF ResumeInv, DurableResume, Grants, GraphKnown, SavedAnswered,
     DispatchedMode, Answered
<1>6. r.mode = "compensating" => mode' = "compensating"
  BY <1>1, <1>2, <1>3, <1>4 DEF Restorable, SavedFitsTask, Fits
<1>7. task' \in TaskOf(r.stage)
  BY <1>1, <1>2, <1>4 DEF Restorable, SavedFitsTask, StageFitsTask, TaskOf
<1>8. task' = "waiting_approval" => r.stage = 6 /\ r.approval
  <2>1. task' = "waiting_approval" => r.stage = 6
    BY <1>1, <1>2 DEF ResumeInv, Waits, Restorable
  <2> QED BY <1>1, <1>2, <2>1 DEF Restorable, SavedFitsTask, StageFitsApproval
<1>9. /\ r.stage \in {5, 6} => call'[CallOf(r)] = "requested"
      /\ r.stage >= 7 => call'[CallOf(r)] = "succeeded" \/ r.reconciled
      /\ ckpt' = "bound"
  BY <1>1, <1>2, <1>4 DEF Restorable, SavedFitsTask, StageFitsCall
<1>10. NextAnswered' /\ InMode' /\ Leased' /\ Held' /\ TaskFits' /\ Proven'
  BY <1>3, <1>6, <1>7, <1>9 DEF NextAnswered, InMode, Leased, Held, TaskFits, Proven, Saving
<1>11. Over'
  BY <1>3, <1>4 DEF ResumeInv, Over
<1>12. Waits' /\ Ready'
  BY <1>3, <1>8, <1>9 DEF Waits, Ready, Suspending
<1>13. StartIsQuiet' /\ Resuming'
  BY <1>1, <1>3 DEF StartIsQuiet, Resuming
<1> QED BY <1>5, <1>10, <1>11, <1>12, <1>13 DEF ResumeInv

\* The checkpoint is refused, or open approvals have lost their runtime.
LEMMA DroppedResumes ==
  ASSUME SagaInv, ResumeInv, restore_fails \/ (settle_approvals /\ recover_pending_approvals)
  PROVE  ResumeInv'
<1>1. UNCHANGED <<durable, saved, memory, requests>> /\ phase # "serving" /\ phase' # "serving"
  BY DEF restore_fails, settle_approvals, fail_task_checkpoint, recover_pending_approvals
<1>2. worker = "done" /\ ~stop /\ starting = "no" /\ policy' = policy
  BY <1>1, Starting DEF restore_fails, settle_approvals, fail_task_checkpoint,
     recover_pending_approvals
<1>3. /\ ~Live'
      /\ \A c \in Calls : /\ call'[c] = call[c] \/ call'[c] \in {"failed", "cancelled"}
                          /\ call[c] = "succeeded" => call'[c] = "succeeded"
  <2>1. CASE restore_fails
    BY <2>1 DEF restore_fails, fail_task_checkpoint, Journal, Live, TerminalTask
  <2>2. CASE recover_pending_approvals
    BY <2>2, CancelledCalls DEF recover_pending_approvals, Journal, Live, TerminalTask
  <2> QED BY <2>1, <2>2
<1> QED BY <1>1, <1>2, <1>3, EndedResumes DEF durable, memory, requests

\* Interrupted calls are settled: nothing was restored.
LEMMA SettlingResumes ==
  ASSUME SagaInv, ResumeInv, settle_calls
  PROVE  ResumeInv'
<1>1. /\ UNCHANGED <<mode, policy, approval, saved, rt, known, stop, fence, requests>>
      /\ phase = "calls" /\ phase' = "serving" /\ Interrupted(Recoverable) # {}
  BY DEF settle_calls, recover_incomplete_tool_calls
<1>2. ~known /\ worker = "done" /\ ~stop /\ starting = "no"
  BY <1>1, CutIsSaved, Starting
<1>3. worker' = "done"
  BY <1>2 DEF settle_calls, Activate
<1>4. graph' = graph \/ graph' # "none"
  BY DEF settle_calls, SettleGraph
<1>5. /\ task' = "waiting_approval" => ~Live
      /\ Live' => Live /\ task # "waiting_approval"
  BY DEF settle_calls, recover_incomplete_tool_calls, JournalBound, SettledAtStartup,
     ALLOWED_TASK_TRANSITIONS, Live, TerminalTask, TaskStatus
<1>6. task' # "waiting_approval"
  BY <1>5 DEF settle_calls, recover_incomplete_tool_calls, Live, TerminalTask
<1>7. Live' => \A c \in Calls : approval'[c] # "pending"
  BY <1>1, <1>5, NothingPending
<1>8. call'[SavedCall] \in {"running", "unknown"} => call[SavedCall] \in {"running", "unknown"}
  BY CallsAre DEF SagaInv, settle_calls, recover_incomplete_tool_calls
<1>9. /\ cancelling' = "committed" => ~Live'
      /\ ~known' /\ ~stop' /\ starting' = "no" /\ UNCHANGED <<mode, policy, saved, rt>>
  BY <1>1, <1>2, <1>5 DEF ResumeInv, Over, requests
<1>10. (fence' => fence /\ rt' = rt) /\ (Live' => approval' = approval /\ Live)
  BY <1>1, <1>5
<1> QED BY <1>3, <1>4, <1>6, <1>7, <1>8, <1>9, <1>10, NobodyResumes

\* ... and so does every step of the startup.
LEMMA StartupResumes ==
  ASSUME SagaInv, ResumeInv, ProcessStartup
  PROVE  ResumeInv'
<1>1. CASE process_crash
  BY <1>1, CrashResumes
<1>2. CASE restore_runtime
  BY <1>2, RestoreResumes
<1>3. CASE restore_fails \/ (settle_approvals /\ recover_pending_approvals)
  BY <1>3, DroppedResumes
<1>4. CASE settle_calls
  BY <1>4, SettlingResumes
<1>5. CASE restore_skips \/ restore_contended \/ (settle_approvals /\ recover_pending_approvals_skip)
  <2>1. /\ phase # "serving" /\ phase' # "serving"
        /\ UNCHANGED <<task, call, policy, approval, ckpt, durable, saved, memory, requests>>
    BY <1>5 DEF restore_skips, restore_contended, settle_approvals, prepare_durable_recovery_skip,
       prepare_durable_recovery, recover_pending_approvals_skip
  <2> QED BY <2>1, StartupRests DEF memory
<1>6. CASE settle_calls_skip
  <2>1. /\ phase # "serving" /\ phase' = "serving" /\ Activate
        /\ UNCHANGED <<task, call, policy, approval, ckpt, durable, saved, rt, known, stop, fence, requests>>
    BY <1>6 DEF settle_calls_skip, recover_incomplete_tool_calls_skip
  <2> QED BY <2>1, StartupRests
<1>7. settle_approvals => recover_pending_approvals \/ recover_pending_approvals_skip
  BY DEF settle_approvals
<1> QED BY <1>1, <1>2, <1>3, <1>4, <1>5, <1>6, <1>7 DEF ProcessStartup
-----------------------------------------------------------------------------
(* The second invariant.                                                   *)

\* The state create_task leaves satisfies the second invariant.
LEMMA InitResumeInv == SagaInit => ResumeInv
<1> SUFFICES ASSUME SagaInit PROVE ResumeInv
  OBVIOUS
<1>1. /\ rt = FreshRuntime /\ saved = FreshRuntime /\ rt.stage = 0 /\ saved.stage = 0
      /\ rt.mode = "forward" /\ ~rt.approval
  BY DEF SagaInit, FreshRuntime
<1>2. /\ task = "created" /\ phase = "serving" /\ worker = "top" /\ known /\ ~stop /\ ~fence
      /\ starting = "no" /\ cancelling = "no" /\ pausing = "no" /\ ckpt # "stale"
      /\ \A c \in Calls : approval[c] = "none" /\ policy[c] = "none"
  BY DEF SagaInit, Init
<1>3. DurableResume
  BY <1>1, <1>2 DEF DurableResume, Grants, GraphKnown, SavedAnswered, DispatchedMode, Answered
<1>4. NextAnswered /\ InMode /\ Leased /\ Held /\ TaskFits /\ Waits /\ Ready /\ Proven
  BY <1>1, <1>2 DEF NextAnswered, InMode, Leased, Held, TaskFits, TaskOf, Waits, Ready, Proven, Saving,
     Suspending
<1>5. Over /\ StartIsQuiet /\ Resuming
  BY <1>2 DEF Over, StartIsQuiet, Resuming
<1> QED BY <1>3, <1>4, <1>5 DEF ResumeInv

\* Every step keeps it.
LEMMA NextResumeInv == SagaInv /\ ResumeInv /\ Loaded /\ [SagaNext]_sagaVars => ResumeInv'
<1> SUFFICES ASSUME SagaInv, ResumeInv, Loaded, [SagaNext]_sagaVars PROVE ResumeInv'
  OBVIOUS
<1>1. CASE Worker
  BY <1>1, WorkerDurable, WorkerResumes DEF ResumeInv, RuntimeInv
<1>2. CASE Control \/ Decisions \/ ProcessStartup
  BY <1>2, ControlResumes, DecisionsResume, StartupResumes
<1>3. CASE UNCHANGED sagaVars
  <2>1. /\ UNCHANGED <<task, call, policy, approval, ckpt, phase, graph, mode, saved>>
        /\ UNCHANGED <<rt, known, worker, stop, fence, pausing, cancelling, starting>>
    BY <1>3 DEF sagaVars, vars, durable, memory, requests
  <2>2. DurableResume'
    BY <2>1 DEF ResumeInv, DurableResume, Grants, GraphKnown, SavedAnswered, DispatchedMode, Answered, Live
  <2>3. NextAnswered' /\ InMode' /\ Leased' /\ Held' /\ TaskFits' /\ Proven' /\ Over'
    BY <2>1 DEF ResumeInv, NextAnswered, InMode, Leased, Held, TaskFits, Proven, Over, Driven,
       Saving, Answered, Live, Calm, Current
  <2>4. Waits' /\ Ready' /\ StartIsQuiet' /\ Resuming'
    BY <2>1 DEF ResumeInv, Waits, Ready, AtRest, Suspending, Saving, Driven, StartIsQuiet, Resuming,
       Live, Calm, Current
  <2> QED BY <2>2, <2>3, <2>4 DEF ResumeInv
<1> QED BY <1>1, <1>2, <1>3 DEF SagaNext

-----------------------------------------------------------------------------
(* The checkpoint that is bound.                                           *)

\* A transaction that only appends events leaves the checkpoint behind.
LEMMA JournalUnbinds ==
  ASSUME NEW t, Journal(t)
  PROVE  ckpt' # "bound" /\ task' = t
BY DEF Journal

\* A cancel that closes a call under the task is not calm.
LEMMA ClosedOrAlone ==
  ASSUME SagaInv, CloseCall
  PROVE  UNCHANGED vars \/ \E c \in Calls : call'[c] = "cancelled"
<1>1. Current \in Calls /\ call \in [Calls -> ToolCallStatus]
  BY CallsAre DEF SagaInv, IInv, TypeOK
<1> QED BY <1>1 DEF CloseCall, finish_tool_call

\* Until the worker starts, a step writes no event, binds the checkpoint to its
\* own, or is not calm.
LEMMA NextLoaded == SagaInv /\ ResumeInv /\ Loaded /\ [SagaNext]_sagaVars => Loaded'
<1> SUFFICES ASSUME SagaInv, ResumeInv, Loaded, [SagaNext]_sagaVars, recovering' = "loaded", Calm'
             PROVE  ckpt' # "stale"
  BY DEF Loaded
<1>l. Live'
  BY DEF Calm
<1>1. CASE recovering # "loaded"
  <2>1. Decisions
    BY <1>1, RecoveringFrame DEF SagaNext
  <2>2. CASE recovery_loads
    BY <2>2 DEF recovery_loads, vars
  <2>3. CASE approve \/ approve_replayed \/ approve_continues \/ reject \/ expire \/ lapse
             \/ recover_graph_repeated \/ recovery_starts
    BY <1>1, <2>3 DEF approve, approve_replayed, approve_continues, reject, expire, lapse,
       recover_graph_repeated, recovery_starts, requests
  <2>4. ASSUME NEW c \in Calls, \E v \in Verdict \ {"none"} : decide(c, v) PROVE FALSE
    BY <1>1, <2>4 DEF decide, requests
  <2>5. ASSUME NEW c \in Calls,
               recover_graph_terminate(c) \/ recover_graph_succeeded(c) \/ recover_graph_no_effect(c)
        PROVE  FALSE
    BY <1>1, <2>5 DEF recover_graph_terminate, recover_graph_succeeded, recover_graph_no_effect,
       Resume, requests
  <2> QED BY <2>1, <2>2, <2>3, <2>4, <2>5 DEF Decisions
<1>2. CASE recovering = "loaded"
  <2>1. /\ phase = "serving" /\ starting = "no" /\ worker = "done" /\ ~known
        /\ task # "waiting_reconciliation"
    BY <1>2 DEF SagaInv, Recovering
  <2>2. CASE UNCHANGED <<task, call, ckpt>> /\ (cancelling' = "no" => cancelling = "no")
    BY <1>2, <2>2 DEF Loaded, Calm, Live
  <2>3. CASE Worker
    BY <2>1, <2>3, WorkerFrame
  <2>4. CASE Control
    <3>1. ~(lease_lost \/ resume_starts \/ resume \/ cancel_idle \/ cancel_asks_worker)
      BY <2>1 DEF lease_lost, resume_starts, resume, can_resume, cancel_idle, cancel_asks_worker
    <3>2. CASE pause_asks \/ pause_waited \/ cancel_unowned
      BY <2>2, <3>2 DEF pause_asks, pause_waited, cancel_unowned, vars
    <3>3. CASE cancel_forgets
      BY <1>l, <3>3 DEF cancel_forgets, ResumeInv, Over, Live, vars
    <3>4. CASE pause_commits
      BY <2>2, <3>4 DEF pause_commits, transition_task, JournalBound, vars
    <3>5. CASE cancel_closes_call
      <4>1. CloseCall /\ cancelling = "asked" /\ cancelling' = "closed"
        BY <3>5 DEF cancel_closes_call
      <4>2. UNCHANGED vars
        BY <4>1, ClosedOrAlone DEF Calm
      <4> QED BY <2>2, <4>1, <4>2 DEF vars
    <3>6. CASE cancel_commits
      BY <1>l, <3>6 DEF cancel_commits, cancel_task, Journal, Live, TerminalTask, vars
    <3> QED BY <2>4, <3>1, <3>2, <3>3, <3>4, <3>5, <3>6 DEF Control
  <2>5. CASE Decisions
    <3>1. ~(approve \/ approve_replayed \/ approve_continues \/ recover_graph_repeated
            \/ recovery_loads \/ recovery_starts)
      BY <1>2, <2>1 DEF approve, approve_replayed, approve_continues, WaitsForApproval,
         recover_graph_repeated, recovery_loads, recovery_starts
    <3>2. CASE reject \/ expire
      BY <1>l, <3>2 DEF reject, expire, resolve_approval_reject, resolve_approval_expired,
         CloseBatch, Journal, Live, TerminalTask
    <3>3. CASE lapse \/ \E c \in Calls, v \in Verdict : decide(c, v)
      BY <2>2, <3>3 DEF lapse, approval_lapses, decide, resolve_reconciliation, requests
    <3>4. ASSUME NEW c \in Calls,
                 recover_graph_terminate(c) \/ recover_graph_succeeded(c) \/ recover_graph_no_effect(c)
          PROVE  FALSE
      <4>1. task = "waiting_reconciliation"
        BY <3>4 DEF recover_graph_terminate, recover_graph_succeeded, recover_graph_no_effect,
           recover_reconciliation_graph
      <4> QED BY <2>1, <4>1
    <3> QED BY <2>5, <3>1, <3>2, <3>3, <3>4 DEF Decisions
  <2>6. CASE ProcessStartup
    <3>1. ~process_crash
      BY DEF process_crash
    <3> QED BY <2>1, <2>6, <3>1 DEF ProcessStartup, restore_skips, prepare_durable_recovery_skip,
         restore_runtime, restore_contended, prepare_durable_recovery, restore_fails,
         fail_task_checkpoint, settle_approvals, recover_pending_approvals,
         recover_pending_approvals_skip, settle_calls_skip, recover_incomplete_tool_calls_skip,
         settle_calls, recover_incomplete_tool_calls
  <2>7. CASE UNCHANGED sagaVars
    BY <2>2, <2>7 DEF sagaVars, vars, requests
  <2> QED BY <2>3, <2>4, <2>5, <2>6, <2>7 DEF SagaNext
<1> QED BY <1>1, <1>2

\* The rows the checks read, and the payload they check.
checked == <<task, call, policy, approval, consumed, ckpt, graph, mode, node, saved>>

\* A bound checkpoint of a task that neither waits for a person nor has a call
\* open at the Runner or closed by a cancel.
Quiet ==
  /\ ckpt = "bound" /\ Live /\ task \notin {"paused", "waiting_reconciliation"}
  /\ \A c \in Calls : call[c] \notin {"running", "cancelled"}

\* A step that writes none of the rows.
LEMMA CheckedRows ==
  ASSUME BoundCheckpointFits, UNCHANGED checked, Quiet'
  PROVE  SavedFitsTask(task)'
<1>1. Quiet /\ (SavedFitsTask(task)' <=> SavedFitsTask(task))
  BY DEF checked, Quiet, Live, SavedFitsTask, StageFitsTask, StageFitsNode, StageFitsCall,
     StageFitsApproval, SavedCall
<1> QED BY <1>1 DEF BoundCheckpointFits, Quiet

\* A step after which the runtime rests, and is the checkpoint.
LEMMA RestsNow ==
  ASSUME SagaInv', ResumeInv', Quiet', AtRest', saved' = rt'
  PROVE  SavedFitsTask(task)'
<1>1. Calm' /\ task' # "paused"
  BY DEF Quiet, Calm
<1> QED BY <1>1, RestFitsTaskNext

\* The worker writes the checkpoint with the runtime it goes on with.
LEMMA WorkerBound ==
  ASSUME SagaInv, ResumeInv, SagaInv', ResumeInv', BoundCheckpointFits, Quiet', Worker
  PROVE  SavedFitsTask(task)'
<1>b. ckpt' = "bound"
  BY DEF Quiet
<1>1. CASE \/ stage_0_classifying \/ stage_1_plan \/ ensure_effect_graph \/ stage_2_running
           \/ stage_3_start_node \/ stage_3_step_started \/ stage_4_saga_conflict \/ stage_5_denied_node
           \/ stage_7_step_completed \/ stage_7_close_graph \/ stage_8_completed \/ fail_task
  BY <1>b, <1>1, JournalUnbinds DEF stage_0_classifying, stage_1_plan, ensure_effect_graph,
     stage_2_running, stage_3_start_node, stage_3_step_started, stage_4_saga_conflict,
     stage_5_denied_node, stage_7_step_completed, stage_7_close_graph, stage_8_completed, fail_task,
     append_event, append_progress, record_event
<1>2. CASE stage_5_allow \/ stage_5_require_approval \/ stage_5_deny \/ stage_6_expired
  BY <1>b, <1>2, JournalUnbinds DEF stage_5_allow, stage_5_require_approval, stage_5_deny,
     stage_6_expired, apply_policy_decision_allow, apply_policy_decision_require_approval,
     apply_policy_decision_deny, start_tool_call_expired
<1>3. CASE \/ worker_stops \/ stage_1_raises \/ stage_4_raises \/ stage_5_raises \/ stage_call_gone
           \/ suspend_reads_approval \/ suspend_leaves \/ worker_is_fenced
           \/ worker_finds_task_ended \/ worker_is_refused
  <2>1. UNCHANGED checked
    BY <1>3 DEF worker_stops, stage_1_raises, stage_4_raises, stage_5_raises, stage_call_gone,
       suspend_reads_approval, suspend_leaves, worker_is_fenced, worker_finds_task_ended,
       worker_is_refused, checked, vars, durable
  <2> QED BY <2>1, CheckedRows
<1>4. CASE record_exception
  <2>1. CASE append_event("failed")
    BY <1>b, <2>1, JournalUnbinds DEF append_event
  <2>2. CASE UNCHANGED vars
    <3>1. UNCHANGED checked
      BY <1>4, <2>2 DEF record_exception, checked, vars, durable
    <3> QED BY <3>1, CheckedRows
  <2> QED BY <1>4, <2>1, <2>2 DEF record_exception
<1>5. CASE stage_4_request \/ runner_succeeded
  <2>1. rt \in Runtime /\ rt.stage = (IF stage_4_request THEN 4 ELSE 6)
    BY <1>5 DEF stage_4_request, runner_succeeded, At, In, SagaInv, SagaTypeOK, Core, AtPlace
  <2>2. Advance /\ saved' = [rt EXCEPT !.stage = @ + 1]
    <3>1. CASE stage_4_request
      BY <2>1, <3>1 DEF stage_4_request
    <3>2. CASE runner_succeeded /\ ~stage_4_request
      BY <2>1, <3>2 DEF runner_succeeded
    <3> QED BY <1>5, <3>1, <3>2
  <2> QED BY <2>2, RestsNow DEF Advance, AtRest
<1>6. ASSUME NEW t \in {"failed", "cancelled"}, FinishFailure(t) PROVE SavedFitsTask(task)'
  <2>1. CASE HasAppliedPredecessor
    <3>1. saved' = rt' /\ worker' = "save"
      BY <1>6, <2>1 DEF FinishFailure, AfterFailure
    <3> QED BY <3>1, RestsNow DEF AtRest
  <2>2. CASE ~HasAppliedPredecessor
    <3>1. Journal(task)
      BY <1>6, <2>2 DEF FinishFailure, finish_effect_tool_call
    <3> QED BY <1>b, <3>1, JournalUnbinds
  <2> QED BY <2>1, <2>2
<1>7. CASE stage_6_runner_not_ready \/ runner_failed("failed") \/ runner_failed("cancelled")
  BY <1>6, <1>7 DEF stage_6_runner_not_ready, runner_failed
<1>8. ~stage_6_start
  <2> SUFFICES ASSUME stage_6_start PROVE FALSE
    OBVIOUS
  <2>1. call'[Current] = "running" /\ Current \in Calls
    BY CallsAre DEF stage_6_start, start_tool_call, SagaInv, IInv, TypeOK
  <2> QED BY <2>1 DEF Quiet
<1>9. ~runner_unknown
  BY DEF runner_unknown, finish_effect_tool_call, JournalBound, Quiet, Live, TerminalTask
<1>10. CASE save_checkpoint
  <2>1. saved' = rt' /\ worker' \in {"top", "suspended"}
    BY <1>10 DEF save_checkpoint
  <2> QED BY <2>1, RestsNow DEF AtRest, Suspending
<1> QED BY <1>1, <1>2, <1>3, <1>4, <1>5, <1>7, <1>8, <1>9, <1>10 DEF Worker

\* A request that binds the checkpoint finds the runtime at rest, or pauses.
LEMMA ControlBound ==
  ASSUME SagaInv, ResumeInv, SagaInv', ResumeInv', BoundCheckpointFits, Quiet', Control
  PROVE  SavedFitsTask(task)'
<1>1. CASE \/ lease_lost \/ pause_asks \/ pause_waited \/ resume_starts \/ cancel_asks_worker
           \/ cancel_unowned \/ cancel_forgets
  <2>1. UNCHANGED checked
    BY <1>1 DEF lease_lost, pause_asks, pause_waited, resume_starts, cancel_asks_worker,
       cancel_unowned, cancel_forgets, checked, vars, durable
  <2> QED BY <2>1, CheckedRows
<1>2. CASE pause_commits
  <2>1. UNCHANGED vars
    BY <1>2 DEF pause_commits, transition_task, JournalBound, Quiet
  <2>2. UNCHANGED checked
    BY <1>2, <2>1 DEF pause_commits, checked, vars, durable
  <2> QED BY <2>2, CheckedRows
<1>3. CASE resume
  <2>1. known /\ worker = "done" /\ UNCHANGED <<rt, known, worker, saved>>
    BY <1>3 DEF resume, can_resume, memory
  <2>2. saved' = rt' /\ AtRest'
    BY <2>1 DEF SagaInv, Core, RtIsSaved, Driven, Saving, AtRest
  <2> QED BY <2>2, RestsNow
<1>4. CASE cancel_idle \/ cancel_closes_call
  <2>1. CloseCall /\ UNCHANGED <<durable, saved>>
    BY <1>4 DEF cancel_idle, cancel_closes_call
  <2>2. UNCHANGED checked
    BY <2>1, ClosedOrAlone DEF Quiet, checked, vars, durable
  <2> QED BY <2>2, CheckedRows
<1>5. CASE cancel_commits
  <2>1. ~Live'
    BY <1>5 DEF cancel_commits, cancel_task, Journal, vars, Live, TerminalTask
  <2> QED BY <2>1 DEF Quiet
<1> QED BY <1>1, <1>2, <1>3, <1>4, <1>5 DEF Control

\* The answer may come before the suspended runtime is saved: the checkpoint is
\* still the one before it, or from before a restart, and names the same call.
LEMMA ApprovedBound ==
  ASSUME SagaInv, ResumeInv, SagaInv', ResumeInv', Quiet', approve
  PROVE  SavedFitsTask(task)'
<1>1. /\ UNCHANGED <<graph, mode, node, saved, rt, known, worker, call, policy, consumed>>
      /\ known /\ rt.stage = 6 /\ rt.approval
      /\ task = "waiting_approval" /\ approval[Current] = "pending"
      /\ approval' = [approval EXCEPT ![Current] = "approved"]
      /\ task' \in {"running", "waiting_approval"}
  BY DEF approve, WaitsForApproval, resolve_approval_approve, ApprovalMayResolve, JournalBound,
     durable, memory
<1>2. Suspending \/ worker = "done"
  BY <1>1 DEF ResumeInv, Waits, Driven
<1>3. CASE ~Saving
  <2>1. saved' = rt' /\ AtRest'
    BY <1>1, <1>2, <1>3 DEF SagaInv, Core, RtIsSaved, Driven, AtRest, Suspending
  <2> QED BY <2>1, RestsNow
<1>4. CASE Saving
  <2>1. worker = "save_suspend" /\ Live
    BY <1>1, <1>2, <1>4 DEF Saving, Suspending, Live, TerminalTask
  <2>2. PICK p \in Runtime : p = saved /\ Fits(p)
    BY DEF SagaInv, SagaTypeOK, Core, SavedFits
  <2>3. PICK r \in Runtime : r = rt /\ Fits(r)
    BY <1>4 DEF SagaInv, SagaTypeOK, Core, NextFits
  <2>4. /\ Current \in Calls /\ Current = CallOf(r) /\ saved' = p /\ SavedCall' = CallOf(p)
        /\ r.mode \in {"forward", "compensating"} /\ CallOf(p) \in Calls
    BY <1>1, <2>2, <2>3, CallsAre, RuntimeIs DEF SagaInv, Current, CallOf, SavedCall, Modes
  <2>5. call[Current] = "requested"
    BY <1>1, <2>1, <2>4 DEF ResumeInv, DurableResume, Grants
  <2>6. CallOf(p) = Current /\ p.mode = r.mode /\ p.index = r.index /\ p.stage \in {5, 6}
    <3>1. CallOf(p) = Current
      BY <2>2, <2>4, <2>5 DEF Fits, NotDue
    <3>2. p.stage \in {5, 6}
      BY <2>2, <2>5, <3>1 DEF Fits, StatusOf
    <3> QED BY <2>4, <3>1, <3>2 DEF CallOf
  <2>7. node[r.index] = IF r.mode = "forward" THEN "active" ELSE "compensating"
    BY <1>1, <2>1, <2>3, <2>4 DEF SagaInv, Core, AtPlace, RestOf
  <2>8. graph # "none" /\ r.mode = mode
    <3>1. graph # "none"
      BY <1>1 DEF ResumeInv, DurableResume, GraphKnown
    <3>2. Calm
      <4>1. cancelling' = cancelling
        BY DEF approve
      <4>2. \A c \in Calls : call[c] # "cancelled"
        BY <1>1 DEF Quiet
      <4> QED BY <2>1, <4>2 DEF Calm
    <3>3. r.mode = "compensating" => mode = "compensating"
      BY <1>1, <2>1, <2>3, <3>2 DEF ResumeInv, InMode, Driven
    <3>4. mode \in {"forward", "compensating"}
      BY DEF SagaInv, SagaTypeOK, Modes
    <3>5. r.mode = "forward" => mode = "forward"
      BY <2>3, <2>7, <3>4 DEF Fits
    <3> QED BY <2>4, <3>1, <3>3, <3>5
  <2>9. policy[Current] = "require_approval" /\ approval'[Current] = "approved" /\ Current \notin consumed
    <3>1. policy[Current] = "require_approval"
      BY <1>1, <1>4, <2>3, <2>4 DEF ResumeInv, NextAnswered, Answered
    <3>2. approval'[Current] = "approved"
      BY <1>1, <2>4 DEF SagaInv, IInv, TypeOK
    <3>3. Current \notin consumed
      BY <2>5 DEF SagaInv, IInv, SpentIsDispatched
    <3> QED BY <3>1, <3>2, <3>3
  <2>10. task' = "running"
    <3> SUFFICES ASSUME task' = "waiting_approval" PROVE FALSE
      BY <1>1
    <3>1. PICK c \in Calls : approval'[c] = "pending"
      BY DEF SagaInv, IInv, WaitingIsBacked
    <3>2. approval[c] = "pending" /\ c # Current
      BY <1>1, <2>9, <3>1 DEF SagaInv, IInv, TypeOK
    <3>3. call[c] = "requested"
      BY <2>1, <3>2 DEF ResumeInv, DurableResume, Grants
    <3> QED BY <2>3, <2>4, <3>2, <3>3 DEF Fits, NotDue
  <2>11. p.stage = 6 => p.approval
    BY <2>2, <2>6, <2>9 DEF ResumeInv, DurableResume, SavedAnswered, Answered
  <2>12. StageFitsTask(task)' /\ StageFitsNode' /\ StageFitsCall'
    BY <1>1, <2>4, <2>5, <2>6, <2>7, <2>10 DEF StageFitsTask, StageFitsNode, StageFitsCall
  <2>13. StageFitsApproval(task)'
    BY <1>1, <2>4, <2>6, <2>9, <2>10, <2>11 DEF StageFitsApproval
  <2> QED BY <1>1, <2>4, <2>6, <2>8, <2>12, <2>13 DEF SavedFitsTask
<1> QED BY <1>3, <1>4

\* A verdict rewrites the checkpoint: the effect is there, and the stage after
\* the dispatch goes on.
LEMMA ConfirmedBound ==
  ASSUME SagaInv, ResumeInv, SagaInv', NEW c \in Calls, recover_graph_succeeded(c)
  PROVE  SavedFitsTask(task)'
<1>1. /\ recover_reconciliation_graph(c, "running") /\ mode' = mode /\ graph' # "none"
      /\ saved' = [saved EXCEPT !.stage = 7, !.reconciled = TRUE]
      /\ node' = [node EXCEPT ![c[2]] = IF c[1] = "compensating" THEN "compensated" ELSE "succeeded"]
  BY DEF recover_graph_succeeded, Resume, SetNode
<1>2. PICK r \in Runtime : /\ r = saved /\ r.stage = 6 /\ c = CallOf(r) /\ c[2] = r.index
                           /\ call[c] = "unknown" /\ task' = "running" /\ UNCHANGED call
  BY <1>1, AppliedCase
<1>3. UNCHANGED <<policy, approval, consumed>> /\ task = "waiting_reconciliation"
  BY <1>1 DEF recover_reconciliation_graph
<1>4. PICK t \in Runtime : /\ saved' = t /\ t.stage = 7 /\ t.reconciled /\ t.mode = r.mode
                           /\ t.index = r.index /\ t.approval = r.approval /\ SavedCall' = c
  <2> DEFINE u == [r EXCEPT !.stage = 7, !.reconciled = TRUE]
  <2>1. u \in Runtime /\ u.stage = 7 /\ u.index = r.index /\ u.mode = r.mode
    BY SpecialPayloads
  <2>2. u.reconciled /\ u.approval = r.approval
    BY DEF Runtime
  <2>3. saved' = u
    BY <1>1, <1>2
  <2> HIDE DEF u
  <2>4. SavedCall' = c
    BY <1>2, <2>1, <2>3 DEF SavedCall, CallOf
  <2> QED BY <2>1, <2>2, <2>3, <2>4
<1>5. r.mode = mode
  BY <1>2 DEF ResumeInv, DurableResume, DispatchedMode
<1>6. node'[t.index] \in {"succeeded", "compensated"}
  BY <1>1, <1>2, <1>4, RuntimeIs DEF SagaInv, SagaTypeOK
<1>7. /\ r.approval <=> policy[c] = "require_approval"
      /\ policy[c] = "require_approval" => approval[c] = "approved" /\ c \in consumed
  <2>1. r.approval <=> policy[c] = "require_approval"
    BY <1>2 DEF ResumeInv, DurableResume, SavedAnswered, Answered
  <2>2. policy[c] = "require_approval" => approval[c] = "approved"
    BY <1>3 DEF ResumeInv, DurableResume, Grants, Live, TerminalTask
  <2>3. policy[c] = "require_approval" => c \in consumed
    BY <1>2 DEF SagaInv, IInv, AuthorizedDispatch
  <2> QED BY <2>1, <2>2, <2>3
<1>8. StageFitsTask(task)' /\ StageFitsNode' /\ StageFitsCall'
  BY <1>2, <1>4, <1>6 DEF StageFitsTask, StageFitsNode, StageFitsCall
<1>9. StageFitsApproval(task)'
  BY <1>2, <1>3, <1>4, <1>7 DEF StageFitsApproval
<1> QED BY <1>1, <1>4, <1>5, <1>8, <1>9 DEF SavedFitsTask

\* The effect is not there, and the node before it is compensated.
LEMMA RefutedBound ==
  ASSUME SagaInv, ResumeInv, Quiet', NEW c \in Calls, recover_graph_no_effect(c)
  PROVE  SavedFitsTask(task)'
<1>1. c[1] = "forward" /\ c[2] > 1
  <2> SUFFICES ASSUME ~(c[1] = "forward" /\ c[2] > 1) PROVE FALSE
    OBVIOUS
  <2>1. recover_reconciliation_graph(c, "failed")
    BY DEF recover_graph_no_effect
  <2> QED BY <2>1 DEF recover_reconciliation_graph, JournalBound, Quiet, Live, TerminalTask
<1>2. /\ recover_reconciliation_graph(c, "running") /\ graph' = "compensating"
      /\ mode' = "compensating" /\ saved' = CompensationOf(c[2])
      /\ node' = [node EXCEPT ![c[2]] = "failed"]
  BY <1>1 DEF recover_graph_no_effect, Resume, SetNode
<1>3. PICK r \in Runtime : /\ r = saved /\ Fits(r) /\ c[2] = r.index /\ task' = "running"
  BY <1>2, AppliedCase
<1>4. PICK t \in Runtime : /\ saved' = t /\ t.stage = 3 /\ t.index = c[2] - 1
                           /\ t.mode = "compensating" /\ t.index \in Nodes
  <2>1. c[2] \in Nodes
    BY CallsAre
  <2> QED BY <1>1, <1>2, <2>1, CompensationIs, RuntimeIs
<1>5. node'[t.index] = "succeeded"
  <2>1. node[t.index] = "succeeded" /\ t.index # c[2]
    BY <1>1, <1>3, <1>4, CallsAre DEF Fits, Frontier, Nodes
  <2> QED BY <1>2, <1>4, <2>1 DEF SagaInv, SagaTypeOK
<1>6. StageFitsTask(task)' /\ StageFitsNode' /\ StageFitsCall' /\ StageFitsApproval(task)'
  BY <1>3, <1>4, <1>5 DEF StageFitsTask, StageFitsNode, StageFitsCall, StageFitsApproval
<1> QED BY <1>2, <1>4, <1>6 DEF SavedFitsTask

\* Decisions bind the checkpoint, and a verdict rewrites it.
LEMMA DecisionsBound ==
  ASSUME SagaInv, ResumeInv, SagaInv', ResumeInv', BoundCheckpointFits, Quiet', Decisions
  PROVE  SavedFitsTask(task)'
<1>1. CASE approve
  BY <1>1, ApprovedBound
<1>2. CASE \/ approve_replayed \/ approve_continues \/ lapse
           \/ \E c \in Calls, v \in Verdict : decide(c, v)
           \/ recover_graph_repeated \/ recovery_loads \/ recovery_starts
  <2>1. UNCHANGED checked
    BY <1>2 DEF approve_replayed, approve_continues, lapse, approval_lapses, decide,
       resolve_reconciliation, recover_graph_repeated, recovery_loads, recovery_starts,
       checked, vars, durable
  <2> QED BY <2>1, CheckedRows
<1>3. ~(reject \/ expire)
  BY DEF reject, expire, resolve_approval_reject, resolve_approval_expired, CloseBatch, Journal,
     Quiet, Live, TerminalTask
<1>4. ASSUME NEW c \in Calls, recover_graph_terminate(c) PROVE FALSE
  BY <1>4 DEF recover_graph_terminate, recover_reconciliation_graph, JournalBound, Quiet, Live,
     TerminalTask
<1>5. ASSUME NEW c \in Calls, recover_graph_succeeded(c) \/ recover_graph_no_effect(c)
      PROVE  SavedFitsTask(task)'
  BY <1>5, ConfirmedBound, RefutedBound
<1> QED BY <1>1, <1>2, <1>3, <1>4, <1>5 DEF Decisions

\* The startup binds the checkpoint of a task that waits for a person only.
LEMMA StartupBound ==
  ASSUME SagaInv, ResumeInv, BoundCheckpointFits, Quiet', ProcessStartup
  PROVE  SavedFitsTask(task)'
<1>1. CASE \/ process_crash \/ restore_skips \/ restore_runtime \/ restore_contended
           \/ (settle_approvals /\ recover_pending_approvals_skip) \/ settle_calls_skip
  <2>1. UNCHANGED checked
    BY <1>1 DEF process_crash, crash, restore_skips, prepare_durable_recovery_skip,
       restore_runtime, restore_contended, prepare_durable_recovery, settle_approvals,
       recover_pending_approvals_skip, settle_calls_skip, recover_incomplete_tool_calls_skip,
       checked, durable
  <2> QED BY <2>1, CheckedRows
<1>2. ~restore_fails
  BY JournalUnbinds DEF restore_fails, fail_task_checkpoint, Quiet
<1>3. ~(settle_approvals /\ recover_pending_approvals)
  BY DEF recover_pending_approvals, Journal, Quiet, Live, TerminalTask
<1>4. ~settle_calls
  BY DEF settle_calls, recover_incomplete_tool_calls, SettledAtStartup, JournalBound, Quiet, Live,
     TerminalTask
<1> QED BY <1>1, <1>2, <1>3, <1>4 DEF ProcessStartup, settle_approvals

\* Every step keeps a bound checkpoint true.
LEMMA NextBound ==
  SagaInv /\ ResumeInv /\ Loaded /\ BoundCheckpointFits /\ [SagaNext]_sagaVars
  => BoundCheckpointFits'
<1> SUFFICES ASSUME SagaInv, ResumeInv, Loaded, BoundCheckpointFits, [SagaNext]_sagaVars, Quiet'
             PROVE  SavedFitsTask(task)'
  BY DEF BoundCheckpointFits, Quiet
<1>1. SagaInv' /\ ResumeInv'
  BY NextSagaInv, NextResumeInv
<1>2. CASE Worker
  BY <1>1, <1>2, WorkerBound
<1>3. CASE Control
  BY <1>1, <1>3, ControlBound
<1>4. CASE Decisions
  BY <1>1, <1>4, DecisionsBound
<1>5. CASE ProcessStartup
  BY <1>5, StartupBound
<1>6. CASE UNCHANGED sagaVars
  <2>1. UNCHANGED checked
    BY <1>6 DEF checked, sagaVars, vars, durable
  <2> QED BY <2>1, CheckedRows
<1> QED BY <1>2, <1>3, <1>4, <1>5, <1>6 DEF SagaNext

\* The first checkpoint is that of a task which has only been created.
LEMMA InitBound == SagaInit => Loaded /\ BoundCheckpointFits
<1> SUFFICES ASSUME SagaInit PROVE Loaded /\ BoundCheckpointFits
  OBVIOUS
<1>1. saved.stage = 0 /\ task = "created" /\ recovering = "no"
  BY DEF SagaInit, Init, FreshRuntime
<1>2. SavedFitsTask(task)
  BY <1>1 DEF SavedFitsTask, StageFitsTask, StageFitsNode, StageFitsCall, StageFitsApproval
<1> QED BY <1>1, <1>2 DEF Loaded, BoundCheckpointFits

\* The invariants hold always.
LEMMA ResumeInductiveInvariant ==
  SagaSpec => [](SagaInv /\ ResumeInv /\ Loaded /\ BoundCheckpointFits)
BY InitSagaInv, InitResumeInv, InitBound, NextSagaInv, NextResumeInv, NextLoaded, NextBound, PTL
   DEF SagaSpec

\* A checkpoint bound to the last event of its task agrees with the graph, the
\* call and the approval, whichever of its writers came last: a stage, a pause
\* taken back, an approval, a verdict whose request has not started the worker
\* yet or failed to, a crash in between.  Exempt are a paused task, one that
\* waits for a verdict, a call at the Runner and a call a cancel has closed.
THEOREM BoundCheckpointsFit == SagaSpec => []BoundCheckpointFits
BY ResumeInductiveInvariant, PTL

\* The end of the process between two stages loses nothing: the checkpoint is
\* the runtime the worker would have gone on with, and _runtime_from_checkpoint
\* accepts it, whatever the worker, the requests and earlier crashes have done.
THEOREM CrashIsHarmless == SagaSpec => []CrashBetweenStagesIsHarmless
<1>1. SagaInv /\ ResumeInv => CrashBetweenStagesIsHarmless
  <2> SUFFICES ASSUME SagaInv, ResumeInv,
                      In("top"), Live, task # "paused", cancelling = "no", ckpt # "none"
               PROVE  Restorable /\ saved = rt
    BY DEF CrashBetweenStagesIsHarmless
  <2>1. worker = "top" /\ AtRest /\ Calm
    BY DEF In, AtRest, Calm
  <2>2. rt = saved
    BY <2>1 DEF SagaInv, Core, RtIsSaved, Driven, Saving
  <2>3. ckpt = "bound"
    BY <2>1 DEF SagaInv, IInv, TypeOK, ResumeInv, Ready, Saving
  <2> QED BY <2>1, <2>2, <2>3, RestFitsTask DEF Restorable
<1> QED BY <1>1, ResumeInductiveInvariant, PTL

=============================================================================
