----------------------------- MODULE RunnerCalls -----------------------------
(***************************************************************************)
(* Calls of the brokered Tool file.move from the control plane to the Tool *)
(* Runner and back:                                                        *)
(*                                                                         *)
(*   caller --call_tool--> RunnerSupervisor --> RunnerClient               *)
(*        --inbox (pipe)--> RunnerServer --pool thread--> commit provider  *)
(*        <--outbox (pipe)--     |                           |             *)
(*                        boundary, cancellation      receipt journal,file *)
(*                                                                         *)
(* The server is one loop; the threads of its pool commit concurrently     *)
(* with it, and the two meet only in the commit boundary (a lock) and the  *)
(* cancellation event.  The journal and the file outlive the process.  The *)
(* supervisor replaces a failed process by a new generation, which settles *)
(* the journal before it says hello.                                       *)
(*                                                                         *)
(* The control plane sends a call once (a call whose answer is lost goes   *)
(* to reconciliation), so the refusals of a call id sent again have no     *)
(* action here.  Signatures, nonces and schemas are abstracted to: a frame *)
(* of another session is never read, and a frame may be refused.           *)
(***************************************************************************)
EXTENDS Naturals, FiniteSets, Sequences

CONSTANTS
    Calls,          \* call ids; every call moves a file of its own
    Threshold,      \* circuit_failure_threshold
    Deployments     \* the configurations the first state chooses among

\* One deployment: the calls made, cancelled and asked about, the pool's
\* threads, MAX_ACTIVE_CALLS, how often the Runner process may fail or be
\* stopped, how often the journal or the file system may let a commit down, and
\* whether that is never.
Deployment ==
    [calls : SUBSET Calls, cancels : SUBSET Calls, queries : SUBSET Calls,
     threads : Nat, limit : Nat,
     faults : Nat, mishaps : Nat, clean : BOOLEAN]

ASSUME CallsAssumption ==
    /\ Calls # {} /\ Threshold \in Nat \ {0}
    /\ Deployments \subseteq Deployment

VARIABLES
    dep,        \* the deployment chosen, its budgets counted down
    sup,        \* RunnerSupervisor._state
    fails,      \* RunnerSupervisor._consecutive_failures, capped at Threshold
    failed,     \* RunnerClient._failure is set
    generation, \* RunnerLease.generation of the current lease
    caller,     \* what the control plane knows of each call
    bound,      \* expected_runner_id of each call (ids are never used again)
    evidence,   \* what its receipt query answered
    inbox,      \* frames written to the Runner's stdin
    outbox,     \* frames written to its stdout
    proc,       \* the Runner process
    active,     \* RunnerServer._active
    cancelled,  \* the cancellation Event of each call
    phase,      \* ControlledCommitBoundary._phase of each call
    thread,     \* where the pool's thread of each call is; an outcome at the end
    row,        \* the journal's row of each call
    moved,      \* the file of the call is at its destination
    meddled     \* another program touched the call's source or destination

callVars == <<caller, bound, evidence>>
pipes == <<inbox, outbox>>
supVars == <<sup, fails, failed, generation>>
memory == <<active, cancelled, phase, thread>>
disk == <<row, moved, meddled>>
vars == <<dep, supVars, callVars, pipes, proc, memory, disk>>

Outcomes == {"returned", "raised", "interrupted", "dropped"}
Working == {"prepare", "stage", "check", "enter", "journal", "move",
            "reconcile", "verify", "record", "publish"}
Phases == {"before_commit", "committing", "committed", "no_effect", "unknown"}
Answers == {"succeeded", "failed", "cancelled", "unknown"}
InFrame == [type : {"call", "cancel", "query"}, call : Calls]
OutFrame == [type : Answers \cup {"receipt", "no_receipt"}, call : Calls]

TypeOK ==
    /\ dep \in Deployment
    /\ sup \in {"stopped", "starting", "ready", "backoff", "open", "half_open"}
    /\ fails \in 0 .. Threshold /\ failed \in BOOLEAN /\ generation \in Nat
    /\ caller \in [Calls -> {"idle", "bound", "waiting", "lost"} \cup Answers]
    /\ bound \in [Calls -> Nat]
    /\ evidence \in [Calls -> {"none", "asked", "receipt", "no_receipt", "failed"}]
    /\ inbox \in Seq(InFrame) /\ outbox \in Seq(OutFrame)
    /\ proc \in {"none", "recovering", "up", "draining"}
    /\ active \subseteq Calls
    /\ cancelled \in [Calls -> BOOLEAN]
    /\ phase \in [Calls -> Phases]
    /\ thread \in [Calls -> {"none", "queued"} \cup Working \cup Outcomes]
    /\ row \in [Calls -> {"none", "prepared"} \cup (Phases \ {"before_commit"})]
    /\ moved \in [Calls -> BOOLEAN] /\ meddled \in [Calls -> BOOLEAN]

Init ==
    /\ dep \in Deployments
    /\ sup = "starting" /\ fails = 0 /\ failed = FALSE /\ generation = 0
    /\ caller = [c \in Calls |-> "idle"] /\ bound = [c \in Calls |-> 0]
    /\ evidence = [c \in Calls |-> "none"]
    /\ inbox = <<>> /\ outbox = <<>>
    /\ proc = "recovering"
    /\ active = {}
    /\ cancelled = [c \in Calls |-> FALSE]
    /\ phase = [c \in Calls |-> "before_commit"]
    /\ thread = [c \in Calls |-> "none"]
    /\ row = [c \in Calls |-> "none"]
    /\ moved = [c \in Calls |-> FALSE] /\ meddled = [c \in Calls |-> FALSE]

Fault == dep.faults > 0 /\ dep' = [dep EXCEPT !.faults = @ - 1]
Mishap == dep.mishaps > 0 /\ dep' = [dep EXCEPT !.mishaps = @ - 1]
----------------------------------------------------------------------------
(* The control plane's side: RunnerSupervisor.call_tool and RunnerClient.  *)

\* ensure_ready, then RunnerClient._ensure_available.
Available(expected) ==
    /\ sup \in {"ready", "half_open"} /\ proc = "up" /\ ~failed
    /\ expected = generation

\* The processor reads the lease's runner_id and records the dispatch.
bind(c) ==
    /\ caller[c] = "idle" /\ c \in dep.calls
    /\ Available(generation)
    /\ caller' = [caller EXCEPT ![c] = "bound"]
    /\ bound' = [bound EXCEPT ![c] = generation]
    /\ UNCHANGED <<dep, supVars, evidence, pipes, proc, memory, disk>>

\* call_tool: refused without a frame when the generation has changed.
call_tool(c) ==
    /\ caller[c] = "bound"
    /\ \/ /\ Available(bound[c])
          /\ caller' = [caller EXCEPT ![c] = "waiting"]
          /\ inbox' = Append(inbox, [type |-> "call", call |-> c])
       \/ /\ ~Available(bound[c])
          /\ caller' = [caller EXCEPT ![c] = "lost"]
          /\ inbox' = inbox
    /\ UNCHANGED <<dep, supVars, bound, evidence, outbox, proc, memory, disk>>

\* cancel_call, for a call whose dispatch is on record: it can overtake the
\* call's own frame.
cancel_call(c) ==
    /\ caller[c] \in {"bound", "waiting"} /\ Available(bound[c])
    /\ c \in dep.cancels /\ dep' = [dep EXCEPT !.cancels = @ \ {c}]
    /\ inbox' = Append(inbox, [type |-> "cancel", call |-> c])
    /\ UNCHANGED <<supVars, callVars, outbox, proc, memory, disk>>

\* wait_for times out, or the caller's task is cancelled: the pending entry is
\* dropped and a cancel is sent as far as possible.
call_gives_up(c) ==
    /\ caller[c] = "waiting"
    /\ caller' = [caller EXCEPT ![c] = "lost"]
    /\ inbox' = IF Available(generation)
                THEN Append(inbox, [type |-> "cancel", call |-> c]) ELSE inbox
    /\ UNCHANGED <<dep, supVars, bound, evidence, outbox, proc, memory, disk>>

\* refresh_reconciliation_evidence: the journal of the current generation is
\* asked about a call whose outcome is unknown.
get_commit_receipt(c) ==
    /\ caller[c] \in {"lost", "unknown"} /\ evidence[c] = "none" /\ c \in dep.queries
    /\ Available(generation)
    /\ evidence' = [evidence EXCEPT ![c] = "asked"]
    /\ inbox' = Append(inbox, [type |-> "query", call |-> c])
    /\ UNCHANGED <<dep, supVars, caller, bound, outbox, proc, memory, disk>>

\* _reader_loop: a result is for the pending call, or for nobody.
read_reply ==
    /\ outbox # <<>>
    /\ LET m == Head(outbox) IN
       /\ caller' = IF m.type \in Answers /\ caller[m.call] = "waiting"
                    THEN [caller EXCEPT ![m.call] = m.type] ELSE caller
       /\ evidence' = IF m.type \notin Answers /\ evidence[m.call] = "asked"
                      THEN [evidence EXCEPT ![m.call] = m.type] ELSE evidence
    /\ outbox' = Tail(outbox)
    /\ UNCHANGED <<dep, supVars, bound, inbox, proc, memory, disk>>

\* _fail_pending: every waiting call and query raises.
FailPending ==
    /\ caller' = [c \in Calls |-> IF caller[c] = "waiting" THEN "lost" ELSE caller[c]]
    /\ evidence' = [c \in Calls |-> IF evidence[c] = "asked" THEN "failed" ELSE evidence[c]]
    /\ UNCHANGED bound
----------------------------------------------------------------------------
(* The Runner's loop: RunnerServer.                                        *)

Send(type, c) == outbox' = Append(outbox, [type |-> type, call |-> c])

\* The frame at the head of the inbox, taken by the loop.
Frame(type, c) ==
    /\ proc = "up" /\ inbox # <<>>
    /\ Head(inbox) = [type |-> type, call |-> c]
    /\ inbox' = Tail(inbox)

\* A frame whose time to live has passed is diagnosed and not answered.
refuse_frame ==
    /\ proc = "up" /\ inbox # <<>>
    /\ Mishap
    /\ inbox' = Tail(inbox)
    /\ UNCHANGED <<supVars, callVars, outbox, proc, memory, disk>>

\* _handle_call: unauthorized, over MAX_ACTIVE_CALLS, or handed to the pool.
handle_call(c) ==
    /\ Frame("call", c)
    /\ \/ /\ Cardinality(active) < dep.limit
          /\ active' = active \cup {c}
          /\ thread' = [thread EXCEPT ![c] = "queued"]
          /\ UNCHANGED <<dep, outbox>>
       \/ /\ Cardinality(active) >= dep.limit
          /\ Send("failed", c)
          /\ UNCHANGED <<dep, active, thread>>
       \/ /\ Mishap
          /\ Send("failed", c)
          /\ UNCHANGED <<active, thread>>
    /\ UNCHANGED <<supVars, callVars, proc, cancelled, phase, disk>>

\* Future.cancel: succeeds only before a thread of the pool took the call.
Dropped(c) == IF thread[c] = "queued" THEN "dropped" ELSE thread[c]

handle_cancel(c) ==
    /\ Frame("cancel", c)
    /\ IF c \in active
       THEN /\ cancelled' = [cancelled EXCEPT ![c] = TRUE]
            /\ thread' = [thread EXCEPT ![c] = Dropped(c)]
            /\ UNCHANGED outbox
       ELSE /\ Send("unknown", c)
            /\ UNCHANGED <<cancelled, thread>>
    /\ UNCHANGED <<dep, supVars, callVars, proc, active, phase, disk>>

handle_commit_receipt_request(c) ==
    /\ Frame("query", c)
    /\ Send(IF row[c] = "committed" THEN "receipt" ELSE "no_receipt", c)
    /\ UNCHANGED <<dep, supVars, callVars, proc, memory, disk>>

\* What _handle_completion reports: a published commit first, then a future
\* cancelled in the queue, a cancelled call, and at last the thread's outcome.
CompletionResult(c) ==
    IF phase[c] = "committed" THEN "succeeded"
    ELSE IF thread[c] = "dropped" THEN "cancelled"
    ELSE IF cancelled[c]
         THEN IF phase[c] \in {"before_commit", "no_effect"} THEN "cancelled" ELSE "unknown"
    ELSE IF thread[c] = "interrupted" THEN "cancelled"
    ELSE IF thread[c] = "raised"
         THEN IF phase[c] \in {"committing", "unknown"} THEN "unknown" ELSE "failed"
    ELSE "succeeded"

handle_completion(c) ==
    /\ proc = "up" /\ c \in active /\ thread[c] \in Outcomes
    /\ active' = active \ {c}
    /\ Send(CompletionResult(c), c)
    /\ UNCHANGED <<dep, supVars, callVars, inbox, proc, cancelled, phase, thread, disk>>

\* _expire_calls: the cancellation is published before the boundary is read.
ExpiryResult(c) ==
    IF phase[c] = "committed" THEN "succeeded"
    ELSE IF thread[c] = "queued" \/ phase[c] \in {"before_commit", "no_effect"} THEN "failed"
    ELSE "unknown"

expire_call(c) ==
    /\ proc = "up" /\ c \in active
    /\ active' = active \ {c}
    /\ cancelled' = [cancelled EXCEPT ![c] = TRUE]
    /\ thread' = [thread EXCEPT ![c] = Dropped(c)]
    /\ Send(ExpiryResult(c), c)
    /\ UNCHANGED <<dep, supVars, callVars, inbox, proc, phase, disk>>

\* The loop's finally, once stdin is closed: the pool is drained.
CloseInput ==
    /\ proc' = "draining"
    /\ active' = {}
    /\ cancelled' = [c \in Calls |-> cancelled[c] \/ c \in active]
    /\ thread' = [c \in Calls |-> Dropped(c)]
    /\ phase' = phase
    /\ inbox' = <<>> /\ outbox' = <<>>

\* The process is gone, and with it everything it held in memory.
Exit ==
    /\ proc' = "none"
    /\ active' = {}
    /\ cancelled' = [c \in Calls |-> FALSE]
    /\ phase' = [c \in Calls |-> "before_commit"]
    /\ thread' = [c \in Calls |-> "none"]
    /\ inbox' = <<>>
----------------------------------------------------------------------------
(* A pool thread: IsolatedToolExecutor.execute and                         *)
(* FileMoveCommitProvider.commit.                                          *)

Running(c, at) == proc \in {"up", "draining"} /\ thread[c] = at
Go(c, next) == thread' = [thread EXCEPT ![c] = next]
SetPhase(c, p) == phase' = [phase EXCEPT ![c] = p]
SetRow(c, state) == row' = [row EXCEPT ![c] = state]
NotThread == <<supVars, callVars, pipes, proc, active, cancelled>>

take_call(c) ==
    /\ Running(c, "queued")
    /\ Cardinality({d \in Calls : thread[d] \in Working}) < dep.threads
    /\ Go(c, "prepare")
    /\ UNCHANGED <<dep, phase, disk, NotThread>>

\* Resources are brokered and the worker process prepares; a cancellation
\* kills the worker, unless it has answered already.
worker_prepares(c) ==
    /\ Running(c, "prepare")
    /\ \/ Go(c, "stage") /\ UNCHANGED dep
       \/ cancelled[c] /\ Go(c, "interrupted") /\ UNCHANGED dep
       \/ Mishap /\ Go(c, "raised")
    /\ UNCHANGED <<phase, disk, NotThread>>

stage(c) ==
    /\ Running(c, "stage")
    /\ \/ SetRow(c, "prepared") /\ Go(c, "check") /\ UNCHANGED dep
       \/ Mishap /\ Go(c, "raised") /\ UNCHANGED row
    /\ UNCHANGED <<phase, moved, meddled, NotThread>>

\* The cancellation, then _validate_external_state.
check_before_commit(c) ==
    /\ Running(c, "check")
    /\ IF cancelled[c] \/ meddled[c]
       THEN /\ SetRow(c, "no_effect") /\ SetPhase(c, "no_effect")
            /\ Go(c, IF cancelled[c] THEN "interrupted" ELSE "raised")
       ELSE Go(c, "enter") /\ UNCHANGED <<row, phase>>
    /\ UNCHANGED <<dep, moved, meddled, NotThread>>

\* Mutant: the boundary is entered whatever the cancellation says.
try_mark_committing_blind(c) ==
    /\ Running(c, "enter")
    /\ SetPhase(c, "committing") /\ Go(c, "journal") /\ UNCHANGED row
    /\ UNCHANGED <<dep, moved, meddled, NotThread>>

\* try_mark_committing reads the cancellation and enters under one lock.
try_mark_committing(c) ==
    /\ Running(c, "enter")
    /\ IF cancelled[c]
       THEN SetPhase(c, "no_effect") /\ SetRow(c, "no_effect") /\ Go(c, "interrupted")
       ELSE SetPhase(c, "committing") /\ Go(c, "journal") /\ UNCHANGED row
    /\ UNCHANGED <<dep, moved, meddled, NotThread>>

mark_committing(c) ==
    /\ Running(c, "journal")
    /\ \/ SetRow(c, "committing") /\ Go(c, "move") /\ UNCHANGED <<dep, phase>>
       \/ Mishap /\ SetPhase(c, "no_effect") /\ Go(c, "raised") /\ UNCHANGED row
    /\ UNCHANGED <<moved, meddled, NotThread>>

\* _move_no_replace: done, refused because the destination exists, or in error
\* with or without its effect.
move_no_replace(c) ==
    /\ Running(c, "move")
    /\ \/ ~meddled[c] /\ moved' = [moved EXCEPT ![c] = TRUE] /\ Go(c, "verify") /\ UNCHANGED dep
       \/ meddled[c] /\ Go(c, "reconcile") /\ UNCHANGED <<dep, moved>>
       \/ /\ Mishap /\ Go(c, "reconcile")
          /\ \E b \in BOOLEAN : moved' = [moved EXCEPT ![c] = b /\ ~meddled[c]]
    /\ UNCHANGED <<phase, row, meddled, NotThread>>

\* Mutant: an attempt that was never finished is taken to have had no effect.
JudgedByState(c) == "no_effect"

\* _recover_record: a prepared row had no effect; a committing one is judged by
\* the versions found at the source and at the destination.
Judged(c) ==
    IF row[c] = "prepared" THEN "no_effect"
    ELSE IF meddled[c] THEN "unknown"
    ELSE IF moved[c] THEN "committed" ELSE "no_effect"

\* The move raised: the row is judged at once, and the boundary follows it.
reconcile_move(c) ==
    /\ Running(c, "reconcile")
    /\ SetRow(c, Judged(c)) /\ SetPhase(c, Judged(c))
    /\ Go(c, IF Judged(c) = "committed" THEN "returned" ELSE "raised")
    /\ UNCHANGED <<dep, moved, meddled, NotThread>>

\* The destination's version is read back; when it cannot be read the row
\* stays as it is.
verify_destination(c) ==
    /\ Running(c, "verify")
    /\ \/ ~meddled[c] /\ Go(c, "record") /\ UNCHANGED <<row, phase>>
       \/ /\ meddled[c] /\ Go(c, "raised")
          /\ \/ SetRow(c, "unknown") /\ SetPhase(c, "unknown")
             \/ UNCHANGED <<row, phase>>
    /\ UNCHANGED <<dep, moved, meddled, NotThread>>

mark_committed(c) ==
    /\ Running(c, "record")
    /\ \/ SetRow(c, "committed") /\ Go(c, "publish") /\ UNCHANGED dep
       \/ Mishap /\ Go(c, "raised") /\ UNCHANGED row
    /\ UNCHANGED <<phase, moved, meddled, NotThread>>

\* boundary.mark_committed; the output may then be found too large.
publish_commit(c) ==
    /\ Running(c, "publish")
    /\ SetPhase(c, "committed")
    /\ \/ Go(c, "returned") /\ UNCHANGED dep
       \/ Mishap /\ Go(c, "raised")
    /\ UNCHANGED <<disk, NotThread>>

\* Another program takes the destination's name, or edits the moved file.
meddle(c) ==
    /\ c \in dep.calls /\ ~meddled[c] /\ Mishap
    /\ meddled' = [meddled EXCEPT ![c] = TRUE]
    /\ UNCHANGED <<supVars, callVars, pipes, proc, memory, row, moved>>
----------------------------------------------------------------------------
(* The process and its supervisor: RunnerSupervisor._run_lifecycle.        *)

\* Mutant: only attempts that had not begun to commit are listed.
IncompletePrepared == {c \in Calls : row[c] = "prepared"}

\* CommitReceiptStore.list_incomplete.
Incomplete == {c \in Calls : row[c] \in {"prepared", "committing"}}

\* recover_commit_receipts, one row at a time, before the process says hello.
recover_record(c) ==
    /\ proc = "recovering" /\ c \in Incomplete
    /\ SetRow(c, Judged(c))
    /\ UNCHANGED <<dep, supVars, callVars, pipes, proc, memory, moved, meddled>>

\* runner.hello: the lifecycle publishes a lease of the next generation.
hello ==
    /\ proc = "recovering" /\ Incomplete = {}
    /\ proc' = "up"
    /\ generation' = generation + 1
    /\ sup' = IF sup = "half_open" THEN "half_open" ELSE "ready"
    /\ UNCHANGED <<dep, fails, failed, callVars, pipes, memory, disk>>

\* _record_failure and _recovery_state.
RecordFailure(forceOpen) ==
    /\ fails' = IF fails < Threshold THEN fails + 1 ELSE fails
    /\ sup' = IF forceOpen \/ fails' >= Threshold THEN "open" ELSE "backoff"

\* Startup fails or times out; the candidate is stopped.
start_fails ==
    /\ proc = "recovering" /\ Fault
    /\ RecordFailure(FALSE)
    /\ proc' = "none"
    /\ UNCHANGED <<failed, generation, callVars, pipes, memory, disk>>

\* The process dies; what it wrote can still be read.
runner_exits ==
    /\ proc = "up" /\ Fault
    /\ Exit /\ UNCHANGED outbox
    /\ UNCHANGED <<supVars, callVars, disk>>

\* _notify_failure, by the reader, by the watchdog whose heartbeat is overdue,
\* or by the first call that finds the process gone.
notify_failure ==
    /\ sup \in {"ready", "half_open"} /\ ~failed
    /\ \/ proc = "none" /\ UNCHANGED dep
       \/ proc = "up" /\ Fault
    /\ failed' = TRUE
    /\ FailPending
    /\ outbox' = <<>>
    /\ UNCHANGED <<sup, fails, generation, inbox, proc, memory, disk>>

\* _monitor_generation returns; a half-open probe that failed opens the circuit.
generation_ends ==
    /\ sup \in {"ready", "half_open"} /\ failed
    /\ RecordFailure(sup = "half_open")
    /\ UNCHANGED <<dep, failed, generation, callVars, pipes, proc, memory, disk>>

\* The stable window passes.
generation_is_stable ==
    /\ sup \in {"ready", "half_open"} /\ proc = "up" /\ ~failed
    /\ sup = "half_open" \/ fails > 0
    /\ sup' = "ready" /\ fails' = 0
    /\ UNCHANGED <<dep, failed, generation, callVars, pipes, proc, memory, disk>>

\* RunnerClient.stop closes stdin ...
close_stdin ==
    /\ proc = "up" /\ failed /\ sup \in {"backoff", "open"}
    /\ CloseInput
    /\ UNCHANGED <<dep, supVars, callVars, disk>>

\* ... and waits for the process, which ends with its threads or is killed;
\* _terminate_process kills it without waiting for them.
process_ends ==
    /\ \/ proc = "draining"
       \/ proc = "up" /\ failed
    /\ Exit /\ outbox' = <<>>
    /\ UNCHANGED <<dep, supVars, callVars, disk>>

\* RunnerSupervisor.stop, when the backend shuts down; the next backend's
\* supervisor counts its failures anew.
stop ==
    /\ sup # "stopped" /\ Fault
    /\ sup' = "stopped" /\ fails' = 0 /\ failed' = FALSE
    /\ FailPending
    /\ IF proc = "recovering" THEN proc' = "none" /\ UNCHANGED <<pipes, memory>>
       ELSE IF proc = "up" THEN CloseInput
       ELSE UNCHANGED <<proc, pipes, memory>>
    /\ UNCHANGED <<generation, disk>>

\* Mutant: an open circuit stays open.
RestartableUnlessOpen == sup \in {"stopped", "backoff"} /\ proc = "none"

\* The old process is gone and the delay is over, or the backend starts again.
Restartable == sup \in {"stopped", "backoff", "open"} /\ proc = "none"

start_generation ==
    /\ Restartable
    /\ sup' = IF sup = "open" THEN "half_open" ELSE "starting"
    /\ failed' = FALSE
    /\ proc' = "recovering"
    /\ inbox' = <<>> /\ outbox' = <<>>
    /\ UNCHANGED <<dep, fails, generation, callVars, memory, disk>>
----------------------------------------------------------------------------
Caller(c) ==
    bind(c) \/ call_tool(c) \/ cancel_call(c) \/ call_gives_up(c) \/ get_commit_receipt(c)

Serve(c) ==
    handle_call(c) \/ handle_cancel(c) \/ handle_commit_receipt_request(c) \/ handle_completion(c)

Commit(c) ==
    \/ take_call(c) \/ worker_prepares(c) \/ stage(c) \/ check_before_commit(c)
    \/ try_mark_committing(c) \/ mark_committing(c) \/ move_no_replace(c)
    \/ reconcile_move(c) \/ verify_destination(c) \/ mark_committed(c) \/ publish_commit(c)

Supervise ==
    \/ hello \/ generation_ends \/ generation_is_stable \/ close_stdin \/ process_ends
    \/ start_generation \/ \E c \in Calls : recover_record(c)

Next ==
    \/ \E c \in Calls : Caller(c) \/ Serve(c) \/ expire_call(c) \/ Commit(c) \/ meddle(c)
    \/ read_reply \/ refuse_frame
    \/ Supervise \/ start_fails \/ runner_exits \/ notify_failure \/ stop

\* The loop, the threads and the supervisor keep going; a dead process is
\* noticed.
Spec ==
    /\ Init /\ [][Next]_vars
    /\ WF_vars(\E c \in Calls : Serve(c)) /\ WF_vars(read_reply)
    /\ \A c \in Calls : WF_vars(Commit(c))
    /\ WF_vars(Supervise) /\ WF_vars(proc = "none" /\ notify_failure)
----------------------------------------------------------------------------
\* What the control plane is told with certainty is so and stays so, whatever
\* the order in which timeout, cancel, completion and commit meet: succeeded
\* means the file was moved and its receipt is on record, failed or cancelled
\* means the file was not moved and never will be (_handle_completion,
\* _expire_calls, try_mark_committing; doc/33 section 5).
AnswerIsTruthful ==
    \A c \in Calls :
        /\ caller[c] = "succeeded" => moved[c] /\ row[c] = "committed"
        /\ caller[c] \in {"failed", "cancelled"} => ~moved[c]

\* The journal never states what is not so, whether its row was closed by the
\* commit, by the reconciliation of a move that raised or by the recovery of a
\* later generation; and a receipt shown as evidence is of a move that was done
\* (CommitReceiptStore, _recover_record, get_commit_receipt).
ReceiptIsTruthful ==
    \A c \in Calls :
        /\ row[c] = "committed" \/ evidence[c] = "receipt" => moved[c]
        /\ row[c] = "no_effect" => ~moved[c]

\* When neither the journal nor another program interferes, a file that was
\* moved gets its receipt in the end, although the process may die between the
\* move and the receipt, its successors may fail to start and the circuit may
\* open (FileMoveCommitProvider.recover, _run_lifecycle).
MovedIsRecorded ==
    \A c \in Calls : moved[c] /\ dep.clean ~> row[c] = "committed"

\* A Runner that fails comes back: the supervisor reaches ready again through
\* backoff, open and half-open (_wait_before_restart, _monitor_generation).
RunnerReturns == []<>(sup = "ready")
=============================================================================
