-------------------------- MODULE RunnerCallsProofs --------------------------
(***************************************************************************)
(* Proofs, for every set of calls, every deployment and every threshold,   *)
(* of what the Runner's answers and its journal promise.                   *)
(*                                                                         *)
(* The invariant ties together the four places that know something of a    *)
(* call: the pool's thread with its commit boundary, the journal's row,    *)
(* the file, and the frames on their way.  The heart of it is NeverMoves:  *)
(* what has to be true of a call, and remain true, before "failed" or      *)
(* "cancelled" may be written to the pipe.                                 *)
(***************************************************************************)
EXTENDS RunnerCalls, TLAPS

NotCommitted == {"none", "prepared", "no_effect"}

\* Where the thread is determines the boundary's phase and the journal's row.
ThreadMatchesDisk ==
    \A c \in Calls :
        /\ thread[c] = "none" => phase[c] = "before_commit"
        /\ thread[c] \in {"queued", "prepare", "stage", "dropped"} =>
              phase[c] = "before_commit" /\ row[c] = "none"
        /\ thread[c] \in {"check", "enter"} =>
              phase[c] = "before_commit" /\ row[c] = "prepared"
        /\ thread[c] = "journal" => phase[c] = "committing" /\ row[c] = "prepared"
        /\ thread[c] \in {"move", "reconcile", "verify", "record"} =>
              phase[c] = "committing" /\ row[c] = "committing"
        /\ thread[c] = "publish" => phase[c] = "committing" /\ row[c] = "committed"
        /\ thread[c] = "returned" => phase[c] = "committed"
        /\ thread[c] = "interrupted" => phase[c] \in {"before_commit", "no_effect"}
        /\ thread[c] \in Outcomes /\ phase[c] \in {"before_commit", "no_effect"} =>
              row[c] \in NotCommitted
        /\ phase[c] = "committed" => row[c] = "committed"

\* The row never claims more than the file shows.
RowMatchesFile ==
    \A c \in Calls :
        /\ row[c] \in NotCommitted => ~moved[c]
        /\ row[c] = "committed" => moved[c]
        /\ thread[c] = "move" => ~moved[c]
        /\ thread[c] \in {"verify", "record"} => moved[c]

\* The loop has an entry for each thread it still waits for; a thread it no
\* longer waits for has been told to stop.
LoopKnowsThreads ==
    /\ \A c \in Calls :
          /\ thread[c] = "queued" => c \in active
          /\ thread[c] \in Working /\ c \notin active => cancelled[c]
          /\ c \in active => thread[c] # "none" /\ proc = "up"
          /\ thread[c] # "none" => proc \in {"up", "draining"}

Sent(c) == \E k \in DOMAIN inbox : inbox[k] = [type |-> "call", call |-> c]

SentAlone(c) ==
    \A k, l \in DOMAIN inbox :
        /\ inbox[k] = [type |-> "call", call |-> c]
        /\ inbox[l] = [type |-> "call", call |-> c]
        => k = l

\* The call's own frame is written once, and before it is read nothing has
\* been done for the call.
SentOnce ==
    \A c \in Calls :
        /\ Sent(c) => caller[c] \notin {"idle", "bound"}
        /\ Sent(c) \/ caller[c] \in {"idle", "bound"} =>
              thread[c] = "none" /\ row[c] = "none"
        /\ SentAlone(c)

\* The file of the call was not moved and no thread is left that could move it.
NeverMoves(c) ==
    /\ ~moved[c] /\ ~Sent(c)
    /\ caller[c] \notin {"idle", "bound"}
    /\ \/ thread[c] \in {"none"} \cup Outcomes
       \/ thread[c] \in {"prepare", "stage", "check", "enter"} /\ cancelled[c]

\* What may be said of a call with certainty.
Backed(c, type) ==
    /\ type \in {"succeeded", "receipt"} => row[c] = "committed"
    /\ type \in {"failed", "cancelled"} => NeverMoves(c)

AnswersBacked == \A k \in DOMAIN outbox : Backed(outbox[k].call, outbox[k].type)

KnowledgeBacked ==
    \A c \in Calls :
        /\ Backed(c, caller[c])
        /\ evidence[c] = "receipt" => row[c] = "committed"

IInv == /\ TypeOK
        /\ ThreadMatchesDisk
        /\ RowMatchesFile
        /\ LoopKnowsThreads
        /\ SentOnce
        /\ AnswersBacked
        /\ KnowledgeBacked
----------------------------------------------------------------------------
(* Lemmas on the pipes.                                                    *)

\* What is left of a queue once its head is taken.
LEMMA TailOf ==
  ASSUME NEW S, NEW q \in Seq(S), q # <<>>
  PROVE  /\ Tail(q) \in Seq(S) /\ Head(q) = q[1] /\ 1 \in DOMAIN q /\ q[1] \in S
         /\ \A k \in DOMAIN Tail(q) : k + 1 \in DOMAIN q /\ Tail(q)[k] = q[k + 1]
         /\ DOMAIN Tail(q) \subseteq Nat \ {0}
OBVIOUS

\* What a queue holds once an element is put at its end.
LEMMA AppendTo ==
  ASSUME NEW S, NEW q \in Seq(S), NEW e \in S
  PROVE  /\ Append(q, e) \in Seq(S)
         /\ \A k \in DOMAIN Append(q, e) :
               \/ k \in DOMAIN q /\ Append(q, e)[k] = q[k]
               \/ k = Len(q) + 1 /\ Append(q, e)[k] = e
         /\ \A k \in DOMAIN q : Append(q, e)[k] = q[k] /\ k \in DOMAIN Append(q, e)
         /\ Len(q) + 1 \notin DOMAIN q
OBVIOUS

\* The loop takes a frame: nothing is sent by it, and the frame of a call that
\* it takes was the only one.
LEMMA TakeFrame ==
  ASSUME TypeOK, SentOnce, inbox # <<>>, inbox' = Tail(inbox), NEW c \in Calls
  PROVE  /\ Sent(c)' => Sent(c)
         /\ Head(inbox) = [type |-> "call", call |-> c] => Sent(c) /\ ~Sent(c)'
         /\ SentAlone(c)'
<1>1. inbox \in Seq(InFrame)  BY DEF TypeOK
<1>2. /\ Head(inbox) = inbox[1] /\ 1 \in DOMAIN inbox
      /\ \A k \in DOMAIN inbox' : k + 1 \in DOMAIN inbox /\ inbox'[k] = inbox[k + 1]
      /\ DOMAIN inbox' \subseteq Nat \ {0}
  BY <1>1, TailOf
<1> QED BY <1>2 DEF SentOnce, Sent, SentAlone

\* A frame that is not a call's is written: no call is sent by it.
LEMMA WriteFrame ==
  ASSUME TypeOK, SentOnce, NEW type \in {"cancel", "query"}, NEW d \in Calls,
         inbox' = Append(inbox, [type |-> type, call |-> d]), NEW c \in Calls
  PROVE  /\ Sent(c)' => Sent(c)
         /\ SentAlone(c)'
<1> DEFINE e == [type |-> type, call |-> d]
<1>1. inbox \in Seq(InFrame) /\ e \in InFrame /\ e # [type |-> "call", call |-> c]  BY DEF TypeOK, InFrame
<1>2. \A k \in DOMAIN inbox' :
         \/ k \in DOMAIN inbox /\ inbox'[k] = inbox[k]
         \/ inbox'[k] = e
  <2> HIDE DEF e
  <2> QED BY <1>1, AppendTo DEF e
<1> HIDE DEF e
<1> QED BY <1>1, <1>2 DEF SentOnce, Sent, SentAlone
\* call_tool writes the frame of a call that had none.
LEMMA WriteCall ==
  ASSUME TypeOK, SentOnce, NEW d \in Calls, caller[d] = "bound",
         inbox' = Append(inbox, [type |-> "call", call |-> d]), NEW c \in Calls
  PROVE  /\ c # d => (Sent(c)' => Sent(c))
         /\ SentAlone(c)'
<1> DEFINE e == [type |-> "call", call |-> d]
<1>1. inbox \in Seq(InFrame) /\ e \in InFrame  BY DEF TypeOK, InFrame
<1>2. c # d => e # [type |-> "call", call |-> c]  OBVIOUS
<1>3. ~Sent(d)  BY DEF SentOnce
<1>4. \A k \in DOMAIN inbox' :
         \/ k \in DOMAIN inbox /\ inbox'[k] = inbox[k]
         \/ k = Len(inbox) + 1 /\ inbox'[k] = e
  <2> HIDE DEF e
  <2> QED BY <1>1, AppendTo DEF e
<1>5. CASE c = d
  BY <1>3, <1>4, <1>5 DEF Sent, SentAlone
<1>6. CASE c # d
  <2> HIDE DEF e
  <2> QED BY <1>2, <1>4, <1>6 DEF SentOnce, Sent, SentAlone
<1> QED BY <1>5, <1>6

\* A pipe that is left alone or closed holds no new frame.
LEMMA KeepFrames ==
  ASSUME SentOnce, inbox' \in {inbox, <<>>}, NEW c \in Calls
  PROVE  (Sent(c)' => Sent(c)) /\ SentAlone(c)'
  BY DEF SentOnce, Sent, SentAlone

----------------------------------------------------------------------------
(* The first state, and the types.                                         *)

\* The first state satisfies the invariant.
LEMMA InitIInv == Init => IInv
<1> SUFFICES ASSUME Init PROVE IInv
  OBVIOUS
<1>1. TypeOK
  <2>1. /\ dep \in Deployment /\ inbox \in Seq(InFrame) /\ outbox \in Seq(OutFrame)
        /\ fails \in 0 .. Threshold
    BY CallsAssumption DEF Init
  <2> QED BY <2>1 DEF Init, TypeOK, Phases, Working, Answers, Outcomes
<1>2. ThreadMatchesDisk /\ RowMatchesFile /\ LoopKnowsThreads
  BY DEF Init, ThreadMatchesDisk, RowMatchesFile, LoopKnowsThreads, NotCommitted, Working, Outcomes
<1>3. SentOnce /\ AnswersBacked /\ KnowledgeBacked
  BY DEF Init, SentOnce, Sent, SentAlone, AnswersBacked, KnowledgeBacked, Backed
<1> QED BY <1>1, <1>2, <1>3 DEF IInv

\* Judged is one of the journal's final states.
LEMMA JudgedType == \A c \in Calls : Judged(c) \in {"no_effect", "unknown", "committed"}
  BY DEF Judged

\* The loop answers a call with one of the four answers.
LEMMA CompletionType ==
  \A c \in Calls : CompletionResult(c) \in Answers /\ ExpiryResult(c) \in Answers
  BY DEF CompletionResult, ExpiryResult, Answers

\* The deployment stays one while its budgets are counted down.
LEMMA DepType ==
  ASSUME dep \in Deployment
  PROVE  /\ Fault => dep' \in Deployment
         /\ Mishap => dep' \in Deployment
         /\ \A c \in Calls : [dep EXCEPT !.cancels = @ \ {c}] \in Deployment
  BY DEF Deployment, Fault, Mishap

\* What is written to a pipe and what is left in it are frames.
LEMMA PipeType ==
  ASSUME TypeOK
  PROVE  /\ inbox \in Seq(InFrame) /\ outbox \in Seq(OutFrame)
         /\ <<>> \in Seq(InFrame) /\ <<>> \in Seq(OutFrame)
         /\ inbox # <<>> => Head(inbox) \in InFrame /\ Tail(inbox) \in Seq(InFrame)
         /\ outbox # <<>> =>
               /\ Head(outbox) \in OutFrame /\ Tail(outbox) \in Seq(OutFrame)
               /\ Head(outbox).type \in Answers \cup {"receipt", "no_receipt"}
               /\ Head(outbox).call \in Calls
         /\ \A c \in Calls : \A t \in {"call", "cancel", "query"} :
               Append(inbox, [type |-> t, call |-> c]) \in Seq(InFrame)
         /\ \A c \in Calls : \A t \in Answers \cup {"receipt", "no_receipt"} :
               Append(outbox, [type |-> t, call |-> c]) \in Seq(OutFrame)
<1>1. inbox \in Seq(InFrame) /\ outbox \in Seq(OutFrame)
  BY DEF TypeOK, InFrame, OutFrame
<1>2. \A c \in Calls : \A t \in {"call", "cancel", "query"} : [type |-> t, call |-> c] \in InFrame
  BY DEF InFrame
<1>3. \A c \in Calls : \A t \in Answers \cup {"receipt", "no_receipt"} :
         [type |-> t, call |-> c] \in OutFrame
  BY DEF OutFrame
<1>4. inbox # <<>> => Head(inbox) \in InFrame /\ Tail(inbox) \in Seq(InFrame)
  BY <1>1, TailOf
<1>5. outbox # <<>> => Head(outbox) \in OutFrame /\ Tail(outbox) \in Seq(OutFrame)
  BY <1>1, TailOf
<1>6. \A m \in OutFrame : m.type \in Answers \cup {"receipt", "no_receipt"} /\ m.call \in Calls
  BY DEF OutFrame
<1> QED BY <1>1, <1>2, <1>3, <1>4, <1>5, <1>6, AppendTo

\* Every action keeps the types.
LEMMA NextTypeOK == TypeOK /\ [Next]_vars => TypeOK'
<1> SUFFICES ASSUME TypeOK, [Next]_vars PROVE TypeOK'
  OBVIOUS
<1> USE DEF TypeOK, vars, supVars, callVars, pipes, memory, disk, NotThread,
            Outcomes, Working, Phases, Answers, FailPending, Send, Frame,
            Dropped, CloseInput, Exit, Running, Go, SetPhase, SetRow, RecordFailure
<1>1. ASSUME NEW c \in Calls, bind(c) PROVE TypeOK'
  BY <1>1 DEF bind
<1>2. ASSUME NEW c \in Calls, call_tool(c) PROVE TypeOK'
  BY <1>2, PipeType DEF call_tool
<1>3. ASSUME NEW c \in Calls, cancel_call(c) PROVE TypeOK'
  BY <1>3, DepType, PipeType DEF cancel_call
<1>4. ASSUME NEW c \in Calls, call_gives_up(c) PROVE TypeOK'
  BY <1>4, PipeType DEF call_gives_up
<1>5. ASSUME NEW c \in Calls, get_commit_receipt(c) PROVE TypeOK'
  BY <1>5, PipeType DEF get_commit_receipt
<1>6. ASSUME NEW c \in Calls, handle_call(c) PROVE TypeOK'
  <2>1. inbox' \in Seq(InFrame) /\ Append(outbox, [type |-> "failed", call |-> c]) \in Seq(OutFrame)
    BY <1>6, PipeType DEF handle_call
  <2>3. dep' \in Deployment /\ outbox' \in Seq(OutFrame)
    BY <1>6, <2>1, DepType DEF handle_call
  <2>2. active' \subseteq Calls /\ thread' \in [Calls -> {"none", "queued"} \cup Working \cup Outcomes]
    BY <1>6 DEF handle_call
  <2> QED BY <1>6, <2>1, <2>2, <2>3 DEF handle_call
<1>7. ASSUME NEW c \in Calls, handle_cancel(c) PROVE TypeOK'
  <2>1. inbox' \in Seq(InFrame) /\ Append(outbox, [type |-> "unknown", call |-> c]) \in Seq(OutFrame)
    BY <1>7, PipeType DEF handle_cancel
  <2>2. CASE c \in active
    <3>1. cancelled' \in [Calls -> BOOLEAN]
      BY <1>7, <2>2 DEF handle_cancel
    <3>2. Dropped(c) \in {"none", "queued"} \cup Working \cup Outcomes
      OBVIOUS
    <3>3. thread' \in [Calls -> {"none", "queued"} \cup Working \cup Outcomes]
      BY <1>7, <2>2, <3>2 DEF handle_cancel
    <3> QED BY <1>7, <2>1, <2>2, <3>1, <3>3 DEF handle_cancel
  <2>3. CASE c \notin active
    BY <1>7, <2>1, <2>3 DEF handle_cancel
  <2> QED BY <2>2, <2>3
<1>8. ASSUME NEW c \in Calls, handle_commit_receipt_request(c) PROVE TypeOK'
  BY <1>8, PipeType DEF handle_commit_receipt_request
<1>9. ASSUME NEW c \in Calls, handle_completion(c) PROVE TypeOK'
  BY <1>9, PipeType, CompletionType DEF handle_completion
<1>10. ASSUME NEW c \in Calls, expire_call(c) PROVE TypeOK'
  BY <1>10, PipeType, CompletionType DEF expire_call
<1>11. ASSUME NEW c \in Calls, take_call(c) PROVE TypeOK'
  BY <1>11 DEF take_call
<1>12. ASSUME NEW c \in Calls, worker_prepares(c) PROVE TypeOK'
  BY <1>12, DepType DEF worker_prepares
<1>13. ASSUME NEW c \in Calls, stage(c) PROVE TypeOK'
  BY <1>13, DepType DEF stage
<1>14. ASSUME NEW c \in Calls, check_before_commit(c) PROVE TypeOK'
  BY <1>14 DEF check_before_commit
<1>15. ASSUME NEW c \in Calls, try_mark_committing(c) PROVE TypeOK'
  BY <1>15 DEF try_mark_committing
<1>16. ASSUME NEW c \in Calls, mark_committing(c) PROVE TypeOK'
  BY <1>16, DepType DEF mark_committing
<1>17. ASSUME NEW c \in Calls, move_no_replace(c) PROVE TypeOK'
  BY <1>17, DepType DEF move_no_replace
<1>18. ASSUME NEW c \in Calls, reconcile_move(c) PROVE TypeOK'
  BY <1>18, JudgedType DEF reconcile_move
<1>19. ASSUME NEW c \in Calls, verify_destination(c) PROVE TypeOK'
  BY <1>19 DEF verify_destination
<1>20. ASSUME NEW c \in Calls, mark_committed(c) PROVE TypeOK'
  BY <1>20, DepType DEF mark_committed
<1>21. ASSUME NEW c \in Calls, publish_commit(c) PROVE TypeOK'
  BY <1>21, DepType DEF publish_commit
<1>22. ASSUME NEW c \in Calls, meddle(c) PROVE TypeOK'
  BY <1>22, DepType DEF meddle
<1>23. ASSUME NEW c \in Calls, recover_record(c) PROVE TypeOK'
  BY <1>23, JudgedType DEF recover_record
<1>24. ASSUME read_reply PROVE TypeOK'
  BY <1>24, PipeType DEF read_reply
<1>25. ASSUME refuse_frame PROVE TypeOK'
  BY <1>25, DepType, PipeType DEF refuse_frame
<1>26. ASSUME hello PROVE TypeOK'
  BY <1>26 DEF hello
<1>27. ASSUME generation_ends PROVE TypeOK'
  BY <1>27, CallsAssumption DEF generation_ends
<1>28. ASSUME generation_is_stable PROVE TypeOK'
  BY <1>28, CallsAssumption DEF generation_is_stable
<1>29. ASSUME close_stdin PROVE TypeOK'
  BY <1>29, PipeType DEF close_stdin
<1>30. ASSUME process_ends PROVE TypeOK'
  BY <1>30, PipeType DEF process_ends
<1>31. ASSUME start_generation PROVE TypeOK'
  BY <1>31, PipeType DEF start_generation
<1>32. ASSUME start_fails PROVE TypeOK'
  BY <1>32, DepType, CallsAssumption DEF start_fails
<1>33. ASSUME runner_exits PROVE TypeOK'
  BY <1>33, DepType, PipeType DEF runner_exits
<1>34. ASSUME notify_failure PROVE TypeOK'
  BY <1>34, DepType, PipeType DEF notify_failure
<1>35. ASSUME stop PROVE TypeOK'
  <2>1. dep' \in Deployment /\ inbox' \in Seq(InFrame) /\ outbox' \in Seq(OutFrame)
    BY <1>35, DepType, PipeType DEF stop
  <2>2. /\ proc' \in {"none", "recovering", "up", "draining"} /\ active' \subseteq Calls
        /\ cancelled' \in [Calls -> BOOLEAN] /\ phase' \in [Calls -> Phases]
        /\ thread' \in [Calls -> {"none", "queued"} \cup Working \cup Outcomes]
    <3>1. CASE proc = "up"
      <4>1. cancelled' = [c \in Calls |-> cancelled[c] \/ c \in active]
        BY <1>35, <3>1 DEF stop
      <4>2. cancelled' \in [Calls -> BOOLEAN]
        BY <4>1, Zenon
      <4> QED BY <1>35, <3>1, <4>2 DEF stop
    <3>2. CASE proc # "up"
      BY <1>35, <3>2 DEF stop
    <3> QED BY <3>1, <3>2
  <2>3. fails' \in 0 .. Threshold
    BY <1>35, CallsAssumption DEF stop
  <2> QED BY <1>35, <2>1, <2>2, <2>3 DEF stop
<1>36. ASSUME UNCHANGED vars PROVE TypeOK'
  BY <1>36
<1> QED BY <1>1, <1>2, <1>3, <1>4, <1>5, <1>6, <1>7, <1>8, <1>9, <1>10, <1>11, <1>12,
       <1>13, <1>14, <1>15, <1>16, <1>17, <1>18, <1>19, <1>20, <1>21, <1>22, <1>23, <1>24,
       <1>25, <1>26, <1>27, <1>28, <1>29, <1>30, <1>31, <1>32, <1>33, <1>34, <1>35, <1>36
   DEF Next, Caller, Serve, Commit, Supervise
----------------------------------------------------------------------------
(* The steps.                                                              *)

\* A thread, the boundary, the journal's row and the file stay together.
LEMMA NextControl ==
  IInv /\ [Next]_vars => ThreadMatchesDisk' /\ RowMatchesFile' /\ LoopKnowsThreads'
<1> DEFINE Goal == ThreadMatchesDisk' /\ RowMatchesFile' /\ LoopKnowsThreads'
<1> SUFFICES ASSUME IInv, [Next]_vars PROVE Goal
  OBVIOUS
<1> USE DEF IInv, TypeOK, ThreadMatchesDisk, RowMatchesFile, LoopKnowsThreads, NotCommitted,
            vars, supVars, callVars, pipes, memory, disk, NotThread,
            Outcomes, Working, Phases, Dropped, CloseInput, Exit, Running, Go, SetPhase, SetRow
<1>1. ASSUME NEW c \in Calls, bind(c) PROVE Goal
  BY <1>1 DEF bind
<1>2. ASSUME NEW c \in Calls, call_tool(c) PROVE Goal
  BY <1>2 DEF call_tool
<1>3. ASSUME NEW c \in Calls, cancel_call(c) PROVE Goal
  BY <1>3 DEF cancel_call
<1>4. ASSUME NEW c \in Calls, call_gives_up(c) PROVE Goal
  BY <1>4 DEF call_gives_up
<1>5. ASSUME NEW c \in Calls, get_commit_receipt(c) PROVE Goal
  BY <1>5 DEF get_commit_receipt
<1>6. ASSUME NEW c \in Calls, handle_call(c) PROVE Goal
  <2>a. thread[c] = "none" /\ row[c] = "none"
    BY <1>6, TakeFrame DEF handle_call, Frame, SentOnce
  <2>1. ThreadMatchesDisk'
    BY <1>6, <2>a DEF handle_call
  <2>2. RowMatchesFile'
    BY <1>6, <2>a DEF handle_call
  <2>3. LoopKnowsThreads'
    BY <1>6, <2>a DEF handle_call, Frame
  <2> QED BY <2>1, <2>2, <2>3
<1>7. ASSUME NEW c \in Calls, handle_cancel(c) PROVE Goal
  BY <1>7 DEF handle_cancel
<1>8. ASSUME NEW c \in Calls, handle_commit_receipt_request(c) PROVE Goal
  BY <1>8 DEF handle_commit_receipt_request
<1>9. ASSUME NEW c \in Calls, handle_completion(c) PROVE Goal
  BY <1>9 DEF handle_completion
<1>10. ASSUME NEW c \in Calls, expire_call(c) PROVE Goal
  BY <1>10 DEF expire_call
<1>11. ASSUME NEW c \in Calls, take_call(c) PROVE Goal
  BY <1>11 DEF take_call
<1>12. ASSUME NEW c \in Calls, worker_prepares(c) PROVE Goal
  BY <1>12 DEF worker_prepares
<1>13. ASSUME NEW c \in Calls, stage(c) PROVE Goal
  BY <1>13 DEF stage
<1>14. ASSUME NEW c \in Calls, check_before_commit(c) PROVE Goal
  <2>1. ThreadMatchesDisk'
    BY <1>14 DEF check_before_commit
  <2>2. RowMatchesFile'
    BY <1>14 DEF check_before_commit
  <2>3. LoopKnowsThreads'
    BY <1>14 DEF check_before_commit
  <2> QED BY <2>1, <2>2, <2>3
<1>15. ASSUME NEW c \in Calls, try_mark_committing(c) PROVE Goal
  <2>1. ThreadMatchesDisk'
    BY <1>15 DEF try_mark_committing
  <2>2. RowMatchesFile'
    BY <1>15 DEF try_mark_committing
  <2>3. LoopKnowsThreads'
    BY <1>15 DEF try_mark_committing
  <2> QED BY <2>1, <2>2, <2>3
<1>16. ASSUME NEW c \in Calls, mark_committing(c) PROVE Goal
  <2>1. ThreadMatchesDisk'
    BY <1>16 DEF mark_committing
  <2>2. RowMatchesFile'
    BY <1>16 DEF mark_committing
  <2>3. LoopKnowsThreads'
    BY <1>16 DEF mark_committing
  <2> QED BY <2>1, <2>2, <2>3
<1>17. ASSUME NEW c \in Calls, move_no_replace(c) PROVE Goal
  <2>1. ThreadMatchesDisk'
    BY <1>17 DEF move_no_replace
  <2>2. RowMatchesFile'
    BY <1>17 DEF move_no_replace
  <2>3. LoopKnowsThreads'
    BY <1>17 DEF move_no_replace
  <2> QED BY <2>1, <2>2, <2>3
<1>18. ASSUME NEW c \in Calls, reconcile_move(c) PROVE Goal
  <2>1. ThreadMatchesDisk'
    BY <1>18 DEF reconcile_move, Judged
  <2>2. RowMatchesFile'
    BY <1>18 DEF reconcile_move, Judged
  <2>3. LoopKnowsThreads'
    BY <1>18 DEF reconcile_move, Judged
  <2> QED BY <2>1, <2>2, <2>3
<1>19. ASSUME NEW c \in Calls, verify_destination(c) PROVE Goal
  <2>1. ThreadMatchesDisk'
    BY <1>19 DEF verify_destination
  <2>2. RowMatchesFile'
    BY <1>19 DEF verify_destination
  <2>3. LoopKnowsThreads'
    BY <1>19 DEF verify_destination
  <2> QED BY <2>1, <2>2, <2>3
<1>20. ASSUME NEW c \in Calls, mark_committed(c) PROVE Goal
  BY <1>20 DEF mark_committed
<1>21. ASSUME NEW c \in Calls, publish_commit(c) PROVE Goal
  BY <1>21 DEF publish_commit
<1>22. ASSUME NEW c \in Calls, meddle(c) PROVE Goal
  BY <1>22 DEF meddle
<1>23. ASSUME NEW c \in Calls, recover_record(c) PROVE Goal
  <2>1. ThreadMatchesDisk'
    BY <1>23 DEF recover_record, Judged, Incomplete
  <2>2. RowMatchesFile'
    BY <1>23 DEF recover_record, Judged, Incomplete
  <2>3. LoopKnowsThreads'
    BY <1>23 DEF recover_record, Judged, Incomplete
  <2> QED BY <2>1, <2>2, <2>3
<1>24. ASSUME read_reply PROVE Goal
  BY <1>24 DEF read_reply
<1>25. ASSUME refuse_frame PROVE Goal
  BY <1>25 DEF refuse_frame
<1>26. ASSUME hello PROVE Goal
  BY <1>26 DEF hello
<1>27. ASSUME generation_ends PROVE Goal
  BY <1>27 DEF generation_ends
<1>28. ASSUME generation_is_stable PROVE Goal
  BY <1>28 DEF generation_is_stable
<1>29. ASSUME close_stdin PROVE Goal
  BY <1>29 DEF close_stdin
<1>30. ASSUME process_ends PROVE Goal
  BY <1>30 DEF process_ends
<1>31. ASSUME start_generation PROVE Goal
  <2>1. ThreadMatchesDisk'
    BY <1>31 DEF start_generation, Restartable
  <2>2. RowMatchesFile'
    BY <1>31 DEF start_generation, Restartable
  <2>3. LoopKnowsThreads'
    BY <1>31 DEF start_generation, Restartable
  <2> QED BY <2>1, <2>2, <2>3
<1>32. ASSUME start_fails PROVE Goal
  BY <1>32 DEF start_fails
<1>33. ASSUME runner_exits PROVE Goal
  BY <1>33 DEF runner_exits
<1>34. ASSUME notify_failure PROVE Goal
  BY <1>34 DEF notify_failure
<1>35. ASSUME stop PROVE Goal
  <2>1. ThreadMatchesDisk'
    BY <1>35 DEF stop
  <2>2. RowMatchesFile'
    BY <1>35 DEF stop
  <2>3. LoopKnowsThreads'
    <3>1. CASE proc = "up"
      <4>1. cancelled' = [c \in Calls |-> cancelled[c] \/ c \in active]
        BY <1>35, <3>1 DEF stop
      <4>2. \A c \in Calls : cancelled[c] \/ c \in active => cancelled'[c]
        BY <4>1, Zenon
      <4> QED BY <1>35, <3>1, <4>2 DEF stop
    <3>2. CASE proc # "up"
      BY <1>35, <3>2 DEF stop
    <3> QED BY <3>1, <3>2
  <2> QED BY <2>1, <2>2, <2>3
<1>36. ASSUME UNCHANGED vars PROVE Goal
  BY <1>36
<1> QED BY <1>1, <1>2, <1>3, <1>4, <1>5, <1>6, <1>7, <1>8, <1>9, <1>10, <1>11, <1>12,
       <1>13, <1>14, <1>15, <1>16, <1>17, <1>18, <1>19, <1>20, <1>21, <1>22, <1>23,
       <1>24, <1>25, <1>26, <1>27, <1>28, <1>29, <1>30, <1>31, <1>32, <1>33, <1>34,
       <1>35, <1>36
   DEF Next, Caller, Serve, Commit, Supervise

\* The frames of calls on their way: only call_tool writes one, and the loop
\* that takes one has taken the last.
LEMMA NextFrames ==
  ASSUME TypeOK, SentOnce, [Next]_vars, NEW d \in Calls
  PROVE  /\ SentAlone(d)'
         /\ Sent(d)' => Sent(d) \/ (caller[d] = "bound" /\ caller'[d] = "waiting")
         /\ handle_call(d) => Sent(d) /\ ~Sent(d)'
<1> DEFINE Goal == SentAlone(d)' /\ (Sent(d)' => Sent(d) \/ (caller[d] = "bound" /\ caller'[d] = "waiting"))
<1>a. handle_call(d) => Sent(d) /\ ~Sent(d)'
  BY TakeFrame DEF handle_call, Frame
<1> USE DEF vars, pipes, NotThread, Frame, CloseInput, Exit
<1>1. ASSUME NEW c \in Calls, bind(c) PROVE Goal
  BY <1>1, KeepFrames DEF bind
<1>2. ASSUME NEW c \in Calls, call_tool(c) PROVE Goal
  BY <1>2, WriteCall, KeepFrames DEF call_tool, TypeOK
<1>3. ASSUME NEW c \in Calls, cancel_call(c) PROVE Goal
  BY <1>3, WriteFrame DEF cancel_call
<1>4. ASSUME NEW c \in Calls, call_gives_up(c) PROVE Goal
  BY <1>4, WriteFrame, KeepFrames DEF call_gives_up
<1>5. ASSUME NEW c \in Calls, get_commit_receipt(c) PROVE Goal
  BY <1>5, WriteFrame DEF get_commit_receipt
<1>6. ASSUME NEW c \in Calls, handle_call(c) PROVE Goal
  BY <1>6, TakeFrame DEF handle_call
<1>7. ASSUME NEW c \in Calls, handle_cancel(c) PROVE Goal
  BY <1>7, TakeFrame DEF handle_cancel
<1>8. ASSUME NEW c \in Calls, handle_commit_receipt_request(c) PROVE Goal
  BY <1>8, TakeFrame DEF handle_commit_receipt_request
<1>9. ASSUME NEW c \in Calls, handle_completion(c) PROVE Goal
  BY <1>9, KeepFrames DEF handle_completion
<1>10. ASSUME NEW c \in Calls, expire_call(c) PROVE Goal
  BY <1>10, KeepFrames DEF expire_call
<1>11. ASSUME NEW c \in Calls, take_call(c) PROVE Goal
  BY <1>11, KeepFrames DEF take_call
<1>12. ASSUME NEW c \in Calls, worker_prepares(c) PROVE Goal
  BY <1>12, KeepFrames DEF worker_prepares
<1>13. ASSUME NEW c \in Calls, stage(c) PROVE Goal
  BY <1>13, KeepFrames DEF stage
<1>14. ASSUME NEW c \in Calls, check_before_commit(c) PROVE Goal
  BY <1>14, KeepFrames DEF check_before_commit
<1>15. ASSUME NEW c \in Calls, try_mark_committing(c) PROVE Goal
  BY <1>15, KeepFrames DEF try_mark_committing
<1>16. ASSUME NEW c \in Calls, mark_committing(c) PROVE Goal
  BY <1>16, KeepFrames DEF mark_committing
<1>17. ASSUME NEW c \in Calls, move_no_replace(c) PROVE Goal
  BY <1>17, KeepFrames DEF move_no_replace
<1>18. ASSUME NEW c \in Calls, reconcile_move(c) PROVE Goal
  BY <1>18, KeepFrames DEF reconcile_move
<1>19. ASSUME NEW c \in Calls, verify_destination(c) PROVE Goal
  BY <1>19, KeepFrames DEF verify_destination
<1>20. ASSUME NEW c \in Calls, mark_committed(c) PROVE Goal
  BY <1>20, KeepFrames DEF mark_committed
<1>21. ASSUME NEW c \in Calls, publish_commit(c) PROVE Goal
  BY <1>21, KeepFrames DEF publish_commit
<1>22. ASSUME NEW c \in Calls, meddle(c) PROVE Goal
  BY <1>22, KeepFrames DEF meddle
<1>23. ASSUME NEW c \in Calls, recover_record(c) PROVE Goal
  BY <1>23, KeepFrames DEF recover_record
<1>24. ASSUME read_reply PROVE Goal
  BY <1>24, KeepFrames DEF read_reply
<1>25. ASSUME refuse_frame PROVE Goal
  BY <1>25, TakeFrame DEF refuse_frame
<1>26. ASSUME hello PROVE Goal
  BY <1>26, KeepFrames DEF hello
<1>27. ASSUME generation_ends PROVE Goal
  BY <1>27, KeepFrames DEF generation_ends
<1>28. ASSUME generation_is_stable PROVE Goal
  BY <1>28, KeepFrames DEF generation_is_stable
<1>29. ASSUME close_stdin PROVE Goal
  BY <1>29, KeepFrames DEF close_stdin
<1>30. ASSUME process_ends PROVE Goal
  BY <1>30, KeepFrames DEF process_ends
<1>31. ASSUME start_generation PROVE Goal
  BY <1>31, KeepFrames DEF start_generation
<1>32. ASSUME start_fails PROVE Goal
  BY <1>32, KeepFrames DEF start_fails
<1>33. ASSUME runner_exits PROVE Goal
  BY <1>33, KeepFrames DEF runner_exits
<1>34. ASSUME notify_failure PROVE Goal
  BY <1>34, KeepFrames DEF notify_failure
<1>35. ASSUME stop PROVE Goal
  BY <1>35, KeepFrames DEF stop
<1>36. ASSUME UNCHANGED vars PROVE Goal
  BY <1>36, KeepFrames
<1> QED BY <1>a, <1>1, <1>2, <1>3, <1>4, <1>5, <1>6, <1>7, <1>8, <1>9, <1>10, <1>11, <1>12,
       <1>13, <1>14, <1>15, <1>16, <1>17, <1>18, <1>19, <1>20, <1>21, <1>22, <1>23,
       <1>24, <1>25, <1>26, <1>27, <1>28, <1>29, <1>30, <1>31, <1>32, <1>33, <1>34,
       <1>35, <1>36
   DEF Next, Caller, Serve, Commit, Supervise

\* A call's frame is read before anything is done for the call.
LEMMA NextSentOnce == IInv /\ [Next]_vars => SentOnce'
<1> SUFFICES ASSUME IInv, [Next]_vars, NEW d \in Calls
             PROVE  /\ Sent(d)' => caller'[d] \notin {"idle", "bound"}
                    /\ Sent(d)' \/ caller'[d] \in {"idle", "bound"} =>
                          thread'[d] = "none" /\ row'[d] = "none"
                    /\ SentAlone(d)'
  BY DEF SentOnce
<1> DEFINE Goal ==
      /\ Sent(d)' => caller'[d] \notin {"idle", "bound"}
      /\ Sent(d)' \/ caller'[d] \in {"idle", "bound"} =>
            thread'[d] = "none" /\ row'[d] = "none"
<1>f. /\ SentAlone(d)'
      /\ Sent(d)' => Sent(d) \/ (caller[d] = "bound" /\ caller'[d] = "waiting")
      /\ handle_call(d) => Sent(d) /\ ~Sent(d)'
  BY NextFrames DEF IInv
<1>g. /\ Sent(d) => caller[d] \notin {"idle", "bound"}
      /\ Sent(d) \/ caller[d] \in {"idle", "bound"} => thread[d] = "none" /\ row[d] = "none"
  BY DEF IInv, SentOnce
<1>h. TypeOK  BY DEF IInv
<1> USE DEF TypeOK, vars, callVars, memory, disk, NotThread, FailPending, Answers,
            Dropped, CloseInput, Exit, Running, Go, SetRow
<1>1. ASSUME NEW c \in Calls, bind(c) PROVE Goal
  BY <1>1, <1>f, <1>g, <1>h DEF bind
<1>2. ASSUME NEW c \in Calls, call_tool(c) PROVE Goal
  BY <1>2, <1>f, <1>g, <1>h DEF call_tool
<1>3. ASSUME NEW c \in Calls, cancel_call(c) PROVE Goal
  BY <1>3, <1>f, <1>g, <1>h DEF cancel_call
<1>4. ASSUME NEW c \in Calls, call_gives_up(c) PROVE Goal
  BY <1>4, <1>f, <1>g, <1>h DEF call_gives_up
<1>5. ASSUME NEW c \in Calls, get_commit_receipt(c) PROVE Goal
  BY <1>5, <1>f, <1>g, <1>h DEF get_commit_receipt
<1>6. ASSUME NEW c \in Calls, handle_call(c) PROVE Goal
  BY <1>6, <1>f, <1>g, <1>h DEF handle_call
<1>7. ASSUME NEW c \in Calls, handle_cancel(c) PROVE Goal
  BY <1>7, <1>f, <1>g, <1>h DEF handle_cancel
<1>8. ASSUME NEW c \in Calls, handle_commit_receipt_request(c) PROVE Goal
  BY <1>8, <1>f, <1>g, <1>h DEF handle_commit_receipt_request
<1>9. ASSUME NEW c \in Calls, handle_completion(c) PROVE Goal
  BY <1>9, <1>f, <1>g, <1>h DEF handle_completion
<1>10. ASSUME NEW c \in Calls, expire_call(c) PROVE Goal
  BY <1>10, <1>f, <1>g, <1>h DEF expire_call
<1>11. ASSUME NEW c \in Calls, take_call(c) PROVE Goal
  BY <1>11, <1>f, <1>g, <1>h DEF take_call
<1>12. ASSUME NEW c \in Calls, worker_prepares(c) PROVE Goal
  BY <1>12, <1>f, <1>g, <1>h DEF worker_prepares
<1>13. ASSUME NEW c \in Calls, stage(c) PROVE Goal
  BY <1>13, <1>f, <1>g, <1>h DEF stage
<1>14. ASSUME NEW c \in Calls, check_before_commit(c) PROVE Goal
  BY <1>14, <1>f, <1>g, <1>h DEF check_before_commit
<1>15. ASSUME NEW c \in Calls, try_mark_committing(c) PROVE Goal
  BY <1>15, <1>f, <1>g, <1>h DEF try_mark_committing
<1>16. ASSUME NEW c \in Calls, mark_committing(c) PROVE Goal
  BY <1>16, <1>f, <1>g, <1>h DEF mark_committing
<1>17. ASSUME NEW c \in Calls, move_no_replace(c) PROVE Goal
  BY <1>17, <1>f, <1>g, <1>h DEF move_no_replace
<1>18. ASSUME NEW c \in Calls, reconcile_move(c) PROVE Goal
  BY <1>18, <1>f, <1>g, <1>h DEF reconcile_move
<1>19. ASSUME NEW c \in Calls, verify_destination(c) PROVE Goal
  BY <1>19, <1>f, <1>g, <1>h DEF verify_destination
<1>20. ASSUME NEW c \in Calls, mark_committed(c) PROVE Goal
  BY <1>20, <1>f, <1>g, <1>h DEF mark_committed
<1>21. ASSUME NEW c \in Calls, publish_commit(c) PROVE Goal
  BY <1>21, <1>f, <1>g, <1>h DEF publish_commit
<1>22. ASSUME NEW c \in Calls, meddle(c) PROVE Goal
  BY <1>22, <1>f, <1>g, <1>h DEF meddle
<1>23. ASSUME NEW c \in Calls, recover_record(c) PROVE Goal
  BY <1>23, <1>f, <1>g, <1>h DEF recover_record, Incomplete
<1>24. ASSUME read_reply PROVE Goal
  BY <1>24, <1>f, <1>g, <1>h DEF read_reply
<1>25. ASSUME refuse_frame PROVE Goal
  BY <1>25, <1>f, <1>g, <1>h DEF refuse_frame
<1>26. ASSUME hello PROVE Goal
  BY <1>26, <1>f, <1>g, <1>h DEF hello
<1>27. ASSUME generation_ends PROVE Goal
  BY <1>27, <1>f, <1>g, <1>h DEF generation_ends
<1>28. ASSUME generation_is_stable PROVE Goal
  BY <1>28, <1>f, <1>g, <1>h DEF generation_is_stable
<1>29. ASSUME close_stdin PROVE Goal
  BY <1>29, <1>f, <1>g, <1>h DEF close_stdin
<1>30. ASSUME process_ends PROVE Goal
  BY <1>30, <1>f, <1>g, <1>h DEF process_ends
<1>31. ASSUME start_generation PROVE Goal
  BY <1>31, <1>f, <1>g, <1>h DEF start_generation
<1>32. ASSUME start_fails PROVE Goal
  BY <1>32, <1>f, <1>g, <1>h DEF start_fails
<1>33. ASSUME runner_exits PROVE Goal
  BY <1>33, <1>f, <1>g, <1>h DEF runner_exits
<1>34. ASSUME notify_failure PROVE Goal
  BY <1>34, <1>f, <1>g, <1>h DEF notify_failure
<1>35. ASSUME stop PROVE Goal
  BY <1>35, <1>f, <1>g, <1>h DEF stop
<1>36. ASSUME UNCHANGED vars PROVE Goal
  BY <1>36, <1>f, <1>g, <1>h
<1> QED BY <1>f, <1>1, <1>2, <1>3, <1>4, <1>5, <1>6, <1>7, <1>8, <1>9, <1>10, <1>11, <1>12,
       <1>13, <1>14, <1>15, <1>16, <1>17, <1>18, <1>19, <1>20, <1>21, <1>22, <1>23,
       <1>24, <1>25, <1>26, <1>27, <1>28, <1>29, <1>30, <1>31, <1>32, <1>33, <1>34,
       <1>35, <1>36
   DEF Next, Caller, Serve, Commit, Supervise

\* What is certain stays certain: a receipt is never taken back, and a call
\* that can no longer move its file never can again.
LEMMA NextBacked ==
  ASSUME IInv, [Next]_vars, NEW d \in Calls
  PROVE  /\ row[d] = "committed" => row'[d] = "committed"
         /\ NeverMoves(d) => NeverMoves(d)'
<1> DEFINE Goal == /\ row[d] = "committed" => row'[d] = "committed"
                   /\ NeverMoves(d) => NeverMoves(d)'
<1>f. /\ Sent(d)' => Sent(d) \/ (caller[d] = "bound" /\ caller'[d] = "waiting")
      /\ handle_call(d) => Sent(d) /\ ~Sent(d)'
  BY NextFrames DEF IInv
<1>h. TypeOK /\ ThreadMatchesDisk /\ LoopKnowsThreads BY DEF IInv
<1> USE DEF TypeOK, ThreadMatchesDisk, LoopKnowsThreads, NeverMoves, vars, callVars, memory, disk,
            NotThread, FailPending, Answers, Outcomes, Working, Phases,
            Dropped, CloseInput, Exit, Running, Go, SetRow
<1>1. ASSUME NEW c \in Calls, bind(c) PROVE Goal
  BY <1>1, <1>f, <1>h DEF bind
<1>2. ASSUME NEW c \in Calls, call_tool(c) PROVE Goal
  BY <1>2, <1>f, <1>h DEF call_tool
<1>3. ASSUME NEW c \in Calls, cancel_call(c) PROVE Goal
  BY <1>3, <1>f, <1>h DEF cancel_call
<1>4. ASSUME NEW c \in Calls, call_gives_up(c) PROVE Goal
  BY <1>4, <1>f, <1>h DEF call_gives_up
<1>5. ASSUME NEW c \in Calls, get_commit_receipt(c) PROVE Goal
  BY <1>5, <1>f, <1>h DEF get_commit_receipt
<1>6. ASSUME NEW c \in Calls, handle_call(c) PROVE Goal
  BY <1>6, <1>f, <1>h DEF handle_call
<1>7. ASSUME NEW c \in Calls, handle_cancel(c) PROVE Goal
  BY <1>7, <1>f, <1>h DEF handle_cancel
<1>8. ASSUME NEW c \in Calls, handle_commit_receipt_request(c) PROVE Goal
  BY <1>8, <1>f, <1>h DEF handle_commit_receipt_request
<1>9. ASSUME NEW c \in Calls, handle_completion(c) PROVE Goal
  BY <1>9, <1>f, <1>h DEF handle_completion
<1>10. ASSUME NEW c \in Calls, expire_call(c) PROVE Goal
  BY <1>10, <1>f, <1>h DEF expire_call
<1>11. ASSUME NEW c \in Calls, take_call(c) PROVE Goal
  BY <1>11, <1>f, <1>h DEF take_call
<1>12. ASSUME NEW c \in Calls, worker_prepares(c) PROVE Goal
  BY <1>12, <1>f, <1>h DEF worker_prepares
<1>13. ASSUME NEW c \in Calls, stage(c) PROVE Goal
  BY <1>13, <1>f, <1>h DEF stage
<1>14. ASSUME NEW c \in Calls, check_before_commit(c) PROVE Goal
  BY <1>14, <1>f, <1>h DEF check_before_commit
<1>15. ASSUME NEW c \in Calls, try_mark_committing(c) PROVE Goal
  BY <1>15, <1>f, <1>h DEF try_mark_committing
<1>16. ASSUME NEW c \in Calls, mark_committing(c) PROVE Goal
  BY <1>16, <1>f, <1>h DEF mark_committing
<1>17. ASSUME NEW c \in Calls, move_no_replace(c) PROVE Goal
  BY <1>17, <1>f, <1>h DEF move_no_replace
<1>18. ASSUME NEW c \in Calls, reconcile_move(c) PROVE Goal
  BY <1>18, <1>f, <1>h DEF reconcile_move
<1>19. ASSUME NEW c \in Calls, verify_destination(c) PROVE Goal
  BY <1>19, <1>f, <1>h DEF verify_destination
<1>20. ASSUME NEW c \in Calls, mark_committed(c) PROVE Goal
  BY <1>20, <1>f, <1>h DEF mark_committed
<1>21. ASSUME NEW c \in Calls, publish_commit(c) PROVE Goal
  BY <1>21, <1>f, <1>h DEF publish_commit
<1>22. ASSUME NEW c \in Calls, meddle(c) PROVE Goal
  BY <1>22, <1>f, <1>h DEF meddle
<1>23. ASSUME NEW c \in Calls, recover_record(c) PROVE Goal
  BY <1>23, <1>f, <1>h DEF recover_record, Incomplete
<1>24. ASSUME read_reply PROVE Goal
  BY <1>24, <1>f, <1>h DEF read_reply
<1>25. ASSUME refuse_frame PROVE Goal
  BY <1>25, <1>f, <1>h DEF refuse_frame
<1>26. ASSUME hello PROVE Goal
  BY <1>26, <1>f, <1>h DEF hello
<1>27. ASSUME generation_ends PROVE Goal
  BY <1>27, <1>f, <1>h DEF generation_ends
<1>28. ASSUME generation_is_stable PROVE Goal
  BY <1>28, <1>f, <1>h DEF generation_is_stable
<1>29. ASSUME close_stdin PROVE Goal
  BY <1>29, <1>f, <1>h DEF close_stdin
<1>30. ASSUME process_ends PROVE Goal
  BY <1>30, <1>f, <1>h DEF process_ends
<1>31. ASSUME start_generation PROVE Goal
  BY <1>31, <1>f, <1>h DEF start_generation
<1>32. ASSUME start_fails PROVE Goal
  BY <1>32, <1>f, <1>h DEF start_fails
<1>33. ASSUME runner_exits PROVE Goal
  BY <1>33, <1>f, <1>h DEF runner_exits
<1>34. ASSUME notify_failure PROVE Goal
  BY <1>34, <1>f, <1>h DEF notify_failure
<1>35. ASSUME stop PROVE Goal
  BY <1>35, <1>f, <1>h DEF stop
<1>36. ASSUME UNCHANGED vars PROVE Goal
  BY <1>36, <1>f, <1>h
<1> QED BY <1>1, <1>2, <1>3, <1>4, <1>5, <1>6, <1>7, <1>8, <1>9, <1>10, <1>11, <1>12,
       <1>13, <1>14, <1>15, <1>16, <1>17, <1>18, <1>19, <1>20, <1>21, <1>22, <1>23,
       <1>24, <1>25, <1>26, <1>27, <1>28, <1>29, <1>30, <1>31, <1>32, <1>33, <1>34,
       <1>35, <1>36
   DEF Next, Caller, Serve, Commit, Supervise

\* An answer on the pipe stays backed.
LEMMA FrameStaysBacked ==
  ASSUME IInv, [Next]_vars, NEW m, \E l \in DOMAIN outbox : m = outbox[l]
  PROVE  Backed(m.call, m.type)'
<1>1. PICK l \in DOMAIN outbox : m = outbox[l]
  OBVIOUS
<1>2. m \in OutFrame
  BY <1>1 DEF IInv, TypeOK
<1>3. m.call \in Calls
  BY <1>2 DEF OutFrame
<1>4. Backed(m.call, m.type)
  BY <1>1 DEF IInv, AnswersBacked
<1> QED BY <1>3, <1>4, NextBacked DEF Backed

\* The pipe is left alone, read or closed.
LEMMA KeepAnswers ==
  ASSUME IInv, [Next]_vars,
         outbox' \in {outbox, <<>>} \/ (outbox # <<>> /\ outbox' = Tail(outbox))
  PROVE  AnswersBacked'
<1>1. outbox \in Seq(OutFrame)
  BY DEF IInv, TypeOK
<1>2. \A k \in DOMAIN outbox' : \E l \in DOMAIN outbox : outbox'[k] = outbox[l]
  <2>1. CASE outbox' \in {outbox, <<>>}
    BY <2>1
  <2>2. CASE outbox # <<>> /\ outbox' = Tail(outbox)
    BY <1>1, <2>2, TailOf
  <2> QED BY <2>1, <2>2
<1>3. ASSUME NEW k \in DOMAIN outbox' PROVE Backed(outbox[k].call, outbox[k].type)'
  <2>1. PICK m : m = outbox'[k]
    OBVIOUS
  <2>2. Backed(m.call, m.type)'
    BY <1>2, <2>1, FrameStaysBacked
  <2> QED BY <2>1, <2>2
<1> QED BY <1>3 DEF AnswersBacked

\* The loop writes an answer that is backed.
LEMMA AddAnswer ==
  ASSUME IInv, [Next]_vars, NEW c \in Calls, NEW t \in Answers \cup {"receipt", "no_receipt"},
         Send(t, c), Backed(c, t)'
  PROVE  AnswersBacked'
<1> DEFINE e == [type |-> t, call |-> c]
<1>1. outbox \in Seq(OutFrame) /\ e \in OutFrame
  BY DEF IInv, TypeOK, OutFrame
<1>2. \A k \in DOMAIN outbox' : outbox'[k] = e \/ \E l \in DOMAIN outbox : outbox'[k] = outbox[l]
  <2> HIDE DEF e
  <2> QED BY <1>1, AppendTo DEF Send, e
<1>3. ASSUME NEW k \in DOMAIN outbox' PROVE Backed(outbox[k].call, outbox[k].type)'
  <2>1. PICK m : m = outbox'[k]
    OBVIOUS
  <2>2. CASE m = e
    BY <2>1, <2>2
  <2>3. CASE \E l \in DOMAIN outbox : m = outbox[l]
    <3>1. Backed(m.call, m.type)'
      BY <2>3, FrameStaysBacked
    <3> QED BY <2>1, <3>1
  <2> QED BY <1>2, <2>1, <2>2, <2>3
<1> QED BY <1>3 DEF AnswersBacked

\* handle_completion, _expire_calls and the rest write only what is backed.
LEMMA NextAnswers == IInv /\ [Next]_vars => AnswersBacked'
<1> SUFFICES ASSUME IInv, [Next]_vars PROVE AnswersBacked'
  OBVIOUS
<1> USE DEF vars, pipes, NotThread, CloseInput, Exit
<1>1. ASSUME NEW c \in Calls, bind(c) PROVE AnswersBacked'
  BY <1>1, KeepAnswers DEF bind
<1>2. ASSUME NEW c \in Calls, call_tool(c) PROVE AnswersBacked'
  BY <1>2, KeepAnswers DEF call_tool
<1>3. ASSUME NEW c \in Calls, cancel_call(c) PROVE AnswersBacked'
  BY <1>3, KeepAnswers DEF cancel_call
<1>4. ASSUME NEW c \in Calls, call_gives_up(c) PROVE AnswersBacked'
  BY <1>4, KeepAnswers DEF call_gives_up
<1>5. ASSUME NEW c \in Calls, get_commit_receipt(c) PROVE AnswersBacked'
  BY <1>5, KeepAnswers DEF get_commit_receipt
<1>6. ASSUME NEW c \in Calls, handle_call(c) PROVE AnswersBacked'
  <2>1. Sent(c) /\ ~Sent(c)'
    BY <1>6, NextFrames DEF IInv
  <2>2. thread[c] = "none" /\ row[c] = "none" /\ caller[c] \notin {"idle", "bound"} /\ ~moved[c]
    BY <2>1 DEF IInv, SentOnce, RowMatchesFile, NotCommitted
  <2>3. CASE Send("failed", c) /\ thread' = thread
    <3>1. Backed(c, "failed")'
      BY <1>6, <2>1, <2>2, <2>3 DEF handle_call, Backed, NeverMoves, callVars, disk
    <3> QED BY <2>3, <3>1, AddAnswer DEF Answers
  <2>4. CASE outbox' = outbox
    BY <2>4, KeepAnswers
  <2> QED BY <1>6, <2>3, <2>4 DEF handle_call
<1>7. ASSUME NEW c \in Calls, handle_cancel(c) PROVE AnswersBacked'
  <2>1. Backed(c, "unknown")'
    BY DEF Backed
  <2>2. Send("unknown", c) \/ outbox' = outbox
    BY <1>7 DEF handle_cancel
  <2> QED BY <2>1, <2>2, AddAnswer, KeepAnswers DEF Answers
<1>8. ASSUME NEW c \in Calls, handle_commit_receipt_request(c) PROVE AnswersBacked'
  <2>1. CASE row[c] = "committed"
    BY <1>8, <2>1, AddAnswer DEF handle_commit_receipt_request, Backed, disk
  <2>2. CASE row[c] # "committed"
    BY <1>8, <2>2, AddAnswer DEF handle_commit_receipt_request, Backed, disk
  <2> QED BY <2>1, <2>2
<1>9. ASSUME NEW c \in Calls, handle_completion(c) PROVE AnswersBacked'
  <2>1. PICK t \in Answers : t = CompletionResult(c)
    BY CompletionType
  <2>2. /\ TypeOK /\ ThreadMatchesDisk /\ RowMatchesFile
        /\ thread[c] # "none" => ~Sent(c) /\ caller[c] \notin {"idle", "bound"}
    BY DEF IInv, SentOnce
  <2>3. Sent(c)' => Sent(c)
    BY <1>9, NextFrames DEF handle_completion, callVars, IInv
  <2>4. t = "succeeded" => row[c] = "committed"
    BY <1>9, <2>1, <2>2 DEF handle_completion, CompletionResult, ThreadMatchesDisk, Outcomes, TypeOK
  <2>5. t \in {"failed", "cancelled"} => row[c] \in NotCommitted
    <3>1. phase[c] \in Phases /\ thread[c] \in Outcomes
      BY <1>9, <2>2 DEF TypeOK, handle_completion
    <3>2. t \in {"failed", "cancelled"} =>
            thread[c] = "dropped" \/ phase[c] \in {"before_commit", "no_effect"}
      <4>1. /\ thread[c] = "interrupted" => phase[c] \in {"before_commit", "no_effect"}
            /\ thread[c] = "returned" => phase[c] = "committed"
        BY <2>2 DEF ThreadMatchesDisk
      <4>2. CASE cancelled[c]
        BY <2>1, <3>1, <4>2 DEF CompletionResult
      <4>3. CASE ~cancelled[c]
        BY <2>1, <3>1, <4>1, <4>3 DEF CompletionResult, Phases, Outcomes
      <4> QED BY <4>2, <4>3
    <3> QED BY <2>2, <3>1, <3>2 DEF ThreadMatchesDisk, NotCommitted
  <2>6. Backed(c, t)'
    BY <1>9, <2>2, <2>3, <2>4, <2>5 DEF handle_completion, Backed, NeverMoves, RowMatchesFile,
       Answers, Outcomes, callVars, disk
  <2> QED BY <1>9, <2>1, <2>6, AddAnswer DEF handle_completion
<1>10. ASSUME NEW c \in Calls, expire_call(c) PROVE AnswersBacked'
  <2>1. PICK t \in Answers : t = ExpiryResult(c)
    BY CompletionType
  <2>2. /\ TypeOK /\ ThreadMatchesDisk /\ RowMatchesFile
        /\ thread[c] # "none" /\ ~Sent(c) /\ caller[c] \notin {"idle", "bound"}
    BY <1>10 DEF IInv, SentOnce, LoopKnowsThreads, expire_call
  <2>3. Sent(c)' => Sent(c)
    BY <1>10, NextFrames DEF expire_call, callVars, IInv
  <2>4. t = "succeeded" => row[c] = "committed"
    BY <2>1, <2>2 DEF ExpiryResult, ThreadMatchesDisk
  <2>5. t \in {"failed", "cancelled"} =>
          /\ row[c] \in NotCommitted
          /\ thread[c] \in {"queued", "prepare", "stage", "check", "enter"} \cup Outcomes
    BY <2>1, <2>2 DEF ExpiryResult, ThreadMatchesDisk, Outcomes, Working, NotCommitted, TypeOK
  <2>6. cancelled'[c] /\ thread'[c] = Dropped(c)
    BY <1>10, <2>2 DEF expire_call, TypeOK
  <2>7. Backed(c, t)'
    BY <1>10, <2>2, <2>3, <2>4, <2>5, <2>6 DEF expire_call, Backed, NeverMoves, RowMatchesFile,
       Answers, Outcomes, Dropped, callVars, disk
  <2> QED BY <1>10, <2>1, <2>7, AddAnswer DEF expire_call
<1>11. ASSUME NEW c \in Calls, take_call(c) PROVE AnswersBacked'
  BY <1>11, KeepAnswers DEF take_call
<1>12. ASSUME NEW c \in Calls, worker_prepares(c) PROVE AnswersBacked'
  BY <1>12, KeepAnswers DEF worker_prepares
<1>13. ASSUME NEW c \in Calls, stage(c) PROVE AnswersBacked'
  BY <1>13, KeepAnswers DEF stage
<1>14. ASSUME NEW c \in Calls, check_before_commit(c) PROVE AnswersBacked'
  BY <1>14, KeepAnswers DEF check_before_commit
<1>15. ASSUME NEW c \in Calls, try_mark_committing(c) PROVE AnswersBacked'
  BY <1>15, KeepAnswers DEF try_mark_committing
<1>16. ASSUME NEW c \in Calls, mark_committing(c) PROVE AnswersBacked'
  BY <1>16, KeepAnswers DEF mark_committing
<1>17. ASSUME NEW c \in Calls, move_no_replace(c) PROVE AnswersBacked'
  BY <1>17, KeepAnswers DEF move_no_replace
<1>18. ASSUME NEW c \in Calls, reconcile_move(c) PROVE AnswersBacked'
  BY <1>18, KeepAnswers DEF reconcile_move
<1>19. ASSUME NEW c \in Calls, verify_destination(c) PROVE AnswersBacked'
  BY <1>19, KeepAnswers DEF verify_destination
<1>20. ASSUME NEW c \in Calls, mark_committed(c) PROVE AnswersBacked'
  BY <1>20, KeepAnswers DEF mark_committed
<1>21. ASSUME NEW c \in Calls, publish_commit(c) PROVE AnswersBacked'
  BY <1>21, KeepAnswers DEF publish_commit
<1>22. ASSUME NEW c \in Calls, meddle(c) PROVE AnswersBacked'
  BY <1>22, KeepAnswers DEF meddle
<1>23. ASSUME NEW c \in Calls, recover_record(c) PROVE AnswersBacked'
  BY <1>23, KeepAnswers DEF recover_record
<1>24. ASSUME read_reply PROVE AnswersBacked'
  BY <1>24, KeepAnswers DEF read_reply
<1>25. ASSUME refuse_frame PROVE AnswersBacked'
  BY <1>25, KeepAnswers DEF refuse_frame
<1>26. ASSUME hello PROVE AnswersBacked'
  BY <1>26, KeepAnswers DEF hello
<1>27. ASSUME generation_ends PROVE AnswersBacked'
  BY <1>27, KeepAnswers DEF generation_ends
<1>28. ASSUME generation_is_stable PROVE AnswersBacked'
  BY <1>28, KeepAnswers DEF generation_is_stable
<1>29. ASSUME close_stdin PROVE AnswersBacked'
  BY <1>29, KeepAnswers DEF close_stdin
<1>30. ASSUME process_ends PROVE AnswersBacked'
  BY <1>30, KeepAnswers DEF process_ends
<1>31. ASSUME start_generation PROVE AnswersBacked'
  BY <1>31, KeepAnswers DEF start_generation
<1>32. ASSUME start_fails PROVE AnswersBacked'
  BY <1>32, KeepAnswers DEF start_fails
<1>33. ASSUME runner_exits PROVE AnswersBacked'
  BY <1>33, KeepAnswers DEF runner_exits
<1>34. ASSUME notify_failure PROVE AnswersBacked'
  BY <1>34, KeepAnswers DEF notify_failure
<1>35. ASSUME stop PROVE AnswersBacked'
  BY <1>35, KeepAnswers DEF stop
<1>36. ASSUME UNCHANGED vars PROVE AnswersBacked'
  BY <1>36, KeepAnswers
<1> QED BY <1>1, <1>2, <1>3, <1>4, <1>5, <1>6, <1>7, <1>8, <1>9, <1>10, <1>11, <1>12,
       <1>13, <1>14, <1>15, <1>16, <1>17, <1>18, <1>19, <1>20, <1>21, <1>22, <1>23,
       <1>24, <1>25, <1>26, <1>27, <1>28, <1>29, <1>30, <1>31, <1>32, <1>33, <1>34,
       <1>35, <1>36
   DEF Next, Caller, Serve, Commit, Supervise

\* The control plane learns only what is backed, and it stays so.
LEMMA NextKnowledge == IInv /\ [Next]_vars => KnowledgeBacked'
<1> DEFINE Goal(d) == /\ caller'[d] \in {"succeeded", "receipt"} => row'[d] = "committed"
                      /\ caller'[d] \in {"failed", "cancelled"} => NeverMoves(d)'
                      /\ evidence'[d] = "receipt" => row'[d] = "committed"
<1> SUFFICES ASSUME IInv, [Next]_vars, NEW d \in Calls PROVE Goal(d)
  BY DEF KnowledgeBacked, Backed
<1>b. /\ row[d] = "committed" => row'[d] = "committed"
      /\ NeverMoves(d) => NeverMoves(d)'
  BY NextBacked
<1>k. /\ caller[d] \in {"succeeded", "receipt"} => row[d] = "committed"
      /\ caller[d] \in {"failed", "cancelled"} => NeverMoves(d)
      /\ evidence[d] = "receipt" => row[d] = "committed"
  BY DEF IInv, KnowledgeBacked, Backed
<1>t. TypeOK  BY DEF IInv
<1> USE DEF TypeOK, vars, callVars, NotThread, FailPending
<1>1. ASSUME NEW c \in Calls, bind(c) PROVE Goal(d)
  BY <1>1, <1>b, <1>k, <1>t DEF bind
<1>2. ASSUME NEW c \in Calls, call_tool(c) PROVE Goal(d)
  BY <1>2, <1>b, <1>k, <1>t DEF call_tool
<1>3. ASSUME NEW c \in Calls, cancel_call(c) PROVE Goal(d)
  BY <1>3, <1>b, <1>k, <1>t DEF cancel_call
<1>4. ASSUME NEW c \in Calls, call_gives_up(c) PROVE Goal(d)
  BY <1>4, <1>b, <1>k, <1>t DEF call_gives_up
<1>5. ASSUME NEW c \in Calls, get_commit_receipt(c) PROVE Goal(d)
  BY <1>5, <1>b, <1>k, <1>t DEF get_commit_receipt
<1>6. ASSUME NEW c \in Calls, handle_call(c) PROVE Goal(d)
  BY <1>6, <1>b, <1>k, <1>t DEF handle_call
<1>7. ASSUME NEW c \in Calls, handle_cancel(c) PROVE Goal(d)
  BY <1>7, <1>b, <1>k, <1>t DEF handle_cancel
<1>8. ASSUME NEW c \in Calls, handle_commit_receipt_request(c) PROVE Goal(d)
  BY <1>8, <1>b, <1>k, <1>t DEF handle_commit_receipt_request
<1>9. ASSUME NEW c \in Calls, handle_completion(c) PROVE Goal(d)
  BY <1>9, <1>b, <1>k, <1>t DEF handle_completion
<1>10. ASSUME NEW c \in Calls, expire_call(c) PROVE Goal(d)
  BY <1>10, <1>b, <1>k, <1>t DEF expire_call
<1>11. ASSUME NEW c \in Calls, take_call(c) PROVE Goal(d)
  BY <1>11, <1>b, <1>k, <1>t DEF take_call
<1>12. ASSUME NEW c \in Calls, worker_prepares(c) PROVE Goal(d)
  BY <1>12, <1>b, <1>k, <1>t DEF worker_prepares
<1>13. ASSUME NEW c \in Calls, stage(c) PROVE Goal(d)
  BY <1>13, <1>b, <1>k, <1>t DEF stage
<1>14. ASSUME NEW c \in Calls, check_before_commit(c) PROVE Goal(d)
  BY <1>14, <1>b, <1>k, <1>t DEF check_before_commit
<1>15. ASSUME NEW c \in Calls, try_mark_committing(c) PROVE Goal(d)
  BY <1>15, <1>b, <1>k, <1>t DEF try_mark_committing
<1>16. ASSUME NEW c \in Calls, mark_committing(c) PROVE Goal(d)
  BY <1>16, <1>b, <1>k, <1>t DEF mark_committing
<1>17. ASSUME NEW c \in Calls, move_no_replace(c) PROVE Goal(d)
  BY <1>17, <1>b, <1>k, <1>t DEF move_no_replace
<1>18. ASSUME NEW c \in Calls, reconcile_move(c) PROVE Goal(d)
  BY <1>18, <1>b, <1>k, <1>t DEF reconcile_move
<1>19. ASSUME NEW c \in Calls, verify_destination(c) PROVE Goal(d)
  BY <1>19, <1>b, <1>k, <1>t DEF verify_destination
<1>20. ASSUME NEW c \in Calls, mark_committed(c) PROVE Goal(d)
  BY <1>20, <1>b, <1>k, <1>t DEF mark_committed
<1>21. ASSUME NEW c \in Calls, publish_commit(c) PROVE Goal(d)
  BY <1>21, <1>b, <1>k, <1>t DEF publish_commit
<1>22. ASSUME NEW c \in Calls, meddle(c) PROVE Goal(d)
  BY <1>22, <1>b, <1>k, <1>t DEF meddle
<1>23. ASSUME NEW c \in Calls, recover_record(c) PROVE Goal(d)
  BY <1>23, <1>b, <1>k, <1>t DEF recover_record
<1>24. ASSUME read_reply PROVE Goal(d)
  <2>1. PICK m : m = Head(outbox)
    OBVIOUS
  <2>2. m \in OutFrame /\ \E l \in DOMAIN outbox : m = outbox[l]
    BY <1>24, <1>t, <2>1, TailOf DEF read_reply
  <2>3. Backed(m.call, m.type)'
    BY <2>2, FrameStaysBacked
  <2>4. /\ caller'[d] = caller[d] \/ (d = m.call /\ caller'[d] = m.type)
        /\ evidence'[d] = evidence[d] \/ (d = m.call /\ evidence'[d] = m.type)
    BY <1>24, <1>t, <2>1 DEF read_reply
  <2> QED BY <1>b, <1>k, <2>3, <2>4 DEF Backed
<1>25. ASSUME refuse_frame PROVE Goal(d)
  BY <1>25, <1>b, <1>k, <1>t DEF refuse_frame
<1>26. ASSUME hello PROVE Goal(d)
  BY <1>26, <1>b, <1>k, <1>t DEF hello
<1>27. ASSUME generation_ends PROVE Goal(d)
  BY <1>27, <1>b, <1>k, <1>t DEF generation_ends
<1>28. ASSUME generation_is_stable PROVE Goal(d)
  BY <1>28, <1>b, <1>k, <1>t DEF generation_is_stable
<1>29. ASSUME close_stdin PROVE Goal(d)
  BY <1>29, <1>b, <1>k, <1>t DEF close_stdin
<1>30. ASSUME process_ends PROVE Goal(d)
  BY <1>30, <1>b, <1>k, <1>t DEF process_ends
<1>31. ASSUME start_generation PROVE Goal(d)
  BY <1>31, <1>b, <1>k, <1>t DEF start_generation
<1>32. ASSUME start_fails PROVE Goal(d)
  BY <1>32, <1>b, <1>k, <1>t DEF start_fails
<1>33. ASSUME runner_exits PROVE Goal(d)
  BY <1>33, <1>b, <1>k, <1>t DEF runner_exits
<1>34. ASSUME notify_failure PROVE Goal(d)
  BY <1>34, <1>b, <1>k, <1>t DEF notify_failure
<1>35. ASSUME stop PROVE Goal(d)
  BY <1>35, <1>b, <1>k, <1>t DEF stop
<1>36. ASSUME UNCHANGED vars PROVE Goal(d)
  BY <1>36, <1>b, <1>k, <1>t
<1> QED BY <1>1, <1>2, <1>3, <1>4, <1>5, <1>6, <1>7, <1>8, <1>9, <1>10, <1>11, <1>12,
       <1>13, <1>14, <1>15, <1>16, <1>17, <1>18, <1>19, <1>20, <1>21, <1>22, <1>23,
       <1>24, <1>25, <1>26, <1>27, <1>28, <1>29, <1>30, <1>31, <1>32, <1>33, <1>34,
       <1>35, <1>36
   DEF Next, Caller, Serve, Commit, Supervise

\* Together: the invariant is inductive.
LEMMA NextIInv == IInv /\ [Next]_vars => IInv'
  BY NextTypeOK, NextControl, NextSentOnce, NextAnswers, NextKnowledge DEF IInv

\* The invariant holds in every state.
LEMMA InductiveInvariant == Spec => []IInv
  BY InitIInv, NextIInv, PTL DEF Spec
----------------------------------------------------------------------------
(* The results.                                                            *)

\* The states of the supervisor, the Runner and the pipes keep their types.
THEOREM TypeCorrect == Spec => []TypeOK
<1>1. IInv => TypeOK  BY DEF IInv
<1> QED BY <1>1, InductiveInvariant, PTL

\* "succeeded" is of a file that was moved and recorded, "failed" and
\* "cancelled" of a file that was not moved, whatever the number of calls, of
\* threads, of failures of the process and of restarts
\* (_handle_completion, _expire_calls, try_mark_committing).
THEOREM AnswersTruthful == Spec => []AnswerIsTruthful
<1>1. IInv => AnswerIsTruthful
  BY DEF IInv, AnswerIsTruthful, KnowledgeBacked, Backed, NeverMoves, RowMatchesFile
<1> QED BY <1>1, InductiveInvariant, PTL

\* The journal's rows and the receipts shown as evidence say what the file
\* shows, whoever closed the row (CommitReceiptStore, _recover_record).
THEOREM ReceiptsTruthful == Spec => []ReceiptIsTruthful
<1>1. IInv => ReceiptIsTruthful
  BY DEF IInv, ReceiptIsTruthful, KnowledgeBacked, RowMatchesFile, NotCommitted
<1> QED BY <1>1, InductiveInvariant, PTL

\* A row of the journal that says committed goes on saying so, and a call that
\* was reported failed or cancelled does not move its file afterwards (a
\* commit on its way stops at try_mark_committing).
THEOREM AnswersStand ==
  Spec => [][\A c \in Calls :
               /\ row[c] = "committed" => row'[c] = "committed"
               /\ caller[c] \in {"failed", "cancelled"} => ~moved'[c]]_vars
<1>1. ASSUME IInv, [Next]_vars
      PROVE  [\A c \in Calls :
               /\ row[c] = "committed" => row'[c] = "committed"
               /\ caller[c] \in {"failed", "cancelled"} => ~moved'[c]]_vars
  <2>1. ASSUME NEW c \in Calls
        PROVE  /\ row[c] = "committed" => row'[c] = "committed"
               /\ caller[c] \in {"failed", "cancelled"} => NeverMoves(c)'
    BY <1>1, NextBacked DEF IInv, KnowledgeBacked, Backed
  <2> QED BY <2>1 DEF NeverMoves
<1> QED BY <1>1, InductiveInvariant, PTL DEF Spec
=============================================================================
