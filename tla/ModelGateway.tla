---------------------------- MODULE ModelGateway ----------------------------
(***************************************************************************)
(* The model gateway of one process: requests of tasks are routed to       *)
(* providers, tried again, and charged to the budget of their task, while  *)
(* each provider has a cooldown (Retry-After) and a circuit breaker.  The  *)
(* gateway runs on one event loop, so a request holds the state from one   *)
(* await to the next: it only lets go while it waits for a provider or     *)
(* sleeps before another try.                                              *)
(*                                                                         *)
(* Privacy, capabilities and prices do not change: Route is what they and  *)
(* the role leave of the providers.  Deadlines are left out: a window ends *)
(* at some time, a sleep takes some time, and a request whose deadline has *)
(* passed is late.  stream has no caller and is not modelled.              *)
(***************************************************************************)
EXTENDS Naturals, Sequences, FiniteSets, SequencesExt

CONSTANTS
  Requests, Tasks, TaskOf,
  Providers,     \* by provider_id
  Route,         \* providers of a request by preference, <<>> if none is configured
  Strategy,      \* strategy of the route, "priority" or "latency_aware"
  Price,         \* upper bound of the cost of a call
  Unpriced,      \* providers without configured price
  Limit,         \* max_task_cost_micros
  MaxAttempts, Threshold   \* of ModelGatewayPolicy

ASSUME GatewayAssumption ==
  /\ IsFiniteSet(Requests)
  /\ Providers \in Seq(Range(Providers)) \ {<<>>}
  /\ TaskOf \in [Requests -> Tasks]
  /\ \A r \in Requests : Range(Route[r]) \subseteq Range(Providers)
  /\ Strategy \in [Requests -> {"priority", "latency_aware"}]
  /\ Price \in [Range(Providers) -> Nat] /\ Unpriced \subseteq Range(Providers)
  /\ Limit \in Nat /\ MaxAttempts \in Nat \ {0} /\ Threshold \in Nat \ {0}

VARIABLES
  registry,   \* configuration of the registered adapter of a provider, or 0
  default,    \* default_provider_id
  rt,         \* _ProviderRuntime of each provider
  cost,       \* _TaskCostRuntime of each task
  req         \* the requests in complete

gateway == <<registry, default, rt, cost, req>>

P == Range(Providers)
Registered == {p \in P : registry[p] # 0}

\* window: circuit_open_until lies ahead; cooling: retry_after_until does.
FreshRuntime == [circuit |-> "closed", window |-> FALSE, cooling |-> FALSE,
                 probing |-> FALSE, failures |-> 0]
NoCost == [spent |-> 0, reserved |-> 0]

\* slot: this try took the half-open slot of its provider; late: the deadline
\* of the request has passed; again: the sleep is within an attempt.
NewRequest == [pc |-> "new", att |-> 1, tried |-> {}, prov |-> "", slot |-> FALSE,
               late |-> FALSE, again |-> FALSE]
Ended == [NewRequest EXCEPT !.pc = "done"]

GatewayInit ==
  /\ rt = [p \in P |-> FreshRuntime]
  /\ cost = [t \in Tasks |-> NoCost]
  /\ req = [r \in Requests |-> NewRequest]

Calling(p) == {r \in Requests : req[r].pc = "calling" /\ req[r].prov = p}

------------------------------------------------------------------------------
(* Selection. *)

\* The role's route, or the default provider first.
Order(r) == IF Route[r] # <<>> THEN Route[r]
            ELSE <<default>> \o Remove(Providers, default)

\* _base_candidates, as positions in this order.
Candidates(r) == LET order == Order(r)
                 IN  {k \in DOMAIN order : order[k] \in Registered}

\* _budget_candidates, within the budget of the task.
Affordable(cs, r, p) ==
  /\ p \notin Unpriced
  /\ cs[TaskOf[r]].spent + cs[TaskOf[r]].reserved + Price[p] <= Limit

\* _provider_is_available.
Available(rts, p) ==
  /\ ~rts[p].cooling
  /\ rts[p].circuit = "open" => ~rts[p].window
  /\ rts[p].circuit # "closed" => ~rts[p].probing

\* The provider of the next try: the first of the route, or with latency_aware
\* the one the measured latencies favour.
Picks(r, s) ==
  LET order == Order(r)
      open == {k \in Candidates(r) :
                 /\ Affordable(s.cost, r, order[k])
                 /\ order[k] \notin s.q.tried /\ Available(s.rt, order[k])}
      first == {k \in open : \A l \in open : k <= l}
  IN  {order[k] : k \in IF Strategy[r] = "priority" THEN first ELSE open}

\* Nothing can be tried now, but an untried provider cools down or its circuit
\* is open: _route_temporarily_unavailable.
Busy(r, s) ==
  /\ Picks(r, s) = {}
  /\ \E k \in Candidates(r) : LET p == Order(r)[k] IN
       Affordable(s.cost, r, p) /\ p \notin s.q.tried

\* Trying a provider whose window is over takes its half-open slot.
Claim(rts, p) ==
  IF rts[p].circuit = "closed" THEN rts
  ELSE [rts EXCEPT ![p].circuit = "half_open", ![p].probing = TRUE]

\* Mutant: the reservation is checked but not written.
ReserveUncounted(cs, r, p) == cs

\* _reserve_cost; its own check repeats the one of the selection.
Reserve(cs, r, p) == [cs EXCEPT ![TaskOf[r]].reserved = @ + Price[p]]

Minus(a, b) == IF a >= b THEN a - b ELSE 0
ReleaseCost(cs, r, p) ==
  [cs EXCEPT ![TaskOf[r]].reserved = Minus(@, Price[p])]
SettleCost(cs, r, p, c) ==
  [ReleaseCost(cs, r, p) EXCEPT ![TaskOf[r]].spent = @ + c]

------------------------------------------------------------------------------
(* Results. *)

Failures == {"unavailable", "throttled", "timeout", "rate_limited", "invalid",
             "rejected"}
Retryable == {"unavailable", "throttled", "timeout", "rate_limited"}
CircuitFailures == {"unavailable", "throttled", "timeout", "invalid"}
WithRetryAfter == {"throttled", "rate_limited"}

\* _record_failure of a provider that is still registered.
RecordFailure(x, o) ==
  LET n == IF o \in CircuitFailures /\ x.failures < Threshold
           THEN x.failures + 1 ELSE x.failures
      trips == x.circuit = "half_open" \/ n >= Threshold
  IN  [x EXCEPT !.failures = n,
                !.cooling = @ \/ o \in WithRetryAfter,
                !.circuit = IF trips THEN "open" ELSE @,
                !.window = @ \/ trips,
                !.probing = FALSE]

\* _has_candidate, or a sleep that the remaining delay and deadline allow, or
\* the last error.
TryAgain(r, s) ==
  LET next == [s EXCEPT !.q.att = @ + 1]
  IN  IF Picks(r, s) # {} THEN {[next EXCEPT !.q.pc = "ready"]}
      ELSE {[s EXCEPT !.q = Ended]} \cup
           (IF s.q.late \/ Candidates(r) = {} THEN {}
            ELSE {[next EXCEPT !.q.pc = "sleeping", !.q.tried = {}]})

\* The error path of complete.  An adapter that is no longer registered has no
\* runtime: the KeyError of _record_failure leaves complete.
Fail(r, s, o) ==
  LET p == s.q.prov
      freed == [s EXCEPT !.cost = ReleaseCost(s.cost, r, p)]
  IN  IF p \notin Registered THEN {[freed EXCEPT !.q = Ended]}
      ELSE LET known == [freed EXCEPT !.rt[p] = RecordFailure(@, o)]
           IN  IF o \notin Retryable \/ s.q.att >= MaxAttempts
               THEN {[known EXCEPT !.q = Ended]}
               ELSE TryAgain(r, [known EXCEPT !.q.slot = FALSE])

\* The next try: the slot of provider p is claimed and its price reserved.
Chosen(r, s, p) ==
  [rt |-> Claim(s.rt, p), cost |-> Reserve(s.cost, r, p),
   q |-> [s.q EXCEPT !.pc = "calling", !.prov = p, !.again = FALSE,
                     !.tried = @ \cup {p}, !.slot = s.rt[p].circuit # "closed"]]

\* One turn of the loop of complete.  A late request does not call the provider
\* it has selected, and records a timeout for it all the same.
Turn(r, s) ==
  IF s.q.pc # "ready" THEN {s}
  ELSE IF Picks(r, s) # {}
  THEN UNION {IF s.q.late THEN Fail(r, Chosen(r, s, p), "timeout")
              ELSE {Chosen(r, s, p)} : p \in Picks(r, s)}
  ELSE {[s EXCEPT !.q = Ended]} \cup
       (IF Busy(r, s) /\ s.q.att > 1 /\ ~s.q.again /\ ~s.q.late
        THEN {[s EXCEPT !.q.pc = "sleeping", !.q.tried = {}, !.q.again = TRUE]}
        ELSE {})

\* All that happens until the request waits or has ended.
Continue(r, states) ==
  LET f[k \in 0..MaxAttempts] ==
        IF k = 0 THEN states ELSE UNION {Turn(r, s) : s \in f[k - 1]}
  IN  f[MaxAttempts]

\* The deadline may have passed while the request was waiting.
Now(r, late) == [rt |-> rt, cost |-> cost, q |-> [req[r] EXCEPT !.late = @ \/ late]]
Becomes(r, states) ==
  \E s \in states :
    /\ rt' = s.rt /\ cost' = s.cost /\ req' = [req EXCEPT ![r] = s.q]
    /\ UNCHANGED <<registry, default>>

------------------------------------------------------------------------------
(* Steps. *)

complete(r) ==
  /\ req[r].pc = "new"
  /\ Becomes(r, Continue(r, {[Now(r, FALSE) EXCEPT !.q.pc = "ready"]}))

\* The response is charged at its price.  Its output tokens are checked against
\* the request; that a provider reports no more input tokens than the request
\* has bytes is taken for granted, so the price is at most the reserved bound.
\* Without a runtime the KeyError of _record_success takes the place of the
\* response.
provider_answers(r) ==
  /\ req[r].pc = "calling"
  /\ LET p == req[r].prov IN
     \E c \in {0, Price[p]} :
       /\ cost' = SettleCost(cost, r, p, c)
       /\ rt' = IF p \in Registered THEN [rt EXCEPT ![p] = FreshRuntime] ELSE rt
       /\ req' = [req EXCEPT ![r] = Ended]
  /\ UNCHANGED <<registry, default>>

provider_fails(r, o) ==
  /\ req[r].pc = "calling"
  /\ \E late \in BOOLEAN : Becomes(r, Continue(r, Fail(r, Now(r, late), o)))

\* Mutant: the half-open slot stays taken.
cancelled_keeps_slot(r) ==
  /\ req[r].pc = "calling"
  /\ cost' = ReleaseCost(cost, r, req[r].prov)
  /\ rt' = rt
  /\ req' = [req EXCEPT ![r] = Ended]
  /\ UNCHANGED <<registry, default>>

\* The caller is cancelled.  The slot is given back, whoever holds it.
cancelled(r) ==
  /\ req[r].pc = "calling"
  /\ cost' = ReleaseCost(cost, r, req[r].prov)
  /\ rt' = [rt EXCEPT ![req[r].prov].probing = FALSE]
  /\ req' = [req EXCEPT ![r] = Ended]
  /\ UNCHANGED <<registry, default>>

cancelled_asleep(r) ==
  /\ req[r].pc = "sleeping"
  /\ req' = [req EXCEPT ![r] = Ended]
  /\ UNCHANGED <<registry, default, rt, cost>>

\* Mutant: an attempt after a sleep is not counted.
wake_uncounted(r) ==
  /\ req[r].pc = "sleeping"
  /\ \E late \in BOOLEAN :
       Becomes(r, Continue(r, {[Now(r, late) EXCEPT !.q.pc = "ready", !.q.att = 1]}))

wake(r) ==
  /\ req[r].pc = "sleeping"
  /\ \E late \in BOOLEAN :
       Becomes(r, Continue(r, {[Now(r, late) EXCEPT !.q.pc = "ready"]}))

window_ends(p) ==
  /\ rt[p].window
  /\ rt' = [rt EXCEPT ![p].window = FALSE]
  /\ UNCHANGED <<registry, default, cost, req>>

cooldown_ends(p) ==
  /\ rt[p].cooling
  /\ rt' = [rt EXCEPT ![p].cooling = FALSE]
  /\ UNCHANGED <<registry, default, cost, req>>

\* The task has ended; TaskProcessor waits for its worker before it forgets it.
forget_task_budget(t) ==
  /\ cost[t] # NoCost
  /\ \A r \in Requests : TaskOf[r] = t => req[r].pc \in {"new", "done"}
  /\ cost' = [cost EXCEPT ![t] = NoCost]
  /\ req' = [r \in Requests |-> IF TaskOf[r] = t THEN Ended ELSE req[r]]
  /\ UNCHANGED <<registry, default, rt>>

\* reconfigure keeps the runtime of a provider that stays registered.
Reconfigured(reg, def) ==
  /\ registry' = reg
  /\ default' = def
  /\ rt' = [p \in P |-> IF registry[p] # 0 /\ reg[p] # 0 THEN rt[p] ELSE FreshRuntime]
  /\ UNCHANGED <<cost, req>>

\* The process ends with all requests; the gateway of the next one starts with
\* the providers it is given.
Restarted(reg, def) ==
  /\ registry' = reg
  /\ default' = def
  /\ rt' = [p \in P |-> FreshRuntime]
  /\ cost' = [t \in Tasks |-> NoCost]
  /\ req' = [r \in Requests |-> IF req[r].pc = "new" THEN NewRequest ELSE Ended]

Proceed(r) ==
  \/ provider_answers(r)
  \/ \E o \in Failures : provider_fails(r, o)
  \/ wake(r)

------------------------------------------------------------------------------
(* Properties. *)

\* The micros that the calls of a task in flight may still cost, one by one.
AtStake(t) ==
  UNION {{r} \X (1..Price[req[r].prov]) :
           r \in {q \in Requests : TaskOf[q] = t /\ req[q].pc = "calling"}}

\* What a task has spent, together with all that its calls in flight may still
\* cost, stays within its budget, however the calls overlap, fail or are
\* cancelled (_budget_candidates, _reserve_cost, _settle_cost).
BudgetHeld == \A t \in Tasks : cost[t].spent + Cardinality(AtStake(t)) <= Limit

\* The half-open slot of a provider never outlives the try that took it;
\* otherwise the provider would be out of use until the process restarts
\* (_provider_is_available, _record_failure, _release_half_open).
SlotBacked ==
  \A p \in P : rt[p].probing => \E r \in Calling(p) : req[r].slot

\* Every request comes to an end: attempts, fallbacks and sleeps run out
\* (complete).
CompleteEnds ==
  \A r \in Requests : req[r].pc \in {"calling", "sleeping"} ~> req[r].pc = "done"
=============================================================================
