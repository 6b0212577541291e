------------------------- MODULE GraphControlProofs -------------------------
(***************************************************************************)
(* Proofs, for every set of instances and all deployments, that a cancel   *)
(* is acknowledged only after it took effect.                              *)
(*                                                                         *)
(* A router's place says what it has seen or written, and what it saw      *)
(* lasts: an intent is never withdrawn, a graph that ended and a task that *)
(* is terminal never open again, whoever holds lease and claim meanwhile.  *)
(* Type correctness needs in addition that a round is left as long as the  *)
(* graph is active and that the tokens never run out: more of them exist   *)
(* than all processes and rows together can remember.                      *)
(***************************************************************************)
EXTENDS GraphControl, FiniteSetTheorems, WellFoundedInduction, TLAPS

\* The last round of the dispatcher ends the graph.
RoundsLeft == graph = "active" => left > 0

\* A router waits for the worker, closes the task and acknowledges only under
\* the intent, over a graph that has ended, or after the dispatcher had left.
UnderIntent ==
  \A i \in Instances :
    router[i].pc \in {"reducing", "awaiting", "closing", "marking"} =>
      cancel \/ graph = "ended" \/ router[i].late

\* Whoever acknowledges has closed the task, and a task stays closed.
ClosedBeforeMarking ==
  /\ \A i \in Instances : router[i].pc = "marking" => task # "open"
  /\ ctl.status = "applied" => task # "open"

IInv == TypeOK /\ RoundsLeft /\ UnderIntent /\ ClosedBeforeMarking

-----------------------------------------------------------------------------
(* There always is a fresh token.                                          *)

\* A set of sets over a finite set that has an element has a smallest one.
LEMMA SmallestSet ==
  ASSUME NEW S, IsFiniteSet(S), NEW F, F \subseteq SUBSET S, F # {}
  PROVE  \E x \in F : \A y \in F : y \subseteq x => y = x
<1>1. IsWellFoundedOn(StrictSubsetOrdering(S), FiniteSubsetsOf(S))
  BY FS_StrictSubsetOrderingWellFounded
<1>2. FiniteSubsetsOf(S) = SUBSET S
  BY FS_FiniteSubsetsOfFinite
<1>3. PICK x \in F : \A y \in F : ~ (<<y, x>> \in StrictSubsetOrdering(S))
  BY <1>1, <1>2, WFMin
<1>4. ASSUME NEW y \in F, y \subseteq x
      PROVE  y = x
  BY <1>3, <1>4, Zenon DEF StrictSubsetOrdering
<1> QED BY <1>4

\* The least-number principle.
LEMMA LeastNat ==
  ASSUME NEW T, T \subseteq Nat, T # {}
  PROVE  \E x \in T : \A y \in T : x <= y
<1>1. PICK a \in T : TRUE
  OBVIOUS
<1> DEFINE F == {0..x : x \in {y \in T : y <= a}}
<1> DEFINE D == 0..a
<1>2. F \subseteq SUBSET D /\ F # {}
  BY <1>1
<1>3. IsFiniteSet(D)
  BY <1>1, FS_Interval
<1> HIDE DEF F, D
<1>4. \E s \in F : \A t \in F : t \subseteq s => t = s
  <2>1. F \subseteq SUBSET D
    BY <1>2
  <2>2. F # {}
    BY <1>2
  <2> QED BY ONLY <2>1, <2>2, <1>3, SmallestSet
<1>5. PICK s \in F : \A t \in F : t \subseteq s => t = s
  BY <1>4
<1>6. PICK x \in T : x <= a /\ s = 0..x
  BY <1>5 DEF F
<1>7. ASSUME NEW y \in T
      PROVE  x <= y
  <2>1. CASE y < x
    <3>1. y <= a
      BY <1>1, <1>6, <2>1
    <3>2. 0..y \in F
      BY <3>1 DEF F
    <3>3. 0..y \subseteq s
      BY <1>6, <2>1
    <3>4. 0..y = 0..x
      BY <1>5, <1>6, <3>2, <3>3
    <3> QED BY <1>6, <2>1, <3>4
  <2> QED BY <1>6, <2>1
<1> QED BY <1>7
\* Min of FiniteSetsExt on sets of natural numbers.
LEMMA MinOfNats ==
  ASSUME NEW S, S \subseteq Nat, S # {}
  PROVE  Min(S) \in S /\ \A y \in S : Min(S) <= y
<1>1. \E x \in S : \A y \in S : x <= y
  BY LeastNat
<1> QED BY <1>1, Zenon DEF Min

\* The processes remember at most one number each.
LEMMA OnePerInstance ==
  ASSUME NEW f, f \in [Instances -> Nat]
  PROVE  /\ IsFiniteSet({f[i] : i \in Instances})
         /\ Cardinality({f[i] : i \in Instances}) <= Cardinality(Instances)
<1> DEFINE T == {f[i] : i \in Instances}
<1>1. f \in Surjection(Instances, T)
  BY DEF Surjection
<1>2. IsFiniteSet(Instances)
  BY ControlAssumption
<1> QED BY ONLY <1>1, <1>2, FS_Surjection

\* A union has at most as many elements as its parts together.
LEMMA UnionBound ==
  ASSUME NEW S, NEW T, NEW m \in Nat, NEW n \in Nat,
         IsFiniteSet(S), Cardinality(S) <= m, IsFiniteSet(T), Cardinality(T) <= n
  PROVE  IsFiniteSet(S \cup T) /\ Cardinality(S \cup T) <= m + n
<1>1. IsFiniteSet(S \cap T)
  BY FS_Subset
<1>2. /\ Cardinality(S) \in Nat /\ Cardinality(T) \in Nat
      /\ Cardinality(S \cap T) \in Nat
  BY <1>1, FS_CardinalityType
<1>3. /\ IsFiniteSet(S \cup T)
      /\ Cardinality(S \cup T) = Cardinality(S) + Cardinality(T) - Cardinality(S \cap T)
  BY FS_Union
<1> QED BY <1>2, <1>3

\* The tokens outnumber any two that the rows remember and two per instance.
LEMMA FreshToken ==
  ASSUME NEW a \in Nat, NEW b \in Nat, NEW f, NEW g,
         f \in [Instances -> Nat], g \in [Instances -> Nat],
         NEW U, Instances # {},
         U \subseteq {a, b} \cup {f[i] : i \in Instances} \cup {g[i] : i \in Instances}
  PROVE  Fresh(U) \in Tokens /\ Fresh(U) \notin U /\ Fresh(U) # 0
<1> DEFINE F == {f[i] : i \in Instances}
           G == {g[i] : i \in Instances}
           n == Cardinality(Instances)
           N == {0, a, b}
<1>1. IsFiniteSet(F) /\ Cardinality(F) <= n
  BY OnePerInstance
<1>2. IsFiniteSet(G) /\ Cardinality(G) <= n
  BY OnePerInstance
<1>3. n \in Nat /\ n > 0
  <2>1. IsFiniteSet(Instances)
    BY ControlAssumption
  <2> QED BY <2>1, FS_CardinalityType, FS_EmptySet
<1>4. IsFiniteSet(N) /\ Cardinality(N) <= 3
  <2>1. \A x : IsFiniteSet({x}) /\ Cardinality({x}) <= 1
    <3> TAKE x
    <3>1. IsFiniteSet({x}) /\ Cardinality({x}) = 1
      BY FS_Singleton
    <3> QED BY <3>1
  <2>2. IsFiniteSet({0} \cup {a}) /\ Cardinality({0} \cup {a}) <= 2
    <3>1. /\ IsFiniteSet({0}) /\ Cardinality({0}) <= 1
          /\ IsFiniteSet({a}) /\ Cardinality({a}) <= 1
      BY <2>1
    <3>2. IsFiniteSet({0} \cup {a}) /\ Cardinality({0} \cup {a}) <= 1 + 1
      BY ONLY <3>1, UnionBound
    <3> QED BY <3>2
  <2>3. /\ IsFiniteSet(({0} \cup {a}) \cup {b})
        /\ Cardinality(({0} \cup {a}) \cup {b}) <= 3
    <3>1. IsFiniteSet({b}) /\ Cardinality({b}) <= 1
      BY <2>1
    <3>2. /\ IsFiniteSet(({0} \cup {a}) \cup {b})
          /\ Cardinality(({0} \cup {a}) \cup {b}) <= 2 + 1
      BY ONLY <3>1, <2>2, UnionBound
    <3> QED BY <3>2
  <2>4. N = ({0} \cup {a}) \cup {b}
    OBVIOUS
  <2> QED BY <2>3, <2>4
<1> HIDE DEF F, G, n, N
<1>5. IsFiniteSet(N \cup F) /\ Cardinality(N \cup F) <= 3 + n
  BY <1>1, <1>3, <1>4, UnionBound
<1>6. IsFiniteSet((N \cup F) \cup G) /\ Cardinality((N \cup F) \cup G) <= (3 + n) + n
  <2>1. 3 + n \in Nat
    BY <1>3
  <2> QED BY ONLY <1>2, <1>3, <1>5, <2>1, UnionBound
<1>7. IsFiniteSet(Tokens) /\ Cardinality(Tokens) = 3 * n + 3
  <2>1. Tokens = 0 .. 3 * n + 2
    BY DEF Tokens, n
  <2>2. 3 * n + 2 \in Int /\ 3 * n + 2 >= 0
    BY <1>3
  <2>3. /\ IsFiniteSet(0 .. 3 * n + 2)
        /\ Cardinality(0 .. 3 * n + 2) = 3 * n + 2 - 0 + 1
    BY <2>2, FS_Interval
  <2> QED BY <1>3, <2>1, <2>3
<1>8. {0} \cup U \subseteq (N \cup F) \cup G
  BY DEF N, F, G
<1>9. Tokens \ ({0} \cup U) # {}
  <2> SUFFICES ASSUME Tokens \subseteq (N \cup F) \cup G PROVE FALSE
    BY <1>8
  <2>1. Cardinality(Tokens) <= Cardinality((N \cup F) \cup G)
    BY <1>6, FS_Subset
  <2>2. Cardinality((N \cup F) \cup G) \in Nat
    BY <1>6, FS_CardinalityType
  <2> QED BY <1>3, <1>6, <1>7, <2>1, <2>2
<1>10. Tokens \subseteq Nat
  BY <1>3 DEF Tokens, n
<1>11. Min(Tokens \ ({0} \cup U)) \in Tokens \ ({0} \cup U)
  BY <1>9, <1>10, MinOfNats
<1> QED BY <1>11 DEF Fresh

-----------------------------------------------------------------------------
(* Types.                                                                  *)

LeaseType == [owner : Owners, fence : Tokens, live : BOOLEAN]
ControlType ==
  [status : {"none", "pending", "processing", "applied", "superseded"},
   target : Owners, tfence : Tokens, due : BOOLEAN,
   claimer : Owners, cfence : Tokens, clive : BOOLEAN]
RouterType == [pc : RouterPc, took : BOOLEAN, direct : BOOLEAN, late : BOOLEAN,
               tfence : Tokens, cfence : Tokens]
RuntimeType == [pc : WorkerPc, stop : BOOLEAN, fence : Tokens]

\* Zero is a token, a token is a number, and nobody is an owner.
LEMMA ConstantTypes ==
  /\ 0 \in Tokens /\ Tokens \subseteq Nat
  /\ Nobody \in Owners /\ Gone \in Owners /\ Instances \subseteq Owners
<1>1. Cardinality(Instances) \in Nat
  BY ControlAssumption, FS_CardinalityType
<1> QED BY <1>1 DEF Tokens, Owners

\* What the columns are reset to.
LEMMA ResetTypes ==
  /\ NoLease \in LeaseType /\ NoControl \in ControlType
  /\ Resting \in RouterType /\ NoRuntime \in RuntimeType
  BY ConstantTypes
     DEF NoLease, NoControl, Resting, NoRuntime, LeaseType, ControlType, RouterType,
         RuntimeType, RouterPc, WorkerPc

\* A new lease has a token that nothing remembers.
LEMMA FreshFence ==
  ASSUME TypeOK, Instances # {}
  PROVE  Fresh(Remembered) \in Tokens /\ Fresh(Remembered) \notin Remembered
<1> DEFINE f == [i \in Instances |-> router[i].tfence]
           g == [i \in Instances |-> rt[i].fence]
<1>1. /\ lease.fence \in Nat /\ ctl.tfence \in Nat
      /\ f \in [Instances -> Nat] /\ g \in [Instances -> Nat]
  BY ConstantTypes DEF TypeOK
<1>2. Remembered \subseteq {lease.fence, ctl.tfence} \cup {f[i] : i \in Instances}
                           \cup {g[i] : i \in Instances}
  BY DEF Remembered
<1>3. lease.fence \in Nat
  BY <1>1
<1>4. ctl.tfence \in Nat
  BY <1>1
<1> HIDE DEF f, g
<1> QED BY ONLY <1>1, <1>2, <1>3, <1>4, Instances # {}, FreshToken

\* A new claim has a token that no router and no row remembers.
LEMMA FreshClaim ==
  ASSUME TypeOK, Instances # {}
  PROVE  Fresh({ctl.cfence} \cup {router[j].cfence : j \in Instances}) \in Tokens
<1> DEFINE f == [i \in Instances |-> router[i].cfence]
           U == {ctl.cfence} \cup {router[j].cfence : j \in Instances}
<1>1. ctl.cfence \in Nat /\ f \in [Instances -> Nat]
  BY ConstantTypes DEF TypeOK
<1>2. U \subseteq {ctl.cfence, ctl.cfence} \cup {f[i] : i \in Instances}
                           \cup {f[i] : i \in Instances}
  OBVIOUS
<1> HIDE DEF f, U
<1>3. Fresh(U) \in Tokens
  BY ONLY <1>1, <1>2, Instances # {}, FreshToken
<1> QED BY <1>3 DEF U

\* Taking, renewing and giving back the lease keep its columns typed.
LEMMA LeaseTypes ==
  ASSUME TypeOK, NEW i \in Instances
  PROVE  /\ acquire_effect_graph_lease(i) => lease' \in LeaseType
         /\ \A f : release_effect_graph_lease(i, f) => lease' \in LeaseType
<1>1. Fresh(Remembered) \in Tokens
  BY FreshFence
<1>2. lease \in LeaseType
  BY DEF TypeOK, LeaseType
<1>3. ASSUME acquire_effect_graph_lease(i) PROVE lease' \in LeaseType
  BY <1>1, <1>2, <1>3, ConstantTypes DEF acquire_effect_graph_lease, LeaseType
<1>4. ASSUME NEW f, release_effect_graph_lease(i, f) PROVE lease' \in LeaseType
  BY <1>2, <1>4, ResetTypes DEF release_effect_graph_lease
<1> QED BY <1>3, <1>4

\* Addressing the row and giving it back keep it typed and do not apply it.
LEMMA ControlTypes ==
  ASSUME TypeOK, NEW i \in Instances
  PROVE  /\ Addressed(ctl) \in ControlType
         /\ route_pending => /\ ctl' \in ControlType
                             /\ ctl'.status = "applied" => ctl.status = "applied"
         /\ \A s \in BOOLEAN : retry(i, s) =>
              /\ ctl' \in ControlType
              /\ ctl'.status = "applied" => ctl.status = "applied"
<1>1. ctl \in ControlType /\ lease \in LeaseType
  BY DEF TypeOK, ControlType, LeaseType
<1>2. Addressed(ctl) \in ControlType
  BY <1>1, ConstantTypes DEF Addressed, ControlType, LeaseType
<1>3. ASSUME route_pending
      PROVE  /\ ctl' \in ControlType
             /\ ctl'.status = "applied" => ctl.status = "applied"
  BY <1>1, <1>2, <1>3 DEF route_pending, ControlType
<1>4. ASSUME NEW s \in BOOLEAN, retry(i, s)
      PROVE  /\ ctl' \in ControlType
             /\ ctl'.status = "applied" => ctl.status = "applied"
  BY <1>1, <1>4, ConstantTypes DEF retry, ControlType
<1> QED BY <1>2, <1>3, <1>4

\* The state an admitted graph starts from satisfies the invariant.
LEMMA InitIInv == Init => IInv
<1> SUFFICES ASSUME Init PROVE IInv
  OBVIOUS
<1>1. PICK d \in Deployments :
        /\ left = d.rounds /\ asks = d.asks /\ crashes = d.crashes /\ faults = d.faults
        /\ rt = [i \in Instances |->
                  IF i \in d.restored THEN [NoRuntime EXCEPT !.pc = "loop"] ELSE NoRuntime]
  BY DEF Init
<1>2. /\ left \in Nat \ {0} /\ asks \in Nat /\ crashes \in Nat /\ faults \in Nat
  BY <1>1, ControlAssumption DEF Deployment
<1>3. rt \in [Instances -> RuntimeType]
  BY <1>1, ResetTypes DEF RuntimeType, NoRuntime, WorkerPc
<1>4. TypeOK
  BY <1>2, <1>3, ResetTypes
     DEF Init, TypeOK, LeaseType, ControlType, RouterType, RuntimeType
<1>5. RoundsLeft /\ UnderIntent /\ ClosedBeforeMarking
  BY <1>2 DEF Init, RoundsLeft, UnderIntent, ClosedBeforeMarking, Resting, NoControl
<1> QED BY <1>4, <1>5 DEF IInv

-----------------------------------------------------------------------------
(* The steps.  What a step leaves alone keeps its type and its meaning.     *)

\* The invariant with the types by name.
Typed ==
  /\ graph \in {"active", "ended"} /\ task \in {"open", "cancelled", "ended"}
  /\ cancel \in BOOLEAN /\ waiting \in BOOLEAN
  /\ left \in Nat /\ asks \in Nat /\ crashes \in Nat /\ faults \in Nat
  /\ lease \in LeaseType /\ ctl \in ControlType
  /\ router \in [Instances -> RouterType] /\ rt \in [Instances -> RuntimeType]

\* It is the type invariant.
LEMMA TypedIsTypeOK == (TypeOK <=> Typed) /\ (Typed' => TypeOK')
  BY DEF TypeOK, Typed, LeaseType, ControlType, RouterType, RuntimeType

\* What a step does to the runtime of one instance keeps all of them typed.
LEMMA RuntimeTypes ==
  ASSUME rt \in [Instances -> RuntimeType], NEW i \in Instances
  PROVE  /\ [rt EXCEPT ![i].stop = TRUE] \in [Instances -> RuntimeType]
         /\ [rt EXCEPT ![i] = NoRuntime] \in [Instances -> RuntimeType]
         /\ \A p \in WorkerPc : [rt EXCEPT ![i].pc = p] \in [Instances -> RuntimeType]
         /\ \A p \in WorkerPc, f \in Tokens :
              [rt EXCEPT ![i].pc = p, ![i].fence = f] \in [Instances -> RuntimeType]
<1>1. ASSUME NEW r \in RuntimeType
      PROVE  [rt EXCEPT ![i] = r] \in [Instances -> RuntimeType]
  OBVIOUS
<1>2. [rt[i] EXCEPT !.stop = TRUE] \in RuntimeType
  BY DEF RuntimeType
<1>3. [rt EXCEPT ![i].stop = TRUE] \in [Instances -> RuntimeType]
  BY <1>1, <1>2
<1>4. [rt EXCEPT ![i] = NoRuntime] \in [Instances -> RuntimeType]
  BY <1>1, ResetTypes
<1>5. ASSUME NEW p \in WorkerPc
      PROVE  [rt EXCEPT ![i].pc = p] \in [Instances -> RuntimeType]
  BY DEF RuntimeType
<1>6. ASSUME NEW p \in WorkerPc, NEW f \in Tokens
      PROVE  [rt EXCEPT ![i].pc = p, ![i].fence = f] \in [Instances -> RuntimeType]
  BY DEF RuntimeType
<1> QED BY <1>3, <1>4, <1>5, <1>6

\* The same for the places of the routers.
LEMMA RouterTypes ==
  ASSUME router \in [Instances -> RouterType], NEW i \in Instances
  PROVE  /\ [router EXCEPT ![i] = Resting] \in [Instances -> RouterType]
         /\ \A p \in RouterPc : [router EXCEPT ![i].pc = p] \in [Instances -> RouterType]
         /\ [router EXCEPT ![i].pc = "awaiting", ![i].late = TRUE]
               \in [Instances -> RouterType]
         /\ \A c \in Tokens, t \in Tokens :
              [router EXCEPT ![i].pc = "queued", ![i].cfence = c, ![i].tfence = t]
                \in [Instances -> RouterType]
<1>1. [router EXCEPT ![i] = Resting] \in [Instances -> RouterType]
  BY ResetTypes
<1>2. ASSUME NEW p \in RouterPc
      PROVE  [router EXCEPT ![i].pc = p] \in [Instances -> RouterType]
  BY DEF RouterType
<1>3. [router EXCEPT ![i].pc = "awaiting", ![i].late = TRUE] \in [Instances -> RouterType]
  BY DEF RouterType, RouterPc
<1>4. ASSUME NEW c \in Tokens, NEW t \in Tokens
      PROVE  [router EXCEPT ![i].pc = "queued", ![i].cfence = c, ![i].tfence = t]
               \in [Instances -> RouterType]
  <2> DEFINE f == [router EXCEPT ![i].pc = "queued"]
             g == [f EXCEPT ![i].cfence = c]
             h == [g EXCEPT ![i].tfence = t]
  <2>1. f \in [Instances -> RouterType]
    BY DEF RouterType, RouterPc
  <2> HIDE DEF f
  <2>2. g \in [Instances -> RouterType]
    BY <2>1 DEF RouterType
  <2> HIDE DEF g
  <2>3. h \in [Instances -> RouterType]
    BY <2>2 DEF RouterType
  <2>4. h = [router EXCEPT ![i].pc = "queued", ![i].cfence = c, ![i].tfence = t]
    BY Zenon DEF f, g
  <2> QED BY <2>3, <2>4
<1> QED BY <1>1, <1>2, <1>3, <1>4

\* Addressing, taking over and claiming write neither intent nor task.
LEMMA RoutingStep ==
  ASSUME IInv, NEW i \in Instances,
         route(i) \/ takeover(i) \/ reroute(i) \/ claim_for_owner(i)
  PROVE  IInv'
<1>0. TypeOK /\ Typed /\ (Typed' => TypeOK')
  BY TypedIsTypeOK DEF IInv
<1> USE DEF IInv, Typed, RoundsLeft, UnderIntent, ClosedBeforeMarking, Goto,
            work, RouterType, RouterPc
<1>1. CASE route(i)
  BY <1>0, <1>1, ControlTypes DEF route
<1>2. CASE takeover(i)
  BY <1>0, <1>2, LeaseTypes DEF takeover
<1>3. CASE reroute(i)
  BY <1>0, <1>3, ControlTypes DEF reroute
<1>4. CASE claim_for_owner(i)
  <2> DEFINE c == Fresh({ctl.cfence} \cup {router[j].cfence : j \in Instances})
  <2>1. c \in Tokens
    BY <1>0, FreshClaim
  <2> HIDE DEF c
  <2>2. /\ UNCHANGED <<graph, cancel, waiting, left, asks, lease, task, rt, crashes, faults>>
        /\ \/ /\ ctl.status = "pending"
              /\ ctl' = [ctl EXCEPT !.status = "processing", !.claimer = i,
                                     !.cfence = c, !.clive = TRUE]
              /\ router' = [router EXCEPT ![i].pc = "queued", ![i].cfence = c,
                                           ![i].tfence = ctl.tfence]
           \/ ctl' = ctl /\ router' = [router EXCEPT ![i] = Resting]
    BY <1>4 DEF claim_for_owner, Claimable, c
  <2>3. ctl' \in ControlType /\ (ctl'.status = "applied" => ctl.status = "applied")
    BY <1>0, <2>1, <2>2, ConstantTypes DEF ControlType
  <2>4. router' \in [Instances -> RouterType]
    <3>1. router \in [Instances -> RouterType]
      BY <1>0
    <3>2. ctl.tfence \in Tokens
      BY <1>0 DEF ControlType
    <3>3. /\ [router EXCEPT ![i] = Resting] \in [Instances -> RouterType]
          /\ [router EXCEPT ![i].pc = "queued", ![i].cfence = c, ![i].tfence = ctl.tfence]
               \in [Instances -> RouterType]
      BY ONLY <2>1, <3>1, <3>2, i \in Instances, RouterTypes
    <3> QED BY ONLY <2>2, <3>3
  <2>5. \A j \in Instances : router'[j] = router[j] \/ router'[j].pc \in {"idle", "queued"}
    BY <1>0, <2>2 DEF Resting
  <2> QED BY <1>0, <2>2, <2>3, <2>4, <2>5
<1> QED BY <1>1, <1>2, <1>3, <1>4

\* Applying the row: every place beyond the first write has its reason.
LEMMA ApplyStep ==
  ASSUME IInv, NEW i \in Instances,
         apply_effect_graph_control(i) \/ apply_pending_cancel(i)
         \/ request_effect_dag_cancel(i) \/ reduce_effect_dag(i)
         \/ await_worker(i) \/ heartbeat_lost(i) \/ cancel_task(i)
         \/ mark_applied(i) \/ give_back(i) \/ release(i)
  PROVE  IInv'
<1>0. TypeOK /\ Typed /\ (Typed' => TypeOK')
  BY TypedIsTypeOK DEF IInv
<1> USE DEF IInv, Typed, RoundsLeft, UnderIntent, ClosedBeforeMarking, Goto,
            work, RouterType, RouterPc
<1>1. CASE apply_effect_graph_control(i)
  <2>1. /\ UNCHANGED <<graph, cancel, waiting, left, asks, lease, task, ctl, crashes, faults>>
        /\ router' \in [Instances -> RouterType]
        /\ \A j \in Instances : \/ router'[j] = router[j]
                               \/ router'[j].pc \in {"cancelling", "persist", "superseding"}
    BY <1>0, <1>1 DEF apply_effect_graph_control
  <2>2. rt' \in [Instances -> RuntimeType]
    <3>1. rt' \in {rt, [rt EXCEPT ![i].stop = TRUE]}
      BY <1>1 DEF apply_effect_graph_control
    <3>2. rt \in [Instances -> RuntimeType]
      BY <1>0
    <3>3. [rt EXCEPT ![i].stop = TRUE] \in [Instances -> RuntimeType]
      BY ONLY <3>2, RuntimeTypes, i \in Instances
    <3> QED BY ONLY <3>1, <3>2, <3>3
  <2> QED BY <1>0, <2>1, <2>2
<1>2. CASE apply_pending_cancel(i)
  <2> DEFINE f == router[i].tfence
  <2>1. CASE DispatcherUnder(i, f)
    <3>1. /\ UNCHANGED <<graph, waiting, left, asks, lease, task, ctl, rt, crashes, faults>>
          /\ cancel' = (cancel \/ Fenced(i, f))
          /\ router' = [router EXCEPT ![i].pc = IF Fenced(i, f) THEN "awaiting"
                                                 ELSE "superseding"]
      BY <1>2, <2>1 DEF apply_pending_cancel
    <3>2. Fenced(i, f) \in BOOLEAN
      BY <1>0 DEF Fenced, LeaseType
    <3>3. router' \in [Instances -> RouterType]
      BY <1>0, <3>1
    <3>4. Typed'
      BY <1>0, <3>1, <3>2, <3>3
    <3>5. UnderIntent'
      BY <1>0, <3>1
    <3>6. RoundsLeft' /\ ClosedBeforeMarking'
      BY <1>0, <3>1
    <3> QED BY <1>0, <3>4, <3>5, <3>6
  <2>2. CASE ~DispatcherUnder(i, f)
    <3>1. /\ UNCHANGED <<graph, cancel, waiting, left, asks, lease, task, ctl, rt, crashes, faults>>
          /\ router' = [router EXCEPT ![i].pc = "awaiting", ![i].late = TRUE]
      BY <1>2, <2>2 DEF apply_pending_cancel
    <3>2. router \in [Instances -> RouterType]
      BY <1>0
    <3>3. router' \in [Instances -> RouterType]
      BY ONLY <3>1, <3>2, i \in Instances, RouterTypes
    <3>4. /\ router'[i].late
          /\ router'[i].pc = "awaiting"
          /\ \A j \in Instances : j = i \/ router'[j] = router[j]
      BY ONLY <3>1, <3>2, i \in Instances DEF RouterType
    <3>5. Typed'
      BY <1>0, <3>1, <3>3
    <3>6. UnderIntent'
      BY <1>0, <3>1, <3>4
    <3>7. RoundsLeft' /\ ClosedBeforeMarking'
      BY <1>0, <3>1, <3>4
    <3> QED BY <1>0, <3>5, <3>6, <3>7
  <2> QED BY <2>1, <2>2
<1>3. CASE request_effect_dag_cancel(i)
  BY <1>0, <1>3 DEF request_effect_dag_cancel
<1>4. CASE reduce_effect_dag(i)
  <2>1. /\ UNCHANGED <<cancel, waiting, left, asks, lease, task, ctl, crashes, faults>>
        /\ graph' \in {graph, "ended"}
        /\ router' \in [Instances -> RouterType]
    BY <1>0, <1>4 DEF reduce_effect_dag, Reduced
  <2>2. \A j \in Instances :
          /\ router'[j].pc \in {"reducing", "awaiting", "closing", "marking"} =>
               router[j].pc \in {"reducing", "awaiting", "closing", "marking"}
          /\ router'[j].pc = "marking" => router[j].pc = "marking"
          /\ router'[j].late = router[j].late
    BY <1>0, <1>4 DEF reduce_effect_dag
  <2>3. rt' \in [Instances -> RuntimeType]
    <3>1. rt' \in {rt, [rt EXCEPT ![i].stop = TRUE]}
      BY <1>4 DEF reduce_effect_dag
    <3>2. rt \in [Instances -> RuntimeType]
      BY <1>0
    <3>3. [rt EXCEPT ![i].stop = TRUE] \in [Instances -> RuntimeType]
      BY ONLY <3>2, RuntimeTypes, i \in Instances
    <3> QED BY ONLY <3>1, <3>2, <3>3
  <2> QED BY <1>0, <2>1, <2>2, <2>3
<1>5. CASE await_worker(i)
  BY <1>0, <1>5 DEF await_worker
<1>6. CASE heartbeat_lost(i)
  BY <1>0, <1>6 DEF heartbeat_lost
<1>7. CASE cancel_task(i)
  BY <1>0, <1>7 DEF cancel_task
<1>8. CASE mark_applied(i)
  <2>1. /\ UNCHANGED <<graph, cancel, waiting, left, asks, lease, task, crashes, faults>>
        /\ router' \in [Instances -> RouterType]
        /\ \A j \in Instances : \/ router'[j] = router[j]
                               \/ router'[j].pc \in {"releasing", "superseding"}
    BY <1>0, <1>8 DEF mark_applied
  <2>2. rt' \in [Instances -> RuntimeType]
    BY <1>0, <1>8, ResetTypes DEF mark_applied, Forgotten
  <2>3. ctl' \in ControlType
    BY <1>0, <1>8, ResetTypes DEF mark_applied, ControlType
  <2>4. task # "open"
    BY <1>0, <1>8 DEF mark_applied
  <2> QED BY <1>0, <2>1, <2>2, <2>3, <2>4
<1>9. CASE give_back(i)
  BY <1>0, <1>9, ControlTypes DEF give_back
<1>10. CASE release(i)
  BY <1>0, <1>10, LeaseTypes, ResetTypes DEF release, Resting
<1> QED BY <1>1, <1>2, <1>3, <1>4, <1>5, <1>6, <1>7, <1>8, <1>9, <1>10

-----------------------------------------------------------------------------
(* The worker.                                                              *)

\* What is written to graph, intent and task outlasts any step of a worker,
\* so what the routers have seen stays true.
LEMMA WorkerKeeps ==
  ASSUME IInv, Typed', RoundsLeft', UNCHANGED <<ctl, router>>,
         cancel => cancel', graph = "ended" => graph' = "ended",
         task # "open" => task' # "open"
  PROVE  IInv'
<1>1. TypeOK'
  BY TypedIsTypeOK
<1>2. UnderIntent' /\ ClosedBeforeMarking'
  BY DEF IInv, UnderIntent, ClosedBeforeMarking
<1> QED BY <1>1, <1>2 DEF IInv

\* The lease and the runtime after a step that acquires, releases or drops.
LEMMA WorkerTypes ==
  ASSUME Typed, NEW i \in Instances
  PROVE  /\ acquire_effect_graph_lease(i) => lease' \in LeaseType
         /\ \A f : release_effect_graph_lease(i, f) => lease' \in LeaseType
         /\ Dropped(i) => rt' \in [Instances -> RuntimeType]
         /\ \A p \in WorkerPc :
              /\ Worker(i, p) => rt' \in [Instances -> RuntimeType]
              /\ Unleased(i, p) => rt' \in [Instances -> RuntimeType]
              /\ lease' \in LeaseType /\ Leased(i, p) => rt' \in [Instances -> RuntimeType]
<1>1. TypeOK
  BY TypedIsTypeOK
<1>2. rt \in [Instances -> RuntimeType]
  BY DEF Typed
<1>3. /\ acquire_effect_graph_lease(i) => lease' \in LeaseType
      /\ \A f : release_effect_graph_lease(i, f) => lease' \in LeaseType
  BY <1>1, LeaseTypes
<1>4. Dropped(i) => rt' \in [Instances -> RuntimeType]
  BY <1>2, RuntimeTypes DEF Dropped
<1>5. ASSUME NEW p \in WorkerPc
      PROVE  /\ Worker(i, p) => rt' \in [Instances -> RuntimeType]
             /\ Unleased(i, p) => rt' \in [Instances -> RuntimeType]
             /\ lease' \in LeaseType /\ Leased(i, p) => rt' \in [Instances -> RuntimeType]
  <2>1. lease' \in LeaseType => lease'.fence \in Tokens
    BY DEF LeaseType
  <2>2. [rt EXCEPT ![i].pc = p] \in [Instances -> RuntimeType]
    BY <1>2, RuntimeTypes
  <2>3. \A f \in Tokens :
          [rt EXCEPT ![i].pc = p, ![i].fence = f] \in [Instances -> RuntimeType]
    BY <1>2, RuntimeTypes
  <2> QED BY <2>1, <2>2, <2>3, ConstantTypes DEF Worker, Unleased, Leased
<1> QED BY <1>3, <1>4, <1>5

\* Every step of a worker, an approval included.
LEMMA WorkerStep ==
  ASSUME IInv, NEW i \in Instances,
         worker_head(i) \/ prepare(i) \/ continue_after_approval(i)
         \/ dispatcher_starts(i) \/ dispatch(i) \/ dispatcher_leaves(i)
         \/ stop_cancel(i) \/ stop_reduce(i) \/ stop_release(i)
  PROVE  IInv'
<1>0. Typed
  BY TypedIsTypeOK DEF IInv
<1>1. CASE worker_head(i)
  <2>1. rt' \in [Instances -> RuntimeType] /\ lease' \in LeaseType
    BY <1>0, <1>1, WorkerTypes DEF worker_head, Typed, WorkerPc
  <2>2. /\ UNCHANGED <<ctl, router, crashes, faults>>
        /\ graph' \in {"active", "ended"} /\ task' \in {"open", "cancelled", "ended"}
        /\ cancel' \in BOOLEAN /\ waiting' \in BOOLEAN
        /\ left' \in Nat /\ asks' \in Nat
        /\ RoundsLeft' /\ (cancel => cancel')
        /\ (graph = "ended" => graph' = "ended")
        /\ (task # "open" => task' # "open")
    BY <1>0, <1>1 DEF worker_head, Typed, work, IInv, RoundsLeft
  <2>3. Typed'
    BY <1>0, <2>1, <2>2 DEF Typed
  <2> QED BY <2>2, <2>3, WorkerKeeps
<1>2. CASE prepare(i)
  <2>1. rt' \in [Instances -> RuntimeType] /\ lease' \in LeaseType
    BY <1>0, <1>2, WorkerTypes DEF prepare, Typed, WorkerPc
  <2>2. /\ UNCHANGED <<ctl, router, crashes, faults>>
        /\ graph' \in {"active", "ended"} /\ task' \in {"open", "cancelled", "ended"}
        /\ cancel' \in BOOLEAN /\ waiting' \in BOOLEAN
        /\ left' \in Nat /\ asks' \in Nat
        /\ RoundsLeft' /\ (cancel => cancel')
        /\ (graph = "ended" => graph' = "ended")
        /\ (task # "open" => task' # "open")
    <3>1. /\ UNCHANGED <<graph, cancel, task, ctl, router, crashes, faults, left>>
          /\ \/ UNCHANGED <<waiting, asks>>
             \/ asks > 0 /\ waiting' = TRUE /\ asks' = asks - 1
      BY <1>2 DEF prepare, work
    <3>2. asks' \in Nat
      BY <1>0, <3>1 DEF Typed
    <3>3. waiting' \in BOOLEAN
      BY <1>0, <3>1 DEF Typed
    <3> QED BY <1>0, <3>1, <3>2, <3>3 DEF Typed, IInv, RoundsLeft
  <2>3. Typed'
    BY <1>0, <2>1, <2>2 DEF Typed
  <2> QED BY <2>2, <2>3, WorkerKeeps
<1>3. CASE continue_after_approval(i)
  <2>1. rt' \in [Instances -> RuntimeType] /\ lease' \in LeaseType
    <3>1. /\ rt' = [rt EXCEPT ![i] = [rt[i] EXCEPT !.pc = "loop", !.stop = FALSE]]
          /\ lease' = lease
      BY <1>0, <1>3 DEF continue_after_approval, Typed
    <3>2. [rt[i] EXCEPT !.pc = "loop", !.stop = FALSE] \in RuntimeType
      BY <1>0 DEF Typed, RuntimeType, WorkerPc
    <3> QED BY <1>0, <3>1, <3>2 DEF Typed
  <2>2. /\ UNCHANGED <<ctl, router, crashes, faults>>
        /\ graph' \in {"active", "ended"} /\ task' \in {"open", "cancelled", "ended"}
        /\ cancel' \in BOOLEAN /\ waiting' \in BOOLEAN
        /\ left' \in Nat /\ asks' \in Nat
        /\ RoundsLeft' /\ (cancel => cancel')
        /\ (graph = "ended" => graph' = "ended")
        /\ (task # "open" => task' # "open")
    BY <1>0, <1>3 DEF continue_after_approval, Typed, work, IInv, RoundsLeft
  <2>3. Typed'
    BY <1>0, <2>1, <2>2 DEF Typed
  <2> QED BY <2>2, <2>3, WorkerKeeps
<1>4. CASE dispatcher_starts(i)
  <2>1. rt' \in [Instances -> RuntimeType] /\ lease' \in LeaseType
    BY <1>0, <1>4, WorkerTypes DEF dispatcher_starts, Typed, WorkerPc
  <2>2. /\ UNCHANGED <<ctl, router, crashes, faults>>
        /\ graph' \in {"active", "ended"} /\ task' \in {"open", "cancelled", "ended"}
        /\ cancel' \in BOOLEAN /\ waiting' \in BOOLEAN
        /\ left' \in Nat /\ asks' \in Nat
        /\ RoundsLeft' /\ (cancel => cancel')
        /\ (graph = "ended" => graph' = "ended")
        /\ (task # "open" => task' # "open")
    BY <1>0, <1>4 DEF dispatcher_starts, Typed, work, IInv, RoundsLeft
  <2>3. Typed'
    BY <1>0, <2>1, <2>2 DEF Typed
  <2> QED BY <2>2, <2>3, WorkerKeeps
<1>5. CASE dispatch(i)
  <2>1. rt' \in [Instances -> RuntimeType] /\ lease' \in LeaseType
    BY <1>0, <1>5, WorkerTypes DEF dispatch, Typed, WorkerPc
  <2>2. /\ UNCHANGED <<ctl, router, crashes, faults>>
        /\ graph' \in {"active", "ended"} /\ task' \in {"open", "cancelled", "ended"}
        /\ cancel' \in BOOLEAN /\ waiting' \in BOOLEAN
        /\ left' \in Nat /\ asks' \in Nat
        /\ RoundsLeft' /\ (cancel => cancel')
        /\ (graph = "ended" => graph' = "ended")
        /\ (task # "open" => task' # "open")
    BY <1>0, <1>5 DEF dispatch, Typed, work, IInv, RoundsLeft, Reduced
  <2>3. Typed'
    BY <1>0, <2>1, <2>2 DEF Typed
  <2> QED BY <2>2, <2>3, WorkerKeeps
<1>6. CASE dispatcher_leaves(i)
  <2>1. rt' \in [Instances -> RuntimeType] /\ lease' \in LeaseType
    BY <1>0, <1>6, WorkerTypes DEF dispatcher_leaves, Typed, WorkerPc
  <2>2. /\ UNCHANGED <<ctl, router, crashes, faults>>
        /\ graph' \in {"active", "ended"} /\ task' \in {"open", "cancelled", "ended"}
        /\ cancel' \in BOOLEAN /\ waiting' \in BOOLEAN
        /\ left' \in Nat /\ asks' \in Nat
        /\ RoundsLeft' /\ (cancel => cancel')
        /\ (graph = "ended" => graph' = "ended")
        /\ (task # "open" => task' # "open")
    BY <1>0, <1>6 DEF dispatcher_leaves, Typed, work, IInv, RoundsLeft
  <2>3. Typed'
    BY <1>0, <2>1, <2>2 DEF Typed
  <2> QED BY <2>2, <2>3, WorkerKeeps
<1>7. CASE stop_cancel(i)
  <2>1. rt' \in [Instances -> RuntimeType] /\ lease' \in LeaseType
    BY <1>0, <1>7, WorkerTypes DEF stop_cancel, Typed, WorkerPc
  <2>2. /\ UNCHANGED <<ctl, router, crashes, faults>>
        /\ graph' \in {"active", "ended"} /\ task' \in {"open", "cancelled", "ended"}
        /\ cancel' \in BOOLEAN /\ waiting' \in BOOLEAN
        /\ left' \in Nat /\ asks' \in Nat
        /\ RoundsLeft' /\ (cancel => cancel')
        /\ (graph = "ended" => graph' = "ended")
        /\ (task # "open" => task' # "open")
    BY <1>0, <1>7 DEF stop_cancel, Typed, work, IInv, RoundsLeft
  <2>3. Typed'
    BY <1>0, <2>1, <2>2 DEF Typed
  <2> QED BY <2>2, <2>3, WorkerKeeps
<1>8. CASE stop_reduce(i)
  <2>1. rt' \in [Instances -> RuntimeType] /\ lease' \in LeaseType
    BY <1>0, <1>8, WorkerTypes DEF stop_reduce, Typed, WorkerPc
  <2>2. /\ UNCHANGED <<ctl, router, crashes, faults>>
        /\ graph' \in {"active", "ended"} /\ task' \in {"open", "cancelled", "ended"}
        /\ cancel' \in BOOLEAN /\ waiting' \in BOOLEAN
        /\ left' \in Nat /\ asks' \in Nat
        /\ RoundsLeft' /\ (cancel => cancel')
        /\ (graph = "ended" => graph' = "ended")
        /\ (task # "open" => task' # "open")
    BY <1>0, <1>8 DEF stop_reduce, Typed, work, IInv, RoundsLeft, Reduced
  <2>3. Typed'
    BY <1>0, <2>1, <2>2 DEF Typed
  <2> QED BY <2>2, <2>3, WorkerKeeps
<1>9. CASE stop_release(i)
  <2>1. rt' \in [Instances -> RuntimeType] /\ lease' \in LeaseType
    BY <1>0, <1>9, WorkerTypes DEF stop_release, Typed, WorkerPc
  <2>2. /\ UNCHANGED <<ctl, router, crashes, faults>>
        /\ graph' \in {"active", "ended"} /\ task' \in {"open", "cancelled", "ended"}
        /\ cancel' \in BOOLEAN /\ waiting' \in BOOLEAN
        /\ left' \in Nat /\ asks' \in Nat
        /\ RoundsLeft' /\ (cancel => cancel')
        /\ (graph = "ended" => graph' = "ended")
        /\ (task # "open" => task' # "open")
    BY <1>0, <1>9 DEF stop_release, Typed, work, IInv, RoundsLeft
  <2>3. Typed'
    BY <1>0, <2>1, <2>2 DEF Typed
  <2> QED BY <2>2, <2>3, WorkerKeeps
<1> QED BY <1>1, <1>2, <1>3, <1>4, <1>5, <1>6, <1>7, <1>8, <1>9

-----------------------------------------------------------------------------
(* Requests, time and faults.                                               *)

\* A request writes the row, unapplied.
LEMMA RequestStep ==
  ASSUME IInv, NEW i \in Instances, request_cancel(i)
  PROVE  IInv'
<1>0. TypeOK /\ Typed
  BY TypedIsTypeOK DEF IInv
<1>1. Addressed(ctl) \in ControlType
  BY <1>0, ControlTypes
<1>2. ctl' \in ControlType /\ ctl'.status = "pending"
  BY <1>1 DEF request_cancel, ControlType
<1>3. UNCHANGED <<graph, cancel, waiting, left, asks, lease, task, router, rt, crashes,
                  faults>>
  BY DEF request_cancel, work
<1>4. Typed'
  BY <1>0, <1>2, <1>3 DEF Typed
<1>5. TypeOK'
  BY <1>4, TypedIsTypeOK
<1> QED BY <1>2, <1>3, <1>5 DEF IInv, RoundsLeft, UnderIntent, ClosedBeforeMarking

\* Leases and claims that lapse, and a backoff that ends.
LEMMA TimeStep ==
  ASSUME IInv, Time
  PROVE  IInv'
<1>0. Typed
  BY TypedIsTypeOK DEF IInv
<1>1. UNCHANGED <<graph, cancel, waiting, left, asks, task, router, rt, crashes>>
  BY DEF Time, lease_lapses, claim_lapses, backoff_ends, work
<1>2. lease' \in LeaseType
  BY <1>0, ResetTypes DEF Typed, Time, lease_lapses, claim_lapses, backoff_ends
<1>3. ctl' \in ControlType /\ ctl'.status = ctl.status
  BY <1>0, ConstantTypes
     DEF Typed, ControlType, Time, lease_lapses, claim_lapses, backoff_ends
<1>4. faults' \in Nat
  BY <1>0 DEF Typed, Time, lease_lapses, claim_lapses, backoff_ends, Charge
<1>5. Typed'
  BY <1>0, <1>1, <1>2, <1>3, <1>4 DEF Typed
<1>6. TypeOK'
  BY <1>5, TypedIsTypeOK
<1> QED BY <1>1, <1>3, <1>6 DEF IInv, RoundsLeft, UnderIntent, ClosedBeforeMarking

\* A handler that fails, a batch that is dropped, a process that dies: the
\* router leaves its place, and what it wrote before stays written.
LEMMA FaultStep ==
  ASSUME IInv, NEW i \in Instances, Fault(i)
  PROVE  IInv'
<1>0. Typed
  BY TypedIsTypeOK DEF IInv
<1>1. UNCHANGED <<graph, cancel, waiting, left, asks, task>>
  BY DEF Fault, handler_fails, batch_dropped, crash, work
<1>2. /\ router' \in [Instances -> RouterType]
      /\ \A j \in Instances : \/ router'[j] = router[j]
                              \/ router'[j].pc \in {"idle", "retrying"}
  <2>1. CASE handler_fails(i)
    BY <1>0, <2>1 DEF Typed, RouterType, RouterPc, handler_fails, Goto
  <2>2. CASE router' = [router EXCEPT ![i] = Resting]
    BY <1>0, <2>2, ResetTypes DEF Typed, Resting
  <2> QED BY <2>1, <2>2 DEF Fault, batch_dropped, crash
<1>3. crashes' \in Nat /\ faults' \in Nat
  BY <1>0 DEF Typed, Fault, handler_fails, batch_dropped, crash
<1>4. /\ lease' \in LeaseType
      /\ ctl' \in ControlType /\ ctl'.status = ctl.status
  <2>1. CASE handler_fails(i) \/ batch_dropped(i)
    BY <1>0, <2>1 DEF Typed, handler_fails, batch_dropped
  <2>2. CASE crash(i)
    <3>1. lease' \in LeaseType
      BY <1>0, <2>2, ConstantTypes DEF Typed, LeaseType, crash
    <3>2. ctl' \in ControlType /\ ctl'.status = ctl.status
      BY <1>0, <2>2, ConstantTypes DEF Typed, ControlType, crash
    <3> QED BY <3>1, <3>2
  <2> QED BY <2>1, <2>2 DEF Fault
<1>5. rt' \in [Instances -> RuntimeType]
  <2>1. CASE handler_fails(i) \/ batch_dropped(i)
    BY <1>0, <2>1 DEF Typed, handler_fails, batch_dropped
  <2>2. CASE crash(i)
    <3>1. \A p \in {"idle", "loop"} : [NoRuntime EXCEPT !.pc = p] \in RuntimeType
      BY ResetTypes DEF RuntimeType, WorkerPc
    <3>2. NoRuntime \in RuntimeType
      BY ResetTypes
    <3> QED BY <1>0, <2>2, <3>1, <3>2 DEF Typed, crash, Dropped
  <2> QED BY <2>1, <2>2 DEF Fault
<1>6. Typed'
  BY <1>0, <1>1, <1>2, <1>3, <1>4, <1>5 DEF Typed
<1>7. TypeOK'
  BY <1>6, TypedIsTypeOK
<1>8. UnderIntent' /\ ClosedBeforeMarking'
  BY <1>1, <1>2, <1>4 DEF IInv, UnderIntent, ClosedBeforeMarking
<1> QED BY <1>1, <1>7, <1>8 DEF IInv, RoundsLeft

-----------------------------------------------------------------------------
(* The theorems.                                                            *)

\* Every step preserves the invariant.
LEMMA NextIInv == IInv /\ [Next]_vars => IInv'
<1> SUFFICES ASSUME IInv, [Next]_vars PROVE IInv'
  OBVIOUS
<1>1. ASSUME NEW i \in Instances, Route(i) PROVE IInv'
  BY <1>1, RoutingStep, ApplyStep DEF Route
<1>2. ASSUME NEW i \in Instances, Work(i) \/ continue_after_approval(i) PROVE IInv'
  BY <1>2, WorkerStep DEF Work
<1>3. ASSUME NEW i \in Instances, request_cancel(i) PROVE IInv'
  BY <1>3, RequestStep
<1>4. ASSUME NEW i \in Instances, Fault(i) PROVE IInv'
  BY <1>4, FaultStep
<1>5. ASSUME Time PROVE IInv'
  BY <1>5, TimeStep
<1>6. ASSUME UNCHANGED vars PROVE IInv'
  <2>1. UNCHANGED <<ctl, router, graph, cancel, task, left>>
    BY <1>6 DEF vars, work
  <2>2. Typed'
    BY <1>6, TypedIsTypeOK DEF IInv, Typed, vars, work
  <2> QED BY <2>1, <2>2, WorkerKeeps DEF IInv, RoundsLeft
<1> QED BY <1>1, <1>2, <1>3, <1>4, <1>5, <1>6 DEF Next

\* The invariant holds in every reachable state, whatever the fairness.
THEOREM ControlInvariant == Spec => []IInv
<1> QED BY InitIInv, NextIInv, PTL DEF Spec

\* Rows, routers and runtimes are typed; in particular a process that takes
\* the lease or claims the row always finds a token nobody remembers.
THEOREM ControlTypeCorrect == Spec => []TypeOK
<1>1. IInv => TypeOK
  BY DEF IInv
<1> QED BY <1>1, ControlInvariant, PTL

\* Only mark_applied acknowledges: the acknowledging router has closed the
\* task, under the intent, over an ended graph or after the dispatcher left.
LEMMA AppliedStep ==
  ASSUME IInv, [Next]_vars, NEW i \in Instances,
         ctl.status # "applied", ctl'.status = "applied", ctl.claimer = i
  PROVE  task # "open" /\ (cancel \/ graph = "ended" \/ router[i].late)
<1>0. TypeOK /\ Typed
  BY TypedIsTypeOK DEF IInv
<1>1. ASSUME NEW j \in Instances, mark_applied(j)
      PROVE  task # "open" /\ (cancel \/ graph = "ended" \/ router[i].late)
  <2>1. router[j].pc = "marking" /\ HoldsClaim(j)
    BY <1>1 DEF mark_applied
  <2>2. j = i
    BY <2>1 DEF HoldsClaim
  <2> QED BY <2>1, <2>2 DEF IInv, UnderIntent, ClosedBeforeMarking
<1>2. ASSUME NEW j \in Instances,
             \/ route(j) \/ takeover(j) \/ reroute(j) \/ give_back(j)
      PROVE  FALSE
  BY <1>0, <1>2, ControlTypes DEF route, takeover, reroute, give_back
<1>3. ASSUME NEW j \in Instances, claim_for_owner(j)
      PROVE  FALSE
  <2>1. CASE Claimable(j)
    <3>1. ctl'.status = "processing"
      BY <1>0, <1>3, <2>1 DEF Typed, ControlType, claim_for_owner
    <3> QED BY <3>1
  <2>2. CASE ~Claimable(j)
    BY <1>3, <2>2 DEF claim_for_owner
  <2> QED BY <2>1, <2>2
<1>4. ASSUME NEW j \in Instances, request_cancel(j)
      PROVE  FALSE
  <2>1. Addressed(ctl) \in ControlType
    BY <1>0, ControlTypes
  <2> QED BY <1>4, <2>1 DEF request_cancel, ControlType
<1>5. ASSUME NEW j \in Instances, Fault(j)
      PROVE  FALSE
  BY <1>0, <1>5 DEF Typed, ControlType, Fault, handler_fails, batch_dropped, crash
<1>6. ASSUME Time
      PROVE  FALSE
  BY <1>0, <1>6 DEF Typed, ControlType, Time, lease_lapses, claim_lapses, backoff_ends
<1>7. ASSUME NEW j \in Instances,
             \/ apply_effect_graph_control(j) \/ apply_pending_cancel(j)
             \/ request_effect_dag_cancel(j) \/ reduce_effect_dag(j)
             \/ await_worker(j) \/ heartbeat_lost(j) \/ cancel_task(j) \/ release(j)
             \/ Work(j) \/ continue_after_approval(j)
      PROVE  FALSE
  <2>1. ctl' = ctl
    BY <1>7 DEF apply_effect_graph_control, apply_pending_cancel,
       request_effect_dag_cancel, reduce_effect_dag, await_worker, heartbeat_lost,
       cancel_task, release, Work, worker_head, prepare, continue_after_approval,
       dispatcher_starts, dispatch, dispatcher_leaves, stop_cancel, stop_reduce,
       stop_release
  <2> QED BY <2>1
<1>8. CASE UNCHANGED vars
  BY <1>8 DEF vars
<1> QED BY <1>1, <1>2, <1>3, <1>4, <1>5, <1>6, <1>7, <1>8 DEF Next, Route

\* A cancel is acknowledged only once its task has ended and its graph has
\* ended or carries the intent, however many routers delivered it and whoever
\* held lease and claim in between.  The one exception is a dispatcher that had
\* left its round when _apply_pending_cancel came to write.
THEOREM AcknowledgedUnderIntent == Spec => AppliedUnderIntent
<1>1. ASSUME IInv, [Next]_vars
      PROVE  \A i \in Instances :
               ctl.status # "applied" /\ ctl'.status = "applied" /\ ctl.claimer = i =>
                 task # "open" /\ (cancel \/ graph = "ended" \/ router[i].late)
  BY <1>1, AppliedStep
<1>2. IInv /\ [Next]_vars =>
        [\A i \in Instances :
           ctl.status # "applied" /\ ctl'.status = "applied" /\ ctl.claimer = i =>
             task # "open" /\ (cancel \/ graph = "ended" \/ router[i].late)]_vars
  BY <1>1
<1> QED BY <1>2, ControlInvariant, PTL DEF Spec, AppliedUnderIntent
===============================================================================
