----------------------- MODULE EffectGraphLeaseProofs -----------------------
(***************************************************************************)
(* For any number of instances and workers and any TTL: tokens are never   *)
(* issued twice, and the lease implements FencedGraph.                     *)
(***************************************************************************)
EXTENDS EffectGraphLease, TLAPS

\* The strengthening: while the row has an owner, whoever carries its current
\* token acts for that owner.
CurrentTokenIsOwners ==
  \A w \in Workers :
    held[w] # 0 /\ held[w] = row.token /\ row.owner # NoOwner =>
      row.owner = InstanceOf[w]

\* The clock a transaction uses is never ahead of the database's.
ReadInPast == \A w \in Workers : read[w].at <= now

IInv == /\ TypeOK
        /\ TokenHasOneInstance
        /\ RevisionIdentifiesRow
        /\ CurrentTokenIsOwners
        /\ ReadInPast

\* A graph is created unleased, with token 0.
LEMMA InitIInv == Init => IInv
  BY LeaseAssumption
  DEF Init, IInv, TypeOK, Row, NoRow, NoRead, TokenHasOneInstance,
      RevisionIdentifiesRow, CurrentTokenIsOwners, ReadInPast

\* Every step of every worker preserves the invariant.
LEMMA NextIInv == IInv /\ [Next]_vars => IInv'
<1> SUFFICES ASSUME IInv, [Next]_vars PROVE IInv'
  OBVIOUS
<1> USE LeaseAssumption
    DEF IInv, TypeOK, Row, NoRow, NoRead, TokenHasOneInstance,
        RevisionIdentifiesRow, CurrentTokenIsOwners, ReadInPast
<1>1. ASSUME tick PROVE IInv'
  BY <1>1 DEF tick
<1>2. ASSUME NEW w \in Workers, NEW kind \in {"acquire", "mutate"},
             begin(w, kind)
      PROVE  IInv'
  BY <1>2 DEF begin
<1>3. ASSUME NEW w \in Workers, NEW t \in {read[w].at, now},
             acquire_extends(w, t)
      PROVE  IInv'
  BY <1>3 DEF acquire_extends, ExtendApplies, SameLiveOwner, Done
<1>4. ASSUME NEW w \in Workers, NEW t \in {read[w].at, now},
             acquire_takes_over(w, t)
      PROVE  IInv'
  <2>a. /\ row \in Row /\ read[w].row \in Row /\ read[w].at \in Nat
        /\ read[w].row.revision = row.revision
        /\ read[w].row.token = row.token /\ read[w].row.content = row.content
    BY <1>4 DEF acquire_takes_over, TakeoverApplies
  <2>1. row' = [owner |-> InstanceOf[w], expires |-> read[w].at + TTL,
                token |-> row.token + 1, revision |-> row.revision + 1,
                content |-> row.content]
    BY <1>4, <2>a DEF acquire_takes_over, TakeoverApplies
  <2>b. row' \in Row
    BY <2>a, <2>1
  <2>c. read' \in [Workers -> [at : Nat, fence : Nat, row : Row]] /\ ReadInPast'
    BY <1>4 DEF acquire_takes_over, Done
  <2>2. TypeOK' /\ ReadInPast'
    BY <1>4, <2>a, <2>b, <2>c DEF acquire_takes_over, Done
  <2>3. TokenHasOneInstance' /\ CurrentTokenIsOwners'
    BY <1>4, <2>a, <2>1 DEF acquire_takes_over, TakeoverApplies, Done
  <2>4. RevisionIdentifiesRow'
    BY <1>4, <2>a, <2>1, <2>2 DEF acquire_takes_over, TakeoverApplies, Done
  <2> QED BY <2>2, <2>3, <2>4
<1>5. ASSUME NEW w \in Workers, NEW t \in {read[w].at, now},
             acquire_unavailable(w, t)
      PROVE  IInv'
  BY <1>5 DEF acquire_unavailable, Done
<1>6. ASSUME NEW w \in Workers, renew_effect_graph_lease(w) PROVE IInv'
  BY <1>6 DEF renew_effect_graph_lease
<1>7. ASSUME NEW w \in Workers, renew_rejected(w) PROVE IInv'
  BY <1>7 DEF renew_rejected
<1>8. ASSUME NEW w \in Workers, release_effect_graph_lease(w) PROVE IInv'
  <2>1. CASE row.owner = InstanceOf[w] /\ row.token = held[w]
    <3>1. row' = [owner |-> NoOwner, expires |-> 0, token |-> row.token,
                  revision |-> row.revision + 1, content |-> row.content]
      BY <1>8, <2>1 DEF release_effect_graph_lease
    <3>2. TypeOK' /\ ReadInPast'
      BY <1>8, <2>1, <3>1 DEF release_effect_graph_lease
    <3>3. TokenHasOneInstance' /\ CurrentTokenIsOwners'
      BY <1>8, <2>1, <3>1 DEF release_effect_graph_lease
    <3>4. RevisionIdentifiesRow'
      BY <1>8, <2>1, <3>1, <3>2 DEF release_effect_graph_lease
    <3> QED BY <3>2, <3>3, <3>4
  <2>2. CASE ~(row.owner = InstanceOf[w] /\ row.token = held[w])
    BY <1>8, <2>2 DEF release_effect_graph_lease
  <2> QED BY <2>1, <2>2
<1>9. ASSUME NEW w \in Workers, NEW t \in {read[w].at, now},
             fenced_mutation(w, t)
      PROVE  IInv'
  <2>a. /\ row \in Row /\ read[w].row \in Row /\ read[w].at \in Nat
        /\ read[w].row.revision = row.revision
        /\ read[w].row.token = row.token /\ read[w].row.content = row.content
    BY <1>9 DEF fenced_mutation, FenceHolds
  <2>1. row' = [owner |-> row.owner, expires |-> row.expires, token |-> row.token,
                revision |-> row.revision + 1, content |-> row.content + 1]
    BY <1>9, <2>a DEF fenced_mutation, FenceHolds
  <2>b. row' \in Row
    BY <2>a, <2>1
  <2>c. read' \in [Workers -> [at : Nat, fence : Nat, row : Row]] /\ ReadInPast'
    BY <1>9 DEF fenced_mutation, Done
  <2>2. TypeOK' /\ ReadInPast'
    BY <1>9, <2>a, <2>b, <2>c DEF fenced_mutation, Done
  <2>3. TokenHasOneInstance' /\ CurrentTokenIsOwners'
    BY <1>9, <2>a, <2>1 DEF fenced_mutation, FenceHolds, LeaseIsLive, Done
  <2>4. RevisionIdentifiesRow'
    BY <1>9, <2>a, <2>1, <2>2 DEF fenced_mutation, FenceHolds, LeaseIsLive, Done
  <2> QED BY <2>2, <2>3, <2>4
<1>10. ASSUME NEW w \in Workers, NEW t \in {read[w].at, now},
             mutation_rejected(w, t)
      PROVE  IInv'
  BY <1>10 DEF mutation_rejected, Done
<1>11. ASSUME NEW i \in Instances, crash(i) PROVE IInv'
  BY <1>11 DEF crash
<1>12. ASSUME UNCHANGED vars PROVE IInv'
  BY <1>12 DEF vars
<1> QED BY <1>1, <1>2, <1>3, <1>4, <1>5, <1>6,
          <1>7, <1>8, <1>9, <1>10, <1>11, <1>12
   DEF Next, Acquisition, Mutation

\* The invariant holds in every state.
LEMMA InductiveInvariant == Spec => []IInv
  BY InitIInv, NextIInv, PTL DEF Spec

\* The lease columns and the workers' beliefs keep their types.
THEOREM LeaseTypeCorrect == Spec => []TypeOK
<1>1. IInv => TypeOK  BY DEF IInv
<1> QED BY <1>1, InductiveInvariant, PTL

\* A fencing token is issued to one instance only (acquire_effect_graph_lease).
THEOREM TokensUnique == Spec => []TokenHasOneInstance
<1>1. IInv => TokenHasOneInstance  BY DEF IInv
<1> QED BY <1>1, InductiveInvariant, PTL

\* Comparing the revision is enough to know that the row is the one read.
THEOREM RevisionsIdentify == Spec => []RevisionIdentifiesRow
<1>1. IInv => RevisionIdentifiesRow  BY DEF IInv
<1> QED BY <1>1, InductiveInvariant, PTL

\* The initial row is an unheld document.
LEMMA InitFenced == Init => Fenced!Init
  BY DEF Init, NoRow, Fenced!Init

fencedVars == <<row.owner, row.token, row.content>>

\* Every step of the lease is a step of FencedGraph or leaves it alone.
LEMMA NextFenced == IInv /\ [Next]_vars => [Fenced!Next]_fencedVars
<1> SUFFICES ASSUME IInv, [Next]_vars PROVE [Fenced!Next]_fencedVars
  OBVIOUS
<1> USE LeaseAssumption
    DEF IInv, TypeOK, Row, RevisionIdentifiesRow, fencedVars, Fenced!Next,
        Fenced!Grant, Fenced!GiveUp, Fenced!Change
<1>1. ASSUME tick PROVE [Fenced!Next]_fencedVars
  BY <1>1 DEF tick
<1>2. ASSUME NEW w \in Workers, NEW kind \in {"acquire", "mutate"},
             begin(w, kind)
      PROVE  [Fenced!Next]_fencedVars
  BY <1>2 DEF begin
<1>3. ASSUME NEW w \in Workers, NEW t \in {read[w].at, now},
             acquire_extends(w, t)
      PROVE  [Fenced!Next]_fencedVars
  BY <1>3 DEF acquire_extends, ExtendApplies, SameLiveOwner, Done
<1>4. ASSUME NEW w \in Workers, NEW t \in {read[w].at, now},
             acquire_takes_over(w, t)
      PROVE  [Fenced!Next]_fencedVars
  BY <1>4 DEF acquire_takes_over, TakeoverApplies, Done
<1>5. ASSUME NEW w \in Workers, NEW t \in {read[w].at, now},
             acquire_unavailable(w, t)
      PROVE  [Fenced!Next]_fencedVars
  BY <1>5 DEF acquire_unavailable, Done
<1>6. ASSUME NEW w \in Workers,
             renew_effect_graph_lease(w)
      PROVE  [Fenced!Next]_fencedVars
  BY <1>6 DEF renew_effect_graph_lease
<1>7. ASSUME NEW w \in Workers,
             renew_rejected(w)
      PROVE  [Fenced!Next]_fencedVars
  BY <1>7 DEF renew_rejected
<1>8. ASSUME NEW w \in Workers,
             release_effect_graph_lease(w)
      PROVE  [Fenced!Next]_fencedVars
  BY <1>8 DEF release_effect_graph_lease
<1>9. ASSUME NEW w \in Workers, NEW t \in {read[w].at, now},
             fenced_mutation(w, t)
      PROVE  [Fenced!Next]_fencedVars
  BY <1>9 DEF fenced_mutation, FenceHolds, LeaseIsLive, Done
<1>10. ASSUME NEW w \in Workers, NEW t \in {read[w].at, now},
             mutation_rejected(w, t)
      PROVE  [Fenced!Next]_fencedVars
  BY <1>10 DEF mutation_rejected, Done
<1>11. ASSUME NEW i \in Instances, crash(i) PROVE [Fenced!Next]_fencedVars
  BY <1>11 DEF crash
<1>12. ASSUME UNCHANGED vars PROVE [Fenced!Next]_fencedVars
  BY <1>12 DEF vars
<1> QED BY <1>1, <1>2, <1>3, <1>4, <1>5, <1>6,
          <1>7, <1>8, <1>9, <1>10, <1>11, <1>12
   DEF Next, Acquisition, Mutation

\* The lease implements its abstract specification: one owner at a time
\* changes the graph, no update is lost, no superseded owner returns.
THEOREM LeaseImplementsFencedGraph == Spec => FencedSpec
  BY InitFenced, NextFenced, InductiveInvariant, PTL
  DEF Spec, FencedSpec, Fenced!Spec, fencedVars

\* What a step may do to a live lease.
TakeoverStep == row'.token # row.token => row.owner = NoOwner \/ row.expires <= now

\* No step takes a lease before it has expired.
LEMMA NextTakeover == IInv /\ [Next]_vars => TakeoverStep
<1> SUFFICES ASSUME IInv, [Next]_vars PROVE TakeoverStep
  OBVIOUS
<1> USE DEF IInv, TypeOK, Row, ReadInPast, TakeoverStep
<1>1. ASSUME tick PROVE TakeoverStep
  BY <1>1 DEF tick
<1>2. ASSUME NEW w \in Workers, NEW kind \in {"acquire", "mutate"},
             begin(w, kind)
      PROVE  TakeoverStep
  BY <1>2 DEF begin
<1>3. ASSUME NEW w \in Workers, NEW t \in {read[w].at, now},
             acquire_extends(w, t)
      PROVE  TakeoverStep
  BY <1>3 DEF acquire_extends, ExtendApplies, SameLiveOwner, Done
<1>4. ASSUME NEW w \in Workers, NEW t \in {read[w].at, now},
             acquire_takes_over(w, t)
      PROVE  TakeoverStep
  BY <1>4 DEF acquire_takes_over, TakeoverApplies, Done
<1>5. ASSUME NEW w \in Workers, NEW t \in {read[w].at, now},
             acquire_unavailable(w, t)
      PROVE  TakeoverStep
  BY <1>5 DEF acquire_unavailable, Done
<1>6. ASSUME NEW w \in Workers, renew_effect_graph_lease(w) PROVE TakeoverStep
  BY <1>6 DEF renew_effect_graph_lease
<1>7. ASSUME NEW w \in Workers, renew_rejected(w) PROVE TakeoverStep
  BY <1>7 DEF renew_rejected
<1>8. ASSUME NEW w \in Workers,
             release_effect_graph_lease(w)
      PROVE  TakeoverStep
  BY <1>8 DEF release_effect_graph_lease
<1>9. ASSUME NEW w \in Workers, NEW t \in {read[w].at, now},
             fenced_mutation(w, t)
      PROVE  TakeoverStep
  BY <1>9 DEF fenced_mutation, FenceHolds, LeaseIsLive, Done
<1>10. ASSUME NEW w \in Workers, NEW t \in {read[w].at, now},
             mutation_rejected(w, t)
      PROVE  TakeoverStep
  BY <1>10 DEF mutation_rejected, Done
<1>11. ASSUME NEW i \in Instances, crash(i) PROVE TakeoverStep
  BY <1>11 DEF crash
<1>12. ASSUME UNCHANGED vars PROVE TakeoverStep
  BY <1>12 DEF vars
<1> QED BY <1>1, <1>2, <1>3, <1>4, <1>5, <1>6,
          <1>7, <1>8, <1>9, <1>10, <1>11, <1>12
   DEF Next, Acquisition, Mutation

\* A live lease is never taken over, however stale the read that tried.
THEOREM LiveLeaseKept == Spec => NoTakeoverOfLiveLease
<1>1. IInv /\ [Next]_vars => [TakeoverStep]_vars
  BY NextTakeover
<1>2. [][TakeoverStep]_vars => NoTakeoverOfLiveLease
  BY PTL DEF NoTakeoverOfLiveLease, TakeoverStep
<1> QED BY <1>1, <1>2, InductiveInvariant, PTL DEF Spec
=============================================================================
