---------------------------- MODULE EffectDagProofs ----------------------------
(***************************************************************************)
(* Proofs about EffectDag, for every valid DAG, every answer of the policy *)
(* and every bound on concurrency and faults.                              *)
(*                                                                         *)
(* The inductive invariant has two layers.  Core speaks of the tables      *)
(* only: the projection is exact, the status of a node fits its attempts   *)
(* (Fits), what runs forward runs in order (InOrder), nothing is taken     *)
(* back before a plan exists (Quiet), and the plan covers, in waves that   *)
(* respect the edges, exactly the effects that stand (PlanFits, PlanOrder, *)
(* BackInWaves).  Drive says where the driver may be, given these tables:  *)
(* that is what makes a status read in one transaction still true when the *)
(* next one acts on it.                                                    *)
(***************************************************************************)
EXTENDS EffectDag, FiniteSetTheorems, WellFoundedInduction, TLAPS

Fwd(n) == attempt[<<"forward", n>>]
Bck(n) == attempt[<<"compensation", n>>]

Ahead == {"none", "requested", "cancelled"}

\* Status, claim and attempts of a node fit together.
FitsPending(n) ==
  node[n] \in {"pending", "skipped"} =>
    Fwd(n) \in Ahead /\ Bck(n) = "none" /\ claim[n] = "none"
FitsActive(n) ==
  node[n] = "active" =>
    Fwd(n) \in Ahead /\ Bck(n) = "none" /\ claim[n] # "none"
FitsWaiting(n) ==
  node[n] = "waiting_approval" =>
    /\ claim[n] = "none"
    /\ \/ Fwd(n) \in Ahead /\ Bck(n) = "none"
       \/ Fwd(n) = "succeeded" /\ Bck(n) \in Ahead
FitsRunning(n) ==
  node[n] = "running" =>
    /\ claim[n] # "none"
    /\ \/ Fwd(n) = "running" /\ Bck(n) = "none"
       \/ Fwd(n) = "succeeded" /\ Bck(n) = "running"
FitsSucceeded(n) ==
  node[n] = "succeeded" =>
    Fwd(n) = "succeeded" /\ Bck(n) \in Ahead /\ claim[n] = "none"
FitsEnded(n) ==
  /\ node[n] = "failed" => Fwd(n) = "failed"
  /\ node[n] = "unknown" => Fwd(n) \in Ahead \cup {"unknown"}
  /\ node[n] = "cancelled" => Fwd(n) \in Ahead
  /\ node[n] \in {"failed", "unknown", "cancelled"} =>
       Bck(n) = "none" /\ claim[n] = "none"
FitsBack(n) ==
  /\ node[n] = "compensating" =>
       Fwd(n) = "succeeded" /\ Bck(n) \in Ahead /\ claim[n] # "none"
  /\ node[n] = "compensated" => Bck(n) = "succeeded"
  /\ node[n] = "compensation_failed" => Bck(n) \in {"failed", "cancelled"}
  /\ node[n] = "compensation_unknown" => Bck(n) = "unknown"
  /\ node[n] \in {"compensated", "compensation_failed", "compensation_unknown"} =>
       Fwd(n) = "succeeded" /\ claim[n] = "none"
FitsNode(n) ==
  /\ FitsPending(n) /\ FitsActive(n) /\ FitsWaiting(n) /\ FitsRunning(n)
  /\ FitsSucceeded(n) /\ FitsEnded(n) /\ FitsBack(n)
Fits == \A n \in Nodes : FitsNode(n)

Started(a) == attempt[a] \in {"running", "succeeded", "unknown"}

\* What has been claimed or started forward has all it depends on.
InOrder ==
  \A n \in Nodes : node[n] = "active" \/ Started(<<"forward", n>>) =>
    /\ \A m \in Pred(n) : Fwd(m) = "succeeded"
    /\ Selected(n)

\* Before there is a plan nothing has been taken back.
Quiet ==
  plan = <<>> => \A n \in Nodes :
    /\ Bck(n) = "none"
    /\ Fwd(n) = "succeeded" => node[n] = "succeeded"

\* Once the graph compensates, or a plan exists, no effect appears any more.
Frozen ==
  graph = "compensating" \/ plan # <<>> => \A n \in Nodes :
    /\ Fwd(n) \notin {"running", "unknown"}
    /\ Fwd(n) = "succeeded" => n \in Reversible

\* The waves hold the effects that have happened, and nothing else.
PlanFits ==
  plan # <<>> => \A n \in Nodes :
    Fwd(n) = "succeeded" <=> \E i \in 1..Len(plan) : n \in plan[i]

PlanOrder ==
  \A i, j \in 1..Len(plan) : \A n \in plan[j] : \A m \in Succ(n) \cap plan[i] : i < j

\* What is being taken back has nothing standing after it.
BackInWaves ==
  \A n \in Nodes : node[n] = "compensating" \/ Started(<<"compensation", n>>) =>
    \A m \in Succ(n) : Fwd(m) = "succeeded" => Bck(m) = "succeeded"

Ends ==
  /\ graph = "succeeded" =>
       plan = <<>> /\ \A n \in Nodes : node[n] \in {"succeeded", "skipped"}
  /\ graph = "failed" =>
       plan = <<>> /\ \A n \in Nodes : node[n] \in {"failed", "skipped"}
  /\ graph = "compensated" =>
       plan # <<>> /\ \A i \in 1..Len(plan) : \A n \in plan[i] : node[n] = "compensated"

Core ==
  /\ ProjectionExact /\ Fits /\ InOrder /\ Quiet /\ Frozen
  /\ PlanFits /\ PlanOrder /\ BackInWaves /\ Ends

CompPhases == {"comp", "comp_prepare", "comp_remaining", "comp_claim",
               "comp_run", "comp_reduce"}

\* Which graph the driver can have under it.
AtFits ==
  /\ at \in {"refresh", "ready", "prepare"} =>
       graph \in {"active", "cancelled", "blocked_unknown"}
  /\ at \in {"select", "decide", "claim", "run", "reduce"} => graph = "active"
  /\ at = "dispatch" =>
       graph \in {"active", "succeeded", "failed", "cancelled", "compensating",
                  "blocked_unknown", "blocked_non_compensable"}
  /\ at = "plan" => graph = "compensating"
  /\ at \in CompPhases => graph \in {"compensating", "cancelled", "blocked_unknown"}

\* A plan is never found by a driver that goes forward.
PlanPhase ==
  plan # <<>> => graph # "active" /\ at \in {"idle", "suspended", "gone"} \cup CompPhases

\* The nodes selected for a claim are still ready when they are claimed.
SelectedIsReady == at = "claim" => todo \subseteq ReadySet

\* The driver takes back the nodes of its wave.
InWave ==
  /\ at \in CompPhases \ {"comp"} => wave \in 1..Len(plan)
  /\ at \in {"comp_prepare", "comp_run"} => batch \subseteq plan[wave]
  /\ at \in {"comp_remaining", "comp_claim", "comp_run"} => todo \subseteq plan[wave]

RoutedIsPersisted == routed = "persisted" => cancel

Drive == AtFits /\ PlanPhase /\ SelectedIsReady /\ InWave /\ RoutedIsPersisted

IInv == TypeOK /\ Core /\ Drive

------------------------------------------------------------------------------
(* Facts about finite sets that the counters and the waves rest on.         *)

\* A set of sets over a finite set that has an element has a smallest one.
LEMMA SmallestSet ==
  ASSUME NEW S, IsFiniteSet(S), NEW F, F \subseteq SUBSET S, F # {}
  PROVE  \E x \in F : \A y \in F : y \subseteq x => y = x
<1>1. IsWellFoundedOn(StrictSubsetOrdering(S), FiniteSubsetsOf(S))
  BY FS_StrictSubsetOrderingWellFounded
<1>2. FiniteSubsetsOf(S) = SUBSET S
  BY FS_FiniteSubsetsOfFinite
<1>3. PICK x \in F : \A y \in F : ~ (<<y, x>> \in StrictSubsetOrdering(S))
  BY <1>1, <1>2, WFMin
<1>4. ASSUME NEW y \in F, y \subseteq x
      PROVE  y = x
  BY <1>3, <1>4, Zenon DEF StrictSubsetOrdering
<1> QED BY <1>4

\* The least-number principle.
LEMMA LeastNat ==
  ASSUME NEW T, T \subseteq Nat, T # {}
  PROVE  \E x \in T : \A y \in T : x <= y
<1>1. PICK a \in T : TRUE
  OBVIOUS
<1> DEFINE F == {0..x : x \in {y \in T : y <= a}}
<1> DEFINE D == 0..a
<1>2. F \subseteq SUBSET D /\ F # {}
  BY <1>1
<1>3. IsFiniteSet(D)
  BY <1>1, FS_Interval
<1> HIDE DEF F, D
<1>4. \E s \in F : \A t \in F : t \subseteq s => t = s
  <2>1. F \subseteq SUBSET D
    BY <1>2
  <2>2. F # {}
    BY <1>2
  <2> QED BY ONLY <2>1, <2>2, <1>3, SmallestSet
<1>5. PICK s \in F : \A t \in F : t \subseteq s => t = s
  BY <1>4
<1>6. PICK x \in T : x <= a /\ s = 0..x
  BY <1>5 DEF F
<1>7. ASSUME NEW y \in T
      PROVE  x <= y
  <2>1. CASE y < x
    <3>1. y <= a
      BY <1>1, <1>6, <2>1
    <3>2. 0..y \in F
      BY <3>1 DEF F
    <3>3. 0..y \subseteq s
      BY <1>6, <2>1
    <3>4. 0..y = 0..x
      BY <1>5, <1>6, <3>2, <3>3
    <3> QED BY <1>6, <2>1, <3>4
  <2> QED BY <1>6, <2>1
<1> QED BY <1>7

\* Min of FiniteSetsExt on sets of natural numbers.
LEMMA MinOfNats ==
  ASSUME NEW S, S \subseteq Nat, S # {}
  PROVE  Min(S) \in S /\ \A y \in S : Min(S) <= y
<1>1. \E x \in S : \A y \in S : x <= y
  BY LeastNat
<1> QED BY <1>1, Zenon DEF Min

\* The plan has finitely many nodes, numbered from 1.
LEMMA NodesFinite == Nodes \subseteq Nat /\ IsFiniteSet(Nodes)
  BY DagAssumption, FS_Interval DEF ValidDag, Nodes

\* A node has one branch from each predecessor at most.
LEMMA BranchesFinite ==
  ASSUME NEW n \in Nodes
  PROVE  IsFiniteSet(BranchesInto(n))
<1> DEFINE f == [e \in BranchesInto(n) |-> e.from]
<1>1. f \in [BranchesInto(n) -> Nodes]
  BY DagAssumption DEF ValidDag, BranchesInto
<1>2. ASSUME NEW a \in BranchesInto(n), NEW b \in BranchesInto(n), f[a] = f[b]
      PROVE  a = b
  BY <1>2, DagAssumption DEF ValidDag, BranchesInto
<1>3. f \in Injection(BranchesInto(n), Nodes)
  BY <1>1, <1>2 DEF Injection, IsInjective
<1> QED BY <1>3, NodesFinite, FS_Injection

\* What is counted when a set loses some elements and wins others.
LEMMA CountMoves ==
  ASSUME NEW A, IsFiniteSet(A), NEW G, G \subseteq A,
         NEW L, IsFiniteSet(L), L \cap A = {},
         NEW B, B = (A \ G) \cup L
  PROVE  /\ Cardinality(B) = Cardinality(A) - Cardinality(G) + Cardinality(L)
         /\ Cardinality(A) \in Nat /\ Cardinality(G) \in Nat /\ Cardinality(L) \in Nat
<1>1. IsFiniteSet(G)
  BY FS_Subset
<1>2. Cardinality(A) \in Nat /\ Cardinality(G) \in Nat /\ Cardinality(L) \in Nat
  BY <1>1, FS_CardinalityType
<1>3. IsFiniteSet(A \ G) /\ Cardinality(A \ G) = Cardinality(A) - Cardinality(A \cap G)
  BY FS_Difference
<1>4. Cardinality(A \cap G) = Cardinality(G) /\ Cardinality((A \ G) \cap L) = 0
  <2>1. A \cap G = G /\ (A \ G) \cap L = {}
    OBVIOUS
  <2> QED BY <2>1, FS_EmptySet
<1>5. Cardinality((A \ G) \cup L)
        = Cardinality(A \ G) + Cardinality(L) - Cardinality((A \ G) \cap L)
  BY <1>3, FS_Union
<1> QED BY <1>2, <1>3, <1>4, <1>5

------------------------------------------------------------------------------
(* The ready projection.                                                    *)

\* What the counters of a row count.
Missing(n) == {m \in Pred(n) : node[m] # "succeeded"}
Unsettled(n) == {e \in BranchesInto(n) : decided[<<e.from, e.key>>] = "none"}
Counted(n, r) ==
  /\ r.remaining = Cardinality(Missing(n))
  /\ r.unresolved = Cardinality(Unsettled(n))
  /\ r.rejected = Rejected(n)
Listed(n) ==
  /\ row[n].ready => n \in ReadySet
  /\ (n \in ReadySet /\ ~row[n].ready) => claim[n] = "lapsed"
ReadyRows == {n \in Nodes : row[n].ready}

\* The projection is exact when its counters, its membership and its total are.
LEMMA ProjectionParts ==
  ProjectionExact <=> /\ \A n \in Nodes : Counted(n, row[n])
                      /\ \A n \in Nodes : Listed(n)
                      /\ ready_node_count = Cardinality(ReadyRows)
BY Zenon DEF ProjectionExact, Counted, Listed, ReadyRows, Missing, Unsettled

\* The same of the next state.
LEMMA ProjectionPartsNext ==
  (ProjectionExact <=> /\ \A n \in Nodes : Counted(n, row[n])
                       /\ \A n \in Nodes : Listed(n)
                       /\ ready_node_count = Cardinality(ReadyRows))'
BY ProjectionParts, PTL

\* The sets a row of the projection counts are finite.
LEMMA RowSetsFinite ==
  ASSUME NEW n \in Nodes
  PROVE  IsFiniteSet(Pred(n)) /\ IsFiniteSet(Missing(n)) /\ IsFiniteSet(Unsettled(n))
<1>1. IsFiniteSet(Pred(n))
  BY NodesFinite, FS_Subset DEF Pred
<1>2. IsFiniteSet(Missing(n))
  BY <1>1, FS_Subset DEF Missing
<1>3. IsFiniteSet(Unsettled(n))
  BY BranchesFinite, FS_Subset DEF Unsettled
<1> QED BY <1>1, <1>2, <1>3

\* The membership test of a row with exact counters is the ready set.
LEMMA MembershipIsReady ==
  \A n \in Nodes : \A r :
    Counted(n, r) => (Membership(n, r, node, claim) <=> n \in ReadySet)
<1> SUFFICES ASSUME NEW n \in Nodes, NEW r, Counted(n, r)
             PROVE  Membership(n, r, node, claim) <=> n \in ReadySet
  OBVIOUS
<1>1. r.remaining = 0 <=> \A m \in Pred(n) : node[m] = "succeeded"
  <2>1. Cardinality(Missing(n)) = 0 <=> Missing(n) = {}
    BY RowSetsFinite, FS_EmptySet
  <2> QED BY <2>1 DEF Counted, Missing
<1>2. r.unresolved = 0 <=> Unsettled(n) = {}
  BY RowSetsFinite, FS_EmptySet DEF Counted
<1>3. ~r.rejected /\ Unsettled(n) = {} <=> Selected(n)
  <2>1. \A e \in BranchesInto(n) : e.outcome # "none"
    BY DagAssumption DEF ValidDag, BranchesInto
  <2>2. r.rejected <=> Rejected(n)
    BY Zenon DEF Counted
  <2>3. ~Rejected(n) /\ Unsettled(n) = {} <=> Selected(n)
    BY <2>1 DEF Rejected, Unsettled, Selected
  <2> QED BY <2>2, <2>3
<1> QED BY <1>1, <1>2, <1>3 DEF Membership, ReadySet

\* The same of the next state.
LEMMA MembershipIsReadyNext ==
  (\A n \in Nodes : \A r :
    Counted(n, r) => (Membership(n, r, node, claim) <=> n \in ReadySet))'
BY MembershipIsReady, PTL

\* The rows after a transition of the nodes T, whose statuses become nd.
LEMMA RowsCounted ==
  ASSUME TypeOK, ProjectionExact, decided' = decided,
         NEW T \in SUBSET Nodes, NEW nd, NEW cl, node' = nd,
         \A n \in Nodes \ T : nd[n] = node[n],
         NEW n \in Nodes
  PROVE  /\ RowsAfter(T, nd, cl)[n] \in
              [remaining : Nat, unresolved : Nat, rejected : BOOLEAN, ready : BOOLEAN]
         /\ \A t : t = RowsAfter(T, nd, cl)[n] => Counted(n, t)'
<1> DEFINE toggled == {m \in T : (node[m] = "succeeded") # (nd[m] = "succeeded")}
           gained == {m \in toggled \cap Pred(n) : nd[m] = "succeeded"}
           lost == {m \in toggled \cap Pred(n) : nd[m] # "succeeded"}
           r == row[n]
           k == [r EXCEPT !.remaining = @ - Cardinality(gained) + Cardinality(lost)]
           s == RowsAfter(T, nd, cl)[n]
<1>1. /\ r \in [remaining : Nat, unresolved : Nat, rejected : BOOLEAN, ready : BOOLEAN]
      /\ Counted(n, r)
  BY ProjectionParts DEF TypeOK
<1>2. Missing(n)' = (Missing(n) \ gained) \cup lost
  BY DEF Missing, Pred
<1>3. gained \subseteq Missing(n) /\ lost \cap Missing(n) = {} /\ IsFiniteSet(lost)
  <2>1. gained \subseteq Missing(n) /\ lost \cap Missing(n) = {}
    BY DEF Missing
  <2>2. lost \subseteq Pred(n)
    OBVIOUS
  <2> QED BY <2>1, <2>2, RowSetsFinite, FS_Subset
<1>4. /\ Cardinality(Missing(n)') = r.remaining - Cardinality(gained) + Cardinality(lost)
      /\ Cardinality(gained) \in Nat /\ Cardinality(lost) \in Nat
  <2>1. IsFiniteSet(Missing(n))
    BY RowSetsFinite
  <2> HIDE DEF gained, lost, r
  <2>2. PICK A, G, L, B : /\ A = Missing(n) /\ G = gained /\ L = lost
                          /\ B = Missing(n)'
    OBVIOUS
  <2>3. IsFiniteSet(A) /\ G \subseteq A /\ IsFiniteSet(L) /\ L \cap A = {}
    BY <1>3, <2>1, <2>2
  <2>4. B = (A \ G) \cup L
    BY <1>2, <2>2
  <2>5. /\ Cardinality(B) = Cardinality(A) - Cardinality(G) + Cardinality(L)
        /\ Cardinality(G) \in Nat /\ Cardinality(L) \in Nat
    BY ONLY <2>3, <2>4, CountMoves
  <2> QED BY <1>1, <2>2, <2>5 DEF Counted
<1>5. IsFiniteSet(Missing(n)')
  <2>1. Missing(n)' \subseteq Pred(n)
    BY DEF Missing, Pred
  <2> QED BY <2>1, RowSetsFinite, FS_Subset
<1>6. Cardinality(Missing(n)') \in Nat
  BY <1>5, FS_CardinalityType
<1>7. Unsettled(n)' = Unsettled(n) /\ Rejected(n)' = Rejected(n)
  BY DEF Unsettled, Rejected, BranchesInto
<1>8. \/ s = [k EXCEPT !.ready = Membership(n, k, nd, cl)]
      \/ s = r /\ gained = {} /\ lost = {}
  BY DEF RowsAfter, Pred, Succ
<1>9. /\ k.remaining = Cardinality(Missing(n)') /\ k.unresolved = r.unresolved
      /\ k.rejected = r.rejected /\ k.ready = r.ready
      /\ k \in [remaining : Nat, unresolved : Nat, rejected : BOOLEAN, ready : BOOLEAN]
  <2> HIDE DEF gained, lost, r
  <2> QED BY <1>1, <1>4, <1>6
<1>10. Membership(n, k, nd, cl) \in BOOLEAN
  BY DEF Membership
<1>11. /\ s \in [remaining : Nat, unresolved : Nat, rejected : BOOLEAN, ready : BOOLEAN]
       /\ s.remaining = Cardinality(Missing(n)') /\ s.unresolved = r.unresolved
       /\ s.rejected = r.rejected
  <2>1. CASE s = [k EXCEPT !.ready = Membership(n, k, nd, cl)]
    <3> HIDE DEF k, s, r
    <3> QED BY <1>9, <1>10, <2>1
  <2>2. CASE s = r /\ gained = {} /\ lost = {}
    <3>1. Cardinality(gained) = 0 /\ Cardinality(lost) = 0
      BY <2>2, FS_EmptySet
    <3> HIDE DEF s, r, gained, lost
    <3> QED BY <1>1, <1>4, <3>1, <2>2
  <2> QED BY <1>8, <2>1, <2>2
<1>12. ASSUME NEW t, t = s
       PROVE  Counted(n, t)'
  BY <1>1, <1>7, <1>11, <1>12 DEF Counted
<1> QED BY <1>11, <1>12

\* How many rows are ready after some have changed their membership.
LEMMA ReadyCounted ==
  ASSUME TypeOK, ProjectionExact, ready_node_count' = CountAfter(row'),
         \A n \in Nodes : row[n].ready \in BOOLEAN /\ row'[n].ready \in BOOLEAN
  PROVE  (ready_node_count = Cardinality(ReadyRows))'
<1> DEFINE won == {n \in Nodes : row'[n].ready /\ ~row[n].ready}
           gone == {n \in Nodes : row[n].ready /\ ~row'[n].ready}
<1>1. ready_node_count' = ready_node_count + Cardinality(won) - Cardinality(gone)
  BY DEF CountAfter
<1>2. ready_node_count = Cardinality(ReadyRows)
  BY ProjectionParts
<1>3. gone \subseteq ReadyRows /\ won \cap ReadyRows = {}
  BY DEF ReadyRows
<1>4. ReadyRows' = (ReadyRows \ gone) \cup won
  BY DEF ReadyRows, Nodes
<1>5. IsFiniteSet(ReadyRows) /\ IsFiniteSet(won)
  <2>1. ReadyRows \in SUBSET Nodes /\ won \in SUBSET Nodes
    BY DEF ReadyRows
  <2> QED BY <2>1, NodesFinite, FS_Subset
<1> HIDE DEF won, gone
<1>6. PICK A, G, L, B : /\ A = ReadyRows /\ G = gone /\ L = won /\ B = ReadyRows'
  OBVIOUS
<1>7. IsFiniteSet(A) /\ G \subseteq A /\ IsFiniteSet(L) /\ L \cap A = {}
  BY <1>3, <1>5, <1>6
<1>8. B = (A \ G) \cup L
  BY <1>4, <1>6
<1>9. /\ Cardinality(B) = Cardinality(A) - Cardinality(G) + Cardinality(L)
      /\ Cardinality(G) \in Nat /\ Cardinality(L) \in Nat
  BY ONLY <1>7, <1>8, CountMoves
<1>10. Cardinality(A) \in Nat
  BY <1>7, FS_CardinalityType
<1> QED BY <1>1, <1>2, <1>6, <1>9, <1>10

RowType == [remaining : Nat, unresolved : Nat, rejected : BOOLEAN, ready : BOOLEAN]

\* A transition keeps the projection exact.
LEMMA RecordExact ==
  ASSUME TypeOK, ProjectionExact, decided' = decided,
         NEW T \in SUBSET Nodes, NEW nd, NEW cl, NEW g,
         \A n \in Nodes \ T : nd[n] = node[n] /\ cl[n] = claim[n],
         Record(T, nd, cl, g)
  PROVE  /\ ProjectionExact'
         /\ row' \in [Nodes -> RowType]
         /\ ready_node_count' \in Nat
<1>1. /\ node' = nd /\ claim' = cl /\ row' = RowsAfter(T, nd, cl)
      /\ ready_node_count' = CountAfter(row')
  BY Zenon DEF Record
<1>2. ASSUME NEW n \in Nodes
      PROVE  /\ row'[n] \in RowType
             /\ Counted(n, row[n])'
  <2>1. /\ RowsAfter(T, nd, cl)[n] \in RowType
        /\ \A t : t = RowsAfter(T, nd, cl)[n] => Counted(n, t)'
    BY <1>1, RowsCounted DEF RowType
  <2>2. PICK t : t = RowsAfter(T, nd, cl)[n]
    OBVIOUS
  <2>3. Counted(n, t)' /\ row'[n] = t
    BY <1>1, <2>1, <2>2
  <2> QED BY <1>1, <2>1, <2>3, Zenon DEF Counted
<1>3. row' = [n \in Nodes |-> row'[n]]
  BY <1>1 DEF RowsAfter
<1>4. row' \in [Nodes -> RowType]
  <2>1. \A n \in Nodes : row'[n] \in RowType
    BY <1>2
  <2> QED BY <1>3, <2>1
<1>5. ASSUME NEW n \in Nodes
      PROVE  Listed(n)'
  <2> DEFINE toggled == {m \in T : (node[m] = "succeeded") # (nd[m] = "succeeded")}
  <2>1. CASE n \in T \cup UNION {Succ(m) : m \in toggled}
    <3>1. row'[n].ready = Membership(n, row'[n], nd, cl)
      <4> DEFINE gained == {m \in toggled \cap Pred(n) : nd[m] = "succeeded"}
                 lost == {m \in toggled \cap Pred(n) : nd[m] # "succeeded"}
                 k == [row[n] EXCEPT !.remaining = @ - Cardinality(gained) + Cardinality(lost)]
      <4>1. row'[n] = [k EXCEPT !.ready = Membership(n, k, nd, cl)]
        BY <1>1, <2>1 DEF RowsAfter
      <4>2. row[n] \in RowType
        BY DEF TypeOK, RowType
      <4> HIDE DEF gained, lost
      <4>3. DOMAIN k = {"remaining", "unresolved", "rejected", "ready"}
        BY <4>2 DEF RowType
      <4> HIDE DEF k
      <4>4. /\ row'[n].remaining = k.remaining /\ row'[n].unresolved = k.unresolved
            /\ row'[n].rejected = k.rejected
            /\ row'[n].ready = Membership(n, k, nd, cl)
        BY <4>1, <4>3
      <4> QED BY <4>4 DEF Membership
    <3>2. (Membership(n, row[n], node, claim) <=> n \in ReadySet)'
      <4>1. PICK t : t = row'[n]
        OBVIOUS
      <4>2. Counted(n, t)'
        BY <1>2, <4>1, Zenon DEF Counted
      <4>3. Membership(n, t, node', claim') <=> n \in ReadySet'
        BY <4>2, MembershipIsReadyNext DEF Nodes
      <4> QED BY <4>1, <4>3
    <3>3. row'[n].ready \in BOOLEAN
      BY <1>2 DEF RowType
    <3> QED BY <1>1, <3>1, <3>2, <3>3, Zenon DEF Listed
  <2>2. CASE n \notin T \cup UNION {Succ(m) : m \in toggled}
    <3>1. row'[n] = row[n] /\ node'[n] = node[n] /\ claim'[n] = claim[n]
      BY <1>1, <2>2 DEF RowsAfter
    <3>2. \A m \in Pred(n) : node'[m] = "succeeded" <=> node[m] = "succeeded"
      BY <1>1, <2>2 DEF Pred, Succ
    <3>3. Selected(n)' <=> Selected(n)
      BY DEF Selected, BranchesInto
    <3>4. (n \in ReadySet)' <=> n \in ReadySet
      BY <3>1, <3>2, <3>3 DEF ReadySet, Nodes, Pred
    <3>5. Listed(n)
      BY ProjectionParts
    <3> QED BY <3>1, <3>4, <3>5, Zenon DEF Listed
  <2> QED BY <2>1, <2>2
<1>6. (ready_node_count = Cardinality(ReadyRows))'
  <2>1. \A n \in Nodes : row[n].ready \in BOOLEAN /\ row'[n].ready \in BOOLEAN
    BY <1>4 DEF TypeOK, RowType
  <2> QED BY <1>1, <2>1, ReadyCounted
<1>7. ready_node_count' \in Nat
  <2>1. ReadyRows' \subseteq Nodes
    BY DEF ReadyRows, Nodes
  <2> QED BY <1>6, <2>1, NodesFinite, FS_Subset, FS_CardinalityType
<1>8. ProjectionExact'
  <2>1. (\A n \in Nodes : Counted(n, row[n]))'
    BY <1>2 DEF Nodes
  <2>2. (\A n \in Nodes : Listed(n))'
    BY <1>5 DEF Nodes
  <2> QED BY <1>6, <2>1, <2>2, ProjectionPartsNext
<1> QED BY <1>4, <1>7, <1>8

\* Steps that leave nodes, decisions and rows alone, even if claims lapse.
LEMMA LapseExact ==
  ASSUME TypeOK, ProjectionExact, UNCHANGED <<node, decided, row, ready_node_count>>,
         \A n \in Nodes : \/ claim'[n] = claim[n]
                          \/ claim[n] = "held" /\ claim'[n] = "lapsed"
  PROVE  ProjectionExact'
<1>1. ASSUME NEW n \in Nodes
      PROVE  Counted(n, row[n])'
  <2>1. Counted(n, row[n])
    BY ProjectionParts
  <2> QED BY <2>1 DEF Counted, Missing, Unsettled, Rejected, Pred, BranchesInto
<1>2. ASSUME NEW n \in Nodes
      PROVE  Listed(n)'
  <2>1. Listed(n)
    BY ProjectionParts
  <2>2. claim'[n] = claim[n] \/ (claim[n] = "held" /\ claim'[n] = "lapsed")
    OBVIOUS
  <2>3. (n \in ReadySet)' <=> /\ node[n] \in {"pending", "active"} /\ claim'[n] # "held"
                              /\ \A m \in Pred(n) : node[m] = "succeeded"
                              /\ Selected(n)
    BY DEF ReadySet, Nodes, Pred, Selected, BranchesInto
  <2>4. n \in ReadySet <=> /\ node[n] \in {"pending", "active"} /\ claim[n] # "held"
                           /\ \A m \in Pred(n) : node[m] = "succeeded"
                           /\ Selected(n)
    BY DEF ReadySet
  <2> QED BY <2>1, <2>2, <2>3, <2>4 DEF Listed
<1>3. (ready_node_count = Cardinality(ReadyRows))'
  BY ProjectionParts DEF ReadyRows, Nodes
<1>4. (\A n \in Nodes : Counted(n, row[n]))' /\ (\A n \in Nodes : Listed(n))'
  BY <1>1, <1>2 DEF Nodes
<1> QED BY <1>3, <1>4, ProjectionPartsNext

\* The page and the rows that join it are ready.
LEMMA PageIsReady ==
  ASSUME TypeOK, ProjectionExact
  PROVE  Expired \subseteq ReadySet /\ Page \subseteq ReadySet
<1>1. \A n \in Nodes : Counted(n, row[n]) /\ Listed(n)
  BY ProjectionParts
<1>2. Expired \subseteq ReadySet
  BY <1>1, MembershipIsReady DEF Expired
<1>3. Page \subseteq ReadySet
  BY <1>1, <1>2 DEF Page, Listed
<1> QED BY <1>2, <1>3

\* Reconciling the rows of expired claims keeps the projection exact.
LEMMA CheckpointExact ==
  ASSUME TypeOK, ProjectionExact, checkpoint_effect_dag_ready_set
  PROVE  /\ ProjectionExact'
         /\ row' \in [Nodes -> RowType]
         /\ ready_node_count' \in Nat
<1>1. /\ row' = [n \in Nodes |-> IF n \in Expired THEN [row[n] EXCEPT !.ready = TRUE]
                                 ELSE row[n]]
      /\ ready_node_count' = ready_node_count + Cardinality(Expired)
      /\ UNCHANGED <<node, claim, decided>>
  BY DEF checkpoint_effect_dag_ready_set
<1>2. row \in [Nodes -> RowType]
  BY DEF TypeOK, RowType
<1>3. row' \in [Nodes -> RowType]
  BY <1>1, <1>2 DEF RowType
<1>4. ASSUME NEW n \in Nodes
      PROVE  /\ row'[n].remaining = row[n].remaining
             /\ row'[n].unresolved = row[n].unresolved
             /\ row'[n].rejected = row[n].rejected
             /\ row'[n].ready <=> row[n].ready \/ n \in Expired
  BY <1>1, <1>2 DEF RowType
<1>5. ASSUME NEW n \in Nodes
      PROVE  Counted(n, row[n])' /\ Listed(n)'
  <2>1. Counted(n, row[n]) /\ Listed(n)
    BY ProjectionParts
  <2>2. Counted(n, row[n])'
    BY <1>1, <1>4, <2>1 DEF Counted, Missing, Unsettled, Rejected, Pred, BranchesInto
  <2>3. (n \in ReadySet)' <=> n \in ReadySet
    BY <1>1 DEF ReadySet, Nodes, Pred, Selected, BranchesInto
  <2>4. n \in Expired => n \in ReadySet
    BY PageIsReady
  <2> QED BY <1>1, <1>4, <2>1, <2>2, <2>3, <2>4 DEF Listed
<1>6. (ready_node_count = Cardinality(ReadyRows))' /\ ready_node_count' \in Nat
  <2>1. PICK A, G, L, B : A = ReadyRows /\ G = {} /\ L = Expired /\ B = ReadyRows'
    OBVIOUS
  <2>2. B = (A \ G) \cup L
    BY <1>4, <2>1 DEF ReadyRows, Nodes, Expired
  <2>3. A \in SUBSET Nodes /\ L \in SUBSET Nodes
    BY <2>1 DEF ReadyRows, Expired
  <2>4. IsFiniteSet(A) /\ G \subseteq A /\ IsFiniteSet(L) /\ L \cap A = {}
    BY <2>1, <2>3, NodesFinite, FS_Subset DEF ReadyRows, Expired
  <2>5. /\ Cardinality(B) = Cardinality(A) - Cardinality(G) + Cardinality(L)
        /\ Cardinality(G) \in Nat /\ Cardinality(L) \in Nat
    BY ONLY <2>2, <2>4, CountMoves
  <2>6. Cardinality(G) = 0 /\ Cardinality(A) \in Nat
    BY <2>1, <2>4, FS_EmptySet, FS_CardinalityType
  <2>7. ready_node_count = Cardinality(A)
    BY <2>1, ProjectionParts
  <2> QED BY <1>1, <2>1, <2>5, <2>6, <2>7
<1>7. (\A n \in Nodes : Counted(n, row[n]))' /\ (\A n \in Nodes : Listed(n))'
  BY <1>5 DEF Nodes
<1> QED BY <1>3, <1>6, <1>7, ProjectionPartsNext

\* A branch decision is counted at the rows of its edges.
LEMMA DecisionExact ==
  ASSUME TypeOK, ProjectionExact, NEW d \in Decisions, NEW o \in Outcomes(d),
         record_effect_dag_branch_decision(d, o)
  PROVE  /\ ProjectionExact'
         /\ row' \in [Nodes -> RowType]
         /\ ready_node_count' \in Nat
<1> DEFINE own(n) == {e \in BranchesInto(n) : <<e.from, e.key>> = d}
           r(n) == [row[n] EXCEPT
                      !.unresolved = @ - Cardinality(own(n)),
                      !.rejected = @ \/ \E e \in own(n) : e.outcome # o]
<1>1. /\ row' = [n \in Nodes |->
                   IF own(n) = {} THEN row[n]
                   ELSE [r(n) EXCEPT !.ready = Membership(n, r(n), node, claim)]]
      /\ ready_node_count' = CountAfter(row')
      /\ decided' = [decided EXCEPT ![d] = o]
      /\ UNCHANGED <<node, claim>>
  BY DEF record_effect_dag_branch_decision
<1>2. decided[d] = "none" /\ o # "none"
  <2>1. \A e \in Conditional : e.outcome # "none"
    BY DagAssumption DEF ValidDag
  <2> QED BY <2>1 DEF record_effect_dag_branch_decision, Undecided, Outcomes
<1>3. \A x \in Decisions : decided'[x] = IF x = d THEN o ELSE decided[x]
  BY <1>1 DEF TypeOK
<1>4. row \in [Nodes -> RowType]
  BY DEF TypeOK, RowType
<1>5. ASSUME NEW n \in Nodes
      PROVE  /\ Missing(n)' = Missing(n)
             /\ Unsettled(n)' = Unsettled(n) \ own(n) /\ own(n) \subseteq Unsettled(n)
             /\ Rejected(n)' <=> Rejected(n) \/ \E e \in own(n) : e.outcome # o
  <2>1. \A e \in BranchesInto(n) : <<e.from, e.key>> \in Decisions
    BY DEF BranchesInto, Decisions
  <2>2. Missing(n)' = Missing(n)
    BY <1>1 DEF Missing, Pred
  <2>3. Unsettled(n)' = Unsettled(n) \ own(n) /\ own(n) \subseteq Unsettled(n)
    BY <1>2, <1>3, <2>1 DEF Unsettled, BranchesInto
  <2>4. Rejected(n)' <=> \E e \in BranchesInto(n) : decided'[<<e.from, e.key>>] \notin {"none", e.outcome}
    BY DEF Rejected, BranchesInto
  <2>5. Rejected(n)' <=> Rejected(n) \/ \E e \in own(n) : e.outcome # o
    BY <1>2, <1>3, <2>1, <2>4 DEF Rejected
  <2> QED BY <2>2, <2>3, <2>5
<1>6. ASSUME NEW n \in Nodes
      PROVE  /\ row'[n] \in RowType
             /\ row'[n].remaining = row[n].remaining
             /\ row'[n].unresolved = Cardinality(Unsettled(n)')
             /\ row'[n].rejected <=> row[n].rejected \/ \E e \in own(n) : e.outcome # o
             /\ IF own(n) = {} THEN row'[n] = row[n]
                ELSE row'[n].ready = Membership(n, row'[n], node, claim)
  <2>1. Counted(n, row[n])
    BY ProjectionParts
  <2>2. /\ Cardinality(Unsettled(n)') = row[n].unresolved - Cardinality(own(n))
        /\ Cardinality(Unsettled(n)') \in Nat
    <3>1. PICK A, G, L, B : A = Unsettled(n) /\ G = own(n) /\ L = {} /\ B = Unsettled(n)'
      OBVIOUS
    <3>2. B = (A \ G) \cup L
      BY <1>5, <3>1
    <3>3. IsFiniteSet(A) /\ G \subseteq A /\ IsFiniteSet(L) /\ L \cap A = {}
      BY <1>5, <3>1, RowSetsFinite, FS_EmptySet
    <3>4. /\ Cardinality(B) = Cardinality(A) - Cardinality(G) + Cardinality(L)
          /\ Cardinality(G) \in Nat /\ Cardinality(L) \in Nat
      BY ONLY <3>2, <3>3, CountMoves
    <3>5. Cardinality(L) = 0 /\ Cardinality(A) \in Nat
      BY <3>1, <3>3, FS_EmptySet, FS_CardinalityType
    <3>6. Cardinality(B) \in Nat
      <4>1. B \in SUBSET A
        BY <3>1, <3>2
      <4>2. IsFiniteSet(B)
        BY <4>1, <3>3, FS_Subset
      <4> QED BY <4>2, FS_CardinalityType
    <3> QED BY <2>1, <3>1, <3>4, <3>5, <3>6 DEF Counted
  <2>3. row[n] \in RowType
    BY <1>4
  <2>4. CASE own(n) = {}
    <3>1. row'[n] = row[n]
      BY <1>1, <2>4
    <3>2. Cardinality(own(n)) = 0
      BY <2>4, FS_EmptySet
    <3>3. row[n].unresolved \in Nat /\ Cardinality(own(n)) = 0
      BY <2>3, <3>2 DEF RowType
    <3>4. Cardinality(Unsettled(n)') = row[n].unresolved
      BY <2>2, <3>3
    <3> QED BY <2>3, <2>4, <3>1, <3>4
  <2>5. CASE own(n) # {}
    <3> DEFINE c == row[n].unresolved - Cardinality(own(n))
               b == row[n].rejected \/ \E e \in own(n) : e.outcome # o
               m == Membership(n, r(n), node, claim)
    <3>1. row'[n] = [r(n) EXCEPT !.ready = m]
      BY <1>1, <2>5
    <3>2. r(n) = [row[n] EXCEPT !.unresolved = c, !.rejected = b]
      BY <2>3 DEF RowType
    <3>3. c \in Nat /\ c = Cardinality(Unsettled(n)')
      BY <2>2
    <3>4. b \in BOOLEAN /\ m \in BOOLEAN
      BY <2>3 DEF Membership, RowType
    <3> HIDE DEF c, b, m
    <3>5. /\ r(n) \in RowType
          /\ r(n).remaining = row[n].remaining /\ r(n).unresolved = c /\ r(n).rejected = b
      BY <2>3, <3>2, <3>3, <3>4 DEF RowType
    <3> HIDE DEF r
    <3>6. /\ row'[n] \in RowType
          /\ row'[n].remaining = row[n].remaining /\ row'[n].unresolved = c
          /\ row'[n].rejected = b /\ row'[n].ready = m
          /\ row'[n].rejected = r(n).rejected
          /\ row'[n].remaining = r(n).remaining /\ row'[n].unresolved = r(n).unresolved
      BY <3>1, <3>4, <3>5 DEF RowType
    <3>7. Membership(n, row'[n], node, claim) = m
      BY <3>6 DEF Membership, m
    <3> QED BY <2>5, <3>3, <3>6, <3>7 DEF b
  <2> QED BY <2>4, <2>5
<1>7. row' \in [Nodes -> RowType]
  BY <1>1, <1>6
<1>8. ASSUME NEW n \in Nodes
      PROVE  Counted(n, row[n])'
  <2>1. Counted(n, row[n]) /\ row[n].rejected \in BOOLEAN
    BY ProjectionParts, <1>4 DEF RowType
  <2>2. row'[n].rejected \in BOOLEAN
    BY <1>6 DEF RowType
  <2>3. row'[n].rejected = Rejected(n)'
    <3>1. Rejected(n)' \in BOOLEAN /\ Rejected(n) = row[n].rejected
      BY <2>1 DEF Rejected, Counted
    <3> QED BY <1>5, <1>6, <2>2, <3>1, Zenon
  <2>4. row'[n].remaining = Cardinality(Missing(n)')
    BY <1>5, <1>6, <2>1 DEF Counted
  <2> QED BY <1>6, <2>3, <2>4 DEF Counted
<1>9. ASSUME NEW n \in Nodes
      PROVE  Listed(n)'
  <2>1. CASE own(n) = {}
    <3>1. row'[n] = row[n] /\ node'[n] = node[n] /\ claim'[n] = claim[n]
      BY <1>1, <2>1
    <3>2. Selected(n)' <=> Selected(n)
      <4>1. \A e \in BranchesInto(n) : <<e.from, e.key>> \in Decisions \ {d}
        BY <2>1 DEF BranchesInto, Decisions
      <4> QED BY <1>3, <4>1 DEF Selected, BranchesInto
    <3>3. (n \in ReadySet)' <=> n \in ReadySet
      BY <1>1, <3>2 DEF ReadySet, Nodes, Pred
    <3>4. Listed(n)
      BY ProjectionParts
    <3> QED BY <3>1, <3>3, <3>4 DEF Listed
  <2>2. CASE own(n) # {}
    <3>1. row'[n].ready = Membership(n, row'[n], node, claim)
      BY <1>6, <2>2
    <3>2. PICK t : t = row'[n]
      OBVIOUS
    <3>3. Counted(n, t)'
      BY <1>8, <3>2, Zenon DEF Counted
    <3>4. Membership(n, t, node', claim') <=> n \in ReadySet'
      BY <3>3, MembershipIsReadyNext DEF Nodes
    <3>5. row'[n].ready <=> n \in ReadySet'
      BY <1>1, <3>1, <3>2, <3>4
    <3> QED BY <3>5 DEF Listed
  <2> QED BY <2>1, <2>2
<1>10. (ready_node_count = Cardinality(ReadyRows))'
  <2>1. \A n \in Nodes : row[n].ready \in BOOLEAN /\ row'[n].ready \in BOOLEAN
    BY <1>4, <1>7 DEF RowType
  <2> QED BY <1>1, <2>1, ReadyCounted
<1>11. ready_node_count' \in Nat
  <2>1. ReadyRows' \subseteq Nodes
    BY DEF ReadyRows, Nodes
  <2> QED BY <1>10, <2>1, NodesFinite, FS_Subset, FS_CardinalityType
<1>12. (\A n \in Nodes : Counted(n, row[n]))' /\ (\A n \in Nodes : Listed(n))'
  BY <1>8, <1>9 DEF Nodes
<1> QED BY <1>7, <1>10, <1>11, <1>12, ProjectionPartsNext

------------------------------------------------------------------------------
(* The waves of the compensation plan.                                      *)

\* A set of nodes has one without a successor in it: the edges have no cycle.
LEMMA LastNode ==
  ASSUME NEW S \in SUBSET Nodes, S # {}
  PROVE  \E n \in S : Succ(n) \cap S = {}
<1> DEFINE F == {X \in SUBSET Nodes : X # {} /\ \A n \in X : Succ(n) \cap X # {}}
<1>1. CASE F # {}
  <2>1. F \subseteq SUBSET Nodes
    OBVIOUS
  <2>2. IsFiniteSet(Nodes)
    BY NodesFinite
  <2> HIDE DEF F
  <2>3. \E X \in F : \A Y \in F : Y \subseteq X => Y = X
    BY ONLY <1>1, <2>1, <2>2, SmallestSet
  <2>4. PICK X \in F : \A Y \in F : Y \subseteq X => Y = X
    BY <2>3
  <2>5. X \in SUBSET Nodes /\ X # {} /\ \A n \in X : Succ(n) \cap X # {}
    BY DEF F
  <2>6. PICK n \in X : Pred(n) \cap X = {}
    BY <2>5, DagAssumption DEF ValidDag
  <2>7. ASSUME NEW m \in X \ {n}
        PROVE  Succ(m) \cap (X \ {n}) # {}
    BY <2>5, <2>6 DEF Succ, Pred
  <2>8. X \ {n} # {}
    BY <2>5, <2>6 DEF Succ, Pred
  <2>9. X \ {n} \in F
    BY <2>5, <2>7, <2>8 DEF F
  <2> QED BY <2>4, <2>9
<1>2. CASE F = {}
  BY <1>2
<1> QED BY <1>1, <1>2

\* One round of the loop.
Round(S) == S \cup {n \in Applied : Succ(n) \cap Applied \subseteq S}

\* The loop of the plan is well defined.
LEMMA RoundsExist ==
  ASSUME NEW k \in Nat
  PROVE  \E f : f = [i \in 0..k |-> IF i = 0 THEN {} ELSE Round(f[i - 1])]
<1> DEFINE Rounds(f, j) == f = [i \in 0..j |-> IF i = 0 THEN {} ELSE Round(f[i - 1])]
           Bad == {j \in Nat : ~ \E f : Rounds(f, j)}
<1>1. CASE Bad # {}
  <2>1. PICK j \in Bad : \A i \in Bad : j <= i
    BY <1>1, LeastNat
  <2>2. CASE j = 0
    <3>1. [i \in 0..0 |-> {}] = [i \in 0..0 |-> IF i = 0 THEN {}
                                              ELSE Round([x \in 0..0 |-> {}][i - 1])]
      OBVIOUS
    <3>2. Rounds([i \in 0..0 |-> {}], j)
      BY <2>2, <3>1
    <3> QED BY <3>2
  <2>3. CASE j # 0
    <3>1. j \in Nat /\ j - 1 \in Nat /\ j - 1 \notin Bad
      <4>1. j \in Nat
        BY DEF Bad
      <4> HIDE DEF Bad
      <4> QED BY <2>1, <2>3, <4>1
    <3>2. PICK f : Rounds(f, j - 1)
      BY <3>1
    <3> DEFINE g == [i \in 0..j |-> IF i = j THEN Round(f[j - 1]) ELSE f[i]]
    <3>3. \A i \in 0..(j - 1) : f[i] = IF i = 0 THEN {} ELSE Round(f[i - 1])
      BY <3>2
    <3>4. \A i \in 0..j : g[i] = IF i = 0 THEN {} ELSE Round(g[i - 1])
      <4> HIDE DEF Rounds
      <4>1. ASSUME NEW i \in 0..j
            PROVE  g[i] = IF i = 0 THEN {} ELSE Round(g[i - 1])
        <5>1. CASE i = j
          <6>1. g[i] = Round(f[i - 1]) /\ i # 0 /\ i - 1 \in 0..j /\ i - 1 # j
            BY <3>1, <5>1, <2>3
          <6>2. g[i - 1] = f[i - 1]
            BY <6>1
          <6> QED BY <6>1, <6>2
        <5>2. CASE i # j /\ i # 0
          <6>1. i \in 0..(j - 1) /\ i - 1 \in 0..j /\ i - 1 # j
            BY <3>1, <5>2
          <6>2. g[i] = f[i] /\ g[i - 1] = f[i - 1]
            BY <5>2, <6>1
          <6> QED BY <3>3, <5>2, <6>1, <6>2
        <5>3. CASE i = 0
          BY <3>1, <3>3, <5>3, <2>3
        <5> QED BY <5>1, <5>2, <5>3
      <4> QED BY <4>1
    <3>5. Rounds(g, j)
      <4>1. g = [i \in 0..j |-> g[i]]
        OBVIOUS
      <4> HIDE DEF g
      <4> QED BY <3>4, <4>1
    <3> QED BY <3>5
  <2> QED BY <2>2, <2>3
<1>2. CASE Bad = {}
  BY <1>2
<1> QED BY <1>1, <1>2

\* Every round of the compensation plan is taken from the one before it.
LEMMA TakenRounds ==
  /\ Taken[0] = {}
  /\ \A i \in 1..NodeCount : Taken[i] = Round(Taken[i - 1])
<1>1. NodeCount \in Nat
  BY DagAssumption DEF ValidDag
<1>2. \E f : f = [i \in 0..NodeCount |-> IF i = 0 THEN {} ELSE Round(f[i - 1])]
  BY <1>1, RoundsExist
<1>3. Taken = CHOOSE f : f = [i \in 0..NodeCount |-> IF i = 0 THEN {} ELSE Round(f[i - 1])]
  BY Zenon DEF Taken, Round
<1>4. Taken = [i \in 0..NodeCount |-> IF i = 0 THEN {} ELSE Round(Taken[i - 1])]
  BY <1>2, <1>3, Zenon
<1>5. ASSUME NEW i \in 0..NodeCount
      PROVE  Taken[i] = IF i = 0 THEN {} ELSE Round(Taken[i - 1])
  <2>1. \A f : f = [x \in 0..NodeCount |-> IF x = 0 THEN {} ELSE Round(Taken[x - 1])]
               => f[i] = IF i = 0 THEN {} ELSE Round(Taken[i - 1])
    OBVIOUS
  <2> QED BY <1>4, <2>1, Zenon
<1> QED BY <1>1, <1>5

\* The plan takes back applied nodes only.
LEMMA TakenApplied ==
  \A i \in 0..NodeCount : Taken[i] \subseteq Applied
<1> DEFINE Bad == {i \in Nat : i <= NodeCount /\ ~(Taken[i] \subseteq Applied)}
<1>1. CASE Bad # {}
  <2>1. Bad \subseteq Nat /\ \A i \in Bad : i <= NodeCount /\ ~(Taken[i] \subseteq Applied)
    OBVIOUS
  <2>2. \A i \in Nat : i <= NodeCount /\ ~(Taken[i] \subseteq Applied) => i \in Bad
    OBVIOUS
  <2> HIDE DEF Bad
  <2>3. PICK i \in Bad : \A j \in Bad : i <= j
    BY <1>1, <2>1, LeastNat
  <2>4. i \in 1..NodeCount
    BY <2>1, TakenRounds, DagAssumption DEF ValidDag
  <2>5. Taken[i - 1] \subseteq Applied
    BY <2>2, <2>3, <2>4, DagAssumption DEF ValidDag
  <2>6. Round(Taken[i - 1]) \subseteq Applied
    BY <2>5 DEF Round
  <2> QED BY <2>1, <2>4, <2>6, TakenRounds
<1>2. CASE Bad = {}
  BY <1>2, DagAssumption DEF ValidDag
<1> QED BY <1>1, <1>2

\* A later round has taken everything an earlier one has.
LEMMA TakenGrows ==
  ASSUME NEW i \in 0..NodeCount, NEW j \in i..NodeCount
  PROVE  Taken[i] \subseteq Taken[j]
<1> DEFINE Bad == {k \in Nat : k \in i..NodeCount /\ ~(Taken[i] \subseteq Taken[k])}
<1>1. CASE Bad # {}
  <2>1. Bad \subseteq Nat /\ \A k \in Bad : k \in i..NodeCount /\ ~(Taken[i] \subseteq Taken[k])
    OBVIOUS
  <2>2. \A k \in Nat : k \in i..NodeCount /\ ~(Taken[i] \subseteq Taken[k]) => k \in Bad
    OBVIOUS
  <2> HIDE DEF Bad
  <2>3. PICK k \in Bad : \A l \in Bad : k <= l
    BY <1>1, <2>1, LeastNat
  <2>4. k \in 1..NodeCount /\ k # i
    BY <2>1, DagAssumption DEF ValidDag
  <2>5. k - 1 \in Nat /\ k - 1 \in i..NodeCount /\ k - 1 \notin Bad
    BY <2>1, <2>3, <2>4, DagAssumption DEF ValidDag
  <2>6. Taken[i] \subseteq Taken[k - 1]
    BY <2>2, <2>5
  <2>7. Taken[k - 1] \subseteq Taken[k]
    BY <2>4, TakenRounds DEF Round
  <2> QED BY <2>1, <2>6, <2>7
<1>2. CASE Bad = {}
  BY <1>2, DagAssumption DEF ValidDag
<1> QED BY <1>1, <1>2

\* Every round takes a node while there is one, so the loop takes them all.
LEMMA TakenAll == Taken[NodeCount] = Applied
<1>1. NodeCount \in Nat
  BY DagAssumption DEF ValidDag
<1>2. \A i \in 0..NodeCount : IsFiniteSet(Taken[i]) /\ Cardinality(Taken[i]) \in Nat
  <2>1. \A i \in 0..NodeCount : Taken[i] \in SUBSET Nodes
    BY TakenApplied DEF Applied
  <2> QED BY <2>1, NodesFinite, FS_Subset, FS_CardinalityType
<1> DEFINE Bad == {i \in Nat : /\ i <= NodeCount /\ Taken[i] # Applied
                               /\ Cardinality(Taken[i]) < i}
<1>3. CASE Bad # {}
  <2>1. Bad \subseteq Nat /\ \A i \in Bad : /\ i <= NodeCount /\ Taken[i] # Applied
                                            /\ Cardinality(Taken[i]) < i
    OBVIOUS
  <2>2. \A i \in Nat : (i <= NodeCount /\ Taken[i] # Applied /\ Cardinality(Taken[i]) < i)
                       => i \in Bad
    OBVIOUS
  <2> HIDE DEF Bad
  <2>3. PICK i \in Bad : \A j \in Bad : i <= j
    BY <1>3, <2>1, LeastNat
  <2>4. i \in 1..NodeCount /\ i - 1 \in 0..NodeCount /\ i \in 0..NodeCount
    <3>1. i \in Nat /\ i <= NodeCount /\ Cardinality(Taken[i]) < i
      BY <2>1
    <3>2. i # 0
      BY <1>1, <1>2, <3>1
    <3> QED BY <1>1, <3>1, <3>2
  <2>5. Taken[i] = Round(Taken[i - 1]) /\ Taken[i] \subseteq Applied /\ Taken[i - 1] \subseteq Applied
    BY <2>4, TakenRounds, TakenApplied
  <2>6. Taken[i - 1] # Applied
    BY <2>1, <2>5 DEF Round
  <2>7. PICK n \in Applied \ Taken[i - 1] : Succ(n) \cap (Applied \ Taken[i - 1]) = {}
    <3>1. Applied \ Taken[i - 1] \in SUBSET Nodes /\ Applied \ Taken[i - 1] # {}
      BY <2>5, <2>6 DEF Applied
    <3> QED BY <3>1, LastNode
  <2>8. Taken[i - 1] \cup {n} \subseteq Taken[i] /\ n \notin Taken[i - 1]
    BY <2>5, <2>7 DEF Round
  <2>9. Cardinality(Taken[i - 1]) + 1 <= Cardinality(Taken[i])
    <3>1. /\ IsFiniteSet(Taken[i - 1] \cup {n})
          /\ Cardinality(Taken[i - 1] \cup {n}) = Cardinality(Taken[i - 1]) + 1
      BY <1>2, <2>4, <2>8, FS_AddElement
    <3>2. PICK A, B : A = Taken[i - 1] \cup {n} /\ B = Taken[i]
      OBVIOUS
    <3>3. A \in SUBSET B /\ IsFiniteSet(B)
      BY <1>2, <2>4, <2>8, <3>2
    <3>4. Cardinality(A) <= Cardinality(B)
      BY <3>3, FS_Subset
    <3> QED BY <3>1, <3>2, <3>4
  <2>10. i - 1 \notin Bad
    BY <2>1, <2>3, <2>4
  <2>11. i - 1 <= Cardinality(Taken[i - 1])
    BY <1>1, <1>2, <2>2, <2>4, <2>6, <2>10
  <2> QED BY <1>2, <2>1, <2>4, <2>9, <2>11
<1>4. CASE Bad = {}
  <2>1. Taken[NodeCount] = Applied \/ NodeCount <= Cardinality(Taken[NodeCount])
    BY <1>1, <1>2, <1>4
  <2>2. CASE NodeCount <= Cardinality(Taken[NodeCount])
    <3>1. Taken[NodeCount] \in SUBSET Nodes /\ Taken[NodeCount] \subseteq Applied /\ Applied \subseteq Nodes
      BY <1>1, TakenApplied DEF Applied
    <3>2. Cardinality(Nodes) = NodeCount
      BY <1>1, FS_Interval, DagAssumption DEF Nodes, ValidDag
    <3>3. PICK A : A = Taken[NodeCount]
      OBVIOUS
    <3>4. Cardinality(A) <= Cardinality(Nodes) /\ (Cardinality(A) = Cardinality(Nodes) => A = Nodes)
      BY <3>1, <3>3, NodesFinite, FS_Subset
    <3>5. Cardinality(A) \in Nat
      BY <1>1, <1>2, <3>3
    <3> QED BY <1>1, <2>2, <3>1, <3>2, <3>3, <3>4, <3>5
  <2> QED BY <2>1, <2>2
<1> QED BY <1>3, <1>4

\* The plan: its waves hold the applied nodes, a later node in an earlier wave.
LEMMA WavesFit ==
  /\ Waves \in Seq(SUBSET Nodes)
  /\ \A n \in Nodes : n \in Applied <=> \E i \in 1..Len(Waves) : n \in Waves[i]
  /\ \A i, j \in 1..Len(Waves) : \A n \in Waves[j] : \A m \in Succ(n) \cap Waves[i] : i < j
<1> DEFINE Done == {k \in 0..NodeCount : Taken[k] = Applied}
           K == Min(Done)
<1>1. NodeCount \in Nat
  BY DagAssumption DEF ValidDag
<1>2. K \in 0..NodeCount /\ Taken[K] = Applied
  <2>1. Done \subseteq Nat /\ Done # {}
    BY <1>1, TakenAll
  <2>2. Min(Done) \in Done
    BY <2>1, MinOfNats
  <2> QED BY <2>2
<1>3. Waves = [i \in 1..K |-> Taken[i] \ Taken[i - 1]]
  BY DEF Waves
<1> HIDE DEF K, Done
<1>4. \A i \in 1..K : /\ i \in 0..NodeCount /\ i - 1 \in 0..NodeCount
                      /\ Waves[i] = Taken[i] \ Taken[i - 1]
                      /\ Taken[i] \subseteq Applied
                      /\ Taken[i] = Round(Taken[i - 1])
  BY <1>1, <1>2, <1>3, TakenApplied, TakenRounds
<1>5. Waves \in Seq(SUBSET Nodes) /\ Len(Waves) = K
  <2>1. \A i \in 1..K : Waves[i] \in SUBSET Nodes
    BY <1>4 DEF Applied
  <2>2. Waves \in [1..K -> SUBSET Nodes]
    BY <1>3, <2>1
  <2>3. K \in Nat
    BY <1>2
  <2> QED BY <2>2, <2>3
<1>6. ASSUME NEW n \in Applied
      PROVE  \E i \in 1..K : n \in Waves[i]
  <2> DEFINE In == {i \in Nat : i <= K /\ n \in Taken[i]}
  <2>1. In \subseteq Nat /\ In # {}
    BY <1>2
  <2>2. \A i \in Nat : i \in In <=> i <= K /\ n \in Taken[i]
    OBVIOUS
  <2> HIDE DEF In
  <2>3. PICK i \in In : \A j \in In : i <= j
    BY <2>1, LeastNat
  <2>4. i \in Nat /\ i <= K /\ n \in Taken[i]
    BY <2>1, <2>2, <2>3
  <2>5. i # 0
    BY <2>4, TakenRounds
  <2>6. i - 1 \in Nat /\ i - 1 \notin In
    BY <2>1, <2>3, <2>4, <2>5
  <2>7. n \notin Taken[i - 1]
    BY <1>2, <2>2, <2>4, <2>6
  <2>8. i \in 1..K
    BY <1>2, <2>4, <2>5
  <2> QED BY <1>4, <2>4, <2>7, <2>8
<1>7. ASSUME NEW i \in 1..K, NEW n \in Waves[i]
      PROVE  n \in Applied
  BY <1>4
<1>8. ASSUME NEW i \in 1..K, NEW j \in 1..K, NEW n \in Waves[j],
             NEW m \in Succ(n) \cap Waves[i]
      PROVE  i < j
  <2>1. m \in Taken[j - 1]
    <3>1. n \in Taken[j] \ Taken[j - 1] /\ m \in Applied
      BY <1>4
    <3> QED BY <1>4, <3>1 DEF Round
  <2>2. m \notin Taken[i - 1]
    BY <1>4
  <2>3. CASE j <= i
    <3>1. i - 1 \in (j - 1)..NodeCount /\ j - 1 \in 0..NodeCount
      BY <1>1, <1>4, <2>3
    <3>2. Taken[j - 1] \subseteq Taken[i - 1]
      BY <3>1, TakenGrows
    <3> QED BY <2>1, <2>2, <3>2
  <2> QED BY <1>1, <1>2, <2>3
<1>9. \A n \in Nodes : n \in Applied <=> \E i \in 1..K : n \in Waves[i]
  BY <1>6, <1>7
<1> QED BY <1>5, <1>8, <1>9

------------------------------------------------------------------------------
(* The tables: what each kind of step leaves true.                          *)

TypeTables ==
  /\ graph \in GraphStatus /\ cancel \in BOOLEAN
  /\ node \in [Nodes -> NodeStatus]
  /\ claim \in [Nodes -> {"none", "held", "lapsed"}]
  /\ attempt \in [Kinds \X Nodes -> AttemptStatus]
  /\ grant \in [Kinds \X Nodes -> GrantStatus]
  /\ decided \in [Decisions -> {"none"} \cup {e.outcome : e \in Conditional}]
  /\ row \in [Nodes -> RowType]
  /\ ready_node_count \in Nat
  /\ plan \in Seq(SUBSET Nodes)

TypeDriver ==
  /\ task \in {"running", "waiting", "reconciling", "ended"}
  /\ at \in Phase /\ batch \subseteq Nodes /\ todo \subseteq Nodes
  /\ asking \in BOOLEAN /\ held \in BOOLEAN /\ denied \in BOOLEAN
  /\ wave \in Nat \ {0} /\ stop \in BOOLEAN
  /\ routed \in {"none", "sent", "persisted", "reduced", "applied"}
  /\ lapses \in 0..MaxLapses

\* The type invariant has a part for the tables and one for the driver.
LEMMA TypeParts == TypeOK <=> TypeTables /\ TypeDriver
BY DEF TypeOK, TypeTables, TypeDriver, RowType

\* The same of the next state.
LEMMA TypePartsNext == (TypeOK <=> TypeTables /\ TypeDriver)'
BY TypeParts, PTL

\* A node fits as before when neither it nor its calls have changed.
LEMMA FitsSame ==
  ASSUME NEW n \in Nodes, FitsNode(n),
         node'[n] = node[n], claim'[n] = claim[n], Fwd(n)' = Fwd(n), Bck(n)' = Bck(n)
  PROVE  FitsNode(n)'
BY DEF FitsNode, FitsPending, FitsActive, FitsWaiting, FitsRunning, FitsSucceeded,
       FitsEnded, FitsBack

\* Steps that leave all but grants, rows and the cancel intent alone.
LEMMA RowsOnly ==
  ASSUME TypeOK, Core, ProjectionExact',
         UNCHANGED <<graph, node, claim, attempt, decided, plan>>
  PROVE  Core'
<1>1. Fits'
  BY FitsSame DEF Core, Fits, Fwd, Bck, Nodes
<1>2. InOrder' /\ Quiet' /\ Frozen'
  BY DEF Core, InOrder, Quiet, Frozen, Fwd, Bck, Started, Selected, BranchesInto,
         Pred, Nodes
<1>3. PlanFits' /\ PlanOrder' /\ BackInWaves' /\ Ends'
  BY DEF Core, PlanFits, PlanOrder, BackInWaves, Ends, Fwd, Bck, Started, Succ, Nodes
<1> QED BY <1>1, <1>2, <1>3 DEF Core

\* The tables keep their invariant when no table is written.
LEMMA TablesKept ==
  ASSUME TypeOK, Core,
         UNCHANGED <<graph, node, claim, attempt, decided, row, ready_node_count, plan>>
  PROVE  Core'
<1>1. ProjectionExact'
  BY LapseExact DEF Core
<1> QED BY <1>1, RowsOnly

\* Attempts are requested and cancelled while their node has no effect yet.
LEMMA AttemptsOnly ==
  ASSUME TypeOK, Core, ProjectionExact',
         UNCHANGED <<graph, node, claim, decided, plan>>,
         \A n \in Nodes : \/ Fwd(n)' = Fwd(n)
                          \/ Fwd(n) \in Ahead /\ Fwd(n)' \in Ahead,
         \A n \in Nodes :
           \/ Bck(n)' = Bck(n)
           \/ Bck(n) = "requested" /\ Bck(n)' = "cancelled"
           \/ /\ Bck(n) = "none" /\ Bck(n)' = "requested"
              /\ plan # <<>> /\ Fwd(n) = "succeeded"
  PROVE  Core'
<1>1. ASSUME NEW n \in Nodes
      PROVE  FitsNode(n)'
  <2>1. FitsNode(n)
    BY DEF Core, Fits
  <2>2. Fwd(n)' = Fwd(n) \/ (Fwd(n) \in Ahead /\ Fwd(n)' \in Ahead)
    OBVIOUS
  <2>3. \/ Bck(n)' = Bck(n)
        \/ Bck(n) = "requested" /\ Bck(n)' = "cancelled"
        \/ /\ Bck(n) = "none" /\ Bck(n)' = "requested"
           /\ plan # <<>> /\ Fwd(n) = "succeeded"
    OBVIOUS
  <2> QED BY <2>1, <2>2, <2>3
          DEF FitsNode, FitsPending, FitsActive, FitsWaiting, FitsRunning,
              FitsSucceeded, FitsEnded, FitsBack, Ahead
<1>2. InOrder'
  BY DEF Core, InOrder, Fwd, Started, Selected, BranchesInto, Pred, Nodes, Ahead
<1>3. Quiet' /\ Frozen' /\ PlanFits'
  BY DEF Core, Quiet, Frozen, PlanFits, Nodes, Ahead
<1>4. PlanOrder' /\ Ends'
  BY DEF Core, PlanOrder, Ends, Succ, Nodes
<1>5. BackInWaves'
  BY DEF Core, BackInWaves, Fwd, Bck, Started, Succ, Nodes, Ahead
<1> QED BY <1>1, <1>2, <1>3, <1>4, <1>5 DEF Core, Fits, Nodes

\* Without a plan there is nothing for a plan to cover or to order.
LEMMA NoPlan ==
  ASSUME plan = <<>>, Quiet, Fits
  PROVE  PlanFits /\ PlanOrder /\ BackInWaves
<1>1. PlanFits /\ PlanOrder
  BY DEF PlanFits, PlanOrder
<1>2. BackInWaves
  BY DEF Quiet, Fits, FitsNode, FitsBack, BackInWaves, Fwd, Bck, Started
<1> QED BY <1>1, <1>2

\* Without a compensation plan nothing is said of waves in the next state
\* either.
LEMMA NoPlanNext ==
  (plan = <<>> /\ Quiet /\ Fits => PlanFits /\ PlanOrder /\ BackInWaves)'
<1>1. plan = <<>> /\ Quiet /\ Fits => PlanFits /\ PlanOrder /\ BackInWaves
  BY NoPlan
<1> QED BY <1>1, PTL

\* One node changes its status.
LEMMA OneNode ==
  ASSUME TypeOK, ProjectionExact, decided' = decided, NEW n \in Nodes,
         NEW s \in NodeStatus, NEW c \in {"none", "held", "lapsed"}, NEW g,
         RecordOne(n, s, c, g)
  PROVE  /\ node'[n] = s /\ claim'[n] = c /\ graph' = g
         /\ \A m \in Nodes \ {n} : node'[m] = node[m] /\ claim'[m] = claim[m]
         /\ node' \in [Nodes -> NodeStatus]
         /\ claim' \in [Nodes -> {"none", "held", "lapsed"}]
         /\ ProjectionExact' /\ row' \in [Nodes -> RowType] /\ ready_node_count' \in Nat
<1> DEFINE nd == [node EXCEPT ![n] = s]
           cl == [claim EXCEPT ![n] = c]
<1>1. /\ node \in [Nodes -> NodeStatus]
      /\ claim \in [Nodes -> {"none", "held", "lapsed"}]
  BY DEF TypeOK
<1>2. Record({n}, nd, cl, g)
  BY DEF RecordOne
<1>3. \A m \in Nodes \ {n} : nd[m] = node[m] /\ cl[m] = claim[m]
  BY <1>1
<1>4. node' = nd /\ claim' = cl /\ graph' = g
  BY <1>2 DEF Record
<1>5. ProjectionExact' /\ row' \in [Nodes -> RowType] /\ ready_node_count' \in Nat
  <2> HIDE DEF nd, cl
  <2> QED BY <1>2, <1>3, RecordExact
<1> QED BY <1>1, <1>3, <1>4, <1>5

\* One node goes forward while there is no plan.
LEMMA ForwardNode ==
  ASSUME TypeOK, Core, plan = <<>>, plan' = <<>>, decided' = decided,
         NEW n \in Nodes, NEW s \in NodeStatus, NEW c \in {"none", "held", "lapsed"},
         RecordOne(n, s, c, "active"), FitsNode(n)',
         \A m \in Nodes : Bck(m)' = "none" /\ (m # n => Fwd(m)' = Fwd(m)),
         Fwd(n) # "succeeded", Fwd(n)' = "succeeded" => s = "succeeded",
         s = "active" \/ Fwd(n)' \in {"running", "succeeded", "unknown"} =>
           node[n] = "active" \/ Started(<<"forward", n>>)
  PROVE  Core'
<1>1. /\ node'[n] = s /\ claim'[n] = c /\ graph' = "active"
      /\ \A m \in Nodes \ {n} : node'[m] = node[m] /\ claim'[m] = claim[m]
      /\ ProjectionExact'
  BY OneNode DEF Core
<1>2. ASSUME NEW m \in Nodes
      PROVE  FitsNode(m)'
  <2>1. CASE m = n
    BY <2>1
  <2>2. CASE m # n
    <3>1. FitsNode(m) /\ Bck(m) = "none"
      BY DEF Core, Fits, Quiet
    <3> QED BY <1>1, <2>2, <3>1, FitsSame
  <2> QED BY <2>1, <2>2
<1>3. ASSUME NEW m \in Nodes, node'[m] = "active" \/ Started(<<"forward", m>>)'
      PROVE  /\ \A p \in Pred(m) : Fwd(p)' = "succeeded"
             /\ Selected(m)'
  <2>1. node[m] = "active" \/ Started(<<"forward", m>>)
    BY <1>1, <1>3 DEF Started, Fwd
  <2>2. (\A p \in Pred(m) : Fwd(p) = "succeeded") /\ Selected(m)
    BY <2>1 DEF Core, InOrder
  <2>3. \A p \in Pred(m) : p \in Nodes /\ p # n
    BY <2>2 DEF Pred
  <2> QED BY <2>2, <2>3 DEF Selected, BranchesInto
<1>4. InOrder'
  BY <1>3 DEF InOrder, Nodes, Pred
<1>5. Fits' /\ Quiet'
  <2>1. \A m \in Nodes : Fwd(m)' = "succeeded" => node'[m] = "succeeded"
    BY <1>1 DEF Core, Quiet
  <2> QED BY <1>2, <2>1 DEF Fits, Quiet, Nodes
<1>6. Frozen' /\ Ends'
  BY <1>1 DEF Frozen, Ends
<1> QED BY <1>1, <1>4, <1>5, <1>6, NoPlanNext DEF Core

\* One node of the plan is taken back.
LEMMA BackwardNode ==
  ASSUME TypeOK, Core, plan # <<>>, plan' = plan, decided' = decided,
         NEW n \in Nodes, NEW s \in NodeStatus, NEW c \in {"none", "held", "lapsed"},
         RecordOne(n, s, c, "compensating"), FitsNode(n)', s # "active",
         \A m \in Nodes : Fwd(m)' = Fwd(m) /\ (m # n => Bck(m)' = Bck(m)),
         Fwd(n) = "succeeded", Bck(n) # "succeeded",
         s = "compensating" \/ Bck(n)' \in {"running", "succeeded", "unknown"} =>
           node[n] = "compensating" \/ Started(<<"compensation", n>>)
  PROVE  Core'
<1>1. /\ node'[n] = s /\ claim'[n] = c /\ graph' = "compensating"
      /\ \A m \in Nodes \ {n} : node'[m] = node[m] /\ claim'[m] = claim[m]
      /\ ProjectionExact'
  BY OneNode DEF Core
<1>2. ASSUME NEW m \in Nodes
      PROVE  FitsNode(m)'
  <2>1. CASE m = n
    BY <2>1
  <2>2. CASE m # n
    <3>1. FitsNode(m)
      BY DEF Core, Fits
    <3> QED BY <1>1, <2>2, <3>1, FitsSame
  <2> QED BY <2>1, <2>2
<1>3. Fits'
  BY <1>2 DEF Fits, Nodes
<1>4. InOrder'
  <2>1. ASSUME NEW m \in Nodes, node'[m] = "active" \/ Started(<<"forward", m>>)'
        PROVE  node[m] = "active" \/ Started(<<"forward", m>>)
    BY <1>1, <2>1 DEF Started, Fwd
  <2> QED BY <2>1 DEF Core, InOrder, Pred, Nodes, Selected, BranchesInto
<1>5. Quiet' /\ Frozen' /\ PlanFits' /\ PlanOrder' /\ Ends'
  BY <1>1 DEF Core, Quiet, Frozen, PlanFits, PlanOrder, Ends, Nodes, Succ
<1>6. ASSUME NEW m \in Nodes, node'[m] = "compensating" \/ Started(<<"compensation", m>>)',
             NEW q \in Succ(m), Fwd(q) = "succeeded"
      PROVE  Bck(q)' = "succeeded"
  <2>1. node[m] = "compensating" \/ Started(<<"compensation", m>>)
    BY <1>1, <1>6 DEF Started, Bck
  <2>2. Bck(q) = "succeeded" /\ q \in Nodes
    BY <1>6, <2>1 DEF Core, BackInWaves, Succ
  <2> QED BY <2>2
<1>7. BackInWaves'
  BY <1>6 DEF BackInWaves, Nodes, Succ
<1> QED BY <1>1, <1>3, <1>4, <1>5, <1>7 DEF Core

\* The outcomes of a reduction, and what each of them presupposes.
LEMMA OutcomeCases ==
  ASSUME NEW nd, NEW c \in BOOLEAN
  PROVE  LET o == Outcome(nd, c)
             open == \E n \in Nodes : nd[n] \in InFlight
         IN  \/ o \in {graph, "blocked_unknown", "cancelled"}
             \/ ~c /\ o = "blocked_non_compensable"
             \/ ~c /\ o = "succeeded" /\ \A n \in Nodes : nd[n] \in {"succeeded", "skipped"}
             \/ /\ ~c /\ ~open /\ o \in {"compensating", "failed"}
                /\ \A n \in Nodes : nd[n] \notin {"unknown", "compensation_unknown", "cancelled"}
                /\ \A n \in Nodes : nd[n] = "succeeded" => n \in Reversible
                /\ o = "failed" => \A n \in Nodes : nd[n] # "succeeded"
<1> DEFINE o == Outcome(nd, c)
           some(S) == \E n \in Nodes : nd[n] \in S
           applied == {n \in Nodes : nd[n] = "succeeded"}
<1>1. CASE some(InFlight)
  BY <1>1 DEF Outcome
<1>2. CASE ~some(InFlight) /\ (some({"unknown", "compensation_unknown"}) \/ c \/ some({"cancelled"}))
  <2>1. o \in {"blocked_unknown", "cancelled"}
    BY <1>2, Zenon DEF Outcome
  <2> QED BY <2>1
<1>3. CASE /\ ~some(InFlight) /\ ~some({"unknown", "compensation_unknown"})
           /\ ~c /\ ~some({"cancelled"})
  <2>1. \A n \in Nodes : nd[n] \notin {"unknown", "compensation_unknown", "cancelled"}
    BY <1>3
  <2>2. o = IF some({"failed", "compensation_failed"})
            THEN IF ~(applied \subseteq Reversible) THEN "blocked_non_compensable"
                 ELSE IF applied # {} THEN "compensating" ELSE "failed"
            ELSE IF \A n \in Nodes : nd[n] \in {"succeeded", "skipped"}
                 THEN "succeeded" ELSE graph
    BY <1>3, Zenon DEF Outcome
  <2>3. CASE some({"failed", "compensation_failed"})
    <3>1. o = IF ~(applied \subseteq Reversible) THEN "blocked_non_compensable"
              ELSE IF applied # {} THEN "compensating" ELSE "failed"
      BY <2>2, <2>3
    <3>2. \/ o = "blocked_non_compensable"
          \/ o \in {"compensating", "failed"} /\ applied \subseteq Reversible
             /\ (o = "failed" => applied = {})
      BY <3>1
    <3> HIDE DEF o
    <3> QED BY <1>3, <2>1, <3>2 DEF o
  <2>4. CASE ~some({"failed", "compensation_failed"})
    <3>1. o = IF \A n \in Nodes : nd[n] \in {"succeeded", "skipped"} THEN "succeeded" ELSE graph
      BY <2>2, <2>4
    <3> QED BY <1>3, <3>1
  <2> QED BY <2>3, <2>4
<1> QED BY <1>1, <1>2, <1>3

\* The reduction changes pending nodes only; without a plan, or for a cancel.
LEMMA ReduceKeeps ==
  ASSUME TypeOK, Core, NEW c \in BOOLEAN, reduce_effect_dag(c), c \/ plan = <<>>
  PROVE  /\ TypeTables' /\ Core'
         /\ graph' \in {graph, "blocked_unknown", "cancelled"} \cup
              IF c THEN {}
              ELSE {"blocked_non_compensable", "succeeded", "compensating", "failed"}
<1> PICK nd : /\ nd = Reduced(c)
              /\ Record({n \in Nodes : nd[n] # node[n]}, nd, claim, Outcome(nd, c))
              /\ cancel' = c /\ UNCHANGED <<attempt, grant, decided, plan>>
  BY Zenon DEF reduce_effect_dag
<1>1. \A n \in Nodes : \/ nd[n] = node[n]
                       \/ node[n] = "pending" /\ nd[n] \in {"skipped", "cancelled"}
  BY DEF Reduced, Skippable, Cancellable, Pending
<1>2. nd \in [Nodes -> NodeStatus]
  <2>1. nd = [n \in Nodes |-> nd[n]]
    BY DEF Reduced
  <2>2. \A n \in Nodes : nd[n] \in NodeStatus
    BY <1>1 DEF TypeOK, NodeStatus
  <2> QED BY <2>1, <2>2
<1>3. node' = nd /\ claim' = claim /\ graph' = Outcome(nd, c)
  BY DEF Record
<1>4. ProjectionExact' /\ row' \in [Nodes -> RowType] /\ ready_node_count' \in Nat
  <2> DEFINE T == {n \in Nodes : nd[n] # node[n]}
             g == Outcome(nd, c)
  <2>1. ProjectionExact /\ decided' = decided /\ Record(T, nd, claim, g)
    BY DEF Core
  <2>2. T \in SUBSET Nodes /\ \A n \in Nodes \ T : nd[n] = node[n] /\ claim[n] = claim[n]
    OBVIOUS
  <2> HIDE DEF T, g
  <2> QED BY <2>1, <2>2, RecordExact
<1>5. \/ graph' \in {graph, "blocked_unknown", "cancelled"}
      \/ ~c /\ graph' = "blocked_non_compensable"
      \/ ~c /\ graph' = "succeeded" /\ \A n \in Nodes : nd[n] \in {"succeeded", "skipped"}
      \/ /\ ~c /\ graph' \in {"compensating", "failed"}
         /\ \A n \in Nodes : nd[n] \notin InFlight \cup {"unknown", "compensation_unknown", "cancelled"}
         /\ \A n \in Nodes : nd[n] = "succeeded" => n \in Reversible
         /\ graph' = "failed" => \A n \in Nodes : nd[n] # "succeeded"
  BY <1>3, OutcomeCases
<1>6. ASSUME NEW n \in Nodes
      PROVE  /\ FitsNode(n)'
             /\ node'[n] = "active" => node[n] = "active"
             /\ node'[n] = "compensating" => node[n] = "compensating"
             /\ node[n] \notin {"pending"} => node'[n] = node[n]
  <2>1. FitsNode(n) /\ node'[n] = nd[n] /\ claim'[n] = claim[n]
        /\ Fwd(n)' = Fwd(n) /\ Bck(n)' = Bck(n)
    BY <1>3 DEF Core, Fits, Fwd, Bck
  <2>2. CASE nd[n] = node[n]
    BY <1>3, <2>1, <2>2, FitsSame
  <2>3. CASE node[n] = "pending" /\ nd[n] \in {"skipped", "cancelled"}
    BY <2>1, <2>3 DEF FitsNode, FitsPending, FitsActive, FitsWaiting, FitsRunning,
                      FitsSucceeded, FitsEnded, FitsBack, Ahead
  <2> QED BY <1>1, <2>2, <2>3
<1>7. Fits' /\ InOrder' /\ Quiet'
  BY <1>6 DEF Core, Fits, InOrder, Quiet, Fwd, Bck, Started, Selected, BranchesInto, Pred, Nodes
<1>8. PlanFits' /\ PlanOrder' /\ BackInWaves'
  <2>1. PlanFits' /\ PlanOrder'
    BY DEF Core, PlanFits, PlanOrder, Fwd, Succ, Nodes
  <2>2. BackInWaves'
    BY <1>6 DEF Core, BackInWaves, Fwd, Bck, Started, Succ, Nodes
  <2> QED BY <2>1, <2>2
<1>9. Frozen'
  <2>1. CASE graph = "compensating" \/ plan # <<>>
    BY <2>1 DEF Core, Frozen, Fwd, Nodes
  <2>2. CASE graph # "compensating" /\ plan = <<>> /\ graph' = "compensating"
    <3>1. ASSUME NEW n \in Nodes
          PROVE  Fwd(n) \notin {"running", "unknown"} /\ (Fwd(n) = "succeeded" => n \in Reversible)
      <4>1. /\ nd[n] \notin InFlight \cup {"unknown", "compensation_unknown", "cancelled"}
            /\ nd[n] = "succeeded" => n \in Reversible
        BY <1>5, <2>2
      <4>2. node[n] = nd[n] \/ node[n] = "pending"
        BY <1>1
      <4>3. FitsNode(n) /\ Bck(n) = "none" /\ (Fwd(n) = "succeeded" => node[n] = "succeeded")
        BY <2>2 DEF Core, Fits, Quiet
      <4>4. node[n] \in NodeStatus
        BY DEF TypeOK
      <4> QED BY <4>1, <4>2, <4>3, <4>4
              DEF FitsNode, FitsPending, FitsSucceeded, FitsEnded, FitsBack, InFlight,
                  NodeStatus, Ahead
    <3> QED BY <3>1, Zenon DEF Frozen, Fwd, Nodes
  <2>3. CASE graph' # "compensating" /\ plan = <<>>
    BY <2>3 DEF Frozen
  <2> QED BY <2>1, <2>2, <2>3
<1>10. Ends'
  <2>1. CASE graph' = graph
    <3>1. \A n \in Nodes : node[n] \in {"succeeded", "skipped", "failed", "compensated"} => node'[n] = node[n]
      BY <1>6
    <3>2. plan \in Seq(SUBSET Nodes)
      BY DEF TypeOK
    <3>3. \A i \in 1..Len(plan) : plan[i] \subseteq Nodes
      BY <3>2
    <3>4. Ends
      BY DEF Core
    <3> QED BY <2>1, <3>1, <3>3, <3>4 DEF Ends, Nodes
  <2>2. CASE graph' \in {"blocked_unknown", "cancelled", "blocked_non_compensable", "compensating"}
    BY <2>2 DEF Ends
  <2>3. CASE ~c /\ graph' = "succeeded" /\ \A n \in Nodes : nd[n] \in {"succeeded", "skipped"}
    BY <1>3, <2>3 DEF Ends, Nodes
  <2>4. CASE graph' = "failed" /\ graph # "failed"
    <3>1. plan' = <<>> /\ plan = <<>>
      BY <1>5, <2>4
    <3>2. ASSUME NEW n \in Nodes
          PROVE  nd[n] \in {"failed", "skipped"}
      <4>1. /\ nd[n] \notin InFlight \cup {"unknown", "compensation_unknown", "cancelled"}
            /\ nd[n] # "succeeded"
        BY <1>5, <2>4
      <4>2. nd[n] \in NodeStatus /\ Bck(n) = "none"
        BY <1>2, <3>1 DEF Core, Quiet
      <4>3. FitsNode(n)'
        BY <1>6
      <4>4. nd[n] \notin {"compensated", "compensation_failed"}
        BY <1>3, <4>2, <4>3 DEF FitsNode, FitsBack, Bck
      <4> QED BY <4>1, <4>2, <4>4 DEF NodeStatus, InFlight
    <3> QED BY <1>3, <2>4, <3>1, <3>2 DEF Ends, Nodes
  <2> QED BY <1>5, <2>1, <2>2, <2>3, <2>4
<1>11. Core'
  BY <1>4, <1>7, <1>8, <1>9, <1>10 DEF Core
<1>12. graph' \in GraphStatus
  BY <1>5 DEF TypeOK, GraphStatus
<1>13. TypeTables'
  BY <1>2, <1>3, <1>4, <1>12 DEF TypeOK, TypeTables, Nodes, Kinds, Decisions, AttemptStatus
<1> QED BY <1>5, <1>11, <1>13

\* The plan covers what has been applied and still stands.
LEMMA PlanKeeps ==
  ASSUME TypeOK, Core, graph = "compensating", plan = <<>>, plan_effect_dag_compensation
  PROVE  TypeTables' /\ Core'
<1>1. plan' = Waves /\ UNCHANGED <<graph, cancel, node, claim, attempt, grant, decided,
                                   row, ready_node_count>>
  BY DEF plan_effect_dag_compensation
<1>2. /\ plan' \in Seq(SUBSET Nodes)
      /\ \A n \in Nodes : n \in Applied <=> \E i \in 1..Len(plan') : n \in plan'[i]
      /\ \A i, j \in 1..Len(plan') : \A n \in plan'[j] : \A m \in Succ(n) \cap plan'[i] : i < j
  BY <1>1, WavesFit
<1>3. \A n \in Nodes : n \in Applied <=> Fwd(n) = "succeeded"
  BY DEF Core, Quiet, Frozen, Fits, FitsNode, FitsSucceeded, Applied
<1>4. ProjectionExact'
  BY <1>1, LapseExact DEF Core
<1>5. Fits'
  BY <1>1, FitsSame DEF Core, Fits, Fwd, Bck, Nodes
<1>6. InOrder' /\ Quiet' /\ Frozen'
  BY <1>1 DEF Core, InOrder, Quiet, Frozen, Fwd, Bck, Started, Selected, BranchesInto,
         Pred, Nodes
<1>7. PlanFits' /\ PlanOrder'
  BY <1>1, <1>2, <1>3 DEF PlanFits, PlanOrder, Fwd, Succ, Nodes
<1>8. BackInWaves' /\ Ends'
  BY <1>1 DEF Core, BackInWaves, Ends, Fwd, Bck, Started, Succ, Nodes
<1>9. TypeTables'
  BY <1>1, <1>2 DEF TypeOK, TypeTables, RowType
<1> QED BY <1>4, <1>5, <1>6, <1>7, <1>8, <1>9 DEF Core

------------------------------------------------------------------------------
(* Every step keeps the invariant.                                          *)

\* What is ready depends on nodes, claims and decisions only.
LEMMA ReadySetSame ==
  ASSUME UNCHANGED <<node, claim, decided>>
  PROVE  ReadySet' = ReadySet
BY DEF ReadySet, Nodes, Pred, Selected, BranchesInto

\* Where the driver goes while the tables stay as they are.
DriverFits ==
  /\ TypeDriver /\ AtFits /\ PlanPhase /\ InWave /\ RoutedIsPersisted

\* A step of the driver that writes no table has its own place to account for
\* only.
LEMMA DriverMoves ==
  ASSUME IInv,
         UNCHANGED <<graph, node, claim, attempt, decided, row, ready_node_count, plan>>,
         cancel' \in BOOLEAN, grant' \in [Kinds \X Nodes -> GrantStatus],
         DriverFits', at' = "claim" => at = "claim" /\ todo' = todo
  PROVE  IInv'
<1>1. Core'
  BY TablesKept DEF IInv
<1>2. TypeOK'
  <2>1. TypeTables'
    BY DEF IInv, TypeOK, TypeTables, RowType, Kinds, Nodes, GrantStatus, Decisions
  <2> QED BY <2>1, TypePartsNext DEF DriverFits
<1>3. SelectedIsReady'
  BY ReadySetSame DEF IInv, Drive, SelectedIsReady
<1> QED BY <1>1, <1>2, <1>3 DEF IInv, Drive, DriverFits

\* The steps of a forward pass that write no table keep the invariant.
LEMMA PassSteps ==
  ASSUME IInv,
         \/ forward_pass \/ stop_persists \/ graph_ended \/ prepare_refused
         \/ refreshed \/ no_progress \/ claim_proof_rejected \/ executed
  PROVE  IInv'
<1> USE DEF IInv, TypeOK, Drive, DriverFits, TypeDriver, AtFits, PlanPhase, InWave,
            RoutedIsPersisted, Phase, CompPhases, tables, driver, Keep, Goto
<1>1. CASE forward_pass
  BY <1>1, DriverMoves DEF forward_pass
<1>2. CASE stop_persists
  BY <1>2, DriverMoves DEF stop_persists
<1>3. CASE graph_ended
  BY <1>3, DriverMoves DEF graph_ended
<1>4. CASE prepare_refused
  BY <1>4, DriverMoves DEF prepare_refused, Fail
<1>5. CASE refreshed
  BY <1>5, DriverMoves DEF refreshed, Suspend
<1>6. CASE no_progress
  BY <1>6, DriverMoves DEF no_progress, Fail
<1>7. CASE claim_proof_rejected
  BY <1>7, DriverMoves DEF claim_proof_rejected
<1>8. CASE executed
  BY <1>8, DriverMoves DEF executed
<1> QED BY <1>1, <1>2, <1>3, <1>4, <1>5, <1>6, <1>7, <1>8

\* So do those of a compensation wave.
LEMMA WaveSteps ==
  ASSUME IInv,
         \/ comp_prepares \/ comp_skips_wave \/ comp_prepared \/ comp_next_batch
         \/ comp_claim_refused \/ comp_executed
  PROVE  IInv'
<1> USE DEF IInv, TypeOK, Drive, DriverFits, TypeDriver, AtFits, PlanPhase, InWave,
            RoutedIsPersisted, Phase, CompPhases, tables, driver, Keep, Goto
<1>1. CASE comp_prepares
  <2>1. wave \in 1..Len(plan) /\ plan[wave] \subseteq Nodes
    BY <1>1 DEF comp_prepares
  <2>2. /\ at' = "comp_prepare" /\ batch' \subseteq plan[wave] /\ held' = FALSE
        /\ UNCHANGED <<tables, task, todo, asking, denied, wave, stop, routed, lapses>>
    BY <1>1 DEF comp_prepares, WaveNodes
  <2>3. at = "comp"
    BY <1>1 DEF comp_prepares
  <2>4. TypeDriver' /\ InWave'
    BY <2>1, <2>2
  <2>5. AtFits' /\ PlanPhase' /\ RoutedIsPersisted'
    BY <2>2, <2>3
  <2> QED BY <2>2, <2>4, <2>5, DriverMoves
<1>2. CASE comp_skips_wave
  BY <1>2, DriverMoves DEF comp_skips_wave
<1>3. CASE comp_prepared
  BY <1>3, DriverMoves DEF comp_prepared, WaveNodes, Suspend
<1>4. CASE comp_next_batch
  BY <1>4, DriverMoves DEF comp_next_batch
<1>5. CASE comp_claim_refused
  <2>1. /\ at' = "gone" /\ batch' = {} /\ todo' = {} /\ asking' = FALSE
        /\ task' = "ended" /\ UNCHANGED <<tables, held, denied, wave, stop, routed, lapses>>
    BY <1>5 DEF comp_claim_refused, Fail
  <2>2. DriverFits'
    BY <2>1
  <2> QED BY <2>1, <2>2, DriverMoves
<1>6. CASE comp_executed
  BY <1>6, DriverMoves DEF comp_executed
<1> QED BY <1>1, <1>2, <1>3, <1>4, <1>5, <1>6

\* So do the requests, and the control of another instance.
LEMMA WorldSteps ==
  ASSUME IInv,
         \/ resume_after_approval \/ cancel_local \/ cancel_task \/ control_sent
         \/ control_to_dispatcher \/ request_effect_dag_cancel
         \/ control_cancels_task \/ Finished
  PROVE  IInv'
<1> USE DEF IInv, TypeOK, Drive, DriverFits, TypeDriver, AtFits, PlanPhase, InWave,
            RoutedIsPersisted, Phase, CompPhases, tables, driver, Keep, Goto
<1>1. CASE resume_after_approval
  BY <1>1, DriverMoves DEF resume_after_approval
<1>2. CASE cancel_local
  BY <1>2, DriverMoves DEF cancel_local
<1>3. CASE cancel_task
  BY <1>3, DriverMoves DEF cancel_task
<1>4. CASE control_sent
  BY <1>4, DriverMoves DEF control_sent
<1>5. CASE control_to_dispatcher
  BY <1>5, DriverMoves DEF control_to_dispatcher
<1>6. CASE request_effect_dag_cancel
  BY <1>6, DriverMoves DEF request_effect_dag_cancel
<1>7. CASE control_cancels_task
  BY <1>7, DriverMoves DEF control_cancels_task
<1>8. CASE Finished
  BY <1>8, DriverMoves DEF Finished, vars
<1> QED BY <1>1, <1>2, <1>3, <1>4, <1>5, <1>6, <1>7, <1>8

\* Policy answers and approvals move grants and the task only.
LEMMA ApprovalSteps ==
  ASSUME IInv,
         \/ \E answer \in EffectOf : apply_policy_decision(answer)
         \/ \E a \in Kinds \X Nodes : resolve_approval_approve(a)
  PROVE  IInv'
<1> USE DEF IInv, TypeOK, Drive, DriverFits, TypeDriver, AtFits, PlanPhase, InWave,
            RoutedIsPersisted, driver, Keep, EffectOf
<1>1. ASSUME NEW answer \in EffectOf, apply_policy_decision(answer)
      PROVE  IInv'
  <2>1. grant' \in [Kinds \X Nodes -> GrantStatus]
    BY <1>1 DEF apply_policy_decision, GrantStatus
  <2> QED BY <1>1, <2>1, DriverMoves DEF apply_policy_decision
<1>2. ASSUME NEW a \in Kinds \X Nodes, resolve_approval_approve(a)
      PROVE  IInv'
  <2>1. grant' \in [Kinds \X Nodes -> GrantStatus]
    BY <1>2 DEF resolve_approval_approve, GrantStatus
  <2> QED BY <1>2, <2>1, DriverMoves DEF resolve_approval_approve
<1> QED BY <1>1, <1>2

\* Steps that change the tables: what is left to show of the driver.
LEMMA TableMoves ==
  ASSUME IInv, TypeTables', Core', DriverFits', at' # "claim"
  PROVE  IInv'
BY TypePartsNext DEF IInv, Drive, DriverFits, SelectedIsReady

\* Reductions of the driver.
LEMMA ReduceSteps ==
  ASSUME IInv,
         \/ stop_reduces \/ prepared \/ dispatch_reduces \/ select_nothing \/ decided_all
  PROVE  IInv'
<1> USE DEF IInv, TypeOK, Drive, DriverFits, TypeDriver, AtFits, PlanPhase, InWave,
            RoutedIsPersisted, Phase, CompPhases, driver, Keep, Goto
<1>1. CASE stop_reduces
  <2>1. reduce_effect_dag(cancel) /\ cancel /\ plan' = plan /\ cancel' = cancel
    BY <1>1 DEF stop_reduces, reduce_effect_dag
  <2>2. /\ TypeTables' /\ Core'
        /\ graph' \in {graph, "blocked_unknown", "cancelled"}
    BY <2>1, ReduceKeeps
  <2>3. /\ UNCHANGED <<stop, routed, lapses, held, denied, wave>>
        /\ \/ /\ at' = "gone" /\ batch' = {} /\ todo' = {} /\ asking' = FALSE
              /\ task' = "ended"
           \/ UNCHANGED <<task, at, batch, todo, asking>>
        /\ at = "idle" /\ plan = <<>>
    BY <1>1 DEF stop_reduces, Fail
  <2>4. DriverFits' /\ at' # "claim"
    BY <2>1, <2>2, <2>3
  <2> QED BY <2>2, <2>4, TableMoves
<1>2. CASE prepared
  <2>1. CASE denied
    <3>1. reduce_effect_dag(cancel) /\ plan = <<>> /\ plan' = plan /\ cancel' = cancel
      BY <1>2, <2>1 DEF prepared, reduce_effect_dag
    <3>2. /\ TypeTables' /\ Core'
          /\ graph' \in {graph, "blocked_unknown", "cancelled", "blocked_non_compensable",
                         "succeeded", "compensating", "failed"}
      BY <3>1, ReduceKeeps
    <3> QED BY <1>2, <3>1, <3>2, TableMoves DEF prepared, Suspend
  <2>2. CASE ~denied
    BY <1>2, <2>2, DriverMoves DEF prepared, Suspend, tables
  <2> QED BY <2>1, <2>2
<1>3. CASE dispatch_reduces
  <2>1. reduce_effect_dag(cancel) /\ plan = <<>> /\ plan' = plan /\ cancel' = cancel
    BY <1>3 DEF dispatch_reduces, reduce_effect_dag
  <2>2. TypeTables' /\ Core'
    BY <2>1, ReduceKeeps
  <2> QED BY <1>3, <2>1, <2>2, TableMoves DEF dispatch_reduces
<1>4. CASE select_nothing
  <2>1. reduce_effect_dag(cancel) /\ plan = <<>> /\ plan' = plan /\ cancel' = cancel
    BY <1>4 DEF select_nothing, reduce_effect_dag
  <2>2. TypeTables' /\ Core'
    BY <2>1, ReduceKeeps
  <2> QED BY <1>4, <2>1, <2>2, TableMoves DEF select_nothing
<1>5. CASE decided_all
  <2>1. reduce_effect_dag(cancel) /\ plan = <<>> /\ plan' = plan /\ cancel' = cancel
    BY <1>5 DEF decided_all, reduce_effect_dag
  <2>2. TypeTables' /\ Core'
    BY <2>1, ReduceKeeps
  <2> QED BY <1>5, <2>1, <2>2, TableMoves DEF decided_all
<1> QED BY <1>1, <1>2, <1>3, <1>4, <1>5

\* Reductions for a cancel that comes from outside.
LEMMA CancelSteps ==
  ASSUME IInv, cancel_suspended \/ control_reduces
  PROVE  IInv'
<1> USE DEF IInv, TypeOK, Drive, DriverFits, TypeDriver, AtFits, PlanPhase, InWave,
            RoutedIsPersisted, Phase, CompPhases, driver
<1>1. CASE cancel_suspended
  <2>1. CASE graph = "active"
    <3>1. reduce_effect_dag(TRUE) /\ plan' = plan /\ cancel' = TRUE
      BY <1>1, <2>1 DEF cancel_suspended, reduce_effect_dag
    <3>2. /\ TypeTables' /\ Core'
          /\ graph' \in {graph, "blocked_unknown", "cancelled"}
      BY <3>1, ReduceKeeps
    <3> QED BY <1>1, <2>1, <3>1, <3>2, TableMoves DEF cancel_suspended
  <2>2. CASE graph # "active"
    BY <1>1, <2>2, DriverMoves DEF cancel_suspended, tables
  <2> QED BY <2>1, <2>2
<1>2. CASE control_reduces
  <2>1. /\ reduce_effect_dag(cancel) /\ cancel /\ plan' = plan /\ cancel' = cancel
        /\ at \notin Dispatching
        /\ UNCHANGED <<task, at, batch, todo, asking, held, denied, wave, lapses>>
        /\ stop' \in BOOLEAN /\ routed' \in {"applied", "reduced"}
    BY <1>2 DEF control_reduces, reduce_effect_dag
  <2>2. /\ TypeTables' /\ Core'
        /\ graph' \in {graph, "blocked_unknown", "cancelled"}
    BY <2>1, ReduceKeeps
  <2>3. TypeDriver' /\ InWave' /\ RoutedIsPersisted'
    BY <2>1
  <2>4. AtFits' /\ PlanPhase' /\ at' # "claim"
    BY <2>1, <2>2 DEF Dispatching
  <2> QED BY <2>2, <2>3, <2>4, TableMoves
<1> QED BY <1>1, <1>2

\* The plan is made, by the dispatcher or at the head of the loop.
LEMMA PlanSteps ==
  ASSUME IInv, compensation_pass \/ dispatch_plans
  PROVE  IInv'
<1> USE DEF IInv, TypeOK, Drive, DriverFits, TypeDriver, AtFits, PlanPhase, InWave,
            RoutedIsPersisted, Phase, CompPhases, driver, Keep, Goto
<1>1. CASE compensation_pass
  <2>1. CASE plan = <<>>
    <3>1. TypeTables' /\ Core' /\ graph' = graph /\ cancel' = cancel
      BY <1>1, <2>1, PlanKeeps DEF compensation_pass, plan_effect_dag_compensation
    <3> QED BY <1>1, <3>1, TableMoves DEF compensation_pass
  <2>2. CASE plan # <<>>
    BY <1>1, <2>2, DriverMoves DEF compensation_pass, tables
  <2> QED BY <2>1, <2>2
<1>2. CASE dispatch_plans
  <2>1. plan = <<>> /\ graph = "compensating"
    BY <1>2 DEF dispatch_plans
  <2>2. TypeTables' /\ Core' /\ graph' = graph /\ cancel' = cancel
    BY <1>2, <2>1, PlanKeeps DEF dispatch_plans, plan_effect_dag_compensation
  <2> QED BY <1>2, <2>2, TableMoves DEF dispatch_plans
<1> QED BY <1>1, <1>2

\* The graph after a wave and after the last one.
LEMMA CompensationReduced ==
  ASSUME IInv, reduce_effect_dag_compensation
  PROVE  IInv'
<1> DEFINE planned == UNION {plan[i] : i \in 1..Len(plan)}
<1>1. /\ graph' = CompensationOutcome
      /\ UNCHANGED <<cancel, node, claim, attempt, grant, decided, row, ready_node_count,
                     plan, task, batch, todo, asking, held, denied, stop, routed, lapses>>
      /\ at' = (IF graph' = "compensating" /\ at = "comp_reduce" THEN "comp" ELSE "idle")
      /\ wave' = IF at' = "comp" THEN wave + 1 ELSE wave
      /\ at \in {"comp", "comp_reduce"}
  BY DEF reduce_effect_dag_compensation, Goto, Keep
<1>2. \/ graph' \in {graph, "blocked_compensation_unknown", "blocked_compensation_failed"}
      \/ /\ graph' = "compensated" /\ planned # {}
         /\ \A n \in planned : node[n] = "compensated"
  BY <1>1 DEF CompensationOutcome
<1>3. ProjectionExact'
  BY <1>1, LapseExact DEF IInv, Core
<1>4. Fits'
  BY <1>1, FitsSame DEF IInv, Core, Fits, Fwd, Bck, Nodes
<1>5. InOrder' /\ Quiet' /\ Frozen'
  BY <1>1, <1>2 DEF IInv, Core, InOrder, Quiet, Frozen, Fwd, Bck, Started, Selected,
                    BranchesInto, Pred, Nodes
<1>6. PlanFits' /\ PlanOrder' /\ BackInWaves'
  BY <1>1 DEF IInv, Core, PlanFits, PlanOrder, BackInWaves, Fwd, Bck, Started, Succ, Nodes
<1>7. Ends'
  BY <1>1, <1>2 DEF IInv, Core, Ends, Nodes
<1>8. TypeTables'
  BY <1>1, <1>2 DEF IInv, TypeOK, TypeTables, RowType, GraphStatus
<1>9. DriverFits'
  <2>1. TypeDriver' /\ InWave' /\ RoutedIsPersisted'
    BY <1>1 DEF IInv, TypeOK, Drive, TypeDriver, InWave, RoutedIsPersisted, Phase, CompPhases
  <2>2. AtFits' /\ PlanPhase'
    BY <1>1, <1>2 DEF IInv, Drive, AtFits, PlanPhase, CompPhases
  <2> QED BY <2>1, <2>2 DEF DriverFits
<1> QED BY <1>1, <1>3, <1>4, <1>5, <1>6, <1>7, <1>8, <1>9, TableMoves DEF Core

\* The ready set is checkpointed, and nodes of its page are prepared or selected.
LEMMA PageSteps ==
  ASSUME IInv, prepare_ready \/ select_nodes
  PROVE  IInv'
<1>1. checkpoint_effect_dag_ready_set
  BY DEF prepare_ready, select_nodes
<1>2. /\ UNCHANGED <<graph, cancel, node, claim, attempt, grant, decided, plan>>
      /\ ProjectionExact' /\ row' \in [Nodes -> RowType] /\ ready_node_count' \in Nat
  BY <1>1, CheckpointExact DEF IInv, Core, checkpoint_effect_dag_ready_set
<1>3. TypeTables' /\ Core'
  <2>1. Core'
    BY <1>2, RowsOnly DEF IInv
  <2>2. TypeTables'
    BY <1>2 DEF IInv, TypeOK, TypeTables, RowType
  <2> QED BY <2>1, <2>2
<1>4. FirstOf(Page) \subseteq ReadySet /\ ReadySet \subseteq Nodes
  BY PageIsReady DEF IInv, Core, FirstOf, ReadySet
<1>5. CASE prepare_ready
  <2>1. DriverFits' /\ at' # "claim"
    BY <1>2, <1>4, <1>5
       DEF prepare_ready, IInv, TypeOK, Drive, DriverFits, TypeDriver, AtFits, PlanPhase,
           InWave, RoutedIsPersisted, Phase, CompPhases, Keep, Goto
  <2> QED BY <1>3, <2>1, TableMoves
<1>6. CASE select_nodes
  <2>1. at' = "claim" /\ todo' \subseteq ReadySet
    BY <1>4, <1>6 DEF select_nodes, Goto
  <2>2. DriverFits'
    BY <1>2, <1>4, <1>6, <2>1
       DEF select_nodes, IInv, TypeOK, Drive, DriverFits, TypeDriver, AtFits, PlanPhase,
           InWave, RoutedIsPersisted, Phase, CompPhases, Keep
  <2>3. SelectedIsReady'
    BY <1>2, <2>1, ReadySetSame DEF SelectedIsReady
  <2> QED BY <1>3, <2>2, <2>3, TypePartsNext DEF IInv, Drive, DriverFits
<1> QED BY <1>5, <1>6

\* Preparation works on nodes of its batch.
LEMMA CurrentInBatch ==
  ASSUME IInv, Preparing
  PROVE  /\ Current \in batch /\ Current \in Nodes
         /\ Kind = "forward" => plan = <<>>
         /\ Kind = "compensation" => at = "comp_prepare" /\ plan # <<>> /\ Fwd(Current) = "succeeded"
         /\ Kind \in Kinds
<1>1. batch \subseteq Nodes /\ batch # {} /\ batch \subseteq Nat
  BY NodesFinite DEF IInv, TypeOK, Preparing
<1>2. Current \in batch
  BY <1>1, MinOfNats DEF Current
<1>3. Kind = "forward" => plan = <<>>
  BY DEF Kind, Preparing, IInv, Drive, PlanPhase, CompPhases
<1>4. CASE at = "comp_prepare"
  <2>1. wave \in 1..Len(plan) /\ batch \subseteq plan[wave] /\ plan \in Seq(SUBSET Nodes)
    BY <1>4 DEF IInv, TypeOK, Drive, InWave, CompPhases
  <2>2. plan # <<>>
    BY <2>1
  <2>3. Fwd(Current) = "succeeded"
    BY <1>1, <1>2, <2>1, <2>2 DEF IInv, Core, PlanFits
  <2> QED BY <1>1, <1>2, <1>3, <1>4, <2>2, <2>3 DEF Kind, Kinds
<1>5. CASE at # "comp_prepare"
  BY <1>1, <1>2, <1>3, <1>5 DEF Kind, Kinds
<1> QED BY <1>4, <1>5

\* The driver leaves a node of its batch behind and stays where it is.
LEMMA BatchShrinks ==
  ASSUME IInv, UNCHANGED <<at, todo, wave, plan, cancel, stop, routed, lapses>>,
         batch' \subseteq batch, asking' \in BOOLEAN, held' \in BOOLEAN, denied' \in BOOLEAN,
         task' \in {"running", "waiting", "reconciling", "ended"},
         \/ graph' = graph
         \/ graph' = "active" /\ plan = <<>> /\ at \in {"refresh", "ready", "prepare", "run"}
         \/ graph' = "compensating" /\ at \in CompPhases
  PROVE  DriverFits'
<1>1. TypeDriver'
  BY DEF IInv, TypeOK, TypeDriver
<1>2. AtFits'
  BY DEF IInv, Drive, AtFits, CompPhases
<1>3. PlanPhase' /\ InWave' /\ RoutedIsPersisted'
  BY DEF IInv, Drive, PlanPhase, InWave, RoutedIsPersisted
<1> QED BY <1>1, <1>2, <1>3 DEF DriverFits

\* A request: the attempt appears, nothing else moves.
LEMMA RequestStep ==
  ASSUME IInv, request_effect_tool_call
  PROVE  IInv'
<1> DEFINE n == Current
<1>1. /\ Preparing /\ Asked = "none" /\ attempt' = [attempt EXCEPT ![<<Kind, n>>] = "requested"]
      /\ RecordOne(n, node[n], claim[n], graph)
      /\ asking' = TRUE
      /\ UNCHANGED <<cancel, grant, decided, plan, task, at, batch, todo, held,
                     denied, wave, stop, routed, lapses>>
  BY DEF request_effect_tool_call, Keep
<1>2. /\ n \in Nodes
      /\ Kind = "forward" => plan = <<>>
      /\ Kind = "compensation" => plan # <<>> /\ Fwd(n) = "succeeded"
      /\ Kind \in Kinds
  BY <1>1, CurrentInBatch
<1> HIDE DEF n
<1>3. node[n] \in NodeStatus /\ claim[n] \in {"none", "held", "lapsed"}
  BY <1>2 DEF IInv, TypeOK
<1>4. /\ node'[n] = node[n] /\ claim'[n] = claim[n] /\ graph' = graph
      /\ \A m \in Nodes \ {n} : node'[m] = node[m] /\ claim'[m] = claim[m]
      /\ node' \in [Nodes -> NodeStatus]
      /\ claim' \in [Nodes -> {"none", "held", "lapsed"}]
      /\ ProjectionExact' /\ row' \in [Nodes -> RowType] /\ ready_node_count' \in Nat
  <2>1. TypeOK /\ ProjectionExact /\ decided' = decided
    BY <1>1 DEF IInv, Core
  <2> QED BY <1>1, <1>2, <1>3, <2>1, OneNode
<1>5. node' = node /\ claim' = claim
  BY <1>2, <1>4 DEF IInv, TypeOK
<1>6. attempt \in [Kinds \X Nodes -> AttemptStatus]
  BY DEF IInv, TypeOK
<1>7. attempt' \in [Kinds \X Nodes -> AttemptStatus]
  BY <1>1, <1>6 DEF AttemptStatus
<1>8. \A a \in Kinds \X Nodes : attempt'[a] = IF a = <<Kind, n>> THEN "requested" ELSE attempt[a]
  BY <1>1, <1>6
<1>9. attempt[<<Kind, n>>] = "none"
  BY <1>1 DEF Asked, n
<1>10. \A m \in Nodes : \/ Fwd(m)' = Fwd(m)
                        \/ Fwd(m) \in Ahead /\ Fwd(m)' \in Ahead
  BY <1>2, <1>8, <1>9 DEF Fwd, Ahead, Kinds
<1>11. \A m \in Nodes :
           \/ Bck(m)' = Bck(m)
           \/ /\ Bck(m) = "none" /\ Bck(m)' = "requested"
              /\ plan # <<>> /\ Fwd(m) = "succeeded"
  BY <1>2, <1>8, <1>9 DEF Bck, Fwd, Kinds
<1>12. Core'
  BY <1>1, <1>4, <1>5, <1>10, <1>11, AttemptsOnly DEF IInv
<1>13. TypeTables'
  BY <1>1, <1>4, <1>7 DEF IInv, TypeOK, TypeTables
<1>14. DriverFits' /\ at' # "claim"
  <2>1. held \in BOOLEAN /\ denied \in BOOLEAN /\ task \in {"running", "waiting", "reconciling", "ended"}
    BY DEF IInv, TypeOK
  <2>2. DriverFits'
    BY <1>1, <1>4, <2>1, BatchShrinks
  <2> QED BY <1>1, <2>2 DEF Preparing
<1> QED BY <1>12, <1>13, <1>14, TableMoves

\* A rejected or expired approval cancels what has been requested.
LEMMA RejectSteps ==
  ASSUME IInv,
         \/ \E a \in Kinds \X Nodes : resolve_approval_reject(a)
         \/ \E n \in Nodes : start_tool_call_expired(n)
  PROVE  IInv'
<1>1. /\ UNCHANGED <<graph, cancel, node, claim, decided, row, ready_node_count, plan,
                     batch, todo, asking, held, denied, wave, stop, routed, lapses>>
      /\ task' = "ended" /\ (at' = at \/ at' = "gone")
      /\ attempt' \in [Kinds \X Nodes -> AttemptStatus]
      /\ grant' \in [Kinds \X Nodes -> GrantStatus]
      /\ \A b \in Kinds \X Nodes : \/ attempt'[b] = attempt[b]
                                   \/ attempt[b] = "requested" /\ attempt'[b] = "cancelled"
  <2>1. CASE \E a \in Kinds \X Nodes : resolve_approval_reject(a)
    <3>1. PICK a \in Kinds \X Nodes : resolve_approval_reject(a)
      BY <2>1
    <3> DEFINE closed == {b \in Kinds \X Nodes : /\ grant[b] \in {"pending", "approved"}
                                                 /\ attempt[b] = "requested"}
    <3>2. /\ grant' = [b \in Kinds \X Nodes |-> IF b \in closed THEN "closed" ELSE grant[b]]
          /\ attempt' = [b \in Kinds \X Nodes |-> IF b \in closed THEN "cancelled" ELSE attempt[b]]
      BY <3>1 DEF resolve_approval_reject
    <3>3. /\ attempt' \in [Kinds \X Nodes -> AttemptStatus]
          /\ grant' \in [Kinds \X Nodes -> GrantStatus]
      BY <3>2 DEF IInv, TypeOK, AttemptStatus, GrantStatus
    <3>4. \A b \in Kinds \X Nodes : \/ attempt'[b] = attempt[b]
                                    \/ attempt[b] = "requested" /\ attempt'[b] = "cancelled"
      BY <3>2
    <3> QED BY <3>1, <3>3, <3>4 DEF resolve_approval_reject, Keep
  <2>2. CASE \E n \in Nodes : start_tool_call_expired(n)
    <3>1. PICK n \in Nodes : start_tool_call_expired(n)
      BY <2>2
    <3>2. <<ExecKind, n>> \in Kinds \X Nodes
      BY DEF ExecKind, Kinds
    <3>3. /\ attempt \in [Kinds \X Nodes -> AttemptStatus]
          /\ grant \in [Kinds \X Nodes -> GrantStatus]
      BY DEF IInv, TypeOK
    <3>4. /\ attempt' = [attempt EXCEPT ![<<ExecKind, n>>] = "cancelled"]
          /\ grant' = [grant EXCEPT ![<<ExecKind, n>>] = "closed"]
          /\ attempt[<<ExecKind, n>>] = "requested"
      BY <3>1 DEF start_tool_call_expired
    <3>5. /\ attempt' \in [Kinds \X Nodes -> AttemptStatus]
          /\ grant' \in [Kinds \X Nodes -> GrantStatus]
      BY <3>2, <3>3, <3>4 DEF AttemptStatus, GrantStatus
    <3>6. \A b \in Kinds \X Nodes : \/ attempt'[b] = attempt[b]
                                    \/ attempt[b] = "requested" /\ attempt'[b] = "cancelled"
      BY <3>2, <3>3, <3>4
    <3> QED BY <3>1, <3>5, <3>6 DEF start_tool_call_expired, Keep, driver
  <2> QED BY <2>1, <2>2
<1>2. \A n \in Nodes : <<"forward", n>> \in Kinds \X Nodes /\ <<"compensation", n>> \in Kinds \X Nodes
  BY DEF Kinds
<1>3. Core'
  <2>1. ProjectionExact'
    BY <1>1, LapseExact DEF IInv, Core
  <2>2. \A n \in Nodes : \/ Fwd(n)' = Fwd(n)
                         \/ Fwd(n) \in Ahead /\ Fwd(n)' \in Ahead
    BY <1>1, <1>2 DEF Fwd, Ahead
  <2>3. \A n \in Nodes : \/ Bck(n)' = Bck(n)
                         \/ Bck(n) = "requested" /\ Bck(n)' = "cancelled"
    BY <1>1, <1>2 DEF Bck
  <2> QED BY <1>1, <2>1, <2>2, <2>3, AttemptsOnly DEF IInv
<1>4. TypeOK'
  <2>1. TypeTables' /\ TypeDriver'
    BY <1>1 DEF IInv, TypeOK, TypeTables, TypeDriver, RowType, Phase
  <2> QED BY <2>1, TypePartsNext
<1>5. Drive'
  <2>1. AtFits' /\ PlanPhase' /\ InWave' /\ RoutedIsPersisted'
    BY <1>1 DEF IInv, Drive, AtFits, PlanPhase, InWave, RoutedIsPersisted, CompPhases
  <2>2. SelectedIsReady'
    BY <1>1, ReadySetSame DEF IInv, Drive, SelectedIsReady
  <2> QED BY <2>1, <2>2 DEF Drive
<1> QED BY <1>3, <1>4, <1>5 DEF IInv

\* Claims lapse: one of them, or all with the lease.
LEMMA LapseSteps ==
  ASSUME IInv, (\E n \in Nodes : lose_claim(n)) \/ lose_lease
  PROVE  IInv'
<1>1. /\ UNCHANGED <<graph, cancel, node, attempt, grant, decided, row, ready_node_count,
                     plan, held, denied, wave, stop, routed>>
      /\ lapses' = lapses + 1 /\ lapses < MaxLapses
      /\ \/ at' = at /\ at = "run" /\ todo' = todo
         \/ at' = "gone" /\ todo' = {}
      /\ batch' \subseteq batch /\ asking' \in BOOLEAN
      /\ task' \in {task, "ended"}
      /\ claim' \in [Nodes -> {"none", "held", "lapsed"}]
      /\ \A n \in Nodes : \/ claim'[n] = claim[n]
                          \/ claim[n] = "held" /\ claim'[n] = "lapsed"
  <2>1. claim \in [Nodes -> {"none", "held", "lapsed"}] /\ asking \in BOOLEAN
    BY DEF IInv, TypeOK
  <2>2. CASE \E n \in Nodes : lose_claim(n)
    BY <2>1, <2>2 DEF lose_claim, Executing
  <2>3. CASE lose_lease
    BY <2>1, <2>3 DEF lose_lease
  <2> QED BY <2>2, <2>3
<1>2. ASSUME NEW n \in Nodes
      PROVE  FitsNode(n)'
  <2>1. /\ FitsNode(n) /\ node'[n] = node[n] /\ Fwd(n)' = Fwd(n) /\ Bck(n)' = Bck(n)
        /\ claim'[n] = claim[n] \/ (claim[n] = "held" /\ claim'[n] = "lapsed")
    BY <1>1 DEF IInv, Core, Fits, Fwd, Bck
  <2> QED BY <2>1 DEF FitsNode, FitsPending, FitsActive, FitsWaiting, FitsRunning,
                      FitsSucceeded, FitsEnded, FitsBack
<1>3. Core'
  <2>1. ProjectionExact'
    BY <1>1, LapseExact DEF IInv, Core
  <2>2. InOrder' /\ Quiet' /\ Frozen'
    BY <1>1 DEF IInv, Core, InOrder, Quiet, Frozen, Fwd, Bck, Started, Selected,
                BranchesInto, Pred, Nodes
  <2>3. PlanFits' /\ PlanOrder' /\ BackInWaves' /\ Ends'
    BY <1>1 DEF IInv, Core, PlanFits, PlanOrder, BackInWaves, Ends, Fwd, Bck, Started,
                Succ, Nodes
  <2> QED BY <1>2, <2>1, <2>2, <2>3 DEF Core, Fits, Nodes
<1>4. TypeTables'
  BY <1>1 DEF IInv, TypeOK, TypeTables, RowType
<1>5. DriverFits' /\ at' # "claim"
  <2>1. lapses' \in 0..MaxLapses
    BY <1>1, BoundAssumption DEF IInv, TypeOK
  <2>2. TypeDriver'
    BY <1>1, <2>1 DEF IInv, TypeOK, TypeDriver, Phase
  <2>3. AtFits' /\ PlanPhase' /\ InWave' /\ RoutedIsPersisted'
    BY <1>1 DEF IInv, Drive, AtFits, PlanPhase, InWave, RoutedIsPersisted, CompPhases
  <2> QED BY <1>1, <2>2, <2>3 DEF DriverFits
<1> QED BY <1>3, <1>4, <1>5, TableMoves

\* A branch decision concerns no node that has been claimed or started.
LEMMA DecisionStep ==
  ASSUME IInv, NEW d \in Decisions, NEW o \in Outcomes(d),
         record_effect_dag_branch_decision(d, o)
  PROVE  IInv'
<1>1. /\ UNCHANGED <<graph, cancel, node, claim, attempt, grant, plan, task, at,
                     todo, asking, held, denied, wave, stop, routed, lapses>>
      /\ at = "decide" /\ decided[d] = "none" /\ decided' = [decided EXCEPT ![d] = o]
      /\ batch' = batch \cup {d[1]}
  BY DEF record_effect_dag_branch_decision, Undecided, Keep
<1>2. /\ ProjectionExact' /\ row' \in [Nodes -> RowType] /\ ready_node_count' \in Nat
  BY DecisionExact DEF IInv, Core
<1>3. /\ d[1] \in Nodes /\ o \in {e.outcome : e \in Conditional}
      /\ decided \in [Decisions -> {"none"} \cup {e.outcome : e \in Conditional}]
  <2>1. PICK e \in Conditional : d = <<e.from, e.key>>
    BY DEF Decisions
  <2>2. d[1] \in Nodes
    BY <2>1, DagAssumption DEF ValidDag
  <2>3. o \in {f.outcome : f \in Conditional}
    BY DEF Outcomes
  <2> QED BY <2>2, <2>3 DEF IInv, TypeOK
<1>4. decided' \in [Decisions -> {"none"} \cup {e.outcome : e \in Conditional}]
  BY <1>1, <1>3
<1>5. ASSUME NEW n \in Nodes, Selected(n)
      PROVE  Selected(n)'
  <2>1. \A e \in BranchesInto(n) : /\ <<e.from, e.key>> \in Decisions
                                   /\ decided[<<e.from, e.key>>] = e.outcome /\ e.outcome # "none"
    BY <1>5, DagAssumption DEF Selected, BranchesInto, Decisions, ValidDag
  <2>2. \A e \in BranchesInto(n) : decided'[<<e.from, e.key>>] = e.outcome
    BY <1>1, <1>3, <2>1
  <2> QED BY <2>2 DEF Selected, BranchesInto
<1>6. Fits'
  BY <1>1, FitsSame DEF IInv, Core, Fits, Fwd, Bck, Nodes
<1>7. InOrder'
  BY <1>1, <1>5 DEF IInv, Core, InOrder, Fwd, Started, Pred, Nodes
<1>8. Quiet' /\ Frozen' /\ PlanFits' /\ PlanOrder' /\ BackInWaves' /\ Ends'
  BY <1>1 DEF IInv, Core, Quiet, Frozen, PlanFits, PlanOrder, BackInWaves, Ends, Fwd, Bck,
              Started, Succ, Nodes
<1>9. Core'
  BY <1>2, <1>6, <1>7, <1>8 DEF Core
<1>10. TypeTables'
  BY <1>1, <1>2, <1>4 DEF IInv, TypeOK, TypeTables
<1>11. DriverFits' /\ at' # "claim"
  BY <1>1, <1>3 DEF IInv, TypeOK, Drive, DriverFits, TypeDriver, AtFits, PlanPhase,
                    InWave, RoutedIsPersisted, CompPhases
<1> QED BY <1>9, <1>10, <1>11, TableMoves

\* A node that waited for its approval goes back to where it rested.
LEMMA WaitingStep ==
  ASSUME IInv, prepare_waiting
  PROVE  IInv'
<1>0. PICK n : n = Current
  OBVIOUS
<1> DEFINE g == IF Kind = "forward" THEN "active" ELSE "compensating"
<1>1. /\ Preparing /\ batch' = batch \ {n} /\ asking' = FALSE
      /\ UNCHANGED <<cancel, attempt, grant, decided, plan, task, at, todo, wave,
                     stop, routed, lapses>>
      /\ \/ node[n] = "waiting_approval" /\ RecordOne(n, Resting, claim[n], g)
         \/ UNCHANGED <<graph, node, claim, row, ready_node_count>>
      /\ held' \in BOOLEAN /\ denied' \in BOOLEAN
  BY <1>0 DEF prepare_waiting, NextNode, Keep, IInv, TypeOK
<1>2. /\ n \in Nodes
      /\ Kind = "forward" => plan = <<>>
      /\ Kind = "compensation" => at = "comp_prepare" /\ plan # <<>> /\ Fwd(n) = "succeeded"
      /\ Kind \in Kinds
  BY <1>0, <1>1, CurrentInBatch
<1>3. CASE UNCHANGED <<graph, node, claim, row, ready_node_count>>
  <2>1. Core'
    BY <1>1, <1>3, TablesKept DEF IInv
  <2>2. TypeTables'
    BY <1>1, <1>3 DEF IInv, TypeOK, TypeTables, RowType
  <2>3. DriverFits'
    <3>1. task \in {"running", "waiting", "reconciling", "ended"}
      BY DEF IInv, TypeOK
    <3> QED BY <1>1, <1>3, <3>1, BatchShrinks
  <2> QED BY <1>1, <2>1, <2>2, <2>3, TableMoves DEF Preparing
<1>4. CASE node[n] = "waiting_approval" /\ RecordOne(n, Resting, claim[n], g)
  <2>1. /\ Resting \in NodeStatus /\ claim[n] \in {"none", "held", "lapsed"}
        /\ TypeOK /\ Core /\ ProjectionExact /\ decided' = decided
    BY <1>1, <1>2 DEF IInv, TypeOK, Core, Resting, NodeStatus
  <2>2. /\ node'[n] = Resting /\ claim'[n] = claim[n] /\ graph' = g
        /\ node' \in [Nodes -> NodeStatus]
        /\ claim' \in [Nodes -> {"none", "held", "lapsed"}]
        /\ row' \in [Nodes -> RowType] /\ ready_node_count' \in Nat
    BY <1>2, <1>4, <2>1, OneNode
  <2>3. \A m \in Nodes : Fwd(m)' = Fwd(m) /\ Bck(m)' = Bck(m)
    BY <1>1 DEF Fwd, Bck
  <2>4. FitsNode(n)
    BY <1>2 DEF IInv, Core, Fits
  <2>5. Core'
    <3>1. CASE Kind = "forward"
      <4>1. /\ plan = <<>> /\ plan' = <<>> /\ Resting = "pending" /\ g = "active"
            /\ \A m \in Nodes : Bck(m) = "none"
            /\ Fwd(n) # "succeeded"
        BY <1>1, <1>2, <1>4, <3>1 DEF Resting, IInv, Core, Quiet
      <4>2. FitsNode(n)'
        BY <1>2, <1>4, <2>2, <2>3, <2>4, <4>1
           DEF FitsNode, FitsPending, FitsActive, FitsWaiting, FitsRunning,
               FitsSucceeded, FitsEnded, FitsBack
      <4>3. RecordOne(n, "pending", claim[n], "active")
        BY <1>4, <4>1
      <4>4. "pending" \in NodeStatus
        BY DEF NodeStatus
      <4>5. (\A m \in Nodes : Bck(m)' = "none" /\ (m # n => Fwd(m)' = Fwd(m)))
            /\ Fwd(n)' # "succeeded"
            /\ (Fwd(n)' \in {"running", "succeeded", "unknown"} => Started(<<"forward", n>>))
        BY <1>2, <2>3, <4>1 DEF Started, Fwd
      <4> QED BY <1>2, <2>1, <4>1, <4>2, <4>3, <4>4, <4>5, ForwardNode
    <3>2. CASE Kind = "compensation"
      <4>1. /\ plan # <<>> /\ plan' = plan /\ Resting = "succeeded" /\ g = "compensating"
            /\ Fwd(n) = "succeeded" /\ Bck(n) \in Ahead
        BY <1>1, <1>2, <1>4, <2>4, <3>2 DEF Resting, FitsNode, FitsWaiting, Ahead
      <4>2. FitsNode(n)'
        BY <1>2, <1>4, <2>2, <2>3, <2>4, <4>1
           DEF FitsNode, FitsPending, FitsActive, FitsWaiting, FitsRunning,
               FitsSucceeded, FitsEnded, FitsBack
      <4>3. RecordOne(n, "succeeded", claim[n], "compensating")
        BY <1>4, <4>1
      <4>4. "succeeded" \in NodeStatus
        BY DEF NodeStatus
      <4>5. (\A m \in Nodes : Fwd(m)' = Fwd(m) /\ (m # n => Bck(m)' = Bck(m)))
            /\ Bck(n) # "succeeded" /\ Bck(n)' \notin {"running", "succeeded", "unknown"}
        BY <1>2, <2>3, <4>1 DEF Ahead
      <4> QED BY <1>2, <2>1, <4>1, <4>2, <4>3, <4>4, <4>5, BackwardNode
    <3> QED BY <1>2, <3>1, <3>2 DEF Kinds
  <2>6. TypeTables'
    BY <1>1, <2>2 DEF IInv, TypeOK, TypeTables, GraphStatus
  <2>7. DriverFits'
    <3>1. task \in {"running", "waiting", "reconciling", "ended"}
      BY DEF IInv, TypeOK
    <3>2. \/ graph' = "active" /\ plan = <<>> /\ at \in {"refresh", "prepare"}
          \/ graph' = "compensating" /\ at \in CompPhases
      BY <1>1, <1>2, <2>2 DEF Preparing, Kind, CompPhases
    <3> QED BY <1>1, <3>1, <3>2, BatchShrinks
  <2> QED BY <1>1, <2>5, <2>6, <2>7, TableMoves DEF Preparing
<1> QED BY <1>1, <1>3, <1>4

\* One attempt and the status of its node move together.
LEMMA NodeStep ==
  ASSUME IInv, UNCHANGED <<cancel, grant, decided, plan, at, todo, wave, stop, routed, lapses>>,
         batch' \subseteq batch, asking' \in BOOLEAN, held' \in BOOLEAN, denied' \in BOOLEAN,
         task' \in {"running", "waiting", "reconciling", "ended"},
         NEW n \in Nodes, NEW k \in Kinds, NEW s \in NodeStatus,
         NEW c \in {"none", "held", "lapsed"}, NEW f \in AttemptStatus,
         attempt' = [attempt EXCEPT ![<<k, n>>] = f],
         RecordOne(n, s, c, IF k = "forward" THEN "active" ELSE "compensating"),
         (/\ node'[n] = s /\ claim'[n] = c
          /\ Fwd(n)' = (IF k = "forward" THEN f ELSE Fwd(n))
          /\ Bck(n)' = (IF k = "forward" THEN Bck(n) ELSE f)) => FitsNode(n)',
         k = "forward" =>
           /\ plan = <<>> /\ at \in {"refresh", "prepare", "run"}
           /\ Fwd(n) # "succeeded" /\ (f = "succeeded" => s = "succeeded")
           /\ s = "active" \/ f \in {"running", "succeeded", "unknown"} =>
                node[n] = "active" \/ Started(<<"forward", n>>),
         k = "compensation" =>
           /\ plan # <<>> /\ at \in {"comp_prepare", "comp_run"}
           /\ Fwd(n) = "succeeded" /\ Bck(n) # "succeeded" /\ s # "active"
           /\ s = "compensating" \/ f \in {"running", "succeeded", "unknown"} =>
                node[n] = "compensating" \/ Started(<<"compensation", n>>)
  PROVE  IInv'
<1> DEFINE g == IF k = "forward" THEN "active" ELSE "compensating"
<1>1. attempt \in [Kinds \X Nodes -> AttemptStatus]
  BY DEF IInv, TypeOK
<1>2. attempt' \in [Kinds \X Nodes -> AttemptStatus]
  BY <1>1
<1>3. /\ Fwd(n)' = (IF k = "forward" THEN f ELSE Fwd(n))
      /\ Bck(n)' = (IF k = "forward" THEN Bck(n) ELSE f)
      /\ \A m \in Nodes \ {n} : Fwd(m)' = Fwd(m) /\ Bck(m)' = Bck(m)
  <2>1. \A a \in Kinds \X Nodes : attempt'[a] = IF a = <<k, n>> THEN f ELSE attempt[a]
    BY <1>1
  <2>2. \A m \in Nodes : <<"forward", m>> \in Kinds \X Nodes /\ <<"compensation", m>> \in Kinds \X Nodes
    BY DEF Kinds
  <2> QED BY <2>1, <2>2 DEF Fwd, Bck, Kinds
<1>4. TypeOK /\ Core /\ ProjectionExact /\ decided' = decided /\ RecordOne(n, s, c, g)
  BY DEF IInv, Core
<1>5. /\ node'[n] = s /\ claim'[n] = c /\ graph' = g
      /\ node' \in [Nodes -> NodeStatus]
      /\ claim' \in [Nodes -> {"none", "held", "lapsed"}]
      /\ row' \in [Nodes -> RowType] /\ ready_node_count' \in Nat
  <2> HIDE DEF g
  <2> QED BY <1>4, OneNode
<1>6. FitsNode(n)'
  BY <1>3, <1>5
<1>7. Core'
  <2>1. CASE k = "forward"
    <3>1. /\ plan = <<>> /\ plan' = <<>> /\ g = "active" /\ Fwd(n) # "succeeded"
          /\ Fwd(n)' = f /\ Bck(n)' = Bck(n)
          /\ f = "succeeded" => s = "succeeded"
          /\ s = "active" \/ f \in {"running", "succeeded", "unknown"} =>
                node[n] = "active" \/ Started(<<"forward", n>>)
      BY <1>3, <2>1
    <3>2. \A m \in Nodes : Bck(m) = "none"
      BY <1>4, <3>1 DEF Core, Quiet
    <3>3. \A m \in Nodes : Bck(m)' = "none" /\ (m # n => Fwd(m)' = Fwd(m))
      BY <1>3, <3>1, <3>2
    <3>4. RecordOne(n, s, c, "active")
      BY <1>4, <3>1
    <3>5. Fwd(n)' = "succeeded" => s = "succeeded"
      BY <3>1
    <3>6. s = "active" \/ Fwd(n)' \in {"running", "succeeded", "unknown"} =>
            node[n] = "active" \/ Started(<<"forward", n>>)
      BY <3>1
    <3> QED BY <1>4, <1>6, <3>1, <3>3, <3>4, <3>5, <3>6, ForwardNode
  <2>2. CASE k = "compensation"
    <3>1. /\ plan # <<>> /\ plan' = plan /\ g = "compensating" /\ Fwd(n) = "succeeded"
          /\ Fwd(n)' = Fwd(n) /\ Bck(n)' = f /\ Bck(n) # "succeeded" /\ s # "active"
          /\ s = "compensating" \/ f \in {"running", "succeeded", "unknown"} =>
                node[n] = "compensating" \/ Started(<<"compensation", n>>)
      BY <1>3, <2>2
    <3>2. \A m \in Nodes : Fwd(m)' = Fwd(m) /\ (m # n => Bck(m)' = Bck(m))
      BY <1>3, <3>1
    <3>3. RecordOne(n, s, c, "compensating")
      BY <1>4, <3>1
    <3>4. s = "compensating" \/ Bck(n)' \in {"running", "succeeded", "unknown"} =>
            node[n] = "compensating" \/ Started(<<"compensation", n>>)
      BY <3>1
    <3> QED BY <1>4, <1>6, <3>1, <3>2, <3>3, <3>4, BackwardNode
  <2> QED BY <2>1, <2>2 DEF Kinds
<1>8. TypeTables'
  BY <1>2, <1>5 DEF IInv, TypeOK, TypeTables, GraphStatus
<1>9. at \in {"refresh", "prepare", "run", "comp_prepare", "comp_run"}
  BY DEF Kinds
<1>10. DriverFits'
  <2>1. \/ graph' = "active" /\ plan = <<>> /\ at \in {"refresh", "ready", "prepare", "run"}
        \/ graph' = "compensating" /\ at \in CompPhases
    BY <1>5 DEF Kinds, CompPhases
  <2> QED BY <2>1, BatchShrinks
<1> QED BY <1>7, <1>8, <1>9, <1>10, TableMoves

\* What Fits says of a node that is denied or waits, starts or ends.
LEMMA SettleStep ==
  ASSUME IInv, settle_prepared
  PROVE  IInv'
<1>0. PICK n : n = Current
  OBVIOUS
<1>0a. PICK k : k = Kind
  OBVIOUS
<1> DEFINE g == IF k = "forward" THEN "active" ELSE "compensating"
           s == IF k = "forward" THEN "failed" ELSE "compensation_failed"
<1>1. /\ Preparing /\ batch' = batch \ {n} /\ asking' = FALSE
      /\ UNCHANGED <<cancel, grant, decided, plan, task, at, todo, wave,
                     stop, routed, lapses>>
      /\ held' \in BOOLEAN /\ denied' \in BOOLEAN
      /\ \/ UNCHANGED <<graph, node, claim, row, ready_node_count, attempt>>
         \/ /\ node[n] = Resting /\ RecordOne(n, s, claim[n], g)
            /\ attempt' = [attempt EXCEPT ![<<k, n>>] = "failed"]
         \/ /\ node[n] = Resting /\ RecordOne(n, "waiting_approval", claim[n], g)
            /\ attempt' = attempt
  BY <1>0, <1>0a, Zenon DEF settle_prepared, NextNode, Keep, IInv, TypeOK
<1>2. /\ n \in Nodes /\ k \in Kinds
      /\ k = "forward" => plan = <<>> /\ at \in {"refresh", "prepare"} /\ Resting = "pending"
      /\ k = "compensation" => /\ at = "comp_prepare" /\ plan # <<>> /\ Fwd(n) = "succeeded"
                               /\ Resting = "succeeded"
  BY <1>0, <1>0a, <1>1, CurrentInBatch DEF Preparing, Kind, Resting
<1>3. /\ task \in {"running", "waiting", "reconciling", "ended"}
      /\ claim[n] \in {"none", "held", "lapsed"}
      /\ attempt \in [Kinds \X Nodes -> AttemptStatus]
      /\ FitsNode(n)
  BY <1>2 DEF IInv, TypeOK, Core, Fits
<1>4. CASE UNCHANGED <<graph, node, claim, row, ready_node_count, attempt>>
  <2>1. Core'
    BY <1>1, <1>4, TablesKept DEF IInv
  <2>2. TypeTables'
    BY <1>1, <1>4 DEF IInv, TypeOK, TypeTables, RowType
  <2>3. DriverFits'
    BY <1>1, <1>3, <1>4, BatchShrinks
  <2> QED BY <1>1, <2>1, <2>2, <2>3, TableMoves DEF Preparing
<1>5. /\ node[n] = Resting /\ k = "forward" =>
           Fwd(n) \in Ahead /\ Bck(n) = "none" /\ claim[n] = "none"
      /\ node[n] = Resting /\ k = "compensation" => Bck(n) \in Ahead /\ claim[n] = "none"
  BY <1>2, <1>3 DEF FitsNode, FitsPending, FitsSucceeded
<1>6. CASE /\ node[n] = Resting /\ RecordOne(n, s, claim[n], g)
           /\ attempt' = [attempt EXCEPT ![<<k, n>>] = "failed"]
  <2>1. (/\ node'[n] = s /\ claim'[n] = claim[n]
         /\ Fwd(n)' = (IF k = "forward" THEN "failed" ELSE Fwd(n))
         /\ Bck(n)' = (IF k = "forward" THEN Bck(n) ELSE "failed")) => FitsNode(n)'
    BY <1>2, <1>5, <1>6
       DEF FitsNode, FitsPending, FitsActive, FitsWaiting, FitsRunning,
           FitsSucceeded, FitsEnded, FitsBack, Kinds, Ahead
  <2>2. s \in NodeStatus /\ "failed" \in AttemptStatus /\ s \notin {"active", "compensating"}
    BY DEF NodeStatus, AttemptStatus
  <2>3. Fwd(n) \in Ahead => Fwd(n) # "succeeded"
    BY DEF Ahead
  <2>4. Bck(n) \in Ahead => Bck(n) # "succeeded"
    BY DEF Ahead
  <2> HIDE DEF s
  <2>5. PICK c : c = claim[n] /\ c \in {"none", "held", "lapsed"}
    BY <1>3
  <2>6. /\ k = "forward" =>
             /\ plan = <<>> /\ at \in {"refresh", "prepare", "run"}
             /\ Fwd(n) # "succeeded" /\ s # "active"
        /\ k = "compensation" =>
             /\ plan # <<>> /\ at \in {"comp_prepare", "comp_run"}
             /\ Fwd(n) = "succeeded" /\ Bck(n) # "succeeded"
             /\ s # "active" /\ s # "compensating"
    BY <1>2, <1>5, <1>6, <2>2, <2>3, <2>4
  <2>7. /\ UNCHANGED <<cancel, grant, decided, plan, at, todo, wave, stop, routed, lapses>>
        /\ batch' \subseteq batch /\ asking' \in BOOLEAN /\ held' \in BOOLEAN
        /\ denied' \in BOOLEAN /\ task' \in {"running", "waiting", "reconciling", "ended"}
        /\ n \in Nodes /\ k \in Kinds /\ RecordOne(n, s, c, g)
        /\ attempt' = [attempt EXCEPT ![<<k, n>>] = "failed"]
    BY <1>1, <1>2, <1>3, <1>6, <2>5
  <2>8. (/\ node'[n] = s /\ claim'[n] = c
         /\ Fwd(n)' = (IF k = "forward" THEN "failed" ELSE Fwd(n))
         /\ Bck(n)' = (IF k = "forward" THEN Bck(n) ELSE "failed")) => FitsNode(n)'
    BY <2>1, <2>5
  <2> QED BY <2>2, <2>5, <2>6, <2>7, <2>8, NodeStep
<1>7. CASE /\ node[n] = Resting /\ RecordOne(n, "waiting_approval", claim[n], g)
           /\ attempt' = attempt
  <2>0. PICK f : f = attempt[<<k, n>>]
    OBVIOUS
  <2>1. attempt' = [attempt EXCEPT ![<<k, n>>] = f] /\ f \in AttemptStatus
    BY <1>2, <1>3, <1>7, <2>0
  <2>2. f \in Ahead /\ (k = "forward" => f = Fwd(n)) /\ (k = "compensation" => f = Bck(n))
    BY <1>2, <1>5, <1>7, <2>0 DEF Fwd, Bck, Kinds
  <2>3. (/\ node'[n] = "waiting_approval" /\ claim'[n] = claim[n]
         /\ Fwd(n)' = (IF k = "forward" THEN f ELSE Fwd(n))
         /\ Bck(n)' = (IF k = "forward" THEN Bck(n) ELSE f)) => FitsNode(n)'
    BY <1>2, <1>5, <1>7, <2>2
       DEF FitsNode, FitsPending, FitsActive, FitsWaiting, FitsRunning,
           FitsSucceeded, FitsEnded, FitsBack, Kinds
  <2>4. "waiting_approval" \in NodeStatus /\ f \notin {"running", "succeeded", "unknown"}
    BY <2>2 DEF NodeStatus, Ahead
  <2>5. PICK c : c = claim[n] /\ c \in {"none", "held", "lapsed"}
    BY <1>3
  <2>6. /\ k = "forward" =>
             /\ plan = <<>> /\ at \in {"refresh", "prepare", "run"}
             /\ Fwd(n) # "succeeded" /\ f # "succeeded"
        /\ k = "compensation" =>
             /\ plan # <<>> /\ at \in {"comp_prepare", "comp_run"}
             /\ Fwd(n) = "succeeded" /\ Bck(n) # "succeeded"
    BY <1>2, <1>5, <1>7, <2>2, <2>4 DEF Ahead
  <2>7. /\ UNCHANGED <<cancel, grant, decided, plan, at, todo, wave, stop, routed, lapses>>
        /\ batch' \subseteq batch /\ asking' \in BOOLEAN /\ held' \in BOOLEAN
        /\ denied' \in BOOLEAN /\ task' \in {"running", "waiting", "reconciling", "ended"}
        /\ n \in Nodes /\ k \in Kinds /\ RecordOne(n, "waiting_approval", c, g)
    BY <1>1, <1>2, <1>3, <1>7, <2>5
  <2>8. (/\ node'[n] = "waiting_approval" /\ claim'[n] = c
         /\ Fwd(n)' = (IF k = "forward" THEN f ELSE Fwd(n))
         /\ Bck(n)' = (IF k = "forward" THEN Bck(n) ELSE f)) => FitsNode(n)'
    BY <2>3, <2>5
  <2> QED BY <2>1, <2>4, <2>5, <2>6, <2>7, <2>8, NodeStep
<1> QED BY <1>1, <1>4, <1>6, <1>7

\* What the executor works on.
LEMMA ExecutingNode ==
  ASSUME IInv, NEW n \in Nodes, Executing(n)
  PROVE  /\ ExecKind = "forward" =>
              at = "run" /\ plan = <<>> /\ graph = "active" /\ ExecGraph = "active"
              /\ Bck(n) = "none"
         /\ ExecKind = "compensation" =>
              at = "comp_run" /\ plan # <<>> /\ ExecGraph = "compensating" /\ Fwd(n) = "succeeded"
         /\ ExecKind \in Kinds /\ FitsNode(n) /\ claim[n] = "held"
<1>1. FitsNode(n) /\ claim[n] = "held"
  BY DEF IInv, Core, Fits, Executing
<1>2. CASE at = "run"
  <2>1. plan = <<>> /\ graph = "active"
    BY <1>2 DEF IInv, Drive, PlanPhase, CompPhases, AtFits
  <2>2. Bck(n) = "none"
    BY <2>1 DEF IInv, Core, Quiet
  <2> QED BY <1>1, <1>2, <2>1, <2>2 DEF ExecKind, ExecGraph, Kinds
<1>3. CASE at = "comp_run"
  <2>1. wave \in 1..Len(plan) /\ n \in plan[wave] /\ plan \in Seq(SUBSET Nodes)
    BY <1>3 DEF IInv, TypeOK, Drive, InWave, CompPhases, Executing
  <2>2. plan # <<>>
    BY <2>1
  <2>3. Fwd(n) = "succeeded"
    BY <2>1, <2>2 DEF IInv, Core, PlanFits
  <2> QED BY <1>1, <1>3, <2>2, <2>3 DEF ExecKind, ExecGraph, Kinds
<1> QED BY <1>2, <1>3 DEF Executing

\* The dispatch of a node keeps the invariant ...
LEMMA StartStep ==
  ASSUME IInv, NEW n \in Nodes, start_tool_call(n)
  PROVE  IInv'
<1>0. PICK k : k = ExecKind
  OBVIOUS
<1>1. /\ Executing(n) /\ attempt[<<k, n>>] = "requested"
      /\ attempt' = [attempt EXCEPT ![<<k, n>>] = "running"]
      /\ RecordOne(n, "running", claim[n], ExecGraph)
      /\ node[n] = Claimed
      /\ UNCHANGED <<cancel, grant, decided, plan, task, at, batch, todo, asking, held,
                     denied, wave, stop, routed, lapses>>
  BY <1>0 DEF start_tool_call, driver, Keep
<1>2. /\ k = "forward" => /\ at = "run" /\ plan = <<>> /\ ExecGraph = "active"
                          /\ Bck(n) = "none" /\ node[n] = "active"
      /\ k = "compensation" => /\ at = "comp_run" /\ plan # <<>> /\ ExecGraph = "compensating"
                               /\ Fwd(n) = "succeeded" /\ node[n] = "compensating"
      /\ k \in Kinds /\ FitsNode(n) /\ claim[n] = "held"
  BY <1>0, <1>1, ExecutingNode DEF Claimed
<1>3. /\ k = "forward" => Fwd(n) = "requested"
      /\ k = "compensation" => Bck(n) = "requested"
  BY <1>1 DEF Fwd, Bck
<1>4. (/\ node'[n] = "running" /\ claim'[n] = "held"
       /\ Fwd(n)' = (IF k = "forward" THEN "running" ELSE Fwd(n))
       /\ Bck(n)' = (IF k = "forward" THEN Bck(n) ELSE "running")) => FitsNode(n)'
  BY <1>2, <1>3
     DEF FitsNode, FitsPending, FitsActive, FitsWaiting, FitsRunning,
         FitsSucceeded, FitsEnded, FitsBack, Kinds
<1>5. RecordOne(n, "running", "held", IF k = "forward" THEN "active" ELSE "compensating")
  BY <1>1, <1>2 DEF Kinds
<1>6. "running" \in NodeStatus /\ "running" \in AttemptStatus
  BY DEF NodeStatus, AttemptStatus
<1>7. /\ k = "forward" =>
           /\ plan = <<>> /\ at \in {"refresh", "prepare", "run"}
           /\ Fwd(n) # "succeeded" /\ node[n] = "active"
      /\ k = "compensation" =>
           /\ plan # <<>> /\ at \in {"comp_prepare", "comp_run"}
           /\ Fwd(n) = "succeeded" /\ Bck(n) # "succeeded" /\ node[n] = "compensating"
  BY <1>2, <1>3
<1>8. /\ UNCHANGED <<cancel, grant, decided, plan, at, todo, wave, stop, routed, lapses>>
      /\ batch' \subseteq batch /\ asking' \in BOOLEAN /\ held' \in BOOLEAN
      /\ denied' \in BOOLEAN /\ task' \in {"running", "waiting", "reconciling", "ended"}
  BY <1>1 DEF IInv, TypeOK
<1> QED BY <1>1, <1>2, <1>4, <1>5, <1>6, <1>7, <1>8, NodeStep

\* ... its result does ...
LEMMA FinishStep ==
  ASSUME IInv, NEW n \in Nodes, NEW f \in {"succeeded", "failed", "cancelled", "unknown"},
         finish_effect_tool_call(n, f)
  PROVE  IInv'
<1>0. PICK k, s : k = ExecKind /\ s = TargetStatus(f)
  OBVIOUS
<1>1. /\ Executing(n)
      /\ \/ attempt[<<k, n>>] = "running"
         \/ attempt[<<k, n>>] = "requested" /\ f \in {"failed", "cancelled"}
      /\ attempt' = [attempt EXCEPT ![<<k, n>>] = f]
      /\ RecordOne(n, s, "none", ExecGraph)
      /\ batch' = batch \ {n} /\ task' \in {task, "reconciling"}
      /\ UNCHANGED <<cancel, grant, decided, plan, at, todo, asking, held, denied, wave,
                     stop, routed, lapses>>
  BY <1>0 DEF finish_effect_tool_call, Keep
<1>2. /\ k = "forward" => /\ at = "run" /\ plan = <<>> /\ ExecGraph = "active"
                          /\ Bck(n) = "none" /\ s = f
      /\ k = "compensation" =>
           /\ at = "comp_run" /\ plan # <<>> /\ ExecGraph = "compensating"
           /\ Fwd(n) = "succeeded"
           /\ s = IF f = "succeeded" THEN "compensated"
                  ELSE IF f = "unknown" THEN "compensation_unknown" ELSE "compensation_failed"
      /\ k \in Kinds /\ FitsNode(n) /\ claim[n] = "held"
  BY <1>0, <1>1, ExecutingNode DEF TargetStatus
<1>3. /\ k = "forward" => Fwd(n) = "running" \/ (Fwd(n) = "requested" /\ f \in {"failed", "cancelled"})
      /\ k = "compensation" => Bck(n) = "running" \/ (Bck(n) = "requested" /\ f \in {"failed", "cancelled"})
  BY <1>1 DEF Fwd, Bck
<1>4. (/\ node'[n] = s /\ claim'[n] = "none"
       /\ Fwd(n)' = (IF k = "forward" THEN f ELSE Fwd(n))
       /\ Bck(n)' = (IF k = "forward" THEN Bck(n) ELSE f)) => FitsNode(n)'
  <2>1. CASE k = "forward"
    BY <1>2, <1>3, <2>1
       DEF FitsNode, FitsPending, FitsActive, FitsWaiting, FitsRunning,
           FitsSucceeded, FitsEnded, FitsBack, Ahead
  <2>2. CASE k = "compensation"
    BY <1>2, <1>3, <2>2
       DEF FitsNode, FitsPending, FitsActive, FitsWaiting, FitsRunning,
           FitsSucceeded, FitsEnded, FitsBack, Ahead
  <2> QED BY <1>2, <2>1, <2>2 DEF Kinds
<1>5. RecordOne(n, s, "none", IF k = "forward" THEN "active" ELSE "compensating")
  BY <1>1, <1>2 DEF Kinds
<1>6. s \in NodeStatus /\ f \in AttemptStatus /\ s \notin {"active", "compensating"}
  BY <1>2 DEF NodeStatus, AttemptStatus, Kinds
<1>7. /\ k = "forward" =>
           /\ plan = <<>> /\ at \in {"refresh", "prepare", "run"}
           /\ Fwd(n) # "succeeded" /\ (f = "succeeded" => s = "succeeded")
           /\ f \in {"running", "succeeded", "unknown"} => Started(<<"forward", n>>)
      /\ k = "compensation" =>
           /\ plan # <<>> /\ at \in {"comp_prepare", "comp_run"}
           /\ Fwd(n) = "succeeded" /\ Bck(n) # "succeeded"
           /\ f \in {"running", "succeeded", "unknown"} => Started(<<"compensation", n>>)
  BY <1>2, <1>3 DEF Started, Fwd, Bck
<1>8. /\ UNCHANGED <<cancel, grant, decided, plan, at, todo, wave, stop, routed, lapses>>
      /\ batch' \subseteq batch /\ asking' \in BOOLEAN /\ held' \in BOOLEAN
      /\ denied' \in BOOLEAN /\ task' \in {"running", "waiting", "reconciling", "ended"}
  BY <1>1 DEF IInv, TypeOK
<1> QED BY <1>1, <1>2, <1>4, <1>5, <1>6, <1>7, <1>8, NodeStep

\* ... and so does a result that is refused.
LEMMA RefusedStep ==
  ASSUME IInv, NEW n \in Nodes, result_refused(n)
  PROVE  IInv'
<1>1. CASE node[n] # "active"
  <2>1. /\ at' = "gone" /\ batch' = {} /\ todo' = {} /\ asking' = FALSE
        /\ task' = "ended" /\ UNCHANGED <<tables, held, denied, wave, stop, routed, lapses>>
    BY <1>1 DEF result_refused, Fail, Keep
  <2>2. DriverFits'
    BY <2>1 DEF IInv, TypeOK, Drive, DriverFits, TypeDriver, AtFits, PlanPhase, InWave,
                RoutedIsPersisted, Phase, CompPhases, tables
  <2>3. cancel' \in BOOLEAN /\ grant' \in [Kinds \X Nodes -> GrantStatus]
    BY <2>1 DEF IInv, TypeOK, tables
  <2> QED BY <2>1, <2>2, <2>3, DriverMoves DEF tables
<1>2. CASE node[n] = "active"
  <2>1. /\ Executing(n) /\ RecordOne(n, "unknown", "none", graph)
        /\ batch' = batch \ {n}
        /\ UNCHANGED <<cancel, attempt, grant, decided, plan, task, at, todo, asking, held,
                       denied, wave, stop, routed, lapses>>
    BY <1>2 DEF result_refused, Keep
  <2>2. FitsNode(n) /\ Fwd(n) \in Ahead /\ Bck(n) = "none"
    BY <1>2, <2>1, ExecutingNode DEF FitsNode, FitsActive
  <2>3. at = "run" /\ plan = <<>> /\ graph = "active"
    BY <2>1, <2>2, ExecutingNode DEF Kinds, Ahead
  <2>4. PICK f : f = Fwd(n)
    OBVIOUS
  <2>5. /\ attempt' = [attempt EXCEPT ![<<"forward", n>>] = f]
        /\ f \in AttemptStatus /\ f \notin {"running", "succeeded", "unknown"}
    BY <2>1, <2>2, <2>4 DEF IInv, TypeOK, Fwd, Ahead, AttemptStatus
  <2>6. (/\ node'[n] = "unknown" /\ claim'[n] = "none"
         /\ Fwd(n)' = f /\ Bck(n)' = Bck(n)) => FitsNode(n)'
    BY <1>2, <2>2, <2>4
       DEF FitsNode, FitsPending, FitsActive, FitsWaiting, FitsRunning,
           FitsSucceeded, FitsEnded, FitsBack
  <2>7. /\ UNCHANGED <<cancel, grant, decided, plan, at, todo, wave, stop, routed, lapses>>
        /\ batch' \subseteq batch /\ asking' \in BOOLEAN /\ held' \in BOOLEAN
        /\ denied' \in BOOLEAN /\ task' \in {"running", "waiting", "reconciling", "ended"}
    BY <2>1 DEF IInv, TypeOK
  <2>8. PICK k : k = "forward"
    OBVIOUS
  <2>9. /\ RecordOne(n, "unknown", "none", IF k = "forward" THEN "active" ELSE "compensating")
        /\ "unknown" \in NodeStatus /\ k \in Kinds
        /\ attempt' = [attempt EXCEPT ![<<k, n>>] = f]
    BY <2>1, <2>3, <2>5, <2>8 DEF NodeStatus, Kinds
  <2>10. (/\ node'[n] = "unknown" /\ claim'[n] = "none"
          /\ Fwd(n)' = (IF k = "forward" THEN f ELSE Fwd(n))
          /\ Bck(n)' = (IF k = "forward" THEN Bck(n) ELSE f)) => FitsNode(n)'
    BY <2>6, <2>8
  <2>11. /\ k = "forward" =>
              /\ plan = <<>> /\ at \in {"refresh", "prepare", "run"}
              /\ Fwd(n) # "succeeded" /\ f # "succeeded"
         /\ k # "compensation"
    BY <2>2, <2>3, <2>4, <2>8 DEF Ahead
  <2> QED BY <2>5, <2>7, <2>9, <2>10, <2>11, NodeStep
<1> QED BY <1>1, <1>2

\* Ready nodes are claimed for the forward pass.
LEMMA ClaimStep ==
  ASSUME IInv, claim_effect_dag_nodes
  PROVE  IInv'
<1> DEFINE nd == [n \in Nodes |-> IF n \in todo THEN "active" ELSE node[n]]
           cl == [n \in Nodes |-> IF n \in todo THEN "held" ELSE claim[n]]
<1>1. /\ at = "claim" /\ Record(todo, nd, cl, "active")
      /\ at' = "run" /\ batch' = todo /\ todo' = {}
      /\ UNCHANGED <<cancel, attempt, grant, decided, plan, task, asking, held, denied, wave,
                     stop, routed, lapses>>
  BY DEF claim_effect_dag_nodes, Goto, Keep
<1>2. todo \subseteq ReadySet /\ todo \subseteq Nodes /\ plan = <<>>
  BY <1>1 DEF IInv, Drive, SelectedIsReady, PlanPhase, CompPhases, ReadySet
<1>3. node' = nd /\ claim' = cl /\ graph' = "active"
  BY <1>1 DEF Record
<1>4. ProjectionExact' /\ row' \in [Nodes -> RowType] /\ ready_node_count' \in Nat
  <2>1. TypeOK /\ ProjectionExact /\ decided' = decided /\ todo \in SUBSET Nodes
    BY <1>1, <1>2 DEF IInv, Core
  <2>2. \A n \in Nodes \ todo : nd[n] = node[n] /\ cl[n] = claim[n]
    OBVIOUS
  <2> HIDE DEF nd, cl
  <2> QED BY <1>1, <2>1, <2>2, RecordExact
<1>5. ASSUME NEW n \in Nodes
      PROVE  /\ FitsNode(n)'
             /\ node'[n] = "active" => n \in todo \/ node[n] = "active"
             /\ Fwd(n) = "succeeded" => node'[n] = node[n]
  <2>1. /\ FitsNode(n) /\ Fwd(n)' = Fwd(n) /\ Bck(n)' = Bck(n)
    BY <1>1 DEF IInv, Core, Fits, Fwd, Bck
  <2>2. CASE n \in todo
    <3>1. node[n] \in {"pending", "active"} /\ node'[n] = "active" /\ claim'[n] = "held"
      BY <1>2, <1>3, <2>2 DEF ReadySet
    <3> QED BY <2>1, <2>2, <3>1
            DEF FitsNode, FitsPending, FitsActive, FitsWaiting, FitsRunning,
                FitsSucceeded, FitsEnded, FitsBack, Ahead
  <2>3. CASE n \notin todo
    <3>1. node'[n] = node[n] /\ claim'[n] = claim[n]
      BY <1>3, <2>3
    <3> QED BY <2>1, <3>1, FitsSame
  <2> QED BY <2>2, <2>3
<1>6. ASSUME NEW n \in Nodes, node'[n] = "active" \/ Started(<<"forward", n>>)'
      PROVE  /\ \A m \in Pred(n) : Fwd(m)' = "succeeded"
             /\ Selected(n)'
  <2>1. Selected(n)' <=> Selected(n)
    BY <1>1 DEF Selected, BranchesInto
  <2>2. \A m \in Nodes : Fwd(m)' = Fwd(m)
    BY <1>1 DEF Fwd
  <2>3. CASE n \in todo
    <3>1. (\A m \in Pred(n) : node[m] = "succeeded") /\ Selected(n)
      BY <1>2, <2>3 DEF ReadySet
    <3>2. \A m \in Pred(n) : m \in Nodes /\ FitsNode(m)
      BY DEF Pred, IInv, Core, Fits
    <3>3. \A m \in Pred(n) : Fwd(m) = "succeeded"
      BY <3>1, <3>2 DEF FitsNode, FitsSucceeded
    <3> QED BY <2>1, <2>2, <3>1, <3>2, <3>3
  <2>4. CASE n \notin todo
    <3>1. node[n] = "active" \/ Started(<<"forward", n>>)
      BY <1>1, <1>5, <1>6, <2>4 DEF Started
    <3>2. (\A m \in Pred(n) : Fwd(m) = "succeeded") /\ Selected(n)
      BY <3>1 DEF IInv, Core, InOrder
    <3> QED BY <2>1, <2>2, <3>2 DEF Pred
  <2> QED BY <2>3, <2>4
<1>7. InOrder'
  BY <1>6 DEF InOrder, Pred, Nodes
<1>8. Fits' /\ Quiet'
  <2>1. Fits'
    BY <1>5 DEF Fits, Nodes
  <2>2. \A n \in Nodes : /\ Bck(n) = "none"
                         /\ Fwd(n) = "succeeded" => node[n] = "succeeded"
    BY <1>2 DEF IInv, Core, Quiet
  <2>3. Quiet'
    BY <1>1, <1>5, <2>2 DEF Quiet, Fwd, Bck, Nodes
  <2> QED BY <2>1, <2>3
<1>9. Frozen' /\ Ends' /\ plan' = <<>>
  BY <1>1, <1>2, <1>3 DEF Frozen, Ends
<1>10. Core'
  BY <1>4, <1>7, <1>8, <1>9, NoPlanNext DEF Core
<1>11. TypeTables'
  <2>1. node' \in [Nodes -> NodeStatus] /\ claim' \in [Nodes -> {"none", "held", "lapsed"}]
    BY <1>3 DEF IInv, TypeOK, NodeStatus
  <2> QED BY <1>1, <1>3, <1>4, <2>1 DEF IInv, TypeOK, TypeTables, GraphStatus
<1>12. DriverFits' /\ at' # "claim"
  BY <1>1, <1>2, <1>3, <1>9 DEF IInv, TypeOK, Drive, DriverFits, TypeDriver, AtFits,
     PlanPhase, InWave, RoutedIsPersisted, Phase, CompPhases
<1> QED BY <1>10, <1>11, <1>12, TableMoves

\* Nodes of a wave are claimed once the waves before it have been taken back.
LEMMA CompensationClaimStep ==
  ASSUME IInv, claim_effect_dag_compensation_nodes
  PROVE  IInv'
<1>1. PICK S \in SUBSET FirstOf(todo) :
        /\ \A n \in S : node[n] = "succeeded"
        /\ Record(S, [n \in Nodes |-> IF n \in S THEN "compensating" ELSE node[n]],
                  [n \in Nodes |-> IF n \in S THEN "held" ELSE claim[n]], "compensating")
        /\ batch' = S /\ todo' = todo \ S
  BY DEF claim_effect_dag_compensation_nodes
<1> DEFINE nd == [n \in Nodes |-> IF n \in S THEN "compensating" ELSE node[n]]
           cl == [n \in Nodes |-> IF n \in S THEN "held" ELSE claim[n]]
<1>2. /\ at = "comp_claim" /\ graph = "compensating" /\ Barrier /\ at' = "comp_run"
      /\ UNCHANGED <<cancel, attempt, grant, decided, plan, task, asking, held, denied, wave,
                     stop, routed, lapses>>
  BY DEF claim_effect_dag_compensation_nodes, Goto, Keep
<1>3. /\ wave \in 1..Len(plan) /\ todo \subseteq plan[wave] /\ plan # <<>> /\ S \subseteq todo
      /\ plan \in Seq(SUBSET Nodes) /\ S \subseteq Nodes
  <2>1. wave \in 1..Len(plan) /\ todo \subseteq plan[wave] /\ plan \in Seq(SUBSET Nodes)
    BY <1>2 DEF IInv, TypeOK, Drive, InWave, CompPhases
  <2>2. S \subseteq todo
    BY <1>1 DEF FirstOf
  <2> QED BY <2>1, <2>2
<1>4. node' = nd /\ claim' = cl /\ graph' = "compensating"
  BY <1>1 DEF Record
<1>5. ProjectionExact' /\ row' \in [Nodes -> RowType] /\ ready_node_count' \in Nat
  <2>1. TypeOK /\ ProjectionExact /\ decided' = decided /\ S \in SUBSET Nodes
    BY <1>2, <1>3 DEF IInv, Core
  <2>2. \A n \in Nodes \ S : nd[n] = node[n] /\ cl[n] = claim[n]
    OBVIOUS
  <2>3. Record(S, nd, cl, "compensating")
    BY <1>1
  <2> HIDE DEF nd, cl
  <2> QED BY <2>1, <2>2, <2>3, RecordExact
<1>6. \A n \in Nodes : Fwd(n)' = Fwd(n) /\ Bck(n)' = Bck(n)
  BY <1>2 DEF Fwd, Bck
<1>7. ASSUME NEW n \in Nodes
      PROVE  /\ FitsNode(n)'
             /\ node'[n] = "active" => node[n] = "active"
             /\ node'[n] = "compensating" => n \in S \/ node[n] = "compensating"
  <2>1. /\ FitsNode(n) /\ Fwd(n)' = Fwd(n) /\ Bck(n)' = Bck(n)
    BY <1>6 DEF IInv, Core, Fits
  <2>2. CASE n \in S
    <3>1. node[n] = "succeeded" /\ node'[n] = "compensating" /\ claim'[n] = "held"
      BY <1>1, <1>4, <2>2
    <3> QED BY <2>1, <2>2, <3>1
            DEF FitsNode, FitsPending, FitsActive, FitsWaiting, FitsRunning,
                FitsSucceeded, FitsEnded, FitsBack, Ahead
  <2>3. CASE n \notin S
    <3>1. node'[n] = node[n] /\ claim'[n] = claim[n]
      BY <1>4, <2>3
    <3> QED BY <2>1, <2>3, <3>1, FitsSame
  <2> QED BY <2>2, <2>3
<1>8. Fits' /\ InOrder'
  <2>1. Fits'
    BY <1>7 DEF Fits, Nodes
  <2>2. InOrder'
    BY <1>2, <1>7 DEF IInv, Core, InOrder, Fwd, Started, Selected, BranchesInto, Pred, Nodes
  <2> QED BY <2>1, <2>2
<1>9. Quiet' /\ Frozen' /\ PlanFits' /\ PlanOrder' /\ Ends'
  BY <1>2, <1>3, <1>4 DEF IInv, Core, Quiet, Frozen, PlanFits, PlanOrder, Ends, Fwd,
                          Succ, Nodes
<1>10. ASSUME NEW n \in Nodes, node'[n] = "compensating" \/ Started(<<"compensation", n>>)',
              NEW m \in Succ(n), Fwd(m) = "succeeded"
       PROVE  Bck(m) = "succeeded"
  <2>1. CASE n \in S
    <3>1. m \in Nodes /\ FitsNode(m)
      BY DEF Succ, IInv, Core, Fits
    <3>2. PICK i \in 1..Len(plan) : m \in plan[i]
      BY <1>3, <1>10, <3>1 DEF IInv, Core, PlanFits
    <3>3. n \in plan[wave] /\ m \in Succ(n) \cap plan[i]
      BY <1>3, <2>1, <3>2
    <3>4. i < wave
      BY <1>3, <3>2, <3>3 DEF IInv, Core, PlanOrder
    <3>5. i \in 1..(wave - 1)
      BY <1>3, <3>2, <3>4
    <3>6. node[m] = "compensated"
      BY <1>2, <3>2, <3>5 DEF Barrier
    <3> QED BY <3>1, <3>6 DEF FitsNode, FitsBack
  <2>2. CASE n \notin S
    <3>1. node[n] = "compensating" \/ Started(<<"compensation", n>>)
      BY <1>2, <1>7, <1>10, <2>2 DEF Started
    <3> QED BY <1>10, <3>1 DEF IInv, Core, BackInWaves
  <2> QED BY <2>1, <2>2
<1>11. BackInWaves'
  <2>1. \A n \in Nodes : \A m \in Succ(n) : m \in Nodes
    BY DEF Succ
  <2> QED BY <1>6, <1>10, <2>1 DEF BackInWaves, Succ, Nodes
<1>12. Core'
  BY <1>5, <1>8, <1>9, <1>11 DEF Core
<1>13. TypeTables'
  <2>1. node' \in [Nodes -> NodeStatus] /\ claim' \in [Nodes -> {"none", "held", "lapsed"}]
    BY <1>4 DEF IInv, TypeOK, NodeStatus
  <2> QED BY <1>2, <1>4, <1>5, <2>1 DEF IInv, TypeOK, TypeTables, GraphStatus
<1>14. DriverFits' /\ at' # "claim"
  <2>1. batch' \subseteq plan[wave] /\ todo' \subseteq plan[wave] /\ batch' \subseteq Nodes
        /\ todo' \subseteq Nodes
    BY <1>1, <1>3
  <2>2. TypeDriver' /\ InWave'
    BY <1>2, <1>3, <2>1 DEF IInv, TypeOK, TypeDriver, Phase, InWave, CompPhases
  <2>3. AtFits' /\ PlanPhase' /\ RoutedIsPersisted'
    BY <1>2, <1>4 DEF IInv, Drive, AtFits, PlanPhase, RoutedIsPersisted, CompPhases
  <2> QED BY <1>2, <2>2, <2>3 DEF DriverFits
<1> QED BY <1>12, <1>13, <1>14, TableMoves

\* The tables of a new graph.
LEMMA InitHolds == Init => IInv
<1> SUFFICES ASSUME Init PROVE IInv
  OBVIOUS
<1>1. ASSUME NEW n \in Nodes
      PROVE  /\ Cardinality(Pred(n)) \in Nat /\ Cardinality(BranchesInto(n)) \in Nat
             /\ Missing(n) = Pred(n) /\ Unsettled(n) = BranchesInto(n)
             /\ ~Rejected(n)
             /\ n \in ReadySet <=> Pred(n) = {}
  <2>1. Cardinality(Pred(n)) \in Nat /\ Cardinality(BranchesInto(n)) \in Nat
    BY RowSetsFinite, BranchesFinite, FS_CardinalityType
  <2>2. \A e \in BranchesInto(n) : /\ decided[<<e.from, e.key>>] = "none"
                                   /\ e.from \in Pred(n)
    BY DagAssumption DEF Init, BranchesInto, Decisions, Pred, Edges, ValidDag
  <2>3. Missing(n) = Pred(n) /\ Unsettled(n) = BranchesInto(n) /\ ~Rejected(n)
    BY <2>2 DEF Init, Missing, Unsettled, Rejected, Pred
  <2>4. n \in ReadySet <=> Pred(n) = {} /\ Selected(n)
    BY DEF Init, ReadySet, Pred
  <2>5. Pred(n) = {} => Selected(n)
    BY <2>2 DEF Selected
  <2> QED BY <2>1, <2>3, <2>4, <2>5
<1>2. ASSUME NEW n \in Nodes
      PROVE  Counted(n, row[n]) /\ Listed(n) /\ row[n] \in RowType
  <2>1. row[n] = [remaining |-> Cardinality(Pred(n)),
                  unresolved |-> Cardinality(BranchesInto(n)),
                  rejected |-> FALSE, ready |-> Pred(n) = {}]
    BY DEF Init
  <2>2. /\ row[n].remaining = Cardinality(Missing(n)) /\ row[n].unresolved = Cardinality(Unsettled(n))
        /\ row[n].rejected = FALSE /\ row[n].ready = (Pred(n) = {})
    BY <1>1, <2>1
  <2>3. Counted(n, row[n])
    BY <1>1, <2>2 DEF Counted, Rejected
  <2>4. Listed(n)
    BY <1>1, <2>2 DEF Listed
  <2>5. row[n] \in RowType
    BY <1>1, <2>1 DEF RowType
  <2> QED BY <2>3, <2>4, <2>5
<1>3. row \in [Nodes -> RowType]
  <2>1. row = [n \in Nodes |-> row[n]]
    BY DEF Init
  <2> QED BY <1>2, <2>1
<1>4. ready_node_count = Cardinality(ReadyRows) /\ ready_node_count \in Nat
  <2>1. ReadyRows = {n \in Nodes : Pred(n) = {}}
    BY DEF Init, ReadyRows
  <2>2. ReadyRows \in SUBSET Nodes
    BY <2>1
  <2>3. IsFiniteSet(ReadyRows)
    BY <2>2, NodesFinite, FS_Subset
  <2>4. Cardinality(ReadyRows) \in Nat
    BY <2>3, FS_CardinalityType
  <2> QED BY <2>1, <2>4 DEF Init
<1>5. ProjectionExact
  BY <1>2, <1>4, ProjectionParts
<1>6. Core
  <2>1. Fits
    BY DEF Init, Fits, FitsNode, FitsPending, FitsActive, FitsWaiting, FitsRunning,
           FitsSucceeded, FitsEnded, FitsBack, Fwd, Bck, Kinds, Ahead
  <2>2. InOrder
    BY DEF Init, InOrder, Started, Kinds
  <2>3. Quiet /\ Frozen /\ Ends
    BY DEF Init, Quiet, Frozen, Ends, Fwd, Bck, Kinds
  <2>4. plan = <<>>
    BY DEF Init
  <2> QED BY <1>5, <2>1, <2>2, <2>3, <2>4, NoPlan DEF Core
<1>7. TypeOK
  <2>1. TypeTables
    <3>1. graph \in GraphStatus /\ plan \in Seq(SUBSET Nodes)
      BY DEF Init, GraphStatus
    <3>0. cancel \in BOOLEAN
      BY Zenon DEF Init
    <3>2. /\ node \in [Nodes -> NodeStatus] /\ claim \in [Nodes -> {"none", "held", "lapsed"}]
      BY DEF Init, NodeStatus
    <3>3. /\ attempt \in [Kinds \X Nodes -> AttemptStatus]
          /\ grant \in [Kinds \X Nodes -> GrantStatus]
      BY DEF Init, AttemptStatus, GrantStatus
    <3>4. decided \in [Decisions -> {"none"} \cup {e.outcome : e \in Conditional}]
      BY DEF Init
    <3> QED BY <1>3, <1>4, <3>0, <3>1, <3>2, <3>3, <3>4 DEF TypeTables
  <2>2. TypeDriver
    <3>1. lapses \in 0..MaxLapses
      BY BoundAssumption DEF Init
    <3>2. /\ task = "running" /\ at = "idle" /\ batch = {} /\ todo = {}
          /\ wave = 1 /\ routed = "none"
      BY DEF Init
    <3>3. asking \in BOOLEAN /\ held \in BOOLEAN /\ denied \in BOOLEAN /\ stop \in BOOLEAN
      BY Zenon DEF Init
    <3> QED BY <3>1, <3>2, <3>3 DEF TypeDriver, Phase
  <2> QED BY <2>1, <2>2, TypeParts
<1>8. Drive
  BY DEF Init, Drive, AtFits, PlanPhase, SelectedIsReady, InWave, RoutedIsPersisted, CompPhases
<1> QED BY <1>6, <1>7, <1>8 DEF IInv

\* Every step keeps the invariant.
LEMMA StepHolds == IInv /\ [Next]_vars => IInv'
<1> SUFFICES ASSUME IInv, [Next]_vars PROVE IInv'
  OBVIOUS
<1>1. CASE UNCHANGED vars
  <2>1. /\ UNCHANGED <<graph, node, claim, attempt, decided, row, ready_node_count, plan>>
        /\ UNCHANGED <<cancel, grant, task, at, batch, todo, asking, held, denied, wave, stop,
                       routed, lapses>>
    BY <1>1 DEF vars, tables, driver
  <2>2. DriverFits'
    BY <2>1 DEF IInv, TypeOK, Drive, DriverFits, TypeDriver, AtFits, PlanPhase, InWave,
                RoutedIsPersisted, Phase, CompPhases
  <2>3. cancel' \in BOOLEAN /\ grant' \in [Kinds \X Nodes -> GrantStatus]
    BY <2>1 DEF IInv, TypeOK
  <2> QED BY <2>1, <2>2, <2>3, DriverMoves
<1>2. CASE DriverStep
  <2>1. CASE \/ forward_pass \/ stop_persists \/ graph_ended \/ prepare_refused
             \/ refreshed \/ no_progress \/ claim_proof_rejected \/ executed
    BY <2>1, PassSteps
  <2>2. CASE \/ comp_prepares \/ comp_skips_wave \/ comp_prepared \/ comp_next_batch
             \/ comp_claim_refused \/ comp_executed
    BY <2>2, WaveSteps
  <2>3. CASE \/ stop_reduces \/ prepared \/ dispatch_reduces \/ select_nothing \/ decided_all
    BY <2>3, ReduceSteps
  <2>4. CASE compensation_pass \/ dispatch_plans
    BY <2>4, PlanSteps
  <2>5. CASE prepare_ready \/ select_nodes
    BY <2>5, PageSteps
  <2>6. CASE \E answer \in EffectOf : apply_policy_decision(answer)
    BY <2>6, ApprovalSteps
  <2>7. CASE prepare_waiting
    BY <2>7, WaitingStep
  <2>8. CASE request_effect_tool_call
    BY <2>8, RequestStep
  <2>9. CASE settle_prepared
    BY <2>9, SettleStep
  <2>10. CASE \E d \in Decisions : \E o \in Outcomes(d) : record_effect_dag_branch_decision(d, o)
    BY <2>10, DecisionStep
  <2>11. CASE claim_effect_dag_nodes
    BY <2>11, ClaimStep
  <2>12. CASE \E n \in Nodes : \/ start_tool_call(n) \/ result_refused(n)
                               \/ \E s \in {"succeeded", "failed", "cancelled", "unknown"} :
                                    finish_effect_tool_call(n, s)
    BY <2>12, StartStep, RefusedStep, FinishStep
  <2>13. CASE claim_effect_dag_compensation_nodes
    BY <2>13, CompensationClaimStep
  <2>14. CASE reduce_effect_dag_compensation
    BY <2>14, CompensationReduced
  <2> QED BY <1>2, <2>1, <2>2, <2>3, <2>4, <2>5, <2>6, <2>7, <2>8, <2>9, <2>10, <2>11,
             <2>12, <2>13, <2>14, Zenon DEF DriverStep
<1>3. CASE \/ resume_after_approval \/ cancel_local \/ cancel_task \/ control_sent
           \/ control_to_dispatcher \/ request_effect_dag_cancel
           \/ control_cancels_task \/ Finished
  BY <1>3, WorldSteps
<1>4. CASE \E n \in Nodes : lose_claim(n) \/ start_tool_call_expired(n)
  BY <1>4, LapseSteps, RejectSteps
<1>5. CASE \E a \in Kinds \X Nodes : resolve_approval_approve(a) \/ resolve_approval_reject(a)
  BY <1>5, ApprovalSteps, RejectSteps
<1>6. CASE cancel_suspended \/ control_reduces
  BY <1>6, CancelSteps
<1>7. CASE lose_lease
  BY <1>7, LapseSteps
<1> QED BY <1>1, <1>2, <1>3, <1>4, <1>5, <1>6, <1>7, Zenon DEF Next

\* The invariant holds in every reachable state.
THEOREM InductiveInvariant == Spec => []IInv
<1>1. Init => IInv
  BY InitHolds
<1>2. IInv /\ [Next]_vars => IInv'
  BY StepHolds
<1> QED BY <1>1, <1>2, PTL DEF Spec

------------------------------------------------------------------------------
(* The theorems about the system.                                           *)

\* Statuses stay in their enumerations, and no counter of the projection, which
\* the code decrements without looking, ever falls below zero.
THEOREM DagTypeCorrect == Spec => []TypeOK
<1>1. IInv => TypeOK
  BY DEF IInv
<1> QED BY <1>1, InductiveInvariant, PTL

\* The ready projection that _apply_effect_dag_ready_transition maintains is,
\* after every transaction, what the nodes, edges and decisions say.
THEOREM ProjectionIsExact == Spec => []ProjectionExact
<1>1. IInv => ProjectionExact
  BY DEF IInv, Core
<1> QED BY <1>1, InductiveInvariant, PTL

\* No Tool of a node starts before all it depends on has succeeded and every
\* branch into it has been decided its way.
THEOREM ForwardIsOrdered == Spec => []ForwardInOrder
<1>1. IInv => ForwardInOrder
  BY DEF IInv, Core, InOrder, ForwardInOrder, Started, Fwd
<1> QED BY <1>1, InductiveInvariant, PTL

\* The barrier between the waves is enough: nothing is taken back while a later
\* effect that builds on it stands, or may stand.
THEOREM TakenBackInWaves == Spec => []CompensationInWaves
<1>1. ASSUME IInv PROVE CompensationInWaves
  <2> SUFFICES ASSUME NEW n \in Nodes,
                      attempt[<<"compensation", n>>] \in {"running", "succeeded", "unknown"},
                      NEW m \in Succ(n)
               PROVE  \/ Fwd(m) \in {"none", "requested", "failed", "cancelled"}
                      \/ Bck(m) = "succeeded"
    BY DEF CompensationInWaves, Fwd, Bck
  <2>1. m \in Nodes /\ Fwd(m) \in AttemptStatus
    BY <1>1 DEF Succ, IInv, TypeOK, Fwd, Kinds
  <2>2. Fwd(m) = "succeeded" => Bck(m) = "succeeded"
    BY <1>1 DEF IInv, Core, BackInWaves, Started
  <2>3. plan # <<>>
    BY <1>1 DEF IInv, Core, Quiet, Bck
  <2>4. Fwd(m) \notin {"running", "unknown"}
    BY <1>1, <2>1, <2>3 DEF IInv, Core, Frozen
  <2> QED BY <2>1, <2>2, <2>4 DEF AttemptStatus
<1>2. IInv => CompensationInWaves
  BY <1>1
<1> QED BY <1>2, InductiveInvariant, PTL

\* A graph that succeeded applied what it selected; one that failed or was
\* compensated left no effect behind.
THEOREM EndsTruthfully == Spec => []EndIsTruthful
<1>1. ASSUME IInv PROVE EndIsTruthful
  <2> DEFINE stands(n) == Fwd(n) = "succeeded" /\ Bck(n) # "succeeded"
  <2>1. \A n \in Nodes : FitsNode(n)
    BY <1>1 DEF IInv, Core, Fits
  <2>2. ASSUME graph = "succeeded", NEW n \in Nodes
        PROVE  stands(n) \/ node[n] = "skipped"
    <3>1. plan = <<>> /\ node[n] \in {"succeeded", "skipped"}
      BY <1>1, <2>2 DEF IInv, Core, Ends
    <3> QED BY <2>1, <3>1 DEF FitsNode, FitsSucceeded, Ahead
  <2>3. ASSUME graph = "failed", NEW n \in Nodes
        PROVE  Fwd(n) \notin {"running", "unknown", "succeeded"} /\ Bck(n) \notin {"running", "unknown"}
    <3>1. plan = <<>> /\ node[n] \in {"failed", "skipped"}
      BY <1>1, <2>3 DEF IInv, Core, Ends
    <3> QED BY <2>1, <3>1 DEF FitsNode, FitsPending, FitsEnded, Ahead
  <2>4. ASSUME graph = "compensated", NEW n \in Nodes
        PROVE  ~stands(n) /\ Fwd(n) \notin {"running", "unknown"} /\ Bck(n) \notin {"running", "unknown"}
    <3>1. plan # <<>> /\ \A i \in 1..Len(plan) : \A m \in plan[i] : node[m] = "compensated"
      BY <1>1, <2>4 DEF IInv, Core, Ends
    <3>2. Fwd(n) \notin {"running", "unknown"}
      BY <1>1, <3>1 DEF IInv, Core, Frozen
    <3>3. Fwd(n) = "succeeded" => node[n] = "compensated"
      BY <1>1, <3>1 DEF IInv, Core, PlanFits
    <3>4. Fwd(n) # "succeeded" => Bck(n) \notin {"running", "unknown"}
      <4>1. node[n] \in NodeStatus
        BY <1>1 DEF IInv, TypeOK
      <4> QED BY <2>1, <4>1 DEF FitsNode, FitsPending, FitsActive, FitsWaiting, FitsRunning,
                 FitsSucceeded, FitsEnded, FitsBack, NodeStatus
    <3> QED BY <2>1, <3>2, <3>3, <3>4 DEF FitsNode, FitsBack
  <2> QED BY <2>2, <2>3, <2>4 DEF EndIsTruthful, Fwd, Bck, Kinds
<1>2. IInv => EndIsTruthful
  BY <1>1
<1> QED BY <1>2, InductiveInvariant, PTL
===============================================================================
