--------------------------- MODULE AdmissionProofs ---------------------------
(***************************************************************************)
(* Proofs about Admission, for any instances, graphs, tools and limits: the *)
(* live permits never exceed the limits of the configuration in force with *)
(* SQLite, and of the widest configuration brought along with PostgreSQL.  *)
(***************************************************************************)
EXTENDS Admission, FiniteSetTheorems, WellFoundedInduction, TLAPS

Ticket == [status : {"none", "pending", "granted", "cancelled", "expired"},
           live : BOOLEAN]
Rows == [Instances -> [Nodes -> Ticket]]

\* The types of what the capacity rests on.
Typed ==
  /\ dep \in Deployments
  /\ config \in Configs \cup {NoConfig}
  /\ rows \in Rows
  /\ driver \in [Graphs -> Instances]

OfGraph(rs, g) == {t \in Active(rs) : GraphOf[t[2]] = g}
OfTool(rs, x) == {t \in Active(rs) : ToolOf[t[2]] = x}

\* The permits in rs are within the widest limits of the configurations in L.
Within(rs, L) ==
  /\ \E c \in L : Cardinality(Active(rs)) <= GlobalLimit[c]
  /\ \A g \in Graphs : \E c \in L : Cardinality(OfGraph(rs, g)) <= PerGraphLimit[c]
  /\ \A x \in Tools : \E c \in L : Cardinality(OfTool(rs, x)) <= ToolLimit[c][x]

\* A permit is live only under a configuration, one of those whose limits count,
\* and within these limits.
IInv ==
  /\ Typed
  /\ Active(rows) # {} => /\ config \in Configs /\ config \in Limiting
                          /\ Within(rows, Limiting)

------------------------------------------------------------------------------
(* Permits and their number.                                                *)

\* Permits can be counted.
LEMMA ActiveFinite ==
  \A rs : /\ IsFiniteSet(Active(rs))
          /\ \A g : IsFiniteSet(OfGraph(rs, g))
          /\ \A x : IsFiniteSet(OfTool(rs, x))
<1> SUFFICES ASSUME NEW rs
             PROVE  /\ IsFiniteSet(Active(rs))
                    /\ \A g : IsFiniteSet(OfGraph(rs, g))
                    /\ \A x : IsFiniteSet(OfTool(rs, x))
  OBVIOUS
<1>1. IsFiniteSet(Instances \X Nodes)
  BY AdmissionAssumption, FS_Product
<1>2. IsFiniteSet(Active(rs))
  BY <1>1, FS_Subset DEF Active
<1> QED BY <1>2, FS_Subset DEF OfGraph, OfTool

\* The limits of a configuration are numbers.
LEMMA LimitsType ==
  \A c \in Configs : /\ GlobalLimit[c] \in Nat /\ PerGraphLimit[c] \in Nat
                     /\ \A x \in Tools : ToolLimit[c][x] \in Nat
BY AdmissionAssumption

\* Who loses permits stays within the limits.
LEMMA Shrunk ==
  ASSUME NEW L, L \subseteq Configs, NEW rs, Within(rs, L),
         NEW after, Active(after) \subseteq Active(rs)
  PROVE  Within(after, L)
<1>1. \A A, B : \A k \in Nat :
        B \subseteq A /\ IsFiniteSet(A) /\ Cardinality(A) <= k => Cardinality(B) <= k
  BY FS_Subset, FS_CardinalityType
<1>2. \E c \in L : Cardinality(Active(after)) <= GlobalLimit[c]
  <2>1. PICK c \in L : Cardinality(Active(rs)) <= GlobalLimit[c]
    BY DEF Within
  <2> QED BY <1>1, <2>1, ActiveFinite, LimitsType
<1>3. ASSUME NEW g \in Graphs
      PROVE  \E c \in L : Cardinality(OfGraph(after, g)) <= PerGraphLimit[c]
  <2>1. PICK c \in L : Cardinality(OfGraph(rs, g)) <= PerGraphLimit[c]
    BY DEF Within
  <2>2. OfGraph(after, g) \subseteq OfGraph(rs, g)
    BY DEF OfGraph
  <2> QED BY <1>1, <2>1, <2>2, ActiveFinite, LimitsType
<1>4. ASSUME NEW x \in Tools
      PROVE  \E c \in L : Cardinality(OfTool(after, x)) <= ToolLimit[c][x]
  <2>1. PICK c \in L : Cardinality(OfTool(rs, x)) <= ToolLimit[c][x]
    BY DEF Within
  <2>2. OfTool(after, x) \subseteq OfTool(rs, x)
    BY DEF OfTool
  <2> QED BY <1>1, <2>1, <2>2, ActiveFinite, LimitsType
<1> QED BY <1>2, <1>3, <1>4 DEF Within

\* Without permits every limit is kept.
LEMMA EmptyWithin ==
  ASSUME NEW L, L \subseteq Configs, NEW c \in L, NEW rs, Active(rs) = {}
  PROVE  Within(rs, L)
<1>1. \A g : OfGraph(rs, g) = {}
  BY DEF OfGraph
<1>2. \A x : OfTool(rs, x) = {}
  BY DEF OfTool
<1>3. Cardinality({}) = 0
  BY FS_EmptySet
<1>4. \A k \in Nat : 0 <= k
  OBVIOUS
<1> QED BY <1>1, <1>2, <1>3, <1>4, LimitsType DEF Within

\* A grant where there is room keeps the limits.
LEMMA GrantWithin ==
  ASSUME NEW L, L \subseteq Configs, NEW c \in L, NEW rs, rs \in Rows, Within(rs, L),
         Cardinality(Active(rs)) < GlobalLimit[c],
         NEW o, NEW n, Room(rs, c, n), rs[o][n] = Pending,
         NEW after, after = [rs EXCEPT ![o][n] = Granted]
  PROVE  after \in Rows /\ Within(after, L)
<1>1. after \in Rows
  BY DEF Rows, Ticket, Granted
<1>2. CASE o \notin Instances
  <2>1. after = rs
    BY <1>2 DEF Rows
  <2> QED BY <1>1, <2>1
<1>3. CASE o \in Instances /\ n \notin Nodes
  <2>1. rs[o] \in [Nodes -> Ticket]
    BY <1>3 DEF Rows
  <2>2. [rs[o] EXCEPT ![n] = Granted] = rs[o]
    BY <1>3, <2>1
  <2>3. after = [rs EXCEPT ![o] = [rs[o] EXCEPT ![n] = Granted]]
    OBVIOUS
  <2>4. after = rs
    BY <2>2, <2>3 DEF Rows
  <2> QED BY <1>1, <2>4
<1>4. CASE o \in Instances /\ n \in Nodes
  <2> DEFINE t == <<o, n>>
  <2>1. t \notin Active(rs) /\ t \in Instances \X Nodes
    BY <1>4 DEF Active, Pending, Granted
  <2>2. \A i \in Instances, m \in Nodes :
          after[i][m] = IF i = o /\ m = n THEN Granted ELSE rs[i][m]
    BY <1>4 DEF Rows
  <2>3. Active(after) = Active(rs) \cup {t}
    BY <1>4, <2>2 DEF Active
  <2>4. t[2] = n
    OBVIOUS
  <2> HIDE DEF t
  <2>5. \A g : OfGraph(after, g) = IF GraphOf[n] = g THEN OfGraph(rs, g) \cup {t}
                                   ELSE OfGraph(rs, g)
    BY <2>3, <2>4 DEF OfGraph
  <2>6. \A x : OfTool(after, x) = IF ToolOf[n] = x THEN OfTool(rs, x) \cup {t}
                                  ELSE OfTool(rs, x)
    BY <2>3, <2>4 DEF OfTool
  <2>7. ASSUME NEW A, IsFiniteSet(A), t \notin A
        PROVE  Cardinality(A) \in Nat /\ Cardinality(A \cup {t}) = Cardinality(A) + 1
    BY <2>7, FS_AddElement, FS_CardinalityType
  <2>8. /\ GlobalLimit[c] \in Nat /\ PerGraphLimit[c] \in Nat
        /\ \A x \in Tools : ToolLimit[c][x] \in Nat
    BY LimitsType
  <2> DEFINE Fits(k, limit) == k \in Nat /\ limit \in Nat /\ k < limit
  <2>9. \A k, limit : Fits(k, limit) => k + 1 <= limit
    OBVIOUS
  <2>10. Cardinality(Active(after)) <= GlobalLimit[c]
    <3>1. /\ Cardinality(Active(rs)) \in Nat
          /\ Cardinality(Active(rs) \cup {t}) = Cardinality(Active(rs)) + 1
      BY <2>1, <2>7, ActiveFinite
    <3>2. Fits(Cardinality(Active(rs)), GlobalLimit[c])
      BY <2>8, <3>1
    <3> HIDE DEF Fits
    <3> QED BY <2>3, <2>9, <3>1, <3>2, Zenon
  <2>11. ASSUME NEW g \in Graphs
         PROVE  \E d \in L : Cardinality(OfGraph(after, g)) <= PerGraphLimit[d]
    <3>1. CASE GraphOf[n] = g
      <4>1. t \notin OfGraph(rs, g)
        BY <2>1 DEF OfGraph
      <4>2. Cardinality(OfGraph(rs, g)) < PerGraphLimit[c]
        BY <3>1 DEF Room, OfGraph
      <4>3. /\ Cardinality(OfGraph(rs, g)) \in Nat
            /\ Cardinality(OfGraph(rs, g) \cup {t}) = Cardinality(OfGraph(rs, g)) + 1
        BY <2>7, <4>1, ActiveFinite
      <4>4. Fits(Cardinality(OfGraph(rs, g)), PerGraphLimit[c])
        BY <2>8, <4>2, <4>3
      <4>5. OfGraph(after, g) = OfGraph(rs, g) \cup {t}
        BY <2>5, <3>1
      <4> HIDE DEF Fits
      <4>6. Cardinality(OfGraph(after, g)) <= PerGraphLimit[c]
        BY <2>9, <4>3, <4>4, <4>5, Zenon
      <4> QED BY <4>6
    <3>2. CASE GraphOf[n] # g
      BY <2>5, <3>2 DEF Within
    <3> QED BY <3>1, <3>2
  <2>12. ASSUME NEW x \in Tools
         PROVE  \E d \in L : Cardinality(OfTool(after, x)) <= ToolLimit[d][x]
    <3>1. CASE ToolOf[n] = x
      <4>1. t \notin OfTool(rs, x)
        BY <2>1 DEF OfTool
      <4>2. Cardinality(OfTool(rs, x)) < ToolLimit[c][x]
        BY <3>1 DEF Room, OfTool
      <4>3. /\ Cardinality(OfTool(rs, x)) \in Nat
            /\ Cardinality(OfTool(rs, x) \cup {t}) = Cardinality(OfTool(rs, x)) + 1
        BY <2>7, <4>1, ActiveFinite
      <4>4. Fits(Cardinality(OfTool(rs, x)), ToolLimit[c][x])
        BY <2>8, <4>2, <4>3
      <4>5. OfTool(after, x) = OfTool(rs, x) \cup {t}
        BY <2>6, <3>1
      <4> HIDE DEF Fits
      <4>6. Cardinality(OfTool(after, x)) <= ToolLimit[c][x]
        BY <2>9, <4>3, <4>4, <4>5, Zenon
      <4> QED BY <4>6
    <3>2. CASE ToolOf[n] # x
      BY <2>6, <3>2 DEF Within
    <3> QED BY <3>1, <3>2
  <2> QED BY <1>1, <2>10, <2>11, <2>12 DEF Within
<1> QED BY <1>2, <1>3, <1>4

------------------------------------------------------------------------------
(* The scheduler.                                                           *)

\* A set of sets over a finite set that has an element has a smallest one.
LEMMA SmallestSet ==
  ASSUME NEW S, IsFiniteSet(S), NEW F, F \subseteq SUBSET S, F # {}
  PROVE  \E x \in F : \A y \in F : y \subseteq x => y = x
<1>1. IsWellFoundedOn(StrictSubsetOrdering(S), FiniteSubsetsOf(S))
  BY FS_StrictSubsetOrderingWellFounded
<1>2. FiniteSubsetsOf(S) = SUBSET S
  BY FS_FiniteSubsetsOfFinite
<1>3. PICK x \in F : \A y \in F : ~ (<<y, x>> \in StrictSubsetOrdering(S))
  BY <1>1, <1>2, WFMin
<1>4. ASSUME NEW y \in F, y \subseteq x
      PROVE  y = x
  BY <1>3, <1>4, Zenon DEF StrictSubsetOrdering
<1> QED BY <1>4

\* The least-number principle.
LEMMA LeastNat ==
  ASSUME NEW T, T \subseteq Nat, T # {}
  PROVE  \E x \in T : \A y \in T : x <= y
<1>1. PICK a \in T : TRUE
  OBVIOUS
<1> DEFINE F == {0..x : x \in {y \in T : y <= a}}
<1> DEFINE D == 0..a
<1>2. F \subseteq SUBSET D /\ F # {}
  BY <1>1
<1>3. IsFiniteSet(D)
  BY <1>1, FS_Interval
<1> HIDE DEF F, D
<1>4. \E s \in F : \A t \in F : t \subseteq s => t = s
  <2>1. F \subseteq SUBSET D
    BY <1>2
  <2>2. F # {}
    BY <1>2
  <2> QED BY ONLY <2>1, <2>2, <1>3, SmallestSet
<1>5. PICK s \in F : \A t \in F : t \subseteq s => t = s
  BY <1>4
<1>6. PICK x \in T : x <= a /\ s = 0..x
  BY <1>5 DEF F
<1>7. ASSUME NEW y \in T
      PROVE  x <= y
  <2>1. CASE y < x
    <3>1. y <= a
      BY <1>1, <1>6, <2>1
    <3>2. 0..y \in F
      BY <3>1 DEF F
    <3>3. 0..y \subseteq s
      BY <1>6, <2>1
    <3>4. 0..y = 0..x
      BY <1>5, <1>6, <3>2, <3>3
    <3> QED BY <1>6, <2>1, <3>4
  <2> QED BY <1>6, <2>1
<1> QED BY <1>7

\* One turn grants nothing, or one permit there is room for.
LEMMA TurnWithin ==
  ASSUME NEW L, L \subseteq Configs, NEW c \in L,
         NEW s, s.rows \in Rows, Within(s.rows, L),
         NEW heads, NEW d, d \in GrantNext(s, c, heads)
  PROVE  d.rows \in Rows /\ Within(d.rows, L)
<1>1. CASE d = s
  BY <1>1
<1>2. ASSUME NEW g, g \in Candidates(s, c, heads),
             NEW n, n \in FirstGrantable(s.rows, c, heads[g]),
             d = Grant(s, g, heads[g], n)
      PROVE  d.rows \in Rows /\ Within(d.rows, L)
  <2>1. n \in Grantable(s.rows, c, heads[g])
    BY <1>2 DEF FirstGrantable
  <2>2. Room(s.rows, c, n) /\ s.rows[heads[g].owner][n] = Pending
    BY <2>1 DEF Grantable, Waiting
  <2>3. ~(Cardinality(Active(s.rows)) >= GlobalLimit[c])
    BY <1>2 DEF Candidates
  <2>4. Cardinality(Active(s.rows)) \in Nat /\ GlobalLimit[c] \in Nat
    BY ActiveFinite, FS_CardinalityType, LimitsType
  <2>5. Cardinality(Active(s.rows)) < GlobalLimit[c]
    BY <2>3, <2>4
  <2>6. d.rows = [s.rows EXCEPT ![heads[g].owner][n] = Granted]
    BY <1>2 DEF Grant
  <2> QED BY <2>2, <2>5, <2>6, GrantWithin
<1> DEFINE C == Candidates(s, c, heads)
           First == {x \in C : \A h \in C : GoesFirst(s.served, heads, x, h)}
<1>3. d \in IF C = {} THEN {s}
           ELSE UNION {{Grant(s, g, heads[g], n) :
                          n \in FirstGrantable(s.rows, c, heads[g])} : g \in First}
  BY Zenon DEF GrantNext
<1>4. CASE C # {}
  <2>1. PICK g \in First :
          d \in {Grant(s, g, heads[g], n) : n \in FirstGrantable(s.rows, c, heads[g])}
    BY <1>3, <1>4, Zenon
  <2> QED BY <1>2, <2>1
<1> QED BY <1>1, <1>3, <1>4

\* One turn after the other.
Turn(S, c, heads) == UNION {GrantNext(s, c, heads) : s \in S}

\* f holds what the first turns can lead to from A.
IsLoop(f, k, A, c, heads) ==
  f = [j \in 0..k |-> IF j = 0 THEN A ELSE Turn(f[j - 1], c, heads)]

\* The loop is well defined for any number of turns.
LEMMA TurnsExist ==
  ASSUME NEW A, NEW c, NEW heads, NEW k \in Nat
  PROVE  \E f : IsLoop(f, k, A, c, heads)
<1> DEFINE Step(S) == Turn(S, c, heads)
           Turns(f, j) == f = [i \in 0..j |-> IF i = 0 THEN A ELSE Step(f[i - 1])]
           Bad == {j \in Nat : ~ \E f : Turns(f, j)}
<1> HIDE DEF Step
<1>1. CASE Bad # {}
  <2>1. PICK j \in Bad : \A i \in Bad : j <= i
    BY <1>1, LeastNat
  <2>2. CASE j = 0
    <3>1. [i \in 0..0 |-> A] = [i \in 0..0 |-> IF i = 0 THEN A
                                              ELSE Step([x \in 0..0 |-> A][i - 1])]
      OBVIOUS
    <3>2. Turns([i \in 0..0 |-> A], j)
      BY <2>2, <3>1
    <3> QED BY <3>2
  <2>3. CASE j # 0
    <3>1. j \in Nat /\ j - 1 \in Nat /\ j - 1 \notin Bad
      <4>1. j \in Nat
        BY DEF Bad
      <4> HIDE DEF Bad
      <4> QED BY <2>1, <2>3, <4>1
    <3>2. PICK f : Turns(f, j - 1)
      BY <3>1
    <3> DEFINE g == [i \in 0..j |-> IF i = j THEN Step(f[j - 1]) ELSE f[i]]
    <3>3. \A i \in 0..(j - 1) : f[i] = IF i = 0 THEN A ELSE Step(f[i - 1])
      BY <3>2
    <3>4. \A i \in 0..j : g[i] = IF i = 0 THEN A ELSE Step(g[i - 1])
      <4> HIDE DEF Turns
      <4>1. ASSUME NEW i \in 0..j
            PROVE  g[i] = IF i = 0 THEN A ELSE Step(g[i - 1])
        <5>1. CASE i = j
          <6>1. g[i] = Step(f[i - 1]) /\ i # 0 /\ i - 1 \in 0..j /\ i - 1 # j
            BY <3>1, <5>1, <2>3
          <6>2. g[i - 1] = f[i - 1]
            BY <6>1
          <6> QED BY <6>1, <6>2
        <5>2. CASE i # j /\ i # 0
          <6>1. i \in 0..(j - 1) /\ i - 1 \in 0..j /\ i - 1 # j
            BY <3>1, <5>2
          <6>2. g[i] = f[i] /\ g[i - 1] = f[i - 1]
            BY <5>2, <6>1
          <6> QED BY <3>3, <5>2, <6>1, <6>2
        <5>3. CASE i = 0
          BY <3>1, <3>3, <5>3, <2>3
        <5> QED BY <5>1, <5>2, <5>3
      <4> QED BY <4>1
    <3>5. Turns(g, j)
      <4>1. g = [i \in 0..j |-> g[i]]
        OBVIOUS
      <4> HIDE DEF g
      <4> QED BY <3>4, <4>1
    <3> QED BY <3>5
  <2> QED BY <2>2, <2>3
<1>2. CASE Bad = {}
  <2>1. \E f : Turns(f, k)
    BY <1>2
  <2> QED BY <2>1 DEF Step, IsLoop
<1> QED BY <1>1, <1>2

\* However many turns a run takes, the limits are kept.
LEMMA LoopWithin ==
  ASSUME NEW L, L \subseteq Configs, NEW c \in L, NEW heads,
         NEW s, s.rows \in Rows, Within(s.rows, L),
         NEW k \in Nat, NEW f,
         f = CHOOSE x : IsLoop(x, k, {s}, c, heads)
  PROVE  \A d \in f[k] : d.rows \in Rows /\ Within(d.rows, L)
<1>1. f = [j \in 0..k |-> IF j = 0 THEN {s} ELSE Turn(f[j - 1], c, heads)]
  <2>1. \E x : IsLoop(x, k, {s}, c, heads)
    BY TurnsExist
  <2>2. IsLoop(f, k, {s}, c, heads)
    BY <2>1, Zenon
  <2> QED BY <2>2, Zenon DEF IsLoop
<1>2. ASSUME NEW j \in 0..k
      PROVE  f[j] = IF j = 0 THEN {s} ELSE Turn(f[j - 1], c, heads)
  <2>1. \A x : x = [i \in 0..k |-> IF i = 0 THEN {s} ELSE Turn(f[i - 1], c, heads)]
               => x[j] = IF j = 0 THEN {s} ELSE Turn(f[j - 1], c, heads)
    OBVIOUS
  <2> QED BY <1>1, <2>1, Zenon
<1> DEFINE Good(S) == \A d \in S : d.rows \in Rows /\ Within(d.rows, L)
           Bad == {j \in Nat : j <= k /\ ~Good(f[j])}
<1>3. Bad \subseteq Nat /\ \A j \in Nat : j \in Bad <=> j <= k /\ ~Good(f[j])
  OBVIOUS
<1>4. ASSUME NEW S, Good(S)
      PROVE  Good(Turn(S, c, heads))
  BY <1>4, TurnWithin DEF Turn
<1>5. Good({s})
  OBVIOUS
<1> HIDE DEF Good, Bad
<1>6. CASE Bad # {}
  <2>1. PICK j \in Bad : \A i \in Bad : j <= i
    BY <1>3, <1>6, LeastNat
  <2>2. j \in 0..k /\ j # 0
    <3>1. j \in 0..k /\ ~Good(f[j])
      BY <1>3
    <3>2. 0 \in 0..k
      OBVIOUS
    <3>3. f[0] = {s}
      BY <1>2, <3>2
    <3> QED BY <1>5, <3>1, <3>3
  <2>3. j - 1 \in Nat /\ j - 1 <= k /\ j - 1 \notin Bad
    BY <2>1, <2>2
  <2>4. Good(f[j - 1])
    BY <1>3, <2>3
  <2> QED BY <1>2, <1>3, <1>4, <2>2, <2>4
<1>7. CASE Bad = {}
  <2>1. Good(f[k])
    BY <1>3, <1>7
  <2> QED BY <2>1 DEF Good
<1> QED BY <1>6, <1>7

\* What the sweep and the withdrawals leave of the tickets.
LEMMA SweepShrinks ==
  ASSUME rows \in Rows, NEW swept,
         swept = [o \in Instances |-> [n \in Nodes |-> swept[o][n]]],
         \A o \in Instances, n \in Nodes :
           swept[o][n] = rows[o][n] \/ swept[o][n] = Sweep(rows, o)[n]
  PROVE  swept \in Rows /\ Active(swept) \subseteq Active(rows)
<1>1. \A o \in Instances, n \in Nodes :
        /\ rows[o][n] \in Ticket
        /\ \/ swept[o][n] = rows[o][n]
           \/ swept[o][n] = [status |-> "expired", live |-> FALSE]
  BY DEF Sweep, Rows
<1>2. [status |-> "expired", live |-> FALSE] \in Ticket
  BY DEF Ticket
<1>3. \A o \in Instances, n \in Nodes : swept[o][n] \in Ticket
  BY <1>1, <1>2
<1>4. swept \in Rows
  BY <1>3, Zenon DEF Rows
<1> QED BY <1>1, <1>4 DEF Active, Granted

\* Withdrawing what is left of a batch takes no permit and gives none.
LEMMA RestShrinks ==
  ASSUME NEW before, NEW after, after \in Rows, NEW heads
  PROVE  /\ WithdrawRest(before, after, heads) \in Rows
         /\ Active(WithdrawRest(before, after, heads)) \subseteq Active(after)
<1> DEFINE rest == WithdrawRest(before, after, heads)
<1>1. \A o \in Instances, n \in Nodes :
        /\ after[o][n] \in Ticket
        /\ rest[o][n] = after[o][n] \/ rest[o][n] = NoTicket
  BY DEF WithdrawRest, Rows
<1>2. NoTicket \in Ticket
  BY DEF Ticket, NoTicket
<1>3. \A o \in Instances, n \in Nodes : rest[o][n] \in Ticket
  BY <1>1, <1>2
<1>4. rest = [o \in Instances |-> [n \in Nodes |-> rest[o][n]]]
  BY DEF WithdrawRest
<1> HIDE DEF rest
<1>5. rest \in Rows
  BY <1>3, <1>4 DEF Rows
<1>6. Active(rest) \subseteq Active(after)
  BY <1>1 DEF Active, Granted, NoTicket
<1> QED BY <1>5, <1>6 DEF rest

\* The configurations that count are configurations, and the one of whoever
\* finds it in force is among them.
LEMMA Settled ==
  ASSUME Typed, NEW i \in Instances, config = dep.conf[i]
  PROVE  Limiting \subseteq Configs /\ config \in Limiting
<1>1. dep.conf \in [Instances -> Configs]
  BY AdmissionAssumption DEF Typed, Deployment
<1>2. config \in Configs /\ Range(dep.conf) \subseteq Configs /\ config \in Range(dep.conf)
  BY <1>1 DEF Range
<1> QED BY <1>2 DEF Limiting

\* A run of the scheduler of SQLite.
LEMMA SqliteWithin ==
  ASSUME IInv, NEW i \in Instances, schedule_sqlite(i)
  PROVE  /\ rows' \in Rows /\ config \in Configs /\ config \in Limiting
         /\ Within(rows', Limiting)
<1>1. rows \in Rows /\ config \in Configs
  BY AdmissionAssumption DEF IInv, Typed, schedule_sqlite, Deployment
<1>0. Limiting \subseteq Configs /\ config \in Limiting
  BY <1>1, Settled DEF schedule_sqlite, IInv
<1>2. Within(rows, Limiting)
  BY <1>0, EmptyWithin DEF IInv
<1>3. PICK swept, heads, d :
        /\ swept = [o \in Instances |-> Sweep(rows, o)]
        /\ d \in GrantAll([rows |-> swept, served |-> served], config, heads)
        /\ rows' = WithdrawRest(swept, d.rows, heads)
  BY Zenon DEF schedule_sqlite
<1>4. swept \in Rows /\ Active(swept) \subseteq Active(rows)
  <2>1. /\ swept = [o \in Instances |-> [n \in Nodes |-> swept[o][n]]]
        /\ \A o \in Instances, n \in Nodes : swept[o][n] = Sweep(rows, o)[n]
    BY <1>3 DEF Sweep
  <2> QED BY <1>1, <2>1, SweepShrinks
<1>5. Within(swept, Limiting)
  BY <1>0, <1>2, <1>4, Shrunk
<1>6. d.rows \in Rows /\ Within(d.rows, Limiting)
  <2> DEFINE s0 == [rows |-> swept, served |-> served]
             k0 == GlobalLimit[config]
             loop == CHOOSE x : IsLoop(x, k0, {s0}, config, heads)
  <2>1. d \in loop[k0]
    BY <1>3, Zenon DEF GrantAll, IsLoop, Turn
  <2>2. s0.rows = swept /\ k0 \in Nat
    BY <1>1, LimitsType
  <2>3. s0.rows \in Rows /\ Within(s0.rows, Limiting)
    BY <1>4, <1>5, <2>2
  <2> HIDE DEF s0, k0
  <2>4. \A e \in loop[k0] : e.rows \in Rows /\ Within(e.rows, Limiting)
    BY <1>0, <2>2, <2>3, LoopWithin
  <2> QED BY <2>1, <2>4
<1> QED BY <1>0, <1>1, <1>3, <1>6, RestShrinks, Shrunk

\* A run of the scheduler of PostgreSQL.
LEMMA PostgresqlWithin ==
  ASSUME IInv, NEW i \in Instances, schedule_postgresql(i)
  PROVE  /\ rows' \in Rows /\ config \in Configs /\ config \in Limiting
         /\ Within(rows', Limiting)
<1>1. rows \in Rows /\ config \in Configs
  BY AdmissionAssumption DEF IInv, Typed, schedule_postgresql, Deployment
<1>0. Limiting \subseteq Configs /\ config \in Limiting
  BY <1>1, Settled DEF schedule_postgresql, IInv
<1>2. Within(rows, Limiting)
  BY <1>0, EmptyWithin DEF IInv
<1>3. PICK shard, swept, heads, d :
        /\ swept = SweepShard(shard)
        /\ d \in GrantNext([rows |-> swept, served |-> served], config, heads)
        /\ rows' = WithdrawRest(swept, d.rows, heads)
  BY Zenon DEF schedule_postgresql
<1>4. swept \in Rows /\ Active(swept) \subseteq Active(rows)
  <2>1. /\ swept = [o \in Instances |-> [n \in Nodes |-> swept[o][n]]]
        /\ \A o \in Instances, n \in Nodes :
             swept[o][n] = rows[o][n] \/ swept[o][n] = Sweep(rows, o)[n]
    BY <1>3 DEF SweepShard
  <2> QED BY <1>1, <2>1, SweepShrinks
<1>5. Within(swept, Limiting)
  BY <1>0, <1>2, <1>4, Shrunk
<1>6. d.rows \in Rows /\ Within(d.rows, Limiting)
  <2>1. PICK s0 : s0 = [rows |-> swept, served |-> served]
    OBVIOUS
  <2>2. s0.rows \in Rows /\ Within(s0.rows, Limiting)
    BY <1>4, <1>5, <2>1
  <2> QED BY <1>0, <1>3, <2>1, <2>2, TurnWithin
<1> QED BY <1>0, <1>1, <1>3, <1>6, RestShrinks, Shrunk

------------------------------------------------------------------------------
(* Every step.                                                              *)

\* Whatever only ends permits keeps the invariant.
LEMMA Loses ==
  ASSUME IInv, dep' = dep, config' = config, driver' \in [Graphs -> Instances],
         rows' \in Rows, Active(rows') \subseteq Active(rows)
  PROVE  IInv'
<1>1. Typed'
  BY DEF IInv, Typed
<1>2. ASSUME Active(rows)' # {}
      PROVE  (config \in Configs /\ config \in Limiting /\ Within(rows, Limiting))'
  <2>1. Active(rows) # {} /\ Active(rows)' = Active(rows')
    BY <1>2 DEF Active
  <2>2. config \in Configs /\ config \in Limiting /\ Within(rows, Limiting)
    BY <2>1 DEF IInv
  <2>3. Limiting \subseteq Configs /\ Limiting' = Limiting
    BY <2>2, AdmissionAssumption DEF Limiting, Range, IInv, Typed, Deployment
  <2>4. Within(rows', Limiting)
    BY <2>2, <2>3, Shrunk
  <2>5. Within(rows, Limiting)' <=> Within(rows', Limiting')
    BY DEF Within, OfGraph, OfTool, Active
  <2> QED BY <2>2, <2>3, <2>4, <2>5
<1> QED BY <1>1, <1>2 DEF IInv

\* A row whose tickets are kept, withdrawn or replaced by tickets without permit.
LEMMA RowsLose ==
  ASSUME rows \in Rows, NEW after,
         after = [o \in Instances |-> [n \in Nodes |-> after[o][n]]],
         \A o \in Instances, n \in Nodes :
           after[o][n] = rows[o][n] \/ after[o][n] \in Ticket \ {Granted}
  PROVE  after \in Rows /\ Active(after) \subseteq Active(rows)
<1>1. \A o \in Instances, n \in Nodes : after[o][n] \in Ticket
  BY DEF Rows
<1>2. after \in Rows
  BY <1>1, Zenon DEF Rows
<1> QED BY <1>2 DEF Active

\* Tickets that are no permits.
LEMMA Unpermitted ==
  /\ {NoTicket, Pending, [status |-> "cancelled", live |-> FALSE]} \subseteq Ticket \ {Granted}
  /\ Granted \in Ticket
BY DEF Ticket, Granted, NoTicket, Pending

\* A graph that stops waiting loses its row only.
LEMMA StopWaitingLoses ==
  ASSUME IInv, NEW g \in Graphs, StopWaiting(g)
  PROVE  IInv'
<1>1. /\ rows \in Rows /\ driver \in [Graphs -> Instances]
  BY DEF IInv, Typed
<1>2. rows' = [rows EXCEPT ![driver[g]] = [n \in Nodes |->
                 IF n \in Range(batch[g]) THEN NoTicket ELSE @[n]]]
  BY DEF StopWaiting, Withdrawn
<1>3. \A o \in Instances, n \in Nodes : rows'[o][n] \in {rows[o][n], NoTicket}
  BY <1>1, <1>2 DEF Rows
<1>4. rows' = [o \in Instances |-> [n \in Nodes |-> rows'[o][n]]]
  BY <1>1, <1>2 DEF Rows
<1>5. rows' \in Rows /\ Active(rows') \subseteq Active(rows)
  <2>1. PICK after : after = rows'
    OBVIOUS
  <2> QED BY <1>1, <1>3, <1>4, <2>1, RowsLose, Unpermitted
<1> QED BY <1>1, <1>5, Loses DEF StopWaiting, configuration

\* release_all drops the rows of one graph and keeps the others.
LEMMA ReleaseAllLoses ==
  ASSUME IInv, NEW g \in Graphs, ReleaseAll(g), UNCHANGED <<dep, config, driver>>
  PROVE  IInv'
<1>1. /\ rows \in Rows /\ driver \in [Graphs -> Instances]
  BY DEF IInv, Typed
<1>2. rows' = [rows EXCEPT ![driver[g]] = [n \in Nodes |->
                 IF n \in permits[g] /\ @[n] = Granted THEN NoTicket ELSE @[n]]]
  BY DEF ReleaseAll, Released
<1>3. \A o \in Instances, n \in Nodes : rows'[o][n] \in {rows[o][n], NoTicket}
  BY <1>1, <1>2 DEF Rows
<1>4. rows' = [o \in Instances |-> [n \in Nodes |-> rows'[o][n]]]
  BY <1>1, <1>2 DEF Rows
<1>5. rows' \in Rows /\ Active(rows') \subseteq Active(rows)
  <2>1. PICK after : after = rows'
    OBVIOUS
  <2> QED BY <1>1, <1>3, <1>4, <2>1, RowsLose, Unpermitted
<1> QED BY <1>1, <1>5, Loses

\* A transaction of the scheduler.
LEMMA ScheduleKeeps ==
  ASSUME IInv, NEW i \in Instances, Schedule(i)
  PROVE  IInv'
<1>1. /\ rows' \in Rows /\ config \in Configs /\ config \in Limiting
      /\ Within(rows', Limiting)
  BY SqliteWithin, PostgresqlWithin DEF Schedule
<1>2. UNCHANGED <<dep, config, driver>>
  BY DEF Schedule, schedule_sqlite, schedule_postgresql, dispatching, configuration
<1>3. Limiting' = Limiting
  BY <1>2 DEF Limiting, Range
<1>4. Within(rows, Limiting)' <=> Within(rows', Limiting')
  BY DEF Within, OfGraph, OfTool, Active
<1> QED BY <1>1, <1>2, <1>3, <1>4 DEF IInv, Typed

\* With SQLite an instance that writes its configuration finds no permit.
LEMMA ConfigurationKeeps ==
  ASSUME IInv, NEW i \in Instances, ensure_configuration(i)
  PROVE  IInv'
<1>1. UNCHANGED <<dep, rows, driver>> /\ config' \in Configs
  BY AdmissionAssumption DEF ensure_configuration, dispatching, IInv, Typed, Deployment
<1>2. Active(rows) = {}
  <2>1. CASE config = NoConfig
    BY <2>1, AdmissionAssumption DEF IInv
  <2>2. CASE LiveTickets = {}
    BY <2>2 DEF LiveTickets, Active, Granted
  <2> QED BY <2>1, <2>2 DEF ensure_configuration
<1>3. Active(rows)' = {}
  BY <1>1, <1>2 DEF Active
<1> QED BY <1>1, <1>3 DEF IInv, Typed

\* With PostgreSQL it may find some, and leaves them within the limits of those
\* who granted them.
LEMMA ChangeKeeps ==
  ASSUME IInv, NEW i \in Instances, write_configuration(i)
  PROVE  IInv'
<1>1. UNCHANGED <<dep, rows, driver>> /\ config' = dep.conf[i]
  BY DEF write_configuration, dispatching
<1>2. dep.conf \in [Instances -> Configs]
  BY AdmissionAssumption DEF IInv, Typed, Deployment
<1>3. config' \in Configs /\ config' \in Range(dep.conf)
  BY <1>1, <1>2 DEF Range
<1>4. Limiting = Range(dep.conf) /\ Limiting' = Range(dep.conf)
  BY <1>1 DEF Limiting, Range, write_configuration
<1>5. (Active(rows) # {})' => Active(rows) # {}
  BY <1>1 DEF Active
<1>6. Within(rows, Limiting) => Within(rows, Limiting)'
  BY <1>1, <1>4 DEF Within, OfGraph, OfTool, Active
<1> QED BY <1>1, <1>3, <1>4, <1>5, <1>6 DEF IInv, Typed

\* Tickets, configuration and holders keep their types, and whoever has a live
\* permit has it under a configuration and within its limits, in every state.
THEOREM InductiveInvariant == Spec => []IInv
<1>1. Init => IInv
  <2> SUFFICES ASSUME Init PROVE IInv
    OBVIOUS
  <2>1. Active(rows) = {}
    BY DEF Init, Active, Granted, NoTicket
  <2>2. rows \in Rows
    BY Unpermitted DEF Init, Rows
  <2>3. driver \in [Graphs -> Instances]
    BY AdmissionAssumption DEF Init, Deployment
  <2> QED BY <2>1, <2>2, <2>3 DEF Init, IInv, Typed
<1>2. IInv /\ [Next]_vars => IInv'
  <2> SUFFICES ASSUME IInv, [Next]_vars PROVE IInv'
    OBVIOUS
  <2>1. rows \in Rows /\ driver \in [Graphs -> Instances]
    BY DEF IInv, Typed
  <2>2. ASSUME UNCHANGED <<dep, config, rows>>, driver' \in [Graphs -> Instances]
        PROVE  IInv'
    BY <2>1, <2>2, Loses
  <2>3. ASSUME UNCHANGED <<dep, config, driver>>,
               rows' = [o \in Instances |-> [n \in Nodes |-> rows'[o][n]]],
               \A o \in Instances, n \in Nodes :
                 rows'[o][n] = rows[o][n] \/ rows'[o][n] \in Ticket \ {Granted}
        PROVE  IInv'
    <3>1. PICK after : after = rows'
      OBVIOUS
    <3>2. rows' \in Rows /\ Active(rows') \subseteq Active(rows)
      BY <2>1, <2>3, <3>1, RowsLose
    <3> QED BY <2>1, <2>3, <3>2, Loses
  <2>4. ASSUME NEW i \in Instances, ensure_configuration(i)
        PROVE  IInv'
    BY <2>4, ConfigurationKeeps
  <2>17. ASSUME NEW i \in Instances, count_live(i)
         PROVE  IInv'
    BY <2>1, <2>2, <2>17 DEF count_live, dispatching
  <2>18. ASSUME NEW i \in Instances, write_configuration(i)
         PROVE  IInv'
    BY <2>18, ChangeKeeps
  <2>19. ASSUME NEW g \in Graphs, acquire_batch(g)
         PROVE  IInv'
    BY <2>1, <2>2, <2>19 DEF acquire_batch, scheduling
  <2>5. ASSUME NEW i \in Instances, Schedule(i)
        PROVE  IInv'
    BY <2>5, ScheduleKeeps
  <2>6. ASSUME NEW g \in Graphs, NEW nodes, register_batch(g, nodes)
        PROVE  IInv'
    <3>1. rows' = [rows EXCEPT ![driver[g]] = [n \in Nodes |->
                     IF n \in Range(nodes) THEN Pending ELSE @[n]]]
      BY <2>6 DEF register_batch
    <3>2. \A o \in Instances, n \in Nodes : rows'[o][n] \in {rows[o][n], Pending}
      BY <2>1, <3>1 DEF Rows
    <3>3. rows' = [o \in Instances |-> [n \in Nodes |-> rows'[o][n]]]
      BY <2>1, <3>1 DEF Rows
    <3>4. UNCHANGED <<dep, config, driver>>
      BY <2>6 DEF register_batch, configuration
    <3> QED BY <2>3, <3>2, <3>3, <3>4, Unpermitted
  <2>7. ASSUME NEW g \in Graphs, acquire_granted(g) \/ claim_nodes(g)
        PROVE  IInv'
    BY <2>1, <2>2, <2>7 DEF acquire_granted, claim_nodes, scheduling
  <2>8. ASSUME NEW g \in Graphs,
               acquire_refused(g) \/ acquire_mismatched(g) \/ acquire_abandoned(g)
        PROVE  IInv'
    BY <2>8, StopWaitingLoses DEF acquire_refused, acquire_mismatched, acquire_abandoned
  <2>9. ASSUME NEW g \in Graphs, claim_rejected(g) \/ release_permits(g)
        PROVE  IInv'
    BY <2>9, ReleaseAllLoses DEF claim_rejected, release_permits, configuration
  <2>10. ASSUME NEW g \in Graphs, NEW n \in Nodes, work_ends(g, n)
         PROVE  IInv'
    BY <2>1, <2>2, <2>10 DEF work_ends, scheduling
  <2>11. ASSUME NEW g \in Graphs, cancel_waiters(g)
         PROVE  IInv'
    <3>1. rows' = [i \in Instances |-> [n \in Nodes |->
                     IF GraphOf[n] = g /\ rows[i][n].status = "pending"
                     THEN [status |-> "cancelled", live |-> FALSE] ELSE rows[i][n]]]
          /\ UNCHANGED <<dep, config, driver>>
      BY <2>11 DEF cancel_waiters, configuration
    <3>2. \A o \in Instances, n \in Nodes :
            rows'[o][n] \in {rows[o][n], [status |-> "cancelled", live |-> FALSE]}
      BY <3>1
    <3>3. rows' = [o \in Instances |-> [n \in Nodes |-> rows'[o][n]]]
      BY <3>1
    <3> QED BY <2>3, <3>1, <3>2, <3>3, Unpermitted
  <2>12. ASSUME NEW g \in Graphs, NEW i \in Instances, takeover(g, i)
         PROVE  IInv'
    BY <2>1, <2>2, <2>12 DEF takeover, scheduling
  <2>13. ASSUME NEW i \in Instances, NEW n \in Nodes, lapse(i, n)
         PROVE  IInv'
    <3>1. rows' = [rows EXCEPT ![i][n].live = FALSE] /\ UNCHANGED <<dep, config, driver>>
      BY <2>13 DEF lapse, dispatching, configuration
    <3>2. ASSUME NEW o \in Instances, NEW m \in Nodes
          PROVE  rows'[o][m] = rows[o][m] \/ rows'[o][m] \in Ticket \ {Granted}
      <4>1. rows'[o][m] = IF o = i /\ m = n THEN [rows[o][m] EXCEPT !.live = FALSE]
                          ELSE rows[o][m]
        BY <2>1, <3>1 DEF Rows
      <4>2. rows[o][m] \in Ticket
        BY <2>1 DEF Rows
      <4>3. [rows[o][m] EXCEPT !.live = FALSE] \in Ticket \ {Granted}
        BY <4>2 DEF Ticket, Granted
      <4> QED BY <4>1, <4>3
    <3>3. rows' = [o \in Instances |-> [m \in Nodes |-> rows'[o][m]]]
      BY <2>1, <3>1 DEF Rows
    <3> QED BY <2>3, <3>1, <3>2, <3>3
  <2>14. ASSUME NEW i \in Instances, crash(i)
         PROVE  IInv'
    BY <2>1, <2>2, <2>14 DEF crash, Leave
  <2>15. ASSUME NEW i \in Instances, shutdown(i)
         PROVE  IInv'
    <3>1. /\ rows' = [rows EXCEPT ![i] = [n \in Nodes |->
                        IF @[n].status = "pending" \/ @[n] = Granted
                        THEN NoTicket ELSE @[n]]]
          /\ UNCHANGED <<dep, config, driver>>
      BY <2>15 DEF shutdown, Leave
    <3>2. \A o \in Instances, n \in Nodes : rows'[o][n] \in {rows[o][n], NoTicket}
      BY <2>1, <3>1 DEF Rows
    <3>3. rows' = [o \in Instances |-> [n \in Nodes |-> rows'[o][n]]]
      BY <2>1, <3>1 DEF Rows
    <3> QED BY <2>3, <3>1, <3>2, <3>3, Unpermitted
  <2>16. CASE UNCHANGED vars
    BY <2>1, <2>2, <2>16 DEF vars
  <2> QED
    BY <2>4, <2>5, <2>6, <2>7, <2>8, <2>9, <2>10, <2>11, <2>12, <2>13, <2>14,
       <2>15, <2>16, <2>17, <2>18, <2>19 DEF Next, Dispatch
<1> QED BY <1>1, <1>2, PTL DEF Spec

\* With SQLite the live permits of all instances together stay within the
\* global, the per-graph and the per-tool limits of the configuration in force;
\* with PostgreSQL each stays within that limit of some configuration that an
\* instance was started with, hence of the one in force when all share one.  For
\* any number of instances, shards, graphs and nodes and any limits: the
\* scheduler counts before it grants, nothing else grants, and with SQLite the
\* limits change only while nobody holds a live ticket (_schedule_once,
\* _schedule_postgresql_once, ensure_configuration).
THEOREM CapacityIsHeld == Spec => []CapacityHeld
<1>1. IInv => CapacityHeld
  BY DEF IInv, CapacityHeld, Within, OfGraph, OfTool
<1> QED BY <1>1, InductiveInvariant, PTL
===============================================================================
