----------------------- MODULE ProviderManagementProofs -----------------------
(***************************************************************************)
(* Proofs about ProviderManagement and the ModelGateway it extends, for any *)
(* requests, providers, prices, commands and processes.                    *)
(*                                                                         *)
(* The invariant has two halves.  AdminInv speaks of the catalog: a command *)
(* that commits has been prepared from the catalog it replaces, and the    *)
(* process is between its commit and the end of its mutation lock wherever *)
(* gateway and catalog differ.  GatewayInv speaks of the requests: what is *)
(* reserved is exactly what the calls in flight may cost, and whoever took *)
(* a half-open slot is still calling.                                      *)
(***************************************************************************)
EXTENDS ProviderManagement, FiniteSetTheorems, WellFoundedInduction, TLAPS

Entries == [P -> [config : Configs \cup {0}, enabled : BOOLEAN]]
Catalog == [version : Nat, default : P, entries : Entries]
Registry == [entries : [P -> Nat], default : P]
CallState == {"new", "queued", "read", "committing", "committed", "serving", "answered"}
Call == [pc : CallState, host : Hosts, seen : Nat,
         base : Catalog \cup {<<>>}, reg : Registry \cup {<<>>}]

AdminTyped ==
  /\ dep \in Deployments
  /\ catalog \in Catalog /\ seed \in Catalog
  /\ audit \in Seq(DOMAIN Mutations)
  /\ call \in [Calls -> Call]
  /\ registry \in [P -> Nat] /\ default \in P
  /\ cache \in [P -> Int] /\ probe \in [P -> Int]

\* The mutation lock of a process.
InLock == {"read", "committing", "committed", "serving"}
Exclusive ==
  \A c, d \in Calls :
    call[c].pc \in InLock /\ call[d].pc \in InLock /\ call[c].host = call[d].host => c = d

\* A catalog of the current version is the catalog; what a command has read is
\* not older than what its client saw.
Versions ==
  \A c \in Calls :
    /\ call[c].pc \in {"queued", "read", "committing"} => call[c].seen <= catalog.version
    /\ call[c].pc = "committing" =>
         /\ call[c].base \in Catalog
         /\ call[c].seen <= call[c].base.version
         /\ call[c].base.version <= catalog.version
         /\ call[c].base.version = catalog.version => call[c].base = catalog

\* The only process and its catalog.
Alone == dep.hosts = {Here}
Underway == \E c \in Calls : call[c].pc \in {"committed", "serving"}
InStep == registry = Adapters(catalog) /\ default = catalog.default
Follows ==
  Alone =>
    /\ \A c \in Calls : call[c].host = Here
    /\ \A c \in Calls : call[c].pc = "serving" => InStep
    /\ ~Underway =>
         /\ InStep
         /\ \A p \in P : cache[p] \in {0, registry[p]}
         /\ \A p \in P : probe[p] \in {NoProbe, Waiting, registry[p]}

\* What a committed command is going to hand to the gateway.
HandsOver ==
  \A c \in Calls : call[c].pc = "committed" =>
    /\ call[c].reg \in Registry
    /\ Alone => /\ call[c].reg.entries = Adapters(catalog)
                /\ call[c].reg.default = catalog.default

AdminInv ==
  /\ AdminTyped /\ Exclusive /\ Versions /\ Follows /\ HandsOver
  /\ Replayed \in Catalog /\ AuditExplainsCatalog

------------------------------------------------------------------------------
(* Commands and the catalogs they make.                                     *)

\* A command makes a catalog of a catalog.
LEMMA CandidateTyped ==
  ASSUME NEW s \in Catalog, NEW k \in DOMAIN Mutations
  PROVE  /\ Candidate(s, Mutations[k]) \in Catalog
         /\ Candidate(s, Mutations[k]).version = s.version
<1> DEFINE m == Mutations[k]
<1>1. m \in Mutation
  BY ManagementAssumption
<1> HIDE DEF m
<1>2. s.entries[m.provider] \in [config : Configs \cup {0}, enabled : BOOLEAN]
  BY <1>1 DEF Mutation, Catalog, Entries
<1>3. Absent \in [config : Configs \cup {0}, enabled : BOOLEAN]
  BY DEF Absent
<1> DEFINE e == Entry(s.entries[m.provider], m)
<1>4. e \in [config : Configs \cup {0}, enabled : BOOLEAN]
  BY <1>1, <1>2, <1>3 DEF Entry, Mutation
<1> HIDE DEF e
<1> DEFINE E == [s.entries EXCEPT ![m.provider] = e]
           D == IF m.action = "make_default" THEN m.provider ELSE s.default
<1>5. E \in Entries
  BY <1>1, <1>4 DEF Entries, Catalog
<1>6. D \in P
  BY <1>1 DEF Mutation, Catalog
<1>7. Candidate(s, m) = [[s EXCEPT !.entries = E] EXCEPT !.default = D]
  BY DEF Candidate, e
<1> HIDE DEF E, D
<1>8. Candidate(s, m) \in Catalog /\ Candidate(s, m).version = s.version
  BY <1>5, <1>6, <1>7 DEF Catalog
<1> QED BY <1>8 DEF m

\* It makes the same content of the same content.
LEMMA CandidateSame ==
  ASSUME NEW s \in Catalog, NEW t \in Catalog, SameContent(s, t), NEW m
  PROVE  SameContent(Candidate(s, m), Candidate(t, m))
BY DEF SameContent, Candidate, Catalog

\* Every provider of a catalog has an adapter version, 0 when it has no
\* adapter.
LEMMA AdaptersTyped ==
  ASSUME NEW s \in Catalog
  PROVE  Adapters(s) \in [P -> Nat]
<1>1. \A p \in P : s.entries[p] \in [config : Configs \cup {0}, enabled : BOOLEAN]
  BY DEF Catalog, Entries
<1>2. \A p \in P : s.entries[p].config \in Nat
  BY <1>1, ManagementAssumption
<1> QED BY <1>2 DEF Adapters

------------------------------------------------------------------------------
(* The replay of the audit.                                                 *)

\* A set of sets over a finite set that has an element has a smallest one.
LEMMA SmallestSet ==
  ASSUME NEW S, IsFiniteSet(S), NEW F, F \subseteq SUBSET S, F # {}
  PROVE  \E x \in F : \A y \in F : y \subseteq x => y = x
<1>1. IsWellFoundedOn(StrictSubsetOrdering(S), FiniteSubsetsOf(S))
  BY FS_StrictSubsetOrderingWellFounded
<1>2. FiniteSubsetsOf(S) = SUBSET S
  BY FS_FiniteSubsetsOfFinite
<1>3. PICK x \in F : \A y \in F : ~ (<<y, x>> \in StrictSubsetOrdering(S))
  BY <1>1, <1>2, WFMin
<1>4. ASSUME NEW y \in F, y \subseteq x
      PROVE  y = x
  BY <1>3, <1>4, Zenon DEF StrictSubsetOrdering
<1> QED BY <1>4

\* The least-number principle.
LEMMA LeastNat ==
  ASSUME NEW T, T \subseteq Nat, T # {}
  PROVE  \E x \in T : \A y \in T : x <= y
<1>1. PICK a \in T : TRUE
  OBVIOUS
<1> DEFINE F == {0..x : x \in {y \in T : y <= a}}
<1> DEFINE D == 0..a
<1>2. F \subseteq SUBSET D /\ F # {}
  BY <1>1
<1>3. IsFiniteSet(D)
  BY <1>1, FS_Interval
<1> HIDE DEF F, D
<1>4. \E s \in F : \A t \in F : t \subseteq s => t = s
  <2>1. F \subseteq SUBSET D
    BY <1>2
  <2>2. F # {}
    BY <1>2
  <2> QED BY ONLY <2>1, <2>2, <1>3, SmallestSet
<1>5. PICK s \in F : \A t \in F : t \subseteq s => t = s
  BY <1>4
<1>6. PICK x \in T : x <= a /\ s = 0..x
  BY <1>5 DEF F
<1>7. ASSUME NEW y \in T
      PROVE  x <= y
  <2>1. CASE y < x
    <3>1. y <= a
      BY <1>1, <1>6, <2>1
    <3>2. 0..y \in F
      BY <3>1 DEF F
    <3>3. 0..y \subseteq s
      BY <1>6, <2>1
    <3>4. 0..y = 0..x
      BY <1>5, <1>6, <3>2, <3>3
    <3> QED BY <1>6, <2>1, <3>4
  <2> QED BY <1>6, <2>1
<1> QED BY <1>7

\* f holds what the first commands of a make of the catalog s, up to the n-th.
IsReplay(f, n, a, s) ==
  f = [k \in 0..n |-> IF k = 0 THEN s ELSE Candidate(f[k - 1], Mutations[a[k]])]
Replay(n, a, s) == CHOOSE f : IsReplay(f, n, a, s)

\* The audit trail can be replayed from any snapshot.
LEMMA ReplayExists ==
  ASSUME NEW a, NEW s, NEW n \in Nat
  PROVE  \E f : IsReplay(f, n, a, s)
<1> DEFINE Step(x, k) == Candidate(x, Mutations[a[k]])
           Runs(f, j) == f = [i \in 0..j |-> IF i = 0 THEN s ELSE Step(f[i - 1], i)]
           Bad == {j \in Nat : ~ \E f : Runs(f, j)}
<1> HIDE DEF Step
<1>1. CASE Bad # {}
  <2>1. PICK j \in Bad : \A i \in Bad : j <= i
    BY <1>1, LeastNat
  <2>2. CASE j = 0
    <3>1. [i \in 0..0 |-> s] = [i \in 0..0 |-> IF i = 0 THEN s
                                              ELSE Step([x \in 0..0 |-> s][i - 1], i)]
      OBVIOUS
    <3>2. Runs([i \in 0..0 |-> s], j)
      BY <2>2, <3>1
    <3> QED BY <3>2
  <2>3. CASE j # 0
    <3>1. j \in Nat /\ j - 1 \in Nat /\ j - 1 \notin Bad
      <4>1. j \in Nat
        BY DEF Bad
      <4> HIDE DEF Bad
      <4> QED BY <2>1, <2>3, <4>1
    <3>2. PICK f : Runs(f, j - 1)
      BY <3>1
    <3> DEFINE g == [i \in 0..j |-> IF i = j THEN Step(f[j - 1], j) ELSE f[i]]
    <3>3. \A i \in 0..(j - 1) : f[i] = IF i = 0 THEN s ELSE Step(f[i - 1], i)
      BY <3>2
    <3>4. \A i \in 0..j : g[i] = IF i = 0 THEN s ELSE Step(g[i - 1], i)
      <4> HIDE DEF Runs
      <4>1. ASSUME NEW i \in 0..j
            PROVE  g[i] = IF i = 0 THEN s ELSE Step(g[i - 1], i)
        <5>1. CASE i = j
          <6>1. g[i] = Step(f[i - 1], i) /\ i # 0 /\ i - 1 \in 0..j /\ i - 1 # j
            BY <3>1, <5>1, <2>3
          <6>2. g[i - 1] = f[i - 1]
            BY <6>1
          <6> QED BY <6>1, <6>2
        <5>2. CASE i # j /\ i # 0
          <6>1. i \in 0..(j - 1) /\ i - 1 \in 0..j /\ i - 1 # j
            BY <3>1, <5>2
          <6>2. g[i] = f[i] /\ g[i - 1] = f[i - 1]
            BY <5>2, <6>1
          <6> QED BY <3>3, <5>2, <6>1, <6>2
        <5>3. CASE i = 0
          BY <3>1, <3>3, <5>3, <2>3
        <5> QED BY <5>1, <5>2, <5>3
      <4> QED BY <4>1
    <3>5. Runs(g, j)
      <4>1. g = [i \in 0..j |-> g[i]]
        OBVIOUS
      <4> HIDE DEF g
      <4> QED BY <3>4, <4>1
    <3> QED BY <3>5
  <2> QED BY <2>2, <2>3
<1>2. CASE Bad = {}
  <2>1. \E f : Runs(f, n)
    BY <1>2
  <2> QED BY <2>1 DEF Step, IsReplay
<1> QED BY <1>1, <1>2

\* A replay starts at the snapshot and applies one audited mutation after the
\* other.
LEMMA ReplaySteps ==
  ASSUME NEW a, NEW s, NEW n \in Nat
  PROVE  /\ Replay(n, a, s)[0] = s
         /\ \A k \in 1..n :
              Replay(n, a, s)[k] = Candidate(Replay(n, a, s)[k - 1], Mutations[a[k]])
<1> DEFINE f == Replay(n, a, s)
<1>1. IsReplay(f, n, a, s)
  BY ReplayExists DEF Replay
<1> HIDE DEF f
<1>2. f = [k \in 0..n |-> IF k = 0 THEN s ELSE Candidate(f[k - 1], Mutations[a[k]])]
  BY <1>1, Zenon DEF IsReplay
<1>3. ASSUME NEW j \in 0..n
      PROVE  f[j] = IF j = 0 THEN s ELSE Candidate(f[j - 1], Mutations[a[j]])
  <2>1. \A x : x = [k \in 0..n |-> IF k = 0 THEN s
                                   ELSE Candidate(f[k - 1], Mutations[a[k]])]
               => x[j] = IF j = 0 THEN s ELSE Candidate(f[j - 1], Mutations[a[j]])
    OBVIOUS
  <2> QED BY <1>2, <2>1, Zenon
<1>4. f[0] = s /\ \A k \in 1..n : f[k] = Candidate(f[k - 1], Mutations[a[k]])
  BY <1>3
<1> QED BY <1>4 DEF f

\* A longer audit replays the same way as far as both go.
LEMMA ReplayAgrees ==
  ASSUME NEW a \in Seq(DOMAIN Mutations), NEW x \in DOMAIN Mutations, NEW s
  PROVE  Replay(Len(a) + 1, Append(a, x), s)[Len(a) + 1]
           = Candidate(Replay(Len(a), a, s)[Len(a)], Mutations[x])
<1> DEFINE n == Len(a)
           b == Append(a, x)
           f == Replay(n, a, s)
           g == Replay(n + 1, b, s)
<1>1. n \in Nat /\ n + 1 \in Nat /\ b[n + 1] = x /\ \A k \in 1..n : b[k] = a[k]
  OBVIOUS
<1> HIDE DEF n, b
<1>2. f[0] = s /\ \A k \in 1..n : f[k] = Candidate(f[k - 1], Mutations[a[k]])
  BY <1>1, ReplaySteps
<1>3. g[0] = s /\ \A k \in 1..(n + 1) : g[k] = Candidate(g[k - 1], Mutations[b[k]])
  BY <1>1, ReplaySteps
<1> HIDE DEF f, g
<1> DEFINE Bad == {k \in Nat : k <= n /\ f[k] # g[k]}
<1>4. Bad \subseteq Nat /\ \A k \in Nat : k \in Bad <=> k <= n /\ f[k] # g[k]
  OBVIOUS
<1> HIDE DEF Bad
<1>5. CASE Bad # {}
  <2>1. PICK k \in Bad : \A i \in Bad : k <= i
    BY <1>4, <1>5, LeastNat
  <2>2. k \in 1..n /\ k \in 1..(n + 1) /\ k - 1 \in Nat /\ k - 1 <= n
    BY <1>1, <1>2, <1>3, <1>4, <2>1
  <2>3. f[k - 1] = g[k - 1]
    BY <1>4, <2>1, <2>2
  <2>4. f[k] = g[k]
    BY <1>1, <1>2, <1>3, <2>2, <2>3
  <2> QED BY <1>4, <2>1, <2>4
<1>6. CASE Bad = {}
  <2>1. f[n] = g[n]
    BY <1>1, <1>4, <1>6
  <2>2. g[n + 1] = Candidate(g[n], Mutations[b[n + 1]])
    <3>1. n + 1 \in 1..(n + 1) /\ (n + 1) - 1 = n
      BY <1>1
    <3> QED BY <1>3, <3>1
  <2> QED BY <1>1, <2>1, <2>2 DEF f, g, n, b
<1> QED BY <1>5, <1>6

\* What the trail replays to is the last catalog of its replay.
LEMMA ReplayedIs == Replayed = Replay(Len(audit), audit, seed)[Len(audit)]
BY Zenon DEF Replayed, Replay, IsReplay

\* The same of the next state.
LEMMA ReplayedIsNext == (Replayed = Replay(Len(audit), audit, seed)[Len(audit)])'
BY ReplayedIs, PTL

\* A command that is audited is replayed last.
LEMMA ReplayedAppend ==
  ASSUME audit \in Seq(DOMAIN Mutations), NEW k \in DOMAIN Mutations,
         audit' = Append(audit, k), seed' = seed
  PROVE  Replayed' = Candidate(Replayed, Mutations[k])
<1>1. Replayed' = Replay(Len(audit'), audit', seed')[Len(audit')]
  BY ReplayedIsNext
<1>2. Len(audit') = Len(audit) + 1
  OBVIOUS
<1>3. Replayed' = Replay(Len(audit) + 1, Append(audit, k), seed)[Len(audit) + 1]
  BY <1>1, <1>2
<1> QED BY <1>3, ReplayedIs, ReplayAgrees

\* No new audit entry, no other catalog.
LEMMA ReplayedKept ==
  ASSUME audit' = audit, seed' = seed
  PROVE  Replayed' = Replayed
BY ReplayedIs, ReplayedIsNext

------------------------------------------------------------------------------
(* The administration keeps its invariant.                                  *)

\* The catalog the process starts with is well formed.
LEMMA SeedTyped ==
  ASSUME Init
  PROVE  seed \in Catalog /\ catalog = seed /\ registry = Adapters(catalog)
<1>1. Providers[1] \in P
  BY GatewayAssumption DEF P
<1>2. (CHOOSE c \in Configs : TRUE) \in Configs
  BY ManagementAssumption
<1>3. seed = [version |-> 1, default |-> Providers[1],
              entries |-> [p \in P |-> [config |-> CHOOSE c \in Configs : TRUE,
                                        enabled |-> TRUE]]]
  BY DEF Init
<1> QED BY <1>1, <1>2, <1>3 DEF Init, Catalog, Entries

\* The administration starts in its invariant.
LEMMA AdminInit ==
  ASSUME Init
  PROVE  AdminInv
<1>1. AdminTyped
  <2>1. audit \in Seq(DOMAIN Mutations) /\ dep \in Deployments
    BY DEF Init
  <2>2. NoCall \in Call
    BY ManagementAssumption DEF NoCall, Call, CallState
  <2>3. call \in [Calls -> Call]
    BY <2>2 DEF Init
  <2>4. registry \in [P -> Nat] /\ default \in P
    BY SeedTyped, AdaptersTyped DEF Init, Catalog
  <2>5. cache \in [P -> Int] /\ probe \in [P -> Int]
    BY DEF Init, NoProbe
  <2> QED BY <2>1, <2>3, <2>4, <2>5, SeedTyped DEF AdminTyped
<1>2. \A c \in Calls : call[c].pc = "new" /\ call[c].host = Here
  BY DEF Init, NoCall
<1>3. Exclusive /\ Versions /\ HandsOver
  BY <1>2 DEF Exclusive, InLock, Versions, HandsOver
<1>4. Follows
  <2>1. InStep
    BY SeedTyped DEF Init, InStep
  <2>2. \A p \in P : cache[p] = 0 /\ probe[p] = NoProbe
    BY DEF Init
  <2> QED BY <1>2, <2>1, <2>2 DEF Follows
<1>5. Replayed = seed
  <2>1. Len(audit) = 0
    BY DEF Init
  <2>2. Replay(0, audit, seed)[0] = seed
    BY ReplaySteps
  <2> QED BY <2>1, <2>2, ReplayedIs
<1>6. AuditExplainsCatalog
  BY <1>5, SeedTyped DEF AuditExplainsCatalog, SameContent
<1> QED BY <1>1, <1>3, <1>4, <1>5, <1>6, SeedTyped DEF AdminInv

\* Steps that only touch cached health.
LEMMA HealthStep ==
  ASSUME AdminInv, UNCHANGED <<dep, catalog, seed, audit, call, registry, default>>,
         cache' \in [P -> Int], probe' \in [P -> Int],
         \A p \in P : \/ cache'[p] \in {0, cache[p]}
                      \/ cache'[p] = probe[p] /\ probe[p] # Waiting,
         \A p \in P : probe'[p] \in {NoProbe, Waiting, probe[p], registry[p]}
  PROVE  AdminInv'
<1>1. AdminTyped' /\ Exclusive' /\ Versions' /\ HandsOver'
  BY DEF AdminInv, AdminTyped, Exclusive, Versions, HandsOver, Alone, Adapters
<1>2. Follows'
  <2>1. /\ Underway' <=> Underway
        /\ InStep' <=> InStep
        /\ Alone' <=> Alone
    BY DEF Underway, InStep, Alone, Adapters
  <2>2. ASSUME Alone, ~Underway, NEW p \in P
        PROVE  cache'[p] \in {0, registry[p]} /\ probe'[p] \in {NoProbe, Waiting, registry[p]}
    BY <2>2 DEF AdminInv, Follows, NoProbe, Waiting
  <2> QED BY <2>1, <2>2 DEF AdminInv, Follows
<1>3. Replayed' = Replayed
  BY ReplayedKept
<1> QED BY <1>1, <1>2, <1>3 DEF AdminInv, AuditExplainsCatalog, SameContent

\* A call that moves outside the commit.
LEMMA CallStep ==
  ASSUME AdminInv, NEW c \in Calls, NEW v \in Call, call' = [call EXCEPT ![c] = v],
         UNCHANGED <<dep, catalog, seed, audit, registry, default, cache, probe>>,
         v.pc \in {"queued", "read", "committing", "answered"},
         call[c].pc \notin {"committed", "serving"},
         v.pc \in InLock =>
           (call[c].pc \in InLock /\ v.host = call[c].host) \/ ~Locked(v.host),
         v.pc \in {"queued", "read", "committing"} => v.seen <= catalog.version,
         v.pc = "committing" => v.base = catalog,
         Alone => v.host = Here
  PROVE  AdminInv'
<1>1. call \in [Calls -> Call] /\ call' \in [Calls -> Call] /\ catalog \in Catalog
  BY DEF AdminInv, AdminTyped
<1>2. \A d \in Calls : call'[d] = IF d = c THEN v ELSE call[d]
  BY <1>1
<1>3. AdminTyped'
  BY <1>1 DEF AdminInv, AdminTyped
<1>4. Exclusive'
  <2>1. ASSUME NEW d \in Calls, d # c, v.pc \in InLock, call[d].pc \in InLock,
               call[d].host = v.host
        PROVE  FALSE
    <3>1. CASE call[c].pc \in InLock /\ v.host = call[c].host
      BY <2>1, <3>1 DEF AdminInv, Exclusive
    <3>2. CASE ~Locked(v.host)
      BY <2>1, <3>2 DEF Locked, InLock
    <3> QED BY <2>1, <3>1, <3>2
  <2> QED BY <1>2, <2>1 DEF AdminInv, Exclusive
<1>5. Versions'
  <2>1. v.pc = "committing" =>
          /\ v.base \in Catalog /\ v.seen <= v.base.version
          /\ v.base.version <= catalog.version
          /\ v.base.version = catalog.version => v.base = catalog
    BY <1>1 DEF Catalog
  <2> QED BY <1>2, <2>1 DEF AdminInv, Versions
<1>6. HandsOver'
  BY <1>2 DEF AdminInv, HandsOver, Alone, Adapters
<1>7. Follows'
  <2>1. /\ Underway' <=> Underway
        /\ InStep' <=> InStep
        /\ Alone' <=> Alone
    BY <1>2 DEF Underway, InStep, Alone, Adapters
  <2> QED BY <1>2, <2>1 DEF AdminInv, Follows
<1>8. Replayed' = Replayed
  BY ReplayedKept
<1> QED BY <1>3, <1>4, <1>5, <1>6, <1>7, <1>8 DEF AdminInv, AuditExplainsCatalog, SameContent

\* Who answers a call leaves the lock.
LEMMA AnsweredKeeps ==
  ASSUME AdminInv, NEW c \in Calls, Answered(c),
         UNCHANGED <<dep, catalog, seed, audit, registry, default, cache, probe>>,
         call[c].pc \notin {"committed", "serving"}
  PROVE  AdminInv'
<1> DEFINE v == [NoCall EXCEPT !.pc = "answered"]
<1>1. v \in Call /\ v.pc = "answered" /\ v.host = Here
  BY ManagementAssumption DEF NoCall, Call, CallState
<1>2. call' = [call EXCEPT ![c] = v]
  BY DEF Answered
<1> HIDE DEF v
<1> QED BY <1>1, <1>2, CallStep DEF InLock

\* The commit of a command that was prepared from the current catalog.
LEMMA AppliedKeeps ==
  ASSUME AdminInv, NEW c \in Calls, call[c].pc = "committing", Current(c),
         NEW next, next = Candidate(call[c].base, Command(c)),
         catalog' = [next EXCEPT !.version = catalog.version + 1],
         audit' = Append(audit, Key[c]),
         call' = [call EXCEPT ![c].pc = "committed",
                              ![c].reg = [entries |-> Adapters(next),
                                          default |-> next.default]],
         UNCHANGED <<dep, seed, registry, default, cache, probe>>
  PROVE  AdminInv'
<1> DEFINE k == Key[c]
           R == [entries |-> Adapters(next), default |-> next.default]
           v == [[call[c] EXCEPT !.pc = "committed"] EXCEPT !.reg = R]
<1>1. /\ call \in [Calls -> Call] /\ catalog \in Catalog /\ call[c] \in Call
      /\ k \in DOMAIN Mutations /\ Command(c) = Mutations[k]
  BY ManagementAssumption DEF AdminInv, AdminTyped, Command
<1>2. call[c].base = catalog
  <2>1. /\ call[c].base \in Catalog
        /\ call[c].seen <= call[c].base.version
        /\ call[c].base.version <= catalog.version
        /\ call[c].base.version = catalog.version => call[c].base = catalog
    BY DEF AdminInv, Versions
  <2>2. call[c].base.version \in Nat /\ catalog.version \in Nat
    BY <1>1, <2>1 DEF Catalog
  <2> QED BY <2>1, <2>2 DEF Current
<1>3. next \in Catalog /\ next.version = catalog.version
  BY <1>1, <1>2, CandidateTyped
<1>4. /\ catalog' \in Catalog /\ catalog'.version = catalog.version + 1
      /\ catalog'.entries = next.entries /\ catalog'.default = next.default
  BY <1>1, <1>3 DEF Catalog
<1>5. R \in Registry /\ R.entries = Adapters(next) /\ R.default = next.default
  BY <1>3, AdaptersTyped DEF Registry, Catalog
<1> HIDE DEF R, k
<1>6. /\ v \in Call /\ v.pc = "committed" /\ v.reg = R /\ v.host = call[c].host
  BY <1>1, <1>5 DEF Call, CallState
<1>7. call' = [call EXCEPT ![c] = v]
  BY DEF R
<1> HIDE DEF v
<1>8. \A d \in Calls : call'[d] = IF d = c THEN v ELSE call[d]
  BY <1>1, <1>7
<1>9. AdminTyped'
  <2>1. audit' \in Seq(DOMAIN Mutations)
    BY <1>1 DEF AdminInv, AdminTyped, k
  <2> QED BY <1>1, <1>4, <1>6, <1>7, <2>1 DEF AdminInv, AdminTyped
<1>10. \A d \in Calls \ {c} : ~(call[d].pc \in InLock /\ call[d].host = call[c].host)
  BY DEF AdminInv, Exclusive, InLock
<1>11. Exclusive'
  BY <1>6, <1>8, <1>10 DEF AdminInv, Exclusive
<1>12. Versions'
  <2>1. catalog.version \in Nat
    BY <1>1 DEF Catalog
  <2>2. ASSUME NEW d \in Calls \ {c}
        PROVE  /\ call[d].pc \in {"queued", "read", "committing"} =>
                    call[d].seen <= catalog'.version
               /\ call[d].pc = "committing" =>
                    /\ call[d].base \in Catalog
                    /\ call[d].seen <= call[d].base.version
                    /\ call[d].base.version <= catalog'.version
                    /\ call[d].base.version # catalog'.version
    <3>1. call[d].seen \in Nat
      BY <1>1 DEF Call
    <3>2. call[d].base \in Catalog => call[d].base.version \in Nat
      BY DEF Catalog
    <3> QED BY <1>4, <2>1, <3>1, <3>2 DEF AdminInv, Versions
  <2>3. ASSUME NEW d \in Calls
        PROVE  /\ call'[d].pc \in {"queued", "read", "committing"} =>
                    call'[d].seen <= catalog'.version
               /\ call'[d].pc = "committing" =>
                    /\ call'[d].base \in Catalog
                    /\ call'[d].seen <= call'[d].base.version
                    /\ call'[d].base.version <= catalog'.version
                    /\ call'[d].base.version = catalog'.version => call'[d].base = catalog'
    <3>1. CASE d = c
      <4>1. call'[d].pc = "committed"
        BY <1>6, <1>8, <3>1
      <4> QED BY <4>1
    <3>2. CASE d # c
      <4>1. call'[d] = call[d] /\ d \in Calls \ {c}
        BY <1>8, <3>2
      <4> QED BY <2>2, <4>1
    <3> QED BY <3>1, <3>2
  <2> QED BY <2>3 DEF Versions
<1>13. Adapters(catalog)' = Adapters(next)
  BY <1>4 DEF Adapters
<1>14. HandsOver'
  <2>1. ASSUME NEW d \in Calls \ {c}, call[d].pc = "committed"
        PROVE  call[d].reg \in Registry /\ ~Alone
    <3>1. call[d].reg \in Registry
      BY <2>1 DEF AdminInv, HandsOver
    <3>2. ~Alone
      BY <1>10, <2>1 DEF AdminInv, Follows, InLock
    <3> QED BY <3>1, <3>2
  <2>2. Alone' <=> Alone
    BY DEF Alone
  <2>3. ASSUME NEW d \in Calls, call'[d].pc = "committed"
        PROVE  /\ call'[d].reg \in Registry
               /\ Alone => /\ call'[d].reg.entries = Adapters(catalog)'
                           /\ call'[d].reg.default = catalog'.default
    <3>1. CASE d = c
      <4>1. call'[d].reg = R
        BY <1>6, <1>8, <3>1
      <4> QED BY <1>4, <1>5, <1>13, <4>1
    <3>2. CASE d # c
      <4>1. call'[d] = call[d] /\ d \in Calls \ {c}
        BY <1>8, <3>2
      <4> QED BY <2>1, <2>3, <4>1
    <3> QED BY <3>1, <3>2
  <2> QED BY <2>2, <2>3 DEF HandsOver
<1>15. Follows'
  <2>1. Underway'
    BY <1>6, <1>8 DEF Underway
  <2>2. Alone' <=> Alone
    BY DEF Alone
  <2>3. ASSUME Alone
        PROVE  \A d \in Calls : call'[d].host = Here /\ call'[d].pc # "serving"
    <3>1. \A d \in Calls : call[d].host = Here
      BY <2>3 DEF AdminInv, Follows
    <3>2. ASSUME NEW d \in Calls
          PROVE  call'[d].host = Here /\ call'[d].pc # "serving"
      <4>1. CASE d = c
        BY <1>6, <1>8, <3>1, <4>1
      <4>2. CASE d # c
        <5>1. call'[d] = call[d] /\ d \in Calls \ {c}
          BY <1>8, <4>2
        <5> QED BY <1>10, <3>1, <5>1 DEF InLock
      <4> QED BY <4>1, <4>2
    <3> QED BY <3>2
  <2> QED BY <2>1, <2>2, <2>3 DEF Follows
<1>16. Replayed' = Candidate(Replayed, Mutations[k])
  BY <1>1, ReplayedAppend DEF AdminInv, AdminTyped, k
<1>17. Replayed' \in Catalog
  BY <1>1, <1>16, CandidateTyped DEF AdminInv
<1>18. SameContent(next, Replayed')
  BY <1>1, <1>2, <1>16, CandidateSame DEF AdminInv, AuditExplainsCatalog
<1>19. AuditExplainsCatalog'
  BY <1>4, <1>18 DEF AuditExplainsCatalog, SameContent
<1> QED BY <1>9, <1>11, <1>12, <1>14, <1>15, <1>17, <1>19 DEF AdminInv

\* The commit of a command keeps the invariant of the administration ...
LEMMA CommitKeeps ==
  ASSUME AdminInv, NEW c \in Calls, commit(c)
  PROVE  AdminInv'
<1>1. /\ call[c].pc = "committing"
      /\ UNCHANGED <<dep, seed, registry, default, cache, probe>>
  BY DEF commit, gateway
<1>2. CASE Answered(c) /\ UNCHANGED <<catalog, audit>>
  BY <1>1, <1>2, AnsweredKeeps
<1>3. CASE /\ Current(c)
           /\ catalog' = [Candidate(call[c].base, Command(c))
                            EXCEPT !.version = catalog.version + 1]
           /\ audit' = Append(audit, Key[c])
           /\ call' = [call EXCEPT ![c].pc = "committed",
                 ![c].reg = [entries |-> Adapters(Candidate(call[c].base, Command(c))),
                             default |-> Candidate(call[c].base, Command(c)).default]]
  BY <1>1, <1>3, AppliedKeeps
<1> QED BY <1>2, <1>3, Zenon DEF commit

\* ... the gateway's reconfiguration does ...
LEMMA ReconfigureKeeps ==
  ASSUME AdminInv, NEW c \in Calls, reconfigure(c)
  PROVE  AdminInv'
<1> DEFINE v == [call[c] EXCEPT !.pc = "serving"]
<1>1. /\ call \in [Calls -> Call] /\ call[c] \in Call /\ call[c].pc = "committed"
      /\ call' = [call EXCEPT ![c] = v]
      /\ UNCHANGED <<dep, catalog, audit, seed, cache, probe>>
  BY DEF AdminInv, AdminTyped, reconfigure, Set
<1>2. v \in Call /\ v.pc = "serving" /\ v.host = call[c].host
  BY <1>1 DEF Call, CallState
<1> HIDE DEF v
<1>3. \A d \in Calls : call'[d] = IF d = c THEN v ELSE call[d]
  BY <1>1
<1>4. call[c].reg \in Registry
  BY <1>1 DEF AdminInv, HandsOver
<1>5. \/ /\ call[c].host = Here
         /\ registry' = call[c].reg.entries /\ default' = call[c].reg.default
      \/ call[c].host # Here /\ UNCHANGED <<registry, default>>
  BY DEF reconfigure, Reconfigured, gateway
<1>6. AdminTyped'
  <2>1. registry' \in [P -> Nat] /\ default' \in P
    BY <1>4, <1>5 DEF AdminInv, AdminTyped, Registry
  <2> QED BY <1>1, <1>2, <2>1 DEF AdminInv, AdminTyped
<1>7. Exclusive'
  BY <1>1, <1>2, <1>3 DEF AdminInv, Exclusive, InLock
<1>8. Versions'
  BY <1>1, <1>2, <1>3 DEF AdminInv, Versions
<1>9. Adapters(catalog)' = Adapters(catalog) /\ (Alone' <=> Alone)
  BY <1>1 DEF Adapters, Alone
<1>10. HandsOver'
  BY <1>1, <1>2, <1>3, <1>9 DEF AdminInv, HandsOver
<1>11. Follows'
  <2>1. Underway'
    BY <1>2, <1>3 DEF Underway
  <2>2. ASSUME Alone
        PROVE  InStep' /\ \A d \in Calls : call'[d].host = Here
    <3>1. \A d \in Calls : call[d].host = Here
      BY <2>2 DEF AdminInv, Follows
    <3>2. call[c].reg.entries = Adapters(catalog) /\ call[c].reg.default = catalog.default
      BY <1>1, <2>2 DEF AdminInv, HandsOver
    <3> QED BY <1>1, <1>2, <1>3, <1>5, <1>9, <3>1, <3>2 DEF InStep
  <2> QED BY <1>9, <2>1, <2>2 DEF Follows
<1>12. Replayed' = Replayed
  BY <1>1, ReplayedKept
<1> QED
  BY <1>1, <1>6, <1>7, <1>8, <1>10, <1>11, <1>12
     DEF AdminInv, AuditExplainsCatalog, SameContent

\* ... the end of the cached health does ...
LEMMA InvalidateKeeps ==
  ASSUME AdminInv, NEW c \in Calls, invalidate(c)
  PROVE  AdminInv'
<1> DEFINE v == [NoCall EXCEPT !.pc = "answered"]
<1>1. /\ call \in [Calls -> Call] /\ call[c].pc = "serving"
      /\ call' = [call EXCEPT ![c] = v]
      /\ UNCHANGED <<dep, catalog, audit, seed, registry, default>>
  BY DEF AdminInv, AdminTyped, invalidate, Answered, gateway
<1>2. v \in Call /\ v.pc = "answered" /\ v.host = Here
  BY ManagementAssumption DEF NoCall, Call, CallState
<1> HIDE DEF v
<1>3. \A d \in Calls : call'[d] = IF d = c THEN v ELSE call[d]
  BY <1>1
<1>4. \/ /\ call[c].host = Here
         /\ cache' = [p \in P |-> 0] /\ probe' = [p \in P |-> NoProbe]
      \/ call[c].host # Here /\ UNCHANGED <<cache, probe>>
  BY DEF invalidate
<1>5. AdminTyped'
  <2>1. cache' \in [P -> Int] /\ probe' \in [P -> Int]
    BY <1>4 DEF AdminInv, AdminTyped, NoProbe
  <2> QED BY <1>1, <1>2, <2>1 DEF AdminInv, AdminTyped
<1>6. Exclusive' /\ Versions'
  BY <1>1, <1>2, <1>3 DEF AdminInv, Exclusive, InLock, Versions
<1>7. Adapters(catalog)' = Adapters(catalog) /\ (Alone' <=> Alone)
  BY <1>1 DEF Adapters, Alone
<1>8. HandsOver'
  BY <1>1, <1>2, <1>3, <1>7 DEF AdminInv, HandsOver
<1>9. Follows'
  <2>1. ASSUME Alone
        PROVE  /\ InStep' /\ \A d \in Calls : call'[d].host = Here
               /\ \A p \in P : cache'[p] = 0 /\ probe'[p] = NoProbe
    <3>1. InStep /\ \A d \in Calls : call[d].host = Here
      BY <1>1, <2>1 DEF AdminInv, Follows
    <3> QED BY <1>1, <1>2, <1>3, <1>4, <1>7, <3>1 DEF InStep
  <2> QED BY <1>7, <2>1 DEF Follows
<1>10. Replayed' = Replayed
  BY <1>1, ReplayedKept
<1> QED
  BY <1>1, <1>5, <1>6, <1>8, <1>9, <1>10 DEF AdminInv, AuditExplainsCatalog, SameContent

\* ... and so does a restart of this process.
LEMMA RestartKeeps ==
  ASSUME AdminInv, restart
  PROVE  AdminInv'
<1>1. /\ call \in [Calls -> Call] /\ catalog \in Catalog
      /\ call' = [c \in Calls |-> IF call[c].host = Here /\ call[c].pc # "new"
                                  THEN [NoCall EXCEPT !.pc = "answered"] ELSE call[c]]
      /\ registry' = Adapters(catalog) /\ default' = catalog.default
      /\ cache' = [p \in P |-> 0] /\ probe' = [p \in P |-> NoProbe]
      /\ UNCHANGED <<dep, catalog, audit, seed>>
  BY DEF AdminInv, AdminTyped, restart, Restarted
<1>2. [NoCall EXCEPT !.pc = "answered"] \in Call
  BY ManagementAssumption DEF NoCall, Call, CallState
<1>3. \A c \in Calls :
        \/ call'[c] = call[c] /\ (call[c].host = Here => call[c].pc = "new")
        \/ call'[c].pc = "answered" /\ call'[c].host = Here
  BY <1>1, <1>2 DEF NoCall
<1>4. AdminTyped'
  <2>1. registry' \in [P -> Nat] /\ default' \in P
    BY <1>1, AdaptersTyped DEF Catalog
  <2>2. cache' \in [P -> Int] /\ probe' \in [P -> Int]
    BY <1>1 DEF NoProbe
  <2>3. call' \in [Calls -> Call]
    BY <1>1, <1>2
  <2> QED BY <1>1, <2>1, <2>2, <2>3 DEF AdminInv, AdminTyped
<1>5. Exclusive' /\ Versions'
  BY <1>1, <1>3 DEF AdminInv, Exclusive, InLock, Versions
<1>6. Adapters(catalog)' = Adapters(catalog) /\ (Alone' <=> Alone)
  BY <1>1 DEF Adapters, Alone
<1>7. HandsOver'
  BY <1>1, <1>3, <1>6 DEF AdminInv, HandsOver
<1>8. Follows'
  <2>1. InStep'
    BY <1>1, <1>6 DEF InStep
  <2>2. Alone => \A c \in Calls : call'[c].host = Here
    BY <1>3 DEF AdminInv, Follows
  <2> QED BY <1>1, <1>6, <2>1, <2>2 DEF Follows
<1>9. Replayed' = Replayed
  BY <1>1, ReplayedKept
<1> QED
  BY <1>1, <1>4, <1>5, <1>7, <1>8, <1>9 DEF AdminInv, AuditExplainsCatalog, SameContent

\* Requests of the gateway leave registry and administration alone.
LEMMA GatewayKeepsRegistry ==
  ASSUME NEW r, complete(r) \/ Proceed(r) \/ cancelled(r) \/ cancelled_asleep(r)
  PROVE  UNCHANGED <<registry, default>>
BY DEF complete, Proceed, cancelled, cancelled_asleep, provider_answers, provider_fails,
       wake, Becomes

\* Every step keeps the invariant of the administration.
LEMMA AdminNext ==
  ASSUME AdminInv, [Next]_vars
  PROVE  AdminInv'
<1>1. AdminTyped /\ Versions
  BY DEF AdminInv
<1>2. ASSUME UNCHANGED <<dep, catalog, seed, audit, call, registry, default, cache, probe>>
      PROVE  AdminInv'
  BY <1>1, <1>2, HealthStep DEF AdminTyped, Waiting, AdminInv
<1>3. ASSUME NEW r, Complete(r)
      PROVE  AdminInv'
  BY <1>2, <1>3, GatewayKeepsRegistry DEF Complete, admin
<1>4. CASE Time
  BY <1>2, <1>4 DEF Time, admin, window_ends, cooldown_ends, forget_task_budget,
                    receipt_expires, gateway
<1>5. ASSUME NEW c \in Calls, NEW h \in Hosts, submit(c, h)
      PROVE  AdminInv'
  <2>1. PICK w \in 1..catalog.version :
          call' = [call EXCEPT ![c] = [@ EXCEPT !.pc = "queued", !.host = h, !.seen = w]]
    BY <1>5 DEF submit
  <2> DEFINE v == [[[call[c] EXCEPT !.pc = "queued"] EXCEPT !.host = h] EXCEPT !.seen = w]
  <2>2. /\ call[c] \in Call /\ call[c].pc = "new" /\ h \in dep.hosts /\ w \in Nat
        /\ w <= catalog.version
        /\ UNCHANGED <<dep, catalog, seed, audit, registry, default, cache, probe>>
    BY <1>1, <1>5, <2>1 DEF AdminTyped, Catalog, submit, gateway
  <2>3. v \in Call /\ v.pc = "queued" /\ v.host = h /\ v.seen = w
    BY <2>2 DEF Call, CallState
  <2>4. call' = [call EXCEPT ![c] = v]
    BY <2>1
  <2> HIDE DEF v
  <2>5. Alone => v.host = Here
    BY <2>2, <2>3 DEF Alone
  <2> QED BY <2>2, <2>3, <2>4, <2>5, CallStep DEF InLock
<1>6. ASSUME NEW c \in Calls, replay(c)
      PROVE  AdminInv'
  <2> DEFINE v == [call[c] EXCEPT !.pc = "read"]
  <2>1. /\ call[c] \in Call /\ call[c].pc = "queued" /\ ~Locked(call[c].host)
        /\ UNCHANGED <<dep, catalog, seed, audit, registry, default, cache, probe>>
        /\ Answered(c) \/ call' = [call EXCEPT ![c] = v]
    BY <1>1, <1>6 DEF AdminTyped, replay, gateway, Set
  <2>2. v \in Call /\ v.pc = "read" /\ v.host = call[c].host /\ v.seen = call[c].seen
    BY <2>1 DEF Call, CallState
  <2> HIDE DEF v
  <2>3. CASE Answered(c)
    BY <2>1, <2>3, AnsweredKeeps
  <2>4. CASE call' = [call EXCEPT ![c] = v]
    <3>1. /\ v.seen <= catalog.version
          /\ Alone => v.host = Here
      BY <1>1, <2>1, <2>2 DEF AdminInv, Versions, Follows
    <3> QED BY <2>1, <2>2, <2>4, <3>1, CallStep
  <2> QED BY <2>1, <2>3, <2>4
<1>7. ASSUME NEW c \in Calls, prepare(c)
      PROVE  AdminInv'
  <2> DEFINE v == [[call[c] EXCEPT !.pc = "committing"] EXCEPT !.base = catalog]
  <2>1. /\ call[c] \in Call /\ call[c].pc = "read" /\ catalog \in Catalog
        /\ UNCHANGED <<dep, catalog, seed, audit, registry, default, cache, probe>>
        /\ Answered(c) \/ call' = [call EXCEPT ![c] = v]
    BY <1>1, <1>7 DEF AdminTyped, prepare, gateway
  <2>2. /\ v \in Call /\ v.pc = "committing" /\ v.host = call[c].host
        /\ v.seen = call[c].seen /\ v.base = catalog
    BY <2>1 DEF Call, CallState
  <2> HIDE DEF v
  <2>3. CASE Answered(c)
    BY <2>1, <2>3, AnsweredKeeps
  <2>4. CASE call' = [call EXCEPT ![c] = v]
    <3>1. /\ v.seen <= catalog.version
          /\ Alone => v.host = Here
      BY <1>1, <2>1, <2>2 DEF AdminInv, Versions, Follows
    <3>2. call[c].pc \in InLock
      BY <2>1 DEF InLock
    <3> QED BY <2>1, <2>2, <2>4, <3>1, <3>2, CallStep
  <2> QED BY <2>1, <2>3, <2>4
<1>8. ASSUME NEW p \in P, Probe(p)
      PROVE  AdminInv'
  <2>1. /\ cache \in [P -> Int] /\ probe \in [P -> Int] /\ registry \in [P -> Nat]
        /\ UNCHANGED <<dep, catalog, seed, audit, call, registry, default>>
    BY <1>1, <1>8
       DEF AdminTyped, Probe, get_health, check_health, cache_health, cache_expires, gateway
  <2>2. CASE get_health(p) \/ check_health(p)
    <3>1. cache' = cache
      BY <2>2 DEF get_health, check_health
    <3>2. PICK w \in {Waiting, registry[p]} : probe' = [probe EXCEPT ![p] = w]
      BY <2>2 DEF get_health, check_health
    <3>3. w \in Int
      BY <2>1, <3>2 DEF Waiting
    <3>4. \A q \in P : probe'[q] \in {NoProbe, Waiting, probe[q], registry[q]}
      BY <2>1, <3>2
    <3>5. probe' \in [P -> Int]
      BY <2>1, <3>2, <3>3
    <3> QED BY <2>1, <3>1, <3>4, <3>5, HealthStep
  <2>3. CASE cache_health(p)
    <3>1. /\ probe[p] \in Configs /\ cache' = [cache EXCEPT ![p] = probe[p]]
          /\ probe' = [probe EXCEPT ![p] = NoProbe]
      BY <2>3 DEF cache_health
    <3>2. probe[p] # Waiting /\ probe[p] \in Int /\ NoProbe \in Int
      BY <3>1, ManagementAssumption DEF Waiting, NoProbe
    <3>3. \A q \in P : \/ cache'[q] \in {0, cache[q]}
                       \/ cache'[q] = probe[q] /\ probe[q] # Waiting
      BY <2>1, <3>1, <3>2
    <3>4. \A q \in P : probe'[q] \in {NoProbe, Waiting, probe[q], registry[q]}
      BY <2>1, <3>1
    <3>5. cache' \in [P -> Int] /\ probe' \in [P -> Int]
      BY <2>1, <3>1, <3>2
    <3> QED BY <2>1, <3>3, <3>4, <3>5, HealthStep
  <2>4. CASE cache_expires(p)
    <3>1. cache' = [cache EXCEPT ![p] = 0] /\ probe' = probe
      BY <2>4 DEF cache_expires
    <3>2. \A q \in P : cache'[q] \in {0, cache[q]}
      BY <2>1, <3>1
    <3>3. cache' \in [P -> Int]
      BY <2>1, <3>1
    <3> QED BY <2>1, <3>1, <3>2, <3>3, HealthStep
  <2> QED BY <1>8, <2>2, <2>3, <2>4 DEF Probe
<1>9. CASE UNCHANGED vars
  BY <1>2, <1>9 DEF vars, gateway, admin
<1> QED
  BY <1>3, <1>4, <1>5, <1>6, <1>7, <1>8, <1>9, CommitKeeps, ReconfigureKeeps,
     InvalidateKeeps, RestartKeeps DEF Next, Administer

\* The inductive invariant of the administration: a command that commits was
\* prepared from the catalog it replaces, and gateway and catalog only differ
\* between a commit and the end of its mutation lock (_mutate, _commit_once,
\* reconfigure).
THEOREM AdminInvariant == Spec => []AdminInv
BY AdminInit, AdminNext, PTL DEF Spec

\* The catalog is what the audited commands, one after the other, make of the
\* imported one, for any processes and commands: a command that commits was
\* prepared from the catalog it replaces, because the version the client saw is
\* not newer than what was read and is compared in the transaction (_mutate,
\* _commit_once).
THEOREM AuditExplains == Spec => []AuditExplainsCatalog
BY AdminInvariant, PTL DEF AdminInv

\* While no command is on its way from the database to the gateway, the only
\* process serves exactly the catalog and caches the health of its adapters only
\* (reconfigure, invalidate, initialize).
THEOREM CatalogServed == Spec => []ServesCatalog
<1>1. AdminInv => ServesCatalog
  BY DEF AdminInv, Follows, Alone, Underway, InStep, ServesCatalog
<1> QED BY <1>1, AdminInvariant, PTL

------------------------------------------------------------------------------
(* The requests of the gateway.                                             *)

Runtime == [circuit : {"closed", "open", "half_open"}, window : BOOLEAN,
            cooling : BOOLEAN, probing : BOOLEAN, failures : Nat]
Cost == [spent : Nat, reserved : Nat]
Request == [pc : {"new", "ready", "calling", "sleeping", "done"}, att : Nat,
            tried : SUBSET P, prov : P \cup {""}, slot : BOOLEAN,
            late : BOOLEAN, again : BOOLEAN]

\* What request r may still cost task t, as the record q says.
Owed(t, r, q) == IF TaskOf[r] = t /\ q.pc = "calling" THEN Price[q.prov] ELSE 0

\* The calls in flight of the others.
OthersAtStake(t, r) ==
  UNION {{x} \X (1..Price[req[x].prov]) :
           x \in {y \in Requests \ {r} : TaskOf[y] = t /\ req[y].pc = "calling"}}
BackedByOther(p, r) ==
  \E x \in Requests \ {r} : req[x].pc = "calling" /\ req[x].prov = p /\ req[x].slot

GatewayTyped ==
  /\ rt \in [P -> Runtime] /\ cost \in [Tasks -> Cost] /\ req \in [Requests -> Request]
  /\ \A r \in Requests : req[r].pc = "calling" => req[r].prov \in P

\* Half-open slots are taken by calls in flight, of registered providers.
SlotsTaken ==
  \A p \in P : rt[p].probing => p \in Registered /\ \E r \in Calling(p) : req[r].slot

\* Reserved is exactly what is at stake, within what is left of the budget.
Reserved ==
  \A t \in Tasks : /\ cost[t].reserved = Cardinality(AtStake(t))
                   /\ cost[t].spent + cost[t].reserved <= Limit

GatewayInv == GatewayTyped /\ SlotsTaken /\ Reserved

\* The same of a state s in which request r runs while the others wait.
Stage == [rt : [P -> Runtime], cost : [Tasks -> Cost], q : Request]
Holds(r, s) ==
  /\ s \in Stage
  /\ s.q.pc = "calling" => s.q.prov \in P
  /\ \A p \in P : s.rt[p].probing =>
       /\ p \in Registered
       /\ BackedByOther(p, r) \/ (s.q.pc = "calling" /\ s.q.prov = p /\ s.q.slot)
  /\ \A t \in Tasks :
       /\ s.cost[t].reserved = Cardinality(OthersAtStake(t, r)) + Owed(t, r, s.q)
       /\ s.cost[t].spent + s.cost[t].reserved <= Limit

\* A call at a price of n puts n micros at stake.
LEMMA CallStake ==
  ASSUME NEW r, NEW n \in Nat
  PROVE  IsFiniteSet({r} \X (1..n)) /\ Cardinality({r} \X (1..n)) = n
<1>1. IsFiniteSet({r}) /\ Cardinality({r}) = 1
  BY FS_Singleton
<1>2. IsFiniteSet(1..n) /\ Cardinality(1..n) = IF 1 > n THEN 0 ELSE n - 1 + 1
  BY FS_Interval
<1>3. Cardinality(1..n) = n
  BY <1>2
<1> DEFINE A == {r}
           B == 1..n
<1>4. IsFiniteSet(A) /\ Cardinality(A) = 1 /\ IsFiniteSet(B) /\ Cardinality(B) = n
  BY <1>1, <1>2, <1>3
<1> HIDE DEF A, B
<1>5. IsFiniteSet(A \X B) /\ Cardinality(A \X B) = Cardinality(A) * Cardinality(B)
  BY <1>4, FS_Product
<1>6. IsFiniteSet(A \X B) /\ Cardinality(A \X B) = n
  BY <1>4, <1>5
<1> QED BY <1>6 DEF A, B

\* The micros of any set of calls can be counted.
LEMMA StakeFinite ==
  ASSUME GatewayTyped, NEW S \in SUBSET Requests, \A r \in S : req[r].pc = "calling"
  PROVE  IsFiniteSet(UNION {{x} \X (1..Price[req[x].prov]) : x \in S})
<1> DEFINE F == {{x} \X (1..Price[req[x].prov]) : x \in S}
<1>1. IsFiniteSet(S)
  BY GatewayAssumption, FS_Subset
<1>2. IsFiniteSet(F)
  <2> DEFINE h == [x \in S |-> {x} \X (1..Price[req[x].prov])]
  <2>1. h \in Surjection(S, F)
    BY DEF Surjection
  <2> QED BY <1>1, <2>1, FS_Surjection
<1>3. ASSUME NEW A \in F
      PROVE  IsFiniteSet(A)
  <2>1. PICK x \in S : A = {x} \X (1..Price[req[x].prov])
    OBVIOUS
  <2>2. Price[req[x].prov] \in Nat
    BY GatewayAssumption DEF GatewayTyped, P
  <2> QED BY <2>1, <2>2, CallStake
<1> HIDE DEF F
<1>4. IsFiniteSet(UNION F)
  BY <1>2, <1>3, FS_UNION
<1> QED BY <1>4 DEF F

\* What is at stake is what the others and the request itself may cost.
LEMMA StakeSplit ==
  GatewayTyped => \A r \in Requests, t \in Tasks :
    /\ Cardinality(OthersAtStake(t, r)) \in Nat
    /\ Owed(t, r, req[r]) \in Nat
    /\ Cardinality(AtStake(t)) = Cardinality(OthersAtStake(t, r)) + Owed(t, r, req[r])
<1> SUFFICES ASSUME GatewayTyped, NEW r \in Requests, NEW t \in Tasks
             PROVE  /\ Cardinality(OthersAtStake(t, r)) \in Nat
                    /\ Owed(t, r, req[r]) \in Nat
                    /\ Cardinality(AtStake(t))
                         = Cardinality(OthersAtStake(t, r)) + Owed(t, r, req[r])
  OBVIOUS
<1> DEFINE A == OthersAtStake(t, r)
           n == Price[req[r].prov]
           B == {r} \X (1..n)
<1>1. IsFiniteSet(A)
  BY StakeFinite DEF OthersAtStake
<1>2. Cardinality(A) \in Nat
  BY <1>1, FS_CardinalityType
<1>3. CASE TaskOf[r] = t /\ req[r].pc = "calling"
  <2>1. AtStake(t) = A \cup B
    BY <1>3 DEF AtStake, OthersAtStake
  <2>2. n \in Nat
    BY <1>3, GatewayAssumption DEF GatewayTyped, P
  <2>3. IsFiniteSet(B) /\ Cardinality(B) = n
    BY <2>2, CallStake
  <2>4. A \cap B = {}
    BY DEF OthersAtStake
  <2> HIDE DEF A, B, n
  <2>5. Cardinality(A \cup B) = Cardinality(A) + Cardinality(B) - Cardinality(A \cap B)
    BY <1>1, <2>3, FS_Union
  <2>6. Cardinality(A \cap B) = 0
    BY <2>4, FS_EmptySet
  <2>7. Owed(t, r, req[r]) = n
    BY <1>3 DEF Owed, n
  <2>8. Cardinality(AtStake(t)) = Cardinality(A) + n
    BY <1>2, <2>1, <2>2, <2>3, <2>5, <2>6
  <2> QED BY <1>2, <2>2, <2>7, <2>8 DEF A
<1>4. CASE ~(TaskOf[r] = t /\ req[r].pc = "calling")
  <2>1. AtStake(t) = A
    BY <1>4 DEF AtStake, OthersAtStake
  <2>2. Owed(t, r, req[r]) = 0
    BY <1>4 DEF Owed
  <2> HIDE DEF A
  <2> QED BY <1>2, <2>1, <2>2 DEF A
<1> QED BY <1>3, <1>4

\* The same of the next state.
LEMMA StakeSplitNext ==
  (GatewayTyped => \A r \in Requests, t \in Tasks :
    /\ Cardinality(OthersAtStake(t, r)) \in Nat
    /\ Owed(t, r, req[r]) \in Nat
    /\ Cardinality(AtStake(t)) = Cardinality(OthersAtStake(t, r)) + Owed(t, r, req[r]))'
BY StakeSplit, PTL

\* Who does not call needs no slot and owes nothing.
LEMMA IdleHolds ==
  ASSUME NEW r \in Requests, NEW d \in Stage, d.q.pc # "calling", GatewayTyped,
         \A p \in P : d.rt[p].probing => p \in Registered /\ BackedByOther(p, r),
         \A t \in Tasks : /\ d.cost[t].reserved = Cardinality(OthersAtStake(t, r))
                          /\ d.cost[t].spent + d.cost[t].reserved <= Limit
  PROVE  Holds(r, d)
<1>1. \A t \in Tasks : Owed(t, r, d.q) = 0 /\ Cardinality(OthersAtStake(t, r)) \in Nat
  BY StakeSplit DEF Owed
<1> QED BY <1>1 DEF Holds

\* A request that has ended is well formed.
LEMMA EndedTyped == Ended \in Request /\ Ended.pc = "done"
  BY DEF Ended, NewRequest, Request

\* Another try, a sleep or the end leave slots and budgets alone.
LEMMA TryAgainRests ==
  ASSUME NEW r, NEW u \in Stage, NEW d \in TryAgain(r, u)
  PROVE  d \in Stage /\ d.rt = u.rt /\ d.cost = u.cost /\ d.q.pc # "calling"
<1> DEFINE q1 == [u.q EXCEPT !.att = @ + 1]
           q2 == [q1 EXCEPT !.pc = "ready"]
           q0 == [q1 EXCEPT !.pc = "sleeping"]
           q3 == [q0 EXCEPT !.tried = {}]
<1>1. d = [u EXCEPT !.q = q2] \/ d = [u EXCEPT !.q = Ended] \/ d = [u EXCEPT !.q = q3]
  BY DEF TryAgain
<1>2. u.q \in Request
  BY DEF Stage
<1>3. q1 \in Request
  <2>1. PICK q : q = u.q
    OBVIOUS
  <2>2. q \in Request
    BY <1>2, <2>1
  <2>2a. q.att \in Nat
    BY <2>2 DEF Request
  <2>2b. q.att + 1 \in Nat
    BY <2>2a
  <2>3. PICK k \in Nat : k = q.att + 1
    BY <2>2b
  <2>4. q1 = [q EXCEPT !.att = k]
    BY <2>1, <2>3
  <2> HIDE DEF q1
  <2> QED BY <2>2, <2>4 DEF Request
<1> HIDE DEF q1
<1>3a. q2 \in Request /\ q2.pc = "ready" /\ q0 \in Request /\ q0.pc = "sleeping"
  BY <1>3 DEF Request
<1> HIDE DEF q2, q0
<1>3b. {} \in SUBSET P
  OBVIOUS
<1>4. q2 \in Request /\ q2.pc = "ready" /\ q3 \in Request /\ q3.pc = "sleeping"
  BY <1>3a, <1>3b DEF Request
<1> HIDE DEF q3
<1>5. PICK q : q \in Request /\ q.pc # "calling" /\ d = [u EXCEPT !.q = q]
  BY <1>1, <1>4, EndedTyped
<1> QED BY <1>5 DEF Stage

\* A recorded failure leaves a well formed circuit, and no probe under way.
LEMMA FailureTyped ==
  ASSUME NEW x \in Runtime, NEW o
  PROVE  RecordFailure(x, o) \in Runtime /\ RecordFailure(x, o).probing = FALSE
<1> DEFINE n == IF o \in CircuitFailures /\ x.failures < Threshold
                THEN x.failures + 1 ELSE x.failures
           trips == x.circuit = "half_open" \/ n >= Threshold
           y1 == [x EXCEPT !.failures = n]
           y2 == [y1 EXCEPT !.cooling = x.cooling \/ o \in WithRetryAfter]
           y3 == [y2 EXCEPT !.circuit = IF trips THEN "open" ELSE x.circuit]
           y4 == [y3 EXCEPT !.window = x.window \/ trips]
           y5 == [y4 EXCEPT !.probing = FALSE]
<1>1. n \in Nat /\ x.cooling \in BOOLEAN /\ x.window \in BOOLEAN
      /\ x.circuit \in {"closed", "open", "half_open"}
  BY DEF Runtime
<1>2. RecordFailure(x, o) = y5
  BY DEF RecordFailure, Runtime
<1> HIDE DEF n
<1>3. y1 \in Runtime
  BY <1>1 DEF Runtime
<1> HIDE DEF y1
<1>4. y2 \in Runtime
  BY <1>1, <1>3 DEF Runtime
<1> HIDE DEF y2
<1>5. y3 \in Runtime
  BY <1>1, <1>4 DEF Runtime
<1> HIDE DEF y3
<1>6. y4 \in Runtime
  BY <1>1, <1>5 DEF Runtime
<1> HIDE DEF y4
<1>7. y5 \in Runtime /\ y5.probing = FALSE
  BY <1>6 DEF Runtime
<1> QED BY <1>2, <1>7

\* What a call that ends gives back is exactly what it owes.
LEMMA ReleasedCost ==
  ASSUME NEW r \in Requests, GatewayTyped, NEW s, Holds(r, s), s.q.pc = "calling"
  PROVE  /\ ReleaseCost(s.cost, r, s.q.prov) \in [Tasks -> Cost]
         /\ \A t \in Tasks :
              LET e == ReleaseCost(s.cost, r, s.q.prov)[t]
              IN  /\ e.spent = s.cost[t].spent
                  /\ e.reserved = Cardinality(OthersAtStake(t, r))
                  /\ e.spent + e.reserved + Owed(t, r, s.q) <= Limit
<1> DEFINE p == s.q.prov
           t0 == TaskOf[r]
           c1 == ReleaseCost(s.cost, r, p)
           k == [s.cost[t0] EXCEPT !.reserved = Minus(@, Price[p])]
<1>1. /\ p \in P /\ t0 \in Tasks /\ Price[p] \in Nat /\ Limit \in Nat
      /\ s.cost \in [Tasks -> Cost]
  BY GatewayAssumption DEF Holds, Stage, P
<1>2. \A t \in Tasks : Cardinality(OthersAtStake(t, r)) \in Nat
  BY StakeSplit
<1>3. s.cost[t0].reserved = Cardinality(OthersAtStake(t0, r)) + Price[p]
  BY <1>1 DEF Holds, Owed
<1>4. Minus(s.cost[t0].reserved, Price[p]) = Cardinality(OthersAtStake(t0, r))
  BY <1>1, <1>2, <1>3 DEF Minus
<1>5. /\ k \in Cost /\ k.spent = s.cost[t0].spent
      /\ k.reserved = Cardinality(OthersAtStake(t0, r))
  BY <1>1, <1>2, <1>4 DEF Cost
<1>6. c1 = [s.cost EXCEPT ![t0] = k]
  BY DEF ReleaseCost
<1> HIDE DEF k, c1
<1>7. c1 \in [Tasks -> Cost] /\ \A t \in Tasks : c1[t] = IF t = t0 THEN k ELSE s.cost[t]
  BY <1>1, <1>5, <1>6
<1>8. ASSUME NEW t \in Tasks
      PROVE  /\ c1[t].spent = s.cost[t].spent
             /\ c1[t].reserved = Cardinality(OthersAtStake(t, r))
             /\ c1[t].spent + c1[t].reserved + Owed(t, r, s.q) <= Limit
  <2>1. /\ s.cost[t].reserved = Cardinality(OthersAtStake(t, r)) + Owed(t, r, s.q)
        /\ s.cost[t].spent + s.cost[t].reserved <= Limit
    BY DEF Holds
  <2>2. s.cost[t].spent \in Nat /\ Owed(t, r, s.q) \in Nat
    BY <1>1 DEF Cost, Owed
  <2>3. c1[t].spent = s.cost[t].spent /\ c1[t].reserved = Cardinality(OthersAtStake(t, r))
    <3>1. CASE t = t0
      BY <1>5, <1>7, <3>1
    <3>2. CASE t # t0
      <4>1. Owed(t, r, s.q) = 0
        BY <3>2 DEF Owed
      <4> QED BY <1>2, <1>7, <2>1, <3>2, <4>1
    <3> QED BY <3>1, <3>2
  <2> QED BY <1>1, <1>2, <2>1, <2>2, <2>3
<1> QED BY <1>7, <1>8 DEF c1

\* A failure gives back the reservation and the slot.
LEMMA FailHolds ==
  ASSUME NEW r \in Requests, GatewayTyped, NEW s, Holds(r, s), s.q.pc = "calling",
         NEW o, NEW d, d \in Fail(r, s, o)
  PROVE  Holds(r, d)
<1> DEFINE p == s.q.prov
           c1 == ReleaseCost(s.cost, r, p)
           x1 == [s.rt EXCEPT ![p] = RecordFailure(@, o)]
           freed == [s EXCEPT !.cost = c1]
           known == [freed EXCEPT !.rt = x1]
           again == [known EXCEPT !.q = [s.q EXCEPT !.slot = FALSE]]
<1>1. s \in Stage /\ p \in P /\ TaskOf[r] \in Tasks /\ Price[p] \in Nat
  BY GatewayAssumption DEF Holds, P
<1>2. \A t \in Tasks : Cardinality(OthersAtStake(t, r)) \in Nat
  BY StakeSplit
<1>3. /\ c1 \in [Tasks -> Cost]
      /\ \A t \in Tasks : /\ c1[t].reserved = Cardinality(OthersAtStake(t, r))
                          /\ c1[t].spent + c1[t].reserved <= Limit
  <2>1. /\ ReleaseCost(s.cost, r, p) \in [Tasks -> Cost]
        /\ \A t \in Tasks :
             LET e == ReleaseCost(s.cost, r, p)[t]
             IN  /\ e.reserved = Cardinality(OthersAtStake(t, r))
                 /\ e.spent + e.reserved + Owed(t, r, s.q) <= Limit
    BY ReleasedCost
  <2>2. ASSUME NEW t \in Tasks
        PROVE  c1[t].spent + c1[t].reserved <= Limit
    <3>1. c1[t] \in Cost /\ Owed(t, r, s.q) \in Nat /\ Limit \in Nat
          /\ c1[t].spent + c1[t].reserved + Owed(t, r, s.q) <= Limit
      BY <1>1, <2>1, GatewayAssumption DEF Owed
    <3>2. c1[t].spent \in Nat /\ c1[t].reserved \in Nat
      BY <3>1 DEF Cost
    <3> QED BY <3>1, <3>2
  <2> QED BY <2>1, <2>2
<1>4. \A y \in P : y # p /\ s.rt[y].probing => y \in Registered /\ BackedByOther(y, r)
  BY DEF Holds
<1> HIDE DEF c1
<1>5. CASE p \notin Registered
  <2>1. d = [freed EXCEPT !.q = Ended]
    BY <1>5 DEF Fail, c1
  <2>2. d \in Stage /\ d.q = Ended /\ d.rt = s.rt /\ d.cost = c1
    BY <1>1, <1>3, <2>1, EndedTyped DEF Stage
  <2>3. ~s.rt[p].probing
    BY <1>1, <1>5 DEF Holds
  <2> QED BY <1>3, <1>4, <2>2, <2>3, EndedTyped, IdleHolds
<1>6. CASE p \in Registered
  <2>1. s.rt \in [P -> Runtime] /\ s.rt[p] \in Runtime
    BY <1>1 DEF Stage
  <2>2. RecordFailure(s.rt[p], o) \in Runtime /\ RecordFailure(s.rt[p], o).probing = FALSE
    BY <2>1, FailureTyped
  <2>3. /\ x1 \in [P -> Runtime]
        /\ \A y \in P : x1[y].probing => y # p /\ s.rt[y].probing
    BY <2>1, <2>2
  <2> HIDE DEF x1
  <2>4. known \in Stage /\ known.rt = x1 /\ known.cost = c1 /\ known.q = s.q
    BY <1>1, <1>3, <2>3 DEF Stage
  <2>5. [s.q EXCEPT !.slot = FALSE] \in Request
    BY <1>1 DEF Stage, Request
  <2>6. again \in Stage /\ again.rt = x1 /\ again.cost = c1
    <3> HIDE DEF known
    <3> QED BY <2>4, <2>5 DEF Stage
  <2>7. d = [known EXCEPT !.q = Ended] \/ d \in TryAgain(r, again)
    <3>1. known = [freed EXCEPT !.rt[p] = RecordFailure(@, o)]
      BY DEF x1
    <3>2. again = [known EXCEPT !.q.slot = FALSE]
      BY <2>4
    <3> HIDE DEF known, again
    <3>3. d \in IF o \notin Retryable \/ s.q.att >= MaxAttempts
                THEN {[known EXCEPT !.q = Ended]}
                ELSE TryAgain(r, again)
      BY <1>6, <3>1, <3>2, Zenon DEF Fail, c1
    <3> QED BY <3>3
  <2> HIDE DEF known, again
  <2>8. d \in Stage /\ d.rt = x1 /\ d.cost = c1 /\ d.q.pc # "calling"
    <3>1. CASE d = [known EXCEPT !.q = Ended]
      BY <2>4, <3>1, EndedTyped DEF Stage
    <3>2. CASE d \in TryAgain(r, again)
      BY <2>6, <3>2, TryAgainRests
    <3> QED BY <2>7, <3>1, <3>2
  <2> QED BY <1>3, <1>4, <2>3, <2>8, IdleHolds
<1> QED BY <1>5, <1>6

\* A provider is picked only when it is registered and the budget can pay it.
LEMMA PicksAffordable ==
  ASSUME NEW r, NEW s, NEW p \in Picks(r, s)
  PROVE  p \in Registered /\ Affordable(s.cost, r, p)
BY DEF Picks, Candidates

\* The request that calls p, part by part.
LEMMA ChosenParts ==
  ASSUME NEW r, NEW s \in Stage, NEW p \in P
  PROVE  /\ Chosen(r, s, p).rt = Claim(s.rt, p)
         /\ Chosen(r, s, p).cost = Reserve(s.cost, r, p)
         /\ Chosen(r, s, p).q \in Request
         /\ Chosen(r, s, p).q.pc = "calling" /\ Chosen(r, s, p).q.prov = p
         /\ Chosen(r, s, p).q.slot = (s.rt[p].circuit # "closed")
         /\ Chosen(r, s, p) = [rt |-> Claim(s.rt, p), cost |-> Reserve(s.cost, r, p),
                               q |-> Chosen(r, s, p).q]
<1> DEFINE b == s.rt[p].circuit # "closed"
           T == s.q.tried \cup {p}
           q1 == [s.q EXCEPT !.pc = "calling"]
           q2 == [q1 EXCEPT !.prov = p]
           q3 == [q2 EXCEPT !.again = FALSE]
           q4 == [q3 EXCEPT !.tried = T]
           q5 == [q4 EXCEPT !.slot = b]
<1>1. s.q \in Request
  BY DEF Stage
<1>2. q1 \in Request /\ q1.pc = "calling" /\ q1.tried = s.q.tried
  BY <1>1 DEF Request
<1>3. Chosen(r, s, p) = [rt |-> Claim(s.rt, p), cost |-> Reserve(s.cost, r, p), q |-> q5]
  BY <1>1 DEF Chosen, Request
<1>4. T \in SUBSET P /\ b \in BOOLEAN
  BY <1>1 DEF Request
<1> HIDE DEF q1
<1>5. q2 \in Request /\ q2.pc = "calling" /\ q2.prov = p
  BY <1>2 DEF Request
<1> HIDE DEF q2
<1>6. q3 \in Request /\ q3.pc = "calling" /\ q3.prov = p
  BY <1>5 DEF Request
<1> HIDE DEF q3, T, b
<1>7. q4 \in Request /\ q4.pc = "calling" /\ q4.prov = p
  BY <1>4, <1>6 DEF Request
<1> HIDE DEF q4
<1>8. q5 \in Request /\ q5.pc = "calling" /\ q5.prov = p /\ q5.slot = b
  BY <1>4, <1>7 DEF Request
<1> HIDE DEF q5
<1> QED BY <1>3, <1>8 DEF b

\* Claiming takes at most the slot of p, and says so.
LEMMA ClaimSlot ==
  ASSUME NEW x \in [P -> Runtime], NEW p \in P
  PROVE  /\ Claim(x, p) \in [P -> Runtime]
         /\ \A y \in P : Claim(x, p)[y].probing =>
              x[y].probing \/ (y = p /\ x[p].circuit # "closed")
<1>1. CASE x[p].circuit = "closed"
  BY <1>1 DEF Claim
<1>2. CASE x[p].circuit # "closed"
  <2> DEFINE z1 == [x[p] EXCEPT !.circuit = "half_open"]
             z == [z1 EXCEPT !.probing = TRUE]
  <2>1. z1 \in Runtime
    BY DEF Runtime
  <2> HIDE DEF z1
  <2>2. z \in Runtime
    BY <2>1 DEF Runtime
  <2>3. Claim(x, p) = [x EXCEPT ![p] = z]
    BY <1>2 DEF Claim, z1
  <2> HIDE DEF z
  <2> QED BY <1>2, <2>2, <2>3
<1> QED BY <1>1, <1>2

\* A try that is started holds the slot it has claimed and owes its price.
LEMMA ChosenHolds ==
  ASSUME NEW r \in Requests, GatewayTyped, NEW s, Holds(r, s), s.q.pc = "ready",
         NEW p \in Picks(r, s)
  PROVE  Holds(r, Chosen(r, s, p)) /\ Chosen(r, s, p).q.pc = "calling"
<1> DEFINE ch == Chosen(r, s, p)
           t0 == TaskOf[r]
           A == Claim(s.rt, p)
           B == Reserve(s.cost, r, p)
           k == [s.cost[t0] EXCEPT !.reserved = @ + Price[p]]
<1>1. /\ s \in Stage /\ p \in P /\ p \in Registered /\ t0 \in Tasks /\ Price[p] \in Nat
      /\ Limit \in Nat
      /\ s.cost[t0].spent + s.cost[t0].reserved + Price[p] <= Limit
  BY GatewayAssumption, PicksAffordable DEF Holds, P, Registered, Affordable
<1>2. /\ ch.rt = A /\ ch.cost = B /\ ch.q \in Request
      /\ ch.q.pc = "calling" /\ ch.q.prov = p /\ ch.q.slot = (s.rt[p].circuit # "closed")
      /\ ch = [rt |-> A, cost |-> B, q |-> ch.q]
  BY <1>1, ChosenParts
<1>3. /\ s.rt \in [P -> Runtime] /\ s.cost \in [Tasks -> Cost]
      /\ s.cost[t0] \in Cost
  BY <1>1 DEF Stage
<1>4. /\ A \in [P -> Runtime]
      /\ \A y \in P : A[y].probing => s.rt[y].probing \/ (y = p /\ s.rt[p].circuit # "closed")
  BY <1>1, <1>3, ClaimSlot
<1>5. /\ k \in Cost /\ k.spent = s.cost[t0].spent
      /\ k.reserved = s.cost[t0].reserved + Price[p]
  BY <1>1, <1>3 DEF Cost
<1>6. B = [s.cost EXCEPT ![t0] = k]
  BY DEF Reserve
<1> HIDE DEF ch, A, B, k
<1>7. B \in [Tasks -> Cost] /\ \A t \in Tasks : B[t] = IF t = t0 THEN k ELSE s.cost[t]
  BY <1>1, <1>3, <1>5, <1>6
<1>8. ch \in Stage
  BY <1>2, <1>4, <1>7 DEF Stage
<1>9. \A y \in P : ch.rt[y].probing =>
        /\ y \in Registered
        /\ BackedByOther(y, r) \/ (ch.q.pc = "calling" /\ ch.q.prov = y /\ ch.q.slot)
  <2>1. \A y \in P : s.rt[y].probing => y \in Registered /\ BackedByOther(y, r)
    BY DEF Holds
  <2> QED BY <1>1, <1>2, <1>4, <2>1
<1>10. ASSUME NEW t \in Tasks
       PROVE  /\ ch.cost[t].reserved
                   = Cardinality(OthersAtStake(t, r)) + Owed(t, r, ch.q)
              /\ ch.cost[t].spent + ch.cost[t].reserved <= Limit
  <2>1. /\ s.cost[t].reserved = Cardinality(OthersAtStake(t, r)) + Owed(t, r, s.q)
        /\ s.cost[t].spent + s.cost[t].reserved <= Limit
        /\ Owed(t, r, s.q) = 0
    BY DEF Holds, Owed
  <2>2. Cardinality(OthersAtStake(t, r)) \in Nat
    BY StakeSplit
  <2>3. ch.cost[t] = IF t = t0 THEN k ELSE s.cost[t]
    BY <1>2, <1>7
  <2>4. CASE t = t0
    <3>1. Owed(t, r, ch.q) = Price[p]
      BY <1>2, <2>4 DEF Owed
    <3>2. s.cost[t0].spent \in Nat
      BY <1>3 DEF Cost
    <3>3. s.cost[t0].reserved = Cardinality(OthersAtStake(t, r))
      BY <2>1, <2>2, <2>4
    <3> QED BY <1>1, <1>5, <2>2, <2>3, <2>4, <3>1, <3>2, <3>3
  <2>5. CASE t # t0
    <3>1. Owed(t, r, ch.q) = 0
      BY <2>5 DEF Owed
    <3> QED BY <2>1, <2>3, <2>5, <3>1
  <2> QED BY <2>4, <2>5
<1> QED BY <1>1, <1>2, <1>8, <1>9, <1>10 DEF Holds, ch

\* A turn of the loop.
LEMMA TurnHolds ==
  ASSUME NEW r \in Requests, GatewayTyped, NEW s, Holds(r, s), NEW d \in Turn(r, s)
  PROVE  Holds(r, d)
<1>1. CASE s.q.pc # "ready"
  BY <1>1 DEF Turn
<1>2. CASE s.q.pc = "ready" /\ Picks(r, s) # {}
  <2>1. PICK p \in Picks(r, s) :
          d \in IF s.q.late THEN Fail(r, Chosen(r, s, p), "timeout") ELSE {Chosen(r, s, p)}
    BY <1>2 DEF Turn
  <2>2. Holds(r, Chosen(r, s, p)) /\ Chosen(r, s, p).q.pc = "calling"
    BY <1>2, ChosenHolds
  <2>3. CASE d \in Fail(r, Chosen(r, s, p), "timeout")
    BY <2>2, <2>3, FailHolds
  <2>4. CASE d = Chosen(r, s, p)
    BY <2>2, <2>4
  <2> QED BY <2>1, <2>3, <2>4
<1>3. CASE s.q.pc = "ready" /\ Picks(r, s) = {}
  <2> DEFINE q1 == [s.q EXCEPT !.pc = "sleeping"]
             q2 == [q1 EXCEPT !.tried = {}]
             q3 == [q2 EXCEPT !.again = TRUE]
  <2>1. s \in Stage /\ s.q \in Request
    BY DEF Holds, Stage
  <2>2. q1 \in Request /\ q1.pc = "sleeping"
    BY <2>1 DEF Request
  <2>3. d = [s EXCEPT !.q = Ended] \/ d = [s EXCEPT !.q = q3]
    BY <1>3, <2>1 DEF Turn, Stage
  <2> HIDE DEF q1
  <2>3a. {} \in SUBSET P
    OBVIOUS
  <2>4. q2 \in Request /\ q2.pc = "sleeping"
    BY <2>2, <2>3a DEF Request
  <2> HIDE DEF q2
  <2>5. q3 \in Request /\ q3.pc = "sleeping"
    BY <2>4 DEF Request
  <2> HIDE DEF q3
  <2>6. PICK q : q \in Request /\ q.pc # "calling" /\ d = [s EXCEPT !.q = q]
    BY <2>3, <2>5, EndedTyped
  <2>7. d \in Stage /\ d.rt = s.rt /\ d.cost = s.cost /\ d.q.pc # "calling"
    BY <2>1, <2>6 DEF Stage
  <2>8. \A p \in P : s.rt[p].probing => p \in Registered /\ BackedByOther(p, r)
    BY <1>3 DEF Holds
  <2>9. \A t \in Tasks : /\ s.cost[t].reserved = Cardinality(OthersAtStake(t, r))
                         /\ s.cost[t].spent + s.cost[t].reserved <= Limit
    <3>1. \A t \in Tasks : Owed(t, r, s.q) = 0 /\ Cardinality(OthersAtStake(t, r)) \in Nat
      BY <1>3, StakeSplit DEF Owed
    <3> QED BY <3>1 DEF Holds
  <2> QED BY <2>7, <2>8, <2>9, IdleHolds
<1> QED BY <1>1, <1>2, <1>3

\* All turns that one turn of each state in S can lead to; f holds what the
\* first k turns can lead to from S.
Turns(r, S) == UNION {Turn(r, s) : s \in S}
IsLoop(f, k, r, S) == f = [j \in 0..k |-> IF j = 0 THEN S ELSE Turns(r, f[j - 1])]
Loop(k, r, S) == CHOOSE f : IsLoop(f, k, r, S)

\* The loop is well defined for any number of turns.
LEMMA LoopExists ==
  ASSUME NEW r, NEW S, NEW n \in Nat
  PROVE  \E f : IsLoop(f, n, r, S)
<1> DEFINE Step(x) == Turns(r, x)
           Runs(f, j) == f = [i \in 0..j |-> IF i = 0 THEN S ELSE Step(f[i - 1])]
           Bad == {j \in Nat : ~ \E f : Runs(f, j)}
<1> HIDE DEF Step
<1>1. CASE Bad # {}
  <2>1. PICK j \in Bad : \A i \in Bad : j <= i
    BY <1>1, LeastNat
  <2>2. CASE j = 0
    <3>1. [i \in 0..0 |-> S] = [i \in 0..0 |-> IF i = 0 THEN S
                                              ELSE Step([x \in 0..0 |-> S][i - 1])]
      OBVIOUS
    <3>2. Runs([i \in 0..0 |-> S], j)
      BY <2>2, <3>1
    <3> QED BY <3>2
  <2>3. CASE j # 0
    <3>1. j \in Nat /\ j - 1 \in Nat /\ j - 1 \notin Bad
      <4>1. j \in Nat
        BY DEF Bad
      <4> HIDE DEF Bad
      <4> QED BY <2>1, <2>3, <4>1
    <3>2. PICK f : Runs(f, j - 1)
      BY <3>1
    <3> DEFINE g == [i \in 0..j |-> IF i = j THEN Step(f[j - 1]) ELSE f[i]]
    <3>3. \A i \in 0..(j - 1) : f[i] = IF i = 0 THEN S ELSE Step(f[i - 1])
      BY <3>2
    <3>4. \A i \in 0..j : g[i] = IF i = 0 THEN S ELSE Step(g[i - 1])
      <4> HIDE DEF Runs
      <4>1. ASSUME NEW i \in 0..j
            PROVE  g[i] = IF i = 0 THEN S ELSE Step(g[i - 1])
        <5>1. CASE i = j
          <6>1. g[i] = Step(f[i - 1]) /\ i # 0 /\ i - 1 \in 0..j /\ i - 1 # j
            BY <3>1, <5>1, <2>3
          <6>2. g[i - 1] = f[i - 1]
            BY <6>1
          <6> QED BY <6>1, <6>2
        <5>2. CASE i # j /\ i # 0
          <6>1. i \in 0..(j - 1) /\ i - 1 \in 0..j /\ i - 1 # j
            BY <3>1, <5>2
          <6>2. g[i] = f[i] /\ g[i - 1] = f[i - 1]
            BY <5>2, <6>1
          <6> QED BY <3>3, <5>2, <6>1, <6>2
        <5>3. CASE i = 0
          BY <3>1, <3>3, <5>3, <2>3
        <5> QED BY <5>1, <5>2, <5>3
      <4> QED BY <4>1
    <3>5. Runs(g, j)
      <4>1. g = [i \in 0..j |-> g[i]]
        OBVIOUS
      <4> HIDE DEF g
      <4> QED BY <3>4, <4>1
    <3> QED BY <3>5
  <2> QED BY <2>2, <2>3
<1>2. CASE Bad = {}
  <2>1. \E f : Runs(f, n)
    BY <1>2
  <2> QED BY <2>1 DEF Step, IsLoop
<1> QED BY <1>1, <1>2

\* However many turns a request takes before it waits or ends, what holds of it
\* goes on holding.
LEMMA ContinueHolds ==
  ASSUME NEW r \in Requests, GatewayTyped, NEW S, \A s \in S : Holds(r, s)
  PROVE  \A d \in Continue(r, S) : Holds(r, d)
<1> DEFINE n == MaxAttempts
           f == Loop(n, r, S)
           Good(T) == \A d \in T : Holds(r, d)
           Bad == {j \in Nat : j <= n /\ ~Good(f[j])}
<1>0. n \in Nat
  BY GatewayAssumption
<1>1. Continue(r, S) = f[n]
  BY Zenon DEF Continue, Loop, IsLoop, Turns
<1>2. IsLoop(f, n, r, S)
  BY <1>0, LoopExists DEF Loop
<1> HIDE DEF f, n
<1>3. f = [j \in 0..n |-> IF j = 0 THEN S ELSE Turns(r, f[j - 1])]
  BY <1>2, Zenon DEF IsLoop
<1>4. ASSUME NEW j \in 0..n
      PROVE  f[j] = IF j = 0 THEN S ELSE Turns(r, f[j - 1])
  <2>1. \A x : x = [i \in 0..n |-> IF i = 0 THEN S ELSE Turns(r, f[i - 1])]
               => x[j] = IF j = 0 THEN S ELSE Turns(r, f[j - 1])
    OBVIOUS
  <2> QED BY <1>3, <2>1, Zenon
<1>5. Bad \subseteq Nat /\ \A j \in Nat : j \in Bad <=> j <= n /\ ~Good(f[j])
  OBVIOUS
<1>6. ASSUME NEW T, Good(T)
      PROVE  Good(Turns(r, T))
  BY <1>6, TurnHolds DEF Turns
<1>7. Good(S)
  OBVIOUS
<1> HIDE DEF Good, Bad
<1>8. CASE Bad # {}
  <2>1. PICK j \in Bad : \A i \in Bad : j <= i
    BY <1>5, <1>8, LeastNat
  <2>2. j \in 0..n /\ j # 0
    <3>1. j \in 0..n /\ ~Good(f[j])
      BY <1>0, <1>5
    <3>2. 0 \in 0..n
      BY <1>0
    <3>3. f[0] = S
      BY <1>4, <3>2
    <3> QED BY <1>7, <3>1, <3>3
  <2>3. j - 1 \in Nat /\ j - 1 <= n /\ j - 1 \notin Bad
    BY <1>0, <2>1, <2>2
  <2>4. Good(f[j - 1])
    BY <1>5, <2>3
  <2> QED BY <1>4, <1>5, <1>6, <2>2, <2>4
<1>9. CASE Bad = {}
  <2>1. Good(f[n])
    BY <1>0, <1>5, <1>9
  <2> QED BY <1>1, <2>1 DEF Good
<1> QED BY <1>8, <1>9

\* What the requests promise together holds for the one that runs.
LEMMA NowHolds ==
  ASSUME GatewayInv, NEW r \in Requests, NEW late \in BOOLEAN
  PROVE  /\ Holds(r, Now(r, late))
         /\ Now(r, late).q.pc = req[r].pc
         /\ req[r].pc # "calling" => Holds(r, [Now(r, late) EXCEPT !.q.pc = "ready"])
<1> DEFINE late1 == req[r].late \/ late
           q == [req[r] EXCEPT !.late = late1]
           q1 == [q EXCEPT !.pc = "ready"]
<1>1. GatewayTyped /\ SlotsTaken /\ Reserved
  BY DEF GatewayInv
<1>2. req[r] \in Request /\ rt \in [P -> Runtime] /\ cost \in [Tasks -> Cost]
  BY <1>1 DEF GatewayTyped
<1>3. Now(r, late) = [rt |-> rt, cost |-> cost, q |-> q]
  BY DEF Now
<1>4. late1 \in BOOLEAN
  BY <1>2 DEF Request
<1> HIDE DEF late1
<1>5. q \in Request /\ q.pc = req[r].pc /\ q.prov = req[r].prov /\ q.slot = req[r].slot
  BY <1>2, <1>4 DEF Request
<1> HIDE DEF q
<1>6. q1 \in Request /\ q1.pc = "ready"
  BY <1>5 DEF Request
<1>7. [Now(r, late) EXCEPT !.q.pc = "ready"] = [rt |-> rt, cost |-> cost, q |-> q1]
  BY <1>3
<1> HIDE DEF q1
<1>8. \A t \in Tasks : Owed(t, r, q) = Owed(t, r, req[r])
  BY <1>5 DEF Owed
<1>9. \A t \in Tasks :
        /\ cost[t].reserved = Cardinality(OthersAtStake(t, r)) + Owed(t, r, q)
        /\ cost[t].spent + cost[t].reserved <= Limit
  BY <1>1, <1>8, StakeSplit DEF Reserved
<1>10. \A p \in P : rt[p].probing =>
         /\ p \in Registered
         /\ BackedByOther(p, r) \/ (q.pc = "calling" /\ q.prov = p /\ q.slot)
  BY <1>1, <1>5 DEF SlotsTaken, Calling, BackedByOther
<1> DEFINE d == [rt |-> rt, cost |-> cost, q |-> q]
           d1 == [rt |-> rt, cost |-> cost, q |-> q1]
<1>11. /\ d \in Stage /\ d.rt = rt /\ d.cost = cost /\ d.q = q
       /\ d1 \in Stage /\ d1.rt = rt /\ d1.cost = cost /\ d1.q = q1
  BY <1>2, <1>5, <1>6 DEF Stage
<1>12. q.pc = "calling" => q.prov \in P
  BY <1>1, <1>5 DEF GatewayTyped
<1> HIDE DEF d, d1
<1>13. Holds(r, d)
  BY <1>9, <1>10, <1>11, <1>12 DEF Holds
<1>14. ASSUME req[r].pc # "calling"
       PROVE  Holds(r, d1)
  <2>1. \A t \in Tasks : Owed(t, r, q) = 0 /\ Cardinality(OthersAtStake(t, r)) \in Nat
    BY <1>1, <1>5, <1>14, StakeSplit DEF Owed
  <2>2. \A t \in Tasks : /\ d1.cost[t].reserved = Cardinality(OthersAtStake(t, r))
                         /\ d1.cost[t].spent + d1.cost[t].reserved <= Limit
    BY <1>9, <1>11, <2>1
  <2>3. \A p \in P : d1.rt[p].probing => p \in Registered /\ BackedByOther(p, r)
    BY <1>5, <1>10, <1>11, <1>14
  <2> QED BY <1>1, <1>6, <1>11, <2>2, <2>3, IdleHolds
<1> QED BY <1>3, <1>5, <1>7, <1>11, <1>13, <1>14 DEF d, d1

\* And what holds for the one that has run, the requests promise together.
LEMMA StageKeeps ==
  ASSUME GatewayInv, NEW r \in Requests, NEW s, Holds(r, s),
         rt' = s.rt, cost' = s.cost, req' = [req EXCEPT ![r] = s.q], registry' = registry
  PROVE  GatewayInv'
<1>1. GatewayTyped /\ s \in Stage
  BY DEF GatewayInv, Holds
<1>2. req \in [Requests -> Request] /\ s.q \in Request
  BY <1>1 DEF GatewayTyped, Stage
<1>3. /\ req' \in [Requests -> Request] /\ req'[r] = s.q
      /\ \A x \in Requests \ {r} : req'[x] = req[x]
  BY <1>2
<1>4. GatewayTyped'
  <2>1. rt' \in [P -> Runtime] /\ cost' \in [Tasks -> Cost]
    BY <1>1 DEF Stage
  <2>2. \A x \in Requests : req'[x].pc = "calling" => req'[x].prov \in P
    BY <1>1, <1>3 DEF GatewayTyped, Holds
  <2> QED BY <1>3, <2>1, <2>2 DEF GatewayTyped, P
<1>5. \A t \in Tasks : OthersAtStake(t, r)' = OthersAtStake(t, r)
  BY <1>3 DEF OthersAtStake
<1>6. ASSUME NEW t \in Tasks
      PROVE  Cardinality(AtStake(t)') = Cardinality(OthersAtStake(t, r)) + Owed(t, r, s.q)
  <2>1. Cardinality(AtStake(t)')
          = Cardinality(OthersAtStake(t, r)') + Owed(t, r, req'[r])
    BY <1>4, StakeSplitNext DEF Owed
  <2> QED BY <1>3, <1>5, <2>1
<1>7. Reserved'
  BY <1>6 DEF Holds, Reserved
<1>8. SlotsTaken'
  <2>1. ASSUME NEW p \in P, rt'[p].probing
        PROVE  p \in Registered' /\ \E x \in Requests : /\ req'[x].pc = "calling"
                                                       /\ req'[x].prov = p /\ req'[x].slot
    BY <1>3, <2>1 DEF Holds, BackedByOther, Registered
  <2> QED BY <2>1 DEF SlotsTaken, Calling, P
<1> QED BY <1>4, <1>7, <1>8 DEF GatewayInv

\* A request that goes to one of several stages keeps the invariant of the
\* gateway.
LEMMA BecomesKeeps ==
  ASSUME GatewayInv, NEW r \in Requests, NEW S, \A s \in S : Holds(r, s), Becomes(r, S)
  PROVE  GatewayInv'
BY StageKeeps DEF Becomes

\* A call that ends gives up its slot and what it owed.
LEMMA EndKeeps ==
  ASSUME GatewayInv, NEW r \in Requests, req[r].pc = "calling",
         rt' \in [P -> Runtime], cost' \in [Tasks -> Cost],
         \A y \in P : rt'[y].probing => y # req[r].prov /\ rt[y].probing,
         \A t \in Tasks : /\ cost'[t].reserved = Cardinality(OthersAtStake(t, r))
                          /\ cost'[t].spent + cost'[t].reserved <= Limit,
         req' = [req EXCEPT ![r] = Ended], registry' = registry
  PROVE  GatewayInv'
<1> DEFINE d == [rt |-> rt', cost |-> cost', q |-> Ended]
<1>1. d \in Stage /\ d.rt = rt' /\ d.cost = cost' /\ d.q = Ended
  BY EndedTyped DEF Stage
<1> HIDE DEF d
<1>2. GatewayTyped
  BY DEF GatewayInv
<1>3. \A y \in P : d.rt[y].probing => y \in Registered /\ BackedByOther(y, r)
  BY <1>1 DEF GatewayInv, SlotsTaken, Calling, BackedByOther
<1>4. Holds(r, d)
  BY <1>1, <1>2, <1>3, EndedTyped, IdleHolds
<1> QED BY <1>1, <1>4, StageKeeps

\* The reservation of a call in flight, as it is given back.
LEMMA Released ==
  ASSUME GatewayInv, NEW r \in Requests, req[r].pc = "calling"
  PROVE  /\ req[r].prov \in P /\ Price[req[r].prov] \in Nat /\ TaskOf[r] \in Tasks
         /\ ReleaseCost(cost, r, req[r].prov) \in [Tasks -> Cost]
         /\ \A t \in Tasks :
              LET e == ReleaseCost(cost, r, req[r].prov)[t]
              IN  /\ e.reserved = Cardinality(OthersAtStake(t, r))
                  /\ e.spent + e.reserved + Owed(t, r, req[r]) <= Limit
<1> DEFINE s == Now(r, FALSE)
<1>1. req[r] \in Request /\ req[r].prov \in P
  BY DEF GatewayInv, GatewayTyped
<1>2. s.cost = cost /\ s.q.pc = req[r].pc /\ s.q.prov = req[r].prov
  BY <1>1 DEF Now, Request
<1>3. Holds(r, s)
  BY NowHolds
<1> HIDE DEF s
<1>4. GatewayTyped
  BY DEF GatewayInv
<1>5. \A t \in Tasks : Owed(t, r, s.q) = Owed(t, r, req[r])
  BY <1>2 DEF Owed
<1>6. /\ ReleaseCost(s.cost, r, s.q.prov) \in [Tasks -> Cost]
      /\ \A t \in Tasks :
           LET e == ReleaseCost(s.cost, r, s.q.prov)[t]
           IN  /\ e.reserved = Cardinality(OthersAtStake(t, r))
               /\ e.spent + e.reserved + Owed(t, r, s.q) <= Limit
  BY <1>2, <1>3, <1>4, ReleasedCost
<1> QED BY <1>1, <1>2, <1>5, <1>6, GatewayAssumption DEF P

\* An answer costs no more than was reserved for it.
LEMMA AnswerKeeps ==
  ASSUME GatewayInv, NEW r \in Requests, provider_answers(r)
  PROVE  GatewayInv'
<1> DEFINE p == req[r].prov
           t0 == TaskOf[r]
           c1 == ReleaseCost(cost, r, p)
<1>1. PICK c \in {0, Price[p]} : cost' = SettleCost(cost, r, p, c)
  BY DEF provider_answers
<1>2. /\ req[r].pc = "calling" /\ req' = [req EXCEPT ![r] = Ended] /\ registry' = registry
      /\ rt' = IF p \in Registered THEN [rt EXCEPT ![p] = FreshRuntime] ELSE rt
  BY DEF provider_answers
<1>3. /\ p \in P /\ Price[p] \in Nat /\ t0 \in Tasks /\ c1 \in [Tasks -> Cost]
      /\ \A t \in Tasks : /\ c1[t].reserved = Cardinality(OthersAtStake(t, r))
                          /\ c1[t].spent + c1[t].reserved + Owed(t, r, req[r]) <= Limit
  BY <1>2, Released
<1>4. cost' = [c1 EXCEPT ![t0].spent = @ + c]
  BY <1>1 DEF SettleCost
<1> DEFINE k == [c1[t0] EXCEPT !.spent = @ + c]
<1>5. cost' = [c1 EXCEPT ![t0] = k]
  BY <1>4
<1> HIDE DEF c1
<1>6. c \in Nat /\ c <= Price[p]
  BY <1>1, <1>3
<1>7. c1[t0] \in Cost
  BY <1>3
<1>8. k \in Cost /\ k.spent = c1[t0].spent + c /\ k.reserved = c1[t0].reserved
  BY <1>6, <1>7 DEF Cost
<1> HIDE DEF k
<1>9. cost' \in [Tasks -> Cost] /\ \A t \in Tasks : cost'[t] = IF t = t0 THEN k ELSE c1[t]
  BY <1>3, <1>5, <1>8
<1>10. ASSUME NEW t \in Tasks
       PROVE  /\ cost'[t].reserved = Cardinality(OthersAtStake(t, r))
              /\ cost'[t].spent + cost'[t].reserved <= Limit
  <2>1. /\ c1[t].spent \in Nat /\ c1[t].reserved \in Nat /\ Limit \in Nat
        /\ c1[t].spent + c1[t].reserved + Owed(t, r, req[r]) <= Limit
    BY <1>3, GatewayAssumption DEF Cost
  <2>2. CASE t = t0
    <3>1. Owed(t, r, req[r]) = Price[p]
      BY <1>2, <2>2 DEF Owed
    <3>2. cost'[t] = k
      BY <1>9, <2>2
    <3>3. cost'[t].reserved = c1[t].reserved /\ cost'[t].spent = c1[t].spent + c
      BY <1>8, <2>2, <3>2
    <3> QED BY <1>3, <1>6, <2>1, <3>1, <3>3
  <2>3. CASE t # t0
    <3>1. Owed(t, r, req[r]) = 0
      BY <2>3 DEF Owed
    <3> QED BY <1>3, <1>9, <2>1, <2>3, <3>1
  <2> QED BY <2>2, <2>3
<1>11. rt \in [P -> Runtime] /\ FreshRuntime \in Runtime /\ FreshRuntime.probing = FALSE
  BY DEF GatewayInv, GatewayTyped, FreshRuntime, Runtime
<1>12. rt' \in [P -> Runtime]
  BY <1>2, <1>3, <1>11
<1>13. \A y \in P : rt'[y].probing => y # p /\ rt[y].probing
  BY <1>2, <1>3, <1>11 DEF GatewayInv, SlotsTaken
<1> QED BY <1>2, <1>9, <1>10, <1>12, <1>13, EndKeeps

\* So does a request that is cancelled ...
LEMMA CancelKeeps ==
  ASSUME GatewayInv, NEW r \in Requests, cancelled(r)
  PROVE  GatewayInv'
<1> DEFINE p == req[r].prov
           z == [rt[p] EXCEPT !.probing = FALSE]
<1>1. /\ req[r].pc = "calling" /\ req' = [req EXCEPT ![r] = Ended] /\ registry' = registry
      /\ cost' = ReleaseCost(cost, r, p) /\ rt' = [rt EXCEPT ![p] = z]
  BY DEF cancelled
<1>2. /\ p \in P /\ cost' \in [Tasks -> Cost]
      /\ \A t \in Tasks : /\ cost'[t].reserved = Cardinality(OthersAtStake(t, r))
                          /\ cost'[t].spent + cost'[t].reserved + Owed(t, r, req[r]) <= Limit
      /\ Price[p] \in Nat
  BY <1>1, Released
<1>3. ASSUME NEW t \in Tasks
      PROVE  cost'[t].spent + cost'[t].reserved <= Limit
  <2>1. /\ cost'[t].spent \in Nat /\ cost'[t].reserved \in Nat /\ Limit \in Nat
        /\ Owed(t, r, req[r]) \in Nat
    BY <1>2, GatewayAssumption DEF Cost, Owed
  <2> QED BY <1>2, <2>1
<1>4. rt \in [P -> Runtime]
  BY DEF GatewayInv, GatewayTyped
<1>5. rt[p] \in Runtime
  BY <1>2, <1>4
<1>6. z \in Runtime /\ z.probing = FALSE
  BY <1>5 DEF Runtime
<1> HIDE DEF z
<1>7. rt' \in [P -> Runtime] /\ \A y \in P : rt'[y].probing => y # p /\ rt[y].probing
  BY <1>1, <1>2, <1>4, <1>6
<1> QED BY <1>1, <1>2, <1>3, <1>7, EndKeeps

\* The loop of complete, started from a state in which the others wait.
LEMMA LoopKeeps ==
  ASSUME GatewayInv, NEW r \in Requests,
         complete(r) \/ wake(r) \/ cancelled_asleep(r) \/ \E o \in Failures : provider_fails(r, o)
  PROVE  GatewayInv'
<1>1. GatewayTyped
  BY DEF GatewayInv
<1>2. ASSUME NEW late \in BOOLEAN, req[r].pc # "calling",
             Becomes(r, Continue(r, {[Now(r, late) EXCEPT !.q.pc = "ready"]}))
      PROVE  GatewayInv'
  <2> DEFINE S == {[Now(r, late) EXCEPT !.q.pc = "ready"]}
  <2>1. \A s \in S : Holds(r, s)
    BY <1>2, NowHolds
  <2> HIDE DEF S
  <2>2. \A s \in Continue(r, S) : Holds(r, s)
    BY <1>1, <2>1, ContinueHolds
  <2> DEFINE T == Continue(r, S)
  <2>3. Becomes(r, T)
    BY <1>2 DEF S
  <2> HIDE DEF T
  <2> QED BY <2>2, <2>3, BecomesKeeps DEF T
<1>3. CASE complete(r)
  BY <1>2, <1>3 DEF complete
<1>4. CASE wake(r)
  <2>1. PICK late \in BOOLEAN :
          Becomes(r, Continue(r, {[Now(r, late) EXCEPT !.q.pc = "ready"]}))
    BY <1>4 DEF wake
  <2>2. req[r].pc # "calling"
    BY <1>4 DEF wake
  <2> QED BY <1>2, <2>1, <2>2
<1>5. ASSUME NEW o \in Failures, provider_fails(r, o)
      PROVE  GatewayInv'
  <2>1. req[r].pc = "calling"
    BY <1>5 DEF provider_fails
  <2>2. PICK late \in BOOLEAN : Becomes(r, Continue(r, Fail(r, Now(r, late), o)))
    BY <1>5 DEF provider_fails
  <2> DEFINE n == Now(r, late)
             S == Fail(r, n, o)
             T == Continue(r, S)
  <2>3. Holds(r, n) /\ n.q.pc = "calling"
    BY <2>1, NowHolds
  <2>4. Becomes(r, T)
    BY <2>2
  <2> HIDE DEF n
  <2>5. \A s \in S : Holds(r, s)
    BY <1>1, <2>3, FailHolds
  <2> HIDE DEF S
  <2>6. \A s \in T : Holds(r, s)
    BY <1>1, <2>5, ContinueHolds
  <2> HIDE DEF T
  <2> QED BY <2>4, <2>6, BecomesKeeps
<1>6. CASE cancelled_asleep(r)
  <2> DEFINE n == Now(r, FALSE)
             d == [rt |-> rt, cost |-> cost, q |-> Ended]
  <2>1. /\ req[r].pc = "sleeping" /\ req' = [req EXCEPT ![r] = Ended]
        /\ UNCHANGED <<registry, rt, cost>>
    BY <1>6 DEF cancelled_asleep
  <2>2. Holds(r, n) /\ n.rt = rt /\ n.cost = cost /\ n.q.pc = "sleeping"
    BY <2>1, NowHolds DEF Now
  <2> HIDE DEF n
  <2>3. d \in Stage /\ d.rt = n.rt /\ d.cost = n.cost /\ d.q = Ended
    BY <2>2, EndedTyped DEF Stage, Holds
  <2> HIDE DEF d
  <2>4. \A t \in Tasks : Owed(t, r, n.q) = 0 /\ Cardinality(OthersAtStake(t, r)) \in Nat
    BY <1>1, <2>2, StakeSplit DEF Owed
  <2>5. \A t \in Tasks : /\ d.cost[t].reserved = Cardinality(OthersAtStake(t, r))
                         /\ d.cost[t].spent + d.cost[t].reserved <= Limit
    BY <2>2, <2>3, <2>4 DEF Holds
  <2>6. \A p \in P : d.rt[p].probing => p \in Registered /\ BackedByOther(p, r)
    BY <2>2, <2>3 DEF Holds
  <2>7. Holds(r, d)
    BY <1>1, <2>3, <2>5, <2>6, EndedTyped, IdleHolds
  <2> QED BY <2>1, <2>2, <2>3, <2>7, StageKeeps
<1> QED BY <1>3, <1>4, <1>5, <1>6

\* Runtimes may be reset and providers registered while the requests wait.
LEMMA QuietKeeps ==
  ASSUME GatewayInv, UNCHANGED <<cost, req>>, rt' \in [P -> Runtime],
         \A p \in P : rt'[p].probing => rt[p].probing /\ registry'[p] # 0
  PROVE  GatewayInv'
<1>1. GatewayTyped'
  BY DEF GatewayInv, GatewayTyped, P
<1>2. Reserved'
  BY DEF GatewayInv, Reserved, AtStake
<1>3. SlotsTaken'
  <2>1. \A p \in P : Calling(p)' = Calling(p)
    BY DEF Calling
  <2>2. \A p \in P : rt'[p].probing =>
          registry'[p] # 0 /\ \E r \in Calling(p) : req'[r].slot
    BY DEF GatewayInv, SlotsTaken
  <2> QED BY <2>1, <2>2 DEF SlotsTaken, Registered, P
<1> QED BY <1>1, <1>2, <1>3 DEF GatewayInv

\* No call in flight, nothing at stake.
LEMMA NothingAtStake ==
  ASSUME NEW t, \A r \in Requests : TaskOf[r] = t => req'[r].pc # "calling"
  PROVE  Cardinality(AtStake(t)') = 0
<1>1. AtStake(t)' = {}
  BY DEF AtStake
<1> QED BY <1>1, FS_EmptySet

\* ... a rate window or a cooldown that ends ...
LEMMA WindowKeeps ==
  ASSUME GatewayInv, NEW p \in P, window_ends(p) \/ cooldown_ends(p)
  PROVE  GatewayInv'
<1>1. rt \in [P -> Runtime] /\ UNCHANGED <<registry, cost, req>>
  BY DEF GatewayInv, GatewayTyped, window_ends, cooldown_ends
<1>2. rt[p] \in Runtime
  BY <1>1
<1> DEFINE z1 == [rt[p] EXCEPT !.window = FALSE]
           z2 == [rt[p] EXCEPT !.cooling = FALSE]
<1>3. z1 \in Runtime /\ z1.probing = rt[p].probing
  BY <1>2 DEF Runtime
<1>4. z2 \in Runtime /\ z2.probing = rt[p].probing
  BY <1>2 DEF Runtime
<1>5. rt' = [rt EXCEPT ![p] = z1] \/ rt' = [rt EXCEPT ![p] = z2]
  BY DEF window_ends, cooldown_ends
<1> HIDE DEF z1, z2
<1>6. rt' \in [P -> Runtime] /\ \A y \in P : rt'[y].probing => rt[y].probing
  BY <1>1, <1>3, <1>4, <1>5
<1>7. \A y \in P : rt[y].probing => registry'[y] # 0
  BY <1>1 DEF GatewayInv, SlotsTaken, Registered
<1> QED BY <1>1, <1>6, <1>7, QuietKeeps

\* ... a task whose budget is forgotten ...
LEMMA ForgetKeeps ==
  ASSUME GatewayInv, NEW t \in Tasks, forget_task_budget(t)
  PROVE  GatewayInv'
<1>1. /\ \A r \in Requests : TaskOf[r] = t => req[r].pc # "calling"
      /\ cost' = [cost EXCEPT ![t] = NoCost]
      /\ req' = [r \in Requests |-> IF TaskOf[r] = t THEN Ended ELSE req[r]]
      /\ UNCHANGED <<registry, rt>>
  BY DEF forget_task_budget
<1>2. GatewayTyped
  BY DEF GatewayInv
<1>3. NoCost \in Cost /\ NoCost.spent = 0 /\ NoCost.reserved = 0
  BY DEF NoCost, Cost
<1>4. GatewayTyped'
  BY <1>1, <1>2, <1>3, EndedTyped DEF GatewayTyped, P
<1>5. \A r \in Requests : /\ (req'[r].pc = "calling") <=> (req[r].pc = "calling")
                          /\ req[r].pc = "calling" => req'[r] = req[r]
  BY <1>1, EndedTyped
<1>6. Cardinality(AtStake(t)') = 0
  BY <1>1, EndedTyped, NothingAtStake
<1>7. ASSUME NEW u \in Tasks, u # t
      PROVE  AtStake(u)' = AtStake(u)
  BY <1>5 DEF AtStake
<1>8. cost'[t] = NoCost /\ \A u \in Tasks : u # t => cost'[u] = cost[u]
  BY <1>1, <1>2 DEF GatewayTyped
<1>9. Reserved'
  <2>1. ASSUME NEW u \in Tasks
        PROVE  /\ cost'[u].reserved = Cardinality(AtStake(u)')
               /\ cost'[u].spent + cost'[u].reserved <= Limit
    <3>1. CASE u = t
      BY <1>3, <1>6, <1>8, <3>1, GatewayAssumption
    <3>2. CASE u # t
      BY <1>7, <1>8, <3>2 DEF GatewayInv, Reserved
    <3> QED BY <3>1, <3>2
  <2> QED BY <2>1 DEF Reserved
<1>10. SlotsTaken'
  BY <1>1, <1>5 DEF GatewayInv, SlotsTaken, Calling, Registered, P
<1> QED BY <1>4, <1>9, <1>10 DEF GatewayInv

\* ... a restart ...
LEMMA RestartedKeeps ==
  ASSUME GatewayInv, NEW reg, NEW def, Restarted(reg, def)
  PROVE  GatewayInv'
<1>1. NewRequest \in Request /\ NewRequest.pc = "new"
  BY DEF NewRequest, Request
<1>2. /\ rt' = [p \in P |-> FreshRuntime]
      /\ cost' = [t \in Tasks |-> NoCost]
      /\ req' = [r \in Requests |-> IF req[r].pc = "new" THEN NewRequest ELSE Ended]
  BY DEF Restarted
<1>3. FreshRuntime \in Runtime /\ FreshRuntime.probing = FALSE
  BY DEF FreshRuntime, Runtime
<1>4. NoCost \in Cost /\ NoCost.spent = 0 /\ NoCost.reserved = 0
  BY DEF NoCost, Cost
<1>5. \A r \in Requests : req'[r].pc # "calling"
  BY <1>1, <1>2, EndedTyped
<1>6. GatewayTyped'
  BY <1>1, <1>2, <1>3, <1>4, <1>5, EndedTyped DEF GatewayTyped, P
<1>7. \A t \in Tasks : Cardinality(AtStake(t)') = 0
  BY <1>5, NothingAtStake
<1>8. Reserved'
  BY <1>2, <1>4, <1>7, GatewayAssumption DEF Reserved
<1>9. SlotsTaken'
  BY <1>2, <1>3 DEF SlotsTaken, P
<1> QED BY <1>6, <1>8, <1>9 DEF GatewayInv

\* ... and a new registry.
LEMMA ReconfiguredKeeps ==
  ASSUME GatewayInv, NEW reg, NEW def, Reconfigured(reg, def)
  PROVE  GatewayInv'
<1>1. /\ registry' = reg /\ UNCHANGED <<cost, req>>
      /\ rt' = [p \in P |-> IF registry[p] # 0 /\ reg[p] # 0 THEN rt[p] ELSE FreshRuntime]
  BY DEF Reconfigured
<1>2. FreshRuntime \in Runtime /\ FreshRuntime.probing = FALSE
  BY DEF FreshRuntime, Runtime
<1>3. rt \in [P -> Runtime]
  BY DEF GatewayInv, GatewayTyped
<1> QED BY <1>1, <1>2, <1>3, QuietKeeps

\* The gateway starts in its invariant.
LEMMA GatewayStarts == Init => GatewayInv
<1> SUFFICES ASSUME Init
             PROVE  GatewayInv
  OBVIOUS
<1>1. NewRequest \in Request /\ NewRequest.pc = "new"
  BY DEF NewRequest, Request
<1>2. /\ rt = [p \in P |-> FreshRuntime]
      /\ cost = [t \in Tasks |-> NoCost]
      /\ req = [r \in Requests |-> NewRequest]
  BY DEF Init, GatewayInit
<1>3. FreshRuntime \in Runtime /\ FreshRuntime.probing = FALSE
  BY DEF FreshRuntime, Runtime
<1>4. NoCost \in Cost /\ NoCost.spent = 0 /\ NoCost.reserved = 0
  BY DEF NoCost, Cost
<1>5. \A r \in Requests : req[r].pc # "calling"
  BY <1>1, <1>2
<1>6. GatewayTyped
  BY <1>1, <1>2, <1>3, <1>4, <1>5 DEF GatewayTyped
<1>7. \A t \in Tasks : AtStake(t) = {}
  BY <1>5 DEF AtStake
<1>8. Cardinality({}) = 0
  BY FS_EmptySet
<1>9. Reserved
  <2>1. Limit \in Nat
    BY GatewayAssumption
  <2>2. ASSUME NEW t \in Tasks
        PROVE  cost[t].reserved = Cardinality(AtStake(t)) /\ cost[t].spent + cost[t].reserved <= Limit
    <3>1. cost[t] = NoCost /\ AtStake(t) = {}
      BY <1>2, <1>7
    <3>2. cost[t].reserved = 0 /\ cost[t].spent = 0 /\ Cardinality(AtStake(t)) = 0
      BY <1>4, <1>8, <3>1
    <3> QED BY <2>1, <3>2
  <2> QED BY <2>2 DEF Reserved
<1>10. SlotsTaken
  BY <1>2, <1>3 DEF SlotsTaken
<1> QED BY <1>6, <1>9, <1>10 DEF GatewayInv

\* Every step keeps the invariant of the gateway.
LEMMA GatewayNext ==
  ASSUME GatewayInv, [Next]_vars
  PROVE  GatewayInv'
<1>1. ASSUME UNCHANGED gateway
      PROVE  GatewayInv'
  <2>1. UNCHANGED <<registry, rt, cost, req>>
    BY <1>1 DEF gateway
  <2>2. \A p \in P : rt[p].probing => registry[p] # 0
    BY DEF GatewayInv, SlotsTaken, Registered
  <2>3. rt \in [P -> Runtime]
    BY DEF GatewayInv, GatewayTyped
  <2> QED BY <2>1, <2>2, <2>3, QuietKeeps
<1>2. ASSUME NEW r \in Requests, Complete(r)
      PROVE  GatewayInv'
  BY <1>2, LoopKeeps, AnswerKeeps, CancelKeeps DEF Complete, Proceed
<1>3. ASSUME NEW c \in Calls, Administer(c)
      PROVE  GatewayInv'
  <2>1. CASE reconfigure(c)
    <3>1. UNCHANGED gateway \/ Reconfigured(call[c].reg.entries, call[c].reg.default)
      BY <2>1, Zenon DEF reconfigure
    <3> QED BY <1>1, <3>1, ReconfiguredKeeps
  <2>2. CASE ~reconfigure(c)
    <3>1. UNCHANGED gateway
      BY <1>3, <2>2 DEF Administer, submit, replay, prepare, commit, invalidate, gateway
    <3> QED BY <1>1, <3>1
  <2> QED BY <2>1, <2>2
<1>4. ASSUME NEW p \in P, Probe(p)
      PROVE  GatewayInv'
  BY <1>1, <1>4 DEF Probe, get_health, check_health, cache_health, cache_expires, gateway
<1>5. CASE Time
  <2>1. ASSUME NEW p \in P, window_ends(p) \/ cooldown_ends(p)
        PROVE  GatewayInv'
    BY <2>1, WindowKeeps
  <2>2. ASSUME NEW t \in Tasks, forget_task_budget(t)
        PROVE  GatewayInv'
    BY <2>2, ForgetKeeps
  <2>3. ASSUME NEW k, receipt_expires(k)
        PROVE  GatewayInv'
    BY <1>1, <2>3 DEF receipt_expires, gateway
  <2> QED BY <1>5, <2>1, <2>2, <2>3 DEF Time
<1>6. CASE restart
  BY <1>6, RestartedKeeps DEF restart
<1>7. CASE UNCHANGED vars
  BY <1>1, <1>7 DEF vars
<1> QED BY <1>2, <1>3, <1>4, <1>5, <1>6, <1>7 DEF Next

\* What is reserved is what the calls in flight may cost, and half-open slots
\* are backed by calls in flight: the inductive invariant of the gateway
\* (complete, _reserve_cost, _settle_cost, _release_half_open).
THEOREM GatewayInvariant == Spec => []GatewayInv
BY GatewayStarts, GatewayNext, PTL DEF Spec

\* What a task has spent, together with all that its calls in flight may still
\* cost, stays within its budget, for any number of requests and providers and
\* any prices, however the calls overlap, fail or are cancelled and whenever
\* the providers are reconfigured (_budget_candidates, _reserve_cost,
\* _settle_cost).
THEOREM BudgetIsHeld == Spec => []BudgetHeld
<1>1. GatewayInv => BudgetHeld
  BY DEF GatewayInv, Reserved, BudgetHeld
<1> QED BY <1>1, GatewayInvariant, PTL

\* The half-open slot of a provider never outlives the try that took it
\* (_provider_is_available, _record_failure, _release_half_open).
THEOREM SlotsBacked == Spec => []SlotBacked
<1>1. GatewayInv => SlotBacked
  BY DEF GatewayInv, SlotsTaken, SlotBacked
<1> QED BY <1>1, GatewayInvariant, PTL
===============================================================================
