-------------------------- MODULE EffectGraphLease --------------------------
(***************************************************************************)
(* The lease on a task's effect graph.  API instances share one database;  *)
(* inside an instance several workers (the task's processor, the control   *)
(* router, a reconciliation request) act under the instance's identity and *)
(* are serialised by its task lock.  A transaction reads the graph row     *)
(* first and writes it later with a conditional UPDATE, and transactions   *)
(* of different instances interleave between the two.                      *)
(*                                                                         *)
(* Time is the database's.  In PostgreSQL CURRENT_TIMESTAMP is the start   *)
(* of the transaction, in SQLite the moment of the statement, so a         *)
(* condition may be judged at either.                                      *)
(***************************************************************************)
EXTENDS Naturals

CONSTANTS
  Instances,    \* API processes; each start draws a fresh identity
  NoOwner,      \* lease_owner_id is NULL
  Workers,      \* whoever works on the graph under an instance's identity
  InstanceOf,   \* the instance of a worker
  TTL,          \* graph_lease_ttl_seconds
  MaxNow,       \* bound on the clock
  MaxToken,     \* bound on fencing_token
  MaxContent    \* bound on the number of graph mutations

ASSUME LeaseAssumption ==
  /\ NoOwner \notin Instances
  /\ InstanceOf \in [Workers -> Instances]
  /\ TTL \in Nat \ {0}
  /\ MaxNow \in Nat /\ MaxToken \in Nat /\ MaxContent \in Nat

VARIABLES
  now,       \* the database clock
  row,       \* the lease columns of the graph, and how often it was mutated
  held,      \* the fencing token a worker's runtime carries, 0 for none
  txn,       \* what a worker's open transaction is about to do
  read,      \* the row it read, when, and the token it was called with
  dead       \* instances that have crashed

vars == <<now, row, held, txn, read, dead>>

Row == [owner : Instances \cup {NoOwner}, expires : Nat, token : Nat,
        revision : Nat, content : Nat]

NoRow == [owner |-> NoOwner, expires |-> 0, token |-> 0, revision |-> 0,
          content |-> 0]
NoRead == [at |-> 0, fence |-> 0, row |-> NoRow]

TypeOK ==
  /\ now \in Nat
  /\ row \in Row
  /\ held \in [Workers -> Nat]
  /\ txn \in [Workers -> {"none", "acquire", "mutate"}]
  /\ read \in [Workers -> [at : Nat, fence : Nat, row : Row]]
  /\ dead \subseteq Instances

Init ==
  /\ now = 1
  /\ row = [NoRow EXCEPT !.revision = 1]
  /\ held = [w \in Workers |-> 0]
  /\ txn = [w \in Workers |-> "none"]
  /\ read = [w \in Workers |-> NoRead]
  /\ dead = {}

------------------------------------------------------------------------------
tick ==
  /\ now < MaxNow
  /\ now' = now + 1
  /\ UNCHANGED <<row, held, txn, read, dead>>

\* The task lock: one transaction of an instance at a time.
TaskLockFree(w) ==
  \A v \in Workers : InstanceOf[v] = InstanceOf[w] => txn[v] = "none"

\* The SELECT that opens a transaction.  A mutation needs the token of a
\* lease the runtime believes in (_effect_fence).
begin(w, kind) ==
  /\ InstanceOf[w] \notin dead
  /\ TaskLockFree(w)
  /\ kind = "mutate" => held[w] # 0
  /\ txn' = [txn EXCEPT ![w] = kind]
  /\ read' = [read EXCEPT ![w] = [at |-> now, fence |-> held[w], row |-> row]]
  /\ UNCHANGED <<now, row, held, dead>>

Done(w) ==
  /\ txn' = [txn EXCEPT ![w] = "none"]
  /\ read' = [read EXCEPT ![w] = NoRead]

\* The row as w read it was w's own live lease.
SameLiveOwner(w) ==
  /\ read[w].row.owner = InstanceOf[w]
  /\ read[w].row.expires > read[w].at
  /\ read[w].row.token > 0

\* UPDATE ... WHERE owner and token are unchanged and the lease is live.
ExtendApplies(w, t) ==
  /\ SameLiveOwner(w)
  /\ row.owner = InstanceOf[w]
  /\ row.token = read[w].row.token
  /\ row.expires > t

acquire_extends(w, t) ==
  /\ txn[w] = "acquire"
  /\ ExtendApplies(w, t)
  /\ row' = [row EXCEPT !.expires = read[w].at + TTL]
  /\ held' = [held EXCEPT ![w] = row.token]
  /\ Done(w)
  /\ UNCHANGED <<now, dead>>

\* Mutant: the takeover does not compare the revision.
TakeoverAppliesBlind(w, t) ==
  /\ ~SameLiveOwner(w)
  /\ row.owner = NoOwner \/ row.expires <= t

\* UPDATE ... WHERE the revision is the one read and no lease is live.
TakeoverApplies(w, t) ==
  /\ ~SameLiveOwner(w)
  /\ row.revision = read[w].row.revision
  /\ row.owner = NoOwner \/ row.expires <= t

acquire_takes_over(w, t) ==
  /\ txn[w] = "acquire"
  /\ TakeoverApplies(w, t)
  /\ read[w].row.token < MaxToken
  /\ row' = [row EXCEPT !.owner = InstanceOf[w],
                        !.expires = read[w].at + TTL,
                        !.token = read[w].row.token + 1,
                        !.revision = read[w].row.revision + 1]
  /\ held' = [held EXCEPT ![w] = read[w].row.token + 1]
  /\ Done(w)
  /\ UNCHANGED <<now, dead>>

\* EffectGraphLeaseUnavailableError.
acquire_unavailable(w, t) ==
  /\ txn[w] = "acquire"
  /\ ~ExtendApplies(w, t) /\ ~TakeoverApplies(w, t)
  /\ Done(w)
  /\ UNCHANGED <<now, row, held, dead>>

\* The row grants w's instance a lease with this token, live at time t.
LeaseIsLive(w, token, t) ==
  /\ row.owner = InstanceOf[w]
  /\ row.token = token
  /\ row.expires > t

\* One UPDATE; an expired lease is never revived.
renew_effect_graph_lease(w) ==
  /\ InstanceOf[w] \notin dead
  /\ held[w] # 0
  /\ LeaseIsLive(w, held[w], now)
  /\ row' = [row EXCEPT !.expires = now + TTL]
  /\ UNCHANGED <<now, held, txn, read, dead>>

\* A refused renewal sets graph_lease_lost and stops the worker.
renew_rejected(w) ==
  /\ InstanceOf[w] \notin dead
  /\ held[w] # 0
  /\ ~LeaseIsLive(w, held[w], now)
  /\ held' = [held EXCEPT ![w] = 0]
  /\ UNCHANGED <<now, row, txn, read, dead>>

\* The runtime drops its token first; the row is released only if it still
\* carries that token, and keeps it.
release_effect_graph_lease(w) ==
  /\ InstanceOf[w] \notin dead
  /\ held[w] # 0
  /\ held' = [held EXCEPT ![w] = 0]
  /\ row' = IF row.owner = InstanceOf[w] /\ row.token = held[w]
            THEN [row EXCEPT !.owner = NoOwner, !.expires = 0, !.revision = @ + 1]
            ELSE row
  /\ UNCHANGED <<now, txn, read, dead>>

\* Mutant: any live lease lets the mutation through.
FenceHoldsForAnyone(w, t) == row.expires > t

\* _fence_effect_mutation: the conditional UPDATE every writer of the graph
\* begins with.  Its row lock lasts until the commit, so the new content,
\* computed from what was read, lands in the same step.
FenceHolds(w, t) ==
  /\ row.revision = read[w].row.revision
  /\ LeaseIsLive(w, read[w].fence, t)

fenced_mutation(w, t) ==
  /\ txn[w] = "mutate"
  /\ FenceHolds(w, t)
  /\ read[w].row.content < MaxContent
  /\ row' = [row EXCEPT !.revision = read[w].row.revision + 1,
                        !.content = read[w].row.content + 1]
  /\ Done(w)
  /\ UNCHANGED <<now, held, dead>>

\* EffectGraphFenceRejectedError: the transaction rolls back and the
\* processor forgets the runtime.
mutation_rejected(w, t) ==
  /\ txn[w] = "mutate"
  /\ ~FenceHolds(w, t)
  /\ held' = [held EXCEPT ![w] = 0]
  /\ Done(w)
  /\ UNCHANGED <<now, row, dead>>

\* The process dies: open transactions roll back, tokens are forgotten and
\* the row keeps its lease until it expires.
crash(i) ==
  /\ i \notin dead
  /\ dead' = dead \cup {i}
  /\ held' = [w \in Workers |-> IF InstanceOf[w] = i THEN 0 ELSE held[w]]
  /\ txn' = [w \in Workers |-> IF InstanceOf[w] = i THEN "none" ELSE txn[w]]
  /\ read' = [w \in Workers |-> IF InstanceOf[w] = i THEN NoRead ELSE read[w]]
  /\ UNCHANGED <<now, row>>

------------------------------------------------------------------------------
Acquisition(w, t) ==
  \/ acquire_extends(w, t)
  \/ acquire_takes_over(w, t)
  \/ acquire_unavailable(w, t)

Mutation(w, t) ==
  \/ fenced_mutation(w, t)
  \/ mutation_rejected(w, t)

Next ==
  \/ tick
  \/ \E w \in Workers :
       \/ \E kind \in {"acquire", "mutate"} : begin(w, kind)
       \/ \E t \in {read[w].at, now} : Acquisition(w, t) \/ Mutation(w, t)
       \/ renew_effect_graph_lease(w)
       \/ renew_rejected(w)
       \/ release_effect_graph_lease(w)
  \/ \E i \in Instances : crash(i)

Spec == Init /\ [][Next]_vars

------------------------------------------------------------------------------
(* What the lease promises.                                                *)

\* A fencing token belongs to one instance for ever: two workers that carry
\* the same token act for the same instance, and no worker carries a token
\* that was not issued.  Both would fail if a token could be issued twice
\* from two reads of the same row.
TokenHasOneInstance ==
  /\ \A v, w \in Workers : held[v] = held[w] /\ held[v] # 0 =>
                            InstanceOf[v] = InstanceOf[w]
  /\ \A w \in Workers : held[w] <= row.token

\* The revision identifies the row: a transaction that finds the revision it
\* read also finds the owner, the token and the graph it read.  Every
\* conditional UPDATE relies on it.
RevisionIdentifiesRow ==
  \A w \in Workers :
    txn[w] # "none" =>
      /\ read[w].row.revision <= row.revision
      /\ read[w].row.revision = row.revision =>
           /\ read[w].row.owner = row.owner
           /\ read[w].row.token = row.token
           /\ read[w].row.content = row.content

\* A lease that has not expired is never taken from its instance, however
\* old the read behind the UPDATE is.
NoTakeoverOfLiveLease ==
  [][row'.token # row.token => row.owner = NoOwner \/ row.expires <= now]_vars

\* Only the instance that owns the row changes the graph, each change builds
\* on the one before it, and a superseded owner is never back without a new
\* token: the lease implements FencedGraph.
Fenced == INSTANCE FencedGraph WITH holder <- row.owner, epoch <- row.token,
                                    content <- row.content

FencedSpec == Fenced!Spec

=============================================================================
