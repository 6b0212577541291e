------------------------- MODULE ProviderManagement -------------------------
(***************************************************************************)
(* Provider administration over the model gateway.  The catalog is in the  *)
(* database; a mutation is looked up by its Idempotency-Key, prepared from *)
(* the state it read, committed against the version the client saw         *)
(* (If-Match) and then handed to the gateway and the health service of the *)
(* process.  Other processes may write the same catalog.                   *)
(*                                                                         *)
(* A configuration is a number; validation of configurations, credentials  *)
(* and encryption succeed or the mutation ends before the transaction.     *)
(***************************************************************************)
EXTENDS ModelGateway

CONSTANTS
  Calls,         \* requests to the management API, retries included
  Key,           \* their Idempotency-Key
  Mutations,     \* the command behind a key: [action, provider, config, enabled]
  Hosts, Here,   \* processes, and the one with the modelled gateway
  Configs,       \* configurations of a provider
  MaxProviders,  \* size limit of the catalog
  Deployments    \* bounds of one behaviour

Deployment ==
  [calls : SUBSET Calls, hosts : SUBSET Hosts, requests : SUBSET Requests,
   probes : BOOLEAN, crashes : Nat]

Mutation ==
  [action : {"create", "update", "enable", "disable", "make_default", "delete"},
   provider : P, config : Configs \cup {0}, enabled : BOOLEAN]

ASSUME ManagementAssumption ==
  /\ Here \in Hosts /\ Configs \subseteq Nat \ {0} /\ Configs # {}
  /\ Key \in [Calls -> DOMAIN Mutations]
  /\ Mutations \in [DOMAIN Mutations -> Mutation]
  /\ Deployments \subseteq Deployment

VARIABLES
  dep,        \* the deployment, fixed
  catalog,    \* version, default and configurations in the database
  receipts,   \* idempotency rows
  audit,      \* audit events, in order
  seed,       \* the catalog that was imported first
  call,       \* requests to the API
  cache,      \* configuration whose health is cached, or 0
  probe,      \* single-flight health probes
  crashes

admin == <<dep, catalog, receipts, audit, seed, call, cache, probe, crashes>>
vars == <<gateway, admin>>

Absent == [config |-> 0, enabled |-> FALSE]
Adapters(c) == [p \in P |-> IF c.entries[p].enabled THEN c.entries[p].config ELSE 0]

NoCall == [pc |-> "new", host |-> Here, seen |-> 0, base |-> <<>>, reg |-> <<>>]
NoProbe == 0
Waiting == -1

Init ==
  /\ dep \in Deployments
  /\ seed = [version |-> 1, default |-> Providers[1],
             entries |-> [p \in P |-> [config |-> CHOOSE c \in Configs : TRUE,
                                       enabled |-> TRUE]]]
  /\ catalog = seed
  /\ receipts = {} /\ audit = <<>>
  /\ call = [c \in Calls |-> NoCall]
  /\ cache = [p \in P |-> 0] /\ probe = [p \in P |-> NoProbe]
  /\ crashes = 0
  /\ registry = Adapters(seed) /\ default = seed.default
  /\ GatewayInit

------------------------------------------------------------------------------
(* The commands. *)

\* _create_candidate, _replace_candidate, _toggle_candidate, _default_candidate
\* and _delete_candidate: when a command may be prepared from a state.
Allowed(s, m) ==
  LET here == s.entries[m.provider] # Absent
      size == Cardinality({p \in P : s.entries[p] # Absent})
  IN  CASE m.action = "create" -> ~here /\ size < MaxProviders
        [] m.action = "update" -> here /\ (m.provider = s.default => m.enabled)
        [] m.action = "enable" -> here
        [] m.action = "disable" -> here /\ m.provider # s.default
        [] m.action = "make_default" -> here /\ s.entries[m.provider].enabled
        [] m.action = "delete" -> here /\ m.provider # s.default /\ size > 1

Entry(e, m) ==
  CASE m.action \in {"create", "update"} -> [config |-> m.config, enabled |-> m.enabled]
    [] m.action = "enable" -> [e EXCEPT !.enabled = TRUE]
    [] m.action = "disable" -> [e EXCEPT !.enabled = FALSE]
    [] m.action = "make_default" -> e
    [] m.action = "delete" -> Absent

\* The state the command makes of another one, before its version is set.
Candidate(s, m) ==
  [s EXCEPT !.entries[m.provider] = Entry(@, m),
            !.default = IF m.action = "make_default" THEN m.provider ELSE @]

SameContent(a, b) == a.entries = b.entries /\ a.default = b.default

\* _validate_mutation_shape: the candidate differs from the current state in
\* what the command is about, and nowhere else.
InScope(now, next, m) ==
  LET e == now.entries[m.provider]
      f == next.entries[m.provider]
  IN  /\ \A p \in P \ {m.provider} : now.entries[p] = next.entries[p]
      /\ CASE m.action = "create" -> e = Absent /\ f # Absent
           [] m.action = "delete" -> e # Absent /\ f = Absent
           [] m.action \in {"update", "enable", "disable"} ->
                e # f /\ e # Absent /\ f # Absent
           [] m.action = "make_default" ->
                e = f /\ now.default # next.default /\ next.default = m.provider

------------------------------------------------------------------------------
(* One request: replay, get_state, commit, reconfigure, invalidate. *)

Command(c) == Mutations[Key[c]]
Set(c, pc) == call' = [call EXCEPT ![c].pc = pc]
Answered(c) == call' = [call EXCEPT ![c] = [NoCall EXCEPT !.pc = "answered"]]
Locked(h) == \E d \in Calls : call[d].host = h
                              /\ call[d].pc \in {"read", "committing", "committed", "serving"}

\* The client sends the version it saw to some process.
submit(c, h) ==
  /\ c \in dep.calls /\ h \in dep.hosts /\ call[c].pc = "new"
  /\ \E v \in 1..catalog.version :
       call' = [call EXCEPT ![c] = [@ EXCEPT !.pc = "queued", !.host = h, !.seen = v]]
  /\ UNCHANGED <<gateway, dep, catalog, receipts, audit, seed, cache, probe, crashes>>

\* The mutation lock of the process, and the first look for a receipt.
replay(c) ==
  /\ call[c].pc = "queued" /\ ~Locked(call[c].host)
  /\ IF Key[c] \in receipts THEN Answered(c) ELSE Set(c, "read")
  /\ UNCHANGED <<gateway, dep, catalog, receipts, audit, seed, cache, probe, crashes>>

\* get_state and the candidate, with its adapters, or an error.
prepare(c) ==
  /\ call[c].pc = "read"
  /\ \/ /\ Allowed(catalog, Command(c))
        /\ call' = [call EXCEPT ![c].pc = "committing", ![c].base = catalog]
     \/ Answered(c)
  /\ UNCHANGED <<gateway, dep, catalog, receipts, audit, seed, cache, probe, crashes>>

\* Mutant: the client's version is not compared.
CurrentAnyVersion(c) == TRUE

\* If-Match.
Current(c) == call[c].seen = catalog.version

\* _commit_once, one transaction: receipt, version, scope, then the catalog,
\* the audit event and the receipt together.  A conflict is tried again, which
\* only a receipt written meanwhile can answer differently.
commit(c) ==
  /\ call[c].pc = "committing"
  /\ LET m == Command(c)
         next == Candidate(call[c].base, m)
     IN  \/ /\ Key[c] \in receipts
            /\ Answered(c)
            /\ UNCHANGED <<catalog, receipts, audit>>
         \/ /\ Key[c] \notin receipts /\ Current(c)
            /\ SameContent(catalog, next)
            /\ receipts' = receipts \cup {Key[c]}
            /\ Answered(c)
            /\ UNCHANGED <<catalog, audit>>
         \/ /\ Key[c] \notin receipts /\ Current(c)
            /\ ~SameContent(catalog, next) /\ InScope(catalog, next, m)
            /\ catalog' = [next EXCEPT !.version = catalog.version + 1]
            /\ receipts' = receipts \cup {Key[c]}
            /\ audit' = Append(audit, Key[c])
            /\ call' = [call EXCEPT ![c].pc = "committed",
                                    ![c].reg = [entries |-> Adapters(next),
                                                default |-> next.default]]
         \/ /\ Key[c] \notin receipts
            /\ ~Current(c) \/ (~SameContent(catalog, next) /\ ~InScope(catalog, next, m))
            /\ Answered(c)
            /\ UNCHANGED <<catalog, receipts, audit>>
  /\ UNCHANGED <<gateway, dep, seed, cache, probe, crashes>>

\* The registry of the process is replaced in one step.
reconfigure(c) ==
  /\ call[c].pc = "committed"
  /\ IF call[c].host = Here
     THEN Reconfigured(call[c].reg.entries, call[c].reg.default) ELSE UNCHANGED gateway
  /\ Set(c, "serving")
  /\ UNCHANGED <<dep, catalog, receipts, audit, seed, cache, probe, crashes>>

\* Mutant: probes that run are left to finish.
invalidate_cache_only(c) ==
  /\ call[c].pc = "serving"
  /\ Answered(c)
  /\ cache' = IF call[c].host = Here THEN [p \in P |-> 0] ELSE cache
  /\ UNCHANGED <<gateway, dep, catalog, receipts, audit, seed, probe, crashes>>

\* Cached health is dropped, running probes are cancelled.
invalidate(c) ==
  /\ call[c].pc = "serving"
  /\ Answered(c)
  /\ IF call[c].host = Here
     THEN cache' = [p \in P |-> 0] /\ probe' = [p \in P |-> NoProbe]
     ELSE UNCHANGED <<cache, probe>>
  /\ UNCHANGED <<gateway, dep, catalog, receipts, audit, seed, crashes>>

\* IDEMPOTENCY_RETENTION is over.
receipt_expires(k) ==
  /\ k \in receipts
  /\ receipts' = receipts \ {k}
  /\ UNCHANGED <<gateway, dep, catalog, audit, seed, call, cache, probe, crashes>>

------------------------------------------------------------------------------
(* ProviderHealthService. *)

get_health(p) ==
  /\ dep.probes /\ p \in Registered
  /\ cache[p] = 0 /\ probe[p] = NoProbe
  /\ probe' = [probe EXCEPT ![p] = Waiting]
  /\ UNCHANGED <<gateway, dep, catalog, receipts, audit, seed, call, cache, crashes>>

\* The semaphore is free; check_health resolves the adapter, which may be gone.
check_health(p) ==
  /\ probe[p] = Waiting
  /\ probe' = [probe EXCEPT ![p] = registry[p]]
  /\ UNCHANGED <<gateway, dep, catalog, receipts, audit, seed, call, cache, crashes>>

cache_health(p) ==
  /\ probe[p] \in Configs
  /\ cache' = [cache EXCEPT ![p] = probe[p]]
  /\ probe' = [probe EXCEPT ![p] = NoProbe]
  /\ UNCHANGED <<gateway, dep, catalog, receipts, audit, seed, call, crashes>>

cache_expires(p) ==
  /\ cache[p] # 0
  /\ cache' = [cache EXCEPT ![p] = 0]
  /\ UNCHANGED <<gateway, dep, catalog, receipts, audit, seed, call, probe, crashes>>

------------------------------------------------------------------------------
\* The process ends and the next one calls initialize, which finds a catalog
\* and takes it instead of the configured providers.
restart ==
  /\ crashes < dep.crashes /\ crashes' = crashes + 1
  /\ Restarted(Adapters(catalog), catalog.default)
  /\ call' = [c \in Calls |-> IF call[c].host = Here /\ call[c].pc # "new"
                              THEN [NoCall EXCEPT !.pc = "answered"] ELSE call[c]]
  /\ cache' = [p \in P |-> 0] /\ probe' = [p \in P |-> NoProbe]
  /\ UNCHANGED <<dep, catalog, receipts, audit, seed>>

Complete(r) ==
  /\ r \in dep.requests /\ UNCHANGED admin
  /\ complete(r) \/ Proceed(r) \/ cancelled(r) \/ cancelled_asleep(r)

Administer(c) ==
  \/ \E h \in Hosts : submit(c, h)
  \/ replay(c) \/ prepare(c) \/ commit(c) \/ reconfigure(c) \/ invalidate(c)

Probe(p) == get_health(p) \/ check_health(p) \/ cache_health(p) \/ cache_expires(p)

Time ==
  \/ \E p \in P : (window_ends(p) \/ cooldown_ends(p)) /\ UNCHANGED admin
  \/ \E t \in Tasks : forget_task_budget(t) /\ UNCHANGED admin
  \/ \E k \in DOMAIN Mutations : receipt_expires(k)

Next ==
  \/ \E r \in Requests : Complete(r)
  \/ \E c \in Calls : Administer(c)
  \/ \E p \in P : Probe(p)
  \/ Time
  \/ restart

\* A provider answers or the timeout of the call ends it, and a sleep ends.
Fairness == \A r \in Requests : WF_vars(Proceed(r) /\ UNCHANGED admin)

Spec == Init /\ [][Next]_vars /\ Fairness

------------------------------------------------------------------------------
(* Properties. *)

\* What the audited commands make of the imported catalog.
Replayed ==
  LET f[k \in 0..Len(audit)] ==
        IF k = 0 THEN seed ELSE Candidate(f[k - 1], Mutations[audit[k]])
  IN  f[Len(audit)]

\* The catalog is what the audited commands, one after the other, make of the
\* imported one: no command is lost under another that was prepared from an
\* older state, in this or in another process, and none takes effect without
\* its audit event (_mutate, _commit_once).
AuditExplainsCatalog == SameContent(catalog, Replayed)

\* While no command is on its way from the database to the gateway, the only
\* process serves exactly the catalog: its adapters, its default, and cached
\* health of these adapters only (reconfigure, invalidate, initialize).
ServesCatalog ==
  dep.hosts = {Here} /\ (\A c \in Calls : call[c].pc \notin {"committed", "serving"}) =>
    /\ registry = Adapters(catalog) /\ default = catalog.default
    /\ \A p \in P : cache[p] \in {0, registry[p]}
=============================================================================
