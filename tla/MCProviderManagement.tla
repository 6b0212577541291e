------------------------ MODULE MCProviderManagement ------------------------
(***************************************************************************)
(* Two providers, three requests of two tasks, seven management calls, of  *)
(* which two send the same command.                                        *)
(***************************************************************************)
EXTENDS ProviderManagement

MCRequests == {"r1", "r2", "r3"}
MCTaskOf == [r \in MCRequests |-> IF r = "r3" THEN "t2" ELSE "t1"]
MCProviders == <<"a", "b">>
MCRoute == [r \in MCRequests |-> IF r = "r1" THEN <<"b">> ELSE <<>>]
MCStrategy == [r \in MCRequests |-> IF r = "r2" THEN "latency_aware" ELSE "priority"]
MCPrice == [p \in {"a", "b"} |-> IF p = "a" THEN 2 ELSE 1]

\* The commands; c2 sends the first one again.
Cmd(a, p, c, e) == [action |-> a, provider |-> p, config |-> c, enabled |-> e]
MCMutations == "k1" :> Cmd("disable", "b", 0, FALSE) @@ "k2" :> Cmd("update", "b", 2, TRUE)
               @@ "k3" :> Cmd("delete", "b", 0, FALSE) @@ "k4" :> Cmd("create", "b", 2, TRUE)
               @@ "k5" :> Cmd("enable", "b", 0, TRUE) @@ "k6" :> Cmd("make_default", "b", 0, TRUE)
MCKey == "c1" :> "k1" @@ "c2" :> "k1" @@ "c3" :> "k2" @@ "c4" :> "k3" @@ "c5" :> "k4"
         @@ "c6" :> "k5" @@ "c7" :> "k6"
MCCalls == DOMAIN MCKey

\* Requests alone; commands of two processes; a command against requests and
\* health probes; the default provider.
Dep(c, h, r, p, n) == [calls |-> c, hosts |-> h, requests |-> r, probes |-> p, crashes |-> n]
MCDeployments ==
  {Dep({}, {"h1"}, MCRequests, FALSE, 0),
   Dep({"c1", "c2", "c3"}, {"h1", "h2"}, {}, FALSE, 0),
   Dep({"c4", "c5"}, {"h1"}, {"r1"}, TRUE, 1),
   Dep({"c1", "c6", "c7"}, {"h1"}, {}, FALSE, 1)}
=============================================================================
