---------------------------- MODULE MCRunnerCalls ----------------------------
(***************************************************************************)
(* TLC instance of RunnerCalls: one call against every fault, two calls    *)
(* against one thread or against a full Runner.                            *)
(***************************************************************************)
EXTENDS RunnerCalls

CONSTANTS c1, c2

MCCalls == {c1, c2}

\* Threads, MAX_ACTIVE_CALLS, faults and mishaps of one deployment.
Of(calls, cancels, queries, limit, faults, mishaps) ==
    [calls |-> calls, cancels |-> cancels, queries |-> queries,
     threads |-> 1, limit |-> limit, faults |-> faults, mishaps |-> mishaps, clean |-> mishaps = 0]

MCDeployments ==
    { Of({c1}, {c1}, {c1}, 1, 3, 0),
      Of({c1}, {c1}, {c1}, 1, 1, 2),
      Of(MCCalls, {c2}, {}, 2, 0, 0),
      Of(MCCalls, {}, {}, 1, 0, 0) }
=============================================================================
