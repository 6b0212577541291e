-------------------------- MODULE MCSagaExecution --------------------------
(***************************************************************************)
(* Instances of SagaExecution for TLC: every node has a forward and a      *)
(* compensating call.                                                      *)
(***************************************************************************)
EXTENDS SagaExecution

MCCalls == Modes \X Nodes

\* Three nodes, without pause, cancel and lost leases: the order of the
\* compensations across crashes, approvals and verdicts.
OrderSpec == SagaInit /\ [][Worker \/ Decisions \/ ProcessStartup]_sagaVars

=============================================================================
