---------------------------- MODULE MCToolLedger ----------------------------
(* Two calls of one task, one of them bound to its effect graph.           *)
EXTENDS ToolLedger

CONSTANTS c1, c2

MCCalls == {c1, c2}
MCEffectCalls == {c1}
=============================================================================
