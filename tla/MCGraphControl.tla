---------------------------- MODULE MCGraphControl ----------------------------
(* Two instances: none, one or both have restored the task. *)
EXTENDS GraphControl

CONSTANTS i1, i2

MCInstances == {i1, i2}
MCDeployments ==
  {[restored |-> {}, rounds |-> 1, asks |-> 0, crashes |-> 1, faults |-> 1],
   [restored |-> {i1}, rounds |-> 2, asks |-> 0, crashes |-> 0, faults |-> 1],
   [restored |-> {i1}, rounds |-> 1, asks |-> 1, crashes |-> 0, faults |-> 0],
   [restored |-> {i1, i2}, rounds |-> 1, asks |-> 0, crashes |-> 0, faults |-> 0]}
==============================================================================
