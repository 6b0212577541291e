------------------------- MODULE MCEffectGraphLease -------------------------
(* Two instances; the first has two workers on the graph.                  *)
EXTENDS EffectGraphLease

CONSTANTS i1, i2, w1, w2, w3

MCInstances == {i1, i2}
MCWorkers == {w1, w2, w3}
MCInstanceOf == [w \in MCWorkers |-> IF w = w3 THEN i2 ELSE i1]
MCSymmetry == {[w \in MCWorkers |-> w],
               [w \in MCWorkers |-> IF w = w1 THEN w2 ELSE IF w = w2 THEN w1 ELSE w]}
=============================================================================
