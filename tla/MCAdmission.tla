----------------------------- MODULE MCAdmission -----------------------------
(* Two instances; graph g1 has a node of each tool, g2 one of the first.     *)
(* Both instances share a configuration, or the second brings a narrower one  *)
(* and each graph has one node.                                              *)
EXTENDS Admission

CONSTANTS i1, i2, g1, g2, n1, n2, n3, a, b, wide, narrow

MCInstances == {i1, i2}
MCGraphs == {g1, g2}
MCNodes == {n1, n2, n3}
MCGraphOf == [n \in MCNodes |-> IF n = n3 THEN g2 ELSE g1]
MCTools == {a, b}
MCToolOf == [n \in MCNodes |-> IF n = n2 THEN b ELSE a]
MCShardOf == [g \in MCGraphs |-> IF g = g1 THEN 0 ELSE 1]
MCShards == <<0, 1>>
MCConfigs == {wide, narrow}
MCGlobalLimit == [c \in MCConfigs |-> IF c = wide THEN 2 ELSE 1]
MCPerGraphLimit == MCGlobalLimit
MCToolLimit == [c \in MCConfigs |-> [x \in MCTools |-> 1]]

Same(c) == [i \in MCInstances |-> c]
Mixed == [i \in MCInstances |-> IF i = i1 THEN wide ELSE narrow]
AllDrivers == [MCGraphs -> MCInstances]
\* Instances of the same configuration are interchangeable.
UpToRenaming == {d \in AllDrivers : d[g1] = i1}
MCDeployments ==
  {[dialect |-> d, conf |-> Same(wide), faults |-> 1, work |-> MCNodes,
    drivers |-> UpToRenaming] : d \in {"sqlite", "postgresql"}}
  \cup {[dialect |-> d, conf |-> Mixed, faults |-> 1, work |-> {n2, n3},
          drivers |-> AllDrivers] : d \in {"sqlite", "postgresql"}}
==============================================================================
