--------------------------- MODULE MCShortestPath ---------------------------
(* Every directed graph without self-loops on four nodes, cyclic ones        *)
(* included, and every graph on five nodes whose edges lead to higher IDs,   *)
(* as those of a transition graph do.                                        *)
EXTENDS ShortestPath

MCNodes == 0 .. 4
Joining(n) == {e \in (0 .. n) \X (0 .. n) : e[1] # e[2]}
MCGraphs == SUBSET Joining(3) \cup SUBSET {e \in Joining(4) : e[1] < e[2]}
=============================================================================
