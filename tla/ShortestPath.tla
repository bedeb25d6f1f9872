---------------------------- MODULE ShortestPath ----------------------------
(***************************************************************************)
(* Graph.ShortestPath and reconstructPath of internal/graph/graph.go: the  *)
(* breadth-first search every counterexample comes from, one iteration of  *)
(* each loop a step.                                                       *)
(*                                                                         *)
(* The adjacency list of a node is sorted by the neighbour's ID            *)
(* (sortEdges), so the range loop over it takes the smallest neighbour     *)
(* that remains.  depth is a history variable: how many edges lie between  *)
(* Start and a node along the recorded via edges.                          *)
(***************************************************************************)
EXTENDS Integers, Sequences

CONSTANTS
    Nodes,    \* the node IDs
    Start,    \* g.Start
    Graphs    \* the edge sets to search, sets of pairs of nodes

ASSUME NodesAssumption == Nodes \subseteq Nat /\ Start \in Nodes
ASSUME GraphsAssumption == \A E \in Graphs : E \subseteq Nodes \X Nodes

VARIABLES
    edges,    \* the graph's edges
    target,   \* the node searched for
    via,      \* visited[n].via.From, for the nodes found
    queue,    \* the queue of the search
    cur,      \* the node whose edges are scanned; later reconstructPath's cur
    scan,     \* the neighbours of cur the range loop still has to see
    pc,       \* "dequeue", "scan", "build" or "done"
    path,     \* the edges of the path returned; empty for nil
    depth     \* history: the depth at which a node was found

vars == <<edges, target, via, queue, cur, scan, pc, path, depth>>

Found == DOMAIN via
Successors(n) == {m \in Nodes : <<n, m>> \in edges}
IsSmallest(m, S) == m \in S /\ \A k \in S : m <= k

\* visited[Start].found with no via edge: Start stands for itself.
Init ==
    /\ edges \in Graphs
    /\ target \in Nodes
    /\ via = [n \in {Start} |-> Start]
    /\ depth = [n \in {Start} |-> 0]
    /\ queue = <<Start>>
    /\ cur = Start
    /\ scan = {}
    /\ path = <<>>
    /\ pc = IF target = Start THEN "done" ELSE "dequeue"

\* cur := queue[0]; queue = queue[1:].
Dequeue ==
    /\ pc = "dequeue"
    /\ queue # <<>>
    /\ cur' = Head(queue)
    /\ queue' = Tail(queue)
    /\ scan' = Successors(Head(queue))
    /\ pc' = "scan"
    /\ UNCHANGED <<edges, target, via, path, depth>>

\* The queue has run empty: return nil.
GiveUp ==
    /\ pc = "dequeue"
    /\ queue = <<>>
    /\ pc' = "done"
    /\ UNCHANGED <<edges, target, via, queue, cur, scan, path, depth>>

\* Mutant: the range loop does not get past a node already found.
SkipEdgeForever ==
    /\ pc = "scan"
    /\ \E m \in scan : IsSmallest(m, scan) /\ m \in Found
    /\ UNCHANGED vars

\* The next edge leads to a node already found.
SkipEdge ==
    /\ pc = "scan"
    /\ \E m \in scan : /\ IsSmallest(m, scan)
                       /\ m \in Found
                       /\ scan' = scan \ {m}
    /\ UNCHANGED <<edges, target, via, queue, cur, pc, path, depth>>

\* Mutants: the target is returned before it is marked found; and a stack in
\* place of the queue.
VisitEdgeUnmarked ==
    /\ pc = "scan"
    /\ \E m \in scan :
          /\ IsSmallest(m, scan)
          /\ m \notin Found
          /\ IF m = target
             THEN /\ cur' = target
                  /\ pc' = "build"
                  /\ UNCHANGED <<via, depth, queue, scan>>
             ELSE /\ via' = [n \in Found \cup {m} |-> IF n = m THEN cur ELSE via[n]]
                  /\ depth' = [n \in Found \cup {m} |->
                                 IF n = m THEN depth[cur] + 1 ELSE depth[n]]
                  /\ queue' = Append(queue, m)
                  /\ scan' = scan \ {m}
                  /\ UNCHANGED <<cur, pc>>
    /\ UNCHANGED <<edges, target, path>>
VisitEdgeDepthFirst ==
    /\ pc = "scan"
    /\ \E m \in scan :
          /\ IsSmallest(m, scan)
          /\ m \notin Found
          /\ via' = [n \in Found \cup {m} |-> IF n = m THEN cur ELSE via[n]]
          /\ depth' = [n \in Found \cup {m} |-> IF n = m THEN depth[cur] + 1 ELSE depth[n]]
          /\ IF m = target
             THEN /\ cur' = target
                  /\ pc' = "build"
                  /\ UNCHANGED <<queue, scan>>
             ELSE /\ queue' = <<m>> \o queue
                  /\ scan' = scan \ {m}
                  /\ UNCHANGED <<cur, pc>>
    /\ UNCHANGED <<edges, target, path>>

\* The next edge finds a node: the path is built at once if it is the target,
\* otherwise the node joins the queue.
VisitEdge ==
    /\ pc = "scan"
    /\ \E m \in scan :
          /\ IsSmallest(m, scan)
          /\ m \notin Found
          /\ via' = [n \in Found \cup {m} |-> IF n = m THEN cur ELSE via[n]]
          /\ depth' = [n \in Found \cup {m} |-> IF n = m THEN depth[cur] + 1 ELSE depth[n]]
          /\ IF m = target
             THEN /\ cur' = target
                  /\ pc' = "build"
                  /\ UNCHANGED <<queue, scan>>
             ELSE /\ queue' = Append(queue, m)
                  /\ scan' = scan \ {m}
                  /\ UNCHANGED <<cur, pc>>
    /\ UNCHANGED <<edges, target, path>>

\* Mutant: nil is returned as soon as one node's edges are exhausted.
EndScanGivingUp ==
    /\ pc = "scan"
    /\ scan = {}
    /\ pc' = "done"
    /\ UNCHANGED <<edges, target, via, queue, cur, scan, path, depth>>

\* Every edge of cur has been seen.
EndScan ==
    /\ pc = "scan"
    /\ scan = {}
    /\ pc' = "dequeue"
    /\ UNCHANGED <<edges, target, via, queue, cur, scan, path, depth>>

\* Mutant: the path comes out backwards.
PrependAtEnd ==
    /\ pc = "build"
    /\ cur # Start
    /\ path' = path \o << <<via[cur], cur>> >>
    /\ cur' = via[cur]
    /\ UNCHANGED <<edges, target, via, queue, scan, pc, depth>>

\* reconstructPath prepends the via edge of cur and moves to its source.
Prepend ==
    /\ pc = "build"
    /\ cur # Start
    /\ path' = << <<via[cur], cur>> >> \o path
    /\ cur' = via[cur]
    /\ UNCHANGED <<edges, target, via, queue, scan, pc, depth>>

Return ==
    /\ pc = "build"
    /\ cur = Start
    /\ pc' = "done"
    /\ UNCHANGED <<edges, target, via, queue, cur, scan, path, depth>>

Next == \/ Dequeue \/ GiveUp \/ SkipEdge \/ VisitEdge \/ EndScan
        \/ Prepend \/ Return

\* The search is sequential code: it takes its next step.
Spec == Init /\ [][Next]_vars /\ WF_vars(Next)

-----------------------------------------------------------------------------

TypeOK ==
    /\ edges \in Graphs
    /\ target \in Nodes
    /\ Start \in Found /\ Found \subseteq Nodes
    /\ via \in [Found -> Found]
    /\ depth \in [Found -> Nat]
    /\ queue \in Seq(Nodes)
    /\ cur \in Found
    /\ scan \subseteq Nodes
    /\ pc \in {"dequeue", "scan", "build", "done"}
    /\ path \in Seq(Nodes \X Nodes)

\* A walk of the graph given as the sequence of its edges.
IsWalk(E, p, from, to) ==
    /\ \A i \in DOMAIN p : p[i] \in E
    /\ \A i \in DOMAIN p : i > 1 => p[i - 1][2] = p[i][1]
    /\ IF p = <<>> THEN from = to ELSE p[1][1] = from /\ p[Len(p)][2] = to

\* A path returned is a walk of the graph from its start to the target: the
\* counterexample is something the rollout can do, event by event.
PathIsReal == pc = "done" /\ path # <<>> => IsWalk(edges, path, Start, target)

\* No walk of the graph reaches the target in fewer edges than the path
\* returned (architecture 4.4: the shortest violating state is reported).
PathIsShortest ==
    pc = "done" /\ path # <<>> =>
        \A n \in 0 .. Len(path) - 1 :
            \A p \in [1 .. n -> edges] : ~IsWalk(edges, p, Start, target)

\* nil is returned only for the start itself or for a node no set of nodes
\* closed under the edges of the graph lets Start reach.
NilMeansUnreachable ==
    pc = "done" /\ path = <<>> /\ target # Start =>
        \E C \in SUBSET Nodes : /\ Start \in C /\ target \notin C
                                /\ \A e \in edges : e[1] \in C => e[2] \in C

\* The search comes to an end on every graph, cyclic ones included.
Terminates == <>(pc = "done")
=============================================================================
