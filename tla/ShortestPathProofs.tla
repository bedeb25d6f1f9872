------------------------- MODULE ShortestPathProofs -------------------------
(***************************************************************************)
(* Proofs about the breadth-first search of ShortestPath, for every set of *)
(* nodes and every graph over it, finite or not.                           *)
(*                                                                         *)
(* The inductive invariant says what the search knows.  Tree: via leads    *)
(* one level up.  Layers: the queue holds the level being scanned and then *)
(* the next one.  Closed, Scanned: the edges of a node that is done lead   *)
(* to nodes found, at most one level down.  Certificate: once the target   *)
(* is found, the edges above its level do the same, so no shorter walk     *)
(* exists.  Rebuilt: the part of the path already rebuilt is a walk from   *)
(* cur to the target, as long as the levels between them.                  *)
(***************************************************************************)
EXTENDS ShortestPath, SequenceTheorems, WellFoundedInduction, TLAPS

Searching == pc \in {"dequeue", "scan"}
Queued == {queue[i] : i \in DOMAIN queue}
\* The edges of n lead to nodes found, at most one level below n.
Covered(n) ==
    \A m \in Nodes : <<n, m>> \in edges => m \in Found /\ depth[m] <= depth[n] + 1

Tree ==
    /\ depth[Start] = 0
    /\ \A n \in Found : n # Start => /\ <<via[n], n>> \in edges
                                     /\ depth[n] = depth[via[n]] + 1

Layers == Searching =>
    /\ Queued \subseteq Found
    /\ \A i, j \in DOMAIN queue : i < j => depth[queue[i]] <= depth[queue[j]]
    /\ \A i \in DOMAIN queue : depth[cur] <= depth[queue[i]]
    /\ \A n \in Found : depth[n] <= depth[cur] + 1

Closed ==
    /\ Searching => \A n \in Found \ Queued : (pc = "scan" => n # cur) => Covered(n)
    /\ pc = "done" /\ path = <<>> /\ target # Start => \A n \in Found : Covered(n)

Scanned == pc = "scan" =>
    \A m \in Nodes : <<cur, m>> \in edges /\ m \notin scan =>
                        m \in Found /\ depth[m] <= depth[cur] + 1

\* The edge being scanned is an edge of cur.
ScanEdges == pc = "scan" => \A m \in scan : <<cur, m>> \in edges

Certificate ==
    pc = "build" \/ (pc = "done" /\ path # <<>>) =>
        /\ target \in Found
        /\ \A n \in Found : depth[n] + 1 < depth[target] => Covered(n)

Rebuilt ==
    /\ Searching => path = <<>>
    /\ Searching \/ (pc = "done" /\ path = <<>> /\ target # Start) => target \notin Found
    /\ pc = "build" \/ path # <<>> => target # Start
    /\ pc = "build" => /\ IsWalk(edges, path, cur, target)
                       /\ Len(path) = depth[target] - depth[cur]
    /\ pc = "done" /\ path # <<>> => /\ IsWalk(edges, path, Start, target)
                                     /\ Len(path) = depth[target]

Inv == /\ TypeOK /\ Tree /\ Layers /\ Closed /\ Scanned /\ ScanEdges
       /\ Certificate /\ Rebuilt

-----------------------------------------------------------------------------

\* A walk is extended at its front by an edge that leads to its first node.
LEMMA WalkPrepend ==
    ASSUME edges \subseteq Nodes \X Nodes, NEW a \in Nodes, NEW b \in Nodes, NEW c \in Nodes,
           NEW p \in Seq(Nodes \X Nodes), IsWalk(edges, p, b, c), <<a, b>> \in edges
    PROVE  /\ << <<a, b>> >> \o p \in Seq(Nodes \X Nodes)
           /\ << <<a, b>> >> \o p # <<>>
           /\ Len(<< <<a, b>> >> \o p) = Len(p) + 1
           /\ IsWalk(edges, << <<a, b>> >> \o p, a, c)
<1> DEFINE q == << <<a, b>> >> \o p
<1>1. /\ q \in Seq(Nodes \X Nodes)
      /\ Len(q) = Len(p) + 1
      /\ q[1] = <<a, b>>
      /\ \A i \in 2 .. Len(q) : q[i] = p[i - 1]
      /\ DOMAIN q = 1 .. Len(p) + 1
      /\ DOMAIN p = 1 .. Len(p)
      /\ Len(p) \in Nat
  OBVIOUS
<1>2. q # <<>>
  BY <1>1
<1>3. \A i \in DOMAIN q : q[i] \in edges
  BY <1>1 DEF IsWalk
<1>4. \A i \in DOMAIN q : i > 1 => q[i - 1][2] = q[i][1]
  <2> SUFFICES ASSUME NEW i \in 2 .. Len(p) + 1
               PROVE  q[i - 1][2] = q[i][1]
    BY <1>1
  <2>1. CASE i = 2
    BY <2>1, <1>1 DEF IsWalk
  <2>2. CASE i > 2
    <3>1. i - 1 \in 2 .. Len(q) /\ i - 1 \in DOMAIN p /\ i - 2 \in DOMAIN p
      BY <2>2, <1>1
    <3>2. p[i - 1 - 1][2] = p[i - 1][1]
      BY <3>1, <2>2 DEF IsWalk
    <3> QED
      BY <3>1, <3>2, <1>1
  <2> QED
    BY <2>1, <2>2
<1>5. q[Len(q)][2] = c
  BY <1>1 DEF IsWalk
<1> HIDE DEF q
<1>6. IsWalk(edges, q, a, c)
  BY <1>1, <1>2, <1>3, <1>4, <1>5 DEF IsWalk
<1> QED
  BY <1>1, <1>2, <1>6 DEF q

\* The search starts in the invariant.
LEMMA InitInv == Init => Inv
<1> SUFFICES ASSUME Init PROVE Inv
  OBVIOUS
<1> USE NodesAssumption DEF Init
<1>1. TypeOK
  BY DEF TypeOK, Found
<1>2. Found = {Start} /\ Queued = {Start} /\ DOMAIN queue = {1} /\ queue[1] = Start
  BY DEF Found, Queued
<1>3. Tree /\ Layers /\ Scanned /\ ScanEdges
  BY <1>2 DEF Tree, Layers, Scanned, ScanEdges, Searching
<1>4. Closed /\ Certificate /\ Rebuilt
  BY <1>2 DEF Closed, Certificate, Rebuilt, Searching
<1> QED
  BY <1>1, <1>3, <1>4 DEF Inv

\* Taking a node off the queue: it was the shallowest, so what was one level
\* below the old cur is still at most one level below the new one.
LEMMA DequeueStep == Inv /\ Dequeue => Inv'
<1> SUFFICES ASSUME Inv, Dequeue PROVE Inv'
  OBVIOUS
<1> USE DEF Inv, Dequeue
<1>1. /\ queue \in Seq(Nodes) /\ queue # <<>>
      /\ DOMAIN queue = 1 .. Len(queue) /\ Len(queue) \in Nat \ {0}
      /\ queue' \in Seq(Nodes)
      /\ DOMAIN queue' = 1 .. Len(queue) - 1
      /\ \A i \in DOMAIN queue' : i + 1 \in DOMAIN queue /\ queue'[i] = queue[i + 1]
      /\ cur' = queue[1] /\ 1 \in DOMAIN queue
  BY DEF TypeOK
<1>2. cur' \in Found /\ Found' = Found
  BY <1>1 DEF Layers, Searching, Queued, Found
<1>3. TypeOK'
  BY <1>1, <1>2 DEF TypeOK, Successors, Found
<1>4. Queued' \subseteq Queued /\ Queued \subseteq Queued' \cup {cur'}
  <2>1. ASSUME NEW i \in DOMAIN queue PROVE queue[i] \in Queued' \cup {cur'}
    <3>1. CASE i = 1
      BY <3>1, <1>1
    <3>2. CASE i # 1
      <4>1. i - 1 \in DOMAIN queue' /\ queue'[i - 1] = queue[i]
        BY <3>2, <1>1
      <4> QED
        BY <4>1 DEF Queued
    <3> QED
      BY <3>1, <3>2
  <2> QED
    BY <1>1, <2>1 DEF Queued
<1>5. Tree' /\ Certificate' /\ Rebuilt'
  BY <1>2 DEF Tree, Certificate, Rebuilt, Searching, Found
<1>6. Layers'
  <2>1. \A i, j \in DOMAIN queue' : i < j => depth[queue'[i]] <= depth[queue'[j]]
    BY <1>1 DEF Layers, Searching
  <2>2. \A i \in DOMAIN queue' : depth[cur'] <= depth[queue'[i]]
    BY <1>1 DEF Layers, Searching
  <2>3. \A n \in Found : depth[n] <= depth[cur'] + 1
    <3>1. depth[cur] <= depth[cur']
      BY <1>1 DEF Layers, Searching
    <3>2. \A n \in Found : depth[n] <= depth[cur] + 1 /\ depth[n] \in Nat
      BY DEF Layers, Searching, TypeOK
    <3>3. depth[cur] \in Nat /\ depth[cur'] \in Nat
      BY <1>2 DEF TypeOK
    <3> QED
      BY <3>1, <3>2, <3>3
  <2> QED
    BY <2>1, <2>2, <2>3, <1>2, <1>4 DEF Layers, Searching
<1>7. Closed'
  BY <1>2, <1>4 DEF Closed, Searching, Covered, Found
<1>8. Scanned' /\ ScanEdges'
  BY DEF Scanned, ScanEdges, Successors
<1> QED
  BY <1>3, <1>5, <1>6, <1>7, <1>8

\* Giving up: nothing is queued or being scanned, so every node is covered.
LEMMA GiveUpStep == Inv /\ GiveUp => Inv'
<1> SUFFICES ASSUME Inv, GiveUp PROVE Inv'
  OBVIOUS
<1> USE DEF Inv, GiveUp
<1>1. Queued = {} /\ Found' = Found
  BY DEF Queued, Found
<1>2. TypeOK'
  BY DEF TypeOK, Found
<1>3. Tree' /\ Layers' /\ Scanned' /\ ScanEdges' /\ Certificate' /\ Rebuilt'
  BY <1>1 DEF Tree, Layers, Scanned, ScanEdges, Certificate, Rebuilt, Searching, Found
<1>4. Closed'
  BY <1>1 DEF Closed, Rebuilt, Searching, Covered, Found
<1> QED
  BY <1>2, <1>3, <1>4

\* Skipping an edge to a node found: it is at most one level down already.
LEMMA SkipEdgeStep == Inv /\ SkipEdge => Inv'
<1> SUFFICES ASSUME Inv, pc = "scan", NEW m \in scan, m \in Found, scan' = scan \ {m},
                    UNCHANGED <<edges, target, via, queue, cur, pc, path, depth>>
             PROVE  Inv'
  BY DEF SkipEdge
<1> USE DEF Inv
<1>1. Found' = Found /\ Queued' = Queued
  BY DEF Found, Queued
<1>2. TypeOK'
  BY DEF TypeOK, Found
<1>3. Tree' /\ Layers' /\ ScanEdges' /\ Certificate' /\ Rebuilt'
  BY <1>1 DEF Tree, Layers, ScanEdges, Certificate, Rebuilt, Searching
<1>4. Closed'
  BY <1>1 DEF Closed, Searching, Covered
<1>5. Scanned'
  BY <1>1 DEF Scanned, Layers, Searching
<1> QED
  BY <1>2, <1>3, <1>4, <1>5

\* The last edge of cur has been seen: cur is covered.
LEMMA EndScanStep == Inv /\ EndScan => Inv'
<1> SUFFICES ASSUME Inv, EndScan PROVE Inv'
  OBVIOUS
<1> USE DEF Inv, EndScan
<1>1. Found' = Found /\ Queued' = Queued
  BY DEF Found, Queued
<1>2. TypeOK'
  BY DEF TypeOK, Found
<1>3. Tree' /\ Layers' /\ Scanned' /\ ScanEdges' /\ Certificate' /\ Rebuilt'
  BY <1>1 DEF Tree, Layers, Scanned, ScanEdges, Certificate, Rebuilt, Searching
<1>4. Covered(cur)
  BY DEF Scanned, Covered
<1>5. Closed'
  BY <1>1, <1>4 DEF Closed, Searching, Covered
<1> QED
  BY <1>2, <1>3, <1>5

\* Rebuilding: the via edge is an edge, and its source is one level up.
LEMMA PrependStep == Inv /\ Prepend => Inv'
<1> SUFFICES ASSUME Inv, Prepend PROVE Inv'
  OBVIOUS
<1> USE DEF Inv, Prepend
<1>1. Found' = Found /\ Queued' = Queued /\ ~Searching /\ ~Searching'
  BY DEF Found, Queued, Searching
<1>2. edges \subseteq Nodes \X Nodes /\ cur \in Nodes /\ via[cur] \in Nodes /\ via[cur] \in Found
      /\ target \in Nodes /\ path \in Seq(Nodes \X Nodes)
  BY GraphsAssumption DEF TypeOK
<1>3. <<via[cur], cur>> \in edges /\ depth[cur] = depth[via[cur]] + 1
  BY DEF Tree, TypeOK
<1>4. /\ path' \in Seq(Nodes \X Nodes) /\ path' # <<>> /\ Len(path') = Len(path) + 1
      /\ IsWalk(edges, path', via[cur], target)
  BY <1>2, <1>3, WalkPrepend DEF Rebuilt
<1>5. TypeOK'
  BY <1>2, <1>4 DEF TypeOK, Found
<1>6. Tree' /\ Layers' /\ Closed' /\ Scanned' /\ ScanEdges'
  BY <1>1 DEF Tree, Layers, Closed, Scanned, ScanEdges
<1>7. Certificate'
  BY <1>1 DEF Certificate, Covered
<1>8. Rebuilt'
  <2>1. depth[cur] \in Nat /\ depth[via[cur]] \in Nat /\ depth[target] \in Nat /\ Len(path) \in Nat
    BY <1>2 DEF TypeOK, Certificate
  <2>2. Len(path') = depth[target] - depth[via[cur]]
    BY <2>1, <1>3, <1>4 DEF Rebuilt
  <2>3. IsWalk(edges', path', cur', target')
    BY <1>4
  <2> QED
    BY <1>1, <1>4, <2>2, <2>3 DEF Rebuilt
<1> QED
  BY <1>5, <1>6, <1>7, <1>8

\* Returning: the walk rebuilt leads from Start, which has depth 0.
LEMMA ReturnStep == Inv /\ Return => Inv'
<1> SUFFICES ASSUME Inv, Return PROVE Inv'
  OBVIOUS
<1> USE DEF Inv, Return
<1>1. Found' = Found /\ Queued' = Queued /\ ~Searching /\ ~Searching'
  BY DEF Found, Queued, Searching
<1>2. path # <<>>
  BY DEF Rebuilt, IsWalk
<1>3. TypeOK'
  BY DEF TypeOK, Found
<1>4. Tree' /\ Layers' /\ Closed' /\ Scanned' /\ ScanEdges' /\ Certificate'
  BY <1>1, <1>2 DEF Tree, Layers, Closed, Scanned, ScanEdges, Certificate, Covered
<1>5. Rebuilt'
  <2>1. depth[target] \in Nat /\ depth[Start] = 0
    BY DEF TypeOK, Certificate, Tree
  <2> QED
    BY <1>1, <1>2, <2>1 DEF Rebuilt, IsWalk
<1> QED
  BY <1>3, <1>4, <1>5

\* Finding a node: it is one level below cur, like the last nodes queued, and
\* every node above the level of cur is covered by then.
LEMMA VisitEdgeStep == Inv /\ VisitEdge => Inv'
<1> SUFFICES ASSUME Inv, pc = "scan", NEW m \in scan, IsSmallest(m, scan), m \notin Found,
                    via' = [n \in Found \cup {m} |-> IF n = m THEN cur ELSE via[n]],
                    depth' = [n \in Found \cup {m} |-> IF n = m THEN depth[cur] + 1 ELSE depth[n]],
                    IF m = target
                    THEN cur' = target /\ pc' = "build" /\ UNCHANGED <<queue, scan>>
                    ELSE /\ queue' = Append(queue, m) /\ scan' = scan \ {m}
                         /\ UNCHANGED <<cur, pc>>,
                    UNCHANGED <<edges, target, path>>
             PROVE  Inv'
  BY DEF VisitEdge
<1> USE DEF Inv
<1>1. /\ Found' = Found \cup {m} /\ m \in Nodes /\ cur \in Found /\ Start \in Found
      /\ Found \subseteq Nodes /\ via \in [Found -> Found] /\ depth \in [Found -> Nat]
      /\ queue \in Seq(Nodes)
  BY DEF TypeOK, Found
<1>2. /\ \A n \in Found : n # m /\ via'[n] = via[n] /\ depth'[n] = depth[n]
      /\ via'[m] = cur /\ depth'[m] = depth[cur] + 1
      /\ <<cur, m>> \in edges
  BY <1>1 DEF ScanEdges
<1>3. TypeOK'
  <2>1. via' \in [Found' -> Found'] /\ depth' \in [Found' -> Nat]
    BY <1>1
  <2>2. CASE m = target
    <3>1. cur' = m /\ pc' = "build" /\ queue' = queue /\ scan' = scan
      BY <2>2
    <3> QED
      BY <2>1, <3>1, <1>1 DEF TypeOK
  <2>3. CASE m # target
    <3>0. queue' = Append(queue, m)
      BY <2>3
    <3>1. queue' \in Seq(Nodes)
      BY <3>0, <1>1
    <3> QED
      BY <2>1, <2>3, <3>1, <1>1 DEF TypeOK
  <2> QED
    BY <2>2, <2>3
<1>4. Tree'
  BY <1>1, <1>2 DEF Tree
<1>5. ASSUME NEW n \in Found, Covered(n) PROVE Covered(n)'
  BY <1>1, <1>2, <1>5 DEF Covered
<1>6. CASE m = target
  <2>1. pc' = "build" /\ cur' = target /\ ~Searching' /\ path' = <<>> /\ Found' = Found \cup {target}
    BY <1>6, <1>1 DEF Rebuilt, Searching
  <2>2. Layers' /\ Closed' /\ Scanned' /\ ScanEdges'
    BY <2>1 DEF Layers, Closed, Scanned, ScanEdges
  <2>3. Certificate'
    <3> SUFFICES ASSUME NEW n \in Found', depth'[n] + 1 < depth'[target]
                 PROVE  Covered(n)'
      BY <2>1, <1>1 DEF Certificate
    <3>1. n \in Found /\ depth[n] < depth[cur] /\ n # cur
      BY <1>1, <1>2, <1>6
    <3>2. n \notin Queued
      BY <3>1, <1>1 DEF Layers, Searching, Queued
    <3> QED
      BY <1>5, <3>1, <3>2 DEF Closed, Searching
  <2>4. Rebuilt'
    BY <2>1, <1>1, <1>2 DEF Rebuilt, Searching, IsWalk
  <2> QED
    BY <1>3, <1>4, <2>2, <2>3, <2>4
<1>7. CASE m # target
  <2>0. pc' = "scan" /\ cur' = cur /\ Searching' /\ scan' = scan \ {m} /\ queue' = Append(queue, m)
    BY <1>7 DEF Searching
  <2>1. /\ DOMAIN queue = 1 .. Len(queue) /\ Len(queue) \in Nat
        /\ DOMAIN queue' = 1 .. Len(queue) + 1
        /\ \A i \in DOMAIN queue : queue'[i] = queue[i]
        /\ queue'[Len(queue) + 1] = m
    BY <2>0, <1>1, AppendProperties, LenProperties
  <2>2. Queued' = Queued \cup {m}
    BY <2>0, <2>1 DEF Queued
  <2>3. Layers'
    <3>1. /\ \A i \in DOMAIN queue : queue[i] \in Found
          /\ \A i, j \in DOMAIN queue : i < j => depth[queue[i]] <= depth[queue[j]]
          /\ \A i \in DOMAIN queue : depth[cur] <= depth[queue[i]]
          /\ \A n \in Found : depth[n] <= depth[cur] + 1
      BY DEF Layers, Searching, Queued
    <3>2. \A i, j \in DOMAIN queue' : i < j => depth'[queue'[i]] <= depth'[queue'[j]]
      <4> SUFFICES ASSUME NEW i \in DOMAIN queue', NEW j \in DOMAIN queue', i < j
                   PROVE  depth'[queue'[i]] <= depth'[queue'[j]]
        OBVIOUS
      <4>1. i \in DOMAIN queue /\ queue'[i] = queue[i] /\ depth'[queue'[i]] = depth[queue[i]]
        BY <2>0, <2>1, <3>1, <1>2
      <4>2. CASE j \in DOMAIN queue
        BY <4>1, <4>2, <2>0, <2>1, <3>1, <1>2
      <4>3. CASE j \notin DOMAIN queue
        BY <4>1, <4>3, <2>1, <3>1, <1>2
      <4> QED
        BY <4>2, <4>3
    <3>3. \A i \in DOMAIN queue' : depth'[cur'] <= depth'[queue'[i]]
      <4> SUFFICES ASSUME NEW i \in DOMAIN queue' PROVE depth'[cur'] <= depth'[queue'[i]]
        OBVIOUS
      <4>1. CASE i \in DOMAIN queue
        BY <4>1, <2>0, <2>1, <3>1, <1>2, <1>1
      <4>2. CASE i \notin DOMAIN queue
        BY <4>2, <2>0, <2>1, <1>2, <1>1
      <4> QED
        BY <4>1, <4>2
    <3>4. \A n \in Found' : depth'[n] <= depth'[cur'] + 1
      BY <3>1, <2>0, <2>1, <1>1, <1>2
    <3>5. Queued' \subseteq Found'
      BY <3>1, <2>2, <1>1 DEF Queued
    <3> QED
      BY <3>2, <3>3, <3>4, <3>5 DEF Layers
  <2>4. Closed'
    BY <2>0, <2>1, <2>2, <1>1, <1>5 DEF Closed, Searching
  <2>5. Scanned'
    BY <2>0, <2>1, <1>1, <1>2 DEF Scanned
  <2>6. ScanEdges' /\ Certificate'
    BY <2>0, <2>1 DEF ScanEdges, Certificate
  <2>7. Rebuilt'
    BY <2>0, <2>1, <1>7, <1>1 DEF Rebuilt, Searching
  <2> QED
    BY <1>3, <1>4, <2>3, <2>4, <2>5, <2>6, <2>7
<1> QED
  BY <1>6, <1>7

\* The search never leaves the invariant, on any graph.
THEOREM Invariance == Spec => []Inv
<1>1. ASSUME Inv, UNCHANGED vars PROVE Inv'
  <2>1. Found' = Found /\ Queued' = Queued /\ Searching' = Searching
        /\ \A n \in Found : Covered(n)' <=> Covered(n)
    BY <1>1 DEF vars, Found, Queued, Searching, Covered
  <2>2. TypeOK'
    BY <1>1 DEF Inv, vars, TypeOK, Found
  <2>3. Tree' /\ Layers' /\ Scanned' /\ ScanEdges' /\ Rebuilt'
    BY <1>1, <2>1 DEF Inv, vars, Tree, Layers, Scanned, ScanEdges, Rebuilt
  <2>4. Closed' /\ Certificate'
    BY <1>1, <2>1 DEF Inv, vars, Closed, Certificate
  <2> QED
    BY <2>2, <2>3, <2>4 DEF Inv
<1>2. Inv /\ [Next]_vars => Inv'
  BY <1>1, DequeueStep, GiveUpStep, SkipEdgeStep, VisitEdgeStep, EndScanStep, PrependStep,
     ReturnStep DEF Next
<1> QED
  BY InitInv, <1>2, PTL DEF Spec

-----------------------------------------------------------------------------

\* The values the search's variables range over: no visited entry is read that
\* was not written, and cur is always a node found.
THEOREM TypeCorrect == Spec => []TypeOK
<1>1. Inv => TypeOK
  BY DEF Inv
<1> QED
  BY Invariance, <1>1, PTL

\* The counterexample path is a walk of the graph, whatever the graph.
THEOREM PathReal == Spec => []PathIsReal
<1>1. Inv => PathIsReal
  BY DEF Inv, Rebuilt, PathIsReal
<1> QED
  BY Invariance, <1>1, PTL

\* Every non-empty set of naturals has a least element.
LEMMA LeastNatural ==
    ASSUME NEW T, T \subseteq Nat, T # {}
    PROVE  \E x \in T : \A y \in T : x <= y
<1>1. IsWellFoundedOn({p \in Nat \X Nat : p[1] < p[2]}, Nat)
  BY NatLessThanWellFounded DEF OpToRel
<1>2. PICK x \in T : \A y \in T : <<y, x>> \notin {p \in Nat \X Nat : p[1] < p[2]}
  BY <1>1, WFMin
<1>3. ASSUME NEW y \in T PROVE x <= y
  <2>1. x \in Nat /\ y \in Nat
    OBVIOUS
  <2>2. ~(y < x)
    BY <1>2, <2>1
  <2> QED
    BY <2>1, <2>2
<1> QED
  BY <1>3

\* The i-th node of a walk from Start has been found at depth i - 1 or less,
\* as long as i - 1 is less than the depth of the target.
LEMMA WalkDepth ==
    ASSUME Inv, Certificate, target \in Found,
           \A n \in Found : depth[n] + 1 < depth[target] => Covered(n),
           NEW n \in Nat, n < depth[target],
           NEW p \in [1 .. n -> edges], \A i \in 1 .. n : i > 1 => p[i - 1][2] = p[i][1],
           n > 0 => p[1][1] = Start
    PROVE  \A i \in 1 .. n : p[i][1] \in Found /\ depth[p[i][1]] <= i - 1
<1> DEFINE Bad == {i \in 1 .. n : ~(p[i][1] \in Found /\ depth[p[i][1]] <= i - 1)}
<1>1. SUFFICES ASSUME Bad # {} PROVE FALSE
  OBVIOUS
<1>2. PICK i \in Bad : \A j \in Bad : i <= j
  <2>1. Bad \subseteq Nat
    OBVIOUS
  <2> HIDE DEF Bad
  <2> QED
    BY <2>1, <1>1, LeastNatural
<1>3. Start \in Found /\ depth[Start] = 0 /\ depth \in [Found -> Nat] /\ edges \subseteq Nodes \X Nodes
  BY GraphsAssumption DEF Inv, TypeOK, Tree
<1>4. i \in 1 .. n /\ i # 1
  BY <1>2, <1>3
<1>5. i - 1 \in 1 .. n /\ i - 1 \notin Bad
  BY <1>2, <1>4
<1>6. p[i - 1][1] \in Found /\ depth[p[i - 1][1]] <= i - 2
  BY <1>5
<1>7. Covered(p[i - 1][1])
  BY <1>6, <1>4, <1>3
<1>8. /\ p[i - 1] \in edges /\ p[i - 1][2] = p[i][1] /\ p[i - 1][2] \in Nodes
      /\ p[i - 1] = <<p[i - 1][1], p[i - 1][2]>>
  BY <1>4, <1>5, <1>3
<1>9. p[i][1] \in Found /\ depth[p[i][1]] <= depth[p[i - 1][1]] + 1
  BY <1>7, <1>8 DEF Covered
<1> QED
  BY <1>2, <1>4, <1>6, <1>9, <1>3

\* No walk to the target is shorter than the path returned: the counterexample
\* shown is a shortest one, on every graph.
THEOREM PathShortest == Spec => []PathIsShortest
<1>1. ASSUME Inv PROVE PathIsShortest
  <2> SUFFICES ASSUME pc = "done", path # <<>>, NEW n \in 0 .. Len(path) - 1,
                      NEW p \in [1 .. n -> edges], IsWalk(edges, p, Start, target)
               PROVE  FALSE
    BY DEF PathIsShortest
  <2>1. /\ target \in Found /\ target # Start /\ Len(path) = depth[target]
        /\ depth[target] \in Nat /\ depth \in [Found -> Nat]
        /\ \A m \in Found : depth[m] + 1 < depth[target] => Covered(m)
        /\ edges \subseteq Nodes \X Nodes
    BY <1>1, GraphsAssumption DEF Inv, Certificate, Rebuilt, TypeOK
  <2>2. n \in Nat /\ n < depth[target] /\ DOMAIN p = 1 .. n
    BY <2>1
  <2>3. p \in Seq(edges) /\ Len(p) = n
    BY <2>2
  <2>4. n > 0 /\ p[1][1] = Start /\ p[n][2] = target
    BY <2>1, <2>2, <2>3 DEF IsWalk
  <2>5. p[n][1] \in Found /\ depth[p[n][1]] <= n - 1
    <3>1. \A i \in 1 .. n : i > 1 => p[i - 1][2] = p[i][1]
      BY <2>2 DEF IsWalk
    <3>2. Certificate
      BY <1>1 DEF Inv
    <3>3. \A i \in 1 .. n : p[i][1] \in Found /\ depth[p[i][1]] <= i - 1
      BY <1>1, <2>1, <2>2, <2>4, <3>1, <3>2, WalkDepth
    <3> QED
      BY <2>4, <2>2, <3>3
  <2>6. Covered(p[n][1])
    BY <2>1, <2>2, <2>5, <1>1
  <2>7. p[n] \in edges /\ p[n] = <<p[n][1], target>> /\ target \in Nodes
    BY <2>1, <2>2, <2>4
  <2>8. depth[target] <= depth[p[n][1]] + 1
    BY <2>6, <2>7 DEF Covered
  <2> QED
    BY <2>8, <2>5, <2>2, <2>1
<1> QED
  BY Invariance, <1>1, PTL

\* nil means that the target cannot be reached: the nodes found are closed
\* under the edges of the graph and do not include it.
THEOREM NilUnreachable == Spec => []NilMeansUnreachable
<1>1. ASSUME Inv PROVE NilMeansUnreachable
  <2> SUFFICES ASSUME pc = "done", path = <<>>, target # Start
               PROVE  /\ Found \in SUBSET Nodes /\ Start \in Found /\ target \notin Found
                      /\ \A e \in edges : e[1] \in Found => e[2] \in Found
    BY DEF NilMeansUnreachable
  <2>1. Found \in SUBSET Nodes /\ Start \in Found /\ target \notin Found
        /\ \A n \in Found : Covered(n)
    BY <1>1 DEF Inv, TypeOK, Rebuilt, Closed
  <2>2. ASSUME NEW e \in edges, e[1] \in Found PROVE e[2] \in Found
    <3>1. e[2] \in Nodes /\ e = <<e[1], e[2]>>
      BY <1>1, GraphsAssumption DEF Inv, TypeOK
    <3> QED
      BY <2>1, <2>2, <3>1 DEF Covered
  <2> QED
    BY <2>1, <2>2
<1> QED
  BY Invariance, <1>1, PTL
=============================================================================
