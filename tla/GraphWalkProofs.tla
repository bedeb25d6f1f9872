--------------------------- MODULE GraphWalkProofs ---------------------------
(***************************************************************************)
(* For every set of plans: the transition graph is the rollout.  A walk    *)
(* over it never leaves the graph's nodes (TypeCorrect), every walk is a   *)
(* run of the abstract deployment (SafeRefinement), and at every node the  *)
(* outgoing edges are exactly the events the deployment may go through     *)
(* there (NothingMissed).  A node's schema state is the database's when    *)
(* the during-migrations are independent (NodesTellTruth), and its ID is   *)
(* its place in the slice of nodes (NodesAreNumbered).                     *)
(*                                                                         *)
(* The inductive invariant adds to TypeOK that a node's two sets of        *)
(* committed migrations are those of the walk that led to it (Agrees).     *)
(***************************************************************************)
EXTENDS GraphWalk, EvaluationProofs, TLAPS

Workload == INSTANCE FoldFacts WITH
            Op <- LAMBDA c, d, combos, w :
                    [k \in 1 .. 3 * Len(combos) |->
                        [combos[((k - 1) \div 3) + 1] EXCEPT ![w] = (k - 1) % 3]]
Rows == INSTANCE FoldFacts WITH Op <- LAMBDA p, none, nodes, combo : nodes \o Row(p, combo)
Behind == INSTANCE FoldFacts WITH
            Op <- LAMBDA p, none, nodes, i :
                    IF i \in After(p)
                    THEN Append(nodes, [RolloutComplete(p) EXCEPT !.after = UpTo(p, i)])
                    ELSE nodes

\* The node knows which migrations the walk committed.
Agrees == ToSet(trail) = node.during \cup node.after

Inv == TypeOK /\ Agrees

-----------------------------------------------------------------------------
(* Where the three kinds of edges lead.                                    *)

\* A version-lattice edge advances one workload by one step.
LEMMA LatticeTo ==
    ASSUME NEW p, IsPlan(p), NEW pos \in Positions(p), NEW e \in LatticeEdges(p, pos)
    PROVE  /\ e.to \in Positions(p)
           /\ e.to.during = pos.during
           /\ e.to.after = pos.after
           /\ \E w \in Workloads(p) : /\ pos.steps[w] < LastStep
                                      /\ e.to.steps = [pos.steps EXCEPT ![w] = @ + 1]
<1>0. PICK w \in Workloads(p) :
        /\ pos.steps[w] < LastStep
        /\ e = Edge(pos, [pos EXCEPT !.steps[w] = @ + 1],
                    [kind |-> StepEvent(p.workloads[w], pos.steps[w] + 1), of |-> w])
    BY DEF LatticeEdges
<1> DEFINE s == [pos.steps EXCEPT ![w] = @ + 1]
<1>1. pos.after = {} /\ Position(s, pos.during, {}) \in Positions(p)
    BY <1>0, AdvancePosition
<1>2. e.to = [pos EXCEPT !.steps[w] = @ + 1]
    BY <1>0 DEF Edge
<1>3. pos = Position(pos.steps, pos.during, {})
    BY <1>1, OffChain
<1>4. e.to = Position(s, pos.during, {})
    BY <1>2, <1>3 DEF Position
<1>5. e.to.steps = s /\ e.to.during = pos.during /\ e.to.after = {}
    BY <1>4 DEF Position
<1>. QED BY <1>0, <1>1, <1>4, <1>5

\* A during-migration edge commits one pending migration.
LEMMA HypercubeTo ==
    ASSUME NEW p, IsPlan(p), NEW pos \in Positions(p), NEW e \in HypercubeEdges(p, pos)
    PROVE  /\ e.event.of \in During(p) \ pos.during
           /\ e.to \in Positions(p)
           /\ e.to.steps = pos.steps
           /\ e.to.during = pos.during \cup {e.event.of}
           /\ e.to.after = pos.after
           /\ pos.after = {}
<1>0. PICK i \in During(p) \ pos.during :
        e = Edge(pos, [pos EXCEPT !.during = @ \cup {i}],
                 [kind |-> "MigrationOpCommitted", of |-> i])
    BY DEF HypercubeEdges
<1>1. pos.after = {} /\ Position(pos.steps, pos.during \cup {i}, {}) \in Positions(p)
    BY DuringPosition
<1>2. e.to = [pos EXCEPT !.during = @ \cup {i}] /\ e.event.of = i
    BY <1>0 DEF Edge
<1>3. pos = Position(pos.steps, pos.during, {})
    BY <1>1, OffChain
<1>4. e.to = Position(pos.steps, pos.during \cup {i}, {})
    BY <1>2, <1>3 DEF Position
<1>. QED BY <1>1, <1>2, <1>4 DEF Position

\* A chain edge commits the next after-migration, the rollout complete.
LEMMA ChainTo ==
    ASSUME NEW p, IsPlan(p), NEW pos \in Positions(p), NEW e \in ChainEdges(p, pos)
    PROVE  /\ e.event.of \in After(p) \ pos.after
           /\ UpTo(p, e.event.of) \ {e.event.of} \subseteq pos.after
           /\ pos \in Chain(p) \cup {RolloutComplete(p)}
           /\ e.to \in Positions(p)
           /\ e.to.steps = pos.steps
           /\ e.to.during = pos.during
           /\ e.to.after = pos.after \cup {e.event.of}
           /\ \A j \in pos.after : j \in Int /\ j < e.event.of
<1>0. PICK i \in After(p) \ pos.after :
        /\ pos \in Chain(p) \cup {RolloutComplete(p)}
        /\ UpTo(p, i) \ {i} \subseteq pos.after
        /\ e = Edge(pos, [pos EXCEPT !.after = @ \cup {i}],
                    [kind |-> "MigrationOpCommitted", of |-> i])
    BY DEF ChainEdges
<1>1. /\ \A j \in pos.after : j \in Int /\ j < i
      /\ Position(pos.steps, pos.during, pos.after \cup {i}) \in Positions(p)
    BY <1>0, AfterPosition
<1>2. e.to = [pos EXCEPT !.after = @ \cup {i}] /\ e.event.of = i
    BY <1>0 DEF Edge
<1>3. pos = Position(pos.steps, pos.during, pos.after)
    BY <1>0 DEF Chain, RolloutComplete, Position
<1>4. e.to = Position(pos.steps, pos.during, pos.after \cup {i})
    BY <1>2, <1>3 DEF Position
<1>. QED BY <1>0, <1>1, <1>2, <1>4 DEF Position

-----------------------------------------------------------------------------
(* The invariant.                                                          *)

\* A walk starts at a position of the graph, nothing committed.
LEMMA InitInv == Init => Inv
<1> SUFFICES ASSUME Init PROVE Inv
    OBVIOUS
<1>1. node \in Positions(plan)
    BY DEF Init, StartPosition, Positions, Steps, LastStep
<1>2. node.during = {} /\ node.after = {}
    BY DEF Init, StartPosition, Position
<1>3. ToSet(trail) = {} /\ trail \in Seq(DOMAIN plan.migrations)
    BY DEF Init, ToSet
<1>. QED BY <1>1, <1>2, <1>3 DEF Init, Inv, TypeOK, Agrees

\* An edge keeps the walk in the graph and its trail in step with it.
LEMMA NextInv == Inv /\ [Next]_vars => Inv'
<1> SUFFICES ASSUME Inv, [Next]_vars PROVE Inv'
    OBVIOUS
<1>0. /\ plan \in Plans /\ node \in Positions(plan) /\ trail \in Seq(DOMAIN plan.migrations)
      /\ IsPlan(plan)
    BY PlansAssumption DEF Inv, TypeOK
<1>1. CASE FollowLattice
    <2>1. PICK e \in LatticeEdges(plan, node) :
            node' = e.to /\ UNCHANGED <<plan, trail>>
        BY <1>1 DEF FollowLattice
    <2>2. e.to \in Positions(plan) /\ e.to.during = node.during /\ e.to.after = node.after
        BY <1>0, LatticeTo
    <2>3. node' \in Positions(plan) /\ node'.during = node.during /\ node'.after = node.after
        BY <2>1, <2>2
    <2>. QED BY <2>1, <2>3 DEF Inv, TypeOK, Agrees
<1>2. CASE FollowHypercube
    <2>1. PICK e \in HypercubeEdges(plan, node) :
            node' = e.to /\ trail' = Append(trail, e.event.of) /\ UNCHANGED plan
        BY <1>2 DEF FollowHypercube
    <2>2. /\ e.event.of \in DOMAIN plan.migrations
          /\ node' \in Positions(plan)
          /\ node'.during = node.during \cup {e.event.of} /\ node'.after = node.after
        BY <1>0, <2>1, HypercubeTo, PhaseFacts
    <2>3. trail' \in Seq(DOMAIN plan.migrations) /\ ToSet(trail') = ToSet(trail) \cup {e.event.of}
        <3>. DEFINE i == e.event.of
        <3>1. i \in DOMAIN plan.migrations BY <2>2
        <3>2. /\ Append(trail, i) \in Seq(DOMAIN plan.migrations)
              /\ ToSet(Append(trail, i)) = ToSet(trail) \cup {i}
            <4>. HIDE DEF i
            <4>. QED BY <1>0, <3>1, AppendToSet
        <3>. QED BY <2>1, <3>2
    <2>. QED BY <2>1, <2>2, <2>3 DEF Inv, TypeOK, Agrees
<1>3. CASE FollowChain
    <2>1. PICK e \in ChainEdges(plan, node) :
            node' = e.to /\ trail' = Append(trail, e.event.of) /\ UNCHANGED plan
        BY <1>3 DEF FollowChain
    <2>2. /\ e.event.of \in DOMAIN plan.migrations
          /\ node' \in Positions(plan)
          /\ node'.during = node.during /\ node'.after = node.after \cup {e.event.of}
        BY <1>0, <2>1, ChainTo, PhaseFacts
    <2>3. trail' \in Seq(DOMAIN plan.migrations) /\ ToSet(trail') = ToSet(trail) \cup {e.event.of}
        <3>. DEFINE i == e.event.of
        <3>1. i \in DOMAIN plan.migrations BY <2>2
        <3>2. /\ Append(trail, i) \in Seq(DOMAIN plan.migrations)
              /\ ToSet(Append(trail, i)) = ToSet(trail) \cup {i}
            <4>. HIDE DEF i
            <4>. QED BY <1>0, <3>1, AppendToSet
        <3>. QED BY <2>1, <3>2
    <2>. QED BY <2>1, <2>2, <2>3 DEF Inv, TypeOK, Agrees
<1>4. CASE UNCHANGED vars
    BY <1>4 DEF vars, Inv, TypeOK, Agrees
<1>. QED BY <1>1, <1>2, <1>3, <1>4 DEF Next

\* Inv holds at every node of every walk.
THEOREM Invariance == Spec => []Inv
BY InitInv, NextInv, PTL DEF Spec

\* A walk never leaves the graph that was built: every edge ends at a node.
THEOREM TypeCorrect == Spec => []TypeOK
<1>1. Inv => TypeOK BY DEF Inv
<1>. QED BY <1>1, Invariance, PTL

-----------------------------------------------------------------------------
(* The graph and the deployment.                                           *)

\* What the deployment may do next, in terms of the node.
LEMMA MayHappen ==
    ASSUME Inv
    PROVE  /\ R!Workloads(plan) = Workloads(plan) /\ R!Steps = Steps
           /\ R!During(plan) = During(plan) /\ R!After(plan) = After(plan)
           /\ \A w : R!CanAdvance(w) <=> node.steps[w] < LastStep
           /\ \A i \in During(plan) : R!CanCommitDuring(i) <=> i \notin node.during
           /\ \A i \in After(plan) :
                 R!CanCommitAfter(i)
                    <=> /\ i \notin node.after
                        /\ node \in Chain(plan) \cup {RolloutComplete(plan)}
                        /\ UpTo(plan, i) \ {i} \subseteq node.after
<1>1. plan \in Plans /\ node \in Positions(plan) /\ IsPlan(plan)
    BY PlansAssumption DEF Inv, TypeOK
<1>2. /\ R!Workloads(plan) = Workloads(plan) /\ R!LastStep = LastStep /\ R!Steps = Steps
      /\ R!During(plan) = During(plan) /\ R!After(plan) = After(plan)
      /\ \A i : R!UpTo(plan, i) = UpTo(plan, i)
    BY DEF R!Workloads, Workloads, R!LastStep, LastStep, R!Steps, Steps, R!During, During,
           R!After, After, R!InPhase, InPhase, R!UpTo, UpTo
<1>3. R!Committed = node.during \cup node.after
    BY DEF Inv, Agrees, R!Committed, R!ToSet, ToSet
<1>4. /\ node.during \subseteq During(plan) /\ node.after \subseteq After(plan)
      /\ During(plan) \cap After(plan) = {}
    BY <1>1, PositionFacts, PhaseFacts
<1>5. \A i \in After(plan) : UpTo(plan, i) \subseteq After(plan)
    BY DEF UpTo
<1>6. R!WorkloadsDone /\ During(plan) \subseteq R!Committed
         <=> node \in Chain(plan) \cup {RolloutComplete(plan)}
    BY <1>1, <1>2, <1>3, <1>4, CompleteNodes DEF R!WorkloadsDone
<1>7. \A i \in After(plan) :
         R!CanCommitAfter(i)
            <=> /\ i \notin node.after
                /\ node \in Chain(plan) \cup {RolloutComplete(plan)}
                /\ UpTo(plan, i) \ {i} \subseteq node.after
    BY <1>2, <1>3, <1>4, <1>5, <1>6 DEF R!CanCommitAfter
<1>8. \A w : R!CanAdvance(w) <=> node.steps[w] < LastStep
    BY <1>2 DEF R!CanAdvance
<1>9. \A i \in During(plan) : R!CanCommitDuring(i) <=> i \notin node.during
    BY <1>3, <1>4 DEF R!CanCommitDuring
<1>. QED BY <1>2, <1>7, <1>8, <1>9

\* Every walk is a run of the deployment: the graph contains no state and no
\* order of events that the cluster could not go through.
THEOREM SafeRefinement == Spec => R!Safety
<1>1. Init => R!Init
    BY DEF Init, R!Init, StartPosition, Position, Workloads, R!Workloads
<1>2. Inv /\ [Next]_vars => [R!Next]_(R!vars)
    <2> SUFFICES ASSUME Inv, [Next]_vars PROVE [R!Next]_(R!vars)
        OBVIOUS
    <2>0. plan \in Plans /\ node \in Positions(plan) /\ IsPlan(plan)
        BY PlansAssumption DEF Inv, TypeOK
    <2>1. CASE FollowLattice
        <3>1. PICK e \in LatticeEdges(plan, node) :
                node' = e.to /\ UNCHANGED <<plan, trail>>
            BY <2>1 DEF FollowLattice
        <3>2. PICK w \in Workloads(plan) :
                node.steps[w] < LastStep /\ node'.steps = [node.steps EXCEPT ![w] = @ + 1]
            BY <2>0, <3>1, LatticeTo
        <3>3. R!AdvanceWorkload(w)
            BY <3>1, <3>2, MayHappen DEF R!AdvanceWorkload
        <3>. QED BY <3>2, <3>3, MayHappen DEF R!Next
    <2>2. CASE FollowHypercube
        <3>1. PICK e \in HypercubeEdges(plan, node) :
                node' = e.to /\ trail' = Append(trail, e.event.of) /\ UNCHANGED plan
            BY <2>2 DEF FollowHypercube
        <3>2. e.event.of \in During(plan) \ node.during /\ node'.steps = node.steps
            BY <2>0, <3>1, HypercubeTo
        <3>3. R!CommitDuring(e.event.of)
            BY <3>1, <3>2, MayHappen DEF R!CommitDuring
        <3>. QED BY <3>2, <3>3, MayHappen DEF R!Next
    <2>3. CASE FollowChain
        <3>1. PICK e \in ChainEdges(plan, node) :
                node' = e.to /\ trail' = Append(trail, e.event.of) /\ UNCHANGED plan
            BY <2>3 DEF FollowChain
        <3>2. /\ e.event.of \in After(plan) \ node.after /\ node'.steps = node.steps
              /\ UpTo(plan, e.event.of) \ {e.event.of} \subseteq node.after
              /\ node \in Chain(plan) \cup {RolloutComplete(plan)}
            BY <2>0, <3>1, ChainTo
        <3>3. R!CommitAfter(e.event.of)
            BY <3>1, <3>2, MayHappen DEF R!CommitAfter
        <3>. QED BY <3>2, <3>3, MayHappen DEF R!Next
    <2>4. CASE UNCHANGED vars
        BY <2>4 DEF vars, R!vars
    <2>. QED BY <2>1, <2>2, <2>3, <2>4 DEF Next
<1>. QED BY <1>1, <1>2, Invariance, PTL DEF Spec, R!Safety

\* At every node of every walk the outgoing edges are, with their labels,
\* exactly the events the deployment may go through there: no interleaving of
\* version changes and migrations is left unexplored.
THEOREM NothingMissed == Spec => []NoMissingEvent
<1>1. ASSUME Inv PROVE NoMissingEvent
    <2> DEFINE MOC(i) == [kind |-> "MigrationOpCommitted", of |-> i]
               StepOf(w) == [kind |-> StepEvent(plan.workloads[w], node.steps[w] + 1), of |-> w]
               advance == {w \in Workloads(plan) : node.steps[w] < LastStep}
               commits == {i \in During(plan) : R!CanCommitDuring(i)}
                             \cup {i \in After(plan) : R!CanCommitAfter(i)}
    <2>0. plan \in Plans /\ node \in Positions(plan) /\ IsPlan(plan)
        BY <1>1, PlansAssumption DEF Inv, TypeOK
    <2>l. \A a, b, c : Edge(a, b, c).event = c
        BY DEF Edge
    <2>1. {e.event : e \in LatticeEdges(plan, node)} = {StepOf(w) : w \in advance}
        <3>1. node.after # {} => advance = {}
            BY <2>0, OnChain DEF Position, LastStep
        <3>2. {w \in Workloads(plan) : node.after = {} /\ node.steps[w] < LastStep} = advance
            BY <3>1
        <3>. DEFINE To(w) == [node EXCEPT !.steps[w] = @ + 1]
                    S == advance
        <3>3. LatticeEdges(plan, node) = {Edge(node, To(w), StepOf(w)) : w \in S}
            BY <3>2 DEF LatticeEdges
        <3>. HIDE DEF To, S, StepOf
        <3>4. \A e \in LatticeEdges(plan, node) : e.event \in {StepOf(w) : w \in S}
            BY <3>3, <2>l
        <3>5. \A w \in S : StepOf(w) \in {e.event : e \in LatticeEdges(plan, node)}
            BY <3>3, <2>l
        <3>6. {e.event : e \in LatticeEdges(plan, node)} = {StepOf(w) : w \in S}
            BY <3>4, <3>5
        <3>. QED BY <3>6 DEF S, StepOf
    <2>2. {e.event : e \in HypercubeEdges(plan, node)}
             = {MOC(i) : i \in {k \in During(plan) : R!CanCommitDuring(k)}}
        <3>1. node.after # {} => During(plan) \subseteq node.during
            BY <2>0, OnChain DEF Position
        <3>2. {k \in During(plan) \ node.during : node.after = {}}
                 = {k \in During(plan) : R!CanCommitDuring(k)}
            BY <1>1, <3>1, MayHappen
        <3>. DEFINE To(i) == [node EXCEPT !.during = @ \cup {i}]
                    S == {k \in During(plan) : R!CanCommitDuring(k)}
        <3>3. HypercubeEdges(plan, node) = {Edge(node, To(i), MOC(i)) : i \in S}
            BY <3>2 DEF HypercubeEdges
        <3>. HIDE DEF To, S, MOC
        <3>4. \A e \in HypercubeEdges(plan, node) : e.event \in {MOC(i) : i \in S}
            BY <3>3, <2>l
        <3>5. \A i \in S : MOC(i) \in {e.event : e \in HypercubeEdges(plan, node)}
            BY <3>3, <2>l
        <3>6. {e.event : e \in HypercubeEdges(plan, node)} = {MOC(i) : i \in S}
            BY <3>4, <3>5
        <3>. QED BY <3>6 DEF S, MOC
    <2>3. {e.event : e \in ChainEdges(plan, node)}
             = {MOC(i) : i \in {k \in After(plan) : R!CanCommitAfter(k)}}
        <3>1. {k \in After(plan) \ node.after :
                  /\ node \in Chain(plan) \cup {RolloutComplete(plan)}
                  /\ UpTo(plan, k) \ {k} \subseteq node.after}
                 = {k \in After(plan) : R!CanCommitAfter(k)}
            BY <1>1, MayHappen
        <3>. DEFINE To(i) == [node EXCEPT !.after = @ \cup {i}]
                    S == {k \in After(plan) : R!CanCommitAfter(k)}
        <3>3. ChainEdges(plan, node) = {Edge(node, To(i), MOC(i)) : i \in S}
            BY <3>1 DEF ChainEdges
        <3>. HIDE DEF To, S, MOC
        <3>4. \A e \in ChainEdges(plan, node) : e.event \in {MOC(i) : i \in S}
            BY <3>3, <2>l
        <3>5. \A i \in S : MOC(i) \in {e.event : e \in ChainEdges(plan, node)}
            BY <3>3, <2>l
        <3>6. {e.event : e \in ChainEdges(plan, node)} = {MOC(i) : i \in S}
            BY <3>4, <3>5
        <3>. QED BY <3>6 DEF S, MOC
    <2>4. {e.event : e \in OutEdges(plan, node)}
             = {MOC(i) : i \in commits} \cup {StepOf(w) : w \in advance}
        <3>1. {e.event : e \in OutEdges(plan, node)}
                 = {e.event : e \in LatticeEdges(plan, node)}
                      \cup {e.event : e \in HypercubeEdges(plan, node)}
                      \cup {e.event : e \in ChainEdges(plan, node)}
            BY DEF OutEdges
        <3>2. {MOC(i) : i \in commits}
                 = {MOC(i) : i \in {k \in During(plan) : R!CanCommitDuring(k)}}
                      \cup {MOC(i) : i \in {k \in After(plan) : R!CanCommitAfter(k)}}
            OBVIOUS
        <3>. QED BY <3>1, <3>2, <2>1, <2>2, <2>3
    <2>5. {v \in Workloads(plan) : R!CanAdvance(v)} = advance
        BY <1>1, MayHappen
    <2>. QED BY <2>4, <2>5 DEF NoMissingEvent
<1>. QED BY <1>1, Invariance, PTL

-----------------------------------------------------------------------------
(* The graph and the database.                                             *)

\* A node tells the state the database is in, unless the walk's plan has two
\* during-migrations that name a column in common.
TellsTruth == Independent(plan) => Tells(plan, node, TrueState)

\* At the start the node tells the state of the database.
LEMMA InitTells == Init => TellsTruth
<1> SUFFICES ASSUME Init PROVE Tells(plan, node, TrueState)
    BY DEF TellsTruth
<1>1. IsPlan(plan) /\ node.during = {} /\ node.after = {} /\ trail = <<>>
    BY PlansAssumption DEF Init, StartPosition, Position
<1>2. StateAfter(plan, <<>>) = BaseState(plan)
    <2>1. <<>> \in Seq({0}) /\ 0 \in {0}
        OBVIOUS
    <2>. QED BY <2>1, TrailSteps
<1>. QED BY <1>1, <1>2, TellsAtStart DEF TrueState

\* An edge leads to a node that tells it too.
LEMMA NextTells == Inv /\ TellsTruth /\ [Next]_vars => TellsTruth'
<1> SUFFICES ASSUME Inv, TellsTruth, [Next]_vars, Independent(plan') PROVE Tells(plan, node, TrueState)'
    BY DEF TellsTruth
<1>0. /\ plan \in Plans /\ node \in Positions(plan) /\ trail \in Seq(DOMAIN plan.migrations)
      /\ IsPlan(plan)
    BY PlansAssumption DEF Inv, TypeOK
<1>1. plan' = plan /\ Independent(plan) /\ Tells(plan, node, TrueState)
    BY DEF Next, FollowLattice, FollowHypercube, FollowChain, vars, TellsTruth
<1>2. CASE FollowLattice
    <2>1. PICK e \in LatticeEdges(plan, node) :
            node' = e.to /\ UNCHANGED <<plan, trail>>
        BY <1>2 DEF FollowLattice
    <2>2. node'.during = node.during /\ node'.after = node.after /\ trail' = trail
        BY <1>0, <2>1, LatticeTo
    <2>. QED BY <1>1, <2>2 DEF Tells, TrueState, SchemaStateAt
<1>3. CASE FollowHypercube
    <2>1. PICK e \in HypercubeEdges(plan, node) :
            node' = e.to /\ trail' = Append(trail, e.event.of) /\ UNCHANGED plan
        BY <1>3 DEF FollowHypercube
    <2> DEFINE i == e.event.of
    <2>2. /\ i \in During(plan) \ node.during
          /\ node.during \subseteq During(plan)
          /\ node'.during = node.during \cup {i} /\ node'.after = {} /\ node.after = {}
        BY <1>0, <2>1, HypercubeTo, PositionFacts
    <2>3. i \in DOMAIN plan.migrations /\ trail' = Append(trail, i)
        BY <1>0, <2>1, <2>2, PhaseFacts
    <2> HIDE DEF i
    <2>4. StateAfter(plan, trail') = ApplyOne(StateAfter(plan, trail), plan.migrations[i])
        BY <1>0, <2>3, TrailSteps
    <2>5. Tells(plan, node', ApplyOne(StateAfter(plan, trail), plan.migrations[i]))
        BY <1>0, <1>1, <2>2, TellsDuring DEF TrueState
    <2>. QED BY <1>1, <2>4, <2>5 DEF TrueState
<1>4. CASE FollowChain
    <2>1. PICK e \in ChainEdges(plan, node) :
            node' = e.to /\ trail' = Append(trail, e.event.of) /\ UNCHANGED plan
        BY <1>4 DEF FollowChain
    <2> DEFINE i == e.event.of
    <2>2. /\ i \in After(plan) \ node.after
          /\ \A j \in node.after : j \in Int /\ j < i
          /\ node'.during = node.during /\ node'.after = node.after \cup {i}
        BY <1>0, <2>1, ChainTo
    <2>3. i \in DOMAIN plan.migrations /\ trail' = Append(trail, i)
        BY <1>0, <2>1, <2>2, PhaseFacts
    <2> HIDE DEF i
    <2>4. StateAfter(plan, trail') = ApplyOne(StateAfter(plan, trail), plan.migrations[i])
        BY <1>0, <2>3, TrailSteps
    <2>5. Tells(plan, node', ApplyOne(StateAfter(plan, trail), plan.migrations[i]))
        BY <1>0, <1>1, <2>2, <2>3, TellsAfter DEF TrueState
    <2>. QED BY <1>1, <2>4, <2>5 DEF TrueState
<1>5. CASE UNCHANGED vars
    BY <1>1, <1>5 DEF vars, Tells, TrueState
<1>. QED BY <1>2, <1>3, <1>4, <1>5 DEF Next

\* A node's schema state is the one the database is in whenever a rollout gets
\* there, in whatever order the during-migrations committed: for every plan no
\* two of whose during-migrations name a column in common.
THEOREM NodesTellTruth == Spec => [](Independent(plan) => NodeTellsTruth)
<1>1. TellsTruth => (Independent(plan) => NodeTellsTruth)
    BY DEF TellsTruth, Tells, NodeTellsTruth
<1>. QED BY <1>1, InitTells, NextTells, Invariance, PTL DEF Spec

-----------------------------------------------------------------------------
(* The numbers.                                                            *)

\* An edge leads to a node with a higher ID.
LEMMA EdgesNumberUp ==
    ASSUME NEW p, IsPlan(p), NEW pos \in Positions(p), NEW e \in OutEdges(p, pos)
    PROVE  e.to \in Positions(p) /\ NodeId(p, pos) < NodeId(p, e.to)
<1>1. \A q \in Positions(p) : q = Position(q.steps, q.during, q.after)
    BY OffChain, OnChain DEF Position
<1>2. CASE e \in LatticeEdges(p, pos)
    <2>1. PICK w \in Workloads(p) : /\ pos.steps[w] < LastStep
                                    /\ e.to.steps = [pos.steps EXCEPT ![w] = @ + 1]
        BY <1>2, LatticeTo
    <2>2. e.to \in Positions(p) /\ e.to.during = pos.during /\ e.to.after = {}
        BY <1>2, <2>1, LatticeTo, AdvancePosition
    <2>3. e.to = Position([pos.steps EXCEPT ![w] = @ + 1], pos.during, {})
        BY <1>1, <2>1, <2>2
    <2>. QED BY <2>1, <2>2, <2>3, EventsNumberUp
<1>3. CASE e \in HypercubeEdges(p, pos)
    <2>1. /\ e.event.of \in During(p) \ pos.during /\ e.to \in Positions(p)
          /\ e.to.steps = pos.steps /\ e.to.during = pos.during \cup {e.event.of}
          /\ e.to.after = {}
        BY <1>3, HypercubeTo
    <2>2. e.to = Position(pos.steps, pos.during \cup {e.event.of}, {})
        BY <1>1, <2>1
    <2>. QED BY <2>1, <2>2, EventsNumberUp
<1>4. CASE e \in ChainEdges(p, pos)
    <2>1. /\ e.event.of \in After(p) \ pos.after /\ e.to \in Positions(p)
          /\ UpTo(p, e.event.of) \ {e.event.of} \subseteq pos.after
          /\ pos \in Chain(p) \cup {RolloutComplete(p)}
          /\ e.to.steps = pos.steps /\ e.to.during = pos.during
          /\ e.to.after = pos.after \cup {e.event.of}
        BY <1>4, ChainTo
    <2>2. e.to = Position(pos.steps, pos.during, pos.after \cup {e.event.of})
        BY <1>1, <2>1
    <2>. QED BY <2>1, <2>2, EventsNumberUp
<1>. QED BY <1>2, <1>3, <1>4 DEF OutEdges

-----------------------------------------------------------------------------
(* The slice of nodes.                                                     *)

\* A power of two is twice the one before.
LEMMA PowerDoubles ==
    ASSUME NEW n \in Nat
    PROVE  2^n \in Nat \ {0} /\ 2^(n + 1) = 2 * 2^n
<1> DEFINE A == SUBSET (1 .. n)
           WithLast(s) == s \cup {n + 1}
           B == {WithLast(s) : s \in A}
<1>1. /\ IsFiniteSet(1 .. n) /\ Cardinality(1 .. n) = n
      /\ IsFiniteSet(1 .. n + 1) /\ Cardinality(1 .. n + 1) = n + 1
    <2>1. n + 1 \in Nat /\ 1 .. n = 1 .. (n + 1) - 1
        OBVIOUS
    <2>. QED BY <2>1, FS_Interval
<1>2. /\ IsFiniteSet(A) /\ Cardinality(A) = 2^n
      /\ Cardinality(SUBSET (1 .. n + 1)) = 2^(n + 1)
    BY <1>1, FS_SUBSET
<1>3. ASSUME NEW s \in A, NEW t \in A, WithLast(s) = WithLast(t) PROVE s = t
    BY <1>3
<1>4. SUBSET (1 .. n + 1) = A \cup B
    <2> DEFINE C == SUBSET (1 .. n + 1)
    <2>1. ASSUME NEW s \in C PROVE s \in A \/ s \in B
        <3>1. CASE n + 1 \in s
            <4>1. s \ {n + 1} \in A /\ s = WithLast(s \ {n + 1})
                BY <3>1
            <4>. QED BY <4>1
        <3>2. CASE n + 1 \notin s
            BY <3>2
        <3>. QED BY <3>1, <3>2
    <2>2. ASSUME NEW s \in A PROVE s \in C /\ WithLast(s) \in C
        OBVIOUS
    <2>3. \A s \in B : s \in C
        <3> HIDE DEF A, C, WithLast
        <3>. QED BY <2>2
    <2>4. \A s \in A : s \in C
        BY <2>2
    <2> HIDE DEF A, B, C
    <2>5. C = A \cup B
        BY <2>1, <2>3, <2>4
    <2>. QED BY <2>5 DEF C
<1>5. A \cap B = {}
    OBVIOUS
<1>6. IsFiniteSet(B) /\ Cardinality(B) = Cardinality(A)
    <2> DEFINE F == [s \in A |-> WithLast(s)]
    <2> HIDE DEF A, WithLast
    <2>1. F \in Bijection(A, B)
        BY <1>3, Fun_IsBij
    <2>2. ExistsBijection(A, B)
        BY <2>1 DEF ExistsBijection
    <2>. QED BY <2>2, <1>2, FS_Bijection
<1>7. Cardinality(A \cup B) = Cardinality(A) + Cardinality(B) - Cardinality(A \cap B)
    <2> HIDE DEF A, B
    <2>. QED BY <1>2, <1>6, FS_Union
<1>8. Cardinality(A) \in Nat /\ Cardinality(A) # 0
    <2>1. {} \in A
        OBVIOUS
    <2> HIDE DEF A
    <2>. QED BY <2>1, <1>2, FS_CardinalityType, FS_EmptySet
<1>9. Cardinality(A \cap B) = 0
    BY <1>5, FS_EmptySet
<1> DEFINE a == Cardinality(A)
           b == Cardinality(B)
           both == Cardinality(A \cap B)
           all == Cardinality(A \cup B)
<1>10. a \in Nat /\ a # 0 /\ b = a /\ both = 0 /\ all = a + b - both
    BY <1>6, <1>7, <1>8, <1>9
<1>11. 2^n = a /\ 2^(n + 1) = all
    BY <1>2, <1>4
<1> HIDE DEF a, b, both, all
<1>12. all = 2 * a
    BY <1>10
<1>. QED BY <1>10, <1>11, <1>12

\* The quotient is the one number that leaves a remainder below the divisor.
LEMMA Quotient ==
    ASSUME NEW b \in Nat \ {0}, NEW q \in Nat, NEW r \in 0 .. b - 1
    PROVE  (b * q + r) \div b = q
<1> DEFINE x == b * q + r
           k == x \div b
<1>0. x \in Nat
    <2>1. b * q \in Nat
        OBVIOUS
    <2>. QED BY <2>1
<1> HIDE DEF x
<1>1. k \in Int /\ b * k <= x /\ x < b * k + b
    <2>1. b \in Nat \ {0} /\ x \in Nat
        BY <1>0
    <2>2. k \in Int
        BY ONLY <2>1
    <2>3. b * k <= x
        BY ONLY <2>1
    <2>4. x < b * k + b
        BY ONLY <2>1
    <2>. QED BY <2>2, <2>3, <2>4
<1> HIDE DEF k
<1>2. ASSUME NEW y \in Int, NEW z \in Int, y < z PROVE b * y + b <= b * z
    <2> DEFINE w == z - y - 1
    <2>1. w \in Nat /\ z = y + 1 + w
        BY <1>2
    <2> HIDE DEF w
    <2>2. b * w \in Nat /\ b * y \in Int
        BY <2>1
    <2>3. b * z = b * y + b + b * w
        BY <2>1
    <2>. QED BY <2>2, <2>3
<1>3. x = b * q + r /\ b * q \in Int /\ b * k \in Int
    BY <1>1 DEF x
<1>4. ~(k < q)
    BY <1>1, <1>2, <1>3
<1>5. ~(q < k)
    BY <1>1, <1>2, <1>3
<1>6. k = q
    BY <1>1, <1>4, <1>5
<1>. QED BY <1>6 DEF k, x

\* x is high shifted to the left by as many bits as low has.
Shifted(x, high, bits) ==
    \E low \in 0 .. 2^bits - 1 : x = 2^bits * high + low

\* Shifting by one bit less leaves one bit more.
LEMMA OneBit ==
    ASSUME NEW x, NEW high \in Nat, NEW bit \in 0 .. 1, NEW bits \in Nat,
           Shifted(x, 2 * high + bit, bits)
    PROVE  Shifted(x, high, bits + 1)
<1> DEFINE b == 2^bits
<1>1. b \in Nat \ {0} /\ 2^(bits + 1) = 2 * b
    BY PowerDoubles
<1>2. PICK low \in 0 .. b - 1 : x = b * (2 * high + bit) + low
    BY DEF Shifted
<1> HIDE DEF b
<1> DEFINE more == b * bit + low
<1>3. more \in 0 .. 2 * b - 1
    <2>1. CASE bit = 0
        BY <2>1, <1>1
    <2>2. CASE bit = 1
        BY <2>2, <1>1
    <2>. QED BY <2>1, <2>2
<1>4. x = (2 * b) * high + more
    <2> DEFINE t == b * high
               u == b * bit
    <2>1. b * (2 * high + bit) = 2 * t + u /\ (2 * b) * high = 2 * t /\ t \in Nat /\ u \in Nat
        BY <1>1
    <2> HIDE DEF t
    <2>2. more = u + low /\ u \in Nat
        BY <2>1
    <2> HIDE DEF u, more
    <2>. QED BY <1>1, <1>2, <2>1, <2>2
<1>. QED BY <1>1, <1>3, <1>4 DEF Shifted

\* The bits of the during vector of a set are the set's.
LEMMA VectorSets ==
    ASSUME NEW p, IsPlan(p), NEW d \in SUBSET During(p)
    PROVE  VectorSet(p, DuringVector(p, d)) = d
<1> DEFINE n == Len(p.migrations)
           pending == During(p)
           list == FromLast(p)
           f == Vector!Stages(d, pending, 0, list, n)
           Below(m) == {j \in pending : j <= m}
           bits(m) == Cardinality(Below(m))
<1>1. n \in Nat /\ pending \subseteq 1 .. n /\ DOMAIN p.migrations = 1 .. n
    BY DEF IsPlan, During, InPhase
<1>2. DOMAIN list = 1 .. n /\ \A k \in 1 .. n : list[k] = n + 1 - k
    BY <1>1 DEF FromLast
<1>3. Vector!Fold(d, pending, 0, list) = DuringVector(p, d)
    BY DEF DuringVector, Vector!Fold, FoldLeft, Vector!FoldLeft, MapThenFoldSet,
           Vector!MapThenFoldSet, Max, Vector!Max
<1>4. d \subseteq pending
    OBVIOUS
<1>5. VectorSet(p, DuringVector(p, d)) =
         {i \in pending :
            (DuringVector(p, d) \div 2^Cardinality({j \in pending : j < i})) % 2 = 1}
    BY DEF VectorSet
<1> HIDE DEF n, pending, list
<1>6. Vector!Passes(f, d, pending, 0, list, n)
    BY <1>1, <1>2, Vector!FoldSteps
<1> HIDE DEF f
<1> DEFINE x == DuringVector(p, d)
<1>7. /\ f[0] = 0 /\ f[n] = x
      /\ \A k \in 1 .. n :
            f[k] = IF n + 1 - k \in d THEN 2 * f[k - 1] + 1
                   ELSE IF n + 1 - k \in pending THEN 2 * f[k - 1] ELSE f[k - 1]
    BY <1>2, <1>3, <1>6 DEF Vector!Passes
<1> HIDE DEF x
<1> DEFINE S == {k \in Nat : k <= n => f[k] \in Nat}
<1>8. 0 \in S
    BY <1>7
<1>9. ASSUME NEW k \in Nat, k \in S PROVE k + 1 \in S
    <2> SUFFICES ASSUME k + 1 <= n PROVE f[k + 1] \in Nat
        OBVIOUS
    <2>1. k + 1 \in 1 .. n /\ (k + 1) - 1 = k /\ f[k] \in Nat
        BY <1>1, <1>9
    <2>2. f[k + 1] = IF n + 1 - (k + 1) \in d THEN 2 * f[k] + 1
                     ELSE IF n + 1 - (k + 1) \in pending THEN 2 * f[k] ELSE f[k]
        BY <1>7, <2>1
    <2>. QED BY <2>1, <2>2
<1>10. \A k \in 0 .. n : f[k] \in Nat
    <2> HIDE DEF S
    <2>1. Nat \subseteq S
        BY <1>8, <1>9, Combo!Induction
    <2>. QED BY <2>1, <1>1 DEF S
<1> HIDE DEF S
<1>11. IsFiniteSet(pending)
    <2>1. IsFiniteSet(1 .. n)
        BY <1>1, FS_Interval
    <2>. QED BY <2>1, <1>1, FS_Subset
<1>12. ASSUME NEW m \in Nat
       PROVE  /\ bits(m) \in Nat
              /\ m + 1 \in pending => bits(m + 1) = bits(m) + 1
              /\ m + 1 \notin pending => bits(m + 1) = bits(m)
    <2> DEFINE A == Below(m)
               B == Below(m + 1)
    <2>0. ASSUME NEW j \in pending PROVE j <= m + 1 <=> j <= m \/ j = m + 1
        BY <1>1
    <2>1. A \subseteq pending /\ m + 1 \notin A
        OBVIOUS
    <2>2. m + 1 \in pending => B = A \cup {m + 1}
        BY <2>0
    <2>3. m + 1 \notin pending => B = A
        BY <2>0
    <2> HIDE DEF A, B
    <2>4. IsFiniteSet(A) /\ Cardinality(A) \in Nat
        BY <2>1, <1>11, FS_Subset, FS_CardinalityType
    <2>5. Cardinality(A \cup {m + 1}) = Cardinality(A) + 1
        BY <2>1, <2>4, FS_AddElement
    <2>. QED BY <2>2, <2>3, <2>4, <2>5 DEF A, B
<1>13. bits(0) = 0
    <2>1. ASSUME NEW j \in pending PROVE ~(j <= 0)
        BY <1>1
    <2>2. Below(0) = {}
        BY <2>1
    <2>. QED BY <2>2, FS_EmptySet
<1>14. \A i \in pending : Below(i - 1) = {j \in pending : j < i}
    <2> SUFFICES ASSUME NEW i \in pending, NEW j \in pending PROVE j <= i - 1 <=> j < i
        OBVIOUS
    <2>. QED BY <1>1
<1> HIDE DEF bits, Below
<1> DEFINE T == {m \in Nat : m <= n => Shifted(x, f[n - m], bits(m))}
<1>15. 0 \in T
    <2>1. 2^0 = 1
        <3>1. Cardinality(SUBSET {}) = 2^Cardinality({}) /\ Cardinality({}) = 0
            BY FS_EmptySet, FS_SUBSET
        <3>2. SUBSET {} = {{}}
            OBVIOUS
        <3>3. Cardinality({{}}) = 1
            BY FS_Singleton
        <3>. QED BY <3>1, <3>2, <3>3
    <2>2. x \in Nat /\ f[n - 0] = x
        BY <1>1, <1>7, <1>10
    <2>3. 0 \in 0 .. 2^0 - 1 /\ x = 2^0 * x + 0
        BY <2>1, <2>2
    <2>. QED BY <2>2, <2>3, <1>13 DEF Shifted
<1>16. ASSUME NEW m \in Nat, m \in T PROVE m + 1 \in T
    <2> SUFFICES ASSUME m + 1 <= n PROVE Shifted(x, f[n - (m + 1)], bits(m + 1))
        OBVIOUS
    <2> DEFINE k == n - m
    <2>1. /\ k \in 1 .. n /\ n - (m + 1) = k - 1 /\ n + 1 - k = m + 1
          /\ k - 1 \in 0 .. n /\ m <= n
        BY <1>1
    <2>2. Shifted(x, f[k], bits(m))
        BY <1>16, <2>1
    <2> HIDE DEF k
    <2>3. f[k] = IF m + 1 \in d THEN 2 * f[k - 1] + 1
                 ELSE IF m + 1 \in pending THEN 2 * f[k - 1] ELSE f[k - 1]
        BY <1>7, <2>1
    <2>4. f[k - 1] \in Nat /\ bits(m) \in Nat
        BY <1>10, <1>12, <2>1
    <2>5. CASE m + 1 \in d
        <3>1. f[k] = 2 * f[k - 1] + 1 /\ bits(m + 1) = bits(m) + 1 /\ 1 \in 0 .. 1
            BY <2>3, <2>5, <1>4, <1>12
        <3>. QED BY <2>1, <2>2, <2>4, <3>1, OneBit
    <2>6. CASE m + 1 \in pending \ d
        <3>1. f[k] = 2 * f[k - 1] + 0 /\ bits(m + 1) = bits(m) + 1 /\ 0 \in 0 .. 1
            BY <2>3, <2>4, <2>6, <1>12
        <3>. QED BY <2>1, <2>2, <2>4, <3>1, OneBit
    <2>7. CASE m + 1 \notin pending
        <3>1. f[k] = f[k - 1] /\ bits(m + 1) = bits(m)
            BY <2>3, <2>7, <1>4, <1>12
        <3>. QED BY <2>1, <2>2, <3>1
    <2>. QED BY <2>5, <2>6, <2>7, <1>4
<1>17. \A m \in 0 .. n : Shifted(x, f[n - m], bits(m))
    <2> HIDE DEF T
    <2>1. Nat \subseteq T
        BY <1>15, <1>16, Combo!Induction
    <2>. QED BY <2>1, <1>1 DEF T
<1> HIDE DEF T
<1>18. ASSUME NEW i \in pending
       PROVE  i \in d <=> (x \div 2^Cardinality({j \in pending : j < i})) % 2 = 1
    <2> DEFINE m == i - 1
               k == n - m
               b == 2^bits(m)
    <2>1. /\ m \in 0 .. n /\ m \in Nat /\ k \in 1 .. n /\ n + 1 - k = i
          /\ k \in 0 .. n /\ k - 1 \in 0 .. n
        BY <1>1
    <2>2. Cardinality({j \in pending : j < i}) = bits(m)
        BY <1>14 DEF bits
    <2>3. Shifted(x, f[k], bits(m))
        BY <1>17, <2>1
    <2>4. f[k] \in Nat /\ f[k - 1] \in Nat /\ bits(m) \in Nat
        BY <1>10, <1>12, <2>1
    <2>5. f[k] = IF i \in d THEN 2 * f[k - 1] + 1 ELSE 2 * f[k - 1]
        BY <1>7, <2>1
    <2> HIDE DEF m, k
    <2>6. b \in Nat \ {0}
        BY <2>4, PowerDoubles
    <2>7. PICK low \in 0 .. b - 1 : x = b * f[k] + low
        BY <2>3 DEF Shifted
    <2> HIDE DEF b
    <2>8. x \div b = f[k]
        BY <2>4, <2>6, <2>7, Quotient
    <2>9. f[k] % 2 = 1 <=> i \in d
        BY <2>4, <2>5
    <2>. QED BY <2>2, <2>8, <2>9 DEF b
<1>. QED BY <1>4, <1>5, <1>18 DEF x

\* g goes through the numbers the first k steps of a combo stand for, and c is
\* the slice of combos after k workloads: n steps each, in the order of the
\* numbers of the first k of them, the last with those workloads finished.
Counts(g, a, k) == g[0] = 0 /\ \A m \in 1 .. k : g[m] = 3 * g[m - 1] + a[m]
CombosOf(c, n, k, size) ==
    /\ DOMAIN c = 1 .. size /\ Len(c) = size
    /\ \A j \in 1 .. size : /\ c[j] \in [1 .. n -> Steps]
                            /\ \E g : Counts(g, c[j], k) /\ g[k] = j - 1
    /\ \A w \in 1 .. k : c[size][w] = LastStep

\* The length of a list that is written as a function.
LEMMA LenOf ==
    ASSUME NEW s, NEW n \in Nat, DOMAIN s = 1 .. n, s = [k \in 1 .. n |-> s[k]]
    PROVE  Len(s) = n /\ IsList(s)
<1>1. s \in Seq(ToSet(s))
    <2>1. s \in [1 .. n -> ToSet(s)]
        BY DEF ToSet
    <2>. QED BY <2>1
<1>2. Len(s) \in Nat /\ DOMAIN s = 1 .. Len(s)
    BY <1>1
<1>. QED BY <1>1, <1>2 DEF IsList

\* Three places for each of size: which of them, and which of the three.
LEMMA Thirds ==
    ASSUME NEW size \in Nat \ {0}, NEW i \in 1 .. 3 * size
    PROVE  \E q \in 0 .. size - 1, s \in 0 .. 2 :
                /\ i - 1 = 3 * q + s /\ (i - 1) \div 3 = q /\ (i - 1) % 3 = s
                /\ i = 3 * size => q + 1 = size /\ s = 2
<1> DEFINE q == (i - 1) \div 3
           s == (i - 1) % 3
<1>1. q \in Int /\ s \in 0 .. 2 /\ i - 1 = 3 * q + s
    OBVIOUS
<1>2. q \in 0 .. size - 1
    BY <1>1
<1>3. i = 3 * size => q + 1 = size /\ s = 2
    OBVIOUS
<1>. QED BY <1>1, <1>2, <1>3

\* One workload more: three combos for each.
LEMMA OneWorkload ==
    ASSUME NEW n \in Nat, NEW k \in Nat, k + 1 <= n, NEW c, NEW size \in Nat \ {0},
           CombosOf(c, n, k, size), NEW more,
           more = [i \in 1 .. 3 * size |->
                      [c[((i - 1) \div 3) + 1] EXCEPT ![k + 1] = (i - 1) % 3]]
    PROVE  CombosOf(more, n, k + 1, 3 * size)
<1>0. Steps = 0 .. 2 /\ LastStep = 2
    BY DEF Steps, LastStep
<1>2. DOMAIN more = 1 .. 3 * size /\ 3 * size \in Nat /\ 3 * size \in 1 .. 3 * size
    OBVIOUS
<1>3. Len(more) = 3 * size
    <2>1. more = [i \in 1 .. 3 * size |-> more[i]]
        OBVIOUS
    <2>. QED BY <1>2, <2>1, LenOf
<1>4. ASSUME NEW i \in 1 .. 3 * size
      PROVE  /\ more[i] \in [1 .. n -> Steps]
             /\ \E g : Counts(g, more[i], k + 1) /\ g[k + 1] = i - 1
             /\ i = 3 * size =>
                   more[i][k + 1] = 2 /\ \A w \in 1 .. k : more[i][w] = c[size][w]
    <2>0. PICK q \in 0 .. size - 1, s \in 0 .. 2 :
            /\ i - 1 = 3 * q + s /\ (i - 1) \div 3 = q /\ (i - 1) % 3 = s
            /\ i = 3 * size => q + 1 = size /\ s = 2
        BY Thirds
    <2> DEFINE a == c[q + 1]
               b == [a EXCEPT ![k + 1] = s]
    <2>1. more[i] = b
        BY <2>0
    <2>2. q + 1 \in 1 .. size /\ (q + 1) - 1 = q
        OBVIOUS
    <2>3. a \in [1 .. n -> Steps] /\ \E g : Counts(g, a, k) /\ g[k] = q
        BY <2>2 DEF CombosOf
    <2>4. PICK g : Counts(g, a, k) /\ g[k] = q
        BY <2>3
    <2> HIDE DEF a
    <2>5. /\ b \in [1 .. n -> Steps] /\ b[k + 1] = s
          /\ \A w \in 1 .. k : b[w] = a[w]
        BY <1>0, <2>3
    <2> HIDE DEF b
    <2> DEFINE h == [m \in 0 .. k + 1 |-> IF m = k + 1 THEN i - 1 ELSE g[m]]
    <2>6. h[0] = 0
        BY <2>4 DEF Counts
    <2>7. ASSUME NEW m \in 1 .. k + 1 PROVE h[m] = 3 * h[m - 1] + b[m]
        <3>1. CASE m = k + 1
            <4>1. h[m] = i - 1 /\ h[m - 1] = q
                BY <3>1, <2>4
            <4>. QED BY <4>1, <3>1, <2>5, <2>0
        <3>2. CASE m # k + 1
            <4>1. m \in 1 .. k /\ h[m] = g[m] /\ h[m - 1] = g[m - 1]
                BY <3>2
            <4>. QED BY <4>1, <2>4, <2>5 DEF Counts
        <3>. QED BY <3>1, <3>2
    <2>8. h[k + 1] = i - 1
        OBVIOUS
    <2> HIDE DEF h
    <2>9. Counts(h, b, k + 1)
        BY <2>6, <2>7 DEF Counts
    <2>. QED BY <2>0, <2>1, <2>5, <2>8, <2>9 DEF a
<1>5. \A w \in 1 .. k + 1 : more[3 * size][w] = LastStep
    <2>1. more[3 * size][k + 1] = 2 /\ \A w \in 1 .. k : more[3 * size][w] = c[size][w]
        BY <1>2, <1>4
    <2>2. \A w \in 1 .. k : c[size][w] = 2
        BY <1>0 DEF CombosOf
    <2>3. \A w \in 1 .. k + 1 : w \in 1 .. k \/ w = k + 1
        OBVIOUS
    <2>. QED BY <1>0, <2>1, <2>2, <2>3
<1>. QED BY <1>2, <1>3, <1>4, <1>5 DEF CombosOf

\* A combo's number is where the steps lead.
LEMMA CountsIndex ==
    ASSUME NEW n \in Nat, NEW a \in [1 .. n -> Steps], NEW g, Counts(g, a, n)
    PROVE  g[n] = ComboIndex(a)
<1> DEFINE f == Combo!Stages(0, 0, 0, a, n)
<1>1. Combo!Passes(f, 0, 0, 0, a, n)
    <2>1. DOMAIN a = 1 .. n
        OBVIOUS
    <2>. QED BY <2>1, Combo!FoldSteps
<1> HIDE DEF f
<1>2. /\ f[0] = 0 /\ f[n] = Combo!Fold(0, 0, 0, a)
      /\ \A k \in 1 .. n : f[k] = f[k - 1] * 3 + a[k]
    BY <1>1 DEF Combo!Passes
<1>3. Combo!Fold(0, 0, 0, a) = ComboIndex(a)
    BY DEF ComboIndex, Combo!Fold, FoldLeft, Combo!FoldLeft, MapThenFoldSet,
           Combo!MapThenFoldSet, Max, Combo!Max
<1> DEFINE S == {k \in Nat : k <= n => f[k] = g[k] /\ f[k] \in Nat}
<1>4. 0 \in S
    BY <1>2 DEF Counts
<1>5. ASSUME NEW k \in Nat, k \in S PROVE k + 1 \in S
    <2> SUFFICES ASSUME k + 1 <= n PROVE f[k + 1] = g[k + 1] /\ f[k + 1] \in Nat
        OBVIOUS
    <2>1. k + 1 \in 1 .. n /\ (k + 1) - 1 = k /\ f[k] = g[k] /\ f[k] \in Nat
        BY <1>5
    <2>2. f[k + 1] = f[k] * 3 + a[k + 1] /\ g[k + 1] = 3 * g[k] + a[k + 1]
        BY <1>2, <2>1 DEF Counts
    <2>3. a[k + 1] \in Nat
        BY <2>1 DEF Steps, LastStep
    <2>. QED BY <2>1, <2>2, <2>3
<1> HIDE DEF S
<1>6. n \in S
    BY <1>4, <1>5, Combo!Induction
<1>. QED BY <1>2, <1>3, <1>6 DEF S

\* The slice of combos holds them all, each at the place of its number.
LEMMA CombosAreNumbered ==
    ASSUME NEW p, IsPlan(p), NEW size, size = Cardinality([Workloads(p) -> Steps])
    PROVE  /\ size \in Nat \ {0}
           /\ DOMAIN Combos(p) = 1 .. size
           /\ \A j \in 1 .. size : /\ Combos(p)[j] \in [Workloads(p) -> Steps]
                                   /\ ComboIndex(Combos(p)[j]) = j - 1
<1> DEFINE n == Len(p.workloads)
           list == [w \in Workloads(p) |-> w]
           base == <<[w \in Workloads(p) |-> 0]>>
           f == Workload!Stages(0, 0, base, list, n)
<1>1. n \in Nat /\ Workloads(p) = 1 .. n
    BY DEF IsPlan, Workloads
<1>2. DOMAIN list = 1 .. n /\ \A k \in 1 .. n : list[k] = k
    BY <1>1
<1>3. Combos(p) = Workload!Fold(0, 0, base, list)
    BY DEF Combos, Workload!Fold, FoldLeft, Workload!FoldLeft, MapThenFoldSet,
           Workload!MapThenFoldSet, Max, Workload!Max
<1>4. CombosOf(base, n, 0, 1)
    <2> DEFINE a == [w \in Workloads(p) |-> 0]
    <2>1. a \in [1 .. n -> Steps]
        BY <1>1 DEF Steps, LastStep
    <2> HIDE DEF a
    <2>2. DOMAIN <<a>> = 1 .. 1 /\ Len(<<a>>) = 1 /\ <<a>>[1] = a
        OBVIOUS
    <2> DEFINE g == [m \in {0} |-> 0]
    <2>3. Counts(g, a, 0) /\ g[0] = 1 - 1
        BY DEF Counts
    <2> HIDE DEF g
    <2>4. \A j \in 1 .. 1 : j = 1
        OBVIOUS
    <2>5. CombosOf(<<a>>, n, 0, 1)
        BY <2>1, <2>2, <2>3, <2>4 DEF CombosOf
    <2>. QED BY <2>5 DEF a
<1> HIDE DEF n, list, base
<1>5. Workload!Passes(f, 0, 0, base, list, n)
    BY <1>1, <1>2, Workload!FoldSteps
<1> HIDE DEF f
<1>6. /\ f[0] = base /\ f[n] = Combos(p)
      /\ \A k \in 1 .. n :
            f[k] = [i \in 1 .. 3 * Len(f[k - 1]) |->
                      [f[k - 1][((i - 1) \div 3) + 1] EXCEPT ![k] = (i - 1) % 3]]
    BY <1>2, <1>3, <1>5 DEF Workload!Passes
<1> DEFINE S == {k \in Nat : k <= n => \E L \in Nat \ {0} : CombosOf(f[k], n, k, L)}
<1>7. 0 \in S
    BY <1>4, <1>6
<1>8. ASSUME NEW k \in Nat, k \in S PROVE k + 1 \in S
    <2> SUFFICES ASSUME k + 1 <= n PROVE \E L \in Nat \ {0} : CombosOf(f[k + 1], n, k + 1, L)
        OBVIOUS
    <2>1. PICK L \in Nat \ {0} : CombosOf(f[k], n, k, L)
        BY <1>1, <1>8
    <2>2. k + 1 \in 1 .. n /\ (k + 1) - 1 = k /\ Len(f[k]) = L
        BY <1>1, <2>1 DEF CombosOf
    <2>3. f[k + 1] = [i \in 1 .. 3 * L |->
                        [f[k][((i - 1) \div 3) + 1] EXCEPT ![k + 1] = (i - 1) % 3]]
        BY <1>6, <2>2
    <2>4. CombosOf(f[k + 1], n, k + 1, 3 * L)
        BY <1>1, <2>1, <2>3, OneWorkload
    <2>5. 3 * L \in Nat \ {0}
        OBVIOUS
    <2>. QED BY <2>4, <2>5
<1> HIDE DEF S
<1>9. n \in S
    BY <1>1, <1>7, <1>8, Combo!Induction
<1>10. PICK L \in Nat \ {0} : CombosOf(Combos(p), n, n, L)
    BY <1>1, <1>6, <1>9 DEF S
<1>11. /\ DOMAIN Combos(p) = 1 .. L
       /\ \A j \in 1 .. L : /\ Combos(p)[j] \in [1 .. n -> Steps]
                            /\ ComboIndex(Combos(p)[j]) = j - 1
    <2>1. ASSUME NEW j \in 1 .. L
          PROVE  Combos(p)[j] \in [1 .. n -> Steps] /\ ComboIndex(Combos(p)[j]) = j - 1
        <3>1. /\ Combos(p)[j] \in [1 .. n -> Steps]
              /\ \E g : Counts(g, Combos(p)[j], n) /\ g[n] = j - 1
            BY <1>10 DEF CombosOf
        <3>. QED BY <1>1, <3>1, CountsIndex
    <2>. QED BY <2>1, <1>10 DEF CombosOf
<1>12. size \in Nat \ {0} /\ ComboIndex([w \in 1 .. n |-> LastStep]) = size - 1
    BY <1>1, ComboNumbers
<1>13. Combos(p)[L] = [w \in 1 .. n |-> LastStep]
    <2>1. L \in 1 .. L /\ \A w \in 1 .. n : Combos(p)[L][w] = LastStep
        BY <1>10 DEF CombosOf
    <2>. QED BY <2>1, <1>11
<1>14. L = size
    <2>1. L \in 1 .. L
        OBVIOUS
    <2>2. size - 1 = L - 1
        BY <2>1, <1>11, <1>12, <1>13
    <2>. QED BY <2>2, <1>12
<1>. QED BY <1>1, <1>11, <1>12, <1>14

\* A slice of nodes, each at the place of its ID.
InPlace(p, nodes, size) ==
    /\ nodes \in Seq(Positions(p)) /\ Len(nodes) = size
    /\ \A k \in 1 .. size : NodeId(p, nodes[k]) = k - 1

\* The nodes of a combo have the numbers from the combo's row on.
LEMMA RowNumbers ==
    ASSUME NEW p, IsPlan(p), NEW combo \in [Workloads(p) -> Steps],
           NEW size, size = NumDuringVectors(p)
    PROVE  /\ size \in Nat \ {0}
           /\ Row(p, combo) \in Seq(Positions(p)) /\ Len(Row(p, combo)) = size
           /\ \A k \in 1 .. size :
                 NodeId(p, Row(p, combo)[k]) = ComboIndex(combo) * size + (k - 1)
<1>1. /\ size \in Nat \ {0}
      /\ \A x \in 0 .. size - 1 : \E d \in SUBSET During(p) : DuringVector(p, d) = x
    BY VectorNumbers
<1> DEFINE row == Row(p, combo)
<1>2. /\ DOMAIN row = 1 .. size /\ row = [k \in 1 .. size |-> row[k]]
      /\ \A k \in 1 .. size : row[k] = Position(combo, VectorSet(p, k - 1), {})
    BY DEF Row
<1> HIDE DEF row
<1>3. ASSUME NEW k \in 1 .. size
      PROVE  row[k] \in Positions(p) /\ NodeId(p, row[k]) = ComboIndex(combo) * size + (k - 1)
    <2>1. k - 1 \in 0 .. size - 1
        BY <1>1
    <2>2. PICK d \in SUBSET During(p) : DuringVector(p, d) = k - 1
        BY <2>1, <1>1
    <2>3. VectorSet(p, k - 1) = d
        BY <2>2, VectorSets
    <2>4. row[k] = Position(combo, d, {})
        BY <2>3, <1>2
    <2>5. row[k] \in Positions(p)
        BY <2>4 DEF Positions
    <2>6. row[k].after = {} /\ row[k].steps = combo /\ row[k].during = d
        BY <2>4 DEF Position
    <2>7. NodeId(p, row[k]) = ComboIndex(combo) * size + DuringVector(p, d)
        BY <2>6 DEF NodeId
    <2>. QED BY <2>2, <2>5, <2>7
<1>4. Len(row) = size
    BY <1>1, <1>2, LenOf
<1>5. row \in Seq(Positions(p))
    <2>1. row \in [1 .. size -> Positions(p)]
        BY <1>2, <1>3
    <2>. QED BY <2>1, <1>1
<1>. QED BY <1>1, <1>3, <1>4, <1>5 DEF row

\* One combo after the other, the lattice is appended in the order of the IDs.
LEMMA LatticeInPlace ==
    ASSUME NEW p, IsPlan(p)
    PROVE  LatticeSize(p) \in Nat \ {0} /\ InPlace(p, LatticeSlice(p), LatticeSize(p))
<1> DEFINE combos == Combos(p)
           S == Cardinality([Workloads(p) -> Steps])
           D == NumDuringVectors(p)
           f == Rows!Stages(p, 0, <<>>, combos, S)
<1>1. /\ S \in Nat \ {0} /\ DOMAIN combos = 1 .. S
      /\ \A j \in 1 .. S : /\ combos[j] \in [Workloads(p) -> Steps]
                           /\ ComboIndex(combos[j]) = j - 1
    BY CombosAreNumbered
<1>2. LatticeSize(p) = S * D
    BY DEF LatticeSize
<1>3. D \in Nat \ {0}
    BY VectorNumbers
<1>4. LatticeSlice(p) = Rows!Fold(p, 0, <<>>, combos)
    BY DEF LatticeSlice, Rows!Fold, FoldLeft, Rows!FoldLeft, MapThenFoldSet,
           Rows!MapThenFoldSet, Max, Rows!Max
<1> HIDE DEF S, combos
<1>5. Rows!Passes(f, p, 0, <<>>, combos, S)
    BY <1>1, Rows!FoldSteps
<1> HIDE DEF f
<1>6. /\ f[0] = <<>> /\ f[S] = LatticeSlice(p)
      /\ \A k \in 1 .. S : f[k] = f[k - 1] \o Row(p, combos[k])
    BY <1>4, <1>5 DEF Rows!Passes
<1>7. ASSUME NEW k \in 1 .. S
      PROVE  /\ Row(p, combos[k]) \in Seq(Positions(p)) /\ Len(Row(p, combos[k])) = D
             /\ \A v \in 1 .. D : NodeId(p, Row(p, combos[k])[v]) = (k - 1) * D + (v - 1)
    <2>1. combos[k] \in [Workloads(p) -> Steps] /\ ComboIndex(combos[k]) = k - 1
        BY <1>1
    <2> HIDE DEF D
    <2>2. D = NumDuringVectors(p)
        BY DEF D
    <2>3. /\ Row(p, combos[k]) \in Seq(Positions(p)) /\ Len(Row(p, combos[k])) = D
          /\ \A v \in 1 .. D :
                NodeId(p, Row(p, combos[k])[v]) = ComboIndex(combos[k]) * D + (v - 1)
        BY <2>1, <2>2, RowNumbers
    <2>. QED BY <2>1, <2>3
<1> HIDE DEF D
<1> DEFINE T == {k \in Nat : k <= S => InPlace(p, f[k], k * D)}
<1>8. 0 \in T
    <2>1. <<>> \in Seq(Positions(p)) /\ Len(<<>>) = 0 /\ 0 * D = 0
        BY <1>3
    <2>2. \A k \in 1 .. 0 : NodeId(p, <<>>[k]) = k - 1
        OBVIOUS
    <2>3. InPlace(p, f[0], 0 * D)
        BY <2>1, <2>2, <1>6 DEF InPlace
    <2>. QED BY <2>3
<1>9. ASSUME NEW k \in Nat, k \in T PROVE k + 1 \in T
    <2> SUFFICES ASSUME k + 1 <= S PROVE InPlace(p, f[k + 1], (k + 1) * D)
        OBVIOUS
    <2> DEFINE a == f[k]
               row == Row(p, combos[k + 1])
               L == k * D
    <2>1. k + 1 \in 1 .. S /\ (k + 1) - 1 = k /\ k <= S
        BY <1>1
    <2>2. L \in Nat /\ (k + 1) * D = L + D
        BY <1>3
    <2>3. a \in Seq(Positions(p)) /\ Len(a) = L /\ \A j \in 1 .. L : NodeId(p, a[j]) = j - 1
        BY <1>9, <2>1 DEF InPlace
    <2>4. /\ row \in Seq(Positions(p)) /\ Len(row) = D
          /\ \A v \in 1 .. D : NodeId(p, row[v]) = L + (v - 1)
        BY <1>7, <2>1
    <2>5. f[k + 1] = a \o row
        BY <1>6, <2>1
    <2> HIDE DEF a, row, L
    <2>6. /\ a \o row \in Seq(Positions(p)) /\ Len(a \o row) = L + D
          /\ \A j \in 1 .. L : (a \o row)[j] = a[j]
          /\ \A j \in L + 1 .. L + D : (a \o row)[j] = row[j - L]
        BY <1>3, <2>2, <2>3, <2>4
    <2>7. ASSUME NEW j \in 1 .. L + D PROVE NodeId(p, (a \o row)[j]) = j - 1
        <3>1. CASE j \in 1 .. L
            BY <3>1, <2>3, <2>6
        <3>2. CASE j \notin 1 .. L
            <4>1. j \in L + 1 .. L + D /\ j - L \in 1 .. D /\ L + (j - L - 1) = j - 1
                BY <3>2, <1>3, <2>2
            <4>2. (a \o row)[j] = row[j - L]
                BY <4>1, <2>6
            <4>3. NodeId(p, row[j - L]) = L + ((j - L) - 1)
                BY <4>1, <2>4
            <4>. QED BY <4>1, <4>2, <4>3
        <3>. QED BY <3>1, <3>2
    <2>. QED BY <2>2, <2>5, <2>6, <2>7 DEF InPlace
<1> HIDE DEF T
<1>10. S \in T
    BY <1>1, <1>8, <1>9, Combo!Induction
<1>11. S * D \in Nat \ {0}
    <2>1. 0 \in 0 .. S - 1 /\ 0 \in 0 .. D - 1
        BY <1>1, <1>3
    <2>. QED BY <2>1, <1>1, <1>3, RowMajor
<1>. QED BY <1>1, <1>2, <1>6, <1>10, <1>11 DEF T

\* The chain is appended behind it, in the order of the list.
LEMMA ChainInPlace ==
    ASSUME NEW p, IsPlan(p)
    PROVE  /\ Cardinality(After(p)) \in Nat
           /\ InPlace(p, NodeSlice(p), LatticeSize(p) + Cardinality(After(p)))
<1> DEFINE n == Len(p.migrations)
           list == [i \in DOMAIN p.migrations |-> i]
           base == LatticeSlice(p)
           f == Behind!Stages(p, 0, base, list, n)
           Sofar(k) == Cardinality(UpTo(p, k))
           lattice == LatticeSize(p)
<1>1. n \in Nat /\ DOMAIN list = 1 .. n /\ \A k \in 1 .. n : list[k] = k
    BY DEF IsPlan
<1>2. After(p) \subseteq 1 .. n
    BY DEF After, InPhase, IsPlan
<1>3. NodeSlice(p) = Behind!Fold(p, 0, base, list)
    BY DEF NodeSlice, Behind!Fold, FoldLeft, Behind!FoldLeft, MapThenFoldSet,
           Behind!MapThenFoldSet, Max, Behind!Max
<1>4. lattice \in Nat \ {0} /\ InPlace(p, base, lattice)
    BY LatticeInPlace
<1> HIDE DEF n, list, base, lattice
<1>5. Behind!Passes(f, p, 0, base, list, n)
    BY <1>1, Behind!FoldSteps
<1> HIDE DEF f
<1>6. /\ f[0] = base /\ f[n] = NodeSlice(p)
      /\ \A k \in 1 .. n :
            f[k] = IF k \in After(p)
                   THEN Append(f[k - 1], [RolloutComplete(p) EXCEPT !.after = UpTo(p, k)])
                   ELSE f[k - 1]
    BY <1>1, <1>3, <1>5 DEF Behind!Passes
<1>7. IsFiniteSet(After(p))
    <2>1. IsFiniteSet(1 .. n)
        BY <1>1, FS_Interval
    <2>. QED BY <2>1, <1>2, FS_Subset
<1>8. ASSUME NEW k \in Nat
      PROVE  /\ Sofar(k) \in Nat
             /\ k + 1 \in After(p) => Sofar(k + 1) = Sofar(k) + 1 /\ UpTo(p, k + 1) # {}
             /\ k + 1 \notin After(p) => Sofar(k + 1) = Sofar(k)
    <2> DEFINE A == UpTo(p, k)
               B == UpTo(p, k + 1)
    <2>0. ASSUME NEW j \in After(p) PROVE j <= k + 1 <=> j <= k \/ j = k + 1
        BY <1>2
    <2>1. A \subseteq After(p) /\ k + 1 \notin A
        BY DEF UpTo
    <2>2. k + 1 \in After(p) => B = A \cup {k + 1}
        BY <2>0 DEF UpTo
    <2>3. k + 1 \notin After(p) => B = A
        BY <2>0 DEF UpTo
    <2> HIDE DEF A, B
    <2>4. IsFiniteSet(A) /\ Cardinality(A) \in Nat
        BY <2>1, <1>7, FS_Subset, FS_CardinalityType
    <2>5. Cardinality(A \cup {k + 1}) = Cardinality(A) + 1
        BY <2>1, <2>4, FS_AddElement
    <2>. QED BY <2>2, <2>3, <2>4, <2>5 DEF A, B
<1>9. Sofar(0) = 0
    <2>1. ASSUME NEW j \in After(p) PROVE ~(j <= 0)
        BY <1>2
    <2>2. UpTo(p, 0) = {}
        BY <2>1 DEF UpTo
    <2>. QED BY <2>2, FS_EmptySet
<1>10. UpTo(p, n) = After(p)
    <2>1. ASSUME NEW j \in After(p) PROVE j <= n
        BY <1>1, <1>2
    <2>. QED BY <2>1 DEF UpTo
<1>11. ASSUME NEW k \in Nat, k \in After(p), NEW pos,
              pos = [RolloutComplete(p) EXCEPT !.after = UpTo(p, k)], UpTo(p, k) # {}
       PROVE  pos \in Positions(p) /\ NodeId(p, pos) = lattice + Sofar(k) - 1
    <2>1. pos \in Positions(p)
        BY <1>11 DEF Positions, Chain
    <2>2. pos.after = UpTo(p, k)
        BY <1>11 DEF RolloutComplete, Position
    <2>. QED BY <2>1, <2>2, <1>11 DEF NodeId, lattice
<1> HIDE DEF Sofar
<1> DEFINE T == {k \in Nat : k <= n => InPlace(p, f[k], lattice + Sofar(k))}
<1>12. 0 \in T
    <2>1. lattice + Sofar(0) = lattice
        BY <1>4, <1>9
    <2>. QED BY <2>1, <1>4, <1>6
<1>13. ASSUME NEW k \in Nat, k \in T PROVE k + 1 \in T
    <2> SUFFICES ASSUME k + 1 <= n PROVE InPlace(p, f[k + 1], lattice + Sofar(k + 1))
        OBVIOUS
    <2> DEFINE a == f[k]
               L == lattice + Sofar(k)
               pos == [RolloutComplete(p) EXCEPT !.after = UpTo(p, k + 1)]
    <2>1. k + 1 \in 1 .. n /\ (k + 1) - 1 = k /\ k <= n /\ k + 1 \in Nat
        BY <1>1
    <2>2. L \in Nat /\ InPlace(p, a, L)
        BY <1>4, <1>8, <1>13, <2>1
    <2>3. f[k + 1] = IF k + 1 \in After(p) THEN Append(a, pos) ELSE a
        BY <1>6, <2>1
    <2>4. CASE k + 1 \notin After(p)
        <3>1. Sofar(k + 1) = Sofar(k)
            BY <2>4, <1>8
        <3>. QED BY <2>2, <2>3, <2>4, <3>1
    <2>5. CASE k + 1 \in After(p)
        <3>1. Sofar(k + 1) = Sofar(k) + 1 /\ UpTo(p, k + 1) # {} /\ Sofar(k) \in Nat
            BY <2>5, <1>8
        <3>2. pos \in Positions(p) /\ NodeId(p, pos) = lattice + Sofar(k + 1) - 1
            BY <2>1, <2>5, <3>1, <1>11
        <3>3. NodeId(p, pos) = L /\ lattice + Sofar(k + 1) = L + 1
            BY <1>4, <3>1, <3>2
        <3> HIDE DEF a, L, pos
        <3>4. /\ Append(a, pos) \in Seq(Positions(p)) /\ Len(Append(a, pos)) = L + 1
              /\ \A j \in 1 .. L : Append(a, pos)[j] = a[j]
              /\ Append(a, pos)[L + 1] = pos
            BY <2>2, <3>2 DEF InPlace
        <3>5. \A j \in 1 .. L + 1 : NodeId(p, Append(a, pos)[j]) = j - 1
            <4>1. \A j \in 1 .. L + 1 : j \in 1 .. L \/ j = L + 1
                BY <2>2
            <4>2. (L + 1) - 1 = L
                BY <2>2
            <4>3. \A j \in 1 .. L : NodeId(p, a[j]) = j - 1
                BY <2>2 DEF InPlace
            <4>. QED BY <4>1, <4>2, <4>3, <3>3, <3>4
        <3>. QED BY <2>3, <2>5, <3>3, <3>4, <3>5 DEF InPlace
    <2>. QED BY <2>4, <2>5
<1> HIDE DEF T
<1>14. n \in T
    BY <1>1, <1>12, <1>13, Combo!Induction
<1>15. Sofar(n) = Cardinality(After(p)) /\ Sofar(n) \in Nat
    BY <1>1, <1>8, <1>10 DEF Sofar
<1>. QED BY <1>1, <1>6, <1>14, <1>15 DEF T, lattice

\* The slice holds every node once, at the place of its ID, the start first and
\* the target last.
LEMMA SliceInPlace ==
    ASSUME NEW p, IsPlan(p)
    PROVE  LET nodes == NodeSlice(p)
               size == Len(nodes)
           IN  /\ ToSet(nodes) = Positions(p) /\ size = Cardinality(Positions(p))
               /\ \A k \in 1 .. size : NodeId(p, nodes[k]) = k - 1
               /\ nodes[1] = StartPosition(p) /\ nodes[size] = TargetPosition(p)
<1> DEFINE nodes == NodeSlice(p)
           size == Len(nodes)
           all == Cardinality(Positions(p))
           S == Cardinality([Workloads(p) -> Steps])
           D == NumDuringVectors(p)
<1>1. /\ all \in Nat
      /\ \A pos \in Positions(p) : NodeId(p, pos) \in 0 .. all - 1
      /\ \A k, m \in Positions(p) : NodeId(p, k) = NodeId(p, m) => k = m
      /\ NodeId(p, StartPosition(p)) = 0
      /\ NodeId(p, TargetPosition(p)) = all - 1
    BY NodeNumbers
<1>2. /\ LatticeSize(p) \in Nat \ {0} /\ Cardinality(After(p)) \in Nat
      /\ InPlace(p, nodes, LatticeSize(p) + Cardinality(After(p)))
    BY LatticeInPlace, ChainInPlace
<1>3. /\ size = LatticeSize(p) + Cardinality(After(p)) /\ size \in Nat \ {0}
      /\ nodes \in Seq(Positions(p))
      /\ \A k \in 1 .. size : NodeId(p, nodes[k]) = k - 1
    BY <1>2 DEF InPlace
<1>4. StartPosition(p) \in Positions(p) /\ TargetPosition(p) \in Positions(p)
    BY TargetIsNode DEF StartPosition, Positions, Steps, LastStep
<1>5. size = all
    <2>1. TargetPosition(p) = Position([w \in Workloads(p) |-> LastStep], During(p), After(p))
        BY DEF TargetPosition, RolloutComplete, Position
    <2> DEFINE t == TargetPosition(p)
    <2>2. /\ t.after = After(p) /\ t.during = During(p)
          /\ t.steps = [w \in Workloads(p) |-> LastStep]
        BY <2>1 DEF Position
    <2> HIDE DEF t
    <2>3. CASE After(p) # {}
        <3>1. NodeId(p, t) = LatticeSize(p) + Cardinality(After(p)) - 1
            BY <2>2, <2>3 DEF NodeId
        <3>. QED BY <3>1, <1>1, <1>2, <1>3 DEF t
    <2>4. CASE After(p) = {}
        <3>1. /\ S \in Nat \ {0} /\ D \in Nat \ {0} /\ LatticeSize(p) = S * D
              /\ DuringVector(p, During(p)) = D - 1
            <4>1. LatticeSize(p) = S * D
                BY DEF LatticeSize
            <4>. QED BY <4>1, CombosAreNumbered, VectorNumbers
        <3>2. ComboIndex([w \in Workloads(p) |-> LastStep]) = S - 1
            <4> DEFINE n == Len(p.workloads)
            <4>1. n \in Nat /\ Workloads(p) = 1 .. n
                BY DEF IsPlan, Workloads
            <4> HIDE DEF n
            <4>. QED BY <4>1, ComboNumbers
        <3>3. NodeId(p, t) = (S - 1) * D + (D - 1)
            BY <2>2, <2>4, <3>1, <3>2 DEF NodeId
        <3> HIDE DEF S, D
        <3>4. (S - 1) * D + (D - 1) = S * D - 1
            <4>1. 0 \in 0 .. S - 1 /\ 0 \in 0 .. D - 1
                BY <3>1
            <4>. QED BY <4>1, <3>1, RowMajor
        <3>5. Cardinality(After(p)) = 0
            BY <2>4, FS_EmptySet
        <3>. QED BY <3>1, <3>3, <3>4, <3>5, <1>1, <1>2, <1>3 DEF t
    <2>. QED BY <2>3, <2>4
<1> HIDE DEF nodes, size, all
<1>6. DOMAIN nodes = 1 .. size /\ \A k \in 1 .. size : nodes[k] \in Positions(p)
    BY <1>3 DEF size
<1>7. ASSUME NEW pos \in Positions(p), NEW k \in 1 .. size, NodeId(p, pos) = k - 1
      PROVE  nodes[k] = pos
    BY <1>1, <1>3, <1>6, <1>7
<1>8. ToSet(nodes) = Positions(p)
    <2>1. ASSUME NEW pos \in Positions(p) PROVE pos \in ToSet(nodes)
        <3> DEFINE k == NodeId(p, pos) + 1
        <3>1. k \in 1 .. size /\ NodeId(p, pos) = k - 1
            BY <1>1, <1>5
        <3> HIDE DEF k
        <3>2. nodes[k] = pos
            BY <3>1, <1>7
        <3>. QED BY <3>1, <3>2, <1>6 DEF ToSet
    <2>2. ToSet(nodes) \subseteq Positions(p)
        BY <1>6 DEF ToSet
    <2>. QED BY <2>1, <2>2
<1>9. nodes[1] = StartPosition(p)
    <2>1. 1 \in 1 .. size /\ 1 - 1 = 0
        BY <1>3
    <2>. QED BY <2>1, <1>1, <1>4, <1>7
<1>10. nodes[size] = TargetPosition(p)
    <2>1. size \in 1 .. size
        BY <1>3
    <2>. QED BY <2>1, <1>1, <1>4, <1>5, <1>7
<1>. QED BY <1>3, <1>5, <1>8, <1>9, <1>10 DEF nodes, size, all

\* A node's ID is its place in the slice build appends it to: the nested loops
\* over the workloads, their steps and the during vectors append every node
\* once, in the order of comboIndex and nodeID, the chain follows, the start is
\* the first node and the target the last, and no edge leads backwards, for
\* every plan of any size.
THEOREM NodesAreNumbered == Spec => []IdsAreIndices
<1>1. Inv => IdsAreIndices
    <2> SUFFICES ASSUME Inv PROVE IdsAreIndices
        OBVIOUS
    <2>1. IsPlan(plan) /\ node \in Positions(plan)
        BY PlansAssumption DEF Inv, TypeOK
    <2> DEFINE nodes == NodeSlice(plan)
               size == Len(nodes)
    <2>2. /\ ToSet(nodes) = Positions(plan) /\ size = Cardinality(Positions(plan))
          /\ \A k \in 1 .. size : NodeId(plan, nodes[k]) = k - 1
          /\ nodes[1] = StartPosition(plan) /\ nodes[size] = TargetPosition(plan)
        BY <2>1, SliceInPlace
    <2>3. \A e \in OutEdges(plan, node) :
             e.to \in Positions(plan) /\ NodeId(plan, node) < NodeId(plan, e.to)
        BY <2>1, EdgesNumberUp
    <2>. QED BY <2>2, <2>3 DEF IdsAreIndices
<1>. QED BY <1>1, Invariance, PTL
=============================================================================
