------------------------------ MODULE GraphWalk ------------------------------
(***************************************************************************)
(* A walk over the transition graph built for a plan.  Every state the     *)
(* invariants look at is a node of this graph, and every counterexample    *)
(* they print is a walk from its start, so what the tool can say about a   *)
(* rollout is what these walks show of it.                                 *)
(*                                                                         *)
(* trail is a history variable: the order in which the walk committed the  *)
(* migrations.  The graph does not have it; a node only knows the set.     *)
(***************************************************************************)
EXTENDS TransitionGraph

CONSTANT Plans   \* the plans to build the graph of

ASSUME PlansAssumption == \A p \in Plans : IsPlan(p) /\ ValidPlan(p)

VARIABLES
    plan,     \* the plan the graph was built from
    node,     \* where the walk is, a position of the graph
    trail     \* the migrations in the order the walk committed them

vars == <<plan, node, trail>>

Init == /\ plan \in Plans
        /\ node = StartPosition(plan)
        /\ trail = <<>>

\* Follow a version-lattice edge.
FollowLattice ==
    \E e \in LatticeEdges(plan, node) :
        /\ node' = e.to
        /\ UNCHANGED <<plan, trail>>

\* Follow a during-migration edge.
FollowHypercube ==
    \E e \in HypercubeEdges(plan, node) :
        /\ node' = e.to
        /\ trail' = Append(trail, e.event.of)
        /\ UNCHANGED plan

\* Follow an edge of the after-migration chain.
FollowChain ==
    \E e \in ChainEdges(plan, node) :
        /\ node' = e.to
        /\ trail' = Append(trail, e.event.of)
        /\ UNCHANGED plan

Next == FollowLattice \/ FollowHypercube \/ FollowChain

\* A walk goes on while the node it is at has an outgoing edge.
Spec == Init /\ [][Next]_vars /\ WF_vars(Next)

-----------------------------------------------------------------------------

TypeOK ==
    /\ plan \in Plans
    /\ node \in Positions(plan)
    /\ trail \in Seq(DOMAIN plan.migrations)

\* The graph implements the rollout: every walk is a run of a real deployment,
\* so no counterexample path can be one the cluster could not go through.
R == INSTANCE Rollout WITH steps <- node.steps
ImplementsRollout == R!Spec

\* The graph misses no event: whatever the deployment may do next at the
\* node's point of the rollout is an outgoing edge with that event's label,
\* and an edge never runs out before the rollout does.
NoMissingEvent ==
    LET labels == {e.event : e \in OutEdges(plan, node)}
        commits == {i \in During(plan) : R!CanCommitDuring(i)}
                       \cup {i \in After(plan) : R!CanCommitAfter(i)}
    IN  labels = {[kind |-> "MigrationOpCommitted", of |-> i] : i \in commits}
                   \cup {[kind |-> StepEvent(plan.workloads[w], node.steps[w] + 1), of |-> w] :
                            w \in {v \in Workloads(plan) : R!CanAdvance(v)}}

\* The schema state a database is really in: the operations in commit order.
TrueState == StateAfter(plan, trail)

\* A node's schema state is the one the database is in when a rollout gets
\* there, whichever order the during-migrations committed in.
NodeTellsTruth == SameEvidence(SchemaStateAt(plan, node), TrueState)

\* The ID build computes for a node is the node's place in the slice it appends
\* it to, so that an edge, found by IDs, leads to the node that is meant: the
\* slice holds every node once, in the order of the IDs, the start first and
\* the target last, and an edge never leads backwards.
IdsAreIndices ==
    LET nodes == NodeSlice(plan)
        size == Len(nodes)
    IN  /\ ToSet(nodes) = Positions(plan) /\ size = Cardinality(Positions(plan))
        /\ \A k \in 1 .. size : NodeId(plan, nodes[k]) = k - 1
        /\ nodes[1] = StartPosition(plan) /\ nodes[size] = TargetPosition(plan)
        /\ \A e \in OutEdges(plan, node) :
              e.to \in ToSet(nodes) /\ NodeId(plan, node) < NodeId(plan, e.to)

\* Every walk ends at the graph's target and nowhere else: no dead end hides
\* states behind it.
ReachesTarget == <>[](node = TargetPosition(plan))
=============================================================================
