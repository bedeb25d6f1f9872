--------------------------- MODULE TransitionGraph ---------------------------
(***************************************************************************)
(* The transition graph of a rollout plan: internal/graph/graph.go.        *)
(*                                                                         *)
(* A plan is a record                                                      *)
(*   base        the schema the rollout starts from                        *)
(*   workloads   a sequence of workload changes [service, from, to,        *)
(*               strategy, replicas]                                       *)
(*   migrations  a sequence of migrations [id, phase, operations]          *)
(*   rollback    the set holding the rollback target [service, to,         *)
(*               strategy, replicas], or the empty set                     *)
(*   links       the declared expand/contract pairs [expand, contract]     *)
(*   history, unknown    what build is seeded with beside the plan: the    *)
(*               operations already committed to reach base, and whether   *)
(*               base is already indeterminate                             *)
(*                                                                         *)
(* A node is named by its position: the point of the version lattice, the  *)
(* vertex of the during-migration hypercube and the place on the           *)
(* after-migration chain.  build computes an integer ID for it (NodeId)    *)
(* and appends it to the slice g.Nodes (NodeSlice); edges, start, target   *)
(* and searches then use the ID as an index into that slice.               *)
(***************************************************************************)
EXTENDS Schema, FiniteSets

\* The migrations of a phase, as positions in the plan's list: their order in
\* the list is the order of the phase's slice.
InPhase(plan, phase) ==
    {i \in DOMAIN plan.migrations : plan.migrations[i].phase = phase}
Before(plan) == InPhase(plan, "before")
During(plan) == InPhase(plan, "during")
After(plan) == InPhase(plan, "after")
Workloads(plan) == DOMAIN plan.workloads
Phases == {"before", "during", "after"}

\* Workloads, migrations, a migration's operations and the trail are lists, the
\* schema is a map, and there is at most one rollback target.
IsMap(f) == f = [x \in DOMAIN f |-> f[x]]
IsPlan(p) ==
    /\ Len(p.workloads) \in Nat /\ DOMAIN p.workloads = 1 .. Len(p.workloads)
    /\ Len(p.migrations) \in Nat /\ DOMAIN p.migrations = 1 .. Len(p.migrations)
    /\ \A i \in DOMAIN p.migrations : IsList(p.migrations[i].operations)
    /\ IsList(p.history) /\ IsMap(p.base) /\ p.unknown \in BOOLEAN
    /\ \A s, t \in p.rollback : s = t

\* A migration ID names the last migration of that ID.
MigrationsOf(p, id) ==
    {i \in DOMAIN p.migrations :
        /\ p.migrations[i].id = id
        /\ \A j \in DOMAIN p.migrations : p.migrations[j].id = id => j <= i}
HasOpKind(mig, kinds) == \E op \in ToSet(mig.operations) : op.kind \in kinds

\* The plans build accepts: those ir.NewRolloutPlan lets through, with at least
\* one workload change and every migration in a declared phase.
ValidPlan(p) ==
    /\ Len(p.workloads) > 0
    /\ \A i \in DOMAIN p.migrations : p.migrations[i].phase \in Phases
    /\ \A link \in p.links :
          /\ link.expand # link.contract
          /\ \E i \in MigrationsOf(p, link.expand) :
                HasOpKind(p.migrations[i], {"AddColumn"})
          /\ \E i \in MigrationsOf(p, link.contract) :
                HasOpKind(p.migrations[i], {"DropColumn", "DropNotNull"})

-----------------------------------------------------------------------------
(* Each workload's progression.                                            *)

\* IntOrPercent.Resolve rounds percentages up.
Resolve(v, total) ==
    IF v.percent THEN (total * v.value + 99) \div 100 ELSE v.value

AllowsCoexistence(w) ==
    /\ w.strategy.type = "RollingUpdate"
    /\ \/ Resolve(w.strategy.maxSurge, w.replicas) > 0
       \/ Resolve(w.strategy.maxUnavailable, w.replicas) < w.replicas

LiveVersion(service, version) == [service |-> service, version |-> version]

LastStep == 2
Steps == 0 .. LastStep

\* The versions of its service a workload change keeps live at a step.
LiveAt(w, step) ==
    LET old == LiveVersion(w.service, w.from)
        new == LiveVersion(w.service, w.to)
    IN  CASE step = 0 -> {old}
          [] step = 1 -> IF AllowsCoexistence(w) THEN {old, new} ELSE {}
          [] step = LastStep -> {new}

\* The event that takes a workload into a step.
StepEvent(w, step) ==
    IF AllowsCoexistence(w) <=> step = 1 THEN "NewReplicaReady"
                                         ELSE "OldReplicaTerminated"

-----------------------------------------------------------------------------
(* Nodes.                                                                  *)

\* The step of every workload, the committed during-migrations, and the
\* committed after-migrations.
Position(steps, during, after) ==
    [steps |-> steps, during |-> during, after |-> after]

StartPosition(plan) == Position([w \in Workloads(plan) |-> 0], {}, {})
\* Every workload has finished and every during-migration has committed.
RolloutComplete(plan) ==
    Position([w \in Workloads(plan) |-> LastStep], During(plan), {})
TargetPosition(plan) == [RolloutComplete(plan) EXCEPT !.after = After(plan)]

\* Mutant: an after-migration waits for the later ones too.
UpToLast(plan, n) == After(plan)

\* The after-migrations commit in the order of the list.
UpTo(plan, n) == {i \in After(plan) : i <= n}
Chain(plan) == {[RolloutComplete(plan) EXCEPT !.after = UpTo(plan, n)] : n \in After(plan)}

Positions(plan) ==
    {Position(s, d, {}) : s \in [Workloads(plan) -> Steps], d \in SUBSET During(plan)}
        \cup Chain(plan)

\* The IDs: row by row of the lattice times the hypercube, the chain after.  The
\* first during-migration is the lowest bit of a vector, so the last comes first.
FromLast(plan) == [k \in DOMAIN plan.migrations |-> Len(plan.migrations) + 1 - k]
DuringVector(plan, during) ==
    FoldLeft(LAMBDA dv, i : IF i \in during THEN 2 * dv + 1
                            ELSE IF i \in During(plan) THEN 2 * dv ELSE dv,
             0, FromLast(plan))
ComboIndex(steps) == FoldLeft(LAMBDA idx, s : idx * 3 + s, 0, steps)
NumDuringVectors(plan) == 2^Cardinality(During(plan))
LatticeSize(plan) == Cardinality([Workloads(plan) -> Steps]) * NumDuringVectors(plan)
NodeId(plan, pos) ==
    IF pos.after = {}
    THEN ComboIndex(pos.steps) * NumDuringVectors(plan) + DuringVector(plan, pos.during)
    ELSE LatticeSize(plan) + Cardinality(pos.after) - 1

\* Mutant: the loops over the combos and over the steps are swapped.
CombosStepFirst(plan) ==
    FoldLeft(LAMBDA combos, w :
                [k \in 1 .. 3 * Len(combos) |->
                    [combos[((k - 1) % Len(combos)) + 1] EXCEPT ![w] = (k - 1) \div Len(combos)]],
             <<[w \in Workloads(plan) |-> 0]>>, [w \in Workloads(plan) |-> w])

\* The points of the version lattice as a slice: one workload after the other,
\* every combo so far is continued by each step of the workload in turn.
Combos(plan) ==
    FoldLeft(LAMBDA combos, w :
                [k \in 1 .. 3 * Len(combos) |->
                    [combos[((k - 1) \div 3) + 1] EXCEPT ![w] = (k - 1) % 3]],
             <<[w \in Workloads(plan) |-> 0]>>, [w \in Workloads(plan) |-> w])

\* The migrations a during vector stands for: bit k is the k-th of the phase.
VectorSet(plan, dv) ==
    {i \in During(plan) : (dv \div 2^Cardinality({j \in During(plan) : j < i})) % 2 = 1}

\* The nodes in the order build appends them: for every combo all the during
\* vectors, then the chain, one after-migration of the list after the other.
Row(plan, combo) ==
    [k \in 1 .. NumDuringVectors(plan) |-> Position(combo, VectorSet(plan, k - 1), {})]
LatticeSlice(plan) ==
    FoldLeft(LAMBDA nodes, combo : nodes \o Row(plan, combo), <<>>, Combos(plan))
NodeSlice(plan) ==
    FoldLeft(LAMBDA nodes, i :
                IF i \in After(plan)
                THEN Append(nodes, [RolloutComplete(plan) EXCEPT !.after = UpTo(plan, i)])
                ELSE nodes,
             LatticeSlice(plan), [i \in DOMAIN plan.migrations |-> i])

\* The migrations of a set commit in the order the plan lists them.
ApplyInOrder(plan, st, committed) ==
    FoldLeft(LAMBDA s, i : IF i \in committed THEN ApplyOne(s, plan.migrations[i]) ELSE s,
             st, [i \in DOMAIN plan.migrations |-> i])

\* Mutant: the during-migrations on top of the plan's schema, not of the
\* before-migrations.
DuringSubsetOfPlanBase(plan, during) ==
    ApplyInOrder(plan, SchemaState(plan.base, plan.history, FALSE), during)

\* What every node starts from, a subset of the during-migrations on top of
\* it, and the after-migrations on top of all of them.
BaseState(plan) ==
    LET st == ApplyInOrder(plan, SchemaState(plan.base, plan.history, FALSE), Before(plan))
    IN  [st EXCEPT !.indeterminate = @ \/ plan.unknown]
DuringSubset(plan, during) == ApplyInOrder(plan, BaseState(plan), during)
SchemaStateAt(plan, pos) ==
    ApplyInOrder(plan, DuringSubset(plan, pos.during), pos.after)

LiveSet(plan, steps) ==
    UNION {LiveAt(plan.workloads[w], steps[w]) : w \in Workloads(plan)}

\* A node of the graph as the invariants see it, from its schema state.
RolloutState(plan, pos, st) ==
    [id |-> NodeId(plan, pos), at |-> pos, live |-> LiveSet(plan, pos.steps),
     schema |-> st.schema, committed |-> st.committed, indeterminate |-> st.indeterminate]

\* The nodes of the graph build returns; its Start and Target are the nodes of
\* the start and target positions.
Build(plan) == {RolloutState(plan, pos, SchemaStateAt(plan, pos)) : pos \in Positions(plan)}

\* The events between the start and a node.  Every edge advances one workload
\* by one step or commits one migration, so this is the length of every walk
\* to the node, the shortest included (ShortestPath).
EventsTo(pos) ==
    FoldLeft(LAMBDA n, s : n + s, 0, pos.steps)
        + Cardinality(pos.during) + Cardinality(pos.after)

-----------------------------------------------------------------------------
(* Edges.                                                                  *)

Edge(from, to, event) == [from |-> from, to |-> to, event |-> event]

\* Advance one workload by one step, the committed migrations held fixed.
LatticeEdges(plan, pos) ==
    {Edge(pos, [pos EXCEPT !.steps[w] = @ + 1],
          [kind |-> StepEvent(plan.workloads[w], pos.steps[w] + 1), of |-> w]) :
       w \in {v \in Workloads(plan) : pos.after = {} /\ pos.steps[v] < LastStep}}

\* Mutants: during-migrations only in the order of the list; and none once the
\* workloads are done.
HypercubeEdgesInOrder(plan, pos) ==
    {Edge(pos, [pos EXCEPT !.during = @ \cup {i}],
          [kind |-> "MigrationOpCommitted", of |-> i]) :
       i \in {k \in During(plan) \ pos.during :
                /\ pos.after = {}
                /\ \A j \in During(plan) \ pos.during : k <= j}}
HypercubeEdgesWhileRolling(plan, pos) ==
    {Edge(pos, [pos EXCEPT !.during = @ \cup {i}],
          [kind |-> "MigrationOpCommitted", of |-> i]) :
       i \in {k \in During(plan) \ pos.during :
                \E w \in Workloads(plan) : pos.steps[w] < LastStep}}

\* Commit one pending during-migration, the workloads held fixed.
HypercubeEdges(plan, pos) ==
    {Edge(pos, [pos EXCEPT !.during = @ \cup {i}],
          [kind |-> "MigrationOpCommitted", of |-> i]) :
       i \in {k \in During(plan) \ pos.during : pos.after = {}}}

\* Mutants: any after-migration next; and the chain hung on every node.
ChainEdgesInAnyOrder(plan, pos) ==
    {Edge(pos, [pos EXCEPT !.after = @ \cup {i}],
          [kind |-> "MigrationOpCommitted", of |-> i]) :
       i \in {k \in After(plan) \ pos.after :
                pos \in Chain(plan) \cup {RolloutComplete(plan)}}}
ChainEdgesFromAnywhere(plan, pos) ==
    {Edge(pos, [pos EXCEPT !.after = @ \cup {i}],
          [kind |-> "MigrationOpCommitted", of |-> i]) :
       i \in {k \in After(plan) \ pos.after : UpTo(plan, k) \ {k} \subseteq pos.after}}

\* Commit the next after-migration, from the completed rollout on.
ChainEdges(plan, pos) ==
    {Edge(pos, [pos EXCEPT !.after = @ \cup {i}],
          [kind |-> "MigrationOpCommitted", of |-> i]) :
       i \in {k \in After(plan) \ pos.after :
                /\ pos \in Chain(plan) \cup {RolloutComplete(plan)}
                /\ UpTo(plan, k) \ {k} \subseteq pos.after}}

OutEdges(plan, pos) ==
    LatticeEdges(plan, pos) \cup HypercubeEdges(plan, pos) \cup ChainEdges(plan, pos)

-----------------------------------------------------------------------------
(* The operational rollback of a plan with exactly one workload change: the *)
(* reverse version change over a schema state with its whole trail kept as  *)
(* history; it commits nothing itself.                                      *)

CanBuildRollback(plan) == plan.rollback # {} /\ Len(plan.workloads) = 1

RollbackPlan(plan, final) ==
    LET target == CHOOSE t \in plan.rollback : TRUE
        change == [service |-> target.service,
                   from |-> plan.workloads[1].to, to |-> target.to,
                   strategy |-> target.strategy, replicas |-> target.replicas]
    IN  [base |-> final.schema, workloads |-> <<change>>, migrations |-> <<>>,
         rollback |-> {}, links |-> {},
         history |-> final.committed, unknown |-> final.indeterminate]

\* Mutant: the rollback starts from the schema the forward plan starts from.
BuildRollbackOverOldSchema(plan) ==
    RollbackPlan(plan, SchemaState(plan.base, plan.history, FALSE))

\* BuildRollback starts from the schema state of the forward plan's target.
BuildRollback(plan) == RollbackPlan(plan, SchemaStateAt(plan, TargetPosition(plan)))

-----------------------------------------------------------------------------
(* What the database goes through, for a node's schema state to be held     *)
(* against.                                                                 *)

\* The schema state after migrations committed in the order of a trail.
StateAfter(plan, trail) ==
    FoldLeft(LAMBDA st, i : ApplyOne(st, plan.migrations[i]), BaseState(plan), trail)

\* Two schema states an invariant cannot tell apart: an indeterminate state is
\* only ever a gap; otherwise the columns and the set of committed operations,
\* with the types they changed, are what is looked at.
SameEvidence(a, b) ==
    /\ a.indeterminate = b.indeterminate
    /\ ~a.indeterminate => /\ a.schema = b.schema
                           /\ ToSet(a.committed) = ToSet(b.committed)

\* The columns an operation names, and those a migration's operations name.
Names(op) ==
    {TargetColumn(op)} \cup (IF op.kind = "RenameColumn" THEN {RenamedColumn(op)} ELSE {})
ColumnsOf(mig) == UNION {Names(op) : op \in ToSet(mig.operations)}

\* No two during-migrations name a column in common.
Independent(p) ==
    \A i, j \in During(p) :
        i # j => ColumnsOf(p.migrations[i]) \cap ColumnsOf(p.migrations[j]) = {}
=============================================================================
