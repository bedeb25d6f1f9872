---------------------------- MODULE Verification ----------------------------
(***************************************************************************)
(* The tool and the deployment it judges: internal/verify Run, then the    *)
(* rollout itself, then, when the plan names a rollback target, the        *)
(* rollback from its end.                                                  *)
(*                                                                         *)
(* A project is a record                                                   *)
(*   plan       the rollout plan                                           *)
(*   services   the contracts found (Contracts)                            *)
(*   actual     what every version really does, in the same form; a        *)
(*              version without a contract may do anything                 *)
(* and the deployment goes on whatever the verdict: the properties say     *)
(* what the verdict was worth.                                             *)
(***************************************************************************)
EXTENDS Evaluation

CONSTANT Projects

ASSUME ProjectsAssumption == \A p \in Projects : IsPlan(p.plan) /\ ValidPlan(p.plan)

VARIABLES
    project,   \* what is verified and deployed
    report,    \* the diagnostics, <<>> before the tool has run
    plan,      \* the plan being carried out, forward or back
    steps,     \* of plan, as in Rollout
    trail      \* of plan, as in Rollout

vars == <<project, report, plan, steps, trail>>

\* The deployment; Deploy uses its steps only.
D == INSTANCE Rollout WITH Plans <- {p.plan : p \in Projects}

Init == /\ project \in Projects
        /\ plan = project.plan
        /\ steps = [w \in Workloads(plan) |-> 0]
        /\ trail = <<>>
        /\ report = <<>>

Verified == report # <<>>

\* The tool runs before anything is deployed.
Verify == /\ ~Verified
          /\ report' = Run(project)
          /\ UNCHANGED <<project, plan, steps, trail>>

\* The deployment takes its next step.
Deploy == /\ Verified
          /\ D!Next
          /\ UNCHANGED <<project, report>>

\* The state the database is really in.
TrueState == StateAfter(plan, trail)
Live == LiveSet(plan, steps)

Done == D!WorkloadsDone /\ D!Committed = During(plan) \cup After(plan)

\* The rollout is over and is rolled back: the versions change back, the
\* schema stays as it is.
RollBack ==
    /\ Verified /\ Done
    /\ CanBuildRollback(plan)
    /\ plan' = RollbackPlan(plan, TrueState)
    /\ steps' = [w \in {1} |-> 0]
    /\ trail' = <<>>
    /\ UNCHANGED <<project, report>>

Next == Verify \/ Deploy \/ RollBack

Spec == Init /\ [][Next]_vars

-----------------------------------------------------------------------------
(* What really goes wrong when a version is live on a schema.              *)

\* The database rejects a query on a column that is not there, and a write
\* that leaves out a column every row must have.
Misses(lv, access, schema) == project.actual[lv][access] \ DOMAIN schema
Rejected(lv, schema) ==
    {ref \in Required(schema) : OmitsColumn(project.actual[lv], ref)}
\* A value of the type the column had before no longer fits.
Narrowed(lv, committed) ==
    {cop \in ToSet(committed) : /\ cop.op.kind = "AlterColumnType"
                                /\ UsesColumn(project.actual[lv], TargetColumn(cop.op))
                                /\ NonWidening(cop)}

Broken(lv, st) ==
    \/ st.indeterminate
    \/ Misses(lv, "reads", st.schema) # {}
    \/ Misses(lv, "writes", st.schema) # {}
    \/ Rejected(lv, st.schema) # {}
    \/ Narrowed(lv, st.committed) # {}
SomeBroken(live) == LET st == TrueState IN \E lv \in live : Broken(lv, st)

-----------------------------------------------------------------------------

Forward == plan = project.plan
CommitsSomething == \E m \in ToSet(project.plan.migrations) : m.operations # <<>>
VerdictOf(i) == report[i].verdict
\* The diagnostics by their place in the report.
ColumnReads == 1
ColumnWrites == 2
TypeChange == 3
NotNull == 4
ContractSequence == 6
Irreversible == 7
OnNewSchema == 9
RollbackOverall == 10
Endpoint == 11
RequestField == 12
ResponseField == 13
ApiOverall == 14
Ordering == 15
Readiness == 19
Termination == 20

TypeOK ==
    /\ steps \in [Workloads(plan) -> Steps]
    /\ trail \in Seq(DOMAIN plan.migrations)
    /\ Verified => /\ Len(report) = 21
                   /\ \A i \in 1 .. 21 : /\ report[i].verdict \in VerdictValues
                                         /\ report[i].rollback \in RollbackVerdictValues

\* SAFE is a promise: a plan that commits migrations and is declared SAFE
\* breaks no live version at any moment of any rollout, whatever a version
\* without a contract may do, nor when it is rolled back afterwards.
SafeMeansSafe ==
    Verified /\ CommitsSomething /\ Aggregate(report) = "SAFE"
        => ~SomeBroken(Live)

\* RP-ROLLBACK-002 alone answers for the rollback, whatever the forward
\* verdicts are.
RollbackSafeMeansSafe ==
    Verified /\ ~Forward /\ VerdictOf(OnNewSchema) = "SAFE"
        => ~SomeBroken(Live)

\* A rollback RP-DB-007 lets through restores no version whose column was
\* dropped, with its data, on the way.
RollbackLosesNoData ==
    Verified /\ ~Forward /\ VerdictOf(Irreversible) = "SAFE"
        => \A t \in project.plan.rollback, cop \in ToSet(TrueState.committed) :
              cop.op.kind = "DropColumn" =>
                ~UsesColumn(project.actual[LiveVersion(t.service, t.to)], TargetColumn(cop.op))

\* What a diagnostic is about, at a moment of the rollout, for the versions
\* with a contract; a column that was renamed away is RP-DB-005's.
Declared == {lv \in Live : HasContract(project.services, lv)}
ColumnHazards == {ColumnReads, ColumnWrites, TypeChange, NotNull}
ColumnHazardIn(i, st) ==
    LET gone(lv, access) == {ref \in Misses(lv, access, st.schema) :
                               ~RenamedAway(st.committed, ref)}
    IN  /\ ~st.indeterminate
        /\ \E lv \in Declared :
              CASE i = ColumnReads -> gone(lv, "reads") # {}
                [] i = ColumnWrites -> gone(lv, "writes") # {}
                [] i = TypeChange -> Narrowed(lv, st.committed) # {}
                [] i = NotNull -> Rejected(lv, st.schema) # {}
ColumnHazard(i) == ColumnHazardIn(i, TrueState)

\* A call a live version really makes reaches some live version that serves the
\* contract and fails there.
CallHazards == {Endpoint, RequestField, ResponseField}
CallHazard(i) ==
    \E lv \in Declared, plv \in Declared :
        \E call \in {c \in project.actual[lv].consumes :
                        c.contract \in DOMAIN project.actual[plv].provides} :
            LET served == project.actual[plv].provides[call.contract]
            IN  CASE i = Endpoint -> call.operation \notin DOMAIN served
                  [] i # Endpoint /\ call.operation \in DOMAIN served ->
                        IF i = RequestField
                        THEN served[call.operation].request \ call.sent # {}
                        ELSE call.required \ served[call.operation].response # {}
                  [] OTHER -> FALSE

Happens(i) == IF i \in ColumnHazards THEN ColumnHazard(i) ELSE CallHazard(i)

Here == Position(steps, D!Committed \cap During(plan), D!Committed \cap After(plan))
\* Where the counterexample of a diagnostic is, if it has one.
WhereOf(i) == {state.at : state \in report[i].counterexample}

\* A counterexample of RP-DB-001 to 004 or of the three RP-API checks is real: a
\* rollout that gets to the violating state breaks there as the diagnostic says.
CounterexampleIsReal ==
    Verified /\ Forward =>
        \A i \in ColumnHazards \cup CallHazards :
            WhereOf(i) = {Here} => Happens(i)

\* A counterexample of one of these seven is the earliest: nothing the diagnostic
\* is about happens in fewer events than its path has (architecture 4.4).
CounterexampleIsEarliest ==
    Verified /\ Forward =>
        \A i \in ColumnHazards \cup CallHazards : \A pos \in WhereOf(i) :
            EventsTo(Here) < EventsTo(pos) => ~Happens(i)

\* RP-ROLLBACK-003 scans the trail a second time, for its own classification:
\* the two scans never disagree on what is safe.
RollbackVerdictsAgree ==
    Verified /\ project.plan.rollback # {} =>
        (VerdictOf(RollbackOverall) = "SAFE" <=> report[RollbackOverall].rollback = "SAFE")

\* The migrations the database has executed.  The before-migrations are not on
\* the trail: they are in the state every rollout starts from.
Executed == Before(plan) \cup D!Committed

\* A contract step RP-DB-006 accepts is not executed, in any phase, until every
\* version it could break is gone.
ContractWaits ==
    Verified /\ Forward /\ VerdictOf(ContractSequence) = "SAFE" =>
        \A link \in plan.links, i \in Executed :
            plan.migrations[i].id = link.contract => D!WorkloadsDone

\* When RP-API is SAFE every call any live version makes, at any moment of the
\* rollout, has a live version to answer it and works with all that may.
CallsAreServed ==
    Verified /\ Forward /\ AnyAPIUsageDeclared(project.services)
        /\ VerdictOf(ApiOverall) = "SAFE" =>
            /\ \A lv \in Live, call \in UNION {project.actual[v].consumes : v \in Live} :
                  call \in project.actual[lv].consumes =>
                      \E plv \in Live : call.contract \in DOMAIN project.actual[plv].provides
            /\ \A i \in CallHazards : ~CallHazard(i)

\* When RP-ORDER is SAFE no live version with a minimum for a service is ever
\* without a live version of it, nor beside one that is older.
DependenciesMet ==
    Verified /\ Forward /\ AnyDependencyDeclared(project.services)
        /\ VerdictOf(Ordering) = "SAFE" =>
            \A lv \in Live : \A dep \in project.actual[lv].dependsOn :
                dep.min # Unconstrained =>
                    /\ LiveProviders(Live, dep) # {}
                    /\ \A plv \in LiveProviders(Live, dep) :
                          Comparable(plv.version, dep.min) /\ ~TooOld(plv.version, dep.min)

\* When RP-K8S-002 is SAFE a new version whose readiness waits for nothing is
\* never live before the new versions it depends on.
TrafficWaits ==
    Verified /\ Forward /\ VerdictOf(Readiness) = "SAFE" =>
        \A w \in Workloads(plan) : \A name \in plan.workloads[w].dependsOn :
            plan.workloads[w].readiness = "ignores" /\ NewVersion(plan.workloads[w]) \in Live =>
                \E d \in Workloads(plan) : /\ plan.workloads[d].name = name
                                           /\ NewVersion(plan.workloads[d]) \in Live

\* When RP-K8S-003 is SAFE no column is gone while a version with a PreStop
\* hook is being replaced, as long as the schema is known.
DrainsUndisturbed ==
    Verified /\ Forward /\ VerdictOf(Termination) = "SAFE" /\ ~TrueState.indeterminate =>
        \A w \in Workloads(plan) :
            /\ plan.workloads[w].drains
            /\ plan.workloads[w].from # plan.workloads[w].to
            /\ AllowsCoexistence(plan.workloads[w]) \/ plan.workloads[w].strategy.type = "Recreate"
            /\ steps[w] = 1
            => \A cop \in ToSet(TrueState.committed) : cop.op.kind # "DropColumn"

-----------------------------------------------------------------------------
(* What the documents and comments say, and the code does not do.          *)

\* internal/invariant/rollback_plan.go, V1 scoping: judging the rollback from
\* the end of the plan is conservative for every earlier rollback point.
LatestIsConservative ==
    Verified /\ Forward /\ D!WorkloadsDone /\ Aggregate(report) = "SAFE" =>
        ~SomeBroken({LiveVersion(t.service, t.to) : t \in plan.rollback})

\* docs/adr/0007 and internal/ir/service.go, ServiceDependency: a dependency
\* without a minimum version leaves the ordering UNKNOWN, not assumed compatible.
UnconstrainedIsUnknown ==
    Verified /\ Forward => \A lv \in Declared : \A dep \in project.services[lv].dependsOn :
        dep.min = Unconstrained => VerdictOf(Ordering) # "SAFE"
=============================================================================
