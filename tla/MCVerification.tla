--------------------------- MODULE MCVerification ---------------------------
(* One service going from v1 to v2 over two migrations, with every way its   *)
(* two versions may use the table, declared or not.                          *)
EXTENDS Verification, MCPlans, TLC

V1 == LiveVersion("api", "v1")
V2 == LiveVersion("api", "v2")
Web == LiveVersion("web", "v1")

\* No dependencies are declared here, and no versions compared.
MCOrdinalOf == <<>>

SmallType == [family |-> "integer", size |-> 1]

WebUse == Contract({Col("b")}, {Col("b")})

\* How a version may use the table.
MCUses ==
    { Contract({Col("a")}, {Col("a")}),
      Contract({Col("b")}, {Col("b")}),
      Contract({Col("c")}, {Col("b"), Col("c")}),
      Contract({}, {}) }

\* What one migration may do.
MCOperations ==
    { <<DropOp("a")>>, <<RenameOp("a", "c")>>, <<AlterOp("a", SmallType)>>,
      <<SetNotNullOp("b")>>, <<AddOp("c", FALSE, FALSE)>>, <<UnclassifiedOp>>,
      <<AlterOp("b", BigType), DropNotNullOp("b")>>,
      <<DropOp("a"), AddOp("a", TRUE, FALSE)>> }

MCRollback == {[service |-> "api", to |-> "v1", strategy |-> Rolling, replicas |-> 3]}
MCRollbacks == {{}, MCRollback}

PlanWith(strategy, rollback, migrations) ==
    [Plan(<<Change("api", "v1", "v2", strategy)>>, migrations) EXCEPT !.rollback = rollback]

\* Two migrations, in any phases; and a way back.
MCPairPlans ==
    {p \in {PlanWith(Rolling, MCRollback,
                     [i \in 1 .. 2 |-> Migration(<<"m1", "m2">>[i], phases[i], ops[i])]) :
              phases \in [1 .. 2 -> Phases], ops \in [1 .. 2 -> MCOperations]} :
        Independent(p)}

\* One migration, rolled out or recreated; an expand step followed, in any
\* phases, by its declared contract step; and a second, static workload.
MCSinglePlans ==
    {PlanWith(s, rb, <<Migration("m1", phase, ops)>>) :
        s \in {Rolling, Recreate}, rb \in MCRollbacks, phase \in Phases, ops \in MCOperations}
MCLinkedPlans ==
    {[PlanWith(Rolling, {}, <<Migration("m1", phases[1], <<AddOp("c", TRUE, FALSE)>>),
                              Migration("m2", phases[2], <<DropOp("a")>>)>>)
        EXCEPT !.links = {[expand |-> "m1", contract |-> "m2"]}] : phases \in [1 .. 2 -> Phases]}
MCStaticPlans ==
    {[p EXCEPT !.workloads = Append(@, Change("web", "v1", "v1", Rolling))] : p \in MCSinglePlans}

\* Contracts that tell the truth and leave nothing out, for a choice of the
\* versions that have one; the static workload always has.
Project(p, known, actual) ==
    [plan |-> p,
     services |-> [lv \in known \cup {Web} |-> IF lv = Web THEN WebUse ELSE actual[lv]],
     actual |-> (Web :> WebUse) @@ actual]

\* Every choice for one migration; two at once with contracts for both
\* versions, or for the new one only.
MCPlansAll ==
    UNION {MCPairPlans, MCSinglePlans, MCLinkedPlans,
           {p \in MCStaticPlans : p.workloads[1].strategy = Rolling}}

MCProjects ==
    {Project(x[1], x[2], x[3]) :
        x \in {y \in MCPlansAll \X (SUBSET {V1, V2}) \X [{V1, V2} -> MCUses] :
                 Len(y[1].migrations) = 2 => V2 \in y[2]}}

\* A constraint introduced and lifted again after the rollout, with a way back.
MCPassingConstraintProjects ==
    {Project(PlanWith(Rolling, rb, <<Migration("m1", "after", <<SetNotNullOp("b")>>),
                                     Migration("m2", "after", <<DropNotNullOp("b")>>)>>),
             {V1, V2}, actual) :
        rb \in MCRollbacks, actual \in [{V1, V2} -> MCUses]}
=============================================================================
