------------------------- MODULE RollbackInvariants -------------------------
(***************************************************************************)
(* Rollback safety: internal/invariant/rollback.go and rollback_plan.go.   *)
(*                                                                         *)
(* Four diagnostics judge the plan's rollback target against the schema    *)
(* the whole forward plan leaves behind, no migration being reverted.      *)
(***************************************************************************)
EXTENDS ColumnInvariants

\* The trail's operations that took a column away.
Removals(committed) ==
    {cop \in ToSet(committed) : cop.op.kind \in {"DropColumn", "RenameColumn"}}

\* What one committed removal says of restoring a version.
RollbackRisk(cop, svc) ==
    LET ref == TargetColumn(cop.op)
    IN  CASE ~TouchesTable(svc, ref.table) -> "UNKNOWN"
          [] TouchesTable(svc, ref.table) /\ ~UsesColumn(svc, ref) -> "SAFE"
          [] UsesColumn(svc, ref) /\ Reversibility(cop.op) = "Irreversible" -> "UNSAFE"
          [] UsesColumn(svc, ref) /\ Reversibility(cop.op) # "Irreversible" -> "CONDITIONALLY_SAFE"

\* EvaluateRollback folds them over the trail.
EvaluateRollback(committed, svc) ==
    FoldLeft(LAMBDA v, cop : IF cop \in Removals(committed)
                             THEN CombineRollback(v, RollbackRisk(cop, svc)) ELSE v,
             "SAFE", committed)

AnyLiveVersionWritesColumn(nodes, services, ref) ==
    \E n \in nodes : \E lv \in n.live :
        HasContract(services, lv) /\ WritesColumn(services[lv], ref)

\* RP-DB-007, and RP-ROLLBACK-001 under its own name.
EvaluateIrreversibleBeforeRollback(target, nodes, services, lv) ==
    LET removals == Removals(target.committed)
        svc == services[lv]
        silent == {cop \in removals : ~TouchesTable(svc, TargetColumn(cop.op).table)}
        lost == {cop \in removals \ silent :
                    /\ UsesColumn(svc, TargetColumn(cop.op))
                    /\ \/ Reversibility(cop.op) = "Irreversible"
                       \/ /\ Reversibility(cop.op) = "ConditionallyReversible"
                          /\ AnyLiveVersionWritesColumn(nodes, services, TargetColumn(cop.op))}
    IN  CASE ~HasContract(services, lv) -> Diagnostic("UNKNOWN", {})
          [] HasContract(services, lv) /\ lost # {} -> Diagnostic("UNSAFE", {ViolatingState(target)})
          [] HasContract(services, lv) /\ lost = {} ->
                Diagnostic(IF silent # {} THEN "UNKNOWN" ELSE "SAFE", {})

\* RP-ROLLBACK-002: the column family over the graph of the rollback itself.
RollbackFamily(rbPlan, services) ==
    EvaluateColumnFamily(rbPlan, Build(rbPlan), services, FALSE)

EvaluateOldVersionAgainstCurrentSchema(plan, services) ==
    IF CanBuildRollback(plan)
    THEN Dominant(RollbackFamily(BuildRollback(plan), services))
    ELSE Diagnostic("UNKNOWN", {})

\* Mutant: the classification looks at the trail only.
EvaluateRollbackAggregateOfTrail(target, services, lv, rollback001, rollback002) ==
    LET rb == IF HasContract(services, lv)
              THEN EvaluateRollback(target.committed, services[lv]) ELSE "UNKNOWN"
        worst == IF rollback001.verdict = "UNSAFE" THEN rollback001 ELSE rollback002
    IN  [Diagnostic(Combine(rollback001.verdict, rollback002.verdict), worst.counterexample)
            EXCEPT !.rollback = rb]

\* RP-ROLLBACK-003: the overall classification; conditionally safe is not safe.
EvaluateRollbackAggregate(target, services, lv, rollback001, rollback002) ==
    LET rb == IF HasContract(services, lv)
              THEN CombineRollback(EvaluateRollback(target.committed, services[lv]),
                                   VerdictToRollback(rollback002.verdict))
              ELSE "UNKNOWN"
        overall == Combine(rollback001.verdict, rollback002.verdict)
        verdict == IF rb = "CONDITIONALLY_SAFE" /\ overall = "SAFE" THEN "UNKNOWN" ELSE overall
        worst == IF rollback001.verdict = "UNSAFE" THEN rollback001 ELSE rollback002
    IN  [Diagnostic(verdict, worst.counterexample) EXCEPT !.rollback = rb]

\* RP-ROLLBACK-001 repeats RP-DB-007.
RollbackDiagnostics(target, services, lv, rollback001, rollback002) ==
    << rollback001, rollback001, rollback002,
       EvaluateRollbackAggregate(target, services, lv, rollback001, rollback002) >>
EvaluateRollbackTo(lv, target, plan, nodes, services) ==
    RollbackDiagnostics(target, services, lv,
        EvaluateIrreversibleBeforeRollback(target, nodes, services, lv),
        EvaluateOldVersionAgainstCurrentSchema(plan, services))

RollbackVersions(plan) == {LiveVersion(t.service, t.to) : t \in plan.rollback}

\* Mutant: a plan without a rollback target gets no diagnostics.
EvaluateRollbackPlanIfDeclared(plan, nodes, services) ==
    IF plan.rollback = {}
    THEN <<>>
    ELSE EvaluateRollbackTo(CHOOSE lv \in RollbackVersions(plan) : TRUE,
                            TargetState(plan, nodes), plan, nodes, services)

\* The four diagnostics; without a rollback target none applies.
EvaluateRollbackPlan(plan, nodes, services) ==
    IF plan.rollback = {}
    THEN [i \in 1 .. 4 |-> Diagnostic("SAFE", {})]
    ELSE EvaluateRollbackTo(CHOOSE lv \in RollbackVersions(plan) : TRUE,
                            TargetState(plan, nodes), plan, nodes, services)
=============================================================================
