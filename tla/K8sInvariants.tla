---------------------------- MODULE K8sInvariants ----------------------------
(***************************************************************************)
(* The RP-K8S family: internal/invariant/rpk8s.go.                         *)
(*                                                                         *)
(* A workload change carries, beside what TransitionGraph says of it,      *)
(*   name        its Deployment's name                                     *)
(*   dependsOn   the names of the Deployments it depends on                *)
(*   readiness   "none", "ignores" or "waits": no readiness probe; one     *)
(*               that does not wait for the dependencies; one that does    *)
(*   drains      whether it has a PreStop hook and a grace period for it   *)
(***************************************************************************)
EXTENDS OrderInvariants

OldVersion(w) == LiveVersion(w.service, w.from)
NewVersion(w) == LiveVersion(w.service, w.to)

\* RP-K8S-001: the first counterexample with several versions live is echoed.
EvaluateCoexistenceIncompatibility(diags) ==
    LET mixed == {i \in DOMAIN diags :
                    /\ diags[i].verdict = "UNSAFE"
                    /\ \E state \in diags[i].counterexample : Cardinality(state.live) > 1}
    IN  IF mixed = {}
        THEN Diagnostic("SAFE", {})
        ELSE Diagnostic("UNSAFE",
                diags[CHOOSE i \in mixed : \A j \in mixed : i <= j].counterexample)

-----------------------------------------------------------------------------
(* RP-K8S-002: readiness before dependencies.                              *)

\* The last workload change of a Deployment name.
Named(plan, name) ==
    {w \in Workloads(plan) : /\ plan.workloads[w].name = name
                             /\ \A v \in Workloads(plan) :
                                   plan.workloads[v].name = name => v <= w}

\* The dependencies taken on before they are ready, when nothing waits.
Unawaited(plan) ==
    {p \in Workloads(plan) \X Workloads(plan) :
        /\ plan.workloads[p[1]].readiness = "ignores"
        /\ \E name \in plan.workloads[p[1]].dependsOn : p[2] \in Named(plan, name)}

\* Without a probe nothing is known; nor of a Deployment the plan leaves out.
UnknownReadiness(plan) ==
    \E w \in Workloads(plan) :
        /\ plan.workloads[w].dependsOn # {}
        /\ \/ plan.workloads[w].readiness = "none"
           \/ /\ plan.workloads[w].readiness = "ignores"
              /\ \E name \in plan.workloads[w].dependsOn : Named(plan, name) = {}

\* Mutant: only the dependency's old version is looked for.
ReadinessFindingOldVersionOnly(n, plan) ==
    Finding({p \in Unawaited(plan) :
                /\ NewVersion(plan.workloads[p[1]]) \in n.live
                /\ OldVersion(plan.workloads[p[2]]) \in n.live
                /\ NewVersion(plan.workloads[p[2]]) \notin n.live},
            UnknownReadiness(plan))

ReadinessFinding(n, plan) ==
    Finding({p \in Unawaited(plan) : /\ NewVersion(plan.workloads[p[1]]) \in n.live
                                     /\ NewVersion(plan.workloads[p[2]]) \notin n.live},
            UnknownReadiness(plan))

EvaluateReadinessBeforeDependency(plan, nodes) ==
    Diagnose({<<n, ReadinessFinding(n, plan)>> : n \in nodes})

-----------------------------------------------------------------------------
(* RP-K8S-003: a column dropped while an old version may be draining.      *)

\* The last change of each service that has a PreStop hook to run; only a
\* rolling update has a state that may stand for its draining.
Draining(plan) ==
    {w \in Workloads(plan) :
        /\ plan.workloads[w].drains
        /\ \A v \in Workloads(plan) :
              plan.workloads[v].drains /\ plan.workloads[v].service = plan.workloads[w].service
                  => v <= w}
Evaluable(plan) ==
    {w \in Draining(plan) : plan.workloads[w].strategy.type = "RollingUpdate"}

\* Mutant: a strategy whose draining no state stands for is passed over in
\* silence.
TerminationFindingWithoutGap(n, plan) ==
    Finding({w \in Evaluable(plan) :
                /\ ~n.indeterminate
                /\ Cardinality(n.live) >= 2
                /\ OldVersion(plan.workloads[w]) \in n.live
                /\ \E cop \in ToSet(n.committed) : cop.op.kind = "DropColumn"},
            FALSE)

\* Two live versions, of whatever services, stand for an old one draining; an
\* indeterminate node is passed over.
TerminationFinding(n, plan) ==
    Finding({w \in Evaluable(plan) :
                /\ ~n.indeterminate
                /\ Cardinality(n.live) >= 2
                /\ OldVersion(plan.workloads[w]) \in n.live
                /\ \E cop \in ToSet(n.committed) : cop.op.kind = "DropColumn"},
            Evaluable(plan) # Draining(plan))

EvaluateTerminationConflict(plan, nodes) ==
    Diagnose({<<n, TerminationFinding(n, plan)>> : n \in nodes})

-----------------------------------------------------------------------------

\* RP-K8S-004: the structural pattern, when versions may coexist at all.
EvaluateUnsafeCompatibilityWindow(plan) ==
    IF /\ \E w \in Workloads(plan) : AllowsCoexistence(plan.workloads[w])
       /\ UndeclaredDestruction(plan)
    THEN Advisory
    ELSE Diagnostic("SAFE", {})

\* The four diagnostics; diags are those of every family before.
EvaluateK8s(plan, nodes, diags) ==
    << EvaluateCoexistenceIncompatibility(diags),
       EvaluateReadinessBeforeDependency(plan, nodes),
       EvaluateTerminationConflict(plan, nodes),
       EvaluateUnsafeCompatibilityWindow(plan) >>
=============================================================================
