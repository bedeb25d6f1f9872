----------------------------- MODULE Evaluation -----------------------------
(***************************************************************************)
(* The order in which the families of invariants look at a plan:           *)
(* internal/verify Run, from the moment the plan and the contracts are     *)
(* loaded.                                                                 *)
(***************************************************************************)
EXTENDS RollbackInvariants, ApiInvariants, K8sInvariants

\* The K8s family comes last because it looks at what the others found.
BeforeK8s(p, nodes) ==
    EvaluateColumnFamily(p.plan, nodes, p.services, TRUE)
        \o EvaluateRollbackPlan(p.plan, nodes, p.services)
        \o EvaluateAPI(nodes, p.services)
        \o EvaluateOrder(p.plan, nodes, p.services)
WithK8s(p, nodes, diags) == diags \o EvaluateK8s(p.plan, nodes, diags)
Evaluate(p, nodes) == WithK8s(p, nodes, BeforeK8s(p, nodes))
Run(p) == Evaluate(p, Build(p.plan))
=============================================================================
