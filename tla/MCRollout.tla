------------------------------ MODULE MCRollout ------------------------------
(* Rollouts of two workloads and three migrations in every choice of phases. *)
EXTENDS Rollout, MCPlans

MCPlansOf(strategies) ==
    {Plan(<<Change("api", "v1", "v2", s1), Change("web", "v1", "v2", s2)>>,
          [i \in 1 .. 3 |-> Migration(<<"m1", "m2", "m3">>[i], phases[i], <<DropOp("a")>>)]) :
        s1, s2 \in strategies, phases \in [1 .. 3 -> Phases]}
MCPlanSet == MCPlansOf({Rolling, Recreate})
=============================================================================
