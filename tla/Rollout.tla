------------------------------- MODULE Rollout -------------------------------
(***************************************************************************)
(* What a deployment carrying out a rollout plan can go through: the       *)
(* abstract specification internal/graph promises to explore completely    *)
(* (graph/doc.go).                                                         *)
(*                                                                         *)
(* The deployment is outside the repository: replicas are replaced by the  *)
(* cluster, migrations are committed by whatever runs them.  The code      *)
(* assumes of it only what is modelled here: each workload goes through    *)
(* its progression at its own pace; before-migrations are committed before *)
(* anything else; a during-migration may commit at any moment and in any   *)
(* order; the after-migrations commit in order once all the rest is done.  *)
(*                                                                         *)
(* trail is the order in which migrations committed since the rollout      *)
(* began, as positions in the plan's list; the before-migrations are in    *)
(* the schema it begins with.  Nothing here depends on what an operation   *)
(* does.                                                                   *)
(***************************************************************************)
EXTENDS TransitionGraph

\* The plans a rollout may carry out.
CONSTANT Plans

VARIABLES
    plan,     \* the plan, fixed for the whole rollout
    steps,    \* the step of each workload's progression
    trail     \* the migrations committed so far, in commit order

vars == <<plan, steps, trail>>

ASSUME PlansAssumption == \A p \in Plans : IsPlan(p) /\ ValidPlan(p)

Committed == ToSet(trail)
WorkloadsDone == \A w \in Workloads(plan) : steps[w] = LastStep

Init == /\ plan \in Plans
        /\ steps = [w \in Workloads(plan) |-> 0]
        /\ trail = <<>>

\* Mutants: one step too far; and after-migrations that do not wait for the
\* during-migrations.
CanAdvanceTooFar(w) == steps[w] <= LastStep
CanCommitAfterWorkloads(i) ==
    /\ WorkloadsDone
    /\ UpTo(plan, i) \ {i} \subseteq Committed
    /\ i \notin Committed

CanAdvance(w) == steps[w] < LastStep
CanCommitDuring(i) == i \notin Committed
CanCommitAfter(i) ==
    /\ WorkloadsDone
    /\ During(plan) \subseteq Committed
    /\ UpTo(plan, i) \ {i} \subseteq Committed
    /\ i \notin Committed

\* The cluster takes a workload to the next step of its progression.
AdvanceWorkload(w) ==
    /\ CanAdvance(w)
    /\ steps' = [steps EXCEPT ![w] = @ + 1]
    /\ UNCHANGED <<plan, trail>>

\* A during-migration commits, at any moment of the rollout and in any order.
CommitDuring(i) ==
    /\ CanCommitDuring(i)
    /\ trail' = Append(trail, i)
    /\ UNCHANGED <<plan, steps>>

\* The next after-migration commits, once the rollout is complete.
CommitAfter(i) ==
    /\ CanCommitAfter(i)
    /\ trail' = Append(trail, i)
    /\ UNCHANGED <<plan, steps>>

Next == \/ \E w \in Workloads(plan) : AdvanceWorkload(w)
        \/ \E i \in During(plan) : CommitDuring(i)
        \/ \E i \in After(plan) : CommitAfter(i)

Safety == Init /\ [][Next]_vars
\* A rollout that can go on goes on: the plan is being carried out.
Spec == Safety /\ WF_vars(Next)

-----------------------------------------------------------------------------

TypeOK ==
    /\ plan \in Plans
    /\ steps \in [Workloads(plan) -> Steps]
    /\ trail \in Seq(DOMAIN plan.migrations)

\* The timing a plan declares is kept: migrations commit once each, the
\* during-migrations before the after-migrations, those in the order of the
\* list, and none of those until every workload has left its old version and
\* every during-migration has committed (graph/doc.go, architecture 3.2).
PhasesInOrder ==
    /\ \A j, k \in DOMAIN trail : j < k =>
          /\ trail[j] # trail[k]
          /\ trail[j] \in After(plan) => trail[k] \in After(plan) /\ trail[j] < trail[k]
    /\ Committed \cap After(plan) # {} => WorkloadsDone /\ During(plan) \subseteq Committed

\* Every rollout that keeps going reaches its end: all workloads on their new
\* version, every during- and after-migration committed.
Completes == <>(WorkloadsDone /\ Committed = During(plan) \cup After(plan))
=============================================================================
