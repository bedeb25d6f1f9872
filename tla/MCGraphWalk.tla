---------------------------- MODULE MCGraphWalk ----------------------------
(* Graphs of small plans: what the during-migrations do, and how many        *)
(* workloads move at once.                                                   *)
EXTENDS GraphWalk, MCPlans

\* What one migration may do; the operations meet on columns a, b and c, one
\* cannot be classified and one fails when a is gone.
MCOperations ==
    {<<AlterOp("a", BigType)>>, <<RenameOp("a", "c")>>, <<DropOp("a"), AddOp("c", FALSE, FALSE)>>,
     <<SetNotNullOp("b")>>, <<UnclassifiedOp>>, <<DropOp("b"), DropNotNullOp("b")>>}

\* One workload, two migrations with any of those operations in any phases; no
\* two during-migrations name the same column.
MCIndependentPlans ==
    {p \in {Plan(<<Change("api", "v1", "v2", Rolling)>>,
                 [i \in 1 .. 2 |-> Migration(<<"m1", "m2">>[i], phases[i], ops[i])]) :
              phases \in [1 .. 2 -> Phases], ops \in [1 .. 2 -> MCOperations]} :
        Independent(p)}

\* Two workloads, one of them recreated, static or drained, and three
\* migrations on columns of their own.
MCWidePlans ==
    {Plan(<<Change("api", "v1", "v2", s), Change("web", "v1", v, Rolling)>>,
          [i \in 1 .. 3 |->
            Migration(<<"m1", "m2", "m3">>[i], phases[i],
                      << <<AlterOp("a", BigType)>>, <<SetNotNullOp("b")>>, <<AddOp("c", TRUE, FALSE)>> >>[i])]) :
        s \in {Rolling, Recreate, Drained}, v \in {"v1", "v2"}, phases \in [1 .. 3 -> Phases]}

MCSoundPlans == MCIndependentPlans \cup MCWidePlans

\* Two during-migrations that retype the same column.
MCConflictingPlans ==
    {Plan(<<Change("api", "v1", "v2", Rolling)>>,
          <<Migration("m1", "during", <<AlterOp("a", t1)>>),
            Migration("m2", "during", <<AlterOp("a", t2)>>)>>) :
        t1, t2 \in {IntType, BigType}}
=============================================================================
