\* 108 plans: two workloads, rolling or recreated, three migrations in any phases.
CONSTANT Plans <- MCPlanSet
SPECIFICATION Spec
INVARIANTS TypeOK PhasesInOrder
PROPERTY Completes
\* A rollout stops when it is complete.
CHECK_DEADLOCK FALSE
