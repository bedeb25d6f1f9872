\* Every plan of MCSoundPlans: the graph is the rollout, neither more nor less.
CONSTANT Plans <- MCSoundPlans
SPECIFICATION Spec
INVARIANTS TypeOK NoMissingEvent NodeTellsTruth IdsAreIndices
PROPERTIES ImplementsRollout ReachesTarget
\* A walk stops at the target node.
CHECK_DEADLOCK FALSE
