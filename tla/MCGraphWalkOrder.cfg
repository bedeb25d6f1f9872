\* Two during-migrations on the same column, which may commit in either order.
CONSTANT Plans <- MCConflictingPlans
SPECIFICATION Spec
INVARIANT NodeTellsTruth
CHECK_DEADLOCK FALSE
