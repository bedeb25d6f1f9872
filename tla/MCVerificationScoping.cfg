CONSTANT Projects <- MCPassingConstraintProjects
CONSTANT OrdinalOf <- MCOrdinalOf
SPECIFICATION Spec
INVARIANT LatestIsConservative
CHECK_DEADLOCK FALSE
