CONSTANT Projects <- MCDependencyProjects
CONSTANT OrdinalOf <- MCOrdinalOf
SPECIFICATION Spec
INVARIANT UnconstrainedIsUnknown
CHECK_DEADLOCK FALSE
