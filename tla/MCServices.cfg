\* Every plan of two services: calls, dependencies, Deployments.
CONSTANT Projects <- MCProjects
CONSTANT OrdinalOf <- MCOrdinalOf
SPECIFICATION Spec
INVARIANTS CallsAreServed DependenciesMet TrafficWaits DrainsUndisturbed
    CounterexampleIsReal CounterexampleIsEarliest
\* The rollout ends.
CHECK_DEADLOCK FALSE
