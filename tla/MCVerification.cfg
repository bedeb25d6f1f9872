\* Every plan of one or two migrations over every honest set of contracts.
CONSTANT Projects <- MCProjects
CONSTANT OrdinalOf <- MCOrdinalOf
SPECIFICATION Spec
INVARIANTS TypeOK SafeMeansSafe RollbackSafeMeansSafe RollbackLosesNoData
    CounterexampleIsReal CounterexampleIsEarliest RollbackVerdictsAgree
    ContractWaits
\* The rollout, or its rollback, ends.
CHECK_DEADLOCK FALSE
