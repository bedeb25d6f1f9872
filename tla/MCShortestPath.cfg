\* Every graph on four nodes, every acyclic one on five, and every target.
CONSTANTS
    Nodes <- MCNodes
    Start = 0
    Graphs <- MCGraphs
SPECIFICATION Spec
INVARIANTS TypeOK PathIsReal PathIsShortest NilMeansUnreachable
PROPERTY Terminates
\* The search returns.
CHECK_DEADLOCK FALSE
