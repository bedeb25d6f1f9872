------------------------------- MODULE MCPlans -------------------------------
(* Small plans for the model-checking modules: one table "t", a handful of   *)
(* columns, and constructors for the records the modules expect.             *)
EXTENDS TransitionGraph

Col(c) == ColumnRef("t", c)
IntType == [family |-> "integer", size |-> 2]
BigType == [family |-> "integer", size |-> 3]

\* Two columns, both integer; b rejects rows that omit it only when it is NOT
\* NULL without default.
BaseSchema == [r \in {Col("a"), Col("b")} |-> Column(IntType, TRUE, FALSE)]

AddOp(c, nullable, default) ==
    [kind |-> "AddColumn", table |-> "t", column |-> c, newType |-> IntType,
     nullable |-> nullable, default |-> default]
ColumnOp(kind, c) == [kind |-> kind, table |-> "t", column |-> c]
DropOp(c) == ColumnOp("DropColumn", c)
SetNotNullOp(c) == ColumnOp("SetNotNull", c)
DropNotNullOp(c) == ColumnOp("DropNotNull", c)
RenameOp(c, d) ==
    [kind |-> "RenameColumn", table |-> "t", column |-> c, newColumn |-> d]
AlterOp(c, type) ==
    [kind |-> "AlterColumnType", table |-> "t", column |-> c, newType |-> type]
UnclassifiedOp == [kind |-> "Unclassified", table |-> "", column |-> ""]

Migration(id, phase, ops) == [id |-> id, phase |-> phase, operations |-> ops]

Percent(n) == [percent |-> TRUE, value |-> n]
Rolling == [type |-> "RollingUpdate", maxSurge |-> Percent(25), maxUnavailable |-> Percent(25)]
Recreate == [type |-> "Recreate", maxSurge |-> Percent(0), maxUnavailable |-> Percent(0)]
\* RollingUpdate with no room for coexistence: no surge, all may be down.
Drained == [type |-> "RollingUpdate", maxSurge |-> Percent(0), maxUnavailable |-> Percent(100)]

Change(service, from, to, strategy) ==
    [service |-> service, from |-> from, to |-> to, strategy |-> strategy, replicas |-> 3,
     name |-> service, dependsOn |-> {}, readiness |-> "none", drains |-> FALSE]

Plan(workloads, migrations) ==
    [base |-> BaseSchema, workloads |-> workloads, migrations |-> migrations,
     rollback |-> {}, links |-> {}, history |-> <<>>, unknown |-> FALSE]
=============================================================================
