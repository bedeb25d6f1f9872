------------------------------- MODULE Schema -------------------------------
(***************************************************************************)
(* The schema timeline: what one migration operation does to a database    *)
(* schema, and the evidence a committed migration leaves behind.           *)
(*                                                                         *)
(* internal/ir/schema.go, internal/ir/migration.go, internal/ir/state.go   *)
(* and applyOne/applyAll of internal/graph/graph.go.                       *)
(*                                                                         *)
(* A schema is a function from the columns that exist to their facts.  A   *)
(* table is only a field of its columns: an empty table and an absent one  *)
(* differ in no operation (AddColumn creates the table it needs).          *)
(***************************************************************************)
EXTENDS Integers, Sequences, SequencesExt

\* A list of anything.
IsList(s) == s \in Seq(ToSet(s))

\* A column reference and the facts kept about a column (type, nullable, and
\* whether it has a default; the default's text decides nothing).
ColumnRef(table, column) == [table |-> table, column |-> column]
Column(type, nullable, default) ==
    [type |-> type, nullable |-> nullable, default |-> default]

\* The six operation kinds the SQL classifier produces, and the seventh that
\* stands for everything it does not understand.
ColumnOpKinds == {"DropColumn", "AlterColumnType", "SetNotNull", "DropNotNull"}
OpKinds == ColumnOpKinds \cup {"AddColumn", "RenameColumn", "Unclassified"}

TargetColumn(op) == ColumnRef(op.table, op.column)
RenamedColumn(op) == ColumnRef(op.table, op.newColumn)

\* Mutant: the classes of DROP COLUMN and RENAME COLUMN swapped.
ReversibilitySwapped(op) ==
    CASE op.kind \in {"AddColumn", "DropColumn", "SetNotNull"} -> "Reversible"
      [] op.kind \in {"AlterColumnType", "DropNotNull"} -> "ConditionallyReversible"
      [] op.kind = "RenameColumn" -> "Irreversible"
      [] OTHER -> "Unknown"

\* How far an operation's effect can be undone, as the SQL classifier says.
Reversibility(op) ==
    CASE op.kind \in {"AddColumn", "RenameColumn", "SetNotNull"} -> "Reversible"
      [] op.kind \in {"AlterColumnType", "DropNotNull"} -> "ConditionallyReversible"
      [] op.kind = "DropColumn" -> "Irreversible"
      [] OTHER -> "Unknown"

\* Whether an operation can destroy data or reject writes that were valid.
Destructiveness(op) ==
    CASE op.kind = "AddColumn" ->
            IF ~op.nullable /\ ~op.default THEN "ConditionallyDestructive"
                                           ELSE "NonDestructive"
      [] op.kind = "DropNotNull" -> "NonDestructive"
      [] op.kind \in {"AlterColumnType", "SetNotNull"} -> "ConditionallyDestructive"
      [] op.kind \in {"DropColumn", "RenameColumn"} -> "Destructive"
      [] OTHER -> "Unknown"

HasColumn(schema, ref) == ref \in DOMAIN schema
With(schema, ref, col) ==
    [r \in DOMAIN schema \cup {ref} |-> IF r = ref THEN col ELSE schema[r]]
Without(schema, ref) == [r \in DOMAIN schema \ {ref} |-> schema[r]]

\* Schema.Apply succeeds: the error returns of each operation kind.
Applicable(schema, op) ==
    \/ /\ op.kind = "AddColumn"
       /\ ~HasColumn(schema, TargetColumn(op))
    \/ /\ op.kind \in ColumnOpKinds
       /\ HasColumn(schema, TargetColumn(op))
    \/ /\ op.kind = "RenameColumn"
       /\ HasColumn(schema, TargetColumn(op))
       /\ ~HasColumn(schema, RenamedColumn(op))

\* Schema.Apply, for an operation that is applicable.
Apply(schema, op) ==
    LET ref == TargetColumn(op)
    IN  CASE op.kind = "AddColumn" ->
                With(schema, ref, Column(op.newType, op.nullable, op.default))
          [] op.kind = "DropColumn" -> Without(schema, ref)
          [] op.kind = "RenameColumn" ->
                With(Without(schema, ref), RenamedColumn(op), schema[ref])
          [] op.kind = "AlterColumnType" ->
                With(schema, ref, [schema[ref] EXCEPT !.type = op.newType])
          [] op.kind = "SetNotNull" ->
                With(schema, ref, [schema[ref] EXCEPT !.nullable = FALSE])
          [] op.kind = "DropNotNull" ->
                With(schema, ref, [schema[ref] EXCEPT !.nullable = TRUE])

-----------------------------------------------------------------------------
(* Schema states: a schema, the trail of operations committed to reach it,   *)
(* and whether some committed operation could not be applied.                *)

SchemaState(schema, committed, indeterminate) ==
    [schema |-> schema, committed |-> committed, indeterminate |-> indeterminate]

\* The prior type recorded when there is none to record.
NoType == [family |-> "none", size |-> 0]

\* The column's type immediately before an AlterColumnType, captured only
\* while the schema is still known.
PriorType(st, op) ==
    IF /\ op.kind = "AlterColumnType"
       /\ ~st.indeterminate
       /\ HasColumn(st.schema, TargetColumn(op))
    THEN st.schema[TargetColumn(op)].type
    ELSE NoType

\* One operation of migration mig: it always joins the trail; the first that
\* cannot be applied freezes the schema and makes the state indeterminate.
CommitOp(st, mig, op) ==
    LET applies == ~st.indeterminate /\ Applicable(st.schema, op)
        cop == [migration |-> mig, op |-> op, priorType |-> PriorType(st, op)]
    IN  SchemaState(IF applies THEN Apply(st.schema, op) ELSE st.schema,
                    Append(st.committed, cop),
                    ~applies)

\* A migration [id, phase, operations] commits, one operation after the other.
ApplyOne(st, mig) ==
    FoldLeft(LAMBDA s, op : CommitOp(s, mig.id, op), st, mig.operations)
=============================================================================
