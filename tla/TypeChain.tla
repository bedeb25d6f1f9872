------------------------------ MODULE TypeChain ------------------------------
(***************************************************************************)
(* A column retyped again and again while versions written for its first   *)
(* type stay live.  RP-DB-003 judges each change on its own, against the   *)
(* type just before it; what a version needs is that every value of the    *)
(* type it was written for still fits after all of them.                   *)
(***************************************************************************)
EXTENDS TypeCompat

CONSTANTS
    Types,      \* the types columns are given
    Sizes       \* the sizes of values told apart

Families == {"integer", "float", "varchar", "text", "other"}

ASSUME TypesAssumption ==
    /\ Types \subseteq [family : Families, size : Nat \cup {Unbounded}]
    /\ \A t \in Types : t.size = Unbounded => t.family = "varchar"
    /\ Sizes \subseteq Nat

\* What a column of a type can hold, by kind and size of the value: an integer
\* or float of some rank, a text of some length.  A value of a type the table
\* does not know fits that type only.
Holds(t) ==
    CASE t.family = "integer" -> {<<"integer", n>> : n \in {s \in Sizes : s <= t.size}}
      [] t.family = "float" -> {<<"float", n>> : n \in {s \in Sizes : s <= t.size}}
      [] t.family = "text" -> {<<"text", n>> : n \in Sizes}
      [] t.family = "varchar" ->
            {<<"text", n>> : n \in {s \in Sizes : t.size = Unbounded \/ s <= t.size}}
      [] t.family = "other" -> {<<"other", t.size>>}

VARIABLES
    firstType,    \* the type the live versions were written for
    columnType,   \* the type of the column now
    flagged       \* whether RP-DB-003 has objected to a change

chainVars == <<firstType, columnType, flagged>>

ChainBegins == firstType \in Types /\ columnType = firstType /\ flagged = FALSE

\* Mutant: the column keeps the size of its old type.
AlterColumnTypeKeepingSize(t) ==
    /\ columnType' = Type(t.family, columnType.size)
    /\ flagged' = (flagged \/ ClassifyTypeChange(columnType, t) # "Widening")
    /\ UNCHANGED firstType

\* ALTER COLUMN ... TYPE commits.
AlterColumnType(t) ==
    /\ columnType' = t
    /\ flagged' = (flagged \/ ClassifyTypeChange(columnType, t) # "Widening")
    /\ UNCHANGED firstType

Retyping == \E t \in Types : AlterColumnType(t)

ChainSpec == ChainBegins /\ [][Retyping]_chainVars

-----------------------------------------------------------------------------

ChainTypeOK == firstType \in Types /\ columnType \in Types /\ flagged \in BOOLEAN

\* However often a column is retyped, as long as RP-DB-003 finds nothing the
\* values of its first type still fit: exempting widenings one by one is safe.
UnflaggedKeepsValues == ~flagged => Holds(firstType) \subseteq Holds(columnType)

\* The table objects to nothing it knows to be harmless: a change between known
\* types is flagged only when some value of the old type may not fit.
FlagsOnlyLoss ==
    [][flagged' /\ ~flagged /\ "other" \notin {columnType.family, columnType'.family}
          => ~(Holds(columnType) \subseteq Holds(columnType'))]_chainVars
=============================================================================
