----------------------------- MODULE TypeCompat -----------------------------
(***************************************************************************)
(* RP-DB-003's compatibility table: internal/invariant/typecompat.go.      *)
(*                                                                         *)
(* A type is what parseType makes of its spelling, a family and a size;    *)
(* the family "other" stands for every spelling the table does not know.   *)
(***************************************************************************)
EXTENDS Integers

Type(family, size) == [family |-> family, size |-> size]
Unbounded == -1

\* Mutant: an unchanged rank is not a widening.
CompareRankStrict(old, new) == IF new > old THEN "Widening" ELSE "Narrowing"

CompareRank(old, new) == IF new >= old THEN "Widening" ELSE "Narrowing"

\* Mutant: unbounded compared as the number that stands for it.
CompareBoundedSizeAsNumbers(old, new) == CompareRank(old, new)

\* Unbounded is wider than any bound.
CompareBoundedSize(old, new) ==
    CASE new = Unbounded -> "Widening"
      [] new # Unbounded /\ old = Unbounded -> "Narrowing"
      [] OTHER -> CompareRank(old, new)

ClassifyTypeChange(old, new) ==
    CASE old.family = new.family /\ old.family \in {"integer", "float"} ->
            CompareRank(old.size, new.size)
      [] old.family = "varchar" /\ new.family = "varchar" ->
            CompareBoundedSize(old.size, new.size)
      [] old.family \in {"varchar", "text"} /\ new.family = "text" -> "Widening"
      [] old.family = "text" /\ new.family = "varchar" ->
            IF new.size = Unbounded THEN "Widening" ELSE "Narrowing"
      [] OTHER -> "Incomparable"
=============================================================================
