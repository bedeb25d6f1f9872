------------------------------ MODULE Verdicts ------------------------------
(***************************************************************************)
(* Verdicts and how they combine: internal/ir/verdict.go, the diagnostics  *)
(* of internal/ir/diagnostic.go and Aggregate of internal/invariant.       *)
(***************************************************************************)
EXTENDS Integers, Sequences, SequencesExt

VerdictValues == {"SAFE", "UNKNOWN", "UNSAFE"}

\* Unsafe dominates Unknown dominates Safe.
Dominance(v) ==
    CASE v = "UNSAFE" -> 2
      [] v = "UNKNOWN" -> 1
      [] v = "SAFE" -> 0
Combine(a, b) == IF Dominance(a) >= Dominance(b) THEN a ELSE b

RollbackVerdictValues == VerdictValues \cup {"CONDITIONALLY_SAFE"}

\* Not knowing outranks a milder classification.
RollbackDominance(r) ==
    CASE r = "UNSAFE" -> 3
      [] r = "UNKNOWN" -> 2
      [] r = "CONDITIONALLY_SAFE" -> 1
      [] r = "SAFE" -> 0
CombineRollback(a, b) == IF RollbackDominance(a) >= RollbackDominance(b) THEN a ELSE b

VerdictToRollback(v) == v

\* A diagnostic; counterexample is the set holding its violating state, if it
\* has one.  RollbackVerdict's zero value is UNKNOWN: no claim is made.
Diagnostic(verdict, counterexample) ==
    [verdict |-> verdict, counterexample |-> counterexample,
     rollback |-> "UNKNOWN", advisory |-> FALSE]

\* The verdict of a rollout from the verdicts of its diagnostics; an advisory
\* finding does not veto it.
Aggregate(diags) ==
    FoldLeft(LAMBDA v, d : IF d.advisory /\ d.verdict = "UNSAFE"
                           THEN v ELSE Combine(v, d.verdict),
             "SAFE", diags)
=============================================================================
