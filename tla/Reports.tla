------------------------------ MODULE Reports ------------------------------
(***************************************************************************)
(* What is printed of a list of diagnostics, in each format, and what its  *)
(* reader can tell from it: internal/report.  A diagnostic is known by its *)
(* place in the list; its wording is left out.                             *)
(***************************************************************************)
EXTENDS Verdicts, FiniteSets

Formats == {"text", "json", "sarif"}
NotSafe(diags) == {i \in DOMAIN diags : diags[i].verdict # "SAFE"}
Tally(diags, verdict) == Cardinality({i \in DOMAIN diags : diags[i].verdict = verdict})

\* RenderText: a heading, the tally, and what is not SAFE in full.
RenderText(diags) ==
    [heading |-> Aggregate(diags),
     tally |-> [verdict \in VerdictValues |-> Tally(diags, verdict)],
     shown |-> {[rule |-> i, verdict |-> diags[i].verdict, advisory |-> diags[i].advisory] :
                   i \in NotSafe(diags)}]

\* RenderJSON: the same heading, and every diagnostic.
RenderJSON(diags) ==
    [heading |-> Aggregate(diags),
     violated |-> Tally(diags, "UNSAFE"), unknown |-> Tally(diags, "UNKNOWN"),
     invariants |-> [i \in DOMAIN diags |->
                       [verdict |-> diags[i].verdict, advisory |-> diags[i].advisory,
                        rollback |-> diags[i].rollback]]]

\* Mutant: an advisory finding reported like any other.
LevelOfVerdict(d) == IF d.verdict = "UNSAFE" THEN "error" ELSE "note"

\* toSARIFResult.
Level(d) ==
    CASE d.verdict = "UNSAFE" /\ ~d.advisory -> "error"
      [] d.verdict = "UNSAFE" /\ d.advisory -> "warning"
      [] d.verdict = "UNKNOWN" -> "note"

\* RenderSARIF has no heading: a result for each diagnostic that is not SAFE.
RenderSARIF(diags) ==
    {[rule |-> i, level |-> Level(diags[i]), rollback |-> diags[i].rollback] :
        i \in NotSafe(diags)}

Rendered(format, diags) ==
    CASE format = "text" -> RenderText(diags)
      [] format = "json" -> RenderJSON(diags)
      [] format = "sarif" -> RenderSARIF(diags)

\* The verdict on the rollout as the reader of a report finds it: in its
\* heading, or, in SARIF, in the gravest of its results, where a warning vetoes
\* nothing and a note is something nobody could tell.
VerdictRead(format, rendered) ==
    IF format = "sarif"
    THEN LET levels == {result.level : result \in rendered}
         IN  CASE "error" \in levels -> "UNSAFE"
               [] "error" \notin levels /\ "note" \in levels -> "UNKNOWN"
               [] OTHER -> "SAFE"
    ELSE rendered.heading
=============================================================================
