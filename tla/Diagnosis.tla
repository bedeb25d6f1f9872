----------------------------- MODULE Diagnosis -----------------------------
(***************************************************************************)
(* How an invariant's findings over the nodes of a graph become one        *)
(* diagnostic: shortestByStateID, and the ladder every family ends with    *)
(* (internal/invariant).                                                   *)
(*                                                                         *)
(* What an invariant finds at one node is a record                         *)
(*   violations   whatever breaks it there                                 *)
(*   gap          whether evidence was missing there                       *)
(***************************************************************************)
EXTENDS TransitionGraph, Verdicts

Finding(violations, gap) == [violations |-> violations, gap |-> gap]

\* Mutant: the comparison reversed.
ShortestByStateIDReversed(nodes) ==
    CHOOSE n \in nodes : \A m \in nodes \ {n} :
        \/ EventsTo(n.at) > EventsTo(m.at)
        \/ EventsTo(n.at) = EventsTo(m.at) /\ n.id < m.id

\* The node reached by the fewest events, ties broken by the lowest ID.
ShortestByStateID(nodes) ==
    CHOOSE n \in nodes : \A m \in nodes \ {n} :
        \/ EventsTo(n.at) < EventsTo(m.at)
        \/ EventsTo(n.at) = EventsTo(m.at) /\ n.id < m.id

\* The part of a counterexample that decides anything: where, and who is live.
ViolatingState(n) == [at |-> n.at, live |-> n.live]
TargetState(plan, nodes) == CHOOSE n \in nodes : n.at = TargetPosition(plan)

\* findings is a set of pairs <<node, finding>>: a violation anywhere is UNSAFE,
\* a gap without one UNKNOWN.
Diagnose(findings) ==
    LET violating == {f[1] : f \in {g \in findings : g[2].violations # {}}}
    IN  IF violating # {}
        THEN Diagnostic("UNSAFE", {ViolatingState(ShortestByStateID(violating))})
        ELSE Diagnostic(IF \E f \in findings : f[2].gap THEN "UNKNOWN" ELSE "SAFE", {})

\* Several diagnostics in one: the dominant verdict, the first counterexample.
Dominant(diags) ==
    LET unsafe == {i \in DOMAIN diags : diags[i].verdict = "UNSAFE"}
    IN  Diagnostic(FoldLeft(LAMBDA v, d : Combine(v, d.verdict), "SAFE", diags),
                   UNION {diags[i].counterexample :
                             i \in {k \in unsafe : \A j \in unsafe : k <= j}})
=============================================================================
