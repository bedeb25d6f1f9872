--------------------------- MODULE OrderInvariants ---------------------------
(***************************************************************************)
(* The RP-ORDER family and its version order: internal/invariant/rporder.go *)
(* and rpordertypes.go.                                                    *)
(***************************************************************************)
EXTENDS Diagnosis, Contracts

\* What parseVersionOrdinal makes of the version strings it understands: their
\* dot-separated numbers.  It fails on every string outside the domain.
CONSTANT OrdinalOf

ASSUME OrdinalAssumption == \A v \in DOMAIN OrdinalOf : OrdinalOf[v] \in Seq(Nat)

\* Missing segments count as zero: v1 and v1.0 are the same.
Segment(ordinal, i) == IF i \in DOMAIN ordinal THEN ordinal[i] ELSE 0

\* compareVersions is negative: the first segment that differs is smaller.
Older(a, b) ==
    LET differ == {i \in DOMAIN a \cup DOMAIN b : Segment(a, i) # Segment(b, i)}
    IN  \E i \in differ : Segment(a, i) < Segment(b, i) /\ \A j \in differ : i <= j

Comparable(v, w) == v \in DOMAIN OrdinalOf /\ w \in DOMAIN OrdinalOf
TooOld(version, min) == Comparable(version, min) /\ Older(OrdinalOf[version], OrdinalOf[min])

AnyDependencyDeclared(services) == \E lv \in DOMAIN services : services[lv].dependsOn # {}

\* The minimum of a dependency that names none.
Unconstrained == ""

\* The live versions of the service a dependency names.
LiveProviders(live, dep) == {plv \in live : plv.service = dep.service}

\* The constrained dependencies of the live versions that have a contract.
Dependencies(live, services) ==
    UNION {{lv} \X {dep \in services[lv].dependsOn : dep.min # Unconstrained} :
              lv \in {v \in live : HasContract(services, v)}}

\* Mutant: a dependency none of whose live versions is too old is met.
OrderFindingWithoutGaps(n, services) ==
    Finding({d \in Dependencies(n.live, services) :
                \E plv \in LiveProviders(n.live, d[2]) : TooOld(plv.version, d[2].min)},
            \E lv \in n.live : ~HasContract(services, lv))

\* A live version of the provider that is too old breaks the consumer; one that
\* cannot be compared, or none at all, is a gap.
OrderFinding(n, services) ==
    LET deps == Dependencies(n.live, services)
    IN  Finding({d \in deps :
                    \E plv \in LiveProviders(n.live, d[2]) : TooOld(plv.version, d[2].min)},
                \/ \E lv \in n.live : ~HasContract(services, lv)
                \/ \E d \in deps :
                      \/ LiveProviders(n.live, d[2]) = {}
                      \/ \E plv \in LiveProviders(n.live, d[2]) :
                            ~Comparable(plv.version, d[2].min))

\* A destructive operation during the rollout that no declared contract step
\* covers; RP-K8S-004 looks for the same.
UndeclaredDestruction(plan) ==
    \E i \in During(plan) :
        /\ \A link \in plan.links : link.contract # plan.migrations[i].id
        /\ \E op \in ToSet(plan.migrations[i].operations) :
              Destructiveness(op) \in {"Destructive", "ConditionallyDestructive"}

\* A finding that is reported and vetoes nothing; its violating state is empty.
Advisory == [Diagnostic("UNSAFE", {}) EXCEPT !.advisory = TRUE]

\* RP-ORDER-003.
EvaluateMigrationPhaseOrdering(plan) ==
    IF UndeclaredDestruction(plan) THEN Advisory ELSE Diagnostic("SAFE", {})

\* RP-ORDER-001 and 002 report one scan under two names.
EvaluateOrder(plan, nodes, services) ==
    LET scan == IF AnyDependencyDeclared(services)
                THEN Diagnose({<<n, OrderFinding(n, services)>> : n \in nodes})
                ELSE Diagnostic("SAFE", {})
    IN  <<scan, scan, EvaluateMigrationPhaseOrdering(plan)>>
=============================================================================
