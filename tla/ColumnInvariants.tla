-------------------------- MODULE ColumnInvariants --------------------------
(***************************************************************************)
(* The RP-DB family: internal/invariant/rpdb.go and rpdb003-006.go.        *)
(*                                                                         *)
(* A violation is a pair <<live version, column>>.                         *)
(***************************************************************************)
EXTENDS Diagnosis, Contracts, TypeCompat

\* An indeterminate node is a gap and nothing else is looked at.
Unless(indeterminate, finding) == IF indeterminate THEN Finding({}, TRUE) ELSE finding

-----------------------------------------------------------------------------
(* RP-DB-001 and 002: the columns a live version reads (or writes) exist.  *)

\* The committed operations that took a column away, as positions in the trail;
\* findRemovingOp returns the last.
RemovingOps(committed, ref) ==
    {i \in DOMAIN committed : /\ committed[i].op.kind \in {"DropColumn", "RenameColumn"}
                              /\ TargetColumn(committed[i].op) = ref}
RenamedAway(committed, ref) ==
    \E i \in RemovingOps(committed, ref) :
        /\ committed[i].op.kind = "RenameColumn"
        /\ \A j \in RemovingOps(committed, ref) : j <= i

\* Mutant: the trail believed over the schema.
MissingColumnsByTrail(n, svc, access) ==
    {ref \in svc[access] : \/ ~HasColumn(n.schema, ref) /\ ~RenamedAway(n.committed, ref)
                           \/ RemovingOps(n.committed, ref) # {}}

\* What a version uses and the node's schema lacks, renames left to RP-DB-005.
MissingColumns(n, svc, access) ==
    {ref \in svc[access] : ~HasColumn(n.schema, ref) /\ ~RenamedAway(n.committed, ref)}

\* Mutant: a live version without a contract is no gap.
ColumnExistenceAtOfDeclared(n, services, access) ==
    Unless(n.indeterminate,
        LET declared == {lv \in n.live : HasContract(services, lv)}
        IN  Finding(UNION {{lv} \X MissingColumns(n, services[lv], access) : lv \in declared},
                    FALSE))

ColumnExistenceAt(n, services, access) ==
    Unless(n.indeterminate,
        LET declared == {lv \in n.live : HasContract(services, lv)}
        IN  Finding(UNION {{lv} \X MissingColumns(n, services[lv], access) : lv \in declared},
                    declared # n.live))

\* A plan that commits nothing is out of scope, contracts or not.
GraphHasAnyCommittedOp(nodes) == \E n \in nodes : n.committed # <<>>

EvaluateColumnExistence(nodes, services, access, vacuousWhenNoOp) ==
    IF vacuousWhenNoOp /\ ~GraphHasAnyCommittedOp(nodes)
    THEN Diagnostic("SAFE", {})
    ELSE Diagnose({<<n, ColumnExistenceAt(n, services, access)>> : n \in nodes})

-----------------------------------------------------------------------------
(* RP-DB-003, 004, 005: every live version against every suspect column of *)
(* a node.                                                                 *)

\* A version with no contract, or whose contract does not mention the column's
\* table, is a gap; the others violate when what they declare breaks.
Mentions(services, lv, ref) ==
    HasContract(services, lv) /\ TouchesTable(services[lv], ref.table)
Mentioned(n, services, suspects) ==
    {p \in n.live \X suspects : Mentions(services, p[1], p[2])}
Unmentioned(n, services, suspects) ==
    \E lv \in n.live, ref \in suspects : ~Mentions(services, lv, ref)
Uses(n, services, suspects) ==
    {p \in Mentioned(n, services, suspects) : UsesColumn(services[p[1]], p[2])}

\* RP-DB-003: columns whose type changed otherwise than by widening.
Alterations(n) == {cop \in ToSet(n.committed) : cop.op.kind = "AlterColumnType"}
NonWidening(cop) ==
    cop.priorType # NoType /\ ClassifyTypeChange(cop.priorType, cop.op.newType) # "Widening"

TypeCompatibilityAt(n, services) ==
    Unless(n.indeterminate,
        LET retyped == {TargetColumn(cop.op) : cop \in {c \in Alterations(n) : NonWidening(c)}}
        IN  Finding(Uses(n, services, retyped),
                    \/ Unmentioned(n, services, retyped)
                    \/ \E cop \in Alterations(n) : cop.priorType = NoType))

EvaluateTypeCompatibility(nodes, services) ==
    Diagnose({<<n, TypeCompatibilityAt(n, services)>> : n \in nodes})

\* RP-DB-004: columns every written row must supply.
Required(schema) ==
    {ref \in DOMAIN schema : ~schema[ref].nullable /\ ~schema[ref].default}
OmitsColumn(svc, ref) == WritesTable(svc, ref.table) /\ ~WritesColumn(svc, ref)

NotNullAt(n, services) ==
    LET required == Required(n.schema)
    IN  Unless(n.indeterminate,
            Finding({p \in Mentioned(n, services, required) : OmitsColumn(services[p[1]], p[2])},
                    Unmentioned(n, services, required)))

EvaluateNotNullIntroduction(nodes, services, vacuousWhenNoOp) ==
    IF vacuousWhenNoOp /\ ~GraphHasAnyCommittedOp(nodes)
    THEN Diagnostic("SAFE", {})
    ELSE Diagnose({<<n, NotNullAt(n, services)>> : n \in nodes})

\* RP-DB-005: the old names of renamed columns.
OldNames(n) ==
    {TargetColumn(cop.op) : cop \in {c \in ToSet(n.committed) : c.op.kind = "RenameColumn"}}

RenameAt(n, services) ==
    Unless(n.indeterminate,
        Finding(Uses(n, services, OldNames(n)), Unmentioned(n, services, OldNames(n))))

EvaluateRenameWithoutCompatibility(nodes, services) ==
    Diagnose({<<n, RenameAt(n, services)>> : n \in nodes})

-----------------------------------------------------------------------------
(* RP-DB-006: a declared contract step commits after the whole rollout.    *)

\* The phase of a migration ID.
PhaseByID(plan, id) == {plan.migrations[i].phase : i \in MigrationsOf(plan, id)}

\* Mutant: a contract step may be a before-migration.
MisplacedContractsDuring(plan) ==
    {link.contract : link \in {l \in plan.links : PhaseByID(plan, l.contract) = {"during"}}}

\* The contract steps not in the after phase.  The first of them by ID is the
\* one reported; IDs are named so that they sort as the plan lists them.
MisplacedContracts(plan) ==
    {link.contract : link \in {l \in plan.links : PhaseByID(plan, l.contract) # {"after"}}}
FirstByID(plan, ids) ==
    LET at == {i \in DOMAIN plan.migrations : plan.migrations[i].id \in ids}
    IN  plan.migrations[CHOOSE i \in at : \A j \in at : i <= j].id

EvaluateExpandContractSequence(plan, nodes) ==
    LET first == FirstByID(plan, MisplacedContracts(plan))
        committing == {n \in nodes : \E cop \in ToSet(n.committed) : cop.migration = first}
    IN  IF MisplacedContracts(plan) = {}
        THEN Diagnostic("SAFE", {})
        ELSE Diagnostic("UNSAFE",
                {ViolatingState(IF committing # {} THEN ShortestByStateID(committing)
                                                   ELSE TargetState(plan, nodes))})

-----------------------------------------------------------------------------

\* The six diagnostics, in their fixed order.
EvaluateColumnFamily(plan, nodes, services, vacuousWhenNoOp) ==
    << EvaluateColumnExistence(nodes, services, "reads", vacuousWhenNoOp),
       EvaluateColumnExistence(nodes, services, "writes", vacuousWhenNoOp),
       EvaluateTypeCompatibility(nodes, services),
       EvaluateNotNullIntroduction(nodes, services, vacuousWhenNoOp),
       EvaluateRenameWithoutCompatibility(nodes, services),
       EvaluateExpandContractSequence(plan, nodes) >>
=============================================================================
