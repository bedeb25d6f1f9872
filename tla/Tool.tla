-------------------------------- MODULE Tool --------------------------------
(***************************************************************************)
(* rolloutproof from its command line to its exit code: cmd/rolloutproof,  *)
(* verify.Run, rolloutplan.LoadDir, contract.LoadDir, the size guard of    *)
(* graph.Build.  One action per file read or step taken, in the code's     *)
(* order; a migration file is lexed and parsed by the actions of SqlParser.*)
(*                                                                         *)
(* A directory is a record                                                 *)
(*   plan, deployments, schema   the set holding the file, empty when it   *)
(*               cannot be read; the last two are those of Manifests, the  *)
(*               first [decodes, apiVersion, kind, workload, from, to,     *)
(*               migrations, rollback, links, static], with migrations of  *)
(*               [file, phase]                                             *)
(*   files       the migration files: from their names to their texts      *)
(*   scripts     what they were written from, as in SqlScripts             *)
(*   contracts   the set holding [listable, entries], empty when there is  *)
(*               no such directory; entries, in the order of their names,  *)
(*               are [yaml, isDir, doc]                                    *)
(*   actual      what every version really does, as in Verification        *)
(* An invocation is [command, flags, operands, format].                    *)
(***************************************************************************)
EXTENDS SqlScripts, Manifests, Reports

CONSTANTS
    Directories, Invocations,
    WordBits, MaxGraphNodes     \* the width of int, and maxGraphNodes

IsContractFile(e) == e.yaml /\ ~e.isDir
EntriesOf(d) == IF d.contracts = {} THEN <<>> ELSE The(d.contracts).entries
ContractFiles(entries) == {i \in 1 .. Len(entries) : IsContractFile(entries[i])}

\* The files hold texts, the directory of contracts is listed in an order, and
\* the plan names its migrations and its static workloads in one, and at most
\* one version to go back to.
WellFormed(d) ==
    /\ \A name \in DOMAIN d.files : Len(d.files[name]) \in Nat
    /\ \A contracts \in d.contracts : /\ Len(contracts.entries) \in Nat
                                      /\ DOMAIN contracts.entries = 1 .. Len(contracts.entries)
    /\ \A doc \in d.plan : /\ IsList(doc.static) /\ IsList(doc.migrations)
                           /\ \A a, b \in doc.rollback : a = b
\* A contract is true of its version, unless there is another one of that version.
Honest(d) ==
    LET entries == EntriesOf(d)
        key(i) == ContractKey(entries[i].doc)
    IN  (\A i, j \in ContractFiles(entries) : key(i) = key(j) => i = j) =>
            \A i \in ContractFiles(entries) :
                ValidContract(entries[i].doc) => d.actual[key(i)] = ParseContract(entries[i].doc)

\* The migration files hold what was written, and all of it can be read.
AreWritten(d) ==
    \A name \in DOMAIN d.files : /\ d.files[name] = Source(d.scripts[name])
                                 /\ WellWritten(d.scripts[name])

ASSUME DirectoriesAssumption == \A d \in Directories : WellFormed(d) /\ Honest(d)
ASSUME ScriptsAssumption == \A d \in Directories : AreWritten(d)
ASSUME SizesAssumption == WordBits \in Nat \ {0} /\ MaxGraphNodes \in Nat

VARIABLES
    args, dir,                  \* what the tool is called with
    stage,                      \* what it does next
    next,                       \* the next entry of the list it works on
    workloads, migrations,      \* read from the directory so far
    plan,                       \* the set holding the plan, once assembled
    services,                   \* the contracts read so far
    report,                     \* the diagnostics
    output,                     \* the set holding what was printed
    exit                        \* the set holding the exit code

loaded == <<workloads, migrations, plan, services>>
results == <<report, output, exit>>
vars == <<args, dir, stage, next, loaded, results, sqlVars>>

-----------------------------------------------------------------------------
(* The command line.                                                       *)

ExitCode == [SAFE |-> 0, UNSAFE |-> 1, UNKNOWN |-> 2]
ToolFailure == 3

AsksForHelp == \/ args.command \in {"help", "version"}
               \/ args.command = "verify" /\ args.flags = "help"
WellCalled == args.command = "verify" /\ args.flags = "ok" /\ args.operands = 1

Init == /\ args \in Invocations
        /\ dir \in Directories
        /\ stage = "start" /\ next = 1
        /\ workloads = <<>> /\ migrations = <<>> /\ plan = {} /\ services = <<>>
        /\ report = <<>> /\ output = {} /\ exit = {}
        /\ ParsingBegins(<<>>)

Go(from, to) == /\ stage = from /\ stage' = to
                /\ UNCHANGED <<args, dir>>
Exit(code) == /\ exit' = {code}
              /\ stage' = "exited"
              /\ UNCHANGED <<args, dir, next, loaded, report, sqlVars>>

Help == /\ stage = "start" /\ AsksForHelp
        /\ Exit(ExitCode.SAFE)
        /\ UNCHANGED output
Start == /\ Go("start", "plan") /\ WellCalled
         /\ UNCHANGED <<next, loaded, results, sqlVars>>

-----------------------------------------------------------------------------
(* rolloutplan.LoadDir.                                                    *)

PlanDoc == The(dir.plan)
ValidPlanDoc(doc) ==
    /\ doc.decodes /\ doc.apiVersion = Alpha /\ doc.kind = "RolloutPlan"
    /\ doc.workload # "" /\ doc.from # "" /\ doc.to # ""
PlanReadable == dir.plan # {} /\ ValidPlanDoc(PlanDoc)
ReadPlan == /\ Go("plan", "deployments") /\ PlanReadable
            /\ UNCHANGED <<next, loaded, results, sqlVars>>

\* The first Deployment of a name.
HasWorkload(ws, name) == \E i \in DOMAIN ws : ws[i].name = name
WorkloadOf(ws, name) == ws[FirstOf({i \in DOMAIN ws : ws[i].name = name})]

DeploymentsReadable ==
    /\ dir.deployments # {} /\ ValidDeployments(The(dir.deployments))
    /\ HasWorkload(ParseAll(The(dir.deployments)), PlanDoc.workload)
ReadDeployments ==
    /\ Go("deployments", "schema") /\ DeploymentsReadable
    /\ workloads' = ParseAll(The(dir.deployments))
    /\ UNCHANGED <<next, migrations, plan, services, results, sqlVars>>

\* A type the table does not know is kept, and unknown to it.
TypeSpelled(spelling) ==
    IF spelling \in DOMAIN TypeNamed THEN TypeNamed[spelling] ELSE UnknownType
ParseSchema(doc) ==
    [ref \in {x[1] : x \in SchemaColumns(doc)} |->
        LET c == (CHOOSE x \in SchemaColumns(doc) : x[1] = ref)[2]
        IN  Column(TypeSpelled(c.type), c.nullable, c.default)]
BaseSchema == ParseSchema(The(dir.schema))
SchemaReadable == dir.schema # {} /\ ValidSchema(The(dir.schema))
ReadSchema == /\ Go("schema", "migrations") /\ SchemaReadable
              /\ UNCHANGED <<next, loaded, results, sqlVars>>

\* Migration files one after the other: parsePhase, then the file.
Listed == next <= Len(PlanDoc.migrations)
Entry == PlanDoc.migrations[next]
MigrationReadable == Entry.phase \in Phases /\ Entry.file \in DOMAIN dir.files

OpenMigration ==
    /\ Go("migrations", "parsing") /\ Listed /\ MigrationReadable
    /\ ParseFrom(dir.files[Entry.file])
    /\ UNCHANGED <<next, loaded, results>>
ParseMigration ==
    /\ stage = "parsing"
    /\ ParseNext
    /\ UNCHANGED <<args, dir, stage, next, loaded, results>>

\* Mutant: the latest file's operations come first.
CollectMigrationFirst ==
    /\ Go("parsing", "migrations") /\ parsing = "parsed"
    /\ migrations' = <<[id |-> Entry.file, phase |-> Entry.phase, operations |-> ops]>> \o migrations
    /\ next' = next + 1
    /\ UNCHANGED <<workloads, plan, services, results, sqlVars>>

CollectMigration ==
    /\ Go("parsing", "migrations") /\ parsing = "parsed"
    /\ migrations' = Append(migrations,
                            [id |-> Entry.file, phase |-> Entry.phase, operations |-> ops])
    /\ next' = next + 1
    /\ UNCHANGED <<workloads, plan, services, results, sqlVars>>

WorkloadChange(w, from, to) ==
    [name |-> w.name, service |-> w.service, from |-> from, to |-> to,
     strategy |-> w.strategy, replicas |-> w.replicas,
     dependsOn |-> w.dependsOn, readiness |-> w.readiness, drains |-> w.drains]
RollbackTarget(w, to) ==
    [service |-> w.service, to |-> to, strategy |-> w.strategy, replicas |-> w.replicas]
\* A static workload changes from its version to its version.
StaticChange(w) == WorkloadChange(w, w.version, w.version)

Assembled(doc, w) ==
    [base |-> BaseSchema,
     workloads |-> <<WorkloadChange(w, doc.from, doc.to)>>
                       \o [i \in DOMAIN doc.static |->
                              StaticChange(WorkloadOf(workloads, doc.static[i]))],
     migrations |-> migrations,
     rollback |-> {RollbackTarget(w, to) : to \in doc.rollback},
     links |-> ToSet(doc.links), history |-> <<>>, unknown |-> FALSE]

\* Mutant: the plan is not validated.
AssemblableUnchecked(doc) ==
    \A name \in ToSet(doc.static) : name # doc.workload /\ HasWorkload(workloads, name)

\* The rest of the document, and ir.NewRolloutPlan.
Assemblable(doc) ==
    /\ \A link \in ToSet(doc.links) : link.expand # "" /\ link.contract # ""
    /\ \A name \in ToSet(doc.static) : name # doc.workload /\ HasWorkload(workloads, name)
    /\ ValidPlan(Assembled(doc, WorkloadOf(workloads, doc.workload)))
AssemblePlan ==
    /\ Go("migrations", "contracts") /\ ~Listed /\ Assemblable(PlanDoc)
    /\ plan' = {Assembled(PlanDoc, WorkloadOf(workloads, PlanDoc.workload))}
    /\ next' = 1
    /\ UNCHANGED <<workloads, migrations, services, results, sqlVars>>

-----------------------------------------------------------------------------
(* loadServices and contract.LoadDir.                                      *)

ContractsListable == \A contracts \in dir.contracts : contracts.listable
ContractEntries == EntriesOf(dir)
MoreContracts == ContractsListable /\ next <= Len(ContractEntries)

\* Mutant: a later file replaces an earlier one.
AcceptableReplacing(doc) == ValidContract(doc)

\* Neither a version nor an API contract of it is declared twice.
Acceptable(doc) ==
    /\ ValidContract(doc)
    /\ ContractKey(doc) \notin DOMAIN services
    /\ \A api \in doc.api : Distinct(api.provides, ContractNameOf)

SkipEntry ==
    /\ Go("contracts", "contracts") /\ MoreContracts
    /\ ~IsContractFile(ContractEntries[next])
    /\ next' = next + 1
    /\ UNCHANGED <<loaded, results, sqlVars>>
LoadContract ==
    /\ Go("contracts", "contracts") /\ MoreContracts
    /\ IsContractFile(ContractEntries[next])
    /\ LET doc == ContractEntries[next].doc
       IN  /\ Acceptable(doc)
           /\ services' = With(services, ContractKey(doc), ParseContract(doc))
    /\ next' = next + 1
    /\ UNCHANGED <<workloads, migrations, plan, results, sqlVars>>
EndContracts ==
    /\ Go("contracts", "graph") /\ ContractsListable /\ ~MoreContracts
    /\ UNCHANGED <<next, loaded, results, sqlVars>>

-----------------------------------------------------------------------------
(* graph.Build: the guard computes the number of nodes in an int.          *)

Signed(n) == ((n + 2^(WordBits - 1)) % 2^WordBits) - 2^(WordBits - 1)
DuringVectors(p) == Signed(2^Cardinality(During(p)))
NodeCount(p) == Signed(3^Len(p.workloads) * DuringVectors(p))
Guarded(p) == NodeCount(p) > MaxGraphNodes

BuildGraph ==
    /\ Go("graph", "evaluation")
    /\ \A p \in plan : ~Guarded(p) /\ NodeCount(p) = LatticeSize(p)
    /\ UNCHANGED <<next, loaded, results, sqlVars>>
\* Too many nodes and the count wrapped.  With no vector left not one node is
\* built, and the index of the last one is out of range: the Go runtime panics
\* and exits with 2.  Otherwise the nodes are built until memory is exhausted:
\* the runtime gives up, with 2 again, or is killed.
Panic == 2
Killed == 137
Crash ==
    /\ Go("graph", "crashed")
    /\ \E p \in plan :
          /\ ~Guarded(p) /\ NodeCount(p) # LatticeSize(p)
          /\ \E code \in {Panic, Killed} :
                /\ code = Killed => DuringVectors(p) > 0
                /\ exit' = {code}
    /\ UNCHANGED <<next, loaded, report, output, sqlVars>>

-----------------------------------------------------------------------------
(* The verdicts, and what becomes of them.                                 *)

Verify ==
    /\ Go("evaluation", "writing")
    /\ \E p \in plan : report' = Run([plan |-> p, services |-> services])
    /\ UNCHANGED <<next, loaded, output, exit, sqlVars>>

Write ==
    /\ stage = "writing" /\ args.format \in Formats
    /\ output' = {Rendered(args.format, report)}
    /\ Exit(ExitCode[Aggregate(report)])
\* Nothing that was written, if anything was, is the report.
WriteFails ==
    /\ stage = "writing" /\ args.format \in Formats
    /\ Exit(ToolFailure)
    /\ UNCHANGED output

\* The first error ends it: nothing is printed but the error.
Fail(cause) == /\ cause
               /\ Exit(ToolFailure)
               /\ UNCHANGED output
BadCall == Fail(stage = "start" /\ ~WellCalled /\ ~AsksForHelp)
BadPlan == Fail(stage = "plan" /\ ~PlanReadable)
BadDeployments == Fail(stage = "deployments" /\ ~DeploymentsReadable)
BadSchema == Fail(stage = "schema" /\ ~SchemaReadable)
BadMigration == Fail(stage = "migrations" /\ Listed /\ ~MigrationReadable)
BadSql == Fail(stage = "parsing" /\ parsing = "rejected")
BadAssembly == Fail(stage = "migrations" /\ ~Listed /\ ~Assemblable(PlanDoc))
BadContract ==
    Fail(/\ stage = "contracts"
         /\ \/ ~ContractsListable
            \/ /\ MoreContracts /\ IsContractFile(ContractEntries[next])
               /\ ~Acceptable(ContractEntries[next].doc))
TooLarge == Fail(stage = "graph" /\ \E p \in plan : Guarded(p))
UnknownFormat == Fail(stage = "writing" /\ args.format \notin Formats)

Loads == \/ ReadPlan \/ ReadDeployments \/ ReadSchema
         \/ OpenMigration \/ ParseMigration \/ CollectMigration \/ AssemblePlan
         \/ SkipEntry \/ LoadContract \/ EndContracts
Answers == Help \/ Start \/ BuildGraph \/ Crash \/ Verify \/ Write \/ WriteFails
Fails == \/ BadCall \/ BadPlan \/ BadDeployments \/ BadSchema \/ BadMigration \/ BadSql
         \/ BadAssembly \/ BadContract \/ TooLarge \/ UnknownFormat
Finished == stage \in {"exited", "crashed"}
Done == Finished /\ UNCHANGED vars
Next == Loads \/ Answers \/ Fails \/ Done

\* The tool is one sequential program and waits for nobody: until it has
\* finished it goes on.  (Until then a step is enabled: the absence of deadlock
\* is checked too.)
Fairness == []<>Finished \/ []<><<TRUE>>_vars
Spec == Init /\ [][Next]_vars /\ Fairness

-----------------------------------------------------------------------------

Stages == {"start", "plan", "deployments", "schema", "migrations", "parsing", "contracts",
           "graph", "evaluation", "writing", "exited", "crashed"}

TypeOK ==
    /\ stage \in Stages
    /\ LexTypeOK /\ ParseTypeOK
    /\ DOMAIN migrations = 1 .. Len(migrations)
    /\ \A p \in plan : IsPlan(p) /\ ValidPlan(p)
    /\ stage \in {"exited", "crashed"} <=> exit # {}
    /\ exit \subseteq {0, 1, 2, ToolFailure, Killed}

Verifies == args.command = "verify" /\ ~AsksForHelp
\* The tool came back with a verdict.
Answered == Verifies /\ stage = "exited" /\ exit # {ToolFailure}

\* What the parser is judged by: the tokens of the migration file being read
\* are those it was written with, whatever is between and inside them
\* (SqlScripts).
LexedAsWritten ==
    stage = "parsing" =>
        LexesAsWritten(dir.scripts[Entry.file], ScriptTokens(dir.scripts[Entry.file]))

ScriptAt(i) == dir.scripts[PlanDoc.migrations[i].file]
WholeFiles(which) == \A i \in which : ScriptAt(i).cut = 0

\* What the database goes through when the files at some positions are
\* executed, in the order of the list.
ExecuteFiles(schemas, which) ==
    FoldLeft(LAMBDA reached, i :
                IF i \in which THEN Execute(reached, ScriptAt(i)) ELSE reached,
             schemas, [i \in DOMAIN PlanDoc.migrations |-> i])

\* Whatever the migration files say, the schema the operations read so far
\* lead to is the one the database has after executing those files, or it is
\* known not to be known (sql/lexer.go, sql/parser.go: nothing is silently
\* dropped and nothing guessed at).
SchemaAgrees ==
    stage = "migrations" /\ WholeFiles(DOMAIN migrations) =>
        LET seen == FoldLeft(ApplyOne, SchemaState(BaseSchema, <<>>, FALSE), migrations)
        IN  \/ seen.indeterminate
            \/ \E real \in ExecuteFiles({BaseSchema}, DOMAIN migrations) :
                  Agree(seen.schema, real)

\* An answer rests on exactly the contracts that are written: those of every
\* file, and of nothing but a file, each saying what it says (contract.LoadDir:
\* files that contradict each other are an error, never a choice).
CatalogueAsWritten ==
    Answered =>
        services = [lv \in {ContractKey(e.doc) :
                               e \in {f \in ToSet(ContractEntries) : IsContractFile(f)}}
                       |-> dir.actual[lv]]

\* A version does what it really does on a schema.
WorksOn(lv, schema) ==
    /\ UNION {dir.actual[lv][access] : access \in {"reads", "writes"}} \subseteq DOMAIN schema
    /\ \A ref \in Required(schema) : ~OmitsColumn(dir.actual[lv], ref)
AllWork(versions, schemas) ==
    schemas # {} /\ \A lv \in versions, schema \in schemas : WorksOn(lv, schema)
OldAndNew(p) ==
    UNION {{OldVersion(p.workloads[w]), NewVersion(p.workloads[w])} : w \in Workloads(p)}
NewOnly(p) == {NewVersion(p.workloads[w]) : w \in Workloads(p)}

\* Exit code 0 is a promise about the files, not about what was made of them:
\* every statement of every migration file succeeds, and every version that
\* may be live keeps working, whichever of the during-migrations have been
\* executed, and after each of the after-migrations.
SafeExit ==
    Answered /\ exit = {ExitCode.SAFE} /\ WholeFiles(DOMAIN migrations) =>
        \A p \in plan :
            LET base == ExecuteFiles({BaseSchema}, Before(p))
                rolledOut == ExecuteFiles(base, During(p))
            IN  (\E i \in DOMAIN migrations : ScriptAt(i).statements # <<>>)
                => /\ \A during \in SUBSET During(p) :
                          AllWork(OldAndNew(p), ExecuteFiles(base, during))
                   /\ \A i \in After(p) : AllWork(NewOnly(p), ExecuteFiles(rolledOut, UpTo(p, i)))

\* The exit code and what is printed are one answer, in every format: a
\* verdict is printed if and only if the exit code is one, and it is the same
\* verdict (cmd/rolloutproof: the codes hold regardless of the format).
ExitIsVerdict ==
    Verifies /\ stage = "exited" =>
        /\ exit = {ToolFailure} <=> output = {}
        /\ \A rendered \in output : exit = {ExitCode[VerdictRead(args.format, rendered)]}

\* Whatever it is called with, the tool comes to an end.
Terminates == <>(exit # {})

-----------------------------------------------------------------------------
(* What the documents say, and the code does not do.                       *)

\* cmd/rolloutproof, exit codes: 2 is a positive answer, never the way the
\* tool says that it reached none; and graph.Build: a plan that is too large
\* fails with a clear error.
NeverMistakenForUnknown == Verifies /\ exit = {ExitCode.UNKNOWN} => output # {}
=============================================================================
