# A formal model of rolloutproof

rolloutproof reads a rollout plan (SQL migrations, Kubernetes Deployments,
service contracts), builds the graph of every state the rollout may pass
through, and answers, for each of 21 invariants, SAFE, UNKNOWN or UNSAFE, with
a shortest counterexample path. This directory models that program in TLA+,
from the bytes of a migration file to the exit code, beside the deployment and
the database it talks about, so that the question asked is not only "does the
code compute what it says" but "is the verdict true of every rollout the cluster
may go through, and of the files it was given".

Paths below are under `src/internal/` unless they say otherwise.

## 1. The system

### Components

| component | state it keeps | operations | what makes it correct |
|---|---|---|---|
| Schema timeline (`ir/schema.go`, `migration.go`, `state.go`) | tables and columns; the trail of committed operations | `Schema.Apply`, one case per operation kind, with its errors | a failed operation freezes the schema and leaves the state unknown; the trail keeps the type a column had before it was retyped |
| Plan and workloads (`ir/rolloutplan.go`, `workload.go`) | workload changes, migrations with a phase, rollback target, expand/contract links | `NewRolloutPlan`, `Resolve`, `AllowsCoexistence` | an accepted plan only names migrations it has, of the right kind |
| Transition graph (`graph/graph.go`) | nodes with integer IDs, edges, start, target | `Build`, `build`, `BuildRollback`, `applyDuringSubset` | the graph is the set of all runs of the deployment, and a node tells the truth about the database |
| Path search (`graph/graph.go`) | queue, `visited`, the path | `ShortestPath`, `reconstructPath` | what is printed is a walk of the graph and no walk is shorter; `nil` means unreachable |
| Verdicts and diagnostics (`ir/verdict.go`, `ir/diagnostic.go`, `invariant/rpdb.go`) | the diagnostics | `Combine`, `CombineRollback`, `Aggregate`, `shortestByStateID` | UNSAFE dominates UNKNOWN dominates SAFE; advisory findings veto nothing; the state shown is the earliest |
| Contracts (`ir/service.go`, `ir/api.go`) | columns read and written, dependencies, API calls served and made | `ReadsColumn`, `WritesTable`, `TouchesTable`, ... | no contract is not an empty contract |
| Type table (`invariant/typecompat.go`) | none | `classifyTypeChange` | a change called widening loses no value, also after several of them |
| RP-DB family (`invariant/rpdb*.go`) | violations and gaps per node | RP-DB-001 to 006 | SAFE is a promise about the database; a counterexample happens |
| Rollback family (`invariant/rollback*.go`) | the same, over the graph of the rollback | RP-DB-007, RP-ROLLBACK-001 to 003 | a rollback called safe breaks nothing and loses no data |
| RP-API, RP-ORDER, RP-K8S (`invariant/rpapi.go`, `rporder*.go`, `rpk8s.go`) | the same | RP-API-001 to 004, RP-ORDER-001 to 003, RP-K8S-001 to 004 | every live pair of versions is looked at |
| Entry point (`verify/verify.go`) | the list of diagnostics | `Run` | the K8s family sees what the others found |
| SQL parser (`parser/sql`) | position in the text, tokens; statements, operations | `lex`, `splitStatements`, `Parse`, one function per `ALTER TABLE` form | a statement becomes the operation the database executes, an unclassified one, or an error, never a part of itself; the lexer ends on every text |
| Manifest and contract parsers (`parser/k8s`, `parser/contract`, `parser/rolloutplan/schema.go`, constructors of `ir`) | the registry being filled | `ParseAll`, `ParseSchema`, `Parse`, `contract.LoadDir` | defaults as Kubernetes has them; no contract passed over, none hides another |
| Loading (`parser/rolloutplan` `LoadDir`, `verify` `loadServices`) | workloads, migrations, plan | one read and one check after the other | the first defect ends it; what is assembled is a plan the constructors accept |
| Report (`report`) | none | text, JSON, SARIF | each format says what the exit code says |
| Command line (`src/cmd/rolloutproof`) | the exit code | `run`, `runVerify` | 0 is a promise, 1 and 2 are answers, more is none |
| Evaluation harness (`src/cmd/eval`) | none | runs the corpus | - |

### How they interact

The program is sequential Go: `runVerify` calls `verify.Run`, which loads a
directory (`rolloutplan.LoadDir`, which calls the SQL and Kubernetes parsers,
then `contract.LoadDir`), builds one graph and passes it to the families one
after the other by plain calls; the list of diagnostics is rendered in one
format, written, and aggregated into the exit code. There are no goroutines, no
retries, and one file is written at the very end. What is concurrent is the **subject**:
several workloads change at their own pace while during-migrations commit at
any moment; after-migrations commit when all that is over; a rollback may
follow. The graph package promises to explore that concurrency completely
(`graph/doc.go`), and every family believes it.

### Where it is hard

* All interleavings of workloads and during-migrations are folded into one
  graph of integer IDs computed by strides: an edge missing, an edge too many,
  or an ID off by one would silently make verdicts about other states.
* A node knows the *set* of committed during-migrations, not their order.
* Failure in the middle of a migration freezes the schema: everything after it
  must be unknown, and never safe.
* Evidence is read back from the trail (what removed this column, what was its
  type before) while existence is read from the schema. The two can disagree
  when a column is dropped and added again, renamed, or retyped twice.
* Pairs of scans share a question: RP-DB-001/002 leave renames to RP-DB-005;
  RP-ROLLBACK-003 rescans what 001 and 002 have judged; RP-K8S-001 echoes.
* Rollback starts from a schema that has moved on.
* The lexer is a set of hand-written loops over a text in which a semicolon, a
  quote or a comment opener means different things in different places; one
  boundary missed hides all that follows.
* Each parser either understands a statement, gives it up, or refuses the file;
  a statement understood in part is the one outcome that must not happen.
* Verdict, report and exit code are computed from one list in three places.

The hazards, each with its line and the properties that watch it, are listed in
`PROJECT.json`.

## 2. The modules

    Schema            Apply, CommitOp, ApplyOne: operations on a schema state
    └ TransitionGraph plans, progressions, positions, edges, node states, rollback plan
      ├ Rollout         the deployment itself (abstract specification, external)
      │ └ RolloutProofs
      ├ GraphWalk       a walk over the graph; refines Rollout
      │ └ GraphWalkProofs
      └ Diagnosis       findings over nodes -> one diagnostic   (with Verdicts)
        ├ ColumnInvariants     RP-DB-001..006   (with Contracts, TypeCompat)
        │ └ RollbackInvariants RP-DB-007, RP-ROLLBACK-001..003
        ├ ApiInvariants        RP-API-001..004
        ├ OrderInvariants      RP-ORDER-001..003
        └ K8sInvariants        RP-K8S-001..004
          └ Evaluation         verify.Run, given a plan and contracts  (all families)
            ├ EvaluationProofs the nodes and the report              (with FoldFacts)
            ├ Verification     then the rollout, then the rollback
            │ └ VerificationProofs
            └ Manifests        Deployments, schema file, contracts
    ShortestPath      the breadth-first search, step by step
    └ ShortestPathProofs
    TypeCompat        the type table
    └ TypeChain       a column retyped again and again   (proofs in RolloutProofs)
    SqlLexer          the lexer, one action per iteration of its loops
    └ SqlParser       statements to operations                 (with Schema)
      └ SqlScripts    what a migration file means              (external)
        ├ ScriptProofs  lexer and parser on the text of a script
        └ Tool        command line, loading, size guard, exit code
          │           (with Manifests, and Reports: the three formats)
          └ ToolProofs                                 (with ScriptProofs)
    FoldFacts         a fold followed prefix by prefix
    MCPlans, MC*      the instances TLC checks

`GraphWalkProofs`, `VerificationProofs` and `ToolProofs` rest on
`EvaluationProofs`. `ScriptProofs` is a module of its own because it is about
`SqlScripts` only, not about the tool: one text and one script.

**Schema.** A schema is a function from the columns that exist to type,
nullability and whether there is a default. A table is only a field of a
column: for `Apply` an empty table and an absent one behave alike. `Applicable`
is the error returns of `Schema.Apply`, `Apply` its effect, `CommitOp` one
iteration of the loop in `applyOne`, the capture of the prior type included.

**TransitionGraph.** `ValidPlan` is the validation of `ir.NewRolloutPlan` and
`build`. A node is named by its *position*: the step of each workload (0 old, 1
coexisting or drained, 2 new), the set of committed during-migrations, the set
of committed after-migrations. `NodeId` is the integer the code computes for
it, from strides and bits; `NodeSlice` is the slice the nodes are appended to:
`Combos` the loop nest of `buildVersionCombos`, `Row` the loop over the during
vectors, the after-chain behind. `LatticeEdges`, `HypercubeEdges` and
`ChainEdges` are the three loops that append edges; `SchemaStateAt` replays
migrations in list order, as
`applyDuringSubset` does; `DuringVector` reads the bits of the vector from the
last during-migration to the first; `RollbackPlan` is the plan `BuildRollback`
hands to `build`. What the promises are stated with is here too: `SameEvidence`
(two states with the same columns, and the same answer to what became of a
column) and `Independent` (no two during-migrations name a column in common).

**Rollout.** The abstract specification, and external to the repository: what a
cluster and a migration runner may do. It is nondeterministic wherever
`graph/doc.go` says nothing is guaranteed. Its `trail` is the real commit order.

**GraphWalk.** A walk over the graph that was built: one action per kind of
edge, `trail` as a history variable. `R == INSTANCE Rollout WITH steps <-
node.steps` is the refinement mapping.

**ShortestPath.** `Graph.ShortestPath` and `reconstructPath`, one action per
loop step (`Dequeue`, `SkipEdge`, `VisitEdge`, `EndScan`, `GiveUp`, `Prepend`,
`Return`). The graph is any edge set, not only those `build` makes. `depth` is
a history variable that the properties and the proof need.

**TypeCompat, TypeChain.** `ClassifyTypeChange` on what `parseType` yields, a
family and a size; `TypeChain` gives types the meaning of the set of values
they hold and retypes a column without bound.

**Diagnosis, ColumnInvariants, RollbackInvariants, ApiInvariants,
OrderInvariants, K8sInvariants.** One operator per `Evaluate...` function, over
the set of nodes. A diagnostic keeps the verdict, the violating state of the
counterexample (where it is, who is live), the advisory flag and the rollback
verdict. Loops that collect violations and gaps are set comprehensions; the
choice of the reported violation is by fewest events and lowest ID, where the
number of events stands for the length of the shortest path (every edge adds
one event, and `ShortestPath` shows the search finds the shortest). What
several operators look at, the nodes or the diagnostics so far, is passed to
them as an argument, as the code passes it.

**Evaluation, Verification.** `Evaluate` is the order in which `verify.Run`
calls the families. A project has a plan, contracts, and what each version
*really* does. `Verify` is `verify.Run` from there on; then `Deploy` takes the
steps of `Rollout` whatever the verdict was, and `RollBack` starts the rollback
from the schema the database is really in. `Broken` says what goes wrong when a
version is live on a schema, independently of how the code looks for it: a query
on a missing column, a row without a required column, a value of the old type
that no longer fits, a schema nobody can predict.

**SqlLexer, SqlParser.** A text is a sequence of *atoms*: a character that
decides something, or a whole word or run of digits, inside of which the code
tells nothing apart. `lexing` says which loop of the code is running, and every
iteration is an action (`SkipLineComment`, `SkipDoubled`, `ContinueOp`, ...).
Tokens are spans of the text, as in the code. `ParseStatement` and one operator
per `parse...` function read a statement from a position and say where they
stop; `Malformed` is a `ParseError`, `Unclassified` an `OpUnclassified`. What
follows the form a statement begins with is not looked at, as in the code.

**SqlScripts.** External: what an author means by a migration file (statements
and their actions), the tokens it is written with, the text (with blanks or
comments between the tokens, tight or not, cut short or not), and what the
database does on executing it. `WellWritten` says of a script what makes it one
that can be read: every token has the form of its kind (`Spellable`; in a
quotation the delimiters come in pairs), what is written between tokens is
blanks and comments one after the other (`Separates`), and no point follows a
number. `Ordinary` says what the parser is made for: a statement has at most one
action, of one of the forms or clearly of none (`OtherAction`); a name is quoted
or is no word that may stand before a name; a type is one the table knows, and
whatever the table knows that has the same words and others between them is the
same type; no `DEFAULT` stands before `NOT NULL`. The parser is judged against
this.

**Manifests.** `ParseDeployment`, `ParseContract` and the schema file, with the
validation they end in, as `Valid...` predicates and the records they yield. A
YAML document is a record of its fields; whether the decoder accepts it is one
of them.

**Reports.** What each format keeps of a diagnostic that a reader decides by:
heading, tally, which invariants appear, the level of a SARIF result.
`VerdictRead` (external) is the verdict that reader ends up with.

**Tool.** The program from its arguments to its exit code. `stage` is where
`runVerify`, `verify.Run` and `LoadDir` have got to, `next` the entry of the
list of migrations or contracts being worked on. There is one action per read
or check and one per error return, in the code's order; a migration file is
lexed and parsed by the actions of `SqlParser`. `NodeCount` is computed in an
`int` of `WordBits` bits; `Crash` is what the Go runtime does when the guard was
passed by a count that wrapped: the panic, with exit code 2, or a process out of
memory. A directory also carries what is true of it: the scripts its migration
files were written from, and what each version really does.

## 3. What TLC checks

| run | question | result |
|---|---|---|
| `rollout` | Does the abstract deployment keep the timing a plan declares, under every interleaving, and does it end? | passes |
| `graph_walk` | Is the graph the deployment, neither more (`ImplementsRollout`) nor less (`NoMissingEvent`)? Is each node's schema the database's whichever order the during-migrations took (`NodeTellsTruth`)? Is the ID computed for a node its index in the slice the loops append it to (`IdsAreIndices`)? Does every walk end at the target (`ReachesTarget`)? | passes, for during-migrations that touch different columns |
| `graph_walk_order` | The same, for two during-migrations that retype one column | **violated** (finding) |
| `shortest_path` | Is the path a walk of the graph, is none shorter, does nil mean unreachable, does the search return? | passes |
| `type_chain` | Is judging each retyping against the type just before it enough? Is nothing harmless flagged? | passes |
| `verification` | One service, one or two migrations: is a SAFE report true of every moment of every rollout (`SafeMeansSafe`) and of the rollback (`RollbackSafeMeansSafe`, `RollbackLosesNoData`)? Do the counterexamples of RP-DB-001 to 004 happen, and is the one shown the earliest? Do the rollback scans agree? Is an accepted contract step, of any phase, not executed before the rollout is over (`ContractWaits`)? | passes |
| `services` | Two services beside each other: are calls answered, version minimums met, traffic held back, shutdown hooks of versions being replaced left alone? Counterexamples of RP-API-001 to 003 as above | passes |
| `tool` | From files to exit code. Are the tokens read those that were written, whatever is quoted, commented or cut off (`LexedAsWritten`, `BoundarySafe`, `TokensInOrder`)? Is the schema the operations lead to the one the database has, or known to be unknown (`SchemaAgrees`)? Does an answer rest on exactly the contracts there are (`CatalogueAsWritten`)? Is exit code 0 true of the *files*: every statement succeeds and every live version keeps working (`SafeExit`)? Do report and exit code agree in every format, failures to write included (`ExitIsVerdict`)? Does the tool come to an end (`Terminates`)? | passes |
| `scoping`, `unconstrained`, `sql_lost_action`, `size_guard` | A sentence of the documents or comments each | **violated** (findings) |

### Bounds, and why they are enough

* `MCRollout`: two workloads, three migrations in all 27 assignments of phases,
  both strategies. Two workloads give every interleaving of two actors; three
  migrations give two in one phase and one in another, the least with which
  "in list order" and "in any order" differ beside a third phase.
* `MCGraphWalk`: one workload with two migrations of six kinds (two of them
  fail or cannot be classified in some orders) in all phases, restricted to
  during-migrations on different columns; and two workloads, rolling,
  recreated, drained or static, with three migrations. Strides of three
  dimensions are exercised, and every node of every graph is visited.
* `MCShortestPath`: all 4096 graphs on four nodes, cyclic ones included, the
  1024 graphs on five nodes whose edges lead to higher IDs, as those of a
  transition graph do, and every target. Five nodes are the fewest on which a
  stack in place of the queue returns a path that is not the shortest.
* `MCTypeChain`: 13 types, chains of any length (the state is finite: first
  type, present type, flag). Three ranks and three lengths with unbounded on
  top give every order of three types.
* `MCVerification`: 27168 projects. One service v1 -> v2; two migrations out of
  eight, so that each may undo, repeat or hide what the other did (drop, then
  add again; rename onto; retype; NOT NULL; an unclassified statement); four
  ways a version may use the table; every subset of the contracts for one
  migration; a declared expand/contract pair; a static second service. Every
  moment of the rollout and of the rollback after it is checked.
* `MCServices`: 5378 projects of two services. Five ways to serve an API and
  four to call it, for each version; five minimums of which one cannot be
  compared; probes, hooks, dependencies between Deployments in both directions
  and to one the plan does not have.

* `MCTool`: 1041 directories and eleven ways to call the tool, 308537 states.
  Every supported form of `ALTER TABLE` with each of its optional parts (COLUMN,
  IF [NOT] EXISTS, NOT NULL, DEFAULT, USING, SET DATA, quoted and qualified
  names), unsupported forms and forms broken off; a string that holds every
  character that means something outside one; four kinds of gap between tokens,
  comments with semicolons, a line ended by a carriage return and a newline, and
  comments of stars among them; three files cut at
  every atom, a number with a fraction among their tokens. Two migration files in
  all nine pairs of phases with and without
  rollback, link, static workload and recreation; one defect at a time in the
  plan, each Deployment, the schema and the contracts; contracts that contradict
  each other. `WordBits = 8` and `MaxGraphNodes = 90` let the size guard trip at
  five during-migrations and the count wrap as it does in the 64 bits of the code:
  at six (62 there) three times 2^6 wraps to a negative count while the number of
  vectors is still positive, at seven (63) that number is negative, from eight
  (64) on it is zero. `size_guard` has the last two cases. The versions use none, one
  or both of two columns, so that each migration breaks some of them and not
  others: all three verdicts, in all three formats, advisory findings included,
  are among the outcomes.

Four restrictions are part of the statement, not of the bounds. Contracts tell
the truth (`actual` equals `services` where there is a contract; a version
without one may do anything): the tool reads nothing but contracts. And
during-migrations touch different columns: `graph_walk_order` shows what
happens otherwise. A plan that commits nothing is left out of `SafeMeansSafe` and
`SafeExit`, as in the code (`vacuousWhenNoOp`). And the scripts of `tool` are
ones the parser is made for (`Ordinary` in SqlScripts, which the run evaluates
on every one): `ALTER TABLE` with several actions and `DEFAULT` before `NOT
NULL` are not, and are left to `sql_lost_action`, which shows what becomes of
them.

### Fairness

`Rollout` and `GraphWalk` assume weak fairness of the whole next-state
relation: the plan is being carried out, so that as long as something can
happen something does. Nothing is assumed of one workload or one migration.
`ShortestPath` assumes weak fairness because it is a sequential loop. Both are
used by `Completes`, `ReachesTarget`, `ImplementsRollout` and `Terminates`
only. `Verification` states safety only and assumes none. `Tool` is a sequential
program that waits for nobody: until it has finished it takes steps
(`[]<>Finished \/ []<><<TRUE>>_vars`). This is weak fairness of `Next`, as a step
that changes something is enabled until then, which the run checks as absence of
deadlock.

Deadlock checking is off where the modelled activity really stops: a rollout
that is over, a search that has returned. It is on for `tool`, where stopping
before an exit code would be an error return the model forgot.

### Mutants

Each property has, in `PROJECT.json`, a mutated form of a definition of the
model (a dropped guard, a reversed comparison, a missing gap, the trail
believed over the schema...) which it must find. They are the operators marked
`Mutant` in the modules, defined just before the definition they mutate.

## 4. What is proved

TLAPS proves the theorems below for **every** value of the constants: any plan,
any number of workloads, migrations and services, any contracts, any text. The
runs check each of these properties on an instance, the theorems in general.

### Assumptions

Nothing is assumed beyond the named assumptions of the modules, which TLC
evaluates on every instance:

* `PlansAssumption`, `ProjectsAssumption`: a plan has the shape of the Go types
  (`IsPlan`) and is one the constructors accept (`ValidPlan`).
* `NodesAssumption`, `GraphsAssumption`: nodes are naturals, edges join nodes.
* `TypesAssumption`: sizes are naturals, only varchar is unbounded.
  `OnlyLossFlagged` has the hypothesis that values of every size are told apart
  (`Nat \subseteq Sizes`); with fewer, a narrowing may lose nothing.
* `AtomsAssumption`: words and digits are no punctuation, no blank and no NUL,
  and no atom is both.
  `OrdinalAssumption`: a version that parses is a list of naturals.
* `DirectoriesAssumption`: files, contract directories and the lists of
  migrations and of static workloads are finite lists, there is at most
  one rollback block, and where no two contract files are of one version each is
  true of its version.
  `SizesAssumption`: the width and the size limit are naturals.
* `ScriptsAssumption`: each migration file holds the text of a script that is
  well written. It is what gives "as it was written" a meaning; the text of a
  script may still be cut short anywhere, and its tokens may be of no kind the
  lexer knows.

Four hypotheses stand before promises that need them, in the theorem itself:
`Honest` (a contract says what its version does; the tool sees nothing else),
`Independent` (no two during-migrations name a column in common; finding 1 of
section 5 shows what happens otherwise), `DistinctIds` (section 5),
`OrdinaryFiles` (every script of every directory is `Ordinary`; finding 4 of
section 5 shows what happens otherwise). They are the restrictions under which the runs pass, stated once
more.

### The modules of proofs

* **RolloutProofs** `TypeCorrect`, `TimingKept`. `PhasesInOrder` alone is not
  inductive: that after-migrations are committed in list order does not follow
  from their being increasing so far, a later one could be left out. `Inv` adds
  that what is committed is pending work (`OnlyPending`) and that the committed
  after-migrations are an initial part of the list (`ChainIsPrefix`). In the same
  module `ChainTypeCorrect`, `ValuesKept` and `OnlyLossFlagged`, about TypeChain:
  the table is transitive where it says widening, so the values of the first
  type fit the present one as long as nothing was flagged. Conversely a flagged
  change between known types has a value that no longer fits.
* **ShortestPathProofs** `TypeCorrect`, `PathReal`, `PathShortest`,
  `NilUnreachable`, on every graph. The invariant is the standard one of
  breadth-first search and then some, since the property is about all walks:
  the queue spans two levels (`Layers`), a node that is done has all its
  successors found at most one level down (`Closed`, `Scanned`, `ScanEdges`),
  and when the target is found this stays true above its level
  (`Certificate`); a shorter walk would have to leave the found levels
  somewhere, at a least index. `Rebuilt` carries the path being rebuilt. The
  marking of a node when it is queued and not when it is taken is what
  `VisitEdge` needs for `Layers`.
* **FoldFacts**. The folds of the model (replaying migrations, aggregating
  verdicts, computing IDs) are `FoldLeft`s. A fold passes through one value per
  prefix of its list, each one application from the one before (`FoldSteps`,
  which rests on the existence of a function on all prefixes, `FoldsExists`).
  The module is parameterised by the function folded and instantiated for each
  of them; what holds of a fold then follows by ordinary induction over the
  prefixes, as the membership of a number in a set of naturals.
* **EvaluationProofs**, for one plan and its report, without a state machine:
  * *Nodes tell the truth* (`Tells`). During-migrations that name no column in
    common do to the base what each does by itself (`Canonical`), so replaying
    them in list order, as the code does, agrees with any order of commits; and
    what removed a column or changed its type, which the scans read back from
    the trail, is told alike (`Decided`).
  * *Nodes are numbered* (`NodeNumbers`). The digits of the combination in radix
    3, then the bits of the during-vector, are the numeral of the node: every
    number below the size of the lattice is the ID of exactly one node, and the
    chain takes the numbers after it. An event leads to a higher number
    (`EventsNumberUp`). That there are 2^n vectors comes from the cardinality of
    the subsets of n migrations, which are in bijection with the numbers.
  * *Clean nodes* `EveryColumnExists`, `EveryWriteIsComplete`,
    `EveryTypeStillFits`. Where RP-DB-001, 002 and 005 find nothing and miss
    nothing at a node, every column a live version declares exists: what the
    first two leave to the third is exactly what the third looks at. Likewise
    for RP-DB-004 and required columns, RP-DB-003 and narrowed types.
  * *The report* (`RunReport`, `AggregateIs`): a diagnostic is SAFE only if every
    node is clean, each of the twenty-one stands where `Run` puts it, and what
    the aggregate says of the list.
* **GraphWalkProofs** `TypeCorrect`, `SafeRefinement`, `NothingMissed`,
  `NodesTellTruth`, `NodesAreNumbered`. `Inv` adds `Agrees`: the two sets of a
  node are the set of what the walk committed. From there each edge is a step
  of the deployment with the same guard, and conversely. The positions of the
  chain need that a committed prefix is determined by its last element
  (`OnChain`). The truth of a node and its number are then those of
  EvaluationProofs, carried along the walk. For `NodesAreNumbered` the three
  loops are followed with the folds of FoldFacts: after n workloads the k-th
  combo is the one whose index is k - 1 (`CombosAreNumbered`), the migrations of
  a during vector are those whose bits add up to it (`VectorSets`), a row of
  nodes is numbered on from the last (`LatticeInPlace`), the chain from the
  lattice (`ChainInPlace`). `NodeNumbers` then says that no node is left out and
  none is there twice.
* **VerificationProofs**, the promises of the whole tool. The properties are not
  inductive: they relate a verdict found before the rollout to a database that
  moves on. `Inv` says that the report is `Run(project)`; that the deployment is
  always at a position of the graph (`Place`); that the operations committed are
  those of the node there and, if `Independent`, that the node tells the
  database's state (`Followed`); that a rollback starts from a state that tells
  the target node's (`RolledBack`). What the tool looked at is then what the
  database meets, and EvaluationProofs says what a clean look means: `Safe`,
  `RollbackSafe`, `NoDataLost`, `BothScansAgree`, `OrderSafe`, `CallsSafe`,
  `ReadinessSafe`, `ContractSafe`, `TerminationSafe`. `CounterexampleReal` and
  `CounterexampleEarliest` go the other way, from a diagnostic to the rollout:
  what a finding says of its node happens when a rollout gets there, and the
  node reported has the fewest events and, among these, the lowest ID, which is
  why its ID must be its own; both are about RP-DB-001 to 004 and RP-API-001 to
  003, whose findings are events of the deployment. `ContractSafe` is about
  everything executed, the before-migrations included, which no trail has.
  `TypeCorrect` is the type invariant.
* **ScriptProofs**, for every text and script. `TypeCorrect`, `BoundariesFound`,
  `OrderKept` are about the lexer, on every text. That a token has no unquoted
  semicolon in it is not inductive: while it is being read it is not a token
  yet. `Inv` adds that it has begun after the last of the tokens (`Begun`) and
  has no semicolon so far unless it is quoted (`Unbroken`).
  That the tokens of a script are read back needs to know where the lexer can
  be in its text. A layout (`Laid`) gives each token its place and lists the
  places behind it at which a blank, a comment or the next token begins. The
  lexer is `OnTrack`: it has read exactly the first tokens, and is at one of
  these places, inside a comment that ends at one, or inside the next token. In
  a text that is cut short it may leave the track, but only where the text
  ends (`Astray`): there a comment opener, an operator, a quotation or a number
  can be taken for what it is not. `TrackKept` is one lemma per place the lexer
  can be at (`BetweenKept`, `CommentKept`, `RunKept`, `NumberKept`,
  `QuotationKept`, `CutKept`, `PointKept`); the pairs of delimiters in a
  quotation are why `SkipDoubled` has to step over both at once. `LayoutExists`
  lays out every script: the text is a `FlattenSeq`, and `PiecesInPlace` says
  where each piece of one begins, by induction on their number.
  From tokens to operations, for scripts that are `Ordinary`: each part of a
  form is found where it was written (`NameHere`, `TypeRead`, `ExpressionRead`),
  one lemma per form (`AddRead`, `DropRead`, `RenameRead`, `TypeFormRead`,
  `NullabilityRead`) says which operation it becomes, and `OtherRead` that
  everything else becomes an unclassified one or an error; so it is for
  statements (`StatementRead`), and the statements of a file are what stands
  between its semicolons (`FileRead`). The operation then does to a schema what
  the database does on executing the action, or freezes it (`OpAgrees`), and a
  file what its statements do (`FileAgrees`). `MeantKept` carries this through
  the steps of the parser.
* **ToolProofs**, for every directory and call. `EveryFileLexed`
  carries this through all the files: a step of the tool opens a file, steps the
  lexer, or leaves it alone (`LexerSteps`). `FilesReadAsWritten` does the same
  for the track of the script of the file being read (`Reads`). `CatalogueTrue` rests on `Progress`:
  after n entries the catalogue is that of the first n (`CatalogueOf`), a file
  adds its own contract or ends everything (`SkipKeeps`, `LoadKeeps`), and
  nothing but a failure can come before the last. `ToolTypeCorrect` and
  `ExitSaysVerdict` follow a plan to the exit code: what the parser yields is an
  operation (`Parser`), what is assembled is a plan the constructors accept
  (`Assembling`), the verdict of its report is the one a reader finds in each
  format (`ReadBack`), and the exit code says it (`Outcome`).
  `SchemaIsTold` and `ZeroIsAPromise` put the two together, from the text to the
  deployment: the operations of every file read so far are what is meant by it
  (`Migrating`), so that a fold of `ApplyOne` over the migrations tells the
  database after executing the files (`AllTold`), and likewise in every state of
  the rollout (`NodeTold`). An answer is the report of the plan that was read
  (`Judged`); SAFE means that no statement fails (`CleanWorks`) and, by the clean
  nodes of EvaluationProofs, that every version that may be live works
  (`NodeWorks`).

### Left to TLC

* What needs fairness: `Completes`, `ReachesTarget`, `Terminates`, the liveness
  part of `ImplementsRollout`.

Every invariant of the passing runs is the property of a theorem.

## 5. Where the code and its documents part

Each is a run TLC finds violated; the quotation is in `PROJECT.json`.

1. `graph_walk_order`. `ir/state.go:45` says the trail of a state is in commit
   order. `applyDuringSubset` replays in list order. With two during-migrations
   on one column, committed the other way round, the node has a column type
   and prior types the database does not have.
2. `scoping`. `rollback_plan.go:15` calls judging the rollback from the end of
   the plan conservative. A plan that introduces NOT NULL and lifts it again
   after the rollout is declared SAFE, while a rollback requested between the
   two breaks the old version's writes.
3. `unconstrained`. ADR 0007 and `ir/service.go:44` say a dependency without a
   minimum version drives RP-ORDER to UNKNOWN. `rporder.go:79` skips it, and
   the verdict is SAFE.
4. `sql_lost_action`. `parser/sql/lexer.go:14-20`: what is not one of the
   supported forms becomes an unclassified operation, "never silently dropped
   and never guessed at". The sub-parsers return after the first action and do
   not ask whether the statement ends there: `ADD COLUMN c integer, DROP COLUMN
   b` is an AddColumn, `DEFAULT 0.2 NOT NULL` a nullable column.
5. `size_guard`. `graph.go:246` promises a clear error for dozens of
   during-migrations, and `cmd/rolloutproof/main.go:36` that a failure is never
   conflated with UNKNOWN. With 63 of them `1 << numDuring` is negative, from 64
   on it is zero: the guard is passed, no node is built, and the panic exits with
   2. (With 62 and one workload change only the product wraps, to a negative
   count: the guard is passed as well, and the nodes are built until memory is
   exhausted.)

Met while modelling, and without a run:

* Two migrations may have the same ID. `NewRolloutPlan` (`ir/rolloutplan.go:91`)
  and RP-DB-006 (`rpdb006.go:43`) both fill a map by ID, so the last one of an
  ID stands for all: a contract step that is in the after-phase by its last
  entry and in the before-phase by its first is SAFE by RP-DB-006, and commits
  before the rollout. The proof of `ContractSafe` found it; hence its hypothesis.
* `docs/invariants.md:116`: a live version whose contract does not mention the
  affected table makes RP-DB-001 UNKNOWN. The code calls it SAFE (`rpdb.go:177`);
  RP-DB-003, 004 and 005 do ask `TouchesTable`. ADR 0007 takes the absence of
  the whole schema block as a fact, so the documents disagree with each other.
* RP-K8S-001 and RP-K8S-003 count live versions of all services (`rpk8s.go:62`,
  `:270`) where their comments speak of one: an old version that serves beside
  another service is reported as draining, and a counterexample without two
  versions of anything is echoed.
* `parser/rolloutplan/parser.go:22-29` says a static workload is present
  throughout. Declared Recreate, it has a state in which it is not.
* An operator is read as far as operator symbols go: in `1+/*x*/2` and in
  `1+--x` the comment becomes part of it. Block comments do not nest, as they do
  in PostgreSQL. The lexer then sees other tokens than the database; the scripts
  leave a blank after an operator and nest no comments. A line comment ends at a
  newline and at a NUL for the lexer, at a carriage return too for PostgreSQL;
  the scripts have one only before the newline.
* A quoted identifier with a point in it is cut at the point
  (`lastQualifiedPart`).
* The `$` of a dollar-quoted body is an unexpected character: the file is
  refused, where `lexer.go:14-18` lists DO blocks among what is unclassified.
* Any error of `os.Stat`, and not only absence, makes `loadServices` go on
  without contracts (`verify.go:59`).

## 6. What is not modelled, and why

* **Characters inside words and numbers, case, line numbers.** A word is an atom
  and a keyword has one spelling; positions in the file are only for messages.
* **The YAML decoder** (external): a document is decoded or not. File names,
  paths and file system errors other than a file that cannot be read.
* **Partial writes.** `WriteFails` leaves nothing to rely on in the output.
* **The map of API contracts** `contract.LoadDir` fills besides the services:
  that no key is there twice is part of `Acceptable`; the K8s and API families
  are given what the services provide.
* **RollingUpdate with no room for coexistence** in `DrainsUndisturbed`: such a
  workload has a state in which nobody is live, RP-K8S-003 says nothing about
  it and does not report UNKNOWN as it does for Recreate. Listed as a hazard.
* **RP-ROLLBACK-003's four-valued verdict** is compared for SAFE only; when the
  rollback version has no contract it is UNKNOWN while the verdict may be
  UNSAFE, and no document says which is meant. CONDITIONALLY_SAFE is never its
  final value in any of the 27168 projects: only the removal by a rename is
  classified so, and RP-DB-005 then finds the same version UNSAFE (or the
  schema unknown), so the branch of `evaluateRollbackAggregate` that turns a
  conditional SAFE into UNKNOWN is not exercised.
* **Wording**: evidence, summaries, recommended sequences, missing-evidence
  lists, rule metadata and locations in the reports. They decide nothing.
* **The evaluation harness** `cmd/eval`, a test tool.

## 7. What could follow

The planned modules are written. What would add to them:

1. Theorems: that the version order `Older` is a strict order that agrees with
   padding by zeros.
2. Statements of `SqlScripts` beyond `ALTER TABLE`, once the parser knows them.
3. A property for workloads left out of `DrainsUndisturbed`, once it is decided
   what RP-K8S-003 owes them.
