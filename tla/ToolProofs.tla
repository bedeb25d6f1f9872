------------------------------ MODULE ToolProofs ------------------------------
(***************************************************************************)
(* Proofs about the tool, for every directory it is called on.             *)
(*                                                                         *)
(* The lexer is started anew for each migration file, so what ScriptProofs *)
(* shows of one text holds of all of them: the file being read is followed *)
(* along the script it was written from (Reads).  The contracts are read   *)
(* one entry after the other: ToolInv says what the catalogue holds after  *)
(* each (CatalogueOf), and that nothing but an answer comes of it then     *)
(* (Progress).                                                             *)
(*                                                                         *)
(* Then the answer.  A statement becomes an operation of a known kind      *)
(* (StatementIsOp), so the plan that is assembled is one the graph is      *)
(* built for (Assembling), its report has a verdict, what is rendered in   *)
(* any format is read as that verdict (ReadBack), and the exit code is     *)
(* its code (Outcome).                                                     *)
(*                                                                         *)
(* Last what the answer says of the database.  Of ordinary files, the      *)
(* operations of every file read so far are what is meant by it            *)
(* (Migrating), so the schema they lead to is the one the database has, or *)
(* it is known not to be known (AllTold): at the end of the files, and in  *)
(* every state of the rollout (NodeTold).  A report is the one of the plan *)
(* that was read (Judged); when its verdict is SAFE no statement fails     *)
(* (CleanWorks), and every version that may be live works (NodeWorks).     *)
(***************************************************************************)
EXTENDS Tool, EvaluationProofs, ScriptProofs


-----------------------------------------------------------------------------
(* The directory, read by a tool that lexes each of its migration files.   *)

KeyOf(e) == ContractKey(e.doc)
FilesUpTo(entries, n) == {i \in 1 .. n : IsContractFile(entries[i])}

\* A catalogue of the first n entries: the contract of every file among them,
\* under its own name, and no other.
CatalogueOf(cat, entries, n) ==
    /\ cat = [lv \in {KeyOf(entries[i]) : i \in FilesUpTo(entries, n)} |-> cat[lv]]
    /\ \A i \in FilesUpTo(entries, n) : /\ ValidContract(entries[i].doc)
                                        /\ cat[KeyOf(entries[i])] = ParseContract(entries[i].doc)
    /\ \A i, j \in FilesUpTo(entries, n) : KeyOf(entries[i]) = KeyOf(entries[j]) => i = j

NotYet == {"start", "plan", "deployments", "schema", "migrations", "parsing"}
Judging == {"graph", "evaluation", "writing"}
Complete == CatalogueOf(services, ContractEntries, Len(ContractEntries))

Progress ==
    /\ stage \in NotYet \cup {"contracts"} \cup Judging \cup {"exited", "crashed"}
    /\ stage \in NotYet => services = <<>>
    /\ stage = "contracts" => /\ next \in 1 .. Len(ContractEntries) + 1
                              /\ CatalogueOf(services, ContractEntries, next - 1)
    /\ stage \in Judging => Complete
    /\ stage = "exited" /\ exit # {ToolFailure} => AsksForHelp \/ Complete

ToolInv == dir \in Directories /\ Inv /\ Progress

-----------------------------------------------------------------------------
(* The catalogue, entry by entry.                                          *)

\* Before the first entry it is empty.
LEMMA EmptyCatalogue == ASSUME NEW entries PROVE CatalogueOf(<<>>, entries, 0)
<1>1. FilesUpTo(entries, 0) = {} BY DEF FilesUpTo
<1>2. <<>> = [lv \in {} |-> <<>>[lv]] OBVIOUS
<1>3. {KeyOf(entries[i]) : i \in FilesUpTo(entries, 0)} = {} BY <1>1
<1>. QED BY <1>1, <1>2, <1>3 DEF CatalogueOf

\* An entry that is no file adds nothing.
LEMMA SkipKeeps ==
    ASSUME NEW cat, NEW entries, NEW n \in Nat, CatalogueOf(cat, entries, n),
           ~IsContractFile(entries[n + 1])
    PROVE  CatalogueOf(cat, entries, n + 1)
<1>1. FilesUpTo(entries, n + 1) = FilesUpTo(entries, n)
    <2>1. \A i : i \in 1 .. n + 1 <=> i \in 1 .. n \/ i = n + 1 OBVIOUS
    <2>. QED BY <2>1 DEF FilesUpTo
<1>. QED BY <1>1 DEF CatalogueOf

\* A file whose version is not there yet adds its contract.
LEMMA LoadKeeps ==
    ASSUME NEW cat, NEW entries, NEW n \in Nat, CatalogueOf(cat, entries, n),
           IsContractFile(entries[n + 1]), ValidContract(entries[n + 1].doc),
           KeyOf(entries[n + 1]) \notin DOMAIN cat
    PROVE  CatalogueOf(With(cat, KeyOf(entries[n + 1]), ParseContract(entries[n + 1].doc)),
                       entries, n + 1)
<1> DEFINE old == FilesUpTo(entries, n)
           key(i) == KeyOf(entries[i])
           said(i) == ParseContract(entries[i].doc)
           more == With(cat, key(n + 1), said(n + 1))
<1>1. FilesUpTo(entries, n + 1) = old \cup {n + 1} /\ n + 1 \notin old
    <2>1. \A i : i \in 1 .. n + 1 <=> i \in 1 .. n \/ i = n + 1 OBVIOUS
    <2>. QED BY <2>1 DEF FilesUpTo
<1>2. /\ DOMAIN cat = {key(i) : i \in old}
      /\ \A i \in old : ValidContract(entries[i].doc) /\ cat[key(i)] = said(i)
      /\ \A i, j \in old : key(i) = key(j) => i = j
    BY DEF CatalogueOf
<1>3. \A i \in old : key(i) # key(n + 1)
    BY <1>2
<1>4. /\ more = [lv \in DOMAIN cat \cup {key(n + 1)} |->
                    IF lv = key(n + 1) THEN said(n + 1) ELSE cat[lv]]
    BY DEF With
<1>. HIDE DEF key, said, old, more
<1>5. DOMAIN cat \cup {key(n + 1)} = {key(i) : i \in old \cup {n + 1}}
    BY <1>2
<1>6. more = [lv \in {key(i) : i \in old \cup {n + 1}} |-> more[lv]]
    BY <1>4, <1>5
<1>7. \A i \in old \cup {n + 1} : ValidContract(entries[i].doc) /\ more[key(i)] = said(i)
    <2>1. \A i \in old : key(i) \in DOMAIN cat BY <1>2
    <2>. QED BY <1>2, <1>3, <1>4, <2>1
<1>8. \A i, j \in old \cup {n + 1} : key(i) = key(j) => i = j
    BY <1>2, <1>3
<1>. QED BY <1>1, <1>6, <1>7, <1>8 DEF CatalogueOf, key, said, more

-----------------------------------------------------------------------------
(* The steps.                                                              *)

\* What the directory holds.
LEMMA DirectoryFacts ==
    ASSUME dir \in Directories
    PROVE  /\ \A name \in DOMAIN dir.files : Len(dir.files[name]) \in Nat
           /\ Len(ContractEntries) \in Nat
<1>1. WellFormed(dir) BY DirectoriesAssumption
<1>2. dir.contracts # {} => The(dir.contracts) \in dir.contracts BY DEF The
<1>3. Len(<<>>) = 0 OBVIOUS
<1>. QED BY <1>1, <1>2, <1>3 DEF WellFormed, ContractEntries, EntriesOf

\* A lexer that begins knows nothing yet.
LEMMA RestartKeeps ==
    ASSUME NEW src, Len(src) \in Nat, LexFrom(src)
    PROVE  Inv'
<1>1. /\ text' = src /\ pos' = 1 /\ start' = 1 /\ lexing' = "between" /\ toks' = <<>>
    BY DEF LexFrom
<1>2. "between" \in Scanning /\ "between" \notin Reading
    BY DEF Scanning, Reading, Quotation
<1>. QED BY <1>1, <1>2 DEF Inv, Sequences, LexTypeOK, BoundarySafe, TokensInOrder, Begun, Unbroken

\* A step of the parser is one of the lexer or leaves it alone.
LEMMA ParserSteps == ParseNext => [LexNext]_lexVars
BY DEF ParseNext, Lex, Split, ParseHead, TakeStatement, RejectText, RejectOps, Reject, Accept

\* So is every step of the tool, but for the one that opens a file.
LEMMA LexerSteps == ASSUME Next PROVE OpenMigration \/ [LexNext]_lexVars
<1>1. CASE Loads
    BY <1>1, ParserSteps
    DEF Loads, ReadPlan, ReadDeployments, ReadSchema, ParseMigration, CollectMigration,
        AssemblePlan, SkipEntry, LoadContract, EndContracts, sqlVars
<1>2. CASE Answers
    BY <1>2 DEF Answers, Help, Start, BuildGraph, Crash, Verify, Write, WriteFails, Exit, sqlVars
<1>3. CASE Fails
    BY <1>3 DEF Fails, BadCall, BadPlan, BadDeployments, BadSchema, BadMigration, BadSql,
        BadAssembly, BadContract, TooLarge, UnknownFormat, Fail, Exit, sqlVars
<1>4. CASE Done
    BY <1>4 DEF Done, vars, sqlVars
<1>. QED BY <1>1, <1>2, <1>3, <1>4 DEF Next

\* Whatever the tool does, the lexer of the file at hand keeps Inv.
LEMMA LexerKept == ASSUME ToolInv, [Next]_vars PROVE Inv'
<1>1. CASE OpenMigration
    <2>1. Entry.file \in DOMAIN dir.files /\ LexFrom(dir.files[Entry.file])
        BY <1>1 DEF OpenMigration, MigrationReadable, ParseFrom
    <2>2. Len(dir.files[Entry.file]) \in Nat
        BY <2>1, DirectoryFacts DEF ToolInv
    <2>. QED BY <2>1, <2>2, RestartKeeps
<1>2. CASE [LexNext]_lexVars
    BY <1>2, StepKeeps DEF ToolInv
<1>3. CASE UNCHANGED vars
    BY <1>3, StepKeeps DEF ToolInv, vars, sqlVars
<1>. QED BY <1>1, <1>2, <1>3, LexerSteps

\* Nobody writes to the directory, or changes what was asked for.
LEMMA InputsKept == ASSUME [Next]_vars PROVE dir' = dir /\ args' = args
<1>1. CASE Loads
    BY <1>1
    DEF Loads, ReadPlan, ReadDeployments, ReadSchema, OpenMigration, ParseMigration,
        CollectMigration, AssemblePlan, SkipEntry, LoadContract, EndContracts, Go
<1>2. CASE Answers
    BY <1>2 DEF Answers, Help, Start, BuildGraph, Crash, Verify, Write, WriteFails, Exit, Go
<1>3. CASE Fails
    BY <1>3 DEF Fails, BadCall, BadPlan, BadDeployments, BadSchema, BadMigration, BadSql,
        BadAssembly, BadContract, TooLarge, UnknownFormat, Fail, Exit
<1>4. CASE Done \/ UNCHANGED vars
    BY <1>4 DEF Done, vars
<1>. QED BY <1>1, <1>2, <1>3, <1>4 DEF Next

\* Every step of the tool keeps Progress.
LEMMA ProgressKept == ASSUME ToolInv, [Next]_vars PROVE Progress'
<1>1. dir' = dir /\ args' = args /\ ContractEntries' = ContractEntries
    BY InputsKept DEF ContractEntries
<1>2. Len(ContractEntries) \in Nat BY DirectoryFacts DEF ToolInv
<1>3. AsksForHelp' <=> AsksForHelp BY <1>1 DEF AsksForHelp
<1> DEFINE entries == ContractEntries
<1>. HIDE DEF entries
<1>4. Progress BY DEF ToolInv
<1>5. ASSUME stage' \in NotYet, stage \in NotYet, services' = services PROVE Progress'
    BY <1>4, <1>5 DEF Progress, NotYet, Judging
<1>6. ASSUME stage' \in Judging, services' = services, Complete PROVE Progress'
    BY <1>1, <1>6 DEF Progress, NotYet, Judging, Complete
<1>7. ASSUME stage' = "exited", exit' = {ToolFailure} PROVE Progress'
    BY <1>7 DEF Progress, NotYet, Judging
<1>8. CASE Loads
    <2>1. CASE ReadPlan \/ ReadDeployments \/ ReadSchema \/ OpenMigration \/ ParseMigration
                 \/ CollectMigration
        BY <1>5, <2>1 DEF ReadPlan, ReadDeployments, ReadSchema, OpenMigration, ParseMigration,
            CollectMigration, Go, loaded, NotYet
    <2>2. CASE AssemblePlan
        <3>1. /\ stage' = "contracts" /\ stage \in NotYet /\ next' = 1 /\ services' = services
            BY <2>2 DEF AssemblePlan, Go, NotYet
        <3>2. services' = <<>> BY <3>1, <1>4 DEF Progress
        <3>3. CatalogueOf(services', ContractEntries', next' - 1)
            BY <3>1, <3>2, EmptyCatalogue
        <3>4. next' \in 1 .. Len(ContractEntries') + 1
            BY <1>1, <1>2, <3>1
        <3>. QED BY <3>1, <3>3, <3>4 DEF Progress, NotYet, Judging
    <2>3. CASE SkipEntry \/ LoadContract
        <3>1. /\ stage = "contracts" /\ stage' = "contracts"
              /\ next <= Len(ContractEntries) /\ next' = next + 1
            BY <2>3 DEF SkipEntry, LoadContract, Go, MoreContracts
        <3>2. next \in 1 .. Len(ContractEntries) + 1 /\ CatalogueOf(services, ContractEntries, next - 1)
            BY <1>4, <3>1 DEF Progress
        <3>3. next - 1 \in Nat /\ (next - 1) + 1 = next /\ next' - 1 = next
            BY <1>2, <3>1, <3>2
        <3>4. CatalogueOf(services', ContractEntries, next)
            <4>1. CASE SkipEntry
                <5>1. ~IsContractFile(ContractEntries[next]) /\ services' = services
                    BY <4>1 DEF SkipEntry, loaded
                <5>. QED BY <3>2, <3>3, <5>1, SkipKeeps
            <4>2. CASE LoadContract
                <5>1. /\ IsContractFile(ContractEntries[next])
                      /\ ValidContract(ContractEntries[next].doc)
                      /\ KeyOf(ContractEntries[next]) \notin DOMAIN services
                      /\ services' = With(services, KeyOf(ContractEntries[next]),
                                          ParseContract(ContractEntries[next].doc))
                    BY <4>2 DEF LoadContract, Acceptable, KeyOf
                <5>. QED BY <3>2, <3>3, <5>1, LoadKeeps
            <4>. QED BY <2>3, <4>1, <4>2
        <3>5. next' \in 1 .. Len(ContractEntries') + 1
            BY <1>1, <1>2, <3>1, <3>2
        <3>. QED BY <1>1, <3>1, <3>3, <3>4, <3>5 DEF Progress, NotYet, Judging
    <2>4. CASE EndContracts
        <3>1. /\ stage = "contracts" /\ stage' = "graph" /\ services' = services
              /\ ~(next <= Len(ContractEntries))
            BY <2>4 DEF EndContracts, Go, loaded, MoreContracts
        <3>2. next \in 1 .. Len(ContractEntries) + 1 /\ CatalogueOf(services, ContractEntries, next - 1)
            BY <1>4, <3>1 DEF Progress
        <3>3. next - 1 = Len(ContractEntries) BY <1>2, <3>1, <3>2
        <3>4. Complete BY <3>2, <3>3 DEF Complete
        <3>. QED BY <1>6, <3>1, <3>4 DEF Judging
    <2>. QED BY <1>8, <2>1, <2>2, <2>3, <2>4 DEF Loads
<1>9. CASE Answers
    <2>1. CASE Help
        BY <1>3, <2>1 DEF Help, Exit, Progress, NotYet, Judging
    <2>2. CASE Start
        BY <1>5, <2>2 DEF Start, Go, loaded, NotYet
    <2>3. CASE BuildGraph \/ Verify
        <3>1. stage \in Judging /\ stage' \in Judging /\ services' = services
            BY <2>3 DEF BuildGraph, Verify, Go, loaded, Judging
        <3>. QED BY <1>4, <1>6, <3>1 DEF Progress
    <2>4. CASE Crash
        BY <2>4 DEF Crash, Go, Progress, NotYet, Judging
    <2>5. CASE Write
        <3>1. stage = "writing" /\ stage' = "exited" /\ services' = services
            BY <2>5 DEF Write, Exit, loaded
        <3>2. Complete BY <1>4, <3>1 DEF Progress, Judging
        <3>3. Complete' BY <1>1, <3>1, <3>2 DEF Complete
        <3>. QED BY <3>1, <3>3 DEF Progress, NotYet, Judging
    <2>6. CASE WriteFails
        BY <1>7, <2>6 DEF WriteFails, Exit
    <2>. QED BY <1>9, <2>1, <2>2, <2>3, <2>4, <2>5, <2>6 DEF Answers
<1>10. CASE Fails
    BY <1>7, <1>10 DEF Fails, BadCall, BadPlan, BadDeployments, BadSchema, BadMigration, BadSql,
        BadAssembly, BadContract, TooLarge, UnknownFormat, Fail, Exit
<1>11. CASE Done \/ UNCHANGED vars
    <2>1. /\ stage' = stage /\ services' = services /\ next' = next /\ exit' = exit
        BY <1>11 DEF Done, vars, loaded, results
    <2>2. Complete' <=> Complete BY <1>1, <2>1 DEF Complete
    <2>. QED BY <1>1, <1>3, <1>4, <2>1, <2>2 DEF Progress
<1>. QED BY <1>8, <1>9, <1>10, <1>11 DEF Next

\* The tool keeps all of it.
LEMMA ToolInvHolds == Spec => []ToolInv
<1>1. Init => ToolInv
    <2> SUFFICES ASSUME Init PROVE ToolInv OBVIOUS
    <2>1. Lexing(<<>>) BY DEF Init, ParsingBegins
    <2>2. Inv
        BY <2>1 DEF Lexing, Inv, Sequences, LexTypeOK, BoundarySafe, TokensInOrder, Begun, Unbroken,
            Scanning, Reading, Quotation
    <2>3. Progress BY DEF Init, Progress, NotYet, Judging
    <2>. QED BY <2>2, <2>3 DEF Init, ToolInv
<1>2. ToolInv /\ [Next]_vars => ToolInv'
    BY LexerKept, ProgressKept, InputsKept DEF ToolInv
<1>. QED BY <1>1, <1>2, PTL DEF Spec

-----------------------------------------------------------------------------

\* Of every migration file of every directory, the boundaries between the
\* statements are found, and the tokens read are disjoint and in order.
THEOREM EveryFileLexed == Spec => [](BoundarySafe /\ TokensInOrder)
BY ToolInvHolds, PTL DEF ToolInv, Inv

\* Whatever is in the directory, an answer rests on all the contracts in it
\* and on nothing else: no file is passed over, none hides another.
THEOREM CatalogueTrue == Spec => []CatalogueAsWritten
<1>1. ToolInv => CatalogueAsWritten
    <2> SUFFICES ASSUME ToolInv, Answered
                 PROVE  services = [lv \in {ContractKey(e.doc) :
                                              e \in {f \in ToSet(ContractEntries) : IsContractFile(f)}}
                                       |-> dir.actual[lv]]
        BY DEF CatalogueAsWritten
    <2> DEFINE entries == ContractEntries
               files == FilesUpTo(entries, Len(entries))
    <2>1. Complete
        BY DEF Answered, Verifies, ToolInv, Progress
    <2>2. /\ services = [lv \in {KeyOf(entries[i]) : i \in files} |-> services[lv]]
          /\ \A i \in files : /\ ValidContract(entries[i].doc)
                              /\ services[KeyOf(entries[i])] = ParseContract(entries[i].doc)
          /\ \A i, j \in files : KeyOf(entries[i]) = KeyOf(entries[j]) => i = j
        BY <2>1 DEF Complete, CatalogueOf
    <2>3. WellFormed(dir) /\ Honest(dir)
        BY DirectoriesAssumption DEF ToolInv
    <2>4. entries = EntriesOf(dir) /\ files = ContractFiles(entries)
        BY DEF ContractEntries, FilesUpTo, ContractFiles
    <2>5. \A i \in files : dir.actual[KeyOf(entries[i])] = ParseContract(entries[i].doc)
        BY <2>2, <2>3, <2>4 DEF Honest, KeyOf
    <2>6. DOMAIN entries = 1 .. Len(entries)
        <3>1. dir.contracts # {} => The(dir.contracts) \in dir.contracts BY DEF The
        <3>2. DOMAIN <<>> = 1 .. Len(<<>>) OBVIOUS
        <3>. QED BY <2>3, <2>4, <3>1, <3>2 DEF WellFormed, EntriesOf
    <2>. HIDE DEF entries
    <2>7. {ContractKey(e.doc) : e \in {f \in ToSet(entries) : IsContractFile(f)}}
            = {KeyOf(entries[i]) : i \in files}
        BY <2>6 DEF ToSet, FilesUpTo, KeyOf
    <2>8. ASSUME NEW lv \in {KeyOf(entries[i]) : i \in files} PROVE services[lv] = dir.actual[lv]
        <3>1. PICK i \in files : lv = KeyOf(entries[i]) OBVIOUS
        <3>2. services[KeyOf(entries[i])] = dir.actual[KeyOf(entries[i])] BY <2>2, <2>5
        <3>. QED BY <3>1, <3>2
    <2>9. services = [lv \in {KeyOf(entries[i]) : i \in files} |-> dir.actual[lv]]
        BY <2>2, <2>8
    <2>. QED BY <2>7, <2>9 DEF entries
<1>. QED BY <1>1, ToolInvHolds, PTL

-----------------------------------------------------------------------------
(* Every migration file is read as it was written.                         *)

\* The file being read is that of its script.
Reads == stage = "parsing" => Follows(dir.scripts[Entry.file])

\* Whatever the stage, the lexer is on the track of the script of its file.
LEMMA ReadsHolds == Spec => []Reads
<1>1. Init => Reads
    BY DEF Init, Reads
<1>2. ToolInv /\ Reads /\ [Next]_vars => Reads'
    <2> SUFFICES ASSUME ToolInv, Reads, [Next]_vars, stage' = "parsing" PROVE Reads'
        BY DEF Reads
    <2>0. dir' = dir
        BY InputsKept
    <2>1. CASE OpenMigration
        <3>1. Entry' = Entry /\ Entry.file \in DOMAIN dir.files /\ LexFrom(dir.files[Entry.file])
            BY <2>0, <2>1 DEF OpenMigration, MigrationReadable, ParseFrom, Entry, PlanDoc
        <3>. PICK sc : sc = dir.scripts[Entry.file]
            OBVIOUS
        <3>. PICK src : src = dir.files[Entry.file]
            OBVIOUS
        <3>2. src = Source(sc) /\ WellWritten(sc)
            BY <3>1, ScriptsAssumption DEF ToolInv, AreWritten
        <3>3. Follows(sc)'
            BY <3>1, <3>2, FollowsBegins
        <3>4. (dir.scripts[Entry.file])' = sc
            BY <2>0, <3>1
        <3>. QED BY <3>3, <3>4 DEF Reads
    <2>2. CASE ~OpenMigration
        <3>1. stage = "parsing" /\ Entry' = Entry
            <4>1. CASE Loads
                BY <2>0, <2>2, <4>1
                DEF Loads, ReadPlan, ReadDeployments, ReadSchema, ParseMigration,
                    CollectMigration, AssemblePlan, SkipEntry, LoadContract, EndContracts, Go,
                    Entry, PlanDoc
            <4>2. CASE Answers
                BY <4>2 DEF Answers, Help, Start, BuildGraph, Crash, Verify, Write, WriteFails, Exit, Go
            <4>3. CASE Fails
                BY <4>3 DEF Fails, BadCall, BadPlan, BadDeployments, BadSchema, BadMigration, BadSql,
                    BadAssembly, BadContract, TooLarge, UnknownFormat, Fail, Exit
            <4>4. CASE Done \/ UNCHANGED vars
                BY <2>0, <4>4 DEF Done, Finished, vars, Entry, PlanDoc
            <4>. QED BY <4>1, <4>2, <4>3, <4>4 DEF Next
        <3>2. [LexNext]_lexVars
            BY <2>2, LexerSteps DEF vars, sqlVars
        <3>. PICK sc : sc = dir.scripts[Entry.file]
            OBVIOUS
        <3>3. Follows(sc)
            BY <3>1 DEF Reads
        <3>4. Follows(sc)'
            BY <3>2, <3>3, FollowsKept DEF ToolInv
        <3>5. (dir.scripts[Entry.file])' = sc
            BY <2>0, <3>1
        <3>. QED BY <3>4, <3>5 DEF Reads
    <2>. QED BY <2>1, <2>2
<1>. QED BY <1>1, <1>2, ToolInvHolds, PTL DEF Spec

\* Of every migration file of every directory, the tokens are those it was
\* written with, whatever is written between them and whatever is quoted; it is
\* refused where it is written wrongly and nowhere else.
THEOREM FilesReadAsWritten == Spec => []LexedAsWritten
<1>1. ASSUME ToolInv, Reads PROVE LexedAsWritten
    <2> SUFFICES ASSUME stage = "parsing"
                 PROVE  LexesAsWritten(dir.scripts[Entry.file],
                                       ScriptTokens(dir.scripts[Entry.file]))
        BY DEF LexedAsWritten
    <2>. PICK sc : sc = dir.scripts[Entry.file]
        OBVIOUS
    <2>1. Follows(sc)
        BY <1>1 DEF Reads
    <2>2. PICK w : /\ w.ts = ScriptTokens(sc) /\ Laid(w) /\ Tracked(w)
                   /\ sc.cut = 0 => Len(text) = Len(w.src)
        BY <2>1 DEF Follows
    <2>3. LexesAsWritten(sc, w.ts)
        BY <1>1, <2>2, TrackedIsWritten DEF ToolInv
    <2>. QED BY <2>2, <2>3
<1>. QED BY <1>1, ReadsHolds, ToolInvHolds, PTL

-----------------------------------------------------------------------------
(* What a statement becomes.                                               *)

\* Every statement becomes an operation of a known kind, or none.
IsOp(op) == op = Malformed \/ op.kind \in OpKinds

\* The kinds the parser names are among those there are.
LEMMA KindsOfOps ==
    /\ IsOp(Malformed) /\ IsOp(Unclassified)
    /\ \A op : op.kind \in {"AddColumn", "DropColumn", "RenameColumn", "AlterColumnType",
                            "SetNotNull", "DropNotNull"} => IsOp(op)
BY DEF IsOp, Unclassified, OpKinds, ColumnOpKinds

\* ALTER TABLE ... ALTER.
LEMMA AlterColumnIsOp == ASSUME NEW s, NEW table, NEW i PROVE IsOp(ParseAlterColumn(s, table, i))
<1>1. ASSUME NEW column, NEW at PROVE IsOp(FinishAlterColumnType(s, table, column, at))
    BY KindsOfOps DEF FinishAlterColumnType
<1>2. ASSUME NEW column, NEW at PROVE IsOp(AlterNamed(s, table, column, at))
    <2> DEFINE nullability(kind) == [kind |-> kind, table |-> table, column |-> column]
    <2>1. /\ nullability("SetNotNull").kind = "SetNotNull"
          /\ nullability("DropNotNull").kind = "DropNotNull"
        OBVIOUS
    <2>2. IsOp(nullability("SetNotNull")) /\ IsOp(nullability("DropNotNull"))
        <3> HIDE DEF nullability
        <3>. QED BY <2>1, KindsOfOps
    <2>. QED BY <1>1, <2>2, KindsOfOps, Zenon DEF AlterNamed
<1>. QED BY <1>2, KindsOfOps DEF ParseAlterColumn

\* ALTER TABLE ... RENAME.
LEMMA RenameIsOp == ASSUME NEW s, NEW table, NEW i PROVE IsOp(ParseRenameColumn(s, table, i))
<1> DEFINE old == Name(s, i + 1)
           new == Name(s, old.next + 1)
           op == [kind |-> "RenameColumn", table |-> table, column |-> old.name,
                  newColumn |-> new.name]
<1>1. op.kind = "RenameColumn"
    OBVIOUS
<1>2. IsOp(op)
    BY <1>1, KindsOfOps
<1>3. \/ ParseRenameColumn(s, table, i) = Unclassified
      \/ ParseRenameColumn(s, table, i) = op
      \/ ParseRenameColumn(s, table, i) = Malformed
    BY DEF ParseRenameColumn
<1> HIDE DEF op
<1>. QED BY <1>2, <1>3, KindsOfOps

\* ALTER TABLE ... DROP.
LEMMA DropIsOp == ASSUME NEW s, NEW table, NEW i PROVE IsOp(ParseDropColumn(s, table, i))
<1> DEFINE column == Name(s, Optional(s, i + 1, IfExists))
           op == [kind |-> "DropColumn", table |-> table, column |-> column.name]
<1>1. op.kind = "DropColumn"
    OBVIOUS
<1>2. IsOp(op)
    BY <1>1, KindsOfOps
<1>3. \/ ParseDropColumn(s, table, i) = Unclassified
      \/ ParseDropColumn(s, table, i) = op
      \/ ParseDropColumn(s, table, i) = Malformed
    BY DEF ParseDropColumn
<1> HIDE DEF op
<1>. QED BY <1>2, <1>3, KindsOfOps

\* ALTER TABLE ... ADD.
LEMMA AddIsOp == ASSUME NEW s, NEW table, NEW i PROVE IsOp(ParseAddColumn(s, table, i))
<1>1. ASSUME NEW column, NEW end PROVE IsOp(AddTyped(s, table, column, end))
    <2> DEFINE next1 == Optional(s, end, NotNull)
               op == [kind |-> "AddColumn", table |-> table, column |-> column.name,
                      newType |-> TypeOf(s, column.next, end),
                      nullable |-> next1 = end, default |-> Keywords(s, next1, <<"DEFAULT">>)]
    <2>1. op.kind = "AddColumn"
        OBVIOUS
    <2>2. IsOp(op)
        BY <2>1, KindsOfOps
    <2>3. AddTyped(s, table, column, end) = Malformed \/ AddTyped(s, table, column, end) = op
        BY DEF AddTyped
    <2> HIDE DEF op
    <2>. QED BY <2>2, <2>3, KindsOfOps
<1> DEFINE named == Optional(s, i, <<"COLUMN">>)
           column == Name(s, Optional(s, named, IfNotExists))
           typed == AddTyped(s, table, column, TypeEnd(s, column.next))
<1>2. \/ ParseAddColumn(s, table, i) = Malformed
      \/ ParseAddColumn(s, table, i) = Unclassified
      \/ ParseAddColumn(s, table, i) = typed
    BY DEF ParseAddColumn
<1>3. IsOp(typed)
    BY <1>1
<1> HIDE DEF typed
<1>. QED BY <1>2, <1>3, KindsOfOps

\* Any statement.
LEMMA StatementIsOp == ASSUME NEW s PROVE IsOp(ParseStatement(s))
<1>1. ASSUME NEW table, NEW i PROVE IsOp(AlterTable(s, table, i))
    <2>1. \/ AlterTable(s, table, i) = ParseAddColumn(s, table, i + 1)
          \/ AlterTable(s, table, i) = ParseDropColumn(s, table, i + 1)
          \/ AlterTable(s, table, i) = ParseRenameColumn(s, table, i + 1)
          \/ AlterTable(s, table, i) = ParseAlterColumn(s, table, i + 1)
          \/ AlterTable(s, table, i) = Unclassified
        BY DEF AlterTable
    <2>. QED BY <2>1, AddIsOp, DropIsOp, RenameIsOp, AlterColumnIsOp, KindsOfOps
<1>. QED BY <1>1, KindsOfOps DEF ParseStatement

\* What is known of the parser: the operations so far are a list of such.
Parser ==
    /\ parsing \in {"lexing", "parsing", "parsed", "rejected"}
    /\ parsing # "lexing" => lexing = "done" \/ parsing = "rejected"
    /\ IsList(ops) /\ \A op \in ToSet(ops) : op.kind \in OpKinds

\* A parser that begins, and every step of it.
LEMMA ParserKept == ASSUME Parser, ParseNext PROVE Parser'
<1>1. CASE Lex
    BY <1>1 DEF Lex, parseVars, Parser
<1>2. CASE Split
    BY <1>2 DEF Split, lexVars, Parser
<1>3. CASE RejectText \/ RejectOps \/ Accept
    BY <1>3 DEF RejectText, RejectOps, Reject, Accept, lexVars, Parser
<1>4. CASE ParseHead
    <2> DEFINE op == ParseStatement(Head(stmts))
    <2>1. parsing = "parsing" /\ (Reject \/ (op # Malformed /\ TakeStatement(op)))
        BY <1>4 DEF ParseHead
    <2> HIDE DEF op
    <2>2. CASE Reject
        BY <2>2 DEF Reject, lexVars, Parser
    <2>3. CASE op # Malformed /\ TakeStatement(op)
        <3>1. op.kind \in OpKinds
            BY <2>3, StatementIsOp DEF IsOp, op
        <3>2. /\ ops' = Append(ops, op) /\ UNCHANGED <<lexing, parsing>>
            BY <2>3 DEF TakeStatement, lexVars
        <3>3. IsList(ops') /\ ToSet(ops') = ToSet(ops) \cup {op}
            BY <3>2, ListFacts DEF Parser
        <3>. QED BY <3>1, <3>2, <3>3 DEF Parser
    <2>. QED BY <2>1, <2>2, <2>3
<1>. QED BY <1>1, <1>2, <1>3, <1>4 DEF ParseNext

\* It is so when a file is opened.
LEMMA ParserBegins == ASSUME NEW src, ParseFrom(src) PROVE Parser'
<1>1. IsList(<<>>) /\ ToSet(<<>>) = {}
    BY DEF IsList, ToSet
<1>. QED BY <1>1 DEF ParseFrom, Parser

-----------------------------------------------------------------------------
(* What is read becomes a plan.                                            *)

Known == {"deployments", "schema", "migrations", "parsing"}
Assembling ==
    /\ stage \in Known => dir.plan # {}
    /\ IsList(migrations) /\ \A i \in DOMAIN migrations : IsList(migrations[i].operations)
    /\ \A p \in plan : IsPlan(p) /\ ValidPlan(p)

\* A static workload joins the one that changes.
LEMMA JoinLists ==
    ASSUME NEW x, NEW s, IsList(s), NEW f(_)
    PROVE  LET both == <<x>> \o [i \in DOMAIN s |-> f(s[i])]
           IN  Len(both) \in Nat /\ DOMAIN both = 1 .. Len(both)
<1> DEFINE t == [i \in DOMAIN s |-> f(s[i])]
           S == {x} \cup {t[i] : i \in DOMAIN s}
<1>1. Len(s) \in Nat /\ DOMAIN s = 1 .. Len(s)
    BY ListFacts
<1>2. t \in [1 .. Len(s) -> S]
    BY <1>1
<1> HIDE DEF t
<1>3. t \in Seq(S) /\ <<x>> \in Seq(S)
    BY <1>1, <1>2
<1> HIDE DEF S
<1>4. <<x>> \o t \in Seq(S)
    BY <1>3
<1>. QED BY <1>4 DEF t

\* What is assembled is a plan, whatever the files say.
LEMMA AssembledIsPlan ==
    ASSUME dir \in Directories, Assembling, dir.plan # {}, NEW w
    PROVE  IsPlan(Assembled(PlanDoc, w))
<1> DEFINE p == Assembled(PlanDoc, w)
           change == WorkloadChange(w, PlanDoc.from, PlanDoc.to)
           still == [i \in DOMAIN PlanDoc.static |->
                        StaticChange(WorkloadOf(workloads, PlanDoc.static[i]))]
<1>1. IsList(PlanDoc.static) /\ \A a, b \in PlanDoc.rollback : a = b
    <2>1. PlanDoc \in dir.plan
        BY DEF PlanDoc, The
    <2>2. WellFormed(dir)
        BY DirectoriesAssumption
    <2>. QED BY <2>1, <2>2 DEF WellFormed
<1>2. /\ p.base = BaseSchema /\ p.workloads = <<change>> \o still /\ p.migrations = migrations
      /\ p.rollback = {RollbackTarget(w, to) : to \in PlanDoc.rollback}
      /\ p.history = <<>> /\ p.unknown = FALSE
    BY DEF Assembled
<1>3. Len(p.workloads) \in Nat /\ DOMAIN p.workloads = 1 .. Len(p.workloads)
    BY <1>1, <1>2, JoinLists
<1> HIDE DEF p, change, still
<1>4. /\ Len(p.migrations) \in Nat /\ DOMAIN p.migrations = 1 .. Len(p.migrations)
      /\ \A i \in DOMAIN p.migrations : IsList(p.migrations[i].operations)
    BY <1>2, ListFacts DEF Assembling
<1>5. IsList(p.history)
    BY <1>2 DEF IsList, ToSet
<1>6. IsMap(p.base)
    BY <1>2 DEF BaseSchema, ParseSchema, IsMap
<1>7. \A s, t \in p.rollback : s = t
    BY <1>1, <1>2
<1>. QED BY <1>2, <1>3, <1>4, <1>5, <1>6, <1>7 DEF IsPlan, p

\* Every step of the tool keeps this, and what is known of the parser.
LEMMA AssemblingKept ==
    ASSUME dir \in Directories, Parser, Assembling, [Next]_vars
    PROVE  Parser' /\ Assembling'
<1>1. dir' = dir
    BY InputsKept
<1>2. ASSUME UNCHANGED sqlVars PROVE Parser'
    BY <1>2 DEF sqlVars, parseVars, lexVars, Parser
<1>3. ASSUME UNCHANGED <<migrations, plan>>, stage' \in Known => stage \in Known PROVE Assembling'
    BY <1>1, <1>3 DEF Assembling
<1>4. CASE Loads
    <2>1. CASE ReadPlan
        <3>1. Parser'
            BY <1>2, <2>1 DEF ReadPlan
        <3>2. dir.plan # {} /\ migrations' = migrations /\ plan' = plan
            BY <2>1 DEF ReadPlan, PlanReadable, loaded
        <3>. QED BY <1>1, <3>1, <3>2 DEF Assembling
    <2>2. CASE ReadDeployments \/ ReadSchema \/ SkipEntry \/ LoadContract \/ EndContracts
        <3>1. Parser'
            BY <1>2, <2>2 DEF ReadDeployments, ReadSchema, SkipEntry, LoadContract, EndContracts
        <3>2. UNCHANGED <<migrations, plan>> /\ (stage' \in Known => stage \in Known)
            BY <2>2 DEF ReadDeployments, ReadSchema, SkipEntry, LoadContract, EndContracts, Go,
                loaded, Known
        <3>. QED BY <1>3, <3>1, <3>2
    <2>3. CASE OpenMigration
        <3>1. ParseFrom(dir.files[Entry.file]) /\ UNCHANGED <<migrations, plan>> /\ stage \in Known
            BY <2>3 DEF OpenMigration, Go, loaded, Known
        <3>2. Parser'
            BY <3>1, ParserBegins
        <3>. QED BY <1>3, <3>1, <3>2
    <2>4. CASE ParseMigration
        <3>1. ParseNext /\ UNCHANGED <<migrations, plan, stage>>
            BY <2>4 DEF ParseMigration, loaded
        <3>. QED BY <1>3, <3>1, ParserKept
    <2>5. CASE CollectMigration
        <3> DEFINE m == [id |-> Entry.file, phase |-> Entry.phase, operations |-> ops]
        <3>1. /\ Parser' /\ migrations' = Append(migrations, m) /\ plan' = plan
              /\ stage \in Known
            BY <1>2, <2>5 DEF CollectMigration, Go, Known
        <3>2. m.operations = ops /\ IsList(ops)
            BY DEF Parser
        <3> HIDE DEF m
        <3>3. IsList(migrations) /\ \A i \in DOMAIN migrations : IsList(migrations[i].operations)
            BY DEF Assembling
        <3>4. IsList(migrations') /\ ToSet(migrations') = ToSet(migrations) \cup {m}
            BY <3>1, <3>3, ListFacts
        <3>5. \A x \in ToSet(migrations') : IsList(x.operations)
            BY <3>2, <3>3, <3>4 DEF ToSet
        <3>6. \A i \in DOMAIN migrations' : IsList(migrations'[i].operations)
            BY <3>5 DEF ToSet
        <3>. QED BY <1>1, <3>1, <3>4, <3>6 DEF Assembling
    <2>6. CASE AssemblePlan
        <3> DEFINE p == Assembled(PlanDoc, WorkloadOf(workloads, PlanDoc.workload))
        <3>1. /\ Parser' /\ migrations' = migrations /\ plan' = {p} /\ ValidPlan(p)
              /\ stage \in Known /\ stage' \notin Known
            BY <1>2, <2>6 DEF AssemblePlan, Assemblable, Go, Known
        <3>2. IsPlan(p)
            BY <3>1, AssembledIsPlan DEF Assembling
        <3> HIDE DEF p
        <3>. QED BY <3>1, <3>2 DEF Assembling
    <2>. QED BY <1>4, <2>1, <2>2, <2>3, <2>4, <2>5, <2>6 DEF Loads
<1>5. CASE Answers
    <2>1. UNCHANGED sqlVars /\ UNCHANGED <<migrations, plan>> /\ stage' \notin Known \ {stage}
        <3>1. CASE Help \/ Write \/ WriteFails
            BY <3>1 DEF Help, Write, WriteFails, Exit, loaded, Known
        <3>2. CASE Crash \/ Verify
            BY <3>2 DEF Crash, Verify, Go, loaded, Known
        <3>3. CASE Start \/ BuildGraph
            BY <3>3 DEF Start, BuildGraph, Go, loaded, Known
        <3>. QED BY <1>5, <3>1, <3>2, <3>3 DEF Answers
    <2>. QED BY <1>2, <1>3, <2>1
<1>6. CASE Fails
    <2>1. UNCHANGED sqlVars /\ UNCHANGED <<migrations, plan>> /\ stage' \notin Known
        BY <1>6 DEF Fails, BadCall, BadPlan, BadDeployments, BadSchema, BadMigration, BadSql,
            BadAssembly, BadContract, TooLarge, UnknownFormat, Fail, Exit, loaded, Known
    <2>. QED BY <1>2, <1>3, <2>1
<1>7. CASE Done \/ UNCHANGED vars
    BY <1>2, <1>3, <1>7 DEF Done, vars, loaded
<1>. QED BY <1>4, <1>5, <1>6, <1>7 DEF Next

-----------------------------------------------------------------------------
(* The answer.                                                             *)

\* What the reader of a report finds is its aggregated verdict, in every format.
LEMMA ReadBack ==
    ASSUME NEW n \in Nat, NEW diags, IsReport(diags, n), NEW format \in Formats
    PROVE  VerdictRead(format, Rendered(format, diags)) = Aggregate(diags)
<1> DEFINE v == Aggregate(diags)
<1>1. /\ v \in VerdictValues
      /\ v = "UNSAFE" <=> \E i \in 1 .. n : ~diags[i].advisory /\ diags[i].verdict = "UNSAFE"
      /\ v = "SAFE" <=>
            \A i \in 1 .. n :
               (diags[i].advisory /\ diags[i].verdict = "UNSAFE") \/ diags[i].verdict = "SAFE"
    BY AggregateIs
<1>2. DOMAIN diags = 1 .. n /\ \A i \in 1 .. n : IsDiagnostic(diags[i])
    BY ListFacts DEF IsReport
<1> HIDE DEF v
<1>3. CASE format # "sarif"
    <2>1. format = "text" \/ format = "json"
        BY <1>3 DEF Formats
    <2>2. RenderText(diags).heading = v /\ RenderJSON(diags).heading = v
        BY DEF RenderText, RenderJSON, v
    <2>3. Rendered(format, diags) = RenderText(diags) \/ Rendered(format, diags) = RenderJSON(diags)
        BY <2>1 DEF Rendered
    <2>4. VerdictRead(format, Rendered(format, diags)) = Rendered(format, diags).heading
        BY <1>3 DEF VerdictRead
    <2>. QED BY <2>2, <2>3, <2>4 DEF v
<1>4. CASE format = "sarif"
    <2> DEFINE printed == RenderSARIF(diags)
               levels == {result.level : result \in printed}
    <2>1. levels = {Level(diags[i]) : i \in NotSafe(diags)}
        <3> DEFINE Result(i) == [rule |-> i, level |-> Level(diags[i]), rollback |-> diags[i].rollback]
        <3>1. printed = {Result(i) : i \in NotSafe(diags)}
            BY DEF RenderSARIF
        <3>2. \A i : Result(i).level = Level(diags[i])
            OBVIOUS
        <3> HIDE DEF Result, printed
        <3>. QED BY <3>1, <3>2
    <2>2. \A i : i \in NotSafe(diags) <=> i \in 1 .. n /\ diags[i].verdict # "SAFE"
        BY <1>2 DEF NotSafe
    <2>3. \A i \in NotSafe(diags) :
             /\ Level(diags[i]) = "error" <=> ~diags[i].advisory /\ diags[i].verdict = "UNSAFE"
             /\ Level(diags[i]) = "note" <=> diags[i].verdict = "UNKNOWN"
        BY <1>2, <2>2 DEF Level, IsDiagnostic, VerdictValues
    <2> HIDE DEF levels
    <2>4. "error" \in levels <=> v = "UNSAFE"
        BY <1>1, <2>1, <2>2, <2>3
    <2>5. "note" \in levels <=> \E i \in 1 .. n : diags[i].verdict = "UNKNOWN"
        BY <2>1, <2>2, <2>3
    <2>6. VerdictRead(format, Rendered(format, diags))
             = CASE "error" \in levels -> "UNSAFE"
                 [] "error" \notin levels /\ "note" \in levels -> "UNKNOWN"
                 [] OTHER -> "SAFE"
        BY <1>4 DEF VerdictRead, Rendered, levels
    <2>7. CASE "error" \in levels
        BY <2>4, <2>6, <2>7 DEF v
    <2>8. CASE "error" \notin levels /\ "note" \in levels
        <3>1. v # "UNSAFE" /\ v # "SAFE"
            BY <1>1, <2>4, <2>5, <2>8
        <3>. QED BY <1>1, <2>6, <2>8, <3>1 DEF v, VerdictValues
    <2>9. CASE "error" \notin levels /\ "note" \notin levels
        <3>1. \A i \in 1 .. n : diags[i].verdict \in VerdictValues
            BY <1>2 DEF IsDiagnostic
        <3>2. \A i \in 1 .. n :
                 (diags[i].advisory /\ diags[i].verdict = "UNSAFE") \/ diags[i].verdict = "SAFE"
            BY <1>1, <1>2, <2>4, <2>5, <2>9, <3>1 DEF VerdictValues, IsDiagnostic
        <3>. QED BY <1>1, <2>6, <2>9, <3>2 DEF v
    <2>. QED BY <2>7, <2>8, <2>9
<1>. QED BY <1>3, <1>4

\* What comes of the tool: nothing before it has finished; then nothing printed
\* and the failure code, or the report of 21 diagnostics and the code of its
\* verdict.
Reported == /\ IsReport(report, 21) /\ args.format \in Formats
            /\ output = {Rendered(args.format, report)}
            /\ exit = {ExitCode[Aggregate(report)]}
Outcome ==
    /\ stage \in Stages
    /\ stage = "writing" => IsReport(report, 21)
    /\ ~Finished => output = {} /\ exit = {}
    /\ stage = "crashed" => exit = {Panic} \/ exit = {Killed}
    /\ stage = "exited" => \/ exit = {ToolFailure} /\ output = {}
                           \/ AsksForHelp /\ exit = {ExitCode.SAFE}
                           \/ Reported

\* Every step of the tool keeps it.
LEMMA OutcomeKept ==
    ASSUME Assembling, Outcome, [Next]_vars
    PROVE  Outcome'
<1>1. args' = args /\ (AsksForHelp' <=> AsksForHelp)
    BY InputsKept DEF AsksForHelp
<1>2. ASSUME stage \notin {"exited", "crashed"} PROVE output = {} /\ exit = {}
    BY <1>2 DEF Outcome, Finished
<1>3. ASSUME stage \notin {"exited", "crashed"}, UNCHANGED <<output, exit>>,
             stage' \in Stages \ {"writing", "exited", "crashed"}
      PROVE  Outcome'
    BY <1>2, <1>3 DEF Outcome, Finished
<1>4. ASSUME stage \notin {"exited", "crashed"}, UNCHANGED output, Exit(ToolFailure) PROVE Outcome'
    BY <1>2, <1>4 DEF Exit, Outcome, Finished, Stages
<1>5. CASE Loads
    <2>1. UNCHANGED <<output, exit>>
        BY <1>5 DEF Loads, ReadPlan, ReadDeployments, ReadSchema, OpenMigration, ParseMigration,
            CollectMigration, AssemblePlan, SkipEntry, LoadContract, EndContracts, results
    <2>2. /\ stage \notin {"exited", "crashed"}
          /\ stage' \in Stages \ {"writing", "exited", "crashed"}
        BY <1>5 DEF Loads, ReadPlan, ReadDeployments, ReadSchema, OpenMigration, ParseMigration,
            CollectMigration, AssemblePlan, SkipEntry, LoadContract, EndContracts, Go, Stages
    <2>. QED BY <1>3, <2>1, <2>2
<1>6. CASE Fails
    <2>1. Exit(ToolFailure) /\ UNCHANGED output /\ stage \notin {"exited", "crashed"}
        BY <1>6 DEF Fails, BadCall, BadPlan, BadDeployments, BadSchema, BadMigration, BadSql,
            BadAssembly, BadContract, TooLarge, UnknownFormat, Fail
    <2>. QED BY <1>4, <2>1
<1>7. CASE Start \/ BuildGraph
    <2>1. /\ UNCHANGED <<output, exit>> /\ stage \notin {"exited", "crashed"}
          /\ stage' \in Stages \ {"writing", "exited", "crashed"}
        BY <1>7 DEF Start, BuildGraph, Go, results, Stages
    <2>. QED BY <1>3, <2>1
<1>8. CASE Help
    BY <1>1, <1>8 DEF Help, Exit, Outcome, Finished, Stages
<1>9. CASE Crash
    BY <1>9 DEF Crash, Go, Outcome, Finished, Stages
<1>10. CASE Verify
    <2>1. /\ stage = "evaluation" /\ stage' = "writing" /\ UNCHANGED <<output, exit>>
          /\ \E p \in plan : report' = Run([plan |-> p, services |-> services])
        BY <1>10 DEF Verify, Go
    <2>2. PICK p \in plan : report' = Run([plan |-> p, services |-> services])
        BY <2>1
    <2>3. IsPlan(p)
        BY DEF Assembling
    <2> DEFINE project == [plan |-> p, services |-> services]
    <2>4. IsPlan(project.plan)
        BY <2>3
    <2> HIDE DEF project
    <2>5. IsReport(Run(project), 21)
        BY <2>4, RunReport
    <2>6. IsReport(report', 21)
        BY <2>2, <2>5 DEF project
    <2>. QED BY <1>2, <2>1, <2>6 DEF Outcome, Finished, Stages
<1>11. CASE Write
    <2>1. /\ stage = "writing" /\ stage' = "exited" /\ report' = report
          /\ args.format \in Formats /\ output' = {Rendered(args.format, report)}
          /\ exit' = {ExitCode[Aggregate(report)]}
        BY <1>11 DEF Write, Exit
    <2>2. IsReport(report, 21)
        BY <2>1 DEF Outcome
    <2>3. Reported'
        BY <1>1, <2>1, <2>2 DEF Reported
    <2>. QED BY <2>1, <2>3 DEF Outcome, Finished, Stages
<1>12. CASE WriteFails
    <2>1. stage = "writing" /\ Exit(ToolFailure) /\ UNCHANGED output
        BY <1>12 DEF WriteFails
    <2>. QED BY <1>4, <2>1
<1>13. CASE Done \/ UNCHANGED vars
    <2>1. UNCHANGED <<stage, report, output, exit>>
        BY <1>13 DEF Done, vars, results
    <2>2. Reported' <=> Reported
        BY <1>1, <2>1 DEF Reported
    <2>. QED BY <1>1, <2>1, <2>2 DEF Outcome, Finished
<1>. QED BY <1>5, <1>6, <1>7, <1>8, <1>9, <1>10, <1>11, <1>12, <1>13 DEF Next, Answers

\* All of it holds of every run.
LEMMA OutcomeHolds == Spec => [](ToolInv /\ Parser /\ Assembling /\ Outcome)
<1>1. Init => Parser /\ Assembling /\ Outcome
    <2> SUFFICES ASSUME Init PROVE Parser /\ Assembling /\ Outcome
        OBVIOUS
    <2>1. IsList(<<>>) /\ ToSet(<<>>) = {} /\ DOMAIN <<>> = {}
        BY DEF IsList, ToSet
    <2>2. Parser
        BY <2>1 DEF Init, ParsingBegins, Parser
    <2>3. Assembling
        BY <2>1 DEF Init, Assembling, Known
    <2>4. Outcome
        BY DEF Init, Outcome, Finished, Stages
    <2>. QED BY <2>2, <2>3, <2>4
<1>2. ToolInv /\ Parser /\ Assembling /\ Outcome /\ [Next]_vars => (Parser /\ Assembling /\ Outcome)'
    BY AssemblingKept, OutcomeKept DEF ToolInv
<1>. QED BY <1>1, <1>2, ToolInvHolds, PTL DEF Spec

\* What the codes are.
LEMMA Codes ==
    ASSUME NEW v \in VerdictValues
    PROVE  ExitCode[v] \in {0, 1, 2} /\ ExitCode[v] # ToolFailure
BY DEF VerdictValues, ExitCode, ToolFailure

\* The variables of the tool have the types their comments say: what is
\* assembled is a valid plan, and an exit code is one that is documented, or
\* that of a panic or a kill.
THEOREM ToolTypeCorrect == Spec => []TypeOK
<1>1. ToolInv /\ Parser /\ Assembling /\ Outcome => TypeOK
    <2> SUFFICES ASSUME ToolInv, Parser, Assembling, Outcome PROVE TypeOK
        OBVIOUS
    <2>1. LexTypeOK /\ ParseTypeOK
        BY DEF ToolInv, Inv, Parser, ParseTypeOK
    <2>2. DOMAIN migrations = 1 .. Len(migrations)
        BY ListFacts DEF Assembling
    <2>3. CASE stage \notin {"exited", "crashed"}
        BY <2>1, <2>2, <2>3 DEF TypeOK, Outcome, Assembling, Finished
    <2>4. CASE stage = "crashed"
        BY <2>1, <2>2, <2>4 DEF TypeOK, Outcome, Assembling, Panic, Killed
    <2>5. CASE stage = "exited"
        <3>1. \/ exit = {ToolFailure} \/ exit = {ExitCode.SAFE}
              \/ exit = {ExitCode[Aggregate(report)]} /\ Aggregate(report) \in VerdictValues
            BY <2>5, AggregateIs DEF Outcome, Reported
        <3>2. ExitCode.SAFE = 0
            BY DEF ExitCode
        <3>3. exit # {} /\ exit \subseteq {0, 1, 2, ToolFailure, Killed}
            BY <3>1, <3>2, Codes
        <3>. QED BY <2>1, <2>2, <2>5, <3>3 DEF TypeOK, Outcome, Assembling
    <2>. QED BY <2>3, <2>4, <2>5
<1>. QED BY <1>1, OutcomeHolds, PTL

\* The exit code and what is printed are one answer: in every format, of every
\* directory, a verdict is printed if and only if the code is that of a verdict,
\* and its reader finds the same one (cmd/rolloutproof, internal/report).
THEOREM ExitSaysVerdict == Spec => []ExitIsVerdict
<1>1. Outcome => ExitIsVerdict
    <2> SUFFICES ASSUME Outcome, Verifies, stage = "exited"
                 PROVE  /\ exit = {ToolFailure} <=> output = {}
                        /\ \A rendered \in output :
                              exit = {ExitCode[VerdictRead(args.format, rendered)]}
        BY DEF ExitIsVerdict
    <2>1. (exit = {ToolFailure} /\ output = {}) \/ Reported
        BY DEF Outcome, Verifies
    <2>2. CASE exit = {ToolFailure} /\ output = {}
        BY <2>2
    <2>3. CASE Reported
        <3>1. Aggregate(report) \in VerdictValues
            BY <2>3, AggregateIs DEF Reported
        <3>2. VerdictRead(args.format, Rendered(args.format, report)) = Aggregate(report)
            BY <2>3, ReadBack DEF Reported
        <3>3. ExitCode[Aggregate(report)] # ToolFailure
            BY <3>1, Codes
        <3>. QED BY <2>3, <3>2, <3>3 DEF Reported
    <2>. QED BY <2>1, <2>2, <2>3
<1>. QED BY <1>1, OutcomeHolds, PTL

-----------------------------------------------------------------------------
(* What is read of the migration files.                                      *)

\* The files are ones the parser is made for.
OrdinaryFiles == \A d \in Directories : \A name \in DOMAIN d.files : Ordinary(d.scripts[name])

\* The operations of every file read so far are what is meant by it; those of
\* the file at hand, as far as they have been read; and the plan has all of them.
Unread == {"start", "plan", "deployments", "schema"}
Reached ==
    /\ stage \in Unread => next = 1 /\ migrations = <<>>
    /\ stage \in {"migrations", "parsing"} =>
          next = Len(migrations) + 1 /\ Len(migrations) <= Len(PlanDoc.migrations)
    /\ stage = "parsing" => Len(migrations) < Len(PlanDoc.migrations) /\ Entry.file \in DOMAIN dir.files
AtHand ==
    stage = "parsing" /\ dir.scripts[Entry.file].cut = 0 => ParsesAsMeant(dir.scripts[Entry.file])
AllMeant ==
    \A i \in DOMAIN migrations :
        ScriptAt(i).cut = 0 => IsMeant(migrations[i].operations, ScriptAt(i))
AllPlanned ==
    \A p \in plan : /\ p.migrations = migrations /\ Len(migrations) = Len(PlanDoc.migrations)
                    /\ IsList(PlanDoc.migrations)
                    /\ p.base = BaseSchema /\ p.history = <<>> /\ p.unknown = FALSE
Migrating == Reached /\ AtHand /\ AllMeant /\ AllPlanned

\* As long as the files are at hand.
LEMMA ListOfFiles ==
    ASSUME ToolInv, Assembling, stage \in Known
    PROVE  IsList(PlanDoc.migrations) /\ Len(PlanDoc.migrations) \in Nat
<1>1. PlanDoc \in dir.plan
    BY DEF Assembling, PlanDoc, The
<1>2. IsList(PlanDoc.migrations)
    BY <1>1, DirectoriesAssumption DEF ToolInv, WellFormed
<1>. QED BY <1>2, ListFacts

\* What was read stays read.
LEMMA MeantStays == ASSUME NEW sc, ParsesAsMeant(sc), UNCHANGED sqlVars PROVE ParsesAsMeant(sc)'
<1>. PICK ss : ss = stmts
    OBVIOUS
<1>. PICK list : list = ops
    OBVIOUS
<1>1. text' = text /\ stmts' = ss /\ ops' = list /\ parsing' = parsing
    BY DEF sqlVars, lexVars, parseVars
<1>2. CASE parsing \in {"parsing", "parsed"}
    <2>1. Halfway(ss, list, sc)
        BY <1>2 DEF ParsesAsMeant
    <2>2. Halfway(ss, list, sc)'
        BY <1>1, <2>1, StaysHalfway
    <2>3. Halfway(stmts, ops, sc)'
        BY <1>1, <2>2
    <2>. QED BY <1>1, <2>3 DEF ParsesAsMeant
<1>3. CASE parsing \notin {"parsing", "parsed"}
    BY <1>1, <1>3 DEF ParsesAsMeant
<1>. QED BY <1>2, <1>3

\* What nobody reads or writes.
LEMMA DocumentsStay ==
    ASSUME dir' = dir
    PROVE  PlanDoc' = PlanDoc /\ BaseSchema' = BaseSchema /\ \A i : ScriptAt(i)' = ScriptAt(i)
BY DEF PlanDoc, BaseSchema, ScriptAt

\* Files that have been read.
LEMMA AllStays ==
    ASSUME AllMeant, AllPlanned, dir' = dir, UNCHANGED <<migrations, plan>>
    PROVE  AllMeant' /\ AllPlanned'
<1>1. migrations' = migrations /\ plan' = plan
    OBVIOUS
<1>2. AllMeant'
    <2> SUFFICES ASSUME NEW i \in DOMAIN migrations, ScriptAt(i)'.cut = 0
                 PROVE  IsMeant(migrations'[i].operations, ScriptAt(i)')
        BY <1>1 DEF AllMeant
    <2>1. ScriptAt(i)' = ScriptAt(i)
        BY DocumentsStay
    <2>. QED BY <1>1, <2>1 DEF AllMeant
<1>3. AllPlanned'
    BY <1>1, DocumentsStay DEF AllPlanned
<1>. QED BY <1>2, <1>3

\* A step that leaves the files alone.
LEMMA MigratingStays ==
    ASSUME Migrating, dir' = dir, UNCHANGED <<migrations, plan>>,
           stage' \in Unread => next' = next /\ stage \in Unread,
           stage' \notin {"migrations", "parsing"}
    PROVE  Migrating'
<1>1. AllMeant' /\ AllPlanned'
    BY AllStays DEF Migrating
<1>2. AtHand'
    BY DEF AtHand
<1>3. Reached'
    BY DEF Migrating, Reached
<1>. QED BY <1>1, <1>2, <1>3 DEF Migrating

\* One more migration.
LEMMA CollectKeeps ==
    ASSUME ToolInv, Parser, Assembling, Migrating, CollectMigration, dir' = dir
    PROVE  Migrating'
<1>. PICK sc : sc = dir.scripts[Entry.file]
    OBVIOUS
<1>. PICK m : m = [id |-> Entry.file, phase |-> Entry.phase, operations |-> ops]
    OBVIOUS
<1>. PICK n : n = Len(migrations)
    OBVIOUS
<1>1. /\ stage = "parsing" /\ stage' = "migrations" /\ parsing = "parsed" /\ plan' = plan
      /\ migrations' = Append(migrations, m) /\ next' = next + 1
    BY DEF CollectMigration, Go
<1>2. IsList(migrations) /\ n \in Nat /\ DOMAIN migrations = 1 .. n
    BY ListFacts DEF Assembling
<1>3. next = n + 1 /\ n < Len(PlanDoc.migrations) /\ Len(PlanDoc.migrations) \in Nat
    <2>1. stage \in Known
        BY <1>1 DEF Known
    <2>. QED BY <1>1, <2>1, ListOfFiles DEF Migrating, Reached
<1>4. /\ Len(migrations') = n + 1 /\ DOMAIN migrations' = 1 .. n + 1
      /\ migrations'[n + 1] = m /\ \A i \in 1 .. n : migrations'[i] = migrations[i]
    <2>. PICK S : S = ToSet(migrations)
        OBVIOUS
    <2>. PICK old : old = migrations
        OBVIOUS
    <2>1. old \in Seq(S) /\ n = Len(old)
        BY <1>2 DEF IsList
    <2>2. /\ Len(Append(old, m)) = n + 1 /\ Append(old, m)[n + 1] = m
          /\ \A i \in 1 .. n : Append(old, m)[i] = old[i]
        BY <2>1, AppendFacts
    <2>3. DOMAIN Append(old, m) = 1 .. n + 1
        BY <1>2, <2>2, ListFacts
    <2>. QED BY <1>1, <2>2, <2>3
<1>5. ScriptAt(n + 1) = sc
    BY <1>3 DEF ScriptAt, Entry
<1>6. sc.cut = 0 => IsMeant(m.operations, sc)
    <2>1. sc.cut = 0 => ParsesAsMeant(sc)
        BY <1>1 DEF Migrating, AtHand
    <2>2. sc.cut = 0 => IsMeant(ops, sc)
        BY <1>1, <2>1, AcceptedIsMeant
    <2>. QED BY <2>2
<1>7. AllMeant'
    <2> SUFFICES ASSUME NEW i \in 1 .. n + 1, ScriptAt(i)'.cut = 0
                 PROVE  IsMeant(migrations'[i].operations, ScriptAt(i)')
        BY <1>4 DEF AllMeant
    <2>1. ScriptAt(i)' = ScriptAt(i)
        BY DocumentsStay
    <2>2. CASE i = n + 1
        BY <1>4, <1>5, <1>6, <2>1, <2>2
    <2>3. CASE i \in 1 .. n
        BY <1>2, <1>4, <2>1, <2>3 DEF Migrating, AllMeant
    <2>. QED BY <1>2, <2>2, <2>3
<1>8. plan = {}
    <2>1. ASSUME NEW p \in plan PROVE FALSE
        <3>1. n = Len(PlanDoc.migrations)
            BY DEF Migrating, AllPlanned
        <3>. QED BY <1>3, <3>1
    <2>. QED BY <2>1
<1>9. AllPlanned' /\ AtHand'
    BY <1>1, <1>8 DEF AllPlanned, AtHand
<1>10. Reached'
    <2>1. n + 1 <= Len(PlanDoc.migrations) /\ PlanDoc' = PlanDoc
        BY <1>2, <1>3, DocumentsStay
    <2>. QED BY <1>1, <1>3, <1>4, <2>1 DEF Reached, Unread
<1>. QED BY <1>7, <1>9, <1>10 DEF Migrating

\* Every step of the tool.
LEMMA MigratingKept ==
    ASSUME OrdinaryFiles, ToolInv, Parser, Assembling, LexedAsWritten, Migrating, [Next]_vars
    PROVE  Migrating'
<1>1. dir' = dir
    BY InputsKept
<1>2. CASE Loads
    <2>1. CASE ReadPlan \/ ReadDeployments
        <3>1. /\ UNCHANGED <<migrations, plan, next>> /\ stage \in Unread
              /\ stage' \notin {"migrations", "parsing"}
            BY <2>1 DEF ReadPlan, ReadDeployments, Go, loaded, Unread
        <3>. QED BY <1>1, <3>1, MigratingStays
    <2>2. CASE ReadSchema
        <3>1. /\ UNCHANGED <<migrations, plan, next>> /\ stage = "schema" /\ stage' = "migrations"
            BY <2>2 DEF ReadSchema, Go, loaded
        <3>2. next = 1 /\ migrations = <<>> /\ Len(PlanDoc.migrations) \in Nat
            BY <3>1, ListOfFiles DEF Migrating, Reached, Unread, Known
        <3>3. PlanDoc' = PlanDoc
            BY <1>1, DocumentsStay
        <3>4. Reached' /\ AtHand'
            BY <3>1, <3>2, <3>3 DEF Reached, AtHand, Unread
        <3>. QED BY <1>1, <3>1, <3>4, AllStays DEF Migrating
    <2>3. CASE OpenMigration
        <3>1. /\ UNCHANGED <<migrations, plan, next>> /\ stage = "migrations" /\ stage' = "parsing"
              /\ ParseFrom(dir.files[Entry.file]) /\ Entry.file \in DOMAIN dir.files
              /\ next <= Len(PlanDoc.migrations)
            BY <2>3 DEF OpenMigration, Go, loaded, MigrationReadable, Listed
        <3>2. next = Len(migrations) + 1 /\ Len(PlanDoc.migrations) \in Nat /\ Len(migrations) \in Nat
            BY <3>1, ListOfFiles, ListFacts DEF Migrating, Reached, Known, Assembling
        <3>3. PlanDoc' = PlanDoc /\ Entry' = Entry
            BY <1>1, <3>1, DocumentsStay DEF Entry
        <3>4. Len(migrations) < Len(PlanDoc.migrations)
            BY <3>1, <3>2
        <3>5. Reached'
            BY <1>1, <3>1, <3>2, <3>3, <3>4 DEF Reached, Unread
        <3>. PICK sc : sc = dir.scripts[Entry.file]
            OBVIOUS
        <3>6. ParsesAsMeant(sc)'
            BY <3>1, MeantBegins
        <3>7. (dir.scripts[Entry.file])' = sc
            BY <1>1, <3>3
        <3>8. AtHand'
            BY <3>6, <3>7 DEF AtHand
        <3>. QED BY <1>1, <3>1, <3>5, <3>8, AllStays DEF Migrating
    <2>4. CASE ParseMigration
        <3>1. /\ UNCHANGED <<migrations, plan, next, stage>> /\ stage = "parsing" /\ ParseNext
            BY <2>4 DEF ParseMigration, loaded
        <3>3. PlanDoc' = PlanDoc /\ Entry' = Entry
            BY <1>1, <3>1, DocumentsStay DEF Entry
        <3>5. Reached'
            BY <1>1, <3>1, <3>3 DEF Migrating, Reached, Unread
        <3>. PICK sc : sc = dir.scripts[Entry.file]
            OBVIOUS
        <3>6. Entry.file \in DOMAIN dir.files
            BY <3>1 DEF Migrating, Reached
        <3>7. Ordinary(sc) /\ WellWritten(sc)
            BY <3>6, ScriptsAssumption DEF OrdinaryFiles, ToolInv, AreWritten
        <3>8. LexesAsWritten(sc, ScriptTokens(sc))
            BY <3>1 DEF LexedAsWritten
        <3>9. sc.cut = 0 => ParsesAsMeant(sc)
            BY <3>1 DEF Migrating, AtHand
        <3>10. ASSUME sc.cut = 0 PROVE ParsesAsMeant(sc)'
            BY <3>1, <3>7, <3>8, <3>9, <3>10, MeantKept DEF ToolInv
        <3>11. (dir.scripts[Entry.file])' = sc
            BY <1>1, <3>3
        <3>12. AtHand'
            BY <3>10, <3>11 DEF AtHand
        <3>. QED BY <1>1, <3>1, <3>5, <3>12, AllStays DEF Migrating
    <2>5. CASE CollectMigration
        BY <1>1, <2>5, CollectKeeps
    <2>6. CASE AssemblePlan
        <3>1. /\ stage = "migrations" /\ stage' = "contracts" /\ migrations' = migrations
              /\ ~(next <= Len(PlanDoc.migrations))
              /\ plan' = {Assembled(PlanDoc, WorkloadOf(workloads, PlanDoc.workload))}
            BY <2>6 DEF AssemblePlan, Go, Listed
        <3>2. /\ next = Len(migrations) + 1 /\ Len(migrations) <= Len(PlanDoc.migrations)
              /\ Len(PlanDoc.migrations) \in Nat /\ Len(migrations) \in Nat
              /\ IsList(PlanDoc.migrations)
            BY <3>1, ListOfFiles, ListFacts DEF Migrating, Reached, Known, Assembling
        <3>3. Len(migrations) = Len(PlanDoc.migrations)
            BY <3>1, <3>2
        <3>. PICK p : p = Assembled(PlanDoc, WorkloadOf(workloads, PlanDoc.workload))
            OBVIOUS
        <3>4. /\ p.migrations = migrations /\ p.base = BaseSchema /\ p.history = <<>>
              /\ p.unknown = FALSE
            BY DEF Assembled
        <3>5. AllPlanned'
            BY <1>1, <3>1, <3>2, <3>3, <3>4, DocumentsStay DEF AllPlanned
        <3>6. Reached' /\ AtHand'
            BY <3>1 DEF Reached, AtHand, Unread
        <3>7. AllMeant'
            <4> SUFFICES ASSUME NEW i \in DOMAIN migrations, ScriptAt(i)'.cut = 0
                         PROVE  IsMeant(migrations'[i].operations, ScriptAt(i)')
                BY <3>1 DEF AllMeant
            <4>1. ScriptAt(i)' = ScriptAt(i)
                BY <1>1, DocumentsStay
            <4>. QED BY <3>1, <4>1 DEF Migrating, AllMeant
        <3>. QED BY <3>5, <3>6, <3>7 DEF Migrating
    <2>7. CASE SkipEntry \/ LoadContract \/ EndContracts
        <3>1. UNCHANGED <<migrations, plan>> /\ stage' \in {"contracts", "graph"}
            BY <2>7 DEF SkipEntry, LoadContract, EndContracts, Go, loaded
        <3>. QED BY <1>1, <3>1, MigratingStays DEF Unread
    <2>. QED BY <1>2, <2>1, <2>2, <2>3, <2>4, <2>5, <2>6, <2>7 DEF Loads
<1>3. CASE Answers
    <2>1. CASE Start
        <3>1. /\ UNCHANGED <<migrations, plan, next>> /\ stage \in Unread
              /\ stage' \notin {"migrations", "parsing"}
            BY <2>1 DEF Start, Go, loaded, Unread
        <3>. QED BY <1>1, <3>1, MigratingStays
    <2>2. CASE ~Start
        <3>1. /\ UNCHANGED <<migrations, plan>>
              /\ stage' \notin Unread \cup {"migrations", "parsing"}
            BY <1>3, <2>2 DEF Answers, Help, BuildGraph, Crash, Verify, Write, WriteFails, Exit, Go,
                loaded, Unread
        <3>. QED BY <1>1, <3>1, MigratingStays
    <2>. QED BY <2>1, <2>2
<1>4. CASE Fails
    <2>1. UNCHANGED <<migrations, plan>> /\ stage' = "exited"
        BY <1>4 DEF Fails, BadCall, BadPlan, BadDeployments, BadSchema, BadMigration, BadSql,
            BadAssembly, BadContract, TooLarge, UnknownFormat, Fail, Exit, loaded
    <2>. QED BY <1>1, <2>1, MigratingStays DEF Unread
<1>5. CASE Done \/ UNCHANGED vars
    <2>1. UNCHANGED <<stage, next, migrations, plan>> /\ UNCHANGED sqlVars
        BY <1>5 DEF Done, vars, loaded
    <2>2. PlanDoc' = PlanDoc /\ Entry' = Entry
        BY <1>1, <2>1, DocumentsStay DEF Entry
    <2>3. Reached'
        BY <1>1, <2>1, <2>2 DEF Migrating, Reached
    <2>. PICK sc : sc = dir.scripts[Entry.file]
        OBVIOUS
    <2>4. (dir.scripts[Entry.file])' = sc
        BY <1>1, <2>2
    <2>5. stage = "parsing" /\ sc.cut = 0 => ParsesAsMeant(sc)
        BY DEF Migrating, AtHand
    <2>6. stage = "parsing" /\ sc.cut = 0 => ParsesAsMeant(sc)'
        BY <2>1, <2>5, MeantStays
    <2>7. AtHand'
        BY <2>1, <2>4, <2>6 DEF AtHand
    <2>. QED BY <1>1, <2>1, <2>3, <2>7, AllStays DEF Migrating
<1>. QED BY <1>2, <1>3, <1>4, <1>5 DEF Next

-----------------------------------------------------------------------------
(* The schema the migrations lead to.                                        *)

Executing == INSTANCE FoldFacts WITH
                 Op <- LAMBDA which, d, reached, i :
                          IF i \in which THEN Execute(reached, ScriptAt(i)) ELSE reached
Gathering == INSTANCE FoldFacts WITH Op <- LAMBDA c, d, st, mig : ApplyOne(st, mig)

\* What is known of the schema before any migration.
LEMMA BaseTold == Told(SchemaState(BaseSchema, <<>>, FALSE), {BaseSchema})
<1>. PICK schema : schema = BaseSchema
    OBVIOUS
<1>1. AreColumns(schema)
    BY Zenon DEF BaseSchema, ParseSchema, AreColumns, Column
<1>2. Agree(schema, schema)
    BY DEF Agree
<1>3. SchemaState(schema, <<>>, FALSE).schema = schema
    BY DEF SchemaState
<1>. QED BY <1>1, <1>2, <1>3, Zenon DEF Told, Same

\* The files executed one after the other.
Positioned(g, which, reals, N) ==
    /\ g[0] = reals /\ g[N] = ExecuteFiles(reals, which)
    /\ \A k \in 1 .. N : g[k] = IF k \in which THEN Execute(g[k - 1], ScriptAt(k)) ELSE g[k - 1]
\* They are executed in that order.
LEMMA ExecutedInSteps ==
    ASSUME NEW which, NEW reals, NEW N \in Nat, DOMAIN PlanDoc.migrations = 1 .. N
    PROVE  \E g : Positioned(g, which, reals, N)
<1>. PICK at : at = [i \in DOMAIN PlanDoc.migrations |-> i]
    BY Zenon
<1>1. DOMAIN at = 1 .. N /\ \A k \in 1 .. N : at[k] = k
    OBVIOUS
<1> DEFINE g == Executing!Stages(which, 0, reals, at, N)
<1> HIDE DEF g
<1>2. /\ g[0] = reals /\ g[N] = Executing!Fold(which, 0, reals, at)
      /\ \A k \in 1 .. N : g[k] = IF at[k] \in which THEN Execute(g[k - 1], ScriptAt(at[k]))
                                                     ELSE g[k - 1]
    <2>1. Executing!Passes(g, which, 0, reals, at, N)
        BY <1>1, Executing!FoldSteps DEF g
    <2>. QED BY <2>1 DEF Executing!Passes
<1>3. ExecuteFiles(reals, which) = g[N]
    <2>1. ExecuteFiles(reals, which)
            = Executing!Fold(which, 0, reals, [i \in DOMAIN PlanDoc.migrations |-> i])
        BY ONLY TRUE DEF ExecuteFiles, Executing!Fold, FoldLeft, Executing!FoldLeft,
               MapThenFoldSet, Executing!MapThenFoldSet, Max, Executing!Max
    <2>. QED BY <1>2, <2>1
<1>4. \A k \in 1 .. N : g[k] = IF k \in which THEN Execute(g[k - 1], ScriptAt(k)) ELSE g[k - 1]
    BY <1>1, <1>2
<1>. QED BY <1>2, <1>3, <1>4, Zenon DEF Positioned

\* Those that are whole tell what the database has.
LEMMA AllTold ==
    ASSUME ToolInv, Assembling, AllMeant, stage = "migrations", Reached,
           WholeFiles(DOMAIN migrations)
    PROVE  Told(FoldLeft(ApplyOne, SchemaState(BaseSchema, <<>>, FALSE), migrations),
                ExecuteFiles({BaseSchema}, DOMAIN migrations))
<1>. PICK n : n = Len(migrations)
    BY Zenon
<1>. PICK N : N = Len(PlanDoc.migrations)
    BY Zenon
<1>. PICK which : which = DOMAIN migrations
    OBVIOUS
<1>. PICK base : base = SchemaState(BaseSchema, <<>>, FALSE)
    BY Zenon
<1>. PICK reals : reals = {BaseSchema}
    BY Zenon
<1>1. /\ n \in Nat /\ N \in Nat /\ n <= N /\ which = 1 .. n
      /\ DOMAIN PlanDoc.migrations = 1 .. N /\ IsList(migrations)
    BY ListOfFiles, ListFacts DEF Reached, Assembling, Known
<1>2. PICK g : Positioned(g, which, reals, N)
    BY <1>1, ExecutedInSteps, Zenon
<1>3. /\ g[0] = reals /\ g[N] = ExecuteFiles(reals, which)
      /\ \A k \in 1 .. N : g[k] = IF k \in which THEN Execute(g[k - 1], ScriptAt(k)) ELSE g[k - 1]
    BY <1>2 DEF Positioned
<1> DEFINE f == Gathering!Stages(0, 0, base, migrations, n)
<1> HIDE DEF f
<1>4. /\ f[0] = base /\ f[n] = Gathering!Fold(0, 0, base, migrations)
      /\ \A k \in 1 .. n : f[k] = ApplyOne(f[k - 1], migrations[k])
    <2>1. Gathering!Passes(f, 0, 0, base, migrations, n)
        BY <1>1, Gathering!FoldSteps, Zenon DEF f
    <2>. QED BY <2>1 DEF Gathering!Passes
<1>5. FoldLeft(ApplyOne, base, migrations) = f[n]
    <2>1. FoldLeft(ApplyOne, base, migrations) = Gathering!Fold(0, 0, base, migrations)
        BY ONLY TRUE DEF Gathering!Fold, FoldLeft, Gathering!FoldLeft,
               MapThenFoldSet, Gathering!MapThenFoldSet, Max, Gathering!Max
    <2>. QED BY <1>4, <2>1, Zenon
<1> DEFINE S == {k \in Nat : k <= N => Told(f[IF k <= n THEN k ELSE n], g[k])}
<1>6. 0 \in S
    <2>1. Told(f[0], g[0])
        BY <1>3, <1>4, BaseTold, Zenon
    <2>. QED BY <1>1, <2>1
<1>7. ASSUME NEW k \in Nat, k \in S PROVE k + 1 \in S
    <2> SUFFICES ASSUME k + 1 <= N PROVE Told(f[IF k + 1 <= n THEN k + 1 ELSE n], g[k + 1])
        OBVIOUS
    <2>0. k + 1 \in 1 .. N /\ (k + 1) - 1 = k /\ k <= N
        BY <1>1
    <2>1. Told(f[IF k <= n THEN k ELSE n], g[k])
        BY <1>7, <2>0
    <2>2. CASE k + 1 <= n
        <3>1. k + 1 \in 1 .. n /\ k <= n
            BY <1>1, <2>2
        <3>2. f[k + 1] = ApplyOne(f[k], migrations[k + 1]) /\ g[k + 1] = Execute(g[k], ScriptAt(k + 1))
            BY <1>1, <1>3, <1>4, <2>0, <3>1
        <3>3. IsMeant(migrations[k + 1].operations, ScriptAt(k + 1))
            BY <1>1, <3>1 DEF AllMeant, WholeFiles
        <3>4. Told(f[k], g[k])
            BY <2>1, <3>1
        <3>5. Told(ApplyOne(f[k], migrations[k + 1]), Execute(g[k], ScriptAt(k + 1)))
            BY <3>3, <3>4, FileAgrees
        <3>. QED BY <2>2, <3>2, <3>5
    <2>3. CASE ~(k + 1 <= n)
        <3>1. k + 1 \notin 1 .. n /\ (IF k <= n THEN k ELSE n) = n
            BY <1>1, <2>3
        <3>2. g[k + 1] = g[k]
            BY <1>1, <1>3, <2>0, <3>1
        <3>. QED BY <2>1, <2>3, <3>1, <3>2
    <2>. QED BY <2>2, <2>3
<1> HIDE DEF S
<1>8. N \in S
    BY <1>1, <1>6, <1>7, Count!Induction
<1>9. Told(f[n], g[N])
    <2>1. Told(f[IF N <= n THEN N ELSE n], g[N])
        BY <1>1, <1>8 DEF S
    <2>2. (IF N <= n THEN N ELSE n) = n
        BY <1>1
    <2>. QED BY <2>1, <2>2
<1>. QED BY <1>3, <1>5, <1>9, Zenon

\* What is known of the files, in every run.
LEMMA MigratingHolds ==
    ASSUME OrdinaryFiles PROVE Spec => [](ToolInv /\ Assembling /\ Migrating)
<1>1. Init => Migrating
    <2>1. DOMAIN <<>> = {}
        OBVIOUS
    <2>2. Init => Reached /\ AtHand
        BY DEF Init, Reached, AtHand, Unread
    <2>3. Init => AllMeant /\ AllPlanned
        BY <2>1 DEF Init, AllMeant, AllPlanned
    <2>. QED BY <2>2, <2>3 DEF Migrating
<1>2. ToolInv /\ Parser /\ Assembling /\ LexedAsWritten /\ Migrating /\ [Next]_vars => Migrating'
    BY MigratingKept
<1>. QED BY <1>1, <1>2, OutcomeHolds, FilesReadAsWritten, PTL DEF Spec

\* Whatever the migration files of a directory say, the schema the operations
\* read of them lead to is the one the database has after executing them, or it
\* is known not to be known (sql/parser.go, ir/schema.go): of files the parser
\* is made for (Ordinary).
THEOREM SchemaIsTold == ASSUME OrdinaryFiles PROVE Spec => []SchemaAgrees
<1>1. ToolInv /\ Assembling /\ Migrating => SchemaAgrees
    <2> SUFFICES ASSUME ToolInv, Assembling, Migrating, stage = "migrations",
                        WholeFiles(DOMAIN migrations)
                 PROVE  LET seen == FoldLeft(ApplyOne, SchemaState(BaseSchema, <<>>, FALSE), migrations)
                        IN  \/ seen.indeterminate
                            \/ \E real \in ExecuteFiles({BaseSchema}, DOMAIN migrations) :
                                  Agree(seen.schema, real)
        BY Zenon DEF SchemaAgrees
    <2>. PICK seen : seen = FoldLeft(ApplyOne, SchemaState(BaseSchema, <<>>, FALSE), migrations)
        BY Zenon
    <2>. PICK reals : reals = ExecuteFiles({BaseSchema}, DOMAIN migrations)
        OBVIOUS
    <2>1. Told(seen, reals)
        BY AllTold, Zenon DEF Migrating
    <2>2. seen.indeterminate \/ \E real \in reals : Agree(seen.schema, real)
        BY <2>1, Zenon DEF Told, Same
    <2>. QED BY <2>2, Zenon
<1>. QED BY <1>1, MigratingHolds, PTL

-----------------------------------------------------------------------------
(* What an exit code of 0 promises.                                        *)

\* A report is the one of the only plan and the contracts that were read.
OnePlan == \A p, q \in plan : p = q
IsOfPlan == \E p \in plan : report = Run([plan |-> p, services |-> services])
Judged == /\ OnePlan
          /\ stage = "writing" => IsOfPlan
          /\ stage = "exited" /\ Verifies /\ exit # {ToolFailure} => IsOfPlan

\* Every step of the tool keeps it.
LEMMA JudgedKept == ASSUME Judged, [Next]_vars PROVE Judged'
<1>1. Verifies' <=> Verifies
    BY InputsKept DEF Verifies, AsksForHelp
<1>2. OnePlan'
    <2>1. plan' = plan \/ AssemblePlan
        <3>1. CASE Loads
            BY <3>1 DEF Loads, ReadPlan, ReadDeployments, ReadSchema, OpenMigration, ParseMigration,
                CollectMigration, SkipEntry, LoadContract, EndContracts, loaded
        <3>2. CASE Answers
            BY <3>2 DEF Answers, Help, Start, BuildGraph, Crash, Verify, Write, WriteFails, Exit, loaded
        <3>3. CASE Fails
            BY <3>3 DEF Fails, BadCall, BadPlan, BadDeployments, BadSchema, BadMigration, BadSql,
                BadAssembly, BadContract, TooLarge, UnknownFormat, Fail, Exit, loaded
        <3>4. CASE Done \/ UNCHANGED vars
            BY <3>4 DEF Done, vars, loaded
        <3>. QED BY <3>1, <3>2, <3>3, <3>4 DEF Next
    <2>2. CASE AssemblePlan
        <3>1. \E p : plan' = {p}
            BY <2>2 DEF AssemblePlan
        <3>. QED BY <3>1 DEF OnePlan
    <2>. QED BY <2>1, <2>2 DEF Judged, OnePlan
<1>3. ASSUME UNCHANGED <<plan, services, report>>, IsOfPlan PROVE Judged'
    BY <1>2, <1>3 DEF Judged, IsOfPlan
<1>4. ASSUME stage' \notin {"writing", "exited"} PROVE Judged'
    BY <1>2, <1>4 DEF Judged
<1>5. ASSUME stage' = "exited", exit' = {ToolFailure} PROVE Judged'
    BY <1>2, <1>5 DEF Judged
<1>6. CASE Loads
    <2>1. stage' \notin {"writing", "exited"}
        <3>1. CASE ReadPlan \/ ReadDeployments \/ ReadSchema \/ OpenMigration \/ CollectMigration
                     \/ AssemblePlan \/ SkipEntry \/ LoadContract \/ EndContracts
            BY <3>1 DEF ReadPlan, ReadDeployments, ReadSchema, OpenMigration, CollectMigration,
                AssemblePlan, SkipEntry, LoadContract, EndContracts, Go
        <3>2. CASE ParseMigration
            BY <3>2 DEF ParseMigration
        <3>. QED BY <1>6, <3>1, <3>2 DEF Loads
    <2>. QED BY <1>4, <2>1
<1>7. CASE Answers
    <2>1. CASE Start \/ BuildGraph \/ Crash
        BY <1>4, <2>1 DEF Start, BuildGraph, Crash, Go
    <2>2. CASE Help
        BY <1>1, <1>2, <2>2 DEF Help, Exit, Judged, Verifies
    <2>3. CASE Verify
        <3>1. /\ stage' = "writing" /\ plan' = plan /\ services' = services
              /\ \E p \in plan : report' = Run([plan |-> p, services |-> services])
            BY <2>3 DEF Verify, Go, loaded
        <3>2. IsOfPlan'
            BY <3>1 DEF IsOfPlan
        <3>. QED BY <1>2, <3>1, <3>2 DEF Judged
    <2>4. CASE Write
        <3>1. stage = "writing" /\ UNCHANGED <<plan, services, report>>
            BY <2>4 DEF Write, Exit, loaded
        <3>. QED BY <1>3, <3>1 DEF Judged
    <2>5. CASE WriteFails
        BY <1>5, <2>5 DEF WriteFails, Exit
    <2>. QED BY <1>7, <2>1, <2>2, <2>3, <2>4, <2>5 DEF Answers
<1>8. CASE Fails
    BY <1>5, <1>8 DEF Fails, BadCall, BadPlan, BadDeployments, BadSchema, BadMigration, BadSql,
        BadAssembly, BadContract, TooLarge, UnknownFormat, Fail, Exit
<1>9. CASE Done \/ UNCHANGED vars
    <2>1. UNCHANGED <<stage, exit, plan, services, report>>
        BY <1>9 DEF Done, vars, loaded, results
    <2>. QED BY <1>1, <1>2, <2>1 DEF Judged, IsOfPlan
<1>. QED BY <1>6, <1>7, <1>8, <1>9 DEF Next

\* The plan holds what the migration files say.
SaysFiles(p) ==
    /\ IsPlan(p) /\ DOMAIN PlanDoc.migrations = 1 .. Len(p.migrations)
    /\ \A i \in DOMAIN p.migrations : IsMeant(p.migrations[i].operations, ScriptAt(i))

\* Whichever of the files are executed, in the order of the list.
LEMMA InOrderTold ==
    ASSUME NEW p, SaysFiles(p), NEW st, NEW reals, Told(st, reals), NEW which
    PROVE  Told(ApplyInOrder(p, st, which), ExecuteFiles(reals, which))
<1>. PICK N : N = Len(p.migrations)
    BY Zenon
<1>1. /\ IsPlan(p) /\ N \in Nat /\ DOMAIN PlanDoc.migrations = 1 .. N /\ DOMAIN p.migrations = 1 .. N
      /\ \A i \in 1 .. N : IsMeant(p.migrations[i].operations, ScriptAt(i))
    BY DEF SaysFiles, IsPlan
<1>2. PICK g : Positioned(g, which, reals, N)
    BY <1>1, ExecutedInSteps, Zenon
<1>3. /\ g[0] = reals /\ g[N] = ExecuteFiles(reals, which)
      /\ \A k \in 1 .. N : g[k] = IF k \in which THEN Execute(g[k - 1], ScriptAt(k)) ELSE g[k - 1]
    BY <1>2 DEF Positioned
<1>. PICK f : f = PrefixesOf(p, st, which)
    OBVIOUS
<1>4. /\ f[0] = st /\ f[N] = ApplyInOrder(p, st, which)
      /\ \A k \in 1 .. N : f[k] = IF k \in which THEN ApplyOne(f[k - 1], p.migrations[k]) ELSE f[k - 1]
    BY <1>1, InOrderSteps
<1> DEFINE S == {k \in Nat : k <= N => Told(f[k], g[k])}
<1>5. 0 \in S
    BY <1>3, <1>4
<1>6. ASSUME NEW k \in Nat, k \in S PROVE k + 1 \in S
    <2> SUFFICES ASSUME k + 1 <= N PROVE Told(f[k + 1], g[k + 1])
        OBVIOUS
    <2>1. k + 1 \in 1 .. N /\ (k + 1) - 1 = k /\ k <= N
        BY <1>1
    <2>2. Told(f[k], g[k])
        BY <1>6, <2>1
    <2>3. CASE k + 1 \in which
        <3>1. f[k + 1] = ApplyOne(f[k], p.migrations[k + 1]) /\ g[k + 1] = Execute(g[k], ScriptAt(k + 1))
            BY <1>3, <1>4, <2>1, <2>3
        <3>2. IsMeant(p.migrations[k + 1].operations, ScriptAt(k + 1))
            BY <1>1, <2>1
        <3>3. Told(ApplyOne(f[k], p.migrations[k + 1]), Execute(g[k], ScriptAt(k + 1)))
            BY <2>2, <3>2, FileAgrees
        <3>. QED BY <3>1, <3>3
    <2>4. CASE k + 1 \notin which
        <3>1. f[k + 1] = f[k] /\ g[k + 1] = g[k]
            BY <1>3, <1>4, <2>1, <2>4
        <3>. QED BY <2>2, <3>1
    <2>. QED BY <2>3, <2>4
<1> HIDE DEF S
<1>7. N \in S
    BY <1>1, <1>5, <1>6, Count!Induction, Zenon
<1>8. Told(f[N], g[N])
    BY <1>1, <1>7 DEF S
<1>. QED BY <1>3, <1>4, <1>8

\* So the nodes tell what the database goes through.
LEMMA NodeTold ==
    ASSUME NEW p, SaysFiles(p), p.base = BaseSchema, p.history = <<>>, p.unknown = FALSE, NEW place
    PROVE  Told(SchemaStateAt(p, place),
                ExecuteFiles(ExecuteFiles(ExecuteFiles({BaseSchema}, Before(p)), place.during), place.after))
<1>. PICK seed : seed = SchemaState(BaseSchema, <<>>, FALSE)
    BY Zenon
<1>. PICK reals : reals = {BaseSchema}
    BY Zenon
<1>. PICK st : st = ApplyInOrder(p, seed, Before(p))
    BY Zenon
<1>1. Told(seed, reals) /\ IsPlan(p)
    BY BaseTold, Zenon DEF SaysFiles
<1>2. Told(st, ExecuteFiles(reals, Before(p)))
    BY <1>1, InOrderTold, Zenon
<1>3. BaseState(p) = st
    <2>1. IsState(seed)
        <3>1. SchemaState(p.base, p.history, FALSE) = seed
            OBVIOUS
        <3>2. IsState(SchemaState(p.base, p.history, FALSE))
            BY <1>1 DEF SchemaState, IsState, IsPlan
        <3>. QED BY <3>1, <3>2, Zenon
    <2>2. IsState(st)
        BY <1>1, <2>1, InOrderKeeps, Zenon
    <2>3. st = SchemaState(st.schema, st.committed, st.indeterminate) /\ st.indeterminate \in BOOLEAN
        BY <2>2, Zenon DEF IsState
    <2>4. BaseState(p) = [st EXCEPT !.indeterminate = @ \/ FALSE]
        BY Zenon DEF BaseState
    <2>5. [st EXCEPT !.indeterminate = @ \/ FALSE] = st
        BY <2>3, Zenon DEF SchemaState
    <2>. QED BY <2>4, <2>5
<1>. PICK mid : mid = ExecuteFiles(reals, Before(p))
    OBVIOUS
<1>4. Told(ApplyInOrder(p, st, place.during), ExecuteFiles(mid, place.during))
    BY <1>2, InOrderTold, Zenon
<1>. PICK st2 : st2 = ApplyInOrder(p, st, place.during)
    BY Zenon
<1>. PICK mid2 : mid2 = ExecuteFiles(mid, place.during)
    OBVIOUS
<1>5. Told(ApplyInOrder(p, st2, place.after), ExecuteFiles(mid2, place.after))
    BY <1>4, InOrderTold, Zenon
<1>6. SchemaStateAt(p, place) = ApplyInOrder(p, st2, place.after)
    BY <1>3 DEF SchemaStateAt, DuringSubset
<1>. QED BY <1>5, <1>6, Zenon

\* Nothing executed changes nothing.
LEMMA NoneExecuted ==
    ASSUME NEW reals, NEW N \in Nat, DOMAIN PlanDoc.migrations = 1 .. N
    PROVE  ExecuteFiles(reals, {}) = reals
<1>1. PICK g : Positioned(g, {}, reals, N)
    BY ExecutedInSteps
<1>2. g[0] = reals /\ g[N] = ExecuteFiles(reals, {}) /\ \A k \in 1 .. N : g[k] = g[k - 1]
    BY <1>1 DEF Positioned
<1> DEFINE S == {k \in Nat : k <= N => g[k] = reals}
<1>3. 0 \in S
    BY <1>2
<1>4. ASSUME NEW k \in Nat, k \in S PROVE k + 1 \in S
    <2> SUFFICES ASSUME k + 1 <= N PROVE g[k + 1] = reals
        OBVIOUS
    <2>1. g[k] = reals /\ k + 1 \in 1 .. N /\ (k + 1) - 1 = k
        BY <1>4
    <2>. QED BY <1>2, <2>1
<1> HIDE DEF S
<1>5. N \in S
    BY <1>3, <1>4, Count!Induction
<1>. QED BY <1>2, <1>5 DEF S

\* The versions live at a node that is clean work on the schema it tells.
LEMMA CleanWorks ==
    ASSUME NEW n, CleanColumns(n, services), NEW st, n.schema = st.schema,
           n.indeterminate = st.indeterminate, NEW reals, Told(st, reals),
           \A lv \in DOMAIN services : services[lv] = dir.actual[lv]
    PROVE  AllWork(n.live, reals)
<1>1. ~n.indeterminate /\ \A lv \in n.live : lv \in DOMAIN services
    BY CleanExistence DEF CleanColumns, HasContract
<1>2. PICK real : reals = {real} /\ Same(n.schema, real)
    BY <1>1 DEF Told
<1>3. DOMAIN n.schema = DOMAIN real /\ Required(n.schema) = Required(real)
    BY <1>2 DEF Same, Agree, Required
<1>4. ASSUME NEW lv \in n.live PROVE WorksOn(lv, real)
    <2>. PICK svc : svc = services[lv]
        OBVIOUS
    <2>1. dir.actual[lv] = svc
        BY <1>1
    <2>2. svc.reads \subseteq DOMAIN real /\ svc.writes \subseteq DOMAIN real
        BY <1>3, EveryColumnExists DEF CleanColumns
    <2>3. \A ref \in Required(n.schema) : WritesTable(svc, ref.table) => WritesColumn(svc, ref)
        BY EveryWriteIsComplete DEF CleanColumns
    <2>4. svc["reads"] = svc.reads /\ svc["writes"] = svc.writes
        OBVIOUS
    <2>5. UNION {svc[access] : access \in {"reads", "writes"}} \subseteq DOMAIN real
        BY <2>2, <2>4
    <2>6. \A ref \in Required(real) : ~OmitsColumn(svc, ref)
        BY <1>3, <2>3 DEF OmitsColumn
    <2>. QED BY <2>1, <2>5, <2>6 DEF WorksOn
<1>. QED BY <1>2, <1>4 DEF AllWork

\* What was read, and the answer that was given of it.
Answering == /\ ToolInv /\ Assembling /\ Outcome /\ Migrating /\ Judged /\ CatalogueAsWritten
             /\ Answered /\ exit = {ExitCode.SAFE} /\ WholeFiles(DOMAIN migrations)

\* The plan that was judged is the one of the files.
LEMMA PlanSaysFiles ==
    ASSUME Answering, NEW p \in plan
    PROVE  /\ SaysFiles(p) /\ ValidPlan(p) /\ p.migrations = migrations
           /\ p.base = BaseSchema /\ p.history = <<>> /\ p.unknown = FALSE
<1>1. /\ p.migrations = migrations /\ Len(migrations) = Len(PlanDoc.migrations)
      /\ IsList(PlanDoc.migrations)
      /\ p.base = BaseSchema /\ p.history = <<>> /\ p.unknown = FALSE
    BY DEF Answering, Migrating, AllPlanned
<1>2. IsPlan(p) /\ ValidPlan(p)
    BY DEF Answering, Assembling
<1>3. DOMAIN PlanDoc.migrations = 1 .. Len(p.migrations)
    BY <1>1, ListFacts
<1>4. \A i \in DOMAIN migrations : IsMeant(migrations[i].operations, ScriptAt(i))
    BY DEF Answering, Migrating, AllMeant, WholeFiles
<1>5. SaysFiles(p)
    BY <1>1, <1>2, <1>3, <1>4 DEF SaysFiles
<1>. QED BY <1>1, <1>2, <1>5

\* The code 0 is that of SAFE, and every diagnostic says so.
LEMMA AnswerIsSafe ==
    ASSUME Answering
    PROVE  \E p \in plan : /\ report = Run([plan |-> p, services |-> services])
                           /\ Aggregate(report) = "SAFE"
<1>1. stage = "exited" /\ Verifies /\ exit # {ToolFailure} /\ exit = {0}
    BY DEF Answering, Answered, ExitCode, ToolFailure
<1>2. PICK p \in plan : report = Run([plan |-> p, services |-> services])
    BY <1>1 DEF Answering, Judged, IsOfPlan
<1>3. Reported
    BY <1>1 DEF Answering, Outcome, Verifies
<1>4. Aggregate(report) \in VerdictValues
    BY <1>3, AggregateIs DEF Reported
<1>5. ExitCode[Aggregate(report)] = 0
    BY <1>1, <1>3 DEF Reported
<1>6. Aggregate(report) = "SAFE"
    BY <1>4, <1>5 DEF VerdictValues, ExitCode
<1>. QED BY <1>2, <1>6

\* Every node of the plan is clean, if any of the files says anything.
LEMMA AnswerIsClean ==
    ASSUME Answering, NEW k \in DOMAIN migrations, ScriptAt(k).statements # <<>>, NEW p \in plan
    PROVE  \A n \in Build(p) : CleanColumns(n, services)
<1>1. PICK q \in plan : /\ report = Run([plan |-> q, services |-> services])
                        /\ Aggregate(report) = "SAFE"
    BY AnswerIsSafe
<1>2. q = p
    BY DEF Answering, Judged, OnePlan
<1>3. /\ SaysFiles(p) /\ IsPlan(p) /\ ValidPlan(p) /\ p.migrations = migrations
    BY PlanSaysFiles, Zenon DEF SaysFiles
<1> DEFINE project == [plan |-> p, services |-> services]
<1>4. project.plan = p /\ project.services = services
    OBVIOUS
<1>5. report = Run(project)
    BY <1>1, <1>2
<1> HIDE DEF project
<1>. PICK nodes : nodes = Build(p)
    OBVIOUS
<1>. PICK column : column = EvaluateColumnFamily(p, nodes, services, TRUE)
    BY Zenon
<1>6. \A i \in 1 .. 15 : report[i].verdict = "SAFE"
    BY <1>1, <1>3, <1>4, <1>5, AggregateSafe
<1>7. \A i \in 1 .. 6 : report[i] = column[i]
    BY <1>3, <1>4, <1>5, RunReport, Zenon
<1>8. \A i \in 1 .. 5 : column[i].verdict = "SAFE"
    <2>1. \A i \in 1 .. 5 : i \in 1 .. 6 /\ i \in 1 .. 15
        OBVIOUS
    <2>. QED BY <1>6, <1>7, <2>1, Zenon
<1>9. GraphHasAnyCommittedOp(nodes)
    <2>. PICK m : m = p.migrations[k]
        OBVIOUS
    <2>1. m \in ToSet(p.migrations) /\ IsMeant(m.operations, ScriptAt(k))
        BY <1>3 DEF ToSet, SaysFiles
    <2>2. Len(m.operations) = Len(ScriptAt(k).statements) /\ IsList(ScriptAt(k).statements)
        BY <2>1 DEF IsMeant
    <2>3. Len(ScriptAt(k).statements) # 0
        BY <2>2, EmptySeq
    <2>4. m.operations # <<>>
        BY <2>2, <2>3
    <2>. QED BY <1>3, <2>1, <2>4, SomethingCommitted
<1>. QED BY <1>8, <1>9, ColumnFamilySafe, Zenon

\* So the versions that are live at a node work on what the database has there.
LEMMA NodeWorks ==
    ASSUME Answering, NEW p \in plan, \A n \in Build(p) : CleanColumns(n, services),
           NEW place \in Positions(p)
    PROVE  AllWork(LiveSet(p, place.steps),
                   ExecuteFiles(ExecuteFiles(ExecuteFiles({BaseSchema}, Before(p)), place.during),
                                place.after))
<1>. PICK st : st = SchemaStateAt(p, place)
    OBVIOUS
<1>. PICK reals : reals = ExecuteFiles(ExecuteFiles(ExecuteFiles({BaseSchema}, Before(p)),
                                                    place.during), place.after)
    OBVIOUS
<1>. PICK n : n = NodeAt(p, place)
    OBVIOUS
<1>1. Told(st, reals)
    BY PlanSaysFiles, NodeTold, Zenon
<1>2. /\ CleanColumns(n, services) /\ n.live = LiveSet(p, place.steps)
      /\ n.schema = st.schema /\ n.indeterminate = st.indeterminate
    BY GraphNodes, NodeAtFacts
<1>3. \A lv \in DOMAIN services : services[lv] = dir.actual[lv]
    BY DEF Answering, CatalogueAsWritten
<1>. QED BY <1>1, <1>2, <1>3, CleanWorks

\* Whatever the directory holds, if the tool exits with 0 then every statement
\* of every migration file succeeds, and every version that may be live keeps
\* working, whichever of the during-migrations have been executed and after each
\* of the after-migrations: of files the parser is made for (Ordinary).
THEOREM ZeroIsAPromise == ASSUME OrdinaryFiles PROVE Spec => []SafeExit
<1>1. ToolInv /\ Assembling /\ Outcome /\ Migrating /\ Judged /\ CatalogueAsWritten => SafeExit
    <2> SUFFICES ASSUME Answering, NEW p \in plan,
                        NEW k \in DOMAIN migrations, ScriptAt(k).statements # <<>>
                 PROVE  LET base == ExecuteFiles({BaseSchema}, Before(p))
                            rolledOut == ExecuteFiles(base, During(p))
                        IN  /\ \A during \in SUBSET During(p) :
                                  AllWork(OldAndNew(p), ExecuteFiles(base, during))
                            /\ \A i \in After(p) :
                                  AllWork(NewOnly(p), ExecuteFiles(rolledOut, UpTo(p, i)))
        BY Zenon DEF SafeExit, Answering
    <2>. PICK base : base = ExecuteFiles({BaseSchema}, Before(p))
        OBVIOUS
    <2>. PICK first : first = [w \in Workloads(p) |-> 0]
        BY Zenon
    <2>. PICK last : last = [w \in Workloads(p) |-> LastStep]
        BY Zenon
    <2>1. \A n \in Build(p) : CleanColumns(n, services)
        BY AnswerIsClean
    <2>2. first \in [Workloads(p) -> Steps] /\ last \in [Workloads(p) -> Steps]
        BY DEF Steps, LastStep
    <2>3. /\ LiveSet(p, first) = {OldVersion(p.workloads[w]) : w \in Workloads(p)}
          /\ LiveSet(p, last) = NewOnly(p)
        BY DEF LiveSet, LiveAt, OldVersion, NewVersion, NewOnly, LastStep
    <2>4. OldAndNew(p) = LiveSet(p, first) \cup LiveSet(p, last)
        BY <2>3 DEF OldAndNew, NewOnly
    <2>5. ASSUME NEW during \in SUBSET During(p), NEW s \in [Workloads(p) -> Steps]
          PROVE  AllWork(LiveSet(p, s), ExecuteFiles(base, during))
        <3>. PICK place : place = Position(s, during, {})
            OBVIOUS
        <3>1. place \in Positions(p)
            BY DEF Positions
        <3>2. place.steps = s /\ place.during = during /\ place.after = {}
            BY DEF Position
        <3>3. AllWork(LiveSet(p, s), ExecuteFiles(ExecuteFiles(base, during), {}))
            BY <2>1, <3>1, <3>2, NodeWorks, Zenon
        <3>4. ExecuteFiles(ExecuteFiles(base, during), {}) = ExecuteFiles(base, during)
            BY PlanSaysFiles, NoneExecuted, Zenon DEF SaysFiles, IsPlan
        <3>. QED BY <3>3, <3>4
    <2>6. ASSUME NEW during \in SUBSET During(p)
          PROVE  AllWork(OldAndNew(p), ExecuteFiles(base, during))
        <3>1. /\ AllWork(LiveSet(p, first), ExecuteFiles(base, during))
              /\ AllWork(LiveSet(p, last), ExecuteFiles(base, during))
            BY <2>2, <2>5, Zenon
        <3>. QED BY <2>4, <3>1, Zenon DEF AllWork
    <2>7. ASSUME NEW i \in After(p)
          PROVE  AllWork(NewOnly(p), ExecuteFiles(ExecuteFiles(base, During(p)), UpTo(p, i)))
        <3>. PICK place : place = [RolloutComplete(p) EXCEPT !.after = UpTo(p, i)]
            BY Zenon
        <3>1. place \in Positions(p)
            BY DEF Positions, Chain
        <3>2. place.steps = last /\ place.during = During(p) /\ place.after = UpTo(p, i)
            BY DEF RolloutComplete, Position
        <3>3. AllWork(LiveSet(p, last), ExecuteFiles(ExecuteFiles(base, During(p)), UpTo(p, i)))
            BY <2>1, <3>1, <3>2, NodeWorks, Zenon
        <3>. QED BY <2>3, <3>3
    <2>. QED BY <2>6, <2>7, Zenon
<1>2. Init => Judged
    BY DEF Init, Judged, OnePlan
<1>3. Judged /\ [Next]_vars => Judged'
    BY JudgedKept
<1>. QED BY <1>1, <1>2, <1>3, MigratingHolds, OutcomeHolds, CatalogueTrue, PTL DEF Spec

=============================================================================
