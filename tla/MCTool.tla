------------------------------- MODULE MCTool -------------------------------
(* Project directories: sound ones, and sound ones in which one thing has     *)
(* been changed.                                                              *)
EXTENDS Tool

MCWords == {"ALTER", "TABLE", "IF", "EXISTS", "NOT", "NULL", "ADD", "DROP", "RENAME", "COLUMN",
            "TO", "TYPE", "SET", "DATA", "DEFAULT", "USING", "CONSTRAINT", "UNIQUE",
            "public", "t", "a", "b", "c", "x", "integer", "bigint", "varchar"}
MCDigits == {"0", "2"}
MCTypeNamed ==
    <<"integer">> :> [family |-> "integer", size |-> 2]
        @@ <<"bigint">> :> [family |-> "integer", size |-> 3]
        @@ <<"varchar", "(", "2", ")">> :> [family |-> "varchar", size |-> 2]
MCOrdinalOf == "v1" :> <<1>> @@ "v2" :> <<2>>

-----------------------------------------------------------------------------
(* Migration files.                                                          *)

Action == [do |-> "add", column |-> Word("a"), explicit |-> TRUE, ifClause |-> FALSE,
           notNull |-> FALSE, default |-> <<>>, defaultFirst |-> FALSE,
           type |-> <<"integer">>, newColumn |-> Word("c"), tokens |-> <<>>]
\* A number with a fraction; and a string with everything in it that means
\* something outside a string, with a cast.
Fraction == <<Written("number", <<"0", ".", "2">>)>>
Text == <<Written("string", <<";", "'", "'", "-", "-", "/", "*">>), Written("op", <<":", ":">>),
          Written("ident", <<"x", "2">>)>>
Expressions == {Fraction, Text}
Statement(actions) ==
    [table |-> Word("t"), qualified |-> FALSE, ifExists |-> FALSE, actions |-> actions]
File(statements) ==
    [statements |-> statements, gap |-> <<" ">>, tight |-> TRUE, ended |-> TRUE, cut |-> 0]
One(a) == File(<<Statement(<<a>>)>>)

AddC == [Action EXCEPT !.column = Word("c")]
DropA == [Action EXCEPT !.do = "drop"]
DropB == [DropA EXCEPT !.column = Word("b")]
Adds ==
    {[AddC EXCEPT !.column = col, !.explicit = e, !.ifClause = i, !.notNull = n, !.default = d] :
        col \in {Word("c"), Quoted("c")}, e \in BOOLEAN, i \in BOOLEAN, n \in BOOLEAN,
        d \in {<<>>} \cup Expressions}
Changes ==
    {[DropA EXCEPT !.ifClause = i] : i \in BOOLEAN}
        \cup {[Action EXCEPT !.do = "rename"],
              [Action EXCEPT !.do = "rename", !.column = Quoted("a"), !.newColumn = Quoted("c")]}
        \cup {[Action EXCEPT !.do = do, !.explicit = e] :
                 do \in {"setNotNull", "dropNotNull"}, e \in BOOLEAN}
        \cup {[Action EXCEPT !.do = "type", !.explicit = e, !.type = ty, !.default = d] :
                 e \in BOOLEAN, ty \in DOMAIN MCTypeNamed, d \in {<<>>} \cup Expressions}
Unsupported ==
    {[Action EXCEPT !.do = "other", !.tokens = tokens] :
        tokens \in {Phrase(<<"ADD", "CONSTRAINT", "x", "UNIQUE">>),
                    Phrase(<<"DROP", "CONSTRAINT", "x">>), Phrase(<<"RENAME", "TO", "x">>),
                    Phrase(<<"ALTER", "a", "SET", "DEFAULT", "x">>),
                    <<Word("ADD"), Word("x"), Written("other", <<"#">>)>>}}

\* Blanks, comments with a semicolon in them, comments of nothing but stars.
Gaps == {<<Newline>>, <<" ", "-", "-", "x", ";", "\r", Newline>>, <<"/", "*", "/", ";", "*", "/">>,
         <<" ", "/", "*", "-", "*", "/", " ">>}
Layouts(file) ==
    {[file EXCEPT !.gap = g, !.tight = t, !.ended = e] : g \in Gaps, t \in BOOLEAN, e \in BOOLEAN}
Busy(default) ==
    File(<<Statement(<<[AddC EXCEPT !.notNull = TRUE, !.default = default]>>),
           [Statement(<<DropB>>) EXCEPT !.qualified = TRUE, !.ifExists = TRUE]>>)
Cuts ==
    UNION {{[b EXCEPT !.cut = n] : n \in 1 .. Len(Source(b))} :
              b \in {[Busy(Text) EXCEPT !.gap = g] : g \in {<<" ">>, <<"/", "*", ";", "*", "/">>}}
                       \cup {One([AddC EXCEPT !.default = Fraction])}}
\* Forms that are not what they begin as.
HalfForms == {[Action EXCEPT !.do = "other", !.tokens = Phrase(ws)] :
              ws \in {<<"ADD", "COLUMN", "c">>, <<"DROP", "COLUMN", "IF", "a">>,
                      <<"RENAME", "COLUMN", "a", "TO">>, <<"RENAME", "COLUMN", "a", "TO", "a">>,
                      <<"ALTER", "a", "SET", "NOT">>}}

Files == {One(a) : a \in Adds \cup Changes \cup Unsupported \cup HalfForms}
             \cup UNION {Layouts(Busy(d)) : d \in Expressions} \cup {File(<<>>)}
\* What the documents promise is understood or refused as a whole, and is not.
LossyFiles ==
    {File(<<Statement(<<AddC, DropB>>)>>),
     One([AddC EXCEPT !.notNull = TRUE, !.default = Fraction, !.defaultFirst = TRUE])}

-----------------------------------------------------------------------------
(* The other files.                                                          *)

Container == [image |-> {[digest |-> {}, tag |-> {"v2"}]}, probe |-> FALSE, preStop |-> FALSE]
Deployment ==
    [decodes |-> TRUE, kind |-> "Deployment", name |-> "api", service |-> "", version |-> "",
     containers |-> <<Container>>, strategy |-> [type |-> "", surge |-> {}, unavailable |-> {}],
     replicas |-> {}, waits |-> {}, dependsOn |-> <<>>, grace |-> {}]
Web == [Deployment EXCEPT !.name = "web", !.version = "v1"]

SchemaFile ==
    LET column(name) ==
            [name |-> name, type |-> <<"integer">>, nullable |-> TRUE, default |-> FALSE]
    IN  [decodes |-> TRUE, apiVersion |-> Alpha, kind |-> "Schema",
         tables |-> <<[name |-> "t", columns |-> <<column("a"), column("b")>>]>>]

ContractFile(service, version, columns) ==
    [decodes |-> TRUE, apiVersion |-> Beta, kind |-> "ServiceContract",
     service |-> service, version |-> version,
     reads |-> columns, writes |-> columns, dependencies |-> <<>>, api |-> {}]
Provided(contract) ==
    [contract |-> contract,
     endpoints |-> <<[operation |-> "get",
                      request |-> <<[name |-> "id", required |-> TRUE],
                                    [name |-> "k", required |-> FALSE]>>,
                      response |-> <<[name |-> "x", required |-> TRUE]>>]>>]
Called == [contract |-> "orders", operation |-> "get", sent |-> <<"id">>, required |-> <<"x">>]
EntryOf(doc) == [yaml |-> TRUE, isDir |-> FALSE, doc |-> doc]

\* What the versions use; the contracts of the sound directories say so.
UsesOf(columns) == [i \in DOMAIN columns |-> <<"t", columns[i]>>]
Truth(doc) == ParseContract(doc)

Migrates(file, phase) == [file |-> file, phase |-> phase]
PlanFile ==
    [decodes |-> TRUE, apiVersion |-> Alpha, kind |-> "RolloutPlan",
     workload |-> "api", from |-> "v1", to |-> "v2",
     migrations |-> <<Migrates("m1", "during")>>, rollback |-> {}, links |-> <<>>, static |-> <<>>]

\* A sound directory: v1 and v2 of api use some columns of t.
Sound(v1, v2, file) ==
    LET docs == <<ContractFile("api", "v1", UsesOf(v1)), ContractFile("api", "v2", UsesOf(v2))>>
    IN  [plan |-> {PlanFile}, deployments |-> {<<Deployment>>}, schema |-> {SchemaFile},
         files |-> [name \in {"m1"} |-> Source(file)], scripts |-> [name \in {"m1"} |-> file],
         contracts |-> {[listable |-> TRUE, entries |-> <<EntryOf(docs[1]), EntryOf(docs[2])>>]},
         actual |-> [lv \in {ContractKey(docs[1]), ContractKey(docs[2])} |->
                       Truth(IF lv.version = "v1" THEN docs[1] ELSE docs[2])]]
Plain == Sound(<<"b">>, <<"b">>, One(AddC))

\* One file, read by versions that use what it changes and by some that do not.
FileDirectories(files) ==
    {Sound(v1, v2, f) : v1 \in {<<>>, <<"a", "b">>}, v2 \in {<<>>, <<"a">>}, f \in files}

PlannedAs(p) == [Plain EXCEPT !.plan = {p}]
EditPlan ==
    {[PlanFile EXCEPT !.decodes = FALSE], [PlanFile EXCEPT !.apiVersion = Beta],
     [PlanFile EXCEPT !.kind = "Plan"], [PlanFile EXCEPT !.to = ""],
     [PlanFile EXCEPT !.workload = "db"],
     [PlanFile EXCEPT !.migrations = <<Migrates("m1", "sometime")>>],
     [PlanFile EXCEPT !.migrations = <<Migrates("m2", "after")>>],
     [PlanFile EXCEPT !.migrations = <<>>],
     [PlanFile EXCEPT !.links = <<[expand |-> "", contract |-> "m1"]>>],
     [PlanFile EXCEPT !.links = <<[expand |-> "m1", contract |-> "m3"]>>],
     [PlanFile EXCEPT !.rollback = {"v1"}], [PlanFile EXCEPT !.rollback = {""}],
     [PlanFile EXCEPT !.static = <<"api">>], [PlanFile EXCEPT !.static = <<"db">>]}
EditDeployments ==
    {<<>>, <<[Deployment EXCEPT !.decodes = FALSE]>>, <<[Deployment EXCEPT !.name = ""]>>,
     <<[Deployment EXCEPT !.kind = "Service"], Deployment>>,
     <<[Deployment EXCEPT !.kind = "Service", !.decodes = FALSE], Deployment>>,
     <<[Deployment EXCEPT !.containers = <<>>]>>,
     <<[Deployment EXCEPT !.containers = <<[Container EXCEPT !.image = {}], Container>>]>>,
     <<[Deployment EXCEPT !.strategy.type = "Recreate", !.service = "api"], Web>>,
     <<[Deployment EXCEPT !.strategy.type = "Canary"]>>,
     <<[Deployment EXCEPT !.strategy.surge = {[form |-> "int", value |-> 0]},
                          !.strategy.unavailable = {[form |-> "percent", value |-> 50]}]>>,
     <<[Deployment EXCEPT !.strategy.surge = {[form |-> "string", value |-> 1]}]>>,
     <<[Deployment EXCEPT !.replicas = {-1}]>>}
EditSchema ==
    {[SchemaFile EXCEPT !.decodes = FALSE], [SchemaFile EXCEPT !.apiVersion = Beta],
     [SchemaFile EXCEPT !.kind = ""], [SchemaFile EXCEPT !.tables = @ \o @],
     [SchemaFile EXCEPT !.tables[1].columns = @ \o @],
     [SchemaFile EXCEPT !.tables[1].columns[1].type = <<>>],
     [SchemaFile EXCEPT !.tables[1].columns[1].type = <<"x">>],
     [SchemaFile EXCEPT !.tables[1].columns[1].name = ""]}

\* The first contract file, edited: the ones that are sound change the truth.
V1File == ContractFile("api", "v1", <<<<"t", "b">>>>)
EditContract ==
    {[V1File EXCEPT !.decodes = FALSE], [V1File EXCEPT !.kind = ""],
     [V1File EXCEPT !.apiVersion = ""],
     [V1File EXCEPT !.version = ""], [V1File EXCEPT !.reads = <<<<"b">>>>],
     [V1File EXCEPT !.dependencies = <<[service |-> "", min |-> "v1"]>>],
     [V1File EXCEPT !.dependencies = <<[service |-> "db", min |-> "v1"]>>],
     [V1File EXCEPT !.apiVersion = Alpha],
     [V1File EXCEPT !.apiVersion = Alpha, !.api = {[provides |-> <<>>, consumes |-> <<>>]}],
     [V1File EXCEPT !.version = "v2"],
     [V1File EXCEPT !.version = "v2", !.reads = <<<<"t", "c">>>>]}
        \cup {[V1File EXCEPT !.api = {[provides |-> p, consumes |-> c]}] :
                 p \in {<<Provided("orders")>>, <<Provided("orders"), Provided("users")>>,
                        <<Provided("orders"), Provided("orders")>>, <<Provided("")>>},
                 c \in {<<>>, <<Called>>, <<Called, [Called EXCEPT !.contract = ""]>>}}
WithContract(doc) ==
    [Plain EXCEPT !.contracts = {[listable |-> TRUE,
                                  entries |-> <<EntryOf(doc), The(@).entries[2]>>]},
                  !.actual = IF ValidContract(doc) /\ ContractKey(doc) \notin {LiveVersion("api", "v2")}
                             THEN (ContractKey(doc) :> Truth(doc)) @@ @ ELSE @]
EditEntries ==
    {[Plain EXCEPT !.contracts = c] :
        c \in {{}, {[listable |-> FALSE, entries |-> <<>>]}, {[listable |-> TRUE, entries |-> <<>>]},
               {[listable |-> TRUE, entries |-> <<[EntryOf(V1File) EXCEPT !.yaml = FALSE]>>]},
               {[listable |-> TRUE,
                 entries |-> <<EntryOf(V1File), EntryOf([V1File EXCEPT !.writes = <<>>])>>]},
               {[listable |-> TRUE,
                 entries |-> <<[EntryOf(V1File) EXCEPT !.isDir = TRUE], EntryOf(V1File)>>]}}}

\* Two migration files, in all phases; web may stay beside api.
Scripts(first, second) == [name \in {"m1", "m2"} |-> IF name = "m1" THEN first ELSE second]
TwoScripts == Scripts(One(AddC), One(DropA))
Retyped(type) == One([Action EXCEPT !.do = "type", !.type = type])
Retypes == Scripts(Retyped(<<"bigint">>), Retyped(<<"integer">>))
RetypedTwice ==
    [Plain EXCEPT !.scripts = Retypes,
                  !.files = [name \in DOMAIN Retypes |-> Source(Retypes[name])],
                  !.plan = {[PlanFile EXCEPT !.migrations =
                               <<Migrates("m1", "during"), Migrates("m2", "during")>>]}]
TwoFiles ==
    {[Sound(uses, <<>>, One(AddC)) EXCEPT
        !.scripts = TwoScripts,
        !.files = [name \in DOMAIN TwoScripts |-> Source(TwoScripts[name])],
        !.plan = {[PlanFile EXCEPT !.migrations = <<Migrates("m1", x), Migrates("m2", y)>>,
                                   !.rollback = r, !.links = l, !.static = s]},
        !.deployments = {<<[Deployment EXCEPT !.strategy.type = strategy],
                           [Web EXCEPT !.strategy.type = strategy]>>},
        !.contracts = {[The(@) EXCEPT !.entries =
                          Append(@, EntryOf(ContractFile("web", "v1", <<>>)))]},
        !.actual = (LiveVersion("web", "v1") :> Truth(ContractFile("web", "v1", <<>>))) @@ @] :
      uses \in {<<"a">>, <<"b">>}, x \in Phases, y \in Phases, r \in {{}, {"v1"}},
      l \in {<<>>, <<[expand |-> "m1", contract |-> "m2"]>>}, s \in {<<>>, <<"web">>},
      strategy \in {"", "Recreate"}}

\* One file many times over: the counts of nodes that are too large, and those
\* that are too large to be seen to be.
Many(n) ==
    [Sound(<<"b">>, <<"b">>, File(<<>>)) EXCEPT
                  !.plan = {[PlanFile EXCEPT !.migrations =
                               [i \in 1 .. n |-> Migrates("m1", "during")]]}]
HugeDirectories == {Many(n) : n \in 5 .. 9}
\* The ones for which there seem to be no combinations at all.
OverflowDirectories == {Many(n) : n \in 7 .. 9}

MCDirectories ==
    FileDirectories(Files) \cup {Sound(<<"b">>, <<"a">>, f) : f \in Cuts}
        \cup TwoFiles \cup {RetypedTwice} \cup HugeDirectories \cup EditEntries
        \cup {PlannedAs(p) : p \in EditPlan}
        \cup {[Plain EXCEPT !.deployments = {d}] : d \in EditDeployments}
        \cup {[Plain EXCEPT !.schema = {s}] : s \in EditSchema}
        \cup {[Plain EXCEPT !.plan = {}], [Plain EXCEPT !.deployments = {}], [Plain EXCEPT !.schema = {}]}
        \cup {WithContract(doc) : doc \in EditContract}
MCLossyDirectories == FileDirectories(LossyFiles)

\* The files are ones the parser is made for; the lossy ones are not.
ASSUME MCOrdinaryFiles ==
    \A d \in MCDirectories : \A name \in DOMAIN d.files : Ordinary(d.scripts[name])
ASSUME MCLossyFiles == \A f \in LossyFiles : ~Ordinary(f)

-----------------------------------------------------------------------------

Call == [command |-> "verify", flags |-> "ok", operands |-> 1, format |-> "text"]
MCInvocations ==
    {[Call EXCEPT !.format = f] : f \in Formats \cup {"xml"}}
        \cup {[Call EXCEPT !.command = c] : c \in {"", "help", "version", "check"}}
        \cup {[Call EXCEPT !.flags = f] : f \in {"help", "wrong"}}
        \cup {[Call EXCEPT !.operands = 2]}
MCOneInvocation == {Call}
=============================================================================
