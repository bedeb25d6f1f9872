------------------------------ MODULE Manifests ------------------------------
(***************************************************************************)
(* The files of a project directory other than its migrations, and what    *)
(* the parsers make of them: internal/parser/k8s, internal/parser/contract *)
(* and the schema file of internal/parser/rolloutplan, with the            *)
(* constructors of internal/ir they end in.                                *)
(*                                                                         *)
(* A document is a record of its fields; "decodes" says whether the YAML   *)
(* decoder accepts it, which refuses syntax errors and, but for manifests, *)
(* unknown fields.  A field that may be left out is the set holding its    *)
(* value, or empty.  An empty string stands for every blank one.           *)
(***************************************************************************)
EXTENDS Evaluation

The(S) == CHOOSE x \in S : TRUE
OrElse(S, default) == IF S = {} THEN default ELSE The(S)
\* The positions of a sequence's elements with a property, and the first one.
FirstOf(S) == CHOOSE i \in S : \A j \in S : i <= j
\* No two elements share what f makes of them.
Distinct(seq, f(_)) == \A i, j \in DOMAIN seq : f(seq[i]) = f(seq[j]) => i = j

-----------------------------------------------------------------------------
(* Deployments.                                                            *)
(*                                                                         *)
(*   [decodes, kind, name, service, version, containers, strategy,         *)
(*    replicas, waits, dependsOn, grace]                                   *)
(* service, version, waits and dependsOn are labels and annotations; a     *)
(* container is [image, probe, preStop], an image [digest, tag].           *)

\* imageTag: a digest before a tag, and without either what Docker runs.
ImageTag(image) == OrElse(image.digest, OrElse(image.tag, "latest"))

\* extractVersion: the label, else the first image there is.
WithImage(d) == {i \in DOMAIN d.containers : d.containers[i].image # {}}
ExtractVersion(d) ==
    IF d.version # "" THEN d.version
    ELSE ImageTag(The(d.containers[FirstOf(WithImage(d))].image))
HasVersion(d) == d.version # "" \/ WithImage(d) # {}

\* convertIntOrString: a string must be a percentage.
Amounts == {"int", "percent"}
IntOrPercent(v) == [percent |-> v.form = "percent", value |-> v.value]

\* extractStrategy: RollingUpdate by default, 25% of each by default.
Quarter == [percent |-> TRUE, value |-> 25]
Converted(S) == IF S = {} THEN Quarter ELSE IntOrPercent(The(S))
ExtractStrategy(s) ==
    IF s.type = "Recreate"
    THEN [type |-> "Recreate", maxSurge |-> [percent |-> FALSE, value |-> 0],
          maxUnavailable |-> [percent |-> FALSE, value |-> 0]]
    ELSE [type |-> "RollingUpdate", maxSurge |-> Converted(s.surge),
          maxUnavailable |-> Converted(s.unavailable)]
ValidStrategy(s) ==
    \/ s.type = "Recreate"
    \/ /\ s.type \in {"", "RollingUpdate"}
       /\ \A v \in s.surge \cup s.unavailable : v.form \in Amounts

\* extractReadiness: the annotation means nothing unless it parses as true.
ExtractReadiness(d) ==
    CASE ~\E i \in DOMAIN d.containers : d.containers[i].probe -> "none"
      [] (\E i \in DOMAIN d.containers : d.containers[i].probe) /\ "true" \in d.waits -> "waits"
      [] OTHER -> "ignores"
\* extractTermination: 30 seconds by default.
Drains(d) == /\ \E i \in DOMAIN d.containers : d.containers[i].preStop
             /\ OrElse(d.grace, 30) > 0
DependsOn(d) == {name \in ToSet(d.dependsOn) : name # ""}

\* ParseDeployment and ir.NewWorkload.
ValidDeployment(d) ==
    /\ d.decodes /\ d.name # ""
    /\ HasVersion(d) /\ ExtractVersion(d) # ""
    /\ ValidStrategy(d.strategy)
    /\ OrElse(d.replicas, 1) >= 0
ParseDeployment(d) ==
    [name |-> d.name, service |-> IF d.service = "" THEN d.name ELSE d.service,
     version |-> ExtractVersion(d), strategy |-> ExtractStrategy(d.strategy),
     replicas |-> OrElse(d.replicas, 1), dependsOn |-> DependsOn(d),
     readiness |-> ExtractReadiness(d), drains |-> Drains(d)]

\* ParseAll: other kinds are passed over, one bad Deployment fails them all.
IsDeployment(d) == d.kind = "Deployment"
ValidDeployments(docs) ==
    \A i \in DOMAIN docs : IF IsDeployment(docs[i]) THEN ValidDeployment(docs[i])
                                                    ELSE docs[i].decodes
ParseAll(docs) ==
    LET deployments == SelectSeq(docs, IsDeployment)
    IN  [i \in DOMAIN deployments |-> ParseDeployment(deployments[i])]

-----------------------------------------------------------------------------
(* The schema file: [decodes, apiVersion, kind, tables], tables a sequence *)
(* of [name, columns] and those of [name, type, nullable, default].        *)

Alpha == "rolloutproof.dev/v1alpha1"
Beta == "rolloutproof.dev/v1beta1"
NameOfEntry(e) == e.name

\* ParseSchema, ir.NewTable and ir.NewSchema: names are there and no two of
\* them are the same.
ValidSchema(doc) ==
    /\ doc.decodes /\ doc.apiVersion = Alpha /\ doc.kind = "Schema"
    /\ Distinct(doc.tables, NameOfEntry)
    /\ \A t \in ToSet(doc.tables) :
          /\ t.name # "" /\ Distinct(t.columns, NameOfEntry)
          /\ \A c \in ToSet(t.columns) : c.name # "" /\ c.type # <<>>

SchemaColumns(doc) ==
    UNION {{<<ColumnRef(t.name, c.name), c>> : c \in ToSet(t.columns)} : t \in ToSet(doc.tables)}

-----------------------------------------------------------------------------
(* Contracts.                                                              *)
(*                                                                         *)
(*   [decodes, apiVersion, kind, service, version, reads, writes,          *)
(*    dependencies, api]                                                   *)
(* reads and writes are sequences of column references, each a sequence of *)
(* the parts its points separate; dependencies of [service, min]; api the  *)
(* set holding [provides, consumes], with provides a sequence of           *)
(* [contract, endpoints], those of [operation, request, response], the     *)
(* shapes of [name, required].                                             *)

\* parseColumnRefs: exactly one point.
ValidRefs(refs) == \A r \in ToSet(refs) : Len(r) = 2 /\ r[1] # "" /\ r[2] # ""
Refs(refs) == {ColumnRef(r[1], r[2]) : r \in ToSet(refs)}

\* parseFieldsBlock and NewShape: a field twice is one field, unless the two
\* contradict each other.
ValidShape(fields) ==
    \A f, g \in ToSet(fields) : f.name # "" /\ (f.name = g.name => f.required = g.required)
RequiredFields(fields) == {f.name : f \in {g \in ToSet(fields) : g.required}}
Fields(fields) == {f.name : f \in ToSet(fields)}

\* parseProvides and NewAPIContract.
OperationOf(e) == e.operation
ContractNameOf(p) == p.contract
ValidProvision(p) ==
    /\ p.contract # "" /\ Distinct(p.endpoints, OperationOf)
    /\ \A e \in ToSet(p.endpoints) :
          e.operation # "" /\ ValidShape(e.request) /\ ValidShape(e.response)
Endpoints(p) ==
    [op \in {e.operation : e \in ToSet(p.endpoints)} |->
        LET e == CHOOSE x \in ToSet(p.endpoints) : x.operation = op
        IN  [request |-> RequiredFields(e.request), response |-> Fields(e.response)]]
Provides(api) ==
    [name \in {p.contract : p \in ToSet(api.provides)} |->
        Endpoints(CHOOSE p \in ToSet(api.provides) : p.contract = name)]
ValidConsumption(c) == c.contract # "" /\ c.operation # ""
Consumes(api) ==
    {[contract |-> c.contract, operation |-> c.operation,
      sent |-> ToSet(c.sent), required |-> ToSet(c.required)] : c \in ToSet(api.consumes)}
NoApi == [provides |-> <<>>, consumes |-> <<>>]

\* Parse and ir.NewServiceWithAPI.
ValidContract(doc) ==
    /\ doc.decodes
    /\ doc.apiVersion \in {Alpha, Beta}
    /\ doc.api # {} => doc.apiVersion = Beta
    /\ doc.kind = "ServiceContract" /\ doc.service # "" /\ doc.version # ""
    /\ ValidRefs(doc.reads) /\ ValidRefs(doc.writes)
    /\ \A d \in ToSet(doc.dependencies) : d.service # ""
    /\ \A api \in doc.api : /\ \A p \in ToSet(api.provides) : ValidProvision(p)
                            /\ \A c \in ToSet(api.consumes) : ValidConsumption(c)
ContractKey(doc) == LiveVersion(doc.service, doc.version)
ParseContract(doc) ==
    ServiceContract(Refs(doc.reads), Refs(doc.writes), ToSet(doc.dependencies),
                    Provides(OrElse(doc.api, NoApi)), Consumes(OrElse(doc.api, NoApi)))
=============================================================================
