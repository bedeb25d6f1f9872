----------------------------- MODULE MCServices -----------------------------
(* Two services changing at once, or one beside a static one: the calls they *)
(* make, the versions they ask for, what their Deployments declare.          *)
EXTENDS Verification, MCPlans, TLC

\* The version strings of these plans; "rc" is none that can be compared.
MCOrdinalOf ==
    "v1" :> <<1>> @@ "v2" :> <<2>> @@ "v1.0" :> <<1, 0>> @@ "v1.1" :> <<1, 1>>

ApiV1 == LiveVersion("api", "v1")
WebV1 == LiveVersion("web", "v1")
WebV2 == LiveVersion("web", "v2")

\* Contracts that tell the truth, for the versions that have one.
Honest(p, actual, known) ==
    [plan |-> p, services |-> [lv \in known |-> actual[lv]], actual |-> actual]

Pair(apiTo, webTo, strategy) ==
    Plan(<<Change("api", "v1", apiTo, strategy), Change("web", "v1", webTo, Rolling)>>, <<>>)

-----------------------------------------------------------------------------
(* Calls: what api serves before and after, and what web asks of it.         *)

Serves(operation, request, response) ==
    "orders" :> (operation :> [request |-> request, response |-> response])
MCServed == {Serves("get", {"id"}, {"x", "y"}), Serves("get", {"id", "k"}, {"x", "y"}),
             Serves("get", {"id"}, {"x"}), Serves("put", {"id"}, {"x", "y"}), <<>>}
Asks(operation, sent, required) ==
    {[contract |-> "orders", operation |-> operation, sent |-> sent, required |-> required]}
MCAsked == {{}, Asks("get", {"id"}, {"x"}), Asks("get", {"id", "k"}, {"x", "y"}),
            Asks("put", {"id"}, {"y"})}

\* web v1 changes to v2, or stays.
MCCallProjects ==
    {Honest(Pair("v2", c.webTo, c.strategy),
            [lv \in {ApiV1, LiveVersion("api", "v2"), WebV1, LiveVersion("web", c.webTo)} |->
                IF lv.service = "api"
                THEN ServiceContract({}, {}, {}, c.served[lv.version], {})
                ELSE ServiceContract({}, {}, {}, <<>>, c.asked[lv.version])],
            {ApiV1, LiveVersion("api", "v2"), WebV1, LiveVersion("web", c.webTo)} \ c.silent) :
        c \in {d \in [webTo : {"v1", "v2"}, strategy : {Rolling, Recreate},
                      served : [{"v1", "v2"} -> MCServed], asked : [{"v1", "v2"} -> MCAsked],
                      silent : {{}, {ApiV1}, {WebV2}}] :
                 /\ d.strategy = Recreate => d.silent = {}
                 /\ d.webTo = "v1" => d.asked["v2"] = {} /\ d.silent # {WebV2}}}

-----------------------------------------------------------------------------
(* Dependencies: the least version each asks of the other.                   *)

Needs(service, min) == [service |-> service, min |-> min]
MCWebNeeds == {{}} \cup {{Needs("api", m)} : m \in {Unconstrained, "v1.0", "v1.1", "v2", "rc"}}
                   \cup {{Needs("db", "v1")}}
MCApiNeeds == {{}, {Needs("web", "v2")}}

MCDependencyProjects ==
    {Honest(Pair(c.apiTo, "v2", c.strategy),
            [lv \in {ApiV1, LiveVersion("api", c.apiTo), WebV1, WebV2} |->
                ServiceContract({}, {}, CASE lv = WebV1 -> c.web[1]
                                          [] lv = WebV2 -> c.web[2]
                                          [] lv = ApiV1 -> {}
                                          [] OTHER -> c.api, <<>>, {})],
            {ApiV1, LiveVersion("api", c.apiTo), WebV1, WebV2} \ c.silent) :
        c \in [apiTo : {"v2", "v1.1", "rc"}, strategy : {Rolling, Recreate},
               web : [1 .. 2 -> MCWebNeeds], api : MCApiNeeds, silent : {{}, {WebV1}}]}

-----------------------------------------------------------------------------
(* Deployments: probes, hooks and a column dropped at some point.            *)

MCDrops == {<<>>} \cup {<<Migration("m1", phase, <<DropOp("a")>>)>> : phase \in Phases}

\* Nobody uses the column: nothing but the K8s family has anything to say.
MCDeploymentProjects ==
    {Honest([base |-> BaseSchema, migrations |-> c.drop, rollback |-> {}, links |-> {},
             history |-> <<>>, unknown |-> FALSE,
             workloads |->
                << [Change("api", "v1", "v2", c.strategies[1])
                      EXCEPT !.drains = c.drains[1], !.dependsOn = c.apiOn,
                             !.readiness = c.readiness],
                   [Change("web", "v1", c.webTo, c.strategies[2])
                      EXCEPT !.drains = c.drains[2], !.dependsOn = c.webOn,
                             !.readiness = c.readiness] >>],
            [lv \in {ApiV1, LiveVersion("api", "v2"), WebV1, LiveVersion("web", c.webTo)} |->
                Contract({Col("b")}, {Col("b")})],
            {ApiV1, LiveVersion("api", "v2"), WebV1, LiveVersion("web", c.webTo)}) :
        c \in [drop : MCDrops, strategies : [1 .. 2 -> {Rolling, Recreate}],
               drains : [1 .. 2 -> BOOLEAN], apiOn : {{}, {"web"}},
               webOn : {{}, {"api"}, {"db"}}, readiness : {"none", "ignores", "waits"},
               webTo : {"v1", "v2"}]}

MCProjects == UNION {MCCallProjects, MCDependencyProjects, MCDeploymentProjects}
=============================================================================
