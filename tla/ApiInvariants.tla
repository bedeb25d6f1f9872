---------------------------- MODULE ApiInvariants ----------------------------
(***************************************************************************)
(* The RP-API family: internal/invariant/rpapi.go.                         *)
(*                                                                         *)
(* At every node, every call a live version declares is held against every *)
(* live version that provides the API contract it is made on.              *)
(***************************************************************************)
EXTENDS Diagnosis, Contracts

AnyAPIUsageDeclared(services) ==
    \E lv \in DOMAIN services :
        DOMAIN services[lv].provides # {} \/ services[lv].consumes # {}

\* What a call can run into at a provider: no such operation, a required
\* request field it does not send, a response without a field it needs.
Failures(provided, call) ==
    IF call.operation \notin DOMAIN provided
    THEN {"Endpoint"}
    ELSE LET shape == provided[call.operation]
         IN  {way \in {"RequestField", "ResponseField"} :
                IF way = "RequestField" THEN ~(shape.request \subseteq call.sent)
                                        ELSE ~(call.required \subseteq shape.response)}

\* Mutant: whoever declares the contract answers, live or not.
ProvidersLiveOrNot(live, services, call) ==
    {plv \in DOMAIN services : call.contract \in DOMAIN services[plv].provides}

\* The live versions that may answer a call.
Providers(live, services, call) ==
    {plv \in live : /\ HasContract(services, plv)
                    /\ call.contract \in DOMAIN services[plv].provides}

\* The calls of the live versions that have a contract, with who makes them.
Calls(live, services) ==
    UNION {{lv} \X services[lv].consumes : lv \in {v \in live : HasContract(services, v)}}

\* Mutant: a call nobody answers is no gap.
ApiFindingOfAnswered(n, services, way) ==
    Finding({c \in Calls(n.live, services) : \E plv \in Providers(n.live, services, c[2]) :
                way \in Failures(services[plv].provides[c[2].contract], c[2])},
            \E lv \in n.live : ~HasContract(services, lv))

\* The calls of a node that fail in one of these ways; the gaps are the same
\* for all three: a live version without a contract, a call nobody answers.
ApiFinding(n, services, way) ==
    LET calls == Calls(n.live, services)
    IN  Finding({c \in calls : \E plv \in Providers(n.live, services, c[2]) :
                    way \in Failures(services[plv].provides[c[2].contract], c[2])},
                \/ \E lv \in n.live : ~HasContract(services, lv)
                \/ \E c \in calls : Providers(n.live, services, c[2]) = {})

DiagnoseAPI(nodes, services, way) ==
    Diagnose({<<n, ApiFinding(n, services, way)>> : n \in nodes})

\* RP-API-004 aggregates the three.
WithAggregate(diags) == Append(diags, Dominant(diags))

\* A project that declares no API facts has nothing to check.
EvaluateAPI(nodes, services) ==
    IF AnyAPIUsageDeclared(services)
    THEN WithAggregate(<< DiagnoseAPI(nodes, services, "Endpoint"),
                          DiagnoseAPI(nodes, services, "RequestField"),
                          DiagnoseAPI(nodes, services, "ResponseField") >>)
    ELSE [i \in 1 .. 4 |-> Diagnostic("SAFE", {})]
=============================================================================
