----------------------------- MODULE Contracts -----------------------------
(***************************************************************************)
(* What a service version declares about itself, and the catalogue of such *)
(* declarations: internal/ir/service.go.                                   *)
(*                                                                         *)
(* services is a function from the live versions that have a contract file *)
(* to what the file declares:                                              *)
(*   reads, writes   the columns                                           *)
(*   dependsOn       the services needed, [service, min]                   *)
(*   provides        the API contracts served: from a contract's name and  *)
(*                   an operation to [request, response], the fields a     *)
(*                   request must have and those a response has            *)
(*   consumes        the calls made, [contract, operation, sent, required] *)
(* A version outside its domain has no contract metadata.                  *)
(***************************************************************************)
EXTENDS Schema

ServiceContract(reads, writes, dependsOn, provides, consumes) ==
    [reads |-> reads, writes |-> writes, dependsOn |-> dependsOn,
     provides |-> provides, consumes |-> consumes]
\* A contract that declares nothing but columns.
Contract(reads, writes) == ServiceContract(reads, writes, {}, <<>>, {})
HasContract(services, lv) == lv \in DOMAIN services

ReadsColumn(svc, ref) == ref \in svc.reads
WritesColumn(svc, ref) == ref \in svc.writes
UsesColumn(svc, ref) == ReadsColumn(svc, ref) \/ WritesColumn(svc, ref)
\* Declared facts about a table exist; and they say the version writes to it.
TouchesTable(svc, table) == \E ref \in svc.reads \cup svc.writes : ref.table = table
WritesTable(svc, table) == \E ref \in svc.writes : ref.table = table
=============================================================================
