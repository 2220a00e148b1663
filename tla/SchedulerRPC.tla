----------------------------- MODULE SchedulerRPC -----------------------------
(***************************************************************************)
(* The tables of the unary methods of the Scheduler service of            *)
(* src/go/api/grpc.go (lines 375-600), for GrpcUnary.  WatchCommittees,   *)
(* the service's stream, is WatchCommittees.tla.                          *)
(***************************************************************************)
EXTENDS GrpcUnary

\* The unary methods serviceName.NewMethod declares.
SchedMethods ==
    {"GetValidators", "GetCommittees", "StateToGenesis", "ConsensusParameters"}

\* serviceDesc.Methods: every MethodName routed to its own handler.
SchedServiceDesc == [m \in SchedMethods |-> m]

\* Mutant of SchedInfo: handlerGetCommittees copied from
\* handlerGetValidators without renaming the FullMethod.
SchedInfoCopied ==
    [[h \in SchedMethods |-> h] EXCEPT !["GetCommittees"] = "GetValidators"]

\* The FullMethod each handler puts in its UnaryServerInfo.
SchedInfo == [h \in SchedMethods |-> h]

\* Every unary handler decodes its request first.
SchedDecodes == SchedMethods

\* The backend method each handler (and its closure) calls.
SchedBackend == [h \in SchedMethods |-> h]

\* Mutant of SchedClient: a misspelt method name no handler is registered for.
SchedClientTypo ==
    [[m \in SchedMethods |-> m] EXCEPT !["GetCommittees"] = "GetCommittee"]

\* The FullName each Client method passes to conn.Invoke.
SchedClient == [m \in SchedMethods |-> m]

====
