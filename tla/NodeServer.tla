------------------------------ MODULE NodeServer ------------------------------
(***************************************************************************)
(* One gRPC server with both services of src/go/api/grpc.go registered     *)
(* (each RegisterService adds its serviceDesc to the server, lines 269-272 *)
(* and 554-556).  The server routes a request by its full method name;    *)
(* the two services' method names are disjoint, so their tables join.     *)
(***************************************************************************)
EXTENDS NodeControllerRPC, SchedulerRPC, TLC

ServerMethods == NCMethods \cup SchedMethods

ServerDesc == NCServiceDesc @@ SchedServiceDesc

ServerInfo == NCInfo @@ SchedInfo

ServerDecodes == NCDecodes \cup SchedDecodes

ServerBackend == NCBackend @@ SchedBackend

ServerClient == NCClient @@ SchedClient

====
