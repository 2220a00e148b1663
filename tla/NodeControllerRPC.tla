--------------------------- MODULE NodeControllerRPC ---------------------------
(***************************************************************************)
(* The tables of the NodeController service of src/go/api/grpc.go (lines   *)
(* 1-334), for GrpcUnary.  Each table is read off the code: the method    *)
(* descriptors, the serviceDesc routing, what each handler does, and the  *)
(* FullName each client method invokes.                                   *)
(***************************************************************************)
EXTENDS GrpcUnary

\* The methods serviceName.NewMethod declares.
NCMethods ==
    {"RequestShutdown", "WaitSync", "IsSynced", "WaitReady", "IsReady",
     "UpgradeBinary", "CancelUpgrade", "GetStatus", "AddBundle"}

\* serviceDesc.Methods: every MethodName is routed to the handler of the
\* same method.
NCServiceDesc == [m \in NCMethods |-> m]

\* The FullMethod each handler puts in its UnaryServerInfo: its own
\* method's, except handlerIsReady, which names methodIsSynced.
NCInfo == [[h \in NCMethods |-> h] EXCEPT !["IsReady"] = "IsSynced"]

\* The handlers that call dec and return its error before anything else.
NCDecodes == {"RequestShutdown", "UpgradeBinary", "CancelUpgrade", "AddBundle"}

\* The backend method each handler (and its closure) calls.
NCBackend == [h \in NCMethods |-> h]

\* Mutant of NCClient: IsReady copied from IsSynced without renaming.
NCClientIsReadyCopied == [[m \in NCMethods |-> m] EXCEPT !["IsReady"] = "IsSynced"]

\* The FullName each NodeControllerClient method passes to conn.Invoke.
NCClient == [m \in NCMethods |-> m]

====
