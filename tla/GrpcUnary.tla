------------------------------ MODULE GrpcUnary ------------------------------
(***************************************************************************)
(* The unary methods of a gRPC service of src/go/api/grpc.go, seen from    *)
(* its clients and from the server that registered its serviceDesc.       *)
(*                                                                         *)
(* A client method calls conn.Invoke with the FullName of a method.  The   *)
(* server routes the request by that name through serviceDesc to a         *)
(* handler.  Every handler has the same shape: decode the request (if the  *)
(* method takes one) and return the error; with no interceptor call the    *)
(* backend; otherwise hand the interceptor a UnaryServerInfo naming a      *)
(* FullMethod and a closure that calls the backend.  The interceptor here  *)
(* is a policy on FullMethod: it calls the closure for the names in        *)
(* Policy and refuses the others.                                          *)
(*                                                                         *)
(* The service is given by its tables, which a service module defines from *)
(* the code: ServiceDesc (name -> handler), Info (handler -> FullMethod    *)
(* of its UnaryServerInfo), Decodes (handlers that decode a request),      *)
(* Backend (handler -> backend method its closure calls), Client (client   *)
(* method -> FullName it invokes).  A method is named by its short name.   *)
(*                                                                         *)
(* The transport may lose a request or a response; a client call may end  *)
(* with an error (deadline, connection) while its request is still being  *)
(* served, and a late response is then discarded.                         *)
(***************************************************************************)
EXTENDS Naturals, FiniteSets

CONSTANTS
    Methods,      \* the short names of the service's unary methods
    Calls,        \* the client calls, each made once
    Bodies,       \* request encodings a client may send: "ok", "bad"
    Intercepted,  \* the server was built with a unary interceptor
    Policy,       \* the FullMethods the interceptor admits
    None,
    ServiceDesc, Info, Decodes, Backend, Client

VARIABLES
    state,     \* [Calls -> {"idle", "wait", "done"}]: the client call
    method,    \* [Calls -> Methods \cup {None}]: the client method called
    outcome,   \* [Calls -> {"ok", "denied", "error"} \cup {None}]
    net,       \* requests and responses in flight
    executed   \* the backend calls: [id, method, info]

vars == <<state, method, outcome, net, executed>>

Outcomes == {"ok", "denied", "error"}

Request(i, path, body) == [kind |-> "req", id |-> i, path |-> path, body |-> body]
Response(i, res) == [kind |-> "rsp", id |-> i, res |-> res]

TypeOK ==
    /\ state \in [Calls -> {"idle", "wait", "done"}]
    /\ method \in [Calls -> Methods \cup {None}]
    /\ outcome \in [Calls -> Outcomes \cup {None}]
    /\ net \subseteq [kind : {"req"}, id : Calls, path : Methods, body : Bodies]
                     \cup [kind : {"rsp"}, id : Calls, res : Outcomes]
    /\ executed \subseteq [id : Calls, method : Methods, info : Methods \cup {None}]

Init ==
    /\ state = [i \in Calls |-> "idle"]
    /\ method = [i \in Calls |-> None]
    /\ outcome = [i \in Calls |-> None]
    /\ net = {}
    /\ executed = {}

\* A client method: conn.Invoke(ctx, <its method>.FullName(), req, &rsp).
Invoke(i, m, b) ==
    /\ state[i] = "idle"
    /\ state' = [state EXCEPT ![i] = "wait"]
    /\ method' = [method EXCEPT ![i] = m]
    /\ net' = net \cup {Request(i, Client[m], b)}
    /\ UNCHANGED <<outcome, executed>>

\* The handler serviceDesc routes the request to, and its early returns.
\* The backend call answers "ok" or its own error.
Serve(q) ==
    /\ q \in net
    /\ q.kind = "req"
    /\ LET h == ServiceDesc[q.path]
           runs == [id |-> q.id, method |-> Backend[h],
                    info |-> IF Intercepted THEN Info[h] ELSE None]
       IN \/ /\ h \in Decodes /\ q.body = "bad"
             /\ net' = (net \ {q}) \cup {Response(q.id, "error")}
             /\ UNCHANGED executed
          \/ /\ Intercepted /\ Info[h] \notin Policy
             /\ ~(h \in Decodes /\ q.body = "bad")
             /\ net' = (net \ {q}) \cup {Response(q.id, "denied")}
             /\ UNCHANGED executed
          \/ /\ ~Intercepted \/ Info[h] \in Policy
             /\ ~(h \in Decodes /\ q.body = "bad")
             /\ \E res \in {"ok", "error"} :
                    net' = (net \ {q}) \cup {Response(q.id, res)}
             /\ executed' = executed \cup {runs}
    /\ UNCHANGED <<state, method, outcome>>

\* Invoke returns the response to the waiting client method.
Receive(r) ==
    /\ r \in net
    /\ r.kind = "rsp"
    /\ state[r.id] = "wait"
    /\ state' = [state EXCEPT ![r.id] = "done"]
    /\ outcome' = [outcome EXCEPT ![r.id] = r.res]
    /\ net' = net \ {r}
    /\ UNCHANGED <<method, executed>>

\* Invoke returns an error of its own: the deadline passed or the
\* connection failed.  Whatever is in flight for the call stays there.
ClientError(i) ==
    /\ state[i] = "wait"
    /\ state' = [state EXCEPT ![i] = "done"]
    /\ outcome' = [outcome EXCEPT ![i] = "error"]
    /\ UNCHANGED <<method, net, executed>>

\* A response for a call that already returned is dropped.
Discard(r) ==
    /\ r \in net
    /\ r.kind = "rsp"
    /\ state[r.id] = "done"
    /\ net' = net \ {r}
    /\ UNCHANGED <<state, method, outcome, executed>>

\* The transport loses a message.
Lose(x) ==
    /\ x \in net
    /\ net' = net \ {x}
    /\ UNCHANGED <<state, method, outcome, executed>>

Next ==
    \/ \E i \in Calls, m \in Methods, b \in Bodies : Invoke(i, m, b)
    \/ \E x \in net : Serve(x) \/ Receive(x) \/ Discard(x) \/ Lose(x)
    \/ \E i \in Calls : ClientError(i)

Spec == Init /\ [][Next]_vars

-----------------------------------------------------------------------------
(* Properties *)

\* An interceptor that admits only the FullMethods in Policy is obeyed: no
\* backend method outside Policy runs on behalf of any client call.  It
\* fails when a handler names another method in its UnaryServerInfo.
PolicyEnforced ==
    Intercepted => \A e \in executed : e.method \in Policy

\* Every client call behaves as UnaryCall promises: the backend runs the
\* method the client method is named after, at most once per call, only if
\* the policy admits it; "ok" is returned only after it ran, and "denied"
\* only for a method the policy refuses.  Routing by FullName through
\* serviceDesc, the handler's closure, late responses after a deadline and
\* lost messages all meet here.
Abstract == INSTANCE UnaryCall
    WITH Allowed <- IF Intercepted THEN Policy ELSE Methods,
         execs <- {<<e.id, e.method>> : e \in executed}

UnaryRefinesCall == Abstract!Spec

====
