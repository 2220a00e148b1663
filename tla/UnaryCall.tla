------------------------------ MODULE UnaryCall ------------------------------
(***************************************************************************)
(* What a unary RPC promises: a call of method m completes once; "ok"      *)
(* means the server ran m for this call, "denied" that the server's       *)
(* policy does not admit m and nothing ran, "error" (a bad request, a     *)
(* deadline, a lost message) that m ran at most once, possibly later.     *)
(* The server runs only methods its policy admits, each call at most once.*)
(***************************************************************************)
EXTENDS Naturals

CONSTANTS Calls, Methods, Allowed, None

VARIABLES
    state,    \* [Calls -> {"idle", "wait", "done"}]
    method,   \* [Calls -> Methods \cup {None}]
    outcome,  \* [Calls -> {"ok", "denied", "error"} \cup {None}]
    execs     \* <<call, method>> the server ran

Init ==
    /\ state = [i \in Calls |-> "idle"]
    /\ method = [i \in Calls |-> None]
    /\ outcome = [i \in Calls |-> None]
    /\ execs = {}

Ran(i) == \E e \in execs : e[1] = i

Call(i, m) ==
    /\ state[i] = "idle"
    /\ state' = [state EXCEPT ![i] = "wait"]
    /\ method' = [method EXCEPT ![i] = m]
    /\ UNCHANGED <<outcome, execs>>

Execute(i) ==
    /\ state[i] # "idle"
    /\ ~Ran(i)
    /\ method[i] \in Allowed
    /\ execs' = execs \cup {<<i, method[i]>>}
    /\ UNCHANGED <<state, method, outcome>>

Complete(i, o) ==
    /\ state[i] = "wait"
    /\ o = "ok" => Ran(i)
    /\ o = "denied" => method[i] \notin Allowed
    /\ state' = [state EXCEPT ![i] = "done"]
    /\ outcome' = [outcome EXCEPT ![i] = o]
    /\ UNCHANGED <<method, execs>>

Next ==
    \E i \in Calls :
        \/ \E m \in Methods : Call(i, m)
        \/ Execute(i)
        \/ \E o \in {"ok", "denied", "error"} : Complete(i, o)

Spec == Init /\ [][Next]_<<state, method, outcome, execs>>

====
