--------------------------- MODULE WatchCommittees ---------------------------
(***************************************************************************)
(* The server-streaming RPC Scheduler.WatchCommittees of                   *)
(* src/go/api/grpc.go: the server handler handlerWatchCommittees, the      *)
(* client Client.WatchCommittees with the goroutine it starts, the         *)
(* consumer of the channel it returns, the scheduler backend's            *)
(* subscription and the gRPC stream between them.                         *)
(*                                                                         *)
(* The stream is two FIFO queues: c2s carries the client's messages        *)
(* ("msg", then "eof" for CloseSend), s2c the committees and finally the   *)
(* status the handler returns.  Flow control lets at most Window           *)
(* committees be in flight.  The client's context comes from              *)
(* pubsub.NewContextSubscription, so sub.Close cancels it; gRPC then       *)
(* releases the client stream and resets the server's stream context.     *)
(* The backend subscription channel is unbounded.                         *)
(***************************************************************************)
EXTENDS Naturals, Sequences, SequencesExt

CONSTANTS
    MaxEvents,   \* committees the backend publishes, numbered in order
    Window,      \* committees the stream's flow control lets be in flight
    MaxFaults    \* connection failures

Events == 1..MaxEvents

VARIABLES
    call,          \* Client.WatchCommittees: "idle", "opened", "sent",
                   \* "returned" (ch, sub returned)
    subCtx,        \* the subscription context is cancelled (sub.Close)
    released,      \* gRPC has released the client stream
    worker,        \* its goroutine: "none", "recv", "send" or "exited" (ch closed)
    ev,            \* the committee the goroutine holds (0: none)
    handler,       \* handlerWatchCommittees: "none", "pending" (stream not yet
                   \* accepted), "recv", "subscribe", "loop", "send", "done"
    srvCtx,        \* stream.Context() of the handler is done
    c,             \* the committee the handler holds (0: none)
    c2s,           \* client to server messages
    s2c,           \* server to client messages
    backendCh,     \* committees queued in the backend subscription channel
    backendClosed, \* the backend closed that channel
    next,          \* the next committee the backend publishes
    subscribed,    \* ghost: the committees published to the subscription
    received,      \* the committees the consumer took from ch
    broken,        \* the connection has failed
    faults

vars == <<call, subCtx, released, worker, ev, handler, srvCtx, c, c2s, s2c,
          backendCh, backendClosed, next, subscribed, received, broken, faults>>

Msg == [k : {"data", "ok", "err"}, e : 0..MaxEvents]
Data(e) == [k |-> "data", e |-> e]
Trailer(ok) == [k |-> IF ok THEN "ok" ELSE "err", e |-> 0]
IsData(m) == m.k = "data"
InFlight == Len(SelectSeq(s2c, IsData))
\* The handler's status has reached the client: the stream is over.
Ended == \E i \in 1..Len(s2c) : ~IsData(s2c[i])
\* The handler holds the backend subscription (after WatchCommittees,
\* before the deferred sub.Close).
Subscribed == handler \in {"loop", "send"}

\* Variant: the stream opened with the caller's context, which the
\* subscription cannot cancel.
StreamCtxDoneParent(cancelled) == FALSE

\* The stream is opened with the context of NewContextSubscription: it is
\* done once sub.Close cancelled it.
StreamCtxDone(cancelled) == cancelled

Init ==
    /\ call = "idle"
    /\ subCtx = FALSE
    /\ released = FALSE
    /\ worker = "none"
    /\ ev = 0
    /\ handler = "none"
    /\ srvCtx = FALSE
    /\ c = 0
    /\ c2s = <<>>
    /\ s2c = <<>>
    /\ backendCh = <<>>
    /\ backendClosed = FALSE
    /\ next = 1
    /\ subscribed = <<>>
    /\ received = <<>>
    /\ broken = FALSE
    /\ faults = 0

-----------------------------------------------------------------------------
(* Client.WatchCommittees and its goroutine.                               *)

NewStream ==
    /\ call = "idle"
    /\ call' = "opened"
    /\ handler' = "pending"
    /\ UNCHANGED <<subCtx, released, worker, ev, srvCtx, c, c2s, s2c, backendCh,
                   backendClosed, next, subscribed, received, broken, faults>>

\* stream.SendMsg(nil).  serviceDesc.Streams[0] has ClientStreams false,
\* so gRPC returns nil even when the write fails because the server has
\* ended the stream or the connection failed: the message is dropped and
\* RecvMsg reports the stream's status later.  The call goes on.
SendInit ==
    /\ call = "opened"
    /\ call' = "sent"
    /\ c2s' = IF broken \/ Ended THEN c2s ELSE Append(c2s, "msg")
    /\ UNCHANGED <<subCtx, released, worker, ev, handler, srvCtx, c, s2c, backendCh,
                   backendClosed, next, subscribed, received, broken, faults>>

\* stream.CloseSend() (it returns nil, and its end of stream is lost with a
\* failed connection), then the goroutine is started and ch, sub are
\* returned.
CloseSend ==
    /\ call = "sent"
    /\ c2s' = IF broken THEN c2s ELSE Append(c2s, "eof")
    /\ call' = "returned"
    /\ worker' = "recv"
    /\ UNCHANGED <<subCtx, released, ev, handler, srvCtx, c, s2c, backendCh,
                   backendClosed, next, subscribed, received, broken, faults>>

\* Variant: io.EOF taken for a committee, as `serr != nil && serr != io.EOF`
\* would: the zero Committee is sent on ch.
WorkerRecvIgnoresEOF ==
    /\ worker = "recv"
    /\ \/ /\ s2c # <<>>
          /\ Head(s2c).k # "err"
          /\ worker' = "send"
          /\ ev' = Head(s2c).e
          /\ s2c' = Tail(s2c)
          /\ UNCHANGED released
       \/ /\ \/ s2c # <<>> /\ Head(s2c).k = "err"
             \/ StreamCtxDone(subCtx)
             \/ broken
          /\ worker' = "exited"
          /\ released' = TRUE
          /\ UNCHANGED <<ev, s2c>>
    /\ UNCHANGED <<call, subCtx, handler, srvCtx, c, c2s, backendCh,
                   backendClosed, next, subscribed, received, broken, faults>>

\* stream.RecvMsg(&ev): the next committee, or an error (the status, a
\* cancelled context, a failed connection) on which the goroutine returns
\* and closes ch.  A cancelled context races a buffered committee.
WorkerRecv ==
    /\ worker = "recv"
    /\ \/ /\ s2c # <<>>
          /\ IsData(Head(s2c))
          /\ worker' = "send"
          /\ ev' = Head(s2c).e
          /\ s2c' = Tail(s2c)
          /\ UNCHANGED released
       \/ /\ \/ s2c # <<>> /\ ~IsData(Head(s2c))
             \/ StreamCtxDone(subCtx)
             \/ broken
          /\ worker' = "exited"
          /\ released' = TRUE
          /\ UNCHANGED <<ev, s2c>>
    /\ UNCHANGED <<call, subCtx, handler, srvCtx, c, c2s, backendCh,
                   backendClosed, next, subscribed, received, broken, faults>>

\* ch <- &ev: ch is unbuffered, so this is the consumer's receive.
Deliver ==
    /\ worker = "send"
    /\ worker' = "recv"
    /\ received' = Append(received, ev)
    /\ ev' = 0
    /\ UNCHANGED <<call, subCtx, released, handler, srvCtx, c, c2s, s2c, backendCh,
                   backendClosed, next, subscribed, broken, faults>>

\* Variant: `default:` in place of `<-ctx.Done()`: a committee the consumer
\* is not ready for is dropped.
WorkerCancelledDrops ==
    /\ worker = "send"
    /\ worker' = "recv"
    /\ ev' = 0
    /\ UNCHANGED <<call, subCtx, released, handler, srvCtx, c, c2s, s2c, backendCh,
                   backendClosed, next, subscribed, received, broken, faults>>

\* case <-ctx.Done(): return.
WorkerCancelled ==
    /\ worker = "send"
    /\ StreamCtxDone(subCtx)
    /\ worker' = "exited"
    /\ ev' = 0
    /\ UNCHANGED <<call, subCtx, released, handler, srvCtx, c, c2s, s2c, backendCh,
                   backendClosed, next, subscribed, received, broken, faults>>

\* The consumer calls sub.Close: the context is cancelled, and gRPC
\* releases a stream opened with it.
CloseSub ==
    /\ call = "returned"
    /\ ~subCtx
    /\ subCtx' = TRUE
    /\ released' = (released \/ StreamCtxDone(TRUE))
    /\ UNCHANGED <<call, worker, ev, handler, srvCtx, c, c2s, s2c, backendCh,
                   backendClosed, next, subscribed, received, broken, faults>>

-----------------------------------------------------------------------------
(* handlerWatchCommittees.                                                 *)

\* The handler returns: the deferred sub.Close drops the backend
\* subscription, and gRPC sends the status unless the stream is reset.
Return(ok) ==
    /\ handler' = "done"
    /\ backendCh' = <<>>
    /\ c' = 0
    /\ s2c' = IF srvCtx THEN s2c ELSE Append(s2c, Trailer(ok))

\* The gRPC server starts the handler for the new stream, or rejects the
\* stream before it (a stream interceptor, a stream limit).
ServerStart ==
    /\ handler = "pending"
    /\ \/ /\ handler' = "recv"
          /\ UNCHANGED s2c
       \/ /\ handler' = "done"
          /\ s2c' = Append(s2c, Trailer(FALSE))
    /\ UNCHANGED <<call, subCtx, released, worker, ev, srvCtx, c, c2s, backendCh,
                   backendClosed, next, subscribed, received, broken, faults>>

\* stream.RecvMsg(nil): the client's message, or an error.
HandlerRecv ==
    /\ handler = "recv"
    /\ \/ /\ c2s # <<>>
          /\ Head(c2s) = "msg"
          /\ c2s' = Tail(c2s)
          /\ handler' = "subscribe"
          /\ UNCHANGED <<backendCh, c, s2c>>
       \/ /\ srvCtx \/ (c2s # <<>> /\ Head(c2s) = "eof")
          /\ Return(FALSE)
          /\ UNCHANGED c2s
    /\ UNCHANGED <<call, subCtx, released, worker, ev, srvCtx,
                   backendClosed, next, subscribed, received, broken, faults>>

\* srv.(Backend).WatchCommittees(ctx), which may fail.
HandlerSubscribe ==
    /\ handler = "subscribe"
    /\ \/ /\ handler' = "loop"
          /\ UNCHANGED <<backendCh, c, s2c>>
       \/ Return(FALSE)
    /\ UNCHANGED <<call, subCtx, released, worker, ev, srvCtx, c2s,
                   backendClosed, next, subscribed, received, broken, faults>>

\* The select of the loop: a committee, the closed channel (return nil)
\* or the done context (return ctx.Err()), whichever is ready.
HandlerSelect ==
    /\ handler = "loop"
    /\ \/ /\ backendCh # <<>>
          /\ c' = Head(backendCh)
          /\ backendCh' = Tail(backendCh)
          /\ handler' = "send"
          /\ UNCHANGED s2c
       \/ /\ backendCh = <<>>
          /\ backendClosed
          /\ Return(TRUE)
       \/ /\ srvCtx
          /\ Return(FALSE)
    /\ UNCHANGED <<call, subCtx, released, worker, ev, srvCtx, c2s,
                   backendClosed, next, subscribed, received, broken, faults>>

\* Variant: the handler returns nil after its first committee.
HandlerSendOnce ==
    /\ handler = "send"
    /\ \/ /\ srvCtx
          /\ Return(FALSE)
       \/ /\ ~srvCtx
          /\ InFlight < Window
          /\ handler' = "done"
          /\ backendCh' = <<>>
          /\ c' = 0
          /\ s2c' = Append(Append(s2c, Data(c)), Trailer(TRUE))
    /\ UNCHANGED <<call, subCtx, released, worker, ev, srvCtx, c2s,
                   backendClosed, next, subscribed, received, broken, faults>>

\* stream.SendMsg(c): blocks while the window is full, fails once the
\* stream's context is done.
HandlerSend ==
    /\ handler = "send"
    /\ \/ /\ srvCtx
          /\ Return(FALSE)
       \/ /\ ~srvCtx
          /\ InFlight < Window
          /\ s2c' = Append(s2c, Data(c))
          /\ handler' = "loop"
          /\ c' = 0
          /\ UNCHANGED backendCh
    /\ UNCHANGED <<call, subCtx, released, worker, ev, srvCtx, c2s,
                   backendClosed, next, subscribed, received, broken, faults>>

-----------------------------------------------------------------------------
(* The backend and the transport.                                          *)

\* The scheduler publishes the next committee; a subscription that is open
\* queues it.
Publish ==
    /\ next <= MaxEvents
    /\ next' = next + 1
    /\ IF Subscribed
         THEN /\ backendCh' = Append(backendCh, next)
              /\ subscribed' = Append(subscribed, next)
         ELSE UNCHANGED <<backendCh, subscribed>>
    /\ UNCHANGED <<call, subCtx, released, worker, ev, handler, srvCtx, c, c2s, s2c,
                   backendClosed, received, broken, faults>>

BackendClose ==
    /\ Subscribed
    /\ ~backendClosed
    /\ backendClosed' = TRUE
    /\ UNCHANGED <<call, subCtx, released, worker, ev, handler, srvCtx, c, c2s, s2c,
                   backendCh, next, subscribed, received, broken, faults>>

\* The client's cancelled context reaches the server as RST_STREAM.
ResetReachesServer ==
    /\ StreamCtxDone(subCtx)
    /\ ~broken
    /\ handler \notin {"none", "pending", "done"}
    /\ ~srvCtx
    /\ srvCtx' = TRUE
    /\ UNCHANGED <<call, subCtx, released, worker, ev, handler, c, c2s, s2c,
                   backendCh, backendClosed, next, subscribed, received, broken, faults>>

\* The connection fails: messages in flight are lost, the client stream is
\* finished with an error and the handler's context is done.
Break ==
    /\ faults < MaxFaults
    /\ ~broken
    /\ call # "idle"
    /\ broken' = TRUE
    /\ faults' = faults + 1
    /\ c2s' = <<>>
    /\ s2c' = <<>>
    /\ released' = TRUE
    /\ srvCtx' = (handler \notin {"none", "pending", "done"})
    /\ handler' = IF handler = "pending" THEN "done" ELSE handler
    /\ UNCHANGED <<call, subCtx, worker, ev, c, backendCh, backendClosed, next,
                   subscribed, received>>

Next ==
    \/ NewStream \/ SendInit \/ CloseSend
    \/ WorkerRecv \/ Deliver \/ WorkerCancelled \/ CloseSub
    \/ ServerStart \/ HandlerRecv \/ HandlerSubscribe \/ HandlerSelect \/ HandlerSend
    \/ Publish \/ BackendClose \/ ResetReachesServer \/ Break

\* Goroutines that can run do run, and the transport delivers the reset.
\* The caller, the consumer, the backend and failures are not fair.
Fairness ==
    /\ WF_vars(SendInit) /\ WF_vars(CloseSend)
    /\ WF_vars(WorkerRecv) /\ WF_vars(WorkerCancelled)
    /\ WF_vars(ServerStart) /\ WF_vars(HandlerRecv) /\ WF_vars(HandlerSubscribe)
    /\ WF_vars(HandlerSelect) /\ WF_vars(HandlerSend)
    /\ WF_vars(ResetReachesServer)

Spec == Init /\ [][Next]_vars /\ Fairness

-----------------------------------------------------------------------------
(* Properties.                                                             *)

TypeOK ==
    /\ call \in {"idle", "opened", "sent", "returned"}
    /\ worker \in {"none", "recv", "send", "exited"}
    /\ handler \in {"none", "pending", "recv", "subscribe", "loop", "send", "done"}
    /\ ev \in 0..MaxEvents /\ c \in 0..MaxEvents
    /\ c2s \in Seq({"msg", "eof"}) /\ s2c \in Seq(Msg)
    /\ backendCh \in Seq(Events) /\ subscribed \in Seq(Events)
    /\ received \in Seq(Events)
    /\ {subCtx, released, srvCtx, backendClosed, broken} \subseteq BOOLEAN
    /\ next \in 1..MaxEvents + 1 /\ faults \in 0..MaxFaults

Sub == INSTANCE CommitteeSubscription
           WITH published <- subscribed, delivered <- received,
                open <- (worker # "exited")

\* The channel returned by Client.WatchCommittees hands the consumer the
\* committees published to the server's subscription in order, none lost
\* or repeated, across the backend channel, the handler's loop, the stream
\* and the goroutine's unbuffered send, and nothing after ch is closed.
WatchRefinesSubscription == Sub!Spec

\* After the consumer calls sub.Close, the goroutine exits and closes ch,
\* the server handler returns and drops its backend subscription, and the
\* client stream is released: no goroutine, subscription or stream leaks.
CancelReleases ==
    subCtx ~> /\ worker \in {"none", "exited"}
              /\ handler \in {"none", "done"}
              /\ released

\* A consumer that keeps reading ch (weak fairness of its receive, which
\* the code cannot promise and so is the antecedent here) receives every
\* committee published to the subscription, unless it closed the
\* subscription or the connection failed: the handler's flow-controlled
\* SendMsg and the goroutine's RecvMsg loop never strand a committee.
AllDelivered ==
    WF_vars(Deliver) =>
        \A n \in Events :
            Len(subscribed) >= n ~> (Len(received) >= n \/ subCtx \/ broken)

====
