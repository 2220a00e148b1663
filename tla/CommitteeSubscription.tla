------------------------ MODULE CommitteeSubscription ------------------------
(***************************************************************************)
(* What a subscription to committee events promises its consumer: the      *)
(* channel hands over, one at a time and in order, the events published    *)
(* to the subscription, with none skipped or repeated, until the channel   *)
(* is closed; nothing is handed over after that.                           *)
(***************************************************************************)
EXTENDS Naturals, Sequences

CONSTANT Events

VARIABLES
    published,  \* events published to the subscription, in order
    delivered,  \* events the consumer received from the channel
    open        \* the channel is not closed

Init ==
    /\ published = <<>>
    /\ delivered = <<>>
    /\ open = TRUE

Publish(e) ==
    /\ published' = Append(published, e)
    /\ UNCHANGED <<delivered, open>>

\* The consumer receives the oldest event it has not received yet.
Deliver ==
    /\ open
    /\ Len(delivered) < Len(published)
    /\ delivered' = Append(delivered, published[Len(delivered) + 1])
    /\ UNCHANGED <<published, open>>

Close ==
    /\ open
    /\ open' = FALSE
    /\ UNCHANGED <<published, delivered>>

Next == (\E e \in Events : Publish(e)) \/ Deliver \/ Close

Spec == Init /\ [][Next]_<<published, delivered, open>>

====
