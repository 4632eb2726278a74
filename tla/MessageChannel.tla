--------------------------- MODULE MessageChannel ---------------------------
(***************************************************************************)
(* What the two ends of a TwoWayPipeMessageIPC may count on, and all they  *)
(* may count on: a message that is sent to an end is handed to its         *)
(* callback at most once, possibly out of order and possibly never, and    *)
(* the callback is not called once end() has returned.                     *)
(***************************************************************************)
EXTENDS Sequences

CONSTANTS End, Message

VARIABLES
    unsent,      \* the messages the program has yet to send to each end
    transit,     \* those on their way to it
    delivered,   \* those its callback was called with, in that order
    open         \* end() has not returned

channelVars == <<unsent, transit, delivered, open>>

Init ==
    /\ unsent \in [End -> SUBSET Message]
    /\ transit = [e \in End |-> {}]
    /\ delivered = [e \in End |-> <<>>]
    /\ open = [e \in End |-> TRUE]

Send(e, m) ==
    /\ m \in unsent[e]
    /\ unsent' = [unsent EXCEPT ![e] = @ \ {m}]
    /\ transit' = [transit EXCEPT ![e] = @ \cup {m}]
    /\ UNCHANGED <<delivered, open>>

Deliver(e, m) ==
    /\ open[e]
    /\ m \in transit[e]
    /\ transit' = [transit EXCEPT ![e] = @ \ {m}]
    /\ delivered' = [delivered EXCEPT ![e] = Append(@, m)]
    /\ UNCHANGED <<unsent, open>>

(* Any messages may be lost on their way, in either direction. *)
Lose ==
    /\ transit' \in [End -> SUBSET Message]
    /\ \A e \in End : transit'[e] \subseteq transit[e]
    /\ UNCHANGED <<unsent, delivered, open>>

Close(e) ==
    /\ open' = [open EXCEPT ![e] = FALSE]
    /\ UNCHANGED <<unsent, transit, delivered>>

Next ==
    \/ \E e \in End, m \in Message : Send(e, m) \/ Deliver(e, m)
    \/ Lose
    \/ \E e \in End : Close(e)

Spec == Init /\ [][Next]_channelVars
=============================================================================
