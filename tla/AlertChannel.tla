---------------------------- MODULE AlertChannel ----------------------------
(***************************************************************************)
(* What an alert channel promises of each recorded event, whatever its     *)
(* queue, retry and crash handling: an event is open until it is settled   *)
(* once and for all, as delivered or as dropped; messages leave only while *)
(* it is open; and it is settled as delivered only when a message for it   *)
(* has really been accepted.  Delivery is at least once: an event may be   *)
(* accepted again while it is still open.                                  *)
(***************************************************************************)
EXTENDS Integers

CONSTANT Alerts   \* event ids

VARIABLES
    settled,   \* Alerts -> {"open", "delivered", "dropped"}
    messages   \* Alerts -> number of accepted messages

channelVars == <<settled, messages>>

ChannelInit ==
    /\ settled = [a \in Alerts |-> "open"]
    /\ messages = [a \in Alerts |-> 0]

Accept(a) ==
    /\ settled[a] = "open"
    /\ messages' = [messages EXCEPT ![a] = @ + 1]
    /\ UNCHANGED settled

\* One transaction may settle several events.
Settle(delivered, dropped) ==
    /\ delivered \cap dropped = {}
    /\ \A a \in delivered \cup dropped : settled[a] = "open"
    /\ \A a \in delivered : messages[a] > 0
    /\ settled' = [a \in Alerts |->
          IF a \in delivered THEN "delivered"
          ELSE IF a \in dropped THEN "dropped" ELSE settled[a]]
    /\ UNCHANGED messages

ChannelNext ==
    \/ \E a \in Alerts : Accept(a)
    \/ \E delivered, dropped \in SUBSET Alerts : Settle(delivered, dropped)

ChannelSpec == ChannelInit /\ [][ChannelNext]_channelVars
=============================================================================
