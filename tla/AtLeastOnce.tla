---------------------------- MODULE AtLeastOnce ----------------------------
(***************************************************************************)
(* What every hop of the notification pipeline promises.  The hop takes    *)
(* responsibility for an item when it accepts it, hands it on at least     *)
(* once, and only then may forget it.  The outbox table with its publisher *)
(* (OutboxPublisher) and the Kafka consumer of the bot with its dead       *)
(* letter queue (UpdateConsumer) are two such hops.                        *)
(***************************************************************************)
CONSTANT Items

VARIABLES
    accepted,  \* items the hop is responsible for
    relayed,   \* items handed to the next hop at least once
    settled    \* items the hop has forgotten

vars == <<accepted, relayed, settled>>

Init ==
    /\ accepted = {}
    /\ relayed = {}
    /\ settled = {}

Accept(S) ==
    /\ accepted' = accepted \cup S
    /\ UNCHANGED <<relayed, settled>>

Relay(S) ==
    /\ S \subseteq accepted
    /\ relayed' = relayed \cup S
    /\ UNCHANGED <<accepted, settled>>

Settle(S) ==
    /\ S \subseteq relayed
    /\ settled' = settled \cup S
    /\ UNCHANGED <<accepted, relayed>>

Next == \E S \in SUBSET Items : Accept(S) \/ Relay(S) \/ Settle(S)

Spec == Init /\ [][Next]_vars
===========================================================================
