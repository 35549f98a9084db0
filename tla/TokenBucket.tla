---------------------------- MODULE TokenBucket ----------------------------
(***************************************************************************)
(* What a limiter of requests per address promises: every address has a    *)
(* bucket of Burst tokens that Rate tokens flow into with every tick; a    *)
(* request is allowed if and only if the bucket of its address has a token *)
(* for it, and takes the token.                                            *)
(***************************************************************************)
EXTENDS Naturals

CONSTANTS Handlers, Address, Rate, Burst

VARIABLES level,    \* the tokens in the bucket of an address
          verdict   \* what the request of a caller was told

vars == <<level, verdict>>

Init == /\ level = [a \in {Address[c] : c \in Handlers} |-> Burst]
        /\ verdict = [c \in Handlers |-> "none"]

Tick == /\ level' = [a \in DOMAIN level |->
                       IF level[a] + Rate < Burst THEN level[a] + Rate ELSE Burst]
        /\ UNCHANGED verdict

Decide(c) ==
    /\ verdict[c] = "none"
    /\ LET a == Address[c]
       IN \/ /\ level[a] > 0
             /\ level' = [level EXCEPT ![a] = @ - 1]
             /\ verdict' = [verdict EXCEPT ![c] = "allowed"]
          \/ /\ level[a] = 0
             /\ verdict' = [verdict EXCEPT ![c] = "refused"]
             /\ UNCHANGED level

Leave(c) == /\ verdict[c] # "none"
            /\ verdict' = [verdict EXCEPT ![c] = "none"]
            /\ UNCHANGED level

Next == Tick \/ \E c \in Handlers : Decide(c) \/ Leave(c)

Spec == Init /\ [][Next]_vars
===========================================================================
