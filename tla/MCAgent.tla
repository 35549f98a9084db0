------------------------------ MODULE MCAgent ------------------------------
(* Instances of Agent for TLC. *)
EXTENDS Agent

\* One record of every kind; what is published is at both ends.
OneOfEach ==
    [o \in Offsets |-> CASE o = 1 -> "long" [] o = 2 -> "garbled"
                         [] o = 3 -> "filtered" [] OTHER -> "short"]

\* The URL of the summarizer is mended after the first restart.
Mended ==
    [s \in 1 .. MaxFaults + 1 |-> CASE s = 1 -> "misconfigured" [] s = 2 -> "stub"
                                    [] OTHER -> "remote"]
============================================================================
