--------------------------- MODULE MCScheduler ---------------------------
(* Instances of Scheduler for TLC. *)
EXTENDS Scheduler, TLC

CONSTANTS c1, c2, s1, s2, e1, e2

AllGitHub == [l \in Links |-> "github"]
AllStackOverflow == [l \in Links |-> "stackoverflow"]
===========================================================================
