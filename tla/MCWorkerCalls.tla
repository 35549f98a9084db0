--------------------------- MODULE MCWorkerCalls ---------------------------
(* The first worker reaches the bot by another of the scrapper's addresses. *)
EXTENDS WorkerCalls

CONSTANTS w1, w2

MCAddress == [h \in Handlers |-> IF h = w1 THEN "IPv6" ELSE "IPv4"]
===========================================================================
