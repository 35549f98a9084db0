----------------------- MODULE MCOutboxPublisher -----------------------
(* Instances of OutboxPublisher for TLC. *)
EXTENDS OutboxPublisher, TLC

CONSTANTS m1, m2, m3, r1, r2

\* m1 and m2 are checked at the same instant, m3 later.
MCCreatedAt == m1 :> 1 @@ m2 :> 1 @@ m3 :> 2
=========================================================================
