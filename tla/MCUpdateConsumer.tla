------------------------- MODULE MCUpdateConsumer -------------------------
(* Instances of UpdateConsumer for TLC. *)
EXTENDS UpdateConsumer

AllGood == [o \in Offsets |-> "good"]

\* Two good records, then one of each kind that is not handled.
Mixed == [o \in Offsets |->
             IF o = 3 THEN "garbled" ELSE IF o = 4 THEN "invalid" ELSE "good"]

\* The second chat never takes the second record.
SecondIsBlocked == {<<2, 2>>}
===========================================================================
