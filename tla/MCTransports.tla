--------------------------- MODULE MCTransports ---------------------------
(* An instance of Transports for TLC: every transport that main can wire. *)
EXTENDS Transports
===========================================================================
