---------------------------- MODULE MCSpscClients ----------------------------
(* TLC instances of SpscClients, with the assignments of MCSpsc.            *)
EXTENDS SpscClients, MCSpsc
=============================================================================
