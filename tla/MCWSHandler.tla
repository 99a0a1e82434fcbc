---------------------------- MODULE MCWSHandler ----------------------------
(* Instances of WSHandler for TLC: all the connections are one player's,   *)
(* since those of different players share nothing but the events.          *)
EXTENDS WSHandler

CONSTANT ann

Ann == [c \in Conns |-> ann]
=============================================================================
