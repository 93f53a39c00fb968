--------------------------- MODULE MCEnvironment ---------------------------
(* Environment on a cluster of two nodes and three connections. *)
EXTENDS Environment

TwoTunes == {[heartbeat |-> 0, frame |-> 0], [heartbeat |-> 3, frame |-> 8]}
============================================================================
