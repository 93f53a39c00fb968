----------------------------- MODULE MCProducer -----------------------------
(* Instances of Producer for TLC.                                           *)
EXTENDS Producer

CONSTANTS m1, m2, m3, m4

MCNoBatch == {}
MCPair    == {<<m3, m4>>}
MCNoOwnId == [m \in Messages |-> NoId]

\* The second message of the pair brings an id of its own along.
MCOwnId   == [m \in Messages |-> IF m = m4 THEN 5 ELSE NoId]
=============================================================================
