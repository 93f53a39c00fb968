---------------------------- MODULE MCDispatcher ----------------------------
(* Small instances of Dispatcher. *)
EXTENDS Dispatcher

\* The broker numbers its ConsumerUpdates from 0, as the client does its own
\* requests, so that the two kinds of id coincide.
MCServerId == [u \in Updates |-> 0]
=============================================================================
