----------------------------- MODULE MCConsumer -----------------------------
(* Small instances of Consumer. *)
EXTENDS Consumer

\* Three chunks of two, one and two messages.
MCFirst == <<0, 2, 3, 5>>

\* A predicate that rejects a whole chunk, and one that rejects a message with
\* others after it in its chunk.
MCPassChunks == {0, 1, 3, 4}
MCPassSome   == {1, 2, 4}
=============================================================================
