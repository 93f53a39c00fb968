---------------------------- MODULE Subscription ----------------------------
(***************************************************************************)
(* What a Consumer promises to the application that polls it, with no      *)
(* chunk, credit, channel or waker in sight: the messages it asked for,    *)
(* each once, in the order of the log and with none left out, until it     *)
(* drops the consumer or is given None; and None only when the consumer    *)
(* has been closed or its connection has ended.                            *)
(***************************************************************************)
EXTENDS Integers, Sequences

CONSTANT Wanted       \* the offsets of the messages asked for

VARIABLES received,   \* the messages the application has been given, in order
          closed,     \* has the consumer been closed, or lost its connection?
          reader      \* "polling", "ended" by None, or "dropped"

vars == <<received, closed, reader>>

Init ==
    /\ received = <<>>
    /\ closed = FALSE
    /\ reader = "polling"

Received == {received[i] : i \in 1 .. Len(received)}

\* The next message is the first of those asked for that are still to come.
Receive(m) ==
    /\ reader = "polling"
    /\ Received = {n \in Wanted : n < m}
    /\ received' = Append(received, m)
    /\ UNCHANGED <<closed, reader>>

Close == closed' = TRUE /\ UNCHANGED <<received, reader>>

End ==
    /\ closed
    /\ reader = "polling"
    /\ reader' = "ended"
    /\ UNCHANGED <<received, closed>>

Drop ==
    /\ reader = "polling"
    /\ reader' = "dropped"
    /\ UNCHANGED <<received, closed>>

Next ==
    \/ \E m \in Wanted : Receive(m)
    \/ Close
    \/ End
    \/ Drop

Spec == Init /\ [][Next]_vars
=============================================================================
