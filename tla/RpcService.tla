----------------------------- MODULE RpcService -----------------------------
(***************************************************************************)
(* What Client::send_and_receive promises to the tasks that use it, with   *)
(* no connection, correlation id or map in sight.  A call is invoked once; *)
(* the broker executes its request at most once; an "ok" outcome carries   *)
(* the answer to THIS call, so the broker must have executed it; a         *)
(* "failed" outcome is possible only when the connection is broken, and    *)
(* says nothing about whether the broker executed the request.             *)
(***************************************************************************)
CONSTANT Calls

VARIABLES outcome,    \* what each call has come to
          executed,   \* the calls whose request the broker has executed
          broken      \* has the connection stopped working?

vars == <<outcome, executed, broken>>

Outcomes == {"idle", "pending", "ok", "failed", "abandoned"}

\* Every call has one outcome, and the broker executes calls only.
TypeOK ==
    /\ outcome \in [Calls -> Outcomes]
    /\ executed \in SUBSET Calls
    /\ broken \in BOOLEAN

Init ==
    /\ outcome = [c \in Calls |-> "idle"]
    /\ executed = {}
    /\ broken = FALSE

Become(c, from, to) ==
    /\ outcome[c] = from
    /\ outcome' = [outcome EXCEPT ![c] = to]
    /\ UNCHANGED <<executed, broken>>

Invoke(c) == Become(c, "idle", "pending")

\* The broker may execute a request whose caller has already given up.
Execute(c) ==
    /\ outcome[c] # "idle"
    /\ c \notin executed
    /\ executed' = executed \cup {c}
    /\ UNCHANGED <<outcome, broken>>

Answer(c) == c \in executed /\ Become(c, "pending", "ok")

Fail(c) == broken /\ Become(c, "pending", "failed")

\* A call that needs no answer to fail: close() on a closed channel.
Refuse(c) == broken /\ Become(c, "idle", "failed")

Abandon(c) == Become(c, "pending", "abandoned")

Break == broken' = TRUE /\ UNCHANGED <<outcome, executed>>

Next ==
    \/ \E c \in Calls : \/ Invoke(c) \/ Execute(c) \/ Answer(c)
                        \/ Fail(c) \/ Refuse(c) \/ Abandon(c)
    \/ Break

Spec == Init /\ [][Next]_vars
=============================================================================
