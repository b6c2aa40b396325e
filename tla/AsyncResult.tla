---------------------------- MODULE AsyncResult -----------------------------
(***************************************************************************)
(* What a try of writeAsync or readAsync promises, and through them write  *)
(* and read: a future, and a callback that is part of completing it.       *)
(* Either the callback is called, once, and the future then reports how    *)
(* that went, or the future reports a failure and the callback is never    *)
(* called. A future that has a value keeps it.                             *)
(***************************************************************************)
EXTENDS Naturals

CONSTANT Tries

VARIABLES
    future, \* none before the try, pending, then its value
    calls   \* how often the callback was called

vars == <<future, calls>>

\* A reply arrived; the callback threw on it.
Answers  == {"ok", "operation_canceled"}

\* The try expired, was not sent, or found no transaction ID.
Failures == {"timed_out", "send_error", "no_id"}

Init ==
    /\ future = [a \in Tries |-> "none"]
    /\ calls = [a \in Tries |-> 0]

Begin(a) ==
    /\ future[a] = "none"
    /\ future' = [future EXCEPT ![a] = "pending"]
    /\ UNCHANGED calls

Call(a) ==
    /\ future[a] = "pending" /\ calls[a] = 0
    /\ calls' = [calls EXCEPT ![a] = 1]
    /\ UNCHANGED future

Answer(a, v) ==
    /\ future[a] = "pending" /\ calls[a] = 1
    /\ future' = [future EXCEPT ![a] = v]
    /\ UNCHANGED calls

Fail(a, v) ==
    /\ future[a] = "pending" /\ calls[a] = 0
    /\ future' = [future EXCEPT ![a] = v]
    /\ UNCHANGED calls

Next ==
    \E a \in Tries :
        \/ Begin(a) \/ Call(a)
        \/ \E v \in Answers : Answer(a, v)
        \/ \E v \in Failures : Fail(a, v)

Spec == Init /\ [][Next]_vars

=============================================================================
