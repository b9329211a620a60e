----------------------------- MODULE CallLedger -----------------------------
(***************************************************************************)
(* What the asynchronous machinery promises for each call, whatever the    *)
(* threads do: a call is registered once, its notification resumes it at   *)
(* most once, a timeout is declared at most once, and only a call that is  *)
(* still pending is answered - except that a call being timed out while    *)
(* its own thread is about to consume the notification may still be        *)
(* answered.                                                               *)
(***************************************************************************)
EXTENDS Naturals

CONSTANT Call

VARIABLES
    registered, \* calls whose context has been stored
    pending,    \* calls that wait for a notification or a timeout
    answers,    \* resumptions by a notification
    timeouts    \* declared timeouts

ledgerVars == <<registered, pending, answers, timeouts>>

Init ==
    /\ registered = {}
    /\ pending = {}
    /\ answers = [c \in Call |-> 0]
    /\ timeouts = [c \in Call |-> 0]

Register(c) ==
    /\ c \notin registered
    /\ registered' = registered \cup {c}
    /\ pending' = pending \cup {c}
    /\ UNCHANGED <<answers, timeouts>>

Answer(c) ==
    /\ c \in registered
    /\ c \in pending \/ timeouts[c] > 0
    /\ answers[c] = 0
    /\ answers' = [answers EXCEPT ![c] = 1]
    /\ pending' = pending \ {c}
    /\ UNCHANGED <<registered, timeouts>>

\* the step has failed, or the context has expired
Withdraw(c) ==
    /\ c \in pending
    /\ pending' = pending \ {c}
    /\ UNCHANGED <<registered, answers, timeouts>>

TimeOut(c) ==
    /\ c \in registered
    /\ timeouts[c] = 0
    /\ timeouts' = [timeouts EXCEPT ![c] = 1]
    /\ UNCHANGED <<registered, pending, answers>>

Next == \E c \in Call : Register(c) \/ Answer(c) \/ Withdraw(c) \/ TimeOut(c)

Spec == Init /\ [][Next]_ledgerVars
=============================================================================
