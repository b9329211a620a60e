------------------------------- MODULE Dealer -------------------------------
(***************************************************************************)
(* What a data provider promises to the threads that share it: the values  *)
(* 1 .. size are handed out one by one and in order, each of them once     *)
(* before any of them a second time; only a provider that cycles starts    *)
(* again.                                                                  *)
(***************************************************************************)
EXTENDS Naturals

VARIABLES
    size,      \* number of values
    cycling,   \* does it start again after the last one?
    given,     \* how many values were handed out
    last       \* the last of them, 0 before the first

vars == <<size, cycling, given, last>>

Init == given = 0 /\ last = 0

Deal ==
    /\ cycling \/ last < size
    /\ given' = given + 1
    /\ last' = (last % size) + 1
    /\ UNCHANGED <<size, cycling>>

Next == Deal

Spec == Init /\ [][Next]_vars
=============================================================================
