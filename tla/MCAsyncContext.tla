--------------------------- MODULE MCAsyncContext ---------------------------
(* Model-checking instances of AsyncContext.                               *)
EXTENDS AsyncContext, TLC

CONSTANTS c1, c2, k1, k2

\* every call has an identifier of its own
OneToOne == (c1 :> k1) @@ (c2 :> k2)

\* threads of a kind are interchangeable; only for runs without liveness
ThreadSymmetry == Permutations(Worker) \cup Permutations(Handler)
=============================================================================
