-------------------------- MODULE MCValidationRuns --------------------------
(* Model-checking instances of ValidationRuns.                              *)
EXTENDS ValidationRuns

\* scenario lists
OneStep == <<1>>
TwoThenNone == <<2, 0>>

\* every step has a timeout, and the second one expects it
EveryStep  == {<<1, 1>>, <<1, 2>>}
SecondStep == {<<1, 2>>}
NoStep     == {}
=============================================================================
