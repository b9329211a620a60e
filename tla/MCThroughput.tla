---------------------------- MODULE MCThroughput ----------------------------
(* Model-checking instances of Throughput.                                  *)
EXTENDS Throughput

P(tps, count, batch) == [tps |-> tps, count |-> count, batch |-> batch]

S(method, profile, target, control, pct) ==
    [method |-> method, profile |-> profile, target |-> target,
     control |-> control, pct |-> pct]

TwoRates == <<P(1, 2, 1), P(2, 1, 1)>>

\* The profiles end by themselves or at a target, have an empty phase in the middle, and
\* come with the throttler at 0, which is read as 100 percent (all threads), and at 50 (no
\* session at all).
Several ==
    {S("RAMPING", TwoRates, -1, FALSE, 100),
     S("RAMPING", <<P(1, 2, 1), P(2, 0, 1), P(3, 1, 1)>>, -1, FALSE, 100),
     S("RAMPING", <<P(1, 0, 1)>>, -1, FALSE, 100),
     S("RYTHM", <<P(1, 4, 1)>>, 1, FALSE, 100),
     S("FLAT", <<P(1, 9, 1)>>, 1, FALSE, 100),
     S("FASTRAMPING", <<P(1, 2, 1), P(2, 2, 2)>>, 2, FALSE, 100),
     S("FASTRAMPING", <<P(1, 2, 1), P(2, 0, 1)>>, -1, FALSE, 100),
     S("DYNAMIC", <<P(1, 2, 1), P(2, 2, 1)>>, -1, FALSE, 100),
     S("RYTHM", <<P(1, 4, 1)>>, -1, TRUE, 0),
     S("RYTHM", <<P(1, 3, 1)>>, -1, TRUE, 50)}

\* one change of the rate
OneChange == {S("RAMPING", TwoRates, -1, FALSE, 100)}
=============================================================================
