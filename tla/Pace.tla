-------------------------------- MODULE Pace --------------------------------
(***************************************************************************)
(* Ramps: the strings "rate,seconds rate,seconds ..." that the cadencers   *)
(* of the metronom take, and the tokens that they give.  A rate is a       *)
(* fraction of scenarios per second.                                       *)
(***************************************************************************)
EXTENDS Integers, Sequences, SequencesExt

Methods == {"FLAT", "RYTHM", "RAMPING", "FASTRAMPING", "DYNAMIC"}

Phase(num, den, secs) == [num |-> num, den |-> den, secs |-> secs, unit |-> ""]

\* what __launchMetronom() appends when scenarios are asynchronous: 0.0001 per second
GracefulPhase(timeout) == Phase(1, 10000, timeout)

\* FLAT takes a rate and DYNAMIC the name of a file; the other methods cut the profile at its
\* commas; only FASTRAMPING knows the units m and h; a rate divides
CadencerRefused(method, profile) ==
    \/ method \notin Methods
    \/ profile.bare # (method \in {"FLAT", "DYNAMIC"})
    \/ method = "RYTHM" /\ Len(profile.phases) # 1
    \/ \E i \in DOMAIN profile.phases :
         LET phase == profile.phases[i]
         IN  \/ phase.num = 0
             \/ phase.unit \notin IF method = "FASTRAMPING" THEN {"", "m", "h"} ELSE {""}

\* RythmCadencer: ceil(duration * tps) answers
Count(phase) == (phase.secs * phase.num + phase.den - 1) \div phase.den

\* milliseconds between two answers; an interval is no longer than its phase
Interval(phase) ==
    LET gap == (1000 * phase.den) \div phase.num
    IN  IF gap > phase.secs * 1000 THEN phase.secs * 1000 ELSE gap

\* next() moves to the following phase once: a phase without answer ends the ramp, unless it
\* is the first one
PhasesGiven(phases) ==
    LET empty == {i \in 2..Len(phases) : Count(phases[i]) = 0}
    IN  IF empty = {} THEN phases
        ELSE SubSeq(phases, 1, (CHOOSE i \in empty : \A j \in empty : i <= j) - 1)

\* the intervals of the tokens of RAMPING and RYTHM, until the metronom stops
Intervals(phases) ==
    LET given == PhasesGiven(phases)
    IN  FlattenSeq([i \in DOMAIN given |->
                       [k \in 1..Count(given[i]) |-> Interval(given[i])]])
=============================================================================
