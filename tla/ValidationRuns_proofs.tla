------------------------ MODULE ValidationRuns_proofs ------------------------
(***************************************************************************)
(* Theorems about ValidationRuns, for any list of scenarios, any number of *)
(* executions, and any steps that fail, time out or are answered at once.  *)
(***************************************************************************)
EXTENDS ValidationRuns, FiniteSetTheorems, WellFoundedInduction, TLAPS

Token == [type : {"abort", "callback", "continue", "next"}, call : Nat]

\* A sequence of tokens for stored clones, the clones being c.
Tokens(q, c) ==
    /\ q \in Seq(Token)
    /\ \A i \in 1..Len(q) : q[i].type = "abort" \/ q[i].call \in 1..Len(c)

\* What the control points and the clones know.  The two numbers that are computed from the
\* sum of the steps, runs and counter, are not needed.
DataInv ==
    /\ pc \in PC /\ scn \in 0..Len(Steps) /\ step \in Nat
    /\ pc = "step" => scn \in Scenario /\ step <= Steps[scn]
    /\ waiting \in Int
    /\ calls \in Seq(Scenario \X Nat)
    /\ \A n \in 1..Len(calls) : StepOf(n) <= Steps[ScenarioOf(n)]
    /\ stored \subseteq 1..Len(calls)
    /\ notified \subseteq 1..Len(calls)
    /\ victim \in 0..Len(calls)
    /\ reaperDead \in BOOLEAN
    /\ Tokens(queue, calls)

\* Each stored context is counted, and while the scenario list starts again there is none.
WaitInv ==
    /\ waiting >= Cardinality(stored)
    /\ pc = "scenario" /\ scn = 0 => stored = {}

Inv == DataInv /\ WaitInv

-----------------------------------------------------------------------------
(* Lemmas about the data.                                                  *)

LEMMA StepCounts == Len(Steps) \in Nat \ {0} /\ \A s \in Scenario : Steps[s] \in Nat
  BY RunsAssumption DEF Scenario

LEMMA CallFields ==
    ASSUME DataInv, NEW n \in 1..Len(calls)
    PROVE  /\ ScenarioOf(n) \in Scenario /\ StepOf(n) \in Nat
           /\ StepOf(n) <= Steps[ScenarioOf(n)] /\ Steps[ScenarioOf(n)] \in Nat
<1>1. calls[n] \in Scenario \X Nat
  BY DEF DataInv
<1> QED
  BY <1>1, StepCounts DEF DataInv, ScenarioOf, StepOf

LEMMA AbortsAreTokens ==
    ASSUME NEW n \in Nat, NEW c
    PROVE  Tokens(Aborts(n), c)
<1>1. AbortToken \in Token /\ AbortToken.type = "abort"
  BY DEF AbortToken, Token
<1>2. Aborts(n) \in Seq(Token) /\ \A i \in 1..Len(Aborts(n)) : Aborts(n)[i] = AbortToken
  BY <1>1 DEF Aborts
<1> QED
  BY <1>1, <1>2 DEF Tokens

LEMMA TokenOfCall ==
    ASSUME NEW c \in Seq(Scenario \X Nat), NEW n \in 1..Len(c)
    PROVE  /\ Tokens(<<CallbackToken(n)>>, c) /\ Tokens(<<ContinueToken(n)>>, c)
           /\ Tokens(<<NextToken(n)>>, c)
  BY DEF Tokens, Token, CallbackToken, ContinueToken, NextToken

LEMMA JoinedTokens ==
    ASSUME NEW p, NEW q, NEW c, Tokens(p, c), Tokens(q, c)
    PROVE  Tokens(p \o q, c)
<1>1. p \o q \in Seq(Token) /\ Len(p \o q) = Len(p) + Len(q) /\ Len(p) \in Nat /\ Len(q) \in Nat
  BY DEF Tokens
<1>2. ASSUME NEW i \in 1..Len(p \o q)
      PROVE  (p \o q)[i].type = "abort" \/ (p \o q)[i].call \in 1..Len(c)
  <2>1. CASE i <= Len(p)
    <3>1. (p \o q)[i] = p[i] /\ i \in 1..Len(p)
      BY <1>1, <1>2, <2>1 DEF Tokens
    <3> QED
      BY <3>1 DEF Tokens
  <2>2. CASE i > Len(p)
    <3>1. (p \o q)[i] = q[i - Len(p)] /\ i - Len(p) \in 1..Len(q)
      BY <1>1, <1>2, <2>2 DEF Tokens
    <3> QED
      BY <3>1 DEF Tokens
  <2> QED
    BY <1>1, <2>1, <2>2
<1> QED
  BY <1>1, <1>2 DEF Tokens

LEMMA TakenTokens ==
    ASSUME NEW q, NEW c, Tokens(q, c), q # <<>>
    PROVE  /\ Tokens(Tail(q), c) /\ Head(q) \in Token
           /\ Head(q).type = "abort" \/ Head(q).call \in 1..Len(c)
<1>1. /\ Tail(q) \in Seq(Token) /\ Head(q) \in Token /\ Head(q) = q[1] /\ 1 \in 1..Len(q)
      /\ \A i \in 1..Len(Tail(q)) : Tail(q)[i] = q[i + 1] /\ i + 1 \in 1..Len(q)
  BY DEF Tokens
<1> QED
  BY <1>1 DEF Tokens

\* Tokens stay good when a clone is added.
LEMMA TokensOfMore ==
    ASSUME NEW q, NEW c \in Seq(Scenario \X Nat), NEW e \in Scenario \X Nat, Tokens(q, c)
    PROVE  Tokens(q, Append(c, e))
  BY DEF Tokens

\* endAsyncScenario()
LEMMA EndTokensAreTokens ==
    ASSUME DataInv, NEW n \in 1..Len(calls)
    PROVE  Tokens(EndTokens(n), calls)
<1> DEFINE after == Steps[ScenarioOf(n)] - StepOf(n)
<1>1. after \in Nat /\ after + 1 \in Nat
  BY CallFields
<1>2. Tokens(Aborts(after), calls) /\ Tokens(Aborts(after + 1), calls)
  BY <1>1, AbortsAreTokens
<1>3. Tokens(Aborts(after) \o <<NextToken(n)>>, calls)
  BY <1>2, TokenOfCall, JoinedTokens DEF DataInv
<1> QED
  BY <1>2, <1>3 DEF EndTokens

\* The stored contexts are finitely many.
LEMMA StoredIsFinite ==
    ASSUME DataInv PROVE IsFiniteSet(stored) /\ Cardinality(stored) \in Nat
<1>1. Len(calls) \in Nat
  BY DEF DataInv
<1>2. IsFiniteSet(1..Len(calls))
  BY <1>1, FS_Interval
<1> QED
  BY <1>2, FS_Subset, FS_CardinalityType DEF DataInv

\* A context that leaves the store is no longer counted.
LEMMA OneLess ==
    ASSUME Inv, NEW n,
           \/ stored' = stored /\ waiting' = waiting
           \/ n \in stored /\ stored' = stored \ {n} /\ waiting' = waiting - 1
    PROVE  waiting' \in Int /\ waiting' >= Cardinality(stored') /\ stored' \subseteq stored
<1>1. waiting \in Int /\ waiting >= Cardinality(stored) /\ Cardinality(stored) \in Nat
  BY StoredIsFinite DEF Inv, DataInv, WaitInv
<1>2. CASE stored' = stored /\ waiting' = waiting
  BY <1>1, <1>2
<1>3. CASE n \in stored /\ stored' = stored \ {n} /\ waiting' = waiting - 1
  <2>1. Cardinality(stored \ {n}) = Cardinality(stored) - 1
    BY <1>3, StoredIsFinite, FS_RemoveElement DEF Inv
  <2>2. Cardinality(stored') = Cardinality(stored) - 1
    BY <1>3, <2>1
  <2> QED
    BY <1>1, <1>3, <2>2
<1> QED
  BY <1>2, <1>3

-----------------------------------------------------------------------------
(* The steps.                                                              *)

\* A token is taken.
LEMMA UseTokenInv ==
    ASSUME Inv, UseToken, UNCHANGED <<calls, notified, reaperVars>>
    PROVE  Inv'
<1> USE DEF Inv
<1> DEFINE n == Head(queue).call
<1>1. /\ Tokens(Tail(queue), calls)
      /\ Head(queue).type # "abort" => n \in 1..Len(calls)
  BY TakenTokens DEF UseToken, DataInv
<1>2. Tokens(queue', calls)
  <2>1. \/ queue' = Tail(queue)
        \/ n \in stored /\ queue' = Tail(queue) \o EndTokens(n)
    BY DEF UseToken
  <2>2. ASSUME n \in stored PROVE Tokens(Tail(queue) \o EndTokens(n), calls)
    <3>1. n \in 1..Len(calls)
      BY <2>2 DEF DataInv
    <3> HIDE DEF n
    <3> QED
      BY <1>1, <3>1, EndTokensAreTokens, JoinedTokens
  <2> QED
    BY <1>1, <2>1, <2>2
<1>3. /\ pc' \in PC /\ scn' \in 0..Len(Steps) /\ step' \in Nat
      /\ pc' = "step" => scn' \in Scenario /\ step' <= Steps[scn']
      /\ ~(pc' = "scenario" /\ scn' = 0)
  <2>1. CASE EndRun
    BY <2>1, StepCounts DEF EndRun, PC
  <2>2. CASE Head(queue).type # "abort" /\ (Resume(n, "step") \/ Resume(n, "scenario"))
    <3>1. n \in 1..Len(calls)
      BY <1>1, <2>2
    <3>2. pc' \in {"step", "scenario"} /\ scn' = ScenarioOf(n) /\ step' = StepOf(n)
      BY <2>2 DEF Resume
    <3> HIDE DEF n
    <3>3. scn' \in Scenario /\ step' \in Nat /\ step' <= Steps[scn']
      BY <3>1, <3>2, CallFields
    <3> QED
      BY <3>2, <3>3, StepCounts DEF Scenario, PC
  <2> QED
    BY <2>1, <2>2 DEF UseToken
<1>4. \/ stored' = stored /\ waiting' = waiting
      \/ n \in stored /\ stored' = stored \ {n} /\ waiting' = waiting - 1
  BY DEF UseToken, DecreaseAllCounters
<1> HIDE DEF n
<1>5. waiting' \in Int /\ waiting' >= Cardinality(stored') /\ stored' \subseteq stored
  BY <1>4, OneLess
<1> QED
  BY <1>2, <1>3, <1>5 DEF DataInv, WaitInv, reaperVars, StepOf, ScenarioOf

\* A clone is added to the store; its step is step + 1 of the present scenario.
LEMMA StoreInv ==
    ASSUME Inv, pc = "step", step < Steps[scn], calls' = Append(calls, <<scn, step + 1>>)
    PROVE  /\ calls' \in Seq(Scenario \X Nat) /\ Len(calls') = Len(calls) + 1
           /\ \A n \in 1..Len(calls') : (StepOf(n) <= Steps[ScenarioOf(n)])'
           /\ \A q : Tokens(q, calls) => Tokens(q, calls')
           /\ Cardinality(stored \cup {Len(calls) + 1}) = Cardinality(stored) + 1
<1>1. /\ scn \in Scenario /\ step + 1 \in Nat /\ step + 1 <= Steps[scn]
      /\ calls \in Seq(Scenario \X Nat) /\ Len(calls) \in Nat
  BY StepCounts DEF Inv, DataInv
<1>2. <<scn, step + 1>> \in Scenario \X Nat
  BY <1>1
<1>3. calls' \in Seq(Scenario \X Nat) /\ Len(calls') = Len(calls) + 1
  BY <1>1, <1>2
<1>4. ASSUME NEW n \in 1..Len(calls') PROVE (StepOf(n) <= Steps[ScenarioOf(n)])'
  <2>1. CASE n \in 1..Len(calls)
    <3>1. calls'[n] = calls[n]
      BY <1>1, <1>2, <2>1
    <3> QED
      BY <2>1, <3>1 DEF Inv, DataInv, StepOf, ScenarioOf
  <2>2. CASE n = Len(calls) + 1
    <3>1. calls'[n] = <<scn, step + 1>>
      BY <1>1, <1>2, <2>2
    <3> QED
      BY <1>1, <3>1 DEF StepOf, ScenarioOf
  <2> QED
    BY <1>1, <1>3, <2>1, <2>2
<1>5. \A q : Tokens(q, calls) => Tokens(q, calls')
  BY <1>1, <1>2, TokensOfMore
<1>6. Len(calls) + 1 \notin stored
  BY <1>1 DEF Inv, DataInv
<1>7. Cardinality(stored \cup {Len(calls) + 1}) = Cardinality(stored) + 1
  BY <1>6, StoredIsFinite, FS_AddElement DEF Inv
<1> QED
  BY <1>3, <1>4, <1>5, <1>7

\* An asynchronous step that is released or fails.
LEMMA AsynchronousStepInv ==
    ASSUME Inv, Release \/ StepFails \/ StepIsFatal
    PROVE  Inv'
<1> USE DEF Inv
<1>1. /\ pc = "step" /\ step < Steps[scn] /\ step' = step + 1 /\ scn' = scn
      /\ waiting' = waiting + 1 /\ pc' \in {"scenario", "idle"}
      /\ UNCHANGED reaperVars
  BY DEF Release, StepFails, StepIsFatal, CountStep
<1>2. scn \in Scenario /\ scn # 0 /\ step \in Nat /\ Steps[scn] \in Nat /\ scn' \in 0..Len(Steps)
  BY <1>1, StepCounts DEF DataInv, Scenario
<1>3. /\ calls' = calls \/ calls' = Append(calls, <<scn, step + 1>>)
      /\ calls' = calls => stored' = stored /\ notified' = notified
      /\ calls' # calls => /\ stored' = stored \cup {Len(calls) + 1}
                           /\ notified' \in {notified, notified \cup {Len(calls) + 1}}
  <2>1. Append(calls, <<scn, step + 1>>) # calls
    BY <1>2 DEF DataInv
  <2> QED
    BY <2>1 DEF Release, StepFails, StepIsFatal, StoreLocked, callVars
<1>4. Tokens(queue', calls)
  <2> DEFINE left == Steps[scn] - step
  <2>1. queue' = queue \/ queue' = queue \o Aborts(left) \/ queue' = queue \o Aborts(2 * left)
    BY DEF Release, StepFails, StepIsFatal, Put
  <2>2. left \in Nat /\ 2 * left \in Nat
    BY <1>1, <1>2
  <2> HIDE DEF left
  <2>3. Tokens(queue, calls)
    BY DEF DataInv
  <2>4. Tokens(Aborts(left), calls) /\ Tokens(Aborts(2 * left), calls)
    BY <2>2, AbortsAreTokens
  <2>5. Tokens(queue \o Aborts(left), calls) /\ Tokens(queue \o Aborts(2 * left), calls)
    BY <2>3, <2>4, JoinedTokens
  <2> QED
    BY <2>1, <2>3, <2>5
<1>5. CASE calls' = calls
  <2>1. waiting' \in Int /\ waiting' >= Cardinality(stored')
    BY <1>1, <1>3, <1>5, StoredIsFinite DEF DataInv, WaitInv
  <2>2. /\ stored' = stored /\ notified' = notified /\ Tokens(queue', calls')
        /\ victim' = victim /\ reaperDead' = reaperDead
        /\ pc' \in PC /\ pc' # "step" /\ step' \in Nat /\ scn' # 0
    BY <1>1, <1>2, <1>3, <1>4, <1>5 DEF reaperVars, PC
  <2> QED
    BY <1>2, <1>5, <2>1, <2>2 DEF DataInv, WaitInv, StepOf, ScenarioOf
<1>6. CASE calls' # calls
  <2>1. calls' = Append(calls, <<scn, step + 1>>)
    BY <1>3, <1>6
  <2>2. /\ calls' \in Seq(Scenario \X Nat) /\ Len(calls') = Len(calls) + 1
        /\ \A n \in 1..Len(calls') : (StepOf(n) <= Steps[ScenarioOf(n)])'
        /\ Tokens(queue', calls')
        /\ Cardinality(stored') = Cardinality(stored) + 1
    BY <1>1, <1>3, <1>4, <1>6, <2>1, StoreInv
  <2>3. waiting' \in Int /\ waiting' >= Cardinality(stored')
    BY <1>1, <2>2, StoredIsFinite DEF DataInv, WaitInv
  <2>4. /\ stored' \subseteq 1..Len(calls') /\ notified' \subseteq 1..Len(calls')
        /\ victim' \in 0..Len(calls') /\ reaperDead' \in BOOLEAN
    <3>1. /\ Len(calls) \in Nat /\ stored \subseteq 1..Len(calls)
          /\ notified \subseteq 1..Len(calls) /\ victim \in 0..Len(calls)
          /\ victim' = victim /\ reaperDead' = reaperDead /\ reaperDead \in BOOLEAN
      BY <1>1 DEF DataInv, reaperVars
    <3>2. 1..Len(calls) \subseteq 1..Len(calls') /\ Len(calls) + 1 \in 1..Len(calls')
      BY <2>2, <3>1
    <3>3. victim \in 0..Len(calls')
      BY <2>2, <3>1
    <3> QED
      BY <1>3, <1>6, <3>1, <3>2, <3>3
  <2> QED
    BY <1>1, <1>2, <2>2, <2>3, <2>4 DEF DataInv, WaitInv, PC
<1> QED
  BY <1>5, <1>6

\* The other steps of the thread.
LEMMA ThreadStepInv == ASSUME Inv, ThreadStep PROVE Inv'
<1> USE DEF Inv
<1>1. CASE UseToken /\ (Poll \/ Wait \/ Recheck)
  BY <1>1, UseTokenInv DEF Poll, Wait, Recheck
<1>2. CASE Release \/ StepFails \/ StepIsFatal
  BY <1>2, AsynchronousStepInv
<1>3. CASE ~UseToken /\ (Poll \/ Wait)
  BY <1>3 DEF Poll, Wait, DataInv, WaitInv, PC, reaperVars, StepOf, ScenarioOf
<1>4. CASE Take
  BY <1>4 DEF Take, DataInv, WaitInv, PC, callVars, reaperVars, StepOf, ScenarioOf
<1>5. CASE Decide \/ (~UseToken /\ Recheck)
  <2>1. /\ UNCHANGED <<waiting, queue, callVars, reaperVars>>
        /\ pc' \in {"idle", "scenario", "wait"} /\ scn' \in 0..Len(Steps) /\ step' \in Nat
        /\ pc' = "scenario" => waiting <= 0
    BY <1>5, StepCounts DEF Decide, Recheck, DataInv, callVars
  <2>2. waiting <= 0 => stored = {}
    BY StoredIsFinite, FS_EmptySet DEF DataInv, WaitInv
  <2> QED
    BY <2>1, <2>2 DEF DataInv, WaitInv, PC, callVars, reaperVars, StepOf, ScenarioOf
<1>6. CASE NextScenario
  <2>1. /\ UNCHANGED <<waiting, queue, callVars, reaperVars>> /\ step' = 0
        /\ \/ pc' = "idle" /\ scn' = 0
           \/ pc' = "step" /\ scn' = scn + 1 /\ scn # Len(Steps)
    BY <1>6 DEF NextScenario
  <2>2. pc' = "step" => scn' \in Scenario /\ Steps[scn'] \in Nat
    BY <2>1, StepCounts DEF DataInv, Scenario
  <2>3. scn' \in 0..Len(Steps)
    BY <2>1, <2>2, StepCounts DEF Scenario
  <2> QED
    BY <2>1, <2>2, <2>3 DEF DataInv, WaitInv, PC, callVars, reaperVars, StepOf, ScenarioOf
<1>7. CASE EndOfSteps
  BY <1>7, StepCounts
     DEF EndOfSteps, DataInv, WaitInv, PC, callVars, reaperVars, StepOf, ScenarioOf, Scenario
<1>8. CASE KeepThread
  BY <1>8, StepCounts
     DEF KeepThread, DataInv, WaitInv, PC, callVars, reaperVars, StepOf, ScenarioOf
<1>9. CASE SynchronousStepFails
  <2>1. /\ pc = "step" /\ pc' = "scenario" /\ queue' = queue \o Aborts(Steps[scn] - step)
        /\ UNCHANGED <<scn, step, waiting, callVars, reaperVars>>
    BY <1>9 DEF SynchronousStepFails, Put
  <2>2. Steps[scn] - step \in Nat /\ scn # 0
    BY <2>1, StepCounts DEF DataInv, Scenario
  <2>3. Tokens(queue', calls)
    BY <2>1, <2>2, AbortsAreTokens, JoinedTokens DEF DataInv
  <2> QED
    BY <2>1, <2>2, <2>3 DEF DataInv, WaitInv, PC, callVars, reaperVars, StepOf, ScenarioOf
<1> QED
  BY <1>1, <1>2, <1>3, <1>4, <1>5, <1>6, <1>7, <1>8, <1>9 DEF ThreadStep

\* The notification handlers and the reaper.
LEMMA OthersInv ==
    ASSUME Inv, Reap \/ \E n \in 1..Len(calls) : Notify(n) \/ TimeOut(n)
    PROVE  Inv'
<1> USE DEF Inv
<1>1. ASSUME NEW n \in 1..Len(calls), Notify(n) PROVE Inv'
  <2>1. Tokens(queue', calls)
    BY <1>1, TokenOfCall, JoinedTokens DEF Notify, Put, DataInv
  <2> QED
    BY <1>1, <2>1 DEF Notify, DataInv, WaitInv, threadVars, reaperVars, StepOf, ScenarioOf
<1>2. ASSUME NEW n \in 1..Len(calls), TimeOut(n) PROVE Inv'
  <2>1. Tokens(queue', calls)
    BY <1>2, TokenOfCall, EndTokensAreTokens, JoinedTokens DEF TimeOut, Put, DataInv
  <2> QED
    BY <1>2, <2>1 DEF TimeOut, DataInv, WaitInv, threadVars, callVars, StepOf, ScenarioOf
<1>3. CASE Reap
  <2>1. \/ /\ victim \in stored /\ stored' = stored \ {victim} /\ waiting' = waiting - 1
           /\ reaperDead' = reaperDead
        \/ stored' = stored /\ waiting' = waiting /\ reaperDead' = TRUE
    BY <1>3 DEF Reap, DecreaseAllCounters
  <2>2. waiting' \in Int /\ waiting' >= Cardinality(stored') /\ stored' \subseteq stored
    BY <2>1, OneLess
  <2>3. victim' = 0 /\ UNCHANGED <<pc, scn, step, queue, calls, notified>>
    BY <1>3 DEF Reap, threadVars
  <2>4. victim' \in 0..Len(calls') /\ reaperDead' \in BOOLEAN /\ Tokens(queue', calls')
    <3>1. Len(calls) \in Nat /\ reaperDead \in BOOLEAN /\ Tokens(queue, calls)
      BY DEF DataInv
    <3>2. reaperDead' \in BOOLEAN
      BY <2>1, <3>1
    <3>3. victim' \in 0..Len(calls')
      BY <2>3, <3>1
    <3>4. Tokens(queue', calls')
      BY <2>3, <3>1
    <3> QED
      BY <3>2, <3>3, <3>4
  <2> QED
    BY <2>2, <2>3, <2>4 DEF DataInv, WaitInv, StepOf, ScenarioOf
<1> QED
  BY <1>1, <1>2, <1>3

LEMMA InitInv == ASSUME Init PROVE Inv
<1>1. Tokens(queue, calls) /\ calls \in Seq(Scenario \X Nat) /\ Len(calls) = 0
  BY DEF Init, Tokens
<1>2. /\ pc = "idle" /\ scn = 0 /\ step = 0 /\ waiting = 0 /\ stored = {} /\ notified = {}
      /\ victim = 0 /\ reaperDead = FALSE
  BY DEF Init
<1>3. WaitInv
  <2>1. Cardinality(stored) = 0
    BY <1>2, FS_EmptySet
  <2> QED
    BY <1>2, <2>1 DEF WaitInv
<1>4. DataInv
  <2>1. pc \in PC /\ pc # "step"
    BY <1>2 DEF PC
  <2>2. scn \in 0..Len(Steps) /\ step \in Nat /\ waiting \in Int
    BY <1>2, StepCounts
  <2>3. stored \subseteq 1..Len(calls) /\ notified \subseteq 1..Len(calls)
    BY <1>2
  <2>4. victim \in 0..Len(calls)
    BY <1>1, <1>2
  <2>5. reaperDead \in BOOLEAN
    BY <1>2
  <2>6. \A n \in 1..Len(calls) : StepOf(n) <= Steps[ScenarioOf(n)]
    BY <1>1
  <2> QED
    BY <1>1, <2>1, <2>2, <2>3, <2>4, <2>5, <2>6 DEF DataInv
<1> QED
  BY <1>3, <1>4 DEF Inv

LEMMA StepInv == Inv /\ [Next]_vars => Inv'
<1>1. Inv /\ UNCHANGED vars => Inv'
  BY DEF Inv, DataInv, WaitInv, vars, threadVars, callVars, reaperVars, StepOf, ScenarioOf
<1> QED
  BY <1>1, ThreadStepInv, OthersInv DEF Next

-----------------------------------------------------------------------------
(* The theorems.                                                           *)

\* take(): a run starts the scenario list again only while no context waits, for any list of
\* scenarios and any failures; the count is never below the number of stored contexts.
THEOREM NoPrematureRun == Spec => NewRunWhenNobodyWaits
<1>1. Inv => (pc = "scenario" /\ scn = 0 /\ scn' = 1 => stored = {})
  BY DEF Inv, WaitInv
<1> QED
  BY <1>1, InitInv, StepInv, PTL DEF Spec, NewRunWhenNobodyWaits

-----------------------------------------------------------------------------
(* The number of runs that are promised is a number: getAsyncStepsCount()  *)
(* is a recursive function.  That it exists, and what it gives, follow     *)
(* from the least number for which they would not.                         *)

LEMMA LeastNumber ==
    ASSUME NEW S \in SUBSET Nat, S # {}
    PROVE  \E m \in S : \A n \in S : m <= n
<1> DEFINE R == OpToRel(<, Nat)
<1>1. IsWellFoundedOn(R, Nat)
  BY NatLessThanWellFounded
<1>2. \A n, m \in S : n < m => <<n, m>> \in R
  BY DEF OpToRel
<1> HIDE DEF R
<1>3. PICK m \in S : \A n \in S : ~(<<n, m>> \in R)
  BY <1>1, WFMin
<1>4. \A n \in S : ~(n < m)
  BY <1>2, <1>3
<1> QED
  BY <1>3, <1>4

\* the sums of the steps of the last n scenarios
IsSum(f, n) ==
    f = [s \in Len(Steps) + 1 - n..Len(Steps) + 1 |->
            IF s > Len(Steps) THEN 0 ELSE Steps[s] + f[s + 1]]

LEMMA SumsExist == \A n \in 0..Len(Steps) : \E f : IsSum(f, n)
<1> DEFINE End == Len(Steps) + 1
           Bad == {n \in Nat : n <= Len(Steps) /\ ~\E f : IsSum(f, n)}
<1>1. Len(Steps) \in Nat
  BY RunsAssumption
<1>2. SUFFICES ASSUME Bad # {} PROVE FALSE
  BY <1>1
<1>3. PICK n \in Bad : \A k \in Bad : n <= k
  BY <1>2, LeastNumber
<1>4. n \in Nat /\ n <= Len(Steps) /\ ~\E f : IsSum(f, n)
  OBVIOUS
<1>5. CASE n = 0
  <2> DEFINE f == [s \in End..End |-> 0]
  <2>1. f = [s \in End - 0..End |-> IF s > Len(Steps) THEN 0 ELSE Steps[s] + f[s + 1]]
    BY <1>1
  <2> QED
    BY <1>4, <1>5, <2>1 DEF IsSum
<1>6. CASE n # 0
  <2>1. n - 1 \in Nat /\ n - 1 <= Len(Steps) /\ n - 1 \notin Bad
    BY <1>1, <1>3, <1>4, <1>6
  <2>2. PICK g : IsSum(g, n - 1)
    BY <2>1
  <2> DEFINE f == [s \in End - n..End |-> IF s = End - n THEN Steps[s] + g[s + 1] ELSE g[s]]
             F(s) == IF s > Len(Steps) THEN 0 ELSE Steps[s] + f[s + 1]
  <2>3. ASSUME NEW s \in End - n..End
        PROVE  f[s] = F(s)
    <3>1. s \in Int /\ End - n \in Int /\ End - n <= Len(Steps)
      BY <1>1, <1>4, <1>6
    <3>2. CASE s = End - n
      <4>1. s + 1 \in End - n..End /\ s + 1 # End - n /\ ~(s > Len(Steps))
        BY <1>1, <1>4, <1>6, <3>1, <3>2
      <4>2. f[s + 1] = g[s + 1]
        BY <4>1
      <4> QED
        BY <3>2, <4>1, <4>2
    <3>3. CASE s # End - n
      <4>1. s \in End - (n - 1)..End /\ f[s] = g[s]
        BY <1>1, <1>4, <3>1, <3>3
      <4>2. g[s] = IF s > Len(Steps) THEN 0 ELSE Steps[s] + g[s + 1]
        BY <2>2, <4>1 DEF IsSum
      <4>3. ~(s > Len(Steps)) => f[s + 1] = g[s + 1]
        <5>1. ~(s > Len(Steps)) => s + 1 \in End - n..End /\ s + 1 # End - n
          BY <1>1, <1>4, <3>1, <3>3
        <5> QED
          BY <5>1
      <4> QED
        BY <4>1, <4>2, <4>3
    <3> QED
      BY <3>2, <3>3
  <2>4. f = [s \in Len(Steps) + 1 - n..Len(Steps) + 1 |->
                IF s > Len(Steps) THEN 0 ELSE Steps[s] + f[s + 1]]
    BY <2>3
  <2> HIDE DEF f
  <2>5. IsSum(f, n)
    BY <2>4 DEF IsSum
  <2> QED
    BY <1>4, <2>5
<1> QED
  BY <1>5, <1>6

LEMMA SumIsDefined ==
    StepsFrom = [s \in 1..Len(Steps) + 1 |->
                    IF s > Len(Steps) THEN 0 ELSE Steps[s] + StepsFrom[s + 1]]
<1>1. Len(Steps) \in Nat
  BY RunsAssumption
<1>2. PICK f : IsSum(f, Len(Steps))
  BY <1>1, SumsExist
<1>3. Len(Steps) + 1 - Len(Steps) = 1
  BY <1>1
<1>4. f = [s \in 1..Len(Steps) + 1 |-> IF s > Len(Steps) THEN 0 ELSE Steps[s] + f[s + 1]]
  BY <1>2, <1>3 DEF IsSum
<1> QED
  BY <1>4 DEF StepsFrom

LEMMA PromisedRunsAreANumber == AsyncRuns \in Nat
<1> DEFINE Bad == {n \in Nat : n <= Len(Steps) /\ StepsFrom[Len(Steps) + 1 - n] \notin Nat}
<1>1. Len(Steps) \in Nat /\ \A s \in 1..Len(Steps) : Steps[s] \in Nat
  BY RunsAssumption
<1>2. Bad = {}
  <2> SUFFICES ASSUME Bad # {} PROVE FALSE
    OBVIOUS
  <2>1. PICK n \in Bad : \A k \in Bad : n <= k
    BY LeastNumber
  <2> DEFINE s == Len(Steps) + 1 - n
  <2>2. n \in Nat /\ n <= Len(Steps) /\ s \in 1..Len(Steps) + 1 /\ StepsFrom[s] \notin Nat
    BY <1>1
  <2>3. StepsFrom[s] = IF s > Len(Steps) THEN 0 ELSE Steps[s] + StepsFrom[s + 1]
    BY <2>2, SumIsDefined
  <2>4. n # 0 /\ s \in 1..Len(Steps)
    BY <1>1, <2>2, <2>3
  <2>5. n - 1 \in Nat /\ n - 1 \notin Bad /\ n - 1 <= Len(Steps)
    <3>1. n - 1 \in Nat /\ n - 1 <= Len(Steps) /\ ~(n <= n - 1)
      BY <1>1, <2>2, <2>4
    <3> HIDE DEF Bad
    <3> QED
      BY <2>1, <3>1
  <2>6. StepsFrom[s + 1] \in Nat
    <3>1. s + 1 = Len(Steps) + 1 - (n - 1)
      BY <1>1, <2>2
    <3>2. StepsFrom[Len(Steps) + 1 - (n - 1)] \in Nat
      BY <2>5
    <3> QED
      BY <3>1, <3>2
  <2> QED
    BY <1>1, <2>2, <2>3, <2>4, <2>6
<1>3. StepsFrom[1] \in Nat
  <2>1. Len(Steps) \notin Bad /\ Len(Steps) + 1 - Len(Steps) = 1
    BY <1>1, <1>2
  <2> QED
    BY <1>1, <2>1
<1> QED
  BY <1>3, RunsAssumption DEF AsyncRuns, AsyncSteps

\* The variables have their types: the tokens are for calls that have been made, and the
\* runs that The Grinder gives are never below zero.
THEOREM RunTypes == Spec => []TypeOK
<1> DEFINE Numbers == runs \in Nat /\ counter \in Int
<1>1. Init => Numbers
  BY PromisedRunsAreANumber DEF Init
<1>2. Numbers /\ [Next]_vars => Numbers'
  <2> SUFFICES ASSUME Numbers, [Next]_vars PROVE Numbers'
    OBVIOUS
  <2>1. runs' = runs \/ (runs > 0 /\ runs' = runs - 1)
    BY DEF Next, ThreadStep, Take, Poll, Decide, Wait, Recheck, NextScenario, EndOfSteps, Release,
           KeepThread, StepFails, StepIsFatal, SynchronousStepFails, Notify, TimeOut, Reap,
           threadVars, vars
  <2>2. counter' = counter \/ counter' = counter - 1
    BY DEF Next, ThreadStep, Take, Poll, Decide, Wait, Recheck, NextScenario, EndOfSteps, Release,
           KeepThread, StepFails, StepIsFatal, SynchronousStepFails, Notify, TimeOut, Reap,
           UseToken, DecreaseAllCounters, vars
  <2> QED
    BY <2>1, <2>2
<1>3. Numbers /\ Inv => TypeOK
  <2> SUFFICES ASSUME Numbers, Inv PROVE TypeOK
    OBVIOUS
  <2>1. ASSUME NEW i \in 1..Len(queue)
        PROVE  /\ queue[i].type \in {"abort", "callback", "continue", "next"}
               /\ queue[i].type = "abort" \/ queue[i].call \in 1..Len(calls)
    <3>1. queue[i] \in Token
      BY <2>1 DEF Inv, DataInv, Tokens
    <3> QED
      BY <2>1, <3>1 DEF Inv, DataInv, Tokens, Token
  <2> QED
    BY <2>1 DEF Inv, DataInv, TypeOK
<1> QED
  BY <1>1, <1>2, <1>3, InitInv, StepInv, PTL DEF Spec
=============================================================================
