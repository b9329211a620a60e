--------------------------- MODULE ValidationRuns ---------------------------
(***************************************************************************)
(* Validation mode with asynchronous steps: how one worker thread spends   *)
(* the runs that The Grinder gives it.                                     *)
(*                                                                         *)
(* The number of runs is computed beforehand: one for each execution of    *)
(* the scenario list and one more for each asynchronous step in it, which  *)
(* resumes the scenario after its notification.  A run that starts with    *)
(* GrinderQueue.take() either takes a token, or starts the scenario list   *)
(* again, or is given up.  Two counters of ContextLock decide.             *)
(*                                                                         *)
(* The threads around the worker are those of AsyncContext, reduced to     *)
(* what they do to the queue, to the counters and to the set of stored     *)
(* contexts.  Synchronous steps are left out: a scenario is the number of  *)
(* its blocking asynchronous steps.                                        *)
(***************************************************************************)
EXTENDS Integers, Sequences, FiniteSets

CONSTANTS
    Runs,       \* grinder.runs as configured
    Steps,      \* the scenario list: asynchronous steps of each scenario
    Timed,      \* steps, by scenario and number, with a timeout other than -1
    TimeoutOk,  \* steps, by scenario and number, that say timeout_success: True
    CanFail,    \* steps may fail
    CanBeFast   \* a notification may come before the thread is released

ASSUME RunsAssumption ==
    /\ Runs \in Nat \ {0}
    /\ Steps \in Seq(Nat)
    /\ Len(Steps) > 0
    /\ Timed \subseteq (1..Len(Steps)) \X Nat
    /\ TimeoutOk \subseteq (1..Len(Steps)) \X Nat
    /\ CanFail \in BOOLEAN
    /\ CanBeFast \in BOOLEAN

Scenario == 1..Len(Steps)

VARIABLES
    runs,       \* runs that The Grinder has still to give to the thread
    counter,    \* ContextLock.asyncRunsCounter
    waiting,    \* ContextLock.waitingContext
    queue,      \* GrinderQueue.queue
    pc,         \* control point of the worker thread
    scn, step,  \* Context.indexScenario and indexLine of the thread's context
    calls,      \* the clones stored so far: their scenario and step
    stored,     \* the clones in ContextIdentifier
    notified,   \* the clones whose notification has been received
    victim,     \* the clone that the reaper has declared timed out, or 0
    reaperDead  \* the reaper thread has died

threadVars == <<runs, pc, scn, step>>
callVars   == <<calls, stored, notified>>
reaperVars == <<victim, reaperDead>>
vars == <<threadVars, counter, waiting, queue, callVars, reaperVars>>

AbortToken       == [type |-> "abort", call |-> 0]
CallbackToken(n) == [type |-> "callback", call |-> n]
\* a Context put back into the queue, by its scenarioContinue flag
ContinueToken(n) == [type |-> "continue", call |-> n]
NextToken(n)     == [type |-> "next", call |-> n]

PC == {"idle", "poll", "decide", "wait", "recheck", "scenario", "step"}

\* The variables have their types, and tokens name clones that have been stored.
TypeOK ==
    /\ runs \in Nat
    /\ counter \in Int
    /\ waiting \in Int
    /\ pc \in PC
    /\ scn \in 0..Len(Steps)
    /\ step \in Nat
    /\ calls \in Seq(Scenario \X Nat)
    /\ stored \subseteq 1..Len(calls)
    /\ notified \subseteq 1..Len(calls)
    /\ victim \in 0..Len(calls)
    /\ reaperDead \in BOOLEAN
    /\ \A i \in 1..Len(queue) :
         /\ queue[i].type \in {"abort", "callback", "continue", "next"}
         /\ queue[i].type = "abort" \/ queue[i].call \in 1..Len(calls)

-----------------------------------------------------------------------------
StepsFrom[s \in 1..Len(Steps) + 1] ==
    IF s > Len(Steps) THEN 0 ELSE Steps[s] + StepsFrom[s + 1]

\* getAsyncStepsCount()
AsyncSteps == StepsFrom[1]

\* __manageAsyncConfiguration(): the runs that are needed when all goes well
AsyncRuns == Runs * (1 + AsyncSteps)

Init ==
    /\ runs = AsyncRuns
    /\ counter = AsyncRuns
    /\ waiting = 0
    /\ queue = <<>>
    /\ pc = "idle"
    /\ scn = 0
    /\ step = 0
    /\ calls = <<>>
    /\ stored = {}
    /\ notified = {}
    /\ victim = 0
    /\ reaperDead = FALSE

Aborts(n) == [i \in 1..n |-> AbortToken]
Put(tokens) == queue' = queue \o tokens

ScenarioOf(n) == calls[n][1]
StepOf(n) == calls[n][2]

\* decreaseAllCounters(), which also counts one run
DecreaseAllCounters ==
    /\ waiting' = waiting - 1
    /\ counter' = counter - 1

\* endAsyncScenario(): the tokens that replace the resumption of a stopped scenario.
\* Another scenario follows: its own run goes on with it, and the promised runs are
\* cancelled.  The last one: all of them are, with that of the present step.
EndTokens(n) ==
    LET after == Steps[ScenarioOf(n)] - StepOf(n) IN
    IF ScenarioOf(n) < Len(Steps)
       THEN Aborts(after) \o <<NextToken(n)>>
       ELSE Aborts(after + 1)

\* the run is over
EndRun == pc' = "idle" /\ scn' = 0 /\ step' = 0

\* the thread goes on with the context of a clone
Resume(n, at) == pc' = at /\ scn' = ScenarioOf(n) /\ step' = StepOf(n)

-----------------------------------------------------------------------------
(* GrinderQueue.take().                                                    *)

\* asyncCounterDecrease() and 500 milliseconds of sleep
Take ==
    /\ pc = "idle" /\ runs > 0
    /\ runs' = runs - 1
    /\ counter' = IF counter > 0 THEN counter - 1 ELSE counter
    /\ pc' = "poll"
    /\ UNCHANGED <<scn, step, waiting, queue, callVars, reaperVars>>

\* the token that the run has taken: processScenario() and process_callback()
UseToken ==
    LET token == Head(queue)
        n == token.call
        Consume == queue' = Tail(queue)
        Unchanged == UNCHANGED <<stored, counter, waiting>>
    IN
    /\ queue # <<>>
    /\ \/ token.type = "abort" /\ EndRun /\ Consume /\ Unchanged
       \/ token.type = "continue" /\ Resume(n, "step") /\ Consume /\ Unchanged
       \/ token.type = "next" /\ Resume(n, "scenario") /\ Consume /\ Unchanged
       \* the context has gone
       \/ token.type = "callback" /\ n \notin stored /\ EndRun /\ Consume /\ Unchanged
       \* the analysis of the notification raises ('deviceId' in __ctx), and the run dies
       \/ /\ token.type = "callback" /\ n \in stored
          /\ calls[n] \notin TimeoutOk
          /\ stored' = stored \ {n}
          /\ DecreaseAllCounters
          /\ EndRun /\ Consume
       \* a timeout was expected: endAsyncScenario()
       \/ /\ token.type = "callback" /\ n \in stored
          /\ calls[n] \in TimeoutOk
          /\ stored' = stored \ {n}
          /\ DecreaseAllCounters
          /\ EndRun
          /\ queue' = Tail(queue) \o EndTokens(n)

Poll ==
    /\ pc = "poll"
    /\ IF queue # <<>>
          THEN UseToken
          ELSE /\ pc' = "decide"
               /\ UNCHANGED <<scn, step, queue, stored, counter, waiting>>
    /\ UNCHANGED <<runs, calls, notified, reaperVars>>

\* (seeded bug) the counter of contexts is not looked at
DecideAtOnce ==
    /\ pc = "decide"
    /\ pc' = IF counter < 0 THEN "idle" ELSE "scenario"
    /\ scn' = 0 /\ step' = 0
    /\ UNCHANGED <<runs, counter, waiting, queue, callVars, reaperVars>>

\* no token: the run is given up, starts the scenario list, or waits
Decide ==
    /\ pc = "decide"
    /\ pc' = IF counter < 0 THEN "idle" ELSE IF waiting <= 0 THEN "scenario" ELSE "wait"
    /\ scn' = 0 /\ step' = 0
    /\ UNCHANGED <<runs, counter, waiting, queue, callVars, reaperVars>>

Wait ==
    /\ pc = "wait"
    /\ IF queue # <<>>
          THEN UseToken
          ELSE /\ pc' = "recheck"
               /\ UNCHANGED <<scn, step, queue, stored, counter, waiting>>
    /\ UNCHANGED <<runs, calls, notified, reaperVars>>

\* (seeded bug) the counter of contexts is not read again
RecheckNothing ==
    /\ pc = "recheck"
    /\ pc' = "wait"
    /\ UNCHANGED <<runs, scn, step, counter, waiting, queue, callVars, reaperVars>>

\* after the poll interval: the reaper may have been the last to decrease the count
Recheck ==
    /\ pc = "recheck"
    /\ IF waiting <= 0 /\ queue # <<>>
          THEN UseToken
          ELSE /\ pc' = IF waiting <= 0 THEN "scenario" ELSE "wait"
               /\ UNCHANGED <<scn, step, queue, stored, counter, waiting>>
    /\ UNCHANGED <<runs, calls, notified, reaperVars>>

-----------------------------------------------------------------------------
(* TestRunner.process(): the list of scenarios and the steps of each.      *)

\* (seeded bug) the end of the list is passed
NextScenarioTooFar ==
    /\ pc = "scenario"
    /\ step' = 0
    /\ IF scn > Len(Steps)
          THEN /\ pc' = "idle" /\ scn' = 0
          ELSE /\ pc' = "step" /\ scn' = scn + 1
    /\ UNCHANGED <<runs, counter, waiting, queue, callVars, reaperVars>>

\* getNextScenario(): also after a scenario whose context waits, because only the
\* loop over its steps is left
NextScenario ==
    /\ pc = "scenario"
    /\ step' = 0
    /\ IF scn = Len(Steps)
          THEN /\ pc' = "idle" /\ scn' = 0
          ELSE /\ pc' = "step" /\ scn' = scn + 1
    /\ UNCHANGED <<runs, counter, waiting, queue, callVars, reaperVars>>

EndOfSteps ==
    /\ pc = "step"
    /\ step = Steps[scn]
    /\ pc' = "scenario"
    /\ UNCHANGED <<runs, scn, step, counter, waiting, queue, callVars, reaperVars>>

\* an asynchronous step: its clone is stored and the thread gives it up
Release ==
    /\ pc = "step"
    /\ step < Steps[scn]
    /\ step' = step + 1
    /\ calls' = Append(calls, <<scn, step + 1>>)
    /\ stored' = stored \cup {Len(calls) + 1}
    /\ waiting' = waiting + 1
    /\ pc' = "scenario"
    /\ UNCHANGED <<runs, scn, counter, queue, notified, reaperVars>>

\* its notification came first: the thread goes on
KeepThread ==
    /\ CanBeFast
    /\ pc = "step"
    /\ step < Steps[scn]
    /\ step' = step + 1
    /\ counter' = counter - 1
    /\ UNCHANGED <<runs, pc, scn, waiting, queue, callVars, reaperVars>>

\* call_before() counts the context of a step that then fails
CountStep ==
    /\ CanFail
    /\ pc = "step" /\ step < Steps[scn]
    /\ step' = step + 1
    /\ waiting' = waiting + 1

\* the clone stays in the store, locked: a notification makes no token
StoreLocked ==
    /\ calls' = Append(calls, <<scn, step + 1>>)
    /\ stored' = stored \cup {Len(calls) + 1}
    /\ notified' = notified \cup {Len(calls) + 1}

\* manage_exception() for the steps that are left, with the present one; call_after()
\* has done it before if the implementation has answered with an error code
StepFails ==
    LET left == Steps[scn] - step IN
    /\ CountStep
    /\ \/ Put(Aborts(left)) /\ UNCHANGED callVars
       \/ Put(Aborts(left)) /\ StoreLocked
       \/ Put(Aborts(2 * left)) /\ UNCHANGED callVars
    /\ pc' = "scenario"
    /\ UNCHANGED <<runs, scn, counter, reaperVars>>

\* an exception that ends the run
StepIsFatal ==
    /\ CountStep
    /\ StoreLocked
    /\ pc' = "idle"
    /\ UNCHANGED <<runs, scn, counter, queue, reaperVars>>

\* a synchronous step fails and stops the scenario
SynchronousStepFails ==
    /\ CanFail
    /\ pc = "step"
    /\ Put(Aborts(Steps[scn] - step))
    /\ pc' = "scenario"
    /\ UNCHANGED <<runs, scn, step, counter, waiting, callVars, reaperVars>>

-----------------------------------------------------------------------------
(* The notification handlers and the reaper.                               *)

Notify(n) ==
    /\ n \in stored \ notified
    /\ notified' = notified \cup {n}
    /\ Put(<<CallbackToken(n)>>)
    /\ UNCHANGED <<threadVars, counter, waiting, calls, stored, reaperVars>>

\* endAsyncScenarioTimeout()
TimeOut(n) ==
    /\ ~reaperDead /\ victim = 0
    /\ n \in stored /\ calls[n] \in Timed
    /\ victim' = n
    /\ IF calls[n] \in TimeoutOk
          THEN Put(<<ContinueToken(n)>>)
          ELSE Put(EndTokens(n))
    /\ UNCHANGED <<threadVars, counter, waiting, callVars, reaperDead>>

\* hash[key].pop(value) and decreaseAllCounters(), or KeyError
Reap ==
    /\ victim # 0
    /\ victim' = 0
    /\ IF victim \in stored
          THEN /\ stored' = stored \ {victim}
               /\ DecreaseAllCounters
               /\ UNCHANGED reaperDead
          ELSE /\ reaperDead' = TRUE
               /\ UNCHANGED <<stored, counter, waiting>>
    /\ UNCHANGED <<threadVars, queue, calls, notified>>

-----------------------------------------------------------------------------
ThreadStep ==
    \/ Take \/ Poll \/ Decide \/ Wait \/ Recheck
    \/ NextScenario \/ EndOfSteps \/ Release \/ KeepThread
    \/ StepFails \/ StepIsFatal \/ SynchronousStepFails

Next ==
    \/ ThreadStep
    \/ \E n \in 1..Len(calls) : Notify(n) \/ TimeOut(n)
    \/ Reap

Spec == Init /\ [][Next]_vars

\* The thread goes on, and time passes; nothing obliges the service to notify.
Fairness ==
    /\ WF_vars(ThreadStep)
    /\ WF_vars(Reap)
    /\ WF_vars(\E n \in 1..Len(calls) : TimeOut(n))

FairSpec == Spec /\ Fairness

-----------------------------------------------------------------------------
(* Properties.                                                             *)

Done == pc = "idle" /\ runs = 0

\* A run only starts the scenario list again while no context waits.
NewRunWhenNobodyWaits ==
    [][pc = "scenario" /\ scn = 0 /\ scn' = 1 => stored = {}]_vars

\* The thread comes to its end, although it waits without a limit for tokens, unless
\* the reaper has died or a failed step has left its context in the count.
ThreadFinishes == <>(Done \/ reaperDead \/ waiting > Cardinality(stored))
=============================================================================
