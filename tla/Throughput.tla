----------------------------- MODULE Throughput -----------------------------
(***************************************************************************)
(* Throughput mode: the threads of a process meet, the producer thread of  *)
(* the Metronom paces them with tokens, and poisons them at the end.       *)
(*                                                                         *)
(* The producer asks its cadencer for the interval before the next token,  *)
(* clears the queue when the rate changes, and stops at the end of the     *)
(* profile or at the number of runs that was asked for.  The same queue    *)
(* carries the tokens of notifications.  An optional throttler clears it   *)
(* when too many threads are in a session.                                 *)
(*                                                                         *)
(* Queue.get() holds the mutex of the queue between its test that there is *)
(* a token and its pop; put() needs this mutex, clear() goes around it.    *)
(*                                                                         *)
(* A phase of a profile is the rate that it reports, the number of answers *)
(* that the cadencer gives for it (tokens, or batches of tokens), and the  *)
(* size of a batch.  Sleeps are left out, since every step may be late.    *)
(***************************************************************************)
EXTENDS Integers, Sequences, FiniteSets

CONSTANTS
    Threads,    \* the worker threads that The Grinder starts
    First,      \* the thread with the number 0
    NumberOfThreads,    \* Configuration.numberOfThreads: grinder.threads as configured
    Setups,     \* configurations that the process may have
    MaxAsync    \* bound on tokens put by notifications, timeouts and failures

Methods == {"FLAT", "RYTHM", "RAMPING", "FASTRAMPING", "DYNAMIC"}

Phase == [tps : Nat \ {0}, count : Nat, batch : Nat \ {0}]

Setup == [method : Methods, profile : Seq(Phase), target : Int,
          control : BOOLEAN, pct : Int]

ASSUME ThroughputAssumption ==
    /\ IsFiniteSet(Threads) /\ First \in Threads
    \* manageThroughput() only raises the threads that The Grinder starts
    /\ NumberOfThreads \in 1..Cardinality(Threads)
    /\ Setups \subseteq Setup
    /\ \A s \in Setups :
         /\ Len(s.profile) > 0
         /\ s.method \in {"FLAT", "RYTHM"} => Len(s.profile) = 1
         \* FLAT has no end of its own
         /\ s.method = "FLAT" => s.target \in 1..s.profile[1].count - 1
         \* DYNAMIC answers at least once more after it has read its file again
         /\ s.method = "DYNAMIC" =>
              \A i \in 2..Len(s.profile) : s.profile[i].count >= 2
         \* "Number of threshold thread cannot be above number of grinder threads"
         /\ s.control => s.pct < 200
    /\ MaxAsync \in Nat

VARIABLES
    setup,          \* the configuration, which never changes
    threadCount,    \* TestRunner.thread_count
    event,          \* TestRunner.event is set
    pc,             \* control point of each worker thread
    token,          \* TestRunner.token of each thread
    activeSession,  \* TestRunner.activeSession
    queue,          \* GrinderQueue.queue
    producer,       \* control point of the producer
    phase, left,    \* the cadencer: current phase, answers that it still has
    inc, oldTps,    \* __Producer._inc and old_tps
    toPut,          \* tokens of the present answer, poison that is still to be put
    produced,       \* history: pace tokens put into the queue
    asyncTokens     \* history: tokens put by others

workerVars   == <<pc, token>>
meetingVars  == <<threadCount, event>>
cadencerVars == <<phase, left>>
paceVars     == <<inc, oldTps, toPut, produced>>
vars == <<setup, meetingVars, workerVars, activeSession, queue, producer,
          cadencerVars, paceVars, asyncTokens>>

NoToken == [type |-> "none", tps |-> 0]
PaceToken(tps) == [type |-> "pace", tps |-> tps]
PoisonToken    == [type |-> "poison", tps |-> 0]
\* AsyncContextToken, SMPPToken or Context; AbortRunToken
ContextToken   == [type |-> "context", tps |-> 0]
AbortToken     == [type |-> "abort", tps |-> 0]

Tokens == {ContextToken, AbortToken, PoisonToken} \cup [type : {"pace"}, tps : Nat]

WorkerPC == {"start", "counted", "meeting", "idle", "pop", "enter", "throttled",
             "session", "leave", "stopped"}
ProducerPC == {"new", "first", "loop", "put", "clear", "poison", "done", "dead"}

TypeOK ==
    /\ setup \in Setups
    /\ threadCount \in Nat
    /\ event \in BOOLEAN
    /\ pc \in [Threads -> WorkerPC]
    /\ token \in [Threads -> Tokens \cup {NoToken}]
    /\ activeSession \in Nat
    /\ queue \in Seq(Tokens)
    /\ producer \in ProducerPC
    /\ phase \in 1..Len(setup.profile) + 1
    /\ left \in Nat
    /\ inc \in Nat
    /\ oldTps \in Nat
    /\ toPut \in Nat
    /\ produced \in Nat
    /\ asyncTokens \in 0..MaxAsync

Init ==
    /\ setup \in Setups
    /\ threadCount = 0
    /\ event = FALSE
    /\ pc = [w \in Threads |-> "start"]
    /\ token = [w \in Threads |-> NoToken]
    /\ activeSession = 0
    /\ queue = <<>>
    /\ producer = "new"
    /\ phase = 1
    /\ left = setup.profile[1].count
    /\ inc = 0
    /\ oldTps = 0
    /\ toPut = 0
    /\ produced = 0
    /\ asyncTokens = 0

\* Queue.mutex is taken by a thread that has seen a token
MutexFree == \A w \in Threads : pc[w] # "pop"

Put(t) == MutexFree /\ queue' = Append(queue, t)

\* queue.queue.clear(): on the deque itself, without the mutex
Clear == queue' = <<>>

Goto(w, at) == pc' = [pc EXCEPT ![w] = at]

-----------------------------------------------------------------------------
(* The meeting point, TestRunner.__synchronize().                          *)

\* under the condition variable
Count(w) ==
    /\ pc[w] = "start"
    /\ threadCount' = threadCount + 1
    /\ Goto(w, "counted")
    /\ UNCHANGED <<setup, event, token, activeSession, queue, producer, cadencerVars,
                   paceVars, asyncTokens>>

\* (seeded bug) the last thread is not waited for
CheckTooEarly(w) ==
    /\ pc[w] = "counted"
    /\ event' = (event \/ threadCount >= NumberOfThreads - 1)
    /\ Goto(w, "meeting")
    /\ UNCHANGED <<setup, threadCount, token, activeSession, queue, producer,
                   cadencerVars, paceVars, asyncTokens>>

\* outside of it
CheckCount(w) ==
    /\ pc[w] = "counted"
    /\ event' = (event \/ threadCount = NumberOfThreads)
    /\ Goto(w, "meeting")
    /\ UNCHANGED <<setup, threadCount, token, activeSession, queue, producer,
                   cadencerVars, paceVars, asyncTokens>>

\* thread 0 starts the producer
Meet(w) ==
    /\ pc[w] = "meeting" /\ event
    /\ Goto(w, "idle")
    /\ producer' = IF w = First THEN "first" ELSE producer
    /\ UNCHANGED <<setup, meetingVars, token, activeSession, queue, cadencerVars,
                   paceVars, asyncTokens>>

-----------------------------------------------------------------------------
(* The cadencer.                                                           *)

Phases == setup.profile

InPhase == phase <= Len(Phases) /\ left > 0
NextPhaseAnswers == phase < Len(Phases) /\ left = 0 /\ Phases[phase + 1].count > 0

\* next() answers for this phase or, when it is used up, for the following one
Answers == InPhase \/ NextPhaseAnswers

\* the phase of the answer: one step on whenever this one is used up
PhaseNow == IF left > 0 \/ phase > Len(Phases) THEN phase ELSE phase + 1

\* next() or the use of its answer raises: DYNAMIC answers its stop without a rate,
\* FASTRAMPING answers None for an empty phase, and both ramps read beyond their end
CadencerRaises ==
    /\ ~Answers
    /\ \/ setup.method = "DYNAMIC"
       \/ setup.method = "FASTRAMPING" /\ phase < Len(Phases)
       \/ setup.method \in {"RAMPING", "FASTRAMPING"} /\ phase > Len(Phases)

CadencerStops == ~Answers /\ ~CadencerRaises

NextInterval ==
    /\ phase' = PhaseNow
    /\ left' = IF InPhase THEN left - 1
               ELSE IF NextPhaseAnswers THEN Phases[phase + 1].count - 1 ELSE 0

\* what next() says about the rate: FLAT and DYNAMIC say whether it has changed
ReportedTps ==
    IF setup.method \in {"FLAT", "DYNAMIC"}
       THEN IF NextPhaseAnswers /\ Phases[phase + 1].tps # Phases[phase].tps THEN 1 ELSE 0
       ELSE Phases[PhaseNow].tps

\* getIncrement(), also of the token that says stop
Increment == IF Answers THEN Phases[PhaseNow].batch ELSE 1

-----------------------------------------------------------------------------
(* The producer.                                                           *)

Unlimited == 999999999

Target == IF setup.target = -1 THEN Unlimited ELSE setup.target

\* an exception ends the thread: run() does not come to __stopAll()
ProducerDies ==
    /\ producer \in {"first", "loop"}
    /\ producer = "loop" => inc <= Target
    /\ CadencerRaises
    /\ producer' = "dead"
    /\ UNCHANGED <<setup, meetingVars, workerVars, activeSession, queue, cadencerVars,
                   paceVars, asyncTokens>>

\* (seeded bug) the first answer is not counted
FirstUncounted ==
    /\ producer = "first"
    /\ ~CadencerRaises
    /\ NextInterval
    /\ producer' = "loop"
    /\ UNCHANGED <<setup, meetingVars, workerVars, activeSession, queue, paceVars, asyncTokens>>

\* the first answer only sets the rate of the reporter; it is counted
FirstInterval ==
    /\ producer = "first"
    /\ ~CadencerRaises
    /\ NextInterval
    /\ inc' = inc + Increment
    /\ producer' = "loop"
    /\ UNCHANGED <<setup, meetingVars, workerVars, activeSession, queue, oldTps, toPut,
                   produced, asyncTokens>>

\* (seeded bug) the tokens of the old rate stay
PaceWithoutReset ==
    /\ producer = "loop" /\ inc <= Target /\ Answers
    /\ NextInterval
    /\ oldTps' = ReportedTps
    /\ inc' = inc + Increment
    /\ toPut' = Increment
    /\ producer' = "put"
    /\ UNCHANGED <<setup, meetingVars, workerVars, activeSession, queue, produced, asyncTokens>>

\* an interval: a change of the rate clears the queue
Pace ==
    /\ producer = "loop" /\ inc <= Target /\ Answers
    /\ NextInterval
    /\ oldTps' = ReportedTps
    /\ IF ReportedTps # oldTps THEN Clear ELSE UNCHANGED queue
    /\ inc' = inc + Increment
    /\ toPut' = Increment
    /\ producer' = "put"
    /\ UNCHANGED <<setup, meetingVars, workerVars, activeSession, produced, asyncTokens>>

\* the token, or one of its batch; then the producer sleeps for the interval
PutPace ==
    /\ producer = "put"
    /\ Put(PaceToken(Phases[phase].tps))
    /\ toPut' = toPut - 1
    /\ produced' = produced + 1
    /\ producer' = IF toPut = 1 THEN "loop" ELSE "put"
    /\ UNCHANGED <<setup, meetingVars, workerVars, activeSession, cadencerVars, inc,
                   oldTps, asyncTokens>>

\* the profile is at its end, or the target is reached
ProducerStops ==
    /\ producer = "loop"
    /\ \/ inc > Target /\ UNCHANGED cadencerVars
       \/ inc <= Target /\ CadencerStops /\ NextInterval
    /\ producer' = "clear"
    /\ UNCHANGED <<setup, meetingVars, workerVars, activeSession, queue, paceVars, asyncTokens>>

\* __stopAll(), after the graceful period
StopAll ==
    /\ producer = "clear"
    /\ Clear
    /\ toPut' = NumberOfThreads
    /\ producer' = "poison"
    /\ UNCHANGED <<setup, meetingVars, workerVars, activeSession, cadencerVars, inc, oldTps,
                   produced, asyncTokens>>

\* (seeded bug) one consumer is forgotten
PoisonAllButOne ==
    /\ producer = "poison"
    /\ Put(PoisonToken)
    /\ toPut' = toPut - 1
    /\ producer' = IF toPut <= 2 THEN "done" ELSE "poison"
    /\ UNCHANGED <<setup, meetingVars, workerVars, activeSession, cadencerVars, inc, oldTps,
                   produced, asyncTokens>>

\* one for each consumer, with a sleep in between
PutPoison ==
    /\ producer = "poison"
    /\ Put(PoisonToken)
    /\ toPut' = toPut - 1
    /\ producer' = IF toPut = 1 THEN "done" ELSE "poison"
    /\ UNCHANGED <<setup, meetingVars, workerVars, activeSession, cadencerVars, inc, oldTps,
                   produced, asyncTokens>>

ProducerStep ==
    \/ ProducerDies \/ FirstInterval \/ Pace \/ PutPace
    \/ ProducerStops \/ StopAll \/ PutPoison

-----------------------------------------------------------------------------
(* The worker threads: __rampup_call__(), __controlled_rampup_call__().    *)

\* int((percentage or 100) / 100) * threads, in integers
Threshold == ((IF setup.pct = 0 THEN 100 ELSE setup.pct) \div 100) * NumberOfThreads

\* blocking_take(): get() has the mutex and finds a token
SeeToken(w) ==
    /\ pc[w] = "idle"
    /\ queue # <<>> /\ MutexFree
    /\ Goto(w, "pop")
    /\ UNCHANGED <<setup, meetingVars, token, activeSession, queue, producer, cadencerVars,
                   paceVars, asyncTokens>>

\* a thread that is not told to stop or to leave the run begins a session
SessionPC == IF setup.control THEN "enter" ELSE "session"

\* (seeded bug) a poisoned thread leaves the run, and no more
TakeAndGoOn(w) ==
    /\ pc[w] = "pop"
    /\ queue # <<>>
    /\ queue' = Tail(queue)
    /\ token' = [token EXCEPT ![w] = Head(queue)]
    /\ Goto(w, IF Head(queue).type \in {"poison", "abort"} THEN "idle" ELSE SessionPC)
    /\ UNCHANGED <<setup, meetingVars, activeSession, producer, cadencerVars, paceVars,
                   asyncTokens>>

\* and pops it; __checkTokenReceived()
TakeToken(w) ==
    /\ pc[w] = "pop"
    /\ queue # <<>>
    /\ queue' = Tail(queue)
    /\ token' = [token EXCEPT ![w] = Head(queue)]
    /\ \/ Head(queue).type = "poison" /\ Goto(w, "stopped")
       \/ Head(queue).type = "abort" /\ Goto(w, "idle")
       \/ Head(queue).type \in {"pace", "context"} /\ Goto(w, SessionPC)
    /\ UNCHANGED <<setup, meetingVars, activeSession, producer, cadencerVars, paceVars,
                   asyncTokens>>

\* the queue has been cleared since then: the pop raises, blocking_take() prints the
\* exception and answers None, and a run without token begins a session
TakeNothing(w) ==
    /\ pc[w] = "pop"
    /\ queue = <<>>
    /\ token' = [token EXCEPT ![w] = NoToken]
    /\ Goto(w, SessionPC)
    /\ UNCHANGED <<setup, meetingVars, activeSession, queue, producer, cadencerVars, paceVars,
                   asyncTokens>>

\* lockSession, which a throttled thread keeps while it sleeps
SessionLockFree == \A w \in Threads : pc[w] # "throttled"

\* (seeded bug) the session is counted after the test
EnterUncounted(w) ==
    /\ pc[w] = "enter" /\ SessionLockFree
    /\ activeSession' = activeSession + 1
    /\ IF activeSession >= Threshold
          THEN Clear /\ Goto(w, "throttled")
          ELSE Goto(w, "session") /\ UNCHANGED queue
    /\ UNCHANGED <<setup, meetingVars, token, producer, cadencerVars, paceVars, asyncTokens>>

\* (seeded bug) a throttled thread is not counted, but its finally clause counts
EnterUncountedThrottled(w) ==
    /\ pc[w] = "enter" /\ SessionLockFree
    /\ IF activeSession + 1 >= Threshold
          THEN Clear /\ Goto(w, "throttled") /\ UNCHANGED activeSession
          ELSE Goto(w, "session") /\ activeSession' = activeSession + 1 /\ UNCHANGED queue
    /\ UNCHANGED <<setup, meetingVars, token, producer, cadencerVars, paceVars, asyncTokens>>

\* too many sessions: the waiting tokens are dropped, with the one of this thread
Enter(w) ==
    /\ pc[w] = "enter" /\ SessionLockFree
    /\ activeSession' = activeSession + 1
    /\ IF activeSession' >= Threshold
          THEN Clear /\ Goto(w, "throttled")
          ELSE Goto(w, "session") /\ UNCHANGED queue
    /\ UNCHANGED <<setup, meetingVars, token, producer, cadencerVars, paceVars, asyncTokens>>

\* (seeded bug) the finally clause runs inside of the lock, which is not reentrant
WakeUpInside(w) ==
    /\ pc[w] = "throttled" /\ SessionLockFree
    /\ Goto(w, "leave")
    /\ UNCHANGED <<setup, meetingVars, token, activeSession, queue, producer, cadencerVars,
                   paceVars, asyncTokens>>

\* the sleep ends, and the return releases the lock
WakeUp(w) ==
    /\ pc[w] = "throttled"
    /\ Goto(w, "leave")
    /\ UNCHANGED <<setup, meetingVars, token, activeSession, queue, producer, cadencerVars,
                   paceVars, asyncTokens>>

\* the scenarios are executed, to their end or to an exception; a failed asynchronous
\* step puts a token to cancel another run
EndSession(w) ==
    /\ pc[w] = "session"
    /\ Goto(w, IF setup.control THEN "leave" ELSE "idle")
    /\ \/ UNCHANGED <<queue, asyncTokens>>
       \/ /\ asyncTokens < MaxAsync
          /\ asyncTokens' = asyncTokens + 1
          /\ Put(AbortToken)
    /\ UNCHANGED <<setup, meetingVars, token, activeSession, producer, cadencerVars, paceVars>>

\* the finally clause
Leave(w) ==
    /\ pc[w] = "leave" /\ SessionLockFree
    /\ activeSession' = activeSession - 1
    /\ Goto(w, "idle")
    /\ UNCHANGED <<setup, meetingVars, token, queue, producer, cadencerVars, paceVars,
                   asyncTokens>>

WorkerStep(w) ==
    \/ Count(w) \/ CheckCount(w) \/ Meet(w)
    \/ SeeToken(w) \/ TakeToken(w) \/ TakeNothing(w)
    \/ Enter(w) \/ WakeUp(w) \/ EndSession(w) \/ Leave(w)

\* a notification handler or the reaper, for a context that a session has released
PutContext ==
    /\ asyncTokens < MaxAsync
    /\ \E w \in Threads : token[w] # NoToken
    /\ asyncTokens' = asyncTokens + 1
    /\ Put(ContextToken)
    /\ UNCHANGED <<setup, meetingVars, workerVars, activeSession, producer, cadencerVars,
                   paceVars>>

-----------------------------------------------------------------------------
Next ==
    \/ \E w \in Threads : WorkerStep(w)
    \/ ProducerStep
    \/ PutContext

Spec == Init /\ [][Next]_vars

\* Every thread is scheduled, and every sleep and session ends.
FairSpec == Spec /\ (\A w \in Threads : WF_vars(WorkerStep(w))) /\ WF_vars(ProducerStep)

-----------------------------------------------------------------------------
(* Properties.                                                             *)

InState(S) == {w \in Threads : pc[w] \in S}
PoisonIn(q) == {i \in DOMAIN q : q[i] = PoisonToken}

\* "All threads are initialized - rampup can start": nobody leaves the meeting point, and
\* the producer does not start, before the last thread has been counted.
NobodyStartsAlone ==
    InState({"start"}) # {} =>
        /\ producer = "new"
        /\ InState(WorkerPC \ {"start", "counted", "meeting"}) = {}

\* "The trick is to poison all consumer": without throttler, once the producer has
\* ended there is poison in the queue for exactly the threads that still run.
PoisonSuffices ==
    ~setup.control /\ producer \in {"poison", "done"} =>
        LET toCome == IF producer = "done" THEN 0 ELSE toPut IN
        Cardinality(PoisonIn(queue)) + toCome = Cardinality(Threads \ InState({"stopped"}))

\* The number of runs asked for is not exceeded, although the first answer is counted
\* and not put, by more than the rest of a batch.
TargetRespected ==
    produced > 0 => \E i \in DOMAIN Phases : produced < Target + Phases[i].batch

\* A change of the rate leaves no token of the former rate behind.
OneRateInQueue ==
    \A i, j \in DOMAIN queue :
        {queue[i].type, queue[j].type} = {"pace"} => queue[i] = queue[j]

\* With the throttler, fewer sessions than the threshold are executed at any time.
SessionsBelowThreshold ==
    setup.control /\ InState({"session"}) # {} =>
        Cardinality(InState({"session"})) < Threshold

\* Every thread ends, unless the cadencer has ended the producer with an exception.
\* The throttler may clear the poison, so it is not promised with it.
WorkersStop ==
    <>(setup.control \/ producer = "dead" \/ \A w \in Threads : pc[w] = "stopped")

\* With the throttler too, the producer comes to its end, and the threads do not keep
\* each other in their sessions.
SessionsEnd == \A w \in Threads : pc[w] \in {"enter", "session", "leave"} ~> pc[w] = "idle"
=============================================================================
