-------------------------- MODULE Throughput_proofs --------------------------
(***************************************************************************)
(* Theorems about Throughput, for any number of threads that are all       *)
(* counted, any setups and any number of tokens from others.               *)
(***************************************************************************)
EXTENDS ThroughputCounted, FunctionTheorems, FiniteSetTheorems, TLAPS

(* The inductive invariant.                                                *)

\* The threads that are counted as sessions.
Counted == IF setup.control THEN InState({"session", "throttled", "leave"}) ELSE {}

\* The count of the meeting is that of the threads that have passed it; the event is
\* for all of them; thread 0 starts the producer when it leaves, once.
MeetingInv ==
    /\ threadCount = Cardinality(Threads \ InState({"start"}))
    /\ event => InState({"start"}) = {}
    /\ producer # "new" => event
    /\ producer = "new" <=> pc[First] \in {"start", "counted", "meeting"}
    /\ \A w \in Threads : pc[w] \in {"start", "counted", "meeting"} \/ event

\* The throttler counts the sessions, those that it lets pass and those that it stops.
SessionInv ==
    /\ activeSession = Cardinality(Counted)
    /\ ~setup.control => InState({"enter", "throttled", "leave"}) = {}
    /\ SessionsBelowThreshold

\* Nobody is poisoned before the end.
PoisonInv ==
    /\ producer \in {"put", "poison"} => toPut > 0
    /\ producer = "put" => phase <= Len(Phases)
    /\ producer \notin {"poison", "done"} =>
         PoisonIn(queue) = {} /\ InState({"stopped"}) = {}
    /\ PoisonSuffices

\* What is counted is at least one more than what is produced, and has not been beyond the
\* target before the last answer.
TargetInv ==
    /\ producer \in {"new", "first"} => inc = 0 /\ produced = 0
    /\ producer = "loop" => produced < inc
    /\ producer = "put" => produced + toPut < inc
    /\ produced > 0 => produced < inc
    /\ produced > 0 \/ producer = "put" =>
         \E i \in DOMAIN Phases : inc <= Target + Phases[i].batch

IInv == TypeOK /\ MeetingInv /\ SessionInv /\ PoisonInv /\ TargetInv

-----------------------------------------------------------------------------
(* Lemmas about sets of threads and about the queue.                       *)

\* Every set of threads by their control point is finite.
LEMMA StatesAreFinite ==
    ASSUME NEW S \in SUBSET Threads
    PROVE  /\ IsFiniteSet(S) /\ Cardinality(S) \in Nat
           /\ Cardinality(S) <= NumberOfThreads
           /\ Cardinality(S) = NumberOfThreads => S = Threads
  BY ThroughputAssumption, EveryThreadCounts, FS_Subset, FS_CardinalityType

\* There is at least one thread.
LEMMA ThereAreThreads == NumberOfThreads \in Nat \ {0}
  BY ThroughputAssumption, EveryThreadCounts, FS_CardinalityType, FS_EmptySet

\* What the fields of a configuration are.
LEMMA SetupFields ==
    ASSUME NEW s \in Setups
    PROVE  /\ s.profile \in Seq(Phase) /\ Len(s.profile) \in Nat \ {0}
           /\ s.target \in Int /\ s.control \in BOOLEAN /\ s.pct \in Int
           /\ \A i \in 1..Len(s.profile) :
                /\ s.profile[i].tps \in Nat \ {0} /\ s.profile[i].count \in Nat
                /\ s.profile[i].batch \in Nat \ {0}
<1>1. s \in Setup /\ Len(s.profile) > 0
  BY ThroughputAssumption
<1>2. s.profile \in Seq(Phase) /\ s.target \in Int /\ s.control \in BOOLEAN /\ s.pct \in Int
  BY <1>1 DEF Setup
<1>3. Len(s.profile) \in Nat \ {0} /\ \A i \in 1..Len(s.profile) : s.profile[i] \in Phase
  BY <1>1, <1>2
<1> QED
  BY <1>2, <1>3 DEF Phase

\* and those of the present one
LEMMA SetupTypes ==
    ASSUME setup \in Setups
    PROVE  /\ Phases \in Seq(Phase) /\ Len(Phases) \in Nat \ {0}
           /\ \A i \in 1..Len(Phases) :
                /\ Phases[i].tps \in Nat \ {0} /\ Phases[i].count \in Nat
                /\ Phases[i].batch \in Nat \ {0}
           /\ Target \in Int /\ Threshold \in Int /\ setup.control \in BOOLEAN
<1>1. Threshold \in Int
  BY SetupFields, ThereAreThreads DEF Threshold
<1>2. Unlimited \in Int
  BY SMT DEF Unlimited
<1>3. Target \in Int
  BY <1>2, SetupFields DEF Target
<1> QED
  BY <1>1, <1>3, SetupFields DEF Phases

\* The tokens of the program are tokens, and only poison is poison.
LEMMA TokensAreTokens ==
    /\ ContextToken \in Tokens /\ ContextToken # PoisonToken
    /\ AbortToken \in Tokens /\ AbortToken # PoisonToken
    /\ PoisonToken \in Tokens /\ PoisonToken.type = "poison"
    /\ \A n \in Nat : PaceToken(n) \in Tokens /\ PaceToken(n) # PoisonToken
    /\ \A t \in Tokens : t.type = "poison" <=> t = PoisonToken
  BY DEF Tokens, ContextToken, AbortToken, PoisonToken, PaceToken

\* The positions of the poison are finitely many.
LEMMA PoisonIsFinite ==
    ASSUME NEW q \in Seq(Tokens)
    PROVE  IsFiniteSet(PoisonIn(q)) /\ Cardinality(PoisonIn(q)) \in Nat
<1>1. IsFiniteSet(1..Len(q))
  BY FS_Interval
<1>2. PoisonIn(q) \in SUBSET (1..Len(q))
  BY DEF PoisonIn
<1> QED
  BY <1>1, <1>2, FS_Subset, FS_CardinalityType

\* A cleared queue has none.
LEMMA NoPoisonInEmpty ==
    <<>> \in Seq(Tokens) /\ PoisonIn(<<>>) = {} /\ Cardinality(PoisonIn(<<>>)) = 0
  BY FS_EmptySet DEF PoisonIn

\* A token at the end of the queue adds its position if it is poison.
LEMMA PoisonOfAppend ==
    ASSUME NEW q \in Seq(Tokens), NEW t \in Tokens, NEW r, r = Append(q, t)
    PROVE  /\ r \in Seq(Tokens)
           /\ t # PoisonToken => PoisonIn(r) = PoisonIn(q)
           /\ t = PoisonToken =>
                Cardinality(PoisonIn(r)) = Cardinality(PoisonIn(q)) + 1
<1> DEFINE n == Len(q) + 1
<1>1. DOMAIN q = 1..Len(q) /\ DOMAIN r = 1..n /\ n \notin DOMAIN q /\ Len(q) \in Nat
  OBVIOUS
<1>2. \A i \in DOMAIN q : r[i] = q[i]
  OBVIOUS
<1>3. r[n] = t
  OBVIOUS
<1>4. DOMAIN r = DOMAIN q \cup {n}
  BY <1>1
<1>0. r \in Seq(Tokens)
  OBVIOUS
<1> HIDE DEF n
<1>5. CASE t # PoisonToken
  BY <1>2, <1>3, <1>4, <1>5 DEF PoisonIn
<1>6. CASE t = PoisonToken
  <2>1. PoisonIn(r) = PoisonIn(q) \cup {n} /\ n \notin PoisonIn(q)
    BY <1>1, <1>2, <1>3, <1>4, <1>6 DEF PoisonIn
  <2> QED
    BY <1>6, <2>1, PoisonIsFinite, FS_AddElement
<1> QED
  BY <1>0, <1>5, <1>6

\* The head of the queue takes its position away if it is poison.
LEMMA PoisonOfTail ==
    ASSUME NEW q \in Seq(Tokens), q # <<>>, NEW r, r = Tail(q)
    PROVE  /\ Head(q) \in Tokens /\ r \in Seq(Tokens)
           /\ Cardinality(PoisonIn(r)) =
                IF Head(q) = PoisonToken THEN Cardinality(PoisonIn(q)) - 1
                ELSE Cardinality(PoisonIn(q))
           /\ PoisonIn(q) = {} => PoisonIn(r) = {} /\ Head(q) # PoisonToken
<1> DEFINE Rest == PoisonIn(q) \ {1}
           f == [i \in PoisonIn(r) |-> i + 1]
<1>1. /\ DOMAIN q = 1..Len(q) /\ DOMAIN r = 1..(Len(q) - 1) /\ Len(q) \in Nat \ {0}
      /\ r \in Seq(Tokens) /\ Head(q) \in Tokens /\ Head(q) = q[1]
  OBVIOUS
<1>2. \A i \in DOMAIN r : r[i] = q[i + 1]
  OBVIOUS
<1>3. PoisonIn(r) \subseteq Nat
  BY <1>1 DEF PoisonIn
<1>4. f \in [PoisonIn(r) -> Rest]
  BY <1>1, <1>2 DEF PoisonIn
<1>5. \A i, j \in PoisonIn(r) : f[i] = f[j] => i = j
  BY <1>3
<1>6. \A k \in Rest : \E i \in PoisonIn(r) : f[i] = k
  <2> TAKE k \in Rest
  <2>1. k \in 2..Len(q) /\ q[k] = PoisonToken
    BY <1>1 DEF PoisonIn
  <2>2. k - 1 \in PoisonIn(r)
    BY <2>1, <1>1, <1>2 DEF PoisonIn
  <2>3. f[k - 1] = k
    BY <2>1, <2>2
  <2> QED
    BY <2>2, <2>3
<1>7. f \in Bijection(PoisonIn(r), Rest)
  BY <1>4, <1>5, <1>6, Fun_IsBij
<1>8. IsFiniteSet(PoisonIn(r)) /\ IsFiniteSet(PoisonIn(q))
  BY <1>1, PoisonIsFinite
<1>9. Cardinality(Rest) = Cardinality(PoisonIn(r))
  BY <1>7, <1>8, FS_Bijection, Fun_ExistsBij
<1>10. 1 \in PoisonIn(q) <=> Head(q) = PoisonToken
  BY <1>1 DEF PoisonIn
<1>11. PoisonIn(q) = {} => PoisonIn(r) = {}
  BY <1>4, <1>3
<1> QED
  BY <1>1, <1>8, <1>9, <1>10, <1>11, FS_RemoveElement

\* A thread that goes to another control point changes the sets of this and of the
\* former one.
LEMMA GotoStates ==
    ASSUME pc \in [Threads -> WorkerPC], NEW w \in Threads, NEW at, Goto(w, at), NEW S
    PROVE  InState(S)' = IF at \in S THEN InState(S) \cup {w} ELSE InState(S) \ {w}
  BY DEF Goto, InState

\* What an answer of the cadencer is.
LEMMA CadencerTypes ==
    ASSUME TypeOK
    PROVE  /\ Increment \in Nat \ {0}
           /\ Answers => ReportedTps \in Nat /\ PhaseNow \in 1..Len(Phases)
           /\ NextInterval => phase' \in 1..Len(Phases) + 1 /\ left' \in Nat
<1>1. /\ phase \in 1..Len(Phases) + 1 /\ left \in Nat /\ Len(Phases) \in Nat
      /\ setup \in Setups
  BY SetupTypes DEF TypeOK, Phases
<1>2. Answers => PhaseNow \in 1..Len(Phases)
  BY <1>1 DEF Answers, InPhase, NextPhaseAnswers, PhaseNow
<1>3. Increment \in Nat \ {0}
  BY <1>1, <1>2, SetupTypes DEF Increment
<1>4. Answers => ReportedTps \in Nat
  BY <1>1, <1>2, SetupTypes DEF ReportedTps
<1>5. ASSUME NextInterval PROVE phase' \in 1..Len(Phases) + 1 /\ left' \in Nat
  <2>1. phase' \in 1..Len(Phases) + 1
    BY <1>1, <1>5 DEF NextInterval, PhaseNow
  <2>2. CASE InPhase
    BY <1>1, <1>5, <2>1, <2>2 DEF NextInterval, InPhase
  <2>3. CASE ~InPhase /\ NextPhaseAnswers
    <3>1. phase + 1 \in 1..Len(Phases)
      BY <1>1, <2>3 DEF NextPhaseAnswers
    <3>2. Phases[phase + 1].count \in Nat /\ Phases[phase + 1].count > 0
      BY <1>1, <3>1, <2>3, SetupTypes DEF NextPhaseAnswers
    <3> QED
      BY <1>5, <2>1, <2>3, <3>2 DEF NextInterval
  <2>4. CASE ~InPhase /\ ~NextPhaseAnswers
    BY <1>5, <2>1, <2>4 DEF NextInterval
  <2> QED
    BY <2>2, <2>3, <2>4
<1> QED
  BY <1>2, <1>3, <1>4, <1>5

-----------------------------------------------------------------------------
(* The invariant holds initially.                                          *)

\* The inductive invariant holds in the initial states.
LEMMA InitInv == Init => IInv
<1> SUFFICES ASSUME Init PROVE IInv
  OBVIOUS
<1>1. InState({"start"}) = Threads
  BY DEF Init, InState
<1>2. \A S : "start" \notin S => InState(S) = {}
  BY DEF Init, InState
<1>3. TypeOK
  <2>1. setup \in Setups
    BY DEF Init
  <2>2. setup.profile[1].count \in Nat /\ Len(setup.profile) \in Nat
    BY <2>1, SetupFields
  <2>3. pc \in [Threads -> WorkerPC] /\ producer \in ProducerPC
    BY DEF Init, WorkerPC, ProducerPC
  <2>4. asyncTokens \in 0..MaxAsync
    BY ThroughputAssumption DEF Init
  <2>5. phase \in 1..Len(setup.profile) + 1 /\ left \in Nat
    BY <2>2 DEF Init
  <2>6. queue \in Seq(Tokens) /\ token \in [Threads -> Tokens \cup {NoToken}]
    BY NoPoisonInEmpty DEF Init
  <2> QED
    BY <2>1, <2>3, <2>4, <2>5, <2>6 DEF Init, TypeOK
<1>4. MeetingInv
  BY <1>1, FS_EmptySet, ThroughputAssumption DEF Init, MeetingInv
<1>5. SessionInv
  <2>1. Counted = {} /\ InState({"enter", "throttled", "leave"}) = {} /\ InState({"session"}) = {}
    BY <1>2 DEF Counted
  <2> QED
    BY <2>1, FS_EmptySet DEF Init, SessionInv, SessionsBelowThreshold
<1>6. PoisonInv
  BY <1>2, NoPoisonInEmpty DEF Init, PoisonInv, PoisonSuffices
<1>7. TargetInv
  BY DEF Init, TargetInv
<1> QED
  BY <1>3, <1>4, <1>5, <1>6, <1>7 DEF IInv

-----------------------------------------------------------------------------
(* The variables keep their types.                                         *)

\* The steps of the worker threads keep the types.
LEMMA WorkerStepType ==
    ASSUME IInv, NEW w \in Threads, WorkerStep(w)
    PROVE  TypeOK'
<1> USE TokensAreTokens DEF IInv, TypeOK, Goto, vars, meetingVars, workerVars, cadencerVars, paceVars
<1>0. pc[w] \in WorkerPC /\ \A at \in WorkerPC : Goto(w, at) => pc' \in [Threads -> WorkerPC]
  OBVIOUS
<1>1. CASE Count(w)
  BY <1>0, <1>1 DEF Count, WorkerPC
<1>2. CASE CheckCount(w)
  BY <1>0, <1>2 DEF CheckCount, WorkerPC
<1>3. CASE Meet(w)
  BY <1>0, <1>3 DEF Meet, WorkerPC, ProducerPC
<1>4. CASE SeeToken(w)
  BY <1>0, <1>4 DEF SeeToken, WorkerPC
<1>5. CASE TakeToken(w)
  <2>1. Head(queue) \in Tokens /\ queue' \in Seq(Tokens)
    BY <1>5, PoisonOfTail DEF TakeToken
  <2> QED
    BY <1>0, <1>5, <2>1 DEF TakeToken, WorkerPC, SessionPC
<1>6. CASE TakeNothing(w)
  BY <1>0, <1>6 DEF TakeNothing, WorkerPC, SessionPC
<1>7. CASE Enter(w)
  <2>1. queue' \in Seq(Tokens)
    BY <1>7, NoPoisonInEmpty DEF Enter, Clear
  <2>2. pc' \in [Threads -> WorkerPC]
    BY <1>0, <1>7 DEF Enter, WorkerPC
  <2> QED
    BY <1>7, <2>1, <2>2 DEF Enter
<1>8. CASE WakeUp(w)
  BY <1>0, <1>8 DEF WakeUp, WorkerPC
<1>9. CASE EndSession(w)
  <2>1. queue' \in Seq(Tokens)
    <3>1. queue' = queue \/ queue' = Append(queue, AbortToken)
      BY <1>9 DEF EndSession, Put
    <3> QED
      BY <3>1, PoisonOfAppend
  <2>2. asyncTokens' \in 0..MaxAsync
    BY <1>9, ThroughputAssumption DEF EndSession
  <2> QED
    BY <1>0, <1>9, <2>1, <2>2 DEF EndSession, WorkerPC
<1>10. CASE Leave(w)
  <2>1. setup.control
    BY <1>10 DEF Leave, SessionInv, InState
  <2>2. w \in Counted /\ Counted \subseteq Threads
    BY <1>10, <2>1 DEF Leave, Counted, InState
  <2>3. activeSession > 0
    BY <2>2, StatesAreFinite, FS_EmptySet DEF SessionInv
  <2> QED
    BY <1>0, <1>10, <2>3 DEF Leave, WorkerPC
<1> QED
  BY <1>1, <1>2, <1>3, <1>4, <1>5, <1>6, <1>7, <1>8, <1>9, <1>10 DEF WorkerStep

\* So do those of the producer.
LEMMA ProducerStepType ==
    ASSUME IInv, ProducerStep
    PROVE  TypeOK'
<1> USE TokensAreTokens, ThereAreThreads DEF IInv, TypeOK, ProducerPC, meetingVars, workerVars,
        cadencerVars, paceVars
<1>0. Phases' = Phases <=> setup'.profile = setup.profile
  BY DEF Phases
<1>1. CASE ProducerDies
  BY <1>1 DEF ProducerDies
<1>2. CASE FirstInterval
  BY <1>0, <1>2, CadencerTypes DEF FirstInterval, Phases
<1>3. CASE Pace
  <2>1. queue' \in Seq(Tokens)
    BY <1>3, NoPoisonInEmpty DEF Pace, Clear
  <2> QED
    BY <1>0, <1>3, <2>1, CadencerTypes DEF Pace, Phases
<1>4. CASE PutPace
  <2>1. phase \in 1..Len(Phases)
    BY <1>4, SetupTypes DEF PutPace, PoisonInv, Phases
  <2>2. PaceToken(Phases[phase].tps) \in Tokens
    BY <2>1, SetupTypes
  <2> QED
    BY <1>4, <2>2 DEF PutPace, Put, PoisonInv
<1>5. CASE ProducerStops
  BY <1>0, <1>5, CadencerTypes DEF ProducerStops, Phases
<1>6. CASE StopAll
  BY <1>6 DEF StopAll, Clear
<1>7. CASE PutPoison
  BY <1>7 DEF PutPoison, Put, PoisonInv
<1> QED
  BY <1>1, <1>2, <1>3, <1>4, <1>5, <1>6, <1>7 DEF ProducerStep

\* So does every step.
LEMMA TypeStep ==
    ASSUME IInv, [Next]_vars
    PROVE  TypeOK'
<1>1. CASE PutContext
  BY <1>1, TokensAreTokens, ThroughputAssumption DEF IInv, TypeOK, PutContext, Put, meetingVars,
     workerVars, cadencerVars, paceVars
<1>2. CASE UNCHANGED vars
  BY <1>2 DEF IInv, TypeOK, vars, meetingVars, workerVars, cadencerVars, paceVars
<1> QED
  BY <1>1, <1>2, WorkerStepType, ProducerStepType DEF Next

-----------------------------------------------------------------------------
(* The meeting point.                                                      *)

\* The control points of a thread up to the meeting.
Before == {"start", "counted", "meeting"}

\* Once a thread has left the meeting, its steps do not concern it any more.
LEMMA AfterMeeting ==
    ASSUME IInv, NEW w \in Threads, pc[w] \notin Before, NEW at, at \notin Before, Goto(w, at),
           UNCHANGED <<meetingVars, producer>>
    PROVE  MeetingInv'
<1>1. pc \in [Threads -> WorkerPC]
  BY DEF IInv, TypeOK
<1>2. InState({"start"})' = InState({"start"})
  BY <1>1 DEF Before, InState, Goto
<1>3. \A v \in Threads : pc[v] \in Before <=> pc'[v] \in Before
  BY <1>1 DEF Goto
<1> QED
  BY <1>2, <1>3, ThroughputAssumption DEF IInv, MeetingInv, Before, meetingVars

\* The steps of the worker threads preserve the invariant of the meeting.
LEMMA MeetingWorkerStep ==
    ASSUME IInv, NEW w \in Threads, WorkerStep(w)
    PROVE  MeetingInv'
<1>0. pc \in [Threads -> WorkerPC] /\ threadCount \in Nat /\ MeetingInv
  BY DEF IInv, TypeOK
<1>1. CASE Count(w)
  <2>1. w \in InState({"start"}) /\ ~event
    BY <1>0, <1>1 DEF Count, InState, MeetingInv
  <2>2. InState({"start"})' = InState({"start"}) \ {w}
    BY <1>0, <1>1, GotoStates DEF Count
  <2>3. /\ Threads \ InState({"start"})' = (Threads \ InState({"start"})) \cup {w}
        /\ w \notin Threads \ InState({"start"})
    BY <2>1, <2>2
  <2>4. threadCount' = Cardinality(Threads \ InState({"start"})')
    <3>1. IsFiniteSet(Threads \ InState({"start"}))
      BY StatesAreFinite
    <3>2. Cardinality((Threads \ InState({"start"})) \cup {w})
            = Cardinality(Threads \ InState({"start"})) + 1
      BY <2>3, <3>1, FS_AddElement
    <3> QED
      BY <1>0, <1>1, <2>3, <3>2 DEF Count, MeetingInv
  <2>5. pc'[w] = "counted" /\ \A v \in Threads : v # w => pc'[v] = pc[v]
    BY <1>0, <1>1 DEF Count, Goto
  <2> QED
    BY <1>0, <1>1, <2>1, <2>4, <2>5, ThroughputAssumption DEF Count, MeetingInv
<1>2. CASE CheckCount(w)
  <2>1. InState({"start"})' = InState({"start"})
    BY <1>0, <1>2 DEF CheckCount, InState, Goto
  <2>2. threadCount = NumberOfThreads => InState({"start"}) = {}
    BY <1>0, StatesAreFinite DEF MeetingInv, InState
  <2>3. pc'[w] = "meeting" /\ \A v \in Threads : v # w => pc'[v] = pc[v]
    BY <1>0, <1>2 DEF CheckCount, Goto
  <2> QED
    BY <1>0, <1>2, <2>1, <2>2, <2>3, ThroughputAssumption DEF CheckCount, MeetingInv
<1>3. CASE Meet(w)
  <2>1. InState({"start"})' = InState({"start"})
    BY <1>0, <1>3 DEF Meet, InState, Goto
  <2>2. pc'[w] = "idle" /\ \A v \in Threads : v # w => pc'[v] = pc[v]
    BY <1>0, <1>3 DEF Meet, Goto
  <2> QED
    BY <1>0, <1>3, <2>1, <2>2, ThroughputAssumption DEF Meet, MeetingInv, meetingVars
<1>4. CASE SeeToken(w)
  BY <1>4, AfterMeeting DEF SeeToken, Before
<1>5. CASE TakeToken(w)
  BY <1>5, AfterMeeting DEF TakeToken, SessionPC, Before
<1>6. CASE TakeNothing(w)
  BY <1>6, AfterMeeting DEF TakeNothing, SessionPC, Before
<1>7. CASE Enter(w)
  BY <1>7, AfterMeeting DEF Enter, Before
<1>8. CASE WakeUp(w)
  BY <1>8, AfterMeeting DEF WakeUp, Before
<1>9. CASE EndSession(w)
  BY <1>9, AfterMeeting DEF EndSession, Before
<1>10. CASE Leave(w)
  BY <1>10, AfterMeeting DEF Leave, Before
<1> QED
  BY <1>1, <1>2, <1>3, <1>4, <1>5, <1>6, <1>7, <1>8, <1>9, <1>10 DEF WorkerStep

\* So does every step.
LEMMA MeetingStep ==
    ASSUME IInv, [Next]_vars
    PROVE  MeetingInv'
<1>1. CASE ProducerStep
  <2>1. producer # "new" /\ producer' # "new" /\ UNCHANGED <<meetingVars, pc>>
    BY <1>1 DEF ProducerStep, ProducerDies, FirstInterval, Pace, PutPace, ProducerStops, StopAll,
       PutPoison, workerVars
  <2> QED
    BY <2>1 DEF IInv, MeetingInv, InState, meetingVars
<1>2. CASE PutContext \/ UNCHANGED vars
  BY <1>2 DEF PutContext, vars, IInv, MeetingInv, InState, meetingVars, workerVars
<1> QED
  BY <1>1, <1>2, MeetingWorkerStep DEF Next

-----------------------------------------------------------------------------
(* The throttler.                                                          *)

\* Fewer sessions are still below the threshold.
LEMMA FewerSessions ==
    ASSUME SessionsBelowThreshold, setup \in Setups, UNCHANGED setup,
           InState({"session"})' \subseteq InState({"session"})
    PROVE  SessionsBelowThreshold'
<1>1. InState({"session"}) \in SUBSET Threads /\ InState({"session"})' \in SUBSET Threads
  BY DEF InState
<1>2. Cardinality(InState({"session"})') <= Cardinality(InState({"session"}))
  BY <1>1, StatesAreFinite, FS_Subset
<1>3. Threshold' = Threshold /\ Threshold \in Int
  BY SetupTypes DEF Threshold
<1> QED
  BY <1>1, <1>2, <1>3, StatesAreFinite DEF SessionsBelowThreshold

\* A step that leaves the count and the counted threads alone.
LEMMA SessionsUntouched ==
    ASSUME SessionInv, setup \in Setups, UNCHANGED <<setup, activeSession>>, Counted' = Counted,
           ~setup.control => InState({"enter", "throttled", "leave"})' = {},
           InState({"session"})' \subseteq InState({"session"}) \/ ~setup.control
    PROVE  SessionInv'
  BY FewerSessions DEF SessionInv, SessionsBelowThreshold

\* The steps of the worker threads preserve the invariant of the throttler.
LEMMA SessionWorkerStep ==
    ASSUME IInv, NEW w \in Threads, WorkerStep(w)
    PROVE  SessionInv'
<1>0. /\ pc \in [Threads -> WorkerPC] /\ activeSession \in Nat /\ SessionInv
      /\ setup \in Setups /\ setup.control \in BOOLEAN
  BY SetupFields DEF IInv, TypeOK
<1>1. CASE Count(w) \/ CheckCount(w) \/ Meet(w) \/ SeeToken(w)
  <2>1. PICK at : Goto(w, at) /\ at \in {"counted", "meeting", "idle", "pop"}
    BY <1>1 DEF Count, CheckCount, Meet, SeeToken
  <2>2. UNCHANGED <<setup, activeSession>> /\ pc[w] \in {"start", "counted", "meeting", "idle"}
    BY <1>1 DEF Count, CheckCount, Meet, SeeToken
  <2>3. \A S \in SUBSET {"enter", "session", "throttled", "leave"} : InState(S)' = InState(S)
    BY <1>0, <2>1, <2>2 DEF Goto, InState
  <2> QED
    BY <1>0, <2>2, <2>3, SessionsUntouched DEF SessionInv, Counted
<1>2. CASE TakeToken(w) \/ TakeNothing(w)
  <2>1. PICK at : Goto(w, at) /\ at \in {"idle", "stopped", SessionPC}
    BY <1>2 DEF TakeToken, TakeNothing
  <2>2. UNCHANGED <<setup, activeSession>> /\ pc[w] = "pop"
    BY <1>2 DEF TakeToken, TakeNothing
  <2>3. CASE setup.control
    <3>1. \A S \in SUBSET {"session", "throttled", "leave"} : InState(S)' = InState(S)
      BY <1>0, <2>1, <2>2, <2>3 DEF Goto, InState, SessionPC
    <3> QED
      BY <1>0, <2>2, <2>3, <3>1, SessionsUntouched DEF Counted
  <2>4. CASE ~setup.control
    <3>1. InState({"enter", "throttled", "leave"})' = InState({"enter", "throttled", "leave"})
      BY <1>0, <2>1, <2>2, <2>4 DEF Goto, InState, SessionPC
    <3> QED
      BY <1>0, <2>2, <2>4, <3>1, SessionsUntouched DEF Counted, SessionInv
  <2> QED
    BY <2>3, <2>4
<1>3. CASE Enter(w)
  <2>1. setup.control /\ UNCHANGED setup
    BY <1>0, <1>3 DEF Enter, SessionInv, InState
  <2>2. Counted' = Counted \cup {w} /\ w \notin Counted /\ Counted \subseteq Threads
    BY <1>0, <1>3, <2>1 DEF Enter, Counted, InState, Goto
  <2>3. activeSession' = Cardinality(Counted')
    BY <1>0, <1>3, <2>2, StatesAreFinite, FS_AddElement DEF Enter, SessionInv
  <2>4. Threshold' = Threshold /\ Threshold \in Int
    BY <1>0, <2>1, SetupTypes DEF Threshold
  <2>5. CASE activeSession' >= Threshold
    <3>1. InState({"session"})' = InState({"session"})
      BY <1>0, <1>3, <2>5 DEF Enter, Goto, InState
    <3> QED
      BY <1>0, <2>1, <2>3, <3>1, FewerSessions DEF SessionInv
  <2>6. CASE ~(activeSession' >= Threshold)
    <3>1. InState({"session"})' \subseteq Counted' /\ Counted' \in SUBSET Threads
      BY <2>1, <2>2 DEF Counted, InState
    <3>2. Cardinality(InState({"session"})') <= Cardinality(Counted')
      BY <3>1, StatesAreFinite, FS_Subset
    <3>3. Cardinality(InState({"session"})') \in Nat /\ Cardinality(Counted') \in Nat
      BY <3>1, StatesAreFinite
    <3> QED
      BY <2>1, <2>3, <2>4, <2>6, <3>2, <3>3 DEF SessionInv, SessionsBelowThreshold
  <2> QED
    BY <2>5, <2>6
<1>4. CASE WakeUp(w)
  <2>1. setup.control /\ UNCHANGED <<setup, activeSession>>
    BY <1>0, <1>4 DEF WakeUp, SessionInv, InState
  <2>2. Counted' = Counted /\ InState({"session"})' = InState({"session"})
    BY <1>0, <1>4, <2>1 DEF WakeUp, Counted, Goto, InState
  <2> QED
    BY <1>0, <2>1, <2>2, SessionsUntouched
<1>5. CASE EndSession(w)
  <2>1. UNCHANGED <<setup, activeSession>>
    BY <1>5 DEF EndSession
  <2>2. InState({"session"})' = InState({"session"}) \ {w}
    BY <1>0, <1>5 DEF EndSession, Goto, InState
  <2>3. CASE setup.control
    <3>1. Counted' = Counted
      BY <1>0, <1>5, <2>1, <2>3 DEF EndSession, Counted, Goto, InState
    <3> QED
      BY <1>0, <2>1, <2>2, <2>3, <3>1, SessionsUntouched
  <2>4. CASE ~setup.control
    <3>1. InState({"enter", "throttled", "leave"})' = InState({"enter", "throttled", "leave"})
      BY <1>0, <1>5, <2>4 DEF EndSession, Goto, InState
    <3> QED
      BY <1>0, <2>1, <2>4, <3>1, SessionsUntouched DEF Counted, SessionInv
  <2> QED
    BY <2>3, <2>4
<1>6. CASE Leave(w)
  <2>1. setup.control /\ UNCHANGED setup
    BY <1>0, <1>6 DEF Leave, SessionInv, InState
  <2>2. Counted' = Counted \ {w} /\ w \in Counted /\ Counted \subseteq Threads
    BY <1>0, <1>6, <2>1 DEF Leave, Counted, InState, Goto
  <2>3. activeSession' = Cardinality(Counted')
    BY <1>0, <1>6, <2>2, StatesAreFinite, FS_RemoveElement DEF Leave, SessionInv
  <2>4. InState({"session"})' = InState({"session"})
    BY <1>0, <1>6 DEF Leave, Goto, InState
  <2> QED
    BY <1>0, <2>1, <2>3, <2>4, FewerSessions DEF SessionInv
<1> QED
  BY <1>1, <1>2, <1>3, <1>4, <1>5, <1>6 DEF WorkerStep

\* So does every step.
LEMMA SessionStep ==
    ASSUME IInv, [Next]_vars
    PROVE  SessionInv'
<1>1. CASE ProducerStep \/ PutContext \/ UNCHANGED vars
  <2>1. UNCHANGED <<setup, pc, activeSession>>
    BY <1>1 DEF ProducerStep, ProducerDies, FirstInterval, Pace, PutPace, ProducerStops, StopAll,
       PutPoison, PutContext, workerVars, vars
  <2> QED
    BY <2>1 DEF IInv, SessionInv, SessionsBelowThreshold, Counted, InState, Threshold
<1> QED
  BY <1>1, SessionWorkerStep DEF Next

-----------------------------------------------------------------------------
(* The poison.                                                             *)

\* A step that leaves the queue, the producer and the stopped threads alone.
LEMMA PoisonUntouched ==
    ASSUME PoisonInv, UNCHANGED <<setup, queue, producer, phase, toPut>>,
           InState({"stopped"})' = InState({"stopped"})
    PROVE  PoisonInv'
  BY DEF PoisonInv, PoisonSuffices, PoisonIn, Phases

\* A step that only adds a token that is not poison.
LEMMA OtherTokenAdded ==
    ASSUME PoisonInv, queue \in Seq(Tokens), UNCHANGED <<setup, producer, phase, toPut>>,
           NEW t \in Tokens \ {PoisonToken}, queue' = Append(queue, t),
           InState({"stopped"})' = InState({"stopped"})
    PROVE  PoisonInv'
<1>1. PoisonIn(queue') = PoisonIn(queue)
  BY PoisonOfAppend
<1> QED
  BY <1>1 DEF PoisonInv, PoisonSuffices, Phases

\* A thread that takes a token takes one poison, and stops, or none.
LEMMA PoisonTaken ==
    ASSUME IInv, NEW w \in Threads, TakeToken(w)
    PROVE  PoisonInv'
<1>1. /\ pc \in [Threads -> WorkerPC] /\ queue \in Seq(Tokens) /\ toPut \in Nat /\ PoisonInv
      /\ pc[w] = "pop" /\ queue # <<>> /\ queue' = Tail(queue)
      /\ UNCHANGED <<setup, producer, phase, toPut>>
  BY DEF IInv, TypeOK, TakeToken, cadencerVars, paceVars
<1>2. /\ Head(queue) \in Tokens
      /\ Cardinality(PoisonIn(queue')) =
           IF Head(queue) = PoisonToken THEN Cardinality(PoisonIn(queue)) - 1
           ELSE Cardinality(PoisonIn(queue))
      /\ PoisonIn(queue) = {} => PoisonIn(queue') = {} /\ Head(queue) # PoisonToken
  BY <1>1, PoisonOfTail
<1>3. CASE Head(queue) = PoisonToken
  <2>1. Head(queue).type = "poison"
    BY <1>3, TokensAreTokens
  <2>2. Goto(w, "stopped")
    BY <2>1 DEF TakeToken
  <2>3. InState({"stopped"})' = InState({"stopped"}) \cup {w}
    BY <1>1, <2>2 DEF Goto, InState
  <2>4. producer \in {"poison", "done"}
    BY <1>1, <1>2, <1>3 DEF PoisonInv
  <2>5. /\ Threads \ InState({"stopped"})' = (Threads \ InState({"stopped"})) \ {w}
        /\ w \in Threads \ InState({"stopped"})
    BY <1>1, <2>3 DEF InState
  <2>6. IsFiniteSet(Threads \ InState({"stopped"}))
    BY StatesAreFinite
  <2>7. Cardinality(Threads \ InState({"stopped"})')
          = Cardinality(Threads \ InState({"stopped"})) - 1
    BY <2>5, <2>6, FS_RemoveElement
  <2>8. Cardinality(PoisonIn(queue)) \in Nat
    BY <1>1, PoisonIsFinite
  <2> QED
    BY <1>1, <1>2, <1>3, <2>4, <2>7, <2>8 DEF PoisonInv, PoisonSuffices, Phases
<1>4. CASE Head(queue) # PoisonToken
  <2>1. Head(queue).type # "poison"
    BY <1>2, <1>4, TokensAreTokens
  <2>2. PICK at : Goto(w, at) /\ at # "stopped"
    BY <2>1 DEF TakeToken, SessionPC
  <2>3. InState({"stopped"})' = InState({"stopped"})
    BY <1>1, <2>2 DEF Goto, InState
  <2> QED
    BY <1>1, <1>2, <1>4, <2>3 DEF PoisonInv, PoisonSuffices, Phases
<1> QED
  BY <1>3, <1>4

\* So do the other steps of the threads preserve what is said of the poison.
LEMMA PoisonWorkerStep ==
    ASSUME IInv, NEW w \in Threads, WorkerStep(w)
    PROVE  PoisonInv'
<1>0. /\ pc \in [Threads -> WorkerPC] /\ queue \in Seq(Tokens) /\ PoisonInv
      /\ MeetingInv /\ SessionInv /\ setup \in Setups /\ setup.control \in BOOLEAN
  BY SetupFields DEF IInv, TypeOK
<1>1. CASE \/ Count(w) \/ CheckCount(w) \/ SeeToken(w) \/ TakeNothing(w) \/ WakeUp(w)
           \/ Leave(w) \/ (Meet(w) /\ w # First)
  <2>1. PICK at : Goto(w, at) /\ at # "stopped"
    BY <1>1 DEF Count, CheckCount, SeeToken, TakeNothing, WakeUp, Leave, Meet, SessionPC
  <2>2. UNCHANGED <<setup, queue, producer, phase, toPut>> /\ pc[w] # "stopped"
    BY <1>1 DEF Count, CheckCount, SeeToken, TakeNothing, WakeUp, Leave, Meet, cadencerVars,
       paceVars
  <2>3. InState({"stopped"})' = InState({"stopped"})
    BY <1>0, <2>1, <2>2 DEF Goto, InState
  <2> QED
    BY <1>0, <2>2, <2>3, PoisonUntouched
<1>2. CASE Meet(w) /\ w = First
  <2>1. producer = "new" /\ producer' = "first" /\ UNCHANGED <<setup, queue, phase, toPut>>
    BY <1>0, <1>2 DEF Meet, MeetingInv, cadencerVars, paceVars
  <2>2. InState({"stopped"})' = InState({"stopped"})
    BY <1>0, <1>2 DEF Meet, Goto, InState
  <2> QED
    BY <1>0, <2>1, <2>2 DEF PoisonInv, PoisonSuffices, Phases
<1>3. CASE TakeToken(w)
  BY <1>3, PoisonTaken
<1>4. CASE Enter(w)
  <2>1. setup.control /\ UNCHANGED <<setup, producer, phase, toPut>>
    BY <1>0, <1>4 DEF Enter, SessionInv, InState, cadencerVars, paceVars
  <2>2. InState({"stopped"})' = InState({"stopped"})
    BY <1>0, <1>4 DEF Enter, Goto, InState
  <2>3. PoisonIn(queue') \subseteq PoisonIn(queue)
    BY <1>4, NoPoisonInEmpty DEF Enter, Clear
  <2> QED
    BY <1>0, <2>1, <2>2, <2>3 DEF PoisonInv, PoisonSuffices, Phases
<1>5. CASE EndSession(w)
  <2>1. UNCHANGED <<setup, producer, phase, toPut>>
    BY <1>5 DEF EndSession, cadencerVars, paceVars
  <2>2. InState({"stopped"})' = InState({"stopped"})
    BY <1>0, <1>5 DEF EndSession, Goto, InState
  <2>3. CASE queue' = queue
    BY <1>0, <2>1, <2>2, <2>3, PoisonUntouched
  <2>4. CASE queue' = Append(queue, AbortToken)
    BY <1>0, <2>1, <2>2, <2>4, TokensAreTokens, OtherTokenAdded
  <2> QED
    BY <1>5, <2>3, <2>4 DEF EndSession, Put
<1>6. CASE Meet(w)
  BY <1>1, <1>2, <1>6
<1> QED
  BY <1>1, <1>3, <1>4, <1>5, <1>6 DEF WorkerStep

\* The producer puts poison only after it has cleared the queue, as often as there are
\* threads.
LEMMA PoisonProducerStep ==
    ASSUME IInv, ProducerStep
    PROVE  PoisonInv'
<1>0. /\ queue \in Seq(Tokens) /\ toPut \in Nat /\ PoisonInv /\ TypeOK
      /\ setup \in Setups
  BY DEF IInv, TypeOK
<1>1. UNCHANGED <<setup, pc>> /\ InState({"stopped"})' = InState({"stopped"})
      /\ Phases' = Phases
  BY DEF ProducerStep, ProducerDies, FirstInterval, Pace, PutPace, ProducerStops, StopAll,
     PutPoison, workerVars, InState, Phases
<1>2. CASE ProducerDies \/ FirstInterval \/ ProducerStops
  BY <1>0, <1>1, <1>2 DEF ProducerDies, FirstInterval, ProducerStops, PoisonInv, PoisonSuffices
<1>3. CASE Pace
  <2>1. toPut' > 0
    BY <1>0, <1>3, CadencerTypes DEF Pace
  <2>2. phase' <= Len(Phases)
    BY <1>0, <1>3, CadencerTypes, SetupTypes DEF Pace, NextInterval
  <2>3. PoisonIn(queue') = {}
    BY <1>0, <1>3, NoPoisonInEmpty DEF Pace, Clear, PoisonInv
  <2> QED
    BY <1>0, <1>1, <1>3, <2>1, <2>2, <2>3 DEF Pace, PoisonInv, PoisonSuffices
<1>4. CASE PutPace
  <2>1. phase \in 1..Len(Phases)
    BY <1>0, <1>4, SetupTypes DEF PutPace, PoisonInv, TypeOK, Phases
  <2>2. PaceToken(Phases[phase].tps) \in Tokens \ {PoisonToken}
    BY <1>0, <2>1, SetupTypes, TokensAreTokens
  <2>3. PoisonIn(queue') = PoisonIn(queue)
    BY <1>0, <1>4, <2>2, PoisonOfAppend DEF PutPace, Put
  <2> QED
    BY <1>0, <1>1, <1>4, <2>1, <2>3 DEF PutPace, PoisonInv, PoisonSuffices, cadencerVars
<1>5. CASE StopAll
  <2>1. /\ producer' = "poison" /\ toPut' = NumberOfThreads
        /\ Cardinality(PoisonIn(queue')) = 0
    BY <1>5, NoPoisonInEmpty DEF StopAll, Clear
  <2>2. Threads \ InState({"stopped"}) = Threads
    BY <1>0, <1>5 DEF StopAll, PoisonInv
  <2>3. Cardinality(Threads \ InState({"stopped"})') = NumberOfThreads
    BY <1>1, <2>2, EveryThreadCounts
  <2> QED
    BY <1>0, <1>1, <2>1, <2>3, ThereAreThreads DEF PoisonInv, PoisonSuffices
<1>6. CASE PutPoison
  <2>1. Cardinality(PoisonIn(queue')) = Cardinality(PoisonIn(queue)) + 1
    BY <1>0, <1>6, TokensAreTokens, PoisonOfAppend DEF PutPoison, Put
  <2>2. Cardinality(PoisonIn(queue)) \in Nat
    BY <1>0, PoisonIsFinite
  <2>3. producer = "poison" /\ toPut > 0 /\ toPut' = toPut - 1
    BY <1>0, <1>6 DEF PutPoison, PoisonInv
  <2>4. PoisonSuffices'
    <3>1. SUFFICES ASSUME ~setup.control
                   PROVE  Cardinality(PoisonIn(queue')) + (IF producer' = "done" THEN 0 ELSE toPut')
                            = Cardinality(Threads \ InState({"stopped"})')
      BY <1>1 DEF PoisonSuffices
    <3>2. Cardinality(PoisonIn(queue)) + toPut = Cardinality(Threads \ InState({"stopped"}))
      BY <1>0, <2>3, <3>1 DEF PoisonInv, PoisonSuffices
    <3>3. Cardinality(Threads \ InState({"stopped"})')
            = Cardinality(Threads \ InState({"stopped"}))
      BY <1>1
    <3>4. IF producer' = "done" THEN toPut = 1 ELSE toPut' = toPut - 1
      BY <1>6 DEF PutPoison
    <3> QED
      BY <1>0, <2>1, <2>2, <3>2, <3>3, <3>4
  <2>5. producer' = "done" \/ (producer' = "poison" /\ toPut' > 0)
    BY <1>0, <1>6, <2>3 DEF PutPoison
  <2> QED
    BY <2>4, <2>5 DEF PoisonInv
<1> QED
  BY <1>2, <1>3, <1>4, <1>5, <1>6 DEF ProducerStep

\* Every step preserves what is said of the poison.
LEMMA PoisonStep ==
    ASSUME IInv, [Next]_vars
    PROVE  PoisonInv'
<1>1. CASE PutContext
  <2>1. /\ UNCHANGED <<setup, producer, phase, toPut>> /\ queue' = Append(queue, ContextToken)
        /\ InState({"stopped"})' = InState({"stopped"})
    BY <1>1 DEF PutContext, Put, workerVars, cadencerVars, paceVars, InState
  <2> QED
    BY <2>1, TokensAreTokens, OtherTokenAdded DEF IInv, TypeOK
<1>2. CASE UNCHANGED vars
  BY <1>2, PoisonUntouched DEF IInv, vars, workerVars, cadencerVars, paceVars, InState
<1> QED
  BY <1>1, <1>2, PoisonWorkerStep, PoisonProducerStep DEF Next

-----------------------------------------------------------------------------
(* The target.                                                             *)

\* Only the producer counts, and only thread 0 starts it.
LEMMA TargetStep ==
    ASSUME IInv, [Next]_vars
    PROVE  TargetInv'
<1>0. /\ inc \in Nat /\ toPut \in Nat /\ produced \in Nat /\ TypeOK /\ setup \in Setups
      /\ TargetInv /\ PoisonInv
  BY DEF IInv, TypeOK
<1>1. UNCHANGED setup
  BY DEF Next, WorkerStep, Count, CheckCount, Meet, SeeToken, TakeToken, TakeNothing, Enter,
     WakeUp, EndSession, Leave, ProducerStep, ProducerDies, FirstInterval, Pace, PutPace,
     ProducerStops, StopAll, PutPoison, PutContext, vars
<1>2. Phases' = Phases /\ Target' = Target
  BY <1>1 DEF Phases, Target
<1>3. ASSUME NEW w \in Threads, WorkerStep(w) PROVE TargetInv'
  <2>1. UNCHANGED <<inc, toPut, produced>>
    BY <1>3 DEF WorkerStep, Count, CheckCount, Meet, SeeToken, TakeToken, TakeNothing, Enter,
       WakeUp, EndSession, Leave, paceVars
  <2>2. producer' = producer \/ (producer = "new" /\ producer' = "first")
    BY <1>3 DEF WorkerStep, Count, CheckCount, Meet, SeeToken, TakeToken, TakeNothing, Enter,
       WakeUp, EndSession, Leave, IInv, MeetingInv
  <2> QED
    BY <1>0, <1>2, <2>1, <2>2 DEF TargetInv
<1>4. CASE ProducerStep
  <2>1. CASE ProducerDies \/ ProducerStops \/ StopAll \/ PutPoison
    <3>1. UNCHANGED <<inc, produced>> /\ producer' \in {"dead", "clear", "poison", "done"}
      BY <2>1 DEF ProducerDies, ProducerStops, StopAll, PutPoison, paceVars
    <3> QED
      BY <1>0, <1>2, <3>1 DEF TargetInv
  <2>2. CASE FirstInterval
    <3>1. inc' = Increment /\ produced' = 0 /\ producer' = "loop" /\ Increment > 0
      BY <1>0, <2>2, CadencerTypes DEF FirstInterval, TargetInv
    <3> QED
      BY <3>1 DEF TargetInv
  <2>3. CASE Pace
    <3>1. /\ inc' = inc + Increment /\ toPut' = Increment /\ produced' = produced
          /\ producer' = "put" /\ produced < inc /\ inc <= Target
      BY <1>0, <2>3 DEF Pace, TargetInv
    <3>2. PhaseNow \in 1..Len(Phases) /\ Increment = Phases[PhaseNow].batch
      BY <1>0, <2>3, CadencerTypes DEF Pace, Increment
    <3>3. PhaseNow \in DOMAIN Phases /\ Increment \in Nat /\ Target \in Int
      BY <1>0, <3>2, SetupTypes, CadencerTypes
    <3>4. inc' <= Target + Phases[PhaseNow].batch
      BY <1>0, <3>1, <3>2, <3>3
    <3>5. produced' + toPut' < inc' /\ produced' < inc'
      BY <1>0, <3>1, <3>3
    <3> QED
      BY <1>2, <3>1, <3>3, <3>4, <3>5 DEF TargetInv
  <2>4. CASE PutPace
    <3>1. /\ inc' = inc /\ toPut' = toPut - 1 /\ produced' = produced + 1 /\ toPut > 0
          /\ produced + toPut < inc
          /\ \E i \in DOMAIN Phases : inc <= Target + Phases[i].batch
      BY <1>0, <2>4 DEF PutPace, TargetInv, PoisonInv
    <3>2. producer' \in {"loop", "put"}
      BY <2>4 DEF PutPace
    <3>3. produced' < inc' /\ produced' + toPut' < inc'
      BY <1>0, <3>1
    <3> QED
      BY <1>2, <3>1, <3>2, <3>3 DEF TargetInv
  <2> QED
    BY <1>4, <2>1, <2>2, <2>3, <2>4 DEF ProducerStep
<1>5. CASE PutContext \/ UNCHANGED vars
  BY <1>2, <1>5, <1>0 DEF PutContext, vars, paceVars, TargetInv
<1> QED
  BY <1>3, <1>4, <1>5 DEF Next

-----------------------------------------------------------------------------
(* The theorems.                                                           *)

\* The invariant holds in every state of every run.
LEMMA Invariance == Spec => []IInv
<1>1. Init => IInv
  BY InitInv
<1>2. IInv /\ [Next]_vars => IInv'
  BY TypeStep, MeetingStep, SessionStep, PoisonStep, TargetStep DEF IInv
<1> QED
  BY <1>1, <1>2, PTL DEF Spec

\* The variables have their types: the count of the sessions never becomes negative, and
\* the cadencer does not answer beyond its profile.
THEOREM ThroughputTypes == Spec => []TypeOK
<1>1. IInv => TypeOK
  BY DEF IInv
<1> QED
  BY <1>1, Invariance, PTL

\* __synchronize(): no thread leaves the meeting, and the producer does not start, before
\* the last thread has been counted, for any number of threads.
THEOREM ThreadsMeet == Spec => []NobodyStartsAlone
<1>1. IInv => NobodyStartsAlone
  BY DEF IInv, MeetingInv, NobodyStartsAlone, InState, WorkerPC
<1> QED
  BY <1>1, Invariance, PTL

\* __controlled_rampup_call__(): fewer sessions than the threshold are executed.
THEOREM ThrottlerHolds == Spec => []SessionsBelowThreshold
<1>1. IInv => SessionsBelowThreshold
  BY DEF IInv, SessionInv
<1> QED
  BY <1>1, Invariance, PTL

\* __stopAll(): the poison in the queue and the poison to come are for exactly the threads
\* that have not stopped.
THEOREM PoisonIsEnough == Spec => []PoisonSuffices
<1>1. IInv => PoisonSuffices
  BY DEF IInv, PoisonInv
<1> QED
  BY <1>1, Invariance, PTL

\* __Producer.run(): the runs asked for are not exceeded by more than the rest of a batch,
\* for every profile and every way of counting the batches.
THEOREM TargetHolds == Spec => []TargetRespected
<1>1. IInv => TargetRespected
  <2> SUFFICES ASSUME IInv, produced > 0
               PROVE  \E i \in DOMAIN Phases : produced < Target + Phases[i].batch
    BY DEF TargetRespected
  <2>1. PICK i \in DOMAIN Phases : produced < inc /\ inc <= Target + Phases[i].batch
    BY DEF IInv, TargetInv
  <2>2. produced \in Nat /\ inc \in Nat /\ Target \in Int /\ Phases[i].batch \in Nat
    BY <2>1, SetupTypes DEF IInv, TypeOK
  <2> QED
    BY <2>1, <2>2
<1> QED
  BY <1>1, Invariance, PTL

-----------------------------------------------------------------------------
(* The pace tokens in the queue are all of one rate, for every profile of  *)
(* every method.                                                           *)

\* The pace tokens of a queue.
PacesIn(q) == {q[i] : i \in {j \in DOMAIN q : q[j].type = "pace"}}

\* The cadencers that say whether the rate has changed, and not what it is.
SaysChange == setup.method \in {"FLAT", "DYNAMIC"}

\* The tokens in the queue were put in the present phase, or at its rate.  What the producer
\* remembers is this rate; or that it has just changed, in a phase that has not ended.
RateInv ==
    /\ \A s, t \in PacesIn(queue) : s = t
    /\ producer \in {"new", "first"} => PacesIn(queue) = {} /\ oldTps = 0
    /\ producer \in {"loop", "put"} => PacesIn(queue) \subseteq {PaceToken(Phases[phase].tps)}
    /\ producer \in {"loop", "put"} /\ SaysChange /\ oldTps # 0 => left > 0
    /\ producer = "put" \/ (producer = "loop" /\ PacesIn(queue) # {}) =>
         SaysChange \/ oldTps = Phases[phase].tps

-----------------------------------------------------------------------------
(* The pace tokens of the queue.                                           *)

LEMMA PacesOfAppend ==
    ASSUME NEW q \in Seq(Tokens), NEW t \in Tokens
    PROVE  /\ t.type = "pace" => PacesIn(Append(q, t)) = PacesIn(q) \cup {t}
           /\ t.type # "pace" => PacesIn(Append(q, t)) = PacesIn(q)
<1> DEFINE r == Append(q, t)
           n == Len(q) + 1
<1>1. /\ DOMAIN q = 1..Len(q) /\ DOMAIN r = 1..n /\ Len(q) \in Nat /\ n \notin DOMAIN q
      /\ r[n] = t
      /\ \A i \in DOMAIN q : r[i] = q[i]
  OBVIOUS
<1>2. DOMAIN r = DOMAIN q \cup {n}
  BY <1>1
<1> HIDE DEF r, n
<1>3. ASSUME t.type = "pace" PROVE PacesIn(r) = PacesIn(q) \cup {t}
  <2>1. PacesIn(r) \subseteq PacesIn(q) \cup {t}
    BY <1>1, <1>2 DEF PacesIn
  <2>2. PacesIn(q) \subseteq PacesIn(r)
    BY <1>1, <1>2 DEF PacesIn
  <2>3. t \in PacesIn(r)
    BY <1>1, <1>2, <1>3 DEF PacesIn
  <2> QED
    BY <2>1, <2>2, <2>3
<1>4. t.type # "pace" => PacesIn(r) = PacesIn(q)
  BY <1>1, <1>2 DEF PacesIn
<1> QED
  BY <1>3, <1>4 DEF r

LEMMA PacesOfTail ==
    ASSUME NEW q \in Seq(Tokens), q # <<>>
    PROVE  PacesIn(Tail(q)) \subseteq PacesIn(q)
<1>1. \A i \in DOMAIN Tail(q) : i + 1 \in DOMAIN q /\ Tail(q)[i] = q[i + 1]
  OBVIOUS
<1> QED
  BY <1>1 DEF PacesIn

LEMMA PacesOfEmpty == PacesIn(<<>>) = {}
  BY DEF PacesIn

LEMMA OtherTokensAreNoPace ==
    /\ ContextToken.type # "pace" /\ AbortToken.type # "pace" /\ PoisonToken.type # "pace"
    /\ \A n \in Nat : PaceToken(n).type = "pace"
  BY DEF ContextToken, AbortToken, PoisonToken, PaceToken

-----------------------------------------------------------------------------
(* The steps.                                                              *)

\* A step of another thread puts no pace token, and at most starts the producer.
LEMMA RateUntouched ==
    ASSUME RateInv, PacesIn(queue') \subseteq PacesIn(queue),
           UNCHANGED <<setup, cadencerVars, oldTps>>,
           producer' = producer \/ (producer = "new" /\ producer' = "first")
    PROVE  RateInv'
  BY DEF RateInv, cadencerVars, SaysChange, Phases

LEMMA RateWorkerStep ==
    ASSUME IInv, RateInv, NEW w \in Threads, WorkerStep(w)
    PROVE  RateInv'
<1>1. UNCHANGED <<setup, cadencerVars, oldTps>>
  BY DEF WorkerStep, Count, CheckCount, Meet, SeeToken, TakeToken, TakeNothing, Enter, WakeUp,
         EndSession, Leave, paceVars
<1>2. producer' = producer \/ (producer = "new" /\ producer' = "first")
  <2>1. CASE Meet(w)
    BY <2>1 DEF Meet, IInv, MeetingInv
  <2>2. CASE ~Meet(w)
    BY <2>2 DEF WorkerStep, Count, CheckCount, SeeToken, TakeToken, TakeNothing, Enter, WakeUp,
                EndSession, Leave
  <2> QED
    BY <2>1, <2>2
<1>3. PacesIn(queue') \subseteq PacesIn(queue)
  <2>1. queue \in Seq(Tokens)
    BY DEF IInv, TypeOK
  <2>2. \/ queue' = queue
        \/ queue # <<>> /\ queue' = Tail(queue)
        \/ queue' = <<>>
        \/ queue' = Append(queue, AbortToken)
    BY DEF WorkerStep, Count, CheckCount, Meet, SeeToken, TakeToken, TakeNothing, Enter, WakeUp,
           EndSession, Leave, Clear, Put
  <2>3. CASE queue' = Append(queue, AbortToken)
    BY <2>1, <2>3, PacesOfAppend, OtherTokensAreNoPace, TokensAreTokens
  <2> QED
    BY <2>1, <2>2, <2>3, PacesOfTail, PacesOfEmpty
<1> QED
  BY <1>1, <1>2, <1>3, RateUntouched

\* An interval: the queue is cleared, or the rate is that of the tokens in the queue.
LEMMA RatePace ==
    ASSUME IInv, RateInv, Pace
    PROVE  RateInv'
<1>1. /\ producer = "loop" /\ Answers /\ producer' = "put" /\ setup' = setup
      /\ phase' = PhaseNow /\ oldTps' = ReportedTps
      /\ left' = IF InPhase THEN left - 1 ELSE Phases[phase + 1].count - 1
      /\ IF ReportedTps # oldTps THEN queue' = <<>> ELSE queue' = queue
  BY DEF Pace, NextInterval, Clear, Answers
<1>2. /\ setup \in Setups /\ phase \in 1..Len(Phases) + 1 /\ left \in Nat
      /\ Len(Phases) \in Nat \ {0}
      /\ \A i \in 1..Len(Phases) : Phases[i].tps \in Nat \ {0} /\ Phases[i].count \in Nat
  BY SetupTypes DEF IInv, TypeOK, Phases
<1>3. /\ PhaseNow \in 1..Len(Phases)
      /\ InPhase => PhaseNow = phase
      /\ ~InPhase => PhaseNow = phase + 1 /\ NextPhaseAnswers
  BY <1>1, <1>2 DEF Answers, InPhase, NextPhaseAnswers, PhaseNow
<1>4. PacesIn(queue') \subseteq {PaceToken(Phases[PhaseNow].tps)}
  <2>1. CASE ReportedTps # oldTps
    BY <1>1, <2>1, PacesOfEmpty
  <2>2. CASE ReportedTps = oldTps
    <3>1. queue' = queue /\ PacesIn(queue) \subseteq {PaceToken(Phases[phase].tps)}
      BY <1>1, <2>2 DEF RateInv
    <3>2. CASE PacesIn(queue) # {}
      <4>1. Phases[PhaseNow].tps = Phases[phase].tps
        <5>1. CASE InPhase
          BY <1>3, <5>1
        <5>2. CASE ~InPhase /\ SaysChange
          <6>1. left = 0
            BY <1>3, <5>2 DEF NextPhaseAnswers
          <6>2. oldTps = 0
            BY <1>1, <5>2, <6>1 DEF RateInv
          <6> QED
            BY <1>3, <2>2, <5>2, <6>2 DEF ReportedTps, SaysChange
        <5>3. CASE ~SaysChange
          BY <1>1, <2>2, <3>2, <5>3 DEF RateInv, ReportedTps, SaysChange
        <5> QED
          BY <5>1, <5>2, <5>3
      <4> QED
        BY <3>1, <4>1
    <3> QED
      BY <3>1, <3>2
  <2> QED
    BY <2>1, <2>2
<1>5. ASSUME SaysChange, oldTps' # 0 PROVE left' > 0
  <2>1. NextPhaseAnswers /\ setup.method \in {"FLAT", "DYNAMIC"}
    BY <1>1, <1>5 DEF ReportedTps, SaysChange
  <2>2. ~InPhase /\ phase + 1 \in 2..Len(Phases)
    BY <1>2, <2>1 DEF NextPhaseAnswers, InPhase
  <2>3. setup.method # "FLAT"
    BY <1>2, <2>2, ThroughputAssumption DEF Phases
  <2>4. Phases[phase + 1].count >= 2
    BY <1>2, <2>1, <2>2, <2>3, ThroughputAssumption DEF Phases
  <2>5. Phases[phase + 1].count \in Nat
    BY <1>2, <2>2
  <2> QED
    BY <1>1, <2>2, <2>4, <2>5
<1>6. SaysChange \/ oldTps' = Phases[PhaseNow].tps
  BY <1>1 DEF SaysChange, ReportedTps
<1>7. SaysChange' = SaysChange /\ Phases' = Phases
  BY <1>1 DEF SaysChange, Phases
<1> QED
  BY <1>1, <1>4, <1>5, <1>6, <1>7 DEF RateInv

LEMMA RateProducerStep ==
    ASSUME IInv, RateInv, ProducerStep
    PROVE  RateInv'
<1>1. queue \in Seq(Tokens) /\ setup' = setup /\ SaysChange' = SaysChange /\ Phases' = Phases
  BY DEF ProducerStep, ProducerDies, FirstInterval, Pace, PutPace, ProducerStops, StopAll,
         PutPoison, IInv, TypeOK, SaysChange, Phases
<1>2. CASE FirstInterval
  BY <1>1, <1>2 DEF FirstInterval, RateInv
<1>3. CASE Pace
  BY <1>3, RatePace
<1>4. CASE PutPace
  <2>1. /\ producer = "put" /\ producer' \in {"loop", "put"}
        /\ queue' = Append(queue, PaceToken(Phases[phase].tps))
        /\ UNCHANGED <<phase, left, oldTps>>
    BY <1>4 DEF PutPace, Put, cadencerVars
  <2>2. Phases[phase].tps \in Nat
    BY <2>1, SetupTypes DEF IInv, PoisonInv, TypeOK, Phases
  <2>3. PacesIn(queue') = PacesIn(queue) \cup {PaceToken(Phases[phase].tps)}
    BY <1>1, <2>1, <2>2, PacesOfAppend, OtherTokensAreNoPace, TokensAreTokens
  <2>4. PacesIn(queue') \subseteq {PaceToken(Phases[phase].tps)}
    BY <2>1, <2>3 DEF RateInv
  <2> QED
    BY <1>1, <2>1, <2>4 DEF RateInv
<1>5. CASE ProducerDies \/ ProducerStops
  BY <1>1, <1>5 DEF ProducerDies, ProducerStops, RateInv
<1>6. CASE StopAll
  BY <1>1, <1>6, PacesOfEmpty DEF StopAll, Clear, RateInv
<1>7. CASE PutPoison
  <2>1. producer' \in {"poison", "done"} /\ queue' = Append(queue, PoisonToken)
    BY <1>7 DEF PutPoison, Put
  <2>2. PacesIn(queue') = PacesIn(queue)
    BY <1>1, <2>1, PacesOfAppend, OtherTokensAreNoPace, TokensAreTokens
  <2> QED
    BY <2>1, <2>2 DEF RateInv
<1> QED
  BY <1>2, <1>3, <1>4, <1>5, <1>6, <1>7 DEF ProducerStep

LEMMA RateStep == IInv /\ RateInv /\ [Next]_vars => RateInv'
<1> SUFFICES ASSUME IInv, RateInv, [Next]_vars PROVE RateInv'
  OBVIOUS
<1>1. CASE PutContext
  <2>1. queue \in Seq(Tokens) /\ queue' = Append(queue, ContextToken)
    BY <1>1 DEF PutContext, Put, IInv, TypeOK
  <2>2. PacesIn(queue') = PacesIn(queue)
    BY <2>1, PacesOfAppend, OtherTokensAreNoPace, TokensAreTokens
  <2> QED
    BY <1>1, <2>2, RateUntouched DEF PutContext, paceVars
<1>2. CASE UNCHANGED vars
  BY <1>2, RateUntouched DEF vars, paceVars
<1> QED
  BY <1>1, <1>2, RateWorkerStep, RateProducerStep DEF Next

\* __Producer.run(): a change of the rate leaves no token of the former rate behind, for every
\* method and profile, and whatever other tokens and clearings come in between.
THEOREM RatesDoNotMix == Spec => []OneRateInQueue
<1>1. Init => RateInv
  BY PacesOfEmpty DEF Init, RateInv
<1>2. RateInv => OneRateInQueue
  BY DEF RateInv, OneRateInQueue, PacesIn
<1> QED
  BY <1>1, <1>2, Invariance, RateStep, PTL DEF Spec
=============================================================================
