------------------------ MODULE AsyncContext_proofs ------------------------
(***************************************************************************)
(* Theorems about AsyncContext, for any sets of calls, identifiers,        *)
(* workers and handlers: its types, its safety (no two threads work on the *)
(* same call, tokens only concern released clones), and that the contexts  *)
(* implement the ledger of calls.  For safety the identifiers are unique   *)
(* and no notification comes by SMPP, whose handler does not look at the   *)
(* lock of a clone.                                                        *)
(***************************************************************************)
EXTENDS AsyncContext, TLAPS

(* TypeOK and the groups of variables of the UNCHANGED clauses.            *)
LEMMA InitTypeOK == Init => TypeOK
  BY ConstantsAssumption DEF Init, TypeOK, WorkerPC, Sending, HandlerPC, ReaperPC

\* The tokens that the program puts in the queue are tokens.
LEMMA TokensAreTokens ==
    /\ AbortToken \in Token
    /\ \A k \in Key : CallbackToken(k) \in Token /\ CallbackToken(k) \in CallbackTokens
    /\ \A c \in Call : ContextTok(c) \in Token
  BY DEF Token, AbortToken, CallbackToken, ContextTok, CallbackTokens, ContextTokens

\* A step of the sending thread preserves the types.
LEMMA SendStepType == ASSUME TypeOK, NEW w \in Worker, SendStep(w) PROVE TypeOK'
<1> USE ConstantsAssumption, TokensAreTokens DEF TypeOK, WorkerPC, Sending, storeVars,
        workerVars, handlerVars, reaperVars, histVars
<1>1. CASE CreateFails(w)
  BY <1>1 DEF CreateFails, Goto
<1>2. CASE AddCtx(w)
  BY <1>2 DEF AddCtx, Goto
<1>3. CASE SendData(w)
  BY <1>3 DEF SendData, Goto
<1>4. CASE StepFails(w)
  BY <1>4 DEF StepFails, Goto
<1>5. CASE StepIsFatal(w)
  BY <1>5 DEF StepIsFatal, BackToIdle
<1>6. CASE CallAfterError(w)
  BY <1>6 DEF CallAfterError, Goto, RemoveFromStore
<1>7. CASE StopScenario(w)
  BY <1>7 DEF StopScenario, BackToIdle
<1>8. CASE StepSucceeds(w)
  BY <1>8 DEF StepSucceeds, Goto
<1>9. CASE IsFlagged(w)
  BY <1>9 DEF IsFlagged, Goto
<1>10. CASE KeepThread(w)
  BY <1>10 DEF KeepThread, BackToIdle, RemoveFromStore
<1>11. CASE Unlock(w)
  BY <1>11 DEF Unlock, BackToIdle
<1> QED
  BY <1>1, <1>2, <1>3, <1>4, <1>5, <1>6, <1>7, <1>8, <1>9, <1>10, <1>11 DEF SendStep

\* A step of a worker that starts a call or handles a token preserves the types.
LEMMA TokenStepType ==
    ASSUME TypeOK, NEW w \in Worker, TokenStep(w) \/ \E c \in Call : CallBefore(w, c)
    PROVE  TypeOK'
<1> USE ConstantsAssumption, TokensAreTokens DEF TypeOK, WorkerPC, Sending, storeVars,
        workerVars, handlerVars, reaperVars, histVars
<1>1. CASE TakeCallback(w)
  <2>1. Head(queue).key \in Key
    BY <1>1 DEF TakeCallback, CallbackTokens
  <2>2. Tail(queue) \in Seq(Token)
    BY <1>1 DEF TakeCallback
  <2> QED
    BY <1>1, <2>1, <2>2 DEF TakeCallback
<1>2. CASE TakeOther(w)
  BY <1>2 DEF TakeOther
<1>3. CASE PopCtxValue(w)
  <2>1. wpc[w] = "resume" /\ wkey[w] \in Key /\ store' \in [Key -> Call \cup {NoCall}]
    BY <1>3 DEF PopCtxValue, RemoveFromStore
  <2>2. CASE store[wkey[w]] = NoCall
    <3>1. /\ BackToIdle(w)
          /\ UNCHANGED <<locked, flagged, waiting, queue, handlerVars, reaperVars,
                         requested, clears, histVars>>
      BY <1>3, <2>2 DEF PopCtxValue
    <3> QED
      BY <2>1, <3>1 DEF BackToIdle
  <2>3. CASE store[wkey[w]] # NoCall
    <3> DEFINE c == store[wkey[w]]
    <3>1. c \in Call
      BY <2>1, <2>3
    <3>2. /\ wpc' = [wpc EXCEPT ![w] = "callback"]
          /\ wcall' = [wcall EXCEPT ![w] = c]
          /\ wkey' = [wkey EXCEPT ![w] = NoKey]
          /\ answers' = [answers EXCEPT ![c] = @ + 1]
          /\ UNCHANGED <<locked, flagged, waiting, queue, handlerVars, reaperVars,
                         requested, clears, added, failed>>
      BY <1>3, <2>3 DEF PopCtxValue
    <3> QED
      BY <2>1, <3>1, <3>2
  <2> QED
    BY <2>2, <2>3
<1>4. CASE ProcessCallback(w)
  BY <1>4 DEF ProcessCallback, BackToIdle
<1>5. CASE ProcessCallbackFails(w)
  BY <1>5 DEF ProcessCallbackFails, BackToIdle
<1>6. ASSUME NEW c \in Call, CallBefore(w, c) PROVE TypeOK'
  BY <1>6 DEF CallBefore
<1> QED
  BY <1>1, <1>2, <1>3, <1>4, <1>5, <1>6 DEF TokenStep

\* So does a step of a handler,
LEMMA HandlerStepType ==
    ASSUME TypeOK, NEW h \in Handler, HandlerStep(h) \/ \E k \in Key : Receive(h, k)
    PROVE  TypeOK'
<1> USE ConstantsAssumption, TokensAreTokens DEF TypeOK, HandlerPC, HandlerGoto, storeVars,
        workerVars, handlerVars, reaperVars, histVars
<1>1. CASE Exists(h)
  BY <1>1 DEF Exists
<1>2. CASE LockAndUpdateFlag(h)
  BY <1>2 DEF LockAndUpdateFlag
<1>3. CASE PutCallbackToken(h)
  BY <1>3 DEF PutCallbackToken
<1>4. ASSUME NEW k \in Key, Receive(h, k) PROVE TypeOK'
  BY <1>4 DEF Receive
<1> QED
  BY <1>1, <1>2, <1>3, <1>4 DEF HandlerStep

\* and a step of the reaper, of the clock, or of a thread that clears the queue.
LEMMA ReaperStepType ==
    ASSUME TypeOK, ReaperStep \/ ClearQueue \/ \E c \in Call : Expire(c)
    PROVE  TypeOK'
<1> USE ConstantsAssumption, TokensAreTokens DEF TypeOK, ReaperPC, storeVars,
        workerVars, handlerVars, reaperVars, histVars
<1>1. CASE SweepStart
  BY <1>1 DEF SweepStart
<1>2. ASSUME NEW c \in Call, EndTimedOut(c) PROVE TypeOK'
  BY <1>2 DEF EndTimedOut
<1>3. CASE ReapCtx
  <2>1. victim \in Call /\ KeyOf[victim] \in Key
    BY <1>3 DEF ReapCtx
  <2>2. CASE store[KeyOf[victim]] = NoCall
    BY <1>3, <2>1, <2>2 DEF ReapCtx
  <2>3. CASE store[KeyOf[victim]] # NoCall
    <3>1. /\ reaper' = IF sweep = {} THEN "sleep" ELSE "visit"
          /\ RemoveFromStore(KeyOf[victim])
          /\ waiting' = waiting - 1
          /\ victim' = NoCall
          /\ UNCHANGED <<sweep, locked, flagged, queue, workerVars, handlerVars, expired,
                         timeouts, requested, clears, histVars>>
      BY <1>3, <2>3 DEF ReapCtx
    <3>2. reaper' \in ReaperPC /\ reaper' # "pop"
      BY <3>1
    <3>3. store' \in [Key -> Call \cup {NoCall}]
      BY <2>1, <3>1 DEF RemoveFromStore
    <3> QED
      BY <3>1, <3>2, <3>3
  <2> QED
    BY <1>3, <2>2, <2>3
<1>4. CASE ClearQueue
  BY <1>4 DEF ClearQueue
<1>5. ASSUME NEW c \in Call, Expire(c) PROVE TypeOK'
  BY <1>5 DEF Expire
<1> QED
  BY <1>1, <1>2, <1>3, <1>4, <1>5 DEF ReaperStep

\* Type correctness of the threads, the store and the queue.
THEOREM TypeCorrect == Spec => []TypeOK
<1>1. TypeOK /\ [Next]_vars => TypeOK'
  <2> SUFFICES ASSUME TypeOK, [Next]_vars PROVE TypeOK'
    OBVIOUS
  <2>1. CASE Next
    BY <2>1, SendStepType, TokenStepType, HandlerStepType, ReaperStepType DEF Next
  <2>2. CASE UNCHANGED vars
    BY <2>2 DEF TypeOK, vars, storeVars, workerVars, handlerVars, reaperVars, histVars
  <2> QED
    BY <2>1, <2>2
<1> QED
  BY InitTypeOK, <1>1, PTL DEF Spec
-----------------------------------------------------------------------------

\* no token appears
NoNewToken == \A k \in Key : TokenFor(k)' => TokenFor(k)

\* the only locals of a worker that a step changes are those of w
OnlyWorker(w) ==
    \A v \in Worker : v # w => wpc'[v] = wpc[v] /\ wcall'[v] = wcall[v] /\ wkey'[v] = wkey[v]

\* At the start no call has begun, and there is nothing to go wrong.
LEMMA InitCallInv == Init => CallInv
  BY ConstantsAssumption
  DEF Init, CallInv, StoreIsSound, ExclusiveContext, SenderOwnsClone, ResumedIsReleased,
      TokensAreReleased, AnsweredOnce, ReaperIsPrompt, VisitedIsStored,
      ReaperDeathNeedsRace, TokenFor, Sending

\* A released clone is not locked: tokens only come from released clones when the
\* lock of a clone never goes up again.
LEMMA TokensStayReleased ==
    ASSUME TokensAreReleased, NoNewToken, added \subseteq added', locked' \subseteq locked
    PROVE  TokensAreReleased'
  BY DEF TokensAreReleased, NoNewToken

\* Nothing of what concerns a call changes: neither its thread, nor its clone.
LEMMA CallsUntouched ==
    ASSUME TypeOK, CallInv, TokensAreReleased',
           UNCHANGED <<store, locked, added, failed, answers, timeouts, reaper, sweep,
                       victim, wcall>>,
           \A v \in Worker : wpc'[v] = wpc[v] \/ (wpc[v] = "idle" /\ wpc'[v] = "resume")
    PROVE  CallInv'
<1> USE DEF CallInv, Sending
<1>1. StoreIsSound' /\ ExclusiveContext' /\ AnsweredOnce'
  BY DEF StoreIsSound, ExclusiveContext, AnsweredOnce, Stored
<1>2. SenderOwnsClone'
  BY DEF SenderOwnsClone, Stored
<1>3. ResumedIsReleased'
  BY DEF ResumedIsReleased, Stored
<1>4. \A c \in Call : Ended(c) => Ended(c)'
  BY DEF Ended
<1>5. ReaperIsPrompt'
  BY DEF ReaperIsPrompt, Stored
<1>6. VisitedIsStored' /\ ReaperDeathNeedsRace'
  BY <1>4 DEF VisitedIsStored, ReaperDeathNeedsRace, Stored, TypeOK
<1> QED
  BY <1>1, <1>2, <1>3, <1>5, <1>6

\* A step of the sender that goes on with its call, or has just failed it.
LEMMA SenderGoesOn ==
    ASSUME TypeOK, CallInv, NEW w \in Worker, NEW pc \in Sending, Goto(w, pc),
           wpc[w] \in (Sending \ {"stop"}) \cup {"create"},
           wpc[w] = "create" => pc = "stop",
           UNCHANGED <<storeVars, handlerVars, reaperVars, histVars>>, NoNewToken
    PROVE  CallInv'
<1> USE DEF CallInv, Sending
<1>1. /\ wpc'[w] = pc /\ wcall' = wcall
      /\ \A v \in Worker : v # w => wpc'[v] = wpc[v]
      /\ wcall[w] \in Call
      /\ UNCHANGED <<store, locked, added, failed, answers, timeouts, reaper, sweep, victim>>
  BY DEF Goto, TypeOK, storeVars, reaperVars, histVars
<1>2. StoreIsSound' /\ ExclusiveContext' /\ AnsweredOnce'
  BY <1>1 DEF StoreIsSound, ExclusiveContext, AnsweredOnce, Stored
<1>3. answers[wcall[w]] = 0
  BY <1>1 DEF SenderOwnsClone, AnsweredOnce, TypeOK
<1>4. SenderOwnsClone'
  BY <1>1, <1>3 DEF SenderOwnsClone, Stored
<1>5. ResumedIsReleased'
  BY <1>1 DEF ResumedIsReleased, Stored
<1>6. TokensAreReleased'
  BY <1>1, TokensStayReleased
<1>7. \A c \in Call : Ended(c) => Ended(c)'
  BY <1>1 DEF Ended
<1>8. ReaperIsPrompt'
  BY <1>1 DEF ReaperIsPrompt, Stored
<1>9. VisitedIsStored' /\ ReaperDeathNeedsRace'
  BY <1>1, <1>7 DEF VisitedIsStored, ReaperDeathNeedsRace, Stored, TypeOK
<1> QED
  BY <1>2, <1>4, <1>5, <1>6, <1>8, <1>9

\* A worker leaves its call, which a failed step has reported.
LEMMA WorkerLeaves ==
    ASSUME TypeOK, CallInv, NEW w \in Worker, BackToIdle(w),
           failed \subseteq failed', wpc[w] = "stop" => wcall[w] \in failed',
           locked' \subseteq locked, locked \ {wcall[w]} \subseteq locked',
           UNCHANGED <<store, added, answers, timeouts, reaper, sweep, victim>>, NoNewToken
    PROVE  CallInv'
<1> USE DEF CallInv, Sending
<1>1. /\ wpc'[w] = "idle" /\ wcall'[w] = NoCall
      /\ \A v \in Worker : v # w => wpc'[v] = wpc[v] /\ wcall'[v] = wcall[v]
      /\ \A v \in Worker : wpc[v] \in Sending \cup {"callback"} => wcall[v] \in Call
  BY DEF BackToIdle, TypeOK
<1>2. StoreIsSound' /\ ExclusiveContext' /\ AnsweredOnce'
  BY <1>1 DEF StoreIsSound, ExclusiveContext, AnsweredOnce, Stored
<1>3. \A v \in Worker : v # w /\ wpc[v] \in Sending => wcall[v] # wcall[w]
  BY <1>1, ConstantsAssumption DEF ExclusiveContext
<1>4. SenderOwnsClone'
  BY <1>1, <1>3 DEF SenderOwnsClone, Stored
<1>5. ResumedIsReleased'
  BY <1>1 DEF ResumedIsReleased, Stored
<1>6. TokensAreReleased'
  BY TokensStayReleased
<1>7. \A c \in Call : Ended(c) => Ended(c)'
  BY <1>1 DEF Ended
<1>8. ReaperIsPrompt'
  BY DEF ReaperIsPrompt, Stored
<1>9. VisitedIsStored' /\ ReaperDeathNeedsRace'
  BY <1>7 DEF VisitedIsStored, ReaperDeathNeedsRace, Stored, TypeOK
<1> QED
  BY <1>2, <1>4, <1>5, <1>6, <1>8, <1>9

\* What the queue gets from failures and timeouts resumes nobody.
LEMMA NoTokenAppears ==
    ASSUME TypeOK, UNCHANGED <<hpc, hkey>>,
           NEW t \in Token, t \notin CallbackTokens, queue' \in {queue, Append(queue, t), <<>>},
           \A v \in Worker : wpc'[v] = "resume" => wpc[v] = "resume" /\ wkey'[v] = wkey[v]
    PROVE  NoNewToken
<1> SUFFICES ASSUME NEW k \in Key, TokenFor(k)' PROVE TokenFor(k)
  BY DEF NoNewToken
<1>1. CASE \E i \in 1..Len(queue') : queue'[i] = CallbackToken(k)
  <2>1. PICK i \in 1..Len(queue') : queue'[i] = CallbackToken(k)
    BY <1>1
  <2>2. CallbackToken(k) # t /\ queue \in Seq(Token)
    BY TokensAreTokens DEF TypeOK
  <2>3. queue' # <<>>
    BY <2>1
  <2>4. CASE queue' = Append(queue, t)
    <3>1. Len(queue') = Len(queue) + 1 /\ queue'[Len(queue) + 1] = t
          /\ \A j \in 1..Len(queue) : queue'[j] = queue[j]
      BY <2>2, <2>4
    <3>2. i # Len(queue) + 1
      BY <2>1, <2>2, <3>1
    <3>3. i \in 1..Len(queue) /\ queue[i] = CallbackToken(k)
      BY <2>1, <2>2, <3>1, <3>2
    <3> QED
      BY <3>3 DEF TokenFor
  <2>5. CASE queue' = queue
    BY <2>1, <2>5 DEF TokenFor
  <2> QED
    BY <2>3, <2>4, <2>5
<1>2. CASE \E h \in Handler : hpc'[h] = "put" /\ hkey'[h] = k
  BY <1>2 DEF TokenFor
<1>3. CASE \E w \in Worker : wpc'[w] = "resume" /\ wkey'[w] = k
  BY <1>3 DEF TokenFor
<1> QED
  BY <1>1, <1>2, <1>3 DEF TokenFor

\* An AbortRunToken is not the token of a notification.
LEMMA AbortResumesNobody == AbortToken \in Token \ CallbackTokens
  BY DEF AbortToken, Token, CallbackTokens

\* Removing the entry of a call concerns no other call.
LEMMA RemovalIsLocal ==
    ASSUME UniqueKeys, TypeOK, NEW c \in Call, RemoveFromStore(KeyOf[c])
    PROVE  /\ ~Stored(c)'
           /\ \A d \in Call : d # c => (Stored(d)' <=> Stored(d))
           /\ \A k \in Key : store'[k] # NoCall => store'[k] = store[k]
  BY ConstantsAssumption DEF UniqueKeys, TypeOK, RemoveFromStore, Stored

\* The actions that change the store one by one: the sender stores its clone,
LEMMA AddCtxInv ==
    ASSUME UniqueKeys, TypeOK, CallInv, NEW w \in Worker, AddCtx(w)
    PROVE  CallInv'
<1> USE DEF CallInv
<1> DEFINE c == wcall[w]
<1>1. /\ c \in Call /\ KeyOf[c] \in Key /\ wpc[w] = "create" /\ wpc'[w] = "send"
      /\ wcall' = wcall /\ \A v \in Worker : v # w => wpc'[v] = wpc[v]
      /\ locked' = locked \cup {c} /\ added' = added \cup {c}
      /\ UNCHANGED <<queue, hpc, hkey, wkey, failed, answers, timeouts, reaper, sweep, victim>>
  BY ConstantsAssumption DEF AddCtx, Goto, TypeOK, handlerVars, reaperVars
<1>2. /\ store'[KeyOf[c]] = c
      /\ \A k \in Key : k # KeyOf[c] => store'[k] = store[k]
      /\ \A d \in Call : d # c => KeyOf[d] # KeyOf[c] /\ KeyOf[d] \in Key
  BY <1>1, ConstantsAssumption DEF AddCtx, TypeOK, UniqueKeys
<1>3. c \notin added /\ answers[c] = 0 /\ timeouts[c] = 0 /\ c \notin sweep
  BY <1>1 DEF SenderOwnsClone, AnsweredOnce, ReaperIsPrompt, TypeOK
<1>4. Stored(c)' /\ \A d \in Call : d # c => (Stored(d)' <=> Stored(d))
  BY <1>1, <1>2 DEF Stored
<1>5. \A v \in Worker : v # w => wcall[v] # c
  BY <1>1, ConstantsAssumption DEF ExclusiveContext
<1>6. \A v \in Worker : wpc[v] \in Sending \cup {"callback"} => wcall[v] \in Call
  BY DEF TypeOK
<1>7. StoreIsSound'
  BY <1>1, <1>2 DEF StoreIsSound
<1>8. ExclusiveContext'
  BY <1>1 DEF ExclusiveContext
<1>9. SenderOwnsClone'
  BY <1>1, <1>3, <1>4, <1>5, <1>6 DEF SenderOwnsClone, Sending
<1>10. ResumedIsReleased'
  BY <1>1, <1>3, <1>4, <1>6 DEF ResumedIsReleased
<1>11. TokensAreReleased'
  <2>1. NoNewToken
    BY <1>1 DEF NoNewToken, TokenFor
  <2> QED
    BY <1>1, <1>3, <2>1 DEF TokensAreReleased, NoNewToken
<1>12. AnsweredOnce'
  BY <1>1, <1>3, <1>4 DEF AnsweredOnce
<1>13. ReaperIsPrompt'
  BY <1>1, <1>3, <1>4 DEF ReaperIsPrompt
<1>14. \A d \in Call : Ended(d) => Ended(d)'
  BY <1>1 DEF Ended
<1>15. VisitedIsStored' /\ ReaperDeathNeedsRace'
  BY <1>1, <1>4, <1>14 DEF VisitedIsStored, ReaperDeathNeedsRace, TypeOK
<1> QED
  BY <1>7, <1>8, <1>9, <1>10, <1>11, <1>12, <1>13, <1>15

\* an error code makes it remove the clone again,
LEMMA CallAfterErrorInv ==
    ASSUME UniqueKeys, Smpp = {}, TypeOK, CallInv, NEW w \in Worker, CallAfterError(w)
    PROVE  CallInv'
<1> USE DEF CallInv
<1> DEFINE c == wcall[w]
<1>1. /\ c \in Call /\ wpc[w] = "reply" /\ wpc'[w] = "stop"
      /\ wcall' = wcall /\ \A v \in Worker : v # w => wpc'[v] = wpc[v]
      /\ queue' = Append(queue, AbortToken)
      /\ RemoveFromStore(KeyOf[c])
      /\ UNCHANGED <<hpc, hkey, wkey, locked, added, failed, answers, timeouts, reaper, sweep,
                     victim>>
  BY DEF CallAfterError, Goto, TypeOK, Sending, handlerVars, reaperVars, histVars
<1>2. /\ ~Stored(c)' /\ \A d \in Call : d # c => (Stored(d)' <=> Stored(d))
      /\ \A k \in Key : store'[k] # NoCall => store'[k] = store[k]
  BY <1>1, RemovalIsLocal
<1>3. c \in added /\ c \in locked /\ answers[c] = 0
  BY <1>1 DEF SenderOwnsClone, Sending
<1>4. \A v \in Worker : v # w => wcall[v] # c
  BY <1>1, ConstantsAssumption DEF ExclusiveContext
<1>5. \A v \in Worker : wpc[v] \in Sending \cup {"callback"} => wcall[v] \in Call
  BY DEF TypeOK
<1>6. StoreIsSound' /\ ExclusiveContext'
  BY <1>1, <1>2 DEF StoreIsSound, ExclusiveContext
<1>7. SenderOwnsClone'
  BY <1>1, <1>2, <1>3, <1>4, <1>5 DEF SenderOwnsClone, Sending
<1>8. ResumedIsReleased'
  BY <1>1, <1>2, <1>5 DEF ResumedIsReleased
<1>9. TokensAreReleased'
  <2>1. NoNewToken
    BY <1>1, NoTokenAppears, AbortResumesNobody
  <2> QED
    BY <1>1, <2>1, TokensStayReleased
<1>10. AnsweredOnce'
  BY <1>1, <1>2 DEF AnsweredOnce
<1>11. ReaperIsPrompt'
  BY <1>1, <1>2 DEF ReaperIsPrompt
<1>12. Ended(c)' /\ \A d \in Call : Ended(d) => Ended(d)'
  BY <1>1 DEF Ended
<1>13. VisitedIsStored' /\ ReaperDeathNeedsRace'
  BY <1>1, <1>2, <1>12 DEF VisitedIsStored, ReaperDeathNeedsRace, TypeOK
<1> QED
  BY <1>6, <1>7, <1>8, <1>9, <1>10, <1>11, <1>13

\* the thread that finds its clone flagged consumes the notification itself,
LEMMA KeepThreadInv ==
    ASSUME UniqueKeys, TypeOK, CallInv, NEW w \in Worker, NEW c \in Call, wcall[w] = c,
           KeepThread(w)
    PROVE  CallInv'
<1> USE DEF CallInv
<1>1. /\ wpc[w] = "keep" /\ wpc'[w] = "idle" /\ wcall'[w] = NoCall
      /\ \A v \in Worker : v # w => wpc'[v] = wpc[v] /\ wcall'[v] = wcall[v] /\ wkey'[v] = wkey[v]
      /\ answers' = [answers EXCEPT ![c] = @ + 1]
      /\ RemoveFromStore(KeyOf[c])
      /\ UNCHANGED <<queue, hpc, hkey, locked, added, failed, timeouts, reaper, sweep, victim>>
  BY DEF KeepThread, BackToIdle, TypeOK, Sending, handlerVars, reaperVars
<1>2. /\ ~Stored(c)' /\ \A d \in Call : d # c => (Stored(d)' <=> Stored(d))
      /\ \A k \in Key : store'[k] # NoCall => store'[k] = store[k]
  BY <1>1, RemovalIsLocal
<1>3. c \in added /\ c \in locked
  BY <1>1 DEF SenderOwnsClone, Sending
<1>4. answers'[c] > 0 /\ \A d \in Call : d # c => answers'[d] = answers[d]
  <2>1. answers[c] \in Nat
    BY <1>1 DEF TypeOK
  <2> QED
    BY <1>1, <2>1 DEF TypeOK
<1>5. \A v \in Worker : v # w => wcall[v] # c
  BY <1>1, ConstantsAssumption DEF ExclusiveContext
<1>6. \A v \in Worker : wpc[v] \in Sending \cup {"callback"} => wcall[v] \in Call
  BY DEF TypeOK
<1>7. StoreIsSound' /\ ExclusiveContext'
  BY <1>1, <1>2 DEF StoreIsSound, ExclusiveContext
<1>8. SenderOwnsClone'
  BY <1>1, <1>2, <1>4, <1>5, <1>6 DEF SenderOwnsClone, Sending
<1>9. ResumedIsReleased'
  BY <1>1, <1>2, <1>6 DEF ResumedIsReleased
<1>10. TokensAreReleased'
  <2>1. NoNewToken
    BY <1>1, NoTokenAppears, AbortResumesNobody
  <2> QED
    BY <1>1, <2>1, TokensStayReleased
<1>11. AnsweredOnce'
  BY <1>1, <1>2, <1>3, <1>4 DEF AnsweredOnce
<1>12. ReaperIsPrompt'
  BY <1>1, <1>2 DEF ReaperIsPrompt
<1>13. Ended(c)' /\ \A d \in Call : Ended(d) => Ended(d)'
  BY <1>1, <1>4 DEF Ended
<1>14. VisitedIsStored' /\ ReaperDeathNeedsRace'
  BY <1>1, <1>2, <1>13 DEF VisitedIsStored, ReaperDeathNeedsRace, TypeOK
<1> QED
  BY <1>7, <1>8, <1>9, <1>10, <1>11, <1>12, <1>14

\* and a worker takes the clone that its token names: nobody else has it.
LEMMA PopCtxValueInv ==
    ASSUME UniqueKeys, TypeOK, CallInv, NEW w \in Worker, NEW c \in Call, store[wkey[w]] = c,
           PopCtxValue(w)
    PROVE  CallInv'
<1> USE DEF CallInv
<1>1. /\ wpc[w] = "resume" /\ wkey[w] \in Key /\ wcall[w] = NoCall
      /\ wpc'[w] = "callback" /\ wcall'[w] = c
      /\ \A v \in Worker : v # w => wpc'[v] = wpc[v] /\ wcall'[v] = wcall[v] /\ wkey'[v] = wkey[v]
      /\ answers' = [answers EXCEPT ![c] = @ + 1]
      /\ UNCHANGED <<queue, hpc, hkey, locked, added, failed, timeouts, reaper, sweep, victim>>
  <2>1. wpc[w] = "resume" /\ wkey[w] \in Key /\ wcall[w] = NoCall
    BY DEF PopCtxValue, TypeOK
  <2>2. /\ wpc' = [wpc EXCEPT ![w] = "callback"]
        /\ wcall' = [wcall EXCEPT ![w] = c]
        /\ wkey' = [wkey EXCEPT ![w] = NoKey]
        /\ answers' = [answers EXCEPT ![c] = @ + 1]
        /\ UNCHANGED <<queue, hpc, hkey, locked, added, failed, timeouts, reaper, sweep, victim>>
    BY ConstantsAssumption DEF PopCtxValue, handlerVars, reaperVars
  <2> QED
    BY <2>1, <2>2 DEF TypeOK
<1>2. KeyOf[c] = wkey[w] /\ c \in added /\ RemoveFromStore(KeyOf[c])
  BY <1>1, ConstantsAssumption DEF StoreIsSound, PopCtxValue
<1>3. /\ ~Stored(c)' /\ \A d \in Call : d # c => (Stored(d)' <=> Stored(d))
      /\ \A k \in Key : store'[k] # NoCall => store'[k] = store[k]
  BY <1>1, <1>2, RemovalIsLocal
<1>4. c \notin locked
  BY <1>1, <1>2 DEF TokensAreReleased, TokenFor
<1>5. answers'[c] > 0 /\ \A d \in Call : d # c => answers'[d] = answers[d]
  <2>1. answers[c] \in Nat
    BY <1>1 DEF TypeOK
  <2> QED
    BY <1>1, <2>1 DEF TypeOK
<1>6. \A v \in Worker : wpc[v] \in Sending \cup {"create", "callback"} => wcall[v] \in Call /\ wcall[v] # c
  <2> SUFFICES ASSUME NEW v \in Worker, wpc[v] \in Sending \cup {"create", "callback"}
               PROVE  wcall[v] \in Call /\ wcall[v] # c
    OBVIOUS
  <2>1. wcall[v] \in Call
    BY DEF TypeOK
  <2>2. CASE wpc[v] \in Sending
    BY <2>1, <1>2, <1>4, <2>2 DEF SenderOwnsClone
  <2>3. CASE wpc[v] = "create"
    BY <2>1, <1>2, <2>3 DEF SenderOwnsClone
  <2>4. CASE wpc[v] = "callback"
    BY <2>1, <1>2, <2>4 DEF ResumedIsReleased, Stored
  <2> QED
    BY <2>1, <2>2, <2>3, <2>4
<1>7. \A v \in Worker : v # w => wcall'[v] # c
  BY <1>1, <1>6, ConstantsAssumption DEF TypeOK, WorkerPC
<1>8. StoreIsSound'
  BY <1>1, <1>3 DEF StoreIsSound
<1>9. ExclusiveContext'
  BY <1>1, <1>7 DEF ExclusiveContext
<1>10. SenderOwnsClone'
  BY <1>1, <1>3, <1>5, <1>6 DEF SenderOwnsClone, Sending
<1>11. ResumedIsReleased'
  BY <1>1, <1>2, <1>3, <1>4, <1>6 DEF ResumedIsReleased
<1>12. TokensAreReleased'
  <2>1. NoNewToken
    BY <1>1, NoTokenAppears, AbortResumesNobody
  <2> QED
    BY <1>1, <2>1, TokensStayReleased
<1>13. AnsweredOnce'
  BY <1>1, <1>2, <1>3, <1>5 DEF AnsweredOnce
<1>14. ReaperIsPrompt'
  BY <1>1, <1>3 DEF ReaperIsPrompt
<1>15. Ended(c)' /\ \A d \in Call : Ended(d) => Ended(d)'
  BY <1>1, <1>5 DEF Ended
<1>16. VisitedIsStored' /\ ReaperDeathNeedsRace'
  BY <1>1, <1>3, <1>15 DEF VisitedIsStored, ReaperDeathNeedsRace, TypeOK
<1> QED
  BY <1>8, <1>9, <1>10, <1>11, <1>12, <1>13, <1>14, <1>16

\* A call that starts belongs to one thread.
LEMMA CallBeforeInv ==
    ASSUME TypeOK, CallInv, NEW w \in Worker, NEW c \in Call, CallBefore(w, c)
    PROVE  CallInv'
<1> USE DEF CallInv
<1>1. /\ wpc[w] = "idle" /\ wcall[w] = NoCall /\ wpc'[w] = "create" /\ wcall'[w] = c
      /\ c \notin added /\ \A v \in Worker : wcall[v] # c
      /\ \A v \in Worker : v # w => wpc'[v] = wpc[v] /\ wcall'[v] = wcall[v] /\ wkey'[v] = wkey[v]
      /\ UNCHANGED <<store, queue, hpc, hkey, locked, added, failed, answers, timeouts, reaper,
                     sweep, victim>>
  BY DEF CallBefore, Fresh, TypeOK, handlerVars, reaperVars, histVars
<1>2. StoreIsSound' /\ ExclusiveContext' /\ AnsweredOnce'
  BY <1>1 DEF StoreIsSound, ExclusiveContext, AnsweredOnce, Stored
<1>3. SenderOwnsClone'
  BY <1>1 DEF SenderOwnsClone, Stored, Sending
<1>4. ResumedIsReleased'
  BY <1>1 DEF ResumedIsReleased, Stored
<1>5. TokensAreReleased'
  <2>1. NoNewToken
    BY <1>1, NoTokenAppears, AbortResumesNobody
  <2> QED
    BY <1>1, <2>1, TokensStayReleased
<1>6. \A d \in Call : Ended(d) => Ended(d)'
  BY <1>1 DEF Ended
<1>7. ReaperIsPrompt'
  BY <1>1 DEF ReaperIsPrompt, Stored
<1>8. VisitedIsStored' /\ ReaperDeathNeedsRace'
  BY <1>1, <1>6 DEF VisitedIsStored, ReaperDeathNeedsRace, Stored, TypeOK
<1> QED
  BY <1>2, <1>3, <1>4, <1>5, <1>7, <1>8

\* The reaper: what it changes of a call that threads may be using.
LEMMA ReaperLeavesThreads ==
    ASSUME TypeOK, CallInv,
           UNCHANGED <<workerVars, handlerVars, locked, histVars>>,
           NEW t \in Token, t \notin CallbackTokens, queue' \in {queue, Append(queue, t)}
    PROVE  /\ ExclusiveContext' /\ TokensAreReleased'
           /\ \A c \in Call : Ended(c)' <=> Ended(c)
<1>1. UNCHANGED <<wpc, wcall, wkey, hpc, hkey, locked, added, failed, answers>>
  BY DEF workerVars, handlerVars, histVars
<1>2. NoNewToken
  BY <1>1, NoTokenAppears
<1>3. TokensAreReleased'
  BY <1>1, <1>2, TokensStayReleased DEF CallInv
<1>4. ExclusiveContext'
  BY <1>1 DEF CallInv, ExclusiveContext
<1>5. \A c \in Call : Ended(c)' <=> Ended(c)
  BY <1>1 DEF Ended
<1> QED
  BY <1>3, <1>4, <1>5

\* The reaper's snapshot: every entry in it is stored and not timed out yet.
LEMMA SweepStartInv == ASSUME TypeOK, CallInv, SweepStart PROVE CallInv'
<1> USE DEF CallInv
<1>1. /\ UNCHANGED <<workerVars, handlerVars, queue, store, locked, victim, timeouts, histVars>>
      /\ reaper = "sleep" /\ reaper' = "visit"
      /\ sweep' \subseteq Call /\ \A c \in sweep' : Stored(c)
  BY DEF SweepStart, TypeOK, storeVars, Stored
<1>2. UNCHANGED <<wpc, wcall, wkey, added, failed, answers>>
  BY <1>1 DEF workerVars, histVars
<1>3. ExclusiveContext' /\ TokensAreReleased' /\ \A c \in Call : Ended(c)' <=> Ended(c)
  BY <1>1, ReaperLeavesThreads, AbortResumesNobody
<1>4. StoreIsSound' /\ AnsweredOnce'
  BY <1>1, <1>2 DEF StoreIsSound, AnsweredOnce, Stored
<1>5. SenderOwnsClone' /\ ResumedIsReleased'
  BY <1>1, <1>2 DEF SenderOwnsClone, ResumedIsReleased, Stored
<1>6. \A c \in sweep' : c \in added /\ timeouts[c] = 0
  BY <1>1, ConstantsAssumption DEF StoreIsSound, Stored, ReaperIsPrompt, TypeOK
<1>7. ReaperIsPrompt'
  BY <1>1, <1>2, <1>6 DEF ReaperIsPrompt, Stored
<1>8. VisitedIsStored' /\ ReaperDeathNeedsRace'
  BY <1>1, <1>2 DEF VisitedIsStored, ReaperDeathNeedsRace, Stored
<1> QED
  BY <1>3, <1>4, <1>5, <1>7, <1>8

\* The reaper declares a timeout, which puts no notification token.
LEMMA EndTimedOutInv ==
    ASSUME TypeOK, CallInv, NEW c \in Call, EndTimedOut(c) PROVE CallInv'
<1> USE DEF CallInv
<1>1. /\ UNCHANGED <<workerVars, handlerVars, store, locked, histVars>>
      /\ reaper = "visit" /\ reaper' = "pop" /\ c \in sweep /\ sweep' = sweep \ {c}
      /\ victim' = c
      /\ timeouts'[c] > 0 /\ \A d \in Call : d # c => timeouts'[d] = timeouts[d]
  <2>1. timeouts[c] \in Nat
    BY DEF TypeOK
  <2> QED
    BY <2>1 DEF EndTimedOut, TypeOK, storeVars
<1>2. UNCHANGED <<wpc, wcall, wkey, added, failed, answers>>
  BY <1>1 DEF workerVars, histVars
<1>3. PICK t \in Token : t \notin CallbackTokens /\ queue' = Append(queue, t)
  <2>1. ContextTok(c) \in Token \ CallbackTokens
    BY DEF ContextTok, Token, ContextTokens, CallbackTokens
  <2> QED
    BY <2>1, AbortResumesNobody DEF EndTimedOut
<1>4. ExclusiveContext' /\ TokensAreReleased' /\ \A d \in Call : Ended(d)' <=> Ended(d)
  BY <1>1, <1>3, ReaperLeavesThreads
<1>5. StoreIsSound' /\ AnsweredOnce'
  BY <1>1, <1>2 DEF StoreIsSound, AnsweredOnce, Stored
<1>6. SenderOwnsClone' /\ ResumedIsReleased'
  <2>1. \A w \in Worker : wpc[w] \in Sending => wcall[w] \in Call
    BY DEF TypeOK
  <2> QED
    BY <1>1, <1>2, <2>1 DEF SenderOwnsClone, ResumedIsReleased, Stored
<1>7. ReaperIsPrompt'
  BY <1>1, <1>2 DEF ReaperIsPrompt, Stored, TypeOK
<1>8. VisitedIsStored' /\ ReaperDeathNeedsRace'
  BY <1>1, <1>2, <1>4 DEF VisitedIsStored, ReaperDeathNeedsRace, Stored, TypeOK
<1> QED
  BY <1>4, <1>5, <1>6, <1>7, <1>8

\* The entry that the reaper removes is that of its victim, if there is one.
LEMMA ReapCtxInv == ASSUME UniqueKeys, TypeOK, CallInv, NEW c \in Call, victim = c, ReapCtx PROVE CallInv'
<1> USE DEF CallInv
<1>1. /\ UNCHANGED <<workerVars, handlerVars, queue, locked, timeouts, histVars>>
      /\ reaper = "pop" /\ victim' = NoCall
      /\ reaper' # "pop" /\ sweep' \subseteq sweep
      /\ sweep' # {} => reaper' = "visit"
      /\ reaper' = "dead" => store[KeyOf[c]] = NoCall
  BY DEF ReapCtx, TypeOK
<1>2. UNCHANGED <<wpc, wcall, wkey, added, failed, answers>>
  BY <1>1 DEF workerVars, histVars
<1>3. ExclusiveContext' /\ TokensAreReleased' /\ \A d \in Call : Ended(d)' <=> Ended(d)
  BY <1>1, ReaperLeavesThreads, AbortResumesNobody
<1>4. RemoveFromStore(KeyOf[c])
  BY ConstantsAssumption DEF ReapCtx, RemoveFromStore, TypeOK
<1>5. /\ ~Stored(c)' /\ \A d \in Call : d # c => (Stored(d)' <=> Stored(d))
      /\ \A k \in Key : store'[k] # NoCall => store'[k] = store[k]
  BY <1>4, RemovalIsLocal
<1>6. timeouts[c] > 0 /\ c \notin sweep
  BY <1>1 DEF ReaperIsPrompt
<1>7. \A w \in Worker : wpc[w] \in Sending \cup {"callback"} => wcall[w] \in Call
  BY DEF TypeOK
<1>8. StoreIsSound' /\ AnsweredOnce'
  BY <1>1, <1>2, <1>5 DEF StoreIsSound, AnsweredOnce
<1>9. SenderOwnsClone' /\ ResumedIsReleased'
  BY <1>1, <1>2, <1>5, <1>6, <1>7 DEF SenderOwnsClone, ResumedIsReleased, Sending
<1>10. ReaperIsPrompt'
  BY <1>1, <1>2, <1>5, <1>6 DEF ReaperIsPrompt, TypeOK
<1>11. VisitedIsStored'
  BY <1>1, <1>3, <1>5, <1>6 DEF VisitedIsStored, TypeOK
<1>12. ReaperDeathNeedsRace'
  <2>1. reaper' = "dead" => Ended(c)
    BY <1>1, ConstantsAssumption DEF VisitedIsStored, Stored
  <2> QED
    BY <1>1, <1>3, <1>6, <2>1 DEF ReaperDeathNeedsRace
<1> QED
  BY <1>3, <1>8, <1>9, <1>10, <1>11, <1>12

\* A step of a handler: only a clone whose lock is down gets a token.
LEMMA HandlerStepInv ==
    ASSUME UniqueKeys, Smpp = {}, TypeOK, CallInv, NEW h \in Handler,
           HandlerStep(h) \/ \E k \in Key : Receive(h, k)
    PROVE  CallInv'
<1>1. /\ UNCHANGED <<store, locked, added, failed, answers, timeouts, reaper, sweep, victim>>
      /\ UNCHANGED <<wpc, wcall, wkey>>
  BY DEF HandlerStep, Receive, Exists, LockAndUpdateFlag, PutCallbackToken,
         storeVars, workerVars, reaperVars, histVars
<1>2. SUFFICES TokensAreReleased'
  BY <1>1, CallsUntouched
<1>3. TokensAreReleased /\ StoreIsSound
  BY DEF CallInv
<1>4. CASE LockAndUpdateFlag(h)
  <2>1. (queue' = queue /\ UNCHANGED hkey) \/ hpc'[h] = "idle"
    BY <1>4 DEF LockAndUpdateFlag, HandlerGoto, TypeOK
  <2>2. ASSUME NEW k \in Key, TokenFor(k)', ~TokenFor(k), NEW c \in Call, KeyOf[c] = k
        PROVE  c \in added \ locked
    <3>1. hkey[h] = k /\ store[k] # NoCall /\ store[k] \notin locked
      BY <1>1, <1>4, <2>2 DEF LockAndUpdateFlag, HandlerGoto, TypeOK, TokenFor
    <3>2. KeyOf[store[k]] = k /\ store[k] \in added /\ store[k] \in Call
      BY <1>3, <3>1 DEF StoreIsSound, TypeOK
    <3> QED
      BY <2>2, <3>1, <3>2 DEF UniqueKeys
  <2> QED
    BY <1>1, <1>3, <2>2 DEF TokensAreReleased
<1>5. CASE Exists(h)
  <2>1. NoNewToken
    BY <1>1, <1>5 DEF Exists, HandlerGoto, TypeOK, NoNewToken, TokenFor
  <2> QED
    BY <1>1, <1>3, <2>1, TokensStayReleased
<1>6. CASE PutCallbackToken(h)
  <2>1. hpc[h] = "put" /\ hkey[h] \in Key /\ queue' = Append(queue, CallbackToken(hkey[h]))
    BY <1>6 DEF PutCallbackToken, TypeOK
  <2>2. \A g \in Handler : hpc'[g] = "put" => hpc[g] = "put" /\ hkey'[g] = hkey[g]
    BY <1>6 DEF PutCallbackToken, HandlerGoto, TypeOK
  <2>3. ASSUME NEW i \in 1..Len(queue'), NEW k \in Key, queue'[i] = CallbackToken(k)
        PROVE  TokenFor(k)
    <3>1. queue \in Seq(Token) /\ CallbackToken(hkey[h]) \in Token
      BY <2>1, TokensAreTokens DEF TypeOK
    <3>2. CASE i \in 1..Len(queue)
      BY <2>1, <2>3, <3>1, <3>2 DEF TokenFor
    <3>3. CASE i = Len(queue) + 1
      <4>1. CallbackToken(hkey[h]) = CallbackToken(k)
        BY <2>1, <2>3, <3>1, <3>3
      <4> QED
        BY <2>1, <4>1 DEF CallbackToken, TokenFor
    <3> QED
      BY <2>1, <3>1, <3>2, <3>3
  <2>4. NoNewToken
    BY <1>1, <2>2, <2>3 DEF NoNewToken, TokenFor
  <2> QED
    BY <1>1, <1>3, <2>4, TokensStayReleased
<1>7. ASSUME NEW k \in Key, Receive(h, k) PROVE TokensAreReleased'
  <2>1. NoNewToken
    BY <1>1, <1>7 DEF Receive, TypeOK, NoNewToken, TokenFor
  <2> QED
    BY <1>1, <1>3, <2>1, TokensStayReleased
<1> QED
  BY <1>4, <1>5, <1>6, <1>7 DEF HandlerStep

\* A token leaves the queue with the worker that takes it.
LEMMA TakeInv ==
    ASSUME TypeOK, CallInv, NEW w \in Worker, TakeCallback(w) \/ TakeOther(w)
    PROVE  CallInv'
<1>1. /\ UNCHANGED <<store, locked, added, failed, answers, timeouts, reaper, sweep, victim, wcall,
                     hpc, hkey>>
      /\ queue \in Seq(Token) /\ queue # <<>> /\ queue' = Tail(queue)
  BY DEF TakeCallback, TakeOther, storeVars, workerVars, handlerVars, reaperVars, histVars, TypeOK
<1>2. \A i \in 1..Len(queue') : i + 1 \in 1..Len(queue) /\ queue'[i] = queue[i + 1]
  BY <1>1
<1>3. CASE TakeOther(w)
  <2>1. UNCHANGED <<wpc, wkey>>
    BY <1>3 DEF TakeOther, workerVars
  <2>2. NoNewToken
    BY <1>1, <1>2, <2>1 DEF NoNewToken, TokenFor
  <2> QED
    BY <1>1, <2>1, <2>2, TokensStayReleased, CallsUntouched DEF CallInv
<1>4. CASE TakeCallback(w)
  <2>1. /\ wpc[w] = "idle" /\ wpc'[w] = "resume" /\ wkey'[w] = queue[1].key
        /\ \A v \in Worker : v # w => wpc'[v] = wpc[v] /\ wkey'[v] = wkey[v]
        /\ queue[1] \in CallbackTokens
    BY <1>1, <1>4 DEF TakeCallback, TypeOK
  <2>2. 1 \in 1..Len(queue) /\ queue[1] = CallbackToken(wkey'[w])
    BY <1>1, <2>1 DEF CallbackTokens, CallbackToken
  <2>3. NoNewToken
    BY <1>1, <1>2, <2>1, <2>2 DEF NoNewToken, TokenFor
  <2> QED
    BY <1>1, <2>1, <2>3, TokensStayReleased, CallsUntouched DEF CallInv
<1> QED
  BY <1>3, <1>4

\* The clock, and the threads that clear the queue.
LEMMA OthersInv == ASSUME TypeOK, CallInv, ClearQueue \/ \E c \in Call : Expire(c) PROVE CallInv'
<1>1. /\ UNCHANGED <<store, locked, added, failed, answers, timeouts, reaper, sweep, victim, wcall,
                     wpc, wkey, hpc, hkey>>
      /\ queue' \in {queue, <<>>}
  BY DEF ClearQueue, Expire, storeVars, workerVars, handlerVars, reaperVars, histVars
<1>2. NoNewToken
  BY <1>1, NoTokenAppears, AbortResumesNobody
<1> QED
  BY <1>1, <1>2, TokensStayReleased, CallsUntouched DEF CallInv

\* All the steps of the sender.
LEMMA SendStepInv ==
    ASSUME UniqueKeys, Smpp = {}, TypeOK, CallInv, NEW w \in Worker, SendStep(w)
    PROVE  CallInv'
<1> USE AbortResumesNobody
<1>1. ASSUME NEW pc \in Sending, Goto(w, pc),
             wpc[w] \in (Sending \ {"stop"}) \cup {"create"}, wpc[w] = "create" => pc = "stop",
             UNCHANGED <<storeVars, queue, handlerVars, reaperVars, histVars>>
      PROVE  CallInv'
  <2>1. NoNewToken
    BY <1>1, NoTokenAppears DEF Goto, handlerVars, Sending, TypeOK
  <2> QED
    BY <1>1, <2>1, SenderGoesOn
<1>2. ASSUME BackToIdle(w), NEW q \in {queue, Append(queue, AbortToken)}, queue' = q,
             failed \subseteq failed', wpc[w] = "stop" => wcall[w] \in failed',
             locked' \subseteq locked, locked \ {wcall[w]} \subseteq locked',
             UNCHANGED <<store, handlerVars, reaperVars, added, answers>>
      PROVE  CallInv'
  <2>1. NoNewToken
    BY <1>2, NoTokenAppears DEF BackToIdle, handlerVars, TypeOK
  <2> QED
    BY <1>2, <2>1, WorkerLeaves DEF reaperVars
<1>3. CASE CreateFails(w)
  BY <1>1, <1>3 DEF CreateFails, Sending
<1>4. CASE AddCtx(w)
  BY <1>4, AddCtxInv
<1>5. CASE SendData(w)
  BY <1>1, <1>5 DEF SendData, Sending
<1>6. CASE StepFails(w)
  BY <1>1, <1>6 DEF StepFails, Sending
<1>7. CASE StepIsFatal(w)
  BY <1>2, <1>7 DEF StepIsFatal, storeVars
<1>8. CASE CallAfterError(w)
  BY <1>8, CallAfterErrorInv
<1>9. CASE StopScenario(w)
  BY <1>2, <1>9 DEF StopScenario, storeVars
<1>10. CASE StepSucceeds(w)
  BY <1>1, <1>10 DEF StepSucceeds, Sending
<1>11. CASE IsFlagged(w)
  BY <1>1, <1>11 DEF IsFlagged, Sending
<1>12. CASE KeepThread(w)
  <2>1. wcall[w] \in Call
    BY <1>12 DEF KeepThread, TypeOK, Sending
  <2> QED
    BY <1>12, <2>1, KeepThreadInv
<1>13. CASE Unlock(w)
  <2>1. wcall[w] \in Call
    BY <1>13 DEF Unlock, TypeOK, Sending
  <2>2. store[KeyOf[wcall[w]]] \in {wcall[w], NoCall} /\ locked \subseteq Call
    BY <2>1, ConstantsAssumption DEF CallInv, StoreIsSound, UniqueKeys, TypeOK
  <2>3. locked' \subseteq locked /\ locked \ {wcall[w]} \subseteq locked'
    BY <1>13, <2>2, ConstantsAssumption DEF Unlock
  <2> QED
    BY <1>2, <1>13, <2>3 DEF Unlock, histVars
<1> QED
  BY <1>3, <1>4, <1>5, <1>6, <1>7, <1>8, <1>9, <1>10, <1>11, <1>12, <1>13 DEF SendStep

\* All the steps of a worker that takes a token.
LEMMA TokenStepInv ==
    ASSUME UniqueKeys, TypeOK, CallInv, NEW w \in Worker, TokenStep(w)
    PROVE  CallInv'
<1> USE AbortResumesNobody
<1>1. ASSUME BackToIdle(w), wpc[w] # "stop", NEW q \in {queue, Append(queue, AbortToken)},
             queue' = q, UNCHANGED <<store, locked, handlerVars, reaperVars, histVars>>
      PROVE  CallInv'
  <2>1. NoNewToken
    BY <1>1, NoTokenAppears DEF BackToIdle, handlerVars, TypeOK
  <2> QED
    BY <1>1, <2>1, WorkerLeaves DEF reaperVars, histVars
<1>2. CASE TakeCallback(w) \/ TakeOther(w)
  BY <1>2, TakeInv
<1>3. CASE PopCtxValue(w)
  <2>1. wkey[w] \in Key /\ wpc[w] = "resume"
    BY <1>3 DEF PopCtxValue, TypeOK
  <2>2. CASE store[wkey[w]] = NoCall
    <3>1. store' = store
      BY <1>3, <2>1, <2>2 DEF PopCtxValue, RemoveFromStore, TypeOK
    <3> QED
      BY <1>1, <1>3, <2>1, <2>2, <3>1 DEF PopCtxValue, histVars
  <2>3. CASE store[wkey[w]] # NoCall
    <3>1. store[wkey[w]] \in Call
      BY <2>1, <2>3 DEF TypeOK
    <3> QED
      BY <1>3, <3>1, PopCtxValueInv
  <2> QED
    BY <2>2, <2>3
<1>4. CASE ProcessCallback(w)
  BY <1>1, <1>4 DEF ProcessCallback
<1>5. CASE ProcessCallbackFails(w)
  BY <1>1, <1>5 DEF ProcessCallbackFails
<1> QED
  BY <1>2, <1>3, <1>4, <1>5 DEF TokenStep

\* All the steps of the reaper.
LEMMA ReaperStepInv == ASSUME UniqueKeys, TypeOK, CallInv, ReaperStep PROVE CallInv'
<1>1. CASE ReapCtx
  <2>1. victim \in Call
    BY <1>1 DEF ReapCtx, TypeOK
  <2> QED
    BY <1>1, <2>1, ReapCtxInv
<1> QED
  BY <1>1, SweepStartInv, EndTimedOutInv DEF ReaperStep

\* Safety of the calls: the invariant that explains why the threads do not collide
\* (asynchronous.py, contextIdentifier.py, contextCallback.py).
THEOREM CallsAreSafe == ASSUME UniqueKeys, Smpp = {} PROVE Spec => []CallInv
<1>1. TypeOK /\ CallInv /\ [Next]_vars => CallInv'
  <2> SUFFICES ASSUME TypeOK, CallInv, [Next]_vars PROVE CallInv'
    OBVIOUS
  <2>1. CASE Next
    BY <2>1, SendStepInv, TokenStepInv, CallBeforeInv, HandlerStepInv, ReaperStepInv, OthersInv
    DEF Next
  <2>2. CASE UNCHANGED vars
    <3>1. NoNewToken
      BY <2>2 DEF vars, workerVars, handlerVars, NoNewToken, TokenFor
    <3>2. UNCHANGED <<store, locked, added, failed, answers, timeouts, reaper, sweep, victim, wcall, wpc>>
      BY <2>2 DEF vars, storeVars, workerVars, reaperVars, histVars
    <3> QED
      BY <3>1, <3>2, TokensStayReleased, CallsUntouched DEF CallInv
  <2> QED
    BY <2>1, <2>2
<1> QED
  BY TypeCorrect, InitCallInv, <1>1, PTL DEF Spec

\* Two worker threads never execute or resume the same asynchronous call.
THEOREM CallsAreExclusive == ASSUME UniqueKeys, Smpp = {} PROVE Spec => []ExclusiveContext
<1>1. CallInv => ExclusiveContext
  BY DEF CallInv
<1> QED
  BY CallsAreSafe, <1>1, PTL

\* Whoever holds a token for a clone, the clone has been released by its sender.
THEOREM TokensAreForReleased == ASSUME UniqueKeys, Smpp = {} PROVE Spec => []TokenOnlyForReleased
<1>1. TypeOK /\ CallInv => TokenOnlyForReleased
  BY DEF CallInv, TokensAreReleased, StoreIsSound, TokenOnlyForReleased, TypeOK
<1> QED
  BY TypeCorrect, CallsAreSafe, <1>1, PTL

\* The reaper thread survives unless somebody else ends the call it is timing out.
THEOREM ReaperSurvives == ASSUME UniqueKeys, Smpp = {} PROVE Spec => []ReaperDeathNeedsRace
<1>1. CallInv => ReaperDeathNeedsRace
  BY DEF CallInv
<1> QED
  BY CallsAreSafe, <1>1, PTL

-----------------------------------------------------------------------------
(* The ledger of calls: every step of the threads is a step of the ledger  *)
(* or leaves it unchanged.                                                 *)

Pending == {c \in Call : Stored(c)}

\* A step that leaves the registrations, the store and the histories is a stutter
\* of the ledger.
LEMMA LedgerUntouched ==
    ASSUME UNCHANGED <<store, added, answers, timeouts>>
    PROVE  UNCHANGED Ledger!ledgerVars
  BY DEF Ledger!ledgerVars, Stored

\* Storing a clone is registering its call.
LEMMA RegisterStep ==
    ASSUME UniqueKeys, TypeOK, CallInv, NEW w \in Worker, NEW c \in Call, wcall[w] = c, AddCtx(w)
    PROVE  Ledger!Register(c)
<1>1. c \notin added
  BY DEF AddCtx, CallInv, SenderOwnsClone
<1>2. added' = added \cup {c} /\ UNCHANGED <<answers, timeouts>>
  BY DEF AddCtx, reaperVars
<1>3. Stored(c)' /\ \A d \in Call : d # c => (Stored(d)' <=> Stored(d))
  BY ConstantsAssumption DEF AddCtx, Stored, UniqueKeys, TypeOK
<1>4. Pending' = Pending \cup {c}
  BY <1>3 DEF Pending
<1> QED
  BY <1>1, <1>2, <1>4 DEF Ledger!Register, Pending

\* When the entry of a call goes, no other call stops being pending.
LEMMA RemovalFromPending ==
    ASSUME UniqueKeys, TypeOK, NEW c \in Call, RemoveFromStore(KeyOf[c])
    PROVE  Pending' = Pending \ {c}
  BY RemovalIsLocal DEF Pending

\* A thread that gets hold of a clone with its notification answers the call.
LEMMA AnswerStep ==
    ASSUME UniqueKeys, TypeOK, CallInv, NEW w \in Worker, NEW c \in Call,
           (KeepThread(w) /\ wcall[w] = c) \/ (PopCtxValue(w) /\ store[wkey[w]] = c)
    PROVE  Ledger!Answer(c)
<1>1. /\ answers' = [answers EXCEPT ![c] = @ + 1] /\ RemoveFromStore(KeyOf[c])
      /\ UNCHANGED <<added, timeouts>>
      /\ c \in added /\ (Stored(c) \/ timeouts[c] > 0) /\ answers[c] = 0
  <2>1. CASE KeepThread(w) /\ wcall[w] = c
    BY <2>1 DEF KeepThread, reaperVars, CallInv, SenderOwnsClone, Sending
  <2>2. CASE PopCtxValue(w) /\ store[wkey[w]] = c
    <3>1. wkey[w] \in Key /\ c # NoCall
      BY <2>2, ConstantsAssumption DEF PopCtxValue, TypeOK
    <3>2. KeyOf[c] = wkey[w] /\ c \in added /\ Stored(c)
      BY <2>2, <3>1 DEF CallInv, StoreIsSound, Stored
    <3>3. answers[c] = 0
      BY <3>2 DEF CallInv, AnsweredOnce, TypeOK
    <3> QED
      BY <2>2, <3>1, <3>2, <3>3 DEF PopCtxValue, reaperVars
  <2> QED
    BY <2>1, <2>2
<1>2. answers' = [answers EXCEPT ![c] = 1]
  BY <1>1
<1>3. Pending' = Pending \ {c}
  BY <1>1, RemovalFromPending
<1> QED
  BY <1>1, <1>2, <1>3 DEF Ledger!Answer, Pending

\* Removing a clone without answering it withdraws the call.
LEMMA WithdrawStep ==
    ASSUME UniqueKeys, TypeOK, NEW c \in Call, RemoveFromStore(KeyOf[c]),
           UNCHANGED <<added, answers, timeouts>>
    PROVE  Ledger!Withdraw(c) \/ UNCHANGED Ledger!ledgerVars
<1>1. Pending' = Pending \ {c}
  BY RemovalFromPending
<1>2. CASE c \in Pending
  BY <1>1, <1>2 DEF Ledger!Withdraw, Pending
<1>3. CASE c \notin Pending
  BY <1>1, <1>3 DEF Ledger!ledgerVars, Pending
<1> QED
  BY <1>2, <1>3

\* The reaper times a call out at most once.
LEMMA TimeOutStep ==
    ASSUME TypeOK, CallInv, NEW c \in Call, EndTimedOut(c)
    PROVE  Ledger!TimeOut(c)
<1>1. c \in added /\ timeouts[c] = 0
  BY DEF EndTimedOut, CallInv, ReaperIsPrompt
<1>2. timeouts' = [timeouts EXCEPT ![c] = 1] /\ UNCHANGED <<store, added, answers>>
  BY <1>1 DEF EndTimedOut, storeVars, histVars
<1> QED
  BY <1>1, <1>2 DEF Ledger!TimeOut, Stored

\* The contexts of a process implement the ledger of calls: each call is registered
\* once, resumed at most once and timed out at most once, and only while it is pending
\* or being timed out.
THEOREM ContextsImplementLedger == ASSUME UniqueKeys, Smpp = {} PROVE Spec => LedgerSpec
<1> USE DEF storeVars, workerVars, handlerVars, reaperVars, histVars
<1>1. Init => Ledger!Init
  BY ConstantsAssumption DEF Init, Ledger!Init, Stored
<1>2. TypeOK /\ CallInv /\ [Next]_vars => [Ledger!Next]_(Ledger!ledgerVars)
  <2> SUFFICES ASSUME TypeOK, CallInv, [Next]_vars
               PROVE  Ledger!Next \/ UNCHANGED Ledger!ledgerVars
    OBVIOUS
  <2>1. ASSUME NEW w \in Worker, SendStep(w) PROVE Ledger!Next \/ UNCHANGED Ledger!ledgerVars
    <3>1. \/ UNCHANGED <<store, added, answers, timeouts>>
          \/ AddCtx(w) \/ CallAfterError(w) \/ KeepThread(w)
      BY <2>1 DEF SendStep, CreateFails, SendData, StepFails, StepIsFatal, StopScenario,
                  StepSucceeds, IsFlagged, Unlock
    <3>2. AddCtx(w) \/ CallAfterError(w) \/ KeepThread(w) => wcall[w] \in Call
      BY DEF AddCtx, CallAfterError, KeepThread, TypeOK, Sending
    <3>3. CASE AddCtx(w)
      BY <3>2, <3>3, RegisterStep DEF Ledger!Next
    <3>4. CASE KeepThread(w)
      BY <3>2, <3>4, AnswerStep DEF Ledger!Next
    <3>5. CASE CallAfterError(w)
      BY <3>2, <3>5, WithdrawStep DEF CallAfterError, Ledger!Next
    <3> QED
      BY <3>1, <3>3, <3>4, <3>5, LedgerUntouched
  <2>2. ASSUME NEW w \in Worker, TokenStep(w) PROVE Ledger!Next \/ UNCHANGED Ledger!ledgerVars
    <3>1. CASE PopCtxValue(w) /\ store[wkey[w]] # NoCall
      <4>1. store[wkey[w]] \in Call
        BY <3>1 DEF PopCtxValue, TypeOK
      <4> QED
        BY <3>1, <4>1, AnswerStep DEF Ledger!Next
    <3>2. CASE PopCtxValue(w) /\ store[wkey[w]] = NoCall
      <4>1. store' = store
        BY <3>2 DEF PopCtxValue, RemoveFromStore, TypeOK
      <4> QED
        BY <3>2, <4>1, LedgerUntouched DEF PopCtxValue
    <3> QED
      BY <2>2, <3>1, <3>2, LedgerUntouched
      DEF TokenStep, TakeCallback, TakeOther, ProcessCallback, ProcessCallbackFails
  <2>3. CASE ReaperStep
    <3>1. ReapCtx => victim \in Call /\ RemoveFromStore(KeyOf[victim])
      BY ConstantsAssumption DEF ReapCtx, RemoveFromStore, TypeOK
    <3>2. CASE ReapCtx
      BY <3>1, <3>2, WithdrawStep DEF ReapCtx, Ledger!Next
    <3> QED
      BY <2>3, <3>2, TimeOutStep, LedgerUntouched DEF ReaperStep, SweepStart, Ledger!Next
  <2>4. CASE \/ ClearQueue
             \/ \E c \in Call : Expire(c) \/ \E w \in Worker : CallBefore(w, c)
             \/ \E h \in Handler : HandlerStep(h) \/ \E k \in Key : Receive(h, k)
             \/ UNCHANGED vars
    BY <2>4, LedgerUntouched
    DEF ClearQueue, Expire, CallBefore, HandlerStep, Exists, LockAndUpdateFlag,
        PutCallbackToken, Receive, vars
  <2> QED
    BY <2>1, <2>2, <2>3, <2>4 DEF Next
<1> QED
  BY <1>1, <1>2, TypeCorrect, CallsAreSafe, PTL DEF Spec, LedgerSpec, Ledger!Spec
=============================================================================
