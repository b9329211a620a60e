---------------------------- MODULE AsyncContext ----------------------------
(***************************************************************************)
(* The life of asynchronous calls inside one grindertool process.          *)
(*                                                                         *)
(* A worker thread that reaches an asynchronous step clones its context,   *)
(* locks the clone, stores it in ContextIdentifier under an identifier,    *)
(* sends the request and then gives the scenario up; a notification for    *)
(* that identifier (HTTP callback or SMPP message) or the expiration of    *)
(* the clone resumes or ends it later, usually in another worker thread.   *)
(* The threads that meet in the store are the workers (TestRunner), the    *)
(* notification handlers (CallbackHandler, _SMSCDriver) and the reaper.    *)
(*                                                                         *)
(* Atomicity is that of the source: one action is one critical section on  *)
(* ContextIdentifier.mutex, one unlocked read of the store or one queue    *)
(* operation.  A call is one execution of a blocking, single-caller        *)
(* asynchronous step, identified with the clone that it stores; the        *)
(* scenario around it is the list of one scenario with one such step.      *)
(***************************************************************************)
EXTENDS Integers, Sequences, FiniteSets

CONSTANTS
    Call,       \* executions of an asynchronous step
    Key,        \* values of the identifier (contextValue)
    Worker,     \* worker threads
    Handler,    \* threads that deliver notifications
    NoCall,     \* no context
    NoKey,      \* no identifier
    KeyOf,      \* the identifier that a call evaluates
    Smpp,       \* identifiers notified by SMPP and unknown to the router
    Timed,      \* calls whose step has a timeout other than -1
    TimeoutOk,  \* calls whose step says timeout_success: True
    MayFail,    \* calls whose registration, request or answer may fail
    MaxPosts,   \* bound: notifications received for one identifier
    MaxClears   \* bound: times that the metronom or the throttler clears the queue

ASSUME ConstantsAssumption ==
    /\ NoCall \notin Call
    /\ NoKey \notin Key
    /\ KeyOf \in [Call -> Key]
    /\ Smpp \subseteq Key
    /\ Timed \subseteq Call
    /\ TimeoutOk \subseteq Call
    /\ MayFail \subseteq Call
    /\ MaxPosts \in Nat
    /\ MaxClears \in Nat

VARIABLES
    store,      \* ContextIdentifier.hash[contextKey]: identifier -> clone
    locked,     \* clones whose functional lock is up
    flagged,    \* clones that a notification has flagged and filled with its data
    waiting,    \* ContextLock.waitingContext
    queue,      \* GrinderQueue.queue
    wpc,        \* control point of each worker
    wcall,      \* the call that a worker executes or resumes
    wkey,       \* the identifier in the token that a worker holds
    hpc,        \* control point of each handler
    hkey,       \* the identifier in the notification that a handler holds
    reaper,     \* control point of the reaper thread
    sweep,      \* expired entries of the reaper's snapshot still to visit
    victim,     \* the entry that the reaper has declared timed out and must remove
    expired,    \* calls whose expiration date has passed
    requested,  \* identifiers known to the tested service
    posts,      \* notifications received so far for each identifier
    clears,     \* times the queue has been cleared
    added,      \* history: calls that have stored their clone
    failed,     \* history: calls whose step has been reported as failed
    answers,    \* history: resumptions of a call by its notification
    timeouts    \* history: timeouts that the reaper has declared for a call

workerVars  == <<wpc, wcall, wkey>>
handlerVars == <<hpc, hkey, posts>>
reaperVars  == <<reaper, sweep, victim, expired, timeouts>>
storeVars   == <<store, locked, flagged, waiting>>
histVars    == <<added, failed, answers>>
vars == <<storeVars, queue, workerVars, handlerVars, reaperVars,
          requested, clears, histVars>>

-----------------------------------------------------------------------------
(* Tokens of the queue.                                                    *)

\* AsyncContextToken or SMPPToken, a Context put back by the reaper, AbortRunToken
CallbackTokens == [type : {"callback"}, key : Key]
ContextTokens  == [type : {"context"}, call : Call]
AbortToken     == [type |-> "abort"]
Token          == CallbackTokens \cup ContextTokens \cup {AbortToken}

CallbackToken(k) == [type |-> "callback", key |-> k]
ContextTok(c)    == [type |-> "context", call |-> c]

(* Control points of the threads.                                          *)
\* inside an asynchronous step: up to the end of manage_async_break(), the clone belongs to this thread
Sending   == {"send", "reply", "stop", "break", "keep", "unlock"}
WorkerPC  == {"idle", "create", "resume", "callback"} \cup Sending
HandlerPC == {"idle", "exists", "lock", "put"}
ReaperPC  == {"sleep", "visit", "pop", "dead"}

\* The variables have their types, and the threads the locals that they use.
TypeOK ==
    /\ store \in [Key -> Call \cup {NoCall}]
    /\ locked \subseteq Call
    /\ flagged \subseteq Call
    /\ waiting \in Int
    /\ queue \in Seq(Token)
    /\ wpc \in [Worker -> WorkerPC]
    /\ wcall \in [Worker -> Call \cup {NoCall}]
    /\ wkey \in [Worker -> Key \cup {NoKey}]
    /\ hpc \in [Handler -> HandlerPC]
    /\ hkey \in [Handler -> Key \cup {NoKey}]
    /\ reaper \in ReaperPC
    /\ sweep \subseteq Call
    /\ victim \in Call \cup {NoCall}
    /\ expired \subseteq Call
    /\ requested \subseteq Key
    /\ posts \in [Key -> Nat]
    /\ clears \in Nat
    /\ added \subseteq Call
    /\ failed \subseteq Call
    /\ answers \in [Call -> Nat]
    /\ timeouts \in [Call -> Nat]
    \* every thread knows the call or the identifier that it works on
    /\ \A w \in Worker :
         /\ wpc[w] \in Sending \cup {"create", "callback"} => wcall[w] \in Call
         /\ wpc[w] \in {"idle", "resume"} => wcall[w] = NoCall
         /\ wpc[w] = "resume" => wkey[w] \in Key
    /\ \A h \in Handler : hpc[h] # "idle" => hkey[h] \in Key
    /\ reaper = "pop" => victim \in Call

-----------------------------------------------------------------------------
Init ==
    /\ store = [k \in Key |-> NoCall]
    /\ locked = {}
    /\ flagged = {}
    /\ waiting = 0
    /\ queue = <<>>
    /\ wpc = [w \in Worker |-> "idle"]
    /\ wcall = [w \in Worker |-> NoCall]
    /\ wkey = [w \in Worker |-> NoKey]
    /\ hpc = [h \in Handler |-> "idle"]
    /\ hkey = [h \in Handler |-> NoKey]
    /\ reaper = "sleep"
    /\ sweep = {}
    /\ victim = NoCall
    /\ expired = {}
    /\ requested = {}
    /\ posts = [k \in Key |-> 0]
    /\ clears = 0
    /\ added = {}
    /\ failed = {}
    /\ answers = [c \in Call |-> 0]
    /\ timeouts = [c \in Call |-> 0]

\* a call that no thread has executed yet
Fresh(c) == c \notin added \cup failed /\ \A w \in Worker : wcall[w] # c

\* (seeded bug) the thread keeps the call of the step that it has left
BackToIdleWithCall(w) ==
    /\ wpc' = [wpc EXCEPT ![w] = "idle"]
    /\ wkey' = [wkey EXCEPT ![w] = NoKey]
    /\ UNCHANGED wcall

\* the thread leaves the step and is ready for the next one, or for a token
BackToIdle(w) ==
    /\ wpc' = [wpc EXCEPT ![w] = "idle"]
    /\ wcall' = [wcall EXCEPT ![w] = NoCall]
    /\ wkey' = [wkey EXCEPT ![w] = NoKey]

Goto(w, pc) == wpc' = [wpc EXCEPT ![w] = pc] /\ UNCHANGED <<wcall, wkey>>

\* asynchronous.mutex: held from isFlagged() to the end of manage_async_break()
AsyncMutexFree == \A w \in Worker : wpc[w] \notin {"keep", "unlock"}

RemoveFromStore(k) == store' = [store EXCEPT ![k] = NoCall]

-----------------------------------------------------------------------------
(* The thread that executes the step: _sendData(), _processResponse() and  *)
(* manage_async_break().                                                   *)

\* call_before() counts the context before anything else
CallBefore(w, c) ==
    /\ wpc[w] = "idle"
    /\ Fresh(c)
    /\ waiting' = waiting + 1
    /\ wpc' = [wpc EXCEPT ![w] = "create"]
    /\ wcall' = [wcall EXCEPT ![w] = c]
    /\ UNCHANGED <<store, locked, flagged, wkey, queue, handlerVars, reaperVars,
                   requested, clears, histVars>>

\* the identifier has no value, or the create message to the router fails
CreateFails(w) ==
    /\ wpc[w] = "create"
    /\ wcall[w] \in MayFail
    /\ Goto(w, "stop")
    /\ UNCHANGED <<storeVars, queue, handlerVars, reaperVars, requested, clears, histVars>>

\* (seeded bug) the clone is stored without its functional lock
AddCtxUnlocked(w) ==
    /\ wpc[w] = "create"
    /\ AsyncMutexFree
    /\ store' = [store EXCEPT ![KeyOf[wcall[w]]] = wcall[w]]
    /\ added' = added \cup {wcall[w]}
    /\ Goto(w, "send")
    /\ UNCHANGED <<locked, flagged, waiting, queue, handlerVars, reaperVars, requested,
                   clears, failed, answers>>

\* the clone is locked and stored, over any clone stored under the same identifier
AddCtx(w) ==
    /\ wpc[w] = "create"
    /\ AsyncMutexFree
    /\ store' = [store EXCEPT ![KeyOf[wcall[w]]] = wcall[w]]
    /\ locked' = locked \cup {wcall[w]}
    /\ added' = added \cup {wcall[w]}
    /\ Goto(w, "send")
    /\ UNCHANGED <<flagged, waiting, queue, handlerVars, reaperVars, requested,
                   clears, failed, answers>>

\* sendData() hands the request to the service, whose notification may now come
SendData(w) ==
    /\ wpc[w] = "send"
    /\ requested' = requested \cup {KeyOf[wcall[w]]}
    /\ Goto(w, "reply")
    /\ UNCHANGED <<storeVars, queue, handlerVars, reaperVars, clears, histVars>>

\* sendData() raises, or the answer is rejected by _processResponse() - an
\* assertion, or the update of a clone that is no longer stored: the clone stays
\* where it is
StepFails(w) ==
    /\ wpc[w] = "reply"
    /\ wcall[w] \in MayFail \/ store[KeyOf[wcall[w]]] = NoCall
    /\ Goto(w, "stop")
    /\ UNCHANGED <<storeVars, queue, handlerVars, reaperVars, requested, clears, histVars>>

\* sendData() raises SyntaxError or KeyError, or the analysis of the answer raises:
\* the run dies with the exception, and promises are not cancelled
StepIsFatal(w) ==
    /\ wpc[w] = "reply"
    /\ wcall[w] \in MayFail
    /\ failed' = failed \cup {wcall[w]}
    /\ BackToIdle(w)
    /\ UNCHANGED <<storeVars, queue, handlerVars, reaperVars, requested, clears, added, answers>>

\* an error code: call_after() removes the clone and, for a step registered in the
\* router, deletes the registration and cancels the promised runs a first time
CallAfterError(w) ==
    LET k == KeyOf[wcall[w]] IN
    /\ wpc[w] = "reply"
    /\ wcall[w] \in MayFail
    /\ RemoveFromStore(k)
    /\ queue' = IF k \in Smpp THEN queue ELSE Append(queue, AbortToken)
    /\ Goto(w, "stop")
    /\ UNCHANGED <<locked, flagged, waiting, handlerVars, reaperVars, requested,
                   clears, histVars>>

\* a failed step stops its scenario: manage_exception()
StopScenario(w) ==
    /\ wpc[w] = "stop"
    /\ queue' = Append(queue, AbortToken)
    /\ failed' = failed \cup {wcall[w]}
    /\ BackToIdle(w)
    /\ UNCHANGED <<storeVars, handlerVars, reaperVars, requested, clears, added, answers>>

StepSucceeds(w) ==
    /\ wpc[w] = "reply"
    /\ Goto(w, "break")
    /\ UNCHANGED <<storeVars, queue, handlerVars, reaperVars, requested, clears, histVars>>

\* manage_async_break() reads the flag without ContextIdentifier.mutex
IsFlagged(w) ==
    /\ wpc[w] = "break"
    /\ AsyncMutexFree
    /\ Goto(w, IF store[KeyOf[wcall[w]]] \in flagged THEN "keep" ELSE "unlock")
    /\ UNCHANGED <<storeVars, queue, handlerVars, reaperVars, requested, clears, histVars>>

\* (seeded bug) the clone is not removed when its thread goes on
KeepThreadAndClone(w) ==
    /\ wpc[w] = "keep"
    /\ waiting' = waiting - 1
    /\ answers' = [answers EXCEPT ![wcall[w]] = @ + 1]
    /\ BackToIdle(w)
    /\ UNCHANGED <<store, locked, flagged, queue, handlerVars, reaperVars, requested,
                   clears, added, failed>>

\* the notification came first: its data is merged and the thread goes on
KeepThread(w) ==
    /\ wpc[w] = "keep"
    /\ RemoveFromStore(KeyOf[wcall[w]])
    /\ waiting' = waiting - 1
    /\ answers' = [answers EXCEPT ![wcall[w]] = @ + 1]
    /\ BackToIdle(w)
    /\ UNCHANGED <<locked, flagged, queue, handlerVars, reaperVars, requested,
                   clears, added, failed>>

\* the thread gives the stored clone up; a clone that is gone is not unlocked
Unlock(w) ==
    /\ wpc[w] = "unlock"
    /\ locked' = locked \ {store[KeyOf[wcall[w]]]}
    /\ BackToIdle(w)
    /\ UNCHANGED <<store, flagged, waiting, queue, handlerVars, reaperVars,
                   requested, clears, histVars>>

-----------------------------------------------------------------------------
(* The thread that takes a token: GrinderQueue.blocking_take() and         *)
(* processScenario().                                                      *)

TakeCallback(w) ==
    /\ wpc[w] = "idle"
    /\ queue # <<>> /\ Head(queue) \in CallbackTokens
    /\ queue' = Tail(queue)
    /\ wkey' = [wkey EXCEPT ![w] = Head(queue).key]
    /\ wpc' = [wpc EXCEPT ![w] = "resume"]
    /\ UNCHANGED <<storeVars, wcall, handlerVars, reaperVars, requested, clears, histVars>>

\* a Context put back by the reaper goes on with its next step, an AbortRunToken
\* ends the run at once
TakeOther(w) ==
    /\ wpc[w] = "idle"
    /\ queue # <<>> /\ Head(queue) \notin CallbackTokens
    /\ queue' = Tail(queue)
    /\ UNCHANGED <<storeVars, workerVars, handlerVars, reaperVars, requested, clears, histVars>>

\* (seeded bug) the clone is looked up and stays in the store
GetCtxValue(w) ==
    LET c == store[wkey[w]] IN
    /\ wpc[w] = "resume"
    /\ IF c = NoCall
          THEN BackToIdle(w) /\ UNCHANGED answers
          ELSE /\ wpc' = [wpc EXCEPT ![w] = "callback"]
               /\ wcall' = [wcall EXCEPT ![w] = c]
               /\ wkey' = [wkey EXCEPT ![w] = NoKey]
               /\ answers' = [answers EXCEPT ![c] = @ + 1]
    /\ UNCHANGED <<storeVars, queue, handlerVars, reaperVars, requested, clears, added, failed>>

\* pop_ctx_value(): the clone now belongs to this thread, or is gone
PopCtxValue(w) ==
    LET c == store[wkey[w]] IN
    /\ wpc[w] = "resume"
    /\ RemoveFromStore(wkey[w])
    /\ IF c = NoCall
          THEN BackToIdle(w) /\ UNCHANGED answers
          ELSE /\ wpc' = [wpc EXCEPT ![w] = "callback"]
               /\ wcall' = [wcall EXCEPT ![w] = c]
               /\ wkey' = [wkey EXCEPT ![w] = NoKey]
               /\ answers' = [answers EXCEPT ![c] = @ + 1]
    /\ UNCHANGED <<locked, flagged, waiting, queue, handlerVars, reaperVars,
                   requested, clears, added, failed>>

\* process_callback(): the run dies with an exception after the assertions, since Context
\* has no __contains__ ('deviceId' in __ctx)
ProcessCallback(w) ==
    /\ wpc[w] = "callback"
    /\ wcall[w] \notin TimeoutOk
    /\ waiting' = waiting - 1
    /\ BackToIdle(w)
    /\ UNCHANGED <<store, locked, flagged, queue, handlerVars, reaperVars,
                   requested, clears, histVars>>

\* a timeout was expected: endAsyncScenario() on the last scenario
ProcessCallbackFails(w) ==
    /\ wpc[w] = "callback"
    /\ wcall[w] \in TimeoutOk
    /\ waiting' = waiting - 1
    /\ queue' = Append(queue, AbortToken)
    /\ BackToIdle(w)
    /\ UNCHANGED <<store, locked, flagged, handlerVars, reaperVars, requested,
                   clears, histVars>>

-----------------------------------------------------------------------------
(* Notification handlers: CallbackHandler.__manage() and, for SMPP,        *)
(* handleRequestFromInput().                                               *)

\* the service notifies an identifier that it has seen, possibly again
Receive(h, k) ==
    /\ hpc[h] = "idle"
    /\ k \in requested
    /\ posts[k] < MaxPosts
    /\ posts' = [posts EXCEPT ![k] = @ + 1]
    /\ hpc' = [hpc EXCEPT ![h] = "exists"]
    /\ hkey' = [hkey EXCEPT ![h] = k]
    /\ UNCHANGED <<storeVars, queue, workerVars, reaperVars, requested, clears, histVars>>

HandlerGoto(h, pc) ==
    /\ hpc' = [hpc EXCEPT ![h] = pc]
    /\ hkey' = IF pc = "idle" THEN [hkey EXCEPT ![h] = NoKey] ELSE hkey
    /\ UNCHANGED posts

\* exists() reads the store without the mutex; an unknown identifier is ignored,
\* a known one goes through the lock unless it comes by SMPP
Exists(h) ==
    /\ hpc[h] = "exists"
    /\ HandlerGoto(h, IF store[hkey[h]] = NoCall THEN "idle"
                      ELSE IF hkey[h] \in Smpp THEN "put" ELSE "lock")
    /\ UNCHANGED <<storeVars, queue, workerVars, reaperVars, requested, clears, histVars>>

\* lock_and_update_flag(): a clone that has gone raises, and the notification is
\* answered 200 and dropped; a locked one keeps the data; otherwise a token is due
LockAndUpdateFlag(h) ==
    LET c == store[hkey[h]] IN
    /\ hpc[h] = "lock"
    /\ HandlerGoto(h, IF c # NoCall /\ c \notin locked THEN "put" ELSE "idle")
    /\ flagged' = IF c \in locked THEN flagged \cup {c} ELSE flagged
    /\ UNCHANGED <<store, locked, waiting, queue, workerVars, reaperVars,
                   requested, clears, histVars>>

PutCallbackToken(h) ==
    /\ hpc[h] = "put"
    /\ queue' = Append(queue, CallbackToken(hkey[h]))
    /\ HandlerGoto(h, "idle")
    /\ UNCHANGED <<storeVars, workerVars, reaperVars, requested, clears, histVars>>

-----------------------------------------------------------------------------
(* The reaper thread, removeExpiredContext(): it holds no lock, and works  *)
(* on a snapshot of the store.                                             *)

\* time passes
Expire(c) ==
    /\ c \in Timed /\ c \in added /\ c \notin expired
    /\ expired' = expired \cup {c}
    /\ UNCHANGED <<storeVars, queue, workerVars, handlerVars, reaper, sweep, victim,
                   timeouts, requested, clears, histVars>>

\* (seeded bug) a context whose timeout is a success is skipped
SweepFailures ==
    LET snapshot == {c \in expired \ TimeoutOk : store[KeyOf[c]] = c} IN
    /\ reaper = "sleep"
    /\ snapshot # {}
    /\ sweep' = snapshot
    /\ reaper' = "visit"
    /\ UNCHANGED <<storeVars, queue, workerVars, handlerVars, victim, expired, timeouts,
                   requested, clears, histVars>>

\* the snapshot, without the entries that the loop only skips
SweepStart ==
    LET snapshot == {c \in expired : store[KeyOf[c]] = c} IN
    /\ reaper = "sleep"
    /\ snapshot # {}
    /\ sweep' = snapshot
    /\ reaper' = "visit"
    /\ UNCHANGED <<storeVars, queue, workerVars, handlerVars, victim, expired, timeouts,
                   requested, clears, histVars>>

\* endAsyncScenarioTimeout(): the context itself goes back to the queue when the
\* timeout is a success, else the run is cancelled.  The order of the visits is
\* that of the identifiers, whose values are opaque here.
EndTimedOut(c) ==
    /\ reaper = "visit"
    /\ c \in sweep
    /\ queue' = Append(queue, IF c \in TimeoutOk THEN ContextTok(c) ELSE AbortToken)
    /\ timeouts' = [timeouts EXCEPT ![c] = @ + 1]
    /\ sweep' = sweep \ {c}
    /\ victim' = c
    /\ reaper' = "pop"
    /\ UNCHANGED <<storeVars, workerVars, handlerVars, expired, requested, clears, histVars>>

\* hash[key].pop(value): KeyError, which nothing catches, if the entry has gone
ReapCtx ==
    /\ reaper = "pop"
    /\ victim' = NoCall
    /\ IF store[KeyOf[victim]] = NoCall
          THEN /\ reaper' = "dead"
               /\ sweep' = {}
               /\ UNCHANGED <<store, waiting>>
          ELSE /\ reaper' = IF sweep = {} THEN "sleep" ELSE "visit"
               /\ RemoveFromStore(KeyOf[victim])
               /\ waiting' = waiting - 1
               /\ UNCHANGED sweep
    /\ UNCHANGED <<locked, flagged, queue, workerVars, handlerVars, expired, timeouts,
                   requested, clears, histVars>>

-----------------------------------------------------------------------------
\* Producer.__producer__() on a change of throughput, or the session throttler:
\* GrinderQueue.clear() drops every token, whatever its type
ClearQueue ==
    /\ clears < MaxClears
    /\ queue # <<>>
    /\ queue' = <<>>
    /\ clears' = clears + 1
    /\ UNCHANGED <<storeVars, workerVars, handlerVars, reaperVars, requested, histVars>>

SendStep(w) ==
    \/ CreateFails(w) \/ AddCtx(w) \/ SendData(w) \/ StepFails(w) \/ StepIsFatal(w)
    \/ CallAfterError(w) \/ StopScenario(w) \/ StepSucceeds(w)
    \/ IsFlagged(w) \/ KeepThread(w) \/ Unlock(w)

TokenStep(w) ==
    \/ TakeCallback(w) \/ TakeOther(w) \/ PopCtxValue(w)
    \/ ProcessCallback(w) \/ ProcessCallbackFails(w)

HandlerStep(h) == Exists(h) \/ LockAndUpdateFlag(h) \/ PutCallbackToken(h)

ReaperStep == SweepStart \/ (\E c \in Call : EndTimedOut(c)) \/ ReapCtx

Next ==
    \/ \E w \in Worker : (\E c \in Call : CallBefore(w, c)) \/ SendStep(w) \/ TokenStep(w)
    \/ \E h \in Handler : (\E k \in Key : Receive(h, k)) \/ HandlerStep(h)
    \/ \E c \in Call : Expire(c)
    \/ ReaperStep
    \/ ClearQueue

Spec == Init /\ [][Next]_vars

\* Threads that are inside an operation finish it, an idle worker takes the next
\* token, and time passes.  Nothing obliges a scenario to start a call or the
\* service to notify one.
Fairness ==
    /\ \A w \in Worker : WF_vars(SendStep(w)) /\ WF_vars(TokenStep(w))
    /\ \A h \in Handler : WF_vars(HandlerStep(h))
    /\ \A c \in Call : WF_vars(Expire(c))
    /\ WF_vars(ReaperStep)

FairSpec == Spec /\ Fairness

-----------------------------------------------------------------------------
(* Properties.                                                             *)

\* The identifiers of a scenario's calls are all different: the assumption under
\* which identifiers tell contexts apart.
UniqueKeys == \A c, d \in Call : KeyOf[c] = KeyOf[d] => c = d

Stored(c) == store[KeyOf[c]] = c

\* a token for k, or a thread about to put or to use one
TokenFor(k) ==
    \/ \E i \in 1..Len(queue) : queue[i] = CallbackToken(k)
    \/ \E h \in Handler : hpc[h] = "put" /\ hkey[h] = k
    \/ \E w \in Worker : wpc[w] = "resume" /\ wkey[w] = k

\* Two threads never work on the same asynchronous call: the sender has left the
\* step for good before a notification can resume it elsewhere.
ExclusiveContext ==
    \A v, w \in Worker : v # w /\ wcall[v] # NoCall => wcall[v] # wcall[w]

\* A token is only ever made for a clone that its sender has released.
TokenOnlyForReleased ==
    \A k \in Key : TokenFor(k) /\ store[k] # NoCall => store[k] \notin locked

\* the notification has resumed the call, or its own thread has given it up
Ended(c) ==
    \/ answers[c] > 0
    \/ c \in failed
    \/ \E w \in Worker : wpc[w] = "stop" /\ wcall[w] = c

\* The reaper thread only dies when a call that it times out is answered, or is
\* withdrawn by its failed step, at the same time.
ReaperDeathNeedsRace == reaper = "dead" => \E c \in Call : timeouts[c] > 0 /\ Ended(c)

\* The contexts behave as the ledger of calls promises.
Ledger == INSTANCE CallLedger WITH
    registered <- added,
    pending    <- {c \in Call : Stored(c)}
LedgerSpec == Ledger!Spec

-----------------------------------------------------------------------------
(* Why the safety properties hold when identifiers are unique and no        *)
(* notification comes by SMPP: the inductive invariant of the proofs.       *)

\* a clone is stored under its own identifier
StoreIsSound ==
    \A k \in Key : store[k] # NoCall => KeyOf[store[k]] = k /\ store[k] \in added

\* before it stores its clone, the sender is the only one to know it; from then on
\* the functional lock keeps it, whether it is still stored or has been timed out
SenderOwnsClone ==
    \A w \in Worker :
      /\ wpc[w] = "create" => wcall[w] \notin added
      /\ wpc[w] \in Sending =>
           /\ wcall[w] \in added => wcall[w] \in locked
           /\ answers[wcall[w]] = 0
      /\ wpc[w] \in Sending \ {"stop"} =>
           /\ wcall[w] \in added
           /\ Stored(wcall[w]) \/ timeouts[wcall[w]] > 0

\* a resumed clone has left the store and has no lock
ResumedIsReleased ==
    \A w \in Worker : wpc[w] = "callback" =>
        wcall[w] \in added \ locked /\ ~Stored(wcall[w])

TokensAreReleased ==
    \A k \in Key : TokenFor(k) => \A c \in Call : KeyOf[c] = k => c \in added \ locked

AnsweredOnce == \A c \in Call : answers[c] > 0 => c \in added /\ ~Stored(c)

\* a clone that is timed out leaves the store before the reaper does anything else
ReaperIsPrompt ==
    /\ sweep # {} => reaper \in {"visit", "pop"}
    /\ reaper = "pop" => timeouts[victim] > 0 /\ victim \notin sweep
    /\ \A c \in sweep : c \in added /\ timeouts[c] = 0
    /\ \A c \in Call : timeouts[c] > 0 => c \in added
    /\ \A c \in Call : Stored(c) /\ timeouts[c] > 0 => reaper = "pop" /\ victim = c

\* whom the reaper visits is stored, or was ended by somebody else
VisitedIsStored ==
    /\ \A c \in sweep : Stored(c) \/ Ended(c)
    /\ reaper = "pop" => Stored(victim) \/ Ended(victim)

CallInv ==
    /\ StoreIsSound
    /\ ExclusiveContext
    /\ SenderOwnsClone
    /\ ResumedIsReleased
    /\ TokensAreReleased
    /\ AnsweredOnce
    /\ ReaperIsPrompt
    /\ VisitedIsStored
    /\ ReaperDeathNeedsRace

-----------------------------------------------------------------------------
(* Progress.                                                               *)

\* A clone with an expiration date does not stay in the store, unless the reaper
\* thread has died.
TimedCallLeaves == \A c \in Timed : Stored(c) ~> (~Stored(c) \/ reaper = "dead")

\* While nobody clears the queue, a token for a stored clone reaches a worker that
\* takes the clone.
TokenIsServed ==
    \A k \in Key : (\E i \in 1..Len(queue) : queue[i] = CallbackToken(k)) ~> store[k] = NoCall

(* What comments of the source say, and the code does not do.              *)

\* "we update the context with notification data and flag the context that a
\* callback event occurred": a flagged context is not released to wait for another
\* notification.
FlaggedIsNotReleased ==
    [][\A c \in flagged : c \in locked => c \in locked']_vars
=============================================================================
