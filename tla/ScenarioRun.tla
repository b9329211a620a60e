----------------------------- MODULE ScenarioRun -----------------------------
(***************************************************************************)
(* The execution of a list of scenarios: what the worker threads send,     *)
(* memorise, check, keep for the following steps, and hand over to each    *)
(* other with the context of an asynchronous step.                         *)
(*                                                                         *)
(* AsyncContext has the life of an asynchronous call step by step, and     *)
(* ValidationRuns the runs that it costs.  Here a notification or a        *)
(* timeout is one step, the tokens that only pay for promised runs are     *)
(* left out, and the data is followed.                                     *)
(***************************************************************************)
EXTENDS Assertions

CONSTANTS
    Setups,     \* lists of scenarios, with what may happen to them
    Threads,    \* the worker threads
    Env         \* grinder.properties and the numbers of the agent and the process

\* the texts of a scenario, of an answer or of a notification
IsText(t) ==
    /\ t = [calls |-> t.calls, ref |-> t.ref, atom |-> t.atom, by |-> <<>>, kind |-> "text"]
    /\ t.calls \in Nat /\ t.ref \in BOOLEAN /\ t.atom # Raw
AreTexts(texts) == \A k \in DOMAIN texts : IsText(texts[k])

IsSequence(s) == s \in Seq(Range(s))
IsRules(s)    == IsSequence(s) /\ \A i \in DOMAIN s : s[i].deferred \in BOOLEAN

IsStep(line) ==
    /\ AreTexts(line.fields)
    /\ IsSequence(line.memory) /\ \A i \in DOMAIN line.memory : line.memory[i].type \in MemoryTypes
    /\ IsRules(line.rules)
    /\ \A a \in line.answers : AreTexts(a.keys)

IsScenario(scenario) ==
    /\ AreTexts(scenario.context) /\ IsFiniteSet(DOMAIN scenario.context)
    /\ IsSequence(scenario.lines) /\ scenario.lines # <<>>
    /\ \A i \in DOMAIN scenario.lines : IsStep(scenario.lines[i])

ASSUME SetupsAssumption ==
    \A s \in Setups :
        /\ IsSequence(s.scenarios) /\ s.scenarios # <<>>
        /\ \A i \in DOMAIN s.scenarios : IsScenario(s.scenarios[i])
        /\ s.threads \subseteq Threads
        /\ s.runs \in Nat               \* runs of each thread
        /\ s.waiting \in BOOLEAN        \* waiting mode: scenarios start with an event
        /\ AreTexts(s.data)             \* what a notification brings

ASSUME NamesAssumption == Blank \notin Threads /\ Raw \notin Threads /\ AreTexts(Env)

VARIABLES
    setup,      \* the list that is executed
    runs,       \* runs that each thread has begun
    pc,         \* control point of each thread
    ctx,        \* context of each thread
    memory,     \* memoryManager.memorizedData of each thread
    command,    \* what each thread has sent last
    store,      \* ContextIdentifier.hash: identifiers -> clones
    queue,      \* GrinderQueue.queue
    events,     \* events and requests that have come
    calls,      \* history: the calls that have been made: run, line and identifier
    kept,       \* history: what successful steps have memorised: run, line and key
    failed,     \* history: the asynchronous steps that have failed: run and line
    expired,    \* history: the calls whose timeout was a success: run and line
    verdicts    \* history: the last answer of each thread and what became of it

threadVars == <<runs, pc, ctx, memory, command>>
histVars   == <<calls, kept, failed, expired, verdicts>>
vars == <<setup, threadVars, store, queue, events, histVars>>

EventBound == 2     \* events in a behaviour

NoContext ==
    [scn |-> 0, line |-> 0, uid |-> <<>>, cache |-> EmptyCache, id |-> <<>>,
     continue |-> FALSE, past |-> {}]

NoVerdict == [rules |-> <<>>, keys |-> <<>>, outcome |-> "none"]

PC == {"idle", "scenario", "line", "sent", "answered"}

Scenario(c) == setup.scenarios[c.scn]
Line(c)     == Scenario(c).lines[c.line]
RunOf(c)    == c.uid
StepOf(c)   == [run |-> RunOf(c), line |-> c.line]
CallOf(c)   == [run |-> RunOf(c), line |-> c.line, id |-> c.id]

\* Contexts name scenarios and steps that exist, and the threads that wait for an answer
\* have a current step.
TypeOK ==
    /\ setup \in Setups
    /\ runs \in [Threads -> 0..setup.runs]
    /\ pc \in [Threads -> PC]
    /\ \A w \in Threads :
         /\ ctx[w].scn \in 0..Len(setup.scenarios)
         /\ pc[w] \in {"line", "sent", "answered"} => ctx[w].scn # 0
         /\ ctx[w].scn # 0 => ctx[w].line \in 0..Len(Scenario(ctx[w]).lines)
         /\ pc[w] \in {"sent", "answered"} => ctx[w].line # 0
    /\ \A id \in DOMAIN store :
         store[id].ctx.id = id /\ store[id].ctx.line # 0 /\ Line(store[id].ctx).async
    /\ \A i \in DOMAIN queue : queue[i].type \in {"callback", "context", "start"}

\* the keys that CacheKey.reset() takes from its surroundings
Environment(w) == Updated(Env, Single("THREAD", Literal(w)))

-----------------------------------------------------------------------------
Init ==
    /\ setup \in Setups
    /\ runs = [w \in Threads |-> 0]
    /\ pc = [w \in Threads |-> "idle"]
    /\ ctx = [w \in Threads |-> NoContext]
    /\ memory = [w \in Threads |-> <<>>]
    /\ command = [w \in Threads |-> <<>>]
    /\ store = <<>>
    /\ queue = <<>>
    /\ events = 0
    /\ calls = {}
    /\ kept = {}
    /\ failed = {}
    /\ expired = {}
    /\ verdicts = [w \in Threads |-> NoVerdict]

Go(w, at) == pc' = [pc EXCEPT ![w] = at]
SetContext(w, c) == ctx' = [ctx EXCEPT ![w] = c]
Pop(id) == store' = Restrict(store, DOMAIN store \ {id})

Answered(keys, c, kind) == Values([k \in DOMAIN keys |-> [keys[k] EXCEPT !.by = RunOf(c)]], kind)

-----------------------------------------------------------------------------
(* processScenario(): the token that a run has got.                        *)

StartContext(w, dynamic) ==
    /\ SetContext(w, [NoContext EXCEPT !.cache = AddDynamicKeys(@, dynamic)])
    /\ Go(w, "scenario")

\* the context of a timeout goes on
Resumed(c) == [c EXCEPT !.continue = FALSE, !.past = @ \union {"resumed"}]

\* waiting mode: what an event brings to the first scenario
EventKeys(id) == Updated(Values(setup.data, "event"), Single(id[1], Literal(id[2])))

\* process_callback(): the analysis ends in an exception after the assertions ('deviceId'
\* in __ctx), unless a timeout was expected; then the list goes on
ProcessCallback(w, c, rest) ==
    /\ queue' = IF Line(c).timeoutOk /\ c.scn < Len(setup.scenarios)
                   THEN Append(rest, [type |-> "context", ctx |-> c]) ELSE rest
    /\ Go(w, "idle")
    /\ UNCHANGED ctx

ProcessScenario(w) ==
    /\ pc[w] = "idle" /\ w \in setup.threads /\ runs[w] < setup.runs
    /\ runs' = [runs EXCEPT ![w] = @ + 1]
    /\ \/ /\ queue = <<>> /\ ~setup.waiting
          /\ StartContext(w, <<>>)
          /\ UNCHANGED <<queue, store>>
       \/ /\ queue # <<>> /\ Head(queue).type = "start"
          /\ StartContext(w, <<>>)
          /\ queue' = Tail(queue)
          /\ UNCHANGED store
       \/ /\ queue # <<>> /\ Head(queue).type = "context"
          /\ SetContext(w, Resumed(Head(queue).ctx))
          /\ Go(w, IF Head(queue).ctx.continue THEN "line" ELSE "scenario")
          /\ queue' = Tail(queue)
          /\ UNCHANGED store
       \/ /\ queue # <<>> /\ Head(queue).type = "callback"
          /\ Head(queue).id \in DOMAIN store
          /\ ProcessCallback(w, store[Head(queue).id].ctx, Tail(queue))
          /\ Pop(Head(queue).id)
       \/ /\ queue # <<>> /\ Head(queue).type = "callback"
          /\ Head(queue).id \notin DOMAIN store
          /\ IF setup.waiting
                THEN StartContext(w, EventKeys(Head(queue).id))
                ELSE Go(w, "idle") /\ UNCHANGED ctx
          /\ queue' = Tail(queue)
          /\ UNCHANGED store
    /\ UNCHANGED <<setup, memory, command, events, histVars>>

-----------------------------------------------------------------------------
(* process(): the list of scenarios and the steps.                         *)

BeginScenario(c, uid, cache) ==
    [c EXCEPT !.scn = uid[3], !.line = 0, !.uid = uid, !.past = {}, !.cache = cache]

\* getNextScenario(): the contexts with which a thread may begin the next scenario
NextContexts(w) ==
    LET scn == ctx[w].scn + 1
        uid == <<w, runs[w], scn>>
    IN  {BeginScenario(ctx[w], uid, cache) :
            cache \in ScenarioCaches(setup.scenarios[scn], ToString(uid), ctx[w].cache,
                                     Environment(w))}

\* Mutant: a scenario starts with the memory of the one before.
NextScenarioWithMemory(w) ==
    /\ pc[w] = "scenario"
    /\ IF ctx[w].scn = Len(setup.scenarios)
          THEN Go(w, "idle") /\ UNCHANGED ctx
          ELSE \E c \in NextContexts(w) : SetContext(w, c) /\ Go(w, "line")
    /\ UNCHANGED <<setup, runs, memory, command, store, queue, events, histVars>>

\* getNextScenario() and the reset of the memory; a macro without a macros section ends
\* the run
NextScenario(w) ==
    /\ pc[w] = "scenario"
    /\ IF ctx[w].scn = Len(setup.scenarios)
          THEN /\ Go(w, "idle") /\ UNCHANGED ctx
               /\ memory' = [memory EXCEPT ![w] = <<>>]
          ELSE \/ /\ NextContexts(w) = {}
                  /\ Go(w, "idle")
                  /\ UNCHANGED <<ctx, memory>>
               \/ /\ \E c \in NextContexts(w) : SetContext(w, c)
                  /\ memory' = [memory EXCEPT ![w] = <<>>]
                  /\ Go(w, "line")
    /\ UNCHANGED <<setup, runs, command, store, queue, events, histVars>>

\* Mutant: an asynchronous step is treated like the others.
StepFailsOnce(w, c) ==
    /\ SetContext(w, c)
    /\ Go(w, IF Line(c).stop THEN "scenario" ELSE "line")
    /\ failed' = IF Line(c).async THEN failed \union {StepOf(c)} ELSE failed

\* an asynchronous step that fails cannot continue: the next scenario begins
StepFails(w, c) ==
    /\ SetContext(w, c)
    /\ IF Line(c).async
          THEN Go(w, "scenario") /\ failed' = failed \union {StepOf(c)}
          ELSE Go(w, IF Line(c).stop THEN "scenario" ELSE "line") /\ UNCHANGED failed

EndOfSteps(w) ==
    /\ pc[w] = "line" /\ ctx[w].line = Len(Scenario(ctx[w]).lines)
    /\ Go(w, "scenario")
    /\ UNCHANGED <<setup, runs, ctx, memory, command, store, queue, events, histVars>>

\* Mutant: the copy has no identifier.
CloneWithoutId(c) == [ctx |-> [c EXCEPT !.id = <<>>], locked |-> TRUE, flagged |-> FALSE]

\* Context.copy(), locked by add_ctx()
Clone(c) == [ctx |-> c, locked |-> TRUE, flagged |-> FALSE]

\* add_ctx(): whatever the identifier stood for is replaced
Stored(id, clone) == [x \in DOMAIN store \union {id} |-> IF x = id THEN clone ELSE store[x]]

\* call_before(): the identifier comes from the cache, and a clone is stored, locked
CallBefore(w, c, what) ==
    LET line == Line(c)
        keys == c.cache.runtime
        id   == <<line.key, keys[line.value].atom>>
        call == [c EXCEPT !.id = id]
    IN
    IF line.value \notin DOMAIN keys \/ keys[line.value].atom = Blank
       THEN StepFails(w, c) /\ UNCHANGED <<store, command, calls>>
       ELSE /\ calls' = calls \union {CallOf(call)}
            /\ store' = Stored(id, Clone(call))
            /\ SetContext(w, call) /\ Go(w, "sent")
            /\ command' = [command EXCEPT ![w] = what]
            /\ UNCHANGED failed

\* getNextLine(), processNew() and the call to the implementation
SendData(w) ==
    /\ pc[w] = "line" /\ ctx[w].line < Len(Scenario(ctx[w]).lines)
    /\ LET c == [ctx[w] EXCEPT !.line = @ + 1]
           sent == ProcessNew(Line(c), Scenario(c).macros, c.cache)
           now == [c EXCEPT !.cache = sent.cache]
       IN
       \/ /\ sent.outcome = "fatal"
          /\ SetContext(w, now) /\ Go(w, "idle")
          /\ UNCHANGED <<store, command, failed, calls>>
       \/ /\ sent.outcome = "failed"
          /\ StepFails(w, now)
          /\ UNCHANGED <<store, command, calls>>
       \/ /\ sent.outcome = "sent" /\ Line(c).async
          /\ CallBefore(w, now, sent.command)
       \/ /\ sent.outcome = "sent" /\ ~Line(c).async
          /\ SetContext(w, now) /\ Go(w, "sent")
          /\ command' = [command EXCEPT ![w] = sent.command]
          /\ UNCHANGED <<store, failed, calls>>
    /\ UNCHANGED <<setup, runs, memory, queue, events, kept, expired, verdicts>>

-----------------------------------------------------------------------------
(* The answer: call_after(), _processResponse() and what process() does    *)
(* with the result.                                                        *)

\* Mutant: what has been found is there for the following steps before all of it is.
MemorizedEarly(asked, memo) == UpdateKeysPermanently(asked, Values(memo.memory, "memory"))

\* memorizeVariable() and update_keys_permanently(), which is not reached when it raises
Memorized(asked, memo) ==
    IF memo.outcome = "ok" THEN UpdateKeysPermanently(asked, Values(memo.memory, "memory"))
    ELSE asked

\* _processResponse(): a value is memorised for the following steps, and the rules are
\* applied; a rule that fails ends the run ('deviceId' in ctx)
ProcessResponse(w, resp) ==
    LET c     == ctx[w]
        line  == Line(c)
        asked == UpdateKeys(c.cache, resp)
        text  == IF "responseText" \in DOMAIN resp THEN resp["responseText"] ELSE Literal("none")
        memo  == MemorizeVariable(line.memory, memory[w], text, asked.runtime)
        known == IF line.memory = <<>> THEN c.cache ELSE Memorized(asked, memo)
        lost  == line.memory # <<>> /\ line.async /\ c.id \notin DOMAIN store
        cache == UpdateKeys(known, resp)
        verdict == CheckResponse(line.rules, cache.runtime, FALSE)
    IN
    IF memo.outcome # "ok" \/ lost
       THEN [outcome |-> IF memo.outcome = "ok" THEN "failed" ELSE memo.outcome,
             checked |-> FALSE, memory |-> memo.memory, cache |-> known]
       ELSE [outcome |-> IF Accepts(verdict) THEN "ok" ELSE "fatal",
             checked |-> TRUE, memory |-> memo.memory, cache |-> cache]

\* ContextIdentifier.update(): the clone gets what has been memorised
UpdateClone(id, keys) == [store EXCEPT ![id].ctx.cache = UpdateKeysPermanently(@, keys)]

Judge(w, resp) ==
    LET c == ctx[w]
        r == ProcessResponse(w, resp)
        now == [c EXCEPT !.cache = r.cache]
    IN
    /\ memory' = [memory EXCEPT ![w] = r.memory]
    /\ store' = IF Line(c).memory # <<>> /\ Line(c).async /\ r.checked
                   THEN UpdateClone(c.id, Values(r.memory, "memory")) ELSE store
    /\ verdicts' = IF r.checked
                      THEN [verdicts EXCEPT ![w] = [rules |-> Line(c).rules, outcome |-> r.outcome,
                                                    keys |-> r.cache.runtime]]
                      ELSE verdicts
    /\ \/ /\ r.outcome = "ok"
          /\ SetContext(w, now) /\ Go(w, "answered")
          /\ kept' = IF Line(c).memory = <<>> THEN kept
                     ELSE kept \union {[run |-> RunOf(c), line |-> c.line, key |-> k] :
                                        k \in DOMAIN r.memory}
          /\ UNCHANGED failed
       \/ /\ r.outcome = "failed"
          /\ StepFails(w, now)
          /\ UNCHANGED kept
       \/ /\ r.outcome = "fatal"
          /\ SetContext(w, now) /\ Go(w, "idle")
          /\ UNCHANGED <<kept, failed>>

\* the keys of an answer, with the time that it has taken
Response(a, c) == Answered(Updated(a.keys, Single("time", Literal("short"))), c, "response")

\* a refused call is taken back: pop_ctx(), and the step fails; the clone of a call that
\* raised, or whose answer has no error code, stays
Refuse(w, back) ==
    /\ StepFails(w, ctx[w])
    /\ IF back /\ Line(ctx[w]).async THEN Pop(ctx[w].id) ELSE UNCHANGED store
    /\ UNCHANGED <<memory, kept, verdicts>>

Stop(w, at) == Go(w, at) /\ UNCHANGED <<ctx, memory, store, kept, failed, verdicts>>

Answer(w) ==
    /\ pc[w] = "sent"
    /\ \E a \in Line(ctx[w]).answers :
         \/ a.kind = "shutdown" /\ Stop(w, "scenario")
         \/ a.kind = "fatal" /\ Stop(w, "idle")
         \/ a.kind = "exception" /\ Refuse(w, FALSE)
         \/ a.kind = "no code" /\ Line(ctx[w]).async /\ Refuse(w, FALSE)
         \/ a.kind = "refused" /\ Refuse(w, TRUE)
         \/ /\ \/ a.kind = "accepted"
               \/ a.kind = "no code" /\ ~Line(ctx[w]).async
            /\ Judge(w, Response(a, ctx[w]))
    /\ UNCHANGED <<setup, runs, command, queue, events, calls, expired>>

KeepThread(c, keys) ==
    [c EXCEPT !.past = @ \union {"kept"}, !.cache = UpdateAsyncDataPermanently(@, keys)]

\* manage_async_break(): the thread is kept if the notification has come, with all that
\* the clone has in its cache
AfterStep(w) ==
    LET c == ctx[w]
        there == c.id \in DOMAIN store
    IN
    /\ pc[w] = "answered"
    /\ \/ /\ ~Line(c).async
          /\ Go(w, "line")
          /\ UNCHANGED <<ctx, store>>
       \/ /\ Line(c).async /\ there /\ store[c.id].flagged
          /\ SetContext(w, KeepThread(c, store[c.id].ctx.cache.runtime))
          /\ Pop(c.id)
          /\ Go(w, "line")
       \/ /\ Line(c).async /\ ~(there /\ store[c.id].flagged)
          /\ store' = IF there THEN [store EXCEPT ![c.id].locked = FALSE] ELSE store
          /\ Go(w, "scenario")
          /\ UNCHANGED ctx
    /\ UNCHANGED <<setup, runs, memory, command, queue, events, histVars>>

-----------------------------------------------------------------------------
(* The threads around.                                                     *)

Flagged(clone, keys) == [clone EXCEPT !.flagged = TRUE, !.ctx.cache = UpdateKeys(@, keys)]

\* lock_and_update_flag(), or a token
Notify(id) ==
    LET clone == store[id].ctx
        token == [type |-> "callback", id |-> id]
    IN
    /\ IF store[id].locked
          THEN /\ ~store[id].flagged
               /\ store' = [store EXCEPT ![id] =
                               Flagged(@, Answered(setup.data, clone, "notification"))]
               /\ UNCHANGED queue
          ELSE /\ token \notin {queue[i] : i \in DOMAIN queue}
               /\ queue' = Append(queue, token)
               /\ UNCHANGED store
    /\ UNCHANGED <<setup, threadVars, events, histVars>>

\* the reaper does not look at the lock
TimeOut(id) ==
    LET clone == store[id].ctx
        token(continue) == [type |-> "context", ctx |-> [clone EXCEPT !.continue = continue]]
    IN
    /\ Line(clone).timed
    /\ queue' = IF Line(clone).timeoutOk THEN Append(queue, token(TRUE))
                ELSE IF clone.scn < Len(setup.scenarios) THEN Append(queue, token(FALSE))
                ELSE queue
    /\ expired' = IF Line(clone).timeoutOk THEN expired \union {StepOf(clone)} ELSE expired
    /\ Pop(id)
    /\ UNCHANGED <<setup, threadVars, events, calls, kept, failed, verdicts>>

\* waiting mode: an event that nobody waits for, or /start
Event ==
    /\ setup.waiting /\ events < EventBound
    /\ events' = events + 1
    /\ \E token \in {[type |-> "callback", id |-> <<"event", "event">>], [type |-> "start"]} :
         queue' = Append(queue, token)
    /\ UNCHANGED <<setup, threadVars, store, histVars>>

Next ==
    \/ \E w \in Threads :
         ProcessScenario(w) \/ NextScenario(w) \/ SendData(w) \/ EndOfSteps(w) \/ Answer(w)
         \/ AfterStep(w)
    \/ \E id \in DOMAIN store : Notify(id) \/ TimeOut(id)
    \/ Event

Spec == Init /\ [][Next]_vars

-----------------------------------------------------------------------------
(* Properties.                                                             *)

Running(w) == pc[w] \in {"line", "sent", "answered"}

\* the keys of a context section that have a value, or the placeholder of one: of the
\* environment, or of a key in near
Resolvable(context, env, near) ==
    {k \in DOMAIN context \ {TransactionId} :
        /\ context[k].calls <= 1
        /\ IF context[k].ref
              THEN context[k].atom \in (env \ DOMAIN context) \union near
              ELSE context[k].atom # Blank}

IsValue(text)    == text.calls = 0 /\ ~text.ref /\ text.atom # Blank
AreValues(texts) == \A k \in DOMAIN texts : IsValue(texts[k])

\* Whatever the order of the keys in the dictionary, the context section is evaluated
\* when the first step begins: no key that is at most two placeholders away from a value,
\* with one macro call in each of them, is missing or has something left to replace
\* ("TODO : recursive"), as long as the properties and the events bring values: an empty
\* one is not replaced.
ContextIsEvaluated ==
    AreValues(Env) /\ AreValues(setup.data) =>
    \A w \in Threads : pc[w] = "line" /\ ctx[w].line = 0 =>
        LET env == DOMAIN Environment(w) \ {TransactionId}
            Near(keys) == Resolvable(Scenario(ctx[w]).context, env, keys)
            cache == ctx[w].cache.with
        IN  \A k \in Near(Near(Near({}))) : k \in DOMAIN cache /\ IsValue(cache[k])

Resolved(text) == ~text.ref /\ text.atom # Raw

\* What is sent has no placeholder left, and no macro was called with one, as long as the
\* fields are one placeholder away from a value of the cache or of another field, or two
\* where the step has no template.
CommandIsResolved ==
    \A w \in Threads : pc[w] = "sent" =>
        LET fields == Line(ctx[w]).fields
            cache == ctx[w].cache.with
            near == {f \in DOMAIN fields :
                        fields[f].ref =>
                            \/ fields[f].atom \in DOMAIN cache /\ Resolved(cache[fields[f].atom])
                            \/ fields[f].atom \in LiteralFields(fields)}
            far  == {f \in DOMAIN fields :
                        fields[f].atom \in near \ DOMAIN cache /\ fields[f].calls = 0}
            good == IF Line(ctx[w]).template = "none" THEN near \union far ELSE near
        IN  \A f \in good \intersect DOMAIN command[w] : Resolved(command[w][f])

\* Context.getNextScenario() and processNew() together: no placeholder is left over, neither
\* in the section when the first step begins nor in what a step sends.
PlaceholdersAreResolved == ContextIsEvaluated /\ CommandIsResolved

\* An identifier of a call of the run is that of another call, too: the notification or the
\* timeout of one reaches the other.
Shared(run) == \E a, b \in calls : a.run = run /\ a # b /\ a.id = b.id

\* What a successful step has memorised stays in the cache to the end of its scenario, also
\* where the scenario goes on in the clone of the context, unless calls share an identifier.
\* A thread whose clone has timed out may be behind the one that goes on.
MemorizedIsThere ==
    \A w \in Threads : Running(w) /\ ~Shared(RunOf(ctx[w])) =>
        \A m \in kept :
            /\ m.run = RunOf(ctx[w])
            /\ m.line < ctx[w].line \/ (m.line = ctx[w].line /\ pc[w] # "sent")
            => m.key \in DOMAIN ctx[w].cache.with

\* What a memorisation has found before it stopped stays out of the cache until a step
\* succeeds, unless the context goes on after a timeout or calls share an identifier: an
\* answer that is judged in the end updates the clone, and may come too late for its thread.
OnlyMemorized ==
    \A w \in Threads :
        Running(w) /\ "resumed" \notin ctx[w].past /\ ~Shared(RunOf(ctx[w])) =>
        \A k \in DOMAIN ctx[w].cache.with :
            ctx[w].cache.with[k].kind = "memory" =>
            \E m \in kept : m.run = RunOf(ctx[w]) /\ m.key = k

\* "Locks have been added to be sure theses memorization data will be available to next
\* steps": the steps of a scenario find in the cache what the steps that have succeeded have
\* memorised, and of what has been memorised, nothing else.
MemoryIsKept == MemorizedIsThere /\ OnlyMemorized

\* A scenario only sees values of its own run, unless it goes on after a timeout, when the
\* memory of the thread is that of another run, or shares an identifier with another call,
\* when the notification of one reaches the other.
OwnKeys ==
    \A w \in Threads :
        Running(w) /\ "resumed" \notin ctx[w].past /\ ~Shared(RunOf(ctx[w])) =>
        \A k \in DOMAIN ctx[w].cache.with :
            ctx[w].cache.with[k].by \in {<<>>, RunOf(ctx[w])}

\* "To be sure that we won't have some side effect with fields": the fields and the answer
\* of a step are not there any more when the next one is sent, unless an asynchronous step
\* has kept its thread.
NoSideEffect ==
    \A w \in Threads : pc[w] = "sent" /\ "kept" \notin ctx[w].past =>
        LET keys == ctx[w].cache.runtime IN
        \A k \in DOMAIN keys :
            /\ keys[k].kind # "response"
            /\ keys[k].kind = "field" => k \in DOMAIN Line(ctx[w]).fields

\* The cache of a context has the keys of its own run, and the fields of its own step, only.
CacheIsOwn == OwnKeys /\ NoSideEffect

\* "An asynchronous step that fails cannot continue": no later step of its scenario is
\* sent, unless its clone, which stays when the call raises, has timed out as a success, or
\* calls share an identifier.
FailureStopsScenario ==
    \A w \in Threads : pc[w] = "sent" /\ ~Shared(RunOf(ctx[w])) =>
        \A f \in failed : f.run = RunOf(ctx[w]) /\ f.line < ctx[w].line => f \in expired

Alone(rule, keys) == Accepts(CheckResponse(<<rule>>, keys, FALSE))

\* A run is only ended by a rule that is not respected, and goes on when all are, those
\* apart that follow a JSON rule and those that wait for the notification.
VerdictIsRight ==
    \A w \in Threads :
        LET v == verdicts[w]
            now == {i \in DOMAIN v.rules : ~v.rules[i].deferred}
            seen == {i \in now : \A j \in now : v.rules[j].type = "json" => j >= i}
            respected == \A i \in seen : Alone(v.rules[i], v.keys)
        IN  v.outcome # "none" => (v.outcome = "ok" <=> respected)

\* "the awaken and updated context can be processed on following steps": a context whose
\* notification respects the deferred rules goes on.
AwakenedContinues ==
    [][\A w \in Threads :
        /\ runs'[w] # runs[w] /\ queue # <<>> /\ Head(queue).type = "callback"
        /\ Head(queue).id \in DOMAIN store
        /\ LET c == store[Head(queue).id].ctx IN
             /\ ~Line(c).timeoutOk
             /\ Accepts(CheckResponse(Line(c).rules,
                          UpdateKeys(c.cache, setup.data).runtime, TRUE))
        => pc'[w] = "line"]_vars
=============================================================================
