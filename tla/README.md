# A TLA+ verification of grindertool

grindertool is a load and validation test engine on top of The Grinder (Jython),
with a small Java service, ContextManagement, that routes notifications. This
directory holds TLA+ modules that model its core - how it starts, loads its
scenarios, paces and executes them, and what its threads share - the TLC
configurations that check them and the TLAPS proofs about them. Line numbers refer to
the sources; the file `PROJECT.json` maps every definition to the lines that it models.

## 1. The system

A grindertool process has *worker threads* (`TestRunner`), each of which executes the
runs that The Grinder gives it. A run executes a list of YAML scenarios step by step.
A step may be *asynchronous*: its request is answered at once, and its real result
comes later as a notification - an HTTP callback or an SMPP message - for an
*identifier* (a context key and a value). The thread does not wait for it:

1. `asynchronous.call_before()` counts a waiting context, registers the identifier in
   the context router, clones the execution context, locks the clone and stores it in
   `ContextIdentifier`;
2. the implementation sends the request; `call_after()` and `_processResponse()`
   analyse the answer;
3. `manage_async_break()` looks whether a notification has come meanwhile: if so the
   thread goes on, otherwise it unlocks the clone and leaves the scenario;
4. a notification goes from the tested service to the router, from there to the
   `CallbackHandler` of the process, which puts an `AsyncContextToken` in the shared
   `GrinderQueue`; any worker that takes it pops the clone and resumes its scenario;
5. or the clone expires, and the *reaper* thread ends its scenario - or resumes it, for
   a step that expects the timeout.

| Component | State | Operations | Talks to |
|---|---|---|---|
| Configuration (`configuration.py`, `coreGrinder.py`) | mode flags, number of runs, ramp, target, started services | `initialize` and what it calls, `__createTest` | all |
| Scenario loading (`scenario.py`, `scenarioList.py`, `checkRule.py`) | lines, macros and contexts of the files; a test counter in a class | `ScenarioFile`, `Line`, includes, `ScenarioList` | configuration |
| Test runner (`grindertool.py`) | token, context, scenario and step of each worker; active sessions | `__rampup_call__`, `processScenario`, `process`, `_sendData`, `_processResponse` | queue, store, implementations |
| Execution context (`context.py`, `Fields.py`) | lock, flag, scenario and line index, caches of keys | `getNextScenario`, `getNextLine`, `processNew`, `updateKeys...`, `endAsyncScenario` | queue |
| Memory and assertions (`memory.py`, `scenario.py`) | memory of the thread | `memorizeVariable`, `checkResponse` | contexts, store |
| Asynchronous steps (`asynchronous.py`) | its mutex | `call_before`, `call_after`, `manage_async_break`, `process_callback`, `manage_exception` | store, router, queue, counters |
| Context store (`contextIdentifier.py`) | two-level map of clones, mutex, reaper thread | `add_ctx`, `exists`, `lock_and_update_flag`, `isFlagged`, `unlock`, `update`, `pop_ctx`, `removeExpiredContext` | queue, counters |
| Queue (`grinderQueue.py`, `token.py`) | FIFO of tokens of six kinds | `put`, `take`, `blocking_take`, `clear` | everybody |
| Counters (`contextLock.py`) | waiting contexts, runs left | increase, decrease, `decreaseAllCounters` | runner, reaper, queue |
| Callback server (`contextCallback.py`), SMPP (`SmscDriver.py`) | a port; none | `handle`, `handleRequestFromInput` | store, queue |
| Metronom (`metronom.py`, `cadencer.py`) | position in the ramp profile, tokens produced | produce, clear on a change of rate, poison | queue |
| Context router (`ContextManagement`, Java) | cache of registrations, counters of notifications, cleaner thread | create, createBatch, delete, update, updateFromHeader, updateFromPath, clean | workers over HTTP |
| Data providers (`macros/`) | positions, chunks and pools in *class* attributes | next value, next line, next chunk | all threads |
| Macro library (`macroLibs.py`) | instances by scenario and name, the index of the current scenario | load, call, `setMacrosIndex` | providers, contexts |
| Regulator, sleeper, waiter | - | unreachable or unused | - |
| Implementations, reporting, templates, tools | - | I/O | the outside |

What is hard in it: the same clone is reached by its sender, by handlers, by other
workers and by the reaper, with three different locks and some reads under none;
notifications come early, late, twice or never; steps fail after they have announced
themselves to the store, to the router and to the counters; timeouts race answers; a
single queue, which is cleared on several occasions, carries pace tokens, resumptions,
cancellations and poison; in validation mode a fixed number of runs, computed
beforehand, must suffice for every scenario and every resumption; data providers look
like objects of one thread and are shared by all of them; what a step memorises must
follow its scenario from thread to thread, through clones and caches that are reset at
every step; several processes of a host must not meet on a port, a test number or a
rate. `PROJECT.json` lists the hazards at their lines, with the properties that aim at
them.

## 2. The modules

| Module | Models |
|---|---|
| `AsyncContext` | the life of asynchronous calls in one process: senders, workers that resume, notification handlers, reaper, clearing of the queue |
| `CallLedger` | what this machinery promises for each call (abstract specification of `AsyncContext`) |
| `ContextRouter` | the cache of the context router, its requests and its cleaner |
| `ValidationRuns` | how a thread spends its runs in validation mode: `take()`, counters, scenario list |
| `Throughput` | the meeting of the threads, the producer of the Metronom, the workers that it paces, the throttler |
| `ThroughputCounted` | the same with the assumption that every started thread is counted |
| `DataProviders` | the data macros: their loading, and the threads that share them |
| `Dealer` | what a provider promises: values in turn (abstract specification of `DataProviders`) |
| `CacheKeys` | the cache of a context: placeholders, macro calls, markers, fields of a step |
| `Assertions` | memorisation from an answer, and the assertion rules |
| `ScenarioRun` | threads that execute scenarios with this data, with asynchronous steps, notifications and timeouts; extends the two before |
| `ScenarioLoad` | what a parsed file gives: rules, macros, contexts, steps, lines |
| `Pace` | the ramps of the cadencers: counts and intervals |
| `StartUp` | `Configuration.initialize()` of several processes, with the reading of their files; extends the two before |
| `AsyncContext_proofs` | types; safety of `AsyncContext` and its refinement of `CallLedger` |
| `Throughput_proofs` | types, meeting, poison, target, throttler and the rate of the tokens in the queue |
| `ContextRouter_proofs` | types and safety of the router |
| `ValidationRuns_proofs` | types, and the start of new runs |
| `DataProviders_proofs` | types and safety of the providers, and their refinement of `Dealer` |
| `ScenarioRun_proofs` | types, who goes on with a run and with what was memorised, failures, verdicts |
| `ScenarioCaches_proofs` | what the caches of `ScenarioRun` hold: own keys, fields of the step, what was memorised, placeholders |
| `StartUp_proofs` | types, test numbers, includes, promised runs, services and paces of `StartUp` |
| `MC...` | instances for TLC |

### AsyncContext

One action is one critical section on `ContextIdentifier.mutex`, one unlocked read of
the store, or one queue operation; what a thread does on its own data between two of
them is part of the one before. The control points of a worker follow the code:
`idle` (in `take()`), `create` (in `call_before`), `send`, `reply` (the answer is being
analysed), `stop` (a failed step, before `manage_exception`), `break`
(`manage_async_break` before `isFlagged`), `keep`/`unlock` (its two outcomes, inside
`asynchronous.mutex`), `resume` (a token is taken, the clone is not popped yet) and
`callback` (`process_callback`). A handler is at `exists`, `lock` or `put`; the reaper
at `visit` or `pop`.

A *call* is one execution of a blocking, single-caller asynchronous step; the data of
contexts, requests and notifications is left to `ScenarioRun`, and time is the action
`Expire`. The scenario around a call is a list of one scenario with one such step.
Failures are choices of the calls in `MayFail`: the router refuses the registration, the
implementation raises or answers an error code, the assertion fails, the processing of
the notification raises. The five tries of the SMPP driver are one, because a failed
try changes nothing. `waitingContext` changes in one step, although the code increases
and decreases it under two different conditions.

### CallLedger

A call is registered once, answered at most once, and timed out at most once; only a
registered call that is still pending is answered, except one that is being timed out
at that moment. `AsyncContext` maps `registered` to the calls that have stored their
clone, and `pending` to those whose clone is in the store.

### ContextRouter

HTTP requests run in parallel, and only each access to the cache is synchronized: the
look up of an entry, the POST to the worker and the removal are three actions, between
which other requests, withdrawals and the cleaner act. `updateFromPath` counts the
notification first (`check`), collects the output map, and calls `updateContext`. The
content of the map is the set of the numbers under which notifications were put into
it. The cleaner takes the context keys, then for each one the entries up to the first
valid date; the comparison of dates cut to 32 bits is modelled as far as -1 is
concerned: an entry with -1 may be sorted on either side of a date. A failed POST may
or may not have reached the worker.

### ValidationRuns

One worker thread and the number of runs that
`Configuration.__manageAsyncConfiguration` computes. A scenario is the number of its
asynchronous steps. `take()` is split at its sleeps and polls (`poll`, `decide`,
`wait`, `recheck`); `process()` is the loop over scenarios (`scenario`) and steps
(`step`). The threads of AsyncContext appear with what they do to the queue, the
counters and the set of stored contexts. A step may fail at every point that the code
distinguishes by its effect on counters and tokens.

### Throughput and ThroughputCounted

`setup` is the configuration of the process, chosen once from the constant `Setups`:
method and profile of the cadencer, number of runs asked for, throttler. A worker
counts itself, tests the count and meets the others (`start`, `counted`, `meeting`);
then it takes tokens. `blocking_take()` is two steps, because `Queue.get()` holds its
mutex between the test and the pop (`pop`) while `clear()` does not need it. A session,
the execution of the scenarios, is one step; in between the throttler (`enter`,
`throttled`, `leave`) counts it under `lockSession`. The producer is a loop of `Pace`
(the answer of the cadencer, the clearing, the count) and `PutPace` (one queue operation
for each token), then `StopAll` and `PutPoison`. The cadencer is a phase and the
number of answers left in it; the five methods differ in what they report as rate, and
in what they do at the end of a phase. Everything that other threads put into the queue
is one action, `PutContext`, once a thread has taken a token: contexts wait because
sessions have released them.

`NumberOfThreads` is the attribute that the meeting and the poison count with;
`Threads` are those that The Grinder starts. They differ when fewer than 16 threads are
configured, since `manageThroughput()` raises the property to 16 after the attribute was
read. `ThroughputCounted` states the premise that they agree (`EveryThreadCounts`):
the passing run and the theorems use it, the run `throughput_meeting` drops it.

### DataProviders and Dealer

A process loads the `macros` sections of its scenarios (`LoadMacro`, one definition at a
time) and its threads then make the calls of their runs. A macro instance is copied for
every thread, but what it hands out is kept in attributes of its *class*; `cls` is that
class object, shared by all threads and all instances. An action is a call under the
lock of the provider; `dataChunkFromFILE` leaves its lock at the end of a file, and has
the points `eof`, `rotate` and `again`. Values are the numbers of lines, elements or
identifiers. Modelled are `dataFromFILE` (next line, and the line of the pair thread and
run), `dataChunkFromFILE`, `identifierGenerator` with and without shuffling,
`listGenerator`, `CsvDataFile` and `Increment`. `SetMacrosIndex` and `CallMacro` are the
two steps of an assertion that calls a macro: the index of the scenario is an attribute
of a class as well.

`Dealer` hands out the values 1 to `size` in turn, again and again only if it cycles.

### CacheKeys, Assertions and ScenarioRun

The data that a scenario works on. A text is the number of macro calls nested in it, the
atom inside, and whether the atom is a placeholder; a value also carries the run that it
comes from (`by`) and the kind of thing that put it into the cache (`kind`), which the
code does not know and the properties are about. `CacheKeys` has the three dictionaries
of a cache with their updates, markers and resets, the evaluation of a `context` section
in rounds, key by key in any order (a dictionary has none), and the fields of a step
with or without a template. `Assertions` has the fields of `MemoryMgr` and the rules of
`Line.checkResponse`; which patterns and XPaths match is given by the instance.

In `ScenarioRun` every worker takes a run or a token (`ProcessScenario`), goes through
its scenarios (`NextScenario`, `EndOfSteps`) and steps (`SendData`, `Answer`,
`AfterStep`). An asynchronous step stores a clone; a notification or a timeout is one
step (`Notify`, `TimeOut`), since `AsyncContext` has their interleavings. What a
notification leaves in a locked clone, what a worker finds in the clone it pops, and
what the clone is told of values memorised after it was made are followed. A waiting
process starts a scenario for each `Event`. Left out: steps with several callers, tokens
that cancel or only pay for a run, and list fields, which are flattened.

### ScenarioLoad, Pace and StartUp

`ScenarioLoad` has a file system (`File`), in which a step, a rule or a call is a
record with what the parser distinguishes, and every exception is a refusal: what is refused,
how contexts are flattened and merged (`Filled` is the `update` of a dictionary by the one
that decides), and the `Line` of a step. `Pace` has the phases of a ramp, what the cadencers refuse, and the number and the
intervals of their answers, in whole milliseconds.

`StartUp` is the start of several processes, step by step in the order of
`Configuration.initialize()`; an exception is the state `dead`, which frees the port. A file
is read step by step too. `OpenFile` loads its macros; `reading` is the stack of
`__process_recursive_includes()`, whose frames know the next step of their file: `TakeStep`,
`IncludeFile` (a recursive call: macros, then context) and `EndInclude` (its return). Then
`parse_version_11()` goes over the steps found (`RefuseCall`, `IgnoreStep`, `MakeLine`), and
`FileLoaded` appends the scenario. A refused file (`FileFails`) is tried under the next name, if
there is one, and leaves its macros and test numbers behind. `list` is the `ScenarioList`, `mode` the flags, `services` what the process has started or
reached. Router, reporter and SMSC answer or do not. Processes share the properties
(`config`) and the ports of the host.

## 3. The runs

| Run | Result | Shows |
|---|---|---|
| `async_safety` | pass | safety of calls, the inductive invariant, the ledger |
| `async_live` | pass | timed calls leave the store, tokens are served |
| `async_lost` | violation | a notification between `isFlagged` and `unlock` is lost |
| `router` | pass | accounting of registrations, complete messages, the cleaner |
| `validation` | pass | no premature new run; the thread finishes |
| `throughput` | pass | common start, target, rates, throttler, poison for everybody |
| `throughput_meeting` | violation | with more threads than are counted, the metronom starts before all have come |
| `providers` | pass | lines in turn, files that suffice, identifiers that differ, rotation of chunks |
| `providers_assertion` | violation | an assertion calls the macro of another scenario |
| `execution` | pass | placeholders, memory, isolation of runs, failures and verdicts |
| `execution_awakened` | violation | a context never goes on after its notification |
| `startup` | pass | test numbers, includes, promised runs, services, ramps and shares |

**Properties of the passing runs.**

`ExclusiveContext`: two threads never work on the same call. `CallInv`: the inductive
invariant of section 5. `LedgerSpec`: the refinement. `TimedCallLeaves` and
`TokenIsServed`: progress.

`RemovalIsAccounted`: a registration leaves the router only because it was delivered,
withdrawn or expired. `CompleteMessage`: a worker that waits for several notifications
gets all of them in one message. `OneMessage`: no message before the last notification, then
one, and at most one more for each notification beyond those that were asked for.
`ExpiredLeaves` and `LastNotificationArrives`: progress of the router.

`NewRunWhenNobodyWaits`: a run starts the scenario list again only while no context is
stored. `ThreadFinishes`: `take()` does not wait for ever, unless the reaper has died or
a failed step has left its context in the count.

`NobodyStartsAlone`: no token and no producer before the last thread is counted.
`TargetRespected`: the number of tokens, although the first one is counted and not put.
`OneRateInQueue`: the clearing at a change of rate is complete. `SessionsBelowThreshold`:
the throttler. `PoisonSuffices`: without throttler there is always poison for exactly the
threads that run. `WorkersStop` and `SessionsEnd`: progress, and no deadlock on the lock
that a throttled thread keeps.

`ValuesInTurn`: the lines of files, chunks and lists reach the threads in order, none
lost and none twice, whatever the interleaving at the end of a chunk or file.
`AcceptedFileSuffices`: a file that the size check at loading accepts never runs out, and
no two calls get one line. `IdentifiersDiffer`: generated identifiers are unique over all
threads, or as far apart as the pool is large. `RotationRaisesInRaceOnly`: a file in
chunks that starts again always has a line, but in two races that the property names.

`PlaceholdersAreResolved`: the rounds of substitution suffice for chains of two
placeholders, in whichever order the dictionary gives its keys, and nothing is sent with
a placeholder left. `MemoryIsKept`: what a step memorised stays to the end of its
scenario, also in the clone that another thread continues, and nothing else of the memory is
seen: `memorizeVariable()` raises when a key is missing, before
`update_keys_permanently()` is reached (`Memorized`), and what it has found so far waits in the
memory of the thread for the next step that succeeds. `CacheIsOwn`: a scenario sees
values of its own run only, and the fields and the answer of one step are gone in the
next. `FailureStopsScenario`: after a failed asynchronous step nothing of its scenario is
sent. These three except runs of which a call shares its identifier with another call
(`Shared`): there a notification or a timeout goes to the wrong context, and each of them
fails. `VerdictIsRight`: a run ends by a rule if and only if a rule is not respected, those
behind a JSON rule apart.

`TestIdsDiffer`: test numbers of lines and processes. `IncludesAreMerged`: nested
includes give the steps in the order of a reader, and of each variable the value met
first. `PromisedRuns`: every blocking step finds its further run. `ServicesAreUp`: reaper,
router and a port of its own. `PacesFit`: a ramp that runs to its end has a last pause as
long as the timeout of any blocking step, and the shares of all processes and agents add up
to the rate that was asked for. It promises nothing for a ramp that a target ends before its
last pause (`metronom.py:124`, `RunsToItsEnd`) or that an empty phase ends, and nothing for
several calls in a row, which may last longer than the pause. The fixed period that
`__stopAll()` sleeps in addition (`metronom.py:84`) knows nothing of the calls and is left out.

Several properties name what they except; each exception is a behaviour of the code,
listed in section 4.

**Bounds.** Two calls with different identifiers suffice for the races on one call (the
second one is the bystander that a wrong removal or a dead reaper harms), two workers
(the sender and the one that resumes), two handlers for a notification that comes twice
(`MaxPosts = 2`), one clear of the queue (`MaxClears = 1`). One of the calls expects
its timeout, the other may fail at every point. The queue has no bound of its own: each
token comes from a bounded cause. In the router, two registrations, one for two
notifications by path and one for a single one, two parallel requests and one
notification more than was asked for. In validation mode, two executions of a list of
two scenarios, the first of two asynchronous steps, with timeouts. Throughput has three
threads (two that meet, share poison or fill the threshold, and a third one in another
place), profiles of up to four answers with two rates, an empty phase or a batch, the
percentages 0 (read as 100) and 50 (no session at all) for the throttler, and one token of
others (`MaxAsync = 1`). The providers have two threads of three runs, so six
calls, on files of 0 to 7 lines in chunks of two: files that end before, at and after
the last call, several ends of a chunk, and a file that both threads meet the end of; 71
setups, with two definitions of one module under all combinations of names. The scenarios
of `execution` have chains of up to two placeholders and two nested calls, every kind of
rule alone and in pairs on five documents, memorising steps with every kind of answer, and
two threads of up to three runs that hand contexts to each other: with identifiers that all
runs share, that each thread has, or that every run has for itself - the last is where the
promises without exception are made, with two asynchronous steps in a row, timeouts that are
a success, and a call that raises; events are bounded by 2 (`EventBound`). `startup` has two
processes and 227 configurations over 46 files: each refusal of a step or rule in a file of
its own, includes three deep, and every mode, in 76,011 states; `TestRange = 8` so that a
process can count beyond its range, which the premise of `TestIdsDiffer` excludes.

**Fairness.** Threads are scheduled: a worker inside a step finishes it, an idle worker
takes the next token of the queue, handlers and the reaper go on, time passes
(`Expire`), the cleaner comes back. Nothing obliges a scenario to start a call, the
service to notify or the router's clients to call. All of it is weak fairness; no
property needs more. In Throughput every worker is fair on its own; tokens are finite,
so that the queue's mutex and `lockSession` are free in the end. In DataProviders the
threads make their runs (`FairSpec`). The other specifications state no fairness, since
they are checked for safety only.

**Deadlock** is not checked: the calls, registrations and runs of an instance are
finite, the start of a process ends, and the threads then wait, as the program does.

## 4. The disagreements

Four runs show that the code does not do what a comment beside it says; `findings` in
`PROJECT.json` quotes the lines:

* `async_lost`: `manage_async_break` tests the flag and unlocks in two steps.
* `execution_awakened`: the analysis of a notification always raises after its assertions,
  on a variable of another function (`asynchronous.py:309`), so that no context goes on.
* `providers_assertion`: the index of the scenario, by which an assertion finds its
  macros, is shared by the threads.
* `throughput_meeting`: threads are counted before their number is raised to 16.

More was met while modelling. What follows is in the models as the code has it, and the
properties except it where they would fail:

* The SMPP path ignores the lock of a clone; the reaper's `hash[key].pop(value)` raises
  and ends the reaper when the entry has gone; the router compares an expiration of -1 as a
  date; the counter of runs is decreased by `take()` and by each resumption
  (`contextLock.py:51`); a failed asynchronous step never leaves the count of waiting
  contexts; clearing the queue around its mutex makes a waiting `take()` answer None, which
  the worker takes for a run without token.
* `DYNAMIC` answers its stop with a bare -1, whose unpacking kills the producer before it
  poisons anybody; so does `FASTRAMPING` at the graceful phase that Configuration adds for
  asynchronous scenarios; the throttler may clear the poison. The workers then wait for
  ever. An empty phase ends the whole ramp (`cadencer.py:196`).
* A file with lines that rotates without a counter loses its first line and raises; the
  second reader at the end of a chunked file raises, and a reader that is overtaken there
  leaves a generator that is never replaced (`dataChunkFromFILE.py:267`).
* A JSON rule accepts the answer without the rules behind it (`scenario.py:523`); a step
  whose template is dynamic always fails.
* A step without `sleep` is refused, because an absent key becomes an empty dictionary, which
  is not None (`scenario.py:172`);
  version 10 is always refused; a file with two macros that have no name is refused, and so
  is one with such a macro that is included twice; a list per thread ends the process on a
  missing attribute; of the names that are tried for a process without own list the first
  one is loaded and not used, and at most one scenario is.
* A common target is never shared between processes unless ramps are percentages; steps
  that are ignored still count runs; a scenario with several callers only gets neither
  router nor listener.
* The regulator cannot be started: its method is called with an argument too many
  (`configuration.py:241`);
  `CentralReporterClient` (`configuration.py:25`) is not in the repository.

## 5. The proofs

### AsyncContext

TLAPS proves, for any finite or infinite sets of calls, identifiers, workers and
handlers, from `ConstantsAssumption` only:

* `TypeCorrect`: `Spec => []TypeOK`. `TypeOK` includes that every thread knows the call
  or the identifier that its control point needs.

and, assuming in addition `UniqueKeys` (identifiers of different calls differ) and
`Smpp = {}` (no notification by SMPP):

* `CallsAreSafe`: `Spec => []CallInv`, the inductive invariant;
* `CallsAreExclusive`: the safety property of the run `async_safety`, and, for parts of the
  invariant that say something to a reader, `TokensAreForReleased` and `ReaperSurvives`;
* `ContextsImplementLedger`: `Spec => LedgerSpec`.

The second assumption is necessary: a message of the SMSC does not look at the lock of a
clone, so that a worker may resume a call that its sender still works on. The first one is
what scenarios must provide; the code replaces a stored context silently when they do not.

*Why an inductive invariant.* `ExclusiveContext` could be broken by a worker that pops a
clone whose sender is still in the step. That this does not happen rests on the lock:
a token exists only for a clone that is unlocked (`TokensAreReleased`); a sender that
has stored its clone has it locked (`SenderOwnsClone`); the lock never goes up again,
since a call is stored once. A clone that a worker has resumed has left the store
(`ResumedIsReleased`), so nobody else can pop it, and an answered call is never stored
again (`AnsweredOnce`). For the reaper, every entry that it still has to visit is
stored or was ended by somebody else (`VisitedIsStored`), and a call that has been timed
out leaves the store before the reaper does anything else (`ReaperIsPrompt`), which
also makes the second timeout of a call impossible. `CallInv` is the conjunction of
these; TLC checks it first, in `async_safety`. The proof has one lemma for each action
that changes the store, the queue or an owner, and one frame lemma (`CallsUntouched`)
for those that do not.

### Throughput

TLAPS proves, for any finite set of threads, any configurations and any number of tokens
from others, from `ThroughputAssumption` and `EveryThreadCounts`:

* `ThroughputTypes`: `Spec => []TypeOK`, in particular `activeSession >= 0`;
* `ThreadsMeet`, `PoisonIsEnough`, `TargetHolds`, `ThrottlerHolds` and `RatesDoNotMix`: all
  safety properties of the run `throughput`.

`ThroughputAssumption` states what the constructors of the cadencers give: one phase for
FLAT and RYTHM, a target below the horizon that stands for the endless FLAT, and at least
one further answer of DYNAMIC after it has read its file again (`_count` is at least 1).

*The inductive invariant* `IInv` has a part for each mechanism. `MeetingInv`: the count
is that of the threads beyond the count, so it reaches `grinder.threads` only when nobody
is left to count, and thread 0 has started the producer if and only if it has left the
meeting - hence the producer starts once. `SessionInv`: `activeSession` is the number of
threads that the throttler has let in or holds, whose `finally` is still to come; a
thread that goes on was counted before it was compared, and others can only have left
since. `PoisonInv`: before the end there is neither poison nor a stopped thread, and the
final clear precedes the first poison; then each take moves a thread and a poison
together, which is the argument that a token from a notification in between cannot
break. `TargetInv`: what is counted is ahead of what is produced by at least the first
answer, that is never put; this offsets the `<=` of the loop.

The proof has one lemma for each part and each kind of step, and lemmas about the queue:
an append adds at most one position of poison (`PoisonOfAppend`) and a take removes
the position of its head and shifts the others (`PoisonOfTail`, by a bijection).

`RatesDoNotMix` has an invariant of its own, `RateInv`, on top of `IInv`. A FLAT or DYNAMIC
cadencer only says *that* the rate has changed; two changes in two answers would look like
none. The remembered `1` therefore must be gone before the phase is: this is where the
second answer of a DYNAMIC phase is needed. The other methods report the rate itself, and
what the producer remembers is the rate of every token in the queue. A step of another
thread puts no pace token.

### ContextRouter

From `RouterAssumption` (which bounds nothing but the number of HTTP threads, to be finite):

* `RouterTypes`: `Spec => []TypeOK`;

with `UniqueKeys`, since the cache keeps one entry for each identifier:

* `RegistrationsAreKept` and `MessagesAreComplete`, the accounting and the completeness;
* `WorkersGetOneMessage`, for registrations that wait for several notifications by path
  only (`CountsByPath`), because the other requests do not count.

The invariant `SafetyInv` has four parts besides `RemovalIsAccounted`. `CountInv`: the
counter is between 1 and the count asked for, and every number above it is in the output map,
so that the map is full when the counter is at one. `RequestInv`: what each request knows at
its control point - behind the counting, its entry is full, and remains so, since a counter at
one does not move; between the post and the removal a message has been accepted. `CacheInv`:
what is stored under an identifier was registered for it; with `UniqueKeys` the second and
third look up of a request find the entry of the first, or nothing. `BudgetInv` counts: each
notification is spent on the counter, on a request that is still to post, or on a message. The
steps of two requests on one entry need no order: a request that overtakes another spends
its own notification.

### ValidationRuns

From `RunsAssumption`, for any list of scenarios and any failures:

* `NoPrematureRun`: `Spec => NewRunWhenNobodyWaits`;
* `RunTypes`: `Spec => []TypeOK`.

`WaitInv` says that `waitingContext` is never below the number of stored clones: every action
that stores one has counted it, every action that decreases the count removes one, and the
reaper decreases only for the clone that it has removed itself. A failed step counts without
storing, so that the two are not equal, and the other direction - that the thread does not
wait for a context that does not exist - is false in the code (`ThreadFinishes` excepts it).
`DataInv` has the types, and that the tokens that replace a stopped scenario are never a
negative number. The promised runs are the sum of a recursive function over the list;
that it is a number is shown without an induction theorem, from the definition of the function
and a least counterexample (`WFMin` of the well-founded relation on the numbers).

### DataProviders

From `ProvidersAssumption` and `SetupsAssumption` (the arguments are numbers and truth values
that a macro section can have), for any number of threads and runs, files and pools of any size:

* `TypeCorrect`: `Spec => []TypeOK`, the attributes of the class;
* `AcceptedFiles`, `IdentifiersAreDifferent` and `RotationRaces`: the three safety properties
  of the run `providers`;
* `ValuesAreDealt`: `Spec => ValuesInTurn`, the refinement of `Dealer`.

`ProvidersInv` has one part for each method, since the attributes mean something else in each.
`PairsInv` is common to them: a call is made by another thread or in another run. From it
comes that calls are left for lines: the positions of the calls map the pairs of thread and run
one to one, so that there are at most `NRuns * NThreads` calls (`CallsLeft`), which is what
`loadFile` compares the lines of a file with. For the numbers that differ, the parts say which
number each call has got: the position counts the calls (`NextInv`, `IncrementInv`), a
pool that is shuffled has lost what it gave (`PopInv`), or the number is that of the pair
(`OwnInv`); the rest is arithmetic on remainders.

`ChunkInv` is the delicate one. The lines in memory are consecutive and the generator goes on
behind them (`Consecutive`); the last line that was given is the one before them, unless
the file has just started again; at most one thread is at the end of the file. A thread
that has replaced the generator and not read since (`again`) is the race: the
lines that were given since its replacement are all those of others, which is what the
property calls overtaken. `AtEnd` excludes the thread that has replaced the generator, so
that its read is under the same lock as those of the others.

For `Dealer` the mapping is the last value, in lines from the first one on (`LastDealt`); every
step deals the next value or, behind the last one, the first, or is a stutter.

### ScenarioRun

From `SetupsAssumption` (what a parsed scenario is made of) and `NamesAssumption`, for any
lists of scenarios, any threads, answers, notifications and timeouts, in `ScenarioRun_proofs`:

* `TypeCorrect`: `Spec => []TypeOK`;
* `FailuresStop` and `VerdictsAreRight`;

and in `ScenarioCaches_proofs`:

* `CachesAreOwn`, `MemoryRemains` and `PlaceholdersResolved`.

*Who goes on with a run.* `FailureStopsScenario` and `MemoryIsKept` were first stated for
all runs. The proof attempt showed why they are false: an identifier that two calls share
makes a thread take the clone of another run; TLC confirmed it with a setup of two such
calls. For the other runs the inductive invariant `Inv` (theorem `RunsAreKept`) says that a run
is in one hand: a thread that *leads*, a clone that *holds* it, or a token of a timeout that
*waits* (`OneHolder`). Beside it there may be threads whose clone has been taken away by the
reaper while they were in their step: dead ends, which are behind whoever goes on
(`Behind`) and lead nowhere unless the timeout was a success (`DeadEnds`). A failed step is
then excused only by such a timeout (`Excused`), and what a step has memorised is in the
cache of each of the three (`Remembered`): `update()` writes it into the clone in the same step.
Every action is brought to a form that leaves the data out (`SendData0`, `Answer0`, ...), and
one lemma says what a run loses and gains by it (`Goes`, `Taken`, `Shrinks`).

*Verdicts.* `checkResponse` is a recursive function over the rules. A list is ended by its first
rule that does not lead to the next one, which exists by a least counterexample again
(`FirstDecides`); up to it, a rule alone decides like a rule in its list (`AloneDecides`).

*Caches.* `CacheInv` (theorem `CachesAreKept`) says for every context, clone, token and memory
which keys it may have, by the run that put them there and by their kind. A clone that is
read back into its thread must be of the same past as the thread (`Pasts`), which is why the
invariant compares the two; with shared identifiers it is not, as the setup `Kept` of the
run `execution` shows. What a section is evaluated to is a set of caches, one for each
order of the keys in each round; the lemmas `KeysInTurn` and `RoundsInTurn` carry what holds
between two keys through all of them.

*Memory.* `MemoryIsKept` has two halves. That what was memorised is there follows from
`Remembered` above. That nothing else is there (`EarnedInv`) is about the values that a
memory has put into a cache, recognised by their kind: a step of the same run has kept each of
them. A cache gets them in three ways: by the step of its own thread, which keeps what it
enters, or enters nothing when the memorisation fails; by the clone that the thread takes
over at the end of its step, which got them from the same answer (`CloneEarned`); and from a
token, which belongs to a context that goes on after a timeout, and is excepted. The lemma
`AnswerEarns` says for each outcome of an answer which of these happens.

*Placeholders.* `PlaceInv` says that a section is evaluated when its first step begins, that
what is sent is resolved, and that what events bring are values - the identifier of a
callback is not empty, because `call_before()` refuses an empty value. The argument for three
rounds: a key that has a value, or the placeholder of a known key, is done when its turn
comes, in whatever order (`NearKeyIsEvaluated`); hence a round brings the keys one placeholder
further (`RoundEvaluates`), and a round that leaves out the next one has left nothing to do
(`Exhausted`).

### StartUp

From `FilesAssumption`, `StartUpAssumption` and `ConfigsAssumption` (finitely many files, what a
step and a property can be, processes numbered from 0), for any files that include one another,
any properties and any number of processes:

* `StartIsTyped`: `Spec => []TypeOK`;
* `StartNumbersTests`, `StartMergesIncludes`, `StartPromisesRuns`, `StartBringsServicesUp` and
  `StartPacesFit`: all safety properties of the run `startup`.

`TypeOK` is not inductive: that a file under construction is never read beyond its steps rests
on where the process is. `TInv` adds the full types (`Typed`) and, for each control point, what
stands on the stack: no file twice, every frame at the step that includes the next one
(`StackOk`), and nothing left of a file that was refused. Each property has an invariant of its
own on top of it:

* `SInv`, for services, ports and paces: behind `ManageAsync` a list with asynchronous scenarios
  has its reaper, behind `StartListener` its port, and the metronom has what the properties asked
  for (`LateOk`); ports of two processes differ. `ListsOk` relates the attributes of a scenario
  and of the list to the lines: a blocking line has been counted, no timeout is longer than that of
  its scenario, nor that of the list.
* `MInv`, for includes and runs. The property says what a *whole* file gives; the invariant has
  to say it of a reader in the middle of several. A frame has found what its file gives up to
  its step, each include replaced by the file included, and all that has been found is what the
  frames have found, outermost first (`Found`, and `MetSoFar` for the files met). What a file
  gives is defined by recursion to a depth; the frame at depth `j` uses the definition to the
  depth that is left, which suffices because no file is on the stack twice. A recursive call
  then moves a step of one frame to a new frame, a return back, and neither changes the sequence.
  While steps are parsed, `CallsCounted` says that the count is at least the number of
  blocking lines, and more only if a blocking step was ignored before: the exception that
  `PromisedRuns` makes.
* `NInv`, for test numbers: they rise, beyond the first number of the process and up to the
  counter - refused files leave gaps. Two processes of one list share numbers, so there must be
  no gap: the invariant says that `Numbered` is exact where a refused file ends the process, and
  that the names of the lines are a function of the files loaded, which are a prefix of the
  list (`TurnOk`).

`Intervals` of a ramp end with those of the graceful phase. Its last pause is as long as the
phase, but never longer than its rate of 0.0001 allows, ten thousand seconds: `PacesFit`
excepts a call with a longer timeout, which the first proof attempt met. The ramp comes to that
pause if its answers are no more than its target and one (`RunsToItsEnd`). The sums of shares
are linear in the shares by induction over the processes, again with a least counterexample.
As lemmas about sequences are needed everywhere and the library's induction cannot be
instantiated, the module begins with its own: `FlattenSeq` of an appended, changed or mapped
sequence, and its equality with the recursive functions of `StartUp`.

### Only model-checked

* Liveness, which TLAPS does not reach here: `TimedCallLeaves`, `TokenIsServed`,
  `ExpiredLeaves`, `LastNotificationArrives`, `ThreadFinishes`, `WorkersStop`, `SessionsEnd`.

All safety properties of the passing runs are proved. The library's induction theorems
cannot be used, since they take an operator; where a recursive *function* is met, a least
counterexample replaces them (`LeastNumber`, `CountUp`, `UpTo`).

## 6. What is not modelled, and the plan

In this order:

1. Composition of `ContextRouter` and `AsyncContext`: a notification from the service
   to the worker, with retries and lost answers; identifiers that are used again while
   the reaper holds the old ones.
2. Steps with several callers, and the non-atomic counters of `ContextLock` with several
   threads in validation mode.
3. Proofs: the router without `UniqueKeys`, for what remains true of identifiers that are
   registered again; asynchronous calls with SMPP, for what remains without the lock.

Left out for good: protocol implementations, the reading of templates and properties,
logging, statistics, the log collector and the other tools - text and I/O without a state
that the properties above depend on; small macros without a state; `sleeper.py` and
`waiter.py`, which nothing imports, and the regulator, which cannot be started. The race in
the router between the JSON serializer and a request that adds to the same map
(`ContextEntryResource.java:277`) is listed as a hazard and not modelled.

Hazards that no property covers are listed in `PROJECT.json` with the reason: mostly the model
has the behaviour, and the property that it breaks excepts it - the throttler that clears
poison and notifications, the producer and the cleaner that die, a threshold of zero, contexts
that go on after a timeout, identifiers that calls share.

Known simplifications: a key of the first level that no file may have is refused by the model
before anything is loaded, and by the code in its turn (`scenario.py:851`), after macros or
lines before it, so that the counter of tests may rise further than in the model; a context
that a token resumes after a timeout that is a success, while the sender is still in its step,
is not recorded as work on the call; non-blocking steps and steps with several callers are not
in `ValidationRuns`.
