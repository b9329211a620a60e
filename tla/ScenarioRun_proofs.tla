-------------------------- MODULE ScenarioRun_proofs --------------------------
(***************************************************************************)
(* Theorems about ScenarioRun, for any list of scenarios, any threads, and *)
(* any answers, notifications and timeouts: the contexts are where they    *)
(* say they are, and a failure stops its scenario; what a step has         *)
(* memorised stays, which ScenarioCaches_proofs needs.                     *)
(***************************************************************************)
EXTENDS ScenarioRun, SequenceTheorems, WellFoundedInduction, TLAPS

-----------------------------------------------------------------------------
(* Shapes: what a cache, a context and a stored clone are made of.         *)

IsCache(c) == c = [runtime |-> c.runtime, with |-> c.with, dynamic |-> c.dynamic]

IsContext(c) ==
    /\ c = [scn |-> c.scn, line |-> c.line, uid |-> c.uid, cache |-> c.cache, id |-> c.id,
            continue |-> c.continue, past |-> c.past]
    /\ IsCache(c.cache)

\* the step of a context, in the list s
StepIn(s, c) == s.scenarios[c.scn].lines[c.line]

\* a context that has begun a scenario knows where it is, and its run says who began it
Located(s, c) ==
    /\ IsContext(c)
    /\ c.scn \in DOMAIN s.scenarios
    /\ c.line \in 0..Len(s.scenarios[c.scn].lines)
    /\ c.uid \in Threads \X Nat \X Nat
    /\ c.uid[3] = c.scn

\* a context that a thread has, at the control point at
AtPoint(s, c, at) ==
    /\ at \in PC
    /\ IsContext(c) /\ c.continue = FALSE
    /\ c.scn = 0 \/ Located(s, c)
    /\ at \in {"line", "sent", "answered"} => c.scn # 0
    /\ at \in {"sent", "answered"} => c.line # 0

ContextInv == \A w \in Threads : AtPoint(setup, ctx[w], pc[w])

IsClone(s, x, id) ==
    /\ x = [ctx |-> x.ctx, locked |-> x.locked, flagged |-> x.flagged]
    /\ Located(s, x.ctx) /\ x.ctx.line # 0
    /\ x.ctx.id = id /\ x.ctx.continue = FALSE
    /\ StepIn(s, x.ctx).async

StoreInv == \A id \in DOMAIN store : IsClone(setup, store[id], id)

IsToken(s, t) ==
    /\ t.type \in {"callback", "context", "start"}
    /\ t.type = "context" => Located(s, t.ctx) /\ t.ctx.continue \in BOOLEAN

QueueInv == IsSequence(queue) /\ \A i \in DOMAIN queue : IsToken(setup, queue[i])

TypeInv ==
    /\ setup \in Setups
    /\ runs \in [Threads -> 0..setup.runs]
    /\ pc = [w \in Threads |-> pc[w]]
    /\ ctx = [w \in Threads |-> ctx[w]]
    /\ store = [id \in DOMAIN store |-> store[id]]
    /\ ContextInv /\ StoreInv /\ QueueInv

-----------------------------------------------------------------------------
(* Who may go on with a run: a thread that leads it, the stored clone of   *)
(* its asynchronous step, or a token of a successful timeout; one of them, *)
(* or a thread and the clone of the step in which it is.  A thread whose   *)
(* clone the reaper or a notification has taken is at a dead end: it may   *)
(* still get its answer, memorise and fail, behind the one that goes on.   *)

InStep(w) == pc[w] \in {"sent", "answered"}

\* the thread of an asynchronous step whose clone has been taken away
DeadEnd(w) == InStep(w) /\ StepIn(setup, ctx[w]).async /\ ctx[w].id \notin DOMAIN store

At(w, r)    == Running(w) /\ RunOf(ctx[w]) = r
Leads(w, r) == At(w, r) /\ ~DeadEnd(w)
Holds(id, r) == id \in DOMAIN store /\ RunOf(store[id].ctx) = r
\* a context whose timeout was a success
Waits(i, r) == i \in DOMAIN queue /\ queue[i].type = "context" /\ queue[i].ctx.continue
               /\ RunOf(queue[i].ctx) = r

\* calls are recorded
CallInv ==
    /\ \A w \in Threads : InStep(w) /\ StepIn(setup, ctx[w]).async => CallOf(ctx[w]) \in calls
    /\ \A id \in DOMAIN store : CallOf(store[id].ctx) \in calls

\* a run that has been begun, by whom: rs, p and x are runs, pc and ctx
BegunIn(rs, p, x, r) ==
    /\ r \in Threads \X Nat \X Nat
    /\ r[2] <= rs[r[1]]
    /\ r[2] = rs[r[1]] /\ p[r[1]] # "idle" => r[3] <= x[r[1]].scn

Begun(r) == BegunIn(runs, pc, ctx, r)

HistoryInv ==
    /\ \A w \in Threads : Running(w) => Begun(RunOf(ctx[w]))
    /\ \A id \in DOMAIN store : Begun(RunOf(store[id].ctx))
    /\ \A i \in DOMAIN queue : queue[i].type = "context" => Begun(RunOf(queue[i].ctx))
    /\ \A f \in failed : f = [run |-> f.run, line |-> f.line] /\ Begun(f.run) /\ f.line \in Nat
    /\ \A m \in kept : Begun(m.run) /\ m.line \in Nat

\* no two of them go on
OneHolder(r) ==
    /\ \A v, w \in Threads : Leads(v, r) /\ Leads(w, r) => v = w
    /\ \A w \in Threads : \A id \in DOMAIN store :
         Leads(w, r) /\ Holds(id, r) => InStep(w) /\ StepIn(setup, ctx[w]).async /\ ctx[w].id = id
    /\ \A w \in Threads : \A i \in DOMAIN queue : ~(Leads(w, r) /\ Waits(i, r))
    /\ \A x, y \in DOMAIN store : Holds(x, r) /\ Holds(y, r) => x = y
    /\ \A id \in DOMAIN store : \A i \in DOMAIN queue : ~(Holds(id, r) /\ Waits(i, r))
    /\ \A i, j \in DOMAIN queue : Waits(i, r) /\ Waits(j, r) => i = j

\* dead ends are behind
Behind(r) ==
    \A w \in Threads : At(w, r) /\ DeadEnd(w) =>
        /\ \A v \in Threads : Leads(v, r) =>
             /\ ctx[w].line <= ctx[v].line
             /\ InStep(v) => ctx[w].line < ctx[v].line
        /\ \A id \in DOMAIN store : Holds(id, r) => ctx[w].line < store[id].ctx.line
        /\ \A i \in DOMAIN queue : Waits(i, r) => ctx[w].line <= queue[i].ctx.line

\* nobody goes on with the run of w
Over(w, r) ==
    /\ \A v \in Threads : ~Leads(v, r) /\ (At(v, r) => ctx[v].line <= ctx[w].line)
    /\ \A id \in DOMAIN store : ~Holds(id, r)
    /\ \A i \in DOMAIN queue : ~Waits(i, r)

\* where a run goes on beside a dead end, its timeout was a success
DeadEnds(r) ==
    \A w \in Threads : At(w, r) /\ DeadEnd(w) => StepOf(ctx[w]) \in expired \/ Over(w, r)

\* a failure that does not bind who goes on with the run
Excused(f, r) ==
    /\ \A w \in Threads : Leads(w, r) => f \in expired
    /\ \A id \in DOMAIN store : Holds(id, r) => f \in expired \/ f.line = store[id].ctx.line
    /\ \A i \in DOMAIN queue : Waits(i, r) => f \in expired
    /\ \A w \in Threads : At(w, r) /\ DeadEnd(w) /\ f.line < ctx[w].line => f \in expired

Failures(r) == \A f \in failed : f.run = r => Excused(f, r)

\* what has been memorised is there with who goes on with the run
Remembered(m, r) ==
    /\ \A w \in Threads : Leads(w, r) => m.key \in DOMAIN ctx[w].cache.with
    /\ \A id \in DOMAIN store : Holds(id, r) => m.key \in DOMAIN store[id].ctx.cache.with
    /\ \A i \in DOMAIN queue : Waits(i, r) => m.key \in DOMAIN queue[i].ctx.cache.with
    /\ \A w \in Threads : At(w, r) /\ DeadEnd(w) /\ m.line <= ctx[w].line
                          => m.key \in DOMAIN ctx[w].cache.with

Memory(r) == \A m \in kept : m.run = r => Remembered(m, r)

\* the inductive invariant of a run
RunInv(r) == OneHolder(r) /\ Behind(r) /\ DeadEnds(r) /\ Failures(r) /\ Memory(r)

RunsInv == \A r : ~Shared(r) => RunInv(r)
-----------------------------------------------------------------------------
(* Lemmas about caches.                                                    *)

LEMMA CacheShapes ==
    ASSUME NEW c, IsCache(c), NEW keys
    PROVE  /\ IsCache(UpdateKeys(c, keys)) /\ UpdateKeys(c, keys).with = c.with
           /\ IsCache(AddDynamicKeys(c, keys)) /\ AddDynamicKeys(c, keys).with = c.with
           /\ IsCache(ResetToContextMarker(c)) /\ ResetToContextMarker(c).with = c.with
           /\ IsCache(UpdateKeysPermanently(c, keys))
           /\ DOMAIN UpdateKeysPermanently(c, keys).with = DOMAIN keys \union DOMAIN c.with
           /\ IsCache(UpdateAsyncDataPermanently(c, keys))
           /\ DOMAIN UpdateAsyncDataPermanently(c, keys).with
                = DOMAIN keys \union DOMAIN c.with
<1>1. IsCache(UpdateKeys(c, keys)) /\ UpdateKeys(c, keys).with = c.with
  BY DEF IsCache, UpdateKeys
<1>2. IsCache(AddDynamicKeys(c, keys)) /\ AddDynamicKeys(c, keys).with = c.with
  BY DEF IsCache, AddDynamicKeys
<1>3. IsCache(ResetToContextMarker(c)) /\ ResetToContextMarker(c).with = c.with
  BY DEF IsCache, ResetToContextMarker
<1>4. /\ IsCache(UpdateKeysPermanently(c, keys))
      /\ UpdateKeysPermanently(c, keys).with = Updated(c.with, keys)
  <2> DEFINE W == Updated(c.with, keys)
             R == Updated(c.runtime, keys)
  <2>1. UpdateKeysPermanently(c, keys) = [c EXCEPT !.with = W, !.runtime = R]
    BY DEF UpdateKeysPermanently
  <2> HIDE DEF W, R
  <2>2. UpdateKeysPermanently(c, keys) = [runtime |-> R, with |-> W, dynamic |-> c.dynamic]
    BY <2>1 DEF IsCache
  <2> QED
    BY <2>2 DEF IsCache, W
<1>5. /\ IsCache(UpdateAsyncDataPermanently(c, keys))
      /\ UpdateAsyncDataPermanently(c, keys).with = Updated(c.with, keys)
  BY DEF IsCache, UpdateAsyncDataPermanently
<1> QED
  BY <1>1, <1>2, <1>3, <1>4, <1>5 DEF Updated

LEMMA EmptyCacheShape == IsCache(EmptyCache)
  BY DEF IsCache, EmptyCache

\* whatever the evaluation of the section has left in it
LEMMA ScenarioCacheShape ==
    ASSUME NEW s, NEW uid, NEW c, NEW env, NEW cache \in ScenarioCaches(s, uid, c, env)
    PROVE  IsCache(cache)
<1>1. PICK e \in Evaluations(s.context, uid, c, env) : cache = SetContextMarker(e.cache)
  BY DEF ScenarioCaches
<1> QED
  BY <1>1 DEF IsCache, SetContextMarker

\* processNew() leaves the keys of the following steps as they are
LEMMA ProcessNewShape ==
    ASSUME NEW line, NEW macros, NEW c, IsCache(c)
    PROVE  /\ IsCache(ProcessNew(line, macros, c).cache)
           /\ ProcessNew(line, macros, c).cache.with = c.with
<1> DEFINE fields == Values(line.fields, "field")
           known  == UpdateKeys(ResetToContextMarker(c),
                                Restrict(fields, LiteralFields(fields)))
<1>1. IsCache(ResetToContextMarker(c)) /\ ResetToContextMarker(c).with = c.with
  BY CacheShapes
<1>3. IsCache(known) /\ known.with = c.with
  BY <1>1, CacheShapes
<1> HIDE DEF known
<1>2. PICK values : ProcessNew(line, macros, c).cache = UpdateKeys(known, values)
  BY DEF ProcessNew, known
<1> QED
  BY <1>2, <1>3, CacheShapes

-----------------------------------------------------------------------------
(* Lemmas about sequences whose elements have no common type.              *)

LEMMA Sequence ==
    ASSUME NEW q, IsSequence(q)
    PROVE  Len(q) \in Nat /\ DOMAIN q = 1..Len(q)
  BY DEF IsSequence

LEMMA EmptySequence == IsSequence(<<>>) /\ DOMAIN <<>> = {}
  BY DEF IsSequence

LEMMA MakeSequence ==
    ASSUME NEW S, NEW q \in Seq(S)
    PROVE  IsSequence(q)
<1>1. q \in [1..Len(q) -> Range(q)] /\ Len(q) \in Nat
  BY DEF Range
<1> QED
  BY <1>1, SeqDef DEF IsSequence

LEMMA AppendSequence ==
    ASSUME NEW q, IsSequence(q), NEW x
    PROVE  /\ IsSequence(Append(q, x))
           /\ DOMAIN Append(q, x) = 1..Len(q) + 1
           /\ \A i \in DOMAIN q : Append(q, x)[i] = q[i]
           /\ Append(q, x)[Len(q) + 1] = x
<1> DEFINE S == Range(q) \union {x}
<1>1. q \in Seq(Range(q))
  BY DEF IsSequence
<1>2. q \in Seq(S)
  BY <1>1, SeqMonotonic, \A y \in Range(q) : y \in S
<1> HIDE DEF S
<1>3. x \in S
  BY DEF S
<1>4. Append(q, x) \in Seq(S)
  BY <1>2, <1>3
<1>5. IsSequence(Append(q, x))
  BY <1>4, MakeSequence
<1> QED
  BY <1>2, <1>3, <1>4, <1>5

LEMMA TailSequence ==
    ASSUME NEW q, IsSequence(q), q # <<>>
    PROVE  /\ IsSequence(Tail(q))
           /\ 1 \in DOMAIN q /\ Head(q) = q[1]
           /\ DOMAIN Tail(q) = 1..Len(q) - 1
           /\ \A i \in DOMAIN Tail(q) : i + 1 \in DOMAIN q /\ Tail(q)[i] = q[i + 1]
<1>1. q \in Seq(Range(q)) /\ Len(q) \in Nat \ {0} /\ DOMAIN q = 1..Len(q)
  BY DEF IsSequence
<1>2. Tail(q) \in Seq(Range(q)) /\ Len(Tail(q)) = Len(q) - 1 /\ Head(q) = q[1]
  BY <1>1
<1>3. IsSequence(Tail(q))
  BY <1>2, MakeSequence
<1>4. DOMAIN Tail(q) = 1..Len(q) - 1
  BY <1>2
<1>5. \A i \in 1..Len(q) - 1 : i + 1 \in 1..Len(q) /\ Tail(q)[i] = q[i + 1]
  BY <1>1, <1>2
<1> QED
  BY <1>1, <1>2, <1>3, <1>4, <1>5

LEMMA SetupFacts ==
    ASSUME setup \in Setups
    PROVE  /\ Len(setup.scenarios) \in Nat /\ DOMAIN setup.scenarios = 1..Len(setup.scenarios)
           /\ \A i \in DOMAIN setup.scenarios :
                /\ Len(setup.scenarios[i].lines) \in Nat
                /\ DOMAIN setup.scenarios[i].lines = 1..Len(setup.scenarios[i].lines)
  BY SetupsAssumption, Sequence

-----------------------------------------------------------------------------
(* Lemmas about contexts: what a change leaves as it is.                   *)

SameStep(c, d) ==
    d.scn = c.scn /\ d.line = c.line /\ d.uid = c.uid /\ d.continue = c.continue

LEMMA ContextFields ==
    ASSUME NEW scn, NEW line, NEW uid, NEW cache, NEW id, NEW continue, NEW past,
           IsCache(cache)
    PROVE  IsContext([scn |-> scn, line |-> line, uid |-> uid, cache |-> cache, id |-> id,
                      continue |-> continue, past |-> past])
  BY DEF IsContext

LEMMA CacheChanges ==
    ASSUME NEW c, IsContext(c), NEW k, IsCache(k)
    PROVE  LET d == [c EXCEPT !.cache = k]
           IN  IsContext(d) /\ SameStep(c, d) /\ d.id = c.id /\ d.past = c.past /\ d.cache = k
<1> DEFINE d == [c EXCEPT !.cache = k]
<1>1. d = [scn |-> c.scn, line |-> c.line, uid |-> c.uid, cache |-> k, id |-> c.id,
           continue |-> c.continue, past |-> c.past]
  BY DEF IsContext
<1> QED
  BY <1>1, ContextFields DEF SameStep

LEMMA IdChanges ==
    ASSUME NEW c, IsContext(c), NEW id
    PROVE  LET d == [c EXCEPT !.id = id]
           IN  /\ IsContext(d) /\ SameStep(c, d) /\ d.id = id /\ d.cache = c.cache
               /\ d.past = c.past
<1> DEFINE d == [c EXCEPT !.id = id]
<1>1. d = [scn |-> c.scn, line |-> c.line, uid |-> c.uid, cache |-> c.cache,
           id |-> id, continue |-> c.continue, past |-> c.past]
  BY DEF IsContext
<1>2. IsCache(c.cache)
  BY DEF IsContext
<1> QED
  BY <1>1, <1>2, ContextFields DEF SameStep

LEMMA KeepThreadChanges ==
    ASSUME NEW c, IsContext(c), NEW keys
    PROVE  LET d == KeepThread(c, keys)
           IN  /\ IsContext(d) /\ SameStep(c, d) /\ d.id = c.id
               /\ DOMAIN c.cache.with \subseteq DOMAIN d.cache.with
               /\ d.past = c.past \union {"kept"}
               /\ d.cache = UpdateAsyncDataPermanently(c.cache, keys)
<1> DEFINE d1 == [c EXCEPT !.past = c.past \union {"kept"}]
           k  == UpdateAsyncDataPermanently(c.cache, keys)
           d  == [d1 EXCEPT !.cache = k]
<1>1. d1 = [scn |-> c.scn, line |-> c.line, uid |-> c.uid, cache |-> c.cache,
            id |-> c.id, continue |-> c.continue, past |-> c.past \union {"kept"}]
  BY DEF IsContext
<1>2. KeepThread(c, keys) = [d1 EXCEPT !.cache = UpdateAsyncDataPermanently(d1.cache, keys)]
  BY DEF KeepThread
<1> HIDE DEF d1
<1>3. KeepThread(c, keys) = d
  BY <1>1, <1>2
<1>4. IsCache(c.cache)
  BY DEF IsContext
<1>5. IsCache(k) /\ DOMAIN c.cache.with \subseteq DOMAIN k.with
  BY <1>4, CacheShapes
<1> HIDE DEF k
<1>6. d = [scn |-> c.scn, line |-> c.line, uid |-> c.uid, cache |-> k,
           id |-> c.id, continue |-> c.continue, past |-> c.past \union {"kept"}]
  BY <1>1
<1> HIDE DEF d
<1>7. /\ IsContext(d) /\ SameStep(c, d) /\ d.id = c.id /\ d.cache = k
      /\ d.past = c.past \union {"kept"}
  BY <1>5, <1>6, ContextFields DEF SameStep
<1> QED
  BY <1>3, <1>5, <1>7 DEF k

LEMMA LineChanges ==
    ASSUME NEW c, IsContext(c), NEW n
    PROVE  LET d == [c EXCEPT !.line = n]
           IN  /\ IsContext(d) /\ d.line = n /\ d.scn = c.scn /\ d.uid = c.uid
               /\ d.id = c.id /\ d.continue = c.continue /\ d.past = c.past
               /\ d.cache = c.cache
<1> DEFINE d == [c EXCEPT !.line = n]
<1>1. d = [scn |-> c.scn, line |-> n, uid |-> c.uid, cache |-> c.cache, id |-> c.id,
           continue |-> c.continue, past |-> c.past]
  BY DEF IsContext
<1>2. IsCache(c.cache)
  BY DEF IsContext
<1> QED
  BY <1>1, <1>2, ContextFields

LEMMA ResumedChanges ==
    ASSUME NEW c, IsContext(c)
    PROVE  LET d == Resumed(c)
           IN  /\ IsContext(d) /\ d.continue = FALSE /\ d.scn = c.scn /\ d.line = c.line
               /\ d.uid = c.uid /\ d.id = c.id /\ d.cache = c.cache
               /\ d.past = c.past \union {"resumed"}
<1> DEFINE b  == FALSE
           d1 == [c EXCEPT !.continue = b]
           p  == c.past \union {"resumed"}
           d  == [d1 EXCEPT !.past = p]
<1>1. Resumed(c) = [d1 EXCEPT !.past = d1.past \union {"resumed"}]
  BY DEF Resumed
<1> HIDE DEF b
<1>2. d1 = [scn |-> c.scn, line |-> c.line, uid |-> c.uid, cache |-> c.cache, id |-> c.id,
            continue |-> b, past |-> c.past]
  BY DEF IsContext
<1> HIDE DEF d1
<1>3. Resumed(c) = d
  BY <1>1, <1>2
<1> HIDE DEF p
<1>4. d = [scn |-> c.scn, line |-> c.line, uid |-> c.uid, cache |-> c.cache, id |-> c.id,
           continue |-> b, past |-> p]
  BY <1>2
<1>5. IsCache(c.cache)
  BY DEF IsContext
<1> HIDE DEF d
<1>6. /\ IsContext(d) /\ d.continue = b /\ d.scn = c.scn /\ d.line = c.line
      /\ d.uid = c.uid /\ d.id = c.id /\ d.cache = c.cache /\ d.past = p
  BY <1>4, <1>5, ContextFields
<1> QED
  BY <1>3, <1>6 DEF b, p

LEMMA ContinueChanges ==
    ASSUME NEW c, IsContext(c), NEW b
    PROVE  LET d == [c EXCEPT !.continue = b]
           IN  /\ IsContext(d) /\ d.continue = b /\ d.scn = c.scn /\ d.line = c.line
               /\ d.uid = c.uid /\ d.id = c.id /\ d.cache = c.cache
               /\ d.past = c.past
<1> DEFINE d == [c EXCEPT !.continue = b]
<1>1. d = [scn |-> c.scn, line |-> c.line, uid |-> c.uid, cache |-> c.cache, id |-> c.id,
           continue |-> b, past |-> c.past]
  BY DEF IsContext
<1>2. IsCache(c.cache)
  BY DEF IsContext
<1> QED
  BY <1>1, <1>2, ContextFields

LEMMA BeginScenarioChanges ==
    ASSUME NEW c, IsContext(c), NEW uid, NEW k, IsCache(k)
    PROVE  LET d == BeginScenario(c, uid, k)
           IN  /\ IsContext(d) /\ d.scn = uid[3] /\ d.line = 0 /\ d.uid = uid
               /\ d.continue = c.continue /\ d.past = {} /\ d.cache = k
<1> DEFINE d1 == [c EXCEPT !.scn = uid[3]]
           d2 == [d1 EXCEPT !.line = 0]
           d3 == [d2 EXCEPT !.uid = uid]
           d4 == [d3 EXCEPT !.past = {}]
           d  == [d4 EXCEPT !.cache = k]
<1>1. BeginScenario(c, uid, k) = d
  BY DEF BeginScenario
<1>2. d1 = [scn |-> uid[3], line |-> c.line, uid |-> c.uid, cache |-> c.cache, id |-> c.id,
            continue |-> c.continue, past |-> c.past]
  BY DEF IsContext
<1> HIDE DEF d1
<1>3. d2 = [scn |-> uid[3], line |-> 0, uid |-> c.uid, cache |-> c.cache, id |-> c.id,
            continue |-> c.continue, past |-> c.past]
  BY <1>2
<1> HIDE DEF d2
<1>4. d3 = [scn |-> uid[3], line |-> 0, uid |-> uid, cache |-> c.cache, id |-> c.id,
            continue |-> c.continue, past |-> c.past]
  BY <1>3
<1> HIDE DEF d3
<1>5. d4 = [scn |-> uid[3], line |-> 0, uid |-> uid, cache |-> c.cache, id |-> c.id,
            continue |-> c.continue, past |-> {}]
  BY <1>4
<1> HIDE DEF d4
<1>6. d = [scn |-> uid[3], line |-> 0, uid |-> uid, cache |-> k, id |-> c.id,
           continue |-> c.continue, past |-> {}]
  BY <1>5
<1> HIDE DEF d
<1>7. /\ IsContext(d) /\ d.scn = uid[3] /\ d.line = 0 /\ d.uid = uid /\ d.continue = c.continue
      /\ d.past = {} /\ d.cache = k
  BY <1>6, ContextFields
<1> QED
  BY <1>1, <1>7

LEMMA StaysLocated ==
    ASSUME NEW s, NEW c, Located(s, c), NEW d, IsContext(d), SameStep(c, d)
    PROVE  Located(s, d) /\ StepIn(s, d) = StepIn(s, c)
  BY DEF Located, SameStep, StepIn

-----------------------------------------------------------------------------
(* What the steps do to the parts of the state.                            *)

\* the thread w goes to a control point, with a context
Moves(w, c, at) ==
    /\ ctx' = [v \in Threads |-> IF v = w THEN c ELSE ctx[v]]
    /\ pc' = [v \in Threads |-> IF v = w THEN at ELSE pc[v]]

LEMMA SetAndGo ==
    ASSUME TypeInv, NEW w \in Threads, NEW c, NEW at, SetContext(w, c), Go(w, at)
    PROVE  Moves(w, c, at)
  BY DEF TypeInv, SetContext, Go, Moves

LEMMA OnlyGo ==
    ASSUME TypeInv, NEW w \in Threads, NEW at, UNCHANGED ctx, Go(w, at)
    PROVE  Moves(w, ctx[w], at)
  BY DEF TypeInv, Go, Moves

LEMMA Moved ==
    ASSUME NEW w \in Threads, NEW c, NEW at, Moves(w, c, at)
    PROVE  /\ ctx'[w] = c /\ pc'[w] = at
           /\ \A v \in Threads : v # w => ctx'[v] = ctx[v] /\ pc'[v] = pc[v]
  BY DEF Moves

LEMMA MovesWell ==
    ASSUME TypeInv, setup' = setup, NEW w \in Threads, NEW c, NEW at, Moves(w, c, at),
           AtPoint(setup, c, at)
    PROVE  /\ ContextInv'
           /\ (pc = [v \in Threads |-> pc[v]])'
           /\ (ctx = [v \in Threads |-> ctx[v]])'
<1>1. \A v \in Threads : AtPoint(setup, ctx'[v], pc'[v])
  BY Moved DEF TypeInv, ContextInv
<1>2. ContextInv'
  BY <1>1 DEF ContextInv
<1> QED
  BY <1>2 DEF Moves

\* a clone may have got a flag and keys
CloneStays(x, y) ==
    /\ SameStep(x.ctx, y.ctx) /\ y.ctx.id = x.ctx.id
    /\ DOMAIN x.ctx.cache.with \subseteq DOMAIN y.ctx.cache.with

StoreStays ==
    /\ (store = [id \in DOMAIN store |-> store[id]])'
    /\ DOMAIN store' = DOMAIN store
    /\ \A id \in DOMAIN store :
         IsClone(setup, store'[id], id) /\ CloneStays(store[id], store'[id])

LEMMA StoreUnchanged ==
    ASSUME TypeInv, UNCHANGED store
    PROVE  StoreStays
  BY DEF TypeInv, StoreInv, StoreStays, CloneStays, SameStep

LEMMA CloneFields ==
    ASSUME NEW x, x = [ctx |-> x.ctx, locked |-> x.locked, flagged |-> x.flagged], NEW v
    PROVE  /\ [x EXCEPT !.ctx = v] = [ctx |-> v, locked |-> x.locked, flagged |-> x.flagged]
           /\ [x EXCEPT !.locked = v] = [ctx |-> x.ctx, locked |-> v, flagged |-> x.flagged]
           /\ [x EXCEPT !.flagged = v] = [ctx |-> x.ctx, locked |-> x.locked, flagged |-> v]
  OBVIOUS

LEMMA CloneChanges ==
    ASSUME NEW s, NEW x, NEW id, IsClone(s, x, id), NEW k, IsCache(k), NEW b, NEW f,
           DOMAIN x.ctx.cache.with \subseteq DOMAIN k.with, NEW c,
           c = [x.ctx EXCEPT !.cache = k] \/ c = x.ctx
    PROVE  LET y == [ctx |-> c, locked |-> b, flagged |-> f]
           IN  IsClone(s, y, id) /\ CloneStays(x, y)
<1>1. Located(s, x.ctx) /\ IsContext(x.ctx)
  BY DEF IsClone, Located
<1>2. IsContext(c) /\ SameStep(x.ctx, c) /\ c.id = x.ctx.id /\ (c.cache = k \/ c = x.ctx)
  <2>1. CASE c = x.ctx
    BY <2>1, <1>1 DEF SameStep
  <2>2. CASE c = [x.ctx EXCEPT !.cache = k]
    BY <2>2, <1>1, CacheChanges
  <2> QED
    BY <2>1, <2>2
<1>3. Located(s, c) /\ StepIn(s, c) = StepIn(s, x.ctx)
  BY <1>1, <1>2, StaysLocated
<1>4. c.line # 0 /\ c.id = id /\ c.continue = FALSE /\ StepIn(s, c).async
  BY <1>2, <1>3 DEF IsClone, SameStep
<1> QED
  BY <1>2, <1>3, <1>4 DEF IsClone, CloneStays

\* what has been memorised reaches the clone
LEMMA UpdateStays ==
    ASSUME TypeInv, NEW id \in DOMAIN store, NEW keys, store' = UpdateClone(id, keys)
    PROVE  StoreStays /\ DOMAIN keys \subseteq DOMAIN store'[id].ctx.cache.with
<1> DEFINE x == store[id]
           k == UpdateKeysPermanently(x.ctx.cache, keys)
           y == [ctx |-> [x.ctx EXCEPT !.cache = k], locked |-> x.locked, flagged |-> x.flagged]
<1>1. IsClone(setup, x, id)
  BY DEF TypeInv, StoreInv
<1>2. IsCache(x.ctx.cache)
  BY <1>1 DEF IsClone, Located, IsContext
<1>3. IsCache(k) /\ DOMAIN k.with = DOMAIN keys \union DOMAIN x.ctx.cache.with
  BY <1>2, CacheShapes
<1>4. store' = [store EXCEPT ![id] = [x EXCEPT !.ctx = [x.ctx EXCEPT !.cache = k]]]
  BY DEF UpdateClone
<1> HIDE DEF k
<1>5. [x EXCEPT !.ctx = [x.ctx EXCEPT !.cache = k]] = y
  <2> DEFINE d == [x.ctx EXCEPT !.cache = k]
  <2>1. x = [ctx |-> x.ctx, locked |-> x.locked, flagged |-> x.flagged]
    BY <1>1 DEF IsClone
  <2> HIDE DEF d
  <2>2. [x EXCEPT !.ctx = d] = [ctx |-> d, locked |-> x.locked, flagged |-> x.flagged]
    BY <2>1
  <2> QED
    BY <2>2 DEF d
<1>6. IsClone(setup, y, id) /\ CloneStays(x, y)
  BY <1>1, <1>3, CloneChanges
<1>7. y.ctx.cache = k
  <2>1. IsContext(x.ctx)
    BY <1>1 DEF IsClone, Located
  <2> QED
    BY <2>1, <1>3, CacheChanges
<1> HIDE DEF y
<1>8. store' = [i \in DOMAIN store |-> IF i = id THEN y ELSE store[i]]
  BY <1>4, <1>5 DEF TypeInv
<1>9. \A i \in DOMAIN store : i # id => IsClone(setup, store[i], i) /\ CloneStays(store[i], store[i])
  BY DEF TypeInv, StoreInv, CloneStays, SameStep
<1> QED
  BY <1>3, <1>6, <1>7, <1>8, <1>9 DEF StoreStays

\* lock_and_update_flag(), and the lock that is taken away
LEMMA FlaggedFields ==
    ASSUME NEW x, x = [ctx |-> x.ctx, locked |-> x.locked, flagged |-> x.flagged], NEW keys
    PROVE  Flagged(x, keys) =
             [ctx |-> [x.ctx EXCEPT !.cache = UpdateKeys(x.ctx.cache, keys)],
              locked |-> x.locked, flagged |-> TRUE]
<1> DEFINE t == TRUE
           x1 == [x EXCEPT !.flagged = t]
           c  == [x1.ctx EXCEPT !.cache = UpdateKeys(x1.ctx.cache, keys)]
<1>1. Flagged(x, keys) = [x1 EXCEPT !.ctx = c]
  BY DEF Flagged
<1> HIDE DEF t
<1>2. x1 = [ctx |-> x.ctx, locked |-> x.locked, flagged |-> t]
  BY CloneFields
<1> HIDE DEF x1
<1>3. x1.ctx = x.ctx
  BY <1>2
<1>4. c = [x.ctx EXCEPT !.cache = UpdateKeys(x.ctx.cache, keys)]
  BY <1>3
<1> HIDE DEF c
<1>5. [x1 EXCEPT !.ctx = c] = [ctx |-> c, locked |-> x.locked, flagged |-> t]
  BY <1>2
<1> QED
  BY <1>1, <1>4, <1>5, Zenon DEF t

LEMMA FlagStays ==
    ASSUME TypeInv, NEW id \in DOMAIN store, NEW keys,
           \/ store' = [store EXCEPT ![id] = Flagged(@, keys)]
           \/ store' = [store EXCEPT ![id].locked = FALSE]
    PROVE  StoreStays
<1> DEFINE x == store[id]
           k == UpdateKeys(x.ctx.cache, keys)
           c == [x.ctx EXCEPT !.cache = k]
           y == [ctx |-> c, locked |-> x.locked, flagged |-> TRUE]
           z == [ctx |-> x.ctx, locked |-> FALSE, flagged |-> x.flagged]
<1>1. IsClone(setup, x, id) /\ x = [ctx |-> x.ctx, locked |-> x.locked, flagged |-> x.flagged]
  BY DEF TypeInv, StoreInv, IsClone
<1>2. IsCache(x.ctx.cache)
  BY <1>1 DEF IsClone, Located, IsContext
<1>3. IsCache(k) /\ k.with = x.ctx.cache.with
  BY <1>2, CacheShapes
<1>4. IsClone(setup, y, id) /\ CloneStays(x, y)
  BY <1>1, <1>3, CloneChanges
<1>5. IsClone(setup, z, id) /\ CloneStays(x, z)
  BY <1>1, <1>2, CloneChanges
<1>6. \A i \in DOMAIN store : i # id => IsClone(setup, store[i], i) /\ CloneStays(store[i], store[i])
  BY DEF TypeInv, StoreInv, CloneStays, SameStep
<1>7. \/ store' = [i \in DOMAIN store |-> IF i = id THEN y ELSE store[i]]
      \/ store' = [i \in DOMAIN store |-> IF i = id THEN z ELSE store[i]]
  <2>1. CASE store' = [store EXCEPT ![id].locked = FALSE]
    <3>1. store' = [store EXCEPT ![id] = [x EXCEPT !.locked = FALSE]]
      BY <2>1
    <3>2. [x EXCEPT !.locked = FALSE] = z
      BY <1>1, CloneFields, Zenon
    <3> HIDE DEF z
    <3> QED
      BY <3>1, <3>2 DEF TypeInv
  <2>2. CASE store' = [store EXCEPT ![id] = Flagged(@, keys)]
    <3>1. Flagged(x, keys) = y
      BY <1>1, FlaggedFields
    <3> HIDE DEF y
    <3> QED
      BY <2>2, <3>1 DEF TypeInv
  <2> QED
    BY <2>1, <2>2
<1> HIDE DEF y, z
<1> QED
  BY <1>4, <1>5, <1>6, <1>7 DEF StoreStays

LEMMA StoreStaysWell ==
    ASSUME TypeInv, setup' = setup, StoreStays
    PROVE  StoreInv' /\ (store = [id \in DOMAIN store |-> store[id]])'
  BY DEF StoreStays, StoreInv

LEMMA Popped ==
    ASSUME TypeInv, setup' = setup, NEW id, Pop(id)
    PROVE  /\ DOMAIN store' = DOMAIN store \ {id}
           /\ \A x \in DOMAIN store' : store'[x] = store[x]
           /\ StoreInv' /\ (store = [x \in DOMAIN store |-> store[x]])'
  BY DEF TypeInv, StoreInv, Pop, Restrict

LEMMA StoredWell ==
    ASSUME TypeInv, setup' = setup, NEW c, NEW id, store' = Stored(id, Clone(c)),
           Located(setup, c), c.line # 0, c.id = id, c.continue = FALSE, StepIn(setup, c).async
    PROVE  /\ DOMAIN store' = DOMAIN store \union {id}
           /\ store'[id].ctx = c
           /\ \A x \in DOMAIN store : x # id => store'[x] = store[x]
           /\ StoreInv' /\ (store = [x \in DOMAIN store |-> store[x]])'
<1>1. Clone(c) = [ctx |-> c, locked |-> TRUE, flagged |-> FALSE] /\ Clone(c).ctx = c
  BY DEF Clone
<1>2. IsClone(setup, Clone(c), id)
  BY <1>1 DEF IsClone
<1> HIDE DEF Clone
<1>3. store' = [x \in DOMAIN store \union {id} |-> IF x = id THEN Clone(c) ELSE store[x]]
  BY DEF Stored
<1>4. \A x \in DOMAIN store' : IsClone(setup, store'[x], x)
  BY <1>2, <1>3 DEF TypeInv, StoreInv
<1> QED
  BY <1>1, <1>3, <1>4 DEF StoreInv

LEMMA QueueTail ==
    ASSUME TypeInv, queue # <<>>
    PROVE  /\ IsToken(setup, Head(queue))
           /\ IsSequence(Tail(queue))
           /\ \A i \in DOMAIN Tail(queue) : IsToken(setup, Tail(queue)[i])
  BY TailSequence DEF TypeInv, QueueInv

LEMMA Enqueued ==
    ASSUME NEW s, NEW q, IsSequence(q), \A i \in DOMAIN q : IsToken(s, q[i]),
           NEW t, IsToken(s, t)
    PROVE  /\ IsSequence(Append(q, t))
           /\ \A i \in DOMAIN Append(q, t) : IsToken(s, Append(q, t)[i])
<1>1. Len(q) \in Nat /\ DOMAIN q = 1..Len(q)
  BY Sequence
<1>2. \A i \in DOMAIN Append(q, t) : i \in DOMAIN q \/ i = Len(q) + 1
  BY <1>1, AppendSequence
<1> QED
  BY <1>2, AppendSequence

LEMMA LocatedPoint ==
    ASSUME setup \in Setups, NEW c, Located(setup, c), c.continue = FALSE, NEW at \in PC,
           at \in {"sent", "answered"} => c.line # 0
    PROVE  AtPoint(setup, c, at) /\ c.scn # 0
<1>1. c.scn \in 1..Len(setup.scenarios) /\ Len(setup.scenarios) \in Nat
  BY SetupFacts DEF Located
<1>2. c.scn # 0
  BY <1>1
<1>3. IsContext(c)
  BY DEF Located
<1> QED
  BY <1>2, <1>3 DEF AtPoint

LEMMA LineIsNat ==
    ASSUME setup \in Setups, NEW c, Located(setup, c)
    PROVE  c.line \in Nat
<1>1. Len(setup.scenarios[c.scn].lines) \in Nat
  BY SetupFacts DEF Located
<1> QED
  BY <1>1 DEF Located

LEMMA RunningIsLocated ==
    ASSUME TypeInv, NEW w \in Threads, Running(w)
    PROVE  Located(setup, ctx[w]) /\ ctx[w].continue = FALSE
  BY DEF TypeInv, ContextInv, AtPoint, Running

-----------------------------------------------------------------------------
(* What each action does, without the data.                                *)

StepFails0(w, c) ==
    IF StepIn(setup, c).async
       THEN Moves(w, c, "scenario") /\ failed' = failed \union {StepOf(c)}
       ELSE (\E at \in {"line", "scenario"} : Moves(w, c, at)) /\ failed' = failed

LEMMA StepFailsDoes ==
    ASSUME TypeInv, NEW w \in Threads, NEW c, StepFails(w, c)
    PROVE  StepFails0(w, c)
<1>1. Line(c) = StepIn(setup, c)
  BY DEF Line, Scenario, StepIn
<1>2. CASE StepIn(setup, c).async
  BY <1>1, <1>2, SetAndGo DEF StepFails, StepFails0
<1>3. CASE ~StepIn(setup, c).async
  <2> DEFINE at == IF Line(c).stop THEN "scenario" ELSE "line"
  <2>1. SetContext(w, c) /\ Go(w, at) /\ failed' = failed
    BY <1>1, <1>3 DEF StepFails
  <2>2. at \in {"line", "scenario"}
    OBVIOUS
  <2> HIDE DEF at
  <2> QED
    BY <1>3, <2>1, <2>2, SetAndGo DEF StepFails0
<1> QED
  BY <1>2, <1>3

\* d is c at the next step
NextStep(c, d) ==
    /\ Located(setup, d)
    /\ d.scn = c.scn /\ d.uid = c.uid /\ d.line = c.line + 1 /\ d.continue = FALSE
    /\ d.cache.with = c.cache.with

\* d is c at the same step, with more keys
GrownStep(c, d) ==
    /\ Located(setup, d) /\ SameStep(c, d) /\ d.id = c.id
    /\ DOMAIN c.cache.with \subseteq DOMAIN d.cache.with

SendData0(w, d) ==
    /\ pc[w] = "line" /\ NextStep(ctx[w], d)
    /\ UNCHANGED <<setup, runs, queue, kept, expired>>
    /\ \/ Moves(w, d, "idle") /\ UNCHANGED <<store, failed, calls>>
       \/ StepFails0(w, d) /\ UNCHANGED <<store, calls>>
       \/ /\ StepIn(setup, d).async
          /\ Moves(w, d, "sent")
          /\ store' = Stored(d.id, Clone(d))
          /\ calls' = calls \union {CallOf(d)}
          /\ UNCHANGED failed
       \/ /\ ~StepIn(setup, d).async
          /\ Moves(w, d, "sent")
          /\ UNCHANGED <<store, failed, calls>>

LEMMA SendDataDoes ==
    ASSUME TypeInv, NEW w \in Threads, SendData(w)
    PROVE  \E d : SendData0(w, d)
<1> DEFINE c == [ctx[w] EXCEPT !.line = @ + 1]
           sent == ProcessNew(Line(c), Scenario(c).macros, c.cache)
           now == [c EXCEPT !.cache = sent.cache]
<1>1. pc[w] = "line" /\ Running(w) /\ ctx[w].line < Len(setup.scenarios[ctx[w].scn].lines)
      /\ UNCHANGED <<setup, runs, queue, kept, expired>>
  BY DEF SendData, Running, Scenario
<1>2. Located(setup, ctx[w]) /\ IsContext(ctx[w]) /\ ctx[w].continue = FALSE
  BY <1>1, RunningIsLocated DEF Located
<1>3. /\ IsContext(c) /\ c.line = ctx[w].line + 1 /\ c.scn = ctx[w].scn /\ c.uid = ctx[w].uid
      /\ c.continue = ctx[w].continue /\ c.cache = ctx[w].cache
  BY <1>2, LineChanges
<1>4. ctx[w].line + 1 \in 0..Len(setup.scenarios[ctx[w].scn].lines)
  BY <1>1, <1>2, SetupFacts DEF Located, TypeInv
<1>5. Located(setup, c)
  BY <1>2, <1>3, <1>4 DEF Located
<1>6. IsCache(c.cache)
  BY <1>3 DEF IsContext
<1> HIDE DEF c
<1>7. IsCache(sent.cache) /\ sent.cache.with = c.cache.with
  BY <1>6, ProcessNewShape
<1>8. \A d : IsContext(d) /\ SameStep(c, d) /\ d.cache = sent.cache => NextStep(ctx[w], d)
  BY <1>2, <1>3, <1>5, <1>7, StaysLocated DEF NextStep, SameStep
<1>9. NextStep(ctx[w], now) /\ StepIn(setup, now) = StepIn(setup, c)
  BY <1>3, <1>5, <1>7, <1>8, CacheChanges, StaysLocated
<1>10. Line(c) = StepIn(setup, c)
  BY DEF Line, Scenario, StepIn
<1>11. \/ sent.outcome = "fatal" /\ SetContext(w, now) /\ Go(w, "idle")
          /\ UNCHANGED <<store, failed, calls>>
       \/ StepFails(w, now) /\ UNCHANGED <<store, calls>>
       \/ Line(c).async /\ CallBefore(w, now, sent.command)
       \/ ~Line(c).async /\ SetContext(w, now) /\ Go(w, "sent")
          /\ UNCHANGED <<store, failed, calls>>
  BY DEF SendData, c
<1> HIDE DEF sent, now
<1>12. CASE SetContext(w, now) /\ Go(w, "idle") /\ UNCHANGED <<store, failed, calls>>
  BY <1>1, <1>9, <1>12, SetAndGo DEF SendData0
<1>13. CASE StepFails(w, now) /\ UNCHANGED <<store, calls>>
  BY <1>1, <1>9, <1>13, StepFailsDoes DEF SendData0
<1>14. CASE ~Line(c).async /\ SetContext(w, now) /\ Go(w, "sent")
            /\ UNCHANGED <<store, failed, calls>>
  BY <1>1, <1>9, <1>10, <1>14, SetAndGo DEF SendData0
<1>15. CASE Line(c).async /\ CallBefore(w, now, sent.command)
  <2> DEFINE id == <<Line(now).key, now.cache.runtime[Line(now).value].atom>>
             call == [now EXCEPT !.id = id]
  <2>1. \/ StepFails(w, now) /\ UNCHANGED <<store, calls>>
        \/ /\ calls' = calls \union {CallOf(call)}
           /\ store' = Stored(id, Clone(call))
           /\ SetContext(w, call) /\ Go(w, "sent")
           /\ UNCHANGED failed
    BY <1>15 DEF CallBefore
  <2> HIDE DEF id
  <2>2. IsContext(call) /\ SameStep(now, call) /\ call.id = id /\ call.cache = now.cache
    <3>1. IsContext(now)
      BY <1>9 DEF NextStep, Located
    <3> QED
      BY <3>1, IdChanges
  <2> HIDE DEF call
  <2>3. NextStep(ctx[w], call) /\ StepIn(setup, call) = StepIn(setup, now)
    BY <1>9, <2>2, StaysLocated DEF NextStep, SameStep
  <2>4. CASE /\ calls' = calls \union {CallOf(call)}
             /\ store' = Stored(id, Clone(call))
             /\ SetContext(w, call) /\ Go(w, "sent")
             /\ UNCHANGED failed
    BY <1>1, <1>9, <1>10, <1>15, <2>2, <2>3, <2>4, SetAndGo DEF SendData0
  <2> QED
    BY <1>13, <2>1, <2>4
<1> QED
  BY <1>11, <1>12, <1>13, <1>14, <1>15

\* what a step has memorised is in its context, and in the clone
Remembers(w, d) ==
    \/ kept' = kept
    \/ \E keys \in SUBSET DOMAIN d.cache.with :
         /\ kept' = kept \union {[run |-> RunOf(d), line |-> d.line, key |-> k] : k \in keys}
         /\ StepIn(setup, d).async =>
              d.id \in DOMAIN store /\ keys \subseteq DOMAIN store'[d.id].ctx.cache.with

Answer0(w, d) ==
    /\ pc[w] = "sent" /\ GrownStep(ctx[w], d)
    /\ UNCHANGED <<setup, runs, queue, calls, expired>>
    /\ \/ /\ \E at \in {"scenario", "idle"} : Moves(w, d, at)
          /\ StoreStays
          /\ UNCHANGED <<kept, failed>>
       \/ /\ StepFails0(w, d)
          /\ UNCHANGED store \/ (StepIn(setup, d).async /\ Pop(d.id))
          /\ UNCHANGED kept
       \/ /\ Moves(w, d, "answered")
          /\ StoreStays
          /\ Remembers(w, d)
          /\ UNCHANGED failed

LEMMA ProcessResponseDoes ==
    ASSUME NEW w, NEW resp, IsCache(ctx[w].cache)
    PROVE  LET r == ProcessResponse(w, resp) IN
           /\ IsCache(r.cache)
           /\ DOMAIN ctx[w].cache.with \subseteq DOMAIN r.cache.with
           /\ r.checked /\ Line(ctx[w]).memory # <<>> => DOMAIN r.memory \subseteq DOMAIN r.cache.with
           /\ r.checked /\ Line(ctx[w]).memory # <<>> /\ Line(ctx[w]).async =>
                ctx[w].id \in DOMAIN store
           /\ r.outcome = "ok" => r.checked
           /\ r.outcome = "failed" => ~r.checked
<1> DEFINE c     == ctx[w]
           line  == Line(c)
           asked == UpdateKeys(c.cache, resp)
           text  == IF "responseText" \in DOMAIN resp THEN resp["responseText"] ELSE Literal("none")
           memo  == MemorizeVariable(line.memory, memory[w], text, asked.runtime)
           known == IF line.memory = <<>> THEN c.cache ELSE Memorized(asked, memo)
           lost  == line.memory # <<>> /\ line.async /\ c.id \notin DOMAIN store
           cache == UpdateKeys(known, resp)
           verdict == CheckResponse(line.rules, cache.runtime, FALSE)
           r     == ProcessResponse(w, resp)
<1>1. r = IF memo.outcome # "ok" \/ lost
            THEN [outcome |-> IF memo.outcome = "ok" THEN "failed" ELSE memo.outcome,
                  checked |-> FALSE, memory |-> memo.memory, cache |-> known]
            ELSE [outcome |-> IF Accepts(verdict) THEN "ok" ELSE "fatal",
                  checked |-> TRUE, memory |-> memo.memory, cache |-> cache]
  BY DEF ProcessResponse
<1>2. IsCache(asked) /\ asked.with = c.cache.with
  BY CacheShapes
<1> HIDE DEF asked, memo
<1>3. DOMAIN Values(memo.memory, "memory") = DOMAIN memo.memory
  BY DEF Values
<1>4. /\ IsCache(known) /\ DOMAIN c.cache.with \subseteq DOMAIN known.with
      /\ line.memory # <<>> /\ memo.outcome = "ok" =>
           DOMAIN memo.memory \subseteq DOMAIN known.with
  <2>1. CASE line.memory = <<>>
    BY <2>1
  <2>2. CASE line.memory # <<>> /\ memo.outcome = "ok"
    <3>1. known = UpdateKeysPermanently(asked, Values(memo.memory, "memory"))
      BY <2>2 DEF Memorized
    <3> QED
      BY <1>2, <1>3, <3>1, CacheShapes
  <2>3. CASE line.memory # <<>> /\ memo.outcome # "ok"
    <3>1. known = asked
      BY <2>3 DEF Memorized
    <3> QED
      BY <1>2, <2>3, <3>1
  <2> QED
    BY <2>1, <2>2, <2>3
<1> HIDE DEF known
<1>5. IsCache(cache) /\ cache.with = known.with
  BY <1>4, CacheShapes
<1> HIDE DEF cache, verdict
<1>6. CASE memo.outcome # "ok" \/ lost
  <2> DEFINE o == IF memo.outcome = "ok" THEN "failed" ELSE memo.outcome
  <2>1. o # "ok"
    OBVIOUS
  <2>2. r = [outcome |-> o, checked |-> FALSE, memory |-> memo.memory, cache |-> known]
    BY <1>1, <1>6
  <2> HIDE DEF o, lost, line, c
  <2>3. r.outcome = o /\ ~r.checked /\ r.memory = memo.memory /\ r.cache = known
    BY <2>2
  <2> HIDE DEF r
  <2> QED
    BY <1>4, <2>1, <2>3 DEF r, line, c
<1>7. CASE ~(memo.outcome # "ok" \/ lost)
  <2> DEFINE o == IF Accepts(verdict) THEN "ok" ELSE "fatal"
  <2>1. o # "failed"
    OBVIOUS
  <2>2. r = [outcome |-> o, checked |-> TRUE, memory |-> memo.memory, cache |-> cache]
    BY <1>1, <1>7
  <2>3. (line.memory # <<>> /\ line.async => c.id \in DOMAIN store) /\ memo.outcome = "ok"
    BY <1>7
  <2> HIDE DEF o, lost, line, c
  <2>4. r.outcome = o /\ r.checked /\ r.memory = memo.memory /\ r.cache = cache
    BY <2>2
  <2> HIDE DEF r
  <2> QED
    BY <1>4, <1>5, <2>1, <2>3, <2>4 DEF r, line, c
<1> QED
  BY <1>6, <1>7

LEMMA AnswerDoes ==
    ASSUME TypeInv, NEW w \in Threads, Answer(w)
    PROVE  \E d : Answer0(w, d)
<1> DEFINE c == ctx[w]
<1>1. pc[w] = "sent" /\ Running(w) /\ UNCHANGED <<setup, runs, queue, calls, expired>>
  BY DEF Answer, Running
<1>2. Located(setup, c) /\ IsContext(c) /\ IsCache(c.cache)
  BY <1>1, RunningIsLocated DEF Located, IsContext
<1>3. GrownStep(c, c) /\ Line(c) = StepIn(setup, c)
  BY <1>2 DEF GrownStep, SameStep, Line, Scenario, StepIn
<1>4. \A at : Stop(w, at) => Moves(w, c, at) /\ StoreStays /\ UNCHANGED <<kept, failed>>
  BY OnlyGo, StoreUnchanged DEF Stop
<1>5. \A back : Refuse(w, back) =>
        /\ StepFails0(w, c)
        /\ UNCHANGED store \/ (StepIn(setup, c).async /\ Pop(c.id))
        /\ UNCHANGED kept
  BY <1>3, StepFailsDoes DEF Refuse
<1>6. ASSUME NEW resp, Judge(w, resp)
      PROVE  \E d : Answer0(w, d)
  <2> DEFINE r == ProcessResponse(w, resp)
             d == [c EXCEPT !.cache = r.cache]
  <2>1. /\ IsCache(r.cache)
        /\ DOMAIN c.cache.with \subseteq DOMAIN r.cache.with
        /\ r.checked /\ Line(c).memory # <<>> => DOMAIN r.memory \subseteq DOMAIN r.cache.with
        /\ r.checked /\ Line(c).memory # <<>> /\ Line(c).async => c.id \in DOMAIN store
        /\ r.outcome = "ok" => r.checked
        /\ r.outcome = "failed" => ~r.checked
    BY <1>2, ProcessResponseDoes
  <2>2. /\ store' = IF Line(c).memory # <<>> /\ Line(c).async /\ r.checked
                       THEN UpdateClone(c.id, Values(r.memory, "memory")) ELSE store
        /\ \/ /\ r.outcome = "ok"
              /\ SetContext(w, d) /\ Go(w, "answered")
              /\ kept' = IF Line(c).memory = <<>> THEN kept
                         ELSE kept \union {[run |-> RunOf(c), line |-> c.line, key |-> k] :
                                             k \in DOMAIN r.memory}
              /\ UNCHANGED failed
           \/ /\ r.outcome = "failed"
              /\ StepFails(w, d)
              /\ UNCHANGED kept
           \/ /\ r.outcome = "fatal"
              /\ SetContext(w, d) /\ Go(w, "idle")
              /\ UNCHANGED <<kept, failed>>
    BY <1>6 DEF Judge
  <2> HIDE DEF r
  <2>3. IsContext(d) /\ SameStep(c, d) /\ d.id = c.id /\ d.cache = r.cache
    BY <1>2, <2>1, CacheChanges
  <2> HIDE DEF d
  <2>4. GrownStep(c, d) /\ StepIn(setup, d) = Line(c)
    BY <1>2, <1>3, <2>1, <2>3, StaysLocated DEF GrownStep
  <2>5. DOMAIN Values(r.memory, "memory") = DOMAIN r.memory
    BY DEF Values
  <2>6. /\ StoreStays
        /\ r.checked /\ Line(c).memory # <<>> /\ Line(c).async =>
             DOMAIN r.memory \subseteq DOMAIN store'[c.id].ctx.cache.with
    <3>1. CASE Line(c).memory # <<>> /\ Line(c).async /\ r.checked
      <4>1. c.id \in DOMAIN store /\ store' = UpdateClone(c.id, Values(r.memory, "memory"))
        BY <2>1, <2>2, <3>1
      <4> QED
        BY <2>5, <4>1, UpdateStays
    <3>2. CASE ~(Line(c).memory # <<>> /\ Line(c).async /\ r.checked)
      BY <2>2, <3>2, StoreUnchanged
    <3> QED
      BY <3>1, <3>2
  <2>7. CASE /\ r.outcome = "ok"
             /\ SetContext(w, d) /\ Go(w, "answered")
             /\ kept' = IF Line(c).memory = <<>> THEN kept
                        ELSE kept \union {[run |-> RunOf(c), line |-> c.line, key |-> k] :
                                            k \in DOMAIN r.memory}
             /\ UNCHANGED failed
    <3>1. Remembers(w, d)
      <4>1. RunOf(d) = RunOf(c) /\ d.line = c.line
        BY <2>3 DEF SameStep, RunOf
      <4>2. CASE Line(c).memory = <<>>
        BY <2>7, <4>2 DEF Remembers
      <4>3. CASE Line(c).memory # <<>>
        <5>1. DOMAIN r.memory \in SUBSET DOMAIN d.cache.with
          BY <2>1, <2>3, <2>7, <4>3
        <5>2. kept' = kept \union {[run |-> RunOf(d), line |-> d.line, key |-> k] :
                                     k \in DOMAIN r.memory}
          BY <2>7, <4>1, <4>3
        <5>3. StepIn(setup, d).async =>
                /\ d.id \in DOMAIN store
                /\ DOMAIN r.memory \subseteq DOMAIN store'[d.id].ctx.cache.with
          BY <2>1, <2>3, <2>4, <2>6, <2>7, <4>3
        <5> QED
          BY <5>1, <5>2, <5>3 DEF Remembers
      <4> QED
        BY <4>2, <4>3
    <3>2. Moves(w, d, "answered")
      BY <2>7, SetAndGo
    <3> QED
      BY <1>1, <2>4, <2>6, <2>7, <3>1, <3>2 DEF Answer0
  <2>8. CASE r.outcome = "failed" /\ StepFails(w, d) /\ UNCHANGED kept
    <3>1. UNCHANGED store
      BY <2>1, <2>2, <2>8
    <3> QED
      BY <1>1, <2>4, <2>8, <3>1, StepFailsDoes DEF Answer0
  <2>9. CASE SetContext(w, d) /\ Go(w, "idle") /\ UNCHANGED <<kept, failed>>
    BY <1>1, <2>4, <2>6, <2>9, SetAndGo DEF Answer0
  <2> QED
    BY <2>2, <2>7, <2>8, <2>9
<1>7. \/ \E at \in {"scenario", "idle"} : Stop(w, at)
      \/ \E back : Refuse(w, back)
      \/ \E resp : Judge(w, resp)
  BY DEF Answer
<1>8. CASE \E at \in {"scenario", "idle"} : Stop(w, at)
  BY <1>1, <1>3, <1>4, <1>8 DEF Answer0
<1>9. CASE \E back : Refuse(w, back)
  BY <1>1, <1>3, <1>5, <1>9 DEF Answer0
<1> QED
  BY <1>6, <1>7, <1>8, <1>9

AfterStep0(w, d) ==
    /\ pc[w] = "answered" /\ GrownStep(ctx[w], d)
    /\ UNCHANGED <<setup, runs, queue, calls, kept, failed, expired>>
    /\ \/ ~StepIn(setup, d).async /\ Moves(w, d, "line") /\ UNCHANGED store
       \/ StepIn(setup, d).async /\ d.id \in DOMAIN store /\ Moves(w, d, "line") /\ Pop(d.id)
       \/ StepIn(setup, d).async /\ Moves(w, d, "scenario") /\ StoreStays

LEMMA AfterStepDoes ==
    ASSUME TypeInv, NEW w \in Threads, AfterStep(w)
    PROVE  \E d : AfterStep0(w, d)
<1> DEFINE c == ctx[w]
           there == c.id \in DOMAIN store
           k == KeepThread(c, store[c.id].ctx.cache.runtime)
<1>1. pc[w] = "answered" /\ Running(w)
      /\ UNCHANGED <<setup, runs, queue, calls, kept, failed, expired>>
  BY DEF AfterStep, Running, histVars
<1>2. Located(setup, c) /\ IsContext(c)
  BY <1>1, RunningIsLocated DEF Located
<1>3. GrownStep(c, c) /\ Line(c) = StepIn(setup, c)
  BY <1>2 DEF GrownStep, SameStep, Line, Scenario, StepIn
<1>4. \/ ~Line(c).async /\ Go(w, "line") /\ UNCHANGED <<ctx, store>>
      \/ Line(c).async /\ there /\ SetContext(w, k) /\ Pop(c.id) /\ Go(w, "line")
      \/ /\ Line(c).async
         /\ store' = IF there THEN [store EXCEPT ![c.id].locked = FALSE] ELSE store
         /\ Go(w, "scenario") /\ UNCHANGED ctx
  BY DEF AfterStep
<1>5. CASE ~Line(c).async /\ Go(w, "line") /\ UNCHANGED <<ctx, store>>
  BY <1>1, <1>3, <1>5, OnlyGo DEF AfterStep0
<1>6. CASE Line(c).async /\ there /\ SetContext(w, k) /\ Pop(c.id) /\ Go(w, "line")
  <2>1. IsContext(k) /\ SameStep(c, k) /\ k.id = c.id
        /\ DOMAIN c.cache.with \subseteq DOMAIN k.cache.with
    BY <1>2, KeepThreadChanges
  <2> HIDE DEF k
  <2>2. GrownStep(c, k) /\ StepIn(setup, k) = StepIn(setup, c)
    BY <1>2, <2>1, StaysLocated DEF GrownStep
  <2> QED
    BY <1>1, <1>3, <1>6, <2>1, <2>2, SetAndGo DEF AfterStep0
<1>7. CASE /\ Line(c).async
           /\ store' = IF there THEN [store EXCEPT ![c.id].locked = FALSE] ELSE store
           /\ Go(w, "scenario") /\ UNCHANGED ctx
  <2>1. StoreStays
    BY <1>7, FlagStays, StoreUnchanged
  <2> QED
    BY <1>1, <1>3, <1>7, <2>1, OnlyGo DEF AfterStep0
<1> QED
  BY <1>4, <1>5, <1>6, <1>7

LEMMA EndOfStepsDoes ==
    ASSUME TypeInv, NEW w \in Threads, EndOfSteps(w)
    PROVE  /\ pc[w] = "line" /\ Moves(w, ctx[w], "scenario")
           /\ UNCHANGED <<setup, runs, store, queue, calls, kept, failed, expired>>
  BY OnlyGo DEF EndOfSteps, histVars

\* a thread begins a scenario
NextScenario0(w, d) ==
    /\ Located(setup, d) /\ d.line = 0 /\ d.continue = FALSE
    /\ d.uid = <<w, runs[w], ctx[w].scn + 1>>
    /\ Moves(w, d, "line")

LEMMA NextScenarioDoes ==
    ASSUME TypeInv, NEW w \in Threads, NextScenario(w)
    PROVE  /\ pc[w] = "scenario"
           /\ UNCHANGED <<setup, runs, store, queue, calls, kept, failed, expired>>
           /\ Moves(w, ctx[w], "idle") \/ \E d : NextScenario0(w, d)
<1> DEFINE scn == ctx[w].scn + 1
           uid == <<w, runs[w], scn>>
<1>1. /\ pc[w] = "scenario"
      /\ UNCHANGED <<setup, runs, store, queue, calls, kept, failed, expired>>
  BY DEF NextScenario, histVars
<1>2. \/ UNCHANGED ctx /\ Go(w, "idle")
      \/ /\ ctx[w].scn # Len(setup.scenarios)
         /\ \E c \in NextContexts(w) : SetContext(w, c)
         /\ Go(w, "line")
  BY DEF NextScenario
<1>3. CASE UNCHANGED ctx /\ Go(w, "idle")
  BY <1>1, <1>3, OnlyGo
<1>4. ASSUME ctx[w].scn # Len(setup.scenarios), NEW c \in NextContexts(w), SetContext(w, c),
             Go(w, "line")
      PROVE  NextScenario0(w, c)
  <2>1. IsContext(ctx[w]) /\ ctx[w].continue = FALSE
    BY DEF TypeInv, ContextInv, AtPoint
  <2>2. PICK cache : /\ cache \in ScenarioCaches(setup.scenarios[scn], ToString(uid),
                                                 ctx[w].cache, Environment(w))
                     /\ c = BeginScenario(ctx[w], uid, cache)
    BY DEF NextContexts
  <2>3. IsCache(cache)
    BY <2>2, ScenarioCacheShape
  <2> HIDE DEF uid
  <2>4. /\ IsContext(c) /\ c.scn = uid[3] /\ c.line = 0 /\ c.uid = uid
        /\ c.continue = ctx[w].continue
    BY <2>1, <2>2, <2>3, BeginScenarioChanges
  <2>5. ctx[w].scn \in 0..Len(setup.scenarios) /\ Len(setup.scenarios) \in Nat
    BY SetupFacts DEF TypeInv, ContextInv, AtPoint, Located
  <2>6. scn \in DOMAIN setup.scenarios /\ scn \in Nat
    BY <1>4, <2>5, SetupFacts DEF TypeInv
  <2>7. Len(setup.scenarios[scn].lines) \in Nat
    BY <2>6, SetupFacts DEF TypeInv
  <2>8. runs[w] \in Nat
    BY SetupsAssumption DEF TypeInv
  <2>9. uid \in Threads \X Nat \X Nat /\ uid[3] = scn
    BY <2>6, <2>8 DEF uid
  <2> HIDE DEF scn
  <2>10. Located(setup, c)
    BY <2>4, <2>6, <2>7, <2>9 DEF Located
  <2> QED
    BY <1>4, <2>1, <2>4, <2>10, SetAndGo DEF NextScenario0, uid, scn
<1> QED
  BY <1>1, <1>2, <1>3, <1>4

\* d goes on with the run of c
GoesOn(c, d) ==
    /\ Located(setup, d) /\ d.continue = FALSE
    /\ d.scn = c.scn /\ d.line = c.line /\ d.uid = c.uid /\ d.cache = c.cache

ProcessScenario0(w) ==
    /\ pc[w] = "idle" /\ runs[w] < setup.runs
    /\ runs' = [runs EXCEPT ![w] = @ + 1]
    /\ UNCHANGED <<setup, calls, kept, failed, expired>>
    /\ \/ /\ \E d : /\ AtPoint(setup, d, "scenario") /\ d.scn = 0
                    /\ Moves(w, d, "scenario")
          /\ UNCHANGED queue \/ (queue # <<>> /\ queue' = Tail(queue))
          /\ UNCHANGED store
       \/ /\ queue # <<>> /\ Head(queue).type = "context" /\ queue' = Tail(queue)
          /\ \E d : /\ GoesOn(Head(queue).ctx, d)
                    /\ \/ Head(queue).ctx.continue /\ Moves(w, d, "line")
                       \/ ~Head(queue).ctx.continue /\ Moves(w, d, "scenario")
          /\ UNCHANGED store
       \/ /\ queue # <<>> /\ Moves(w, ctx[w], "idle")
          /\ \E id \in DOMAIN store :
               /\ \/ queue' = Tail(queue)
                  \/ queue' = Append(Tail(queue), [type |-> "context", ctx |-> store[id].ctx])
               /\ Pop(id)
       \/ /\ queue # <<>> /\ Moves(w, ctx[w], "idle") /\ queue' = Tail(queue)
          /\ UNCHANGED store

LEMMA StartContextDoes ==
    ASSUME TypeInv, NEW w \in Threads, NEW keys, StartContext(w, keys)
    PROVE  \E d : AtPoint(setup, d, "scenario") /\ d.scn = 0 /\ Moves(w, d, "scenario")
<1> DEFINE k == AddDynamicKeys(NoContext.cache, keys)
           d == [NoContext EXCEPT !.cache = k]
<1>1. IsContext(NoContext) /\ NoContext.scn = 0 /\ NoContext.continue = FALSE
      /\ IsCache(NoContext.cache)
  BY EmptyCacheShape DEF NoContext, IsContext
<1>2. IsCache(k)
  BY <1>1, CacheShapes
<1>3. SetContext(w, d) /\ Go(w, "scenario")
  BY DEF StartContext
<1> HIDE DEF k
<1>4. IsContext(d) /\ SameStep(NoContext, d)
  BY <1>1, <1>2, CacheChanges
<1>5. d.scn = 0 /\ d.continue = FALSE
  BY <1>1, <1>4 DEF SameStep
<1> HIDE DEF d
<1>6. AtPoint(setup, d, "scenario")
  BY <1>4, <1>5 DEF AtPoint, PC
<1> QED
  BY <1>3, <1>5, <1>6, SetAndGo

LEMMA ProcessScenarioDoes ==
    ASSUME TypeInv, NEW w \in Threads, ProcessScenario(w)
    PROVE  ProcessScenario0(w)
<1>1. /\ pc[w] = "idle" /\ runs[w] < setup.runs
      /\ runs' = [runs EXCEPT ![w] = @ + 1]
      /\ UNCHANGED <<setup, calls, kept, failed, expired>>
  BY DEF ProcessScenario, histVars
<1>2. \/ /\ \E keys : StartContext(w, keys)
         /\ UNCHANGED queue \/ (queue # <<>> /\ queue' = Tail(queue))
         /\ UNCHANGED store
      \/ /\ queue # <<>> /\ Head(queue).type = "context"
         /\ SetContext(w, Resumed(Head(queue).ctx))
         /\ Go(w, IF Head(queue).ctx.continue THEN "line" ELSE "scenario")
         /\ queue' = Tail(queue) /\ UNCHANGED store
      \/ /\ queue # <<>> /\ Head(queue).id \in DOMAIN store
         /\ ProcessCallback(w, store[Head(queue).id].ctx, Tail(queue))
         /\ Pop(Head(queue).id)
      \/ /\ queue # <<>> /\ Go(w, "idle") /\ UNCHANGED ctx
         /\ queue' = Tail(queue) /\ UNCHANGED store
  <2>1. CASE /\ queue # <<>> /\ Head(queue).type = "callback"
             /\ Head(queue).id \notin DOMAIN store
             /\ IF setup.waiting
                   THEN StartContext(w, EventKeys(Head(queue).id))
                   ELSE Go(w, "idle") /\ UNCHANGED ctx
             /\ queue' = Tail(queue)
             /\ UNCHANGED store
    BY <2>1
  <2>2. CASE /\ queue = <<>>
             /\ StartContext(w, <<>>)
             /\ UNCHANGED <<queue, store>>
    BY <2>2
  <2>3. CASE /\ queue # <<>>
             /\ StartContext(w, <<>>)
             /\ queue' = Tail(queue)
             /\ UNCHANGED store
    BY <2>3
  <2> QED
    BY <2>1, <2>2, <2>3 DEF ProcessScenario
<1>3. CASE /\ \E keys : StartContext(w, keys)
           /\ UNCHANGED queue \/ (queue # <<>> /\ queue' = Tail(queue))
           /\ UNCHANGED store
  BY <1>1, <1>3, StartContextDoes DEF ProcessScenario0
<1>4. CASE /\ queue # <<>> /\ Head(queue).type = "context"
           /\ SetContext(w, Resumed(Head(queue).ctx))
           /\ Go(w, IF Head(queue).ctx.continue THEN "line" ELSE "scenario")
           /\ queue' = Tail(queue) /\ UNCHANGED store
  <2> DEFINE c == Head(queue).ctx
             d == Resumed(c)
  <2>1. Located(setup, c) /\ IsContext(c)
    BY <1>4, QueueTail DEF IsToken, Located
  <2>2. /\ IsContext(d) /\ d.continue = FALSE /\ d.scn = c.scn /\ d.line = c.line
        /\ d.uid = c.uid /\ d.cache = c.cache
    BY <2>1, ResumedChanges
  <2> HIDE DEF d
  <2>3. GoesOn(c, d)
    BY <2>1, <2>2 DEF GoesOn, Located
  <2>4. \/ c.continue /\ Moves(w, d, "line")
        \/ ~c.continue /\ Moves(w, d, "scenario")
    <3>1. SetContext(w, d)
      BY <1>4 DEF d
    <3>2. CASE c.continue
      BY <1>4, <3>1, <3>2, SetAndGo
    <3>3. CASE ~c.continue
      BY <1>4, <3>1, <3>3, SetAndGo
    <3> QED
      BY <3>2, <3>3
  <2> HIDE DEF c
  <2> QED
    BY <1>1, <1>4, <2>3, <2>4 DEF ProcessScenario0, c
<1>5. CASE /\ queue # <<>> /\ Head(queue).id \in DOMAIN store
           /\ ProcessCallback(w, store[Head(queue).id].ctx, Tail(queue))
           /\ Pop(Head(queue).id)
  <2>1. /\ Moves(w, ctx[w], "idle")
        /\ \/ queue' = Tail(queue)
           \/ queue' = Append(Tail(queue), [type |-> "context", ctx |-> store[Head(queue).id].ctx])
    BY <1>5, OnlyGo DEF ProcessCallback
  <2> QED
    BY <1>1, <1>5, <2>1 DEF ProcessScenario0
<1>6. CASE /\ queue # <<>> /\ Go(w, "idle") /\ UNCHANGED ctx
           /\ queue' = Tail(queue) /\ UNCHANGED store
  BY <1>1, <1>6, OnlyGo DEF ProcessScenario0
<1> QED
  BY <1>2, <1>3, <1>4, <1>5, <1>6

\* the clone of a call, or a notification, takes its way
Notify0(id) ==
    /\ UNCHANGED <<setup, runs, pc, ctx, calls, kept, failed, expired>>
    /\ \/ StoreStays /\ UNCHANGED queue
       \/ queue' = Append(queue, [type |-> "callback", id |-> id]) /\ UNCHANGED store

LEMMA NotifyDoes ==
    ASSUME TypeInv, NEW id \in DOMAIN store, Notify(id)
    PROVE  Notify0(id)
  BY FlagStays DEF Notify, Notify0, threadVars, histVars

\* d is c in a token
TokenOf(c, d) ==
    /\ Located(setup, d) /\ d.continue \in BOOLEAN
    /\ d.scn = c.scn /\ d.line = c.line /\ d.uid = c.uid /\ d.cache = c.cache

TimeOut0(id) ==
    /\ UNCHANGED <<setup, runs, pc, ctx, calls, kept, failed>>
    /\ Pop(id)
    /\ \/ \E d : /\ TokenOf(store[id].ctx, d) /\ d.continue = TRUE
                 /\ queue' = Append(queue, [type |-> "context", ctx |-> d])
                 /\ expired' = expired \union {StepOf(store[id].ctx)}
       \/ \E d : /\ TokenOf(store[id].ctx, d) /\ d.continue = FALSE
                 /\ queue' = Append(queue, [type |-> "context", ctx |-> d])
                 /\ expired' = expired
       \/ UNCHANGED <<queue, expired>>

LEMMA TimeOutDoes ==
    ASSUME TypeInv, NEW id \in DOMAIN store, TimeOut(id)
    PROVE  TimeOut0(id)
<1> DEFINE c == store[id].ctx
           d(b) == [c EXCEPT !.continue = b]
<1>1. UNCHANGED <<setup, runs, pc, ctx, calls, kept, failed>> /\ Pop(id)
  BY DEF TimeOut, threadVars
<1>2. \/ /\ queue' = Append(queue, [type |-> "context", ctx |-> d(TRUE)])
         /\ expired' = expired \union {StepOf(c)}
      \/ /\ queue' = Append(queue, [type |-> "context", ctx |-> d(FALSE)])
         /\ expired' = expired
      \/ UNCHANGED <<queue, expired>>
  BY DEF TimeOut
<1>3. Located(setup, c) /\ IsContext(c)
  BY DEF TypeInv, StoreInv, IsClone, Located
<1>4. ASSUME NEW b \in BOOLEAN
      PROVE  TokenOf(c, d(b)) /\ d(b).continue = b
  <2>1. /\ IsContext(d(b)) /\ d(b).continue = b /\ d(b).scn = c.scn /\ d(b).line = c.line
        /\ d(b).uid = c.uid /\ d(b).id = c.id /\ d(b).cache = c.cache
    BY <1>3, ContinueChanges
  <2> HIDE DEF d
  <2> QED
    BY <1>3, <2>1 DEF TokenOf, Located
<1> HIDE DEF c, d
<1> QED
  BY <1>1, <1>2, <1>4 DEF TimeOut0, c

LEMMA EventDoes ==
    ASSUME TypeInv, Event
    PROVE  /\ UNCHANGED <<setup, runs, pc, ctx, store, calls, kept, failed, expired>>
           /\ \E t : /\ IsToken(setup, t) /\ t.type # "context"
                     /\ queue' = Append(queue, t)
<1>1. PICK t \in {[type |-> "callback", id |-> <<"event", "event">>], [type |-> "start"]} :
        queue' = Append(queue, t)
  BY DEF Event
<1>2. t.type \in {"callback", "start"}
  BY <1>1
<1> QED
  BY <1>1, <1>2 DEF Event, IsToken, threadVars, histVars

-----------------------------------------------------------------------------
(* Where contexts, clones and tokens are.                                  *)

LEMMA TypeInit == Init => TypeInv
<1> SUFFICES ASSUME Init PROVE TypeInv
  OBVIOUS
<1>1. setup \in Setups /\ setup.runs \in Nat
  BY SetupsAssumption DEF Init
<1>2. runs \in [Threads -> 0..setup.runs]
  BY <1>1 DEF Init
<1>3. IsContext(NoContext) /\ NoContext.scn = 0 /\ NoContext.continue = FALSE
  BY EmptyCacheShape DEF NoContext, IsContext
<1>4. ContextInv
  BY <1>3 DEF Init, ContextInv, AtPoint, PC
<1>5. DOMAIN store = {} /\ store = [id \in DOMAIN store |-> store[id]] /\ StoreInv
  <2>1. DOMAIN store = {}
    BY EmptySequence DEF Init
  <2>2. store = [id \in {} |-> store[id]]
    BY DEF Init
  <2> QED
    BY <2>1, <2>2 DEF StoreInv
<1>6. QueueInv
  BY EmptySequence DEF Init, QueueInv
<1>7. pc = [w \in Threads |-> pc[w]] /\ ctx = [w \in Threads |-> ctx[w]]
  BY DEF Init
<1> QED
  BY <1>1, <1>2, <1>4, <1>5, <1>6, <1>7 DEF TypeInv

\* what the steps of a thread leave to show
LEMMA ThreadStepTypes ==
    ASSUME TypeInv, UNCHANGED <<setup, runs>>, NEW w \in Threads, NEW c, NEW at,
           Moves(w, c, at), AtPoint(setup, c, at),
           QueueInv', StoreInv', (store = [id \in DOMAIN store |-> store[id]])'
    PROVE  TypeInv'
<1>1. setup' \in Setups /\ runs' \in [Threads -> 0..setup'.runs]
  BY DEF TypeInv
<1> QED
  BY <1>1, MovesWell DEF TypeInv

LEMMA QueueUnchanged ==
    ASSUME TypeInv, UNCHANGED <<setup, queue>>
    PROVE  QueueInv'
  BY DEF TypeInv, QueueInv

LEMMA FailurePoint ==
    ASSUME TypeInv, NEW w \in Threads, NEW c, StepFails0(w, c), Located(setup, c),
           c.continue = FALSE
    PROVE  \E at : Moves(w, c, at) /\ AtPoint(setup, c, at) /\ at \in {"line", "scenario"}
<1>1. PICK at \in {"line", "scenario"} : Moves(w, c, at)
  BY DEF StepFails0
<1>2. AtPoint(setup, c, at)
  BY LocatedPoint DEF TypeInv, PC
<1> QED
  BY <1>1, <1>2

LEMMA SendDataTypes ==
    ASSUME TypeInv, NEW w \in Threads, NEW d, SendData0(w, d)
    PROVE  TypeInv'
<1>1. Located(setup, d) /\ d.continue = FALSE /\ d.line # 0
  <2>1. pc[w] = "line" /\ NextStep(ctx[w], d)
    BY DEF SendData0
  <2>2. Running(w)
    BY <2>1 DEF Running
  <2>3. ctx[w].line \in Nat
    BY <2>2, RunningIsLocated, LineIsNat DEF TypeInv
  <2> QED
    BY <2>1, <2>3 DEF NextStep
<1>2. \A at \in PC : AtPoint(setup, d, at)
  BY <1>1, LocatedPoint DEF TypeInv
<1>3. UNCHANGED <<setup, runs>> /\ QueueInv'
  BY QueueUnchanged DEF SendData0
<1>4. UNCHANGED store => StoreInv' /\ (store = [id \in DOMAIN store |-> store[id]])'
  BY <1>3, StoreUnchanged, StoreStaysWell
<1>5. CASE Moves(w, d, "idle") /\ UNCHANGED <<store, failed, calls>>
  BY <1>2, <1>3, <1>4, <1>5, ThreadStepTypes DEF PC
<1>6. CASE StepFails0(w, d) /\ UNCHANGED <<store, calls>>
  BY <1>1, <1>3, <1>4, <1>6, FailurePoint, ThreadStepTypes
<1>7. CASE /\ StepIn(setup, d).async
           /\ Moves(w, d, "sent")
           /\ store' = Stored(d.id, Clone(d))
  <2>1. StoreInv' /\ (store = [id \in DOMAIN store |-> store[id]])'
    BY <1>1, <1>3, <1>7, StoredWell
  <2> QED
    BY <1>2, <1>3, <1>7, <2>1, ThreadStepTypes DEF PC
<1>8. CASE Moves(w, d, "sent") /\ UNCHANGED <<store, failed, calls>>
  BY <1>2, <1>3, <1>4, <1>8, ThreadStepTypes DEF PC
<1> QED
  BY <1>5, <1>6, <1>7, <1>8 DEF SendData0

LEMMA GrownPoint ==
    ASSUME TypeInv, NEW w \in Threads, pc[w] \in {"sent", "answered"}, NEW d,
           GrownStep(ctx[w], d)
    PROVE  /\ Located(setup, d) /\ d.continue = FALSE /\ d.line # 0
           /\ \A at \in PC : AtPoint(setup, d, at)
<1>1. Located(setup, d) /\ d.continue = FALSE /\ d.line # 0
  BY DEF TypeInv, ContextInv, AtPoint, GrownStep, SameStep
<1> QED
  BY <1>1, LocatedPoint DEF TypeInv

LEMMA AnswerTypes ==
    ASSUME TypeInv, NEW w \in Threads, NEW d, Answer0(w, d)
    PROVE  TypeInv'
<1>1. /\ Located(setup, d) /\ d.continue = FALSE
      /\ \A at \in PC : AtPoint(setup, d, at)
  BY GrownPoint DEF Answer0
<1>2. UNCHANGED <<setup, runs>> /\ QueueInv'
  BY QueueUnchanged DEF Answer0
<1>3. /\ StoreStays => StoreInv' /\ (store = [id \in DOMAIN store |-> store[id]])'
      /\ UNCHANGED store => StoreInv' /\ (store = [id \in DOMAIN store |-> store[id]])'
      /\ Pop(d.id) => StoreInv' /\ (store = [id \in DOMAIN store |-> store[id]])'
  BY <1>2, StoreUnchanged, StoreStaysWell, Popped
<1>4. CASE (\E at \in {"scenario", "idle"} : Moves(w, d, at)) /\ StoreStays
  BY <1>1, <1>2, <1>3, <1>4, ThreadStepTypes DEF PC
<1>5. CASE StepFails0(w, d) /\ (UNCHANGED store \/ Pop(d.id))
  BY <1>1, <1>2, <1>3, <1>5, FailurePoint, ThreadStepTypes
<1>6. CASE Moves(w, d, "answered") /\ StoreStays
  BY <1>1, <1>2, <1>3, <1>6, ThreadStepTypes DEF PC
<1> QED
  BY <1>4, <1>5, <1>6 DEF Answer0

LEMMA AfterStepTypes ==
    ASSUME TypeInv, NEW w \in Threads, NEW d, AfterStep0(w, d)
    PROVE  TypeInv'
<1>1. \A at \in PC : AtPoint(setup, d, at)
  BY GrownPoint DEF AfterStep0
<1>2. UNCHANGED <<setup, runs>> /\ QueueInv'
  BY QueueUnchanged DEF AfterStep0
<1>3. /\ StoreStays => StoreInv' /\ (store = [id \in DOMAIN store |-> store[id]])'
      /\ UNCHANGED store => StoreInv' /\ (store = [id \in DOMAIN store |-> store[id]])'
      /\ Pop(d.id) => StoreInv' /\ (store = [id \in DOMAIN store |-> store[id]])'
  BY <1>2, StoreUnchanged, StoreStaysWell, Popped
<1>4. \E at \in {"line", "scenario"} : Moves(w, d, at)
  BY DEF AfterStep0
<1>5. StoreInv' /\ (store = [id \in DOMAIN store |-> store[id]])'
  BY <1>3 DEF AfterStep0
<1> QED
  BY <1>1, <1>2, <1>4, <1>5, ThreadStepTypes DEF PC

LEMMA StillTypes ==
    ASSUME TypeInv, NEW w \in Threads, NEW at \in {"idle", "scenario"}, Moves(w, ctx[w], at),
           UNCHANGED <<setup, runs>>, QueueInv', StoreInv',
           (store = [id \in DOMAIN store |-> store[id]])'
    PROVE  TypeInv'
<1>1. AtPoint(setup, ctx[w], at)
  BY DEF TypeInv, ContextInv, AtPoint, PC
<1> QED
  BY <1>1, ThreadStepTypes

LEMMA NextScenarioTypes ==
    ASSUME TypeInv, NEW w \in Threads, NextScenario(w) \/ EndOfSteps(w)
    PROVE  TypeInv'
<1>1. /\ UNCHANGED <<setup, runs, store, queue, calls, kept, failed, expired>>
      /\ \/ \E at \in {"idle", "scenario"} : Moves(w, ctx[w], at)
         \/ \E d : NextScenario0(w, d)
  BY NextScenarioDoes, EndOfStepsDoes
<1>2. QueueInv' /\ StoreInv' /\ (store = [id \in DOMAIN store |-> store[id]])'
  BY <1>1, QueueUnchanged, StoreUnchanged, StoreStaysWell
<1>3. CASE \E at \in {"idle", "scenario"} : Moves(w, ctx[w], at)
  BY <1>1, <1>2, <1>3, StillTypes
<1>4. ASSUME NEW d, NextScenario0(w, d)
      PROVE  TypeInv'
  <2>1. Moves(w, d, "line") /\ AtPoint(setup, d, "line")
    BY <1>4, LocatedPoint DEF NextScenario0, TypeInv, PC
  <2> QED
    BY <1>1, <1>2, <2>1, ThreadStepTypes
<1> QED
  BY <1>1, <1>3, <1>4

LEMMA ProcessScenarioTypes ==
    ASSUME TypeInv, NEW w \in Threads, ProcessScenario0(w)
    PROVE  TypeInv'
<1>1. setup' = setup /\ runs[w] < setup.runs /\ runs' = [runs EXCEPT ![w] = @ + 1]
  BY DEF ProcessScenario0
<1>2. setup' \in Setups /\ runs' \in [Threads -> 0..setup'.runs]
  <2>1. runs \in [Threads -> 0..setup.runs] /\ setup.runs \in Nat
    BY SetupsAssumption DEF TypeInv
  <2>2. runs[w] + 1 \in 0..setup.runs
    BY <1>1, <2>1
  <2> QED
    BY <1>1, <2>1, <2>2 DEF TypeInv
<1>3. ASSUME NEW c, NEW at, Moves(w, c, at), AtPoint(setup, c, at), QueueInv', StoreInv',
             (store = [id \in DOMAIN store |-> store[id]])'
      PROVE  TypeInv'
  BY <1>1, <1>2, <1>3, MovesWell DEF TypeInv
<1>4. QueueInv' \/ queue' # queue
  BY <1>1, QueueUnchanged
<1>5. queue # <<>> /\ queue' = Tail(queue) => QueueInv'
  BY <1>1, QueueTail DEF QueueInv
<1>6. UNCHANGED store => StoreInv' /\ (store = [id \in DOMAIN store |-> store[id]])'
  BY <1>1, StoreUnchanged, StoreStaysWell
<1>7. Moves(w, ctx[w], "idle") => AtPoint(setup, ctx[w], "idle")
  BY DEF TypeInv, ContextInv, AtPoint, PC
<1>8. CASE /\ \E d : /\ AtPoint(setup, d, "scenario") /\ d.scn = 0
                     /\ Moves(w, d, "scenario")
           /\ UNCHANGED queue \/ (queue # <<>> /\ queue' = Tail(queue))
           /\ UNCHANGED store
  BY <1>3, <1>4, <1>5, <1>6, <1>8
<1>9. CASE /\ queue # <<>> /\ queue' = Tail(queue)
           /\ \E d : /\ GoesOn(Head(queue).ctx, d)
                     /\ \/ Head(queue).ctx.continue /\ Moves(w, d, "line")
                        \/ ~Head(queue).ctx.continue /\ Moves(w, d, "scenario")
           /\ UNCHANGED store
  <2>1. PICK d : GoesOn(Head(queue).ctx, d) /\ \E at \in {"line", "scenario"} : Moves(w, d, at)
    BY <1>9
  <2>2. \A at \in {"line", "scenario"} : AtPoint(setup, d, at)
    BY <2>1, LocatedPoint DEF GoesOn, TypeInv, PC
  <2> QED
    BY <1>3, <1>5, <1>6, <1>9, <2>1, <2>2
<1>10. CASE /\ queue # <<>> /\ Moves(w, ctx[w], "idle")
            /\ \E id \in DOMAIN store :
                 /\ \/ queue' = Tail(queue)
                    \/ queue' = Append(Tail(queue), [type |-> "context", ctx |-> store[id].ctx])
                 /\ Pop(id)
  <2>1. PICK id \in DOMAIN store :
          /\ \/ queue' = Tail(queue)
             \/ queue' = Append(Tail(queue), [type |-> "context", ctx |-> store[id].ctx])
          /\ Pop(id)
    BY <1>10
  <2> DEFINE t == [type |-> "context", ctx |-> store[id].ctx]
  <2>2. IsToken(setup, t)
    <3>1. Located(setup, store[id].ctx) /\ store[id].ctx.continue = FALSE
      BY DEF TypeInv, StoreInv, IsClone
    <3> QED
      BY <3>1 DEF IsToken
  <2> HIDE DEF t
  <2>3. queue' = Append(Tail(queue), t) => QueueInv'
    BY <1>1, <1>10, <2>2, QueueTail, Enqueued DEF QueueInv
  <2>4. QueueInv'
    BY <1>5, <1>10, <2>1, <2>3 DEF t
  <2>5. StoreInv' /\ (store = [x \in DOMAIN store |-> store[x]])'
    BY <1>1, <2>1, Popped
  <2> QED
    BY <1>3, <1>7, <1>10, <2>4, <2>5
<1>11. CASE /\ queue # <<>> /\ Moves(w, ctx[w], "idle") /\ queue' = Tail(queue)
            /\ UNCHANGED store
  BY <1>3, <1>5, <1>6, <1>7, <1>11
<1> QED
  BY <1>8, <1>9, <1>10, <1>11 DEF ProcessScenario0

\* the steps of the threads around
LEMMA OutsideStepTypes ==
    ASSUME TypeInv, UNCHANGED <<setup, runs, pc, ctx>>,
           QueueInv', StoreInv', (store = [id \in DOMAIN store |-> store[id]])'
    PROVE  TypeInv'
<1>1. ContextInv'
  BY DEF TypeInv, ContextInv
<1> QED
  BY <1>1 DEF TypeInv

LEMMA NotifyTypes ==
    ASSUME TypeInv, NEW id \in DOMAIN store, Notify0(id)
    PROVE  TypeInv'
<1>1. UNCHANGED <<setup, runs, pc, ctx>>
  BY DEF Notify0
<1>2. CASE StoreStays /\ UNCHANGED queue
  BY <1>1, <1>2, StoreStaysWell, QueueUnchanged, OutsideStepTypes
<1>3. CASE queue' = Append(queue, [type |-> "callback", id |-> id]) /\ UNCHANGED store
  <2> DEFINE t == [type |-> "callback", id |-> id]
  <2>1. IsToken(setup, t)
    BY DEF IsToken
  <2> HIDE DEF t
  <2>2. queue' = Append(queue, t)
    BY <1>3 DEF t
  <2>3. QueueInv'
    BY <1>1, <2>1, <2>2, Enqueued DEF TypeInv, QueueInv
  <2> QED
    BY <1>1, <1>3, <2>3, StoreUnchanged, StoreStaysWell, OutsideStepTypes
<1> QED
  BY <1>2, <1>3 DEF Notify0

LEMMA TimeOutTypes ==
    ASSUME TypeInv, NEW id \in DOMAIN store, TimeOut0(id)
    PROVE  TypeInv'
<1>1. UNCHANGED <<setup, runs, pc, ctx>> /\ Pop(id)
  BY DEF TimeOut0
<1>2. QueueInv'
  <2>1. CASE UNCHANGED queue
    BY <1>1, <2>1, QueueUnchanged
  <2>2. ASSUME NEW d, TokenOf(store[id].ctx, d),
               queue' = Append(queue, [type |-> "context", ctx |-> d])
        PROVE  QueueInv'
    <3> DEFINE t == [type |-> "context", ctx |-> d]
    <3>1. IsToken(setup, t)
      BY <2>2 DEF IsToken, TokenOf
    <3> HIDE DEF t
    <3>2. queue' = Append(queue, t)
      BY <2>2 DEF t
    <3> QED
      BY <1>1, <3>1, <3>2, Enqueued DEF TypeInv, QueueInv
  <2> QED
    BY <2>1, <2>2 DEF TimeOut0
<1> QED
  BY <1>1, <1>2, Popped, OutsideStepTypes

LEMMA EventTypes ==
    ASSUME TypeInv, Event
    PROVE  TypeInv'
<1>1. PICK t : IsToken(setup, t) /\ queue' = Append(queue, t)
  BY EventDoes
<1>2. UNCHANGED <<setup, runs, pc, ctx, store>>
  BY EventDoes
<1>3. QueueInv'
  BY <1>1, <1>2, Enqueued DEF TypeInv, QueueInv
<1> QED
  BY <1>2, <1>3, StoreUnchanged, StoreStaysWell, OutsideStepTypes

LEMMA StutterTypes ==
    ASSUME TypeInv, UNCHANGED vars
    PROVE  TypeInv'
<1>1. UNCHANGED <<setup, runs, pc, ctx, store, queue>>
  BY DEF vars, threadVars
<1> QED
  BY <1>1, StoreUnchanged, StoreStaysWell, QueueUnchanged, OutsideStepTypes

LEMMA TypeNext == TypeInv /\ [Next]_vars => TypeInv'
<1> SUFFICES ASSUME TypeInv, [Next]_vars PROVE TypeInv'
  OBVIOUS
<1>1. ASSUME NEW w \in Threads, ProcessScenario(w)
      PROVE  TypeInv'
  BY <1>1, ProcessScenarioDoes, ProcessScenarioTypes
<1>2. ASSUME NEW w \in Threads, NextScenario(w) \/ EndOfSteps(w)
      PROVE  TypeInv'
  BY <1>2, NextScenarioTypes
<1>3. ASSUME NEW w \in Threads, SendData(w)
      PROVE  TypeInv'
  BY <1>3, SendDataDoes, SendDataTypes
<1>4. ASSUME NEW w \in Threads, Answer(w)
      PROVE  TypeInv'
  BY <1>4, AnswerDoes, AnswerTypes
<1>5. ASSUME NEW w \in Threads, AfterStep(w)
      PROVE  TypeInv'
  BY <1>5, AfterStepDoes, AfterStepTypes
<1>6. ASSUME NEW id \in DOMAIN store, Notify(id)
      PROVE  TypeInv'
  BY <1>6, NotifyDoes, NotifyTypes
<1>7. ASSUME NEW id \in DOMAIN store, TimeOut(id)
      PROVE  TypeInv'
  BY <1>7, TimeOutDoes, TimeOutTypes
<1>8. CASE Event
  BY <1>8, EventTypes
<1>9. CASE UNCHANGED vars
  BY <1>9, StutterTypes
<1> QED
  BY <1>1, <1>2, <1>3, <1>4, <1>5, <1>6, <1>7, <1>8, <1>9 DEF Next

\* Every context, clone and token names a scenario and a step of the list, a thread that
\* waits for an answer has a current step, and a stored clone is that of an asynchronous
\* step, under its own identifier: getNextLine(), add_ctx(), Context.copy() and the reaper.
THEOREM TypesAreKept == Spec => []TypeInv
  BY TypeInit, TypeNext, PTL DEF Spec

LEMMA TypesAreRight == TypeInv => TypeOK
<1> SUFFICES ASSUME TypeInv PROVE TypeOK
  OBVIOUS
<1>1. setup \in Setups /\ runs \in [Threads -> 0..setup.runs]
  BY DEF TypeInv
<1>2. pc \in [Threads -> PC]
  BY DEF TypeInv, ContextInv, AtPoint
<1>3. ASSUME NEW w \in Threads
      PROVE  /\ ctx[w].scn \in 0..Len(setup.scenarios)
             /\ pc[w] \in {"line", "sent", "answered"} => ctx[w].scn # 0
             /\ ctx[w].scn # 0 => ctx[w].line \in 0..Len(Scenario(ctx[w]).lines)
             /\ pc[w] \in {"sent", "answered"} => ctx[w].line # 0
  <2>1. AtPoint(setup, ctx[w], pc[w])
    BY DEF TypeInv, ContextInv
  <2>2. Len(setup.scenarios) \in Nat /\ DOMAIN setup.scenarios = 1..Len(setup.scenarios)
    BY SetupFacts DEF TypeInv
  <2> QED
    BY <2>1, <2>2 DEF AtPoint, Located, Scenario
<1>4. ASSUME NEW id \in DOMAIN store
      PROVE  store[id].ctx.id = id /\ store[id].ctx.line # 0 /\ Line(store[id].ctx).async
  BY DEF TypeInv, StoreInv, IsClone, Line, Scenario, StepIn
<1>5. \A i \in DOMAIN queue : queue[i].type \in {"callback", "context", "start"}
  BY DEF TypeInv, QueueInv, IsToken
<1> QED
  BY <1>1, <1>2, <1>3, <1>4, <1>5 DEF TypeOK

\* What the run "execution" checks of the types, for all lists of scenarios and threads.
THEOREM TypeCorrect == Spec => []TypeOK
  BY TypesAreKept, TypesAreRight, PTL

-----------------------------------------------------------------------------
(* The calls that have been made, and the runs that have been begun.       *)

LEMMA SameCall ==
    ASSUME NEW c, NEW d, SameStep(c, d), d.id = c.id
    PROVE  CallOf(d) = CallOf(c) /\ RunOf(d) = RunOf(c) /\ StepOf(d) = StepOf(c)
  BY DEF SameStep, CallOf, RunOf, StepOf

LEMMA StoredCalls ==
    ASSUME CallInv, StoreStays
    PROVE  \A id \in DOMAIN store' :
             id \in DOMAIN store /\ CallOf(store'[id].ctx) = CallOf(store[id].ctx)
             /\ RunOf(store'[id].ctx) = RunOf(store[id].ctx)
  BY SameCall DEF StoreStays, CloneStays

\* a thread moves, and calls is at least what it was
LEMMA CallStep ==
    ASSUME CallInv, setup' = setup, calls \subseteq calls',
           NEW w \in Threads, NEW c, NEW at, Moves(w, c, at),
           at \in {"sent", "answered"} /\ StepIn(setup, c).async => CallOf(c) \in calls',
           \A id \in DOMAIN store' : CallOf(store'[id].ctx) \in calls'
    PROVE  CallInv'
<1>1. ASSUME NEW v \in Threads, InStep(v)', StepIn(setup', ctx'[v]).async
      PROVE  CallOf(ctx'[v]) \in calls'
  <2>1. CASE v = w
    BY <1>1, <2>1, Moved DEF InStep
  <2>2. CASE v # w
    BY <1>1, <2>2, Moved DEF InStep, CallInv
  <2> QED
    BY <2>1, <2>2
<1> QED
  BY <1>1 DEF CallInv

\* the scenario number of a thread
LEMMA ScenarioIsNat ==
    ASSUME setup \in Setups, NEW c, NEW at, AtPoint(setup, c, at)
    PROVE  c.scn \in Nat
  BY SetupFacts DEF AtPoint, Located

LEMMA BegunStays ==
    ASSUME TypeInv, UNCHANGED runs, NEW w \in Threads, NEW c, NEW at, Moves(w, c, at),
           pc[w] # "idle", at = "idle" \/ (c.scn \in Nat /\ ctx[w].scn <= c.scn),
           NEW r, Begun(r)
    PROVE  BegunIn(runs', pc', ctx', r)
<1>1. r \in Threads \X Nat \X Nat
  BY DEF Begun, BegunIn
<1>2. CASE r[1] # w
  BY <1>1, <1>2, Moved DEF Begun, BegunIn
<1>3. CASE r[1] = w /\ at = "idle"
  BY <1>1, <1>3, Moved DEF Begun, BegunIn
<1>4. CASE r[1] = w /\ c.scn \in Nat /\ ctx[w].scn <= c.scn
  <2>1. ctx[w].scn \in Nat
    BY ScenarioIsNat DEF TypeInv, ContextInv
  <2>2. r[2] = runs[w] => r[3] <= c.scn
    BY <1>1, <1>4, <2>1 DEF Begun, BegunIn
  <2> QED
    BY <1>1, <1>4, <2>2, Moved DEF Begun, BegunIn
<1> QED
  BY <1>2, <1>3, <1>4

LEMMA BegunBefore ==
    ASSUME TypeInv, NEW w \in Threads, NEW c, NEW at, Moves(w, c, at),
           runs[w] < setup.runs, runs' = [runs EXCEPT ![w] = @ + 1], NEW r, Begun(r)
    PROVE  BegunIn(runs', pc', ctx', r)
<1>1. r \in Threads \X Nat \X Nat
  BY DEF Begun, BegunIn
<1>2. runs \in [Threads -> 0..setup.runs] /\ setup.runs \in Nat
  BY SetupsAssumption DEF TypeInv
<1>3. CASE r[1] # w
  BY <1>1, <1>2, <1>3, Moved DEF Begun, BegunIn
<1>4. CASE r[1] = w
  <2>1. r[2] <= runs[w] /\ runs'[w] = runs[w] + 1 /\ runs[w] \in Nat /\ r[2] \in Nat
    BY <1>1, <1>2, <1>4 DEF Begun, BegunIn
  <2>2. r[2] <= runs'[w] /\ r[2] # runs'[w]
    BY <2>1
  <2> QED
    BY <1>1, <1>4, <2>2 DEF BegunIn
<1> QED
  BY <1>3, <1>4

\* HistoryInv after a step
LEMMA HistoryStep ==
    ASSUME HistoryInv, \A r : Begun(r) => BegunIn(runs', pc', ctx', r),
           NEW w \in Threads, NEW c, NEW at, Moves(w, c, at),
           at \in {"line", "sent", "answered"} => BegunIn(runs', pc', ctx', RunOf(c)),
           \A id \in DOMAIN store' : BegunIn(runs', pc', ctx', RunOf(store'[id].ctx)),
           \A i \in DOMAIN queue' : queue'[i].type = "context" =>
                                      BegunIn(runs', pc', ctx', RunOf(queue'[i].ctx)),
           \A f \in failed' : f \in failed \/
                (f = [run |-> f.run, line |-> f.line] /\ f.line \in Nat
                 /\ BegunIn(runs', pc', ctx', f.run)),
           \A m \in kept' : m \in kept \/ (m.line \in Nat /\ BegunIn(runs', pc', ctx', m.run))
    PROVE  HistoryInv'
<1>1. ASSUME NEW v \in Threads, Running(v)'
      PROVE  BegunIn(runs', pc', ctx', RunOf(ctx'[v]))
  <2>1. CASE v = w
    BY <1>1, <2>1, Moved DEF Running
  <2>2. CASE v # w
    BY <1>1, <2>2, Moved DEF Running, HistoryInv
  <2> QED
    BY <2>1, <2>2
<1>2. \A f \in failed' : /\ f = [run |-> f.run, line |-> f.line] /\ f.line \in Nat
                         /\ BegunIn(runs', pc', ctx', f.run)
  BY DEF HistoryInv
<1>3. \A m \in kept' : m.line \in Nat /\ BegunIn(runs', pc', ctx', m.run)
  BY DEF HistoryInv
<1> QED
  BY <1>1, <1>2, <1>3 DEF HistoryInv, Begun

\* the queue, the failures and the memory stay as they are
LEMMA OldRecords ==
    ASSUME HistoryInv, NEW rs, NEW p, NEW x, \A r : Begun(r) => BegunIn(rs, p, x, r)
    PROVE  /\ \A i \in DOMAIN queue : queue[i].type = "context" =>
                                        BegunIn(rs, p, x, RunOf(queue[i].ctx))
           /\ \A id \in DOMAIN store : BegunIn(rs, p, x, RunOf(store[id].ctx))
           /\ \A v \in Threads : Running(v) => BegunIn(rs, p, x, RunOf(ctx[v]))
  BY DEF HistoryInv

\* a failure is one of a run that has been begun
LEMMA NewFailure ==
    ASSUME NEW w \in Threads, NEW c, StepFails0(w, c), c.line \in Nat,
           BegunIn(runs', pc', ctx', RunOf(c))
    PROVE  \A f \in failed' : f \in failed \/
                (f = [run |-> f.run, line |-> f.line] /\ f.line \in Nat
                 /\ BegunIn(runs', pc', ctx', f.run))
  BY DEF StepFails0, StepOf

LEMMA SendDataRecords ==
    ASSUME TypeInv, CallInv, HistoryInv, NEW w \in Threads, NEW d, SendData0(w, d)
    PROVE  CallInv' /\ HistoryInv'
<1>1. /\ pc[w] = "line" /\ NextStep(ctx[w], d) /\ Running(w)
      /\ UNCHANGED <<setup, runs, queue, kept, expired>>
  BY DEF SendData0, Running
<1>2. Located(setup, d) /\ d.continue = FALSE /\ d.line \in Nat
  BY <1>1, LineIsNat DEF NextStep, TypeInv
<1>3. d.scn \in Nat /\ ctx[w].scn <= d.scn /\ ctx[w].scn = d.scn /\ RunOf(d) = RunOf(ctx[w])
  <2>1. d.scn = ctx[w].scn /\ RunOf(d) = RunOf(ctx[w])
    BY <1>1 DEF NextStep, RunOf
  <2>2. ctx[w].scn \in Nat
    BY ScenarioIsNat DEF TypeInv, ContextInv
  <2> QED
    BY <2>1, <2>2
<1>4. PICK at : Moves(w, d, at)
  BY DEF SendData0, StepFails0
<1>5. \A r : Begun(r) => BegunIn(runs', pc', ctx', r)
  BY <1>1, <1>3, <1>4, BegunStays
<1>6. BegunIn(runs', pc', ctx', RunOf(d))
  BY <1>1, <1>3, <1>5, OldRecords
<1>7. /\ \A i \in DOMAIN queue' : queue'[i].type = "context" =>
                                    BegunIn(runs', pc', ctx', RunOf(queue'[i].ctx))
      /\ \A m \in kept' : m \in kept
  BY <1>1, <1>5, OldRecords
<1>8. UNCHANGED store => \A id \in DOMAIN store' : BegunIn(runs', pc', ctx', RunOf(store'[id].ctx))
  BY <1>5, OldRecords
<1>9. CASE Moves(w, d, "idle") /\ UNCHANGED <<store, failed, calls>>
  <2>1. CallInv'
    BY <1>1, <1>9, CallStep DEF CallInv
  <2>2. HistoryInv'
    BY <1>5, <1>7, <1>8, <1>9, HistoryStep
  <2> QED
    BY <2>1, <2>2
<1>10. CASE StepFails0(w, d) /\ UNCHANGED <<store, calls>>
  <2>1. PICK to \in {"line", "scenario"} : Moves(w, d, to)
    BY <1>10 DEF StepFails0
  <2>2. CallInv'
    BY <1>1, <1>10, <2>1, CallStep DEF CallInv
  <2>3. HistoryInv'
    BY <1>2, <1>5, <1>6, <1>7, <1>8, <1>10, <2>1, NewFailure, HistoryStep
  <2> QED
    BY <2>2, <2>3
<1>11. CASE /\ StepIn(setup, d).async
            /\ Moves(w, d, "sent")
            /\ store' = Stored(d.id, Clone(d))
            /\ calls' = calls \union {CallOf(d)}
            /\ UNCHANGED failed
  <2>1. d.line # 0
    <3>1. ctx[w].line \in Nat
      BY <1>1, RunningIsLocated, LineIsNat DEF TypeInv
    <3> QED
      BY <1>1, <3>1 DEF NextStep
  <2>2. /\ DOMAIN store' = DOMAIN store \union {d.id}
        /\ store'[d.id].ctx = d
        /\ \A x \in DOMAIN store : x # d.id => store'[x] = store[x]
    <3>1. /\ store' = Stored(d.id, Clone(d)) /\ setup' = setup /\ StepIn(setup, d).async
          /\ Located(setup, d) /\ d.continue = FALSE
      BY <1>1, <1>2, <1>11
    <3>2. DOMAIN store' = DOMAIN store \union {d.id} /\ store'[d.id].ctx = d
      BY <2>1, <3>1, StoredWell
    <3>3. \A x \in DOMAIN store : x # d.id => store'[x] = store[x]
      BY <3>1 DEF Stored
    <3> QED
      BY <3>2, <3>3
  <2>3. \A id \in DOMAIN store' : CallOf(store'[id].ctx) \in calls'
    BY <1>11, <2>2 DEF CallInv
  <2>4. CallInv'
    BY <1>1, <1>11, <2>3, CallStep
  <2>5. \A id \in DOMAIN store' : BegunIn(runs', pc', ctx', RunOf(store'[id].ctx))
    BY <1>5, <1>6, <2>2, OldRecords
  <2>6. HistoryInv'
    BY <1>5, <1>6, <1>7, <1>11, <2>5, HistoryStep
  <2> QED
    BY <2>4, <2>6
<1>12. CASE /\ ~StepIn(setup, d).async
            /\ Moves(w, d, "sent")
            /\ UNCHANGED <<store, failed, calls>>
  <2>1. CallInv'
    BY <1>1, <1>12, CallStep DEF CallInv
  <2>2. HistoryInv'
    BY <1>5, <1>6, <1>7, <1>8, <1>12, HistoryStep
  <2> QED
    BY <2>1, <2>2
<1> QED
  BY <1>9, <1>10, <1>11, <1>12 DEF SendData0

\* the steps of a thread that has sent
LEMMA GrownRecords ==
    ASSUME TypeInv, CallInv, HistoryInv, NEW w \in Threads, pc[w] \in {"sent", "answered"},
           NEW d, GrownStep(ctx[w], d), NEW at, Moves(w, d, at), UNCHANGED <<setup, runs, queue, calls>>,
           StoreStays \/ UNCHANGED store \/ Pop(d.id),
           failed' = failed \/ StepFails0(w, d), kept' = kept \/ Remembers(w, d)
    PROVE  CallInv' /\ HistoryInv'
<1>1. Running(w) /\ InStep(w)
  BY DEF Running, InStep
<1>2. CallOf(d) = CallOf(ctx[w]) /\ RunOf(d) = RunOf(ctx[w]) /\ StepIn(setup, d) = StepIn(setup, ctx[w])
  <2>1. SameStep(ctx[w], d) /\ d.id = ctx[w].id /\ Located(setup, ctx[w]) /\ IsContext(d)
    BY <1>1, RunningIsLocated DEF GrownStep, Located
  <2> QED
    BY <2>1, SameCall, StaysLocated
<1>3. d.line \in Nat /\ d.scn \in Nat /\ ctx[w].scn <= d.scn
  <2>1. d.line \in Nat /\ d.scn = ctx[w].scn
    BY LineIsNat DEF GrownStep, SameStep, TypeInv
  <2>2. ctx[w].scn \in Nat
    BY ScenarioIsNat DEF TypeInv, ContextInv
  <2> QED
    BY <2>1, <2>2
<1>4. StepIn(setup, d).async => CallOf(d) \in calls'
  BY <1>1, <1>2 DEF CallInv
<1>5. \A r : Begun(r) => BegunIn(runs', pc', ctx', r)
  BY <1>3, BegunStays
<1>6. BegunIn(runs', pc', ctx', RunOf(d))
  BY <1>1, <1>2, <1>5, OldRecords
<1>7. \A id \in DOMAIN store' :
        /\ CallOf(store'[id].ctx) \in calls'
        /\ BegunIn(runs', pc', ctx', RunOf(store'[id].ctx))
  <2>1. ASSUME NEW id \in DOMAIN store'
        PROVE  /\ id \in DOMAIN store /\ CallOf(store'[id].ctx) = CallOf(store[id].ctx)
               /\ RunOf(store'[id].ctx) = RunOf(store[id].ctx)
    BY StoredCalls, Popped
  <2> QED
    BY <1>5, <2>1, OldRecords DEF CallInv
<1>8. CallInv'
  BY <1>4, <1>7, CallStep
<1>9. \A f \in failed' : f \in failed \/
         (f = [run |-> f.run, line |-> f.line] /\ f.line \in Nat
          /\ BegunIn(runs', pc', ctx', f.run))
  BY <1>3, <1>6, NewFailure
<1>10. \A m \in kept' : m \in kept \/ (m.line \in Nat /\ BegunIn(runs', pc', ctx', m.run))
  BY <1>3, <1>6 DEF Remembers
<1>11. \A i \in DOMAIN queue' : queue'[i].type = "context" =>
                                  BegunIn(runs', pc', ctx', RunOf(queue'[i].ctx))
  BY <1>5, OldRecords
<1>12. HistoryInv'
  BY <1>5, <1>6, <1>7, <1>9, <1>10, <1>11, HistoryStep
<1> QED
  BY <1>8, <1>12

LEMMA AnswerRecords ==
    ASSUME TypeInv, CallInv, HistoryInv, NEW w \in Threads, NEW d, Answer0(w, d)
    PROVE  CallInv' /\ HistoryInv'
<1>1. /\ pc[w] \in {"sent", "answered"} /\ GrownStep(ctx[w], d)
      /\ UNCHANGED <<setup, runs, queue, calls>>
  BY DEF Answer0
<1>2. PICK at : Moves(w, d, at)
  BY DEF Answer0, StepFails0
<1>3. /\ StoreStays \/ UNCHANGED store \/ Pop(d.id)
      /\ failed' = failed \/ StepFails0(w, d)
      /\ kept' = kept \/ Remembers(w, d)
  BY DEF Answer0
<1> QED
  BY <1>1, <1>2, <1>3, GrownRecords

LEMMA AfterStepRecords ==
    ASSUME TypeInv, CallInv, HistoryInv, NEW w \in Threads, NEW d, AfterStep0(w, d)
    PROVE  CallInv' /\ HistoryInv'
<1>1. /\ pc[w] \in {"sent", "answered"} /\ GrownStep(ctx[w], d)
      /\ UNCHANGED <<setup, runs, queue, calls, kept, failed>>
  BY DEF AfterStep0
<1>2. PICK at : Moves(w, d, at)
  BY DEF AfterStep0
<1>3. StoreStays \/ UNCHANGED store \/ Pop(d.id)
  BY DEF AfterStep0
<1> QED
  BY <1>1, <1>2, <1>3, GrownRecords

LEMMA StillRecords ==
    ASSUME TypeInv, CallInv, HistoryInv, NEW w \in Threads, pc[w] # "idle",
           NEW at \in {"idle", "scenario"}, Moves(w, ctx[w], at),
           UNCHANGED <<setup, runs, store, queue, calls, kept, failed>>
    PROVE  CallInv' /\ HistoryInv'
<1>1. ctx[w].scn \in Nat
  BY ScenarioIsNat DEF TypeInv, ContextInv
<1>2. \A r : Begun(r) => BegunIn(runs', pc', ctx', r)
  <2>1. ctx[w].scn <= ctx[w].scn
    BY <1>1
  <2> QED
    BY <1>1, <2>1, BegunStays
<1>3. CallInv'
  BY CallStep DEF CallInv
<1>4. /\ \A i \in DOMAIN queue' : queue'[i].type = "context" =>
                                    BegunIn(runs', pc', ctx', RunOf(queue'[i].ctx))
      /\ \A id \in DOMAIN store' : BegunIn(runs', pc', ctx', RunOf(store'[id].ctx))
  BY <1>2, OldRecords
<1>5. HistoryInv'
  BY <1>2, <1>4, HistoryStep
<1> QED
  BY <1>3, <1>5

\* the run that a thread begins is a new one
LEMMA FreshRun ==
    ASSUME TypeInv, NEW w \in Threads, pc[w] # "idle",
           NEW r, r = <<w, runs[w], ctx[w].scn + 1>>
    PROVE  ~Begun(r)
<1>1. ctx[w].scn \in Nat
  BY ScenarioIsNat DEF TypeInv, ContextInv
<1>2. r[1] = w /\ r[2] = runs[w] /\ r[3] = ctx[w].scn + 1
  OBVIOUS
<1>3. ~(r[3] <= ctx[w].scn)
  BY <1>1, <1>2
<1> QED
  BY <1>2, <1>3 DEF Begun, BegunIn

LEMMA NextScenarioRecords ==
    ASSUME TypeInv, CallInv, HistoryInv, NEW w \in Threads, pc[w] = "scenario",
           UNCHANGED <<setup, runs, store, queue, calls, kept, failed>>,
           NEW d, NextScenario0(w, d)
    PROVE  CallInv' /\ HistoryInv'
<1>1. Moves(w, d, "line") /\ RunOf(d) = <<w, runs[w], ctx[w].scn + 1>> /\ Located(setup, d)
  BY DEF NextScenario0, RunOf
<1>2. ctx[w].scn \in Nat
  BY ScenarioIsNat DEF TypeInv, ContextInv
<1>3. d.scn = ctx[w].scn + 1 /\ runs[w] \in Nat /\ runs[w] <= runs[w]
  <2>1. d.scn = ctx[w].scn + 1
    BY <1>1 DEF Located, RunOf
  <2>2. runs[w] \in Nat
    BY SetupsAssumption DEF TypeInv
  <2> QED
    BY <2>1, <2>2
<1>4. \A r : Begun(r) => BegunIn(runs', pc', ctx', r)
  <2>1. d.scn \in Nat /\ ctx[w].scn <= d.scn
    BY <1>2, <1>3
  <2> QED
    BY <1>1, <2>1, BegunStays
<1>5. BegunIn(runs', pc', ctx', RunOf(d))
  <2> DEFINE r == RunOf(d)
  <2>1. r[1] = w /\ r[2] = runs[w] /\ r[3] = d.scn /\ r \in Threads \X Nat \X Nat
    BY <1>1, <1>2, <1>3
  <2>2. r[3] <= d.scn /\ r[2] <= runs'[w] /\ ctx'[w] = d
    BY <1>1, <1>2, <1>3, <2>1, Moved
  <2> HIDE DEF r
  <2> QED
    BY <2>1, <2>2 DEF BegunIn, r
<1>6. CallInv'
  BY <1>1, CallStep DEF CallInv
<1>7. /\ \A i \in DOMAIN queue' : queue'[i].type = "context" =>
                                    BegunIn(runs', pc', ctx', RunOf(queue'[i].ctx))
      /\ \A id \in DOMAIN store' : BegunIn(runs', pc', ctx', RunOf(store'[id].ctx))
  BY <1>4, OldRecords
<1>8. HistoryInv'
  BY <1>1, <1>4, <1>5, <1>7, HistoryStep
<1> QED
  BY <1>6, <1>8

LEMMA TailRecords ==
    ASSUME QueueInv, queue # <<>>, NEW rs, NEW p, NEW x,
           \A i \in DOMAIN queue : queue[i].type = "context" =>
                                     BegunIn(rs, p, x, RunOf(queue[i].ctx))
    PROVE  /\ \A i \in DOMAIN Tail(queue) : Tail(queue)[i].type = "context" =>
                                     BegunIn(rs, p, x, RunOf(Tail(queue)[i].ctx))
           /\ Head(queue).type = "context" => BegunIn(rs, p, x, RunOf(Head(queue).ctx))
  BY TailSequence DEF QueueInv

LEMMA AppendRecords ==
    ASSUME NEW q, IsSequence(q), NEW t, NEW rs, NEW p, NEW x,
           \A i \in DOMAIN q : q[i].type = "context" => BegunIn(rs, p, x, RunOf(q[i].ctx)),
           t.type = "context" => BegunIn(rs, p, x, RunOf(t.ctx))
    PROVE  \A i \in DOMAIN Append(q, t) : Append(q, t)[i].type = "context" =>
                                     BegunIn(rs, p, x, RunOf(Append(q, t)[i].ctx))
<1>1. Len(q) \in Nat /\ DOMAIN q = 1..Len(q)
  BY Sequence
<1>2. \A i \in DOMAIN Append(q, t) : i \in DOMAIN q \/ i = Len(q) + 1
  BY <1>1, AppendSequence
<1> QED
  BY <1>2, AppendSequence

LEMMA ProcessScenarioRecords ==
    ASSUME TypeInv, CallInv, HistoryInv, NEW w \in Threads, ProcessScenario0(w)
    PROVE  CallInv' /\ HistoryInv'
<1>1. /\ pc[w] = "idle" /\ runs[w] < setup.runs /\ runs' = [runs EXCEPT ![w] = @ + 1]
      /\ UNCHANGED <<setup, calls, kept, failed, expired>>
  BY DEF ProcessScenario0
<1>2. PICK c, at : Moves(w, c, at) /\ at \in {"idle", "scenario", "line"}
  BY DEF ProcessScenario0
<1>3. \A r : Begun(r) => BegunIn(runs', pc', ctx', r)
  BY <1>1, <1>2, BegunBefore
<1>4. QueueInv /\ \A i \in DOMAIN queue : queue[i].type = "context" =>
                                    BegunIn(runs', pc', ctx', RunOf(queue[i].ctx))
  BY <1>3, OldRecords DEF TypeInv
<1>5. \A id \in DOMAIN store' : id \in DOMAIN store /\ store'[id] = store[id]
  BY <1>1, Popped DEF ProcessScenario0
<1>6. /\ \A id \in DOMAIN store' : BegunIn(runs', pc', ctx', RunOf(store'[id].ctx))
      /\ \A id \in DOMAIN store' : CallOf(store'[id].ctx) \in calls'
  BY <1>1, <1>3, <1>5, OldRecords DEF CallInv
<1>7. CallInv'
  BY <1>1, <1>2, <1>6, CallStep
<1>8. \A i \in DOMAIN queue' : queue'[i].type = "context" =>
                                 BegunIn(runs', pc', ctx', RunOf(queue'[i].ctx))
  <2>1. CASE UNCHANGED queue
    BY <1>4, <2>1
  <2>2. CASE queue # <<>> /\ queue' = Tail(queue)
    BY <1>4, <2>2, TailRecords
  <2>3. ASSUME queue # <<>>, NEW id \in DOMAIN store,
               queue' = Append(Tail(queue), [type |-> "context", ctx |-> store[id].ctx])
        PROVE  \A i \in DOMAIN queue' : queue'[i].type = "context" =>
                                          BegunIn(runs', pc', ctx', RunOf(queue'[i].ctx))
    <3> DEFINE t == [type |-> "context", ctx |-> store[id].ctx]
    <3>1. BegunIn(runs', pc', ctx', RunOf(t.ctx))
      BY <1>3, OldRecords
    <3> HIDE DEF t
    <3>2. queue' = Append(Tail(queue), t)
      BY <2>3 DEF t
    <3>3. IsSequence(Tail(queue)) /\ \A i \in DOMAIN Tail(queue) :
            Tail(queue)[i].type = "context" => BegunIn(runs', pc', ctx', RunOf(Tail(queue)[i].ctx))
      BY <1>4, <2>3, TailRecords, QueueTail
    <3> QED
      BY <3>1, <3>2, <3>3, AppendRecords
  <2> QED
    BY <2>1, <2>2, <2>3 DEF ProcessScenario0
<1>9. ASSUME NEW d, NEW to, Moves(w, d, to),
             to \in {"line", "sent", "answered"} => BegunIn(runs', pc', ctx', RunOf(d))
      PROVE  HistoryInv'
  BY <1>1, <1>3, <1>6, <1>8, <1>9, HistoryStep
<1>10. ASSUME queue # <<>>, Head(queue).type = "context", NEW d, GoesOn(Head(queue).ctx, d),
              NEW to, Moves(w, d, to)
       PROVE  HistoryInv'
  <2>1. RunOf(d) = RunOf(Head(queue).ctx)
    BY <1>10 DEF GoesOn, RunOf
  <2>2. BegunIn(runs', pc', ctx', RunOf(d))
    BY <1>4, <1>10, <2>1, TailRecords
  <2> QED
    BY <1>9, <1>10, <2>2
<1>11. HistoryInv'
  <2>1. CASE \E d, to : Moves(w, d, to) /\ to \in {"idle", "scenario"}
    BY <1>9, <2>1
  <2> QED
    BY <1>10, <2>1 DEF ProcessScenario0
<1> QED
  BY <1>7, <1>11

\* nothing but clones and tokens has changed
LEMMA OutsideRecords ==
    ASSUME CallInv, HistoryInv, UNCHANGED <<setup, runs, pc, ctx, calls, kept, failed>>,
           \A id \in DOMAIN store' :
             /\ id \in DOMAIN store /\ CallOf(store'[id].ctx) = CallOf(store[id].ctx)
             /\ RunOf(store'[id].ctx) = RunOf(store[id].ctx),
           \A i \in DOMAIN queue' : queue'[i].type = "context" =>
                                      BegunIn(runs, pc, ctx, RunOf(queue'[i].ctx))
    PROVE  CallInv' /\ HistoryInv'
<1>1. CallInv'
  BY DEF CallInv, InStep
<1>2. \A w \in Threads : Running(w)' => Running(w)
  BY DEF Running
<1>3. HistoryInv'
  BY <1>2 DEF HistoryInv, Begun
<1> QED
  BY <1>1, <1>3

LEMMA OldTokens ==
    ASSUME HistoryInv
    PROVE  \A i \in DOMAIN queue : queue[i].type = "context" =>
                                     BegunIn(runs, pc, ctx, RunOf(queue[i].ctx))
  BY DEF HistoryInv, Begun

LEMMA NotifyRecords ==
    ASSUME TypeInv, CallInv, HistoryInv, NEW id \in DOMAIN store, Notify0(id)
    PROVE  CallInv' /\ HistoryInv'
<1>1. \A x \in DOMAIN store' :
        /\ x \in DOMAIN store /\ CallOf(store'[x].ctx) = CallOf(store[x].ctx)
        /\ RunOf(store'[x].ctx) = RunOf(store[x].ctx)
  BY StoredCalls DEF Notify0
<1>2. \A i \in DOMAIN queue' : queue'[i].type = "context" =>
                                 BegunIn(runs, pc, ctx, RunOf(queue'[i].ctx))
  <2> DEFINE t == [type |-> "callback", id |-> id]
  <2>1. t.type # "context"
    OBVIOUS
  <2> HIDE DEF t
  <2>2. queue' = queue \/ queue' = Append(queue, t)
    BY DEF Notify0, t
  <2> QED
    BY <2>1, <2>2, OldTokens, AppendRecords DEF TypeInv, QueueInv
<1> QED
  BY <1>1, <1>2, OutsideRecords DEF Notify0

LEMMA TimeOutRecords ==
    ASSUME TypeInv, CallInv, HistoryInv, NEW id \in DOMAIN store, TimeOut0(id)
    PROVE  CallInv' /\ HistoryInv'
<1>1. UNCHANGED <<setup, runs, pc, ctx, calls, kept, failed>> /\ Pop(id)
  BY DEF TimeOut0
<1>2. \A x \in DOMAIN store' :
        /\ x \in DOMAIN store /\ CallOf(store'[x].ctx) = CallOf(store[x].ctx)
        /\ RunOf(store'[x].ctx) = RunOf(store[x].ctx)
  BY <1>1, Popped
<1>3. \A i \in DOMAIN queue' : queue'[i].type = "context" =>
                                 BegunIn(runs, pc, ctx, RunOf(queue'[i].ctx))
  <2>1. CASE UNCHANGED queue
    BY <2>1, OldTokens
  <2>2. ASSUME NEW d, TokenOf(store[id].ctx, d),
               queue' = Append(queue, [type |-> "context", ctx |-> d])
        PROVE  \A i \in DOMAIN queue' : queue'[i].type = "context" =>
                                          BegunIn(runs, pc, ctx, RunOf(queue'[i].ctx))
    <3> DEFINE t == [type |-> "context", ctx |-> d]
    <3>1. BegunIn(runs, pc, ctx, RunOf(t.ctx))
      BY <2>2 DEF HistoryInv, Begun, TokenOf, RunOf
    <3> HIDE DEF t
    <3>2. queue' = Append(queue, t)
      BY <2>2 DEF t
    <3> QED
      BY <3>1, <3>2, OldTokens, AppendRecords DEF TypeInv, QueueInv
  <2> QED
    BY <2>1, <2>2 DEF TimeOut0
<1> QED
  BY <1>1, <1>2, <1>3, OutsideRecords

LEMMA EventRecords ==
    ASSUME TypeInv, CallInv, HistoryInv, Event
    PROVE  CallInv' /\ HistoryInv'
<1>1. PICK t : t.type # "context" /\ queue' = Append(queue, t)
  BY EventDoes
<1>2. UNCHANGED <<setup, runs, pc, ctx, store, calls, kept, failed>>
  BY EventDoes
<1>3. \A i \in DOMAIN queue' : queue'[i].type = "context" =>
                                 BegunIn(runs, pc, ctx, RunOf(queue'[i].ctx))
  BY <1>1, OldTokens, AppendRecords DEF TypeInv, QueueInv
<1> QED
  BY <1>2, <1>3, OutsideRecords

LEMMA StutterRecords ==
    ASSUME CallInv, HistoryInv, UNCHANGED vars
    PROVE  CallInv' /\ HistoryInv'
<1>1. UNCHANGED <<setup, runs, pc, ctx, store, queue, calls, kept, failed>>
  BY DEF vars, threadVars, histVars
<1> QED
  BY <1>1, OldTokens, OutsideRecords

-----------------------------------------------------------------------------
(* Who goes on with a run: steps after which there is nobody new.          *)

\* a thread stays where it is in its run
Stays(v, r) ==
    /\ At(v, r) /\ (InStep(v)' <=> InStep(v)) /\ (DeadEnd(v)' <=> DeadEnd(v))
    /\ ctx'[v].uid = ctx[v].uid /\ ctx'[v].line = ctx[v].line /\ ctx'[v].id = ctx[v].id
    /\ StepIn(setup', ctx'[v]) = StepIn(setup, ctx[v])
    /\ DOMAIN ctx[v].cache.with \subseteq DOMAIN ctx'[v].cache.with

CloneIsOld(id, r) ==
    /\ id \in DOMAIN store /\ Holds(id, r)
    /\ store'[id].ctx.line = store[id].ctx.line
    /\ DOMAIN store[id].ctx.cache.with \subseteq DOMAIN store'[id].ctx.cache.with

\* the token was there, k places behind
TokenIsOld(i, k, r) ==
    i + k \in DOMAIN queue /\ Waits(i + k, r) /\ queue'[i] = queue[i + k]

Shrinking(r, k) ==
    /\ \A v \in Threads : At(v, r)' => Stays(v, r)
    /\ \A id \in DOMAIN store' : Holds(id, r)' => CloneIsOld(id, r)
    /\ \A i \in DOMAIN queue' : Waits(i, r)' => TokenIsOld(i, k, r)
    /\ \A i \in DOMAIN queue' : i \in Nat
    /\ expired \subseteq expired'

\* the invariant of a run after a step, for the failures and the memory of before
RunKept(r) ==
    /\ OneHolder(r)' /\ Behind(r)' /\ DeadEnds(r)'
    /\ \A f \in failed : f.run = r => Excused(f, r)'
    /\ \A m \in kept : m.run = r => Remembered(m, r)'

LEMMA ShrinkingLeads ==
    ASSUME NEW r, NEW k \in {0, 1}, Shrinking(r, k)
    PROVE  /\ \A v \in Threads : Leads(v, r)' => Leads(v, r) /\ Stays(v, r)
           /\ \A v \in Threads : At(v, r)' /\ DeadEnd(v)' => At(v, r) /\ DeadEnd(v) /\ Stays(v, r)
<1>1. \A v \in Threads : At(v, r)' => Stays(v, r)
  BY DEF Shrinking
<1> QED
  BY <1>1 DEF Stays, Leads

LEMMA Shrinks ==
    ASSUME NEW r, RunInv(r), NEW k \in {0, 1}, Shrinking(r, k)
    PROVE  RunKept(r)
<1>1. \A v \in Threads : Leads(v, r)' => Leads(v, r) /\ Stays(v, r)
  BY ShrinkingLeads
<1>2. \A v \in Threads : At(v, r)' /\ DeadEnd(v)' => At(v, r) /\ DeadEnd(v) /\ Stays(v, r)
  BY ShrinkingLeads
<1>3. \A v \in Threads : At(v, r)' => Stays(v, r)
  BY DEF Shrinking
<1>4. \A id \in DOMAIN store' : Holds(id, r)' => CloneIsOld(id, r)
  BY DEF Shrinking
<1>5. \A i \in DOMAIN queue' : Waits(i, r)' => TokenIsOld(i, k, r) /\ i \in Nat
  BY DEF Shrinking
<1>6. expired \subseteq expired'
  BY DEF Shrinking
<1>7. OneHolder(r)'
  <2>1. \A v, w \in Threads : Leads(v, r)' /\ Leads(w, r)' => v = w
    BY <1>1 DEF RunInv, OneHolder
  <2>2. \A w \in Threads : \A id \in DOMAIN store' : Leads(w, r)' /\ Holds(id, r)' =>
          InStep(w)' /\ StepIn(setup', ctx'[w]).async /\ ctx'[w].id = id
    BY <1>1, <1>4 DEF RunInv, OneHolder, Stays, CloneIsOld
  <2>3. \A w \in Threads : \A i \in DOMAIN queue' : ~(Leads(w, r)' /\ Waits(i, r)')
    BY <1>1, <1>5 DEF RunInv, OneHolder, TokenIsOld
  <2>4. \A x, y \in DOMAIN store' : Holds(x, r)' /\ Holds(y, r)' => x = y
    BY <1>4 DEF RunInv, OneHolder, CloneIsOld
  <2>5. \A id \in DOMAIN store' : \A i \in DOMAIN queue' : ~(Holds(id, r)' /\ Waits(i, r)')
    BY <1>4, <1>5 DEF RunInv, OneHolder, CloneIsOld, TokenIsOld
  <2>6. \A i, j \in DOMAIN queue' : Waits(i, r)' /\ Waits(j, r)' => i = j
    <3> SUFFICES ASSUME NEW i \in DOMAIN queue', NEW j \in DOMAIN queue', Waits(i, r)', Waits(j, r)'
                 PROVE  i = j
      OBVIOUS
    <3>1. i + k = j + k
      BY <1>5 DEF RunInv, OneHolder, TokenIsOld
    <3>2. i \in Nat /\ j \in Nat
      BY <1>5
    <3> QED
      BY <3>1, <3>2
  <2> QED
    BY <2>1, <2>2, <2>3, <2>4, <2>5, <2>6 DEF OneHolder
<1>8. Behind(r)'
  <2> SUFFICES ASSUME NEW w \in Threads, At(w, r)', DeadEnd(w)'
               PROVE  /\ \A v \in Threads : Leads(v, r)' =>
                           /\ ctx'[w].line <= ctx'[v].line
                           /\ InStep(v)' => ctx'[w].line < ctx'[v].line
                      /\ \A id \in DOMAIN store' : Holds(id, r)' => ctx'[w].line < store'[id].ctx.line
                      /\ \A i \in DOMAIN queue' : Waits(i, r)' => ctx'[w].line <= queue'[i].ctx.line
    BY DEF Behind
  <2>1. At(w, r) /\ DeadEnd(w) /\ ctx'[w].line = ctx[w].line
    BY <1>2 DEF Stays
  <2>2. \A v \in Threads : Leads(v, r)' =>
                           /\ ctx'[w].line <= ctx'[v].line
                           /\ InStep(v)' => ctx'[w].line < ctx'[v].line
    BY <1>1, <2>1 DEF RunInv, Behind, Stays
  <2>3. \A id \in DOMAIN store' : Holds(id, r)' => ctx'[w].line < store'[id].ctx.line
    BY <1>4, <2>1 DEF RunInv, Behind, CloneIsOld
  <2>4. \A i \in DOMAIN queue' : Waits(i, r)' => ctx'[w].line <= queue'[i].ctx.line
    BY <1>5, <2>1 DEF RunInv, Behind, TokenIsOld
  <2> QED
    BY <2>2, <2>3, <2>4
<1>9. DeadEnds(r)'
  <2> SUFFICES ASSUME NEW w \in Threads, At(w, r)', DeadEnd(w)', ~Over(w, r)'
               PROVE  StepOf(ctx'[w]) \in expired'
    BY DEF DeadEnds
  <2>1. At(w, r) /\ DeadEnd(w) /\ ctx'[w].line = ctx[w].line /\ StepOf(ctx'[w]) = StepOf(ctx[w])
    BY <1>2 DEF Stays, StepOf, RunOf
  <2>2. ~Over(w, r)
    <3> SUFFICES ASSUME Over(w, r) PROVE Over(w, r)'
      OBVIOUS
    <3>1. \A v \in Threads : ~Leads(v, r)' /\ (At(v, r)' => ctx'[v].line <= ctx'[w].line)
      BY <1>1, <1>3, <2>1 DEF Over, Stays
    <3>2. \A id \in DOMAIN store' : ~Holds(id, r)'
      BY <1>4 DEF Over, CloneIsOld
    <3>3. \A i \in DOMAIN queue' : ~Waits(i, r)'
      BY <1>5 DEF Over, TokenIsOld
    <3> QED
      BY <3>1, <3>2, <3>3 DEF Over
  <2>3. StepOf(ctx[w]) \in expired
    BY <2>1, <2>2 DEF RunInv, DeadEnds
  <2> QED
    BY <1>6, <2>1, <2>3
<1>10. ASSUME NEW f \in failed, f.run = r
       PROVE  Excused(f, r)'
  <2>1. Excused(f, r)
    BY <1>10 DEF RunInv, Failures
  <2>2. \A w \in Threads : Leads(w, r)' => f \in expired'
    BY <1>1, <1>6, <2>1 DEF Excused
  <2>3. \A id \in DOMAIN store' : Holds(id, r)' => f \in expired' \/ f.line = store'[id].ctx.line
    BY <1>4, <1>6, <2>1 DEF Excused, CloneIsOld
  <2>4. \A i \in DOMAIN queue' : Waits(i, r)' => f \in expired'
    BY <1>5, <1>6, <2>1 DEF Excused, TokenIsOld
  <2>5. \A w \in Threads : At(w, r)' /\ DeadEnd(w)' /\ f.line < ctx'[w].line => f \in expired'
    BY <1>2, <1>6, <2>1 DEF Excused, Stays
  <2> QED
    BY <2>2, <2>3, <2>4, <2>5 DEF Excused
<1>11. ASSUME NEW m \in kept, m.run = r
       PROVE  Remembered(m, r)'
  <2>1. Remembered(m, r)
    BY <1>11 DEF RunInv, Memory
  <2>2. \A w \in Threads : Leads(w, r)' => m.key \in DOMAIN ctx'[w].cache.with
    BY <1>1, <2>1 DEF Remembered, Stays
  <2>3. \A id \in DOMAIN store' : Holds(id, r)' => m.key \in DOMAIN store'[id].ctx.cache.with
    BY <1>4, <2>1 DEF Remembered, CloneIsOld
  <2>4. \A i \in DOMAIN queue' : Waits(i, r)' => m.key \in DOMAIN queue'[i].ctx.cache.with
    BY <1>5, <2>1 DEF Remembered, TokenIsOld
  <2>5. \A w \in Threads : At(w, r)' /\ DeadEnd(w)' /\ m.line <= ctx'[w].line
                              => m.key \in DOMAIN ctx'[w].cache.with
    BY <1>2, <2>1 DEF Remembered, Stays
  <2> QED
    BY <2>2, <2>3, <2>4, <2>5 DEF Remembered
<1> QED
  BY <1>7, <1>8, <1>9, <1>10, <1>11 DEF RunKept

-----------------------------------------------------------------------------
(* Steps after which somebody goes on.                                     *)

LEMMA LinesAreNat ==
    ASSUME TypeInv
    PROVE  /\ \A v \in Threads : Running(v) => ctx[v].line \in Nat
           /\ \A id \in DOMAIN store : store[id].ctx.line \in Nat
           /\ \A i \in DOMAIN queue : queue[i].type = "context" => queue[i].ctx.line \in Nat
<1>1. setup \in Setups
  BY DEF TypeInv
<1>2. \A v \in Threads : Running(v) => ctx[v].line \in Nat
  BY <1>1, RunningIsLocated, LineIsNat
<1>3. \A id \in DOMAIN store : store[id].ctx.line \in Nat
  BY <1>1, LineIsNat DEF TypeInv, StoreInv, IsClone
<1>4. \A i \in DOMAIN queue : queue[i].type = "context" => queue[i].ctx.line \in Nat
  BY <1>1, LineIsNat DEF TypeInv, QueueInv, IsToken
<1> QED
  BY <1>2, <1>3, <1>4

\* the thread that leads goes on, with its clone if it has stored one
LEMMA Goes ==
    ASSUME TypeInv, NEW r, RunInv(r), NEW w \in Threads, Leads(w, r), At(w, r)', ~DeadEnd(w)',
           ctx'[w].line \in Nat, ctx[w].line <= ctx'[w].line,
           InStep(w)' => ctx[w].line < ctx'[w].line,
           DOMAIN ctx[w].cache.with \subseteq DOMAIN ctx'[w].cache.with,
           \A v \in Threads : v # w /\ At(v, r)' => Stays(v, r),
           \A id \in DOMAIN store' : Holds(id, r)' =>
             /\ InStep(w)' /\ StepIn(setup', ctx'[w]).async /\ ctx'[w].id = id
             /\ store'[id].ctx.line = ctx'[w].line
             /\ DOMAIN ctx[w].cache.with \subseteq DOMAIN store'[id].ctx.cache.with,
           \A i \in DOMAIN queue' : ~Waits(i, r)',
           expired \subseteq expired'
    PROVE  RunKept(r)
<1>1. At(w, r) /\ Running(w) /\ ctx[w].line \in Nat
  BY LinesAreNat DEF Leads, At
<1>2. \A v \in Threads : Leads(v, r)' => v = w
  <2>1. \A v \in Threads : v # w /\ Leads(v, r)' => Leads(v, r)
    BY DEF Leads, Stays
  <2> QED
    BY <2>1 DEF RunInv, OneHolder
<1>3. ASSUME NEW v \in Threads, At(v, r)', DeadEnd(v)'
      PROVE  /\ v # w /\ At(v, r) /\ DeadEnd(v) /\ Stays(v, r)
             /\ ctx[v].line \in Nat /\ ctx[v].line <= ctx[w].line
             /\ StepOf(ctx'[v]) = StepOf(ctx[v]) /\ StepOf(ctx[v]) \in expired
  <2>1. v # w /\ At(v, r) /\ DeadEnd(v) /\ Stays(v, r) /\ Running(v)
    BY <1>3 DEF Stays, At
  <2>2. ctx[v].line \in Nat /\ ctx[v].line <= ctx[w].line
    BY <2>1, LinesAreNat DEF RunInv, Behind
  <2>3. StepOf(ctx[v]) \in expired
    BY <2>1 DEF RunInv, DeadEnds, Over
  <2> QED
    BY <2>1, <2>2, <2>3 DEF Stays, StepOf, RunOf
<1>4. OneHolder(r)'
  <2>1. \A v, u \in Threads : Leads(v, r)' /\ Leads(u, r)' => v = u
    BY <1>2
  <2>2. \A v \in Threads : \A id \in DOMAIN store' : Leads(v, r)' /\ Holds(id, r)' =>
          InStep(v)' /\ StepIn(setup', ctx'[v]).async /\ ctx'[v].id = id
    BY <1>2
  <2>3. \A x, y \in DOMAIN store' : Holds(x, r)' /\ Holds(y, r)' => x = y
    OBVIOUS
  <2> QED
    BY <2>1, <2>2, <2>3 DEF OneHolder
<1>5. Behind(r)'
  <2> SUFFICES ASSUME NEW v \in Threads, At(v, r)', DeadEnd(v)'
               PROVE  /\ \A u \in Threads : Leads(u, r)' =>
                           /\ ctx'[v].line <= ctx'[u].line
                           /\ InStep(u)' => ctx'[v].line < ctx'[u].line
                      /\ \A id \in DOMAIN store' : Holds(id, r)' => ctx'[v].line < store'[id].ctx.line
                      /\ \A i \in DOMAIN queue' : Waits(i, r)' => ctx'[v].line <= queue'[i].ctx.line
    BY DEF Behind
  <2>1. ctx'[v].line \in Nat /\ ctx'[v].line <= ctx[w].line
    BY <1>3 DEF Stays
  <2>2. ctx'[v].line <= ctx'[w].line /\ (InStep(w)' => ctx'[v].line < ctx'[w].line)
    BY <1>1, <2>1
  <2>3. \A u \in Threads : Leads(u, r)' =>
                           /\ ctx'[v].line <= ctx'[u].line
                           /\ InStep(u)' => ctx'[v].line < ctx'[u].line
    BY <1>2, <2>2
  <2>4. \A id \in DOMAIN store' : Holds(id, r)' => ctx'[v].line < store'[id].ctx.line
    BY <2>2
  <2> QED
    BY <2>3, <2>4
<1>6. DeadEnds(r)'
  BY <1>3 DEF DeadEnds
<1>7. ASSUME NEW f \in failed, f.run = r
      PROVE  Excused(f, r)'
  <2>1. f \in expired'
    BY <1>7 DEF RunInv, Failures, Excused
  <2> QED
    BY <2>1 DEF Excused
<1>8. ASSUME NEW m \in kept, m.run = r
      PROVE  Remembered(m, r)'
  <2>1. Remembered(m, r) /\ m.key \in DOMAIN ctx[w].cache.with
    BY <1>8 DEF RunInv, Memory, Remembered
  <2>2. \A v \in Threads : Leads(v, r)' => m.key \in DOMAIN ctx'[v].cache.with
    BY <1>2, <2>1
  <2>3. \A id \in DOMAIN store' : Holds(id, r)' => m.key \in DOMAIN store'[id].ctx.cache.with
    BY <2>1
  <2>4. \A v \in Threads : At(v, r)' /\ DeadEnd(v)' /\ m.line <= ctx'[v].line
                              => m.key \in DOMAIN ctx'[v].cache.with
    BY <1>3, <2>1 DEF Remembered, Stays
  <2> QED
    BY <2>2, <2>3, <2>4 DEF Remembered
<1> QED
  BY <1>4, <1>5, <1>6, <1>7, <1>8 DEF RunKept

\* a thread begins a run, or goes on with one that nobody leads or holds
LEMMA Arrives ==
    ASSUME TypeInv, NEW r, RunInv(r), NEW w \in Threads, At(w, r)', ~InStep(w)',
           ctx'[w].line \in Nat,
           \A v \in Threads : v # w /\ At(v, r)' => Stays(v, r),
           \A v \in Threads : v # w => ~Leads(v, r),
           \A id \in DOMAIN store' : ~Holds(id, r)',
           \A i \in DOMAIN queue' : ~Waits(i, r)',
           \A v \in Threads : v # w /\ At(v, r) /\ DeadEnd(v) =>
             ctx[v].line <= ctx'[w].line /\ StepOf(ctx[v]) \in expired,
           \A f \in failed : f.run = r => f \in expired,
           \A m \in kept : m.run = r => m.key \in DOMAIN ctx'[w].cache.with,
           expired \subseteq expired'
    PROVE  RunKept(r)
<1>1. ~DeadEnd(w)'
  BY DEF DeadEnd
<1>2. \A v \in Threads : Leads(v, r)' => v = w
  BY DEF Leads, Stays
<1>3. ASSUME NEW v \in Threads, At(v, r)', DeadEnd(v)'
      PROVE  /\ v # w /\ At(v, r) /\ DeadEnd(v) /\ Stays(v, r)
             /\ ctx[v].line <= ctx'[w].line
             /\ StepOf(ctx'[v]) = StepOf(ctx[v]) /\ StepOf(ctx[v]) \in expired
  <2>1. v # w /\ At(v, r) /\ DeadEnd(v) /\ Stays(v, r)
    BY <1>1, <1>3 DEF Stays
  <2> QED
    BY <2>1 DEF Stays, StepOf, RunOf
<1>4. OneHolder(r)'
  BY <1>2 DEF OneHolder
<1>5. Behind(r)'
  <2>1. \A v \in Threads : At(v, r)' /\ DeadEnd(v)' => ctx'[v].line <= ctx'[w].line
    BY <1>3 DEF Stays
  <2> QED
    BY <1>2, <2>1 DEF Behind
<1>6. DeadEnds(r)'
  BY <1>3 DEF DeadEnds
<1>7. ASSUME NEW f \in failed, f.run = r
      PROVE  Excused(f, r)'
  <2>1. f \in expired'
    BY <1>7
  <2> QED
    BY <2>1 DEF Excused
<1>8. ASSUME NEW m \in kept, m.run = r
      PROVE  Remembered(m, r)'
  <2>1. Remembered(m, r) /\ m.key \in DOMAIN ctx'[w].cache.with
    BY <1>8 DEF RunInv, Memory
  <2>2. \A v \in Threads : Leads(v, r)' => m.key \in DOMAIN ctx'[v].cache.with
    BY <1>2, <2>1
  <2>3. \A v \in Threads : At(v, r)' /\ DeadEnd(v)' /\ m.line <= ctx'[v].line
                              => m.key \in DOMAIN ctx'[v].cache.with
    BY <1>3, <2>1 DEF Remembered, Stays
  <2> QED
    BY <2>2, <2>3 DEF Remembered
<1> QED
  BY <1>4, <1>5, <1>6, <1>7, <1>8 DEF RunKept

-----------------------------------------------------------------------------
(* Whose an identifier is.                                                 *)

LEMMA OwnIdentifier ==
    ASSUME CallInv, NEW r, ~Shared(r), NEW v \in Threads, At(v, r), InStep(v),
           StepIn(setup, ctx[v]).async, NEW c \in calls, c.id = ctx[v].id
    PROVE  c = CallOf(ctx[v])
<1>1. CallOf(ctx[v]) \in calls /\ CallOf(ctx[v]).run = r /\ CallOf(ctx[v]).id = ctx[v].id
  BY DEF CallInv, CallOf, At, RunOf
<1> QED
  BY <1>1 DEF Shared

\* the clone under the identifier of a thread is its own
LEMMA OwnClone ==
    ASSUME TypeInv, CallInv, NEW r, ~Shared(r), NEW v \in Threads, At(v, r), InStep(v),
           StepIn(setup, ctx[v]).async, ctx[v].id \in DOMAIN store
    PROVE  /\ Holds(ctx[v].id, r) /\ store[ctx[v].id].ctx.line = ctx[v].line
           /\ StepOf(store[ctx[v].id].ctx) = StepOf(ctx[v])
<1> DEFINE c == store[ctx[v].id].ctx
<1>1. CallOf(c) \in calls /\ c.id = ctx[v].id
  BY DEF CallInv, TypeInv, StoreInv, IsClone
<1>2. CallOf(c) = CallOf(ctx[v])
  BY <1>1, OwnIdentifier DEF CallOf
<1>3. RunOf(c) = RunOf(ctx[v]) /\ c.line = ctx[v].line
  BY <1>2 DEF CallOf
<1> QED
  BY <1>3 DEF Holds, At, StepOf

\* another thread of the run with the identifier of w has no clone
LEMMA OwnStore ==
    ASSUME CallInv, NEW r, RunInv(r), ~Shared(r), NEW w \in Threads, InStep(w),
           StepIn(setup, ctx[w]).async, NEW v \in Threads, v # w, At(v, r), InStep(v),
           StepIn(setup, ctx[v]).async, ctx[v].id = ctx[w].id
    PROVE  ctx[v].id \notin DOMAIN store
<1>1. CallOf(ctx[w]) \in calls /\ CallOf(ctx[w]).id = ctx[v].id
  BY DEF CallInv, CallOf
<1>2. CallOf(ctx[w]) = CallOf(ctx[v])
  BY <1>1, OwnIdentifier
<1>3. At(w, r)
  BY <1>2 DEF CallOf, At, Running, InStep
<1>4. SUFFICES ASSUME ctx[v].id \in DOMAIN store PROVE FALSE
  OBVIOUS
<1>5. Leads(v, r) /\ Leads(w, r)
  BY <1>3, <1>4 DEF Leads, DeadEnd
<1> QED
  BY <1>5 DEF RunInv, OneHolder

\* the threads that do not move stay, unless their clone comes or goes
LEMMA UnmovedStays ==
    ASSUME UNCHANGED setup, NEW r, NEW v \in Threads, At(v, r)',
           ctx'[v] = ctx[v], pc'[v] = pc[v],
           InStep(v) /\ StepIn(setup, ctx[v]).async =>
             (ctx[v].id \in DOMAIN store <=> ctx[v].id \in DOMAIN store')
    PROVE  Stays(v, r)
<1>1. At(v, r)
  BY DEF At, Running
<1>2. InStep(v)' <=> InStep(v)
  BY DEF InStep
<1>3. StepIn(setup', ctx'[v]) = StepIn(setup, ctx[v])
  OBVIOUS
<1>4. DeadEnd(v)' <=> DeadEnd(v)
  BY <1>2, <1>3 DEF DeadEnd
<1> QED
  BY <1>1, <1>2, <1>3, <1>4 DEF Stays

LEMMA OthersStay ==
    ASSUME UNCHANGED setup, NEW w \in Threads, NEW c, NEW at, Moves(w, c, at), NEW r,
           NEW v \in Threads, v # w, At(v, r)',
           InStep(v) /\ StepIn(setup, ctx[v]).async =>
             (ctx[v].id \in DOMAIN store <=> ctx[v].id \in DOMAIN store')
    PROVE  Stays(v, r)
  BY Moved, UnmovedStays

\* the clone of a run is taken away: by the reaper, or with a notification
LEMMA Taken ==
    ASSUME TypeInv, CallInv, HistoryInv, NEW r, RunInv(r), ~Shared(r), UNCHANGED setup,
           \A v \in Threads : ctx'[v] = ctx[v] /\ pc'[v] = pc[v],
           NEW id \in DOMAIN store, Holds(id, r), Pop(id),
           \A i \in DOMAIN queue' : Waits(i, r)' =>
             /\ queue'[i].ctx.line = store[id].ctx.line
             /\ queue'[i].ctx.cache = store[id].ctx.cache
             /\ StepOf(store[id].ctx) \in expired',
           \A i, j \in DOMAIN queue' : Waits(i, r)' /\ Waits(j, r)' => i = j,
           expired \subseteq expired'
    PROVE  RunKept(r)
<1> DEFINE c == store[id].ctx
<1>1. DOMAIN store' = DOMAIN store \ {id} /\ \A x \in DOMAIN store' : store'[x] = store[x]
  BY Popped
<1>2. \A x \in DOMAIN store' : ~Holds(x, r)'
  BY <1>1 DEF Holds, RunInv, OneHolder
<1>3. \A v \in Threads : /\ At(v, r)' <=> At(v, r)
                         /\ InStep(v)' <=> InStep(v)
                         /\ StepIn(setup', ctx'[v]) = StepIn(setup, ctx[v])
  BY DEF At, Running, InStep
<1>4. \A v \in Threads : At(v, r) /\ DeadEnd(v) => DeadEnd(v)'
  BY <1>1, <1>3 DEF DeadEnd
<1>5. \A v \in Threads : ~Leads(v, r)'
  <2> SUFFICES ASSUME NEW v \in Threads, Leads(v, r)' PROVE FALSE
    OBVIOUS
  <2>1. Leads(v, r)
    BY <1>3, <1>4 DEF Leads
  <2>2. InStep(v) /\ StepIn(setup, ctx[v]).async /\ ctx[v].id = id
    BY <2>1 DEF RunInv, OneHolder
  <2>3. DeadEnd(v)'
    BY <1>1, <1>3, <2>2 DEF DeadEnd
  <2> QED
    BY <2>3 DEF Leads
<1>6. ASSUME NEW v \in Threads, At(v, r)', DeadEnd(v)'
      PROVE  /\ At(v, r)
             /\ \/ DeadEnd(v) /\ ctx[v].line < c.line /\ StepOf(ctx[v]) \in expired
                \/ Leads(v, r) /\ ctx[v].line = c.line /\ StepOf(ctx[v]) = StepOf(c)
  <2>1. At(v, r) /\ InStep(v)
    BY <1>3, <1>6 DEF DeadEnd
  <2>2. CASE DeadEnd(v)
    <3>1. ctx[v].line < c.line
      BY <2>1, <2>2 DEF RunInv, Behind
    <3>2. ~Over(v, r)
      BY DEF Over
    <3>3. StepOf(ctx[v]) \in expired
      BY <2>1, <2>2, <3>2 DEF RunInv, DeadEnds
    <3> QED
      BY <2>1, <2>2, <3>1, <3>3
  <2>3. CASE ~DeadEnd(v)
    <3>1. Leads(v, r)
      BY <2>1, <2>3 DEF Leads
    <3>2. InStep(v) /\ StepIn(setup, ctx[v]).async /\ ctx[v].id = id
      BY <3>1 DEF RunInv, OneHolder
    <3>3. c.line = ctx[v].line /\ StepOf(c) = StepOf(ctx[v])
      BY <2>1, <3>2, OwnClone
    <3> QED
      BY <2>1, <3>1, <3>3
  <2> QED
    BY <2>2, <2>3
<1>7. c.line \in Nat /\ \A v \in Threads : At(v, r) => ctx[v].line \in Nat
  BY LinesAreNat DEF At
<1>8. OneHolder(r)'
  BY <1>2, <1>5 DEF OneHolder
<1>9. Behind(r)'
  <2>1. ASSUME NEW v \in Threads, At(v, r)', DeadEnd(v)'
        PROVE  ctx'[v].line <= c.line
    BY <1>6, <1>7, <2>1
  <2> QED
    BY <1>2, <1>5, <2>1 DEF Behind
<1>10. DeadEnds(r)'
  <2> SUFFICES ASSUME NEW v \in Threads, At(v, r)', DeadEnd(v)', StepOf(ctx'[v]) \notin expired'
               PROVE  Over(v, r)'
    BY DEF DeadEnds
  <2>1. ctx[v].line = c.line /\ StepOf(ctx[v]) = StepOf(c)
    BY <1>6
  <2>2. \A i \in DOMAIN queue' : ~Waits(i, r)'
    BY <2>1
  <2>3. \A u \in Threads : At(u, r)' => ctx'[u].line <= ctx'[v].line
    <3> SUFFICES ASSUME NEW u \in Threads, At(u, r)' PROVE ctx'[u].line <= ctx'[v].line
      OBVIOUS
    <3>1. DeadEnd(u)'
      BY <1>5 DEF Leads
    <3>2. ctx[u].line <= c.line
      BY <1>6, <1>7, <3>1
    <3> QED
      BY <2>1, <3>2
  <2> QED
    BY <1>2, <1>5, <2>2, <2>3 DEF Over
<1>11. ASSUME NEW f \in failed, f.run = r
       PROVE  Excused(f, r)'
  <2>1. Excused(f, r)
    BY <1>11 DEF RunInv, Failures
  <2>2. f \in expired \/ f = StepOf(c)
    <3>1. f \in expired \/ f.line = c.line
      BY <2>1 DEF Excused
    <3>2. f = [run |-> f.run, line |-> f.line]
      BY DEF HistoryInv
    <3> QED
      BY <1>11, <3>1, <3>2 DEF StepOf, Holds
  <2>3. \A i \in DOMAIN queue' : Waits(i, r)' => f \in expired'
    BY <2>2
  <2>4. \A v \in Threads : At(v, r)' /\ DeadEnd(v)' /\ f.line < ctx'[v].line => f \in expired'
    BY <1>6, <2>1 DEF Excused
  <2> QED
    BY <1>2, <1>5, <2>3, <2>4 DEF Excused
<1>12. ASSUME NEW m \in kept, m.run = r
       PROVE  Remembered(m, r)'
  <2>1. Remembered(m, r)
    BY <1>12 DEF RunInv, Memory
  <2>2. \A i \in DOMAIN queue' : Waits(i, r)' => m.key \in DOMAIN queue'[i].ctx.cache.with
    BY <2>1 DEF Remembered
  <2>3. \A v \in Threads : At(v, r)' /\ DeadEnd(v)' /\ m.line <= ctx'[v].line
                              => m.key \in DOMAIN ctx'[v].cache.with
    BY <1>6, <2>1 DEF Remembered
  <2> QED
    BY <1>2, <1>5, <2>2, <2>3 DEF Remembered
<1> QED
  BY <1>8, <1>9, <1>10, <1>11, <1>12 DEF RunKept

-----------------------------------------------------------------------------
(* Failures and memory that a step adds.                                   *)

LEMMA RunStep ==
    ASSUME NEW r, RunKept(r),
           \A f \in failed' : f.run = r => f \in failed \/ Excused(f, r)',
           \A m \in kept' : m.run = r => m \in kept \/ Remembered(m, r)'
    PROVE  RunInv(r)'
<1>1. Failures(r)'
  BY DEF RunKept, Failures
<1>2. Memory(r)'
  BY DEF RunKept, Memory
<1> QED
  BY <1>1, <1>2 DEF RunKept, RunInv

\* the step of the thread that has stopped is its last one, or its timeout was a success
LEMMA Stops ==
    ASSUME TypeInv, CallInv, NEW r, RunInv(r), ~Shared(r), NEW k \in {0, 1}, Shrinking(r, k),
           NEW w \in Threads, At(w, r), ~At(w, r)', NEW d, RunOf(d) = r,
           \/ InStep(w) /\ StepIn(setup, ctx[w]).async /\ d.line = ctx[w].line
           \/ pc[w] = "line" /\ d.line = ctx[w].line + 1
    PROVE  Excused(StepOf(d), r)'
<1> DEFINE f == StepOf(d)
<1>1. f.line = d.line /\ ctx[w].line \in Nat /\ d.line \in Nat /\ ctx[w].line <= d.line
  <2>1. ctx[w].line \in Nat
    BY LinesAreNat DEF At
  <2> QED
    BY <2>1 DEF StepOf
<1>2. \A v \in Threads : Leads(v, r)' => Leads(v, r) /\ v # w
  BY ShrinkingLeads DEF Leads
<1>3. \A v \in Threads : At(v, r)' /\ DeadEnd(v)' => At(v, r) /\ DeadEnd(v) /\ ctx'[v].line = ctx[v].line
  BY ShrinkingLeads DEF Stays
<1>4. \A id \in DOMAIN store' : Holds(id, r)' =>
        id \in DOMAIN store /\ Holds(id, r) /\ store'[id].ctx.line = store[id].ctx.line
  BY DEF Shrinking, CloneIsOld
<1>5. \A i \in DOMAIN queue' : Waits(i, r)' => i + k \in DOMAIN queue /\ Waits(i + k, r)
  BY DEF Shrinking, TokenIsOld
<1> HIDE DEF f
<1>6. CASE Leads(w, r)
  <2>1. \A v \in Threads : ~Leads(v, r)'
    BY <1>2, <1>6 DEF RunInv, OneHolder
  <2>2. \A id \in DOMAIN store' : Holds(id, r)' => f.line = store'[id].ctx.line
    <3> SUFFICES ASSUME NEW id \in DOMAIN store', Holds(id, r)' PROVE f.line = store'[id].ctx.line
      OBVIOUS
    <3>1. id \in DOMAIN store /\ InStep(w) /\ StepIn(setup, ctx[w]).async /\ ctx[w].id = id
      BY <1>4, <1>6 DEF RunInv, OneHolder
    <3>2. store[id].ctx.line = ctx[w].line
      BY <3>1, OwnClone
    <3>3. pc[w] # "line"
      BY <3>1 DEF InStep
    <3> QED
      BY <1>1, <1>4, <3>2, <3>3
  <2>3. \A i \in DOMAIN queue' : ~Waits(i, r)'
    BY <1>5, <1>6 DEF RunInv, OneHolder
  <2>4. \A v \in Threads : At(v, r)' /\ DeadEnd(v)' => ~(f.line < ctx'[v].line)
    <3> SUFFICES ASSUME NEW v \in Threads, At(v, r)', DeadEnd(v)' PROVE ~(f.line < ctx'[v].line)
      OBVIOUS
    <3>1. ctx'[v].line = ctx[v].line /\ ctx[v].line <= ctx[w].line
      BY <1>3, <1>6 DEF RunInv, Behind
    <3>2. ctx[v].line \in Nat
      BY <1>3, LinesAreNat DEF At
    <3> QED
      BY <1>1, <3>1, <3>2
  <2> QED
    BY <2>1, <2>2, <2>3, <2>4 DEF Excused, f
<1>7. CASE DeadEnd(w)
  <2>1. InStep(w) /\ d.line = ctx[w].line /\ f = StepOf(ctx[w])
    <3>1. pc[w] # "line"
      BY <1>7 DEF DeadEnd, InStep
    <3> QED
      BY <3>1 DEF f, StepOf, At
  <2>2. CASE f \in expired
    <3>1. f \in expired'
      BY <2>2 DEF Shrinking
    <3> QED
      BY <3>1 DEF Excused, f
  <2>3. CASE Over(w, r)
    <3>1. \A v \in Threads : ~Leads(v, r)'
      BY <1>2, <2>3 DEF Over
    <3>2. \A id \in DOMAIN store' : ~Holds(id, r)'
      BY <1>4, <2>3 DEF Over
    <3>3. \A i \in DOMAIN queue' : ~Waits(i, r)'
      BY <1>5, <2>3 DEF Over
    <3>4. \A v \in Threads : At(v, r)' /\ DeadEnd(v)' => ~(f.line < ctx'[v].line)
      <4> SUFFICES ASSUME NEW v \in Threads, At(v, r)', DeadEnd(v)' PROVE ~(f.line < ctx'[v].line)
        OBVIOUS
      <4>1. ctx'[v].line = ctx[v].line /\ ctx[v].line <= ctx[w].line
        BY <1>3, <2>3 DEF Over
      <4>2. ctx[v].line \in Nat
        BY <1>3, LinesAreNat DEF At
      <4> QED
        BY <1>1, <4>1, <4>2
    <3> QED
      BY <3>1, <3>2, <3>3, <3>4 DEF Excused, f
  <2> QED
    BY <1>7, <2>1, <2>2, <2>3 DEF RunInv, DeadEnds
<1> QED
  BY <1>6, <1>7 DEF Leads

\* what the thread that leads has memorised is with its clone, too
LEMMA Keeps ==
    ASSUME TypeInv, NEW r, RunInv(r), NEW k \in {0, 1}, Shrinking(r, k),
           NEW w \in Threads, Leads(w, r), InStep(w), NEW m, m.line = ctx[w].line,
           m.key \in DOMAIN ctx'[w].cache.with,
           StepIn(setup, ctx[w]).async => m.key \in DOMAIN store'[ctx[w].id].ctx.cache.with
    PROVE  Remembered(m, r)'
<1>1. \A v \in Threads : Leads(v, r)' => v = w
  BY ShrinkingLeads DEF RunInv, OneHolder
<1>2. \A id \in DOMAIN store' : Holds(id, r)' => StepIn(setup, ctx[w]).async /\ ctx[w].id = id
  BY DEF Shrinking, CloneIsOld, RunInv, OneHolder
<1>3. \A i \in DOMAIN queue' : ~Waits(i, r)'
  BY DEF Shrinking, TokenIsOld, RunInv, OneHolder
<1>4. ASSUME NEW v \in Threads, At(v, r)', DeadEnd(v)'
      PROVE  ~(m.line <= ctx'[v].line)
  <2>1. At(v, r) /\ DeadEnd(v) /\ ctx'[v].line = ctx[v].line
    BY <1>4, ShrinkingLeads DEF Stays
  <2>2. ctx[v].line < ctx[w].line
    BY <2>1 DEF RunInv, Behind
  <2>3. ctx[v].line \in Nat /\ ctx[w].line \in Nat
    BY <2>1, LinesAreNat DEF Leads, At
  <2> QED
    BY <2>1, <2>2, <2>3
<1> QED
  BY <1>1, <1>2, <1>3, <1>4 DEF Remembered

-----------------------------------------------------------------------------
(* What the steps leave of clones and tokens.                              *)

LEMMA OldClones ==
    ASSUME TypeInv, UNCHANGED setup, NEW r, StoreStays \/ UNCHANGED store \/ \E id : Pop(id),
           NEW x \in DOMAIN store', Holds(x, r)'
    PROVE  CloneIsOld(x, r)
<1>1. CASE StoreStays \/ UNCHANGED store
  <2>1. StoreStays
    BY <1>1, StoreUnchanged
  <2>2. x \in DOMAIN store /\ SameStep(store[x].ctx, store'[x].ctx)
        /\ DOMAIN store[x].ctx.cache.with \subseteq DOMAIN store'[x].ctx.cache.with
    BY <2>1 DEF StoreStays, CloneStays
  <2> QED
    BY <2>2 DEF CloneIsOld, Holds, SameStep, RunOf
<1>2. CASE \E id : Pop(id)
  <2>1. x \in DOMAIN store /\ store'[x] = store[x]
    BY <1>2, Popped
  <2> QED
    BY <2>1 DEF CloneIsOld, Holds
<1> QED
  BY <1>1, <1>2

LEMMA QueueSame ==
    ASSUME TypeInv, UNCHANGED queue, NEW r
    PROVE  \A i \in DOMAIN queue' : i \in Nat /\ (Waits(i, r)' => TokenIsOld(i, 0, r))
<1>1. \A i \in DOMAIN queue' : i \in Nat /\ i + 0 = i
  BY Sequence DEF TypeInv, QueueInv
<1> QED
  BY <1>1 DEF TokenIsOld, Waits

LEMMA QueueShorter ==
    ASSUME TypeInv, queue # <<>>, queue' = Tail(queue), NEW r
    PROVE  \A i \in DOMAIN queue' : i \in Nat /\ (Waits(i, r)' => TokenIsOld(i, 1, r))
<1>1. IsSequence(queue)
  BY DEF TypeInv, QueueInv
<1>2. /\ \A i \in DOMAIN Tail(queue) : i + 1 \in DOMAIN queue /\ Tail(queue)[i] = queue[i + 1]
      /\ DOMAIN Tail(queue) = 1..Len(queue) - 1
  BY <1>1, TailSequence
<1>3. Len(queue) \in Nat
  BY <1>1, Sequence
<1>4. \A i \in DOMAIN queue' : i \in Nat
  BY <1>2, <1>3
<1> QED
  BY <1>2, <1>4 DEF TokenIsOld, Waits

\* a token at the end of a queue
LEMMA QueueLonger ==
    ASSUME NEW q, IsSequence(q), NEW t, queue' = Append(q, t), NEW r
    PROVE  \A i \in DOMAIN queue' :
             /\ i \in Nat
             /\ \/ i \in DOMAIN q /\ queue'[i] = q[i]
                \/ i = Len(q) + 1 /\ queue'[i] = t
<1>1. Len(q) \in Nat /\ DOMAIN q = 1..Len(q)
  BY Sequence
<1>2. DOMAIN queue' = 1..Len(q) + 1
  BY AppendSequence
<1>3. \A i \in DOMAIN queue' : i \in Nat /\ (i \in DOMAIN q \/ i = Len(q) + 1)
  BY <1>1, <1>2
<1> QED
  BY <1>3, AppendSequence

-----------------------------------------------------------------------------
(* A run after each step.                                                  *)

LEMMA NotSharedBefore ==
    ASSUME calls \subseteq calls', NEW r, ~Shared(r)'
    PROVE  ~Shared(r)
  BY DEF Shared

\* after a step of the thread w, that nobody has come to the run with
LEMMA ShrinkingStep ==
    ASSUME UNCHANGED setup, NEW w \in Threads, NEW c, NEW at, Moves(w, c, at), NEW r,
           At(w, r)' => Stays(w, r),
           \A v \in Threads : v # w /\ At(v, r)' /\ InStep(v) /\ StepIn(setup, ctx[v]).async =>
             (ctx[v].id \in DOMAIN store <=> ctx[v].id \in DOMAIN store'),
           \A id \in DOMAIN store' : Holds(id, r)' => CloneIsOld(id, r),
           NEW k \in {0, 1},
           \A i \in DOMAIN queue' : i \in Nat /\ (Waits(i, r)' => TokenIsOld(i, k, r)),
           expired \subseteq expired'
    PROVE  Shrinking(r, k)
<1>1. \A v \in Threads : v # w /\ At(v, r)' => Stays(v, r)
  BY OthersStay
<1> QED
  BY <1>1 DEF Shrinking

\* a thread that has left the run, or has gone to another
LEMMA GoneAway ==
    ASSUME NEW w \in Threads, NEW c, NEW at, Moves(w, c, at), NEW r,
           at \in {"idle", "scenario"} \/ RunOf(c) # r
    PROVE  ~At(w, r)'
  BY Moved DEF At, Running, RunOf


LEMMA SendDataRun ==
    ASSUME TypeInv, CallInv, HistoryInv, NEW w \in Threads, NEW d, SendData0(w, d),
           NEW r, RunInv(r), ~Shared(r)'
    PROVE  RunInv(r)'
<1>1. /\ pc[w] = "line" /\ NextStep(ctx[w], d)
      /\ UNCHANGED <<setup, runs, queue, kept, expired>>
  BY DEF SendData0
<1>2. Running(w) /\ ~InStep(w) /\ ~DeadEnd(w) /\ ~Shared(r)
  <2>1. calls \subseteq calls'
    BY DEF SendData0
  <2> QED
    BY <1>1, <2>1, NotSharedBefore DEF Running, InStep, DeadEnd
<1>3. RunOf(d) = RunOf(ctx[w]) /\ Located(setup, d) /\ d.line # 0
      /\ DOMAIN d.cache.with = DOMAIN ctx[w].cache.with
      /\ d.line \in Nat /\ ctx[w].line \in Nat /\ d.line = ctx[w].line + 1
  <2>1. ctx[w].line \in Nat
    BY <1>2, LinesAreNat
  <2>2. d.line = ctx[w].line + 1
    BY <1>1 DEF NextStep
  <2>3. d.line \in Nat /\ d.line # 0
    BY <2>1, <2>2
  <2> QED
    BY <1>1, <2>1, <2>2, <2>3 DEF NextStep, RunOf
<1>4. \A i \in DOMAIN queue' : i \in Nat /\ (Waits(i, r)' => TokenIsOld(i, 0, r))
  BY <1>1, QueueSame
<1>5. RunOf(d) = r => At(w, r) /\ Leads(w, r)
  BY <1>2, <1>3 DEF At, Leads
<1>6. RunOf(d) = r => /\ \A id \in DOMAIN store : ~Holds(id, r)
                      /\ \A i \in DOMAIN queue' : ~Waits(i, r)'
  <2>1. RunOf(d) = r => /\ \A id \in DOMAIN store : ~Holds(id, r)
                        /\ \A i \in DOMAIN queue : ~Waits(i, r)
    BY <1>2, <1>5 DEF RunInv, OneHolder
  <2> QED
    BY <1>1, <2>1 DEF Waits
<1>7. \A m \in kept' : m.run = r => m \in kept \/ Remembered(m, r)'
  BY <1>1
\* the thread that goes on with the run
<1>8. ASSUME NEW at, Moves(w, d, at), at = "line" \/ at = "sent", RunOf(d) = r,
             StepIn(setup, d).async /\ at = "sent" => d.id \in DOMAIN store',
             \A v \in Threads : v # w /\ At(v, r)' => Stays(v, r),
             \A id \in DOMAIN store' : Holds(id, r)' =>
               StepIn(setup, d).async /\ at = "sent" /\ d.id = id /\ store'[id].ctx = d
      PROVE  RunKept(r)
  <2>1. ctx'[w] = d /\ pc'[w] = at
    BY <1>8, Moved
  <2>2. At(w, r)' /\ ~DeadEnd(w)' /\ (InStep(w)' <=> at = "sent")
    BY <1>1, <1>8, <2>1 DEF At, Running, DeadEnd, InStep
  <2>3. ctx'[w].line \in Nat /\ ctx[w].line <= ctx'[w].line /\ ctx[w].line < ctx'[w].line
    BY <1>3, <2>1
  <2>4. DOMAIN ctx[w].cache.with \subseteq DOMAIN ctx'[w].cache.with
    BY <1>3, <2>1
  <2>5. \A id \in DOMAIN store' : Holds(id, r)' =>
             /\ InStep(w)' /\ StepIn(setup', ctx'[w]).async /\ ctx'[w].id = id
             /\ store'[id].ctx.line = ctx'[w].line
             /\ DOMAIN ctx[w].cache.with \subseteq DOMAIN store'[id].ctx.cache.with
    BY <1>1, <1>8, <2>1, <2>2, <2>4
  <2>6. expired \subseteq expired' /\ Leads(w, r) /\ \A i \in DOMAIN queue' : ~Waits(i, r)'
    BY <1>1, <1>5, <1>6, <1>8
  <2> QED
    BY <1>8, <2>2, <2>3, <2>4, <2>5, <2>6, Goes
<1>9. ASSUME UNCHANGED store, NEW at \in {"idle", "line", "scenario", "sent"}, Moves(w, d, at),
             at = "sent" => ~StepIn(setup, d).async,
             failed' = failed \/ (at = "scenario" /\ failed' = failed \union {StepOf(d)})
      PROVE  RunInv(r)'
  <2>1. \A id \in DOMAIN store' : Holds(id, r)' => CloneIsOld(id, r)
    BY <1>9 DEF CloneIsOld, Holds
  <2>2. at \in {"idle", "scenario"} \/ RunOf(d) # r => Shrinking(r, 0) /\ ~At(w, r)'
    <3> SUFFICES ASSUME at \in {"idle", "scenario"} \/ RunOf(d) # r
                 PROVE  Shrinking(r, 0) /\ ~At(w, r)'
      OBVIOUS
    <3>1. ~At(w, r)'
      BY <1>9, GoneAway
    <3> QED
      BY <1>1, <1>4, <1>9, <2>1, <3>1, ShrinkingStep
  <2>3. CASE at \in {"line", "sent"} /\ RunOf(d) = r
    <3>1. \A v \in Threads : v # w /\ At(v, r)' => Stays(v, r)
      BY <1>1, <1>9, OthersStay
    <3>2. \A id \in DOMAIN store' : ~Holds(id, r)'
      BY <1>6, <1>9, <2>3 DEF Holds
    <3>3. RunKept(r)
      BY <1>8, <1>9, <2>3, <3>1, <3>2
    <3>4. failed' = failed
      BY <1>9, <2>3
    <3> QED
      BY <1>7, <3>3, <3>4, RunStep
  <2>4. CASE ~(at \in {"line", "sent"} /\ RunOf(d) = r)
    <3>1. Shrinking(r, 0) /\ ~At(w, r)'
      BY <2>2, <2>4
    <3>2. RunKept(r)
      BY <3>1, Shrinks
    <3>3. RunOf(d) = r => Excused(StepOf(d), r)'
      BY <1>1, <1>2, <1>3, <1>5, <3>1, Stops
    <3>4. \A f \in failed' : f.run = r => f \in failed \/ Excused(f, r)'
      BY <1>9, <3>3 DEF StepOf
    <3> QED
      BY <1>7, <3>2, <3>4, RunStep
  <2> QED
    BY <2>3, <2>4
<1>10. ASSUME StepIn(setup, d).async, Moves(w, d, "sent"), store' = Stored(d.id, Clone(d)),
              calls' = calls \union {CallOf(d)}, UNCHANGED failed
       PROVE  RunInv(r)'
  <2>1. /\ DOMAIN store' = DOMAIN store \union {d.id} /\ store'[d.id].ctx = d
        /\ \A x \in DOMAIN store : x # d.id => store'[x] = store[x]
    <3>1. d.continue = FALSE
      BY <1>1 DEF NextStep
    <3>2. DOMAIN store' = DOMAIN store \union {d.id} /\ store'[d.id].ctx = d
      BY <1>1, <1>3, <1>10, <3>1, StoredWell
    <3>3. \A x \in DOMAIN store : x # d.id => store'[x] = store[x]
      BY <1>10 DEF Stored
    <3> QED
      BY <3>2, <3>3
  <2>2. ASSUME NEW v \in Threads, v # w, At(v, r)', InStep(v), StepIn(setup, ctx[v]).async
        PROVE  ctx[v].id \in DOMAIN store <=> ctx[v].id \in DOMAIN store'
    <3> SUFFICES ASSUME ctx[v].id = d.id, ctx[v].id \notin DOMAIN store PROVE FALSE
      BY <2>1
    <3>1. At(v, r) /\ DeadEnd(v)
      <4>1. ctx'[v] = ctx[v] /\ pc'[v] = pc[v]
        BY <1>10, <2>2, Moved
      <4> QED
        BY <2>2, <4>1 DEF At, Running, DeadEnd
    <3>2. CallOf(ctx[v]) \in calls' /\ CallOf(d) \in calls'
      BY <1>10, <2>2 DEF CallInv
    <3>3. CallOf(ctx[v]).run = r /\ CallOf(ctx[v]).id = CallOf(d).id
      BY <3>1 DEF CallOf, At, RunOf
    <3>4. CallOf(ctx[v]) = CallOf(d)
      BY <3>2, <3>3 DEF Shared
    <3>5. RunOf(d) = r /\ ctx[v].line = d.line
      BY <3>1, <3>4 DEF CallOf, At
    <3>6. ctx[v].line <= ctx[w].line
      BY <1>5, <3>1, <3>5 DEF RunInv, Behind
    <3> QED
      BY <1>3, <3>5, <3>6
  <2>3. \A id \in DOMAIN store' : Holds(id, r)' => CloneIsOld(id, r) \/ (RunOf(d) = r /\ id = d.id)
    BY <2>1 DEF CloneIsOld, Holds
  <2>4. CASE RunOf(d) # r
    <3>1. ~At(w, r)'
      BY <1>10, <2>4, GoneAway
    <3>2. Shrinking(r, 0)
      BY <1>1, <1>4, <1>10, <2>2, <2>3, <2>4, <3>1, ShrinkingStep
    <3> QED
      BY <1>7, <1>10, <3>2, Shrinks, RunStep
  <2>5. CASE RunOf(d) = r
    <3>1. \A v \in Threads : v # w /\ At(v, r)' => Stays(v, r)
      BY <1>1, <1>10, <2>2, OthersStay
    <3>2. \A id \in DOMAIN store' : Holds(id, r)' => id = d.id
      BY <1>6, <2>1, <2>5 DEF Holds
    <3>3. RunKept(r)
      BY <1>8, <1>10, <2>1, <2>5, <3>1, <3>2
    <3> QED
      BY <1>7, <1>10, <3>3, RunStep
  <2> QED
    BY <2>4, <2>5
<1>11. CASE StepFails0(w, d) /\ UNCHANGED <<store, calls>>
  <2>1. CASE StepIn(setup, d).async
    BY <1>9, <1>11, <2>1 DEF StepFails0
  <2>2. CASE ~StepIn(setup, d).async
    BY <1>9, <1>11, <2>2 DEF StepFails0
  <2> QED
    BY <2>1, <2>2
<1>12. CASE Moves(w, d, "idle") /\ UNCHANGED <<store, failed, calls>>
  BY <1>9, <1>12
<1>13. CASE ~StepIn(setup, d).async /\ Moves(w, d, "sent") /\ UNCHANGED <<store, failed, calls>>
  BY <1>9, <1>13
<1> QED
  BY <1>10, <1>11, <1>12, <1>13 DEF SendData0

\* what is the same in the context of a thread that has sent
LEMMA GrownFacts ==
    ASSUME TypeInv, NEW w \in Threads, InStep(w), NEW d, GrownStep(ctx[w], d)
    PROVE  /\ Running(w) /\ Located(setup, d)
           /\ d.uid = ctx[w].uid /\ RunOf(d) = RunOf(ctx[w]) /\ d.id = ctx[w].id
           /\ d.line = ctx[w].line /\ d.line \in Nat /\ StepOf(d) = StepOf(ctx[w])
           /\ StepIn(setup, d) = StepIn(setup, ctx[w])
           /\ DOMAIN ctx[w].cache.with \subseteq DOMAIN d.cache.with
<1>1. Running(w)
  BY DEF InStep, Running
<1>2. SameStep(ctx[w], d) /\ d.id = ctx[w].id /\ Located(setup, d) /\ IsContext(d)
      /\ Located(setup, ctx[w])
  BY <1>1, RunningIsLocated DEF GrownStep, Located
<1>3. d.line \in Nat
  BY <1>2, LineIsNat DEF TypeInv
<1>4. StepIn(setup, d) = StepIn(setup, ctx[w])
  BY <1>2, StaysLocated
<1> QED
  BY <1>1, <1>2, <1>3, <1>4 DEF GrownStep, SameStep, RunOf, StepOf

\* a thread that has sent leaves its step, or its run, behind
LEMMA GrownLeaves ==
    ASSUME TypeInv, CallInv, UNCHANGED <<setup, queue, expired>>, NEW w \in Threads, InStep(w),
           NEW d, GrownStep(ctx[w], d), NEW at, Moves(w, d, at),
           NEW r, RunInv(r), ~Shared(r), at \in {"idle", "scenario"} \/ RunOf(d) # r,
           StoreStays \/ UNCHANGED store \/ (StepIn(setup, d).async /\ Pop(d.id))
    PROVE  Shrinking(r, 0) /\ ~At(w, r)'
<1>1. ~At(w, r)'
  BY GoneAway
<1>2. \A id \in DOMAIN store' : Holds(id, r)' => CloneIsOld(id, r)
  BY OldClones
<1>3. \A i \in DOMAIN queue' : i \in Nat /\ (Waits(i, r)' => TokenIsOld(i, 0, r))
  BY QueueSame
<1>4. ASSUME NEW v \in Threads, v # w, At(v, r)', InStep(v), StepIn(setup, ctx[v]).async
      PROVE  ctx[v].id \in DOMAIN store <=> ctx[v].id \in DOMAIN store'
  <2>1. CASE StoreStays \/ UNCHANGED store
    BY <2>1 DEF StoreStays
  <2>2. CASE StepIn(setup, d).async /\ Pop(d.id)
    <3>1. DOMAIN store' = DOMAIN store \ {d.id}
      BY <2>2, Popped
    <3>2. At(v, r)
      <4>1. ctx'[v] = ctx[v] /\ pc'[v] = pc[v]
        BY <1>4, Moved
      <4> QED
        BY <1>4, <4>1 DEF At, Running
    <3>3. StepIn(setup, ctx[w]).async /\ d.id = ctx[w].id
      BY <2>2, GrownFacts
    <3>4. ctx[v].id = ctx[w].id => ctx[v].id \notin DOMAIN store
      BY <1>4, <3>2, <3>3, OwnStore
    <3> QED
      BY <3>1, <3>3, <3>4
  <2> QED
    BY <2>1, <2>2
<1>5. expired \subseteq expired'
  OBVIOUS
<1> QED
  BY <1>1, <1>2, <1>3, <1>4, <1>5, ShrinkingStep

\* a thread goes on after a step that is not asynchronous
LEMMA GrownGoes ==
    ASSUME TypeInv, UNCHANGED <<setup, queue, store, expired>>, NEW w \in Threads, InStep(w),
           NEW d, GrownStep(ctx[w], d), Moves(w, d, "line"), ~StepIn(setup, d).async,
           NEW r, RunInv(r), RunOf(d) = r
    PROVE  RunKept(r)
<1>1. Leads(w, r) /\ At(w, r)
  BY GrownFacts DEF Leads, At, DeadEnd
<1>2. ctx'[w] = d /\ pc'[w] = "line"
  BY Moved
<1>3. At(w, r)' /\ ~InStep(w)' /\ ~DeadEnd(w)'
  BY <1>2 DEF At, Running, InStep, DeadEnd
<1>4. ctx'[w].line \in Nat /\ ctx[w].line <= ctx'[w].line
  BY <1>2, GrownFacts
<1>5. \A v \in Threads : v # w /\ At(v, r)' => Stays(v, r)
  BY OthersStay
<1>6. \A id \in DOMAIN store' : ~Holds(id, r)'
  <2>1. ~StepIn(setup, ctx[w]).async
    BY GrownFacts
  <2>2. \A id \in DOMAIN store : ~Holds(id, r)
    BY <1>1, <2>1 DEF RunInv, OneHolder
  <2> QED
    BY <2>2 DEF Holds
<1>7. \A i \in DOMAIN queue' : ~Waits(i, r)'
  BY <1>1 DEF RunInv, OneHolder, Waits
<1>8. DOMAIN ctx[w].cache.with \subseteq DOMAIN ctx'[w].cache.with
  BY <1>2, GrownFacts
<1>9. expired \subseteq expired'
  OBVIOUS
<1> QED
  BY <1>1, <1>3, <1>4, <1>5, <1>6, <1>7, <1>8, <1>9, Goes

LEMMA AnswerRun ==
    ASSUME TypeInv, CallInv, HistoryInv, NEW w \in Threads, NEW d, Answer0(w, d),
           NEW r, RunInv(r), ~Shared(r)'
    PROVE  RunInv(r)'
<1>1. /\ InStep(w) /\ GrownStep(ctx[w], d)
      /\ UNCHANGED <<setup, runs, queue, calls, expired>>
  BY DEF Answer0, InStep
<1>2. ~Shared(r)
  BY <1>1, NotSharedBefore
<1>3. RunOf(d) = r => At(w, r)
  BY <1>1, GrownFacts DEF At
<1>4. CASE (\E at \in {"scenario", "idle"} : Moves(w, d, at)) /\ StoreStays
           /\ UNCHANGED <<kept, failed>>
  <2>1. Shrinking(r, 0)
    BY <1>1, <1>2, <1>4, GrownLeaves
  <2> QED
    BY <1>4, <2>1, Shrinks, RunStep
<1>5. CASE /\ StepFails0(w, d)
           /\ UNCHANGED store \/ (StepIn(setup, d).async /\ Pop(d.id))
           /\ UNCHANGED kept
  <2>1. CASE StepIn(setup, d).async
    <3>1. Moves(w, d, "scenario") /\ failed' = failed \union {StepOf(d)}
      BY <1>5, <2>1 DEF StepFails0
    <3>2. Shrinking(r, 0) /\ ~At(w, r)'
      BY <1>1, <1>2, <1>5, <3>1, GrownLeaves
    <3>3. RunOf(d) = r => Excused(StepOf(d), r)'
      <4>1. d.line = ctx[w].line /\ StepIn(setup, ctx[w]).async
        BY <1>1, <2>1, GrownFacts
      <4> QED
        BY <1>1, <1>2, <1>3, <3>2, <4>1, Stops
    <3>4. \A f \in failed' : f.run = r => f \in failed \/ Excused(f, r)'
      BY <3>1, <3>3 DEF StepOf
    <3>5. RunKept(r)
      BY <3>2, Shrinks
    <3> QED
      BY <1>5, <3>4, <3>5, RunStep
  <2>2. CASE ~StepIn(setup, d).async
    <3>1. PICK at \in {"line", "scenario"} : Moves(w, d, at)
      BY <1>5, <2>2 DEF StepFails0
    <3>2. failed' = failed /\ UNCHANGED store
      BY <1>5, <2>2 DEF StepFails0
    <3>3. RunKept(r)
      <4>1. CASE at = "line" /\ RunOf(d) = r
        BY <1>1, <2>2, <3>1, <3>2, <4>1, GrownGoes
      <4>2. CASE ~(at = "line" /\ RunOf(d) = r)
        <5>1. Shrinking(r, 0)
          BY <1>1, <1>2, <3>1, <3>2, <4>2, GrownLeaves
        <5> QED
          BY <5>1, Shrinks
      <4> QED
        BY <4>1, <4>2
    <3> QED
      BY <1>5, <3>2, <3>3, RunStep
  <2> QED
    BY <2>1, <2>2
<1>6. CASE Moves(w, d, "answered") /\ StoreStays /\ Remembers(w, d) /\ UNCHANGED failed
  <2>1. ctx'[w] = d /\ pc'[w] = "answered" /\ DOMAIN store' = DOMAIN store
    BY <1>6, Moved DEF StoreStays
  <2>2. InStep(w)' /\ StepIn(setup', ctx'[w]) = StepIn(setup, ctx[w])
    BY <1>1, <2>1, GrownFacts DEF InStep
  <2>3. DeadEnd(w)' <=> DeadEnd(w)
    BY <1>1, <2>1, <2>2, GrownFacts DEF DeadEnd
  <2>4. At(w, r)' => Stays(w, r)
    <3>1. At(w, r)' => At(w, r)
      BY <1>1, <1>3, <2>1 DEF At
    <3> QED
      BY <1>1, <2>1, <2>2, <2>3, <3>1, GrownFacts DEF Stays
  <2>5. Shrinking(r, 0)
    <3>1. \A id \in DOMAIN store' : Holds(id, r)' => CloneIsOld(id, r)
      BY <1>1, <1>6, OldClones
    <3>2. \A i \in DOMAIN queue' : i \in Nat /\ (Waits(i, r)' => TokenIsOld(i, 0, r))
      BY <1>1, QueueSame
    <3> QED
      BY <1>1, <1>6, <2>1, <2>4, <3>1, <3>2, ShrinkingStep
  <2>6. ASSUME NEW m \in kept', m.run = r, m \notin kept
        PROVE  Remembered(m, r)'
    <3>1. /\ m.run = RunOf(d) /\ m.line = d.line /\ m.key \in DOMAIN d.cache.with
          /\ StepIn(setup, d).async =>
               d.id \in DOMAIN store /\ m.key \in DOMAIN store'[d.id].ctx.cache.with
      BY <1>6, <2>6 DEF Remembers
    <3>2. Leads(w, r)
      BY <1>1, <1>3, <2>6, <3>1, GrownFacts DEF Leads, DeadEnd
    <3>3. /\ m.line = ctx[w].line /\ m.key \in DOMAIN ctx'[w].cache.with
          /\ StepIn(setup, ctx[w]).async => m.key \in DOMAIN store'[ctx[w].id].ctx.cache.with
      BY <1>1, <2>1, <3>1, GrownFacts
    <3> QED
      BY <1>1, <2>5, <3>2, <3>3, Keeps
  <2>7. RunKept(r)
    BY <2>5, Shrinks
  <2>8. \A f \in failed' : f.run = r => f \in failed \/ Excused(f, r)'
    BY <1>6
  <2> QED
    BY <2>6, <2>7, <2>8, RunStep
<1> QED
  BY <1>4, <1>5, <1>6 DEF Answer0

LEMMA AfterStepRun ==
    ASSUME TypeInv, CallInv, HistoryInv, NEW w \in Threads, NEW d, AfterStep0(w, d),
           NEW r, RunInv(r), ~Shared(r)'
    PROVE  RunInv(r)'
<1>1. /\ InStep(w) /\ GrownStep(ctx[w], d)
      /\ UNCHANGED <<setup, runs, queue, calls, kept, failed, expired>>
  BY DEF AfterStep0, InStep
<1>2. ~Shared(r)
  BY <1>1, NotSharedBefore
<1>3. RunOf(d) = r => At(w, r)
  BY <1>1, GrownFacts DEF At
<1>4. SUFFICES RunKept(r)
  BY <1>1, RunStep
<1>5. CASE ~StepIn(setup, d).async /\ Moves(w, d, "line") /\ UNCHANGED store
  <2>1. CASE RunOf(d) = r
    BY <1>1, <1>5, <2>1, GrownGoes
  <2>2. CASE RunOf(d) # r
    BY <1>1, <1>2, <1>5, <2>2, GrownLeaves, Shrinks
  <2> QED
    BY <2>1, <2>2
<1>6. CASE StepIn(setup, d).async /\ d.id \in DOMAIN store /\ Moves(w, d, "line") /\ Pop(d.id)
  <2>1. CASE RunOf(d) = r
    <3>1. Leads(w, r)
      BY <1>1, <1>3, <1>6, <2>1, GrownFacts DEF Leads, DeadEnd
    <3>2. ctx'[w] = d /\ pc'[w] = "line"
      BY <1>6, Moved
    <3>3. At(w, r)' /\ ~InStep(w)' /\ ~DeadEnd(w)'
      BY <2>1, <3>2 DEF At, Running, InStep, DeadEnd
    <3>4. ctx'[w].line \in Nat /\ ctx[w].line <= ctx'[w].line
      BY <1>1, <3>2, GrownFacts
    <3>5. DOMAIN ctx[w].cache.with \subseteq DOMAIN ctx'[w].cache.with
      BY <1>1, <3>2, GrownFacts
    <3>6. DOMAIN store' = DOMAIN store \ {d.id} /\ \A x \in DOMAIN store' : store'[x] = store[x]
      BY <1>1, <1>6, Popped
    <3>7. d.id = ctx[w].id /\ StepIn(setup, ctx[w]).async
      BY <1>1, <1>6, GrownFacts
    <3>8. \A v \in Threads : v # w /\ At(v, r)' => Stays(v, r)
      <4>1. ASSUME NEW v \in Threads, v # w, At(v, r)', InStep(v), StepIn(setup, ctx[v]).async
            PROVE  ctx[v].id # d.id
        <5>1. ctx'[v] = ctx[v] /\ pc'[v] = pc[v]
          BY <1>6, <4>1, Moved
        <5>2. At(v, r)
          BY <4>1, <5>1 DEF At, Running
        <5> QED
          BY <1>1, <1>2, <1>6, <3>7, <4>1, <5>2, OwnStore
      <4> QED
        BY <1>1, <1>6, <3>6, <4>1, OthersStay
    <3>9. \A id \in DOMAIN store' : ~Holds(id, r)'
      <4>1. \A id \in DOMAIN store : Holds(id, r) => id = ctx[w].id
        BY <3>1 DEF RunInv, OneHolder
      <4> QED
        BY <3>6, <3>7, <4>1 DEF Holds
    <3>10. \A i \in DOMAIN queue' : ~Waits(i, r)'
      BY <1>1, <3>1 DEF RunInv, OneHolder, Waits
    <3>11. expired \subseteq expired'
      BY <1>1
    <3> QED
      BY <3>1, <3>3, <3>4, <3>5, <3>8, <3>9, <3>10, <3>11, Goes
  <2>2. CASE RunOf(d) # r
    BY <1>1, <1>2, <1>6, <2>2, GrownLeaves, Shrinks
  <2> QED
    BY <2>1, <2>2
<1>7. CASE Moves(w, d, "scenario") /\ StoreStays
  BY <1>1, <1>2, <1>7, GrownLeaves, Shrinks
<1> QED
  BY <1>5, <1>6, <1>7 DEF AfterStep0

LEMMA StillRun ==
    ASSUME TypeInv, NEW w \in Threads, NEW at \in {"idle", "scenario"}, Moves(w, ctx[w], at),
           UNCHANGED <<setup, store, queue, kept, failed, expired>>, NEW r, RunInv(r)
    PROVE  RunInv(r)'
<1>1. ~At(w, r)'
  BY GoneAway
<1>2. \A id \in DOMAIN store' : Holds(id, r)' => CloneIsOld(id, r)
  BY OldClones
<1>3. \A i \in DOMAIN queue' : i \in Nat /\ (Waits(i, r)' => TokenIsOld(i, 0, r))
  BY QueueSame
<1>4. Shrinking(r, 0)
  BY <1>1, <1>2, <1>3, ShrinkingStep
<1> QED
  BY <1>4, Shrinks, RunStep

LEMMA NextScenarioRun ==
    ASSUME TypeInv, HistoryInv, NEW w \in Threads, pc[w] = "scenario",
           UNCHANGED <<setup, runs, store, queue, calls, kept, failed, expired>>,
           NEW d, NextScenario0(w, d), NEW r, RunInv(r)
    PROVE  RunInv(r)'
<1>1. Moves(w, d, "line") /\ d.line = 0 /\ RunOf(d) = <<w, runs[w], ctx[w].scn + 1>>
  BY DEF NextScenario0, RunOf
<1>2. SUFFICES RunKept(r)
  BY RunStep
<1>3. CASE RunOf(d) # r
  <2>1. ~At(w, r)'
    BY <1>1, <1>3, GoneAway
  <2>2. \A id \in DOMAIN store' : Holds(id, r)' => CloneIsOld(id, r)
    BY OldClones
  <2>3. \A i \in DOMAIN queue' : i \in Nat /\ (Waits(i, r)' => TokenIsOld(i, 0, r))
    BY QueueSame
  <2>4. Shrinking(r, 0)
    BY <1>1, <2>1, <2>2, <2>3, ShrinkingStep
  <2> QED
    BY <2>4, Shrinks
<1>4. CASE RunOf(d) = r
  <2>1. ~Begun(r)
    BY <1>1, <1>4, FreshRun
  <2>2. /\ \A v \in Threads : ~At(v, r)
        /\ \A id \in DOMAIN store : ~Holds(id, r)
        /\ \A i \in DOMAIN queue : ~Waits(i, r)
        /\ \A f \in failed : f.run # r
        /\ \A m \in kept : m.run # r
    BY <2>1 DEF HistoryInv, At, Holds, Waits
  <2>3. ctx'[w] = d /\ pc'[w] = "line"
    BY <1>1, Moved
  <2>4. At(w, r)' /\ ~InStep(w)' /\ ctx'[w].line \in Nat
    BY <1>1, <1>4, <2>3 DEF At, Running, InStep
  <2>5. \A v \in Threads : v # w /\ At(v, r)' => Stays(v, r)
    BY <1>1, OthersStay
  <2>6. \A id \in DOMAIN store' : ~Holds(id, r)'
    BY <2>2 DEF Holds
  <2>7. \A i \in DOMAIN queue' : ~Waits(i, r)'
    BY <2>2 DEF Waits
  <2>8. \A v \in Threads : ~Leads(v, r)
    BY <2>2 DEF Leads
  <2>9. expired \subseteq expired'
    OBVIOUS
  <2> QED
    BY <2>2, <2>4, <2>5, <2>6, <2>7, <2>8, <2>9, Arrives
<1> QED
  BY <1>3, <1>4

\* the context of a timeout that was a success goes on with its run
LEMMA ResumesRun ==
    ASSUME TypeInv, UNCHANGED <<setup, store, expired>>, queue # <<>>, queue' = Tail(queue),
           NEW w \in Threads, NEW d, Moves(w, d, "line"), GoesOn(Head(queue).ctx, d),
           Head(queue).type = "context", Head(queue).ctx.continue,
           NEW r, RunInv(r), RunOf(d) = r
    PROVE  RunKept(r)
<1>1. 1 \in DOMAIN queue /\ queue[1] = Head(queue)
  BY TailSequence DEF TypeInv, QueueInv
<1>2. Waits(1, r) /\ d.line = queue[1].ctx.line /\ d.cache = queue[1].ctx.cache
  BY <1>1 DEF Waits, GoesOn, RunOf
<1>3. d.line \in Nat
  BY LineIsNat DEF GoesOn, TypeInv
<1>4. ctx'[w] = d /\ pc'[w] = "line"
  BY Moved
<1>5. At(w, r)' /\ ~InStep(w)' /\ ctx'[w].line \in Nat
  BY <1>3, <1>4 DEF At, Running, InStep
<1>6. \A v \in Threads : v # w /\ At(v, r)' => Stays(v, r)
  BY OthersStay
<1>7. \A v \in Threads : ~Leads(v, r)
  BY <1>1, <1>2 DEF RunInv, OneHolder
<1>8. \A id \in DOMAIN store' : ~Holds(id, r)'
  <2>1. \A id \in DOMAIN store : ~Holds(id, r)
    BY <1>1, <1>2 DEF RunInv, OneHolder
  <2> QED
    BY <2>1 DEF Holds
<1>9. ASSUME NEW i \in DOMAIN queue', Waits(i, r)'
      PROVE  FALSE
  <2>1. i \in Nat /\ TokenIsOld(i, 1, r)
    BY <1>9, QueueShorter
  <2>2. i + 1 = 1
    BY <1>1, <1>2, <2>1 DEF RunInv, OneHolder, TokenIsOld
  <2>3. DOMAIN queue' = 1..Len(queue) - 1 /\ Len(queue) \in Nat
    BY TailSequence, Sequence DEF TypeInv, QueueInv
  <2> QED
    BY <2>1, <2>2, <2>3
<1>10. ASSUME NEW v \in Threads, v # w, At(v, r), DeadEnd(v)
       PROVE  ctx[v].line <= ctx'[w].line /\ StepOf(ctx[v]) \in expired
  <2>1. ctx[v].line <= queue[1].ctx.line
    BY <1>1, <1>2, <1>10 DEF RunInv, Behind
  <2>2. ~Over(v, r)
    BY <1>1, <1>2 DEF Over
  <2> QED
    BY <1>2, <1>4, <1>10, <2>1, <2>2 DEF RunInv, DeadEnds
<1>11. \A f \in failed : f.run = r => f \in expired
  BY <1>1, <1>2 DEF RunInv, Failures, Excused
<1>12. \A m \in kept : m.run = r => m.key \in DOMAIN ctx'[w].cache.with
  BY <1>1, <1>2, <1>4 DEF RunInv, Memory, Remembered
<1>13. expired \subseteq expired'
  OBVIOUS
<1> QED
  BY <1>5, <1>6, <1>7, <1>8, <1>9, <1>10, <1>11, <1>12, <1>13, Arrives

\* a token that nobody goes on with is added to a queue of which k tokens have been taken
LEMMA QueueAdded ==
    ASSUME NEW q, IsSequence(q), NEW t, queue' = Append(q, t), NEW r,
           t.type # "context" \/ ~t.ctx.continue, NEW k,
           \A i \in DOMAIN q : i + k \in DOMAIN queue /\ q[i] = queue[i + k]
    PROVE  \A i \in DOMAIN queue' : i \in Nat /\ (Waits(i, r)' => TokenIsOld(i, k, r))
<1>1. ASSUME NEW i \in DOMAIN queue', Waits(i, r)'
      PROVE  TokenIsOld(i, k, r)
  <2>1. i \in DOMAIN q /\ queue'[i] = q[i]
    BY <1>1, QueueLonger DEF Waits
  <2>2. i + k \in DOMAIN queue /\ queue'[i] = queue[i + k]
    BY <2>1
  <2> QED
    BY <1>1, <2>2 DEF TokenIsOld, Waits
<1> QED
  BY <1>1, QueueLonger

\* a clone is taken away from another run
LEMMA OthersTaken ==
    ASSUME TypeInv, CallInv, UNCHANGED setup, NEW r, ~Shared(r),
           NEW id \in DOMAIN store, ~Holds(id, r), Pop(id),
           NEW v \in Threads, At(v, r)', ctx'[v] = ctx[v], pc'[v] = pc[v]
    PROVE  Stays(v, r)
<1>1. DOMAIN store' = DOMAIN store \ {id}
  BY Popped
<1>2. At(v, r)
  BY DEF At, Running
<1>3. InStep(v) /\ StepIn(setup, ctx[v]).async /\ ctx[v].id \in DOMAIN store => ctx[v].id # id
  BY <1>2, OwnClone
<1> QED
  BY <1>1, <1>3, UnmovedStays

LEMMA CallbackRun ==
    ASSUME TypeInv, CallInv, HistoryInv, UNCHANGED <<setup, kept, failed, expired>>, queue # <<>>,
           NEW w \in Threads, pc[w] = "idle", Moves(w, ctx[w], "idle"),
           NEW id \in DOMAIN store, Pop(id),
           \/ queue' = Tail(queue)
           \/ queue' = Append(Tail(queue), [type |-> "context", ctx |-> store[id].ctx]),
           NEW r, RunInv(r), ~Shared(r)
    PROVE  RunInv(r)'
<1>1. \A v \in Threads : ctx'[v] = ctx[v] /\ pc'[v] = pc[v]
  BY Moved
<1>2. \A i \in DOMAIN queue' : i \in Nat /\ (Waits(i, r)' => TokenIsOld(i, 1, r))
  <2>1. CASE queue' = Tail(queue)
    BY <2>1, QueueShorter
  <2>2. CASE queue' = Append(Tail(queue), [type |-> "context", ctx |-> store[id].ctx])
    <3> DEFINE t == [type |-> "context", ctx |-> store[id].ctx]
    <3>1. store[id].ctx.continue = FALSE
      BY DEF TypeInv, StoreInv, IsClone
    <3>2. ~t.ctx.continue
      BY <3>1
    <3>3. queue' = Append(Tail(queue), t)
      BY <2>2
    <3> HIDE DEF t
    <3>4. IsSequence(Tail(queue)) /\ \A i \in DOMAIN Tail(queue) :
            i + 1 \in DOMAIN queue /\ Tail(queue)[i] = queue[i + 1]
      BY TailSequence DEF TypeInv, QueueInv
    <3> QED
      BY <3>2, <3>3, <3>4, QueueAdded
  <2> QED
    BY <2>1, <2>2
<1>3. CASE Holds(id, r)
  <2>1. \A i \in DOMAIN queue' : ~Waits(i, r)'
    BY <1>2, <1>3 DEF TokenIsOld, RunInv, OneHolder
  <2>2. expired \subseteq expired'
    OBVIOUS
  <2>3. RunKept(r)
    BY <1>1, <1>3, <2>1, <2>2, Taken
  <2> QED
    BY <2>3, RunStep
<1>4. CASE ~Holds(id, r)
  <2>1. \A v \in Threads : At(v, r)' => Stays(v, r)
    BY <1>1, <1>4, OthersTaken
  <2>2. \A x \in DOMAIN store' : Holds(x, r)' => CloneIsOld(x, r)
    BY OldClones
  <2>3. Shrinking(r, 1)
    BY <1>2, <2>1, <2>2 DEF Shrinking
  <2> QED
    BY <2>3, Shrinks, RunStep
<1> QED
  BY <1>3, <1>4

LEMMA ProcessScenarioRun ==
    ASSUME TypeInv, CallInv, HistoryInv, NEW w \in Threads, ProcessScenario0(w),
           NEW r, RunInv(r), ~Shared(r)'
    PROVE  RunInv(r)'
<1>1. pc[w] = "idle" /\ UNCHANGED <<setup, calls, kept, failed, expired>>
  BY DEF ProcessScenario0
<1>2. ~Shared(r)
  BY <1>1, NotSharedBefore
<1>3. ASSUME NEW d, NEW at, Moves(w, d, at), at \in {"idle", "scenario"} \/ RunOf(d) # r,
             UNCHANGED store, UNCHANGED queue \/ (queue # <<>> /\ queue' = Tail(queue))
      PROVE  RunInv(r)'
  <2>1. ~At(w, r)'
    BY <1>3, GoneAway
  <2>2. \A id \in DOMAIN store' : Holds(id, r)' => CloneIsOld(id, r)
    BY <1>1, <1>3, OldClones
  <2>3. expired \subseteq expired'
    BY <1>1
  <2>4. CASE UNCHANGED queue
    <3>1. \A i \in DOMAIN queue' : i \in Nat /\ (Waits(i, r)' => TokenIsOld(i, 0, r))
      BY <2>4, QueueSame
    <3>2. Shrinking(r, 0)
      BY <1>1, <1>3, <2>1, <2>2, <2>3, <3>1, ShrinkingStep
    <3> QED
      BY <1>1, <3>2, Shrinks, RunStep
  <2>5. CASE queue # <<>> /\ queue' = Tail(queue)
    <3>1. \A i \in DOMAIN queue' : i \in Nat /\ (Waits(i, r)' => TokenIsOld(i, 1, r))
      BY <2>5, QueueShorter
    <3>2. Shrinking(r, 1)
      BY <1>1, <1>3, <2>1, <2>2, <2>3, <3>1, ShrinkingStep
    <3> QED
      BY <1>1, <3>2, Shrinks, RunStep
  <2> QED
    BY <1>3, <2>4, <2>5
<1>4. CASE /\ \E d : AtPoint(setup, d, "scenario") /\ d.scn = 0 /\ Moves(w, d, "scenario")
           /\ UNCHANGED queue \/ (queue # <<>> /\ queue' = Tail(queue))
           /\ UNCHANGED store
  BY <1>3, <1>4
<1>5. CASE /\ queue # <<>> /\ Head(queue).type = "context" /\ queue' = Tail(queue)
           /\ \E d : /\ GoesOn(Head(queue).ctx, d)
                     /\ \/ Head(queue).ctx.continue /\ Moves(w, d, "line")
                        \/ ~Head(queue).ctx.continue /\ Moves(w, d, "scenario")
           /\ UNCHANGED store
  <2>1. PICK d : /\ GoesOn(Head(queue).ctx, d)
                 /\ \/ Head(queue).ctx.continue /\ Moves(w, d, "line")
                    \/ ~Head(queue).ctx.continue /\ Moves(w, d, "scenario")
    BY <1>5
  <2>2. CASE Head(queue).ctx.continue /\ Moves(w, d, "line") /\ RunOf(d) = r
    BY <1>1, <1>5, <2>1, <2>2, ResumesRun, RunStep
  <2> QED
    BY <1>3, <1>5, <2>1, <2>2
<1>6. CASE /\ queue # <<>> /\ Moves(w, ctx[w], "idle")
           /\ \E id \in DOMAIN store :
                /\ \/ queue' = Tail(queue)
                   \/ queue' = Append(Tail(queue), [type |-> "context", ctx |-> store[id].ctx])
                /\ Pop(id)
  BY <1>1, <1>2, <1>6, CallbackRun
<1>7. CASE /\ queue # <<>> /\ Moves(w, ctx[w], "idle") /\ queue' = Tail(queue)
           /\ UNCHANGED store
  BY <1>3, <1>7
<1> QED
  BY <1>4, <1>5, <1>6, <1>7 DEF ProcessScenario0

\* the steps of the threads around that take no clone away
LEMMA OutsideRun ==
    ASSUME TypeInv, UNCHANGED <<setup, pc, ctx, kept, failed, expired>>,
           StoreStays \/ UNCHANGED store, NEW r, RunInv(r),
           \A i \in DOMAIN queue' : i \in Nat /\ (Waits(i, r)' => TokenIsOld(i, 0, r))
    PROVE  RunInv(r)'
<1>1. DOMAIN store' = DOMAIN store
  BY DEF StoreStays
<1>2. \A v \in Threads : At(v, r)' => Stays(v, r)
  BY <1>1, UnmovedStays
<1>3. \A id \in DOMAIN store' : Holds(id, r)' => CloneIsOld(id, r)
  BY OldClones
<1>4. Shrinking(r, 0)
  BY <1>2, <1>3 DEF Shrinking
<1> QED
  BY <1>4, Shrinks, RunStep

\* a token that nobody goes on with
LEMMA TokenAdded ==
    ASSUME TypeInv, NEW t, queue' = Append(queue, t), NEW r, t.type # "context" \/ ~t.ctx.continue
    PROVE  \A i \in DOMAIN queue' : i \in Nat /\ (Waits(i, r)' => TokenIsOld(i, 0, r))
<1>1. IsSequence(queue) /\ \A i \in DOMAIN queue : i + 0 \in DOMAIN queue /\ queue[i] = queue[i + 0]
  BY Sequence DEF TypeInv, QueueInv
<1> QED
  BY <1>1, QueueAdded

LEMMA NotifyRun ==
    ASSUME TypeInv, NEW id \in DOMAIN store, Notify0(id), NEW r, RunInv(r)
    PROVE  RunInv(r)'
<1>1. UNCHANGED <<setup, pc, ctx, kept, failed, expired>> /\ (StoreStays \/ UNCHANGED store)
  BY DEF Notify0
<1>2. \A i \in DOMAIN queue' : i \in Nat /\ (Waits(i, r)' => TokenIsOld(i, 0, r))
  <2> DEFINE t == [type |-> "callback", id |-> id]
  <2>1. t.type # "context"
    OBVIOUS
  <2> HIDE DEF t
  <2>2. UNCHANGED queue \/ queue' = Append(queue, t)
    BY DEF Notify0, t
  <2> QED
    BY <2>1, <2>2, QueueSame, TokenAdded
<1> QED
  BY <1>1, <1>2, OutsideRun

LEMMA EventRun ==
    ASSUME TypeInv, Event, NEW r, RunInv(r)
    PROVE  RunInv(r)'
<1>1. PICK t : t.type # "context" /\ queue' = Append(queue, t)
  BY EventDoes
<1>2. UNCHANGED <<setup, pc, ctx, store, kept, failed, expired>>
  BY EventDoes
<1>3. \A i \in DOMAIN queue' : i \in Nat /\ (Waits(i, r)' => TokenIsOld(i, 0, r))
  BY <1>1, TokenAdded
<1> QED
  BY <1>2, <1>3, OutsideRun

LEMMA StutterRun ==
    ASSUME TypeInv, UNCHANGED vars, NEW r, RunInv(r)
    PROVE  RunInv(r)'
<1>1. UNCHANGED <<setup, pc, ctx, store, queue, kept, failed, expired>>
  BY DEF vars, threadVars, histVars
<1> QED
  BY <1>1, QueueSame, OutsideRun

LEMMA TimeOutRun ==
    ASSUME TypeInv, CallInv, HistoryInv, NEW id \in DOMAIN store, TimeOut0(id),
           NEW r, RunInv(r), ~Shared(r)'
    PROVE  RunInv(r)'
<1> DEFINE c == store[id].ctx
<1>1. /\ UNCHANGED <<setup, pc, ctx, kept, failed>> /\ Pop(id) /\ ~Shared(r)
      /\ expired \subseteq expired'
  BY NotSharedBefore DEF TimeOut0
<1>2. IsSequence(queue) /\ \A i \in DOMAIN queue : i + 0 \in DOMAIN queue /\ queue[i] = queue[i + 0]
  BY Sequence DEF TypeInv, QueueInv
\* the token that the reaper adds
<1>3. \/ UNCHANGED queue
      \/ \E t : /\ queue' = Append(queue, t)
                /\ t.ctx.line = c.line /\ t.ctx.cache = c.cache /\ RunOf(t.ctx) = RunOf(c)
                /\ t.ctx.continue => StepOf(c) \in expired'
  <2>1. ASSUME NEW d, TokenOf(c, d), queue' = Append(queue, [type |-> "context", ctx |-> d]),
               d.continue => StepOf(c) \in expired'
        PROVE  \E t : /\ queue' = Append(queue, t)
                      /\ t.ctx.line = c.line /\ t.ctx.cache = c.cache /\ RunOf(t.ctx) = RunOf(c)
                      /\ t.ctx.continue => StepOf(c) \in expired'
    <3> DEFINE t == [type |-> "context", ctx |-> d]
    <3>1. t.ctx = d /\ queue' = Append(queue, t)
      BY <2>1
    <3> HIDE DEF t
    <3>2. t.ctx.line = c.line /\ t.ctx.cache = c.cache /\ RunOf(t.ctx) = RunOf(c)
      BY <2>1, <3>1 DEF TokenOf, RunOf
    <3> QED
      BY <2>1, <3>1, <3>2
  <2>2. CASE UNCHANGED queue
    BY <2>2
  <2>3. ASSUME NEW d, TokenOf(c, d), queue' = Append(queue, [type |-> "context", ctx |-> d]),
               expired' = expired \union {StepOf(c)}
        PROVE  \E t : /\ queue' = Append(queue, t)
                      /\ t.ctx.line = c.line /\ t.ctx.cache = c.cache /\ RunOf(t.ctx) = RunOf(c)
                      /\ t.ctx.continue => StepOf(c) \in expired'
    BY <2>1, <2>3
  <2>4. ASSUME NEW d, TokenOf(c, d), queue' = Append(queue, [type |-> "context", ctx |-> d]),
               d.continue = FALSE
        PROVE  \E t : /\ queue' = Append(queue, t)
                      /\ t.ctx.line = c.line /\ t.ctx.cache = c.cache /\ RunOf(t.ctx) = RunOf(c)
                      /\ t.ctx.continue => StepOf(c) \in expired'
    BY <2>1, <2>4
  <2> QED
    BY <2>2, <2>3, <2>4 DEF TimeOut0
<1>4. ASSUME NEW i \in DOMAIN queue', Waits(i, r)'
      PROVE  \/ TokenIsOld(i, 0, r)
             \/ /\ Holds(id, r) /\ StepOf(c) \in expired'
                /\ queue'[i].ctx.line = c.line /\ queue'[i].ctx.cache = c.cache
                /\ UNCHANGED queue \/ i = Len(queue) + 1
  <2>1. CASE UNCHANGED queue
    BY <1>4, <2>1, QueueSame
  <2>2. ASSUME NEW t, queue' = Append(queue, t),
               t.ctx.line = c.line, t.ctx.cache = c.cache, RunOf(t.ctx) = RunOf(c),
               t.ctx.continue => StepOf(c) \in expired'
        PROVE  \/ TokenIsOld(i, 0, r)
               \/ /\ Holds(id, r) /\ StepOf(c) \in expired'
                  /\ queue'[i].ctx.line = c.line /\ queue'[i].ctx.cache = c.cache
                  /\ UNCHANGED queue \/ i = Len(queue) + 1
    <3>1. CASE i \in DOMAIN queue /\ queue'[i] = queue[i]
      <4>1. i + 0 \in DOMAIN queue /\ queue'[i] = queue[i + 0]
        BY <1>2, <3>1
      <4> QED
        BY <1>4, <4>1 DEF TokenIsOld, Waits
    <3>2. CASE i = Len(queue) + 1 /\ queue'[i] = t
      BY <1>4, <2>2, <3>2 DEF Waits, Holds
    <3> QED
      BY <1>2, <2>2, <3>1, <3>2, QueueLonger
  <2> QED
    BY <1>3, <2>1, <2>2
<1>5. \A i \in DOMAIN queue' : i \in Nat
  <2>1. CASE UNCHANGED queue
    BY <2>1, QueueSame
  <2>2. ASSUME NEW t, queue' = Append(queue, t)
        PROVE  \A i \in DOMAIN queue' : i \in Nat
    BY <1>2, <2>2, QueueLonger
  <2> QED
    BY <1>3, <2>1, <2>2
<1>6. CASE Holds(id, r)
  <2>1. \A i \in DOMAIN queue : ~Waits(i, r)
    BY <1>6 DEF RunInv, OneHolder
  <2>2. \A i \in DOMAIN queue' : Waits(i, r)' =>
          /\ queue'[i].ctx.line = c.line /\ queue'[i].ctx.cache = c.cache
          /\ StepOf(c) \in expired'
    BY <1>4, <2>1 DEF TokenIsOld
  <2>3. \A i \in DOMAIN queue' : Waits(i, r)' => i = Len(queue) + 1
    <3> SUFFICES ASSUME NEW i \in DOMAIN queue', Waits(i, r)' PROVE i = Len(queue) + 1
      OBVIOUS
    <3>1. ~UNCHANGED queue
      <4> SUFFICES ASSUME UNCHANGED queue PROVE FALSE
        OBVIOUS
      <4> QED
        BY <2>1 DEF Waits
    <3>2. ~TokenIsOld(i, 0, r)
      BY <2>1 DEF TokenIsOld
    <3> QED
      BY <1>4, <3>1, <3>2
  <2>4. RunKept(r)
    BY <1>1, <1>6, <2>2, <2>3, Taken
  <2> QED
    BY <1>1, <2>4, RunStep
<1>7. CASE ~Holds(id, r)
  <2>1. \A v \in Threads : At(v, r)' => Stays(v, r)
    BY <1>1, <1>7, OthersTaken
  <2>2. \A x \in DOMAIN store' : Holds(x, r)' => CloneIsOld(x, r)
    BY <1>1, OldClones
  <2>3. Shrinking(r, 0)
    BY <1>1, <1>4, <1>5, <1>7, <2>1, <2>2 DEF Shrinking
  <2> QED
    BY <1>1, <2>3, Shrinks, RunStep
<1> QED
  BY <1>6, <1>7

-----------------------------------------------------------------------------
(* The inductive invariant.                                                *)

Inv == TypeInv /\ CallInv /\ HistoryInv /\ RunsInv

LEMMA InvInit == Init => Inv
<1> SUFFICES ASSUME Init PROVE Inv
  OBVIOUS
<1>1. TypeInv
  BY TypeInit
<1>2. /\ \A w \in Threads : ~Running(w) /\ ~InStep(w)
      /\ DOMAIN store = {} /\ DOMAIN queue = {} /\ failed = {} /\ kept = {}
  <2>1. \A w \in Threads : pc[w] = "idle"
    BY DEF Init
  <2>2. DOMAIN store = {} /\ DOMAIN queue = {}
    BY EmptySequence DEF Init
  <2> QED
    BY <2>1, <2>2 DEF Init, Running, InStep
<1>3. CallInv /\ HistoryInv
  BY <1>2 DEF CallInv, HistoryInv
<1>4. ASSUME NEW r
      PROVE  RunInv(r)
  <2>1. \A w \in Threads : ~At(w, r) /\ ~Leads(w, r)
    BY <1>2 DEF At, Leads
  <2>2. OneHolder(r) /\ Behind(r) /\ DeadEnds(r)
    BY <1>2, <2>1 DEF OneHolder, Behind, DeadEnds
  <2>3. Failures(r) /\ Memory(r)
    BY <1>2 DEF Failures, Memory
  <2> QED
    BY <2>2, <2>3 DEF RunInv
<1>5. RunsInv
  BY <1>4 DEF RunsInv
<1> QED
  BY <1>1, <1>3, <1>5 DEF Inv

\* a step that keeps the invariant of each run keeps that of all
LEMMA RunsStep ==
    ASSUME RunsInv, calls \subseteq calls',
           \A r : RunInv(r) /\ ~Shared(r)' => RunInv(r)'
    PROVE  RunsInv'
<1>1. ASSUME NEW r, ~Shared(r)'
      PROVE  RunInv(r)'
  <2>1. RunInv(r)
    BY <1>1, NotSharedBefore DEF RunsInv
  <2> QED
    BY <1>1, <2>1
<1> QED
  BY <1>1 DEF RunsInv

LEMMA InvNext == Inv /\ [Next]_vars => Inv'
<1> SUFFICES ASSUME Inv, [Next]_vars PROVE Inv'
  OBVIOUS
<1> USE DEF Inv
<1>1. TypeInv'
  BY TypeNext
<1>2. ASSUME NEW w \in Threads, ProcessScenario(w)
      PROVE  CallInv' /\ HistoryInv' /\ RunsInv'
  <2>1. ProcessScenario0(w)
    BY <1>2, ProcessScenarioDoes
  <2>2. calls \subseteq calls'
    BY <2>1 DEF ProcessScenario0
  <2> QED
    BY <2>1, <2>2, ProcessScenarioRecords, ProcessScenarioRun, RunsStep
<1>3. ASSUME NEW w \in Threads, EndOfSteps(w)
      PROVE  CallInv' /\ HistoryInv' /\ RunsInv'
  <2>1. /\ pc[w] = "line" /\ Moves(w, ctx[w], "scenario")
        /\ UNCHANGED <<setup, runs, store, queue, calls, kept, failed, expired>>
    BY <1>3, EndOfStepsDoes
  <2>2. pc[w] # "idle" /\ calls \subseteq calls'
    BY <2>1
  <2> QED
    BY <2>1, <2>2, StillRecords, StillRun, RunsStep
<1>4. ASSUME NEW w \in Threads, NextScenario(w)
      PROVE  CallInv' /\ HistoryInv' /\ RunsInv'
  <2>1. /\ pc[w] = "scenario"
        /\ UNCHANGED <<setup, runs, store, queue, calls, kept, failed, expired>>
        /\ Moves(w, ctx[w], "idle") \/ \E d : NextScenario0(w, d)
    BY <1>4, NextScenarioDoes
  <2>2. pc[w] # "idle" /\ calls \subseteq calls'
    BY <2>1
  <2>3. CASE Moves(w, ctx[w], "idle")
    BY <2>1, <2>2, <2>3, StillRecords, StillRun, RunsStep
  <2>4. CASE \E d : NextScenario0(w, d)
    BY <2>1, <2>2, <2>4, NextScenarioRecords, NextScenarioRun, RunsStep
  <2> QED
    BY <2>1, <2>3, <2>4
<1>5. ASSUME NEW w \in Threads, SendData(w)
      PROVE  CallInv' /\ HistoryInv' /\ RunsInv'
  <2>1. PICK d : SendData0(w, d)
    BY <1>5, SendDataDoes
  <2>2. calls \subseteq calls'
    BY <2>1 DEF SendData0
  <2> QED
    BY <2>1, <2>2, SendDataRecords, SendDataRun, RunsStep
<1>6. ASSUME NEW w \in Threads, Answer(w)
      PROVE  CallInv' /\ HistoryInv' /\ RunsInv'
  <2>1. PICK d : Answer0(w, d)
    BY <1>6, AnswerDoes
  <2>2. calls \subseteq calls'
    BY <2>1 DEF Answer0
  <2> QED
    BY <2>1, <2>2, AnswerRecords, AnswerRun, RunsStep
<1>7. ASSUME NEW w \in Threads, AfterStep(w)
      PROVE  CallInv' /\ HistoryInv' /\ RunsInv'
  <2>1. PICK d : AfterStep0(w, d)
    BY <1>7, AfterStepDoes
  <2>2. calls \subseteq calls'
    BY <2>1 DEF AfterStep0
  <2> QED
    BY <2>1, <2>2, AfterStepRecords, AfterStepRun, RunsStep
<1>8. ASSUME NEW id \in DOMAIN store, Notify(id)
      PROVE  CallInv' /\ HistoryInv' /\ RunsInv'
  <2>1. Notify0(id)
    BY <1>8, NotifyDoes
  <2>2. calls \subseteq calls'
    BY <2>1 DEF Notify0
  <2> QED
    BY <2>1, <2>2, NotifyRecords, NotifyRun, RunsStep
<1>9. ASSUME NEW id \in DOMAIN store, TimeOut(id)
      PROVE  CallInv' /\ HistoryInv' /\ RunsInv'
  <2>1. TimeOut0(id)
    BY <1>9, TimeOutDoes
  <2>2. calls \subseteq calls'
    BY <2>1 DEF TimeOut0
  <2> QED
    BY <2>1, <2>2, TimeOutRecords, TimeOutRun, RunsStep
<1>10. ASSUME Event
       PROVE  CallInv' /\ HistoryInv' /\ RunsInv'
  <2>1. calls \subseteq calls'
    BY <1>10, EventDoes
  <2> QED
    BY <1>10, <2>1, EventRecords, EventRun, RunsStep
<1>11. ASSUME UNCHANGED vars
       PROVE  CallInv' /\ HistoryInv' /\ RunsInv'
  <2>1. calls \subseteq calls'
    BY <1>11 DEF vars, histVars
  <2> QED
    BY <1>11, <2>1, StutterRecords, StutterRun, RunsStep
<1> QED
  BY <1>1, <1>2, <1>3, <1>4, <1>5, <1>6, <1>7, <1>8, <1>9, <1>10, <1>11 DEF Next

\* As long as the calls of a run do not share an identifier, one thread, one stored clone,
\* or one token of a successful timeout goes on with it; the threads whose clone has been
\* taken away are behind.
THEOREM RunsAreKept == Spec => []Inv
  BY InvInit, InvNext, PTL DEF Spec

LEMMA Stopped == Inv => FailureStopsScenario
<1> SUFFICES ASSUME Inv, NEW w \in Threads, pc[w] = "sent", ~Shared(RunOf(ctx[w])),
                    NEW f \in failed, f.run = RunOf(ctx[w]), f.line < ctx[w].line
             PROVE  f \in expired
  BY DEF FailureStopsScenario
<1> DEFINE r == RunOf(ctx[w])
<1>1. At(w, r)
  BY DEF At, Running
<1>2. Excused(f, r)
  BY DEF Inv, RunsInv, RunInv, Failures
<1> QED
  BY <1>1, <1>2 DEF Excused, Leads

LEMMA MemoryStays == Inv => MemorizedIsThere
<1> SUFFICES ASSUME Inv, NEW w \in Threads, Running(w), ~Shared(RunOf(ctx[w])),
                    NEW m \in kept, m.run = RunOf(ctx[w]),
                    m.line < ctx[w].line \/ m.line = ctx[w].line
             PROVE  m.key \in DOMAIN ctx[w].cache.with
  BY DEF MemorizedIsThere
<1> DEFINE r == RunOf(ctx[w])
<1>1. At(w, r)
  BY DEF At
<1>2. Remembered(m, r)
  BY DEF Inv, RunsInv, RunInv, Memory
<1>3. m.line <= ctx[w].line
  <2>1. m.line \in Nat /\ ctx[w].line \in Nat
    BY LinesAreNat DEF Inv, HistoryInv
  <2> QED
    BY <2>1
<1> QED
  BY <1>1, <1>2, <1>3 DEF Remembered, Leads

\* "An asynchronous step that fails cannot continue": whatever the threads, the callback and
\* the reaper do, no later step of its scenario is sent, unless its clone has timed out as a
\* success, or calls of the run share an identifier.
THEOREM FailuresStop == Spec => []FailureStopsScenario
  BY RunsAreKept, Stopped, PTL

-----------------------------------------------------------------------------
(* The verdict of the immediate rules.                                     *)

LEMMA LeastNumber ==
    ASSUME NEW S \in SUBSET Nat, S # {}
    PROVE  \E m \in S : \A n \in S : m <= n
<1> DEFINE R == OpToRel(<, Nat)
<1>1. IsWellFoundedOn(R, Nat)
  BY NatLessThanWellFounded
<1>2. \A n, m \in S : n < m => <<n, m>> \in R
  BY DEF OpToRel
<1> HIDE DEF R
<1>3. PICK m \in S : \A n \in S : ~(<<n, m>> \in R)
  BY <1>1, WFMin
<1>4. \A n \in S : ~(n < m)
  BY <1>2, <1>3
<1> QED
  BY <1>3, <1>4

Ends(rules, keys) ==
    {i \in DOMAIN rules : rules[i].deferred = FALSE /\ CheckRule(rules[i], keys) # "next"}

\* the rules before the first JSON rule, and that rule
Seen(rules) ==
    LET now == {i \in DOMAIN rules : ~rules[i].deferred}
    IN  {i \in now : \A j \in now : rules[j].type = "json" => j >= i}

\* only a JSON rule accepts the answer at once, and it never leads to the next one
LEMMA OnlyJsonAccepts ==
    ASSUME NEW rule, NEW keys
    PROVE  /\ CheckRule(rule, keys) = "accepted" => rule.type = "json"
           /\ rule.type = "json" => CheckRule(rule, keys) # "next"
<1>1. MaxDuration(rule, keys) # "accepted" /\ CallRule(rule, keys) # "accepted"
  BY DEF MaxDuration, CallRule, Expects
<1>2. Exists(rule, keys) # "accepted"
  BY DEF Exists, Expects
<1>3. \A s : RegexpRule(rule, s) # "accepted"
  BY DEF RegexpRule
<1>4. \A s : JsonRule(rule, s) # "next"
  BY DEF JsonRule
<1> QED
  BY <1>1, <1>2, <1>3, <1>4 DEF CheckRule

\* a rule that stands alone decides alone
LEMMA AloneDecides ==
    ASSUME NEW rule, NEW keys, rule.deferred = FALSE
    PROVE  Alone(rule, keys) <=> Accepts(CheckRule(rule, keys))
<1> DEFINE ends == {i \in DOMAIN <<rule>> :
                       <<rule>>[i].deferred = FALSE /\ CheckRule(<<rule>>[i], keys) # "next"}
<1>1. DOMAIN <<rule>> = {1} /\ <<rule>>[1] = rule
  OBVIOUS
<1>2. CASE CheckRule(rule, keys) = "next"
  <2>1. ends = {}
    BY <1>1, <1>2
  <2> QED
    BY <1>2, <2>1 DEF Alone, CheckResponse
<1>3. CASE CheckRule(rule, keys) # "next"
  <2>1. ends = {1}
    BY <1>1, <1>3
  <2>2. (CHOOSE i \in ends : \A j \in ends : i <= j) = 1
    BY <2>1
  <2>3. CheckResponse(<<rule>>, keys, FALSE)
          = CheckRule(<<rule>>[CHOOSE i \in ends : \A j \in ends : i <= j], keys)
    BY <2>1 DEF CheckResponse
  <2> QED
    BY <1>1, <2>2, <2>3 DEF Alone
<1> QED
  BY <1>2, <1>3

\* the first rule that does not lead to the next one decides
LEMMA FirstDecides ==
    ASSUME NEW rules, NEW keys, IsSequence(rules), Ends(rules, keys) # {}
    PROVE  \E i \in Ends(rules, keys) :
             /\ \A j \in Ends(rules, keys) : i <= j
             /\ CheckResponse(rules, keys, FALSE) = CheckRule(rules[i], keys)
<1> DEFINE ends == Ends(rules, keys)
           least == CHOOSE i \in ends : \A j \in ends : i <= j
<1>1. ends \in SUBSET Nat
  BY DEF IsSequence, Ends
<1>2. least \in ends /\ \A j \in ends : least <= j
  BY <1>1, LeastNumber
<1>3. CheckResponse(rules, keys, FALSE) = CheckRule(rules[least], keys)
  BY DEF CheckResponse, Ends
<1> QED
  BY <1>2, <1>3

LEMMA RulesDecide ==
    ASSUME NEW rules, NEW keys, IsRules(rules)
    PROVE  Accepts(CheckResponse(rules, keys, FALSE))
             <=> \A i \in Seen(rules) : Alone(rules[i], keys)
<1> DEFINE ends == Ends(rules, keys)
<1>1. IsSequence(rules) /\ \A i \in DOMAIN rules : i \in Nat /\ rules[i].deferred \in BOOLEAN
  BY DEF IsRules, IsSequence
<1>2. \A i \in Seen(rules) : /\ i \in DOMAIN rules /\ rules[i].deferred = FALSE
                             /\ Alone(rules[i], keys) <=> Accepts(CheckRule(rules[i], keys))
  BY <1>1, AloneDecides DEF Seen
<1>3. CASE ends = {}
  <2>1. Accepts(CheckResponse(rules, keys, FALSE))
    BY <1>3 DEF CheckResponse, Ends, Accepts
  <2>2. \A i \in Seen(rules) : CheckRule(rules[i], keys) = "next"
    BY <1>2, <1>3 DEF Ends
  <2> QED
    BY <1>2, <2>1, <2>2 DEF Accepts
<1>4. CASE ends # {}
  <2>1. PICK i \in ends : /\ \A j \in ends : i <= j
                          /\ CheckResponse(rules, keys, FALSE) = CheckRule(rules[i], keys)
    BY <1>1, <1>4, FirstDecides
  <2>2. i \in DOMAIN rules /\ rules[i].deferred = FALSE /\ i \in Nat
    BY <1>1, <2>1 DEF Ends
  <2>3. \A j \in DOMAIN rules : rules[j].deferred = FALSE /\ rules[j].type = "json" => i <= j
    BY <2>1, OnlyJsonAccepts DEF Ends
  <2>4. i \in Seen(rules)
    BY <1>1, <2>2, <2>3 DEF Seen
  <2>5. ASSUME Accepts(CheckResponse(rules, keys, FALSE)), NEW j \in Seen(rules)
        PROVE  Alone(rules[j], keys)
    <3>1. rules[i].type = "json"
      BY <2>1, <2>5, OnlyJsonAccepts DEF Accepts, Ends
    <3>2. j <= i
      BY <1>1, <2>2, <2>5, <3>1 DEF Seen
    <3>3. j \in ends => j = i
      BY <1>1, <1>2, <2>1, <2>2, <2>5, <3>2
    <3>4. j \notin ends => CheckRule(rules[j], keys) = "next"
      BY <1>2, <2>5 DEF Ends
    <3> QED
      BY <1>2, <2>1, <2>5, <3>3, <3>4 DEF Accepts
  <2> QED
    BY <1>2, <2>1, <2>4, <2>5
<1> QED
  BY <1>3, <1>4

\* what is known of an answer that has been judged
Judged(v) ==
    v.outcome # "none" =>
        /\ IsRules(v.rules)
        /\ v.outcome = "ok" <=> Accepts(CheckResponse(v.rules, v.keys, FALSE))

VerdictInv ==
    /\ verdicts = [w \in Threads |-> verdicts[w]]
    /\ \A w \in Threads : Judged(verdicts[w])

LEMMA JudgedAnswer ==
    ASSUME TypeInv, VerdictInv, NEW w \in Threads, pc[w] = "sent", NEW resp, Judge(w, resp)
    PROVE  VerdictInv'
<1> DEFINE r == ProcessResponse(w, resp)
           v == [rules |-> Line(ctx[w]).rules, outcome |-> r.outcome, keys |-> r.cache.runtime]
<1>1. verdicts' = IF r.checked THEN [verdicts EXCEPT ![w] = v] ELSE verdicts
  BY DEF Judge
<1>2. IsRules(Line(ctx[w]).rules)
  <2>1. AtPoint(setup, ctx[w], pc[w]) /\ setup \in Setups
    BY DEF TypeInv, ContextInv
  <2>2. /\ ctx[w].scn \in DOMAIN setup.scenarios /\ ctx[w].line # 0
        /\ ctx[w].line \in 0..Len(setup.scenarios[ctx[w].scn].lines)
    BY <2>1 DEF AtPoint, Located
  <2>3. /\ IsSequence(setup.scenarios[ctx[w].scn].lines)
        /\ \A j \in DOMAIN setup.scenarios[ctx[w].scn].lines :
             IsRules(setup.scenarios[ctx[w].scn].lines[j].rules)
    BY <2>1, <2>2, SetupsAssumption DEF IsScenario, IsStep
  <2>4. ctx[w].line \in DOMAIN setup.scenarios[ctx[w].scn].lines
    BY <2>2, <2>3 DEF IsSequence
  <2> QED
    BY <2>3, <2>4 DEF Line, Scenario
<1>3. r.checked =>
        r.outcome = IF Accepts(CheckResponse(Line(ctx[w]).rules, r.cache.runtime, FALSE))
                       THEN "ok" ELSE "fatal"
  BY DEF ProcessResponse
<1> HIDE DEF r
<1>4. r.checked => Judged(v)
  BY <1>2, <1>3 DEF Judged
<1> HIDE DEF v
<1>5. \A x \in Threads : verdicts'[x] = verdicts[x] \/ (r.checked /\ verdicts'[x] = v)
  BY <1>1 DEF VerdictInv
<1>6. \A x \in Threads : Judged(verdicts'[x])
  BY <1>4, <1>5 DEF VerdictInv
<1>7. verdicts' = [x \in Threads |-> verdicts'[x]]
  BY <1>1 DEF VerdictInv
<1> QED
  BY <1>6, <1>7 DEF VerdictInv, Judged

LEMMA VerdictNext == TypeInv /\ VerdictInv /\ [Next]_vars => VerdictInv'
<1> SUFFICES ASSUME TypeInv, VerdictInv, [Next]_vars PROVE VerdictInv'
  OBVIOUS
<1>1. UNCHANGED verdicts => VerdictInv'
  BY DEF VerdictInv, Judged
<1>2. ASSUME NEW w \in Threads, Answer(w)
      PROVE  VerdictInv'
  <2>1. pc[w] = "sent"
    BY <1>2 DEF Answer
  <2>2. UNCHANGED verdicts \/ \E resp : Judge(w, resp)
    BY <1>2 DEF Answer, Stop, Refuse
  <2> QED
    BY <1>1, <2>1, <2>2, JudgedAnswer
<1>3. ASSUME NEW w \in Threads,
             ProcessScenario(w) \/ NextScenario(w) \/ SendData(w) \/ EndOfSteps(w) \/ AfterStep(w)
      PROVE  UNCHANGED verdicts
  <2>1. ProcessScenario(w) => UNCHANGED verdicts
    BY DEF ProcessScenario, histVars
  <2>2. NextScenario(w) \/ EndOfSteps(w) => UNCHANGED verdicts
    BY DEF NextScenario, EndOfSteps, histVars
  <2>3. SendData(w) => UNCHANGED verdicts
    BY DEF SendData
  <2>4. AfterStep(w) => UNCHANGED verdicts
    BY DEF AfterStep, histVars
  <2> QED
    BY <1>3, <2>1, <2>2, <2>3, <2>4
<1>4. ASSUME NEW id \in DOMAIN store, Notify(id) \/ TimeOut(id)
      PROVE  UNCHANGED verdicts
  BY <1>4 DEF Notify, TimeOut, histVars
<1>5. Event \/ UNCHANGED vars => UNCHANGED verdicts
  BY DEF Event, vars, histVars
<1> QED
  BY <1>1, <1>2, <1>3, <1>4, <1>5 DEF Next

LEMMA VerdictIsThatOfRules == VerdictInv => VerdictIsRight
<1> SUFFICES ASSUME VerdictInv, NEW w \in Threads, verdicts[w].outcome # "none"
             PROVE  verdicts[w].outcome = "ok"
                      <=> \A i \in Seen(verdicts[w].rules) :
                            Alone(verdicts[w].rules[i], verdicts[w].keys)
  BY DEF VerdictIsRight, Seen
<1> QED
  BY RulesDecide DEF VerdictInv, Judged

\* The rules of a step are applied in their order and the first that does not lead to the
\* next decides: a run is ended exactly when one of them, up to the first JSON rule, is not
\* respected on its own, whatever the rules and the keys are (Line.checkResponse()).
THEOREM VerdictsAreRight == Spec => []VerdictIsRight
<1>1. Init => VerdictInv
  <2> SUFFICES ASSUME Init PROVE VerdictInv
    OBVIOUS
  <2>1. verdicts = [w \in Threads |-> NoVerdict]
    BY DEF Init
  <2>2. \A w \in Threads : verdicts[w].outcome = "none"
    BY <2>1 DEF NoVerdict
  <2> QED
    BY <2>1, <2>2 DEF VerdictInv, Judged
<1> QED
  BY <1>1, TypesAreKept, VerdictNext, VerdictIsThatOfRules, PTL DEF Spec
=============================================================================
