------------------------ MODULE ContextRouter_proofs ------------------------
(***************************************************************************)
(* Theorems about ContextRouter, for any sets of registrations,            *)
(* identifiers and requests, and any number of notifications.              *)
(***************************************************************************)
EXTENDS ContextRouter, FiniteSetTheorems, TLAPS

(* The inductive invariant.                                                *)

\* What the cache has under an identifier was registered for it.
CacheInv == \A k \in Key : cache[k] # NoReg => cache[k] \in created /\ KeyOf[cache[k]] = k

\* The counter goes down to one, and the notifications that it has passed are kept.
CountInv ==
    \A r \in Reg :
        /\ r \in created => count[r] \in 1..Count[r]
        /\ Count[r] > 1 => slots[r] \subseteq 1..Count[r]
        /\ r \in created /\ Count[r] > 1 => count[r] + 1..Count[r] \subseteq slots[r]

\* The last notification that was asked for has been counted.
Full(r) ==
    /\ r \in created /\ count[r] = 1
    /\ Count[r] > 1 => slots[r] = 1..Count[r]

\* A request notifies a registered identifier; beyond the counting, it works on the entry
\* of its identifier and carries all notifications.
Serves(q) ==
    /\ qpc[q] # "idle" => \E r \in created : KeyOf[r] = qkey[q]
    /\ qpc[q] \in {"check", "collect"} => qkey[q] \in PathKey
    /\ qpc[q] = "collect" => \E r \in created : KeyOf[r] = qkey[q] /\ Full(r)
    /\ qpc[q] = "find" /\ qkey[q] \in PathKey => KeyOf[qmap[q]] = qkey[q] /\ Full(qmap[q])
    /\ qpc[q] \in {"post", "remove"} =>
         /\ qreg[q] \in created /\ KeyOf[qreg[q]] = qkey[q]
         /\ qkey[q] \in PathKey => Full(qreg[q])
    /\ qpc[q] = "post" /\ qkey[q] \in PathKey /\ Count[qreg[q]] > 1 =>
         qdata[q] = 1..Count[qreg[q]]
    /\ qpc[q] = "remove" => delivered[qreg[q]] > 0

RequestInv == \A q \in Request : Serves(q)

\* The requests whose message is still to be posted.
Pending(r) == {q \in Request : qpc[q] \notin {"idle", "remove"} /\ qkey[q] = KeyOf[r]}

\* Each notification is spent once: on the counter or on a message.
Budget(r) ==
    /\ r \notin created => delivered[r] = 0
    /\ KeyOf[r] \in PathKey /\ delivered[r] > 0 => count[r] = 1
    /\ r \in created =>
         Count[r] - count[r] + Cardinality(Pending(r)) + delivered[r] <= notified[KeyOf[r]]

BudgetInv == \A r \in Reg : Budget(r)

SafetyInv == CacheInv /\ CountInv /\ RequestInv /\ BudgetInv /\ RemovalIsAccounted

-----------------------------------------------------------------------------
(* Types.                                                                  *)

\* The actions of Next, in the groups that the proofs go through.
WorkerStep == \E r \in Reg : Create(r) \/ Delete(r) \/ GrowOld(r)
ServiceStep == \E q \in Request, k \in Key : Notify(q, k)
RequestsStep == \E q \in Request : RequestStep(q)

LEMMA Steps == Next <=> WorkerStep \/ ServiceStep \/ RequestsStep \/ CleanerStep \/ CleanerStops
  BY DEF Next, WorkerStep, ServiceStep, RequestsStep

LEMMA InitType == Init => TypeOK
  BY RouterAssumption DEF Init, TypeOK, RequestPC, CleanerPC

\* A step of a worker or of the service preserves the types,
LEMMA ClientStepType == ASSUME TypeOK, WorkerStep \/ ServiceStep PROVE TypeOK'
<1> USE RouterAssumption DEF TypeOK, RequestPC, CleanerPC, entryVars, requestVars, cleanerVars,
        histVars
<1>1. ASSUME NEW r \in Reg, Create(r) PROVE TypeOK'
  BY <1>1 DEF Create
<1>2. ASSUME NEW r \in Reg, Delete(r) PROVE TypeOK'
  BY <1>2 DEF Delete, RemoveKey
<1>3. ASSUME NEW r \in Reg, GrowOld(r) PROVE TypeOK'
  BY <1>3 DEF GrowOld
<1>4. ASSUME NEW q \in Request, NEW k \in Key, Notify(q, k) PROVE TypeOK'
  BY <1>4 DEF Notify, QGoto
<1> QED
  BY <1>1, <1>2, <1>3, <1>4 DEF WorkerStep, ServiceStep

\* so does a step of a request,
LEMMA RequestStepType == ASSUME TypeOK, NEW q \in Request, RequestStep(q) PROVE TypeOK'
<1> USE RouterAssumption DEF TypeOK, RequestPC, CleanerPC, entryVars, requestVars, cleanerVars,
        histVars
<1>1. CASE CheckNotifications(q)
  <2> DEFINE r == cache[qkey[q]]
  <2>1. /\ r \in Reg /\ qpc[q] = "check"
        /\ slots' = [slots EXCEPT ![r] = @ \cup {IF Count[r] > 1 THEN count[r] ELSE 0}]
        /\ received' = [received EXCEPT ![r] = @ + 1]
        /\ UNCHANGED <<cache, names, notified, cleanerVars, old, created, withdrawn, reaped,
                       failed, delivered>>
    BY <1>1 DEF CheckNotifications
  <2>2. slots' \in [Reg -> SUBSET Nat] /\ received' \in [Reg -> Nat]
    BY <2>1
  <2>3. CASE count[r] > 1
    <3>1. count' = [count EXCEPT ![r] = @ - 1] /\ Answer(q)
      BY <1>1, <2>3 DEF CheckNotifications
    <3>2. count' \in [Reg -> Nat]
      BY <2>1, <2>3, <3>1
    <3> QED
      BY <2>1, <2>2, <3>1, <3>2 DEF Answer
  <2>4. CASE ~(count[r] > 1)
    <3>1. QGoto(q, "collect") /\ UNCHANGED <<count, qkey, qmap, qreg, qdata>>
      BY <1>1, <2>4 DEF CheckNotifications
    <3> QED
      BY <2>1, <2>2, <3>1 DEF QGoto
  <2> QED
    BY <2>3, <2>4
<1>2. CASE UnknownKey(q)
  BY <1>2 DEF UnknownKey, Answer
<1>3. CASE CollectOutputMap(q)
  BY <1>3 DEF CollectOutputMap, QGoto
<1>4. CASE FindInContext(q)
  BY <1>4 DEF FindInContext, QGoto
<1>5. CASE PostAccepted(q)
  BY <1>5 DEF PostAccepted, QGoto
<1>6. CASE PostFails(q)
  BY <1>6 DEF PostFails, Answer
<1>7. CASE RemoveNotified(q)
  BY <1>7 DEF RemoveNotified, RemoveKey, Answer
<1> QED
  BY <1>1, <1>2, <1>3, <1>4, <1>5, <1>6, <1>7 DEF RequestStep

\* and a step of the cleaner.
LEMMA CleanerStepType == ASSUME TypeOK, CleanerStep \/ CleanerStops PROVE TypeOK'
<1> USE RouterAssumption DEF TypeOK, RequestPC, CleanerPC, entryVars, requestVars, cleanerVars,
        histVars
<1>1. CASE CleanerStart \/ CleanerFails \/ CleanerKeys \/ CleanerDone \/ CleanerStops
  BY <1>1 DEF CleanerStart, CleanerFails, CleanerKeys, CleanerDone, CleanerStops
<1>2. ASSUME NEW n \in Name, CleanerVisit(n) PROVE TypeOK'
  BY <1>2 DEF CleanerVisit
<1>3. ASSUME NEW k \in Key, CleanerRemove(k) PROVE TypeOK'
  BY <1>3 DEF CleanerRemove, RemoveKey
<1> QED
  BY <1>1, <1>2, <1>3 DEF CleanerStep

LEMMA StepType == ASSUME TypeOK, Next PROVE TypeOK'
  BY Steps, ClientStepType, RequestStepType, CleanerStepType DEF RequestsStep

LEMMA StutterType == TypeOK /\ UNCHANGED vars => TypeOK'
  BY DEF TypeOK, vars, entryVars, requestVars, cleanerVars, histVars

\* The requests, the cache and the cleaner keep their types, with any number of each.
THEOREM RouterTypes == Spec => []TypeOK
<1>1. TypeOK /\ [Next]_vars => TypeOK'
  BY StepType, StutterType
<1> QED
  BY InitType, <1>1, PTL DEF Spec

-----------------------------------------------------------------------------
(* Safety.  A step changes what the invariant is about, or is quiet.       *)

Quiet ==
    UNCHANGED <<cache, count, slots, qpc, qkey, qmap, qreg, qdata, notified, created, withdrawn,
                reaped, delivered>>

LEMMA QuietSteps ==
    ASSUME Next
    PROVE  \/ \E r \in Reg : Create(r) \/ Delete(r)
           \/ \E q \in Request, k \in Key : Notify(q, k)
           \/ \E q \in Request : RequestStep(q)
           \/ \E k \in Key : CleanerRemove(k)
           \/ Quiet
<1> USE DEF Quiet, entryVars, requestVars, cleanerVars, histVars
<1>1. ASSUME NEW r \in Reg, GrowOld(r) PROVE Quiet
  BY <1>1 DEF GrowOld
<1>2. ASSUME NEW n \in Name, CleanerVisit(n) PROVE Quiet
  BY <1>2 DEF CleanerVisit
<1>3. ASSUME CleanerStart \/ CleanerFails \/ CleanerKeys \/ CleanerDone \/ CleanerStops
      PROVE  Quiet
  BY <1>3 DEF CleanerStart, CleanerFails, CleanerKeys, CleanerDone, CleanerStops
<1> QED
  BY <1>1, <1>2, <1>3 DEF Next, CleanerStep

LEMMA QuietSafety == SafetyInv /\ Quiet => SafetyInv'
  BY DEF SafetyInv, Quiet, CacheInv, CountInv, Full, Serves, RequestInv, Pending, Budget,
         BudgetInv, RemovalIsAccounted, Stored

\* The requests that wait to post are finitely many; one of them that goes leaves one less.
LEMMA PendingIsFinite ==
    ASSUME NEW r PROVE IsFiniteSet(Pending(r)) /\ Cardinality(Pending(r)) \in Nat
<1>1. Pending(r) \in SUBSET Request
  BY DEF Pending
<1> QED
  BY <1>1, RouterAssumption, FS_Subset, FS_CardinalityType

LEMMA PendingGoes ==
    ASSUME TypeOK, NEW r \in Reg, NEW q \in Request, q \in Pending(r),
           Pending(r)' = Pending(r) \ {q}
    PROVE  Cardinality(Pending(r)') = Cardinality(Pending(r)) - 1
<1>1. IsFiniteSet(Pending(r))
  BY PendingIsFinite
<1>2. Cardinality(Pending(r) \ {q}) = Cardinality(Pending(r)) - 1
  BY <1>1, FS_RemoveElement
<1> QED
  BY <1>2

LEMMA InitSafety == ASSUME Init PROVE SafetyInv
<1>1. CacheInv /\ CountInv /\ RequestInv /\ RemovalIsAccounted
  BY RouterAssumption
     DEF Init, CacheInv, CountInv, RequestInv, Serves, RemovalIsAccounted
<1>2. BudgetInv
  BY DEF Init, BudgetInv, Budget
<1> QED
  BY <1>1, <1>2 DEF SafetyInv

\* A request that a step leaves alone is served as before, as long as what is full stays full.
Untouched(q) ==
    /\ qpc'[q] = qpc[q] /\ qkey'[q] = qkey[q] /\ qmap'[q] = qmap[q]
    /\ qreg'[q] = qreg[q] /\ qdata'[q] = qdata[q]

Monotonic ==
    /\ created \subseteq created'
    /\ \A r \in Reg : Full(r) => Full(r)'
    /\ \A r \in Reg : delivered[r] > 0 => delivered'[r] > 0

LEMMA OthersServe ==
    ASSUME TypeOK, NEW q \in Request, Serves(q), Untouched(q), Monotonic
    PROVE  Serves(q)'
<1>1. created \subseteq Reg
  BY DEF TypeOK
<1>2. \A r \in created :
        count[r] = 1 /\ (Count[r] > 1 => slots[r] = 1..Count[r]) =>
            /\ r \in created' /\ count'[r] = 1
            /\ Count[r] > 1 => slots'[r] = 1..Count[r]
  BY <1>1 DEF Full, Monotonic
<1>3. (qpc[q] # "idle" => \E r \in created : KeyOf[r] = qkey[q])'
  BY DEF Serves, Untouched, Monotonic
<1>4. (qpc[q] = "collect" => \E r \in created : KeyOf[r] = qkey[q] /\ Full(r))'
  <2> SUFFICES ASSUME qpc[q] = "collect"
               PROVE  (\E r \in created : KeyOf[r] = qkey[q] /\ Full(r))'
    BY DEF Untouched
  <2>1. PICK r \in created : KeyOf[r] = qkey[q] /\ Full(r)
    BY DEF Serves
  <2>2. r \in created' /\ KeyOf[r] = qkey'[q] /\ Full(r)'
    BY <1>1, <2>1 DEF Untouched, Monotonic
  <2> QED
    BY <2>2
<1>5. (qpc[q] = "find" /\ qkey[q] \in PathKey => KeyOf[qmap[q]] = qkey[q] /\ Full(qmap[q]))'
  <2> DEFINE r == qmap[q]
  <2> HIDE DEF r
  <2>1. CASE qpc[q] = "find" /\ qkey[q] \in PathKey
    <3>1. KeyOf[r] = qkey[q] /\ Full(r)
      BY <2>1 DEF Serves, r
    <3>2. /\ r \in created' /\ count'[r] = 1
          /\ Count[r] > 1 => slots'[r] = 1..Count[r]
      BY <1>2, <3>1 DEF Full
    <3>3. qmap'[q] = r /\ qkey'[q] = qkey[q]
      BY DEF Untouched, r
    <3> QED
      BY <3>1, <3>2, <3>3 DEF Full
  <2> QED
    BY <2>1 DEF Untouched
<1>6. (qpc[q] \in {"post", "remove"} =>
         /\ qreg[q] \in created /\ KeyOf[qreg[q]] = qkey[q]
         /\ qkey[q] \in PathKey => Full(qreg[q]))'
  <2> DEFINE r == qreg[q]
  <2> HIDE DEF r
  <2>1. CASE qpc[q] \in {"post", "remove"}
    <3>1. r \in created /\ KeyOf[r] = qkey[q] /\ (qkey[q] \in PathKey => Full(r))
      BY <2>1 DEF Serves, r
    <3>2. qkey[q] \in PathKey => /\ r \in created' /\ count'[r] = 1
                                 /\ Count[r] > 1 => slots'[r] = 1..Count[r]
      BY <1>2, <3>1 DEF Full
    <3>3. qreg'[q] = r /\ qkey'[q] = qkey[q] /\ r \in created'
      BY <3>1 DEF Untouched, Monotonic, r
    <3> QED
      BY <3>1, <3>2, <3>3 DEF Full
  <2> QED
    BY <2>1 DEF Untouched
<1>7. (/\ qpc[q] \in {"check", "collect"} => qkey[q] \in PathKey
       /\ qpc[q] = "post" /\ qkey[q] \in PathKey /\ Count[qreg[q]] > 1 =>
            qdata[q] = 1..Count[qreg[q]]
       /\ qpc[q] = "remove" => delivered[qreg[q]] > 0)'
  BY <1>1 DEF Serves, Untouched, Monotonic
<1> QED
  BY <1>3, <1>4, <1>5, <1>6, <1>7 DEF Serves

\* What is full stays full where the entries do not change.
LEMMA SameEntries ==
    ASSUME UNCHANGED <<count, slots, created>>, \A r \in Reg : delivered[r] > 0 => delivered'[r] > 0
    PROVE  Monotonic /\ \A r \in Reg : Full(r) = Full(r)'
  BY DEF Monotonic, Full

\* The budget of a registration for which no message is posted.
LEMMA SameBudget ==
    ASSUME TypeOK, NEW r \in Reg, Budget(r), r \in created <=> r \in created',
           delivered'[r] = delivered[r], count'[r] = count[r],
           notified'[KeyOf[r]] = notified[KeyOf[r]],
           Pending(r)' = Pending(r)
    PROVE  Budget(r)'
  BY DEF Budget

\* createContext()
LEMMA CreateSafety ==
    ASSUME UniqueKeys, TypeOK, SafetyInv, NEW r \in Reg, Create(r)
    PROVE  SafetyInv'
<1> USE RouterAssumption DEF SafetyInv
<1>1. /\ r \notin created /\ created' = created \cup {r}
      /\ cache' = [cache EXCEPT ![KeyOf[r]] = r]
      /\ count' = [count EXCEPT ![r] = Count[r]]
      /\ UNCHANGED <<slots, qpc, qkey, qmap, qreg, qdata, notified, withdrawn, reaped, delivered>>
  BY DEF Create, requestVars
<1>2. CacheInv'
  BY <1>1 DEF CacheInv, TypeOK
<1>3. CountInv'
  BY <1>1 DEF CountInv, TypeOK
<1>4. RequestInv'
  <2>1. Monotonic
    BY <1>1 DEF Monotonic, Full, TypeOK
  <2>2. \A q \in Request : Untouched(q)
    BY <1>1 DEF Untouched
  <2> QED
    BY <2>1, <2>2, OthersServe DEF RequestInv
<1>5. BudgetInv'
  <2> SUFFICES ASSUME NEW s \in Reg PROVE Budget(s)'
    BY DEF BudgetInv
  <2>1. Pending(s)' = Pending(s)
    BY <1>1 DEF Pending
  <2>2. CASE s # r
    <3>1. Budget(s) /\ (s \in created <=> s \in created') /\ count'[s] = count[s]
      BY <1>1, <2>2 DEF BudgetInv, TypeOK
    <3> QED
      BY <1>1, <2>1, <3>1, SameBudget
  <2>3. CASE s = r
    <3>1. Pending(r) = {}
      BY <1>1 DEF Pending, RequestInv, Serves, UniqueKeys, TypeOK
    <3>2. Cardinality(Pending(r)) = 0
      BY <3>1, FS_EmptySet
    <3>3. delivered[r] = 0 /\ notified[KeyOf[r]] \in Nat /\ Count[r] \in Nat
      BY <1>1 DEF BudgetInv, Budget, TypeOK
    <3>4. delivered'[r] = 0 /\ count'[r] = Count[r] /\ notified' = notified
      BY <1>1, <3>3 DEF TypeOK
    <3> QED
      BY <2>1, <2>3, <3>2, <3>3, <3>4 DEF Budget
  <2> QED
    BY <2>2, <2>3
<1>6. RemovalIsAccounted'
  BY <1>1 DEF RemovalIsAccounted, Stored, UniqueKeys, TypeOK
<1> QED
  BY <1>2, <1>3, <1>4, <1>5, <1>6

\* deleteContext(), and the removal by the cleaner
LEMMA RemovalSafety ==
    ASSUME UniqueKeys, TypeOK, SafetyInv,
           (\E r \in Reg : Delete(r)) \/ \E k \in Key : CleanerRemove(k)
    PROVE  SafetyInv'
<1> USE RouterAssumption DEF SafetyInv
<1>1. UNCHANGED <<count, slots, qpc, qkey, qmap, qreg, qdata, notified, created, delivered>>
  BY DEF Delete, CleanerRemove, requestVars
<1>2. \E k \in Key : cache' = [cache EXCEPT ![k] = NoReg]
  BY DEF Delete, CleanerRemove, RemoveKey
<1>3. CacheInv'
  BY <1>1, <1>2 DEF CacheInv, TypeOK
<1>4. CountInv' /\ RequestInv' /\ BudgetInv'
  <2>1. Monotonic
    BY <1>1, SameEntries
  <2>2. \A q \in Request : Untouched(q)
    BY <1>1 DEF Untouched
  <2>3. RequestInv'
    BY <2>1, <2>2, OthersServe DEF RequestInv
  <2>4. \A r \in Reg : Pending(r)' = Pending(r)
    BY <1>1 DEF Pending
  <2>5. BudgetInv'
    BY <1>1, <2>4, SameBudget DEF BudgetInv
  <2>6. CountInv'
    BY <1>1 DEF CountInv
  <2> QED
    BY <2>3, <2>5, <2>6
<1>5. RemovalIsAccounted'
  <2>1. ASSUME NEW r \in Reg, Delete(r) PROVE RemovalIsAccounted'
    BY <2>1 DEF Delete, RemoveKey, RemovalIsAccounted, Stored, UniqueKeys, TypeOK
  <2>2. ASSUME NEW k \in Key, CleanerRemove(k) PROVE RemovalIsAccounted'
    BY <2>2 DEF CleanerRemove, RemoveKey, RemovalIsAccounted, Stored, TypeOK
  <2> QED
    BY <2>1, <2>2
<1> QED
  BY <1>3, <1>4, <1>5

\* A request that is answered waits for nothing.
LEMMA AnswerLeaves ==
    ASSUME TypeOK, NEW q \in Request, Answer(q)
    PROVE  /\ Serves(q)'
           /\ \A p \in Request \ {q} : Untouched(p)
           /\ \A r \in Reg : Pending(r)' = Pending(r) \ {q}
<1>1. qpc'[q] = "idle" /\ \A p \in Request \ {q} : Untouched(p)
  BY DEF Answer, Untouched, TypeOK
<1>2. Serves(q)'
  BY <1>1 DEF Serves
<1>3. \A r \in Reg : Pending(r)' = Pending(r) \ {q}
  BY <1>1 DEF Pending, Untouched
<1> QED
  BY <1>1, <1>2, <1>3

\* A request that no longer waits to post leaves the rest of the budget as it is.
LEMMA LessBudget ==
    ASSUME TypeOK, NEW r \in Reg, NEW q \in Request, Budget(r), UNCHANGED created,
           delivered'[r] = delivered[r], count'[r] = count[r],
           notified'[KeyOf[r]] = notified[KeyOf[r]],
           Pending(r)' = Pending(r) \ {q}
    PROVE  Budget(r)'
<1>1. Cardinality(Pending(r)) \in Nat /\ Cardinality(Pending(r)') \in Nat
  BY PendingIsFinite, FS_RemoveElement, FS_CardinalityType
<1>2. Cardinality(Pending(r)') <= Cardinality(Pending(r))
  <2>1. IsFiniteSet(Pending(r))
    BY PendingIsFinite
  <2>2. CASE q \in Pending(r)
    <3>1. Cardinality(Pending(r) \ {q}) = Cardinality(Pending(r)) - 1
      BY <2>1, <2>2, FS_RemoveElement
    <3>2. Cardinality(Pending(r)') = Cardinality(Pending(r)) - 1
      BY <3>1
    <3> QED
      BY <1>1, <3>2
  <2>3. CASE q \notin Pending(r)
    <3>1. Pending(r)' = Pending(r)
      BY <2>3
    <3>2. Cardinality(Pending(r)') = Cardinality(Pending(r))
      BY <3>1
    <3> QED
      BY <1>1, <3>2
  <2> QED
    BY <2>2, <2>3
<1>3. Count[r] \in Nat /\ count[r] \in Nat /\ delivered[r] \in Nat /\ notified[KeyOf[r]] \in Nat
  BY RouterAssumption DEF TypeOK
<1> QED
  BY <1>1, <1>2, <1>3 DEF Budget

\* updateContext(), updateFromHeader(), updateFromPath(): a notification comes.
LEMMA NotifySafety ==
    ASSUME TypeOK, SafetyInv, NEW q \in Request, NEW k \in Key, Notify(q, k)
    PROVE  SafetyInv'
<1> USE RouterAssumption DEF SafetyInv
<1>1. /\ qpc[q] = "idle" /\ \E r \in created : KeyOf[r] = k
      /\ notified' = [notified EXCEPT ![k] = @ + 1]
      /\ qkey' = [qkey EXCEPT ![q] = k]
      /\ qpc' = [qpc EXCEPT ![q] = IF k \in PathKey THEN "check" ELSE "find"]
      /\ UNCHANGED <<cache, count, slots, qmap, qreg, qdata, created, withdrawn, reaped, delivered>>
  BY DEF Notify, QGoto, entryVars, histVars
<1>2. Monotonic
  BY <1>1, SameEntries
<1>3. RequestInv'
  <2>1. \A p \in Request \ {q} : Serves(p)'
    BY <1>1, <1>2, OthersServe DEF RequestInv, Untouched, TypeOK
  <2>2. qkey'[q] = k /\ qpc'[q] = IF k \in PathKey THEN "check" ELSE "find"
    BY <1>1 DEF TypeOK
  <2>3. Serves(q)'
    BY <1>1, <2>2 DEF Serves
  <2> QED
    BY <2>1, <2>3 DEF RequestInv
<1>4. BudgetInv'
  <2> SUFFICES ASSUME NEW r \in Reg PROVE Budget(r)'
    BY DEF BudgetInv
  <2>1. Budget(r)
    BY DEF BudgetInv
  <2>2. CASE KeyOf[r] = k
    <3>1. Pending(r)' = Pending(r) \cup {q} /\ q \notin Pending(r)
      BY <1>1, <2>2 DEF Pending, TypeOK
    <3>2. Cardinality(Pending(r)') = Cardinality(Pending(r)) + 1
      BY <3>1, PendingIsFinite, FS_AddElement
    <3>3. /\ Count[r] \in Nat /\ count[r] \in Nat /\ delivered[r] \in Nat
          /\ notified[k] \in Nat /\ Cardinality(Pending(r)) \in Nat
      BY PendingIsFinite DEF TypeOK
    <3>4. notified'[KeyOf[r]] = notified[KeyOf[r]] + 1
      BY <1>1, <2>2 DEF TypeOK
    <3> QED
      BY <1>1, <2>1, <2>2, <3>2, <3>3, <3>4 DEF Budget
  <2>3. CASE KeyOf[r] # k
    <3>1. Pending(r)' = Pending(r)
      BY <1>1, <2>3 DEF Pending, TypeOK
    <3>2. notified'[KeyOf[r]] = notified[KeyOf[r]]
      BY <1>1, <2>3 DEF TypeOK
    <3> QED
      BY <1>1, <2>1, <3>1, <3>2, SameBudget
  <2> QED
    BY <2>2, <2>3
<1>5. CacheInv' /\ CountInv' /\ RemovalIsAccounted'
  BY <1>1 DEF CacheInv, CountInv, RemovalIsAccounted, Stored
<1> QED
  BY <1>3, <1>4, <1>5

\* checkNotifications(): a notification is counted.
LEMMA CheckSafety ==
    ASSUME UniqueKeys, TypeOK, SafetyInv, NEW q \in Request, CheckNotifications(q)
    PROVE  SafetyInv'
<1> USE RouterAssumption DEF SafetyInv
<1>1. PICK r \in Reg :
         /\ r = cache[qkey[q]] /\ qpc[q] = "check"
         /\ slots' = [slots EXCEPT ![r] = @ \cup {IF Count[r] > 1 THEN count[r] ELSE 0}]
         /\ UNCHANGED <<cache, notified, created, withdrawn, reaped, delivered>>
  BY DEF CheckNotifications, TypeOK
<1>2. \/ count[r] > 1 /\ count' = [count EXCEPT ![r] = @ - 1] /\ Answer(q)
      \/ ~(count[r] > 1) /\ QGoto(q, "collect") /\ UNCHANGED <<count, qkey, qmap, qreg, qdata>>
  BY <1>1 DEF CheckNotifications
<1>3. r \in created /\ KeyOf[r] = qkey[q] /\ qkey[q] \in PathKey
  BY <1>1 DEF CacheInv, RequestInv, Serves, TypeOK
<1>4. CacheInv' /\ RemovalIsAccounted'
  BY <1>1 DEF CacheInv, RemovalIsAccounted, Stored
<1>5. /\ count[r] \in 1..Count[r] /\ Count[r] \in Nat
      /\ Count[r] > 1 => slots[r] \subseteq 1..Count[r] /\ count[r] + 1..Count[r] \subseteq slots[r]
  BY <1>3 DEF CountInv
<1>6. slots'[r] = slots[r] \cup {IF Count[r] > 1 THEN count[r] ELSE 0}
  BY <1>1, <1>3 DEF TypeOK
<1>7. CASE count[r] > 1 /\ count' = [count EXCEPT ![r] = @ - 1] /\ Answer(q)
  <2>1. /\ count'[r] = count[r] - 1
        /\ \A s \in Reg \ {r} : count'[s] = count[s] /\ slots'[s] = slots[s]
    BY <1>1, <1>3, <1>7 DEF TypeOK
  <2>2. CountInv'
    <3>1. /\ count'[r] \in 1..Count[r]
          /\ Count[r] > 1 => slots'[r] \subseteq 1..Count[r]
      BY <1>5, <1>6, <1>7, <2>1
    <3>2. Count[r] > 1 => count'[r] + 1..Count[r] \subseteq slots'[r]
      BY <1>5, <1>6, <1>7, <2>1
    <3> QED
      BY <1>1, <2>1, <3>1, <3>2 DEF CountInv
  <2>3. Monotonic
    BY <1>1, <1>7, <2>1 DEF Monotonic, Full
  <2>4. RequestInv'
    BY <1>7, <2>3, AnswerLeaves, OthersServe DEF RequestInv
  <2>5. BudgetInv'
    <3> SUFFICES ASSUME NEW s \in Reg PROVE Budget(s)'
      BY DEF BudgetInv
    <3>1. Budget(s) /\ Pending(s)' = Pending(s) \ {q}
      BY <1>7, AnswerLeaves DEF BudgetInv
    <3>2. CASE s # r
      BY <1>1, <2>1, <3>1, <3>2, LessBudget
    <3>3. CASE s = r
      <4>1. q \in Pending(r)
        BY <1>1, <1>3 DEF Pending
      <4>2. Cardinality(Pending(r)') = Cardinality(Pending(r)) - 1
        BY <3>1, <3>3, <4>1, PendingGoes
      <4>3. delivered[r] \in Nat /\ notified[KeyOf[r]] \in Nat /\ Cardinality(Pending(r)) \in Nat
        BY <1>3, PendingIsFinite DEF TypeOK
      <4>4. ~(delivered[r] > 0)
        BY <1>3, <1>7, <3>1, <3>3 DEF Budget
      <4>5. Count[r] - count[r] + Cardinality(Pending(r)) + delivered[r] <= notified[KeyOf[r]]
        BY <1>3, <3>1, <3>3 DEF Budget
      <4>6. Count[r] - count'[r] + Cardinality(Pending(r)') + delivered'[r] <= notified'[KeyOf[r]]
        BY <1>1, <1>5, <2>1, <4>2, <4>3, <4>5
      <4>7. r \in created' /\ ~(delivered'[r] > 0)
        BY <1>1, <1>3, <4>4
      <4> QED
        BY <3>3, <4>6, <4>7 DEF Budget
    <3> QED
      BY <3>2, <3>3
  <2> QED
    BY <1>4, <2>2, <2>4, <2>5
<1>8. CASE ~(count[r] > 1) /\ QGoto(q, "collect") /\ UNCHANGED <<count, qkey, qmap, qreg, qdata>>
  <2>1. count[r] = 1 /\ count' = count /\ \A s \in Reg \ {r} : slots'[s] = slots[s]
    BY <1>1, <1>3, <1>5, <1>8 DEF TypeOK
  <2>2. Count[r] > 1 => slots'[r] = 1..Count[r]
    BY <1>5, <1>6, <2>1
  <2>3. CountInv'
    <3>1. \A s \in Reg : s # r => slots'[s] = slots[s]
      BY <2>1
    <3>2. Count[r] > 1 => count'[r] + 1..Count[r] \subseteq slots'[r]
      BY <2>1, <2>2
    <3> QED
      BY <1>1, <1>5, <2>1, <2>2, <3>1, <3>2 DEF CountInv
  <2>4. Monotonic
    BY <1>1, <2>1, <2>2 DEF Monotonic, Full
  <2>5. \A p \in Request \ {q} : Untouched(p)
    BY <1>8 DEF QGoto, Untouched, TypeOK
  <2>6. Serves(q)'
    <3>1. qpc'[q] = "collect" /\ qkey' = qkey
      BY <1>8 DEF QGoto, TypeOK
    <3>3. r \in created' /\ count'[r] = 1 /\ (Count[r] > 1 => slots'[r] = 1..Count[r])
      BY <1>1, <1>3, <2>1, <2>2
    <3> QED
      BY <1>3, <3>1, <3>3 DEF Serves, Full
  <2>7. RequestInv'
    BY <2>4, <2>5, <2>6, OthersServe DEF RequestInv
  <2>8. BudgetInv'
    <3>1. \A s \in Reg : Pending(s)' = Pending(s)
      BY <1>1, <1>8 DEF Pending, QGoto, TypeOK
    <3> QED
      BY <1>1, <1>8, <3>1, SameBudget DEF BudgetInv
  <2> QED
    BY <1>4, <2>3, <2>7, <2>8
<1> QED
  BY <1>2, <1>7, <1>8

\* A notification whose identifier is unknown.
LEMMA UnknownSafety ==
    ASSUME TypeOK, SafetyInv, NEW q \in Request, UnknownKey(q)
    PROVE  SafetyInv'
<1> USE DEF SafetyInv
<1>1. /\ Answer(q)
      /\ UNCHANGED <<cache, count, slots, notified, created, withdrawn, reaped, delivered>>
  BY DEF UnknownKey, entryVars, histVars
<1>2. Monotonic
  BY <1>1, SameEntries
<1>3. RequestInv'
  BY <1>1, <1>2, AnswerLeaves, OthersServe DEF RequestInv
<1>4. BudgetInv'
  <2> SUFFICES ASSUME NEW r \in Reg PROVE Budget(r)'
    BY DEF BudgetInv
  <2>1. Budget(r) /\ Pending(r)' = Pending(r) \ {q}
    BY <1>1, AnswerLeaves DEF BudgetInv
  <2> QED
    BY <1>1, <2>1, LessBudget
<1>5. CacheInv' /\ CountInv' /\ RemovalIsAccounted'
  BY <1>1 DEF CacheInv, CountInv, RemovalIsAccounted, Stored
<1> QED
  BY <1>3, <1>4, <1>5

\* A request finds the entry of its identifier; once to read the notifications in it
\* and once to write the message.
LEMMA LookUpSafety ==
    ASSUME UniqueKeys, TypeOK, SafetyInv, NEW q \in Request,
           CollectOutputMap(q) \/ FindInContext(q)
    PROVE  SafetyInv'
<1> USE RouterAssumption DEF SafetyInv
<1>1. UNCHANGED <<cache, count, slots, qkey, notified, created, withdrawn, reaped, delivered>>
  BY DEF CollectOutputMap, FindInContext, entryVars, histVars
<1>2. PICK r \in Reg : r = cache[qkey[q]] /\ r \in created /\ KeyOf[r] = qkey[q]
  BY DEF CollectOutputMap, FindInContext, CacheInv, TypeOK
<1>3. Monotonic
  BY <1>1, SameEntries
<1>4. \A p \in Request \ {q} : Untouched(p)
  BY DEF CollectOutputMap, FindInContext, QGoto, Untouched, TypeOK
<1>5. Serves(q)'
  <2>1. CASE CollectOutputMap(q)
    <3>1. qpc'[q] = "find" /\ qmap'[q] = r /\ qkey'[q] = qkey[q]
      BY <1>2, <2>1 DEF CollectOutputMap, QGoto, TypeOK
    <3>2. count[r] = 1 /\ (Count[r] > 1 => slots[r] = 1..Count[r])
      BY <1>2, <2>1 DEF CollectOutputMap, RequestInv, Serves, Full, UniqueKeys, TypeOK
    <3> QED
      BY <1>1, <1>2, <3>1, <3>2 DEF Serves, Full
  <2>2. CASE FindInContext(q)
    <3>1. /\ qpc[q] = "find" /\ qpc'[q] = "post" /\ qreg'[q] = r /\ qkey'[q] = qkey[q]
          /\ qkey[q] \in PathKey => qdata'[q] = slots[qmap[q]]
      BY <1>2, <2>2 DEF FindInContext, QGoto, TypeOK
    <3>2. qkey[q] \in PathKey => qmap[q] = r
      BY <1>2, <3>1 DEF RequestInv, Serves, UniqueKeys, TypeOK
    <3>3. qkey[q] \in PathKey => count[r] = 1 /\ (Count[r] > 1 => slots[r] = 1..Count[r])
      BY <3>1, <3>2 DEF RequestInv, Serves, Full
    <3> QED
      BY <1>1, <1>2, <3>1, <3>2, <3>3 DEF Serves, Full
  <2> QED
    BY <2>1, <2>2
<1>6. RequestInv'
  BY <1>3, <1>4, <1>5, OthersServe DEF RequestInv
<1>7. BudgetInv'
  <2>1. \A s \in Reg : Pending(s)' = Pending(s)
    BY <1>1 DEF CollectOutputMap, FindInContext, QGoto, Pending, TypeOK
  <2> QED
    BY <1>1, <2>1, SameBudget DEF BudgetInv
<1>8. CacheInv' /\ CountInv' /\ RemovalIsAccounted'
  BY <1>1 DEF CacheInv, CountInv, RemovalIsAccounted, Stored
<1> QED
  BY <1>6, <1>7, <1>8

\* A message that arrives is paid for by its request.
LEMMA PaidBudget ==
    ASSUME TypeOK, NEW r \in Reg, NEW q \in Request, Budget(r), q \in Pending(r),
           r \in created, UNCHANGED <<created, count, notified>>,
           KeyOf[r] \in PathKey => count[r] = 1,
           NEW d \in 0..1, delivered'[r] = delivered[r] + d,
           Pending(r)' = Pending(r) \ {q}
    PROVE  Budget(r)'
<1>1. Cardinality(Pending(r)') = Cardinality(Pending(r)) - 1
  BY PendingGoes
<1>2. /\ Count[r] \in Nat /\ count[r] \in Nat /\ delivered[r] \in Nat
      /\ notified[KeyOf[r]] \in Nat /\ Cardinality(Pending(r)) \in Nat
  BY RouterAssumption, PendingIsFinite DEF TypeOK
<1>3. Count[r] - count[r] + Cardinality(Pending(r)) + delivered[r] <= notified[KeyOf[r]]
  BY DEF Budget
<1>4. Count[r] - count'[r] + Cardinality(Pending(r)') + delivered'[r] <= notified'[KeyOf[r]]
  BY <1>1, <1>2, <1>3
<1> QED
  BY <1>4 DEF Budget

\* The post: whether the worker accepts the message, or its answer is an error or lost.
LEMMA PostSafety ==
    ASSUME UniqueKeys, TypeOK, SafetyInv, NEW q \in Request, PostAccepted(q) \/ PostFails(q)
    PROVE  SafetyInv'
<1> USE RouterAssumption DEF SafetyInv
<1>1. /\ qpc[q] = "post"
      /\ UNCHANGED <<cache, count, slots, notified, created, withdrawn, reaped>>
  BY DEF PostAccepted, PostFails, entryVars
<1>2. PICK r \in Reg : r = qreg[q] /\ r \in created /\ KeyOf[r] = qkey[q] /\ q \in Pending(r)
  BY <1>1 DEF RequestInv, Serves, Pending, TypeOK
<1>3. qkey[q] \in PathKey => count[r] = 1
  BY <1>1, <1>2 DEF RequestInv, Serves, Full
<1>4. PICK d \in 0..1 : /\ delivered' = [delivered EXCEPT ![r] = @ + d]
                        /\ PostAccepted(q) => d = 1
  BY <1>2 DEF PostAccepted, PostFails
<1>5. /\ delivered'[r] = delivered[r] + d
      /\ \A s \in Reg : s # r => delivered'[s] = delivered[s]
      /\ \A s \in Reg : delivered[s] > 0 => delivered'[s] > 0
  BY <1>4 DEF TypeOK
<1>6. Monotonic
  BY <1>1, <1>5, SameEntries
<1>7. \A p \in Request \ {q} : Untouched(p)
  BY AnswerLeaves DEF PostAccepted, PostFails, QGoto, Untouched, TypeOK
<1>8. Serves(q)' /\ \A s \in Reg : Pending(s)' = Pending(s) \ {q}
  <2>1. CASE PostAccepted(q)
    <3>1. /\ qpc' = [qpc EXCEPT ![q] = "remove"] /\ qpc'[q] = "remove"
          /\ UNCHANGED <<qkey, qreg>>
      BY <2>1 DEF PostAccepted, QGoto, TypeOK
    <3>2. delivered'[r] > 0
      BY <1>4, <1>5, <2>1 DEF TypeOK
    <3>3. \A s \in Reg : Pending(s)' = Pending(s) \ {q}
      BY <3>1 DEF Pending, TypeOK
    <3>4. KeyOf[r] \in PathKey => Full(r)
      BY <1>1, <1>2 DEF RequestInv, Serves
    <3>5. KeyOf[r] \in PathKey => count'[r] = 1 /\ (Count[r] > 1 => slots'[r] = 1..Count[r])
      BY <1>1, <3>4 DEF Full
    <3> QED
      BY <1>1, <1>2, <3>1, <3>2, <3>3, <3>5 DEF Serves, Full
  <2>2. CASE PostFails(q)
    BY <2>2, AnswerLeaves DEF PostFails
  <2> QED
    BY <2>1, <2>2
<1>9. RequestInv'
  BY <1>6, <1>7, <1>8, OthersServe DEF RequestInv
<1>10. BudgetInv'
  <2> SUFFICES ASSUME NEW s \in Reg PROVE Budget(s)'
    BY DEF BudgetInv
  <2>1. Budget(s) /\ Pending(s)' = Pending(s) \ {q}
    BY <1>8 DEF BudgetInv
  <2>2. CASE s = r
    BY <1>1, <1>2, <1>3, <1>5, <2>1, <2>2, PaidBudget
  <2>3. CASE s # r
    BY <1>1, <1>5, <2>1, <2>3, LessBudget
  <2> QED
    BY <2>2, <2>3
<1>11. CacheInv' /\ CountInv' /\ RemovalIsAccounted'
  BY <1>1, <1>5 DEF CacheInv, CountInv, RemovalIsAccounted, Stored, TypeOK
<1> QED
  BY <1>9, <1>10, <1>11

\* The removal after a message that was accepted.
LEMMA RemoveSafety ==
    ASSUME UniqueKeys, TypeOK, SafetyInv, NEW q \in Request, RemoveNotified(q)
    PROVE  SafetyInv'
<1> USE RouterAssumption DEF SafetyInv
<1>1. /\ qpc[q] = "remove" /\ Answer(q) /\ cache' = [cache EXCEPT ![qkey[q]] = NoReg]
      /\ UNCHANGED <<count, slots, notified, created, withdrawn, reaped, delivered>>
  BY DEF RemoveNotified, RemoveKey, histVars
<1>2. PICK r \in Reg : r = qreg[q] /\ KeyOf[r] = qkey[q] /\ delivered[r] > 0
  BY <1>1 DEF RequestInv, Serves, TypeOK
<1>3. Monotonic
  BY <1>1, SameEntries
<1>4. RequestInv'
  BY <1>1, <1>3, AnswerLeaves, OthersServe DEF RequestInv
<1>5. BudgetInv'
  <2> SUFFICES ASSUME NEW s \in Reg PROVE Budget(s)'
    BY DEF BudgetInv
  <2>1. Budget(s) /\ Pending(s)' = Pending(s) \ {q}
    BY <1>1, AnswerLeaves DEF BudgetInv
  <2> QED
    BY <1>1, <2>1, LessBudget
<1>6. CacheInv' /\ CountInv'
  BY <1>1 DEF CacheInv, CountInv, TypeOK
<1>7. RemovalIsAccounted'
  BY <1>1, <1>2 DEF RemovalIsAccounted, Stored, UniqueKeys, TypeOK
<1> QED
  BY <1>4, <1>5, <1>6, <1>7

LEMMA SafetyStep == ASSUME UniqueKeys, TypeOK, SafetyInv, Next PROVE SafetyInv'
<1>1. ASSUME NEW q \in Request, RequestStep(q) PROVE SafetyInv'
  BY <1>1, CheckSafety, UnknownSafety, LookUpSafety, PostSafety, RemoveSafety DEF RequestStep
<1> QED
  BY <1>1, QuietSteps, QuietSafety, CreateSafety, RemovalSafety, NotifySafety

LEMMA StutterSafety == SafetyInv /\ UNCHANGED vars => SafetyInv'
  BY QuietSafety DEF Quiet, vars, entryVars, requestVars, cleanerVars, histVars

\* The invariant holds when no identifier is registered twice.
THEOREM RouterSafety == ASSUME UniqueKeys PROVE Spec => []SafetyInv
<1>1. TypeOK /\ SafetyInv /\ [Next]_vars => SafetyInv'
  BY SafetyStep, StutterSafety
<1> QED
  BY InitSafety, RouterTypes, <1>1, PTL DEF Spec

-----------------------------------------------------------------------------
(* What the router promises to its workers.                                *)

\* removeContextEntry() is called after a message was accepted, by deleteContext() or by the
\* cleaner: no registration is lost in another way, whatever the requests overlap.
THEOREM RegistrationsAreKept == ASSUME UniqueKeys PROVE Spec => []RemovalIsAccounted
<1>1. SafetyInv => RemovalIsAccounted
  BY DEF SafetyInv
<1> QED
  BY RouterSafety, <1>1, PTL

\* updateFromPath() posts the notifications of an identifier together, for any count.
THEOREM MessagesAreComplete == ASSUME UniqueKeys PROVE Spec => []CompleteMessage
<1>1. SafetyInv => CompleteMessage
  BY DEF SafetyInv, RequestInv, Serves, CompleteMessage
<1> QED
  BY RouterSafety, <1>1, PTL

\* Only updateFromPath() counts: an identifier that is notified in another way waits for one.
CountsByPath == \A r \in Reg : KeyOf[r] \in PathKey \/ Count[r] = 1

\* updateFromPath() and updateContext() spend a notification on the counter or on a message:
\* a worker gets one message, and at most one more for each notification too many.
THEOREM WorkersGetOneMessage == ASSUME UniqueKeys, CountsByPath PROVE Spec => []OneMessage
<1>1. TypeOK /\ SafetyInv => OneMessage
  <2> SUFFICES ASSUME TypeOK, SafetyInv, NEW r \in Reg, delivered[r] > 0
               PROVE  Count[r] + delivered[r] <= notified[KeyOf[r]] + 1
    BY DEF OneMessage
  <2>1. Budget(r) /\ (r \in created => count[r] \in 1..Count[r])
    BY DEF SafetyInv, BudgetInv, CountInv
  <2>2. r \in created /\ (KeyOf[r] \in PathKey => count[r] = 1)
    BY <2>1 DEF Budget
  <2>3. count[r] = 1
    BY <2>1, <2>2, RouterAssumption DEF CountsByPath
  <2>4. Cardinality(Pending(r)) \in Nat /\ Count[r] \in Nat /\ delivered[r] \in Nat
        /\ notified[KeyOf[r]] \in Nat
    BY PendingIsFinite, RouterAssumption DEF TypeOK
  <2>5. Count[r] - count[r] + Cardinality(Pending(r)) + delivered[r] <= notified[KeyOf[r]]
    BY <2>1, <2>2 DEF Budget
  <2> QED
    BY <2>3, <2>4, <2>5
<1> QED
  BY RouterTypes, RouterSafety, <1>1, PTL
=============================================================================
