---------------------------- MODULE ContextRouter ----------------------------
(***************************************************************************)
(* The context router (ContextManagement): a process of its own that knows *)
(* which grindertool worker waits for which identifier.  Workers register  *)
(* identifiers and withdraw them, the tested service notifies them, and a  *)
(* notification is posted to the worker that registered the identifier.    *)
(*                                                                         *)
(* HTTP requests run in parallel.  One action is one section synchronized  *)
(* on the cache or one call of another process; nothing protects a request *)
(* between its look up, its post and its removal.                          *)
(***************************************************************************)
EXTENDS Integers, FiniteSets

CONSTANTS
    Reg,        \* registrations: what one create message asks for
    Key,        \* identifiers: pairs of a context key and a value
    Name,       \* context keys
    Request,    \* HTTP threads that serve notifications
    NoReg,      \* no registration
    NoKey,      \* no identifier
    KeyOf,      \* the identifier that is registered
    NameOf,     \* the context key of an identifier
    Count,      \* the number of notifications that a registration waits for
    NoExpiry,   \* registrations with expiration time -1
    PathKey,    \* identifiers that the service notifies with updateFromPath
    MaxNotify   \* bound: notifications received for each identifier

ASSUME RouterAssumption ==
    /\ NoReg \notin Reg
    /\ NoKey \notin Key
    /\ KeyOf \in [Reg -> Key]
    /\ NameOf \in [Key -> Name]
    /\ Count \in [Reg -> Nat \ {0}]
    /\ NoExpiry \subseteq Reg
    /\ PathKey \subseteq Key
    /\ MaxNotify \in [Key -> Nat]
    /\ IsFiniteSet(Request)

VARIABLES
    cache,      \* ContextEntryCache.entryCache, flattened: identifier -> entry
    names,      \* the context keys of its first level, which never leave it
    count,      \* ContextEntry.count
    slots,      \* ContextEntry.outputMap: the numbers of the notifications in it
    qpc,        \* control point of each request
    qkey,       \* the identifier that a request notifies
    qmap,       \* the entry whose outputMap an updateFromPath will send
    qreg,       \* the entry whose worker a request posts to
    qdata,      \* the numbers of the notifications in the posted message
    cleaner,    \* control point of the cleaner thread
    todo,       \* context keys that the cleaner has still to visit
    doomed,     \* identifiers that the cleaner is about to remove
    old,        \* timed registrations that expired more than 30 seconds ago
    notified,   \* notifications received for each identifier
    created,    \* history: registrations made
    withdrawn,  \* history: registrations deleted by their worker
    reaped,     \* history: registrations removed by the cleaner
    received,   \* history: notifications counted for each registration
    failed,     \* history: registrations whose worker could not be reached
    delivered   \* history: notifications accepted by the worker of a registration

entryVars   == <<cache, names, count, slots>>
requestVars == <<qpc, qkey, qmap, qreg, qdata, notified>>
cleanerVars == <<cleaner, todo, doomed>>
histVars    == <<created, withdrawn, reaped, received, failed, delivered>>
vars == <<entryVars, requestVars, cleanerVars, old, histVars>>

RequestPC == {"idle", "check", "collect", "find", "post", "remove"}
CleanerPC == {"sleep", "keys", "clean", "dead", "stopped"}

\* The variables have their types, and requests the locals that they use.
TypeOK ==
    /\ cache \in [Key -> Reg \cup {NoReg}]
    /\ names \subseteq Name
    /\ count \in [Reg -> Nat]
    /\ slots \in [Reg -> SUBSET Nat]
    /\ qpc \in [Request -> RequestPC]
    /\ qkey \in [Request -> Key \cup {NoKey}]
    /\ qmap \in [Request -> Reg \cup {NoReg}]
    /\ qreg \in [Request -> Reg \cup {NoReg}]
    /\ qdata \in [Request -> SUBSET Nat]
    /\ cleaner \in CleanerPC
    /\ todo \subseteq Name
    /\ doomed \subseteq Key
    /\ old \subseteq Reg
    /\ notified \in [Key -> Nat]
    /\ created \subseteq Reg
    /\ withdrawn \subseteq Reg
    /\ reaped \subseteq Reg
    /\ received \in [Reg -> Nat]
    /\ failed \subseteq Reg
    /\ delivered \in [Reg -> Nat]
    /\ \A q \in Request :
         /\ qpc[q] # "idle" => qkey[q] \in Key
         /\ qpc[q] \in {"post", "remove"} => qreg[q] \in Reg
         /\ qpc[q] = "find" /\ qkey[q] \in PathKey => qmap[q] \in Reg

-----------------------------------------------------------------------------
Init ==
    /\ cache = [k \in Key |-> NoReg]
    /\ names = {}
    /\ count = [r \in Reg |-> 0]
    /\ slots = [r \in Reg |-> {}]
    /\ qpc = [q \in Request |-> "idle"]
    /\ qkey = [q \in Request |-> NoKey]
    /\ qmap = [q \in Request |-> NoReg]
    /\ qreg = [q \in Request |-> NoReg]
    /\ qdata = [q \in Request |-> {}]
    /\ cleaner = "sleep"
    /\ todo = {}
    /\ doomed = {}
    /\ old = {}
    /\ notified = [k \in Key |-> 0]
    /\ created = {}
    /\ withdrawn = {}
    /\ reaped = {}
    /\ received = [r \in Reg |-> 0]
    /\ failed = {}
    /\ delivered = [r \in Reg |-> 0]

Stored(r) == cache[KeyOf[r]] = r

\* remove() takes the identifier away, whoever registered it
RemoveKey(k) == cache' = [cache EXCEPT ![k] = NoReg]

QGoto(q, pc) == qpc' = [qpc EXCEPT ![q] = pc]

\* the request is answered, and its thread serves another one
Answer(q) ==
    /\ qpc' = [qpc EXCEPT ![q] = "idle"]
    /\ qkey' = [qkey EXCEPT ![q] = NoKey]
    /\ qmap' = [qmap EXCEPT ![q] = NoReg]
    /\ qreg' = [qreg EXCEPT ![q] = NoReg]
    /\ qdata' = [qdata EXCEPT ![q] = {}]

-----------------------------------------------------------------------------
(* The workers: createContext(), once for each member of a batch, and      *)
(* deleteContext().                                                        *)

\* addElement() puts the entry after its synchronized section, in a map of its own
\* lock that never leaves the cache: the two are one step
Create(r) ==
    /\ r \notin created
    /\ created' = created \cup {r}
    /\ cache' = [cache EXCEPT ![KeyOf[r]] = r]
    /\ names' = names \cup {NameOf[KeyOf[r]]}
    /\ count' = [count EXCEPT ![r] = Count[r]]
    /\ UNCHANGED <<slots, requestVars, cleanerVars, old, withdrawn, reaped, received,
                   failed, delivered>>

\* the worker's step has failed
Delete(r) ==
    /\ r \in created \ withdrawn
    /\ withdrawn' = withdrawn \cup {r}
    /\ RemoveKey(KeyOf[r])
    /\ UNCHANGED <<names, count, slots, requestVars, cleanerVars, old, created, reaped,
                   received, failed, delivered>>

-----------------------------------------------------------------------------
(* The service: updateContext(), also called by updateFromHeader(), and    *)
(* updateFromPath(), which counts the notifications first.                 *)

Notify(q, k) ==
    /\ qpc[q] = "idle"
    /\ \E r \in created : KeyOf[r] = k
    /\ notified[k] < MaxNotify[k]
    /\ notified' = [notified EXCEPT ![k] = @ + 1]
    /\ qkey' = [qkey EXCEPT ![q] = k]
    /\ QGoto(q, IF k \in PathKey THEN "check" ELSE "find")
    /\ UNCHANGED <<entryVars, qmap, qreg, qdata, cleanerVars, old, histVars>>

\* (seeded bug) the notification is not counted down
CheckWithoutDecrement(q) ==
    LET r == cache[qkey[q]] IN
    /\ qpc[q] = "check"
    /\ r # NoReg
    /\ slots' = [slots EXCEPT ![r] = @ \cup {IF Count[r] > 1 THEN count[r] ELSE 0}]
    /\ received' = [received EXCEPT ![r] = @ + 1]
    /\ IF count[r] > 1
          THEN Answer(q)
          ELSE QGoto(q, "collect") /\ UNCHANGED <<qkey, qmap, qreg, qdata>>
    /\ UNCHANGED <<cache, names, count, notified, cleanerVars, old, created, withdrawn, reaped,
                   failed, delivered>>

\* (seeded bug) the last notification is announced one too early
CheckTooEarly(q) ==
    LET r == cache[qkey[q]] IN
    /\ qpc[q] = "check"
    /\ r # NoReg
    /\ slots' = [slots EXCEPT ![r] = @ \cup {IF Count[r] > 1 THEN count[r] ELSE 0}]
    /\ received' = [received EXCEPT ![r] = @ + 1]
    /\ count' = [count EXCEPT ![r] = IF @ > 1 THEN @ - 1 ELSE @]
    /\ IF count'[r] > 1
          THEN Answer(q)
          ELSE QGoto(q, "collect") /\ UNCHANGED <<qkey, qmap, qreg, qdata>>
    /\ UNCHANGED <<cache, names, notified, cleanerVars, old, created, withdrawn, reaped,
                   failed, delivered>>

\* checkNotifications(): the notification is kept under the number that the counter
\* has, and the counter stops at one: every later notification counts as the last
CheckNotifications(q) ==
    LET r == cache[qkey[q]] IN
    /\ qpc[q] = "check"
    /\ r # NoReg
    /\ slots' = [slots EXCEPT ![r] = @ \cup {IF Count[r] > 1 THEN count[r] ELSE 0}]
    /\ received' = [received EXCEPT ![r] = @ + 1]
    /\ IF count[r] > 1
          THEN count' = [count EXCEPT ![r] = @ - 1] /\ Answer(q)
          ELSE QGoto(q, "collect") /\ UNCHANGED <<count, qkey, qmap, qreg, qdata>>
    /\ UNCHANGED <<cache, names, notified, cleanerVars, old, created, withdrawn, reaped,
                   failed, delivered>>

\* an identifier that is unknown, or has gone: false from checkNotifications(), the
\* null of findInContext(), which updateFromPath() dereferences
UnknownKey(q) ==
    /\ qpc[q] \in {"check", "collect", "find"}
    /\ cache[qkey[q]] = NoReg
    /\ Answer(q)
    /\ UNCHANGED <<entryVars, notified, cleanerVars, old, histVars>>

\* (seeded bug) the entry is not looked up again
CollectNothing(q) ==
    /\ qpc[q] = "collect"
    /\ QGoto(q, "find")
    /\ UNCHANGED <<entryVars, qkey, qmap, qreg, qdata, notified, cleanerVars, old, histVars>>

\* findInContext(...).getOutputMap()
CollectOutputMap(q) ==
    /\ qpc[q] = "collect"
    /\ cache[qkey[q]] # NoReg
    /\ qmap' = [qmap EXCEPT ![q] = cache[qkey[q]]]
    /\ QGoto(q, "find")
    /\ UNCHANGED <<entryVars, qkey, qreg, qdata, notified, cleanerVars, old, histVars>>

\* updateContext() looks the worker up and writes the message
FindInContext(q) ==
    /\ qpc[q] = "find"
    /\ cache[qkey[q]] # NoReg
    /\ qreg' = [qreg EXCEPT ![q] = cache[qkey[q]]]
    /\ qdata' = [qdata EXCEPT ![q] = IF qkey[q] \in PathKey THEN slots[qmap[q]] ELSE {}]
    /\ QGoto(q, "post")
    /\ UNCHANGED <<entryVars, qkey, qmap, notified, cleanerVars, old, histVars>>

\* the worker answers 200
PostAccepted(q) ==
    /\ qpc[q] = "post"
    /\ delivered' = [delivered EXCEPT ![qreg[q]] = @ + 1]
    /\ QGoto(q, "remove")
    /\ UNCHANGED <<entryVars, qkey, qmap, qreg, qdata, notified, cleanerVars, old,
                   created, withdrawn, reaped, received, failed>>

\* (seeded bug) the entry is removed whatever comes back
PostFailsAndRemoves(q) ==
    /\ qpc[q] = "post"
    /\ RemoveKey(qkey[q])
    /\ Answer(q)
    /\ failed' = failed \cup {qreg[q]}
    /\ UNCHANGED <<names, count, slots, notified, cleanerVars, old, created, withdrawn, reaped,
                   received, delivered>>

\* the worker cannot be reached, answers something else, or its answer is lost: the
\* entry stays
PostFails(q) ==
    /\ qpc[q] = "post"
    /\ \E arrived \in 0..1 : delivered' = [delivered EXCEPT ![qreg[q]] = @ + arrived]
    /\ failed' = failed \cup {qreg[q]}
    /\ Answer(q)
    /\ UNCHANGED <<entryVars, notified, cleanerVars, old, created, withdrawn, reaped, received>>

RemoveNotified(q) ==
    /\ qpc[q] = "remove"
    /\ RemoveKey(qkey[q])
    /\ Answer(q)
    /\ UNCHANGED <<names, count, slots, notified, cleanerVars, old, histVars>>

-----------------------------------------------------------------------------
(* The cleaner thread: removeExpiredContextEntry(), every 30 seconds.      *)

GrowOld(r) ==
    /\ r \in created \ NoExpiry
    /\ r \notin old
    /\ old' = old \cup {r}
    /\ UNCHANGED <<entryVars, requestVars, cleanerVars, histVars>>

\* -1 is smaller than any date
Expired(r) == r \in old \cup NoExpiry

CleanerStart ==
    /\ cleaner = "sleep"
    /\ cleaner' = "keys"
    /\ todo' = names
    /\ UNCHANGED <<entryVars, requestVars, doomed, old, histVars>>

\* the copy of the key set is iterated without the mutex: a context key added in
\* the meantime makes the iterator fail, and nothing catches its exception
CleanerFails ==
    /\ cleaner = "keys"
    /\ names # todo
    /\ cleaner' = "dead"
    /\ UNCHANGED <<entryVars, requestVars, todo, doomed, old, histVars>>

CleanerKeys ==
    /\ cleaner = "keys"
    /\ cleaner' = "clean"
    /\ UNCHANGED <<entryVars, requestVars, todo, doomed, old, histVars>>

\* (seeded bug) an expired entry stops the visit as a valid one does
CleanerVisitNothing(n) ==
    /\ cleaner = "clean" /\ doomed = {} /\ n \in todo
    /\ todo' = todo \ {n}
    /\ UNCHANGED <<entryVars, requestVars, cleaner, doomed, old, histVars>>

\* the entries of one context key up to the first that is not expired.  Dates
\* are compared by their difference cut to 32 bits: for -1 and a date its sign can
\* be either, so an entry with -1 may also be sorted behind a valid one.
CleanerVisit(n) ==
    LET entries == {k \in Key : NameOf[k] = n /\ cache[k] # NoReg}
        expired == {k \in entries : Expired(cache[k])}
    IN
    /\ cleaner = "clean"
    /\ doomed = {}
    /\ n \in todo
    /\ todo' = todo \ {n}
    /\ \E spared \in SUBSET {k \in entries : cache[k] \in NoExpiry} :
         /\ spared # {} => entries # expired
         /\ doomed' = expired \ spared
    /\ UNCHANGED <<entryVars, requestVars, cleaner, old, histVars>>

CleanerRemove(k) ==
    /\ cleaner = "clean"
    /\ k \in doomed
    /\ doomed' = doomed \ {k}
    /\ RemoveKey(k)
    /\ reaped' = reaped \cup ({cache[k]} \ {NoReg})
    /\ UNCHANGED <<names, count, slots, requestVars, cleaner, todo, old, created, withdrawn,
                   received, failed, delivered>>

CleanerDone ==
    /\ cleaner = "clean"
    /\ todo = {} /\ doomed = {}
    /\ cleaner' = "sleep"
    /\ UNCHANGED <<entryVars, requestVars, todo, doomed, old, histVars>>

\* stop(), with the application: the flag or the interruption ends the thread
CleanerStops ==
    /\ cleaner = "sleep"
    /\ cleaner' = "stopped"
    /\ UNCHANGED <<entryVars, requestVars, todo, doomed, old, histVars>>

-----------------------------------------------------------------------------
RequestStep(q) ==
    \/ CheckNotifications(q) \/ UnknownKey(q) \/ CollectOutputMap(q) \/ FindInContext(q)
    \/ PostAccepted(q) \/ PostFails(q) \/ RemoveNotified(q)

CleanerStep ==
    \/ CleanerStart \/ CleanerFails \/ CleanerKeys \/ CleanerDone
    \/ \E n \in Name : CleanerVisit(n)
    \/ \E k \in Key : CleanerRemove(k)

Next ==
    \/ \E r \in Reg : Create(r) \/ Delete(r) \/ GrowOld(r)
    \/ \E q \in Request : RequestStep(q)
    \/ \E q \in Request, k \in Key : Notify(q, k)
    \/ CleanerStep \/ CleanerStops

Spec == Init /\ [][Next]_vars

\* Requests are served, and the cleaner works.  Nothing obliges the workers or the
\* service to call.
Fairness ==
    /\ \A q \in Request : WF_vars(RequestStep(q))
    /\ WF_vars(CleanerStep)

FairSpec == Spec /\ Fairness

-----------------------------------------------------------------------------
(* Properties.                                                             *)

UniqueKeys == \A r, s \in Reg : KeyOf[r] = KeyOf[s] => r = s

\* A registration only leaves the cache because its worker has accepted a
\* notification, has withdrawn it, or has let it expire.
RemovalIsAccounted ==
    \A r \in created : Stored(r) \/ delivered[r] > 0 \/ r \in withdrawn \cup reaped

\* A worker that waits for several notifications gets all of them in one message,
\* although the requests that carry them run in parallel.
CompleteMessage ==
    \A q \in Request : qpc[q] = "post" /\ qkey[q] \in PathKey /\ Count[qreg[q]] > 1 =>
        qdata[q] = 1..Count[qreg[q]]

\* A worker is posted one message for all the notifications that it asked for, and not before
\* the last of them; each notification that the service sends beyond these can only bring one
\* message more.
OneMessage ==
    \A r \in Reg :
        delivered[r] > 0 => Count[r] + delivered[r] <= notified[KeyOf[r]] + 1

\* An expired registration leaves the cache while the cleaner thread lives.
ExpiredLeaves == \A r \in Reg : r \in old ~> (~Stored(r) \/ cleaner \in {"dead", "stopped"})

\* The last of the notifications that a registration waits for is not lost: it is
\* delivered, unless the worker withdraws, expires or cannot be reached.
LastNotificationArrives ==
    \A r \in Reg : received[r] >= Count[r] ~>
        (delivered[r] > 0 \/ r \in withdrawn \cup reaped \cup failed)
=============================================================================
