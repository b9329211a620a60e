------------------------- MODULE ScenarioCaches_proofs -------------------------
(***************************************************************************)
(* Theorems about the caches of ScenarioRun: the values that a scenario    *)
(* sees are those of its own run, the fields and the answer of a step are  *)
(* not there for the next one, what a step has memorised stays and nothing *)
(* else of its memory is seen, and no placeholder is left over where a     *)
(* value can be found.                                                     *)
(***************************************************************************)
EXTENDS ScenarioRun_proofs, FiniteSetTheorems

-----------------------------------------------------------------------------
(* What a cache holds.                                                     *)

IsEntry(t) ==
    t = [calls |-> t.calls, ref |-> t.ref, atom |-> t.atom, by |-> t.by, kind |-> t.kind]

Entries(texts) == \A k \in DOMAIN texts : IsEntry(texts[k])

\* values of nobody or of the run r
Own(texts, r) == \A k \in DOMAIN texts : texts[k].by \in {<<>>, r}

\* nothing that belongs to one step
Clean(texts) == \A k \in DOMAIN texts : texts[k].kind \notin {"field", "response"}

\* values that come from outside
Given(texts) ==
    /\ Entries(texts) /\ Clean(texts)
    /\ \A k \in DOMAIN texts : texts[k].by = <<>> /\ texts[k].kind # "memory"

-----------------------------------------------------------------------------
(* Lemmas about texts.                                                     *)

LEMMA EntryChange ==
    ASSUME NEW t, IsEntry(t), NEW x
    PROVE  /\ [t EXCEPT !.kind = x]
                = [calls |-> t.calls, ref |-> t.ref, atom |-> t.atom, by |-> t.by, kind |-> x]
           /\ [t EXCEPT !.by = x]
                = [calls |-> t.calls, ref |-> t.ref, atom |-> t.atom, by |-> x, kind |-> t.kind]
           /\ [t EXCEPT !.calls = x]
                = [calls |-> x, ref |-> t.ref, atom |-> t.atom, by |-> t.by, kind |-> t.kind]
           /\ [t EXCEPT !.ref = x]
                = [calls |-> t.calls, ref |-> x, atom |-> t.atom, by |-> t.by, kind |-> t.kind]
           /\ [t EXCEPT !.atom = x]
                = [calls |-> t.calls, ref |-> t.ref, atom |-> x, by |-> t.by, kind |-> t.kind]
<1>1. t = [calls |-> t.calls, ref |-> t.ref, atom |-> t.atom, by |-> t.by, kind |-> t.kind]
  BY DEF IsEntry
<1>2. [t EXCEPT !.kind = x]
        = [calls |-> t.calls, ref |-> t.ref, atom |-> t.atom, by |-> t.by, kind |-> x]
  BY <1>1
<1>3. [t EXCEPT !.by = x]
        = [calls |-> t.calls, ref |-> t.ref, atom |-> t.atom, by |-> x, kind |-> t.kind]
  BY <1>1
<1>4. [t EXCEPT !.calls = x]
        = [calls |-> x, ref |-> t.ref, atom |-> t.atom, by |-> t.by, kind |-> t.kind]
  BY <1>1
<1>5. [t EXCEPT !.ref = x]
        = [calls |-> t.calls, ref |-> x, atom |-> t.atom, by |-> t.by, kind |-> t.kind]
  BY <1>1
<1>6. [t EXCEPT !.atom = x]
        = [calls |-> t.calls, ref |-> t.ref, atom |-> x, by |-> t.by, kind |-> t.kind]
  BY <1>1
<1> QED
  BY <1>2, <1>3, <1>4, <1>5, <1>6

LEMMA MadeEntry ==
    ASSUME NEW calls0, NEW ref, NEW atom, NEW by, NEW kind
    PROVE  IsEntry([calls |-> calls0, ref |-> ref, atom |-> atom, by |-> by, kind |-> kind])
  BY DEF IsEntry

LEMMA EntryChanges ==
    ASSUME NEW t, IsEntry(t), NEW x, NEW y, NEW z
    PROVE  /\ [t EXCEPT !.calls = x, !.kind = y]
                = [calls |-> x, ref |-> t.ref, atom |-> t.atom, by |-> t.by, kind |-> y]
           /\ [t EXCEPT !.calls = x, !.ref = y, !.atom = z]
                = [calls |-> x, ref |-> y, atom |-> z, by |-> t.by, kind |-> t.kind]
<1> DEFINE u == [t EXCEPT !.calls = x]
           v == [u EXCEPT !.ref = y]
<1>1. u = [calls |-> x, ref |-> t.ref, atom |-> t.atom, by |-> t.by, kind |-> t.kind]
  BY EntryChange
<1>2. [t EXCEPT !.calls = x, !.kind = y] = [u EXCEPT !.kind = y]
  OBVIOUS
<1>3. [t EXCEPT !.calls = x, !.ref = y, !.atom = z] = [v EXCEPT !.atom = z]
  OBVIOUS
<1>4. /\ IsEntry(u) /\ u.calls = x /\ u.ref = t.ref /\ u.atom = t.atom /\ u.by = t.by
      /\ u.kind = t.kind
  BY <1>1, MadeEntry
<1> HIDE DEF u
<1>5. v = [calls |-> u.calls, ref |-> y, atom |-> u.atom, by |-> u.by, kind |-> u.kind]
  BY <1>4, EntryChange
<1>6. /\ IsEntry(v) /\ v.calls = u.calls /\ v.ref = y /\ v.atom = u.atom /\ v.by = u.by
      /\ v.kind = u.kind
  BY <1>5, MadeEntry
<1> HIDE DEF v
<1>7. [u EXCEPT !.kind = y]
        = [calls |-> u.calls, ref |-> u.ref, atom |-> u.atom, by |-> u.by, kind |-> y]
  BY <1>4, EntryChange
<1>8. [v EXCEPT !.atom = z]
        = [calls |-> v.calls, ref |-> v.ref, atom |-> z, by |-> v.by, kind |-> v.kind]
  BY <1>6, EntryChange
<1> QED
  BY <1>2, <1>3, <1>4, <1>6, <1>7, <1>8

LEMMA LiteralEntry ==
    ASSUME NEW a
    PROVE  /\ IsEntry(Literal(a)) /\ Literal(a).by = <<>> /\ Literal(a).kind = "text"
           /\ Literal(a).calls = 0 /\ ~Literal(a).ref /\ Literal(a).atom = a
           /\ IsEntry(Placeholder(a)) /\ Placeholder(a).by = <<>> /\ Placeholder(a).kind = "text"
           /\ Placeholder(a).calls = 0 /\ Placeholder(a).ref /\ Placeholder(a).atom = a
<1>1. Literal(a) = [calls |-> 0, ref |-> FALSE, atom |-> a, by |-> <<>>, kind |-> "text"]
  BY DEF Literal
<1>2. Placeholder(a) = [calls |-> 0, ref |-> TRUE, atom |-> a, by |-> <<>>, kind |-> "text"]
  <2> DEFINE l == Literal(a)
             ref == TRUE
  <2>1. Placeholder(a) = [l EXCEPT !.ref = ref]
    BY DEF Placeholder
  <2>2. IsEntry(l)
    BY <1>1, MadeEntry
  <2> HIDE DEF l, ref
  <2>3. Placeholder(a) = [calls |-> l.calls, ref |-> ref, atom |-> l.atom, by |-> l.by,
                          kind |-> l.kind]
    BY <2>1, <2>2, EntryChange
  <2> QED
    BY <1>1, <2>3 DEF l, ref
<1> QED
  BY <1>1, <1>2, MadeEntry

\* the texts of a scenario come from outside
LEMMA TextsAreGiven ==
    ASSUME NEW texts, AreTexts(texts)
    PROVE  /\ Given(texts) /\ Entries(texts)
           /\ \A k \in DOMAIN texts : /\ texts[k].calls \in Nat /\ texts[k].ref \in BOOLEAN
                                      /\ texts[k].atom # Raw
<1>1. ASSUME NEW t, IsText(t)
      PROVE  /\ IsEntry(t) /\ t.by = <<>> /\ t.kind = "text"
             /\ t.calls \in Nat /\ t.ref \in BOOLEAN /\ t.atom # Raw
  BY <1>1 DEF IsText, IsEntry
<1> QED
  BY <1>1 DEF AreTexts, Given, Entries, Clean

LEMMA ValuesOfKind ==
    ASSUME NEW texts, Entries(texts), NEW kind
    PROVE  /\ DOMAIN Values(texts, kind) = DOMAIN texts
           /\ Entries(Values(texts, kind))
           /\ \A k \in DOMAIN texts :
                /\ Values(texts, kind)[k].calls = texts[k].calls
                /\ Values(texts, kind)[k].ref = texts[k].ref
                /\ Values(texts, kind)[k].atom = texts[k].atom
                /\ Values(texts, kind)[k].by = texts[k].by
                /\ Values(texts, kind)[k].kind = kind
<1>1. \A k \in DOMAIN texts : Values(texts, kind)[k] = [texts[k] EXCEPT !.kind = kind]
  BY DEF Values
<1>2. \A k \in DOMAIN texts : IsEntry(texts[k])
  BY DEF Entries
<1>3. ASSUME NEW k \in DOMAIN texts
      PROVE  Values(texts, kind)[k]
               = [calls |-> texts[k].calls, ref |-> texts[k].ref, atom |-> texts[k].atom,
                  by |-> texts[k].by, kind |-> kind]
  <2>1. [texts[k] EXCEPT !.kind = kind]
          = [calls |-> texts[k].calls, ref |-> texts[k].ref, atom |-> texts[k].atom,
             by |-> texts[k].by, kind |-> kind]
    BY <1>2, EntryChange
  <2> QED
    BY <1>1, <2>1
<1>4. DOMAIN Values(texts, kind) = DOMAIN texts
  BY DEF Values
<1> QED
  BY <1>3, <1>4, MadeEntry DEF Entries

LEMMA UpdatedEntries ==
    ASSUME NEW dict, NEW keys
    PROVE  /\ DOMAIN Updated(dict, keys) = DOMAIN dict \union DOMAIN keys
           /\ \A k \in DOMAIN keys : Updated(dict, keys)[k] = keys[k]
           /\ \A k \in DOMAIN dict \ DOMAIN keys : Updated(dict, keys)[k] = dict[k]
           /\ Entries(dict) /\ Entries(keys) => Entries(Updated(dict, keys))
           /\ Clean(dict) /\ Clean(keys) => Clean(Updated(dict, keys))
           /\ Given(dict) /\ Given(keys) => Given(Updated(dict, keys))
           /\ \A r : Own(dict, r) /\ Own(keys, r) => Own(Updated(dict, keys), r)
  BY DEF Updated, Entries, Clean, Given, Own

LEMMA UpdatedAreEntries ==
    ASSUME NEW dict, Entries(dict), NEW keys, Entries(keys)
    PROVE  Entries(Updated(dict, keys))
  BY DEF Updated, Entries

LEMMA UpdatedIsClean ==
    ASSUME NEW dict, Clean(dict), NEW keys, Clean(keys)
    PROVE  Clean(Updated(dict, keys))
  BY DEF Updated, Clean

LEMMA UpdatedIsOwn ==
    ASSUME NEW dict, NEW keys, NEW r, Own(dict, r), Own(keys, r)
    PROVE  Own(Updated(dict, keys), r)
  BY DEF Updated, Own

LEMMA GivenIsOwn ==
    ASSUME NEW texts, Given(texts)
    PROVE  Entries(texts) /\ Clean(texts) /\ \A r : Own(texts, r)
  BY DEF Given, Own

LEMMA NothingIsGiven == Given(<<>>) /\ DOMAIN <<>> = {}
  BY EmptySequence DEF Given, Entries, Clean

LEMMA SingleEntry ==
    ASSUME NEW k, NEW t
    PROVE  /\ DOMAIN Single(k, t) = {k} /\ Single(k, t)[k] = t
           /\ IsEntry(t) => Entries(Single(k, t))
           /\ t.kind \notin {"field", "response"} => Clean(Single(k, t))
           /\ IsEntry(t) /\ t.kind \notin {"field", "response", "memory"} /\ t.by = <<>>
                => Given(Single(k, t))
  BY DEF Single, Entries, Clean, Given

LEMMA RestrictEntries ==
    ASSUME NEW texts, NEW S \in SUBSET DOMAIN texts
    PROVE  /\ DOMAIN Restrict(texts, S) = S
           /\ \A k \in S : Restrict(texts, S)[k] = texts[k]
           /\ Entries(texts) => Entries(Restrict(texts, S))
           /\ Clean(texts) => Clean(Restrict(texts, S))
           /\ \A r : Own(texts, r) => Own(Restrict(texts, S), r)
  BY DEF Restrict, Entries, Clean, Own

\* a placeholder takes the value of its key, and stays what it is for
LEMMA SubstituteEntry ==
    ASSUME NEW text, IsEntry(text), NEW keys, Entries(keys)
    PROVE  LET found == Substitute(text, keys) IN
           /\ IsEntry(found) /\ found.kind = text.kind
           /\ \/ /\ text.ref /\ text.atom \in DOMAIN keys
                 /\ found.by = keys[text.atom].by /\ found.ref = keys[text.atom].ref
                 /\ found.atom = keys[text.atom].atom
                 /\ found.calls = keys[text.atom].calls + text.calls
              \/ ~(text.ref /\ text.atom \in DOMAIN keys) /\ found = text
<1>1. CASE text.ref /\ text.atom \in DOMAIN keys
  <2> DEFINE v == keys[text.atom]
  <2>1. IsEntry(v)
    BY <1>1 DEF Entries
  <2>2. Substitute(text, keys) = [v EXCEPT !.calls = v.calls + text.calls, !.kind = text.kind]
    BY <1>1 DEF Substitute
  <2> HIDE DEF v
  <2>3. Substitute(text, keys) = [calls |-> v.calls + text.calls, ref |-> v.ref,
                                  atom |-> v.atom, by |-> v.by, kind |-> text.kind]
    BY <2>1, <2>2, EntryChanges
  <2> QED
    BY <1>1, <2>3, MadeEntry DEF v
<1>2. CASE ~(text.ref /\ text.atom \in DOMAIN keys)
  BY <1>2 DEF Substitute
<1> QED
  BY <1>1, <1>2

-----------------------------------------------------------------------------
(* Lemmas about what is done one after the other.                          *)

\* what holds at 0 and is passed on holds up to N
LEMMA CountUp ==
    ASSUME NEW N \in Nat, NEW S, 0 \in S, \A n \in 0..N : n \in S /\ n < N => n + 1 \in S
    PROVE  \A n \in 0..N : n \in S
<1> DEFINE Bad == {n \in Nat : n <= N /\ n \notin S}
<1>1. SUFFICES ASSUME Bad # {} PROVE FALSE
  OBVIOUS
<1>2. PICK m \in Bad : \A n \in Bad : m <= n
  BY <1>1, LeastNumber
<1>3. m \in Nat /\ m <= N /\ m \notin S
  OBVIOUS
<1>4. m # 0
  BY <1>3
<1>5. m - 1 \in Nat /\ m - 1 <= N /\ ~(m <= m - 1)
  BY <1>3, <1>4
<1>6. m - 1 \in S
  BY <1>2, <1>5
<1>7. m - 1 \in 0..N /\ m - 1 < N /\ (m - 1) + 1 = m
  BY <1>3, <1>4
<1> HIDE DEF Bad
<1> QED
  BY <1>3, <1>6, <1>7

InTurn(f, start, order, n) ==
    f = [i \in 0..n |-> IF i = 0 THEN start
                        ELSE EvaluateKey(f[i - 1], order[i])]

\* the keys of a round are evaluated in turn
LEMMA KeysInTurn ==
    ASSUME NEW e, NEW order, Len(order) \in Nat
    PROVE  /\ AfterKeys(e, order)[0] = [e EXCEPT !.again = FALSE]
           /\ \A n \in 1..Len(order) :
                AfterKeys(e, order)[n] = EvaluateKey(AfterKeys(e, order)[n - 1], order[n])
<1> DEFINE start == [e EXCEPT !.again = FALSE]
           N == Len(order)
           S == {n \in 0..N : \E f : InTurn(f, start, order, n)}
<1> HIDE DEF start
<1>1. 0 \in S
  <2> DEFINE f == [i \in 0..0 |-> start]
  <2>1. f = [i \in 0..0 |-> IF i = 0 THEN start
                            ELSE EvaluateKey(f[i - 1], order[i])]
    OBVIOUS
  <2> HIDE DEF f
  <2>2. InTurn(f, start, order, 0)
    BY <2>1 DEF InTurn
  <2> QED
    BY <2>2
<1>2. ASSUME NEW n \in 0..N, n \in S, n < N
      PROVE  n + 1 \in S
  <2>1. PICK g : InTurn(g, start, order, n)
    BY <1>2
  <2> DEFINE F(h, i) == IF i = 0 THEN start
                        ELSE EvaluateKey(h[i - 1], order[i])
             f == [i \in 0..n + 1 |-> IF i = n + 1 THEN EvaluateKey(g[n], order[n + 1]) ELSE g[i]]
  <2>2. ASSUME NEW i \in 0..n + 1
        PROVE  f[i] = F(f, i)
    <3>1. CASE i = n + 1
      <4>1. f[i] = EvaluateKey(g[n], order[n + 1]) /\ i # 0 /\ i - 1 = n /\ f[n] = g[n]
        BY <3>1
      <4> HIDE DEF f
      <4> QED
        BY <3>1, <4>1
    <3>2. CASE i # n + 1
      <4>1. i \in 0..n /\ f[i] = g[i] /\ g[i] = F(g, i)
        BY <2>1, <3>2 DEF InTurn
      <4>2. i # 0 => f[i - 1] = g[i - 1]
        BY <3>2
      <4> HIDE DEF f
      <4> QED
        BY <4>1, <4>2
    <3> QED
      BY <3>1, <3>2
  <2>3. f = [i \in 0..n + 1 |-> F(f, i)]
    BY <2>2
  <2>4. InTurn(f, start, order, n + 1)
    BY <2>3 DEF InTurn
  <2> QED
    BY <1>2, <2>4
<1>3. N \in S
  <2> HIDE DEF S
  <2>1. \A n \in 0..N : n \in S
    BY <1>1, <1>2, CountUp
  <2> QED
    BY <2>1
<1>4. PICK f : InTurn(f, start, order, N)
  BY <1>3
<1>5. InTurn(AfterKeys(e, order), start, order, N)
  BY <1>4 DEF InTurn, AfterKeys, start
<1> HIDE DEF N, S
<1> DEFINE A == AfterKeys(e, order)
<1> HIDE DEF A
<1>6. \A i \in 0..N : A[i] = IF i = 0 THEN start
                             ELSE EvaluateKey(A[i - 1], order[i])
  BY <1>5 DEF InTurn, A
<1>7. A[0] = start /\ \A n \in 1..N : A[n] = EvaluateKey(A[n - 1], order[n])
  BY <1>6 DEF N
<1> QED
  BY <1>7 DEF A, N, start

InRounds(f, start, n) ==
    f = [i \in 0..n |-> IF i = 0 THEN {start} ELSE UNION {EvaluationRound(e) : e \in f[i - 1]}]

\* there are three rounds, each from what the one before has left
LEMMA RoundsInTurn ==
    ASSUME NEW start, NEW e \in AfterRounds(start)[Rounds]
    PROVE  \E d1, d2 : /\ d1 \in EvaluationRound(start) /\ d2 \in EvaluationRound(d1)
                       /\ e \in EvaluationRound(d2)
<1> DEFINE R(X) == UNION {EvaluationRound(d) : d \in X}
           f == [i \in 0..3 |-> IF i = 0 THEN {start} ELSE IF i = 1 THEN R({start})
                                ELSE IF i = 2 THEN R(R({start})) ELSE R(R(R({start})))]
           F(h, i) == IF i = 0 THEN {start} ELSE UNION {EvaluationRound(d) : d \in h[i - 1]}
<1>1. f[0] = {start} /\ f[1] = R({start}) /\ f[2] = R(R({start})) /\ f[3] = R(R(R({start})))
  OBVIOUS
<1>2. ASSUME NEW i \in 0..3
      PROVE  f[i] = F(f, i)
  <2>1. i = 0 \/ i = 1 \/ i = 2 \/ i = 3
    OBVIOUS
  <2>2. 1 - 1 = 0 /\ 2 - 1 = 1 /\ 3 - 1 = 2 /\ 1 # 0 /\ 2 # 0 /\ 3 # 0
    OBVIOUS
  <2> HIDE DEF f
  <2> QED
    BY <1>1, <2>1, <2>2
<1>3. f = [i \in 0..3 |-> F(f, i)]
  BY <1>2
<1>4. InRounds(f, start, Rounds)
  BY <1>3 DEF InRounds, Rounds
<1> DEFINE A == AfterRounds(start)
<1>5. InRounds(A, start, Rounds)
  BY <1>4 DEF InRounds, AfterRounds
<1> HIDE DEF A
<1>6. \A i \in 0..3 : A[i] = F(A, i)
  BY <1>5 DEF InRounds, Rounds
<1>7. A[0] = {start} /\ A[1] = R(A[0]) /\ A[2] = R(A[1]) /\ A[3] = R(A[2])
  <2>1. 1 - 1 = 0 /\ 2 - 1 = 1 /\ 3 - 1 = 2 /\ 1 # 0 /\ 2 # 0 /\ 3 # 0
    OBVIOUS
  <2>2. 0 \in 0..3 /\ 1 \in 0..3 /\ 2 \in 0..3 /\ 3 \in 0..3
    OBVIOUS
  <2> QED
    BY <1>6, <2>1, <2>2
<1>8. e \in A[3]
  BY DEF A, Rounds
<1>9. PICK d2 \in A[2] : e \in EvaluationRound(d2)
  BY <1>7, <1>8
<1>10. PICK d1 \in A[1] : d2 \in EvaluationRound(d1)
  BY <1>7, <1>9
<1>11. d1 \in EvaluationRound(start)
  BY <1>7, <1>10
<1> QED
  BY <1>9, <1>10, <1>11

FieldsInTurn0(f, fields, start, n) ==
    f = [i \in 0..n |-> IF i = 0 THEN start ELSE Memorize(f[i - 1], fields[i])]

\* the fields of the memory are looked for in turn
LEMMA FieldsInTurn ==
    ASSUME NEW fields, NEW start, Len(fields) \in Nat
    PROVE  /\ AfterFields(fields, start)[0] = start
           /\ \A n \in 1..Len(fields) :
                AfterFields(fields, start)[n] = Memorize(AfterFields(fields, start)[n - 1], fields[n])
<1> DEFINE N == Len(fields)
           S == {n \in 0..N : \E f : FieldsInTurn0(f, fields, start, n)}
<1>1. 0 \in S
  <2> DEFINE f == [i \in 0..0 |-> start]
  <2>1. f = [i \in 0..0 |-> IF i = 0 THEN start ELSE Memorize(f[i - 1], fields[i])]
    OBVIOUS
  <2> HIDE DEF f
  <2>2. FieldsInTurn0(f, fields, start, 0)
    BY <2>1 DEF FieldsInTurn0
  <2> QED
    BY <2>2
<1>2. ASSUME NEW n \in 0..N, n \in S, n < N
      PROVE  n + 1 \in S
  <2>1. PICK g : FieldsInTurn0(g, fields, start, n)
    BY <1>2
  <2> DEFINE F(h, i) == IF i = 0 THEN start ELSE Memorize(h[i - 1], fields[i])
             f == [i \in 0..n + 1 |-> IF i = n + 1 THEN Memorize(g[n], fields[n + 1]) ELSE g[i]]
  <2>2. ASSUME NEW i \in 0..n + 1
        PROVE  f[i] = F(f, i)
    <3>1. CASE i = n + 1
      <4>1. f[i] = Memorize(g[n], fields[n + 1]) /\ i # 0 /\ i - 1 = n /\ f[n] = g[n]
        BY <3>1
      <4> HIDE DEF f
      <4> QED
        BY <3>1, <4>1
    <3>2. CASE i # n + 1
      <4>1. i \in 0..n /\ f[i] = g[i] /\ g[i] = F(g, i)
        BY <2>1, <3>2 DEF FieldsInTurn0
      <4>2. i # 0 => f[i - 1] = g[i - 1]
        BY <3>2
      <4> HIDE DEF f
      <4> QED
        BY <4>1, <4>2
    <3> QED
      BY <3>1, <3>2
  <2>3. f = [i \in 0..n + 1 |-> F(f, i)]
    BY <2>2
  <2>4. FieldsInTurn0(f, fields, start, n + 1)
    BY <2>3 DEF FieldsInTurn0
  <2> QED
    BY <1>2, <2>4
<1>3. N \in S
  <2> HIDE DEF S
  <2>1. \A n \in 0..N : n \in S
    BY <1>1, <1>2, CountUp
  <2> QED
    BY <2>1
<1>4. PICK f : FieldsInTurn0(f, fields, start, N)
  BY <1>3
<1>5. FieldsInTurn0(AfterFields(fields, start), fields, start, N)
  BY <1>4 DEF FieldsInTurn0, AfterFields
<1> HIDE DEF N, S
<1> DEFINE A == AfterFields(fields, start)
<1> HIDE DEF A
<1>6. \A i \in 0..N : A[i] = IF i = 0 THEN start ELSE Memorize(A[i - 1], fields[i])
  BY <1>5 DEF FieldsInTurn0, A
<1> QED
  BY <1>6 DEF A, N

-----------------------------------------------------------------------------
(* Lemmas about the context section.                                       *)

IsEvaluation(e) ==
    /\ e = [todo |-> e.todo, again |-> e.again, cache |-> e.cache]
    /\ e.todo = [k \in DOMAIN e.todo |-> e.todo[k]]
    /\ IsFiniteSet(DOMAIN e.todo)
    /\ IsCache(e.cache)
    /\ Entries(e.todo) /\ Entries(e.cache.runtime)

LEMMA SubstituteInValueDoes ==
    ASSUME NEW text, IsEntry(text)
    PROVE  LET found == SubstituteInValue(text) IN
           /\ found.still = text.ref
           /\ IsEntry(found.text) /\ found.text.ref = text.ref /\ found.text.atom = text.atom
           /\ found.text.by = text.by /\ found.text.kind = text.kind
           /\ found.text.calls = IF text.ref \/ text.calls = 0 THEN text.calls
                                 ELSE text.calls - 1
<1> DEFINE found == SubstituteInValue(text)
           t == [text EXCEPT !.calls = text.calls - 1]
<1>1. t = [calls |-> text.calls - 1, ref |-> text.ref, atom |-> text.atom, by |-> text.by,
           kind |-> text.kind]
  BY EntryChange
<1>2. IsEntry(t)
  BY <1>1, MadeEntry
<1>3. /\ found.still = text.ref
      /\ found.text = IF text.ref \/ text.calls = 0 THEN text ELSE t
  BY DEF SubstituteInValue, StillPlaceHolder
<1> HIDE DEF found, t
<1>4. CASE text.ref \/ text.calls = 0
  BY <1>3, <1>4 DEF found
<1>5. CASE ~(text.ref \/ text.calls = 0)
  BY <1>1, <1>2, <1>3, <1>5 DEF found
<1> QED
  BY <1>4, <1>5

\* what an evaluation of the key k leaves of t, the text after the substitution
EvaluatesTo(e, k, d, t) ==
    \/ /\ t.ref
       /\ DOMAIN d.todo = DOMAIN e.todo /\ d.todo[k] = t /\ d.again = TRUE
       /\ d.cache = e.cache
    \/ /\ ~t.ref /\ t.atom = Blank
       /\ DOMAIN d.todo = DOMAIN e.todo /\ d.todo[k] = t /\ d.again = e.again
       /\ d.cache = e.cache
    \/ /\ ~t.ref /\ t.atom # Blank
       /\ DOMAIN d.todo = DOMAIN e.todo \ {k} /\ d.again = e.again
       /\ d.cache = UpdateKeys(e.cache, Single(k, t))

LEMMA EvaluateKeyDoes ==
    ASSUME NEW e, IsEvaluation(e), NEW k \in DOMAIN e.todo
    PROVE  LET text == Substitute(e.todo[k], e.cache.runtime)
               d == EvaluateKey(e, k)
               t == SubstituteInValue(text).text
           IN  /\ IsEvaluation(d) /\ IsEntry(t) /\ EvaluatesTo(e, k, d, t)
               /\ \A j \in DOMAIN d.todo \ {k} : d.todo[j] = e.todo[j]
<1> DEFINE text == Substitute(e.todo[k], e.cache.runtime)
           found == SubstituteInValue(text)
           t == found.text
           d == EvaluateKey(e, k)
           todo1 == [e.todo EXCEPT ![k] = t]
           yes == TRUE
           todo2 == Restrict(e.todo, DOMAIN e.todo \ {k})
           cache == UpdateKeys(e.cache, Single(k, t))
<1>1. IsEntry(e.todo[k])
  BY DEF IsEvaluation, Entries
<1>2. IsEntry(text)
  BY <1>1, SubstituteEntry DEF IsEvaluation
<1>3. found.still = text.ref /\ IsEntry(t) /\ t.ref = text.ref
  BY <1>2, SubstituteInValueDoes
<1>4. d = IF found.still THEN [e EXCEPT !.todo[k] = t, !.again = yes]
          ELSE IF t.atom = Blank THEN [e EXCEPT !.todo[k] = t]
          ELSE [e EXCEPT !.todo = Restrict(@, DOMAIN @ \ {k}),
                         !.cache = UpdateKeys(@, Single(k, t))]
  BY DEF EvaluateKey
<1> HIDE DEF text, found, d, t, todo1, todo2, cache, yes
<1>5. e = [todo |-> e.todo, again |-> e.again, cache |-> e.cache]
  BY DEF IsEvaluation
<1>6. /\ DOMAIN todo1 = DOMAIN e.todo /\ todo1[k] = t
      /\ todo1 = [j \in DOMAIN todo1 |-> todo1[j]]
      /\ \A j \in DOMAIN e.todo \ {k} : todo1[j] = e.todo[j]
      /\ Entries(todo1) /\ IsFiniteSet(DOMAIN todo1)
  BY <1>3 DEF todo1, IsEvaluation, Entries
<1>7. /\ DOMAIN todo2 = DOMAIN e.todo \ {k}
      /\ todo2 = [j \in DOMAIN todo2 |-> todo2[j]]
      /\ \A j \in DOMAIN e.todo \ {k} : todo2[j] = e.todo[j]
      /\ Entries(todo2) /\ IsFiniteSet(DOMAIN todo2)
  <2>1. /\ DOMAIN todo2 = DOMAIN e.todo \ {k}
        /\ todo2 = [j \in DOMAIN todo2 |-> todo2[j]]
        /\ \A j \in DOMAIN e.todo \ {k} : todo2[j] = e.todo[j]
    BY DEF todo2, Restrict
  <2>2. Entries(todo2)
    BY <2>1 DEF IsEvaluation, Entries
  <2>3. IsFiniteSet(DOMAIN e.todo \ {k})
    BY FS_Subset, DOMAIN e.todo \ {k} \subseteq DOMAIN e.todo DEF IsEvaluation
  <2> QED
    BY <2>1, <2>2, <2>3
<1>8. /\ IsCache(cache) /\ cache.with = e.cache.with
      /\ cache.runtime = Updated(e.cache.runtime, Single(k, t))
  <2>1. IsCache(e.cache)
    BY DEF IsEvaluation
  <2>2. IsCache(cache) /\ cache.with = e.cache.with
    BY <2>1, CacheShapes DEF cache
  <2>3. cache.runtime = Updated(e.cache.runtime, Single(k, t))
    BY <2>1 DEF cache, IsCache, UpdateKeys
  <2> QED
    BY <2>2, <2>3
<1>9. Entries(cache.runtime)
  <2>1. Entries(e.cache.runtime) /\ Entries(Single(k, t))
    BY <1>3, SingleEntry DEF IsEvaluation
  <2>2. Entries(Updated(e.cache.runtime, Single(k, t)))
    BY <2>1, UpdatedEntries
  <2> QED
    BY <1>8, <2>2
<1>10. CASE text.ref
  <2> DEFINE e1 == [e EXCEPT !.todo = todo1]
  <2>1. d = [e EXCEPT !.todo[k] = t, !.again = yes]
    BY <1>3, <1>4, <1>10
  <2>2. e1 = [todo |-> todo1, again |-> e.again, cache |-> e.cache]
    BY <1>5
  <2>3. d = [e1 EXCEPT !.again = yes]
    BY <1>5, <2>1 DEF todo1
  <2> HIDE DEF e1
  <2>4. d = [todo |-> todo1, again |-> yes, cache |-> e.cache]
    BY <2>2, <2>3
  <2>5. d.todo = todo1 /\ d.again = yes /\ d.cache = e.cache
        /\ d = [todo |-> d.todo, again |-> d.again, cache |-> d.cache]
    BY <2>4
  <2>6. IsEvaluation(d)
    BY <1>6, <2>5 DEF IsEvaluation
  <2>7. EvaluatesTo(e, k, d, t)
    BY <1>3, <1>6, <1>10, <2>5 DEF EvaluatesTo, yes
  <2> QED
    BY <1>3, <1>6, <2>5, <2>6, <2>7 DEF d, t, found, text
<1>11. CASE ~text.ref /\ t.atom = Blank
  <2>1. d = [e EXCEPT !.todo[k] = t]
    BY <1>3, <1>4, <1>11
  <2>2. d = [todo |-> todo1, again |-> e.again, cache |-> e.cache]
    BY <1>5, <2>1 DEF todo1
  <2>3. d.todo = todo1 /\ d.again = e.again /\ d.cache = e.cache
        /\ d = [todo |-> d.todo, again |-> d.again, cache |-> d.cache]
    BY <2>2
  <2>4. IsEvaluation(d)
    BY <1>6, <2>3 DEF IsEvaluation
  <2>5. EvaluatesTo(e, k, d, t)
    BY <1>3, <1>6, <1>11, <2>3 DEF EvaluatesTo
  <2> QED
    BY <1>3, <1>6, <2>3, <2>4, <2>5 DEF d, t, found, text
<1>12. CASE ~text.ref /\ t.atom # Blank
  <2> DEFINE e1 == [e EXCEPT !.todo = todo2]
  <2>1. d = [e EXCEPT !.todo = Restrict(@, DOMAIN @ \ {k}),
                      !.cache = UpdateKeys(@, Single(k, t))]
    BY <1>3, <1>4, <1>12
  <2>2. e1 = [todo |-> todo2, again |-> e.again, cache |-> e.cache]
    BY <1>5
  <2>3. d = [e1 EXCEPT !.cache = UpdateKeys(e1.cache, Single(k, t))]
    BY <1>5, <2>1 DEF todo2
  <2> HIDE DEF e1
  <2>4. d = [todo |-> todo2, again |-> e.again, cache |-> cache]
    BY <2>2, <2>3 DEF cache
  <2>5. d.todo = todo2 /\ d.again = e.again /\ d.cache = cache
        /\ d = [todo |-> d.todo, again |-> d.again, cache |-> d.cache]
    BY <2>4
  <2>6. IsEvaluation(d)
    BY <1>7, <1>8, <1>9, <2>5 DEF IsEvaluation
  <2>7. EvaluatesTo(e, k, d, t)
    BY <1>3, <1>7, <1>12, <2>5 DEF EvaluatesTo, cache
  <2> QED
    BY <1>3, <1>7, <2>5, <2>6, <2>7 DEF d, t, found, text
<1> QED
  BY <1>10, <1>11, <1>12

\* the evaluation n keys later
Later(e, order, n) == AfterKeys(e, order)[n]

LEMMA OrderOfKeys ==
    ASSUME NEW S, IsFiniteSet(S), NEW order \in Orders(S)
    PROVE  /\ Len(order) \in Nat
           /\ \A n \in 1..Len(order) : order[n] \in S
           /\ \A m, n \in 1..Len(order) : order[m] = order[n] => m = n
           /\ \A k \in S : \E n \in 1..Len(order) : order[n] = k
<1>1. Cardinality(S) \in Nat
  BY FS_CardinalityType
<1>2. /\ order \in [1..Cardinality(S) -> S]
      /\ \A m, n \in DOMAIN order : order[m] = order[n] => m = n
      /\ \A k \in S : \E n \in 1..Cardinality(S) : order[n] = k
  BY DEF Orders, Bijection, Injection, Surjection, IsInjective
<1>3. order \in Seq(S) /\ Len(order) = Cardinality(S)
  BY <1>1, <1>2, SeqDef
<1> QED
  BY <1>1, <1>2, <1>3

LEMMA AgainChanges ==
    ASSUME NEW e, IsEvaluation(e), NEW b
    PROVE  LET d == [e EXCEPT !.again = b]
           IN  IsEvaluation(d) /\ d.again = b /\ d.todo = e.todo /\ d.cache = e.cache
<1> DEFINE d == [e EXCEPT !.again = b]
<1>1. d = [todo |-> e.todo, again |-> b, cache |-> e.cache]
  BY DEF IsEvaluation
<1>2. /\ d.again = b /\ d.todo = e.todo /\ d.cache = e.cache
      /\ d = [todo |-> d.todo, again |-> d.again, cache |-> d.cache]
  BY <1>1
<1> HIDE DEF d
<1>3. IsEvaluation(d)
  BY <1>2 DEF IsEvaluation
<1> QED
  BY <1>2, <1>3 DEF d

\* a key is still to be done when its turn comes
LEMMA KeysOfRound ==
    ASSUME NEW e, IsEvaluation(e), NEW order \in Orders(DOMAIN e.todo)
    PROVE  /\ \A n \in 0..Len(order) :
                /\ IsEvaluation(Later(e, order, n))
                /\ \A m \in n + 1..Len(order) : order[m] \in DOMAIN Later(e, order, n).todo
           /\ \A n \in 1..Len(order) :
                /\ order[n] \in DOMAIN Later(e, order, n - 1).todo
                /\ Later(e, order, n) = EvaluateKey(Later(e, order, n - 1), order[n])
           /\ Later(e, order, 0) = [e EXCEPT !.again = FALSE]
<1> DEFINE N == Len(order)
           L(n) == Later(e, order, n)
           no == FALSE
           S == {n \in 0..N : /\ IsEvaluation(L(n))
                              /\ \A m \in n + 1..N : order[m] \in DOMAIN L(n).todo}
<1>1. IsFiniteSet(DOMAIN e.todo)
  BY DEF IsEvaluation
<1>2. /\ N \in Nat
      /\ \A n \in 1..N : order[n] \in DOMAIN e.todo
      /\ \A m, n \in 1..N : order[m] = order[n] => m = n
  BY <1>1, OrderOfKeys
<1>3. L(0) = [e EXCEPT !.again = no] /\ \A n \in 1..N : L(n) = EvaluateKey(L(n - 1), order[n])
  BY <1>2, KeysInTurn DEF Later
<1> HIDE DEF N, L, no
<1>4. 0 \in S
  <2> DEFINE d == [e EXCEPT !.again = no]
  <2>2. IsEvaluation(d) /\ d.todo = e.todo
    BY AgainChanges
  <2> HIDE DEF d
  <2>1. IsEvaluation(L(0)) /\ L(0).todo = e.todo
    BY <1>3, <2>2 DEF d
  <2> QED
    BY <1>2, <2>1
<1>5. ASSUME NEW n \in 0..N, n \in S, n < N
      PROVE  n + 1 \in S
  <2>1. IsEvaluation(L(n)) /\ \A m \in n + 1..N : order[m] \in DOMAIN L(n).todo
    BY <1>5
  <2>2. n + 1 \in 1..N /\ (n + 1) - 1 = n /\ n + 1 \in n + 1..N /\ n + 1 \in 0..N
    BY <1>2, <1>5
  <2>3. L(n + 1) = EvaluateKey(L(n), order[n + 1]) /\ order[n + 1] \in DOMAIN L(n).todo
    BY <1>3, <2>1, <2>2
  <2>4. /\ IsEvaluation(L(n + 1))
        /\ DOMAIN L(n).todo \ {order[n + 1]} \subseteq DOMAIN L(n + 1).todo
    <3> DEFINE a == L(n)
               k == order[n + 1]
    <3>1. IsEvaluation(a) /\ k \in DOMAIN a.todo
      BY <2>1, <2>3
    <3> HIDE DEF a, k
    <3>2. /\ IsEvaluation(EvaluateKey(a, k))
          /\ \E t : EvaluatesTo(a, k, EvaluateKey(a, k), t)
      BY <3>1, EvaluateKeyDoes
    <3>3. DOMAIN a.todo \ {k} \subseteq DOMAIN EvaluateKey(a, k).todo
      BY <3>2 DEF EvaluatesTo
    <3> QED
      BY <2>3, <3>2, <3>3 DEF a, k
  <2>5. ASSUME NEW m \in n + 1 + 1..N
        PROVE  order[m] \in DOMAIN L(n + 1).todo
    <3>1. m \in n + 1..N /\ m \in 1..N /\ m # n + 1
      BY <1>2, <2>2
    <3> QED
      BY <1>2, <2>1, <2>2, <2>4, <3>1
  <2> QED
    BY <2>2, <2>4, <2>5
<1>6. \A n \in 0..N : n \in S
  <2> HIDE DEF S
  <2> QED
    BY <1>2, <1>4, <1>5, CountUp
<1>7. ASSUME NEW n \in 1..N
      PROVE  order[n] \in DOMAIN L(n - 1).todo
  <2>1. n - 1 \in 0..N /\ n \in (n - 1) + 1..N
    BY <1>2
  <2> QED
    BY <1>6, <2>1
<1> QED
  BY <1>3, <1>6, <1>7 DEF N, L, no

\* an evaluation whose values come from outside
GivenEvaluation(e) ==
    /\ IsEvaluation(e) /\ Given(e.cache.runtime) /\ e.cache.dynamic = <<>>
    /\ \A k \in DOMAIN e.todo : e.todo[k].by = <<>> /\ e.todo[k].kind = "context"

LEMMA KeyIsGiven ==
    ASSUME NEW e, GivenEvaluation(e), NEW k \in DOMAIN e.todo
    PROVE  GivenEvaluation(EvaluateKey(e, k))
<1> DEFINE text == Substitute(e.todo[k], e.cache.runtime)
           d == EvaluateKey(e, k)
           t == SubstituteInValue(text).text
<1>1. /\ IsEvaluation(e) /\ Given(e.cache.runtime) /\ e.cache.dynamic = <<>>
      /\ \A j \in DOMAIN e.todo : e.todo[j].by = <<>> /\ e.todo[j].kind = "context"
  BY DEF GivenEvaluation
<1>2. /\ IsEvaluation(d) /\ IsEntry(t) /\ EvaluatesTo(e, k, d, t)
      /\ \A j \in DOMAIN d.todo \ {k} : d.todo[j] = e.todo[j]
  BY <1>1, EvaluateKeyDoes
<1>3. IsEntry(e.todo[k]) /\ Entries(e.cache.runtime)
  BY <1>1 DEF IsEvaluation, Entries
<1>4. IsEntry(text) /\ text.kind = "context" /\ text.by = <<>>
  BY <1>1, <1>3, SubstituteEntry DEF Given
<1> HIDE DEF text, d
<1>5. t.kind = "context" /\ t.by = <<>>
  BY <1>4, SubstituteInValueDoes
<1> HIDE DEF t
<1>6. Given(Updated(e.cache.runtime, Single(k, t)))
  <2>1. Given(Single(k, t))
    BY <1>2, <1>5, SingleEntry
  <2> QED
    BY <1>1, <2>1, UpdatedEntries
<1>7. /\ UpdateKeys(e.cache, Single(k, t)).runtime = Updated(e.cache.runtime, Single(k, t))
      /\ UpdateKeys(e.cache, Single(k, t)).dynamic = e.cache.dynamic
  BY <1>1 DEF IsEvaluation, IsCache, UpdateKeys
<1>8. Given(d.cache.runtime) /\ d.cache.dynamic = <<>>
  BY <1>1, <1>2, <1>6, <1>7 DEF EvaluatesTo
<1>9. \A j \in DOMAIN d.todo : d.todo[j].by = <<>> /\ d.todo[j].kind = "context"
  BY <1>1, <1>2, <1>5 DEF EvaluatesTo
<1> QED
  BY <1>2, <1>8, <1>9 DEF GivenEvaluation, d

LEMMA RoundIsGiven ==
    ASSUME NEW e, GivenEvaluation(e), NEW d \in EvaluationRound(e)
    PROVE  GivenEvaluation(d)
<1>1. CASE ~e.again
  BY <1>1 DEF EvaluationRound
<1>2. CASE e.again
  <2>1. PICK order \in Orders(DOMAIN e.todo) : d = Later(e, order, Len(order))
    BY <1>2 DEF EvaluationRound, Later
  <2> DEFINE N == Len(order)
             L(n) == Later(e, order, n)
             S == {n \in 0..N : GivenEvaluation(L(n))}
             no == FALSE
             e0 == [e EXCEPT !.again = no]
  <2>2. IsEvaluation(e)
    BY DEF GivenEvaluation
  <2>3. N \in Nat
    BY <2>2, OrderOfKeys DEF IsEvaluation
  <2>4. /\ \A n \in 1..N : /\ order[n] \in DOMAIN L(n - 1).todo
                           /\ L(n) = EvaluateKey(L(n - 1), order[n])
        /\ L(0) = e0
    BY <2>2, KeysOfRound
  <2>5. IsEvaluation(e0) /\ e0.todo = e.todo /\ e0.cache = e.cache
    BY <2>2, AgainChanges
  <2> HIDE DEF N, L, e0
  <2>6. 0 \in S
    BY <2>3, <2>4, <2>5 DEF GivenEvaluation
  <2>7. ASSUME NEW n \in 0..N, n \in S, n < N
        PROVE  n + 1 \in S
    <3>1. n + 1 \in 1..N /\ (n + 1) - 1 = n /\ n + 1 \in 0..N
      BY <2>3, <2>7
    <3>2. L(n + 1) = EvaluateKey(L(n), order[n + 1]) /\ order[n + 1] \in DOMAIN L(n).todo
      BY <2>4, <3>1
    <3>3. GivenEvaluation(L(n + 1))
      BY <2>7, <3>2, KeyIsGiven
    <3> QED
      BY <3>1, <3>3
  <2>8. N \in S
    <3> HIDE DEF S
    <3>1. \A n \in 0..N : n \in S
      BY <2>3, <2>6, <2>7, CountUp
    <3> QED
      BY <2>3, <3>1
  <2> QED
    BY <2>1, <2>8 DEF L, N
<1> QED
  BY <1>1, <1>2

\* the evaluation that the section of a scenario begins with
StartOf(context, uid, c, env) ==
    [todo |-> Values(context, "context"), again |-> TRUE,
     cache |-> UpdateKeys(Reset(c, env), Single(TransactionId, Literal(uid)))]

LEMMA StartIsGiven ==
    ASSUME NEW context, AreTexts(context), IsFiniteSet(DOMAIN context), NEW uid,
           NEW c, IsCache(c), Given(c.dynamic), NEW env, Given(env)
    PROVE  LET e == StartOf(context, uid, c, env) IN
           /\ GivenEvaluation(e)
           /\ e.todo = Values(context, "context") /\ e.again = TRUE
           /\ e.cache.runtime
                = Updated(Updated(env, c.dynamic), Single(TransactionId, Literal(uid)))
<1> DEFINE todo == Values(context, "context")
           R0 == Updated(env, c.dynamic)
           R == Updated(R0, Single(TransactionId, Literal(uid)))
           none == <<>>
           c0 == [runtime |-> R0, with |-> c.with, dynamic |-> none]
           k == [runtime |-> R, with |-> c.with, dynamic |-> none]
           e == StartOf(context, uid, c, env)
<1>1. Reset(c, env) = c0
  <2> DEFINE c1 == [c EXCEPT !.runtime = R0]
  <2>1. Reset(c, env) = [c1 EXCEPT !.dynamic = none]
    BY DEF Reset
  <2> HIDE DEF R0, none
  <2>2. c1 = [runtime |-> R0, with |-> c.with, dynamic |-> c.dynamic]
    BY DEF IsCache
  <2> HIDE DEF c1
  <2> QED
    BY <2>1, <2>2
<1>2. UpdateKeys(c0, Single(TransactionId, Literal(uid))) = k
  BY DEF UpdateKeys
<1>3. e = [todo |-> todo, again |-> TRUE, cache |-> k]
  BY <1>1, <1>2 DEF StartOf
<1>4. /\ Entries(todo) /\ DOMAIN todo = DOMAIN context
      /\ \A j \in DOMAIN todo : todo[j].by = <<>> /\ todo[j].kind = "context"
  BY TextsAreGiven, ValuesOfKind DEF Given
<1>5. todo = [j \in DOMAIN todo |-> todo[j]]
  BY DEF Values
<1>6. Given(R)
  <2>1. Given(R0)
    BY UpdatedEntries
  <2>2. Given(Single(TransactionId, Literal(uid)))
    BY LiteralEntry, SingleEntry
  <2> HIDE DEF R0
  <2> QED
    BY <2>1, <2>2, UpdatedEntries
<1> HIDE DEF todo, R, e
<1>7. IsCache(k) /\ k.runtime = R /\ k.dynamic = <<>>
  BY DEF IsCache
<1> HIDE DEF k
<1>8. /\ e.todo = todo /\ e.again = TRUE /\ e.cache = k
      /\ e = [todo |-> e.todo, again |-> e.again, cache |-> e.cache]
  BY <1>3
<1>9. GivenEvaluation(e)
  <2>1. Entries(R)
    BY <1>6, GivenIsOwn
  <2>2. IsEvaluation(e)
    BY <1>4, <1>5, <1>7, <1>8, <2>1 DEF IsEvaluation
  <2> QED
    BY <1>4, <1>6, <1>7, <1>8, <2>2 DEF GivenEvaluation
<1> QED
  BY <1>7, <1>8, <1>9 DEF e, todo, R

\* a scenario starts with values that come from outside
LEMMA ScenarioCachesAreGiven ==
    ASSUME NEW s, IsScenario(s), NEW uid, NEW c, IsCache(c), Given(c.dynamic),
           NEW env, Given(env), NEW cache \in ScenarioCaches(s, uid, c, env)
    PROVE  Given(cache.with) /\ Given(cache.runtime) /\ cache.dynamic = <<>>
<1> DEFINE e0 == StartOf(s.context, uid, c, env)
<1>1. PICK e \in Evaluations(s.context, uid, c, env) : cache = SetContextMarker(e.cache)
  BY DEF ScenarioCaches
<1>2. e \in AfterRounds(e0)[Rounds]
  BY DEF Evaluations, StartOf
<1>3. GivenEvaluation(e0)
  BY StartIsGiven DEF IsScenario
<1> HIDE DEF e0
<1>4. GivenEvaluation(e)
  BY <1>2, <1>3, RoundsInTurn, RoundIsGiven
<1>5. cache = [runtime |-> e.cache.runtime, with |-> e.cache.runtime,
               dynamic |-> e.cache.dynamic]
  BY <1>1 DEF SetContextMarker
<1> QED
  BY <1>4, <1>5 DEF GivenEvaluation

-----------------------------------------------------------------------------
(* Lemmas about the fields of a step.                                      *)

FieldsOf(line) == Values(line.fields, "field")

\* what the fields are evaluated with, and what they are worth
KnownTo(line, c) ==
    UpdateKeys(ResetToContextMarker(c), Restrict(FieldsOf(line), LiteralFields(FieldsOf(line))))

ValueOf(line, c, f) ==
    LET text == FieldsOf(line)[f] IN
    IF f \in TemplateFields(FieldsOf(line)) THEN Substitute(text, KnownTo(line, c).runtime)
    ELSE text

ValuesOf(line, c) ==
    [f \in DOMAIN FieldsOf(line) |->
        IF f \in FunctionFields(FieldsOf(line)) THEN CallField(ValueOf(line, c, f))
        ELSE ValueOf(line, c, f)]

LEMMA ProcessNewParts ==
    ASSUME NEW line, NEW macros, NEW c
    PROVE  LET p == ProcessNew(line, macros, c)
               all == UpdateKeys(KnownTo(line, c), ValuesOf(line, c))
           IN  /\ p.cache = all
               /\ p.outcome = "sent" => p.command = Command(line, ValuesOf(line, c), all.runtime)
<1> DEFINE fields    == Values(line.fields, "field")
           functions == FunctionFields(fields)
           known     == UpdateKeys(ResetToContextMarker(c),
                                   Restrict(fields, LiteralFields(fields)))
           value(f)  == IF f \in TemplateFields(fields)
                           THEN Substitute(fields[f], known.runtime) ELSE fields[f]
           values    == [f \in DOMAIN fields |->
                           IF f \in functions THEN CallField(value(f)) ELSE value(f)]
           all       == UpdateKeys(known, values)
           done(outcome, command0) == [outcome |-> outcome, cache |-> all, command |-> command0]
           p == ProcessNew(line, macros, c)
<1>1. p = IF \/ functions # {} /\ ~macros
             \/ \E f \in functions : values[f].atom = Blank
             THEN done("fatal", <<>>)
          ELSE IF line.template = "dynamic" THEN done("failed", <<>>)
          ELSE done("sent", Command(line, values, all.runtime))
  BY DEF ProcessNew
<1>2. known = KnownTo(line, c) /\ values = ValuesOf(line, c)
  BY DEF KnownTo, ValuesOf, ValueOf, FieldsOf
<1> HIDE DEF fields, functions, known, values, all, p
<1>3. p.cache = all /\ (p.outcome = "sent" => p.command = Command(line, values, all.runtime))
  BY <1>1
<1> QED
  BY <1>2, <1>3 DEF all, p

\* the texts of the fields, and the keys that they are evaluated with
LEMMA FieldFacts ==
    ASSUME NEW line, AreTexts(line.fields), NEW c, IsCache(c), Entries(c.with)
    PROVE  LET fields == FieldsOf(line)
               known == KnownTo(line, c)
           IN  /\ DOMAIN fields = DOMAIN line.fields
               /\ \A f \in DOMAIN fields :
                    /\ IsEntry(fields[f]) /\ fields[f].by = <<>> /\ fields[f].kind = "field"
                    /\ fields[f].calls = line.fields[f].calls /\ fields[f].calls \in Nat
                    /\ fields[f].ref = line.fields[f].ref /\ fields[f].ref \in BOOLEAN
                    /\ fields[f].atom = line.fields[f].atom /\ fields[f].atom # Raw
               /\ LiteralFields(fields) \subseteq DOMAIN fields
               /\ LiteralFields(fields) = LiteralFields(line.fields)
               /\ IsCache(known) /\ known.with = c.with /\ known.dynamic = c.dynamic
               /\ known.runtime = Updated(c.with, Restrict(fields, LiteralFields(fields)))
               /\ Entries(known.runtime)
               /\ \A r : Own(c.with, r) => Own(known.runtime, r)
<1> DEFINE fields == FieldsOf(line)
           L == LiteralFields(fields)
           literals == Restrict(fields, L)
           c0 == ResetToContextMarker(c)
           known == KnownTo(line, c)
<1>1. /\ Entries(line.fields)
      /\ \A f \in DOMAIN line.fields : /\ line.fields[f].by = <<>>
                                       /\ line.fields[f].calls \in Nat
                                       /\ line.fields[f].ref \in BOOLEAN
                                       /\ line.fields[f].atom # Raw
  BY TextsAreGiven DEF Given
<1>2. /\ DOMAIN fields = DOMAIN line.fields /\ Entries(fields)
      /\ \A f \in DOMAIN fields :
           /\ fields[f].by = line.fields[f].by /\ fields[f].kind = "field"
           /\ fields[f].calls = line.fields[f].calls
           /\ fields[f].ref = line.fields[f].ref
           /\ fields[f].atom = line.fields[f].atom
  BY <1>1, ValuesOfKind DEF FieldsOf
<1>3. known = UpdateKeys(c0, literals)
  BY DEF KnownTo
<1> HIDE DEF fields, known
<1>4. \A f \in DOMAIN fields :
           /\ IsEntry(fields[f]) /\ fields[f].by = <<>> /\ fields[f].kind = "field"
           /\ fields[f].calls = line.fields[f].calls /\ fields[f].calls \in Nat
           /\ fields[f].ref = line.fields[f].ref /\ fields[f].ref \in BOOLEAN
           /\ fields[f].atom = line.fields[f].atom /\ fields[f].atom # Raw
  BY <1>1, <1>2 DEF Entries
<1>5. L \subseteq DOMAIN fields /\ L = LiteralFields(line.fields)
  BY <1>2 DEF LiteralFields
<1>6. c0 = [runtime |-> c.with, with |-> c.with, dynamic |-> c.dynamic]
  BY DEF IsCache, ResetToContextMarker
<1>7. known = [runtime |-> Updated(c.with, literals), with |-> c.with, dynamic |-> c.dynamic]
  BY <1>3, <1>6 DEF UpdateKeys
<1>8. /\ IsCache(known) /\ known.with = c.with /\ known.dynamic = c.dynamic
      /\ known.runtime = Updated(c.with, literals)
  BY <1>7 DEF IsCache
<1> HIDE DEF L, c0
<1>9. Entries(literals) /\ DOMAIN literals = L /\ \A r : Own(literals, r)
  <2>1. Entries(fields) /\ \A r : Own(fields, r)
    BY <1>2, <1>4 DEF Own
  <2> QED
    BY <1>5, <2>1, RestrictEntries
<1> HIDE DEF literals
<1>10. Entries(known.runtime) /\ \A r : Own(c.with, r) => Own(known.runtime, r)
  <2>1. Entries(Updated(c.with, literals))
    BY <1>9, UpdatedEntries
  <2>2. \A r : Own(c.with, r) => Own(Updated(c.with, literals), r)
    BY <1>9, UpdatedEntries
  <2> QED
    BY <1>8, <2>1, <2>2
<1> QED
  BY <1>2, <1>4, <1>5, <1>8, <1>10 DEF fields, known, L, literals

LEMMA CallFieldDoes ==
    ASSUME NEW text, IsEntry(text)
    PROVE  /\ IsEntry(CallField(text)) /\ CallField(text).by = text.by
           /\ CallField(text).kind = text.kind
           /\ CallField(text).calls = 0 /\ ~CallField(text).ref
           /\ CallField(text).atom = IF text.ref THEN Raw ELSE text.atom
<1> DEFINE a == IF text.ref THEN Raw ELSE text.atom
           no == FALSE
           t == CallField(text)
<1>1. t = [text EXCEPT !.calls = 0, !.ref = no, !.atom = a]
  BY DEF CallField
<1> HIDE DEF a, no, t
<1>2. t = [calls |-> 0, ref |-> no, atom |-> a, by |-> text.by, kind |-> text.kind]
  BY <1>1, EntryChanges
<1>3. /\ IsEntry(t) /\ t.by = text.by /\ t.kind = text.kind /\ t.calls = 0 /\ t.ref = no
      /\ t.atom = a
  BY <1>2, MadeEntry
<1> QED
  BY <1>3 DEF a, no, t

\* the values of the fields belong to the step, and come from the texts or the cache
LEMMA ValuesOfFields ==
    ASSUME NEW line, AreTexts(line.fields), NEW c, IsCache(c), Entries(c.with)
    PROVE  LET values == ValuesOf(line, c) IN
           /\ DOMAIN values = DOMAIN line.fields
           /\ Entries(values)
           /\ \A f \in DOMAIN values : values[f].kind = "field"
           /\ \A r : Own(c.with, r) => Own(values, r)
<1> DEFINE fields == FieldsOf(line)
           keys == KnownTo(line, c).runtime
           value(f) == ValueOf(line, c, f)
           values == ValuesOf(line, c)
<1>1. /\ DOMAIN fields = DOMAIN line.fields
      /\ \A f \in DOMAIN fields :
           IsEntry(fields[f]) /\ fields[f].by = <<>> /\ fields[f].kind = "field"
      /\ Entries(keys) /\ \A r : Own(c.with, r) => Own(keys, r)
  BY FieldFacts
<1>2. DOMAIN values = DOMAIN fields
  BY DEF ValuesOf
<1>3. \A f \in DOMAIN fields :
        values[f] = IF f \in FunctionFields(fields) THEN CallField(value(f)) ELSE value(f)
  BY DEF ValuesOf
<1>4. \A f \in DOMAIN fields :
        value(f) = IF f \in TemplateFields(fields) THEN Substitute(fields[f], keys) ELSE fields[f]
  BY DEF ValueOf
<1> HIDE DEF fields, keys, value, values
<1>5. ASSUME NEW f \in DOMAIN fields
      PROVE  /\ IsEntry(value(f)) /\ value(f).kind = "field"
             /\ \A r : Own(keys, r) => value(f).by \in {<<>>, r}
  <2> DEFINE text == fields[f]
             found == Substitute(text, keys)
  <2>1. IsEntry(text) /\ text.by = <<>> /\ text.kind = "field"
    BY <1>1
  <2> HIDE DEF text
  <2>2. /\ IsEntry(found) /\ found.kind = text.kind
        /\ \/ text.atom \in DOMAIN keys /\ found.by = keys[text.atom].by
           \/ found = text
    BY <1>1, <2>1, SubstituteEntry
  <2> HIDE DEF found
  <2>3. value(f) = found \/ value(f) = text
    BY <1>4 DEF found, text
  <2> QED
    BY <2>1, <2>2, <2>3 DEF Own
<1>6. ASSUME NEW f \in DOMAIN fields
      PROVE  /\ IsEntry(values[f]) /\ values[f].kind = "field"
             /\ \A r : Own(keys, r) => values[f].by \in {<<>>, r}
  <2>1. values[f] = CallField(value(f)) \/ values[f] = value(f)
    BY <1>3
  <2>2. /\ IsEntry(CallField(value(f))) /\ CallField(value(f)).by = value(f).by
        /\ CallField(value(f)).kind = value(f).kind
    BY <1>5, CallFieldDoes
  <2> QED
    BY <1>5, <2>1, <2>2
<1> QED
  BY <1>1, <1>2, <1>6 DEF Entries, Own, values

\* processNew(): the cache of the step
LEMMA ProcessNewDoes ==
    ASSUME NEW line, AreTexts(line.fields), NEW macros, NEW c, IsCache(c), Entries(c.with)
    PROVE  LET cache == ProcessNew(line, macros, c).cache IN
           /\ IsCache(cache) /\ cache.with = c.with /\ cache.dynamic = c.dynamic
           /\ Entries(cache.runtime)
           /\ \A r : Own(c.with, r) => Own(cache.runtime, r)
           /\ Clean(c.with) =>
                \A k \in DOMAIN cache.runtime :
                    /\ cache.runtime[k].kind # "response"
                    /\ cache.runtime[k].kind = "field" => k \in DOMAIN line.fields
           /\ \A k \in DOMAIN cache.runtime :
                cache.runtime[k].kind = "memory" => k \in DOMAIN c.with /\ c.with[k].kind = "memory"
<1> DEFINE fields == FieldsOf(line)
           L == LiteralFields(fields)
           literals == Restrict(fields, L)
           known == KnownTo(line, c)
           values == ValuesOf(line, c)
           cache == ProcessNew(line, macros, c).cache
           R == Updated(known.runtime, values)
<1>1. /\ DOMAIN fields = DOMAIN line.fields
      /\ \A f \in DOMAIN fields : fields[f].kind = "field"
      /\ L \subseteq DOMAIN fields
      /\ IsCache(known) /\ known.with = c.with /\ known.dynamic = c.dynamic
      /\ known.runtime = Updated(c.with, literals)
      /\ Entries(known.runtime)
      /\ \A r : Own(c.with, r) => Own(known.runtime, r)
  BY FieldFacts
<1>2. /\ DOMAIN values = DOMAIN line.fields
      /\ Entries(values)
      /\ \A f \in DOMAIN values : values[f].kind = "field"
      /\ \A r : Own(c.with, r) => Own(values, r)
  BY ValuesOfFields
<1>3. cache = UpdateKeys(known, values)
  BY ProcessNewParts
<1>4. DOMAIN literals = L
  BY DEF Restrict
<1> HIDE DEF fields, L, literals, known, values, cache
<1>5. cache = [runtime |-> R, with |-> known.with, dynamic |-> known.dynamic]
  BY <1>1, <1>3 DEF IsCache, UpdateKeys
<1>6. Entries(R) /\ \A r : Own(c.with, r) => Own(R, r)
  BY <1>1, <1>2, UpdatedEntries
<1>7. ASSUME NEW k \in DOMAIN R
      PROVE  /\ Clean(c.with) =>
                  R[k].kind # "response" /\ (R[k].kind = "field" => k \in DOMAIN line.fields)
             /\ R[k].kind = "memory" => k \in DOMAIN c.with /\ c.with[k].kind = "memory"
  <2>1. CASE k \in DOMAIN values
    BY <1>2, <2>1 DEF Updated
  <2>2. CASE k \notin DOMAIN values
    <3>1. k \in DOMAIN known.runtime /\ R[k] = known.runtime[k]
      BY <2>2 DEF Updated
    <3>2. k \notin DOMAIN literals
      BY <1>1, <1>2, <1>4, <2>2
    <3>3. k \in DOMAIN c.with /\ known.runtime[k] = c.with[k]
      BY <1>1, <3>1, <3>2 DEF Updated
    <3> QED
      BY <3>1, <3>3 DEF Clean
  <2> QED
    BY <2>1, <2>2
<1> HIDE DEF R
<1>8. IsCache(cache) /\ cache.with = c.with /\ cache.dynamic = c.dynamic /\ cache.runtime = R
  BY <1>1, <1>5 DEF IsCache
<1> QED
  BY <1>6, <1>7, <1>8 DEF cache

-----------------------------------------------------------------------------
(* Lemmas about the memory.                                                *)

\* a value that is of the run r or of nobody
OwnText(text, r) == text.by \in {<<>>, r}

IsMemo(m) ==
    /\ m = [memory |-> m.memory, text |-> m.text, keys |-> m.keys, outcome |-> m.outcome]
    /\ Entries(m.memory) /\ Entries(m.keys) /\ IsEntry(m.text)

OwnMemo(m, r) == Own(m.memory, r) /\ Own(m.keys, r) /\ OwnText(m.text, r)

LEMMA ExtractDoes ==
    ASSUME NEW field, field.type \in MemoryTypes, NEW text, IsEntry(text),
           NEW keys, Entries(keys), NEW v \in Extract(field, text, keys).value
    PROVE  IsEntry(v) /\ \A r : OwnText(text, r) /\ Own(keys, r) => OwnText(v, r)
<1> DEFINE named == {k \in DOMAIN keys : k \in field.match}
           node == NodeText(text)
           key == CHOOSE k \in named : TRUE
           found(value) == [outcome |-> "ok", value |-> {value}]
           none(outcome) == [outcome |-> outcome, value |-> {}]
           x == Extract(field, text, keys)
<1>1. IsEntry(node) /\ node.by = text.by
  <2> DEFINE a == Nodes[text.atom][1]
  <2>1. node = [text EXCEPT !.atom = a]
    BY DEF NodeText
  <2> HIDE DEF a, node
  <2>2. node = [calls |-> text.calls, ref |-> text.ref, atom |-> a, by |-> text.by,
                kind |-> text.kind]
    BY <2>1, EntryChange
  <2> QED
    BY <2>2, MadeEntry
<1>2. x = CASE field.type = "copy" -> found(text)
            [] field.type = "regexp" ->
                 IF text.atom \in field.match THEN found(text) ELSE none("ok")
            [] field.type = "xpath keyword" -> none("ok")
            [] field.type = "xpath" ->
                 IF text.atom \in DOMAIN Nodes /\ Len(Nodes[text.atom]) = 1
                    THEN found(node) ELSE none("fatal")
            [] field.type = "context_single" ->
                 found(IF named = {} THEN Literal(Blank) ELSE keys[key])
  BY DEF Extract
<1>3. named # {} => key \in DOMAIN keys
  OBVIOUS
<1> HIDE DEF named, node, key, x
<1>4. x.value \in {{text}, {node}, {Literal(Blank)}, {}} \/ (named # {} /\ x.value = {keys[key]})
  <2>1. CASE field.type = "copy"
    BY <1>2, <2>1
  <2>2. CASE field.type = "regexp"
    BY <1>2, <2>2
  <2>3. CASE field.type = "xpath keyword"
    BY <1>2, <2>3
  <2>4. CASE field.type = "xpath"
    BY <1>2, <2>4
  <2>5. CASE field.type = "context_single"
    BY <1>2, <2>5
  <2> QED
    BY <2>1, <2>2, <2>3, <2>4, <2>5 DEF MemoryTypes
<1>5. v \in {text, node, Literal(Blank)} \/ (key \in DOMAIN keys /\ v = keys[key])
  BY <1>3, <1>4 DEF x
<1> QED
  BY <1>1, <1>5, LiteralEntry DEF Entries, Own, OwnText

LEMMA MemorizeDoes ==
    ASSUME NEW m, IsMemo(m), NEW field, field.type \in MemoryTypes
    PROVE  LET d == Memorize(m, field) IN
           IsMemo(d) /\ d.keys = m.keys /\ \A r : OwnMemo(m, r) => OwnMemo(d, r)
<1> DEFINE text  == IF field.from = Blank THEN m.text ELSE m.keys[field.from]
           found == Extract(field, text, m.keys)
           what  == [x \in {field.name : v \in found.value} |-> CHOOSE v \in found.value : TRUE]
           memo  == Updated(m.memory, what)
           d     == Memorize(m, field)
           out   == "failed"
<1>1. d = IF m.outcome # "ok" THEN m
          ELSE IF field.from # Blank /\ field.from \notin DOMAIN m.keys
            THEN [m EXCEPT !.outcome = out]
            ELSE [m EXCEPT !.text = text, !.outcome = found.outcome,
                           !.memory = Updated(@, what)]
  BY DEF Memorize
<1>2. m = [memory |-> m.memory, text |-> m.text, keys |-> m.keys, outcome |-> m.outcome]
  BY DEF IsMemo
<1>3. \A k \in DOMAIN what : what[k] \in found.value
  OBVIOUS
<1> HIDE DEF text, found, what, memo, d, out
<1>4. CASE m.outcome # "ok"
  BY <1>1, <1>4 DEF d
<1>5. CASE m.outcome = "ok" /\ field.from # Blank /\ field.from \notin DOMAIN m.keys
  <2>1. d = [m EXCEPT !.outcome = out]
    BY <1>1, <1>5
  <2>2. d = [memory |-> m.memory, text |-> m.text, keys |-> m.keys, outcome |-> out]
    BY <1>2, <2>1
  <2>3. /\ d.memory = m.memory /\ d.text = m.text /\ d.keys = m.keys
        /\ d = [memory |-> d.memory, text |-> d.text, keys |-> d.keys, outcome |-> d.outcome]
    BY <2>2
  <2> QED
    BY <2>3 DEF IsMemo, OwnMemo, d
<1>6. CASE m.outcome = "ok" /\ ~(field.from # Blank /\ field.from \notin DOMAIN m.keys)
  <2> DEFINE m1 == [m EXCEPT !.text = text]
             m2 == [m1 EXCEPT !.outcome = found.outcome]
  <2>1. d = [m EXCEPT !.text = text, !.outcome = found.outcome, !.memory = Updated(@, what)]
    BY <1>1, <1>6
  <2>2. d = [m2 EXCEPT !.memory = Updated(m2.memory, what)]
    BY <2>1
  <2>3. m1 = [memory |-> m.memory, text |-> text, keys |-> m.keys, outcome |-> m.outcome]
    BY <1>2
  <2> HIDE DEF m1
  <2>4. m2 = [memory |-> m.memory, text |-> text, keys |-> m.keys, outcome |-> found.outcome]
    BY <2>3
  <2> HIDE DEF m2
  <2>5. d = [memory |-> memo, text |-> text, keys |-> m.keys, outcome |-> found.outcome]
    BY <2>2, <2>4 DEF memo
  <2>6. /\ d.memory = memo /\ d.text = text /\ d.keys = m.keys
        /\ d = [memory |-> d.memory, text |-> d.text, keys |-> d.keys, outcome |-> d.outcome]
    BY <2>5
  <2>7. IsEntry(text) /\ \A r : OwnMemo(m, r) => OwnText(text, r)
    BY <1>6 DEF text, IsMemo, OwnMemo, Entries, Own, OwnText
  <2>8. \A v \in found.value :
          IsEntry(v) /\ \A r : OwnText(text, r) /\ Own(m.keys, r) => OwnText(v, r)
    BY <2>7, ExtractDoes DEF found, IsMemo
  <2>9. Entries(what) /\ \A r : OwnMemo(m, r) => Own(what, r)
    <3>1. Entries(what)
      BY <1>3, <2>8 DEF Entries
    <3>2. ASSUME NEW r, OwnMemo(m, r)
          PROVE  Own(what, r)
      <4>1. \A v \in found.value : OwnText(v, r)
        BY <2>7, <2>8, <3>2 DEF OwnMemo
      <4> QED
        BY <1>3, <4>1 DEF Own, OwnText
    <3> QED
      BY <3>1, <3>2
  <2>10. Entries(memo) /\ \A r : OwnMemo(m, r) => Own(memo, r)
    <3>1. Entries(memo)
      BY <2>9, UpdatedEntries DEF memo, IsMemo
    <3>2. \A r : Own(m.memory, r) /\ Own(what, r) => Own(memo, r)
      BY UpdatedEntries DEF memo
    <3> QED
      BY <2>9, <3>1, <3>2 DEF OwnMemo
  <2>11. IsMemo(d)
    BY <2>6, <2>7, <2>10 DEF IsMemo
  <2>12. \A r : OwnMemo(m, r) => OwnMemo(d, r)
    BY <2>6, <2>7, <2>10 DEF OwnMemo
  <2> QED
    BY <2>6, <2>11, <2>12 DEF d
<1> QED
  BY <1>4, <1>5, <1>6

LEMMA MemorizeVariableDoes ==
    ASSUME NEW fields, IsSequence(fields), \A i \in DOMAIN fields : fields[i].type \in MemoryTypes,
           NEW memory0, Entries(memory0), NEW text, IsEntry(text), NEW keys, Entries(keys)
    PROVE  LET memo == MemorizeVariable(fields, memory0, text, keys) IN
           /\ Entries(memo.memory)
           /\ \A r : Own(memory0, r) /\ Own(keys, r) /\ OwnText(text, r) => Own(memo.memory, r)
<1> DEFINE start == [memory |-> memory0, text |-> text, keys |-> keys, outcome |-> "ok"]
           N == Len(fields)
           A == AfterFields(fields, start)
           S == {n \in 0..N : IsMemo(A[n]) /\ \A r : OwnMemo(start, r) => OwnMemo(A[n], r)}
<1>1. N \in Nat /\ DOMAIN fields = 1..N
  BY Sequence
<1>2. IsMemo(start)
  BY DEF IsMemo
<1>3. \A r : Own(memory0, r) /\ Own(keys, r) /\ OwnText(text, r) => OwnMemo(start, r)
  BY DEF OwnMemo
<1> HIDE DEF start
<1>4. A[0] = start /\ \A n \in 1..N : A[n] = Memorize(A[n - 1], fields[n])
  BY <1>1, FieldsInTurn
<1> HIDE DEF A, N
<1>5. 0 \in S
  BY <1>1, <1>2, <1>4
<1>6. ASSUME NEW n \in 0..N, n \in S, n < N
      PROVE  n + 1 \in S
  <2>1. n + 1 \in 1..N /\ (n + 1) - 1 = n /\ n + 1 \in 0..N
    BY <1>1, <1>6
  <2>2. A[n + 1] = Memorize(A[n], fields[n + 1]) /\ fields[n + 1].type \in MemoryTypes
    BY <1>1, <1>4, <2>1
  <2>3. IsMemo(A[n + 1]) /\ \A r : OwnMemo(A[n], r) => OwnMemo(A[n + 1], r)
    BY <1>6, <2>2, MemorizeDoes
  <2> QED
    BY <1>6, <2>1, <2>3
<1>7. N \in S
  <2> HIDE DEF S
  <2>1. \A n \in 0..N : n \in S
    BY <1>1, <1>5, <1>6, CountUp
  <2> QED
    BY <1>1, <2>1
<1>8. MemorizeVariable(fields, memory0, text, keys) = A[N]
  BY DEF MemorizeVariable, A, N, start
<1> QED
  BY <1>3, <1>7, <1>8 DEF IsMemo, OwnMemo

-----------------------------------------------------------------------------
(* Lemmas about answers, and what is done with them.                       *)

LEMMA CacheParts ==
    ASSUME NEW c, IsCache(c), NEW keys
    PROVE  /\ UpdateKeys(c, keys).runtime = Updated(c.runtime, keys)
           /\ UpdateKeys(c, keys).with = c.with
           /\ UpdateKeys(c, keys).dynamic = c.dynamic
           /\ UpdateKeysPermanently(c, keys).runtime = Updated(c.runtime, keys)
           /\ UpdateKeysPermanently(c, keys).with = Updated(c.with, keys)
           /\ UpdateKeysPermanently(c, keys).dynamic = c.dynamic
           /\ UpdateAsyncDataPermanently(c, keys).runtime = c.runtime
           /\ UpdateAsyncDataPermanently(c, keys).with = Updated(c.with, keys)
           /\ UpdateAsyncDataPermanently(c, keys).dynamic = c.dynamic
<1> DEFINE W == Updated(c.with, keys)
           R == Updated(c.runtime, keys)
           c1 == [c EXCEPT !.with = W]
<1>1. UpdateKeys(c, keys) = [c EXCEPT !.runtime = R]
  BY DEF UpdateKeys
<1>2. UpdateKeysPermanently(c, keys) = [c1 EXCEPT !.runtime = R]
  BY DEF UpdateKeysPermanently
<1>3. UpdateAsyncDataPermanently(c, keys) = c1
  BY DEF UpdateAsyncDataPermanently
<1> HIDE DEF W, R
<1>4. [c EXCEPT !.runtime = R] = [runtime |-> R, with |-> c.with, dynamic |-> c.dynamic]
  BY DEF IsCache
<1>5. c1 = [runtime |-> c.runtime, with |-> W, dynamic |-> c.dynamic]
  BY DEF IsCache
<1> HIDE DEF c1
<1>6. [c1 EXCEPT !.runtime = R] = [runtime |-> R, with |-> W, dynamic |-> c.dynamic]
  BY <1>5
<1> QED
  BY <1>1, <1>2, <1>3, <1>4, <1>5, <1>6 DEF W, R

\* an answer is of the run of its context
LEMMA AnsweredDoes ==
    ASSUME NEW keys, Entries(keys), NEW c, NEW kind
    PROVE  LET new == Answered(keys, c, kind) IN
           /\ DOMAIN new = DOMAIN keys /\ Entries(new) /\ Own(new, RunOf(c))
           /\ \A k \in DOMAIN new : new[k].kind = kind
<1> DEFINE r == RunOf(c)
           given == [k \in DOMAIN keys |-> [keys[k] EXCEPT !.by = r]]
<1>1. ASSUME NEW k \in DOMAIN keys
      PROVE  IsEntry(given[k]) /\ given[k].by = r
  <2> DEFINE t == [keys[k] EXCEPT !.by = r]
  <2>1. IsEntry(keys[k])
    BY DEF Entries
  <2>2. t = [calls |-> keys[k].calls, ref |-> keys[k].ref, atom |-> keys[k].atom, by |-> r,
             kind |-> keys[k].kind]
    BY <2>1, EntryChange
  <2>3. IsEntry(t) /\ t.by = r
    BY <2>2, MadeEntry
  <2>4. given[k] = t
    OBVIOUS
  <2> QED
    BY <2>3, <2>4
<1>2. DOMAIN given = DOMAIN keys
  OBVIOUS
<1>3. Answered(keys, c, kind) = Values(given, kind)
  BY DEF Answered
<1> HIDE DEF given
<1>4. Entries(given)
  BY <1>1, <1>2 DEF Entries
<1> QED
  BY <1>1, <1>2, <1>3, <1>4, ValuesOfKind DEF Own, r

LEMMA ResponseDoes ==
    ASSUME NEW a, AreTexts(a.keys), NEW c
    PROVE  Entries(Response(a, c)) /\ Own(Response(a, c), RunOf(c))
<1> DEFINE keys == Updated(a.keys, Single("time", Literal("short")))
<1>1. Entries(a.keys) /\ Entries(Single("time", Literal("short")))
  BY TextsAreGiven, LiteralEntry, SingleEntry
<1>2. Entries(keys)
  BY <1>1, UpdatedEntries
<1>3. Response(a, c) = Answered(keys, c, "response")
  BY DEF Response
<1> HIDE DEF keys
<1> QED
  BY <1>2, <1>3, AnsweredDoes

LEMMA EventKeysAreGiven ==
    ASSUME NEW id, AreTexts(setup.data)
    PROVE  Given(EventKeys(id))
<1> DEFINE data == Values(setup.data, "event")
           event == Single(id[1], Literal(id[2]))
<1>1. Given(data)
  BY TextsAreGiven, ValuesOfKind DEF Given, Clean
<1>2. Given(event)
  BY LiteralEntry, SingleEntry
<1>3. EventKeys(id) = Updated(data, event)
  BY DEF EventKeys
<1> HIDE DEF data, event
<1> QED
  BY <1>1, <1>2, <1>3, UpdatedEntries

\* what a thread has in its memory, for those who read it as values of its own
LEMMA MemoryValues ==
    ASSUME NEW texts, Entries(texts)
    PROVE  /\ Entries(Values(texts, "memory")) /\ Clean(Values(texts, "memory"))
           /\ \A r : Own(texts, r) => Own(Values(texts, "memory"), r)
<1> DEFINE new == Values(texts, "memory")
<1>1. /\ DOMAIN new = DOMAIN texts /\ Entries(new)
      /\ \A k \in DOMAIN texts : new[k].by = texts[k].by /\ new[k].kind = "memory"
  BY ValuesOfKind
<1> HIDE DEF new
<1>2. Clean(new) /\ \A r : Own(texts, r) => Own(new, r)
  BY <1>1 DEF Clean, Own
<1> QED
  BY <1>1, <1>2 DEF new

LEMMA ProcessResponseKeeps ==
    ASSUME NEW w, IsStep(Line(ctx[w])), IsCache(ctx[w].cache), Entries(ctx[w].cache.with),
           Entries(ctx[w].cache.runtime), Entries(memory[w]), NEW resp, Entries(resp)
    PROVE  LET r == ProcessResponse(w, resp)
               old == ctx[w].cache
           IN  /\ IsCache(r.cache) /\ Entries(r.cache.with) /\ Entries(r.cache.runtime)
               /\ r.cache.dynamic = old.dynamic
               /\ Entries(r.memory)
               /\ Clean(old.with) => Clean(r.cache.with)
               /\ \A q : Own(old.with, q) /\ Own(old.runtime, q) /\ Own(memory[w], q) /\ Own(resp, q)
                         => Own(r.cache.with, q) /\ Own(r.cache.runtime, q) /\ Own(r.memory, q)
<1> DEFINE c     == ctx[w]
           line  == Line(c)
           asked == UpdateKeys(c.cache, resp)
           text  == IF "responseText" \in DOMAIN resp THEN resp["responseText"] ELSE Literal("none")
           memo  == MemorizeVariable(line.memory, memory[w], text, asked.runtime)
           new   == Values(memo.memory, "memory")
           known == IF line.memory = <<>> THEN c.cache ELSE Memorized(asked, memo)
           lost  == line.memory # <<>> /\ line.async /\ c.id \notin DOMAIN store
           cache == UpdateKeys(known, resp)
           verdict == CheckResponse(line.rules, cache.runtime, FALSE)
           r     == ProcessResponse(w, resp)
           Mine(q) == /\ Own(c.cache.with, q) /\ Own(c.cache.runtime, q) /\ Own(memory[w], q)
                      /\ Own(resp, q)
<1>1. r = IF memo.outcome # "ok" \/ lost
            THEN [outcome |-> IF memo.outcome = "ok" THEN "failed" ELSE memo.outcome,
                  checked |-> FALSE, memory |-> memo.memory, cache |-> known]
            ELSE [outcome |-> IF Accepts(verdict) THEN "ok" ELSE "fatal",
                  checked |-> TRUE, memory |-> memo.memory, cache |-> cache]
  BY DEF ProcessResponse
<1>2. /\ IsCache(asked) /\ asked.with = c.cache.with /\ asked.dynamic = c.cache.dynamic
      /\ asked.runtime = Updated(c.cache.runtime, resp)
  BY CacheShapes, CacheParts
<1> HIDE DEF asked
<1>3. Entries(asked.runtime) /\ \A q : Mine(q) => Own(asked.runtime, q)
  BY <1>2, UpdatedAreEntries, UpdatedIsOwn
<1>4. IsEntry(text) /\ \A q : Mine(q) => OwnText(text, q)
  BY LiteralEntry DEF Entries, Own, OwnText
<1> HIDE DEF text
<1>5. IsSequence(line.memory) /\ \A i \in DOMAIN line.memory : line.memory[i].type \in MemoryTypes
  BY DEF IsStep
<1>6. Entries(memo.memory) /\ \A q : Mine(q) => Own(memo.memory, q)
  BY <1>3, <1>4, <1>5, MemorizeVariableDoes
<1> HIDE DEF memo
<1>7. Entries(new) /\ Clean(new) /\ \A q : Mine(q) => Own(new, q)
  BY <1>6, MemoryValues
<1>8. /\ IsCache(known) /\ Entries(known.with) /\ Entries(known.runtime)
      /\ known.dynamic = c.cache.dynamic
      /\ Clean(c.cache.with) => Clean(known.with)
      /\ \A q : Mine(q) => Own(known.with, q) /\ Own(known.runtime, q)
  <2>1. CASE line.memory = <<>>
    BY <2>1
  <2>2. CASE line.memory # <<>> /\ memo.outcome # "ok"
    <3>1. known = asked
      BY <2>2 DEF Memorized
    <3> QED
      BY <1>2, <1>3, <3>1
  <2>3. CASE line.memory # <<>> /\ memo.outcome = "ok"
    <3>1. known = UpdateKeysPermanently(asked, new)
      BY <2>3 DEF Memorized
    <3> HIDE DEF known, new
    <3>2. /\ IsCache(known) /\ known.dynamic = c.cache.dynamic
          /\ known.with = Updated(c.cache.with, new)
          /\ known.runtime = Updated(asked.runtime, new)
      BY <1>2, <3>1, CacheShapes, CacheParts
    <3>3. Entries(known.with) /\ Entries(known.runtime)
      BY <1>2, <1>3, <1>7, <3>2, UpdatedAreEntries
    <3>4. Clean(c.cache.with) => Clean(known.with)
      BY <1>7, <3>2, UpdatedIsClean
    <3>5. \A q : Mine(q) => Own(known.with, q)
      BY <1>7, <3>2, UpdatedIsOwn
    <3>6. \A q : Mine(q) => Own(known.runtime, q)
      BY <1>3, <1>7, <3>2, UpdatedIsOwn
    <3> QED
      BY <3>2, <3>3, <3>4, <3>5, <3>6
  <2> QED
    BY <2>1, <2>2, <2>3
<1> HIDE DEF known, new
<1>9. /\ IsCache(cache) /\ cache.with = known.with /\ cache.dynamic = known.dynamic
      /\ cache.runtime = Updated(known.runtime, resp)
  BY <1>8, CacheShapes, CacheParts
<1> HIDE DEF cache, verdict, lost
<1>10. Entries(cache.runtime) /\ \A q : Mine(q) => Own(cache.runtime, q)
  BY <1>8, <1>9, UpdatedAreEntries, UpdatedIsOwn
<1>11. r.memory = memo.memory /\ (r.cache = known \/ r.cache = cache)
  <2> HIDE DEF Mine, line, c
  <2>1. CASE memo.outcome # "ok" \/ lost
    BY <1>1, <2>1
  <2>2. CASE ~(memo.outcome # "ok" \/ lost)
    BY <1>1, <2>2
  <2> QED
    BY <2>1, <2>2
<1> HIDE DEF r
<1>12. CASE r.cache = known
  BY <1>6, <1>8, <1>11, <1>12 DEF r
<1>13. CASE r.cache = cache
  BY <1>6, <1>8, <1>9, <1>10, <1>11, <1>13 DEF r
<1> QED
  BY <1>11, <1>12, <1>13

-----------------------------------------------------------------------------
(* The caches of the contexts, the clones and the tokens.                  *)

Cached(c) ==
    /\ Entries(c.cache.with) /\ Entries(c.cache.runtime) /\ Given(c.cache.dynamic)
    /\ "kept" \notin c.past => Clean(c.cache.with)

Mine(c) == Own(c.cache.with, RunOf(c)) /\ Own(c.cache.runtime, RunOf(c))

\* an identifier of the run is that of another call, where cs are the calls
SharedIn(cs, r) == \E a, b \in cs : a.run = r /\ a # b /\ a.id = b.id

\* a context that is not that of a timeout, whose calls have identifiers of their own
Unmixed(cs, c) == "resumed" \notin c.past /\ ~SharedIn(cs, RunOf(c))

Proper(cs, c) == Cached(c) /\ (Unmixed(cs, c) => Mine(c))

ContextCaches == \A w \in Threads : Proper(calls, ctx[w])

StoreCaches == \A id \in DOMAIN store : Proper(calls, store[id].ctx)

QueueCaches == \A i \in DOMAIN queue : queue[i].type = "context" => Cached(queue[i].ctx)

MemoryOf(cs, c, m, at) ==
    /\ Entries(m)
    /\ at \in {"line", "sent", "answered"} /\ Unmixed(cs, c) => Own(m, RunOf(c))

MemoryCaches ==
    /\ memory = [w \in Threads |-> memory[w]]
    /\ \A w \in Threads : MemoryOf(calls, ctx[w], memory[w], pc[w])

\* the clone of a call has gone through what its thread has gone through
SamePast(cs, s, x, at, st) ==
    at \in {"sent", "answered"} /\ StepIn(s, x).async /\ x.id \in DOMAIN st
    /\ ~SharedIn(cs, RunOf(x)) => st[x.id].ctx.past = x.past

Pasts == \A w \in Threads : SamePast(calls, setup, ctx[w], pc[w], store)

\* the keys of a step that is sent
SentKeys(s, c) ==
    "kept" \notin c.past =>
        \A k \in DOMAIN c.cache.runtime :
            /\ c.cache.runtime[k].kind # "response"
            /\ c.cache.runtime[k].kind = "field" => k \in DOMAIN StepIn(s, c).fields

Sent == \A w \in Threads : pc[w] = "sent" => SentKeys(setup, ctx[w])

CacheInv ==
    ContextCaches /\ StoreCaches /\ QueueCaches /\ MemoryCaches /\ Pasts /\ Sent

LEMMA SharedCalls ==
    ASSUME NEW r
    PROVE  Shared(r) <=> SharedIn(calls, r)
  BY DEF Shared, SharedIn

LEMMA MoreCalls ==
    ASSUME NEW cs, NEW more, cs \subseteq more, NEW c
    PROVE  /\ Proper(cs, c) => Proper(more, c)
           /\ \A m, at : MemoryOf(cs, c, m, at) => MemoryOf(more, c, m, at)
           /\ \A s, at, st : SamePast(cs, s, c, at, st) => SamePast(more, s, c, at, st)
<1>1. ~SharedIn(more, RunOf(c)) => ~SharedIn(cs, RunOf(c))
  BY DEF SharedIn
<1>2. Unmixed(more, c) => Unmixed(cs, c)
  BY <1>1 DEF Unmixed
<1>3. Proper(cs, c) => Proper(more, c)
  BY <1>2 DEF Proper
<1>4. ASSUME NEW m, NEW at, MemoryOf(cs, c, m, at)
      PROVE  MemoryOf(more, c, m, at)
  BY <1>2, <1>4 DEF MemoryOf
<1>5. ASSUME NEW s, NEW at, NEW st, SamePast(cs, s, c, at, st)
      PROVE  SamePast(more, s, c, at, st)
  BY <1>1, <1>5 DEF SamePast
<1> QED
  BY <1>3, <1>4, <1>5

\* the clones are those that were there, with the past that they had
SameClones ==
    \A id \in DOMAIN store' : id \in DOMAIN store /\ store'[id].ctx.past = store[id].ctx.past

\* a step of the thread w
LEMMA ThreadStepCaches ==
    ASSUME CacheInv, UNCHANGED setup, calls \subseteq calls',
           NEW w \in Threads, NEW c, NEW at, Moves(w, c, at), Proper(calls', c),
           NEW m, memory' = [v \in Threads |-> IF v = w THEN m ELSE memory[v]],
           MemoryOf(calls', c, m, at),
           StoreCaches', QueueCaches',
           SamePast(calls', setup, c, at, store'),
           \A v \in Threads : v # w => SamePast(calls', setup, ctx[v], pc[v], store'),
           at = "sent" => SentKeys(setup, c)
    PROVE  CacheInv'
<1>1. ctx'[w] = c /\ pc'[w] = at
      /\ \A v \in Threads : v # w => ctx'[v] = ctx[v] /\ pc'[v] = pc[v]
  BY Moved
<1>2. memory'[w] = m /\ \A v \in Threads : v # w => memory'[v] = memory[v]
  OBVIOUS
<1>3. \A v \in Threads : Proper(calls', ctx'[v])
  BY <1>1, MoreCalls DEF CacheInv, ContextCaches
<1>4. \A v \in Threads : MemoryOf(calls', ctx'[v], memory'[v], pc'[v])
  <2>1. ASSUME NEW v \in Threads, v # w
        PROVE  MemoryOf(calls', ctx'[v], memory'[v], pc'[v])
    <3>1. MemoryOf(calls, ctx[v], memory[v], pc[v])
      BY DEF CacheInv, MemoryCaches
    <3>2. MemoryOf(calls', ctx[v], memory[v], pc[v])
      BY <3>1, MoreCalls
    <3> QED
      BY <1>1, <1>2, <2>1, <3>2
  <2> QED
    BY <1>1, <1>2, <2>1
<1>5. \A v \in Threads : SamePast(calls', setup, ctx'[v], pc'[v], store')
  BY <1>1
<1>6. \A v \in Threads : pc'[v] = "sent" => SentKeys(setup, ctx'[v])
  BY <1>1 DEF CacheInv, Sent
<1>7. ContextCaches'
  BY <1>3 DEF ContextCaches
<1>8. MemoryCaches'
  BY <1>4 DEF MemoryCaches
<1>9. Pasts' /\ Sent'
  BY <1>5, <1>6 DEF Pasts, Sent
<1> QED
  BY <1>7, <1>8, <1>9 DEF CacheInv

\* the past of a thread and of its clone stay the same when neither changes
LEMMA PastsStay ==
    ASSUME CacheInv, calls \subseteq calls', SameClones, NEW v \in Threads
    PROVE  SamePast(calls', setup, ctx[v], pc[v], store')
<1>1. SamePast(calls, setup, ctx[v], pc[v], store)
  BY DEF CacheInv, Pasts
<1>2. SamePast(calls', setup, ctx[v], pc[v], store)
  BY <1>1, MoreCalls
<1> QED
  BY <1>2 DEF SamePast, SameClones

\* the clones that stay as they are
LEMMA ClonesStay ==
    ASSUME CacheInv, calls \subseteq calls',
           \A id \in DOMAIN store' : id \in DOMAIN store /\ store'[id].ctx = store[id].ctx
    PROVE  StoreCaches' /\ SameClones
<1>1. \A id \in DOMAIN store' : Proper(calls', store'[id].ctx)
  BY MoreCalls DEF CacheInv, StoreCaches
<1> QED
  BY <1>1 DEF StoreCaches, SameClones
-----------------------------------------------------------------------------
(* The caches after each step.                                             *)

LEMMA StepOfScenario ==
    ASSUME TypeInv, NEW c, Located(setup, c)
    PROVE  /\ IsScenario(Scenario(c))
           /\ Line(c) = StepIn(setup, c)
           /\ c.line # 0 => IsStep(StepIn(setup, c))
<1>1. /\ c.scn \in DOMAIN setup.scenarios /\ c.line \in 0..Len(setup.scenarios[c.scn].lines)
      /\ setup \in Setups
  BY DEF Located, TypeInv
<1>2. IsScenario(setup.scenarios[c.scn])
  BY <1>1, SetupsAssumption
<1>3. DOMAIN setup.scenarios[c.scn].lines = 1..Len(setup.scenarios[c.scn].lines)
      /\ Len(setup.scenarios[c.scn].lines) \in Nat
  BY <1>1, SetupFacts
<1>4. c.line # 0 => c.line \in DOMAIN setup.scenarios[c.scn].lines
  BY <1>1, <1>3
<1> QED
  BY <1>2, <1>4 DEF IsScenario, Scenario, Line, StepIn

\* what a step is sent with: the context before, and what processNew() makes of it
SentWith(w, d) ==
    ProcessNew(StepIn(setup, d), setup.scenarios[d.scn].macros, ctx[w].cache)

LEMMA SendDataData ==
    ASSUME TypeInv, NEW w \in Threads, SendData(w)
    PROVE  /\ SendData0(w, ctx'[w])
           /\ UNCHANGED memory
           /\ ctx'[w].past = ctx[w].past
           /\ ctx'[w].cache = SentWith(w, ctx'[w]).cache
           /\ \/ pc'[w] # "sent" /\ UNCHANGED command
              \/ /\ pc'[w] = "sent" /\ SentWith(w, ctx'[w]).outcome = "sent"
                 /\ command' = [command EXCEPT ![w] = SentWith(w, ctx'[w]).command]
<1> DEFINE c == [ctx[w] EXCEPT !.line = @ + 1]
           sent == ProcessNew(Line(c), Scenario(c).macros, c.cache)
           now == [c EXCEPT !.cache = sent.cache]
           d == ctx'[w]
<1>1. PICK d0 : SendData0(w, d0)
  BY SendDataDoes
<1>2. \E at : Moves(w, d0, at)
  BY <1>1 DEF SendData0, StepFails0
<1>3. SendData0(w, d)
  BY <1>1, <1>2, Moved
<1>4. Running(w) /\ UNCHANGED memory
  BY DEF SendData, Running
<1>5. Located(setup, ctx[w]) /\ IsContext(ctx[w])
  BY <1>4, RunningIsLocated DEF Located
<1>6. /\ IsContext(c) /\ c.line = ctx[w].line + 1 /\ c.scn = ctx[w].scn
      /\ c.past = ctx[w].past /\ c.cache = ctx[w].cache
  BY <1>5, LineChanges
<1>7. \/ sent.outcome = "fatal" /\ SetContext(w, now) /\ Go(w, "idle") /\ UNCHANGED command
      \/ StepFails(w, now) /\ UNCHANGED command
      \/ CallBefore(w, now, sent.command) /\ sent.outcome = "sent"
      \/ /\ SetContext(w, now) /\ Go(w, "sent") /\ sent.outcome = "sent"
         /\ command' = [command EXCEPT ![w] = sent.command]
  BY DEF SendData, c
<1> HIDE DEF c
<1>8. IsCache(sent.cache)
  BY <1>6, ProcessNewShape DEF IsContext
<1> HIDE DEF sent
<1>9. IsContext(now) /\ SameStep(c, now) /\ now.past = c.past /\ now.cache = sent.cache
  BY <1>6, <1>8, CacheChanges
<1> HIDE DEF now
<1>10. SetContext(w, now) => ctx'[w] = now
  BY DEF SetContext, TypeInv
<1>11. StepFails(w, now) => SetContext(w, now) /\ pc'[w] \in {"scenario", "line"}
  BY DEF StepFails, Go, TypeInv
<1>12. /\ d.past = ctx[w].past /\ d.cache = sent.cache /\ d.scn = c.scn /\ d.line = c.line
       /\ \/ pc'[w] # "sent" /\ UNCHANGED command
          \/ /\ pc'[w] = "sent" /\ sent.outcome = "sent"
             /\ command' = [command EXCEPT ![w] = sent.command]
  <2>1. CASE sent.outcome = "fatal" /\ SetContext(w, now) /\ Go(w, "idle") /\ UNCHANGED command
    BY <1>6, <1>9, <1>10, <2>1 DEF Go, TypeInv, SameStep
  <2>2. CASE StepFails(w, now) /\ UNCHANGED command
    BY <1>6, <1>9, <1>10, <1>11, <2>2 DEF SameStep
  <2>3. CASE CallBefore(w, now, sent.command) /\ sent.outcome = "sent"
    <3> DEFINE id == <<Line(now).key, now.cache.runtime[Line(now).value].atom>>
               call == [now EXCEPT !.id = id]
    <3>1. \/ StepFails(w, now) /\ UNCHANGED command
          \/ /\ SetContext(w, call) /\ Go(w, "sent")
             /\ command' = [command EXCEPT ![w] = sent.command]
      BY <2>3 DEF CallBefore
    <3> HIDE DEF id
    <3>2. SameStep(now, call) /\ call.cache = now.cache /\ call.past = now.past
      BY <1>9, IdChanges
    <3> HIDE DEF call
    <3>3. SetContext(w, call) => ctx'[w] = call
      BY DEF SetContext, TypeInv
    <3>4. CASE /\ SetContext(w, call) /\ Go(w, "sent")
               /\ command' = [command EXCEPT ![w] = sent.command]
      <4>1. d = call /\ pc'[w] = "sent"
        BY <3>3, <3>4 DEF Go, TypeInv
      <4>2. /\ d.past = ctx[w].past /\ d.cache = sent.cache /\ d.scn = c.scn
            /\ d.line = c.line
        BY <1>6, <1>9, <3>2, <4>1 DEF SameStep
      <4> QED
        BY <2>3, <3>4, <4>1, <4>2
    <3> QED
      BY <2>2, <3>1, <3>4
  <2>4. CASE /\ SetContext(w, now) /\ Go(w, "sent") /\ sent.outcome = "sent"
             /\ command' = [command EXCEPT ![w] = sent.command]
    BY <1>6, <1>9, <1>10, <2>4 DEF Go, TypeInv, SameStep
  <2> QED
    BY <1>7, <2>1, <2>2, <2>3, <2>4
<1>13. sent = SentWith(w, d)
  BY <1>6, <1>12 DEF sent, SentWith, Line, Scenario, StepIn
<1> QED
  BY <1>3, <1>4, <1>12, <1>13

\* another thread of the run is in a call with the identifier of the new one only if it
\* shares it
LEMMA NewIdentifier ==
    ASSUME Inv, CallInv', NEW w \in Threads, NEW d, SendData0(w, d), Moves(w, d, "sent"),
           StepIn(setup, d).async, NEW v \in Threads, v # w, InStep(v),
           StepIn(setup, ctx[v]).async, ~SharedIn(calls', RunOf(ctx[v])), calls \subseteq calls'
    PROVE  ctx[v].id # d.id
<1> DEFINE r == RunOf(ctx[v])
<1>1. SUFFICES ASSUME ctx[v].id = d.id PROVE FALSE
  OBVIOUS
<1>2. TypeInv /\ CallInv /\ RunsInv /\ setup' = setup /\ pc[w] = "line" /\ NextStep(ctx[w], d)
  BY DEF Inv, SendData0
<1>3. ctx'[w] = d /\ pc'[w] = "sent" /\ ctx'[v] = ctx[v] /\ pc'[v] = pc[v]
  BY <1>2, Moved
<1>4. CallOf(d) \in calls' /\ CallOf(ctx[v]) \in calls'
  BY <1>2, <1>3 DEF CallInv, InStep, CallOf, RunOf
<1>5. CallOf(ctx[v]) = CallOf(d)
  BY <1>1, <1>4 DEF SharedIn, CallOf
<1>6. RunOf(d) = r /\ d.line = ctx[v].line
  BY <1>5 DEF CallOf
<1>7. RunOf(ctx[w]) = r /\ ctx[w].line + 1 = ctx[v].line
  BY <1>2, <1>6 DEF NextStep, RunOf
<1>8. ~Shared(r)
  BY DEF Shared, SharedIn
<1>9. OneHolder(r) /\ Behind(r)
  BY <1>2, <1>8 DEF RunsInv, RunInv
<1>10. Running(w) /\ Running(v) /\ At(w, r) /\ At(v, r) /\ ~InStep(w)
  BY <1>2, <1>7 DEF At, Running, InStep
<1>11. Leads(w, r)
  BY <1>10 DEF Leads, DeadEnd
<1>12. DeadEnd(v)
  BY <1>9, <1>10, <1>11 DEF OneHolder, Leads
<1>13. ctx[v].line <= ctx[w].line
  BY <1>9, <1>10, <1>11, <1>12 DEF Behind
<1>14. ctx[w].line \in Nat
  BY <1>2, <1>10, LinesAreNat
<1> QED
  BY <1>7, <1>13, <1>14

\* the clone that is stored is that of the call, and the other threads have theirs
LEMMA OthersHaveTheirClones ==
    ASSUME Inv, CallInv', CacheInv, NEW w \in Threads, NEW d, SendData0(w, d),
           Moves(w, d, "sent"), StepIn(setup, d).async, store' = Stored(d.id, Clone(d)),
           calls \subseteq calls', NEW v \in Threads, v # w
    PROVE  SamePast(calls', setup, ctx[v], pc[v], store')
<1>1. SUFFICES ASSUME pc[v] \in {"sent", "answered"}, StepIn(setup, ctx[v]).async,
                      ctx[v].id \in DOMAIN store', ~SharedIn(calls', RunOf(ctx[v]))
               PROVE  store'[ctx[v].id].ctx.past = ctx[v].past
  BY DEF SamePast
<1>2. ctx[v].id # d.id
  BY <1>1, NewIdentifier DEF InStep
<1>3. ctx[v].id \in DOMAIN store /\ store'[ctx[v].id] = store[ctx[v].id]
  BY <1>1, <1>2 DEF Stored
<1>4. SamePast(calls', setup, ctx[v], pc[v], store)
  BY MoreCalls DEF CacheInv, Pasts
<1> QED
  BY <1>1, <1>3, <1>4 DEF SamePast

\* what a step starts with
LEMMA SentIsProper ==
    ASSUME TypeInv, CacheInv, NEW w \in Threads, NEW d, SendData0(w, d),
           d.past = ctx[w].past, d.cache = SentWith(w, d).cache, calls \subseteq calls'
    PROVE  Proper(calls', d) /\ SentKeys(setup, d)
<1> DEFINE c == ctx[w]
           line == StepIn(setup, d)
           cache == SentWith(w, d).cache
<1>1. pc[w] = "line" /\ NextStep(c, d) /\ Running(w)
  BY DEF SendData0, Running
<1>2. Located(setup, c) /\ IsCache(c.cache) /\ c.line \in Nat
  BY <1>1, RunningIsLocated, LineIsNat DEF Located, IsContext, TypeInv
<1>3. Located(setup, d) /\ d.line # 0 /\ RunOf(d) = RunOf(c)
  BY <1>1, <1>2 DEF NextStep, RunOf
<1>4. IsStep(line)
  BY <1>3, StepOfScenario
<1>5. AreTexts(line.fields)
  BY <1>4 DEF IsStep
<1>6. Proper(calls, c) /\ Cached(c)
  BY DEF CacheInv, ContextCaches, Proper
<1>7. Entries(c.cache.with) /\ Given(c.cache.dynamic) /\ ("kept" \notin c.past => Clean(c.cache.with))
  BY <1>6 DEF Cached
<1> DEFINE macros == setup.scenarios[d.scn].macros
<1>7a. cache = ProcessNew(line, macros, c.cache).cache
  BY DEF SentWith
<1> HIDE DEF line, cache, macros
<1>8. /\ IsCache(cache) /\ cache.with = c.cache.with /\ cache.dynamic = c.cache.dynamic
      /\ Entries(cache.runtime)
      /\ \A r : Own(c.cache.with, r) => Own(cache.runtime, r)
      /\ Clean(c.cache.with) =>
           \A k \in DOMAIN cache.runtime :
               /\ cache.runtime[k].kind # "response"
               /\ cache.runtime[k].kind = "field" => k \in DOMAIN line.fields
  BY <1>2, <1>5, <1>7, <1>7a, ProcessNewDoes
<1>9. Cached(d)
  BY <1>7, <1>8 DEF Cached, cache
<1>10. Unmixed(calls', d) => Mine(d)
  <2>1. Unmixed(calls', d) => Unmixed(calls', c)
    BY <1>3 DEF Unmixed
  <2>2. Unmixed(calls', c) => Mine(c)
    BY <1>6, MoreCalls DEF Proper
  <2>3. Mine(c) => Mine(d)
    BY <1>3, <1>8 DEF Mine, cache
  <2> QED
    BY <2>1, <2>2, <2>3
<1>11. SentKeys(setup, d)
  BY <1>7, <1>8 DEF SentKeys, cache, line
<1> QED
  BY <1>9, <1>10, <1>11 DEF Proper

\* the memory stays with the thread
LEMMA MemoryStaysOwn ==
    ASSUME CacheInv, calls \subseteq calls', NEW w \in Threads,
           pc[w] \in {"line", "sent", "answered"},
           NEW d, RunOf(d) = RunOf(ctx[w]), "resumed" \in ctx[w].past => "resumed" \in d.past,
           NEW at
    PROVE  MemoryOf(calls', d, memory[w], at)
<1>1. MemoryOf(calls', ctx[w], memory[w], pc[w])
  BY MoreCalls DEF CacheInv, MemoryCaches
<1> QED
  BY <1>1 DEF MemoryOf, Unmixed

LEMMA MemoryUnchanged ==
    ASSUME CacheInv, UNCHANGED memory, NEW w \in Threads
    PROVE  memory' = [v \in Threads |-> IF v = w THEN memory[w] ELSE memory[v]]
  BY DEF CacheInv, MemoryCaches

LEMMA QueueStays ==
    ASSUME CacheInv, UNCHANGED queue
    PROVE  QueueCaches'
  BY DEF CacheInv, QueueCaches

LEMMA SendDataCaches ==
    ASSUME Inv, CacheInv, CallInv', NEW w \in Threads, SendData(w)
    PROVE  CacheInv'
<1> DEFINE d == ctx'[w]
<1>1. TypeInv
  BY DEF Inv
<1>2. PICK x : x = d
  OBVIOUS
<1>3. /\ SendData0(w, x) /\ UNCHANGED memory
      /\ x.past = ctx[w].past /\ x.cache = SentWith(w, x).cache
  BY <1>1, <1>2, SendDataData
<1>4. UNCHANGED <<setup, queue>> /\ calls \subseteq calls' /\ pc[w] = "line"
  BY <1>3 DEF SendData0
<1>5. Proper(calls', x) /\ SentKeys(setup, x)
  BY <1>1, <1>3, <1>4, SentIsProper
<1>6. RunOf(x) = RunOf(ctx[w])
  BY <1>3 DEF SendData0, NextStep, RunOf
<1>7. \A at : MemoryOf(calls', x, memory[w], at)
  BY <1>3, <1>4, <1>6, MemoryStaysOwn
<1>8. QueueCaches'
  BY <1>4, QueueStays
<1>9. ASSUME NEW at, Moves(w, x, at), UNCHANGED store, at # "sent" \/ ~StepIn(setup, x).async,
             at # "answered"
      PROVE  CacheInv'
  <2>1. StoreCaches' /\ SameClones
    BY <1>4, <1>9, ClonesStay
  <2>2. SamePast(calls', setup, x, at, store')
    BY <1>9 DEF SamePast
  <2>3. \A v \in Threads : v # w => SamePast(calls', setup, ctx[v], pc[v], store')
    BY <1>4, <2>1, PastsStay
  <2>4. memory' = [v \in Threads |-> IF v = w THEN memory[w] ELSE memory[v]]
    BY <1>3, MemoryUnchanged
  <2> QED
    BY <1>4, <1>5, <1>7, <1>8, <1>9, <2>1, <2>2, <2>3, <2>4, ThreadStepCaches
<1>10. ASSUME Moves(w, x, "sent"), StepIn(setup, x).async, store' = Stored(x.id, Clone(x))
       PROVE  CacheInv'
  <2>1. /\ \A id \in DOMAIN store' : id = x.id \/ (id \in DOMAIN store /\ store'[id] = store[id])
        /\ x.id \in DOMAIN store' /\ store'[x.id].ctx = x
    BY <1>10 DEF Stored, Clone
  <2>2. StoreCaches'
    <3>1. \A id \in DOMAIN store : Proper(calls', store[id].ctx)
      BY <1>4, MoreCalls DEF CacheInv, StoreCaches
    <3>2. \A id \in DOMAIN store' : Proper(calls', store'[id].ctx)
      BY <1>5, <2>1, <3>1
    <3> QED
      BY <3>2 DEF StoreCaches
  <2>3. SamePast(calls', setup, x, "sent", store')
    BY <2>1 DEF SamePast
  <2>4. \A v \in Threads : v # w => SamePast(calls', setup, ctx[v], pc[v], store')
    BY <1>3, <1>4, <1>10, OthersHaveTheirClones
  <2>5. memory' = [v \in Threads |-> IF v = w THEN memory[w] ELSE memory[v]]
    BY <1>3, MemoryUnchanged
  <2> QED
    BY <1>4, <1>5, <1>7, <1>8, <1>10, <2>2, <2>3, <2>4, <2>5, ThreadStepCaches
<1>11. CASE Moves(w, x, "idle") /\ UNCHANGED store
  BY <1>9, <1>11
<1>12. CASE StepFails0(w, x) /\ UNCHANGED store
  BY <1>9, <1>12 DEF StepFails0
<1>13. CASE ~StepIn(setup, x).async /\ Moves(w, x, "sent") /\ UNCHANGED store
  BY <1>9, <1>13
<1> QED
  BY <1>3, <1>10, <1>11, <1>12, <1>13 DEF SendData0

\* an answer that is judged: what it brings, and what is made of it
JudgedData(w, resp, d) ==
    LET r == ProcessResponse(w, resp) IN
    /\ Entries(resp) /\ Own(resp, RunOf(ctx[w]))
    /\ d.past = ctx[w].past /\ d.cache = r.cache
    /\ memory' = [memory EXCEPT ![w] = r.memory]
    /\ \/ UNCHANGED store
       \/ /\ StepIn(setup, ctx[w]).async /\ ctx[w].id \in DOMAIN store
          /\ store' = UpdateClone(ctx[w].id, Values(r.memory, "memory"))

LEMMA AnswerData ==
    ASSUME TypeInv, NEW w \in Threads, Answer(w)
    PROVE  /\ Answer0(w, ctx'[w]) /\ UNCHANGED command
           /\ \/ /\ ctx'[w] = ctx[w] /\ UNCHANGED memory
                 /\ UNCHANGED store \/ Pop(ctx[w].id)
              \/ \E resp : JudgedData(w, resp, ctx'[w])
<1> DEFINE c == ctx[w]
<1>1. PICK d0 : Answer0(w, d0)
  BY AnswerDoes
<1>2. \E at : Moves(w, d0, at)
  BY <1>1 DEF Answer0, StepFails0
<1>3. Answer0(w, ctx'[w]) /\ UNCHANGED command
  BY <1>1, <1>2, Moved DEF Answer
<1>4. pc[w] = "sent" /\ Running(w)
  BY <1>1 DEF Answer0, Running
<1>5. Located(setup, c) /\ IsContext(c) /\ IsCache(c.cache) /\ c.line # 0
  BY <1>4, RunningIsLocated DEF Located, IsContext, TypeInv, ContextInv, AtPoint
<1>6. Line(c) = StepIn(setup, c) /\ IsStep(Line(c))
  BY <1>5, StepOfScenario
<1>7. \A d : SetContext(w, d) => ctx'[w] = d
  BY DEF SetContext, TypeInv
<1>8. \A d : StepFails(w, d) => ctx'[w] = d
  BY <1>7 DEF StepFails
<1>9. \A at : Stop(w, at) => ctx'[w] = c /\ UNCHANGED <<memory, store>>
  BY DEF Stop
<1>10. \A back : Refuse(w, back) =>
         ctx'[w] = c /\ UNCHANGED memory /\ (UNCHANGED store \/ Pop(c.id))
  BY <1>8 DEF Refuse
<1>11. ASSUME NEW resp, Judge(w, resp), Entries(resp), Own(resp, RunOf(c))
       PROVE  JudgedData(w, resp, ctx'[w])
  <2> DEFINE r == ProcessResponse(w, resp)
             d == [c EXCEPT !.cache = r.cache]
  <2>1. IsCache(r.cache) /\ (r.checked /\ Line(c).memory # <<>> /\ Line(c).async =>
                               c.id \in DOMAIN store)
    BY <1>5, ProcessResponseDoes
  <2>2. /\ memory' = [memory EXCEPT ![w] = r.memory]
        /\ store' = IF Line(c).memory # <<>> /\ Line(c).async /\ r.checked
                       THEN UpdateClone(c.id, Values(r.memory, "memory")) ELSE store
        /\ SetContext(w, d) \/ StepFails(w, d)
    BY <1>11 DEF Judge
  <2> HIDE DEF r
  <2>3. d.past = c.past /\ d.cache = r.cache
    BY <1>5, <2>1, CacheChanges
  <2> HIDE DEF d
  <2>4. ctx'[w] = d
    BY <1>7, <1>8, <2>2
  <2>5. \/ UNCHANGED store
        \/ /\ StepIn(setup, c).async /\ c.id \in DOMAIN store
           /\ store' = UpdateClone(c.id, Values(r.memory, "memory"))
    BY <1>6, <2>1, <2>2
  <2> QED
    BY <1>11, <2>2, <2>3, <2>4, <2>5 DEF JudgedData, r
<1>12. \A a \in Line(c).answers : Entries(Response(a, c)) /\ Own(Response(a, c), RunOf(c))
  BY <1>6, ResponseDoes DEF IsStep
<1>13. \/ \E at \in {"scenario", "idle"} : Stop(w, at)
       \/ \E back : Refuse(w, back)
       \/ \E a \in Line(c).answers : Judge(w, Response(a, c))
  BY DEF Answer
<1>14. CASE \E at \in {"scenario", "idle"} : Stop(w, at)
  BY <1>3, <1>9, <1>14
<1>15. CASE \E back : Refuse(w, back)
  BY <1>3, <1>10, <1>15
<1>16. CASE \E a \in Line(c).answers : Judge(w, Response(a, c))
  BY <1>3, <1>11, <1>12, <1>16
<1> QED
  BY <1>13, <1>14, <1>15, <1>16

\* a clone with another cache
Recached(id, k) ==
    /\ DOMAIN store' = DOMAIN store
    /\ store'[id].ctx.past = store[id].ctx.past
    /\ RunOf(store'[id].ctx) = RunOf(store[id].ctx)
    /\ store'[id].ctx.cache = k
    /\ \A x \in DOMAIN store : x # id => store'[x] = store[x]

LEMMA CloneIsRecached ==
    ASSUME TypeInv, NEW id \in DOMAIN store, NEW k, IsCache(k), NEW y,
           y.ctx = [store[id].ctx EXCEPT !.cache = k], store' = [store EXCEPT ![id] = y]
    PROVE  Recached(id, k)
<1>1. IsContext(store[id].ctx)
  BY DEF TypeInv, StoreInv, IsClone, Located
<1>2. y.ctx.past = store[id].ctx.past /\ RunOf(y.ctx) = RunOf(store[id].ctx) /\ y.ctx.cache = k
  BY <1>1, CacheChanges DEF SameStep, RunOf
<1>3. store' = [x \in DOMAIN store |-> IF x = id THEN y ELSE store[x]]
  BY DEF TypeInv
<1> QED
  BY <1>2, <1>3 DEF Recached

LEMMA UpdatedClone ==
    ASSUME TypeInv, NEW id \in DOMAIN store, NEW keys, store' = UpdateClone(id, keys)
    PROVE  Recached(id, UpdateKeysPermanently(store[id].ctx.cache, keys))
<1> DEFINE x == store[id]
           k == UpdateKeysPermanently(x.ctx.cache, keys)
           c == [x.ctx EXCEPT !.cache = k]
           y == [x EXCEPT !.ctx = c]
<1>1. IsCache(x.ctx.cache) /\ x = [ctx |-> x.ctx, locked |-> x.locked, flagged |-> x.flagged]
  BY DEF TypeInv, StoreInv, IsClone, Located, IsContext
<1>2. IsCache(k)
  BY <1>1, CacheShapes
<1>3. store' = [store EXCEPT ![id] = y]
  BY DEF UpdateClone
<1> HIDE DEF k
<1>4. y.ctx = c
  BY <1>1
<1> HIDE DEF y
<1>5. Recached(id, k)
  BY <1>2, <1>3, <1>4, CloneIsRecached
<1> QED
  BY <1>5 DEF k

LEMMA FlaggedClone ==
    ASSUME TypeInv, NEW id \in DOMAIN store, NEW keys,
           store' = [store EXCEPT ![id] = Flagged(@, keys)]
    PROVE  Recached(id, UpdateKeys(store[id].ctx.cache, keys))
<1> DEFINE x == store[id]
           k == UpdateKeys(x.ctx.cache, keys)
           y == Flagged(x, keys)
<1>1. IsCache(x.ctx.cache) /\ x = [ctx |-> x.ctx, locked |-> x.locked, flagged |-> x.flagged]
  BY DEF TypeInv, StoreInv, IsClone, Located, IsContext
<1>2. IsCache(k)
  BY <1>1, CacheShapes
<1>3. y = [ctx |-> [x.ctx EXCEPT !.cache = k], locked |-> x.locked, flagged |-> TRUE]
  BY <1>1, FlaggedFields
<1>4. store' = [store EXCEPT ![id] = y]
  OBVIOUS
<1> HIDE DEF k
<1>5. y.ctx = [x.ctx EXCEPT !.cache = k]
  BY <1>3
<1> HIDE DEF y
<1>6. Recached(id, k)
  BY <1>2, <1>4, <1>5, CloneIsRecached
<1> QED
  BY <1>6 DEF k

\* a clone that has got keys is proper when they are
LEMMA RecachedStore ==
    ASSUME CacheInv, calls \subseteq calls', NEW id \in DOMAIN store, NEW k, Recached(id, k),
           Proper(calls', store'[id].ctx)
    PROVE  StoreCaches' /\ SameClones
<1>1. \A x \in DOMAIN store : Proper(calls', store[x].ctx)
  BY MoreCalls DEF CacheInv, StoreCaches
<1>2. \A x \in DOMAIN store' : Proper(calls', store'[x].ctx)
  BY <1>1 DEF Recached
<1> QED
  BY <1>2 DEF StoreCaches, SameClones, Recached

\* a clone and the thread of its call, whose identifier is not that of another call
LEMMA CloneOfThread ==
    ASSUME Inv, CacheInv, NEW w \in Threads, InStep(w), StepIn(setup, ctx[w]).async,
           ctx[w].id \in DOMAIN store, NEW c, c \in {store[ctx[w].id].ctx, ctx[w]},
           ~SharedIn(calls, RunOf(c))
    PROVE  /\ RunOf(store[ctx[w].id].ctx) = RunOf(ctx[w])
           /\ store[ctx[w].id].ctx.past = ctx[w].past
<1> DEFINE x == store[ctx[w].id].ctx
<1>1. CallOf(x) \in calls /\ CallOf(ctx[w]) \in calls /\ x.id = ctx[w].id
  BY DEF Inv, CallInv, TypeInv, StoreInv, IsClone
<1>2. CallOf(x) = CallOf(ctx[w])
  BY <1>1 DEF SharedIn, CallOf
<1>3. RunOf(x) = RunOf(ctx[w])
  BY <1>2 DEF CallOf
<1>4. SamePast(calls, setup, ctx[w], pc[w], store)
  BY DEF CacheInv, Pasts
<1> QED
  BY <1>3, <1>4 DEF SamePast, InStep

\* the thread goes on, at the same step, with the past that it has
LEMMA ThreadPast ==
    ASSUME CacheInv, calls \subseteq calls', SameClones, NEW w \in Threads, InStep(w), NEW d,
           d.past = ctx[w].past, d.id = ctx[w].id, RunOf(d) = RunOf(ctx[w]),
           StepIn(setup, d) = StepIn(setup, ctx[w]), NEW at
    PROVE  SamePast(calls', setup, d, at, store')
<1>1. SamePast(calls', setup, ctx[w], pc[w], store')
  BY PastsStay
<1> QED
  BY <1>1 DEF SamePast, InStep

\* a thread whose context stays, with the memory that it has
LEMMA SameContext ==
    ASSUME CacheInv, calls \subseteq calls', NEW w \in Threads
    PROVE  Proper(calls', ctx[w])
  BY MoreCalls DEF CacheInv, ContextCaches

LEMMA AnswerCaches ==
    ASSUME Inv, CacheInv, NEW w \in Threads, Answer(w)
    PROVE  CacheInv'
<1> DEFINE c == ctx[w]
<1>1. TypeInv
  BY DEF Inv
<1>2. PICK d : d = ctx'[w]
  OBVIOUS
<1>3. /\ Answer0(w, d)
      /\ \/ d = c /\ UNCHANGED memory /\ (UNCHANGED store \/ Pop(c.id))
         \/ \E resp : JudgedData(w, resp, d)
  BY <1>1, <1>2, AnswerData
<1>4. /\ UNCHANGED <<setup, queue>> /\ calls \subseteq calls' /\ pc[w] = "sent" /\ InStep(w)
      /\ GrownStep(c, d)
  BY <1>3 DEF Answer0, InStep
<1>5. RunOf(d) = RunOf(c) /\ d.id = c.id /\ StepIn(setup, d) = StepIn(setup, c)
  BY <1>1, <1>4, GrownFacts
<1>6. PICK at \in {"scenario", "idle", "line", "answered"} : Moves(w, d, at)
  BY <1>3 DEF Answer0, StepFails0
<1>7. QueueCaches'
  BY <1>4, QueueStays
<1>8. Proper(calls, c) /\ Entries(memory[w]) /\ (Unmixed(calls, c) => Own(memory[w], RunOf(c)))
  BY <1>4 DEF CacheInv, ContextCaches, MemoryCaches, MemoryOf
<1>9. Located(setup, c) /\ IsCache(c.cache) /\ IsStep(Line(c))
  <2>1. Running(w)
    BY <1>4 DEF Running
  <2>2. Located(setup, c) /\ c.line # 0
    BY <1>1, <1>4, <2>1, RunningIsLocated DEF TypeInv, ContextInv, AtPoint
  <2> QED
    BY <1>1, <2>2, StepOfScenario DEF Located, IsContext
<1>10. CASE d = c /\ UNCHANGED memory /\ (UNCHANGED store \/ Pop(c.id))
  <2>1. StoreCaches' /\ SameClones
    <3>1. \A id \in DOMAIN store' : id \in DOMAIN store /\ store'[id].ctx = store[id].ctx
      BY <1>1, <1>4, <1>10, Popped
    <3> QED
      BY <1>4, <3>1, ClonesStay
  <2>2. SamePast(calls', setup, d, at, store')
    BY <1>4, <1>10, <2>1, ThreadPast
  <2>3. \A v \in Threads : v # w => SamePast(calls', setup, ctx[v], pc[v], store')
    BY <1>4, <2>1, PastsStay
  <2>4. memory' = [v \in Threads |-> IF v = w THEN memory[w] ELSE memory[v]]
    BY <1>10, MemoryUnchanged
  <2>5. Proper(calls', d) /\ MemoryOf(calls', d, memory[w], at)
    BY <1>4, <1>10, SameContext, MemoryStaysOwn
  <2> QED
    BY <1>4, <1>6, <1>7, <2>1, <2>2, <2>3, <2>4, <2>5, ThreadStepCaches
<1>11. ASSUME NEW resp, JudgedData(w, resp, d)
       PROVE  CacheInv'
  <2> DEFINE r == ProcessResponse(w, resp)
             new == Values(r.memory, "memory")
  <2>1. /\ Entries(resp) /\ Own(resp, RunOf(c)) /\ d.past = c.past /\ d.cache = r.cache
        /\ memory' = [memory EXCEPT ![w] = r.memory]
        /\ \/ UNCHANGED store
           \/ /\ StepIn(setup, c).async /\ c.id \in DOMAIN store
              /\ store' = UpdateClone(c.id, new)
    BY <1>11 DEF JudgedData
  <2>2. /\ Entries(r.cache.with) /\ Entries(r.cache.runtime)
        /\ r.cache.dynamic = c.cache.dynamic
        /\ Entries(r.memory)
        /\ Clean(c.cache.with) => Clean(r.cache.with)
        /\ Own(c.cache.with, RunOf(c)) /\ Own(c.cache.runtime, RunOf(c)) /\ Own(memory[w], RunOf(c))
             => /\ Own(r.cache.with, RunOf(c)) /\ Own(r.cache.runtime, RunOf(c))
                /\ Own(r.memory, RunOf(c))
    BY <1>8, <1>9, <2>1, ProcessResponseKeeps DEF Proper, Cached
  <2> HIDE DEF r
  <2>3. Unmixed(calls, c) => Mine(d) /\ Own(r.memory, RunOf(c))
    BY <1>5, <1>8, <2>1, <2>2 DEF Proper, Mine
  <2>4. Unmixed(calls', d) => Unmixed(calls, c)
    BY <1>4, <1>5, <2>1 DEF Unmixed, SharedIn
  <2>5. Proper(calls', d)
    <3>1. Cached(d)
      BY <1>8, <2>1, <2>2 DEF Proper, Cached
    <3> QED
      BY <2>3, <2>4, <3>1 DEF Proper
  <2>6. MemoryOf(calls', d, r.memory, at)
    BY <1>5, <2>2, <2>3, <2>4 DEF MemoryOf
  <2>7. memory' = [v \in Threads |-> IF v = w THEN r.memory ELSE memory[v]]
    BY <2>1 DEF CacheInv, MemoryCaches
  <2>8. StoreCaches' /\ SameClones
    <3>1. CASE UNCHANGED store
      BY <1>4, <3>1, ClonesStay
    <3>2. CASE /\ StepIn(setup, c).async /\ c.id \in DOMAIN store
               /\ store' = UpdateClone(c.id, new)
      <4> DEFINE x == store[c.id].ctx
                 k == UpdateKeysPermanently(x.cache, new)
                 y == store'[c.id].ctx
      <4>1. Recached(c.id, k)
        BY <1>1, <3>2, UpdatedClone
      <4>2. IsCache(x.cache)
        BY <1>1, <3>2 DEF TypeInv, StoreInv, IsClone, Located, IsContext
      <4>3. /\ k.runtime = Updated(x.cache.runtime, new) /\ k.with = Updated(x.cache.with, new)
            /\ k.dynamic = x.cache.dynamic
        BY <4>2, CacheParts
      <4>4. y.past = x.past /\ RunOf(y) = RunOf(x) /\ y.cache = k
        BY <4>1 DEF Recached
      <4>5. /\ Entries(new) /\ Clean(new)
            /\ \A q : Own(r.memory, q) => Own(new, q)
        BY <2>2, MemoryValues
      <4>6. Proper(calls, x)
        BY <3>2 DEF CacheInv, StoreCaches
      <4> HIDE DEF k, y, x, new
      <4>7. Cached(y)
        <5>1. Entries(y.cache.with) /\ Entries(y.cache.runtime) /\ Given(y.cache.dynamic)
          BY <4>3, <4>4, <4>5, <4>6, UpdatedAreEntries DEF Proper, Cached
        <5>2. "kept" \notin y.past => Clean(y.cache.with)
          BY <4>3, <4>4, <4>5, <4>6, UpdatedIsClean DEF Proper, Cached
        <5> QED
          BY <5>1, <5>2 DEF Cached
      <4>8. Unmixed(calls', y) => Mine(y)
        <5>1. SUFFICES ASSUME Unmixed(calls', y) PROVE Mine(y)
          OBVIOUS
        <5>2. Unmixed(calls, x)
          BY <1>4, <4>4, <5>1 DEF Unmixed, SharedIn
        <5>3. RunOf(x) = RunOf(c) /\ x.past = c.past
          BY <1>4, <3>2, <5>2, CloneOfThread DEF Unmixed, x
        <5>4. Own(r.memory, RunOf(x)) /\ Mine(x)
          BY <2>3, <4>6, <5>2, <5>3 DEF Unmixed, Proper
        <5>5. Own(y.cache.with, RunOf(x)) /\ Own(y.cache.runtime, RunOf(x))
          BY <4>3, <4>4, <4>5, <5>4, UpdatedIsOwn DEF Mine
        <5> QED
          BY <4>4, <5>5 DEF Mine
      <4>9. Proper(calls', y)
        BY <4>7, <4>8 DEF Proper
      <4> QED
        BY <1>4, <3>2, <4>1, <4>9, RecachedStore DEF y
    <3> QED
      BY <2>1, <3>1, <3>2
  <2>9. SamePast(calls', setup, d, at, store')
    BY <1>4, <1>5, <2>1, <2>8, ThreadPast
  <2>10. \A v \in Threads : v # w => SamePast(calls', setup, ctx[v], pc[v], store')
    BY <1>4, <2>8, PastsStay
  <2> QED
    BY <1>4, <1>6, <1>7, <2>5, <2>6, <2>7, <2>8, <2>9, <2>10, ThreadStepCaches
<1> QED
  BY <1>3, <1>10, <1>11

LEMMA AfterStepCaches ==
    ASSUME Inv, CacheInv, NEW w \in Threads, AfterStep(w)
    PROVE  CacheInv'
<1> DEFINE c == ctx[w]
           x == store[c.id].ctx
<1>1. TypeInv /\ pc[w] = "answered" /\ InStep(w) /\ Running(w)
      /\ UNCHANGED <<setup, memory, queue, calls>>
  BY DEF Inv, AfterStep, InStep, Running, histVars
<1>2. Located(setup, c) /\ IsContext(c) /\ IsCache(c.cache) /\ Line(c) = StepIn(setup, c)
  BY <1>1, RunningIsLocated, StepOfScenario DEF Located, IsContext
<1>3. QueueCaches' /\ calls \subseteq calls'
  BY <1>1, QueueStays
<1>4. memory' = [v \in Threads |-> IF v = w THEN memory[w] ELSE memory[v]]
  BY <1>1, MemoryUnchanged
<1>5. Proper(calls, c)
  BY DEF CacheInv, ContextCaches
<1>6. ASSUME NEW at \in {"line", "scenario"}, Moves(w, c, at), StoreCaches', SameClones
      PROVE  CacheInv'
  <2>1. Proper(calls', c) /\ MemoryOf(calls', c, memory[w], at)
    BY <1>1, <1>3, SameContext, MemoryStaysOwn
  <2>2. \A v \in Threads : v # w => SamePast(calls', setup, ctx[v], pc[v], store')
    BY <1>3, <1>6, PastsStay
  <2>3. SamePast(calls', setup, c, at, store')
    BY DEF SamePast
  <2> QED
    BY <1>1, <1>3, <1>4, <1>6, <2>1, <2>2, <2>3, ThreadStepCaches
<1>7. CASE ~Line(c).async /\ Go(w, "line") /\ UNCHANGED <<ctx, store>>
  <2>1. Moves(w, c, "line")
    BY <1>1, <1>7, OnlyGo
  <2>2. StoreCaches' /\ SameClones
    BY <1>3, <1>7, ClonesStay
  <2> QED
    BY <1>6, <2>1, <2>2
<1>8. CASE /\ store' = IF c.id \in DOMAIN store THEN [store EXCEPT ![c.id].locked = FALSE] ELSE store
           /\ Go(w, "scenario") /\ UNCHANGED ctx
  <2>1. Moves(w, c, "scenario")
    BY <1>1, <1>8, OnlyGo
  <2>2. \A id \in DOMAIN store' : id \in DOMAIN store /\ store'[id].ctx = store[id].ctx
    <3>1. CASE c.id \notin DOMAIN store
      BY <1>8, <3>1
    <3>2. CASE c.id \in DOMAIN store
      <4> DEFINE y == [store[c.id] EXCEPT !.locked = FALSE]
      <4>1. y.ctx = store[c.id].ctx
        BY <1>1, <3>2, CloneFields DEF TypeInv, StoreInv, IsClone
      <4>2. store' = [store EXCEPT ![c.id] = y]
        BY <1>8, <3>2
      <4> HIDE DEF y
      <4>3. store' = [id \in DOMAIN store |-> IF id = c.id THEN y ELSE store[id]]
        BY <1>1, <4>2 DEF TypeInv
      <4> QED
        BY <4>1, <4>3
    <3> QED
      BY <3>1, <3>2
  <2>3. StoreCaches' /\ SameClones
    BY <1>3, <2>2, ClonesStay
  <2> QED
    BY <1>6, <2>1, <2>3
<1>9. CASE /\ Line(c).async /\ c.id \in DOMAIN store
           /\ SetContext(w, KeepThread(c, x.cache.runtime)) /\ Pop(c.id) /\ Go(w, "line")
  <2> DEFINE d == KeepThread(c, x.cache.runtime)
             keys == x.cache.runtime
  <2>1. /\ SameStep(c, d) /\ d.past = c.past \union {"kept"}
        /\ d.cache = UpdateAsyncDataPermanently(c.cache, keys)
    BY <1>2, KeepThreadChanges
  <2>2. Moves(w, d, "line")
    BY <1>1, <1>9, SetAndGo
  <2> HIDE DEF d
  <2>3. /\ d.cache.runtime = c.cache.runtime /\ d.cache.with = Updated(c.cache.with, keys)
        /\ d.cache.dynamic = c.cache.dynamic
    BY <1>2, <2>1, CacheParts
  <2>4. Proper(calls, x)
    BY <1>9 DEF CacheInv, StoreCaches
  <2> HIDE DEF x
  <2>5. Cached(d)
    <3>1. Entries(d.cache.with)
      BY <1>5, <2>3, <2>4, UpdatedAreEntries DEF Proper, Cached
    <3> QED
      BY <1>5, <2>1, <2>3, <3>1 DEF Proper, Cached
  <2>6. RunOf(d) = RunOf(c)
    BY <2>1 DEF SameStep, RunOf
  <2>7. Unmixed(calls', d) => Mine(d)
    <3>1. SUFFICES ASSUME Unmixed(calls', d) PROVE Mine(d)
      OBVIOUS
    <3>2. Unmixed(calls, c)
      BY <1>1, <2>1, <2>6, <3>1 DEF Unmixed
    <3>3. RunOf(x) = RunOf(c) /\ x.past = c.past
      BY <1>1, <1>2, <1>9, <3>2, CloneOfThread DEF Unmixed, x
    <3>4. Mine(x) /\ Mine(c)
      BY <1>5, <2>4, <3>2, <3>3 DEF Unmixed, Proper
    <3>5. Own(d.cache.with, RunOf(c)) /\ Own(d.cache.runtime, RunOf(c))
      BY <2>3, <3>3, <3>4, UpdatedIsOwn DEF Mine
    <3> QED
      BY <2>6, <3>5 DEF Mine
  <2>8. Proper(calls', d)
    BY <2>5, <2>7 DEF Proper
  <2>9. MemoryOf(calls', d, memory[w], "line")
    BY <1>1, <1>3, <2>1, <2>6, MemoryStaysOwn
  <2>10. StoreCaches' /\ SameClones
    <3>1. \A id \in DOMAIN store' : id \in DOMAIN store /\ store'[id].ctx = store[id].ctx
      BY <1>1, <1>9, Popped
    <3> QED
      BY <1>3, <3>1, ClonesStay
  <2>11. \A v \in Threads : v # w => SamePast(calls', setup, ctx[v], pc[v], store')
    BY <1>3, <2>10, PastsStay
  <2>12. SamePast(calls', setup, d, "line", store')
    BY DEF SamePast
  <2> QED
    BY <1>1, <1>3, <1>4, <2>2, <2>8, <2>9, <2>10, <2>11, <2>12, ThreadStepCaches
<1> QED
  BY <1>7, <1>8, <1>9 DEF AfterStep

\* what a thread and its environment bring to a scenario
LEMMA EnvironmentIsGiven ==
    ASSUME NEW w
    PROVE  Given(Environment(w))
<1>1. Given(Env)
  BY NamesAssumption, TextsAreGiven
<1>2. Given(Single("THREAD", Literal(w)))
  BY LiteralEntry, SingleEntry
<1> QED
  BY <1>1, <1>2, UpdatedEntries DEF Environment

\* a thread that leaves its run, or begins another, with nothing in its memory
LEMMA ThreadBegins ==
    ASSUME CacheInv, UNCHANGED <<setup, store, queue, calls>>, NEW w \in Threads,
           NEW d, NEW at \in {"idle", "scenario", "line"}, Moves(w, d, at), Proper(calls, d),
           \/ memory' = [memory EXCEPT ![w] = <<>>]
           \/ UNCHANGED memory /\ at # "line"
    PROVE  CacheInv'
<1>1. calls \subseteq calls' /\ Proper(calls', d)
  OBVIOUS
<1>2. StoreCaches' /\ SameClones /\ QueueCaches'
  BY <1>1, ClonesStay, QueueStays
<1>3. \A v \in Threads : v # w => SamePast(calls', setup, ctx[v], pc[v], store')
  BY <1>1, <1>2, PastsStay
<1>4. SamePast(calls', setup, d, at, store')
  BY DEF SamePast
<1>5. CASE memory' = [memory EXCEPT ![w] = <<>>]
  <2>1. memory' = [v \in Threads |-> IF v = w THEN <<>> ELSE memory[v]]
    BY <1>5 DEF CacheInv, MemoryCaches
  <2>2. MemoryOf(calls', d, <<>>, at)
    BY NothingIsGiven, GivenIsOwn DEF MemoryOf
  <2> QED
    BY <1>1, <1>2, <1>3, <1>4, <2>1, <2>2, ThreadStepCaches
<1>6. CASE UNCHANGED memory /\ at # "line"
  <2>1. memory' = [v \in Threads |-> IF v = w THEN memory[w] ELSE memory[v]]
    BY <1>6, MemoryUnchanged
  <2>2. MemoryOf(calls', d, memory[w], at)
    BY <1>6 DEF CacheInv, MemoryCaches, MemoryOf
  <2> QED
    BY <1>1, <1>2, <1>3, <1>4, <2>1, <2>2, ThreadStepCaches
<1> QED
  BY <1>5, <1>6

LEMMA EndOfStepsCaches ==
    ASSUME Inv, CacheInv, NEW w \in Threads, EndOfSteps(w)
    PROVE  CacheInv'
<1>1. Moves(w, ctx[w], "scenario") /\ UNCHANGED <<setup, store, queue, calls, memory>>
  BY EndOfStepsDoes DEF Inv, EndOfSteps
<1>2. Proper(calls, ctx[w])
  BY DEF CacheInv, ContextCaches
<1> QED
  BY <1>1, <1>2, ThreadBegins

\* a scenario begins with one of the caches that its section leads to
LEMMA NextScenarioData ==
    ASSUME TypeInv, NEW w \in Threads, NextScenario(w)
    PROVE  /\ UNCHANGED <<setup, store, queue, calls, command>>
           /\ \/ /\ Moves(w, ctx[w], "idle")
                 /\ UNCHANGED memory \/ memory' = [memory EXCEPT ![w] = <<>>]
              \/ \E d, uid : /\ Moves(w, d, "line") /\ d.past = {} /\ d.line = 0
                             /\ memory' = [memory EXCEPT ![w] = <<>>]
                             /\ Located(setup, d)
                             /\ d.cache \in ScenarioCaches(Scenario(d), uid, ctx[w].cache,
                                                           Environment(w))
<1> DEFINE scn == ctx[w].scn + 1
           uid == <<w, runs[w], scn>>
<1>1. UNCHANGED <<setup, store, queue, calls, command>>
  BY DEF NextScenario, histVars
<1>2. \/ /\ UNCHANGED ctx /\ Go(w, "idle")
         /\ UNCHANGED memory \/ memory' = [memory EXCEPT ![w] = <<>>]
      \/ /\ \E c \in NextContexts(w) : SetContext(w, c)
         /\ memory' = [memory EXCEPT ![w] = <<>>] /\ Go(w, "line")
  BY DEF NextScenario
<1>3. CASE /\ UNCHANGED ctx /\ Go(w, "idle")
           /\ UNCHANGED memory \/ memory' = [memory EXCEPT ![w] = <<>>]
  BY <1>1, <1>3, OnlyGo
<1>4. ASSUME NEW c \in NextContexts(w), SetContext(w, c),
             memory' = [memory EXCEPT ![w] = <<>>], Go(w, "line")
      PROVE  \E d, u : /\ Moves(w, d, "line") /\ d.past = {} /\ d.line = 0
                       /\ memory' = [memory EXCEPT ![w] = <<>>]
                       /\ Located(setup, d)
                       /\ d.cache \in ScenarioCaches(Scenario(d), u, ctx[w].cache,
                                                     Environment(w))
  <2>1. PICK cache : /\ cache \in ScenarioCaches(setup.scenarios[scn], ToString(uid),
                                                 ctx[w].cache, Environment(w))
                     /\ c = BeginScenario(ctx[w], uid, cache)
    BY <1>4 DEF NextContexts
  <2>2. IsCache(cache)
    BY <2>1, ScenarioCacheShape
  <2>3. uid[3] = scn
    OBVIOUS
  <2> HIDE DEF uid
  <2>4. IsContext(ctx[w])
    BY DEF TypeInv, ContextInv, AtPoint
  <2>5. c.scn = scn /\ c.line = 0 /\ c.past = {} /\ c.cache = cache
    BY <2>1, <2>2, <2>3, <2>4, BeginScenarioChanges
  <2>6. Moves(w, c, "line")
    BY <1>4, SetAndGo
  <2>7. Located(setup, c)
    <3>1. pc'[w] = "line" /\ ctx'[w] = c
      BY <2>6, Moved
    <3>2. Moves(w, ctx[w], "idle") => pc'[w] = "idle"
      BY Moved
    <3>3. PICK d : NextScenario0(w, d)
      BY <3>1, <3>2, NextScenarioDoes
    <3>4. d = c
      BY <3>1, <3>3, Moved DEF NextScenario0
    <3> QED
      BY <3>3, <3>4 DEF NextScenario0
  <2>8. Scenario(c) = setup.scenarios[scn]
    BY <2>5 DEF Scenario
  <2>9. c.cache \in ScenarioCaches(Scenario(c), ToString(uid), ctx[w].cache, Environment(w))
    BY <2>1, <2>5, <2>8
  <2> QED
    BY <1>4, <2>5, <2>6, <2>7, <2>9
<1> QED
  BY <1>1, <1>2, <1>3, <1>4

LEMMA NextScenarioCaches ==
    ASSUME Inv, CacheInv, NEW w \in Threads, NextScenario(w)
    PROVE  CacheInv'
<1>1. TypeInv
  BY DEF Inv
<1>2. Proper(calls, ctx[w]) /\ Given(ctx[w].cache.dynamic) /\ IsCache(ctx[w].cache)
  BY <1>1 DEF CacheInv, ContextCaches, Proper, Cached, TypeInv, ContextInv, AtPoint, IsContext
<1>3. UNCHANGED <<setup, store, queue, calls>>
  BY <1>1, NextScenarioData
<1>4. CASE /\ Moves(w, ctx[w], "idle")
           /\ UNCHANGED memory \/ memory' = [memory EXCEPT ![w] = <<>>]
  BY <1>2, <1>3, <1>4, ThreadBegins
<1>5. ASSUME NEW d, NEW uid, Moves(w, d, "line"), d.past = {},
             memory' = [memory EXCEPT ![w] = <<>>], Located(setup, d),
             d.cache \in ScenarioCaches(Scenario(d), uid, ctx[w].cache, Environment(w))
      PROVE  CacheInv'
  <2>1. IsScenario(Scenario(d)) /\ Given(Environment(w))
    BY <1>1, <1>5, StepOfScenario, EnvironmentIsGiven
  <2>2. Given(d.cache.with) /\ Given(d.cache.runtime) /\ d.cache.dynamic = <<>>
    BY <1>2, <1>5, <2>1, ScenarioCachesAreGiven
  <2>3. Given(d.cache.dynamic)
    BY <2>2, NothingIsGiven
  <2>4. Proper(calls, d)
    BY <2>2, <2>3, GivenIsOwn DEF Proper, Cached, Mine
  <2> QED
    BY <1>3, <1>5, <2>4, ThreadBegins
<1> QED
  BY <1>1, <1>4, <1>5, NextScenarioData

LEMMA DataOfEvents ==
    ASSUME TypeInv
    PROVE  AreTexts(setup.data) /\ \A id : Given(EventKeys(id))
<1>1. AreTexts(setup.data)
  BY SetupsAssumption DEF TypeInv
<1> QED
  BY <1>1, EventKeysAreGiven

\* a run that begins with nothing, or with what an event has brought
LEMMA StartIsProper ==
    ASSUME TypeInv, NEW w \in Threads, NEW keys, Given(keys), StartContext(w, keys)
    PROVE  Moves(w, ctx'[w], "scenario") /\ Proper(calls', ctx'[w])
           /\ ctx'[w].cache.dynamic = Updated(<<>>, keys)
<1> DEFINE k == AddDynamicKeys(EmptyCache, keys)
           d == [NoContext EXCEPT !.cache = AddDynamicKeys(@, keys)]
<1>1. IsContext(NoContext) /\ NoContext.past = {} /\ NoContext.cache = EmptyCache
  BY EmptyCacheShape DEF NoContext, IsContext
<1>2. SetContext(w, d) /\ Go(w, "scenario")
  BY DEF StartContext
<1>3. /\ IsCache(EmptyCache) /\ EmptyCache.runtime = <<>> /\ EmptyCache.with = <<>>
      /\ EmptyCache.dynamic = <<>>
  BY DEF EmptyCache, IsCache
<1>4. IsCache(k) /\ k.with = <<>> /\ k.runtime = <<>> /\ k.dynamic = Updated(<<>>, keys)
  <2> DEFINE e == EmptyCache
  <2> HIDE DEF e
  <2>1. IsCache(e) => /\ IsCache(AddDynamicKeys(e, keys))
                      /\ AddDynamicKeys(e, keys).with = e.with
                      /\ AddDynamicKeys(e, keys).runtime = e.runtime
                      /\ AddDynamicKeys(e, keys).dynamic = Updated(e.dynamic, keys)
    BY DEF AddDynamicKeys, IsCache
  <2> QED
    BY <1>3, <2>1 DEF e
<1>5. d = [NoContext EXCEPT !.cache = k]
  BY <1>1
<1> HIDE DEF k, d
<1>6. d.past = {} /\ d.cache = k
  BY <1>1, <1>4, <1>5, CacheChanges
<1>7. Given(k.dynamic) /\ Given(k.with) /\ Given(k.runtime)
  <2>1. Given(<<>>)
    BY NothingIsGiven
  <2>2. Given(Updated(<<>>, keys))
    BY <2>1, UpdatedEntries
  <2> QED
    BY <1>4, <2>1, <2>2
<1>8. Proper(calls', d)
  BY <1>6, <1>7, GivenIsOwn DEF Proper, Cached, Mine
<1>9. Moves(w, d, "scenario")
  BY <1>2, SetAndGo
<1>10. ctx'[w] = d
  BY <1>9, Moved
<1> QED
  BY <1>4, <1>6, <1>8, <1>9, <1>10

\* a run that begins
LEMMA RunBegins ==
    ASSUME CacheInv, UNCHANGED <<setup, memory, calls>>, NEW w \in Threads,
           pc[w] = "idle", NEW d, NEW at \in {"idle", "scenario", "line"}, Moves(w, d, at),
           Proper(calls, d), at = "line" => "resumed" \in d.past,
           StoreCaches', SameClones, QueueCaches'
    PROVE  CacheInv'
<1>1. calls \subseteq calls' /\ Proper(calls', d)
  OBVIOUS
<1>2. \A v \in Threads : v # w => SamePast(calls', setup, ctx[v], pc[v], store')
  BY <1>1, PastsStay
<1>3. SamePast(calls', setup, d, at, store')
  BY DEF SamePast
<1>4. memory' = [v \in Threads |-> IF v = w THEN memory[w] ELSE memory[v]]
  BY MemoryUnchanged
<1>5. MemoryOf(calls', d, memory[w], at)
  BY DEF CacheInv, MemoryCaches, MemoryOf, Unmixed
<1> QED
  BY <1>1, <1>2, <1>3, <1>4, <1>5, ThreadStepCaches

LEMMA QueueTailCaches ==
    ASSUME TypeInv, CacheInv, queue # <<>>
    PROVE  /\ \A i \in DOMAIN Tail(queue) :
                Tail(queue)[i].type = "context" => Cached(Tail(queue)[i].ctx)
           /\ Head(queue).type = "context" => Cached(Head(queue).ctx)
  BY TailSequence DEF TypeInv, QueueInv, CacheInv, QueueCaches

LEMMA AppendCaches ==
    ASSUME NEW q, IsSequence(q), \A i \in DOMAIN q : q[i].type = "context" => Cached(q[i].ctx),
           NEW t, t.type = "context" => Cached(t.ctx)
    PROVE  \A i \in DOMAIN Append(q, t) :
             Append(q, t)[i].type = "context" => Cached(Append(q, t)[i].ctx)
<1>1. Len(q) \in Nat /\ DOMAIN q = 1..Len(q)
  BY Sequence
<1>2. \A i \in DOMAIN Append(q, t) : i \in DOMAIN q \/ i = Len(q) + 1
  BY <1>1, AppendSequence
<1> QED
  BY <1>2, AppendSequence

\* what a run does before it comes to a scenario
LEMMA ProcessScenarioCaches ==
    ASSUME Inv, CacheInv, NEW w \in Threads, ProcessScenario(w)
    PROVE  CacheInv'
<1>1. TypeInv /\ pc[w] = "idle" /\ UNCHANGED <<setup, memory, calls>>
  BY DEF Inv, ProcessScenario, histVars
<1>2. Proper(calls, ctx[w]) /\ calls \subseteq calls'
  BY <1>1 DEF CacheInv, ContextCaches
<1>3. UNCHANGED store => StoreCaches' /\ SameClones
  BY <1>2, ClonesStay
<1>4. queue # <<>> /\ queue' = Tail(queue) => QueueCaches'
  BY <1>1, QueueTailCaches DEF QueueCaches
<1>5. ASSUME NEW keys, Given(keys), StartContext(w, keys), UNCHANGED store, QueueCaches'
      PROVE  CacheInv'
  <2>1. PICK d : d = ctx'[w]
    OBVIOUS
  <2>2. Moves(w, d, "scenario") /\ Proper(calls', d)
    BY <1>1, <1>5, <2>1, StartIsProper
  <2> QED
    BY <1>1, <1>3, <1>5, <2>2, RunBegins
<1>6. CASE /\ queue # <<>> /\ Head(queue).type = "context"
           /\ SetContext(w, Resumed(Head(queue).ctx))
           /\ Go(w, IF Head(queue).ctx.continue THEN "line" ELSE "scenario")
           /\ queue' = Tail(queue) /\ UNCHANGED store
  <2> DEFINE c == Head(queue).ctx
             d == Resumed(c)
             at == IF c.continue THEN "line" ELSE "scenario"
  <2>1. Cached(c) /\ IsContext(c)
    BY <1>1, <1>6, QueueTailCaches, QueueTail DEF IsToken, Located
  <2>2. d.past = c.past \union {"resumed"} /\ d.cache = c.cache
    BY <2>1, ResumedChanges
  <2>3. Moves(w, d, at)
    BY <1>1, <1>6, SetAndGo
  <2>4. at \in {"scenario", "line"}
    OBVIOUS
  <2> HIDE DEF c, d, at
  <2>5. Proper(calls, d)
    BY <2>1, <2>2 DEF Proper, Cached, Unmixed
  <2> QED
    BY <1>1, <1>3, <1>4, <1>6, <2>2, <2>3, <2>4, <2>5, RunBegins
<1>7. CASE /\ queue # <<>> /\ Head(queue).id \in DOMAIN store
           /\ ProcessCallback(w, store[Head(queue).id].ctx, Tail(queue))
           /\ Pop(Head(queue).id)
  <2> DEFINE x == store[Head(queue).id].ctx
  <2>1. /\ Moves(w, ctx[w], "idle")
        /\ \/ queue' = Tail(queue)
           \/ queue' = Append(Tail(queue), [type |-> "context", ctx |-> x])
    BY <1>1, <1>7, OnlyGo DEF ProcessCallback
  <2>2. StoreCaches' /\ SameClones
    <3>1. \A id \in DOMAIN store' : id \in DOMAIN store /\ store'[id].ctx = store[id].ctx
      BY <1>1, <1>7, Popped
    <3> QED
      BY <1>2, <3>1, ClonesStay
  <2>3. Cached(x)
    BY <1>7 DEF CacheInv, StoreCaches, Proper
  <2> HIDE DEF x
  <2>4. QueueCaches'
    <3>1. CASE queue' = Tail(queue)
      BY <1>4, <1>7, <3>1
    <3>2. CASE queue' = Append(Tail(queue), [type |-> "context", ctx |-> x])
      <4>1. IsSequence(Tail(queue))
        BY <1>1, <1>7, QueueTail
      <4> DEFINE t == [type |-> "context", ctx |-> x]
      <4>2. Cached(t.ctx)
        BY <2>3
      <4> HIDE DEF t
      <4>3. \A i \in DOMAIN Append(Tail(queue), t) :
              Append(Tail(queue), t)[i].type = "context" => Cached(Append(Tail(queue), t)[i].ctx)
        BY <1>1, <1>7, <4>1, <4>2, QueueTailCaches, AppendCaches
      <4> QED
        BY <3>2, <4>3 DEF QueueCaches, t
    <3> QED
      BY <2>1, <3>1, <3>2
  <2> QED
    BY <1>1, <1>2, <2>1, <2>2, <2>4, RunBegins
<1>8. CASE /\ queue # <<>> /\ Go(w, "idle") /\ UNCHANGED ctx
           /\ queue' = Tail(queue) /\ UNCHANGED store
  <2>1. Moves(w, ctx[w], "idle")
    BY <1>1, <1>8, OnlyGo
  <2> QED
    BY <1>1, <1>2, <1>3, <1>4, <1>8, <2>1, RunBegins
<1>9. CASE queue = <<>> /\ StartContext(w, <<>>) /\ UNCHANGED <<queue, store>>
  BY <1>5, <1>9, NothingIsGiven, QueueStays
<1>10. CASE queue # <<>> /\ StartContext(w, <<>>) /\ queue' = Tail(queue) /\ UNCHANGED store
  BY <1>4, <1>5, <1>10, NothingIsGiven
<1>11. CASE /\ queue # <<>> /\ Head(queue).type = "callback"
            /\ Head(queue).id \notin DOMAIN store
            /\ IF setup.waiting
                  THEN StartContext(w, EventKeys(Head(queue).id))
                  ELSE Go(w, "idle") /\ UNCHANGED ctx
            /\ queue' = Tail(queue)
            /\ UNCHANGED store
  BY <1>1, <1>4, <1>5, <1>8, <1>11, DataOfEvents
<1> QED
  BY <1>6, <1>7, <1>9, <1>10, <1>11 DEF ProcessScenario

\* a step of the threads around
LEMMA OutsideStepCaches ==
    ASSUME CacheInv, UNCHANGED <<setup, pc, ctx, memory, calls>>,
           StoreCaches', SameClones, QueueCaches'
    PROVE  CacheInv'
<1>1. calls \subseteq calls'
  OBVIOUS
<1>2. \A v \in Threads : SamePast(calls', setup, ctx[v], pc[v], store')
  BY <1>1, PastsStay
<1>3. Pasts'
  BY <1>2 DEF Pasts
<1>4. ContextCaches' /\ MemoryCaches' /\ Sent'
  BY DEF CacheInv, ContextCaches, MemoryCaches, Sent
<1> QED
  BY <1>3, <1>4 DEF CacheInv

LEMMA NotifyCaches ==
    ASSUME Inv, CacheInv, NEW id \in DOMAIN store, Notify(id)
    PROVE  CacheInv'
<1>1. TypeInv /\ UNCHANGED <<setup, pc, ctx, memory, calls>> /\ calls \subseteq calls'
  BY DEF Inv, Notify, threadVars, histVars
<1>2. CASE /\ store' = [store EXCEPT ![id] =
                           Flagged(@, Answered(setup.data, store[id].ctx, "notification"))]
           /\ UNCHANGED queue
  <2> DEFINE x == store[id].ctx
             new == Answered(setup.data, x, "notification")
             k == UpdateKeys(x.cache, new)
             y == store'[id].ctx
  <2>1. Recached(id, k)
    BY <1>1, <1>2, FlaggedClone
  <2>2. IsCache(x.cache)
    BY <1>1 DEF TypeInv, StoreInv, IsClone, Located, IsContext
  <2>3. k.runtime = Updated(x.cache.runtime, new) /\ k.with = x.cache.with
        /\ k.dynamic = x.cache.dynamic
    BY <2>2, CacheParts
  <2>4. y.past = x.past /\ RunOf(y) = RunOf(x) /\ y.cache = k
    BY <2>1 DEF Recached
  <2>5. Entries(new) /\ Own(new, RunOf(x))
    BY <1>1, DataOfEvents, TextsAreGiven, AnsweredDoes
  <2>6. Proper(calls, x)
    BY DEF CacheInv, StoreCaches
  <2> HIDE DEF k, y, x, new
  <2>7. Cached(y)
    <3>1. Entries(y.cache.runtime)
      BY <2>3, <2>4, <2>5, <2>6, UpdatedAreEntries DEF Proper, Cached
    <3> QED
      BY <2>3, <2>4, <2>6, <3>1 DEF Proper, Cached
  <2>8. Unmixed(calls', y) => Mine(y)
    <3>1. Unmixed(calls', y) => Unmixed(calls, x)
      BY <1>1, <2>4 DEF Unmixed
    <3>2. Mine(x) => Own(y.cache.with, RunOf(x)) /\ Own(y.cache.runtime, RunOf(x))
      BY <2>3, <2>4, <2>5, UpdatedIsOwn DEF Mine
    <3> QED
      BY <2>4, <2>6, <3>1, <3>2 DEF Proper, Mine
  <2>9. Proper(calls', y)
    BY <2>7, <2>8 DEF Proper
  <2>10. StoreCaches' /\ SameClones
    BY <1>1, <2>1, <2>9, RecachedStore DEF y
  <2> QED
    BY <1>1, <1>2, <2>10, QueueStays, OutsideStepCaches
<1>3. CASE queue' = Append(queue, [type |-> "callback", id |-> id]) /\ UNCHANGED store
  <2> DEFINE t == [type |-> "callback", id |-> id]
  <2>1. t.type # "context"
    OBVIOUS
  <2> HIDE DEF t
  <2>2. \A i \in DOMAIN Append(queue, t) :
          Append(queue, t)[i].type = "context" => Cached(Append(queue, t)[i].ctx)
    BY <1>1, <2>1, AppendCaches DEF TypeInv, QueueInv, CacheInv, QueueCaches
  <2>3. QueueCaches'
    BY <1>3, <2>2 DEF QueueCaches, t
  <2> QED
    BY <1>1, <1>3, <2>3, ClonesStay, OutsideStepCaches
<1> QED
  BY <1>2, <1>3 DEF Notify

LEMMA TimeOutCaches ==
    ASSUME Inv, CacheInv, NEW id \in DOMAIN store, TimeOut(id)
    PROVE  CacheInv'
<1> DEFINE x == store[id].ctx
           d(b) == [x EXCEPT !.continue = b]
           t(b) == [type |-> "context", ctx |-> d(b)]
<1>1. TypeInv /\ UNCHANGED <<setup, pc, ctx, memory, calls>> /\ calls \subseteq calls' /\ Pop(id)
  BY DEF Inv, TimeOut, threadVars
<1>2. \/ \E b \in BOOLEAN : queue' = Append(queue, t(b))
      \/ UNCHANGED queue
  BY DEF TimeOut
<1>3. StoreCaches' /\ SameClones
  <2>1. \A y \in DOMAIN store' : y \in DOMAIN store /\ store'[y].ctx = store[y].ctx
    BY <1>1, Popped
  <2> QED
    BY <1>1, <2>1, ClonesStay
<1>4. IsContext(x) /\ Cached(x)
  BY <1>1 DEF TypeInv, StoreInv, IsClone, Located, CacheInv, StoreCaches, Proper
<1>5. ASSUME NEW b \in BOOLEAN, queue' = Append(queue, t(b))
      PROVE  QueueCaches'
  <2>1. d(b).past = x.past /\ d(b).cache = x.cache
    BY <1>4, ContinueChanges
  <2>2. t(b).ctx = d(b)
    OBVIOUS
  <2> HIDE DEF d, t
  <2>3. Cached(t(b).ctx)
    BY <1>4, <2>1, <2>2 DEF Cached
  <2>4. \A i \in DOMAIN Append(queue, t(b)) :
          Append(queue, t(b))[i].type = "context" => Cached(Append(queue, t(b))[i].ctx)
    BY <1>1, <2>3, AppendCaches DEF TypeInv, QueueInv, CacheInv, QueueCaches
  <2> QED
    BY <1>5, <2>4 DEF QueueCaches
<1>6. QueueCaches'
  BY <1>2, <1>5, QueueStays
<1> QED
  BY <1>1, <1>3, <1>6, OutsideStepCaches

LEMMA EventCaches ==
    ASSUME Inv, CacheInv, Event
    PROVE  CacheInv'
<1>1. TypeInv /\ UNCHANGED <<setup, pc, ctx, memory, store, calls>>
  BY DEF Inv, Event, threadVars, histVars
<1>2. PICK t : t.type # "context" /\ queue' = Append(queue, t)
  BY <1>1, EventDoes
<1>3. \A i \in DOMAIN Append(queue, t) :
        Append(queue, t)[i].type = "context" => Cached(Append(queue, t)[i].ctx)
  BY <1>1, <1>2, AppendCaches DEF TypeInv, QueueInv, CacheInv, QueueCaches
<1>4. QueueCaches'
  BY <1>2, <1>3 DEF QueueCaches
<1> QED
  BY <1>1, <1>4, ClonesStay, OutsideStepCaches

LEMMA CacheInit == Init => CacheInv
<1> SUFFICES ASSUME Init PROVE CacheInv
  OBVIOUS
<1>1. EmptyCache.runtime = <<>> /\ EmptyCache.with = <<>> /\ EmptyCache.dynamic = <<>>
  BY DEF EmptyCache
<1>2. NoContext.cache = EmptyCache
  BY DEF NoContext
<1>3. Given(<<>>) /\ Entries(<<>>) /\ Clean(<<>>) /\ \A r : Own(<<>>, r)
  BY NothingIsGiven, GivenIsOwn
<1>4. Proper(calls, NoContext)
  BY <1>1, <1>2, <1>3 DEF Proper, Cached, Mine
<1>5. \A w \in Threads : ctx[w] = NoContext /\ pc[w] = "idle" /\ memory[w] = <<>>
  BY DEF Init
<1>6. ContextCaches
  BY <1>4, <1>5 DEF ContextCaches
<1>7. StoreCaches /\ QueueCaches
  <2>1. DOMAIN store = {} /\ DOMAIN queue = {}
    BY NothingIsGiven DEF Init
  <2> QED
    BY <2>1 DEF StoreCaches, QueueCaches
<1>8. MemoryCaches
  <2>1. memory = [w \in Threads |-> memory[w]]
    BY DEF Init
  <2> QED
    BY <1>3, <1>5, <2>1 DEF MemoryCaches, MemoryOf
<1>9. Pasts /\ Sent
  BY <1>5 DEF Pasts, Sent, SamePast
<1> QED
  BY <1>6, <1>7, <1>8, <1>9 DEF CacheInv

LEMMA CacheNext == Inv /\ CacheInv /\ [Next]_vars => CacheInv'
<1> SUFFICES ASSUME Inv, CacheInv, [Next]_vars
             PROVE  CacheInv'
  OBVIOUS
<1>1. CallInv'
  BY InvNext DEF Inv
<1>2. ASSUME NEW w \in Threads,
             ProcessScenario(w) \/ NextScenario(w) \/ SendData(w) \/ EndOfSteps(w) \/ Answer(w)
             \/ AfterStep(w)
      PROVE  CacheInv'
  BY <1>1, <1>2, ProcessScenarioCaches, NextScenarioCaches, SendDataCaches, EndOfStepsCaches,
     AnswerCaches, AfterStepCaches
<1>3. ASSUME NEW id \in DOMAIN store, Notify(id) \/ TimeOut(id)
      PROVE  CacheInv'
  BY <1>3, NotifyCaches, TimeOutCaches
<1>4. CASE UNCHANGED vars
  BY <1>4, ClonesStay, QueueStays, OutsideStepCaches DEF vars, threadVars, histVars
<1> QED
  BY <1>2, <1>3, <1>4, EventCaches DEF Next

\* The caches of every context, clone and token have the keys of their own run, unless it has
\* gone on after a timeout or shares an identifier; what an event brings is nobody's, and the
\* clone of a call has the past of its thread: add_ctx() and update() and the reaper.
THEOREM CachesAreKept == Spec => []CacheInv
<1>1. Init => Inv /\ CacheInv
  BY InvInit, CacheInit
<1>2. (Inv /\ CacheInv) /\ [Next]_vars => (Inv /\ CacheInv)'
  BY InvNext, CacheNext
<1> QED
  BY <1>1, <1>2, PTL DEF Spec

LEMMA CachesAreRight == TypeInv /\ CacheInv => CacheIsOwn
<1> SUFFICES ASSUME TypeInv, CacheInv PROVE CacheIsOwn
  OBVIOUS
<1>1. ASSUME NEW w \in Threads, "resumed" \notin ctx[w].past, ~Shared(RunOf(ctx[w])),
             NEW k \in DOMAIN ctx[w].cache.with
      PROVE  ctx[w].cache.with[k].by \in {<<>>, RunOf(ctx[w])}
  <2>1. Unmixed(calls, ctx[w])
    BY <1>1, SharedCalls DEF Unmixed
  <2>2. Mine(ctx[w])
    BY <2>1 DEF CacheInv, ContextCaches, Proper
  <2> QED
    BY <1>1, <2>2 DEF Mine, Own
<1>2. OwnKeys
  BY <1>1 DEF OwnKeys
<1>3. NoSideEffect
  BY DEF CacheInv, Sent, SentKeys, NoSideEffect, Line, Scenario, StepIn
<1> QED
  BY <1>2, <1>3 DEF CacheIsOwn

\* What the run "execution" checks of the caches, for all lists of scenarios and threads: a
\* scenario sees the values of its own run only, and a step neither the fields nor the answer
\* of another.
THEOREM CachesAreOwn == Spec => []CacheIsOwn
  BY TypesAreKept, CachesAreKept, CachesAreRight, PTL

-----------------------------------------------------------------------------
(* What has been memorised: a cache has nothing of a memory that no        *)
(* successful step of its run has kept.                                    *)

Earned(ks, r, texts) ==
    \A k \in DOMAIN texts : texts[k].kind = "memory" => \E m \in ks : m.run = r /\ m.key = k

ThreadEarned(cs, ks, c, at) ==
    at \in {"line", "sent", "answered"} /\ Unmixed(cs, c) => Earned(ks, RunOf(c), c.cache.with)

\* the clone of the call, which its thread may take over
CloneEarned(cs, ks, s, c, at, st) ==
    at \in {"sent", "answered"} /\ StepIn(s, c).async /\ c.id \in DOMAIN st /\ Unmixed(cs, c)
    => Earned(ks, RunOf(c), st[c.id].ctx.cache.runtime)

EarnedInv ==
    \A w \in Threads : /\ ThreadEarned(calls, kept, ctx[w], pc[w])
                       /\ CloneEarned(calls, kept, setup, ctx[w], pc[w], store)

LEMMA EarnedGrows ==
    ASSUME NEW ks, NEW more, ks \subseteq more, NEW r, NEW texts, Earned(ks, r, texts)
    PROVE  Earned(more, r, texts)
  BY DEF Earned

LEMMA UpdatedIsEarned ==
    ASSUME NEW ks, NEW r, NEW dict, Earned(ks, r, dict), NEW keys, Earned(ks, r, keys)
    PROVE  Earned(ks, r, Updated(dict, keys))
  BY DEF Updated, Earned

LEMMA FewerUnmixed ==
    ASSUME calls \subseteq calls', NEW c, Unmixed(calls', c)
    PROVE  Unmixed(calls, c)
  BY DEF Unmixed, SharedIn

\* a thread that does not move, whose clone stays as it is
LEMMA EarnedStays ==
    ASSUME EarnedInv, calls \subseteq calls', kept \subseteq kept', NEW v \in Threads,
           Unmixed(calls', ctx[v]) /\ InStep(v) /\ StepIn(setup, ctx[v]).async
           /\ ctx[v].id \in DOMAIN store' =>
               ctx[v].id \in DOMAIN store /\ store'[ctx[v].id].ctx = store[ctx[v].id].ctx
    PROVE  /\ ThreadEarned(calls', kept', ctx[v], pc[v])
           /\ CloneEarned(calls', kept', setup, ctx[v], pc[v], store')
<1>1. /\ ThreadEarned(calls, kept, ctx[v], pc[v])
      /\ CloneEarned(calls, kept, setup, ctx[v], pc[v], store)
  BY DEF EarnedInv
<1>2. Unmixed(calls', ctx[v]) => Unmixed(calls, ctx[v])
  BY FewerUnmixed
<1>3. ThreadEarned(calls', kept', ctx[v], pc[v])
  BY <1>1, <1>2, EarnedGrows DEF ThreadEarned
<1>4. CloneEarned(calls', kept', setup, ctx[v], pc[v], store')
  BY <1>1, <1>2, EarnedGrows DEF CloneEarned, InStep
<1> QED
  BY <1>3, <1>4

\* a step of the thread w
LEMMA ThreadStepEarned ==
    ASSUME EarnedInv, UNCHANGED setup, calls \subseteq calls', kept \subseteq kept',
           NEW w \in Threads, NEW c, NEW at, Moves(w, c, at),
           ThreadEarned(calls', kept', c, at), CloneEarned(calls', kept', setup, c, at, store'),
           \A v \in Threads : v # w =>
               (Unmixed(calls', ctx[v]) /\ InStep(v) /\ StepIn(setup, ctx[v]).async
                /\ ctx[v].id \in DOMAIN store' =>
                    ctx[v].id \in DOMAIN store /\ store'[ctx[v].id].ctx = store[ctx[v].id].ctx)
    PROVE  EarnedInv'
<1>1. ctx'[w] = c /\ pc'[w] = at
      /\ \A v \in Threads : v # w => ctx'[v] = ctx[v] /\ pc'[v] = pc[v]
  BY Moved
<1>2. ASSUME NEW v \in Threads
      PROVE  /\ ThreadEarned(calls', kept', ctx'[v], pc'[v])
             /\ CloneEarned(calls', kept', setup, ctx'[v], pc'[v], store')
  <2>1. CASE v = w
    BY <1>1, <2>1
  <2>2. CASE v # w
    <3>1. /\ ThreadEarned(calls', kept', ctx[v], pc[v])
          /\ CloneEarned(calls', kept', setup, ctx[v], pc[v], store')
      BY <2>2, EarnedStays
    <3> QED
      BY <1>1, <2>2, <3>1
  <2> QED
    BY <2>1, <2>2
<1> QED
  BY <1>2 DEF EarnedInv

\* a thread that leaves its run, or begins another; clones may go
LEMMA ThreadLeaves ==
    ASSUME EarnedInv, UNCHANGED <<setup, calls, kept>>, NEW w \in Threads, NEW c, NEW at,
           Moves(w, c, at), at \notin {"sent", "answered"},
           ThreadEarned(calls, kept, c, at),
           \A id \in DOMAIN store' : id \in DOMAIN store /\ store'[id].ctx = store[id].ctx
    PROVE  EarnedInv'
<1>1. CloneEarned(calls', kept', setup, c, at, store')
  BY DEF CloneEarned
<1> QED
  BY <1>1, ThreadStepEarned

\* a step is sent with what its thread has earned
LEMMA SendDataEarned ==
    ASSUME Inv, CacheInv, EarnedInv, CallInv', NEW w \in Threads, SendData(w)
    PROVE  EarnedInv'
<1>1. TypeInv
  BY DEF Inv
<1>2. PICK x : x = ctx'[w]
  OBVIOUS
<1>3. SendData0(w, x) /\ x.past = ctx[w].past /\ x.cache = SentWith(w, x).cache
  BY <1>1, <1>2, SendDataData
<1>4. /\ UNCHANGED <<setup, kept>> /\ calls \subseteq calls' /\ kept \subseteq kept'
      /\ pc[w] = "line" /\ NextStep(ctx[w], x)
  BY <1>3 DEF SendData0
<1>5. RunOf(x) = RunOf(ctx[w]) /\ x.cache.with = ctx[w].cache.with
  BY <1>4 DEF NextStep, RunOf
<1>6. Unmixed(calls', x) => Earned(kept', RunOf(x), x.cache.with)
  <2>1. Unmixed(calls', x) => Unmixed(calls, ctx[w])
    BY <1>3, <1>4, <1>5, FewerUnmixed DEF Unmixed
  <2>2. ThreadEarned(calls, kept, ctx[w], pc[w])
    BY DEF EarnedInv
  <2> QED
    BY <1>4, <1>5, <2>1, <2>2 DEF ThreadEarned
<1>7. \A at : ThreadEarned(calls', kept', x, at)
  BY <1>6 DEF ThreadEarned
<1>8. ASSUME NEW at, Moves(w, x, at), UNCHANGED store, at # "sent" \/ ~StepIn(setup, x).async,
             at # "answered"
      PROVE  EarnedInv'
  <2>1. CloneEarned(calls', kept', setup, x, at, store')
    BY <1>8 DEF CloneEarned
  <2> QED
    BY <1>4, <1>7, <1>8, <2>1, ThreadStepEarned
<1>9. ASSUME Moves(w, x, "sent"), StepIn(setup, x).async, store' = Stored(x.id, Clone(x))
      PROVE  EarnedInv'
  <2>1. /\ \A id \in DOMAIN store' : id = x.id \/ (id \in DOMAIN store /\ store'[id] = store[id])
        /\ x.id \in DOMAIN store' /\ store'[x.id].ctx = x
    BY <1>9 DEF Stored, Clone
  <2>2. \A k \in DOMAIN x.cache.runtime :
          x.cache.runtime[k].kind = "memory" =>
            k \in DOMAIN x.cache.with /\ x.cache.with[k].kind = "memory"
    <3>1. Located(setup, ctx[w]) /\ IsCache(ctx[w].cache) /\ Entries(ctx[w].cache.with)
      BY <1>1, <1>4, RunningIsLocated
         DEF Running, Located, IsContext, CacheInv, ContextCaches, Proper, Cached
    <3>2. ctx[w].line \in Nat
      BY <1>1, <3>1, LineIsNat DEF TypeInv
    <3>3. Located(setup, x) /\ x.line # 0
      BY <1>4, <3>2 DEF NextStep
    <3>4. AreTexts(StepIn(setup, x).fields)
      BY <1>1, <3>3, StepOfScenario DEF IsStep
    <3> DEFINE macros == setup.scenarios[x.scn].macros
    <3>5. x.cache = ProcessNew(StepIn(setup, x), macros, ctx[w].cache).cache
      BY <1>3 DEF SentWith
    <3> HIDE DEF macros
    <3> QED
      BY <1>5, <3>1, <3>4, <3>5, ProcessNewDoes
  <2>3. Unmixed(calls', x) => Earned(kept', RunOf(x), x.cache.runtime)
    BY <1>6, <2>2 DEF Earned
  <2>4. CloneEarned(calls', kept', setup, x, "sent", store')
    BY <2>1, <2>3 DEF CloneEarned
  <2>5. ASSUME NEW v \in Threads, v # w, Unmixed(calls', ctx[v]), InStep(v),
               StepIn(setup, ctx[v]).async, ctx[v].id \in DOMAIN store'
        PROVE  ctx[v].id \in DOMAIN store /\ store'[ctx[v].id].ctx = store[ctx[v].id].ctx
    <3>1. ctx[v].id # x.id
      BY <1>3, <1>4, <1>9, <2>5, NewIdentifier DEF Unmixed
    <3> QED
      BY <2>1, <2>5, <3>1
  <2> QED
    BY <1>4, <1>7, <1>9, <2>4, <2>5, ThreadStepEarned
<1>10. CASE Moves(w, x, "idle") /\ UNCHANGED store
  BY <1>8, <1>10
<1>11. CASE StepFails0(w, x) /\ UNCHANGED store
  BY <1>8, <1>11 DEF StepFails0
<1>12. CASE ~StepIn(setup, x).async /\ Moves(w, x, "sent") /\ UNCHANGED store
  BY <1>8, <1>12
<1> QED
  BY <1>3, <1>9, <1>10, <1>11, <1>12 DEF SendData0

\* a memorisation that stops leaves the permanent keys alone
LEMMA ProcessResponseEarns ==
    ASSUME NEW w, IsCache(ctx[w].cache), NEW resp
    PROVE  LET r == ProcessResponse(w, resp)
               old == ctx[w].cache
           IN  /\ r.outcome = "failed" /\ ~Line(ctx[w]).async => r.cache.with = old.with
               /\ Line(ctx[w]).memory = <<>> => r.cache.with = old.with
               /\ r.outcome = "ok" =>
                    \/ r.cache.with = old.with
                    \/ r.cache.with = Updated(old.with, Values(r.memory, "memory"))
<1> DEFINE c     == ctx[w]
           line  == Line(c)
           asked == UpdateKeys(c.cache, resp)
           text  == IF "responseText" \in DOMAIN resp THEN resp["responseText"] ELSE Literal("none")
           memo  == MemorizeVariable(line.memory, memory[w], text, asked.runtime)
           known == IF line.memory = <<>> THEN c.cache ELSE Memorized(asked, memo)
           lost  == line.memory # <<>> /\ line.async /\ c.id \notin DOMAIN store
           cache == UpdateKeys(known, resp)
           verdict == CheckResponse(line.rules, cache.runtime, FALSE)
           r     == ProcessResponse(w, resp)
           new   == Values(memo.memory, "memory")
<1>1. r = IF memo.outcome # "ok" \/ lost
            THEN [outcome |-> IF memo.outcome = "ok" THEN "failed" ELSE memo.outcome,
                  checked |-> FALSE, memory |-> memo.memory, cache |-> known]
            ELSE [outcome |-> IF Accepts(verdict) THEN "ok" ELSE "fatal",
                  checked |-> TRUE, memory |-> memo.memory, cache |-> cache]
  BY DEF ProcessResponse
<1>2. IsCache(asked) /\ asked.with = c.cache.with
  BY CacheShapes, CacheParts
<1> HIDE DEF asked, memo, text
<1>3. /\ IsCache(known)
      /\ line.memory = <<>> \/ memo.outcome # "ok" => known.with = c.cache.with
      /\ known.with = c.cache.with \/ known.with = Updated(c.cache.with, new)
  <2>1. CASE line.memory = <<>>
    BY <2>1
  <2>2. CASE line.memory # <<>> /\ memo.outcome # "ok"
    <3>1. known = asked
      BY <2>2 DEF Memorized
    <3> QED
      BY <1>2, <2>2, <3>1
  <2>3. CASE line.memory # <<>> /\ memo.outcome = "ok"
    <3>1. known = UpdateKeysPermanently(asked, new)
      BY <2>3 DEF Memorized
    <3> HIDE DEF known, new
    <3>2. IsCache(known) /\ known.with = Updated(c.cache.with, new)
      BY <1>2, <3>1, CacheShapes, CacheParts
    <3> QED
      BY <2>3, <3>2
  <2> QED
    BY <2>1, <2>2, <2>3
<1> HIDE DEF known
<1>4. cache.with = known.with
  BY <1>3, CacheParts
<1> HIDE DEF cache, verdict
<1>5. CASE memo.outcome # "ok" \/ lost
  <2> DEFINE o == IF memo.outcome = "ok" THEN "failed" ELSE memo.outcome
  <2>1. o # "ok" /\ (lost => line.async)
    OBVIOUS
  <2>2. r = [outcome |-> o, checked |-> FALSE, memory |-> memo.memory, cache |-> known]
    BY <1>1, <1>5
  <2> HIDE DEF o, lost, line, c, new
  <2>3. r.outcome = o /\ r.cache = known
    BY <2>2
  <2> HIDE DEF r
  <2> QED
    BY <1>3, <1>5, <2>1, <2>3 DEF r, line, c
<1>6. CASE ~(memo.outcome # "ok" \/ lost)
  <2> DEFINE o == IF Accepts(verdict) THEN "ok" ELSE "fatal"
  <2>1. o # "failed"
    OBVIOUS
  <2>2. r = [outcome |-> o, checked |-> TRUE, memory |-> memo.memory, cache |-> cache]
    BY <1>1, <1>6
  <2> HIDE DEF o, lost, line, c
  <2>3. r.outcome = o /\ r.memory = memo.memory /\ r.cache = cache
    BY <2>2
  <2>4. Values(r.memory, "memory") = new
    BY <2>3
  <2> HIDE DEF r, new
  <2> QED
    BY <1>3, <1>4, <2>1, <2>3, <2>4 DEF r, line, c
<1> QED
  BY <1>5, <1>6

\* what an answer leaves of the memory: the clone may get it, and where the thread goes on
\* with more than before, all of it has been kept
AnswerMemory(w, d) ==
    \E memo :
        /\ \/ UNCHANGED store
           \/ Pop(ctx[w].id)
           \/ /\ StepIn(setup, ctx[w]).async /\ ctx[w].id \in DOMAIN store
              /\ store' = UpdateClone(ctx[w].id, Values(memo, "memory"))
        /\ kept \subseteq kept'
        /\ pc'[w] \in {"line", "answered"} =>
             \/ d.cache.with = ctx[w].cache.with /\ (UNCHANGED store \/ Pop(ctx[w].id))
             \/ /\ \/ d.cache.with = ctx[w].cache.with
                   \/ d.cache.with = Updated(ctx[w].cache.with, Values(memo, "memory"))
                /\ \A k \in DOMAIN memo : \E m \in kept' : m.run = RunOf(ctx[w]) /\ m.key = k

LEMMA NothingLeft ==
    ASSUME NEW w, NEW d, UNCHANGED store, kept \subseteq kept', pc'[w] \notin {"line", "answered"}
    PROVE  AnswerMemory(w, d)
  BY DEF AnswerMemory

LEMMA AnswerEarns ==
    ASSUME TypeInv, NEW w \in Threads, Answer(w)
    PROVE  AnswerMemory(w, ctx'[w])
<1> DEFINE c == ctx[w]
<1>1. pc[w] = "sent" /\ Running(w)
  BY DEF Answer, Running
<1>2. Located(setup, c) /\ IsContext(c) /\ IsCache(c.cache) /\ c.line # 0
  BY <1>1, RunningIsLocated DEF Located, IsContext, TypeInv, ContextInv, AtPoint
<1>3. Line(c) = StepIn(setup, c)
  BY <1>2, StepOfScenario
<1>4. \A d : SetContext(w, d) \/ StepFails(w, d) => ctx'[w] = d
  BY DEF SetContext, StepFails, TypeInv
<1>5. \A at : Go(w, at) => pc'[w] = at
  BY DEF Go, TypeInv
<1>6. ASSUME ctx'[w] = c, UNCHANGED store \/ Pop(c.id), kept' = kept
      PROVE  AnswerMemory(w, ctx'[w])
  BY <1>6 DEF AnswerMemory
<1>7. \A at : Stop(w, at) => ctx'[w] = c /\ UNCHANGED <<store, kept>>
  BY DEF Stop
<1>8. \A back : Refuse(w, back) => ctx'[w] = c /\ (UNCHANGED store \/ Pop(c.id)) /\ kept' = kept
  BY <1>4 DEF Refuse
<1>9. ASSUME NEW resp, Judge(w, resp)
      PROVE  AnswerMemory(w, ctx'[w])
  <2> DEFINE r == ProcessResponse(w, resp)
             d == [c EXCEPT !.cache = r.cache]
             memo == r.memory
  <2>1. /\ IsCache(r.cache)
        /\ r.checked /\ Line(c).memory # <<>> /\ Line(c).async => c.id \in DOMAIN store
        /\ r.outcome = "failed" => ~r.checked
    BY <1>2, ProcessResponseDoes
  <2>2. /\ r.outcome = "failed" /\ ~Line(c).async => r.cache.with = c.cache.with
        /\ Line(c).memory = <<>> => r.cache.with = c.cache.with
        /\ r.outcome = "ok" => \/ r.cache.with = c.cache.with
                               \/ r.cache.with = Updated(c.cache.with, Values(memo, "memory"))
    BY <1>2, ProcessResponseEarns
  <2>3. /\ store' = IF Line(c).memory # <<>> /\ Line(c).async /\ r.checked
                       THEN UpdateClone(c.id, Values(memo, "memory")) ELSE store
        /\ \/ /\ r.outcome = "ok"
              /\ SetContext(w, d)
              /\ kept' = IF Line(c).memory = <<>> THEN kept
                         ELSE kept \union {[run |-> RunOf(c), line |-> c.line, key |-> k] :
                                             k \in DOMAIN memo}
           \/ /\ r.outcome = "failed"
              /\ StepFails(w, d)
              /\ UNCHANGED kept
           \/ /\ SetContext(w, d) /\ Go(w, "idle")
              /\ UNCHANGED kept
    BY <1>9 DEF Judge
  <2> HIDE DEF r, memo
  <2>4. d.cache = r.cache /\ Line(d) = Line(c)
    <3>1. d.cache = r.cache /\ d.scn = c.scn /\ d.line = c.line
      BY <1>2, <2>1, CacheChanges
    <3> QED
      BY <3>1 DEF Line, Scenario
  <2> HIDE DEF d
  <2>5. ctx'[w] = d
    BY <1>4, <2>3
  <2>6. \/ UNCHANGED store
        \/ /\ StepIn(setup, c).async /\ c.id \in DOMAIN store
           /\ store' = UpdateClone(c.id, Values(memo, "memory"))
    BY <1>3, <2>1, <2>3
  <2>7. kept \subseteq kept'
    BY <2>3
  <2>8. CASE /\ r.outcome = "ok"
             /\ kept' = IF Line(c).memory = <<>> THEN kept
                        ELSE kept \union {[run |-> RunOf(c), line |-> c.line, key |-> k] :
                                            k \in DOMAIN memo}
    <3>1. CASE Line(c).memory = <<>>
      <4>1. d.cache.with = c.cache.with /\ UNCHANGED store
        BY <2>2, <2>3, <2>4, <3>1
      <4> QED
        BY <2>5, <2>7, <4>1 DEF AnswerMemory
    <3>2. CASE Line(c).memory # <<>>
      <4>1. ASSUME NEW k \in DOMAIN memo
            PROVE  \E m \in kept' : m.run = RunOf(c) /\ m.key = k
        <5> DEFINE m == [run |-> RunOf(c), line |-> c.line, key |-> k]
        <5>1. m \in kept' /\ m.run = RunOf(c) /\ m.key = k
          BY <2>8, <3>2
        <5> QED
          BY <5>1
      <4>2. \/ d.cache.with = c.cache.with
            \/ d.cache.with = Updated(c.cache.with, Values(memo, "memory"))
        BY <2>2, <2>4, <2>8
      <4> QED
        BY <2>5, <2>6, <2>7, <4>1, <4>2 DEF AnswerMemory
    <3> QED
      BY <3>1, <3>2
  <2>9. CASE r.outcome = "failed" /\ StepFails(w, d)
    <3>1. UNCHANGED store
      BY <2>1, <2>3, <2>9
    <3>2. CASE Line(c).async
      <4>1. pc'[w] = "scenario"
        BY <1>5, <2>4, <2>9, <3>2 DEF StepFails
      <4>2. pc'[w] \notin {"line", "answered"}
        BY <4>1
      <4> QED
        BY <2>5, <2>7, <3>1, <4>2, NothingLeft
    <3>3. CASE ~Line(c).async
      <4>1. d.cache.with = c.cache.with
        BY <2>2, <2>4, <2>9, <3>3
      <4> QED
        BY <2>5, <2>7, <3>1, <4>1 DEF AnswerMemory
    <3> QED
      BY <3>2, <3>3
  <2>10. CASE Go(w, "idle")
    <3>1. pc'[w] = "idle"
      BY <1>5, <2>10
    <3> QED
      BY <2>5, <2>6, <2>7, <3>1 DEF AnswerMemory
  <2> QED
    BY <2>3, <2>8, <2>9, <2>10
<1>10. \/ \E at \in {"scenario", "idle"} : Stop(w, at)
       \/ \E back : Refuse(w, back)
       \/ \E resp : Judge(w, resp)
  BY DEF Answer
<1> QED
  BY <1>6, <1>7, <1>8, <1>9, <1>10

\* the values that a memory gives are of its keys
LEMMA MemoryIsEarned ==
    ASSUME NEW ks, NEW r, NEW memo, \A k \in DOMAIN memo : \E m \in ks : m.run = r /\ m.key = k
    PROVE  Earned(ks, r, Values(memo, "memory"))
  BY DEF Earned, Values

LEMMA AnswerEarned ==
    ASSUME Inv, CacheInv, EarnedInv, NEW w \in Threads, Answer(w)
    PROVE  EarnedInv'
<1> DEFINE c == ctx[w]
           r == RunOf(c)
<1>1. TypeInv /\ CallInv /\ RunsInv
  BY DEF Inv
<1>2. PICK d : d = ctx'[w]
  OBVIOUS
<1>3. Answer0(w, d) /\ d.past = c.past
  <2>1. ASSUME NEW resp, JudgedData(w, resp, d) PROVE d.past = c.past
    BY <2>1 DEF JudgedData
  <2> QED
    BY <1>1, <1>2, <2>1, AnswerData
<1>4. /\ UNCHANGED <<setup, calls>> /\ calls \subseteq calls' /\ pc[w] = "sent" /\ InStep(w)
      /\ GrownStep(c, d)
  BY <1>3 DEF Answer0, InStep
<1>5. RunOf(d) = r /\ d.id = c.id /\ StepIn(setup, d) = StepIn(setup, c)
  BY <1>1, <1>4, GrownFacts
<1>6. PICK at \in {"scenario", "idle", "line", "answered"} : Moves(w, d, at)
  BY <1>3 DEF Answer0, StepFails0
<1>7. pc'[w] = at
  BY <1>6, Moved
<1>8. PICK memo :
        /\ \/ UNCHANGED store
           \/ Pop(c.id)
           \/ /\ StepIn(setup, c).async /\ c.id \in DOMAIN store
              /\ store' = UpdateClone(c.id, Values(memo, "memory"))
        /\ kept \subseteq kept'
        /\ at \in {"line", "answered"} =>
             \/ d.cache.with = c.cache.with /\ (UNCHANGED store \/ Pop(c.id))
             \/ /\ \/ d.cache.with = c.cache.with
                   \/ d.cache.with = Updated(c.cache.with, Values(memo, "memory"))
                /\ \A k \in DOMAIN memo : \E m \in kept' : m.run = r /\ m.key = k
  BY <1>1, <1>2, <1>7, AnswerEarns DEF AnswerMemory
<1> DEFINE new == Values(memo, "memory")
<1>9. Unmixed(calls', d) => Unmixed(calls, c)
  BY <1>3, <1>4, <1>5 DEF Unmixed
<1>10. Unmixed(calls, c) =>
         /\ Earned(kept', r, c.cache.with)
         /\ StepIn(setup, c).async /\ c.id \in DOMAIN store =>
              Earned(kept', r, store[c.id].ctx.cache.runtime)
  <2>1. /\ ThreadEarned(calls, kept, c, pc[w])
        /\ CloneEarned(calls, kept, setup, c, pc[w], store)
    BY DEF EarnedInv
  <2> QED
    BY <1>4, <1>8, <2>1, EarnedGrows DEF ThreadEarned, CloneEarned
<1>11. (\A k \in DOMAIN memo : \E m \in kept' : m.run = r /\ m.key = k) => Earned(kept', r, new)
  BY MemoryIsEarned
<1> HIDE DEF new
<1>12. ThreadEarned(calls', kept', d, at)
  <2>1. SUFFICES ASSUME at \in {"line", "answered"}, Unmixed(calls, c)
                 PROVE  Earned(kept', r, d.cache.with)
    BY <1>5, <1>9 DEF ThreadEarned
  <2>2. CASE d.cache.with = c.cache.with
    BY <1>10, <2>1, <2>2
  <2>3. CASE d.cache.with = Updated(c.cache.with, new) /\ Earned(kept', r, new)
    BY <1>10, <2>1, <2>3, UpdatedIsEarned
  <2> QED
    BY <1>8, <1>11, <2>1, <2>2, <2>3 DEF new
<1>13. \A id \in DOMAIN store' :
         \/ id \in DOMAIN store /\ store'[id].ctx = store[id].ctx
         \/ /\ id = c.id /\ c.id \in DOMAIN store /\ StepIn(setup, c).async
            /\ store'[id].ctx.cache = UpdateKeysPermanently(store[c.id].ctx.cache, new)
  <2>1. CASE UNCHANGED store
    BY <2>1
  <2>2. CASE Pop(c.id)
    BY <1>1, <1>4, <2>2, Popped
  <2>3. CASE StepIn(setup, c).async /\ c.id \in DOMAIN store /\ store' = UpdateClone(c.id, new)
    BY <1>1, <2>3, UpdatedClone DEF Recached
  <2> QED
    BY <1>8, <2>1, <2>2, <2>3 DEF new
<1>14. CloneEarned(calls', kept', setup, d, at, store')
  <2>1. SUFFICES ASSUME at = "answered", StepIn(setup, c).async, c.id \in DOMAIN store',
                        Unmixed(calls, c)
                 PROVE  Earned(kept', r, store'[c.id].ctx.cache.runtime)
    BY <1>5, <1>9 DEF CloneEarned
  <2>2. c.id \in DOMAIN store
    BY <1>13, <2>1
  <2>3. Earned(kept', r, store[c.id].ctx.cache.runtime)
    BY <1>10, <2>1, <2>2
  <2>4. CASE store'[c.id].ctx = store[c.id].ctx
    BY <2>3, <2>4
  <2>5. CASE /\ store'[c.id].ctx.cache = UpdateKeysPermanently(store[c.id].ctx.cache, new)
             /\ Earned(kept', r, new)
    <3>1. IsCache(store[c.id].ctx.cache)
      BY <1>1, <2>2 DEF TypeInv, StoreInv, IsClone, Located, IsContext
    <3>2. store'[c.id].ctx.cache.runtime = Updated(store[c.id].ctx.cache.runtime, new)
      BY <2>5, <3>1, CacheParts
    <3> QED
      BY <2>3, <2>5, <3>2, UpdatedIsEarned
  <2>6. UNCHANGED store \/ Pop(c.id) => store'[c.id].ctx = store[c.id].ctx
    BY <1>1, <1>4, <2>1, Popped
  <2> QED
    BY <1>8, <1>11, <1>13, <2>1, <2>4, <2>5, <2>6 DEF new
<1>15. ASSUME NEW v \in Threads, v # w, Unmixed(calls', ctx[v]), InStep(v),
              StepIn(setup, ctx[v]).async, ctx[v].id \in DOMAIN store'
       PROVE  ctx[v].id \in DOMAIN store /\ store'[ctx[v].id].ctx = store[ctx[v].id].ctx
  <2>1. SUFFICES ASSUME ctx[v].id = c.id, StepIn(setup, c).async PROVE ctx[v].id \notin DOMAIN store
    BY <1>13, <1>15
  <2> DEFINE q == RunOf(ctx[v])
  <2>2. ~Shared(q) /\ RunInv(q)
    BY <1>1, <1>4, <1>15, SharedCalls DEF Unmixed, RunsInv
  <2>3. At(v, q)
    BY <1>15 DEF At, Running, InStep
  <2> QED
    BY <1>1, <1>4, <1>15, <2>1, <2>2, <2>3, OwnStore
<1> QED
  BY <1>4, <1>6, <1>8, <1>12, <1>14, <1>15, ThreadStepEarned

\* what the notification has brought to the clone goes on with the thread
LEMMA AfterStepEarned ==
    ASSUME Inv, CacheInv, EarnedInv, NEW w \in Threads, AfterStep(w)
    PROVE  EarnedInv'
<1> DEFINE c == ctx[w]
           x == store[c.id].ctx
<1>1. TypeInv /\ pc[w] = "answered" /\ InStep(w) /\ Running(w)
      /\ UNCHANGED <<setup, calls, kept>>
  BY DEF Inv, AfterStep, InStep, Running, histVars
<1>2. Located(setup, c) /\ IsContext(c) /\ IsCache(c.cache) /\ Line(c) = StepIn(setup, c)
  BY <1>1, RunningIsLocated, StepOfScenario DEF Located, IsContext
<1>3. /\ ThreadEarned(calls, kept, c, pc[w])
      /\ CloneEarned(calls, kept, setup, c, pc[w], store)
  BY DEF EarnedInv
<1>4. \A at : ThreadEarned(calls, kept, c, at)
  BY <1>1, <1>3 DEF ThreadEarned
<1>5. CASE ~Line(c).async /\ Go(w, "line") /\ UNCHANGED <<ctx, store>>
  <2>1. Moves(w, c, "line")
    BY <1>1, <1>5, OnlyGo
  <2> QED
    BY <1>1, <1>4, <1>5, <2>1, ThreadLeaves
<1>6. CASE /\ store' = IF c.id \in DOMAIN store THEN [store EXCEPT ![c.id].locked = FALSE] ELSE store
           /\ Go(w, "scenario") /\ UNCHANGED ctx
  <2>1. Moves(w, c, "scenario")
    BY <1>1, <1>6, OnlyGo
  <2>2. \A id \in DOMAIN store' : id \in DOMAIN store /\ store'[id].ctx = store[id].ctx
    <3>1. CASE c.id \notin DOMAIN store
      BY <1>6, <3>1
    <3>2. CASE c.id \in DOMAIN store
      <4> DEFINE y == [store[c.id] EXCEPT !.locked = FALSE]
      <4>1. y.ctx = store[c.id].ctx
        BY <1>1, <3>2, CloneFields DEF TypeInv, StoreInv, IsClone
      <4>2. store' = [store EXCEPT ![c.id] = y]
        BY <1>6, <3>2
      <4> HIDE DEF y
      <4>3. store' = [id \in DOMAIN store |-> IF id = c.id THEN y ELSE store[id]]
        BY <1>1, <4>2 DEF TypeInv
      <4> QED
        BY <4>1, <4>3
    <3> QED
      BY <3>1, <3>2
  <2> QED
    BY <1>1, <1>4, <2>1, <2>2, ThreadLeaves
<1>7. CASE /\ Line(c).async /\ c.id \in DOMAIN store
           /\ SetContext(w, KeepThread(c, x.cache.runtime)) /\ Pop(c.id) /\ Go(w, "line")
  <2> DEFINE d == KeepThread(c, x.cache.runtime)
             keys == x.cache.runtime
  <2>1. /\ SameStep(c, d) /\ d.past = c.past \union {"kept"}
        /\ d.cache = UpdateAsyncDataPermanently(c.cache, keys)
    BY <1>2, KeepThreadChanges
  <2>2. Moves(w, d, "line")
    BY <1>1, <1>7, SetAndGo
  <2> HIDE DEF d
  <2>3. d.cache.with = Updated(c.cache.with, keys)
    BY <1>2, <2>1, CacheParts
  <2>4. RunOf(d) = RunOf(c)
    BY <2>1 DEF SameStep, RunOf
  <2>5. Unmixed(calls, d) => Unmixed(calls, c)
    BY <2>1, <2>4 DEF Unmixed
  <2>6. Unmixed(calls, c) => Earned(kept, RunOf(c), c.cache.with) /\ Earned(kept, RunOf(c), keys)
    BY <1>1, <1>2, <1>3, <1>7 DEF ThreadEarned, CloneEarned
  <2> HIDE DEF keys
  <2>7. ThreadEarned(calls, kept, d, "line")
    BY <2>3, <2>4, <2>5, <2>6, UpdatedIsEarned DEF ThreadEarned
  <2>8. \A id \in DOMAIN store' : id \in DOMAIN store /\ store'[id].ctx = store[id].ctx
    BY <1>1, <1>7, Popped
  <2> QED
    BY <1>1, <2>2, <2>7, <2>8, ThreadLeaves
<1> QED
  BY <1>5, <1>6, <1>7 DEF AfterStep

\* a scenario begins with no memory
LEMMA NextScenarioEarned ==
    ASSUME Inv, CacheInv, EarnedInv, NEW w \in Threads, NextScenario(w)
    PROVE  EarnedInv'
<1>1. TypeInv /\ UNCHANGED <<setup, store, calls, kept>>
  BY DEF Inv, NextScenario, histVars
<1>2. Given(ctx[w].cache.dynamic) /\ IsCache(ctx[w].cache)
  BY <1>1 DEF CacheInv, ContextCaches, Proper, Cached, TypeInv, ContextInv, AtPoint, IsContext
<1>3. CASE Moves(w, ctx[w], "idle")
  <2>1. ThreadEarned(calls, kept, ctx[w], "idle")
    BY DEF ThreadEarned
  <2> QED
    BY <1>1, <1>3, <2>1, ThreadLeaves
<1>4. ASSUME NEW d, NEW uid, Moves(w, d, "line"), Located(setup, d),
             d.cache \in ScenarioCaches(Scenario(d), uid, ctx[w].cache, Environment(w))
      PROVE  EarnedInv'
  <2>1. IsScenario(Scenario(d)) /\ Given(Environment(w))
    BY <1>1, <1>4, StepOfScenario, EnvironmentIsGiven
  <2>2. Given(d.cache.with)
    BY <1>2, <1>4, <2>1, ScenarioCachesAreGiven
  <2>3. ThreadEarned(calls, kept, d, "line")
    BY <2>2 DEF ThreadEarned, Earned, Given
  <2> QED
    BY <1>1, <1>4, <2>3, ThreadLeaves
<1> QED
  BY <1>1, <1>3, <1>4, NextScenarioData

\* a run that begins has no memory, or goes on after a timeout
LEMMA ProcessScenarioEarned ==
    ASSUME Inv, CacheInv, EarnedInv, NEW w \in Threads, ProcessScenario(w)
    PROVE  EarnedInv'
<1>1. TypeInv /\ pc[w] = "idle" /\ UNCHANGED <<setup, calls, kept>>
  BY DEF Inv, ProcessScenario, histVars
<1>2. \A d : ThreadEarned(calls, kept, d, "scenario") /\ ThreadEarned(calls, kept, d, "idle")
  BY DEF ThreadEarned
<1>3. ASSUME NEW keys, Given(keys), StartContext(w, keys), UNCHANGED store
      PROVE  EarnedInv'
  <2>1. PICK d : d = ctx'[w]
    OBVIOUS
  <2>2. Moves(w, d, "scenario")
    BY <1>1, <1>3, <2>1, StartIsProper
  <2> QED
    BY <1>1, <1>2, <1>3, <2>2, ThreadLeaves
<1>4. CASE /\ queue # <<>> /\ Head(queue).type = "context"
           /\ SetContext(w, Resumed(Head(queue).ctx))
           /\ Go(w, IF Head(queue).ctx.continue THEN "line" ELSE "scenario")
           /\ UNCHANGED store
  <2> DEFINE c == Head(queue).ctx
             d == Resumed(c)
             at == IF c.continue THEN "line" ELSE "scenario"
  <2>1. IsContext(c)
    BY <1>1, <1>4, QueueTail DEF IsToken, Located
  <2>2. d.past = c.past \union {"resumed"}
    BY <2>1, ResumedChanges
  <2>3. Moves(w, d, at)
    BY <1>1, <1>4, SetAndGo
  <2>4. at \in {"scenario", "line"}
    OBVIOUS
  <2> HIDE DEF c, d, at
  <2>5. ThreadEarned(calls, kept, d, at)
    BY <2>2 DEF ThreadEarned, Unmixed
  <2> QED
    BY <1>1, <1>4, <2>3, <2>4, <2>5, ThreadLeaves
<1>5. ASSUME UNCHANGED ctx, Go(w, "idle"),
             UNCHANGED store \/ \E id : Pop(id)
      PROVE  EarnedInv'
  <2>1. Moves(w, ctx[w], "idle")
    BY <1>1, <1>5, OnlyGo
  <2>2. \A id \in DOMAIN store' : id \in DOMAIN store /\ store'[id].ctx = store[id].ctx
    BY <1>1, <1>5, Popped
  <2> QED
    BY <1>1, <1>2, <2>1, <2>2, ThreadLeaves
<1>6. CASE /\ ProcessCallback(w, store[Head(queue).id].ctx, Tail(queue))
           /\ Pop(Head(queue).id)
  BY <1>5, <1>6 DEF ProcessCallback
<1>7. CASE StartContext(w, <<>>) /\ UNCHANGED store
  BY <1>3, <1>7, NothingIsGiven
<1>8. CASE /\ IF setup.waiting
                 THEN StartContext(w, EventKeys(Head(queue).id))
                 ELSE Go(w, "idle") /\ UNCHANGED ctx
           /\ UNCHANGED store
  BY <1>1, <1>3, <1>5, <1>8, DataOfEvents
<1> QED
  BY <1>4, <1>6, <1>7, <1>8 DEF ProcessScenario

\* the threads around bring notifications, or take clones away
LEMMA OutsideStepEarned ==
    ASSUME Inv, EarnedInv, NEW id \in DOMAIN store, Notify(id) \/ TimeOut(id)
    PROVE  EarnedInv'
<1>1. TypeInv /\ UNCHANGED <<setup, pc, ctx, calls, kept>>
  BY DEF Inv, Notify, TimeOut, threadVars, histVars
<1>2. CASE \A x \in DOMAIN store' : x \in DOMAIN store /\ store'[x].ctx = store[x].ctx
  <2>1. \A v \in Threads : /\ ThreadEarned(calls', kept', ctx[v], pc[v])
                           /\ CloneEarned(calls', kept', setup, ctx[v], pc[v], store')
    BY <1>1, <1>2, EarnedStays
  <2> QED
    BY <1>1, <2>1 DEF EarnedInv
<1>3. CASE store' = [store EXCEPT ![id] =
                        Flagged(@, Answered(setup.data, store[id].ctx, "notification"))]
  <2> DEFINE x == store[id].ctx
             new == Answered(setup.data, x, "notification")
             k == UpdateKeys(x.cache, new)
  <2>1. Recached(id, k)
    BY <1>1, <1>3, FlaggedClone
  <2>2. IsCache(x.cache)
    BY <1>1 DEF TypeInv, StoreInv, IsClone, Located, IsContext
  <2>3. k.runtime = Updated(x.cache.runtime, new)
    BY <2>2, CacheParts
  <2>4. \A j \in DOMAIN new : new[j].kind = "notification"
    BY <1>1, DataOfEvents, TextsAreGiven, AnsweredDoes
  <2> HIDE DEF new, k
  <2>5. \A r : Earned(kept, r, x.cache.runtime) => Earned(kept, r, store'[id].ctx.cache.runtime)
    <3>1. \A r : Earned(kept, r, new)
      BY <2>4 DEF Earned
    <3> QED
      BY <2>1, <2>3, <3>1, UpdatedIsEarned DEF Recached
  <2>6. ASSUME NEW v \in Threads
        PROVE  /\ ThreadEarned(calls, kept, ctx[v], pc[v])
               /\ CloneEarned(calls, kept, setup, ctx[v], pc[v], store')
    <3>1. /\ ThreadEarned(calls, kept, ctx[v], pc[v])
          /\ CloneEarned(calls, kept, setup, ctx[v], pc[v], store)
      BY DEF EarnedInv
    <3>2. CASE ctx[v].id = id
      BY <2>1, <2>5, <3>1, <3>2 DEF CloneEarned, Recached
    <3>3. CASE ctx[v].id # id
      BY <2>1, <3>1, <3>3 DEF CloneEarned, Recached
    <3> QED
      BY <3>2, <3>3
  <2> QED
    BY <1>1, <2>6 DEF EarnedInv
<1>4. Pop(id) \/ UNCHANGED store =>
        \A x \in DOMAIN store' : x \in DOMAIN store /\ store'[x].ctx = store[x].ctx
  BY <1>1, Popped
<1> QED
  BY <1>2, <1>3, <1>4 DEF Notify, TimeOut

LEMMA EarnedInit == Init => EarnedInv
  BY DEF Init, EarnedInv, ThreadEarned, CloneEarned

LEMMA EarnedNext == Inv /\ CacheInv /\ EarnedInv /\ [Next]_vars => EarnedInv'
<1> SUFFICES ASSUME Inv, CacheInv, EarnedInv, [Next]_vars
             PROVE  EarnedInv'
  OBVIOUS
<1>1. CallInv'
  BY InvNext DEF Inv
<1>2. ASSUME UNCHANGED <<setup, pc, ctx, store, calls, kept>>
      PROVE  EarnedInv'
  BY <1>2 DEF EarnedInv
<1>3. ASSUME NEW w \in Threads, EndOfSteps(w)
      PROVE  EarnedInv'
  <2>1. Moves(w, ctx[w], "scenario") /\ UNCHANGED <<setup, store, calls, kept>>
    BY <1>3, EndOfStepsDoes DEF Inv
  <2>2. ThreadEarned(calls, kept, ctx[w], "scenario")
    BY DEF ThreadEarned
  <2> QED
    BY <2>1, <2>2, ThreadLeaves
<1>4. ASSUME NEW w \in Threads,
             ProcessScenario(w) \/ NextScenario(w) \/ SendData(w) \/ Answer(w) \/ AfterStep(w)
      PROVE  EarnedInv'
  BY <1>1, <1>4, ProcessScenarioEarned, NextScenarioEarned, SendDataEarned, AnswerEarned,
     AfterStepEarned
<1>5. Event \/ UNCHANGED vars => UNCHANGED <<setup, pc, ctx, store, calls, kept>>
  BY DEF Event, vars, threadVars, histVars
<1> QED
  BY <1>2, <1>3, <1>4, <1>5, OutsideStepEarned DEF Next

LEMMA NothingElse == EarnedInv => OnlyMemorized
<1> SUFFICES ASSUME EarnedInv, NEW w \in Threads, Running(w), "resumed" \notin ctx[w].past,
                    ~Shared(RunOf(ctx[w]))
             PROVE  Earned(kept, RunOf(ctx[w]), ctx[w].cache.with)
  BY DEF OnlyMemorized, Earned
<1>1. Unmixed(calls, ctx[w])
  BY SharedCalls DEF Unmixed
<1> QED
  BY <1>1 DEF EarnedInv, ThreadEarned, Running

\* What a successful step has memorised is in the cache of every thread that goes on with
\* its scenario, in the clone of an asynchronous step, too; and what a memorisation has found
\* before it stopped is in none, until a step of the run has memorised it to the end
\* (_processResponse(), ContextIdentifier.update(), manage_async_break(), the reaper).
THEOREM MemoryRemains == Spec => []MemoryIsKept
<1>1. Init => Inv /\ CacheInv /\ EarnedInv
  BY InvInit, CacheInit, EarnedInit
<1>2. (Inv /\ CacheInv /\ EarnedInv) /\ [Next]_vars => (Inv /\ CacheInv /\ EarnedInv)'
  BY InvNext, CacheNext, EarnedNext
<1>3. Inv /\ CacheInv /\ EarnedInv => MemoryIsKept
  BY MemoryStays, NothingElse DEF MemoryIsKept
<1> QED
  BY <1>1, <1>2, <1>3, PTL DEF Spec

-----------------------------------------------------------------------------
(* What is sent is resolved.                                               *)

\* the fields that are one placeholder away from a value, and those that are two
NearFields(fields, cache) ==
    {f \in DOMAIN fields :
        fields[f].ref =>
            \/ fields[f].atom \in DOMAIN cache /\ Resolved(cache[fields[f].atom])
            \/ fields[f].atom \in LiteralFields(fields)}

FarFields(fields, cache) ==
    {f \in DOMAIN fields :
        fields[f].atom \in NearFields(fields, cache) \ DOMAIN cache /\ fields[f].calls = 0}

ResolvedFields(line, cache, sent) ==
    \A f \in (IF line.template = "none"
                 THEN NearFields(line.fields, cache) \union FarFields(line.fields, cache)
                 ELSE NearFields(line.fields, cache)) \intersect DOMAIN sent :
        Resolved(sent[f])

LEMMA UpdatedValues ==
    ASSUME NEW dict, NEW keys
    PROVE  /\ \A k \in DOMAIN keys :
                k \in DOMAIN Updated(dict, keys) /\ Updated(dict, keys)[k] = keys[k]
           /\ \A k \in DOMAIN dict \ DOMAIN keys :
                k \in DOMAIN Updated(dict, keys) /\ Updated(dict, keys)[k] = dict[k]
  BY DEF Updated

\* a field that is one placeholder away from a value has none left
LEMMA NearFieldsAreResolved ==
    ASSUME NEW line, AreTexts(line.fields), NEW c, IsCache(c), Entries(c.with),
           NEW f \in NearFields(line.fields, c.with)
    PROVE  f \in DOMAIN ValuesOf(line, c) /\ Resolved(ValuesOf(line, c)[f])
<1> DEFINE fields == FieldsOf(line)
           L == LiteralFields(fields)
           literals == Restrict(fields, L)
           keys == KnownTo(line, c).runtime
           text == fields[f]
           value == ValueOf(line, c, f)
           values == ValuesOf(line, c)
           a == text.atom
<1>1. /\ DOMAIN fields = DOMAIN line.fields
      /\ \A g \in DOMAIN fields :
           /\ IsEntry(fields[g]) /\ fields[g].ref = line.fields[g].ref
           /\ fields[g].atom = line.fields[g].atom /\ fields[g].atom # Raw
      /\ L \subseteq DOMAIN fields /\ L = LiteralFields(line.fields)
      /\ keys = Updated(c.with, literals) /\ Entries(keys)
  BY FieldFacts
<1>2. f \in DOMAIN fields
  BY <1>1 DEF NearFields
<1>3. IsEntry(text) /\ text.atom # Raw
      /\ (text.ref => (a \in DOMAIN c.with /\ Resolved(c.with[a])) \/ a \in L)
  BY <1>1, <1>2 DEF NearFields
<1>4. DOMAIN values = DOMAIN fields
      /\ values[f] = IF f \in FunctionFields(fields) THEN CallField(value) ELSE value
  BY <1>2 DEF ValuesOf
<1>5. value = IF f \in TemplateFields(fields) THEN Substitute(text, keys) ELSE text
  BY DEF ValueOf
<1>6. f \in TemplateFields(fields) <=> text.ref
  BY <1>2 DEF TemplateFields
<1>7. \A g \in L : g \in DOMAIN keys /\ keys[g] = fields[g] /\ ~fields[g].ref
                   /\ fields[g].atom # Raw
  <2>1. DOMAIN literals = L /\ \A g \in L : literals[g] = fields[g]
    BY <1>1, RestrictEntries
  <2>2. \A g \in L : ~fields[g].ref
    BY DEF LiteralFields
  <2> HIDE DEF literals, L, fields
  <2> QED
    BY <1>1, <2>1, <2>2, UpdatedValues
<1>8. \A g \in DOMAIN c.with \ L : g \in DOMAIN keys /\ keys[g] = c.with[g]
  <2>1. DOMAIN literals = L
    BY <1>1, RestrictEntries
  <2> HIDE DEF literals, L, fields
  <2> QED
    BY <1>1, <2>1, UpdatedValues
<1> HIDE DEF fields, L, literals, keys, value, values
<1>9. text.ref => a \in DOMAIN keys /\ Resolved(keys[a])
  BY <1>3, <1>7, <1>8 DEF Resolved
<1> HIDE DEF a, text
<1>10. IsEntry(value) /\ Resolved(value)
  <2>1. CASE ~text.ref
    BY <1>3, <1>5, <1>6, <2>1 DEF Resolved
  <2>2. CASE text.ref
    <3>1. value = Substitute(text, keys)
      BY <1>5, <1>6, <2>2
    <3>2. IsEntry(value) /\ value.ref = keys[a].ref /\ value.atom = keys[a].atom
      BY <1>1, <1>3, <1>9, <2>2, <3>1, SubstituteEntry DEF a
    <3> QED
      BY <1>9, <2>2, <3>2 DEF Resolved
  <2> QED
    BY <2>1, <2>2
<1>11. Resolved(CallField(value))
  BY <1>10, CallFieldDoes DEF Resolved
<1>12. f \in DOMAIN values /\ Resolved(values[f])
  BY <1>2, <1>4, <1>10, <1>11
<1> QED
  BY <1>12 DEF values

\* the placeholder of a resolved value is replaced by it
LEMMA ResolvedStays ==
    ASSUME NEW text, IsEntry(text), NEW keys, Entries(keys)
    PROVE  /\ Resolved(text) => Resolved(Substitute(text, keys))
           /\ text.ref /\ text.atom \in DOMAIN keys /\ Resolved(keys[text.atom])
                => Resolved(Substitute(text, keys))
  BY SubstituteEntry DEF Resolved

\* processNew(): what is sent
LEMMA CommandResolves ==
    ASSUME NEW line, AreTexts(line.fields), NEW macros, NEW c, IsCache(c), Entries(c.with),
           ProcessNew(line, macros, c).outcome = "sent"
    PROVE  ResolvedFields(line, c.with, ProcessNew(line, macros, c).command)
<1> DEFINE fields == FieldsOf(line)
           known == KnownTo(line, c)
           values == ValuesOf(line, c)
           all == UpdateKeys(known, values).runtime
           sent == ProcessNew(line, macros, c).command
           near == NearFields(line.fields, c.with)
           far == FarFields(line.fields, c.with)
<1>1. sent = Command(line, values, all)
  BY ProcessNewParts
<1>2. /\ DOMAIN fields = DOMAIN line.fields
      /\ \A g \in DOMAIN fields :
           /\ IsEntry(fields[g]) /\ fields[g].ref = line.fields[g].ref
           /\ fields[g].ref \in BOOLEAN
           /\ fields[g].calls = line.fields[g].calls
           /\ fields[g].atom = line.fields[g].atom /\ fields[g].atom # Raw
      /\ IsCache(known) /\ Entries(known.runtime)
      /\ LiteralFields(fields) = LiteralFields(line.fields)
      /\ known.runtime = Updated(c.with, Restrict(fields, LiteralFields(fields)))
  BY FieldFacts
<1>3. DOMAIN values = DOMAIN line.fields /\ Entries(values)
  BY ValuesOfFields
<1>4. all = Updated(known.runtime, values)
  BY <1>2 DEF UpdateKeys, IsCache
<1>5. \A f \in near : f \in DOMAIN values /\ Resolved(values[f])
  BY NearFieldsAreResolved
<1>6. Entries(all) /\ \A f \in DOMAIN values : f \in DOMAIN all /\ all[f] = values[f]
  <2> HIDE DEF known, values, all
  <2>1. Entries(Updated(known.runtime, values))
    BY <1>2, <1>3, UpdatedAreEntries
  <2> QED
    BY <1>4, <2>1, UpdatedValues
<1>7. ASSUME NEW f \in far \ near
      PROVE  /\ values[f] = fields[f] /\ fields[f].ref
             /\ fields[f].atom \in near
  <2>1. /\ f \in DOMAIN fields /\ fields[f].ref /\ fields[f].calls = 0
        /\ fields[f].atom \in near \ DOMAIN c.with
        /\ fields[f].atom \notin LiteralFields(fields)
    BY <1>2 DEF FarFields, NearFields
  <2>2. fields[f].atom \notin DOMAIN known.runtime
    <3> DEFINE L == LiteralFields(fields)
               literals == Restrict(fields, L)
    <3>1. DOMAIN literals = L
      BY DEF Restrict
    <3> HIDE DEF L, literals, fields, known
    <3>2. DOMAIN Updated(c.with, literals) = DOMAIN c.with \union L
      BY <3>1, UpdatedEntries
    <3> QED
      BY <1>2, <2>1, <3>2 DEF L, literals
  <2>3. ValueOf(line, c, f) = fields[f]
    <3>1. \/ ValueOf(line, c, f) = fields[f]
          \/ ValueOf(line, c, f) = Substitute(fields[f], known.runtime)
      BY DEF ValueOf
    <3>2. Substitute(fields[f], known.runtime) = fields[f]
      BY <2>2 DEF Substitute
    <3> QED
      BY <3>1, <3>2
  <2>4. f \notin FunctionFields(fields)
    BY <2>1 DEF FunctionFields
  <2>5. values[f] = ValueOf(line, c, f)
    BY <2>1, <2>4 DEF ValuesOf
  <2> QED
    BY <2>1, <2>3, <2>5
<1> HIDE DEF fields, known, values, all, near, far
<1>8. CASE line.template = "none"
  <2>1. DOMAIN sent = DOMAIN values /\ \A f \in DOMAIN values : sent[f] = Substitute(values[f], all)
    BY <1>1, <1>8 DEF Command
  <2> HIDE DEF sent
  <2>2. ASSUME NEW f \in (near \union far) \intersect DOMAIN sent
        PROVE  Resolved(sent[f])
    <3>1. IsEntry(values[f])
      BY <1>3, <2>1 DEF Entries
    <3>2. CASE f \in near
      BY <1>5, <1>6, <2>1, <3>1, <3>2, ResolvedStays
    <3>3. CASE f \in far \ near
      <4>1. values[f].ref /\ values[f].atom \in near
        BY <1>7, <3>3
      <4>2. values[f].atom \in DOMAIN all /\ Resolved(all[values[f].atom])
        BY <1>5, <1>6, <4>1
      <4> QED
        BY <1>6, <2>1, <3>1, <4>1, <4>2, ResolvedStays
    <3> QED
      BY <3>2, <3>3
  <2> QED
    BY <1>8, <2>2 DEF ResolvedFields, near, far, sent
<1>9. CASE line.template # "none"
  <2>1. DOMAIN sent = line.holders
        /\ \A k \in line.holders : sent[k] = Substitute(Placeholder(k), all)
    BY <1>1, <1>9 DEF Command
  <2> HIDE DEF sent
  <2>2. ASSUME NEW f \in near \intersect DOMAIN sent
        PROVE  Resolved(sent[f])
    <3>1. IsEntry(Placeholder(f)) /\ Placeholder(f).ref /\ Placeholder(f).atom = f
      BY LiteralEntry
    <3>2. f \in DOMAIN all /\ Resolved(all[f])
      BY <1>5, <1>6
    <3> QED
      BY <1>6, <2>1, <3>1, <3>2, ResolvedStays
  <2> QED
    BY <1>9, <2>2 DEF ResolvedFields, near, sent
<1> QED
  BY <1>8, <1>9

-----------------------------------------------------------------------------
(* The context section is evaluated.                                       *)

\* what holds between two keys: near are keys of the section that have the placeholder of a
\* value or of each other; they are evaluated, or as they were
Evaluates(context, env, near, e) ==
    /\ IsEvaluation(e)
    /\ DOMAIN e.todo \subseteq DOMAIN context
    /\ \A k \in env \ DOMAIN context :
         k \in DOMAIN e.cache.runtime /\ IsValue(e.cache.runtime[k])
    /\ \A k \in near \intersect DOMAIN e.cache.runtime : IsValue(e.cache.runtime[k])
    /\ \A k \in near : k \in DOMAIN e.todo \/ k \in DOMAIN e.cache.runtime
    /\ \A k \in near \intersect DOMAIN e.todo :
         /\ e.todo[k].calls = context[k].calls
         /\ e.todo[k].ref = context[k].ref
         /\ e.todo[k].atom = context[k].atom

LEMMA ResolvableGrows ==
    ASSUME NEW context, NEW env, NEW near, NEW more, near \subseteq more
    PROVE  Resolvable(context, env, near) \subseteq Resolvable(context, env, more)
  BY DEF Resolvable

\* keys that have the placeholder of a value or of each other
Near(context, env, near) == near \subseteq Resolvable(context, env, near)

\* what becomes of a key that is near
NearKey(context, e, k, d) ==
    \/ /\ context[k].ref /\ context[k].atom \notin DOMAIN e.cache.runtime
       /\ d.todo = e.todo /\ d.cache = e.cache /\ d.again = TRUE
    \/ /\ ~context[k].ref \/ context[k].atom \in DOMAIN e.cache.runtime
       /\ DOMAIN d.todo = DOMAIN e.todo \ {k} /\ d.again = e.again
       /\ \E t : IsValue(t) /\ d.cache = UpdateKeys(e.cache, Single(k, t))

\* a key whose placeholder is known gets a value and is done, and one whose is not stays
LEMMA NearKeyIsEvaluated ==
    ASSUME NEW context, AreTexts(context), NEW env, NEW near, Near(context, env, near),
           NEW e, Evaluates(context, env, near, e), NEW k, k \in near, k \in DOMAIN e.todo
    PROVE  NearKey(context, e, k, EvaluateKey(e, k))
<1> DEFINE keys == e.cache.runtime
           todo == e.todo[k]
           text == Substitute(todo, keys)
           t == SubstituteInValue(text).text
           d == EvaluateKey(e, k)
           a == context[k].atom
<1>1. /\ context[k].calls \in Nat /\ context[k].calls <= 1 /\ context[k].ref \in BOOLEAN
      /\ context[k].ref => a \in (env \ DOMAIN context) \union near
      /\ ~context[k].ref => a # Blank
  BY TextsAreGiven DEF Resolvable, Near
<1>2. /\ IsEvaluation(e) /\ IsEntry(todo) /\ Entries(keys)
      /\ todo.calls = context[k].calls /\ todo.ref = context[k].ref /\ todo.atom = a
      /\ e.todo = [j \in DOMAIN e.todo |-> e.todo[j]]
  BY DEF Evaluates, IsEvaluation, Entries
<1>3. a \in DOMAIN keys /\ context[k].ref => IsValue(keys[a])
  BY <1>1 DEF Evaluates
<1>4. /\ IsEvaluation(d) /\ EvaluatesTo(e, k, d, t)
      /\ \A j \in DOMAIN d.todo \ {k} : d.todo[j] = e.todo[j]
  BY <1>2, EvaluateKeyDoes
<1>5. /\ IsEntry(text)
      /\ \/ /\ todo.ref /\ a \in DOMAIN keys
            /\ text.ref = keys[a].ref /\ text.atom = keys[a].atom
            /\ text.calls = keys[a].calls + todo.calls
         \/ ~(todo.ref /\ a \in DOMAIN keys) /\ text = todo
  BY <1>2, SubstituteEntry
<1>6. /\ t.ref = text.ref /\ t.atom = text.atom
      /\ t.calls = IF text.ref \/ text.calls = 0 THEN text.calls ELSE text.calls - 1
      /\ text.ref => t = text
  <2>1. text.ref => t = text
    BY DEF SubstituteInValue, StillPlaceHolder
  <2> QED
    BY <1>5, <2>1, SubstituteInValueDoes
<1> HIDE DEF keys, todo, text, t, d
<1>7. CASE context[k].ref /\ a \notin DOMAIN keys
  <2>1. t = todo /\ t.ref
    BY <1>2, <1>5, <1>6, <1>7
  <2>2. DOMAIN d.todo = DOMAIN e.todo /\ d.todo[k] = e.todo[k] /\ d.again = TRUE
        /\ d.cache = e.cache
    BY <1>4, <2>1 DEF EvaluatesTo, todo
  <2>3. \A j \in DOMAIN e.todo : d.todo[j] = e.todo[j]
    BY <1>4, <2>2
  <2>4. d.todo = [j \in DOMAIN d.todo |-> d.todo[j]]
    BY <1>4 DEF IsEvaluation
  <2>5. d.todo = e.todo
    BY <1>2, <2>2, <2>3, <2>4
  <2> QED
    BY <1>7, <2>2, <2>5 DEF d, keys, NearKey
<1>8. CASE ~context[k].ref
  <2>1. text = todo /\ ~text.ref /\ text.atom = a /\ text.calls = context[k].calls
    BY <1>2, <1>5, <1>8
  <2>2. ~t.ref /\ t.atom = a /\ t.calls = 0 /\ a # Blank
    BY <1>1, <1>6, <1>8, <2>1
  <2>3. IsValue(t)
    BY <2>2 DEF IsValue
  <2>4. /\ DOMAIN d.todo = DOMAIN e.todo \ {k} /\ d.again = e.again
        /\ d.cache = UpdateKeys(e.cache, Single(k, t))
    BY <1>4, <2>2 DEF EvaluatesTo
  <2> QED
    BY <1>8, <2>3, <2>4 DEF d, NearKey
<1>9. CASE context[k].ref /\ a \in DOMAIN keys
  <2>1. ~keys[a].ref /\ keys[a].atom # Blank /\ keys[a].calls = 0
    BY <1>3, <1>9 DEF IsValue
  <2>2. ~text.ref /\ text.atom = keys[a].atom /\ text.calls = context[k].calls
    BY <1>1, <1>2, <1>5, <1>9, <2>1
  <2>3. ~t.ref /\ t.atom # Blank /\ t.calls = 0
    BY <1>1, <1>6, <2>1, <2>2
  <2>4. IsValue(t)
    BY <2>3 DEF IsValue
  <2>5. /\ DOMAIN d.todo = DOMAIN e.todo \ {k} /\ d.again = e.again
        /\ d.cache = UpdateKeys(e.cache, Single(k, t))
    BY <1>4, <2>3 DEF EvaluatesTo
  <2> QED
    BY <1>9, <2>4, <2>5 DEF d, keys, NearKey
<1> QED
  BY <1>7, <1>8, <1>9 DEF keys

\* one key; done are keys that have a value
LEMMA KeyIsEvaluated ==
    ASSUME NEW context, AreTexts(context), NEW env, NEW near, Near(context, env, near),
           NEW e, Evaluates(context, env, near, e), NEW k \in DOMAIN e.todo,
           NEW done, done \subseteq near, done \intersect DOMAIN e.todo = {}
    PROVE  LET d == EvaluateKey(e, k) IN
           /\ Evaluates(context, env, near, d)
           /\ DOMAIN d.todo \subseteq DOMAIN e.todo
           /\ e.again = TRUE => d.again = TRUE
           /\ k \in near \intersect DOMAIN d.todo => d.again = TRUE
           /\ k \in near \intersect Resolvable(context, env, done) => k \notin DOMAIN d.todo
<1> DEFINE keys == e.cache.runtime
           d == EvaluateKey(e, k)
           t0 == SubstituteInValue(Substitute(e.todo[k], keys)).text
<1>1. /\ IsEvaluation(e) /\ IsCache(e.cache) /\ DOMAIN e.todo \subseteq DOMAIN context
      /\ \A j \in env \ DOMAIN context : j \in DOMAIN keys /\ IsValue(keys[j])
      /\ \A j \in near \intersect DOMAIN keys : IsValue(keys[j])
      /\ \A j \in near : j \in DOMAIN e.todo \/ j \in DOMAIN keys
      /\ \A j \in near \intersect DOMAIN e.todo :
           /\ e.todo[j].calls = context[j].calls
           /\ e.todo[j].ref = context[j].ref
           /\ e.todo[j].atom = context[j].atom
  BY DEF Evaluates, IsEvaluation
<1>2. /\ IsEvaluation(d) /\ EvaluatesTo(e, k, d, t0)
      /\ \A j \in DOMAIN d.todo \ {k} : d.todo[j] = e.todo[j]
  BY <1>1, EvaluateKeyDoes
<1> HIDE DEF d, t0
<1>3. /\ DOMAIN d.todo \subseteq DOMAIN e.todo
      /\ \A j \in DOMAIN e.todo : j # k => j \in DOMAIN d.todo
      /\ e.again = TRUE => d.again = TRUE
      /\ d.cache = e.cache \/ \E t : /\ d.cache = UpdateKeys(e.cache, Single(k, t))
                                     /\ k \notin DOMAIN d.todo
  BY <1>2 DEF EvaluatesTo
\* the keys that are known
<1>4. /\ DOMAIN keys \subseteq DOMAIN d.cache.runtime
      /\ \A j \in DOMAIN d.cache.runtime : j # k => j \in DOMAIN keys
      /\ \A j \in DOMAIN keys : j # k => d.cache.runtime[j] = keys[j]
      /\ \A t : d.cache = UpdateKeys(e.cache, Single(k, t)) =>
           k \in DOMAIN d.cache.runtime /\ d.cache.runtime[k] = t
  <2>1. ASSUME NEW t
        PROVE  LET r == UpdateKeys(e.cache, Single(k, t)).runtime IN
               /\ DOMAIN r = DOMAIN keys \union {k} /\ r[k] = t
               /\ \A j \in DOMAIN keys : j # k => r[j] = keys[j]
    <3>1. UpdateKeys(e.cache, Single(k, t)).runtime = Updated(keys, Single(k, t))
      BY <1>1 DEF UpdateKeys, IsCache
    <3> DEFINE new == Single(k, t)
               old == keys
    <3>2. DOMAIN new = {k} /\ new[k] = t
      BY SingleEntry
    <3> HIDE DEF new, old
    <3>3. /\ DOMAIN Updated(old, new) = DOMAIN old \union {k}
          /\ Updated(old, new)[k] = t
          /\ \A j \in DOMAIN old : j # k => Updated(old, new)[j] = old[j]
      BY <3>2 DEF Updated
    <3> QED
      BY <3>1, <3>3 DEF new, old
  <2> QED
    BY <1>3, <2>1
<1>5. CASE k \notin near
  <2>1. \A j \in env \ DOMAIN context : j \in DOMAIN d.cache.runtime /\ IsValue(d.cache.runtime[j])
    BY <1>1, <1>4
  <2>2. \A j \in near \intersect DOMAIN d.cache.runtime : IsValue(d.cache.runtime[j])
    BY <1>1, <1>4, <1>5
  <2>3. \A j \in near : j \in DOMAIN d.todo \/ j \in DOMAIN d.cache.runtime
    BY <1>1, <1>3, <1>4, <1>5
  <2>4. \A j \in near \intersect DOMAIN d.todo : d.todo[j] = e.todo[j] /\ j \in DOMAIN e.todo
    BY <1>2, <1>3, <1>5
  <2>5. Evaluates(context, env, near, d)
    BY <1>1, <1>2, <1>3, <2>1, <2>2, <2>3, <2>4 DEF Evaluates
  <2> QED
    BY <1>3, <1>5, <2>5 DEF d
<1>6. CASE k \in near
  <2> DEFINE a == context[k].atom
  <2>1. \/ /\ context[k].ref /\ a \notin DOMAIN keys
           /\ d.todo = e.todo /\ d.cache = e.cache /\ d.again = TRUE
        \/ /\ ~context[k].ref \/ a \in DOMAIN keys
           /\ DOMAIN d.todo = DOMAIN e.todo \ {k} /\ d.again = e.again
           /\ \E t : IsValue(t) /\ d.cache = UpdateKeys(e.cache, Single(k, t))
    <3>1. NearKey(context, e, k, EvaluateKey(e, k))
      BY <1>6, NearKeyIsEvaluated
    <3> QED
      BY <3>1 DEF NearKey, d
  <2>2. CASE /\ context[k].ref /\ a \notin DOMAIN keys
             /\ d.todo = e.todo /\ d.cache = e.cache /\ d.again = TRUE
    <3>1. Evaluates(context, env, near, d)
      BY <1>2, <2>2 DEF Evaluates
    <3>2. k \notin Resolvable(context, env, done)
      <4>1. \A j \in done : j \in DOMAIN keys
        BY <1>1
      <4> QED
        BY <1>1, <2>2, <4>1 DEF Resolvable
    <3> QED
      BY <1>3, <2>2, <3>1, <3>2 DEF d
  <2>3. CASE /\ DOMAIN d.todo = DOMAIN e.todo \ {k} /\ d.again = e.again
             /\ \E t : IsValue(t) /\ d.cache = UpdateKeys(e.cache, Single(k, t))
    <3>1. k \in DOMAIN d.cache.runtime /\ IsValue(d.cache.runtime[k])
      BY <1>4, <2>3
    <3>2. \A j \in env \ DOMAIN context : j \in DOMAIN d.cache.runtime
                                          /\ IsValue(d.cache.runtime[j])
      BY <1>1, <1>4
    <3>3. \A j \in near \intersect DOMAIN d.cache.runtime : IsValue(d.cache.runtime[j])
      BY <1>1, <1>4, <3>1
    <3>4. \A j \in near : j \in DOMAIN d.todo \/ j \in DOMAIN d.cache.runtime
      BY <1>1, <1>4, <2>3, <3>1
    <3>5. \A j \in near \intersect DOMAIN d.todo : d.todo[j] = e.todo[j] /\ j \in DOMAIN e.todo
      BY <1>2, <2>3
    <3>6. Evaluates(context, env, near, d)
      BY <1>1, <1>2, <1>3, <3>2, <3>3, <3>4, <3>5 DEF Evaluates
    <3> QED
      BY <1>3, <2>3, <3>6 DEF d
  <2> QED
    BY <2>1, <2>2, <2>3
<1> QED
  BY <1>5, <1>6

\* what a round leaves is what no other round would do
Exhausted(near, e) == e.again = FALSE => near \intersect DOMAIN e.todo = {}

\* a round; the keys that are one placeholder away from those that are done are done, too
LEMMA RoundEvaluates ==
    ASSUME NEW context, AreTexts(context), NEW env, NEW near, Near(context, env, near),
           NEW e, Evaluates(context, env, near, e), Exhausted(near, e), e.again \in BOOLEAN,
           NEW done, done \subseteq near, done \intersect DOMAIN e.todo = {},
           Resolvable(context, env, done) \subseteq near,
           NEW d \in EvaluationRound(e)
    PROVE  /\ Evaluates(context, env, near, d) /\ Exhausted(near, d) /\ d.again \in BOOLEAN
           /\ Resolvable(context, env, done) \intersect DOMAIN d.todo = {}
<1> DEFINE next == Resolvable(context, env, done)
<1>1. CASE e.again = FALSE
  <2>1. d = e
    BY <1>1 DEF EvaluationRound
  <2> QED
    BY <1>1, <2>1 DEF Exhausted
<1>2. CASE e.again = TRUE
  <2>1. PICK order \in Orders(DOMAIN e.todo) : d = Later(e, order, Len(order))
    BY <1>2 DEF EvaluationRound, Later
  <2> DEFINE N == Len(order)
             L(n) == Later(e, order, n)
             no == FALSE
             e0 == [e EXCEPT !.again = no]
             Good(n) ==
               /\ Evaluates(context, env, near, L(n)) /\ DOMAIN L(n).todo \subseteq DOMAIN e.todo
               /\ L(n).again \in BOOLEAN
               /\ \A m \in 1..n :
                    /\ order[m] \in near \intersect DOMAIN L(n).todo => L(n).again = TRUE
                    /\ order[m] \in next => order[m] \notin DOMAIN L(n).todo
             S == {n \in 0..N : Good(n)}
  <2>2. IsEvaluation(e) /\ IsFiniteSet(DOMAIN e.todo)
    BY DEF Evaluates, IsEvaluation
  <2>3. /\ N \in Nat
        /\ \A k \in DOMAIN e.todo : \E n \in 1..N : order[n] = k
    BY <2>2, OrderOfKeys
  <2>4. /\ \A n \in 1..N : /\ order[n] \in DOMAIN L(n - 1).todo
                           /\ L(n) = EvaluateKey(L(n - 1), order[n])
        /\ L(0) = e0
    BY <2>2, KeysOfRound
  <2>5. IsEvaluation(e0) /\ e0.again = FALSE /\ e0.todo = e.todo /\ e0.cache = e.cache
    BY <2>2, AgainChanges
  <2> HIDE DEF N, L, e0, next
  <2>6. 0 \in S
    <3>1. Evaluates(context, env, near, L(0)) /\ L(0).todo = e.todo /\ L(0).again = FALSE
      BY <2>4, <2>5 DEF Evaluates
    <3>2. \A m \in 1..0 : FALSE
      OBVIOUS
    <3>3. DOMAIN L(0).todo \subseteq DOMAIN e.todo /\ L(0).again \in BOOLEAN
      BY <3>1
    <3>4. Good(0)
      BY <3>1, <3>2, <3>3
    <3>5. 0 \in 0..N
      BY <2>3
    <3> HIDE DEF Good
    <3> QED
      BY <3>4, <3>5
  <2>7. ASSUME NEW n \in 0..N, n \in S, n < N
        PROVE  n + 1 \in S
    <3> DEFINE a == L(n)
               b == L(n + 1)
               k == order[n + 1]
    <3>1. /\ Evaluates(context, env, near, a) /\ DOMAIN a.todo \subseteq DOMAIN e.todo
          /\ a.again \in BOOLEAN
          /\ \A m \in 1..n :
               /\ order[m] \in near \intersect DOMAIN a.todo => a.again = TRUE
               /\ order[m] \in next => order[m] \notin DOMAIN a.todo
      BY <2>7
    <3>2. n + 1 \in 1..N /\ (n + 1) - 1 = n /\ n + 1 \in 0..N
          /\ \A m \in 1..n + 1 : m \in 1..n \/ m = n + 1
      BY <2>3, <2>7
    <3>3. b = EvaluateKey(a, k) /\ k \in DOMAIN a.todo
      BY <2>4, <3>2
    <3>4. done \intersect DOMAIN a.todo = {}
      BY <3>1
    <3> HIDE DEF a, b, k
    <3>5. /\ Evaluates(context, env, near, b)
          /\ DOMAIN b.todo \subseteq DOMAIN a.todo
          /\ a.again = TRUE => b.again = TRUE
          /\ k \in near \intersect DOMAIN b.todo => b.again = TRUE
          /\ k \in near \intersect next => k \notin DOMAIN b.todo
      BY <3>1, <3>3, <3>4, KeyIsEvaluated DEF next
    <3>6. b.again \in BOOLEAN
      <4>1. \E t : EvaluatesTo(a, k, EvaluateKey(a, k), t)
        BY <3>1, <3>3, EvaluateKeyDoes DEF Evaluates
      <4> QED
        BY <3>1, <3>3, <4>1 DEF EvaluatesTo
    <3>7. ASSUME NEW m \in 1..n + 1
          PROVE  /\ order[m] \in near \intersect DOMAIN b.todo => b.again = TRUE
                 /\ order[m] \in next => order[m] \notin DOMAIN b.todo
      <4>1. CASE m = n + 1
        <5>1. order[m] = k
          BY <4>1 DEF k
        <5>2. next \subseteq near
          BY DEF next
        <5> QED
          BY <3>5, <5>1, <5>2
      <4>2. CASE m \in 1..n
        BY <3>1, <3>5, <4>2
      <4> QED
        BY <3>2, <4>1, <4>2
    <3>8. DOMAIN b.todo \subseteq DOMAIN e.todo
      BY <3>1, <3>5
    <3>9. Good(n + 1)
      BY <3>5, <3>6, <3>7, <3>8 DEF b
    <3> QED
      BY <3>2, <3>9
  <2>8. N \in S
    <3> HIDE DEF S
    <3>1. \A n \in 0..N : n \in S
      BY <2>3, <2>6, <2>7, CountUp
    <3> QED
      BY <2>3, <3>1
  <2>9. d = L(N)
    BY <2>1 DEF L, N
  <2>10. /\ Evaluates(context, env, near, d) /\ DOMAIN d.todo \subseteq DOMAIN e.todo
         /\ d.again \in BOOLEAN
         /\ \A m \in 1..N :
              /\ order[m] \in near \intersect DOMAIN d.todo => d.again = TRUE
              /\ order[m] \in next => order[m] \notin DOMAIN d.todo
    BY <2>8, <2>9
  <2>11. Exhausted(near, d)
    BY <2>3, <2>10 DEF Exhausted
  <2>12. next \intersect DOMAIN d.todo = {}
    BY <2>3, <2>10
  <2> QED
    BY <2>10, <2>11, <2>12 DEF next
<1> QED
  BY <1>1, <1>2

\* three rounds: what is at most two placeholders away from a value has a value
LEMMA RoundsEvaluate ==
    ASSUME NEW context, AreTexts(context), NEW env, NEW e0, e0.again = TRUE,
           NEW near,
           near = Resolvable(context, env,
                             Resolvable(context, env, Resolvable(context, env, {}))),
           Evaluates(context, env, near, e0),
           NEW e \in AfterRounds(e0)[Rounds], NEW k \in near
    PROVE  k \in DOMAIN e.cache.runtime /\ IsValue(e.cache.runtime[k])
<1> DEFINE R(S) == Resolvable(context, env, S)
           n1 == R({})
           n2 == R(n1)
<1>1. n1 \subseteq n2
  BY ResolvableGrows
<1>2. n2 \subseteq near
  BY <1>1, ResolvableGrows
<1>3. Near(context, env, near)
  BY <1>2, ResolvableGrows DEF Near
<1> DEFINE Holds0(d, done) ==
             /\ Evaluates(context, env, near, d) /\ Exhausted(near, d) /\ d.again \in BOOLEAN
             /\ done \intersect DOMAIN d.todo = {}
<1>4. R(n2) = near
  OBVIOUS
<1> HIDE DEF n1, n2, R
<1>5. ASSUME NEW d, NEW done, Holds0(d, done), done \subseteq near, R(done) \subseteq near,
             NEW x \in EvaluationRound(d)
      PROVE  Holds0(x, R(done))
  BY <1>3, <1>5, RoundEvaluates DEF R
<1>6. PICK d1, d2 : /\ d1 \in EvaluationRound(e0) /\ d2 \in EvaluationRound(d1)
                    /\ e \in EvaluationRound(d2)
  BY RoundsInTurn
<1>7. Holds0(e0, {})
  BY DEF Exhausted
<1>8. R({}) = n1 /\ R(n1) = n2
  BY DEF n1, n2
<1> HIDE DEF Holds0
<1>9. Holds0(d1, n1)
  BY <1>1, <1>2, <1>5, <1>6, <1>7, <1>8
<1>10. Holds0(d2, n2)
  BY <1>1, <1>2, <1>5, <1>6, <1>8, <1>9
<1>11. Holds0(e, near)
  BY <1>2, <1>4, <1>5, <1>6, <1>10
<1> QED
  BY <1>11 DEF Holds0, Evaluates

\* getNextScenario(): the section of a scenario
LEMMA SectionIsEvaluated ==
    ASSUME NEW s, IsScenario(s), NEW uid, NEW c, IsCache(c), Given(c.dynamic),
           AreValues(c.dynamic), NEW keys, Given(keys), AreValues(keys),
           NEW cache \in ScenarioCaches(s, uid, c, keys),
           NEW near,
           near = Resolvable(s.context, DOMAIN keys \ {TransactionId},
                    Resolvable(s.context, DOMAIN keys \ {TransactionId},
                      Resolvable(s.context, DOMAIN keys \ {TransactionId}, {}))),
           NEW k \in near
    PROVE  k \in DOMAIN cache.with /\ IsValue(cache.with[k])
<1> DEFINE context == s.context
           env == DOMAIN keys \ {TransactionId}
           e0 == StartOf(context, uid, c, keys)
           known == Updated(keys, c.dynamic)
           id == Single(TransactionId, Literal(uid))
<1>1. AreTexts(context) /\ IsFiniteSet(DOMAIN context)
  BY DEF IsScenario
<1>2. PICK e \in Evaluations(context, uid, c, keys) : cache = SetContextMarker(e.cache)
  BY DEF ScenarioCaches
<1>3. e \in AfterRounds(e0)[Rounds]
  BY <1>2 DEF Evaluations, StartOf
<1>4. /\ GivenEvaluation(e0)
      /\ e0.todo = Values(context, "context") /\ e0.again = TRUE
      /\ e0.cache.runtime = Updated(known, id)
  <2> HIDE DEF context
  <2>1. LET x == StartOf(context, uid, c, keys) IN
        /\ GivenEvaluation(x)
        /\ x.todo = Values(context, "context") /\ x.again = TRUE
        /\ x.cache.runtime = Updated(Updated(keys, c.dynamic), Single(TransactionId, Literal(uid)))
    BY <1>1, StartIsGiven
  <2> QED
    BY <2>1
<1>5. /\ DOMAIN e0.todo = DOMAIN context
      /\ \A j \in DOMAIN context : /\ e0.todo[j].calls = context[j].calls
                                   /\ e0.todo[j].ref = context[j].ref
                                   /\ e0.todo[j].atom = context[j].atom
  BY <1>1, <1>4, TextsAreGiven, ValuesOfKind
<1>6. \A j : j \in near => j \in DOMAIN context \ {TransactionId}
  BY DEF Resolvable
<1>7. DOMAIN id = {TransactionId}
  BY SingleEntry
<1> HIDE DEF id, known
<1>8. /\ \A j \in DOMAIN Updated(known, id) \ {TransactionId} :
           j \in DOMAIN known /\ Updated(known, id)[j] = known[j]
      /\ DOMAIN known \subseteq DOMAIN Updated(known, id)
  BY <1>7 DEF Updated
<1>9. DOMAIN keys \subseteq DOMAIN known /\ \A j \in DOMAIN known : IsValue(known[j])
  BY DEF known, Updated, AreValues
<1> HIDE DEF e0, context
<1>10. Evaluates(context, env, near, e0)
  <2>1. \A j \in DOMAIN e0.cache.runtime \ {TransactionId} : IsValue(e0.cache.runtime[j])
    BY <1>4, <1>8, <1>9
  <2>2. \A j \in env : j \in DOMAIN e0.cache.runtime /\ j # TransactionId
    BY <1>4, <1>8, <1>9
  <2>3. \A j \in near : j \in DOMAIN e0.todo /\ j # TransactionId
    BY <1>5, <1>6 DEF context
  <2>4. \A j \in near \intersect DOMAIN e0.todo :
         /\ e0.todo[j].calls = context[j].calls
         /\ e0.todo[j].ref = context[j].ref
         /\ e0.todo[j].atom = context[j].atom
    BY <1>5
  <2>5. DOMAIN e0.todo \subseteq DOMAIN context /\ IsEvaluation(e0)
    BY <1>4, <1>5 DEF GivenEvaluation
  <2> HIDE DEF env
  <2> QED
    BY <2>1, <2>2, <2>3, <2>4, <2>5 DEF Evaluates
<1>11. near = Resolvable(context, env, Resolvable(context, env, Resolvable(context, env, {})))
  BY DEF context
<1> HIDE DEF env
<1>12. k \in DOMAIN e.cache.runtime /\ IsValue(e.cache.runtime[k])
  BY <1>1, <1>3, <1>4, <1>10, <1>11, RoundsEvaluate
<1>13. cache.with = e.cache.runtime
  BY <1>2 DEF SetContextMarker
<1> QED
  BY <1>12, <1>13

-----------------------------------------------------------------------------
(* Placeholders: what events bring are values, a section is evaluated when *)
(* its first step begins, and what is sent is resolved.                    *)

\* what an event has brought to a context are values, where events bring values
Fresh(s, c) == AreValues(s.data) => AreValues(c.cache.dynamic)

\* the keys of a section that are at most two placeholders away from a value
ThreeNear(context, env) ==
    Resolvable(context, env, Resolvable(context, env, Resolvable(context, env, {})))

SectionIn(s, w, c) ==
    AreValues(Env) /\ AreValues(s.data) =>
        \A k \in ThreeNear(s.scenarios[c.scn].context,
                           DOMAIN Environment(w) \ {TransactionId}) :
            k \in DOMAIN c.cache.with /\ IsValue(c.cache.with[k])

\* a thread at a control point, and what it has sent
Placed(s, w, c, at, sent) ==
    /\ Fresh(s, c)
    /\ at = "sent" => ResolvedFields(StepIn(s, c), c.cache.with, sent)
    /\ at = "line" /\ c.line = 0 => SectionIn(s, w, c)

FreshClone(s, id, x) == id[2] # Blank /\ Fresh(s, x.ctx)

FreshToken(s, t) ==
    /\ t.type = "callback" => t.id[2] # Blank
    /\ t.type = "context" => Fresh(s, t.ctx) /\ t.ctx.line # 0

FreshStore == \A id \in DOMAIN store : FreshClone(setup, id, store[id])
FreshQueue == \A i \in DOMAIN queue : FreshToken(setup, queue[i])

PlaceInv ==
    /\ command = [w \in Threads |-> command[w]]
    /\ \A w \in Threads : Placed(setup, w, ctx[w], pc[w], command[w])
    /\ FreshStore /\ FreshQueue

\* a thread moves
LEMMA ThreadStepPlaces ==
    ASSUME PlaceInv, UNCHANGED setup, NEW w \in Threads, NEW d, NEW at, Moves(w, d, at),
           NEW sent, command' = [command EXCEPT ![w] = sent], Placed(setup, w, d, at, sent),
           FreshStore', FreshQueue'
    PROVE  PlaceInv'
<1>1. command' = [v \in Threads |-> IF v = w THEN sent ELSE command[v]]
  BY DEF PlaceInv
<1>2. \A v \in Threads : Placed(setup', v, ctx'[v], pc'[v], command'[v])
  <2>1. ASSUME NEW v \in Threads PROVE Placed(setup', v, ctx'[v], pc'[v], command'[v])
    <3>1. CASE v = w
      BY <1>1, <3>1, Moved
    <3>2. CASE v # w
      <4>1. ctx'[v] = ctx[v] /\ pc'[v] = pc[v] /\ command'[v] = command[v]
        BY <1>1, <3>2, Moved
      <4> QED
        BY <4>1 DEF PlaceInv
    <3> QED
      BY <3>1, <3>2
  <2> QED
    BY <2>1
<1>3. (command = [v \in Threads |-> command[v]])'
  BY <1>1
<1> QED
  BY <1>2, <1>3 DEF PlaceInv

\* a thread moves, and sends nothing
LEMMA QuietStepPlaces ==
    ASSUME PlaceInv, UNCHANGED <<setup, command>>, NEW w \in Threads, NEW d,
           NEW at, at # "sent", Moves(w, d, at), Fresh(setup, d),
           at = "line" /\ d.line = 0 => SectionIn(setup, w, d),
           FreshStore', FreshQueue'
    PROVE  PlaceInv'
<1>1. Placed(setup, w, d, at, command[w])
  BY DEF Placed
<1>2. command' = [command EXCEPT ![w] = command[w]]
  BY DEF PlaceInv
<1> QED
  BY <1>1, <1>2, ThreadStepPlaces

\* clones are not stored, or have what they had
LEMMA SameStorePlaces ==
    ASSUME PlaceInv, UNCHANGED setup,
           \A id \in DOMAIN store' :
               /\ id \in DOMAIN store
               /\ store'[id].ctx.cache.dynamic = store[id].ctx.cache.dynamic
    PROVE  FreshStore'
<1>1. ASSUME NEW id \in DOMAIN store' PROVE FreshClone(setup', id, store'[id])
  <2>1. FreshClone(setup, id, store[id])
    BY <1>1 DEF PlaceInv, FreshStore
  <2> QED
    BY <1>1, <2>1 DEF FreshClone, Fresh
<1> QED
  BY <1>1 DEF FreshStore

LEMMA RecachedPlaces ==
    ASSUME PlaceInv, UNCHANGED setup, NEW id \in DOMAIN store, NEW k, Recached(id, k),
           k.dynamic = store[id].ctx.cache.dynamic
    PROVE  FreshStore'
<1>1. ASSUME NEW x \in DOMAIN store'
      PROVE  x \in DOMAIN store /\ store'[x].ctx.cache.dynamic = store[x].ctx.cache.dynamic
  BY <1>1 DEF Recached
<1> QED
  BY <1>1, SameStorePlaces

LEMMA PoppedPlaces ==
    ASSUME TypeInv, PlaceInv, UNCHANGED setup, NEW id, Pop(id)
    PROVE  FreshStore'
<1>1. \A x \in DOMAIN store' : x \in DOMAIN store /\ store'[x] = store[x]
  BY Popped
<1> QED
  BY <1>1, SameStorePlaces

LEMMA StorePlaces ==
    ASSUME PlaceInv, UNCHANGED <<setup, store>>
    PROVE  FreshStore'
  BY DEF PlaceInv, FreshStore

LEMMA QueuePlaces ==
    ASSUME PlaceInv, UNCHANGED <<setup, queue>>
    PROVE  FreshQueue'
  BY DEF PlaceInv, FreshQueue

LEMMA TailPlaces ==
    ASSUME TypeInv, PlaceInv, queue # <<>>
    PROVE  /\ \A i \in DOMAIN Tail(queue) : FreshToken(setup, Tail(queue)[i])
           /\ FreshToken(setup, Head(queue))
  BY TailSequence DEF TypeInv, QueueInv, PlaceInv, FreshQueue

LEMMA AppendPlaces ==
    ASSUME NEW q, IsSequence(q), NEW s, \A i \in DOMAIN q : FreshToken(s, q[i]),
           NEW t, FreshToken(s, t)
    PROVE  \A i \in DOMAIN Append(q, t) : FreshToken(s, Append(q, t)[i])
<1>1. Len(q) \in Nat /\ DOMAIN q = 1..Len(q)
  BY Sequence
<1>2. \A i \in DOMAIN Append(q, t) : i \in DOMAIN q \/ i = Len(q) + 1
  BY <1>1, AppendSequence
<1> QED
  BY <1>2, AppendSequence

LEMMA AddedPlaces ==
    ASSUME TypeInv, PlaceInv, UNCHANGED setup, NEW t, FreshToken(setup, t),
           queue' = Append(queue, t)
    PROVE  FreshQueue'
<1>1. \A i \in DOMAIN Append(queue, t) : FreshToken(setup, Append(queue, t)[i])
  BY AppendPlaces DEF TypeInv, QueueInv, PlaceInv, FreshQueue
<1> QED
  BY <1>1 DEF FreshQueue

\* a call is made under a value that is not empty
LEMMA CallsAreNamed ==
    ASSUME TypeInv, NEW w \in Threads, SendData(w)
    PROVE  UNCHANGED store \/ ctx'[w].id[2] # Blank
<1> DEFINE c == [ctx[w] EXCEPT !.line = @ + 1]
           sent == ProcessNew(Line(c), Scenario(c).macros, c.cache)
           now == [c EXCEPT !.cache = sent.cache]
<1>1. Running(w)
  BY DEF SendData, Running
<1>2. IsContext(ctx[w])
  BY <1>1, RunningIsLocated DEF Located
<1>3. IsContext(c) /\ c.cache = ctx[w].cache
  BY <1>2, LineChanges
<1>4. UNCHANGED store \/ CallBefore(w, now, sent.command)
  BY DEF SendData, c
<1> HIDE DEF c
<1>5. IsCache(sent.cache)
  BY <1>3, ProcessNewShape DEF IsContext
<1> HIDE DEF sent
<1>6. IsContext(now)
  BY <1>3, <1>5, CacheChanges
<1> HIDE DEF now
<1>7. CASE CallBefore(w, now, sent.command)
  <2> DEFINE atom == now.cache.runtime[Line(now).value].atom
             id == <<Line(now).key, atom>>
             call == [now EXCEPT !.id = id]
  <2>1. UNCHANGED store \/ (SetContext(w, call) /\ atom # Blank)
    BY <1>7 DEF CallBefore
  <2>2. id[2] = atom
    OBVIOUS
  <2> HIDE DEF atom, id
  <2>3. call.id = id
    BY <1>6, IdChanges
  <2> HIDE DEF call
  <2>4. SetContext(w, call) => ctx'[w] = call
    BY DEF SetContext, TypeInv
  <2> QED
    BY <2>1, <2>2, <2>3, <2>4
<1> QED
  BY <1>4, <1>7

LEMMA SendDataPlaces ==
    ASSUME Inv, CacheInv, PlaceInv, NEW w \in Threads, SendData(w)
    PROVE  PlaceInv'
<1>1. TypeInv
  BY DEF Inv
<1>2. PICK x : x = ctx'[w]
  OBVIOUS
<1> DEFINE line == StepIn(setup, x)
           macros == setup.scenarios[x.scn].macros
           k == ctx[w].cache
           sent == ProcessNew(line, macros, k)
<1>3. /\ SendData0(w, x) /\ x.cache = sent.cache
      /\ \/ pc'[w] # "sent" /\ UNCHANGED command
         \/ /\ pc'[w] = "sent" /\ sent.outcome = "sent"
            /\ command' = [command EXCEPT ![w] = sent.command]
  BY <1>1, <1>2, SendDataData DEF SentWith
<1>4. UNCHANGED <<setup, queue>> /\ pc[w] = "line" /\ NextStep(ctx[w], x) /\ Running(w)
  BY <1>3 DEF SendData0, Running
<1>5. Located(setup, x) /\ x.line # 0
  <2>1. Located(setup, ctx[w])
    BY <1>1, <1>4, RunningIsLocated
  <2>2. ctx[w].line \in Nat
    BY <1>1, <2>1, LineIsNat DEF TypeInv
  <2> QED
    BY <1>4, <2>2 DEF NextStep
<1>6. IsStep(line)
  BY <1>1, <1>5, StepOfScenario
<1>7. AreTexts(line.fields) /\ IsCache(k) /\ Entries(k.with) /\ Fresh(setup, ctx[w])
  <2>1. IsCache(k)
    BY <1>1 DEF TypeInv, ContextInv, AtPoint, IsContext
  <2>2. Entries(k.with)
    BY DEF CacheInv, ContextCaches, Proper, Cached
  <2>3. Fresh(setup, ctx[w])
    BY DEF PlaceInv, Placed
  <2> QED
    BY <1>6, <2>1, <2>2, <2>3 DEF IsStep
<1> HIDE DEF line, macros
<1>8. sent.cache.with = k.with /\ sent.cache.dynamic = k.dynamic
  BY <1>7, ProcessNewDoes
<1>9. sent.outcome = "sent" => ResolvedFields(line, k.with, sent.command)
  BY <1>7, CommandResolves
<1> HIDE DEF sent
<1>10. Fresh(setup, x)
  BY <1>3, <1>7, <1>8 DEF Fresh
<1>11. FreshStore'
  <2>1. CASE UNCHANGED store
    BY <1>4, <2>1, StorePlaces
  <2>2. CASE store' = Stored(x.id, Clone(x)) /\ ~UNCHANGED store
    <3>1. x.id[2] # Blank
      BY <1>1, <1>2, <2>2, CallsAreNamed
    <3>2. /\ \A id \in DOMAIN store' : id = x.id \/ (id \in DOMAIN store /\ store'[id] = store[id])
          /\ store'[x.id].ctx = x
      BY <2>2 DEF Stored, Clone
    <3>3. ASSUME NEW id \in DOMAIN store' PROVE FreshClone(setup', id, store'[id])
      <4>1. CASE id = x.id
        BY <1>4, <1>10, <3>1, <3>2, <4>1 DEF FreshClone
      <4>2. CASE id \in DOMAIN store /\ store'[id] = store[id]
        BY <1>4, <4>2 DEF PlaceInv, FreshStore
      <4> QED
        BY <3>2, <3>3, <4>1, <4>2
    <3> QED
      BY <3>3 DEF FreshStore
  <2> QED
    BY <1>3, <2>1, <2>2 DEF SendData0
<1>12. FreshQueue'
  BY <1>4, QueuePlaces
<1>13. PICK at : Moves(w, x, at)
  BY <1>3 DEF SendData0, StepFails0
<1>14. pc'[w] = at
  BY <1>13, Moved
<1>15. CASE pc'[w] # "sent" /\ UNCHANGED command
  BY <1>4, <1>5, <1>10, <1>11, <1>12, <1>13, <1>14, <1>15, QuietStepPlaces
<1>16. CASE /\ pc'[w] = "sent" /\ sent.outcome = "sent"
            /\ command' = [command EXCEPT ![w] = sent.command]
  <2>1. ResolvedFields(StepIn(setup, x), x.cache.with, sent.command)
    BY <1>3, <1>8, <1>9, <1>16 DEF line
  <2>2. Placed(setup, w, x, at, sent.command)
    BY <1>5, <1>10, <2>1 DEF Placed
  <2> QED
    BY <1>4, <1>11, <1>12, <1>13, <1>16, <2>2, ThreadStepPlaces
<1> QED
  BY <1>3, <1>15, <1>16

LEMMA AnswerPlaces ==
    ASSUME Inv, CacheInv, PlaceInv, NEW w \in Threads, Answer(w)
    PROVE  PlaceInv'
<1> DEFINE c == ctx[w]
<1>1. TypeInv
  BY DEF Inv
<1>2. PICK d : d = ctx'[w]
  OBVIOUS
<1>3. /\ Answer0(w, d) /\ UNCHANGED command
      /\ \/ d = c /\ (UNCHANGED store \/ Pop(c.id))
         \/ \E resp : JudgedData(w, resp, d)
  BY <1>1, <1>2, AnswerData
<1>4. /\ UNCHANGED <<setup, queue>> /\ pc[w] = "sent" /\ InStep(w) /\ Running(w)
      /\ GrownStep(c, d)
  BY <1>3 DEF Answer0, InStep, Running
<1>5. Located(setup, c) /\ c.line # 0 /\ IsCache(c.cache) /\ IsStep(Line(c))
  <2>1. Located(setup, c) /\ c.line # 0
    BY <1>1, <1>4, RunningIsLocated DEF TypeInv, ContextInv, AtPoint
  <2> QED
    BY <1>1, <2>1, StepOfScenario DEF Located, IsContext
<1>6. PICK at \in {"scenario", "idle", "line", "answered"} : Moves(w, d, at)
  BY <1>3 DEF Answer0, StepFails0
<1>7. FreshQueue' /\ Fresh(setup, c) /\ d.line # 0
  BY <1>4, <1>5, QueuePlaces DEF PlaceInv, Placed, GrownStep, SameStep
<1>8. CASE d = c /\ (UNCHANGED store \/ Pop(c.id))
  <2>1. FreshStore'
    BY <1>1, <1>4, <1>8, PoppedPlaces, StorePlaces
  <2> QED
    BY <1>3, <1>4, <1>6, <1>7, <1>8, <2>1, QuietStepPlaces
<1>9. ASSUME NEW resp, JudgedData(w, resp, d)
      PROVE  PlaceInv'
  <2> DEFINE r == ProcessResponse(w, resp)
  <2>1. /\ Entries(resp) /\ d.cache = r.cache
        /\ \/ UNCHANGED store
           \/ /\ c.id \in DOMAIN store
              /\ store' = UpdateClone(c.id, Values(r.memory, "memory"))
    BY <1>9 DEF JudgedData
  <2>2. Entries(c.cache.with) /\ Entries(c.cache.runtime) /\ Entries(memory[w])
    BY DEF CacheInv, ContextCaches, Proper, Cached, MemoryCaches, MemoryOf
  <2>3. r.cache.dynamic = c.cache.dynamic
    BY <1>5, <2>1, <2>2, ProcessResponseKeeps
  <2>4. Fresh(setup, d)
    BY <1>7, <2>1, <2>3 DEF Fresh
  <2>5. FreshStore'
    <3>1. CASE UNCHANGED store
      BY <1>4, <3>1, StorePlaces
    <3>2. ASSUME NEW keys, c.id \in DOMAIN store, store' = UpdateClone(c.id, keys)
          PROVE  FreshStore'
      <4> DEFINE x == store[c.id].ctx
                 k == UpdateKeysPermanently(x.cache, keys)
      <4>1. Recached(c.id, k)
        BY <1>1, <3>2, UpdatedClone
      <4>2. IsCache(x.cache)
        BY <1>1, <3>2 DEF TypeInv, StoreInv, IsClone, Located, IsContext
      <4>3. k.dynamic = x.cache.dynamic
        BY <4>2, CacheParts
      <4> HIDE DEF k
      <4> QED
        BY <1>4, <3>2, <4>1, <4>3, RecachedPlaces
    <3> QED
      BY <2>1, <3>1, <3>2
  <2> HIDE DEF r
  <2> QED
    BY <1>3, <1>4, <1>6, <1>7, <2>4, <2>5, QuietStepPlaces
<1> QED
  BY <1>3, <1>8, <1>9

LEMMA AfterStepPlaces ==
    ASSUME Inv, PlaceInv, NEW w \in Threads, AfterStep(w)
    PROVE  PlaceInv'
<1> DEFINE c == ctx[w]
<1>1. /\ TypeInv /\ pc[w] = "answered" /\ Running(w)
      /\ UNCHANGED <<setup, command, queue>>
  BY DEF Inv, AfterStep, Running
<1>2. Located(setup, c) /\ IsContext(c) /\ IsCache(c.cache) /\ c.line # 0
  BY <1>1, RunningIsLocated DEF Located, IsContext, TypeInv, ContextInv, AtPoint
<1>3. FreshQueue' /\ Fresh(setup, c)
  BY <1>1, QueuePlaces DEF PlaceInv, Placed
<1>4. CASE Go(w, "line") /\ UNCHANGED <<ctx, store>>
  <2>1. Moves(w, c, "line")
    BY <1>1, <1>4, OnlyGo
  <2>2. FreshStore'
    BY <1>1, <1>4, StorePlaces
  <2> QED
    BY <1>1, <1>2, <1>3, <2>1, <2>2, QuietStepPlaces
<1>5. CASE /\ store' = IF c.id \in DOMAIN store THEN [store EXCEPT ![c.id].locked = FALSE] ELSE store
           /\ Go(w, "scenario") /\ UNCHANGED ctx
  <2>1. Moves(w, c, "scenario")
    BY <1>1, <1>5, OnlyGo
  <2>2. \A id \in DOMAIN store' : id \in DOMAIN store /\ store'[id].ctx = store[id].ctx
    <3>1. CASE c.id \notin DOMAIN store
      BY <1>5, <3>1
    <3>2. CASE c.id \in DOMAIN store
      <4> DEFINE y == [store[c.id] EXCEPT !.locked = FALSE]
      <4>1. y.ctx = store[c.id].ctx
        BY <1>1, <3>2, CloneFields DEF TypeInv, StoreInv, IsClone
      <4>2. store' = [store EXCEPT ![c.id] = y]
        BY <1>5, <3>2
      <4> HIDE DEF y
      <4>3. store' = [id \in DOMAIN store |-> IF id = c.id THEN y ELSE store[id]]
        BY <1>1, <4>2 DEF TypeInv
      <4> QED
        BY <4>1, <4>3
    <3> QED
      BY <3>1, <3>2
  <2>3. FreshStore'
    BY <1>1, <2>2, SameStorePlaces
  <2> QED
    BY <1>1, <1>3, <2>1, <2>3, QuietStepPlaces
<1>6. CASE /\ SetContext(w, KeepThread(c, store[c.id].ctx.cache.runtime))
           /\ Pop(c.id) /\ Go(w, "line")
  <2> DEFINE keys == store[c.id].ctx.cache.runtime
             d == KeepThread(c, keys)
  <2>1. SameStep(c, d) /\ d.cache = UpdateAsyncDataPermanently(c.cache, keys)
    BY <1>2, KeepThreadChanges
  <2>2. Moves(w, d, "line")
    BY <1>1, <1>6, SetAndGo
  <2> HIDE DEF d, keys
  <2>3. d.cache.dynamic = c.cache.dynamic /\ d.line # 0
    BY <1>2, <2>1, CacheParts DEF SameStep
  <2>4. Fresh(setup, d)
    BY <1>3, <2>3 DEF Fresh
  <2>5. FreshStore'
    BY <1>1, <1>6, PoppedPlaces
  <2> QED
    BY <1>1, <1>3, <2>2, <2>3, <2>4, <2>5, QuietStepPlaces
<1> QED
  BY <1>4, <1>5, <1>6 DEF AfterStep

LEMMA EndOfStepsPlaces ==
    ASSUME Inv, PlaceInv, NEW w \in Threads, EndOfSteps(w)
    PROVE  PlaceInv'
<1>1. Moves(w, ctx[w], "scenario") /\ UNCHANGED <<setup, store, queue, command>>
  BY EndOfStepsDoes DEF Inv, EndOfSteps
<1>2. FreshStore' /\ FreshQueue' /\ Fresh(setup, ctx[w])
  BY <1>1, StorePlaces, QueuePlaces DEF PlaceInv, Placed
<1> QED
  BY <1>1, <1>2, QuietStepPlaces

LEMMA LiteralIsValue ==
    ASSUME NEW a, a # Blank
    PROVE  IsValue(Literal(a))
<1> DEFINE t == Literal(a)
<1>1. t.calls = 0 /\ t.ref = FALSE /\ t.atom = a
  BY LiteralEntry
<1> HIDE DEF t
<1>2. IsValue(t)
  BY <1>1 DEF IsValue
<1> QED
  BY <1>2 DEF t

LEMMA SingleIsValue ==
    ASSUME NEW k, NEW t, IsValue(t)
    PROVE  AreValues(Single(k, t))
<1> DEFINE s == Single(k, t)
<1>1. DOMAIN s = {k} /\ s[k] = t
  BY SingleEntry
<1> HIDE DEF s
<1>2. AreValues(s)
  BY <1>1 DEF AreValues
<1> QED
  BY <1>2 DEF s

LEMMA EnvironmentIsValues ==
    ASSUME NEW w \in Threads, AreValues(Env)
    PROVE  AreValues(Environment(w))
<1> DEFINE own == Single("THREAD", Literal(w))
<1>1. w # Blank
  BY NamesAssumption
<1>2. IsValue(Literal(w))
  BY <1>1, LiteralIsValue
<1>3. AreValues(own)
  BY <1>2, SingleIsValue
<1>4. Environment(w) = Updated(Env, own)
  BY DEF Environment
<1> HIDE DEF own
<1> QED
  BY <1>3, <1>4 DEF AreValues, Updated

LEMMA NextScenarioPlaces ==
    ASSUME Inv, CacheInv, PlaceInv, NEW w \in Threads, NextScenario(w)
    PROVE  PlaceInv'
<1>1. TypeInv
  BY DEF Inv
<1>2. Given(ctx[w].cache.dynamic) /\ IsCache(ctx[w].cache) /\ Fresh(setup, ctx[w])
  BY <1>1 DEF CacheInv, ContextCaches, Proper, Cached, TypeInv, ContextInv, AtPoint, IsContext,
     PlaceInv, Placed
<1>3. UNCHANGED <<setup, store, queue, command>>
  BY <1>1, NextScenarioData
<1>4. FreshStore' /\ FreshQueue'
  BY <1>3, StorePlaces, QueuePlaces
<1>5. CASE Moves(w, ctx[w], "idle")
  BY <1>2, <1>3, <1>4, <1>5, QuietStepPlaces
<1>6. ASSUME NEW d, NEW uid, Moves(w, d, "line"), Located(setup, d),
             d.cache \in ScenarioCaches(Scenario(d), uid, ctx[w].cache, Environment(w))
      PROVE  PlaceInv'
  <2>1. IsScenario(Scenario(d)) /\ Given(Environment(w))
    BY <1>1, <1>6, StepOfScenario, EnvironmentIsGiven
  <2>2. d.cache.dynamic = <<>>
    BY <1>2, <1>6, <2>1, ScenarioCachesAreGiven
  <2>3. Fresh(setup, d)
    BY <2>2, NothingIsGiven DEF Fresh, AreValues
  <2>4. SectionIn(setup, w, d)
    <3> DEFINE env == DOMAIN Environment(w) \ {TransactionId}
    <3> SUFFICES ASSUME AreValues(Env), AreValues(setup.data),
                        NEW k \in ThreeNear(Scenario(d).context, env)
                 PROVE  k \in DOMAIN d.cache.with /\ IsValue(d.cache.with[k])
      BY DEF SectionIn, Scenario
    <3>1. AreValues(ctx[w].cache.dynamic) /\ AreValues(Environment(w))
      BY <1>2, EnvironmentIsValues DEF Fresh
    <3>2. PICK near : near = ThreeNear(Scenario(d).context, env)
      OBVIOUS
    <3>3. k \in near
      BY <3>2
    <3>4. near = Resolvable(Scenario(d).context, DOMAIN Environment(w) \ {TransactionId},
                   Resolvable(Scenario(d).context, DOMAIN Environment(w) \ {TransactionId},
                     Resolvable(Scenario(d).context, DOMAIN Environment(w) \ {TransactionId}, {})))
      BY <3>2 DEF ThreeNear
    <3> QED
      BY <1>2, <1>6, <2>1, <3>1, <3>3, <3>4, SectionIsEvaluated
  <2> QED
    BY <1>3, <1>4, <1>6, <2>3, <2>4, QuietStepPlaces
<1> QED
  BY <1>1, <1>5, <1>6, NextScenarioData

LEMMA EventKeysAreValues ==
    ASSUME NEW id, id[2] # Blank, AreTexts(setup.data), AreValues(setup.data)
    PROVE  AreValues(EventKeys(id))
<1> DEFINE data == Values(setup.data, "event")
           own == Single(id[1], Literal(id[2]))
<1>1. AreValues(data)
  <2>1. /\ DOMAIN data = DOMAIN setup.data
        /\ \A k \in DOMAIN data : /\ data[k].calls = setup.data[k].calls
                                  /\ data[k].ref = setup.data[k].ref
                                  /\ data[k].atom = setup.data[k].atom
    BY TextsAreGiven, ValuesOfKind
  <2> HIDE DEF data
  <2> QED
    BY <2>1 DEF AreValues, IsValue
<1>2. IsValue(Literal(id[2]))
  BY LiteralIsValue
<1>3. AreValues(own)
  BY <1>2, SingleIsValue
<1>4. EventKeys(id) = Updated(data, own)
  BY DEF EventKeys
<1> HIDE DEF data, own
<1> QED
  BY <1>1, <1>3, <1>4 DEF AreValues, Updated

LEMMA ProcessScenarioPlaces ==
    ASSUME Inv, PlaceInv, NEW w \in Threads, ProcessScenario(w)
    PROVE  PlaceInv'
<1>1. TypeInv /\ pc[w] = "idle" /\ UNCHANGED <<setup, command>>
  BY DEF Inv, ProcessScenario
<1>2. Fresh(setup, ctx[w])
  BY DEF PlaceInv, Placed
<1>3. UNCHANGED store => FreshStore'
  BY <1>1, StorePlaces
<1>4. queue # <<>> /\ queue' = Tail(queue) => FreshQueue'
  BY <1>1, TailPlaces DEF FreshQueue
<1>5. ASSUME NEW keys, Given(keys), AreValues(setup.data) => AreValues(keys),
             StartContext(w, keys), UNCHANGED store, FreshQueue'
      PROVE  PlaceInv'
  <2>1. PICK d : d = ctx'[w]
    OBVIOUS
  <2>2. Moves(w, d, "scenario") /\ d.cache.dynamic = Updated(<<>>, keys)
    BY <1>1, <1>5, <2>1, StartIsProper
  <2>3. AreValues(keys) => AreValues(Updated(<<>>, keys))
    BY NothingIsGiven DEF AreValues, Updated
  <2>4. Fresh(setup, d)
    BY <1>5, <2>2, <2>3 DEF Fresh
  <2> QED
    BY <1>1, <1>3, <1>5, <2>2, <2>4, QuietStepPlaces
<1>6. CASE /\ queue # <<>> /\ Head(queue).type = "context"
           /\ SetContext(w, Resumed(Head(queue).ctx))
           /\ Go(w, IF Head(queue).ctx.continue THEN "line" ELSE "scenario")
           /\ queue' = Tail(queue) /\ UNCHANGED store
  <2> DEFINE c == Head(queue).ctx
             d == Resumed(c)
             at == IF c.continue THEN "line" ELSE "scenario"
  <2>1. IsContext(c) /\ Fresh(setup, c) /\ c.line # 0
    BY <1>1, <1>6, TailPlaces, QueueTail DEF IsToken, Located, FreshToken
  <2>2. d.line = c.line /\ d.cache = c.cache
    BY <2>1, ResumedChanges
  <2>3. Moves(w, d, at)
    BY <1>1, <1>6, SetAndGo
  <2>4. at # "sent"
    OBVIOUS
  <2> HIDE DEF c, d, at
  <2>5. Fresh(setup, d) /\ d.line # 0
    BY <2>1, <2>2 DEF Fresh
  <2> QED
    BY <1>1, <1>3, <1>4, <1>6, <2>3, <2>4, <2>5, QuietStepPlaces
<1>7. CASE /\ queue # <<>> /\ Head(queue).id \in DOMAIN store
           /\ ProcessCallback(w, store[Head(queue).id].ctx, Tail(queue))
           /\ Pop(Head(queue).id)
  <2> DEFINE x == store[Head(queue).id].ctx
             t == [type |-> "context", ctx |-> x]
  <2>1. /\ Moves(w, ctx[w], "idle")
        /\ queue' = Tail(queue) \/ queue' = Append(Tail(queue), t)
    BY <1>1, <1>7, OnlyGo DEF ProcessCallback
  <2>2. FreshStore'
    BY <1>1, <1>7, PoppedPlaces
  <2>3. Fresh(setup, x) /\ x.line # 0
    BY <1>1, <1>7 DEF PlaceInv, FreshStore, FreshClone, TypeInv, StoreInv, IsClone
  <2> HIDE DEF x
  <2>4. t.type = "context" /\ t.ctx = x
    OBVIOUS
  <2> HIDE DEF t
  <2>5. FreshToken(setup, t)
    BY <2>3, <2>4 DEF FreshToken
  <2>6. FreshQueue'
    <3>1. CASE queue' = Tail(queue)
      BY <1>4, <1>7, <3>1
    <3>2. CASE queue' = Append(Tail(queue), t)
      <4>1. IsSequence(Tail(queue))
        BY <1>1, <1>7, QueueTail
      <4>2. \A i \in DOMAIN Append(Tail(queue), t) : FreshToken(setup, Append(Tail(queue), t)[i])
        BY <1>1, <1>7, <2>5, <4>1, TailPlaces, AppendPlaces
      <4> QED
        BY <1>1, <3>2, <4>2 DEF FreshQueue
    <3> QED
      BY <2>1, <3>1, <3>2
  <2> QED
    BY <1>1, <1>2, <2>1, <2>2, <2>6, QuietStepPlaces
<1>8. CASE /\ queue # <<>> /\ Go(w, "idle") /\ UNCHANGED ctx
           /\ queue' = Tail(queue) /\ UNCHANGED store
  <2>1. Moves(w, ctx[w], "idle")
    BY <1>1, <1>8, OnlyGo
  <2> QED
    BY <1>1, <1>2, <1>3, <1>4, <1>8, <2>1, QuietStepPlaces
<1>9. AreValues(<<>>)
  BY NothingIsGiven DEF AreValues
<1>10. CASE queue = <<>> /\ StartContext(w, <<>>) /\ UNCHANGED <<queue, store>>
  BY <1>1, <1>5, <1>9, <1>10, NothingIsGiven, QueuePlaces
<1>11. CASE queue # <<>> /\ StartContext(w, <<>>) /\ queue' = Tail(queue) /\ UNCHANGED store
  BY <1>4, <1>5, <1>9, <1>11, NothingIsGiven
<1>12. CASE /\ queue # <<>> /\ Head(queue).type = "callback"
            /\ Head(queue).id \notin DOMAIN store
            /\ IF setup.waiting
                  THEN StartContext(w, EventKeys(Head(queue).id))
                  ELSE Go(w, "idle") /\ UNCHANGED ctx
            /\ queue' = Tail(queue)
            /\ UNCHANGED store
  <2>1. Head(queue).id[2] # Blank
    BY <1>1, <1>12, TailPlaces DEF FreshToken
  <2>2. Given(EventKeys(Head(queue).id)) /\ AreTexts(setup.data)
    BY <1>1, DataOfEvents
  <2>3. AreValues(setup.data) => AreValues(EventKeys(Head(queue).id))
    BY <2>1, <2>2, EventKeysAreValues
  <2> QED
    BY <1>4, <1>5, <1>8, <1>12, <2>2, <2>3
<1> QED
  BY <1>6, <1>7, <1>10, <1>11, <1>12 DEF ProcessScenario

\* the threads around
LEMMA OutsideStepPlaces ==
    ASSUME PlaceInv, UNCHANGED <<setup, pc, ctx, command>>, FreshStore', FreshQueue'
    PROVE  PlaceInv'
  BY DEF PlaceInv

LEMMA NotifyPlaces ==
    ASSUME Inv, PlaceInv, NEW id \in DOMAIN store, Notify(id)
    PROVE  PlaceInv'
<1>1. TypeInv /\ UNCHANGED <<setup, pc, ctx, command>>
  BY DEF Inv, Notify, threadVars
<1>2. CASE /\ store' = [store EXCEPT ![id] =
                           Flagged(@, Answered(setup.data, store[id].ctx, "notification"))]
           /\ UNCHANGED queue
  <2> DEFINE x == store[id].ctx
             new == Answered(setup.data, x, "notification")
             k == UpdateKeys(x.cache, new)
  <2>1. Recached(id, k)
    BY <1>1, <1>2, FlaggedClone
  <2>2. IsCache(x.cache)
    BY <1>1 DEF TypeInv, StoreInv, IsClone, Located, IsContext
  <2> HIDE DEF new
  <2>3. k.dynamic = x.cache.dynamic
    BY <2>2, CacheParts
  <2> HIDE DEF k
  <2>4. FreshStore'
    BY <1>1, <2>1, <2>3, RecachedPlaces
  <2> QED
    BY <1>1, <1>2, <2>4, QueuePlaces, OutsideStepPlaces
<1>3. CASE queue' = Append(queue, [type |-> "callback", id |-> id]) /\ UNCHANGED store
  <2> DEFINE t == [type |-> "callback", id |-> id]
  <2>1. t.type = "callback" /\ t.id = id
    OBVIOUS
  <2> HIDE DEF t
  <2>2. id[2] # Blank
    BY DEF PlaceInv, FreshStore, FreshClone
  <2>3. FreshToken(setup, t)
    BY <2>1, <2>2 DEF FreshToken
  <2>4. FreshQueue'
    BY <1>1, <1>3, <2>3, AddedPlaces DEF t
  <2> QED
    BY <1>1, <1>3, <2>4, StorePlaces, OutsideStepPlaces
<1> QED
  BY <1>2, <1>3 DEF Notify

LEMMA TimeOutPlaces ==
    ASSUME Inv, PlaceInv, NEW id \in DOMAIN store, TimeOut(id)
    PROVE  PlaceInv'
<1> DEFINE x == store[id].ctx
<1>1. TypeInv /\ UNCHANGED <<setup, pc, ctx, command>> /\ Pop(id) /\ TimeOut0(id)
  BY TimeOutDoes DEF Inv, TimeOut, threadVars
<1>2. Fresh(setup, x) /\ x.line # 0
  BY <1>1 DEF PlaceInv, FreshStore, FreshClone, TypeInv, StoreInv, IsClone
<1>3. \/ UNCHANGED queue
      \/ \E d : TokenOf(x, d) /\ queue' = Append(queue, [type |-> "context", ctx |-> d])
  BY <1>1 DEF TimeOut0
<1> HIDE DEF x
<1>4. ASSUME NEW d, TokenOf(x, d), queue' = Append(queue, [type |-> "context", ctx |-> d])
      PROVE  FreshQueue'
  <2> DEFINE t == [type |-> "context", ctx |-> d]
  <2>1. t.type = "context" /\ t.ctx = d
    OBVIOUS
  <2> HIDE DEF t
  <2>2. Fresh(setup, d) /\ d.line # 0
    BY <1>2, <1>4 DEF TokenOf, Fresh
  <2>3. FreshToken(setup, t)
    BY <2>1, <2>2 DEF FreshToken
  <2> QED
    BY <1>1, <1>4, <2>3, AddedPlaces DEF t
<1>5. FreshQueue'
  BY <1>1, <1>3, <1>4, QueuePlaces
<1>6. FreshStore'
  BY <1>1, PoppedPlaces
<1> QED
  BY <1>1, <1>5, <1>6, OutsideStepPlaces

LEMMA EventPlaces ==
    ASSUME Inv, PlaceInv, Event
    PROVE  PlaceInv'
<1>1. TypeInv /\ UNCHANGED <<setup, pc, ctx, command, store>>
  BY DEF Inv, Event, threadVars
<1>2. PICK t \in {[type |-> "callback", id |-> <<"event", "event">>], [type |-> "start"]} :
        queue' = Append(queue, t)
  BY DEF Event
<1>3. FreshToken(setup, t)
  <2>1. CASE t = [type |-> "callback", id |-> <<"event", "event">>]
    BY <2>1 DEF FreshToken, Blank
  <2>2. CASE t = [type |-> "start"]
    BY <2>2 DEF FreshToken
  <2> QED
    BY <2>1, <2>2
<1> QED
  BY <1>1, <1>2, <1>3, AddedPlaces, StorePlaces, OutsideStepPlaces

LEMMA PlaceInit == Init => PlaceInv
<1> SUFFICES ASSUME Init PROVE PlaceInv
  OBVIOUS
<1>1. NoContext.cache = EmptyCache /\ EmptyCache.dynamic = <<>>
  BY DEF NoContext, EmptyCache
<1>2. AreValues(<<>>)
  BY NothingIsGiven DEF AreValues
<1>3. Fresh(setup, NoContext)
  BY <1>1, <1>2 DEF Fresh
<1>4. \A w \in Threads : ctx[w] = NoContext /\ pc[w] = "idle"
  BY DEF Init
<1>5. \A w \in Threads : Placed(setup, w, ctx[w], pc[w], command[w])
  BY <1>3, <1>4 DEF Placed
<1>6. DOMAIN store = {} /\ DOMAIN queue = {}
  BY NothingIsGiven DEF Init
<1>7. command = [w \in Threads |-> command[w]]
  BY DEF Init
<1> QED
  BY <1>5, <1>6, <1>7 DEF PlaceInv, FreshStore, FreshQueue

LEMMA PlaceNext == Inv /\ CacheInv /\ PlaceInv /\ [Next]_vars => PlaceInv'
<1> SUFFICES ASSUME Inv, CacheInv, PlaceInv, [Next]_vars
             PROVE  PlaceInv'
  OBVIOUS
<1>1. ASSUME NEW w \in Threads,
             ProcessScenario(w) \/ NextScenario(w) \/ SendData(w) \/ EndOfSteps(w) \/ Answer(w)
             \/ AfterStep(w)
      PROVE  PlaceInv'
  BY <1>1, ProcessScenarioPlaces, NextScenarioPlaces, SendDataPlaces, EndOfStepsPlaces,
     AnswerPlaces, AfterStepPlaces
<1>2. ASSUME NEW id \in DOMAIN store, Notify(id) \/ TimeOut(id)
      PROVE  PlaceInv'
  BY <1>2, NotifyPlaces, TimeOutPlaces
<1>3. CASE UNCHANGED vars
  BY <1>3, StorePlaces, QueuePlaces, OutsideStepPlaces DEF vars, threadVars
<1> QED
  BY <1>1, <1>2, <1>3, EventPlaces DEF Next

LEMMA PlacesAreRight == TypeInv /\ PlaceInv => PlaceholdersAreResolved
<1> SUFFICES ASSUME TypeInv, PlaceInv PROVE PlaceholdersAreResolved
  OBVIOUS
<1>1. \A w \in Threads : Placed(setup, w, ctx[w], pc[w], command[w])
  BY DEF PlaceInv
<1>2. ContextIsEvaluated
  BY <1>1 DEF Placed, SectionIn, ThreeNear, ContextIsEvaluated, Scenario
<1>3. CommandIsResolved
  BY <1>1 DEF Placed, ResolvedFields, NearFields, FarFields, CommandIsResolved, Line, Scenario,
     StepIn
<1> QED
  BY <1>2, <1>3 DEF PlaceholdersAreResolved

\* What the run "execution" checks of placeholders, for all sections, fields and orders of a
\* dictionary: getNextScenario() leaves none in a key that is at most two placeholders away
\* from a value, and processNew() none in what it sends.
THEOREM PlaceholdersResolved == Spec => []PlaceholdersAreResolved
<1>1. Init => Inv /\ CacheInv /\ PlaceInv
  BY InvInit, CacheInit, PlaceInit
<1>2. (Inv /\ CacheInv /\ PlaceInv) /\ [Next]_vars => (Inv /\ CacheInv /\ PlaceInv)'
  BY InvNext, CacheNext, PlaceNext
<1>3. Inv /\ CacheInv /\ PlaceInv => PlaceholdersAreResolved
  BY PlacesAreRight DEF Inv
<1> QED
  BY <1>1, <1>2, <1>3, PTL DEF Spec
=============================================================================
