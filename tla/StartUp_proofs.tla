--------------------------- MODULE StartUp_proofs ---------------------------
(***************************************************************************)
(* Theorems about StartUp, for any number of processes, any properties and *)
(* any library of scenario files.                                          *)
(***************************************************************************)
EXTENDS StartUp, FiniteSetTheorems, SequenceTheorems, WellFoundedInduction, TLAPS

(* Induction over the natural numbers, by the least number that fails.     *)

LEMMA LeastNumber ==
    ASSUME NEW S \in SUBSET Nat, S # {}
    PROVE  \E m \in S : \A n \in S : m <= n
<1> DEFINE R == OpToRel(<, Nat)
<1>1. IsWellFoundedOn(R, Nat)
  BY NatLessThanWellFounded
<1>2. \A n, m \in S : n < m => <<n, m>> \in R
  BY DEF OpToRel
<1> HIDE DEF R
<1>3. PICK m \in S : \A n \in S : ~(<<n, m>> \in R)
  BY <1>1, WFMin
<1>4. \A n \in S : ~(n < m)
  BY <1>2, <1>3
<1> QED
  BY <1>3, <1>4

\* A set of numbers that has 0 and with each number up to a bound the next one has all of
\* them.
LEMMA UpTo ==
    ASSUME NEW bound \in Nat, NEW S, 0 \in S,
           \A n \in Nat : n < bound /\ n \in S => n + 1 \in S
    PROVE  \A n \in 0..bound : n \in S
<1> DEFINE Bad == {n \in Nat : n <= bound /\ n \notin S}
<1> SUFFICES ASSUME Bad # {} PROVE FALSE
  OBVIOUS
<1>1. PICK m \in Bad : \A n \in Bad : m <= n
  BY LeastNumber
<1>2. m # 0 /\ m - 1 \in Nat /\ m - 1 < bound
  OBVIOUS
<1>3. m - 1 \in S
  BY <1>1, <1>2
<1>4. m - 1 + 1 \in S
  BY <1>2, <1>3
<1> QED
  BY <1>4

-----------------------------------------------------------------------------
(* A function on 1..n is a sequence, and a sequence is one.                *)

LEMMA FunctionIsSeq ==
    ASSUME NEW S, NEW n \in Nat, NEW s \in [1..n -> S]
    PROVE  s \in Seq(S) /\ Len(s) = n /\ DOMAIN s = 1..n
<1>1. s \in Seq(S)
  BY SeqDef
<1>2. 1..Len(s) = 1..n /\ Len(s) \in Nat
  BY <1>1, LenProperties
<1>3. Len(s) = n
  <2>1. Len(s) # 0 => Len(s) \in 1..n
    BY <1>2
  <2>2. n # 0 => n \in 1..Len(s)
    BY <1>2
  <2> QED
    BY <1>2, <2>1, <2>2
<1> QED
  BY <1>1, <1>3

LEMMA SeqNarrowed ==
    ASSUME NEW S, NEW T, NEW s \in Seq(S), \A i \in 1..Len(s) : s[i] \in T
    PROVE  s \in Seq(T)
<1>1. s \in [1..Len(s) -> T] /\ Len(s) \in Nat
  BY LenProperties
<1> QED
  BY <1>1, FunctionIsSeq

-----------------------------------------------------------------------------
(* FlattenSeq: the community module defines it by a recursive function.    *)

IsFlat(f, s, n) == f = [i \in 1..n |-> IF i = 1 THEN s[i] ELSE f[i - 1] \o s[i]]

LEMMA FlatAt ==
    ASSUME NEW s, NEW n \in Nat, NEW f, IsFlat(f, s, n), NEW i \in 1..n
    PROVE  f[i] = IF i = 1 THEN s[i] ELSE f[i - 1] \o s[i]
<1> DEFINE F(k) == IF k = 1 THEN s[k] ELSE f[k - 1] \o s[k]
<1>1. f = [k \in 1..n |-> F(k)]
  BY DEF IsFlat
<1> HIDE DEF F
<1>2. f[i] = F(i)
  BY <1>1
<1> QED
  BY <1>2 DEF F

LEMMA FlatExists == ASSUME NEW s, NEW n \in Nat PROVE \E f : IsFlat(f, s, n)
<1> DEFINE S == {m \in Nat : \E f : IsFlat(f, s, m)}
<1>1. 0 \in S
  <2> DEFINE f == [i \in 1..0 |-> s[i]]
  <2>1. f = [i \in 1..0 |-> IF i = 1 THEN s[i] ELSE f[i - 1] \o s[i]]
    OBVIOUS
  <2> QED
    BY <2>1 DEF IsFlat
<1>2. ASSUME NEW m \in Nat, m \in S PROVE m + 1 \in S
  <2>1. PICK g : IsFlat(g, s, m)
    BY <1>2
  <2> DEFINE f == [i \in 1..m + 1 |-> IF i # m + 1 THEN g[i]
                                      ELSE IF i = 1 THEN s[i] ELSE g[i - 1] \o s[i]]
  <2>2. ASSUME NEW i \in 1..m + 1
        PROVE  f[i] = IF i = 1 THEN s[i] ELSE f[i - 1] \o s[i]
    <3>1. i # 1 => f[i - 1] = g[i - 1]
      OBVIOUS
    <3>2. i # m + 1 => g[i] = IF i = 1 THEN s[i] ELSE g[i - 1] \o s[i]
      <4>1. i # m + 1 => i \in 1..m
        OBVIOUS
      <4> QED
        BY <2>1, <4>1, FlatAt
    <3> QED
      BY <3>1, <3>2
  <2>3. f = [i \in 1..m + 1 |-> IF i = 1 THEN s[i] ELSE f[i - 1] \o s[i]]
    BY <2>2
  <2> HIDE DEF f
  <2>4. IsFlat(f, s, m + 1)
    BY <2>3 DEF IsFlat
  <2> QED
    BY <2>4
<1> HIDE DEF S
<1>3. n \in S
  BY <1>1, <1>2, UpTo
<1> QED
  BY <1>3 DEF S

LEMMA FlattenIsFlat ==
    ASSUME NEW s, Len(s) \in Nat, Len(s) # 0
    PROVE  \E f : IsFlat(f, s, Len(s)) /\ FlattenSeq(s) = f[Len(s)]
<1> DEFINE f == CHOOSE g : g = [i \in 1..Len(s) |-> IF i = 1 THEN s[i] ELSE g[i - 1] \o s[i]]
<1>1. IsFlat(f, s, Len(s))
  BY FlatExists DEF IsFlat
<1>2. FlattenSeq(s) = f[Len(s)]
  BY DEF FlattenSeq
<1> QED
  BY <1>1, <1>2

\* the first n elements are the same
Agree(s, t, n) == \A i \in 1..n : s[i] = t[i]

LEMMA FlatUnique ==
    ASSUME NEW s, NEW t, NEW n \in Nat, NEW m \in Nat, n <= m, NEW f, NEW g,
           IsFlat(f, s, n), IsFlat(g, t, m), Agree(s, t, n)
    PROVE  \A i \in 1..n : f[i] = g[i]
<1> DEFINE S == {i \in Nat : i = 0 \/ f[i] = g[i]}
<1>1. ASSUME NEW i \in Nat, i < n, i \in S PROVE i + 1 \in S
  <2>1. i + 1 \in 1..n /\ i + 1 \in 1..m
    BY <1>1
  <2>2. /\ f[i + 1] = IF i + 1 = 1 THEN s[i + 1] ELSE f[i + 1 - 1] \o s[i + 1]
        /\ g[i + 1] = IF i + 1 = 1 THEN t[i + 1] ELSE g[i + 1 - 1] \o t[i + 1]
    BY <2>1, FlatAt
  <2>3. i + 1 - 1 = i /\ (i + 1 # 1 => f[i] = g[i])
    BY <1>1
  <2> QED
    BY <2>1, <2>2, <2>3 DEF Agree
<1> HIDE DEF S
<1>2. 0 \in S
  BY DEF S
<1>3. \A i \in 0..n : i \in S
  BY <1>1, <1>2, UpTo
<1> QED
  BY <1>3 DEF S

LEMMA FlattenEmpty == ASSUME NEW s, Len(s) = 0 PROVE FlattenSeq(s) = s
  BY DEF FlattenSeq

LEMMA FlattenType == ASSUME NEW S, NEW s \in Seq(Seq(S)) PROVE FlattenSeq(s) \in Seq(S)
<1>1. Len(s) \in Nat
  BY LenProperties
<1>2. CASE Len(s) = 0
  BY <1>2, FlattenEmpty, EmptySeq, LenProperties
<1>3. CASE Len(s) # 0
  <2>1. PICK f : IsFlat(f, s, Len(s)) /\ FlattenSeq(s) = f[Len(s)]
    BY <1>1, <1>3, FlattenIsFlat
  <2> DEFINE I == {i \in Nat : i = 0 \/ f[i] \in Seq(S)}
  <2>2. ASSUME NEW i \in Nat, i < Len(s), i \in I PROVE i + 1 \in I
    <3>1. i + 1 \in 1..Len(s) /\ i + 1 - 1 = i
      BY <1>1, <2>2
    <3>2. f[i + 1] = IF i + 1 = 1 THEN s[i + 1] ELSE f[i] \o s[i + 1]
      BY <1>1, <2>1, <3>1, FlatAt
    <3>3. s[i + 1] \in Seq(S)
      BY <3>1, ElementOfSeq
    <3>4. f[i + 1] \in Seq(S)
      BY <2>2, <3>2, <3>3, ConcatProperties
    <3> QED
      BY <3>4
  <2> HIDE DEF I
  <2>3. 0 \in I
    BY DEF I
  <2>4. Len(s) \in I
    <3>1. \A i \in 0..Len(s) : i \in I
      BY <1>1, <2>2, <2>3, UpTo
    <3> QED
      BY <1>1, <3>1
  <2> QED
    BY <1>3, <2>1, <2>4 DEF I
<1> QED
  BY <1>2, <1>3

LEMMA FlattenStart ==
    ASSUME NEW s, NEW t, Len(s) \in Nat, Len(s) # 0, Len(t) \in Nat, Len(s) <= Len(t),
           Agree(s, t, Len(s)), NEW g, IsFlat(g, t, Len(t))
    PROVE  FlattenSeq(s) = g[Len(s)]
<1>1. PICK f : IsFlat(f, s, Len(s)) /\ FlattenSeq(s) = f[Len(s)]
  BY FlattenIsFlat
<1>2. \A i \in 1..Len(s) : f[i] = g[i]
  BY <1>1, FlatUnique
<1> QED
  BY <1>1, <1>2

OneMore(s, t) == Len(t) = Len(s) + 1 /\ \A i \in 1..Len(s) : s[i] = t[i]

\* One more sequence comes at the end.
LEMMA FlattenMore ==
    ASSUME NEW S, NEW s \in Seq(Seq(S)), NEW t \in Seq(Seq(S)), OneMore(s, t)
    PROVE  FlattenSeq(t) = FlattenSeq(s) \o t[Len(t)]
<1>1. Len(s) \in Nat /\ Len(t) \in Nat
  BY LenProperties
<1>0. Len(t) # 0 /\ Len(s) <= Len(t) /\ Agree(s, t, Len(s))
  BY <1>1 DEF OneMore, Agree
<1>2. PICK g : IsFlat(g, t, Len(t)) /\ FlattenSeq(t) = g[Len(t)]
  BY <1>0, <1>1, FlattenIsFlat
<1>3. g[Len(t)] = IF Len(t) = 1 THEN t[Len(t)] ELSE g[Len(t) - 1] \o t[Len(t)]
  <2>1. PICK n \in Nat : n = Len(t)
    BY <1>1
  <2>2. n \in 1..n
    BY <1>0, <2>1
  <2>3. IsFlat(g, t, n)
    BY <1>2, <2>1
  <2>4. g[n] = IF n = 1 THEN t[n] ELSE g[n - 1] \o t[n]
    BY <2>2, <2>3, FlatAt
  <2> QED
    BY <2>1, <2>4
<1>4. t[Len(t)] \in Seq(S)
  BY <1>0, <1>1, ElementOfSeq
<1>5. CASE Len(s) = 0
  <2>1. s = <<>> /\ FlattenSeq(s) = <<>>
    BY <1>5, FlattenEmpty, EmptySeq, LenProperties
  <2>2. Len(t) = 1
    BY <1>5 DEF OneMore
  <2> QED
    BY <1>2, <1>3, <1>4, <2>1, <2>2, ConcatEmptySeq
<1>6. CASE Len(s) # 0
  <2>1. FlattenSeq(s) = g[Len(s)]
    BY <1>0, <1>1, <1>2, <1>6, FlattenStart
  <2>2. Len(t) # 1 /\ Len(t) - 1 = Len(s)
    BY <1>1, <1>6 DEF OneMore
  <2> QED
    BY <1>2, <1>3, <2>1, <2>2
<1> QED
  BY <1>1, <1>5, <1>6

LEMMA FlattenAppend ==
    ASSUME NEW S, NEW s \in Seq(Seq(S)), NEW e \in Seq(S)
    PROVE  FlattenSeq(Append(s, e)) = FlattenSeq(s) \o e
<1>1. /\ Append(s, e) \in Seq(Seq(S)) /\ Len(Append(s, e)) = Len(s) + 1
      /\ \A i \in 1..Len(s) : s[i] = Append(s, e)[i]
      /\ Append(s, e)[Len(s) + 1] = e
  BY AppendProperties
<1> QED
  BY <1>1, FlattenMore DEF OneMore

\* What is in a flattened sequence is in one of its sequences.
LEMMA FlattenParts ==
    ASSUME NEW S, NEW s \in Seq(Seq(S)), NEW i \in DOMAIN FlattenSeq(s)
    PROVE  \E k \in DOMAIN s : \E j \in DOMAIN s[k] : FlattenSeq(s)[i] = s[k][j]
<1> DEFINE T == {x \in S : \E k \in DOMAIN s : \E j \in DOMAIN s[k] : x = s[k][j]}
<1>1. DOMAIN s = 1..Len(s) /\ Len(s) \in Nat
  BY LenProperties
<1>2. ASSUME NEW k \in 1..Len(s) PROVE s[k] \in Seq(T)
  <2>1. s[k] \in Seq(S)
    BY ElementOfSeq
  <2>2. /\ DOMAIN s[k] = 1..Len(s[k]) /\ Len(s[k]) \in Nat
        /\ \A j \in 1..Len(s[k]) : s[k][j] \in S
    BY <2>1, LenProperties, ElementOfSeq
  <2>3. \A j \in 1..Len(s[k]) : s[k][j] \in T
    BY <1>1, <2>2
  <2> HIDE DEF T
  <2> QED
    BY <2>1, <2>3, SeqNarrowed
<1> HIDE DEF T
<1>3. s \in Seq(Seq(T))
  BY <1>2, SeqNarrowed
<1>4. FlattenSeq(s) \in Seq(T)
  BY <1>3, FlattenType
<1>5. FlattenSeq(s)[i] \in T
  BY <1>4, ElementOfSeq, LenProperties
<1> QED
  BY <1>5 DEF T

-----------------------------------------------------------------------------
(* The beginning of a flattened sequence.                                  *)

Upto(g, m) == FlattenSeq([i \in 1..m |-> g[i]])

LEMMA UptoType ==
    ASSUME NEW S, NEW m \in Nat, NEW g, \A i \in 1..m : g[i] \in Seq(S)
    PROVE  /\ [i \in 1..m |-> g[i]] \in Seq(Seq(S)) /\ Len([i \in 1..m |-> g[i]]) = m
           /\ Upto(g, m) \in Seq(S)
<1> DEFINE s == [i \in 1..m |-> g[i]]
<1>1. s \in [1..m -> Seq(S)]
  OBVIOUS
<1> HIDE DEF s
<1>2. s \in Seq(Seq(S)) /\ Len(s) = m
  BY <1>1, FunctionIsSeq
<1>3. FlattenSeq(s) \in Seq(S)
  BY <1>2, FlattenType
<1> QED
  BY <1>2, <1>3 DEF s, Upto

LEMMA UptoNone == ASSUME NEW g PROVE Upto(g, 0) = <<>>
<1> DEFINE s == [i \in 1..0 |-> g[i]]
<1>1. s = <<>>
  OBVIOUS
<1> HIDE DEF s
<1>2. FlattenSeq(s) = <<>>
  BY <1>1, FlattenEmpty, EmptySeq
<1> QED
  BY <1>2 DEF s, Upto

LEMMA UptoMore ==
    ASSUME NEW S, NEW m \in Nat, NEW g, \A i \in 1..m + 1 : g[i] \in Seq(S)
    PROVE  Upto(g, m + 1) = Upto(g, m) \o g[m + 1]
<1> DEFINE s == [i \in 1..m |-> g[i]]
           t == [i \in 1..m + 1 |-> g[i]]
<1>1. s \in Seq(Seq(S)) /\ Len(s) = m
  BY UptoType
<1>2. t \in Seq(Seq(S)) /\ Len(t) = m + 1
  BY UptoType
<1>3. OneMore(s, t)
  BY <1>1, <1>2 DEF OneMore
<1>4. t[m + 1] = g[m + 1]
  OBVIOUS
<1> HIDE DEF s, t
<1>5. FlattenSeq(t) = FlattenSeq(s) \o t[Len(t)]
  BY <1>1, <1>2, <1>3, FlattenMore
<1>6. FlattenSeq(t) = FlattenSeq(s) \o g[m + 1]
  BY <1>2, <1>4, <1>5
<1> QED
  BY <1>6 DEF s, t, Upto

LEMMA UptoAll ==
    ASSUME NEW S, NEW s \in Seq(S) PROVE FlattenSeq(s) = Upto(s, Len(s))
<1>1. s = [i \in 1..Len(s) |-> s[i]]
  BY LenProperties
<1> QED
  BY <1>1 DEF Upto

\* The last sequence becomes longer.
Longer(s, t, e) ==
    /\ Len(s) # 0 /\ Len(t) = Len(s)
    /\ \A i \in 1..Len(s) - 1 : s[i] = t[i]
    /\ t[Len(s)] = s[Len(s)] \o e

LEMMA FlattenLonger ==
    ASSUME NEW S, NEW s \in Seq(Seq(S)), NEW t \in Seq(Seq(S)), NEW e \in Seq(S), Longer(s, t, e)
    PROVE  FlattenSeq(t) = FlattenSeq(s) \o e
<1>1. PICK n \in Nat : Len(s) = n + 1
  <2>1. Len(s) \in Nat
    BY LenProperties
  <2>2. Len(s) # 0
    BY DEF Longer
  <2>3. Len(s) - 1 \in Nat /\ Len(s) = Len(s) - 1 + 1
    BY <2>1, <2>2
  <2> QED
    BY <2>3
<1>2. /\ Len(t) = n + 1 /\ t[n + 1] = s[n + 1] \o e
      /\ \A i \in 1..n : s[i] = t[i]
  BY <1>1 DEF Longer
<1>3. /\ \A i \in 1..n + 1 : s[i] \in Seq(S)
      /\ \A i \in 1..n + 1 : t[i] \in Seq(S)
  BY <1>1, <1>2, ElementOfSeq
<1>4. FlattenSeq(s) = Upto(s, n + 1) /\ FlattenSeq(t) = Upto(t, n + 1)
  BY <1>1, <1>2, UptoAll
<1>5. Upto(s, n + 1) = Upto(s, n) \o s[n + 1] /\ Upto(t, n + 1) = Upto(t, n) \o t[n + 1]
  BY <1>3, UptoMore
<1>6. Upto(s, n) = Upto(t, n)
  <2>1. [i \in 1..n |-> s[i]] = [i \in 1..n |-> t[i]]
    BY <1>2
  <2> QED
    BY <2>1 DEF Upto
<1>7. Upto(s, n) \o (s[n + 1] \o e) = (Upto(s, n) \o s[n + 1]) \o e
  <2>1. PICK a \in Seq(S) : a = Upto(s, n)
    BY <1>3, UptoType
  <2>2. PICK b \in Seq(S) : b = s[n + 1]
    BY <1>3
  <2>3. (a \o b) \o e = a \o (b \o e)
    BY ConcatAssociative
  <2> QED
    BY <2>1, <2>2, <2>3
<1> QED
  BY <1>2, <1>4, <1>5, <1>6, <1>7

-----------------------------------------------------------------------------
(* Files with those that they include: MetTo and StepsTo are recursive     *)
(* functions of the depth.                                                 *)

LEMMA DepthIsNat == Depth \in Nat
  BY FilesAssumption, FS_CardinalityType DEF Depth

StepsBody(below, depth) ==
    [name \in DOMAIN File |-> IF depth = 0 THEN <<>> ELSE FlattenSeq(StepsIn(name, below))]

MetBody(below, depth) ==
    [name \in DOMAIN File |->
        IF depth = 0 THEN <<>> ELSE <<name>> \o FlattenSeq(MetAt(name, below))]

IsTheSteps(f, n) == f = [depth \in 0..n |-> StepsBody(f[depth - 1], depth)]

LEMMA StepsAtDepth ==
    ASSUME NEW n \in Nat, NEW f, IsTheSteps(f, n), NEW depth \in 0..n
    PROVE  f[depth] = StepsBody(f[depth - 1], depth)
<1> DEFINE F(d) == StepsBody(f[d - 1], d)
<1>1. f = [d \in 0..n |-> F(d)]
  BY DEF IsTheSteps
<1> HIDE DEF F
<1>2. f[depth] = F(depth)
  BY <1>1
<1> QED
  BY <1>2 DEF F

LEMMA StepsExist == ASSUME NEW n \in Nat PROVE \E f : IsTheSteps(f, n)
<1> DEFINE S == {m \in Nat : \E f : IsTheSteps(f, m)}
<1>1. 0 \in S
  <2> DEFINE f == [d \in 0..0 |-> StepsBody(0, 0)]
  <2>1. ASSUME NEW d \in 0..0 PROVE f[d] = StepsBody(f[d - 1], d)
    <3>1. d = 0 /\ f[d] = StepsBody(0, 0)
      OBVIOUS
    <3>2. StepsBody(f[0 - 1], 0) = StepsBody(0, 0)
      BY DEF StepsBody
    <3> QED
      BY <3>1, <3>2
  <2>2. f = [d \in 0..0 |-> StepsBody(f[d - 1], d)]
    BY <2>1
  <2> HIDE DEF f
  <2>3. IsTheSteps(f, 0)
    BY <2>2 DEF IsTheSteps
  <2> QED
    BY <2>3
<1>2. ASSUME NEW m \in Nat, m \in S PROVE m + 1 \in S
  <2>1. PICK g : IsTheSteps(g, m)
    BY <1>2
  <2> DEFINE f == [d \in 0..m + 1 |-> IF d # m + 1 THEN g[d] ELSE StepsBody(g[d - 1], d)]
  <2>2. ASSUME NEW d \in 0..m + 1 PROVE f[d] = StepsBody(f[d - 1], d)
    <3>1. d # 0 => d - 1 \in 0..m + 1 /\ d - 1 # m + 1
      OBVIOUS
    <3>2. d # 0 => f[d - 1] = g[d - 1]
      BY <3>1
    <3>3. StepsBody(f[d - 1], d) = StepsBody(g[d - 1], d)
      <4>1. CASE d = 0
        BY <4>1 DEF StepsBody
      <4> QED
        BY <3>2, <4>1
    <3>4. CASE d # m + 1
      <4>1. d \in 0..m
        BY <3>4
      <4>2. g[d] = StepsBody(g[d - 1], d)
        BY <2>1, <4>1, StepsAtDepth
      <4> QED
        BY <3>3, <3>4, <4>2
    <3>5. CASE d = m + 1
      BY <3>3, <3>5
    <3> QED
      BY <3>4, <3>5
  <2>3. f = [d \in 0..m + 1 |-> StepsBody(f[d - 1], d)]
    BY <2>2
  <2> HIDE DEF f
  <2>4. IsTheSteps(f, m + 1)
    BY <2>3 DEF IsTheSteps
  <2> QED
    BY <2>4
<1> HIDE DEF S
<1>3. \A m \in 0..n : m \in S
  BY <1>1, <1>2, UpTo
<1> QED
  BY <1>3 DEF S

LEMMA StepsToIs == \A depth \in 0..Depth : StepsTo[depth] = StepsBody(StepsTo[depth - 1], depth)
<1>1. \E f : IsTheSteps(f, Depth)
  BY DepthIsNat, StepsExist
<1>2. IsTheSteps(StepsTo, Depth)
  BY <1>1 DEF StepsTo, IsTheSteps, StepsBody
<1> QED
  BY <1>2, DepthIsNat, StepsAtDepth

IsTheMet(f, n) == f = [depth \in 0..n |-> MetBody(f[depth - 1], depth)]

LEMMA MetAtDepth ==
    ASSUME NEW n \in Nat, NEW f, IsTheMet(f, n), NEW depth \in 0..n
    PROVE  f[depth] = MetBody(f[depth - 1], depth)
<1> DEFINE F(d) == MetBody(f[d - 1], d)
<1>1. f = [d \in 0..n |-> F(d)]
  BY DEF IsTheMet
<1> HIDE DEF F
<1>2. f[depth] = F(depth)
  BY <1>1
<1> QED
  BY <1>2 DEF F

LEMMA MetExist == ASSUME NEW n \in Nat PROVE \E f : IsTheMet(f, n)
<1> DEFINE S == {m \in Nat : \E f : IsTheMet(f, m)}
<1>1. 0 \in S
  <2> DEFINE f == [d \in 0..0 |-> MetBody(0, 0)]
  <2>1. ASSUME NEW d \in 0..0 PROVE f[d] = MetBody(f[d - 1], d)
    <3>1. d = 0 /\ f[d] = MetBody(0, 0)
      OBVIOUS
    <3>2. MetBody(f[0 - 1], 0) = MetBody(0, 0)
      BY DEF MetBody
    <3> QED
      BY <3>1, <3>2
  <2>2. f = [d \in 0..0 |-> MetBody(f[d - 1], d)]
    BY <2>1
  <2> HIDE DEF f
  <2>3. IsTheMet(f, 0)
    BY <2>2 DEF IsTheMet
  <2> QED
    BY <2>3
<1>2. ASSUME NEW m \in Nat, m \in S PROVE m + 1 \in S
  <2>1. PICK g : IsTheMet(g, m)
    BY <1>2
  <2> DEFINE f == [d \in 0..m + 1 |-> IF d # m + 1 THEN g[d] ELSE MetBody(g[d - 1], d)]
  <2>2. ASSUME NEW d \in 0..m + 1 PROVE f[d] = MetBody(f[d - 1], d)
    <3>1. d # 0 => d - 1 \in 0..m + 1 /\ d - 1 # m + 1
      OBVIOUS
    <3>2. d # 0 => f[d - 1] = g[d - 1]
      BY <3>1
    <3>3. MetBody(f[d - 1], d) = MetBody(g[d - 1], d)
      <4>1. CASE d = 0
        BY <4>1 DEF MetBody
      <4> QED
        BY <3>2, <4>1
    <3>4. CASE d # m + 1
      <4>1. d \in 0..m
        BY <3>4
      <4>2. g[d] = MetBody(g[d - 1], d)
        BY <2>1, <4>1, MetAtDepth
      <4> QED
        BY <3>3, <3>4, <4>2
    <3>5. CASE d = m + 1
      BY <3>3, <3>5
    <3> QED
      BY <3>4, <3>5
  <2>3. f = [d \in 0..m + 1 |-> MetBody(f[d - 1], d)]
    BY <2>2
  <2> HIDE DEF f
  <2>4. IsTheMet(f, m + 1)
    BY <2>3 DEF IsTheMet
  <2> QED
    BY <2>4
<1> HIDE DEF S
<1>3. \A m \in 0..n : m \in S
  BY <1>1, <1>2, UpTo
<1> QED
  BY <1>3 DEF S

LEMMA MetToIs == \A depth \in 0..Depth : MetTo[depth] = MetBody(MetTo[depth - 1], depth)
<1>1. \E f : IsTheMet(f, Depth)
  BY DepthIsNat, MetExist
<1>2. IsTheMet(MetTo, Depth)
  BY <1>1 DEF MetTo, IsTheMet, MetBody
<1> QED
  BY <1>2, DepthIsNat, MetAtDepth

-----------------------------------------------------------------------------
(* Sums: SumOf is a recursive function as well.                            *)

SumBody(before, s, i) == IF i = 0 THEN 0 ELSE before + s[i]

IsSum(f, s, n) == f = [i \in 0..n |-> SumBody(f[i - 1], s, i)]

LEMMA SumAt ==
    ASSUME NEW s, NEW n \in Nat, NEW f, IsSum(f, s, n), NEW i \in 0..n
    PROVE  f[i] = SumBody(f[i - 1], s, i)
<1> DEFINE F(k) == SumBody(f[k - 1], s, k)
<1>1. f = [k \in 0..n |-> F(k)]
  BY DEF IsSum
<1> HIDE DEF F
<1>2. f[i] = F(i)
  BY <1>1
<1> QED
  BY <1>2 DEF F

LEMMA SumExists == ASSUME NEW s, NEW n \in Nat PROVE \E f : IsSum(f, s, n)
<1> DEFINE S == {m \in Nat : \E f : IsSum(f, s, m)}
<1>1. 0 \in S
  <2> DEFINE f == [i \in 0..0 |-> 0]
  <2>1. ASSUME NEW i \in 0..0 PROVE f[i] = SumBody(f[i - 1], s, i)
    BY DEF SumBody
  <2>2. f = [i \in 0..0 |-> SumBody(f[i - 1], s, i)]
    BY <2>1
  <2> HIDE DEF f
  <2>3. IsSum(f, s, 0)
    BY <2>2 DEF IsSum
  <2> QED
    BY <2>3
<1>2. ASSUME NEW m \in Nat, m \in S PROVE m + 1 \in S
  <2>1. PICK g : IsSum(g, s, m)
    BY <1>2
  <2> DEFINE f == [i \in 0..m + 1 |-> IF i # m + 1 THEN g[i] ELSE SumBody(g[i - 1], s, i)]
  <2>2. ASSUME NEW i \in 0..m + 1 PROVE f[i] = SumBody(f[i - 1], s, i)
    <3>1. i # 0 => i - 1 \in 0..m + 1 /\ i - 1 # m + 1
      OBVIOUS
    <3>2. i # 0 => f[i - 1] = g[i - 1]
      BY <3>1
    <3>3. SumBody(f[i - 1], s, i) = SumBody(g[i - 1], s, i)
      <4>1. CASE i = 0
        BY <4>1 DEF SumBody
      <4> QED
        BY <3>2, <4>1
    <3>4. CASE i # m + 1
      <4>1. i \in 0..m
        BY <3>4
      <4>2. g[i] = SumBody(g[i - 1], s, i)
        BY <2>1, <4>1, SumAt
      <4> QED
        BY <3>3, <3>4, <4>2
    <3>5. CASE i = m + 1
      BY <3>3, <3>5
    <3> QED
      BY <3>4, <3>5
  <2>3. f = [i \in 0..m + 1 |-> SumBody(f[i - 1], s, i)]
    BY <2>2
  <2> HIDE DEF f
  <2>4. IsSum(f, s, m + 1)
    BY <2>3 DEF IsSum
  <2> QED
    BY <2>4
<1> HIDE DEF S
<1>3. \A m \in 0..n : m \in S
  BY <1>1, <1>2, UpTo
<1> QED
  BY <1>3 DEF S

LEMMA SumOfIs ==
    ASSUME NEW s, NEW n \in Nat, Len(s) = n
    PROVE  \E f : IsSum(f, s, n) /\ SumOf(s) = f[n]
<1> DEFINE f == CHOOSE g : g = [i \in 0..n |-> IF i = 0 THEN 0 ELSE g[i - 1] + s[i]]
<1>1. IsSum(f, s, n)
  BY SumExists DEF IsSum, SumBody
<1>2. SumOf(s) = f[n]
  BY DEF SumOf
<1> QED
  BY <1>1, <1>2

\* A sum is a number, and a factor of all numbers is one of their sum.
Scaled(s, t, n, a) ==
    Len(s) = n /\ Len(t) = n /\ \A i \in 1..n : s[i] \in Nat /\ t[i] = a * s[i]

LEMMA SumScaled ==
    ASSUME NEW s, NEW t, NEW n \in Nat, NEW a \in Nat, Scaled(s, t, n, a)
    PROVE  SumOf(s) \in Nat /\ SumOf(t) = a * SumOf(s)
<1>0. \A i \in 1..n : s[i] \in Nat /\ t[i] = a * s[i]
  BY DEF Scaled
<1>1. PICK f : IsSum(f, s, n) /\ SumOf(s) = f[n]
  BY SumOfIs DEF Scaled
<1>2. PICK g : IsSum(g, t, n) /\ SumOf(t) = g[n]
  BY SumOfIs DEF Scaled
<1> DEFINE S == {i \in Nat : i \in 0..n => f[i] \in Nat /\ g[i] = a * f[i]}
<1>3. 0 \in S
  <2>1. f[0] = 0 /\ g[0] = 0
    <3>1. PICK k \in 0..n : k = 0
      OBVIOUS
    <3>2. f[k] = SumBody(f[k - 1], s, k) /\ g[k] = SumBody(g[k - 1], t, k)
      BY <1>1, <1>2, SumAt
    <3> QED
      BY <3>1, <3>2 DEF SumBody
  <2> QED
    BY <2>1
<1>4. ASSUME NEW i \in Nat, i < n, i \in S PROVE i + 1 \in S
  <2>1. i + 1 \in 1..n /\ i + 1 \in 0..n /\ i + 1 # 0 /\ i + 1 - 1 = i /\ i \in 0..n
    BY <1>4
  <2>2. f[i + 1] = f[i] + s[i + 1] /\ g[i + 1] = g[i] + t[i + 1]
    <3>1. PICK k \in 0..n : k = i + 1 /\ k - 1 = i /\ k # 0
      BY <2>1
    <3>2. f[k] = SumBody(f[k - 1], s, k)
      BY <1>1, SumAt
    <3>3. g[k] = SumBody(g[k - 1], t, k)
      BY <1>2, SumAt
    <3>4. f[k] = f[i] + s[k] /\ g[k] = g[i] + t[k]
      BY <3>1, <3>2, <3>3 DEF SumBody
    <3> QED
      BY <3>1, <3>4
  <2>3. PICK x \in Nat : x = f[i] /\ g[i] = a * x
    BY <1>4, <2>1
  <2>4. PICK y \in Nat : y = s[i + 1] /\ t[i + 1] = a * y
    BY <1>0, <2>1
  <2>5. a * x + a * y = a * (x + y)
    OBVIOUS
  <2>6. f[i + 1] = x + y /\ g[i + 1] = a * (x + y)
    BY <2>2, <2>3, <2>4, <2>5
  <2>7. f[i + 1] \in Nat /\ g[i + 1] = a * f[i + 1]
    BY <2>6
  <2> QED
    BY <2>7
<1> HIDE DEF S
<1>5. \A i \in 0..n : i \in S
  BY <1>3, <1>4, UpTo
<1>6. n \in 0..n
  OBVIOUS
<1> QED
  BY <1>1, <1>2, <1>5, <1>6 DEF S

-----------------------------------------------------------------------------
(* What a reader meets are steps and files.                                *)

Places == {at \in (DOMAIN File) \X Nat : at[2] \in 1..Len(File[at[1]].steps)}

LEMMA StepsAreMany ==
    \A name \in DOMAIN File :
        /\ Len(File[name].steps) \in Nat
        /\ DOMAIN File[name].steps = 1..Len(File[name].steps)
<1> SUFFICES ASSUME NEW name \in DOMAIN File
             PROVE  /\ Len(File[name].steps) \in Nat
                    /\ DOMAIN File[name].steps = 1..Len(File[name].steps)
  OBVIOUS
<1>1. PICK n \in Nat : n = Len(File[name].steps)
  BY FilesAssumption
<1>2. File[name].steps = [i \in 1..n |-> File[name].steps[i]]
  BY <1>1, FilesAssumption
<1>3. DOMAIN File[name].steps = 1..n
  BY <1>2
<1> QED
  BY <1>1, <1>3

LEMMA PlacesAre ==
    ASSUME NEW name \in DOMAIN File, NEW i \in 1..Len(File[name].steps)
    PROVE  <<name, i>> \in Places
  BY StepsAreMany DEF Places

LEMMA StepsInType ==
    ASSUME NEW name \in DOMAIN File, NEW below \in [DOMAIN File -> Seq(Places)]
    PROVE  /\ StepsIn(name, below) \in Seq(Seq(Places))
           /\ Len(StepsIn(name, below)) = Len(File[name].steps)
           /\ \A i \in 1..Len(File[name].steps) : StepsIn(name, below)[i] \in Seq(Places)
<1>1. PICK n \in Nat : n = Len(File[name].steps)
  BY StepsAreMany
<1> DEFINE P(i) == IF Includes(StepAt(<<name, i>>)) THEN below[StepAt(<<name, i>>).include]
                   ELSE IF StepAt(<<name, i>>).include = "" THEN <<<<name, i>>>> ELSE <<>>
<1>2. StepsIn(name, below) = [i \in 1..n |-> P(i)]
  BY <1>1 DEF StepsIn
<1>3. ASSUME NEW i \in 1..n PROVE P(i) \in Seq(Places)
  <2>1. <<name, i>> \in Places
    BY <1>1, PlacesAre
  <2>2. <<<<name, i>>>> \in Seq(Places) /\ <<>> \in Seq(Places)
    BY <2>1
  <2>3. Includes(StepAt(<<name, i>>)) => below[StepAt(<<name, i>>).include] \in Seq(Places)
    BY DEF Includes
  <2> QED
    BY <2>2, <2>3
<1> HIDE DEF P
<1>4. StepsIn(name, below) \in [1..n -> Seq(Places)]
  BY <1>2, <1>3
<1>5. \A i \in 1..n : StepsIn(name, below)[i] \in Seq(Places)
  BY <1>4
<1> QED
  BY <1>1, <1>4, <1>5, FunctionIsSeq

LEMMA MetAtType ==
    ASSUME NEW name \in DOMAIN File, NEW below \in [DOMAIN File -> Seq(DOMAIN File)]
    PROVE  /\ MetAt(name, below) \in Seq(Seq(DOMAIN File))
           /\ Len(MetAt(name, below)) = Len(File[name].steps)
           /\ \A i \in 1..Len(File[name].steps) : MetAt(name, below)[i] \in Seq(DOMAIN File)
<1>1. PICK n \in Nat : n = Len(File[name].steps)
  BY StepsAreMany
<1> DEFINE P(i) == IF Includes(StepAt(<<name, i>>)) THEN below[StepAt(<<name, i>>).include] ELSE <<>>
<1>2. MetAt(name, below) = [i \in 1..n |-> P(i)]
  BY <1>1 DEF MetAt
<1>3. ASSUME NEW i \in 1..n PROVE P(i) \in Seq(DOMAIN File)
  <2>1. Includes(StepAt(<<name, i>>)) => below[StepAt(<<name, i>>).include] \in Seq(DOMAIN File)
    BY DEF Includes
  <2>2. <<>> \in Seq(DOMAIN File)
    OBVIOUS
  <2> QED
    BY <2>1, <2>2
<1> HIDE DEF P
<1>4. MetAt(name, below) \in [1..n -> Seq(DOMAIN File)]
  BY <1>2, <1>3
<1>5. \A i \in 1..n : MetAt(name, below)[i] \in Seq(DOMAIN File)
  BY <1>4
<1> QED
  BY <1>1, <1>4, <1>5, FunctionIsSeq

LEMMA StepsToType == \A depth \in 0..Depth : StepsTo[depth] \in [DOMAIN File -> Seq(Places)]
<1> DEFINE S == {d \in Nat : d \in 0..Depth => StepsTo[d] \in [DOMAIN File -> Seq(Places)]}
<1>1. ASSUME NEW d \in 0..Depth, d = 0 \/ StepsTo[d - 1] \in [DOMAIN File -> Seq(Places)]
      PROVE  StepsTo[d] \in [DOMAIN File -> Seq(Places)]
  <2>1. StepsTo[d] = StepsBody(StepsTo[d - 1], d)
    BY StepsToIs
  <2>2. CASE d = 0
    <3>1. StepsTo[d] = [name \in DOMAIN File |-> <<>>]
      BY <2>1, <2>2 DEF StepsBody
    <3> QED
      BY <3>1
  <2>3. CASE d # 0
    <3>1. PICK below \in [DOMAIN File -> Seq(Places)] : below = StepsTo[d - 1]
      BY <1>1, <2>3
    <3>2. StepsTo[d] = [name \in DOMAIN File |-> FlattenSeq(StepsIn(name, below))]
      BY <2>1, <2>3, <3>1 DEF StepsBody
    <3>3. \A name \in DOMAIN File : FlattenSeq(StepsIn(name, below)) \in Seq(Places)
      BY StepsInType, FlattenType
    <3> QED
      BY <3>2, <3>3
  <2> QED
    BY <2>2, <2>3
<1>2. 0 \in S
  BY <1>1, DepthIsNat
<1>3. ASSUME NEW d \in Nat, d < Depth, d \in S PROVE d + 1 \in S
  <2>1. d + 1 \in 0..Depth /\ d \in 0..Depth /\ d + 1 - 1 = d
    BY <1>3, DepthIsNat
  <2> QED
    BY <1>1, <1>3, <2>1
<1> HIDE DEF S
<1>4. \A d \in 0..Depth : d \in S
  BY <1>2, <1>3, DepthIsNat, UpTo
<1> QED
  BY <1>4, DepthIsNat DEF S

LEMMA MetToType == \A depth \in 0..Depth : MetTo[depth] \in [DOMAIN File -> Seq(DOMAIN File)]
<1> DEFINE S == {d \in Nat : d \in 0..Depth => MetTo[d] \in [DOMAIN File -> Seq(DOMAIN File)]}
<1>1. ASSUME NEW d \in 0..Depth, d = 0 \/ MetTo[d - 1] \in [DOMAIN File -> Seq(DOMAIN File)]
      PROVE  MetTo[d] \in [DOMAIN File -> Seq(DOMAIN File)]
  <2>1. MetTo[d] = MetBody(MetTo[d - 1], d)
    BY MetToIs
  <2>2. CASE d = 0
    <3>1. MetTo[d] = [name \in DOMAIN File |-> <<>>]
      BY <2>1, <2>2 DEF MetBody
    <3> QED
      BY <3>1
  <2>3. CASE d # 0
    <3>1. PICK below \in [DOMAIN File -> Seq(DOMAIN File)] : below = MetTo[d - 1]
      BY <1>1, <2>3
    <3>2. MetTo[d] = [name \in DOMAIN File |-> <<name>> \o FlattenSeq(MetAt(name, below))]
      BY <2>1, <2>3, <3>1 DEF MetBody
    <3>3. \A name \in DOMAIN File : FlattenSeq(MetAt(name, below)) \in Seq(DOMAIN File)
      BY MetAtType, FlattenType
    <3>4. \A name \in DOMAIN File : <<name>> \o FlattenSeq(MetAt(name, below)) \in Seq(DOMAIN File)
      BY <3>3, ConcatProperties
    <3> QED
      BY <3>2, <3>4
  <2> QED
    BY <2>2, <2>3
<1>2. 0 \in S
  BY <1>1, DepthIsNat
<1>3. ASSUME NEW d \in Nat, d < Depth, d \in S PROVE d + 1 \in S
  <2>1. d + 1 \in 0..Depth /\ d \in 0..Depth /\ d + 1 - 1 = d
    BY <1>3, DepthIsNat
  <2> QED
    BY <1>1, <1>3, <2>1
<1> HIDE DEF S
<1>4. \A d \in 0..Depth : d \in S
  BY <1>2, <1>3, DepthIsNat, UpTo
<1> QED
  BY <1>4, DepthIsNat DEF S

-----------------------------------------------------------------------------
(* The types of all variables.                                             *)

Variables == UNION {DOMAIN Flattened(File[n].context) : n \in DOMAIN File}
Values == UNION {{Flattened(File[n].context)[v] : v \in DOMAIN Flattened(File[n].context)} :
                     n \in DOMAIN File}
Contexts == UNION {[D -> Values] : D \in SUBSET Variables}

FileNames == DOMAIN File \union {""}
StepNames == {StepAt(at).name : at \in Places}
StepProtocols == {StepAt(at).protocol : at \in Places} \union {""}
StepSleeps == {StepAt(at).sleep \union x : at \in Places, x \in {{}, {"before"}}}

LineType ==
    [test: Nat, name: StepNames, isAsync: BOOLEAN, blocking: BOOLEAN, timeout: Nat,
     sleeps: StepSleeps, router: BOOLEAN]

FileType ==
    [name: FileNames, context: Contexts, lines: Seq(LineType), last: StepProtocols,
     asynchronous: BOOLEAN, asyncSteps: Nat, timeout: Nat \union {-1}, router: BOOLEAN]

ListType ==
    [scenarios: Seq(FileType), on: BOOLEAN, router: BOOLEAN, steps: Nat, timeout: Nat \union {-1}]

LoadingType == [left: Seq(STRING), id: Nat, attempt: 1..3, found: BOOLEAN, counter: Nat]
FrameType == [name: DOMAIN File, at: Nat]
ReadingType == [stack: Seq(FrameType), steps: Seq(Places), at: Nat]
ModeType == [validation: BOOLEAN, pure: BOOLEAN, threads: Nat \ {0}, throughput: BOOLEAN]

FileTyped ==
    /\ loading \in [Processes -> LoadingType]
    /\ reading \in [Processes -> ReadingType]
    /\ file \in [Processes -> FileType]
    /\ list \in [Processes -> ListType]

ServiceTyped ==
    /\ mode \in [Processes -> ModeType]
    /\ services \in [Processes -> SUBSET Services]
    /\ port \in [Processes -> Nat]
    /\ runs \in [Processes -> Nat]
    /\ metronom = [q \in Processes |-> metronom[q]]

Typed ==
    /\ config \in Configs
    /\ pc \in [Processes -> PC]
    /\ FileTyped /\ ServiceTyped

LEMMA ContextIs ==
    ASSUME NEW D \in SUBSET Variables, NEW f, f = [v \in D |-> f[v]], \A v \in D : f[v] \in Values
    PROVE  f \in Contexts
<1>1. f \in [D -> Values]
  OBVIOUS
<1> QED
  BY <1>1 DEF Contexts

LEMMA FlattenedIsFunction ==
    ASSUME NEW n \in DOMAIN File
    PROVE  Flattened(File[n].context)
             = [v \in DOMAIN Flattened(File[n].context) |-> Flattened(File[n].context)[v]]
<1> DEFINE c == File[n].context
<1>1. c = [v \in DOMAIN c |-> c[v]]
  BY FilesAssumption
<1> HIDE DEF c
<1>2. Flattened(c) = [v \in DOMAIN Flattened(c) |-> Flattened(c)[v]]
  BY <1>1 DEF Flattened, Filled
<1> QED
  BY <1>2 DEF c

LEMMA FlattenedType ==
    ASSUME NEW n \in DOMAIN File PROVE Flattened(File[n].context) \in Contexts
<1> DEFINE f == Flattened(File[n].context)
<1>1. DOMAIN f \in SUBSET Variables /\ \A v \in DOMAIN f : f[v] \in Values
  BY DEF Variables, Values
<1>2. f = [v \in DOMAIN f |-> f[v]]
  BY FlattenedIsFunction
<1> HIDE DEF f
<1>3. f \in Contexts
  BY <1>1, <1>2, ContextIs
<1> QED
  BY <1>3 DEF f

LEMMA MergedType ==
    ASSUME NEW n \in DOMAIN File, NEW context \in Contexts
    PROVE  Merged(context, File[n].context) \in Contexts
<1> DEFINE f == Flattened(File[n].context)
           m == Filled(context, f)
<1>1. PICK D \in SUBSET Variables : context \in [D -> Values]
  BY DEF Contexts
<1>2. DOMAIN f \in SUBSET Variables /\ \A v \in DOMAIN f : f[v] \in Values
  BY DEF Variables, Values
<1> HIDE DEF f
<1>3. /\ m = [v \in D \union DOMAIN f |-> m[v]]
      /\ \A v \in D \union DOMAIN f : m[v] \in Values
  BY <1>1, <1>2 DEF Filled
<1>4. D \union DOMAIN f \in SUBSET Variables
  BY <1>2
<1> HIDE DEF m
<1>5. m \in Contexts
  BY <1>3, <1>4, ContextIs
<1> QED
  BY <1>5 DEF m, f, Merged

LEMMA NewFileType ==
    /\ NoFile \in FileType
    /\ \A name \in DOMAIN File, context \in Contexts : NewFile(name, context) \in FileType
<1>1. <<>> \in Contexts
  <2>1. <<>> \in [{} -> Values]
    OBVIOUS
  <2> QED
    BY <2>1 DEF Contexts
<1>2. "" \in FileNames /\ "" \in StepProtocols /\ \A name \in DOMAIN File : name \in FileNames
  BY DEF FileNames, StepProtocols
<1>3. <<>> \in Seq(LineType)
  BY EmptySeq
<1> QED
  BY <1>1, <1>2, <1>3 DEF NoFile, NewFile, FileType

LEMMA CallsAre ==
    ASSUME NEW at \in Places
    PROVE  StepAt(at).async.timeout \in Nat /\ StepAt(at).async.blocking \in BOOLEAN
<1>1. PICK name \in DOMAIN File, i \in Nat : at = <<name, i>>
  BY DEF Places
<1>2. i \in DOMAIN File[name].steps
  BY <1>1, StepsAreMany DEF Places
<1>3. StepAt(at) = File[name].steps[i]
  BY <1>1 DEF StepAt
<1> QED
  BY <1>2, <1>3, FilesAssumption

LEMMA CountCallType ==
    ASSUME NEW f \in FileType, NEW at \in Places
    PROVE  CountCall(f, StepAt(at).async) \in FileType
<1> DEFINE call == StepAt(at).async
<1>1. call.timeout \in Nat
  BY CallsAre
<1> HIDE DEF call
<1>2. f.asyncSteps + 1 \in Nat /\ MaxOf(f.timeout, call.timeout) \in Nat \union {-1}
  BY <1>1 DEF FileType, MaxOf
<1>3. CountCall(f, call) \in FileType
  BY <1>2 DEF CountCall, FileType
<1> QED
  BY <1>3 DEF call

LEMMA ProcessesAre == \A p \in Processes : p \in Nat
<1>1. Cardinality(Processes) \in Nat
  BY StartUpAssumption, FS_CardinalityType
<1> QED
  BY <1>1, StartUpAssumption

LEMMA TestIdType ==
    ASSUME NEW c, NEW p \in Processes, NEW count \in Nat PROVE TestId(c, p, count) \in Nat
<1>1. p \in Nat /\ TestRange \in Nat
  BY ProcessesAre, FilesAssumption
<1>2. p * TestRange \in Nat
  BY <1>1
<1> QED
  BY <1>2 DEF TestId

LEMMA StepIs ==
    ASSUME NEW at \in Places
    PROVE  /\ StepAt(at).name \in StepNames /\ StepAt(at).protocol \in StepProtocols
           /\ StepAt(at).sleep \in StepSleeps
           /\ StepAt(at).sleep \union {"before"} \in StepSleeps
<1>1. StepAt(at).sleep \union {} = StepAt(at).sleep
  OBVIOUS
<1>2. StepAt(at).sleep \union {} \in StepSleeps /\ StepAt(at).sleep \union {"before"} \in StepSleeps
  BY DEF StepSleeps
<1>3. StepAt(at).name \in StepNames
  BY DEF StepNames
<1>4. StepAt(at).protocol \in StepProtocols
  BY DEF StepProtocols
<1> QED
  BY <1>1, <1>2, <1>3, <1>4

LEMMA LineIsTyped ==
    ASSUME NEW c, NEW p \in Processes, NEW f, NEW at \in Places, NEW count \in Nat
    PROVE  Line(c, p, f, StepAt(at), count) \in LineType
<1> DEFINE step == StepAt(at)
<1>1. step.async.timeout \in Nat /\ step.async.blocking \in BOOLEAN
  BY CallsAre
<1>2. TestId(c, p, count) \in Nat
  BY TestIdType
<1>3. step.name \in StepNames /\ step.sleep \in StepSleeps
      /\ step.sleep \union {"before"} \in StepSleeps
  BY StepIs
<1> HIDE DEF step
<1>4. Sleeps(c, f, step) \in StepSleeps
  <2>1. Sleeps(c, f, step) = step.sleep \/ Sleeps(c, f, step) = step.sleep \union {"before"}
    BY DEF Sleeps
  <2> QED
    BY <1>3, <2>1
<1>5. Blocks(step.async) \in BOOLEAN
  BY <1>1 DEF Blocks
<1>6. Line(c, p, f, step, count) \in LineType
  BY <1>1, <1>2, <1>3, <1>4, <1>5 DEF Line, LineType
<1> QED
  BY <1>6 DEF step

LEMMA AddLineType ==
    ASSUME NEW f \in FileType, NEW at \in Places, NEW line \in LineType
    PROVE  AddLine(f, StepAt(at), line) \in FileType
<1> DEFINE step == StepAt(at)
<1>1. Append(f.lines, line) \in Seq(LineType)
  BY AppendProperties DEF FileType
<1>2. step.protocol \in StepProtocols
  BY StepIs
<1>3. UsesRouter(f, line) \in BOOLEAN
  BY DEF UsesRouter, FileType, LineType
<1> HIDE DEF step
<1>4. AddLine(f, step, line) \in FileType
  BY <1>1, <1>2, <1>3 DEF AddLine, FileType
<1> QED
  BY <1>4 DEF step

LEMMA AddScenarioType ==
    ASSUME NEW l \in ListType, NEW new \in FileType
    PROVE  AddScenario(l, new) \in ListType
<1>1. Append(l.scenarios, new) \in Seq(FileType)
  BY AppendProperties DEF ListType
<1>2. /\ new.asynchronous \in BOOLEAN /\ new.router \in BOOLEAN /\ new.asyncSteps \in Nat
      /\ new.timeout \in Nat \union {-1}
  BY DEF FileType
<1> HIDE DEF FileType
<1>3. l.steps + new.asyncSteps \in Nat /\ MaxOf(l.timeout, new.timeout) \in Nat \union {-1}
  BY <1>2 DEF ListType, MaxOf
<1> QED
  BY <1>1, <1>2, <1>3 DEF AddScenario, ListType

-----------------------------------------------------------------------------
(* The files that include one another.                                     *)

LEMMA LastIs ==
    ASSUME NEW S, NEW s \in Seq(S), s # <<>>
    PROVE  Last(s) = s[Len(s)] /\ Last(s) \in S /\ Len(s) \in Nat \ {0} /\ Len(s) \in 1..Len(s)
<1>1. Len(s) \in Nat \ {0}
  BY EmptySeq
<1>2. PICK n \in 1..Len(s) : n = Len(s)
  BY <1>1
<1>3. s[n] \in S
  BY <1>2, ElementOfSeq
<1> QED
  BY <1>1, <1>2, <1>3 DEF Last

LEMMA FrontIs ==
    ASSUME NEW S, NEW s \in Seq(S), s # <<>>
    PROVE  /\ Front(s) \in Seq(S) /\ Len(Front(s)) = Len(s) - 1
           /\ \A i \in 1..Len(s) - 1 : Front(s)[i] = s[i]
<1>1. PICK n \in Nat : Len(s) = n + 1
  <2>1. Len(s) \in Nat \ {0}
    BY EmptySeq
  <2> QED
    BY <2>1
<1>2. \A i \in 1..n : s[i] \in S
  BY <1>1, ElementOfSeq
<1>3. /\ SubSeq(s, 1, n) \in Seq(S)
      /\ Len(SubSeq(s, 1, n)) = n
      /\ \A i \in 1..n : SubSeq(s, 1, n)[i] = s[i]
  <2>1. /\ SubSeq(s, 1, n) \in Seq(S)
        /\ Len(SubSeq(s, 1, n)) = IF 1 <= n THEN n - 1 + 1 ELSE 0
        /\ \A i \in 1..n - 1 + 1 : SubSeq(s, 1, n)[i] = s[1 + i - 1]
    BY <1>2, SubSeqProperties
  <2> QED
    BY <2>1
<1>4. Len(s) - 1 = n
  BY <1>1
<1> QED
  BY <1>3, <1>4 DEF Front

LEMMA AppendIs ==
    ASSUME NEW S, NEW s \in Seq(S), NEW e \in S
    PROVE  /\ Append(s, e) \in Seq(S) /\ Len(Append(s, e)) = Len(s) + 1 /\ Len(s) \in Nat
           /\ \A i \in 1..Len(s) : Append(s, e)[i] = s[i]
           /\ \A i \in 1..Len(s) + 1 : i = Len(s) + 1 => Append(s, e)[i] = e
<1>1. Len(s) \in Nat
  BY LenProperties
<1> QED
  BY <1>1, AppendProperties

\* frame i waits for the file that its next step includes
Waits(stack, i) ==
    /\ stack[i].at < Len(File[stack[i].name].steps)
    /\ StepAt(<<stack[i].name, stack[i].at + 1>>).include = stack[i + 1].name

StackOk(stack) ==
    /\ \A i \in 1..Len(stack) : stack[i].at <= Len(File[stack[i].name].steps)
    /\ \A i \in 1..Len(stack) - 1 : Waits(stack, i)
    /\ \A i, j \in 1..Len(stack) : stack[i].name = stack[j].name => i = j

LEMMA StackNew ==
    ASSUME NEW name \in DOMAIN File
    PROVE  <<Frame(name)>> \in Seq(FrameType) /\ <<Frame(name)>> # <<>> /\ StackOk(<<Frame(name)>>)
<1>1. Frame(name) \in FrameType /\ Frame(name).name = name /\ Frame(name).at = 0
  BY DEF Frame, FrameType
<1>2. 0 <= Len(File[name].steps)
  BY StepsAreMany
<1>3. PICK f \in FrameType : f = Frame(name)
  BY <1>1
<1> DEFINE s == <<f>>
<1>4. s \in Seq(FrameType) /\ s # <<>> /\ Len(s) = 1 /\ s[1] = f
  OBVIOUS
<1> HIDE DEF s
<1>5. StackOk(s)
  BY <1>1, <1>2, <1>3, <1>4 DEF StackOk
<1> QED
  BY <1>3, <1>4, <1>5 DEF s

LEMMA StepDoneIs ==
    ASSUME NEW s \in Seq(FrameType), s # <<>>
    PROVE  /\ StepDone(s) \in Seq(FrameType) /\ Len(StepDone(s)) = Len(s)
           /\ \A i \in 1..Len(s) : StepDone(s)[i].name = s[i].name
           /\ \A i \in 1..Len(s) :
                StepDone(s)[i].at = IF i = Len(s) THEN s[i].at + 1 ELSE s[i].at
<1>1. PICK n \in 1..Len(s) : n = Len(s)
  BY LastIs
<1>2. \A i \in 1..Len(s) : s[i] \in FrameType
  BY ElementOfSeq
<1>3. PICK e \in FrameType : e = [s[n] EXCEPT !.at = @ + 1]
  <2>1. [s[n] EXCEPT !.at = @ + 1] \in FrameType
    BY <1>2 DEF FrameType
  <2> QED
    BY <2>1
<1>4. /\ [s EXCEPT ![n] = e] \in Seq(FrameType)
      /\ Len([s EXCEPT ![n] = e]) = Len(s)
      /\ \A j \in 1..Len(s) : [s EXCEPT ![n] = e][j] = IF j = n THEN e ELSE s[j]
  BY ExceptSeq
<1>5. StepDone(s) = [s EXCEPT ![n] = e]
  BY <1>1, <1>3 DEF StepDone
<1>6. e.name = s[n].name /\ e.at = s[n].at + 1
  BY <1>2, <1>3 DEF FrameType
<1> QED
  BY <1>1, <1>4, <1>5, <1>6

LEMMA StackDone ==
    ASSUME NEW s \in Seq(FrameType), s # <<>>, StackOk(s),
           Last(s).at < Len(File[Last(s).name].steps)
    PROVE  StackOk(StepDone(s))
<1>1. PICK n \in 1..Len(s) : n = Len(s) /\ Last(s) = s[n]
  BY LastIs
<1>2. \A i \in 1..n : s[i] \in FrameType
  BY <1>1, ElementOfSeq
<1> DEFINE t == StepDone(s)
<1>3. /\ Len(t) = n
      /\ \A i \in 1..n : t[i].name = s[i].name
      /\ \A i \in 1..n : t[i].at = IF i = n THEN s[i].at + 1 ELSE s[i].at
  BY <1>1, StepDoneIs
<1> HIDE DEF t
<1>4. ASSUME NEW i \in 1..n PROVE t[i].at <= Len(File[t[i].name].steps)
  <2>1. s[i].at \in Nat /\ s[i].name \in DOMAIN File
    BY <1>2 DEF FrameType
  <2>2. Len(File[s[i].name].steps) \in Nat
    BY <2>1, StepsAreMany
  <2>3. s[i].at <= Len(File[s[i].name].steps)
    BY <1>1 DEF StackOk
  <2>4. CASE i = n
    BY <1>1, <1>3, <2>1, <2>2, <2>4
  <2>5. CASE i # n
    BY <1>3, <2>3, <2>5
  <2> QED
    BY <2>4, <2>5
<1>5. ASSUME NEW i \in 1..n - 1 PROVE Waits(t, i)
  <2>1. i \in 1..n /\ i # n /\ i + 1 \in 1..n
    OBVIOUS
  <2>2. t[i].name = s[i].name /\ t[i].at = s[i].at /\ t[i + 1].name = s[i + 1].name
    BY <1>3, <2>1
  <2>3. Waits(s, i)
    BY <1>1 DEF StackOk
  <2> QED
    BY <2>2, <2>3 DEF Waits
<1>6. ASSUME NEW i \in 1..n, NEW j \in 1..n, t[i].name = t[j].name PROVE i = j
  BY <1>1, <1>3, <1>6 DEF StackOk
<1>7. StackOk(t)
  BY <1>3, <1>4, <1>5, <1>6 DEF StackOk
<1> QED
  BY <1>7 DEF t

\* no frame is of the file
NotIn(name, s) == \A i \in 1..Len(s) : s[i].name # name

LEMMA StackMore ==
    ASSUME NEW s \in Seq(FrameType), s # <<>>, StackOk(s),
           Last(s).at < Len(File[Last(s).name].steps),
           NEW name \in DOMAIN File, name = StepAt(<<Last(s).name, Last(s).at + 1>>).include,
           NotIn(name, s)
    PROVE  Append(s, Frame(name)) \in Seq(FrameType) /\ StackOk(Append(s, Frame(name)))
<1>1. PICK n \in Nat : n = Len(s) /\ n # 0 /\ Last(s) = s[n]
  BY LastIs
<1>2. PICK f \in FrameType : f = Frame(name) /\ f.name = name /\ f.at = 0
  <2>1. Frame(name) \in FrameType /\ Frame(name).name = name /\ Frame(name).at = 0
    BY DEF Frame, FrameType
  <2> QED
    BY <2>1
<1> DEFINE t == Append(s, f)
<1>3. /\ t \in Seq(FrameType) /\ Len(t) = n + 1
      /\ \A i \in 1..n : t[i] = s[i]
      /\ \A i \in 1..n + 1 : i = n + 1 => t[i] = f
  BY <1>1, AppendIs
<1> HIDE DEF t
<1>4. ASSUME NEW i \in 1..n + 1 PROVE t[i].at <= Len(File[t[i].name].steps)
  <2>1. CASE i = n + 1
    <3>1. 0 <= Len(File[name].steps)
      BY StepsAreMany
    <3> QED
      BY <1>2, <1>3, <2>1, <3>1
  <2>2. CASE i # n + 1
    <3>1. i \in 1..n
      BY <2>2
    <3> QED
      BY <1>1, <1>3, <3>1 DEF StackOk
  <2> QED
    BY <2>1, <2>2
<1>5. ASSUME NEW i \in 1..n PROVE Waits(t, i)
  <2>1. i + 1 \in 1..n + 1 /\ t[i] = s[i]
    BY <1>3
  <2>2. CASE i = n
    <3>1. t[i + 1] = f
      BY <1>3, <2>1, <2>2
    <3> QED
      BY <1>1, <1>2, <2>1, <2>2, <3>1 DEF Waits
  <2>3. CASE i # n
    <3>1. i \in 1..n - 1 /\ i + 1 \in 1..n
      BY <2>3
    <3>2. Waits(s, i) /\ t[i + 1] = s[i + 1]
      BY <1>1, <1>3, <3>1 DEF StackOk
    <3> QED
      BY <2>1, <3>2 DEF Waits
  <2> QED
    BY <2>2, <2>3
<1>6. ASSUME NEW i \in 1..n + 1, NEW j \in 1..n + 1, t[i].name = t[j].name PROVE i = j
  <2>1. \A k \in 1..n + 1 : k # n + 1 => k \in 1..n
    OBVIOUS
  <2>2. \A k \in 1..n + 1 : k # n + 1 => t[k] = s[k] /\ s[k].name # name
    BY <1>1, <1>3, <2>1 DEF NotIn
  <2>3. \A k \in 1..n + 1 : k = n + 1 => t[k].name = name
    BY <1>2, <1>3
  <2>4. CASE i = n + 1 \/ j = n + 1
    BY <1>6, <2>2, <2>3, <2>4
  <2>5. CASE i # n + 1 /\ j # n + 1
    <3>1. i \in 1..n /\ j \in 1..n /\ s[i].name = s[j].name
      BY <1>6, <2>1, <2>2, <2>5
    <3> QED
      BY <1>1, <3>1 DEF StackOk
  <2> QED
    BY <2>4, <2>5
<1>7. n + 1 - 1 = n
  OBVIOUS
<1>8. StackOk(t)
  BY <1>3, <1>4, <1>5, <1>6, <1>7 DEF StackOk
<1> QED
  BY <1>2, <1>3, <1>8 DEF t

LEMMA StackFront ==
    ASSUME NEW s \in Seq(FrameType), s # <<>>, Len(s) # 1, StackOk(s)
    PROVE  /\ Front(s) \in Seq(FrameType) /\ Front(s) # <<>> /\ StackOk(Front(s))
           /\ Last(Front(s)).at < Len(File[Last(Front(s)).name].steps)
           /\ StepAt(<<Last(Front(s)).name, Last(Front(s)).at + 1>>).include = Last(s).name
<1>1. PICK n \in Nat : Len(s) = n + 1 /\ Last(s) = s[n + 1]
  <2>1. Len(s) \in Nat \ {0} /\ Last(s) = s[Len(s)]
    BY LastIs
  <2>2. Len(s) - 1 \in Nat /\ Len(s) = Len(s) - 1 + 1
    BY <2>1
  <2> QED
    BY <2>1, <2>2
<1>2. n # 0 /\ n \in 1..n /\ n \in 1..n + 1 - 1 /\ n + 1 - 1 = n
  BY <1>1
<1> DEFINE t == Front(s)
<1>3. t \in Seq(FrameType) /\ Len(t) = n /\ \A i \in 1..n : t[i] = s[i]
  BY <1>1, <1>2, FrontIs
<1> HIDE DEF t
<1>4. t # <<>> /\ Last(t) = s[n]
  <2>1. t # <<>>
    BY <1>2, <1>3, EmptySeq
  <2>2. Last(t) = t[n]
    BY <1>3, <2>1, LastIs
  <2> QED
    BY <1>2, <1>3, <2>1, <2>2
<1>5. Waits(s, n)
  BY <1>1, <1>2 DEF StackOk
<1>6. StackOk(t)
  <2>1. \A i \in 1..n : t[i].at <= Len(File[t[i].name].steps)
    BY <1>1, <1>3 DEF StackOk
  <2>2. ASSUME NEW i \in 1..n - 1 PROVE Waits(t, i)
    <3>1. i \in 1..n /\ i + 1 \in 1..n /\ i \in 1..n + 1 - 1
      OBVIOUS
    <3>2. Waits(s, i) /\ t[i] = s[i] /\ t[i + 1] = s[i + 1]
      BY <1>1, <1>3, <3>1 DEF StackOk
    <3> QED
      BY <3>2 DEF Waits
  <2>3. ASSUME NEW i \in 1..n, NEW j \in 1..n, t[i].name = t[j].name PROVE i = j
    BY <1>1, <1>3, <2>3 DEF StackOk
  <2> QED
    BY <1>3, <2>1, <2>2, <2>3 DEF StackOk
<1> QED
  BY <1>1, <1>3, <1>4, <1>5, <1>6 DEF t, Waits

-----------------------------------------------------------------------------
(* What a step of a process does.                                          *)

\* a process that is dead keeps what it has read so far
Stage(at, turn, rd, f) ==
    /\ rd.at <= Len(rd.steps)
    /\ StackOk(rd.stack)
    /\ at \in {"include", "parse"} => turn.left # <<>>
    /\ at = "include" => rd.stack # <<>> /\ rd.at = 0
    /\ at = "parse" => rd.stack = <<>>
    /\ at \notin {"include", "parse", "dead"} => rd = NotReading /\ f = NoFile

StagesOk == \A q \in Processes : Stage(pc[q], loading[q], reading[q], file[q])

TInv == Typed /\ StagesOk

\* a step of a process that is no exception: it changes what it reads, and no service
Moved(p, at, turn, rd, f, l) ==
    /\ config' = config
    /\ mode' = mode /\ services' = services /\ port' = port /\ runs' = runs /\ metronom' = metronom
    /\ pc' = [pc EXCEPT ![p] = at]
    /\ loading' = [loading EXCEPT ![p] = turn]
    /\ reading' = [reading EXCEPT ![p] = rd]
    /\ file' = [file EXCEPT ![p] = f]
    /\ list' = [list EXCEPT ![p] = l]

SameFile(q) ==
    /\ pc'[q] = pc[q] /\ loading'[q] = loading[q] /\ reading'[q] = reading[q]
    /\ file'[q] = file[q] /\ list'[q] = list[q]

LEMMA MovedAt ==
    ASSUME Typed, NEW p \in Processes, NEW at, NEW turn, NEW rd, NEW f, NEW l,
           Moved(p, at, turn, rd, f, l)
    PROVE  /\ config' = config /\ pc'[p] = at /\ loading'[p] = turn /\ reading'[p] = rd
           /\ file'[p] = f /\ list'[p] = l
           /\ \A q \in Processes : q # p => SameFile(q)
           /\ mode' = mode /\ services' = services /\ port' = port /\ runs' = runs
           /\ metronom' = metronom
<1>1. /\ pc \in [Processes -> PC] /\ loading \in [Processes -> LoadingType]
      /\ reading \in [Processes -> ReadingType] /\ file \in [Processes -> FileType]
      /\ list \in [Processes -> ListType]
  BY DEF Typed, FileTyped
<1> HIDE DEF PC, LoadingType, ReadingType, FileType, ListType
<1> QED
  BY <1>1 DEF Moved, SameFile

LEMMA MovedTyped ==
    ASSUME TInv, NEW p \in Processes, NEW at \in PC, NEW turn \in LoadingType,
           NEW rd \in ReadingType, NEW f \in FileType, NEW l \in ListType,
           Moved(p, at, turn, rd, f, l), Stage(at, turn, rd, f)
    PROVE  TInv'
<1>1. /\ pc \in [Processes -> PC] /\ loading \in [Processes -> LoadingType]
      /\ reading \in [Processes -> ReadingType] /\ file \in [Processes -> FileType]
      /\ list \in [Processes -> ListType] /\ config \in Configs
  BY DEF TInv, Typed, FileTyped
<1>2. /\ pc' \in [Processes -> PC] /\ loading' \in [Processes -> LoadingType]
      /\ reading' \in [Processes -> ReadingType] /\ file' \in [Processes -> FileType]
      /\ list' \in [Processes -> ListType] /\ config' \in Configs
  BY <1>1 DEF Moved
<1>3. ServiceTyped'
  <2>1. /\ mode' = mode /\ services' = services /\ port' = port /\ runs' = runs
        /\ metronom' = metronom
    BY DEF Moved
  <2>2. ServiceTyped
    BY DEF TInv, Typed
  <2> QED
    BY <2>1, <2>2 DEF ServiceTyped
<1>4. Typed'
  BY <1>2, <1>3 DEF Typed, FileTyped
<1>5. ASSUME NEW q \in Processes PROVE Stage(pc'[q], loading'[q], reading'[q], file'[q])
  <2>1. CASE q = p
    <3>1. pc'[p] = at /\ loading'[p] = turn /\ reading'[p] = rd /\ file'[p] = f
      BY MovedAt DEF TInv
    <3> QED
      BY <2>1, <3>1
  <2>2. CASE q # p
    <3>1. pc'[q] = pc[q] /\ loading'[q] = loading[q] /\ reading'[q] = reading[q]
          /\ file'[q] = file[q]
      BY <2>2, MovedAt DEF TInv, SameFile
    <3>2. Stage(pc[q], loading[q], reading[q], file[q])
      BY DEF TInv, StagesOk
    <3> QED
      BY <3>1, <3>2
  <2> QED
    BY <2>1, <2>2
<1> QED
  BY <1>4, <1>5 DEF TInv, StagesOk

LEMMA DiesAt ==
    ASSUME Typed, NEW p \in Processes, Dies(p)
    PROVE  /\ config' = config /\ pc'[p] = "dead" /\ port'[p] = 0
           /\ loading' = loading /\ reading' = reading /\ file' = file /\ list' = list
           /\ mode' = mode /\ services' = services /\ runs' = runs /\ metronom' = metronom
           /\ \A q \in Processes : q # p => pc'[q] = pc[q] /\ port'[q] = port[q]
<1>1. pc \in [Processes -> PC] /\ port \in [Processes -> Nat]
  BY DEF Typed, ServiceTyped
<1> HIDE DEF PC
<1> QED
  BY <1>1 DEF Dies, Goto, fileVars

LEMMA DiesTyped ==
    ASSUME TInv, NEW p \in Processes, Dies(p)
    PROVE  TInv'
<1>1. pc \in [Processes -> PC] /\ port \in [Processes -> Nat]
  BY DEF TInv, Typed, ServiceTyped
<1>2. pc' = [pc EXCEPT ![p] = "dead"] /\ port' = [port EXCEPT ![p] = 0]
  BY DEF Dies, Goto
<1>3. pc' \in [Processes -> PC] /\ port' \in [Processes -> Nat]
  <2>1. "dead" \in PC
    BY DEF PC
  <2> QED
    BY <1>1, <1>2, <2>1
<1>4. /\ config' = config /\ loading' = loading /\ reading' = reading /\ file' = file
      /\ list' = list /\ mode' = mode /\ services' = services /\ runs' = runs
      /\ metronom' = metronom
  BY DEF Dies, fileVars
<1>5. Typed'
  BY <1>3, <1>4 DEF TInv, Typed, FileTyped, ServiceTyped
<1>6. ASSUME NEW q \in Processes PROVE Stage(pc'[q], loading'[q], reading'[q], file'[q])
  <2>1. pc'[q] = "dead" \/ pc'[q] = pc[q]
    BY <1>1, <1>2
  <2>2. Stage(pc[q], loading[q], reading[q], file[q])
    BY DEF TInv, StagesOk
  <2>3. Stage(pc[q], loading[q], reading[q], file[q]) => Stage("dead", loading[q], reading[q], file[q])
    BY DEF Stage
  <2> QED
    BY <1>4, <2>1, <2>2, <2>3
<1> QED
  BY <1>5, <1>6 DEF TInv, StagesOk

-----------------------------------------------------------------------------
(* The steps of a process that reads its files, one by one.                *)

ListUsed(p) == IF ListOf(p) # <<>> THEN ListOf(p) ELSE config.filein

Chooses(p) ==
    /\ pc[p] = "new" /\ ListUsed(p) # <<>>
    /\ Moved(p, "open", [loading[p] EXCEPT !.left = Expand(ListUsed(p))], reading[p], file[p], list[p])

\* a file is refused, and another name or the next file is tried
Retries(p) ==
    \E turn \in LoadingType :
        /\ pc[p] \in {"open", "include", "parse"} /\ loading[p].left # <<>>
        /\ ByVariants(p) /\ loading[p].attempt # 3
        /\ turn.counter \in {loading[p].counter, loading[p].counter + 1}
        /\ turn.left \in {loading[p].left, Tail(loading[p].left)}
        /\ Moved(p, "open", turn, NotReading, NoFile, list[p])

Opens(p) ==
    \E name \in DOMAIN File :
        /\ pc[p] = "open" /\ loading[p].left # <<>> /\ name = NextName(p)
        /\ Moved(p, "include", loading[p], [reading[p] EXCEPT !.stack = <<Frame(name)>>],
                 NewFile(name, Flattened(File[name].context)), list[p])

Takes(p) ==
    /\ pc[p] = "include" /\ HasNext(p) /\ StepAt(NextAt(p)).include = ""
    /\ Moved(p, "include", loading[p],
             [reading[p] EXCEPT !.steps = Append(@, NextAt(p)), !.stack = StepDone(@)],
             file[p], list[p])

Enters(p) ==
    \E name \in DOMAIN File :
        /\ pc[p] = "include" /\ HasNext(p) /\ name # "" /\ name = StepAt(NextAt(p)).include
        /\ NotIn(name, reading[p].stack)
        /\ Moved(p, "include", loading[p], [reading[p] EXCEPT !.stack = Append(@, Frame(name))],
                 [file[p] EXCEPT !.context = Merged(@, File[name].context)], list[p])

Returns(p) ==
    /\ pc[p] = "include" /\ ~HasNext(p) /\ Len(reading[p].stack) # 1
    /\ Moved(p, "include", loading[p], [reading[p] EXCEPT !.stack = StepDone(Front(@))],
             file[p], list[p])

Ends(p) ==
    /\ pc[p] = "include" /\ ~HasNext(p) /\ Len(reading[p].stack) = 1
    /\ Moved(p, "parse", loading[p], [reading[p] EXCEPT !.stack = <<>>], file[p], list[p])

Ignores(p) ==
    /\ Parsing(p) /\ Ignored(config, Parsed(p))
    /\ Moved(p, "parse", loading[p], [reading[p] EXCEPT !.at = @ + 1],
             CountCall(file[p], Parsed(p).async), list[p])

LineMade(p) ==
    LET counted == CountCall(file[p], Parsed(p).async)
    IN  Line(config, p, counted, Parsed(p), loading[p].counter + 1)

Makes(p) ==
    /\ Parsing(p) /\ ~Ignored(config, Parsed(p))
    /\ Moved(p, "parse", [loading[p] EXCEPT !.counter = @ + 1], [reading[p] EXCEPT !.at = @ + 1],
             AddLine(CountCall(file[p], Parsed(p).async), Parsed(p), LineMade(p)), list[p])

Loads(p, l) ==
    /\ pc[p] = "parse" /\ reading[p].at = Len(reading[p].steps)
    /\ Moved(p, "open", [TurnEnds(loading[p]) EXCEPT !.found = TRUE], NotReading, NoFile, l)

Skips(p) == ByVariants(p) /\ Loads(p, list[p])
Appends(p) == Loads(p, AddScenario(list[p], file[p]))

Finishes(p) ==
    /\ pc[p] = "open" /\ loading[p].left = <<>>
    /\ Moved(p, "flags", loading[p], reading[p], file[p], list[p])

Reads(p) ==
    \/ Chooses(p) \/ Retries(p) \/ Opens(p) \/ Takes(p) \/ Enters(p) \/ Returns(p) \/ Ends(p)
    \/ Ignores(p) \/ Makes(p) \/ Skips(p) \/ Appends(p) \/ Finishes(p)

FileStep(p) ==
    \/ InitScenarioPerThread(p) \/ ChooseList(p)
    \/ OpenFile(p) \/ TakeStep(p) \/ IncludeFile(p) \/ EndInclude(p)
    \/ RefuseCall(p) \/ IgnoreStep(p) \/ MakeLine(p) \/ FileLoaded(p) \/ ListLoaded(p)

LEMMA Unmoved ==
    ASSUME Typed, NEW p \in Processes
    PROVE  /\ pc = [pc EXCEPT ![p] = pc[p]] /\ loading = [loading EXCEPT ![p] = loading[p]]
           /\ reading = [reading EXCEPT ![p] = reading[p]] /\ file = [file EXCEPT ![p] = file[p]]
           /\ list = [list EXCEPT ![p] = list[p]]
<1>1. /\ pc \in [Processes -> PC] /\ loading \in [Processes -> LoadingType]
      /\ reading \in [Processes -> ReadingType] /\ file \in [Processes -> FileType]
      /\ list \in [Processes -> ListType]
  BY DEF Typed, FileTyped
<1> HIDE DEF PC, LoadingType, ReadingType, FileType, ListType
<1> QED
  BY <1>1

LEMMA TypesAt ==
    ASSUME Typed, NEW p \in Processes
    PROVE  /\ config \in Configs
           /\ pc[p] \in PC /\ loading[p] \in LoadingType /\ reading[p] \in ReadingType
           /\ file[p] \in FileType /\ list[p] \in ListType /\ mode[p] \in ModeType
           /\ runs[p] \in Nat /\ port[p] \in Nat
<1> HIDE DEF PC, LoadingType, ReadingType, FileType, ListType, ModeType
<1> QED
  BY DEF Typed, FileTyped, ServiceTyped

LEMMA TurnEndsType ==
    ASSUME NEW turn \in LoadingType, turn.left # <<>>
    PROVE  /\ TurnEnds(turn) \in LoadingType /\ TurnEnds(turn).counter = turn.counter
           /\ TurnEnds(turn).left = Tail(turn.left)
<1>1. turn.left \in Seq(STRING)
  BY DEF LoadingType
<1>2. Tail(turn.left) \in Seq(STRING)
  BY <1>1, HeadTailProperties
<1>3. PICK left \in Seq(STRING) : left = Tail(turn.left)
  BY <1>2
<1>4. TurnEnds(turn) = [turn EXCEPT !.left = left, !.id = turn.id + 1, !.attempt = 1]
  BY <1>3 DEF TurnEnds
<1>5. turn.id + 1 \in Nat /\ 1 \in 1..3
  BY DEF LoadingType
<1>6. /\ TurnEnds(turn) \in LoadingType
      /\ TurnEnds(turn).left = left
  BY <1>4, <1>5 DEF LoadingType
<1>7. TurnEnds(turn).counter = turn.counter
  BY <1>4 DEF LoadingType
<1> QED
  BY <1>3, <1>6, <1>7

LEMMA FileFailsIs ==
    ASSUME TInv, NEW p \in Processes, NEW counter, NEW loaded, FileFails(p, counter, loaded),
           counter \in {loading[p].counter, loading[p].counter + 1},
           pc[p] \in {"open", "include", "parse"}, loading[p].left # <<>>
    PROVE  Dies(p) \/ Retries(p)
<1> DEFINE turn == [loading[p] EXCEPT !.counter = counter]
<1>1. loading[p] \in LoadingType
  BY TypesAt DEF TInv
<1>2. turn \in LoadingType /\ turn.left = loading[p].left /\ turn.counter = counter
  BY <1>1 DEF LoadingType
<1> SUFFICES ASSUME ~Dies(p) PROVE Retries(p)
  OBVIOUS
<1>3. ByVariants(p) /\ turn.attempt # 3 /\ turn.attempt = loading[p].attempt
  <2>1. turn.attempt = loading[p].attempt
    BY <1>1 DEF LoadingType
  <2> QED
    BY <2>1 DEF FileFails
<1> DEFINE next == IF turn.attempt = 1 /\ turn.found THEN TurnEnds(turn)
                   ELSE [turn EXCEPT !.attempt = @ + 1]
<1>4. loading' = [loading EXCEPT ![p] = next]
  BY <1>3 DEF FileFails
<1>5. /\ reading' = [reading EXCEPT ![p] = NotReading] /\ file' = [file EXCEPT ![p] = NoFile]
      /\ pc' = [pc EXCEPT ![p] = "open"] /\ config' = config /\ list' = list
      /\ mode' = mode /\ services' = services /\ port' = port /\ runs' = runs
      /\ metronom' = metronom
  BY <1>3 DEF FileFails, Goto, serviceVars
<1> HIDE DEF turn
<1>6. /\ next \in LoadingType /\ next.counter = counter
      /\ next.left \in {loading[p].left, Tail(loading[p].left)}
  <2>1. CASE turn.attempt = 1 /\ turn.found
    BY <1>2, <2>1, TurnEndsType
  <2>2. CASE ~(turn.attempt = 1 /\ turn.found)
    BY <1>2, <1>3, <2>2 DEF LoadingType
  <2> QED
    BY <2>1, <2>2
<1> HIDE DEF next
<1>7. list' = [list EXCEPT ![p] = list[p]]
  BY <1>5, Unmoved DEF TInv
<1>8. Moved(p, "open", next, NotReading, NoFile, list[p])
  BY <1>4, <1>5, <1>7 DEF Moved
<1> QED
  BY <1>3, <1>6, <1>8 DEF Retries

LEMMA ChooseListIs ==
    ASSUME TInv, NEW p \in Processes, ChooseList(p)
    PROVE  Dies(p) \/ Chooses(p)
<1> SUFFICES ASSUME ~Dies(p) PROVE Chooses(p)
  OBVIOUS
<1>1. pc[p] = "new" /\ ListUsed(p) # <<>>
  BY DEF ChooseList, ListUsed
<1>2. loading' = [loading EXCEPT ![p].left = Expand(ListUsed(p))]
  BY <1>1 DEF ChooseList, ListUsed
<1>3. loading' = [loading EXCEPT ![p] = [loading[p] EXCEPT !.left = Expand(ListUsed(p))]]
  BY <1>2
<1>4. /\ pc' = [pc EXCEPT ![p] = "open"] /\ config' = config
      /\ reading' = reading /\ file' = file /\ list' = list
      /\ mode' = mode /\ services' = services /\ port' = port /\ runs' = runs
      /\ metronom' = metronom
  BY <1>1 DEF ChooseList, ListUsed, Goto, serviceVars
<1>5. /\ reading' = [reading EXCEPT ![p] = reading[p]] /\ file' = [file EXCEPT ![p] = file[p]]
      /\ list' = [list EXCEPT ![p] = list[p]]
  BY <1>4, Unmoved DEF TInv
<1> QED
  BY <1>1, <1>3, <1>4, <1>5 DEF Chooses, Moved

LEMMA OpenFileIs ==
    ASSUME TInv, NEW p \in Processes, OpenFile(p)
    PROVE  Dies(p) \/ Retries(p) \/ Opens(p)
<1> DEFINE name == NextName(p)
           loaded == LoadMacros(loading[p].id, macros[p], File[name].macros)
<1>1. pc[p] = "open" /\ loading[p].left # <<>>
  BY DEF OpenFile
<1>2. CASE FileRefused(name)
  <2>1. FileFails(p, loading[p].counter, macros[p])
    BY <1>2 DEF OpenFile, FileFailsHere
  <2> QED
    BY <1>1, <2>1, FileFailsIs
<1>3. CASE ~FileRefused(name) /\ (~loaded.ok \/ ~File[name].hasSteps)
  <2>1. FileFails(p, loading[p].counter, loaded.macros)
    BY <1>3 DEF OpenFile
  <2> HIDE DEF loaded
  <2> QED
    BY <1>1, <2>1, FileFailsIs
<1>4. CASE ~FileRefused(name) /\ ~(~loaded.ok \/ ~File[name].hasSteps)
  <2>1. /\ reading' = [reading EXCEPT ![p].stack = <<Frame(name)>>]
        /\ file' = [file EXCEPT ![p] = NewFile(name, Flattened(File[name].context))]
        /\ pc' = [pc EXCEPT ![p] = "include"] /\ config' = config
        /\ loading' = loading /\ list' = list
        /\ mode' = mode /\ services' = services /\ port' = port /\ runs' = runs
        /\ metronom' = metronom
    BY <1>4 DEF OpenFile, Goto, serviceVars
  <2>2. name \in DOMAIN File
    BY <1>4 DEF FileRefused, Unreadable
  <2> HIDE DEF loaded, name
  <2>3. reading' = [reading EXCEPT ![p] = [reading[p] EXCEPT !.stack = <<Frame(name)>>]]
    BY <2>1
  <2>4. loading' = [loading EXCEPT ![p] = loading[p]] /\ list' = [list EXCEPT ![p] = list[p]]
    BY <2>1, Unmoved DEF TInv
  <2>5. Moved(p, "include", loading[p], [reading[p] EXCEPT !.stack = <<Frame(name)>>],
              NewFile(name, Flattened(File[name].context)), list[p])
    BY <2>1, <2>3, <2>4 DEF Moved
  <2>6. name = NextName(p)
    BY DEF name
  <2> QED
    BY <1>1, <2>2, <2>5, <2>6 DEF Opens
<1> QED
  BY <1>2, <1>3, <1>4

LEMMA TakeStepIs ==
    ASSUME TInv, NEW p \in Processes, TakeStep(p)
    PROVE  Takes(p)
<1> DEFINE rd == [reading[p] EXCEPT !.steps = Append(@, NextAt(p)), !.stack = StepDone(@)]
<1>1. /\ pc[p] = "include" /\ HasNext(p) /\ StepAt(NextAt(p)).include = ""
      /\ reading' = [reading EXCEPT ![p].steps = Append(@, NextAt(p)), ![p].stack = StepDone(@)]
      /\ pc' = pc /\ config' = config /\ loading' = loading /\ file' = file /\ list' = list
      /\ mode' = mode /\ services' = services /\ port' = port /\ runs' = runs
      /\ metronom' = metronom
  BY DEF TakeStep, serviceVars
<1>2. p \in DOMAIN reading
  BY DEF TInv, Typed, FileTyped
<1>3. reading' = [reading EXCEPT ![p] = rd]
  BY <1>1, <1>2
<1> HIDE DEF rd
<1>4. /\ pc' = [pc EXCEPT ![p] = "include"] /\ loading' = [loading EXCEPT ![p] = loading[p]]
      /\ file' = [file EXCEPT ![p] = file[p]] /\ list' = [list EXCEPT ![p] = list[p]]
  BY <1>1, Unmoved DEF TInv
<1>5. Moved(p, "include", loading[p], rd, file[p], list[p])
  BY <1>1, <1>3, <1>4 DEF Moved
<1> QED
  BY <1>1, <1>5 DEF Takes, rd

LEMMA IncludeFileIs ==
    ASSUME TInv, NEW p \in Processes, IncludeFile(p)
    PROVE  Dies(p) \/ Retries(p) \/ Enters(p)
<1> DEFINE name == StepAt(NextAt(p)).include
           loaded == LoadMacros(loading[p].id, macros[p], File[name].macros)
<1>1. pc[p] = "include" /\ HasNext(p) /\ name # "" /\ loading[p].left # <<>>
  BY DEF IncludeFile, TInv, StagesOk, Stage
<1>2. CASE IncludeRefused(name, reading[p].stack)
  <2>1. FileFails(p, loading[p].counter, macros[p])
    BY <1>2 DEF IncludeFile, FileFailsHere
  <2> QED
    BY <1>1, <2>1, FileFailsIs
<1>3. CASE ~IncludeRefused(name, reading[p].stack) /\ ~loaded.ok
  <2>1. FileFails(p, loading[p].counter, loaded.macros)
    BY <1>3 DEF IncludeFile
  <2> HIDE DEF loaded
  <2> QED
    BY <1>1, <2>1, FileFailsIs
<1>4. CASE ~IncludeRefused(name, reading[p].stack) /\ loaded.ok
  <2>1. /\ reading' = [reading EXCEPT ![p].stack = Append(@, Frame(name))]
        /\ file' = [file EXCEPT ![p].context = Merged(@, File[name].context)]
        /\ pc' = pc /\ config' = config /\ loading' = loading /\ list' = list
        /\ mode' = mode /\ services' = services /\ port' = port /\ runs' = runs
        /\ metronom' = metronom
    BY <1>4 DEF IncludeFile, serviceVars
  <2>2. name \in DOMAIN File
    BY <1>4 DEF IncludeRefused, Unreadable
  <2>3. NotIn(name, reading[p].stack)
    <3>1. reading[p].stack \in Seq(FrameType)
      BY TypesAt DEF TInv, ReadingType
    <3>2. DOMAIN reading[p].stack = 1..Len(reading[p].stack)
      BY <3>1, LenProperties
    <3> QED
      BY <1>4, <3>2 DEF IncludeRefused, NotIn
  <2>4. name = StepAt(NextAt(p)).include
    OBVIOUS
  <2> HIDE DEF loaded, name
  <2>5. reading' = [reading EXCEPT ![p] = [reading[p] EXCEPT !.stack = Append(@, Frame(name))]]
    BY <2>1
  <2>6. file' = [file EXCEPT ![p] = [file[p] EXCEPT !.context = Merged(@, File[name].context)]]
    BY <2>1
  <2>7. /\ pc' = [pc EXCEPT ![p] = "include"] /\ loading' = [loading EXCEPT ![p] = loading[p]]
        /\ list' = [list EXCEPT ![p] = list[p]]
    BY <1>1, <2>1, Unmoved DEF TInv
  <2>8. Moved(p, "include", loading[p], [reading[p] EXCEPT !.stack = Append(@, Frame(name))],
              [file[p] EXCEPT !.context = Merged(@, File[name].context)], list[p])
    BY <2>1, <2>5, <2>6, <2>7 DEF Moved
  <2> QED
    BY <1>1, <2>2, <2>3, <2>4, <2>8 DEF Enters
<1> QED
  BY <1>2, <1>3, <1>4

LEMMA EndIncludeIs ==
    ASSUME TInv, NEW p \in Processes, EndInclude(p)
    PROVE  Returns(p) \/ Ends(p)
<1>1. /\ pc[p] = "include" /\ ~HasNext(p)
      /\ config' = config /\ loading' = loading /\ file' = file /\ list' = list
      /\ mode' = mode /\ services' = services /\ port' = port /\ runs' = runs
      /\ metronom' = metronom
  BY DEF EndInclude, serviceVars
<1>2. /\ loading' = [loading EXCEPT ![p] = loading[p]] /\ file' = [file EXCEPT ![p] = file[p]]
      /\ list' = [list EXCEPT ![p] = list[p]]
  BY <1>1, Unmoved DEF TInv
<1>3. CASE Len(reading[p].stack) = 1
  <2>1. /\ reading' = [reading EXCEPT ![p].stack = <<>>]
        /\ pc' = [pc EXCEPT ![p] = "parse"]
    BY <1>3 DEF EndInclude, Goto
  <2>2. reading' = [reading EXCEPT ![p] = [reading[p] EXCEPT !.stack = <<>>]]
    BY <2>1
  <2>3. Moved(p, "parse", loading[p], [reading[p] EXCEPT !.stack = <<>>], file[p], list[p])
    BY <1>1, <1>2, <2>1, <2>2 DEF Moved
  <2> QED
    BY <1>1, <1>3, <2>3 DEF Ends
<1>4. CASE Len(reading[p].stack) # 1
  <2>1. /\ reading' = [reading EXCEPT ![p].stack = StepDone(Front(reading[p].stack))]
        /\ pc' = pc
    BY <1>4 DEF EndInclude
  <2>2. reading' = [reading EXCEPT ![p] = [reading[p] EXCEPT !.stack = StepDone(Front(@))]]
    BY <2>1
  <2>3. pc' = [pc EXCEPT ![p] = "include"]
    BY <1>1, <2>1, Unmoved DEF TInv
  <2>4. Moved(p, "include", loading[p], [reading[p] EXCEPT !.stack = StepDone(Front(@))],
              file[p], list[p])
    BY <1>1, <1>2, <2>2, <2>3 DEF Moved
  <2> QED
    BY <1>1, <1>4, <2>4 DEF Returns
<1> QED
  BY <1>3, <1>4

LEMMA RefuseCallIs ==
    ASSUME TInv, NEW p \in Processes, RefuseCall(p)
    PROVE  Dies(p) \/ Retries(p)
<1>1. pc[p] = "parse" /\ loading[p].left # <<>>
  BY DEF RefuseCall, Parsing, TInv, StagesOk, Stage
<1>2. FileFails(p, loading[p].counter, macros[p])
  BY DEF RefuseCall, FileFailsHere
<1> QED
  BY <1>1, <1>2, FileFailsIs

LEMMA IgnoreStepIs ==
    ASSUME TInv, NEW p \in Processes, IgnoreStep(p)
    PROVE  Ignores(p)
<1>1. /\ Parsing(p) /\ Ignored(config, Parsed(p))
      /\ file' = [file EXCEPT ![p] = CountCall(@, Parsed(p).async)]
      /\ reading' = [reading EXCEPT ![p].at = @ + 1]
      /\ pc' = pc /\ config' = config /\ loading' = loading /\ list' = list
      /\ mode' = mode /\ services' = services /\ port' = port /\ runs' = runs
      /\ metronom' = metronom
  BY DEF IgnoreStep, serviceVars
<1>2. /\ file' = [file EXCEPT ![p] = CountCall(file[p], Parsed(p).async)]
      /\ reading' = [reading EXCEPT ![p] = [reading[p] EXCEPT !.at = @ + 1]]
  BY <1>1
<1>3. /\ pc' = [pc EXCEPT ![p] = "parse"] /\ loading' = [loading EXCEPT ![p] = loading[p]]
      /\ list' = [list EXCEPT ![p] = list[p]]
  BY <1>1, Unmoved DEF TInv, Parsing
<1>4. Moved(p, "parse", loading[p], [reading[p] EXCEPT !.at = @ + 1],
            CountCall(file[p], Parsed(p).async), list[p])
  BY <1>1, <1>2, <1>3 DEF Moved
<1> QED
  BY <1>1, <1>4 DEF Ignores

LEMMA MakeLineIs ==
    ASSUME TInv, NEW p \in Processes, MakeLine(p)
    PROVE  Dies(p) \/ Retries(p) \/ Makes(p)
<1> DEFINE step == Parsed(p)
           counted == CountCall(file[p], step.async)
           count == loading[p].counter + 1
<1>1. Parsing(p) /\ ~Ignored(config, step)
  BY DEF MakeLine
<1>2. pc[p] = "parse" /\ loading[p].left # <<>>
  BY <1>1 DEF Parsing, TInv, StagesOk, Stage
<1>3. CASE StepRefused(config, step) \/ step.name = ""
  <2>1. FileFails(p, loading[p].counter, macros[p])
    BY <1>3 DEF MakeLine, FileFailsHere
  <2> QED
    BY <1>2, <2>1, FileFailsIs
<1>4. CASE ~(StepRefused(config, step) \/ step.name = "") /\ LineRefused(file[p], step)
  <2>1. FileFails(p, count, macros[p])
    BY <1>4 DEF MakeLine
  <2> QED
    BY <1>2, <2>1, FileFailsIs
<1>5. CASE ~(StepRefused(config, step) \/ step.name = "") /\ ~LineRefused(file[p], step)
  <2> DEFINE line == Line(config, p, counted, step, count)
  <2>1. /\ loading' = [loading EXCEPT ![p].counter = count]
        /\ file' = [file EXCEPT ![p] = AddLine(counted, step, line)]
        /\ reading' = [reading EXCEPT ![p].at = @ + 1]
        /\ pc' = pc /\ config' = config /\ list' = list
        /\ mode' = mode /\ services' = services /\ port' = port /\ runs' = runs
        /\ metronom' = metronom
    BY <1>5 DEF MakeLine, serviceVars
  <2>2. /\ loading' = [loading EXCEPT ![p] = [loading[p] EXCEPT !.counter = @ + 1]]
        /\ reading' = [reading EXCEPT ![p] = [reading[p] EXCEPT !.at = @ + 1]]
    BY <2>1
  <2>3. pc' = [pc EXCEPT ![p] = "parse"] /\ list' = [list EXCEPT ![p] = list[p]]
    BY <1>2, <2>1, Unmoved DEF TInv
  <2>4. line = LineMade(p)
    BY DEF LineMade
  <2> HIDE DEF line
  <2>5. Moved(p, "parse", [loading[p] EXCEPT !.counter = @ + 1], [reading[p] EXCEPT !.at = @ + 1],
              AddLine(CountCall(file[p], Parsed(p).async), Parsed(p), LineMade(p)), list[p])
    BY <2>1, <2>2, <2>3, <2>4 DEF Moved
  <2> QED
    BY <1>1, <2>5 DEF Makes
<1> QED
  BY <1>3, <1>4, <1>5

LEMMA FileLoadedIs ==
    ASSUME TInv, NEW p \in Processes, FileLoaded(p)
    PROVE  Skips(p) \/ Appends(p)
<1>1. /\ pc[p] = "parse" /\ reading[p].at = Len(reading[p].steps)
      /\ loading' = [loading EXCEPT ![p] = [TurnEnds(@) EXCEPT !.found = TRUE]]
      /\ reading' = [reading EXCEPT ![p] = NotReading] /\ file' = [file EXCEPT ![p] = NoFile]
      /\ pc' = [pc EXCEPT ![p] = "open"] /\ config' = config
      /\ mode' = mode /\ services' = services /\ port' = port /\ runs' = runs
      /\ metronom' = metronom
  BY DEF FileLoaded, Goto, serviceVars
<1>2. loading' = [loading EXCEPT ![p] = [TurnEnds(loading[p]) EXCEPT !.found = TRUE]]
  BY <1>1
<1>3. CASE ByVariants(p) /\ loading[p].attempt = 1
  <2>1. list' = [list EXCEPT ![p] = list[p]]
    BY <1>3, Unmoved DEF FileLoaded, TInv
  <2> QED
    BY <1>1, <1>2, <1>3, <2>1 DEF Skips, Loads, Moved
<1>4. CASE ~(ByVariants(p) /\ loading[p].attempt = 1)
  <2>1. list' = [list EXCEPT ![p] = AddScenario(list[p], file[p])]
    <3>1. list' = [list EXCEPT ![p] = AddScenario(@, file[p])]
      BY <1>4 DEF FileLoaded
    <3> HIDE DEF AddScenario
    <3> QED
      BY <3>1
  <2> HIDE DEF AddScenario
  <2> QED
    BY <1>1, <1>2, <2>1 DEF Appends, Loads, Moved
<1> QED
  BY <1>3, <1>4

LEMMA ListLoadedIs ==
    ASSUME TInv, NEW p \in Processes, ListLoaded(p)
    PROVE  Dies(p) \/ Finishes(p)
<1> SUFFICES ASSUME ~Dies(p) PROVE Finishes(p)
  OBVIOUS
<1>1. /\ pc[p] = "open" /\ loading[p].left = <<>>
      /\ pc' = [pc EXCEPT ![p] = "flags"] /\ config' = config
      /\ loading' = loading /\ reading' = reading /\ file' = file /\ list' = list
      /\ mode' = mode /\ services' = services /\ port' = port /\ runs' = runs
      /\ metronom' = metronom
  BY DEF ListLoaded, Goto, serviceVars, fileVars
<1>2. /\ loading' = [loading EXCEPT ![p] = loading[p]] /\ file' = [file EXCEPT ![p] = file[p]]
      /\ reading' = [reading EXCEPT ![p] = reading[p]] /\ list' = [list EXCEPT ![p] = list[p]]
  BY <1>1, Unmoved DEF TInv
<1> QED
  BY <1>1, <1>2 DEF Finishes, Moved

LEMMA FileStepIs ==
    ASSUME TInv, NEW p \in Processes, FileStep(p)
    PROVE  Dies(p) \/ Reads(p)
<1>1. CASE InitScenarioPerThread(p)
  BY <1>1 DEF InitScenarioPerThread
<1>2. CASE ChooseList(p)
  BY <1>2, ChooseListIs DEF Reads
<1>3. CASE OpenFile(p)
  BY <1>3, OpenFileIs DEF Reads
<1>4. CASE TakeStep(p)
  BY <1>4, TakeStepIs DEF Reads
<1>5. CASE IncludeFile(p)
  BY <1>5, IncludeFileIs DEF Reads
<1>6. CASE EndInclude(p)
  BY <1>6, EndIncludeIs DEF Reads
<1>7. CASE RefuseCall(p)
  BY <1>7, RefuseCallIs DEF Reads
<1>8. CASE IgnoreStep(p)
  BY <1>8, IgnoreStepIs DEF Reads
<1>9. CASE MakeLine(p)
  BY <1>9, MakeLineIs DEF Reads
<1>10. CASE FileLoaded(p)
  BY <1>10, FileLoadedIs DEF Reads
<1>11. CASE ListLoaded(p)
  BY <1>11, ListLoadedIs DEF Reads
<1> QED
  BY <1>1, <1>2, <1>3, <1>4, <1>5, <1>6, <1>7, <1>8, <1>9, <1>10, <1>11 DEF FileStep

-----------------------------------------------------------------------------
(* The types are kept while files are read.                                *)

LEMMA SingleSeq == ASSUME NEW S, NEW t \in S PROVE <<t>> \in Seq(S) /\ Len(<<t>>) = 1
  OBVIOUS

LEMMA ExpandType == ASSUME NEW tokens \in Seq(STRING) PROVE Expand(tokens) \in Seq(STRING)
<1> DEFINE e == [i \in DOMAIN tokens |->
                    IF tokens[i] \in DOMAIN Glob THEN Glob[tokens[i]] ELSE <<tokens[i]>>]
<1>1. PICK n \in Nat : DOMAIN tokens = 1..n /\ \A i \in 1..n : tokens[i] \in STRING
  BY LenProperties, ElementOfSeq
<1>2. ASSUME NEW i \in 1..n
      PROVE  (IF tokens[i] \in DOMAIN Glob THEN Glob[tokens[i]] ELSE <<tokens[i]>>) \in Seq(STRING)
  <2>1. CASE tokens[i] \in DOMAIN Glob
    BY <2>1, StartUpAssumption
  <2>2. CASE tokens[i] \notin DOMAIN Glob
    <3>1. PICK t \in STRING : t = tokens[i]
      BY <1>1
    <3>2. <<t>> \in Seq(STRING)
      BY SingleSeq
    <3> QED
      BY <2>2, <3>1, <3>2
  <2> QED
    BY <2>1, <2>2
<1>3. e \in [1..n -> Seq(STRING)]
  BY <1>1, <1>2
<1> HIDE DEF e
<1>4. e \in Seq(Seq(STRING))
  BY <1>3, FunctionIsSeq
<1>5. FlattenSeq(e) \in Seq(STRING)
  BY <1>4, FlattenType
<1> QED
  BY <1>5 DEF e, Expand

LEMMA ListUsedType == ASSUME Typed, NEW p \in Processes PROVE ListUsed(p) \in Seq(STRING)
<1>1. /\ config.before \in Seq(STRING) /\ config.filein \in Seq(STRING)
      /\ config.after \in Seq(STRING) /\ config.fileinOf[p] \in Seq(STRING)
  BY ConfigsAssumption DEF Typed
<1>2. config.before \o config.filein \o config.after \in Seq(STRING)
  BY <1>1, ConcatProperties
<1>3. <<>> \in Seq(STRING)
  OBVIOUS
<1>4. ListOf(p) \in Seq(STRING)
  BY <1>1, <1>2, <1>3 DEF ListOf
<1> QED
  BY <1>1, <1>4 DEF ListUsed

LEMMA NotReadingIs ==
    /\ NotReading \in ReadingType
    /\ \A at, turn : at \notin {"include", "parse"} => Stage(at, turn, NotReading, NoFile)
<1>1. <<>> \in Seq(FrameType) /\ <<>> \in Seq(Places) /\ Len(<<>>) = 0
  BY EmptySeq
<1>2. NotReading \in ReadingType
  BY <1>1 DEF NotReading, ReadingType
<1>3. NotReading.stack = <<>> /\ NotReading.steps = <<>> /\ NotReading.at = 0
  BY DEF NotReading
<1>4. StackOk(<<>>)
  BY <1>1 DEF StackOk
<1> HIDE DEF NotReading
<1> QED
  BY <1>1, <1>2, <1>3, <1>4 DEF Stage

LEMMA StageAt ==
    ASSUME TInv, NEW p \in Processes
    PROVE  Stage(pc[p], loading[p], reading[p], file[p])
  BY DEF TInv, StagesOk

LEMMA TopIs ==
    ASSUME TInv, NEW p \in Processes, pc[p] = "include"
    PROVE  /\ reading[p].stack \in Seq(FrameType) /\ reading[p].stack # <<>>
           /\ StackOk(reading[p].stack)
           /\ Top(p) = Last(reading[p].stack) /\ Top(p) \in FrameType
           /\ HasNext(p) => NextAt(p) \in Places
           /\ reading[p].steps \in Seq(Places) /\ reading[p].at = 0
<1>1. reading[p].stack \in Seq(FrameType) /\ reading[p].steps \in Seq(Places)
  BY TypesAt DEF TInv, ReadingType
<1>2. reading[p].stack # <<>> /\ StackOk(reading[p].stack) /\ reading[p].at = 0
  BY StageAt DEF Stage
<1>3. Top(p) = Last(reading[p].stack) /\ Top(p) \in FrameType
  BY <1>1, <1>2, LastIs DEF Top
<1>4. ASSUME HasNext(p) PROVE NextAt(p) \in Places
  <2>1. PICK name \in DOMAIN File, at \in Nat : name = Top(p).name /\ at = Top(p).at
    BY <1>3 DEF FrameType
  <2>2. at < Len(File[name].steps) /\ Len(File[name].steps) \in Nat
    BY <1>4, <2>1, StepsAreMany DEF HasNext
  <2>3. at + 1 \in 1..Len(File[name].steps)
    BY <2>2
  <2>4. <<name, at + 1>> \in Places
    BY <2>3, PlacesAre
  <2> QED
    BY <2>1, <2>4 DEF NextAt
<1> QED
  BY <1>1, <1>2, <1>3, <1>4

LEMMA ParsedIs ==
    ASSUME TInv, NEW p \in Processes, Parsing(p)
    PROVE  /\ reading[p].at + 1 \in 1..Len(reading[p].steps) /\ reading[p].at \in Nat
           /\ reading[p].steps[reading[p].at + 1] \in Places
           /\ Len(reading[p].steps) \in Nat /\ reading[p].steps \in Seq(Places)
<1>1. reading[p].at \in Nat /\ reading[p].steps \in Seq(Places)
  BY TypesAt DEF TInv, ReadingType
<1>2. PICK i \in 1..Len(reading[p].steps) : i = reading[p].at + 1
  BY <1>1, LenProperties DEF Parsing
<1>3. reading[p].steps[i] \in Places
  BY <1>1, <1>2, ElementOfSeq
<1> QED
  BY <1>1, <1>2, <1>3, LenProperties

LEMMA ChoosesTyped == ASSUME TInv, NEW p \in Processes, Chooses(p) PROVE TInv'
<1> DEFINE turn == [loading[p] EXCEPT !.left = Expand(ListUsed(p))]
<1>1. /\ loading[p] \in LoadingType /\ reading[p] \in ReadingType /\ file[p] \in FileType
      /\ list[p] \in ListType
  BY TypesAt DEF TInv
<1>2. PICK left \in Seq(STRING) : left = Expand(ListUsed(p))
  BY ListUsedType, ExpandType DEF TInv
<1>3. turn \in LoadingType
  BY <1>1, <1>2 DEF LoadingType
<1> HIDE DEF turn
<1>4. Stage("open", turn, reading[p], file[p])
  <2>1. Stage("new", loading[p], reading[p], file[p])
    BY StageAt DEF Chooses
  <2> QED
    BY <2>1 DEF Stage
<1>5. Moved(p, "open", turn, reading[p], file[p], list[p])
  BY DEF Chooses, turn
<1>6. "open" \in PC
  BY DEF PC
<1> QED
  BY <1>1, <1>3, <1>4, <1>5, <1>6, MovedTyped

LEMMA RetriesTyped == ASSUME TInv, NEW p \in Processes, Retries(p) PROVE TInv'
<1>1. PICK turn \in LoadingType : Moved(p, "open", turn, NotReading, NoFile, list[p])
  BY DEF Retries
<1>2. NotReading \in ReadingType /\ Stage("open", turn, NotReading, NoFile)
  BY NotReadingIs
<1>3. NoFile \in FileType /\ list[p] \in ListType /\ "open" \in PC
  BY NewFileType, TypesAt DEF TInv, PC
<1> QED
  BY <1>1, <1>2, <1>3, MovedTyped

LEMMA OpensTyped == ASSUME TInv, NEW p \in Processes, Opens(p) PROVE TInv'
<1>1. PICK name \in DOMAIN File :
        /\ loading[p].left # <<>> /\ pc[p] = "open"
        /\ Moved(p, "include", loading[p], [reading[p] EXCEPT !.stack = <<Frame(name)>>],
                 NewFile(name, Flattened(File[name].context)), list[p])
  BY DEF Opens
<1>2. PICK stack \in Seq(FrameType) : stack = <<Frame(name)>> /\ stack # <<>> /\ StackOk(stack)
  BY StackNew
<1> DEFINE rd == [reading[p] EXCEPT !.stack = stack]
<1>3. reading[p] \in ReadingType /\ reading[p].at = 0 /\ reading[p].at <= Len(reading[p].steps)
  <2>1. reading[p] = NotReading /\ reading[p].at <= Len(reading[p].steps)
    BY <1>1, StageAt DEF Stage
  <2> QED
    BY <2>1, TypesAt DEF TInv, NotReading
<1>4. rd \in ReadingType /\ rd.stack = stack /\ rd.at = 0 /\ rd.at <= Len(rd.steps)
  BY <1>3 DEF ReadingType
<1> HIDE DEF rd
<1>5. PICK f \in FileType : f = NewFile(name, Flattened(File[name].context))
  BY NewFileType, FlattenedType
<1>6. Stage("include", loading[p], rd, f)
  BY <1>1, <1>2, <1>4 DEF Stage
<1>7. Moved(p, "include", loading[p], rd, f, list[p])
  BY <1>1, <1>2, <1>5 DEF rd
<1>8. loading[p] \in LoadingType /\ list[p] \in ListType /\ "include" \in PC
  BY TypesAt DEF TInv, PC
<1> QED
  BY <1>4, <1>6, <1>7, <1>8, MovedTyped

LEMMA TakesTyped == ASSUME TInv, NEW p \in Processes, Takes(p) PROVE TInv'
<1> DEFINE rd == [reading[p] EXCEPT !.steps = Append(@, NextAt(p)), !.stack = StepDone(@)]
<1>1. pc[p] = "include" /\ HasNext(p)
  BY DEF Takes
<1>2. PICK stack \in Seq(FrameType) :
        stack = StepDone(reading[p].stack) /\ stack # <<>> /\ StackOk(stack)
  <2>1. Last(reading[p].stack).at < Len(File[Last(reading[p].stack).name].steps)
    BY <1>1, TopIs DEF HasNext
  <2>2. StackOk(StepDone(reading[p].stack))
    BY <1>1, <2>1, TopIs, StackDone
  <2>3. /\ StepDone(reading[p].stack) \in Seq(FrameType)
        /\ Len(StepDone(reading[p].stack)) = Len(reading[p].stack)
    BY <1>1, TopIs, StepDoneIs
  <2>4. StepDone(reading[p].stack) # <<>>
    BY <1>1, <2>3, TopIs, EmptySeq
  <2> QED
    BY <2>2, <2>3, <2>4
<1>3. PICK steps \in Seq(Places) : steps = Append(reading[p].steps, NextAt(p))
  BY <1>1, TopIs, AppendIs
<1>4. reading[p] \in ReadingType /\ reading[p].at = 0 /\ Len(steps) \in Nat
  BY <1>1, TopIs, TypesAt, LenProperties DEF TInv
<1>5. rd \in ReadingType /\ rd.stack = stack /\ rd.steps = steps /\ rd.at = 0
  BY <1>2, <1>3, <1>4 DEF ReadingType
<1>6. loading[p].left # <<>>
  BY <1>1, StageAt DEF Stage
<1> HIDE DEF rd
<1>7. Stage("include", loading[p], rd, file[p])
  BY <1>2, <1>4, <1>5, <1>6 DEF Stage
<1>8. Moved(p, "include", loading[p], rd, file[p], list[p])
  BY DEF Takes, rd
<1>9. /\ loading[p] \in LoadingType /\ file[p] \in FileType /\ list[p] \in ListType
      /\ "include" \in PC
  BY TypesAt DEF TInv, PC
<1> QED
  BY <1>5, <1>7, <1>8, <1>9, MovedTyped

LEMMA EntersTyped == ASSUME TInv, NEW p \in Processes, Enters(p) PROVE TInv'
<1>1. PICK name \in DOMAIN File :
        /\ pc[p] = "include" /\ HasNext(p) /\ name = StepAt(NextAt(p)).include
        /\ NotIn(name, reading[p].stack)
        /\ Moved(p, "include", loading[p], [reading[p] EXCEPT !.stack = Append(@, Frame(name))],
                 [file[p] EXCEPT !.context = Merged(@, File[name].context)], list[p])
  BY DEF Enters
<1> DEFINE rd == [reading[p] EXCEPT !.stack = Append(@, Frame(name))]
           f == [file[p] EXCEPT !.context = Merged(@, File[name].context)]
<1>2. PICK stack \in Seq(FrameType) :
        stack = Append(reading[p].stack, Frame(name)) /\ stack # <<>> /\ StackOk(stack)
  <2>1. /\ Last(reading[p].stack).at < Len(File[Last(reading[p].stack).name].steps)
        /\ name = StepAt(<<Last(reading[p].stack).name, Last(reading[p].stack).at + 1>>).include
    BY <1>1, TopIs DEF HasNext, NextAt
  <2>2. Append(reading[p].stack, Frame(name)) \in Seq(FrameType)
        /\ StackOk(Append(reading[p].stack, Frame(name)))
    BY <1>1, <2>1, TopIs, StackMore
  <2>3. Append(reading[p].stack, Frame(name)) # <<>>
    <3>1. Frame(name) \in FrameType
      BY DEF Frame, FrameType
    <3>2. Len(Append(reading[p].stack, Frame(name))) = Len(reading[p].stack) + 1
          /\ Len(reading[p].stack) \in Nat
      BY <1>1, <3>1, TopIs, AppendIs
    <3> QED
      BY <3>2, EmptySeq
  <2> QED
    BY <2>2, <2>3
<1>3. reading[p] \in ReadingType /\ reading[p].at = 0 /\ Len(reading[p].steps) \in Nat
  BY <1>1, TopIs, TypesAt, LenProperties DEF TInv
<1>4. rd \in ReadingType /\ rd.stack = stack /\ rd.steps = reading[p].steps /\ rd.at = 0
  BY <1>2, <1>3 DEF ReadingType
<1>5. file[p] \in FileType /\ file[p].context \in Contexts
  BY TypesAt DEF TInv, FileType
<1>6. PICK c \in Contexts : c = Merged(file[p].context, File[name].context)
  BY <1>5, MergedType
<1>7. f \in FileType
  <2>1. f = [file[p] EXCEPT !.context = c]
    BY <1>6
  <2> HIDE DEF f
  <2> QED
    BY <1>5, <2>1 DEF FileType
<1>8. loading[p].left # <<>>
  BY <1>1, StageAt DEF Stage
<1> HIDE DEF rd, f
<1>9. Stage("include", loading[p], rd, f)
  BY <1>2, <1>3, <1>4, <1>8 DEF Stage
<1>10. Moved(p, "include", loading[p], rd, f, list[p])
  BY <1>1 DEF rd, f
<1>11. loading[p] \in LoadingType /\ list[p] \in ListType /\ "include" \in PC
  BY TypesAt DEF TInv, PC
<1> QED
  BY <1>4, <1>7, <1>9, <1>10, <1>11, MovedTyped

LEMMA LeavesTyped == ASSUME TInv, NEW p \in Processes, Returns(p) PROVE TInv'
<1> DEFINE rd == [reading[p] EXCEPT !.stack = StepDone(Front(@))]
<1>1. pc[p] = "include" /\ Len(reading[p].stack) # 1
  BY DEF Returns
<1>2. PICK stack \in Seq(FrameType) :
        stack = StepDone(Front(reading[p].stack)) /\ stack # <<>> /\ StackOk(stack)
  <2>1. PICK s \in Seq(FrameType) :
          /\ s = Front(reading[p].stack) /\ s # <<>> /\ StackOk(s)
          /\ Last(s).at < Len(File[Last(s).name].steps)
    BY <1>1, TopIs, StackFront
  <2>2. StackOk(StepDone(s))
    BY <2>1, StackDone
  <2>3. StepDone(s) \in Seq(FrameType) /\ Len(StepDone(s)) = Len(s)
    BY <2>1, StepDoneIs
  <2>4. StepDone(s) # <<>>
    BY <2>1, <2>3, EmptySeq
  <2> QED
    BY <2>1, <2>2, <2>3, <2>4
<1>3. reading[p] \in ReadingType /\ reading[p].at = 0 /\ Len(reading[p].steps) \in Nat
  BY <1>1, TopIs, TypesAt, LenProperties DEF TInv
<1>4. rd \in ReadingType /\ rd.stack = stack /\ rd.steps = reading[p].steps /\ rd.at = 0
  BY <1>2, <1>3 DEF ReadingType
<1>5. loading[p].left # <<>>
  BY <1>1, StageAt DEF Stage
<1> HIDE DEF rd
<1>6. Stage("include", loading[p], rd, file[p])
  BY <1>2, <1>3, <1>4, <1>5 DEF Stage
<1>7. Moved(p, "include", loading[p], rd, file[p], list[p])
  BY DEF Returns, rd
<1>8. /\ loading[p] \in LoadingType /\ file[p] \in FileType /\ list[p] \in ListType
      /\ "include" \in PC
  BY TypesAt DEF TInv, PC
<1> QED
  BY <1>4, <1>6, <1>7, <1>8, MovedTyped

LEMMA EndsTyped == ASSUME TInv, NEW p \in Processes, Ends(p) PROVE TInv'
<1> DEFINE rd == [reading[p] EXCEPT !.stack = <<>>]
<1>1. pc[p] = "include"
  BY DEF Ends
<1>2. <<>> \in Seq(FrameType) /\ StackOk(<<>>)
  <2>1. <<>> \in Seq(FrameType) /\ Len(<<>>) = 0
    BY EmptySeq
  <2> QED
    BY <2>1 DEF StackOk
<1>3. reading[p] \in ReadingType /\ reading[p].at = 0 /\ Len(reading[p].steps) \in Nat
  BY <1>1, TopIs, TypesAt, LenProperties DEF TInv
<1>4. rd \in ReadingType /\ rd.stack = <<>> /\ rd.steps = reading[p].steps /\ rd.at = 0
  BY <1>2, <1>3 DEF ReadingType
<1>5. loading[p].left # <<>>
  BY <1>1, StageAt DEF Stage
<1> HIDE DEF rd
<1>6. Stage("parse", loading[p], rd, file[p])
  BY <1>2, <1>3, <1>4, <1>5 DEF Stage
<1>7. Moved(p, "parse", loading[p], rd, file[p], list[p])
  BY DEF Ends, rd
<1>8. /\ loading[p] \in LoadingType /\ file[p] \in FileType /\ list[p] \in ListType
      /\ "parse" \in PC
  BY TypesAt DEF TInv, PC
<1> QED
  BY <1>4, <1>6, <1>7, <1>8, MovedTyped

\* the next step is done
LEMMA ReadMore ==
    ASSUME TInv, NEW p \in Processes, Parsing(p), NEW turn, turn.left = loading[p].left, NEW f
    PROVE  /\ [reading[p] EXCEPT !.at = @ + 1] \in ReadingType
           /\ Stage("parse", turn, [reading[p] EXCEPT !.at = @ + 1], f)
<1> DEFINE rd == [reading[p] EXCEPT !.at = @ + 1]
<1>1. reading[p] \in ReadingType
  BY TypesAt DEF TInv
<1>2. /\ rd \in ReadingType /\ rd.stack = reading[p].stack /\ rd.steps = reading[p].steps
      /\ rd.at = reading[p].at + 1
  BY <1>1 DEF ReadingType
<1>3. Stage("parse", loading[p], reading[p], file[p])
  BY StageAt DEF Parsing
<1>4. rd.at <= Len(rd.steps)
  BY <1>2, ParsedIs
<1> HIDE DEF rd
<1>5. Stage("parse", turn, rd, f)
  BY <1>2, <1>3, <1>4 DEF Stage
<1> QED
  BY <1>2, <1>5 DEF rd

LEMMA CountedType ==
    ASSUME TInv, NEW p \in Processes, Parsing(p)
    PROVE  CountCall(file[p], Parsed(p).async) \in FileType
<1>1. PICK at \in Places : Parsed(p) = StepAt(at)
  BY ParsedIs DEF Parsed
<1>2. file[p] \in FileType
  BY TypesAt DEF TInv
<1> QED
  BY <1>1, <1>2, CountCallType

LEMMA IgnoresTyped == ASSUME TInv, NEW p \in Processes, Ignores(p) PROVE TInv'
<1> DEFINE rd == [reading[p] EXCEPT !.at = @ + 1]
           f == CountCall(file[p], Parsed(p).async)
<1>1. Parsing(p) /\ Moved(p, "parse", loading[p], rd, f, list[p])
  BY DEF Ignores
<1>2. f \in FileType
  BY <1>1, CountedType
<1>3. rd \in ReadingType /\ Stage("parse", loading[p], rd, f)
  BY <1>1, ReadMore
<1>4. loading[p] \in LoadingType /\ list[p] \in ListType /\ "parse" \in PC
  BY TypesAt DEF TInv, PC
<1> HIDE DEF rd, f
<1> QED
  BY <1>1, <1>2, <1>3, <1>4, MovedTyped

LEMMA LineMadeType ==
    ASSUME TInv, NEW p \in Processes, Parsing(p)
    PROVE  /\ LineMade(p) \in LineType
           /\ AddLine(CountCall(file[p], Parsed(p).async), Parsed(p), LineMade(p)) \in FileType
<1>1. PICK at \in Places : Parsed(p) = StepAt(at)
  BY ParsedIs DEF Parsed
<1>2. loading[p].counter + 1 \in Nat
  BY TypesAt DEF TInv, LoadingType
<1>3. LineMade(p) \in LineType
  BY <1>1, <1>2, LineIsTyped DEF LineMade
<1>4. CountCall(file[p], Parsed(p).async) \in FileType
  BY CountedType
<1> QED
  BY <1>1, <1>3, <1>4, AddLineType

LEMMA MakesTyped == ASSUME TInv, NEW p \in Processes, Makes(p) PROVE TInv'
<1> DEFINE turn == [loading[p] EXCEPT !.counter = @ + 1]
           rd == [reading[p] EXCEPT !.at = @ + 1]
           f == AddLine(CountCall(file[p], Parsed(p).async), Parsed(p), LineMade(p))
<1>1. Parsing(p) /\ Moved(p, "parse", turn, rd, f, list[p])
  BY DEF Makes
<1>2. f \in FileType
  BY <1>1, LineMadeType
<1>3. loading[p] \in LoadingType /\ list[p] \in ListType /\ "parse" \in PC
  BY TypesAt DEF TInv, PC
<1>4. turn \in LoadingType /\ turn.left = loading[p].left
  BY <1>3 DEF LoadingType
<1> HIDE DEF turn
<1>5. rd \in ReadingType /\ Stage("parse", turn, rd, f)
  BY <1>1, <1>4, ReadMore
<1> HIDE DEF rd, f
<1> QED
  BY <1>1, <1>2, <1>3, <1>4, <1>5, MovedTyped

LEMMA LoadsTyped ==
    ASSUME TInv, NEW p \in Processes, NEW l \in ListType, Loads(p, l)
    PROVE  TInv'
<1> DEFINE turn == [TurnEnds(loading[p]) EXCEPT !.found = TRUE]
<1>1. pc[p] = "parse" /\ Moved(p, "open", turn, NotReading, NoFile, l)
  BY DEF Loads
<1>2. loading[p] \in LoadingType /\ loading[p].left # <<>> /\ "open" \in PC
  BY <1>1, TypesAt, StageAt DEF TInv, PC, Stage
<1>3. TurnEnds(loading[p]) \in LoadingType
  BY <1>2, TurnEndsType
<1>4. turn \in LoadingType
  BY <1>3 DEF LoadingType
<1> HIDE DEF turn
<1>5. NotReading \in ReadingType /\ Stage("open", turn, NotReading, NoFile) /\ NoFile \in FileType
  BY NotReadingIs, NewFileType
<1> QED
  BY <1>1, <1>2, <1>4, <1>5, MovedTyped

LEMMA FinishesTyped == ASSUME TInv, NEW p \in Processes, Finishes(p) PROVE TInv'
<1>1. pc[p] = "open" /\ Moved(p, "flags", loading[p], reading[p], file[p], list[p])
  BY DEF Finishes
<1>2. Stage("flags", loading[p], reading[p], file[p])
  <2>1. Stage("open", loading[p], reading[p], file[p])
    BY <1>1, StageAt
  <2> QED
    BY <2>1 DEF Stage
<1>3. /\ loading[p] \in LoadingType /\ reading[p] \in ReadingType /\ file[p] \in FileType
      /\ list[p] \in ListType /\ "flags" \in PC
  BY TypesAt DEF TInv, PC
<1> QED
  BY <1>1, <1>2, <1>3, MovedTyped

LEMMA ReadsTyped == ASSUME TInv, NEW p \in Processes, Reads(p) PROVE TInv'
<1>1. list[p] \in ListType /\ AddScenario(list[p], file[p]) \in ListType
  BY TypesAt, AddScenarioType DEF TInv
<1>2. Skips(p) \/ Appends(p) => TInv'
  BY <1>1, LoadsTyped DEF Skips, Appends
<1> QED
  BY <1>2, ChoosesTyped, RetriesTyped, OpensTyped, TakesTyped, EntersTyped, LeavesTyped,
     EndsTyped, IgnoresTyped, MakesTyped, FinishesTyped DEF Reads

-----------------------------------------------------------------------------
(* The steps of a process that has read its files: they change services.   *)

Serves(p, at, m, sv, prt, r, mt) ==
    /\ config' = config /\ loading' = loading /\ reading' = reading /\ file' = file /\ list' = list
    /\ pc' = [pc EXCEPT ![p] = at]
    /\ mode' = [mode EXCEPT ![p] = m]
    /\ services' = [services EXCEPT ![p] = sv]
    /\ port' = [port EXCEPT ![p] = prt]
    /\ runs' = [runs EXCEPT ![p] = r]
    /\ metronom' = [metronom EXCEPT ![p] = mt]

SameServices(q) ==
    /\ pc'[q] = pc[q] /\ mode'[q] = mode[q] /\ services'[q] = services[q] /\ port'[q] = port[q]
    /\ runs'[q] = runs[q] /\ metronom'[q] = metronom[q]

Flags(p) ==
    \E m \in ModeType :
        /\ pc[p] = "flags"
        /\ Serves(p, IF list[p].on THEN "async" ELSE "smsc", m, services[p], port[p], runs[p],
                  metronom[p])

Asyncs(p) ==
    /\ pc[p] = "async"
    /\ Serves(p, "listener", mode[p],
              services[p] \union {"reaper"} \union IF list[p].router THEN {"router"} ELSE {},
              port[p], runs[p] * (1 + list[p].steps), metronom[p])

Listens(p) ==
    /\ pc[p] = "listener" /\ \A q \in Processes : port[q] # ListenerPort(p)
    /\ Serves(p, "smsc", mode[p], services[p], ListenerPort(p), runs[p], metronom[p])

\* the other services
Goes(p) ==
    \E at \in PC, sv \in SUBSET Services :
        /\ <<pc[p], at>> \in {<<"smsc", "connect">>, <<"smsc", "reporter">>, <<"connect", "reporter">>,
                              <<"reporter", "throughput">>, <<"throughput", "throttler">>,
                              <<"throttler", "tests">>, <<"tests", "ready">>}
        /\ services[p] \subseteq sv
        /\ pc[p] = "throughput" => ~mode[p].throughput
        /\ Serves(p, at, mode[p], sv, port[p], runs[p], metronom[p])

PaceOf(p) ==
    [on |-> TRUE, method |-> config.method, phases |-> Profile(p).phases, target |-> Target(p)]

Paces(p) ==
    /\ pc[p] = "throughput" /\ mode[p].throughput /\ ~PaceRefused(p)
    /\ Serves(p, "throttler", [mode[p] EXCEPT !.threads = MaxOf(@, 16)], services[p], port[p], 0,
              PaceOf(p))

Starts(p) == Flags(p) \/ Asyncs(p) \/ Listens(p) \/ Goes(p) \/ Paces(p)

LateStep(p) ==
    \/ ManageScenarioAndFlags(p) \/ ManageAsync(p) \/ StartListener(p)
    \/ ManageSMSC(p) \/ SmscConnected(p) \/ ManageReporter(p)
    \/ LaunchRegulator(p) \/ ManageThroughput(p) \/ ActivateSessionThrottler(p) \/ CreateTest(p)

LEMMA UnmovedServices ==
    ASSUME Typed, NEW p \in Processes
    PROVE  /\ pc = [pc EXCEPT ![p] = pc[p]] /\ mode = [mode EXCEPT ![p] = mode[p]]
           /\ services = [services EXCEPT ![p] = services[p]] /\ port = [port EXCEPT ![p] = port[p]]
           /\ runs = [runs EXCEPT ![p] = runs[p]] /\ metronom = [metronom EXCEPT ![p] = metronom[p]]
<1>1. /\ pc \in [Processes -> PC] /\ mode \in [Processes -> ModeType]
      /\ services \in [Processes -> SUBSET Services] /\ port \in [Processes -> Nat]
      /\ runs \in [Processes -> Nat] /\ metronom = [q \in Processes |-> metronom[q]]
  BY DEF Typed, ServiceTyped
<1> HIDE DEF PC, ModeType, Services
<1> QED
  BY <1>1

LEMMA ServesAt ==
    ASSUME Typed, NEW p \in Processes, NEW at, NEW m, NEW sv, NEW prt, NEW r, NEW mt,
           Serves(p, at, m, sv, prt, r, mt)
    PROVE  /\ config' = config /\ loading' = loading /\ reading' = reading /\ file' = file
           /\ list' = list
           /\ pc'[p] = at /\ mode'[p] = m /\ services'[p] = sv /\ port'[p] = prt /\ runs'[p] = r
           /\ metronom'[p] = mt
           /\ \A q \in Processes : q # p => SameServices(q)
<1>1. /\ pc \in [Processes -> PC] /\ mode \in [Processes -> ModeType]
      /\ services \in [Processes -> SUBSET Services] /\ port \in [Processes -> Nat]
      /\ runs \in [Processes -> Nat] /\ metronom = [q \in Processes |-> metronom[q]]
  BY DEF Typed, ServiceTyped
<1> HIDE DEF PC, ModeType, Services
<1> QED
  BY <1>1 DEF Serves, SameServices

LEMMA FlagsIs ==
    ASSUME TInv, NEW p \in Processes, ManageScenarioAndFlags(p)
    PROVE  Dies(p) \/ Flags(p)
<1> SUFFICES ASSUME ~Dies(p) PROVE Flags(p)
  OBVIOUS
<1> DEFINE validation == list[p].on /\ (config.threads = 1 \/ config.force)
           throughput == mode[p].throughput /\ ~validation
           m == [mode[p] EXCEPT !.validation = validation, !.throughput = throughput,
                                !.pure = ~throughput /\ ~list[p].on]
<1>1. /\ pc[p] = "flags"
      /\ mode' = [mode EXCEPT ![p].validation = validation, ![p].throughput = throughput,
                              ![p].pure = ~throughput /\ ~list[p].on]
      /\ pc' = [pc EXCEPT ![p] = IF list[p].on THEN "async" ELSE "smsc"]
      /\ config' = config /\ loading' = loading /\ reading' = reading /\ file' = file
      /\ list' = list /\ services' = services /\ port' = port /\ runs' = runs
      /\ metronom' = metronom
  BY DEF ManageScenarioAndFlags, Goto, fileVars
<1>2. mode[p] \in ModeType /\ p \in DOMAIN mode
  BY DEF TInv, Typed, ServiceTyped
<1>3. validation \in BOOLEAN /\ throughput \in BOOLEAN /\ (~throughput /\ ~list[p].on) \in BOOLEAN
  OBVIOUS
<1>4. mode' = [mode EXCEPT ![p] = m]
  <2> HIDE DEF validation, throughput
  <2> QED
    BY <1>1, <1>2
<1>5. m \in ModeType
  <2> HIDE DEF validation, throughput
  <2> QED
    BY <1>2, <1>3 DEF ModeType
<1> HIDE DEF m
<1>6. /\ services' = [services EXCEPT ![p] = services[p]] /\ port' = [port EXCEPT ![p] = port[p]]
      /\ runs' = [runs EXCEPT ![p] = runs[p]] /\ metronom' = [metronom EXCEPT ![p] = metronom[p]]
  BY <1>1, UnmovedServices DEF TInv
<1>7. Serves(p, IF list[p].on THEN "async" ELSE "smsc", m, services[p], port[p], runs[p],
             metronom[p])
  BY <1>1, <1>4, <1>6 DEF Serves
<1> QED
  BY <1>1, <1>5, <1>7 DEF Flags

LEMMA AsyncsIs ==
    ASSUME TInv, NEW p \in Processes, ManageAsync(p)
    PROVE  Dies(p) \/ Asyncs(p)
<1> SUFFICES ASSUME ~Dies(p) PROVE Asyncs(p)
  OBVIOUS
<1>1. /\ pc[p] = "async"
      /\ services' = [services EXCEPT ![p] = @ \union {"reaper"} \union
                                 IF list[p].router THEN {"router"} ELSE {}]
      /\ runs' = [runs EXCEPT ![p] = @ * (1 + list[p].steps)]
      /\ pc' = [pc EXCEPT ![p] = "listener"]
      /\ config' = config /\ loading' = loading /\ reading' = reading /\ file' = file
      /\ list' = list /\ mode' = mode /\ port' = port /\ metronom' = metronom
  BY DEF ManageAsync, Goto, fileVars
<1>2. /\ services' = [services EXCEPT ![p] = services[p] \union {"reaper"} \union
                                 IF list[p].router THEN {"router"} ELSE {}]
      /\ runs' = [runs EXCEPT ![p] = runs[p] * (1 + list[p].steps)]
  BY <1>1
<1>3. /\ mode' = [mode EXCEPT ![p] = mode[p]] /\ port' = [port EXCEPT ![p] = port[p]]
      /\ metronom' = [metronom EXCEPT ![p] = metronom[p]]
  BY <1>1, UnmovedServices DEF TInv
<1> QED
  BY <1>1, <1>2, <1>3 DEF Asyncs, Serves

LEMMA ListensIs ==
    ASSUME TInv, NEW p \in Processes, StartListener(p)
    PROVE  Dies(p) \/ Listens(p)
<1> SUFFICES ASSUME ~Dies(p) PROVE Listens(p)
  OBVIOUS
<1>1. /\ pc[p] = "listener" /\ \A q \in Processes : port[q] # ListenerPort(p)
      /\ port' = [port EXCEPT ![p] = ListenerPort(p)]
      /\ pc' = [pc EXCEPT ![p] = "smsc"]
      /\ config' = config /\ loading' = loading /\ reading' = reading /\ file' = file
      /\ list' = list /\ mode' = mode /\ services' = services /\ runs' = runs
      /\ metronom' = metronom
  BY DEF StartListener, Goto, fileVars
<1>2. /\ mode' = [mode EXCEPT ![p] = mode[p]] /\ services' = [services EXCEPT ![p] = services[p]]
      /\ runs' = [runs EXCEPT ![p] = runs[p]] /\ metronom' = [metronom EXCEPT ![p] = metronom[p]]
  BY <1>1, UnmovedServices DEF TInv
<1> QED
  BY <1>1, <1>2 DEF Listens, Serves

\* the transitions between control points that change no more than services
Going == {<<"smsc", "connect">>, <<"smsc", "reporter">>, <<"connect", "reporter">>,
          <<"reporter", "throughput">>, <<"throughput", "throttler">>,
          <<"throttler", "tests">>, <<"tests", "ready">>}

LEMMA GoesIs ==
    ASSUME TInv, NEW p \in Processes, NEW at \in PC, NEW sv \in SUBSET Services,
           services[p] \subseteq sv, <<pc[p], at>> \in Going,
           pc[p] = "throughput" => ~mode[p].throughput,
           pc' = [pc EXCEPT ![p] = at], services' = [services EXCEPT ![p] = sv],
           config' = config, loading' = loading, reading' = reading, file' = file,
           list' = list, mode' = mode, port' = port, runs' = runs, metronom' = metronom
    PROVE  Goes(p)
<1>1. /\ mode' = [mode EXCEPT ![p] = mode[p]] /\ port' = [port EXCEPT ![p] = port[p]]
      /\ runs' = [runs EXCEPT ![p] = runs[p]] /\ metronom' = [metronom EXCEPT ![p] = metronom[p]]
  BY UnmovedServices DEF TInv
<1>2. Serves(p, at, mode[p], sv, port[p], runs[p], metronom[p])
  BY <1>1 DEF Serves
<1> QED
  BY <1>2 DEF Goes, Going

LEMMA ServicesAt == ASSUME TInv, NEW p \in Processes PROVE services[p] \in SUBSET Services
  BY DEF TInv, Typed, ServiceTyped

LEMMA SmscIs ==
    ASSUME TInv, NEW p \in Processes, ManageSMSC(p) \/ SmscConnected(p)
    PROVE  Dies(p) \/ Goes(p)
<1> SUFFICES ASSUME ~Dies(p) PROVE Goes(p)
  OBVIOUS
<1>1. services[p] \in SUBSET Services /\ services = [services EXCEPT ![p] = services[p]]
  BY ServicesAt, UnmovedServices DEF TInv
<1>2. CASE ManageSMSC(p)
  <2> DEFINE at == IF config.smsc = "on" /\ mode[p].pure THEN "connect" ELSE "reporter"
             sv == services[p] \union IF config.smsc = "on" THEN {"reaper", "smsc"} ELSE {}
  <2>1. /\ pc[p] = "smsc" /\ pc' = [pc EXCEPT ![p] = at]
        /\ services' = [services EXCEPT ![p] =
                           @ \union IF config.smsc = "on" THEN {"reaper", "smsc"} ELSE {}]
        /\ config' = config /\ loading' = loading /\ reading' = reading /\ file' = file
        /\ list' = list /\ mode' = mode /\ port' = port /\ runs' = runs /\ metronom' = metronom
    BY <1>2 DEF ManageSMSC, Goto, fileVars
  <2>2. services' = [services EXCEPT ![p] = sv]
    BY <2>1
  <2>3. sv \in SUBSET Services /\ services[p] \subseteq sv
    BY <1>1 DEF Services
  <2>4. at \in PC /\ <<pc[p], at>> \in Going
    BY <2>1 DEF PC, Going
  <2> HIDE DEF at, sv
  <2> QED
    BY <2>1, <2>2, <2>3, <2>4, GoesIs
<1>3. CASE SmscConnected(p)
  <2>1. /\ pc[p] = "connect" /\ pc' = [pc EXCEPT ![p] = "reporter"]
        /\ config' = config /\ loading' = loading /\ reading' = reading /\ file' = file
        /\ list' = list /\ mode' = mode /\ services' = services /\ port' = port
        /\ runs' = runs /\ metronom' = metronom
    BY <1>3 DEF SmscConnected, Goto, fileVars, serviceVars
  <2>2. "reporter" \in PC /\ <<pc[p], "reporter">> \in Going
    BY <2>1 DEF PC, Going
  <2> QED
    BY <1>1, <2>1, <2>2, GoesIs
<1> QED
  BY <1>2, <1>3

LEMMA ReporterIs ==
    ASSUME TInv, NEW p \in Processes, ManageReporter(p)
    PROVE  Dies(p) \/ Goes(p)
<1>1. services[p] \in SUBSET Services /\ services = [services EXCEPT ![p] = services[p]]
  BY ServicesAt, UnmovedServices DEF TInv
<1> SUFFICES ASSUME ~Dies(p) PROVE Goes(p)
  OBVIOUS
<1>2. /\ pc[p] = "reporter" /\ pc' = [pc EXCEPT ![p] = "throughput"]
      /\ \/ services' = [services EXCEPT ![p] = @ \union {"reporter"}]
         \/ services' = services
      /\ config' = config /\ loading' = loading /\ reading' = reading /\ file' = file
      /\ list' = list /\ mode' = mode /\ port' = port /\ runs' = runs /\ metronom' = metronom
  BY DEF ManageReporter, Goto, fileVars, serviceVars, Start
<1>3. "throughput" \in PC /\ <<pc[p], "throughput">> \in Going
  BY <1>2 DEF PC, Going
<1>4. PICK sv \in SUBSET Services : services[p] \subseteq sv /\ services' = [services EXCEPT ![p] = sv]
  <2>1. CASE services' = services
    BY <1>1, <2>1
  <2>2. CASE services' = [services EXCEPT ![p] = @ \union {"reporter"}]
    <3> DEFINE sv == services[p] \union {"reporter"}
    <3>1. services' = [services EXCEPT ![p] = sv]
      BY <2>2
    <3>2. sv \in SUBSET Services /\ services[p] \subseteq sv
      BY <1>1 DEF Services
    <3> HIDE DEF sv
    <3> QED
      BY <3>1, <3>2
  <2> QED
    BY <1>2, <2>1, <2>2
<1> QED
  BY <1>2, <1>3, <1>4, GoesIs

LEMMA ThroughputIs ==
    ASSUME TInv, NEW p \in Processes, ManageThroughput(p)
    PROVE  Dies(p) \/ Goes(p) \/ Paces(p)
<1> SUFFICES ASSUME ~Dies(p) PROVE Goes(p) \/ Paces(p)
  OBVIOUS
<1>1. /\ pc[p] = "throughput" /\ pc' = [pc EXCEPT ![p] = "throttler"]
      /\ mode[p].throughput => ~PaceRefused(p)
      /\ metronom' = IF ~mode[p].throughput THEN metronom
                     ELSE [metronom EXCEPT ![p] = PaceOf(p)]
      /\ runs' = [runs EXCEPT ![p] = IF mode[p].throughput THEN 0 ELSE @]
      /\ mode' = [mode EXCEPT ![p].threads = IF mode[p].throughput THEN MaxOf(@, 16) ELSE @]
      /\ config' = config /\ loading' = loading /\ reading' = reading /\ file' = file
      /\ list' = list /\ services' = services /\ port' = port
  BY DEF ManageThroughput, Goto, fileVars, PaceOf
<1>2. mode[p] \in ModeType /\ p \in DOMAIN mode
  BY DEF TInv, Typed, ServiceTyped
<1>3. /\ services = [services EXCEPT ![p] = services[p]] /\ port = [port EXCEPT ![p] = port[p]]
      /\ runs = [runs EXCEPT ![p] = runs[p]] /\ mode = [mode EXCEPT ![p] = mode[p]]
  BY UnmovedServices DEF TInv
<1>4. CASE mode[p].throughput
  <2>1. /\ runs' = [runs EXCEPT ![p] = 0]
        /\ mode' = [mode EXCEPT ![p] = [mode[p] EXCEPT !.threads = MaxOf(@, 16)]]
        /\ metronom' = [metronom EXCEPT ![p] = PaceOf(p)]
    BY <1>1, <1>4
  <2>2. Serves(p, "throttler", [mode[p] EXCEPT !.threads = MaxOf(@, 16)], services[p], port[p], 0,
               PaceOf(p))
    BY <1>1, <1>3, <2>1 DEF Serves
  <2> QED
    BY <1>1, <1>4, <2>2 DEF Paces
<1>5. CASE ~mode[p].throughput
  <2>1. metronom' = metronom /\ runs' = [runs EXCEPT ![p] = runs[p]]
    BY <1>1, <1>5
  <2>2. runs' = runs
    BY <1>3, <2>1
  <2>3. mode' = mode
    <3>1. mode' = [mode EXCEPT ![p] = [mode[p] EXCEPT !.threads = mode[p].threads]]
      BY <1>1, <1>5
    <3>2. [mode[p] EXCEPT !.threads = mode[p].threads] = mode[p]
      BY <1>2 DEF ModeType
    <3> QED
      BY <1>3, <3>1, <3>2
  <2>4. "throttler" \in PC /\ <<pc[p], "throttler">> \in Going
    BY <1>1 DEF PC, Going
  <2>5. services[p] \in SUBSET Services
    BY ServicesAt
  <2> QED
    BY <1>1, <1>3, <1>5, <2>1, <2>2, <2>3, <2>4, <2>5, GoesIs
<1> QED
  BY <1>4, <1>5

LEMMA LastStepsAre ==
    ASSUME TInv, NEW p \in Processes, ActivateSessionThrottler(p) \/ CreateTest(p)
    PROVE  Dies(p) \/ Goes(p)
<1> SUFFICES ASSUME ~Dies(p) PROVE Goes(p)
  OBVIOUS
<1>1. PICK at \in PC : /\ <<pc[p], at>> \in Going /\ pc[p] # "throughput"
                       /\ pc' = [pc EXCEPT ![p] = at]
                       /\ config' = config /\ loading' = loading /\ reading' = reading
                       /\ file' = file /\ list' = list /\ mode' = mode /\ services' = services
                       /\ port' = port /\ runs' = runs /\ metronom' = metronom
  <2>1. "tests" \in PC /\ "ready" \in PC
    BY DEF PC
  <2>2. CASE ActivateSessionThrottler(p)
    BY <2>1, <2>2 DEF ActivateSessionThrottler, Goto, fileVars, serviceVars, Going
  <2>3. CASE CreateTest(p)
    BY <2>1, <2>3 DEF CreateTest, Goto, fileVars, serviceVars, Going
  <2> QED
    BY <2>2, <2>3
<1>2. services[p] \in SUBSET Services /\ services = [services EXCEPT ![p] = services[p]]
  BY ServicesAt, UnmovedServices DEF TInv
<1> QED
  BY <1>1, <1>2, GoesIs

LEMMA LateStepIs ==
    ASSUME TInv, NEW p \in Processes, LateStep(p)
    PROVE  Dies(p) \/ Starts(p)
<1>1. CASE LaunchRegulator(p)
  BY <1>1 DEF LaunchRegulator
<1> QED
  BY <1>1, FlagsIs, AsyncsIs, ListensIs, SmscIs, ReporterIs, ThroughputIs, LastStepsAre
     DEF LateStep, Starts

LEMMA ServesTyped ==
    ASSUME TInv, NEW p \in Processes, NEW at \in PC, NEW m \in ModeType, NEW sv \in SUBSET Services,
           NEW prt \in Nat, NEW r \in Nat, NEW mt, Serves(p, at, m, sv, prt, r, mt),
           pc[p] \notin {"include", "parse"}, pc[p] # "dead", at \notin {"include", "parse", "dead"}
    PROVE  TInv'
<1>1. /\ pc \in [Processes -> PC] /\ mode \in [Processes -> ModeType]
      /\ services \in [Processes -> SUBSET Services] /\ port \in [Processes -> Nat]
      /\ runs \in [Processes -> Nat] /\ metronom = [q \in Processes |-> metronom[q]]
  BY DEF TInv, Typed, ServiceTyped
<1>2. /\ pc' \in [Processes -> PC] /\ mode' \in [Processes -> ModeType]
      /\ services' \in [Processes -> SUBSET Services] /\ port' \in [Processes -> Nat]
      /\ runs' \in [Processes -> Nat]
  BY <1>1 DEF Serves
<1>3. metronom' = [q \in Processes |-> metronom'[q]]
  <2>1. metronom' = [metronom EXCEPT ![p] = mt]
    BY DEF Serves
  <2> QED
    BY <1>1, <2>1
<1>4. /\ config' = config /\ loading' = loading /\ reading' = reading /\ file' = file
      /\ list' = list
  BY DEF Serves
<1>5. Typed'
  BY <1>2, <1>3, <1>4 DEF TInv, Typed, FileTyped, ServiceTyped
<1>6. ASSUME NEW q \in Processes PROVE Stage(pc'[q], loading'[q], reading'[q], file'[q])
  <2>1. CASE q = p
    <3>1. pc'[q] = at
      BY <2>1, ServesAt DEF TInv
    <3>2. Stage(pc[q], loading[q], reading[q], file[q])
      BY StageAt
    <3>3. Stage(at, loading[q], reading[q], file[q])
      BY <2>1, <3>2 DEF Stage
    <3> QED
      BY <1>4, <3>1, <3>3
  <2>2. CASE q # p
    <3>1. pc'[q] = pc[q]
      BY <2>2, ServesAt DEF TInv, SameServices
    <3> QED
      BY <1>4, <3>1, StageAt
  <2> QED
    BY <2>1, <2>2
<1> QED
  BY <1>5, <1>6 DEF TInv, StagesOk

LEMMA ListenerPortIs ==
    ASSUME Typed, NEW p \in Processes PROVE ListenerPort(p) \in Nat /\ ListenerPort(p) # 0
<1>1. config.port \in Nat /\ config.agent \in Nat /\ p \in Nat
  BY ConfigsAssumption, ProcessesAre DEF Typed
<1>2. config.agent * 100 \in Nat
  BY <1>1
<1> QED
  BY <1>1, <1>2 DEF ListenerPort

LEMMA StartsTyped == ASSUME TInv, NEW p \in Processes, Starts(p) PROVE TInv'
<1>1. /\ mode[p] \in ModeType /\ services[p] \in SUBSET Services /\ port[p] \in Nat
      /\ runs[p] \in Nat /\ list[p] \in ListType
  BY TypesAt, ServicesAt DEF TInv
<1>2. CASE Flags(p)
  <2>1. PICK m \in ModeType :
          /\ pc[p] = "flags"
          /\ Serves(p, IF list[p].on THEN "async" ELSE "smsc", m, services[p], port[p], runs[p],
                    metronom[p])
    BY <1>2 DEF Flags
  <2>2. PICK at \in PC : at = (IF list[p].on THEN "async" ELSE "smsc") /\ at \in {"async", "smsc"}
    BY DEF PC
  <2>3. Serves(p, at, m, services[p], port[p], runs[p], metronom[p])
    BY <2>1, <2>2
  <2> QED
    BY <1>1, <2>1, <2>2, <2>3, ServesTyped
<1>3. CASE Asyncs(p)
  <2> DEFINE sv == services[p] \union {"reaper"} \union IF list[p].router THEN {"router"} ELSE {}
             r == runs[p] * (1 + list[p].steps)
  <2>1. pc[p] = "async" /\ Serves(p, "listener", mode[p], sv, port[p], r, metronom[p])
    BY <1>3 DEF Asyncs
  <2>2. sv \in SUBSET Services
    BY <1>1 DEF Services
  <2>3. r \in Nat
    <3>1. 1 + list[p].steps \in Nat
      BY <1>1 DEF ListType
    <3> QED
      BY <1>1, <3>1
  <2>4. "listener" \in PC
    BY DEF PC
  <2> HIDE DEF sv, r
  <2> QED
    BY <1>1, <2>1, <2>2, <2>3, <2>4, ServesTyped
<1>4. CASE Listens(p)
  <2>1. /\ pc[p] = "listener"
        /\ Serves(p, "smsc", mode[p], services[p], ListenerPort(p), runs[p], metronom[p])
    BY <1>4 DEF Listens
  <2>2. ListenerPort(p) \in Nat /\ "smsc" \in PC
    BY ListenerPortIs DEF TInv, PC
  <2> QED
    BY <1>1, <2>1, <2>2, ServesTyped
<1>5. CASE Goes(p)
  <2>1. PICK at \in PC, sv \in SUBSET Services :
          <<pc[p], at>> \in Going /\ Serves(p, at, mode[p], sv, port[p], runs[p], metronom[p])
    BY <1>5 DEF Goes, Going
  <2>2. pc[p] \notin {"include", "parse"} /\ pc[p] # "dead" /\ at \notin {"include", "parse", "dead"}
    BY <2>1 DEF Going
  <2> QED
    BY <1>1, <2>1, <2>2, ServesTyped
<1>6. CASE Paces(p)
  <2> DEFINE m == [mode[p] EXCEPT !.threads = MaxOf(@, 16)]
  <2>1. pc[p] = "throughput" /\ Serves(p, "throttler", m, services[p], port[p], 0, PaceOf(p))
    BY <1>6 DEF Paces
  <2>2. m \in ModeType
    <3>1. MaxOf(mode[p].threads, 16) \in Nat \ {0}
      BY <1>1 DEF MaxOf, ModeType
    <3> QED
      BY <1>1, <3>1 DEF ModeType
  <2>3. "throttler" \in PC /\ 0 \in Nat
    BY DEF PC
  <2> HIDE DEF m
  <2> QED
    BY <1>1, <2>1, <2>2, <2>3, ServesTyped
<1> QED
  BY <1>2, <1>3, <1>4, <1>5, <1>6 DEF Starts

StepKinds(p) == Dies(p) \/ Reads(p) \/ Starts(p)

LEMMA StepIsOne ==
    ASSUME TInv, [Next]_vars
    PROVE  UNCHANGED vars \/ \E p \in Processes : StepKinds(p)
<1>1. CASE Next
  <2>1. PICK p \in Processes : FileStep(p) \/ LateStep(p)
    BY <1>1 DEF Next, Step, FileStep, LateStep
  <2> QED
    BY <2>1, FileStepIs, LateStepIs DEF StepKinds
<1> QED
  BY <1>1

LEMMA InitTyped == ASSUME Init PROVE TInv
<1>1. <<>> \in Seq(STRING) /\ <<>> \in Seq(FileType)
  BY EmptySeq
<1>2. [left |-> <<>>, id |-> 0, attempt |-> 1, found |-> FALSE, counter |-> 0] \in LoadingType
  BY <1>1 DEF LoadingType
<1>3. [scenarios |-> <<>>, on |-> FALSE, router |-> FALSE, steps |-> 0, timeout |-> -1] \in ListType
  BY <1>1 DEF ListType
<1>4. NotReading \in ReadingType /\ NoFile \in FileType /\ "new" \in PC
  BY NotReadingIs, NewFileType DEF PC
<1>5. config \in Configs /\ config.runs \in Nat /\ config.threads \in Nat \ {0}
      /\ config.throughput \in BOOLEAN
  BY ConfigsAssumption DEF Init
<1>6. FileTyped
  BY <1>2, <1>3, <1>4 DEF Init, FileTyped
<1>7. /\ mode \in [Processes -> ModeType] /\ services \in [Processes -> SUBSET Services]
      /\ port \in [Processes -> Nat] /\ runs \in [Processes -> Nat]
  BY <1>5 DEF Init, ModeType, Services
<1>8. metronom = [q \in Processes |-> metronom[q]]
  BY DEF Init
<1>9. Typed
  BY <1>4, <1>5, <1>6, <1>7, <1>8 DEF Init, Typed, ServiceTyped
<1>10. ASSUME NEW q \in Processes PROVE Stage(pc[q], loading[q], reading[q], file[q])
  <2>1. pc[q] = "new" /\ reading[q] = NotReading /\ file[q] = NoFile
    BY DEF Init
  <2> QED
    BY <2>1, NotReadingIs
<1> QED
  BY <1>9, <1>10 DEF TInv, StagesOk

LEMMA StepTyped == ASSUME TInv, [Next]_vars PROVE TInv'
<1>1. CASE UNCHANGED vars
  BY <1>1 DEF vars, TInv, Typed, StagesOk, FileTyped, ServiceTyped
<1>2. ASSUME NEW p \in Processes, StepKinds(p) PROVE TInv'
  BY <1>2, DiesTyped, ReadsTyped, StartsTyped DEF StepKinds
<1> QED
  BY <1>1, <1>2, StepIsOne

-----------------------------------------------------------------------------
(* What a scenario and a list know of their asynchronous steps.            *)

LineOk(f, line) ==
    line.blocking => f.asynchronous /\ line.timeout <= f.timeout /\ (line.router => f.router)

FileOk(f) ==
    /\ f.asynchronous <=> f.asyncSteps > 0
    /\ \A i \in 1..Len(f.lines) : LineOk(f, f.lines[i])

ListOk(l) ==
    /\ l.on <=> l.steps > 0
    /\ \A i \in 1..Len(l.scenarios) :
         LET new == l.scenarios[i]
         IN  /\ FileOk(new)
             /\ new.asynchronous => l.on /\ new.timeout <= l.timeout /\ (new.router => l.router)

ListsOk == \A q \in Processes : FileOk(file[q]) /\ ListOk(list[q])

LEMMA MovedLists ==
    ASSUME TInv, ListsOk, NEW p \in Processes, NEW at, NEW turn, NEW rd, NEW f, NEW l,
           Moved(p, at, turn, rd, f, l), FileOk(f), ListOk(l)
    PROVE  ListsOk'
<1>1. /\ file'[p] = f /\ list'[p] = l
      /\ \A q \in Processes : q # p => file'[q] = file[q] /\ list'[q] = list[q]
  BY MovedAt DEF TInv, SameFile
<1>2. ASSUME NEW q \in Processes PROVE FileOk(file'[q]) /\ ListOk(list'[q])
  <2>1. CASE q = p
    BY <1>1, <2>1
  <2>2. CASE q # p
    BY <1>1, <2>2 DEF ListsOk
  <2> QED
    BY <2>1, <2>2
<1> QED
  BY <1>2 DEF ListsOk

LEMMA NewFileOk == FileOk(NoFile) /\ \A name, context : FileOk(NewFile(name, context))
<1>1. Len(<<>>) = 0
  OBVIOUS
<1> QED
  BY <1>1 DEF NoFile, NewFile, FileOk

LEMMA ContextOk ==
    ASSUME NEW f \in FileType, FileOk(f), NEW c
    PROVE  FileOk([f EXCEPT !.context = c])
<1> DEFINE g == [f EXCEPT !.context = c]
<1>1. /\ g.asynchronous = f.asynchronous /\ g.asyncSteps = f.asyncSteps /\ g.lines = f.lines
      /\ g.timeout = f.timeout /\ g.router = f.router
  BY DEF FileType
<1> HIDE DEF g
<1>2. FileOk(g)
  BY <1>1 DEF FileOk, LineOk
<1> QED
  BY <1>2 DEF g

LEMMA CountedIs ==
    ASSUME NEW f \in FileType, NEW at \in Places
    PROVE  LET call == StepAt(at).async
               g == CountCall(f, call)
           IN  /\ g \in FileType
               /\ g.lines = f.lines /\ g.router = f.router /\ g.name = f.name
               /\ g.context = f.context
               /\ Blocks(call) => /\ g.asynchronous /\ g.asyncSteps = f.asyncSteps + 1
                                  /\ f.timeout <= g.timeout /\ call.timeout <= g.timeout
               /\ ~Blocks(call) => g = f
<1> DEFINE call == StepAt(at).async
           g == CountCall(f, call)
<1>1. call.timeout \in Nat
  BY CallsAre
<1>2. g \in FileType
  BY CountCallType
<1> HIDE DEF call
<1>3. ~Blocks(call) => g = f
  BY DEF CountCall
<1>4. CASE Blocks(call)
  <2>1. PICK t \in Nat \union {-1} : t = MaxOf(f.timeout, call.timeout)
    BY <1>1 DEF FileType, MaxOf
  <2>2. f.timeout <= t /\ call.timeout <= t
    BY <1>1, <2>1 DEF FileType, MaxOf
  <2>3. g = [f EXCEPT !.asyncSteps = @ + 1, !.asynchronous = TRUE, !.timeout = t]
    BY <1>4, <2>1 DEF CountCall
  <2> HIDE DEF g
  <2>4. /\ g.lines = f.lines /\ g.router = f.router /\ g.name = f.name /\ g.context = f.context
        /\ g.asynchronous /\ g.asyncSteps = f.asyncSteps + 1 /\ g.timeout = t
    BY <2>3 DEF FileType
  <2> QED
    BY <1>2, <1>4, <2>2, <2>4 DEF call, g
<1>5. CASE ~Blocks(call)
  BY <1>2, <1>3, <1>5 DEF call, g
<1> QED
  BY <1>4, <1>5 DEF call

LEMMA CountedOk ==
    ASSUME NEW f \in FileType, FileOk(f), NEW at \in Places
    PROVE  FileOk(CountCall(f, StepAt(at).async))
<1> DEFINE call == StepAt(at).async
           g == CountCall(f, call)
<1>1. CASE Blocks(call)
  <2>1. /\ g \in FileType /\ g.lines = f.lines /\ g.router = f.router /\ g.asynchronous
        /\ g.asyncSteps = f.asyncSteps + 1 /\ f.timeout <= g.timeout
    BY <1>1, CountedIs
  <2>2. f.asyncSteps + 1 > 0
    BY DEF FileType
  <2> HIDE DEF call, g
  <2>3. ASSUME NEW i \in 1..Len(f.lines) PROVE LineOk(g, f.lines[i])
    <3>1. f.lines[i] \in LineType /\ LineOk(f, f.lines[i])
      BY ElementOfSeq DEF FileType, FileOk
    <3>2. f.lines[i].timeout \in Nat /\ f.timeout \in Int /\ g.timeout \in Int
      BY <2>1, <3>1 DEF LineType, FileType
    <3> QED
      BY <2>1, <3>1, <3>2 DEF LineOk
  <2>4. FileOk(g)
    BY <2>1, <2>2, <2>3 DEF FileOk
  <2> QED
    BY <2>4 DEF call, g
<1>2. CASE ~Blocks(call)
  BY <1>2, CountedIs
<1> QED
  BY <1>1, <1>2

LEMMA AddLineIs ==
    ASSUME NEW f \in FileType, NEW at \in Places, NEW line \in LineType
    PROVE  LET g == AddLine(f, StepAt(at), line)
           IN  /\ g \in FileType
               /\ g.lines = Append(f.lines, line) /\ g.router = UsesRouter(f, line)
               /\ g.name = f.name /\ g.context = f.context /\ g.asynchronous = f.asynchronous
               /\ g.asyncSteps = f.asyncSteps /\ g.timeout = f.timeout
<1> DEFINE step == StepAt(at)
           g == AddLine(f, step, line)
<1>1. g \in FileType
  BY AddLineType
<1> HIDE DEF step
<1>2. /\ g.lines = Append(f.lines, line) /\ g.router = UsesRouter(f, line)
      /\ g.name = f.name /\ g.context = f.context /\ g.asynchronous = f.asynchronous
      /\ g.asyncSteps = f.asyncSteps /\ g.timeout = f.timeout
  BY DEF AddLine, FileType
<1> QED
  BY <1>1, <1>2 DEF step

LEMMA AddLineOk ==
    ASSUME NEW f \in FileType, FileOk(f), NEW at \in Places, NEW line \in LineType,
           LineOk(f, [line EXCEPT !.router = FALSE]), line.router => line.isAsync
    PROVE  FileOk(AddLine(f, StepAt(at), line))
<1> DEFINE g == AddLine(f, StepAt(at), line)
<1>1. /\ g \in FileType
      /\ g.lines = Append(f.lines, line) /\ g.router = UsesRouter(f, line)
      /\ g.asynchronous = f.asynchronous /\ g.asyncSteps = f.asyncSteps /\ g.timeout = f.timeout
  BY AddLineIs
<1> HIDE DEF g
<1>2. PICK n \in Nat : n = Len(f.lines) /\ f.lines \in Seq(LineType)
  BY LenProperties DEF FileType
<1>3. /\ Len(g.lines) = n + 1 /\ \A i \in 1..n : g.lines[i] = f.lines[i]
      /\ \A i \in 1..n + 1 : i = n + 1 => g.lines[i] = line
  BY <1>1, <1>2, AppendIs
<1>4. ASSUME NEW i \in 1..n + 1 PROVE LineOk(g, g.lines[i])
  <2>1. CASE i = n + 1
    <3>1. g.lines[i] = line
      BY <1>3, <2>1
    <3>2. line.blocking => f.asynchronous /\ line.timeout <= f.timeout
      BY DEF LineOk, LineType
    <3>3. line.router => g.router
      BY <1>1 DEF UsesRouter
    <3> QED
      BY <1>1, <3>1, <3>2, <3>3 DEF LineOk
  <2>2. CASE i # n + 1
    <3>1. i \in 1..n
      BY <2>2
    <3>2. g.lines[i] = f.lines[i] /\ LineOk(f, f.lines[i])
      BY <1>2, <1>3, <3>1 DEF FileOk
    <3>3. f.router => g.router
      BY <1>1 DEF UsesRouter
    <3> QED
      BY <1>1, <3>2, <3>3 DEF LineOk
  <2> QED
    BY <2>1, <2>2
<1>5. FileOk(g)
  BY <1>1, <1>3, <1>4 DEF FileOk
<1> QED
  BY <1>5 DEF g

LEMMA AddScenarioIs ==
    ASSUME NEW l \in ListType, NEW new \in FileType
    PROVE  LET m == AddScenario(l, new)
           IN  /\ m \in ListType
               /\ m.scenarios = Append(l.scenarios, new)
               /\ m.on = (l.on \/ new.asynchronous)
               /\ m.router = (l.router \/ (new.asynchronous /\ new.router))
               /\ m.steps = (IF new.asynchronous THEN l.steps + new.asyncSteps ELSE l.steps)
               /\ m.timeout = (IF new.asynchronous THEN MaxOf(l.timeout, new.timeout)
                               ELSE l.timeout)
<1> DEFINE m == AddScenario(l, new)
<1>1. m \in ListType
  BY AddScenarioType
<1>2. /\ m.scenarios = Append(l.scenarios, new)
      /\ m.on = (l.on \/ new.asynchronous)
      /\ m.router = (l.router \/ (new.asynchronous /\ new.router))
      /\ m.steps = (IF new.asynchronous THEN l.steps + new.asyncSteps ELSE l.steps)
      /\ m.timeout = (IF new.asynchronous THEN MaxOf(l.timeout, new.timeout)
                      ELSE l.timeout)
  BY DEF AddScenario, ListType
<1> QED
  BY <1>1, <1>2

LEMMA AddScenarioOk ==
    ASSUME NEW l \in ListType, NEW new \in FileType, ListOk(l), FileOk(new)
    PROVE  ListOk(AddScenario(l, new))
<1> DEFINE m == AddScenario(l, new)
<1>1. /\ m \in ListType
      /\ m.scenarios = Append(l.scenarios, new)
      /\ m.on = (l.on \/ new.asynchronous)
      /\ m.router = (l.router \/ (new.asynchronous /\ new.router))
      /\ m.steps = (IF new.asynchronous THEN l.steps + new.asyncSteps ELSE l.steps)
      /\ m.timeout = (IF new.asynchronous THEN MaxOf(l.timeout, new.timeout) ELSE l.timeout)
  BY AddScenarioIs
<1> HIDE DEF m
<1>2. PICK n \in Nat : n = Len(l.scenarios) /\ l.scenarios \in Seq(FileType)
  BY LenProperties DEF ListType
<1>3. /\ Len(m.scenarios) = n + 1 /\ \A i \in 1..n : m.scenarios[i] = l.scenarios[i]
      /\ \A i \in 1..n + 1 : i = n + 1 => m.scenarios[i] = new
  BY <1>1, <1>2, AppendIs
<1>4. m.on <=> m.steps > 0
  <2>1. l.steps \in Nat /\ new.asyncSteps \in Nat /\ l.on \in BOOLEAN /\ new.asynchronous \in BOOLEAN
    BY DEF ListType, FileType
  <2>2. (l.on <=> l.steps > 0) /\ (new.asynchronous <=> new.asyncSteps > 0)
    BY DEF ListOk, FileOk
  <2>3. CASE new.asynchronous
    <3>1. m.on /\ m.steps = l.steps + new.asyncSteps /\ new.asyncSteps > 0
      BY <1>1, <2>2, <2>3
    <3> QED
      BY <2>1, <3>1
  <2>4. CASE ~new.asynchronous
    <3>1. m.on = l.on /\ m.steps = l.steps
      BY <1>1, <2>1, <2>4
    <3> QED
      BY <2>2, <3>1
  <2> QED
    BY <2>3, <2>4
<1>5. l.timeout <= m.timeout /\ (new.asynchronous => new.timeout <= m.timeout)
  <2>1. l.timeout \in Int /\ new.timeout \in Int
    BY DEF ListType, FileType
  <2> QED
    BY <1>1, <2>1 DEF MaxOf
<1>6. ASSUME NEW i \in 1..n + 1
      PROVE  /\ FileOk(m.scenarios[i])
             /\ m.scenarios[i].asynchronous =>
                  /\ m.on /\ m.scenarios[i].timeout <= m.timeout
                  /\ m.scenarios[i].router => m.router
  <2>1. CASE i = n + 1
    <3>1. m.scenarios[i] = new
      BY <1>3, <2>1
    <3>2. new.asynchronous => m.on /\ (new.router => m.router)
      BY <1>1
    <3> QED
      BY <1>5, <3>1, <3>2
  <2>2. CASE i # n + 1
    <3>1. i \in 1..n
      BY <2>2
    <3>2. PICK old \in FileType : old = l.scenarios[i] /\ m.scenarios[i] = old
      BY <1>2, <1>3, <3>1, ElementOfSeq
    <3>3. /\ FileOk(old)
          /\ old.asynchronous => l.on /\ old.timeout <= l.timeout /\ (old.router => l.router)
      BY <1>2, <3>1, <3>2 DEF ListOk
    <3>4. old.timeout \in Int /\ l.timeout \in Int /\ m.timeout \in Int
      BY <1>1 DEF ListType, FileType
    <3>5. old.timeout <= l.timeout => old.timeout <= m.timeout
      BY <1>5, <3>4
    <3>6. (l.on => m.on) /\ (l.router => m.router)
      BY <1>1
    <3> QED
      BY <3>2, <3>3, <3>5, <3>6
  <2> QED
    BY <2>1, <2>2
<1>7. ListOk(m)
  BY <1>3, <1>4, <1>6 DEF ListOk
<1> QED
  BY <1>7 DEF m

LEMMA LineMadeIs ==
    ASSUME TInv, NEW p \in Processes, Parsing(p)
    PROVE  \E at \in Places :
             /\ at = reading[p].steps[reading[p].at + 1] /\ Parsed(p) = StepAt(at)
             /\ LineMade(p) \in LineType
             /\ LineMade(p).test = TestId(config, p, loading[p].counter + 1)
             /\ LineMade(p).name = StepAt(at).name
             /\ LineMade(p).blocking = Blocks(StepAt(at).async)
             /\ LineMade(p).timeout = StepAt(at).async.timeout
             /\ LineMade(p).router => LineMade(p).isAsync
<1>1. PICK at \in Places : at = reading[p].steps[reading[p].at + 1] /\ Parsed(p) = StepAt(at)
  BY ParsedIs DEF Parsed
<1>2. LineMade(p) \in LineType
  BY LineMadeType
<1> DEFINE counted == CountCall(file[p], Parsed(p).async)
<1>3. LineMade(p) = Line(config, p, counted, StepAt(at), loading[p].counter + 1)
  BY <1>1 DEF LineMade
<1> HIDE DEF counted
<1>4. /\ LineMade(p).test = TestId(config, p, loading[p].counter + 1)
      /\ LineMade(p).name = StepAt(at).name
      /\ LineMade(p).blocking = Blocks(StepAt(at).async)
      /\ LineMade(p).timeout = StepAt(at).async.timeout
  BY <1>3 DEF Line
<1>5. LineMade(p).router => LineMade(p).isAsync
  <2>1. /\ LineMade(p).isAsync = (StepAt(at).async.kind \in {"one", "several"})
        /\ LineMade(p).router =
             (/\ StepAt(at).async.kind \in {"one", "several"}
              /\ StepAt(at).async.callback \notin {"smpp", "smsc", "internal"})
    BY <1>3 DEF Line
  <2> QED
    BY <2>1
<1> QED
  BY <1>1, <1>2, <1>4, <1>5

LEMMA ReadsLists == ASSUME TInv, ListsOk, NEW p \in Processes, Reads(p) PROVE ListsOk'
<1>1. /\ file[p] \in FileType /\ list[p] \in ListType /\ FileOk(file[p]) /\ ListOk(list[p])
  BY TypesAt DEF TInv, ListsOk
<1>2. CASE Chooses(p) \/ Takes(p) \/ Returns(p) \/ Ends(p) \/ Finishes(p)
  <2>1. \E at, turn, rd : Moved(p, at, turn, rd, file[p], list[p])
    BY <1>2 DEF Chooses, Takes, Returns, Ends, Finishes
  <2> QED
    BY <1>1, <2>1, MovedLists
<1>3. CASE Retries(p) \/ Skips(p)
  <2>1. \E at, turn, rd : Moved(p, at, turn, rd, NoFile, list[p])
    BY <1>3 DEF Retries, Skips, Loads
  <2> QED
    BY <1>1, <2>1, NewFileOk, MovedLists
<1>4. CASE Opens(p)
  <2>1. \E at, turn, rd, name, context : Moved(p, at, turn, rd, NewFile(name, context), list[p])
    BY <1>4 DEF Opens
  <2> QED
    BY <1>1, <2>1, NewFileOk, MovedLists
<1>5. CASE Enters(p)
  <2>1. \E at, turn, rd, context :
           Moved(p, at, turn, rd, [file[p] EXCEPT !.context = context], list[p])
    BY <1>5 DEF Enters
  <2> QED
    BY <1>1, <2>1, ContextOk, MovedLists
<1>6. CASE Ignores(p)
  <2>1. /\ Parsing(p)
        /\ Moved(p, "parse", loading[p], [reading[p] EXCEPT !.at = @ + 1],
                 CountCall(file[p], Parsed(p).async), list[p])
    BY <1>6 DEF Ignores
  <2>2. FileOk(CountCall(file[p], Parsed(p).async))
    BY <1>1, <2>1, LineMadeIs, CountedOk
  <2> QED
    BY <1>1, <2>1, <2>2, MovedLists
<1>7. CASE Makes(p)
  <2> DEFINE f == CountCall(file[p], Parsed(p).async)
  <2>1. /\ Parsing(p)
        /\ Moved(p, "parse", [loading[p] EXCEPT !.counter = @ + 1],
                 [reading[p] EXCEPT !.at = @ + 1], AddLine(f, Parsed(p), LineMade(p)), list[p])
    BY <1>7 DEF Makes
  <2>2. PICK at \in Places :
          /\ Parsed(p) = StepAt(at) /\ LineMade(p) \in LineType
          /\ LineMade(p).blocking = Blocks(StepAt(at).async)
          /\ LineMade(p).timeout = StepAt(at).async.timeout
          /\ LineMade(p).router => LineMade(p).isAsync
    BY <2>1, LineMadeIs
  <2>3. /\ f \in FileType /\ FileOk(f)
        /\ Blocks(StepAt(at).async) => f.asynchronous /\ StepAt(at).async.timeout <= f.timeout
    BY <1>1, <2>2, CountedIs, CountedOk
  <2> HIDE DEF f
  <2>4. LineOk(f, [LineMade(p) EXCEPT !.router = FALSE])
    BY <2>2, <2>3 DEF LineOk, LineType
  <2>5. FileOk(AddLine(f, Parsed(p), LineMade(p)))
    BY <2>2, <2>3, <2>4, AddLineOk
  <2> QED
    BY <1>1, <2>1, <2>5, MovedLists
<1>8. CASE Appends(p)
  <2>1. \E at, turn, rd : Moved(p, at, turn, rd, NoFile, AddScenario(list[p], file[p]))
    BY <1>8 DEF Appends, Loads
  <2>2. ListOk(AddScenario(list[p], file[p]))
    BY <1>1, AddScenarioOk
  <2> QED
    BY <2>1, <2>2, NewFileOk, MovedLists
<1> QED
  BY <1>2, <1>3, <1>4, <1>5, <1>6, <1>7, <1>8 DEF Reads

\* other steps change no file and no list
SameLists == file' = file /\ list' = list

LEMMA StepKeepsLists ==
    ASSUME TInv, NEW p \in Processes, Dies(p) \/ Starts(p)
    PROVE  SameLists
<1>1. CASE Dies(p)
  BY <1>1, DiesAt DEF TInv, SameLists
<1>2. CASE Starts(p)
  <2>1. \E at, m, sv, prt, r, mt : Serves(p, at, m, sv, prt, r, mt)
    BY <1>2 DEF Starts, Flags, Asyncs, Listens, Goes, Paces
  <2> QED
    BY <2>1 DEF Serves, SameLists
<1> QED
  BY <1>1, <1>2

LEMMA StepLists == ASSUME TInv, ListsOk, [Next]_vars PROVE ListsOk'
<1>1. ASSUME SameLists PROVE ListsOk'
  BY <1>1 DEF SameLists, ListsOk
<1>2. CASE UNCHANGED vars
  BY <1>1, <1>2 DEF vars, SameLists
<1>3. ASSUME NEW p \in Processes, StepKinds(p) PROVE ListsOk'
  BY <1>1, <1>3, ReadsLists, StepKeepsLists DEF StepKinds
<1> QED
  BY <1>2, <1>3, StepIsOne

LEMMA InitLists == ASSUME Init PROVE ListsOk
<1>1. ASSUME NEW q \in Processes PROVE FileOk(file[q]) /\ ListOk(list[q])
  <2>1. file[q] = NoFile
        /\ list[q] = [scenarios |-> <<>>, on |-> FALSE, router |-> FALSE, steps |-> 0, timeout |-> -1]
    BY DEF Init
  <2>2. Len(list[q].scenarios) = 0
    BY <2>1
  <2> QED
    BY <2>1, <2>2, NewFileOk DEF ListOk
<1> QED
  BY <1>1 DEF ListsOk

-----------------------------------------------------------------------------
(* Every variable has its type.                                            *)

LEMMA TypesHold == ASSUME TInv, ListsOk PROVE TypeOK
<1>1. ASSUME NEW p \in Processes
      PROVE  /\ loading[p].id \in Nat /\ loading[p].counter \in Nat
             /\ loading[p].attempt \in 1..3 /\ loading[p].found \in BOOLEAN
             /\ reading[p].at \in 0..Len(reading[p].steps)
             /\ \A i \in DOMAIN reading[p].stack :
                  reading[p].stack[i].at \in 0..Len(File[reading[p].stack[i].name].steps)
             /\ list[p].steps \in Nat /\ list[p].timeout \in Nat \union {-1}
             /\ list[p].on <=> list[p].steps > 0
             /\ mode[p].threads \in Nat \ {0}
  <2>1. /\ loading[p] \in LoadingType /\ reading[p] \in ReadingType /\ list[p] \in ListType
        /\ mode[p] \in ModeType /\ ListOk(list[p])
    BY TypesAt DEF TInv, ListsOk
  <2>2. reading[p].at <= Len(reading[p].steps) /\ StackOk(reading[p].stack)
    BY StageAt DEF Stage
  <2>3. Len(reading[p].steps) \in Nat /\ reading[p].at \in Nat
    BY <2>1, LenProperties DEF ReadingType
  <2>4. ASSUME NEW i \in DOMAIN reading[p].stack
        PROVE  reading[p].stack[i].at \in 0..Len(File[reading[p].stack[i].name].steps)
    <3>1. i \in 1..Len(reading[p].stack) /\ reading[p].stack[i] \in FrameType
      BY <2>1, LenProperties, ElementOfSeq DEF ReadingType
    <3>2. /\ reading[p].stack[i].at \in Nat
          /\ reading[p].stack[i].at <= Len(File[reading[p].stack[i].name].steps)
          /\ Len(File[reading[p].stack[i].name].steps) \in Nat
      BY <2>2, <3>1, StepsAreMany DEF StackOk, FrameType
    <3> QED
      BY <3>2
  <2> QED
    BY <2>1, <2>2, <2>3, <2>4 DEF LoadingType, ListType, ModeType, ListOk
<1>2. /\ config \in Configs /\ pc \in [Processes -> PC]
      /\ services \in [Processes -> SUBSET Services] /\ port \in [Processes -> Nat]
      /\ runs \in [Processes -> Nat]
  BY DEF TInv, Typed, ServiceTyped
<1> QED
  BY <1>1, <1>2 DEF TypeOK

LEMMA InvariantOfLists == Spec => [](TInv /\ ListsOk)
<1>1. Init => TInv /\ ListsOk
  BY InitTyped, InitLists
<1>2. TInv /\ ListsOk /\ [Next]_vars => (TInv /\ ListsOk)'
  BY StepTyped, StepLists
<1> QED
  BY <1>1, <1>2, PTL DEF Spec

\* At every moment of the start the counters are numbers, no reader is beyond the end of its
\* files, and a list of scenarios is asynchronous exactly when its steps were counted.
THEOREM StartIsTyped == Spec => []TypeOK
  BY TypesHold, InvariantOfLists, PTL

-----------------------------------------------------------------------------
(* The services, the runs and the pace of a process that has its list.     *)

EarlyPC == {"new", "open", "include", "parse", "flags", "async"}
PacedPC == {"throttler", "tests", "ready"}
LatePC == {"listener", "smsc", "connect", "reporter", "throughput"} \union PacedPC

ReachedAll(q) ==
    /\ list[q].on => "reaper" \in services[q] /\ (list[q].router => "router" \in services[q])
    /\ list[q].on /\ pc[q] # "listener" => port[q] # 0

PacedAsAsked(q) ==
    metronom[q].on => /\ pc[q] \in PacedPC \union {"dead"}
                      /\ metronom[q] = PaceOf(q) /\ ~PaceRefused(q)

LateOk(q) ==
    /\ pc[q] \in EarlyPC => runs[q] = config.runs
    /\ pc[q] \in LatePC =>
         /\ ReachedAll(q)
         /\ runs[q] = config.runs * (1 + list[q].steps) \/ (pc[q] \in PacedPC /\ mode[q].throughput)
    /\ PacedAsAsked(q)

PortsDiffer == \A q, r \in Processes : port[q] = port[r] /\ port[q] # 0 => q = r

SInv == (\A q \in Processes : LateOk(q)) /\ PortsDiffer

LEMMA SamePace ==
    ASSUME NEW q, config' = config, list'[q] = list[q]
    PROVE  PaceOf(q)' = PaceOf(q) /\ (PaceRefused(q)' <=> PaceRefused(q))
<1>1. Ramp(q)' = Ramp(q)
  BY DEF Ramp, Share, SumKPI
<1>2. Profile(q)' = Profile(q)
  BY <1>1 DEF Profile
<1>3. Target(q)' = Target(q)
  BY DEF Target, SumKPI
<1>4. PaceOf(q)' = PaceOf(q)
  BY <1>2, <1>3 DEF PaceOf
<1>5. PercentageRefused' <=> PercentageRefused
  BY DEF PercentageRefused
<1>6. TargetRefused(q)' <=> TargetRefused(q)
  BY DEF TargetRefused
<1>7. PaceRefused(q)' <=> PaceRefused(q)
  BY <1>1, <1>2, <1>5, <1>6 DEF PaceRefused
<1> QED
  BY <1>4, <1>7

\* what a process is not concerned with
LEMMA LateKept ==
    ASSUME NEW q \in Processes, LateOk(q), config' = config, list'[q] = list[q], SameServices(q)
    PROVE  LateOk(q)'
<1>1. /\ pc'[q] = pc[q] /\ mode'[q] = mode[q] /\ services'[q] = services[q] /\ port'[q] = port[q]
      /\ runs'[q] = runs[q] /\ metronom'[q] = metronom[q]
  BY DEF SameServices
<1>2. PaceOf(q)' = PaceOf(q) /\ (PaceRefused(q)' <=> PaceRefused(q))
  BY SamePace
<1>3. ReachedAll(q)' <=> ReachedAll(q)
  BY <1>1 DEF ReachedAll
<1>4. PacedAsAsked(q)' <=> PacedAsAsked(q)
  BY <1>1, <1>2 DEF PacedAsAsked
<1> QED
  BY <1>1, <1>3, <1>4 DEF LateOk

LEMMA DiesLate == ASSUME TInv, SInv, NEW p \in Processes, Dies(p) PROVE SInv'
<1>1. /\ config' = config /\ pc'[p] = "dead" /\ port'[p] = 0 /\ list' = list
      /\ mode' = mode /\ services' = services /\ runs' = runs /\ metronom' = metronom
      /\ \A q \in Processes : q # p => pc'[q] = pc[q] /\ port'[q] = port[q]
  BY DiesAt DEF TInv
<1>2. ASSUME NEW q \in Processes PROVE LateOk(q)'
  <2>0. LateOk(q)
    BY DEF SInv
  <2>1. CASE q # p
    <3>1. SameServices(q)
      BY <1>1, <2>1 DEF SameServices
    <3> QED
      BY <1>1, <2>0, <3>1, LateKept
  <2>2. CASE q = p
    <3>1. PaceOf(q)' = PaceOf(q) /\ (PaceRefused(q)' <=> PaceRefused(q))
      BY <1>1, SamePace
    <3>2. pc'[q] = "dead" /\ metronom'[q] = metronom[q]
      BY <1>1, <2>2
    <3>3. PacedAsAsked(q)'
      BY <2>0, <3>1, <3>2 DEF LateOk, PacedAsAsked
    <3>4. pc'[q] \notin EarlyPC /\ pc'[q] \notin LatePC
      BY <3>2 DEF EarlyPC, LatePC, PacedPC
    <3> QED
      BY <3>3, <3>4 DEF LateOk
  <2> QED
    BY <2>1, <2>2
<1>3. PortsDiffer'
  <2>1. \A q \in Processes : port'[q] # 0 => q # p /\ port'[q] = port[q]
    BY <1>1
  <2>2. PortsDiffer
    BY DEF SInv
  <2> QED
    BY <2>1, <2>2 DEF PortsDiffer
<1> QED
  BY <1>2, <1>3 DEF SInv

\* a process that reads has no service to lose
LEMMA ReadsAre ==
    ASSUME TInv, NEW p \in Processes, Reads(p)
    PROVE  /\ pc[p] \in {"new", "open", "include", "parse"}
           /\ \E at \in {"open", "include", "parse", "flags"} : \E turn, rd, f, l :
                Moved(p, at, turn, rd, f, l)
<1>1. CASE Chooses(p) \/ Opens(p) \/ Takes(p) \/ Enters(p) \/ Returns(p) \/ Ends(p)
  BY <1>1 DEF Chooses, Opens, Takes, Enters, Returns, Ends
<1>2. CASE Retries(p) \/ Ignores(p) \/ Makes(p) \/ Skips(p) \/ Appends(p) \/ Finishes(p)
  BY <1>2 DEF Retries, Ignores, Makes, Skips, Appends, Loads, Finishes, Parsing
<1> QED
  BY <1>1, <1>2 DEF Reads

LEMMA ReadsLate == ASSUME TInv, SInv, NEW p \in Processes, Reads(p) PROVE SInv'
<1>1. PICK at \in {"open", "include", "parse", "flags"} :
        /\ pc[p] \in {"new", "open", "include", "parse"} /\ pc'[p] = at
        /\ config' = config /\ mode' = mode /\ services' = services /\ port' = port
        /\ runs' = runs /\ metronom' = metronom
        /\ \A q \in Processes : q # p => SameFile(q)
  BY ReadsAre, MovedAt DEF TInv
<1>2. ASSUME NEW q \in Processes PROVE LateOk(q)'
  <2>0. LateOk(q)
    BY DEF SInv
  <2>1. CASE q # p
    <3>1. SameServices(q) /\ list'[q] = list[q]
      BY <1>1, <2>1 DEF SameServices, SameFile
    <3> QED
      BY <1>1, <2>0, <3>1, LateKept
  <2>2. CASE q = p
    <3>1. pc[q] \in EarlyPC /\ pc[q] \notin PacedPC \union {"dead"} /\ pc'[q] \notin LatePC
      BY <1>1, <2>2 DEF EarlyPC, PacedPC, LatePC
    <3>2. ~metronom'[q].on /\ runs'[q] = config'.runs
      BY <1>1, <2>0, <3>1 DEF LateOk, PacedAsAsked
    <3> QED
      BY <3>1, <3>2 DEF LateOk, PacedAsAsked
  <2> QED
    BY <2>1, <2>2
<1>3. PortsDiffer'
  BY <1>1 DEF SInv, PortsDiffer
<1> QED
  BY <1>2, <1>3 DEF SInv

LEMMA ServesLate ==
    ASSUME TInv, SInv, NEW p \in Processes, NEW at, NEW m, NEW sv, NEW prt, NEW r, NEW mt,
           Serves(p, at, m, sv, prt, r, mt), LateOk(p)',
           prt = port[p] \/ \A q \in Processes : port[q] # prt
    PROVE  SInv'
<1>1. /\ config' = config /\ list' = list /\ port'[p] = prt
      /\ \A q \in Processes : q # p => SameServices(q)
  BY ServesAt DEF TInv
<1>2. ASSUME NEW q \in Processes PROVE LateOk(q)'
  <2>1. CASE q # p
    <3>1. LateOk(q) /\ SameServices(q) /\ list'[q] = list[q]
      BY <1>1, <2>1 DEF SInv
    <3> QED
      BY <1>1, <3>1, LateKept
  <2>2. CASE q = p
    BY <2>2
  <2> QED
    BY <2>1, <2>2
<1>3. PortsDiffer'
  <2>1. \A q \in Processes : port'[q] = IF q = p THEN prt ELSE port[q]
    BY <1>1 DEF SameServices
  <2>2. PortsDiffer
    BY DEF SInv
  <2>3. ASSUME NEW q \in Processes, NEW s \in Processes, port'[q] = port'[s], port'[q] # 0
        PROVE  q = s
    <3>1. CASE prt = port[p]
      <4>1. port'[q] = port[q] /\ port'[s] = port[s]
        BY <2>1, <3>1
      <4> QED
        BY <2>2, <2>3, <4>1 DEF PortsDiffer
    <3>2. CASE \A t \in Processes : port[t] # prt
      BY <2>1, <2>2, <2>3, <3>2 DEF PortsDiffer
    <3> QED
      BY <3>1, <3>2
  <2> QED
    BY <2>3 DEF PortsDiffer
<1> QED
  BY <1>2, <1>3 DEF SInv

LEMMA RunsAre ==
    ASSUME TInv, ListsOk, NEW p \in Processes
    PROVE  /\ config.runs \in Nat /\ list[p].steps \in Nat /\ runs[p] \in Nat
           /\ list[p].on <=> list[p].steps > 0
           /\ list[p].on \in BOOLEAN
<1>1. config.runs \in Nat
  BY ConfigsAssumption DEF TInv, Typed
<1>2. list[p] \in ListType /\ runs[p] \in Nat /\ ListOk(list[p])
  BY TypesAt DEF TInv, ListsOk
<1> QED
  BY <1>1, <1>2 DEF ListType, ListOk

LEMMA FlagsLate == ASSUME TInv, ListsOk, SInv, NEW p \in Processes, Flags(p) PROVE SInv'
<1>1. PICK m \in ModeType :
        /\ pc[p] = "flags"
        /\ Serves(p, IF list[p].on THEN "async" ELSE "smsc", m, services[p], port[p], runs[p],
                  metronom[p])
  BY DEF Flags
<1>2. /\ config' = config /\ list' = list /\ runs'[p] = runs[p] /\ metronom'[p] = metronom[p]
      /\ pc'[p] = IF list[p].on THEN "async" ELSE "smsc"
  BY <1>1, ServesAt DEF TInv
<1>3. LateOk(p)
  BY DEF SInv
<1>4. runs[p] = config.runs /\ ~metronom[p].on
  BY <1>1, <1>3 DEF LateOk, PacedAsAsked, EarlyPC, PacedPC
<1>5. CASE list[p].on
  <2>1. pc'[p] \notin LatePC
    BY <1>2, <1>5 DEF LatePC, PacedPC
  <2> QED
    BY <1>1, <1>2, <1>4, <2>1, ServesLate DEF LateOk, PacedAsAsked
<1>6. CASE ~list[p].on
  <2>1. pc'[p] = "smsc" /\ pc'[p] \notin EarlyPC
    BY <1>2, <1>6 DEF EarlyPC
  <2>2. runs'[p] = config.runs * (1 + list[p].steps)
    <3>1. list[p].steps = 0 /\ config.runs \in Nat
      BY <1>6, RunsAre
    <3> QED
      BY <1>2, <1>4, <3>1
  <2>3. ReachedAll(p)'
    BY <1>2, <1>6 DEF ReachedAll
  <2>4. LateOk(p)'
    BY <1>2, <1>4, <2>1, <2>2, <2>3 DEF LateOk, PacedAsAsked
  <2> QED
    BY <1>1, <2>4, ServesLate
<1> QED
  BY <1>5, <1>6

LEMMA AsyncsLate == ASSUME TInv, ListsOk, SInv, NEW p \in Processes, Asyncs(p) PROVE SInv'
<1> DEFINE sv == services[p] \union {"reaper"} \union IF list[p].router THEN {"router"} ELSE {}
           r == runs[p] * (1 + list[p].steps)
<1>1. pc[p] = "async" /\ Serves(p, "listener", mode[p], sv, port[p], r, metronom[p])
  BY DEF Asyncs
<1>2. /\ config' = config /\ list' = list /\ runs'[p] = r /\ metronom'[p] = metronom[p]
      /\ pc'[p] = "listener" /\ services'[p] = sv
  BY <1>1, ServesAt DEF TInv
<1>3. LateOk(p)
  BY DEF SInv
<1>4. runs[p] = config.runs /\ ~metronom[p].on
  BY <1>1, <1>3 DEF LateOk, PacedAsAsked, EarlyPC, PacedPC
<1>5. ReachedAll(p)'
  BY <1>2 DEF ReachedAll
<1>6. pc'[p] \notin EarlyPC
  BY <1>2 DEF EarlyPC
<1>7. LateOk(p)'
  BY <1>2, <1>4, <1>5, <1>6 DEF LateOk, PacedAsAsked
<1> QED
  BY <1>1, <1>7, ServesLate

LEMMA ListensLate == ASSUME TInv, SInv, NEW p \in Processes, Listens(p) PROVE SInv'
<1>1. /\ pc[p] = "listener" /\ \A q \in Processes : port[q] # ListenerPort(p)
      /\ Serves(p, "smsc", mode[p], services[p], ListenerPort(p), runs[p], metronom[p])
  BY DEF Listens
<1>2. /\ config' = config /\ list' = list /\ runs'[p] = runs[p] /\ metronom'[p] = metronom[p]
      /\ pc'[p] = "smsc" /\ services'[p] = services[p] /\ port'[p] = ListenerPort(p)
  BY <1>1, ServesAt DEF TInv
<1>3. LateOk(p) /\ ListenerPort(p) # 0
  BY ListenerPortIs DEF SInv, TInv
<1>4. /\ ReachedAll(p) /\ ~metronom[p].on
      /\ runs[p] = config.runs * (1 + list[p].steps)
  BY <1>1, <1>3 DEF LateOk, PacedAsAsked, LatePC, PacedPC
<1>5. ReachedAll(p)'
  BY <1>2, <1>3, <1>4 DEF ReachedAll
<1>6. pc'[p] \notin EarlyPC
  BY <1>2 DEF EarlyPC
<1>7. LateOk(p)'
  BY <1>2, <1>4, <1>5, <1>6 DEF LateOk, PacedAsAsked
<1> QED
  BY <1>1, <1>7, ServesLate

LEMMA GoesLate == ASSUME TInv, SInv, NEW p \in Processes, Goes(p) PROVE SInv'
<1>1. PICK at \in PC, sv \in SUBSET Services :
        /\ <<pc[p], at>> \in Going /\ services[p] \subseteq sv
        /\ pc[p] = "throughput" => ~mode[p].throughput
        /\ Serves(p, at, mode[p], sv, port[p], runs[p], metronom[p])
  BY DEF Goes, Going
<1>2. /\ config' = config /\ list' = list /\ runs'[p] = runs[p] /\ metronom'[p] = metronom[p]
      /\ pc'[p] = at /\ services'[p] = sv /\ port'[p] = port[p] /\ mode'[p] = mode[p]
  BY <1>1, ServesAt DEF TInv
<1>3. /\ pc[p] \in LatePC /\ pc[p] # "listener" /\ at \notin EarlyPC
      /\ pc[p] \in PacedPC => at \in PacedPC
  BY <1>1 DEF Going, LatePC, PacedPC, EarlyPC
<1>4. LateOk(p)
  BY DEF SInv
<1>5. ReachedAll(p)'
  BY <1>1, <1>2, <1>3, <1>4 DEF LateOk, ReachedAll
<1>6. PaceOf(p)' = PaceOf(p) /\ (PaceRefused(p)' <=> PaceRefused(p))
  BY <1>2, SamePace
<1>7. PacedAsAsked(p)'
  <2>1. "dead" \notin LatePC
    BY DEF LatePC, PacedPC
  <2> QED
    BY <1>2, <1>3, <1>4, <1>6, <2>1 DEF LateOk, PacedAsAsked
<1>8. LateOk(p)'
  BY <1>2, <1>3, <1>4, <1>5, <1>7 DEF LateOk
<1> QED
  BY <1>1, <1>8, ServesLate

LEMMA PacesLate == ASSUME TInv, SInv, NEW p \in Processes, Paces(p) PROVE SInv'
<1> DEFINE m == [mode[p] EXCEPT !.threads = MaxOf(@, 16)]
<1>1. /\ pc[p] = "throughput" /\ mode[p].throughput /\ ~PaceRefused(p)
      /\ Serves(p, "throttler", m, services[p], port[p], 0, PaceOf(p))
  BY DEF Paces
<1>2. /\ config' = config /\ list' = list /\ runs'[p] = 0 /\ metronom'[p] = PaceOf(p)
      /\ pc'[p] = "throttler" /\ services'[p] = services[p] /\ port'[p] = port[p] /\ mode'[p] = m
  BY <1>1, ServesAt DEF TInv
<1>3. m.throughput = mode[p].throughput
  BY TypesAt DEF TInv, ModeType
<1> HIDE DEF m
<1>4. LateOk(p) /\ ReachedAll(p)
  BY <1>1 DEF SInv, LateOk, LatePC
<1>5. ReachedAll(p)'
  BY <1>1, <1>2, <1>4 DEF ReachedAll
<1>6. PaceOf(p)' = PaceOf(p) /\ (PaceRefused(p)' <=> PaceRefused(p))
  BY <1>2, SamePace
<1>7. pc'[p] \notin EarlyPC /\ pc'[p] \in PacedPC
  BY <1>2 DEF EarlyPC, PacedPC
<1>8. PacedAsAsked(p)'
  BY <1>1, <1>2, <1>6, <1>7 DEF PacedAsAsked
<1>9. LateOk(p)'
  BY <1>1, <1>2, <1>3, <1>5, <1>7, <1>8 DEF LateOk
<1> QED
  BY <1>1, <1>9, ServesLate

LEMMA StepLate == ASSUME TInv, ListsOk, SInv, [Next]_vars PROVE SInv'
<1>1. CASE UNCHANGED vars
  <2>1. ASSUME NEW q \in Processes PROVE LateOk(q)'
    <3>1. LateOk(q) /\ SameServices(q) /\ config' = config /\ list'[q] = list[q]
      BY <1>1 DEF vars, SInv, SameServices
    <3> QED
      BY <3>1, LateKept
  <2>2. PortsDiffer'
    BY <1>1 DEF vars, SInv, PortsDiffer
  <2> QED
    BY <2>1, <2>2 DEF SInv
<1>2. ASSUME NEW p \in Processes, StepKinds(p) PROVE SInv'
  BY <1>2, DiesLate, ReadsLate, FlagsLate, AsyncsLate, ListensLate, GoesLate, PacesLate
     DEF StepKinds, Starts
<1> QED
  BY <1>1, <1>2, StepIsOne

LEMMA InitLate == ASSUME Init PROVE SInv
<1>1. ASSUME NEW q \in Processes PROVE LateOk(q)
  <2>1. /\ pc[q] = "new" /\ runs[q] = config.runs /\ ~metronom[q].on
    BY DEF Init, NoMetronom
  <2>2. pc[q] \notin LatePC
    BY <2>1 DEF LatePC, PacedPC
  <2> QED
    BY <2>1, <2>2 DEF LateOk, PacedAsAsked
<1>2. PortsDiffer
  BY DEF Init, PortsDiffer
<1> QED
  BY <1>1, <1>2 DEF SInv

-----------------------------------------------------------------------------
(* The lines of a process are those of its scenarios.                      *)

LinesOf(l) == FlattenSeq([i \in DOMAIN l.scenarios |-> l.scenarios[i].lines])

LEMMA LinesAre ==
    ASSUME NEW l \in ListType
    PROVE  /\ LinesOf(l) \in Seq(LineType)
           /\ \A i \in DOMAIN LinesOf(l) :
                \E k \in 1..Len(l.scenarios) : \E j \in 1..Len(l.scenarios[k].lines) :
                   /\ LinesOf(l)[i] = l.scenarios[k].lines[j]
                   /\ l.scenarios[k] \in FileType /\ LinesOf(l)[i] \in LineType
<1> DEFINE s == [i \in DOMAIN l.scenarios |-> l.scenarios[i].lines]
<1>1. PICK n \in Nat : /\ n = Len(l.scenarios) /\ DOMAIN l.scenarios = 1..n
                       /\ \A k \in 1..n : l.scenarios[k] \in FileType
  <2>1. l.scenarios \in Seq(FileType)
    BY DEF ListType
  <2> QED
    BY <2>1, LenProperties, ElementOfSeq
<1>2. ASSUME NEW k \in 1..n
      PROVE  /\ l.scenarios[k].lines \in Seq(LineType)
             /\ DOMAIN l.scenarios[k].lines = 1..Len(l.scenarios[k].lines)
  <2>1. l.scenarios[k].lines \in Seq(LineType)
    BY <1>1 DEF FileType
  <2> QED
    BY <2>1, LenProperties
<1>3. s \in [1..n -> Seq(LineType)] /\ DOMAIN s = 1..n
  BY <1>1, <1>2
<1>4. \A k \in 1..n : s[k] = l.scenarios[k].lines
  BY <1>1
<1> HIDE DEF s
<1>5. s \in Seq(Seq(LineType))
  BY <1>3, FunctionIsSeq
<1>6. FlattenSeq(s) \in Seq(LineType)
  BY <1>5, FlattenType
<1>7. ASSUME NEW i \in DOMAIN FlattenSeq(s)
      PROVE  \E k \in 1..n : \E j \in 1..Len(l.scenarios[k].lines) :
               /\ FlattenSeq(s)[i] = l.scenarios[k].lines[j]
               /\ l.scenarios[k] \in FileType /\ FlattenSeq(s)[i] \in LineType
  <2>1. PICK k \in DOMAIN s : \E j \in DOMAIN s[k] : FlattenSeq(s)[i] = s[k][j]
    BY <1>5, FlattenParts
  <2>2. PICK j \in DOMAIN s[k] : FlattenSeq(s)[i] = s[k][j]
    BY <2>1
  <2>3. k \in 1..n /\ s[k] = l.scenarios[k].lines /\ l.scenarios[k] \in FileType
    BY <1>1, <1>3, <1>4
  <2>4. j \in 1..Len(l.scenarios[k].lines)
    BY <1>2, <2>3
  <2>5. FlattenSeq(s)[i] \in LineType
    BY <1>6, LenProperties, ElementOfSeq
  <2> QED
    BY <2>2, <2>3, <2>4, <2>5
<1> QED
  BY <1>1, <1>6, <1>7 DEF LinesOf, s

\* a blocking line is of an asynchronous list, which knows its timeout and its router
LEMMA BlockingLineIs ==
    ASSUME NEW l \in ListType, ListOk(l), NEW i \in DOMAIN LinesOf(l), LinesOf(l)[i].blocking
    PROVE  /\ l.on /\ LinesOf(l)[i].timeout <= l.timeout /\ (LinesOf(l)[i].router => l.router)
           /\ LinesOf(l)[i].timeout \in Nat /\ l.timeout \in Nat
<1>0. PICK k \in 1..Len(l.scenarios) : \E j \in 1..Len(l.scenarios[k].lines) :
        /\ LinesOf(l)[i] = l.scenarios[k].lines[j]
        /\ l.scenarios[k] \in FileType /\ LinesOf(l)[i] \in LineType
  BY LinesAre
<1>1. PICK j \in 1..Len(l.scenarios[k].lines) :
        /\ LinesOf(l)[i] = l.scenarios[k].lines[j]
        /\ l.scenarios[k] \in FileType /\ LinesOf(l)[i] \in LineType
  BY <1>0
<1>2. PICK f \in FileType, line \in LineType : f = l.scenarios[k] /\ line = LinesOf(l)[i]
  BY <1>1
<1>3. /\ FileOk(f) /\ j \in 1..Len(f.lines) /\ f.lines[j] = line
      /\ f.asynchronous => l.on /\ f.timeout <= l.timeout /\ (f.router => l.router)
  BY <1>1, <1>2 DEF ListOk
<1>4. f.asynchronous /\ line.timeout <= f.timeout /\ (line.router => f.router)
  BY <1>2, <1>3 DEF FileOk, LineOk
<1>5. line.timeout \in Nat /\ f.timeout \in Int /\ l.timeout \in Nat \union {-1}
  BY DEF LineType, FileType, ListType
<1>6. line.timeout <= l.timeout
  BY <1>3, <1>4, <1>5
<1> QED
  BY <1>2, <1>3, <1>4, <1>5, <1>6

LEMMA ServicesHold == ASSUME TInv, ListsOk, SInv PROVE ServicesAreUp
<1> SUFFICES ASSUME NEW p \in Processes, Ready(p), NEW i \in BlockingLines(p)
             PROVE  /\ "reaper" \in services[p]
                    /\ port[p] # 0 /\ \A q \in Processes \ {p} : port[q] # port[p]
                    /\ Lines(p)[i].router => "router" \in services[p]
  BY DEF ServicesAreUp
<1>1. list[p] \in ListType /\ ListOk(list[p])
  BY TypesAt DEF TInv, ListsOk
<1>2. Lines(p) = LinesOf(list[p])
  BY DEF Lines, LinesOf
<1>3. i \in DOMAIN LinesOf(list[p]) /\ LinesOf(list[p])[i].blocking
  BY <1>2 DEF BlockingLines
<1>4. list[p].on /\ (LinesOf(list[p])[i].router => list[p].router)
  BY <1>1, <1>3, BlockingLineIs
<1>5. LateOk(p) /\ pc[p] \in LatePC /\ pc[p] # "listener"
  BY DEF SInv, Ready, LatePC, PacedPC
<1>6. /\ "reaper" \in services[p] /\ (list[p].router => "router" \in services[p])
      /\ port[p] # 0
  BY <1>4, <1>5 DEF LateOk, ReachedAll
<1>7. \A q \in Processes \ {p} : port[q] # port[p]
  BY <1>6 DEF SInv, PortsDiffer
<1> QED
  BY <1>2, <1>4, <1>6, <1>7

LEMMA InvariantOfServices == Spec => [](TInv /\ ListsOk /\ SInv)
<1>1. Init => TInv /\ ListsOk /\ SInv
  BY InitTyped, InitLists, InitLate
<1>2. TInv /\ ListsOk /\ SInv /\ [Next]_vars => (TInv /\ ListsOk /\ SInv)'
  BY StepTyped, StepLists, StepLate
<1> QED
  BY <1>1, <1>2, PTL DEF Spec

\* Configuration.initialize(): whatever the other processes of the host do, a process that is
\* ready to run a blocking line has its reaper, a callback listener on a port of its own, and
\* the router if any such line is answered through it.
THEOREM StartBringsServicesUp == Spec => []ServicesAreUp
  BY ServicesHold, InvariantOfServices, PTL

-----------------------------------------------------------------------------
(* The pace that a process is given.                                       *)

PhaseType == [num: Nat, den: Nat \ {0}, secs: Nat, unit: STRING]

\* what a cadencer computes with: the share of nobody has the denominator 0
RateOk(phase) ==
    /\ phase.num \in Nat /\ phase.den \in Nat /\ phase.secs \in Nat
    /\ phase.num # 0 => phase.den # 0

LEMMA KPIsAre ==
    ASSUME TInv
    PROVE  /\ config.kpi \in Seq(Nat) /\ SumKPI \in Nat /\ config.agents \in Nat \ {0}
           /\ config.ramp.phases \in Seq(PhaseType)
           /\ \A p \in Processes : config.rampOf[p].phases \in Seq(PhaseType)
<1>1. config \in Configs
  BY DEF TInv, Typed
<1>2. /\ config.kpi \in Seq(Nat) /\ config.agents \in Nat \ {0} /\ IsProfile(config.ramp)
      /\ \A p \in Processes : IsProfile(config.rampOf[p])
  BY <1>1, ConfigsAssumption
<1>3. PICK n \in Nat : n = Len(config.kpi)
  BY <1>2, LenProperties
<1>4. \A i \in 1..n : config.kpi[i] \in Nat /\ config.kpi[i] = 1 * config.kpi[i]
  <2>1. ASSUME NEW i \in 1..n PROVE config.kpi[i] \in Nat
    BY <1>2, <1>3, ElementOfSeq
  <2> QED
    BY <2>1
<1>5. SumOf(config.kpi) \in Nat
  <2>1. Scaled(config.kpi, config.kpi, n, 1)
    BY <1>3, <1>4 DEF Scaled
  <2> QED
    BY <2>1, SumScaled
<1>6. /\ config.ramp.phases \in Seq(PhaseType)
      /\ \A p \in Processes : config.rampOf[p].phases \in Seq(PhaseType)
  BY <1>2 DEF IsProfile, PhaseType
<1> QED
  BY <1>2, <1>5, <1>6 DEF SumKPI

\* the part of the process has a place among the KPIs
LEMMA PlaceOfProcess ==
    ASSUME TInv, NEW p \in Processes, ~PercentageRefused
    PROVE  /\ p + 1 \in 1..Len(config.kpi) /\ Len(config.kpi) = Cardinality(Processes)
           /\ config.kpi[p + 1] \in Nat
<1>1. config.kpi \in Seq(Nat)
  BY KPIsAre
<1>2. Len(config.kpi) = Cardinality(Processes)
  BY DEF PercentageRefused
<1>3. p \in 0..Cardinality(Processes) - 1 /\ Len(config.kpi) \in Nat
  BY <1>1, StartUpAssumption, LenProperties
<1>4. p + 1 \in 1..Len(config.kpi)
  BY <1>2, <1>3
<1>5. config.kpi[p + 1] \in Nat
  BY <1>1, <1>4, ElementOfSeq
<1> QED
  BY <1>2, <1>4, <1>5

LEMMA ShareIs ==
    ASSUME TInv, NEW p \in Processes, ~PercentageRefused, NEW phase \in PhaseType
    PROVE  /\ Share(phase, p).num = phase.num * SumKPI * config.kpi[p + 1]
           /\ Share(phase, p).den = phase.den * 100 * SumKPI * config.agents
           /\ Share(phase, p).secs = phase.secs
           /\ RateOk(Share(phase, p))
<1>1. /\ Share(phase, p).num = phase.num * SumKPI * config.kpi[p + 1]
      /\ Share(phase, p).den = phase.den * 100 * SumKPI * config.agents
      /\ Share(phase, p).secs = phase.secs
  BY DEF Share, PhaseType
<1>2. PICK num \in Nat, den \in Nat \ {0} : phase.num = num /\ phase.den = den /\ phase.secs \in Nat
  BY DEF PhaseType
<1>3. PICK sum \in Nat, part \in Nat, agents \in Nat \ {0} :
        sum = SumKPI /\ part = config.kpi[p + 1] /\ agents = config.agents
  BY KPIsAre, PlaceOfProcess
<1>4. num * sum * part \in Nat /\ den * 100 * sum * agents \in Nat
  OBVIOUS
<1>5. num * sum * part # 0 => den * 100 * sum * agents # 0
  <2>1. CASE sum = 0
    BY <2>1
  <2>2. CASE sum # 0
    <3>1. PICK a \in Nat : a = den * 100 * sum /\ a # 0
      BY <2>2
    <3>2. a * agents # 0
      BY <3>1
    <3> QED
      BY <3>1, <3>2
  <2> QED
    BY <2>1, <2>2
<1>6. PICK a \in Nat, b \in Nat : a = num * sum * part /\ b = den * 100 * sum * agents
  BY <1>4
<1>7. Share(phase, p).num = a /\ Share(phase, p).den = b /\ (a # 0 => b # 0)
  <2>1. Share(phase, p).num = num * sum * part
    BY <1>1, <1>2, <1>3, Zenon
  <2>2. Share(phase, p).den = den * 100 * sum * agents
    BY <1>1, <1>2, <1>3, Zenon
  <2> QED
    BY <1>5, <1>6, <2>1, <2>2, Zenon
<1>8. RateOk(Share(phase, p))
  BY <1>1, <1>2, <1>7 DEF RateOk
<1> QED
  BY <1>1, <1>8

LEMMA RampIs ==
    ASSUME TInv, NEW p \in Processes, ~PaceRefused(p)
    PROVE  /\ Len(Ramp(p).phases) \in Nat
           /\ Ramp(p).phases = [i \in 1..Len(Ramp(p).phases) |-> Ramp(p).phases[i]]
           /\ \A i \in 1..Len(Ramp(p).phases) : RateOk(Ramp(p).phases[i])
           /\ Ramp(p) = [bare |-> Ramp(p).bare, phases |-> Ramp(p).phases]
<1>0. /\ config.ramp.phases \in Seq(PhaseType)
      /\ config.rampOf[p].phases \in Seq(PhaseType)
  BY KPIsAre
<1>1. \A phase \in PhaseType : RateOk(phase)
  BY DEF RateOk, PhaseType
<1>2. ASSUME NEW phases \in Seq(PhaseType)
      PROVE  /\ Len(phases) \in Nat /\ phases = [i \in 1..Len(phases) |-> phases[i]]
             /\ \A i \in 1..Len(phases) : phases[i] \in PhaseType /\ RateOk(phases[i])
             /\ DOMAIN phases = 1..Len(phases)
  <2>1. Len(phases) \in Nat /\ DOMAIN phases = 1..Len(phases)
    BY LenProperties
  <2>2. phases = [i \in 1..Len(phases) |-> phases[i]]
    BY <2>1
  <2>3. \A i \in 1..Len(phases) : phases[i] \in PhaseType
    BY ElementOfSeq
  <2> QED
    BY <1>1, <2>1, <2>2, <2>3
<1>3. /\ config.ramp = [bare |-> config.ramp.bare, phases |-> config.ramp.phases]
      /\ config.rampOf[p] = [bare |-> config.rampOf[p].bare, phases |-> config.rampOf[p].phases]
  <2>1. config \in Configs
    BY DEF TInv, Typed
  <2>2. IsProfile(config.ramp) /\ IsProfile(config.rampOf[p])
    BY <2>1, ConfigsAssumption
  <2> QED
    BY <2>2 DEF IsProfile
<1>4. CASE ~config.perProcess
  <2>1. Ramp(p) = config.ramp
    BY <1>4 DEF Ramp
  <2> QED
    BY <1>0, <1>2, <1>3, <2>1
<1>5. CASE config.perProcess /\ ~config.percentage
  <2>1. Ramp(p) = config.rampOf[p]
    BY <1>5 DEF Ramp
  <2> QED
    BY <1>0, <1>2, <1>3, <2>1
<1>6. CASE config.perProcess /\ config.percentage
  <2>0. ~PercentageRefused
    BY <1>6 DEF PaceRefused
  <2>1. PICK n \in Nat : n = Len(config.ramp.phases) /\ DOMAIN config.ramp.phases = 1..n
    BY <1>0, <1>2
  <2>2. Ramp(p) = [bare |-> FALSE, phases |-> [i \in 1..n |-> Share(config.ramp.phases[i], p)]]
    BY <1>6, <2>1 DEF Ramp
  <2>3. ASSUME NEW i \in 1..n PROVE RateOk(Share(config.ramp.phases[i], p))
    <3>1. config.ramp.phases[i] \in PhaseType
      BY <1>0, <1>2, <2>1
    <3> QED
      BY <2>0, <3>1, ShareIs
  <2>4. PICK s : s = [i \in 1..n |-> Share(config.ramp.phases[i], p)]
    OBVIOUS
  <2>5. s \in [1..n -> {Share(config.ramp.phases[i], p) : i \in 1..n}]
    BY <2>4
  <2>6. Len(s) = n
    BY <2>5, FunctionIsSeq
  <2>7. s = [i \in 1..n |-> s[i]] /\ \A i \in 1..n : RateOk(s[i])
    BY <2>3, <2>4
  <2>8. Ramp(p).phases = s /\ Ramp(p).bare = FALSE /\ Ramp(p) = [bare |-> FALSE, phases |-> s]
    BY <2>2, <2>4
  <2> QED
    BY <2>6, <2>7, <2>8
<1> QED
  BY <1>4, <1>5, <1>6

\* a ramp that is accepted gives at least one answer in each phase that lasts
LEMMA PhasesAreGiven ==
    ASSUME NEW phases, Len(phases) \in Nat,
           \A i \in 2..Len(phases) : Count(phases[i]) # 0
    PROVE  PhasesGiven(phases) = phases
<1>1. {i \in 2..Len(phases) : Count(phases[i]) = 0} = {}
  OBVIOUS
<1> QED
  BY <1>1 DEF PhasesGiven

LEMMA CountsAre ==
    ASSUME NEW phase, RateOk(phase), phase.num # 0, phase.secs > 0
    PROVE  Count(phase) \in Nat /\ Count(phase) # 0
<1>1. PICK num \in Nat, den \in Nat, secs \in Nat :
        phase.num = num /\ phase.den = den /\ phase.secs = secs
  BY DEF RateOk
<1>2. num # 0 /\ den # 0 /\ secs # 0
  BY <1>1 DEF RateOk
<1>3. PICK k \in Nat : k = secs * num
  OBVIOUS
<1>4. k >= 1
  BY <1>2, <1>3
<1>5. k + den - 1 >= den
  BY <1>4
<1>6. (k + den - 1) \div den \in Nat /\ (k + den - 1) \div den # 0
  BY <1>2, <1>5
<1> QED
  BY <1>1, <1>3, <1>6 DEF Count

\* Intervals() end with the last interval of the last phase
LEMMA LastInterval ==
    ASSUME NEW n \in Nat \ {0}, NEW phases, Len(phases) = n, DOMAIN phases = 1..n,
           \A i \in 1..n : Count(phases[i]) \in Nat /\ Count(phases[i]) # 0
    PROVE  Last(Intervals(phases)) = Interval(phases[n])
<1> DEFINE S == {Interval(phases[i]) : i \in 1..n}
           Of(i) == [k \in 1..Count(phases[i]) |-> Interval(phases[i])]
<1>1. PhasesGiven(phases) = phases
  BY PhasesAreGiven
<1>2. ASSUME NEW i \in 1..n PROVE Of(i) \in Seq(S) /\ Len(Of(i)) = Count(phases[i])
  <2>1. Count(phases[i]) \in Nat /\ Of(i) \in [1..Count(phases[i]) -> S]
    OBVIOUS
  <2> HIDE DEF S, Of
  <2> QED
    BY <2>1, FunctionIsSeq
<1>3. PICK g : g = [i \in 1..n |-> Of(i)]
  OBVIOUS
<1>4. Intervals(phases) = FlattenSeq([i \in 1..n |-> g[i]])
  BY <1>1, <1>3 DEF Intervals
<1>5. PICK m \in Nat : m + 1 = n
  OBVIOUS
<1>6. m + 1 \in 1..n /\ Of(m + 1)[Count(phases[m + 1])] = Interval(phases[m + 1])
  BY <1>5
<1>7. \A i \in 1..n : g[i] = Of(i)
  BY <1>3
<1> HIDE DEF S, Of
<1>8. \A i \in 1..m + 1 : g[i] \in Seq(S)
  BY <1>2, <1>5, <1>7
<1>9. /\ Upto(g, m + 1) = Upto(g, m) \o g[m + 1]
      /\ Upto(g, m) \in Seq(S) /\ g[m + 1] \in Seq(S)
  <2>1. \A i \in 1..m : g[i] \in Seq(S)
    BY <1>8
  <2>2. Upto(g, m) \in Seq(S)
    BY <2>1, UptoType
  <2>3. Upto(g, m + 1) = Upto(g, m) \o g[m + 1]
    BY <1>8, UptoMore
  <2> QED
    BY <1>8, <2>2, <2>3
<1>10. PICK c \in Nat, s \in Seq(S), e \in Seq(S) :
         /\ c # 0 /\ c = Count(phases[m + 1]) /\ s = Upto(g, m) /\ e = g[m + 1] /\ Len(e) = c
         /\ e[c] = Interval(phases[m + 1])
  BY <1>2, <1>6, <1>7, <1>9
<1>11. s \o e \in Seq(S) /\ Len(s \o e) = Len(s) + c /\ (s \o e)[Len(s) + c] = e[c]
  <2>1. PICK a \in Nat : a = Len(s)
    BY LenProperties
  <2>2. Len(s \o e) = Len(s) + Len(e) /\ s \o e \in Seq(S)
    BY ConcatProperties
  <2>3. PICK k \in 1..Len(s) + Len(e) : k = a + c /\ ~(k <= a) /\ k - a = c
    BY <1>10, <2>1
  <2>4. (s \o e)[k] = IF k <= Len(s) THEN s[k] ELSE e[k - Len(s)]
    BY ConcatProperties
  <2>5. (s \o e)[a + c] = e[c]
    BY <2>1, <2>3, <2>4
  <2> QED
    BY <1>10, <2>1, <2>2, <2>5
<1>12. Last(s \o e) = e[c]
  BY <1>11 DEF Last
<1>13. Intervals(phases) = s \o e
  BY <1>4, <1>5, <1>9, <1>10 DEF Upto
<1> QED
  BY <1>5, <1>10, <1>12, <1>13

\* the phase that __launchMetronom() appends
LEMMA GracefulPhaseIs ==
    ASSUME NEW timeout \in Nat
    PROVE  /\ RateOk(GracefulPhase(timeout)) /\ GracefulPhase(timeout).num # 0
           /\ GracefulPhase(timeout).secs = timeout
           /\ \A t \in Nat : t <= timeout /\ t <= 10000 => Interval(GracefulPhase(timeout)) >= 1000 * t
<1>1. /\ GracefulPhase(timeout).num = 1 /\ GracefulPhase(timeout).den = 10000
      /\ GracefulPhase(timeout).secs = timeout
  BY DEF GracefulPhase, Phase
<1>2. (1000 * 10000) \div 1 = 10000000
  OBVIOUS
<1>3. Interval(GracefulPhase(timeout)) = IF 10000000 > timeout * 1000 THEN timeout * 1000 ELSE 10000000
  BY <1>1, <1>2 DEF Interval
<1>4. \A t \in Nat : t <= timeout /\ t <= 10000 => Interval(GracefulPhase(timeout)) >= 1000 * t
  BY <1>3
<1> QED
  BY <1>1, <1>4 DEF RateOk

LEMMA AcceptedRates ==
    ASSUME NEW method, NEW profile, ~CadencerRefused(method, profile),
           NEW k \in DOMAIN profile.phases
    PROVE  profile.phases[k].num # 0
<1>1. ASSUME profile.phases[k].num = 0 PROVE CadencerRefused(method, profile)
  BY <1>1 DEF CadencerRefused
<1> QED
  BY <1>1

\* what the metronom of a process has
LEMMA MetronomIs ==
    ASSUME TInv, SInv, NEW p \in Processes, metronom[p].on
    PROVE  /\ ~PaceRefused(p) /\ metronom[p].method = config.method
           /\ metronom[p].phases = Profile(p).phases
<1>1. metronom[p] = PaceOf(p) /\ ~PaceRefused(p)
  BY DEF SInv, LateOk, PacedAsAsked
<1> QED
  BY <1>1 DEF PaceOf

RampOf(p, n) ==
    /\ n = Len(Ramp(p).phases)
    /\ \A i \in 1..n : RateOk(Ramp(p).phases[i])
    /\ \A i \in 1..n : Profile(p).phases[i] = Ramp(p).phases[i]

WithPause(phases, n, timeout) ==
    Len(phases) = n + 1 /\ DOMAIN phases = 1..n + 1 /\ phases[n + 1] = GracefulPhase(timeout)

LEMMA ProfileIs ==
    ASSUME TInv, NEW p \in Processes, ~PaceRefused(p)
    PROVE  \E n \in Nat :
             RampOf(p, n) /\ (list[p].on => WithPause(Profile(p).phases, n, list[p].timeout))
<1>1. PICK n \in Nat : n = Len(Ramp(p).phases)
  BY RampIs
<1>2. PICK s, bare : /\ s = Ramp(p).phases /\ bare = Ramp(p).bare
                     /\ s = [i \in 1..n |-> s[i]] /\ \A i \in 1..n : RateOk(s[i])
                     /\ Ramp(p) = [bare |-> bare, phases |-> s]
  BY <1>1, RampIs
<1>3. CASE ~list[p].on
  <2>1. Profile(p) = [[bare |-> bare, phases |-> s] EXCEPT !.phases = s]
    BY <1>2, <1>3 DEF Profile
  <2>2. Profile(p).phases = s
    BY <2>1
  <2>3. RampOf(p, n)
    BY <1>1, <1>2, <2>2 DEF RampOf
  <2> QED
    BY <1>3, <2>3
<1>4. CASE list[p].on
  <2> DEFINE last == GracefulPhase(list[p].timeout)
             S == {s[i] : i \in 1..n} \union {last}
  <2>1. Profile(p) = [[bare |-> bare, phases |-> s] EXCEPT !.phases = Append(s, last)]
    BY <1>2, <1>4 DEF Profile
  <2> HIDE DEF last
  <2>2. Profile(p).phases = Append(s, last)
    BY <2>1
  <2>3. s \in [1..n -> S] /\ last \in S
    BY <1>2
  <2> HIDE DEF S
  <2>4. s \in Seq(S) /\ Len(s) = n
    BY <2>3, FunctionIsSeq
  <2>5. PICK t : t = Append(s, last)
    OBVIOUS
  <2>6. /\ t \in Seq(S) /\ Len(t) = n + 1 /\ \A i \in 1..n : t[i] = s[i]
        /\ \A i \in 1..n + 1 : i = n + 1 => t[i] = last
    BY <2>3, <2>4, <2>5, AppendIs
  <2>7. DOMAIN t = 1..n + 1 /\ t[n + 1] = last
    BY <2>6, LenProperties
  <2>8. RampOf(p, n)
    BY <1>1, <1>2, <2>2, <2>5, <2>6 DEF RampOf
  <2>9. WithPause(Profile(p).phases, n, list[p].timeout)
    BY <2>2, <2>5, <2>6, <2>7 DEF WithPause, last
  <2> QED
    BY <2>8, <2>9
<1> QED
  BY <1>3, <1>4

LEMMA GraceHolds ==
    ASSUME TInv, ListsOk, SInv, NEW p \in Processes, metronom[p].on
    PROVE  GraceIsLongEnough(p)
<1> DEFINE phases == metronom[p].phases
<1> SUFFICES ASSUME \A k \in DOMAIN phases : phases[k].secs > 0, RunsToItsEnd(p),
                    NEW i \in BlockingLines(p), Lines(p)[i].timeout <= 10000
             PROVE  Last(Intervals(phases)) >= 1000 * Lines(p)[i].timeout
  BY DEF GraceIsLongEnough
<1>1. list[p] \in ListType /\ ListOk(list[p]) /\ Lines(p) = LinesOf(list[p])
  BY TypesAt DEF TInv, ListsOk, Lines, LinesOf
<1>2. PICK t \in Nat, timeout \in Nat :
        /\ t = Lines(p)[i].timeout /\ timeout = list[p].timeout /\ t <= timeout /\ list[p].on
  BY <1>1, BlockingLineIs DEF BlockingLines
<1>3. ~PaceRefused(p) /\ phases = Profile(p).phases
  BY MetronomIs
<1> HIDE DEF phases
<1>3a. PICK n \in Nat : RampOf(p, n) /\ WithPause(phases, n, timeout)
  BY <1>2, <1>3, ProfileIs
<1>4. /\ n = Len(Ramp(p).phases)
      /\ \A k \in 1..n : RateOk(Ramp(p).phases[k])
      /\ \A k \in 1..n : phases[k] = Ramp(p).phases[k]
      /\ Len(phases) = n + 1 /\ DOMAIN phases = 1..n + 1
      /\ phases[n + 1] = GracefulPhase(timeout)
  BY <1>3, <1>3a DEF RampOf, WithPause
<1>5. \A k \in 1..n + 1 : phases[k].num # 0
  <2>1. ~CadencerRefused(config.method, Profile(p))
    BY <1>3 DEF PaceRefused
  <2>2. \A k \in DOMAIN Profile(p).phases : Profile(p).phases[k].num # 0
    BY <2>1, AcceptedRates
  <2> QED
    BY <1>3, <1>4, <2>2
<1>6. ASSUME NEW k \in 1..n + 1 PROVE Count(phases[k]) \in Nat /\ Count(phases[k]) # 0
  <2>1. RateOk(phases[k])
    <3>1. CASE k = n + 1
      BY <1>4, <3>1, GracefulPhaseIs
    <3>2. CASE k # n + 1
      <4>1. k \in 1..n
        BY <3>2
      <4> QED
        BY <1>4, <4>1
    <3> QED
      BY <3>1, <3>2
  <2>2. phases[k].num # 0 /\ phases[k].secs > 0
    BY <1>4, <1>5
  <2> QED
    BY <2>1, <2>2, CountsAre
<1>7. PICK m \in Nat \ {0} : m = n + 1
  OBVIOUS
<1>8. Last(Intervals(phases)) = Interval(phases[m])
  <2>1. /\ Len(phases) = m /\ DOMAIN phases = 1..m
        /\ \A k \in 1..m : Count(phases[k]) \in Nat /\ Count(phases[k]) # 0
    BY <1>4, <1>6, <1>7
  <2> QED
    BY <2>1, LastInterval
<1>9. Interval(phases[m]) >= 1000 * t
  <2>1. t <= timeout /\ t <= 10000
    BY <1>2
  <2>2. phases[m] = GracefulPhase(timeout)
    BY <1>4, <1>7
  <2>3. Interval(GracefulPhase(timeout)) >= 1000 * t
    BY <2>1, GracefulPhaseIs
  <2> QED
    BY <2>2, <2>3
<1> QED
  BY <1>2, <1>8, <1>9

LEMMA SharesHold ==
    ASSUME TInv, SInv, \A p \in Processes : metronom[p].on, config.perProcess, config.percentage
    PROVE  SharesAddUp
<1> SUFFICES ASSUME NEW k \in DOMAIN config.ramp.phases
             PROVE  LET asked == config.ramp.phases[k]
                        den == metronom[0].phases[k].den
                    IN  /\ \A p \in Processes : metronom[p].phases[k].den = den
                        /\ 100 * asked.den * config.agents
                               * SumOf([i \in 1..Cardinality(Processes) |->
                                           metronom[i - 1].phases[k].num])
                           = asked.num * SumKPI * den
  BY DEF SharesAddUp
<1> DEFINE asked == config.ramp.phases[k]
           rates == [i \in 1..Cardinality(Processes) |-> metronom[i - 1].phases[k].num]
<1>1. 0 \in Processes /\ Processes = 0..Cardinality(Processes) - 1 /\ Cardinality(Processes) \in Nat
  BY StartUpAssumption, FS_CardinalityType
<1>2. asked \in PhaseType /\ config.ramp.phases \in Seq(PhaseType)
  <2>1. config.ramp.phases \in Seq(PhaseType)
    BY KPIsAre
  <2>2. k \in 1..Len(config.ramp.phases)
    BY <2>1, LenProperties
  <2> QED
    BY <2>1, <2>2, ElementOfSeq
<1>3. ASSUME NEW p \in Processes
      PROVE  /\ metronom[p].phases[k] = Share(asked, p) /\ ~PercentageRefused
  <2>1. ~PaceRefused(p) /\ metronom[p].phases = Profile(p).phases
    BY MetronomIs
  <2>2. ~PercentageRefused
    BY <2>1 DEF PaceRefused
  <2>3. PICK n \in Nat : n = Len(config.ramp.phases) /\ DOMAIN config.ramp.phases = 1..n
    BY <1>2, LenProperties
  <2>4. PICK s : s = [i \in 1..n |-> Share(config.ramp.phases[i], p)]
    OBVIOUS
  <2>5. Ramp(p).phases = s
    BY <2>3, <2>4 DEF Ramp
  <2>6. Len(s) = n
    <3>1. s \in [1..n -> {Share(config.ramp.phases[i], p) : i \in 1..n}]
      BY <2>4
    <3> QED
      BY <3>1, FunctionIsSeq
  <2>7. \A i \in 1..n : Profile(p).phases[i] = s[i]
    BY <2>1, <2>5, <2>6, ProfileIs DEF RampOf
  <2> QED
    BY <2>1, <2>2, <2>3, <2>4, <2>7
<1>4. PICK num \in Nat, den \in Nat : num = asked.num /\ den = asked.den
  BY <1>2 DEF PhaseType
<1>5. PICK sum \in Nat, agents \in Nat : sum = SumKPI /\ agents = config.agents
  BY KPIsAre
<1>6. PICK a \in Nat, b \in Nat : a = num * sum /\ b = den * 100 * sum * agents
  OBVIOUS
<1>7. ASSUME NEW p \in Processes
      PROVE  metronom[p].phases[k].num = a * config.kpi[p + 1] /\ metronom[p].phases[k].den = b
  <2>1. /\ Share(asked, p).num = asked.num * SumKPI * config.kpi[p + 1]
        /\ Share(asked, p).den = asked.den * 100 * SumKPI * config.agents
    BY <1>2, <1>3, ShareIs
  <2> HIDE DEF asked
  <2>2. /\ Share(asked, p).num = num * sum * config.kpi[p + 1]
        /\ Share(asked, p).den = den * 100 * sum * agents
    BY <1>4, <1>5, <2>1, Zenon
  <2> QED
    BY <1>3, <1>6, <2>2, Zenon
<1>8. PICK n \in Nat : n = Cardinality(Processes) /\ n = Len(config.kpi)
  BY <1>1, <1>3, PlaceOfProcess
<1>9. \A i \in 1..n : config.kpi[i] \in Nat /\ rates[i] = a * config.kpi[i]
  <2>1. ASSUME NEW i \in 1..n PROVE config.kpi[i] \in Nat /\ rates[i] = a * config.kpi[i]
    <3>1. PICK p \in Processes : p = i - 1 /\ p + 1 = i
      BY <1>1, <1>8
    <3>2. config.kpi[p + 1] \in Nat
      BY <1>3, PlaceOfProcess
    <3>3. rates[i] = metronom[p].phases[k].num
      BY <1>8, <3>1
    <3> QED
      BY <1>7, <3>1, <3>2, <3>3
  <2> QED
    BY <2>1
<1>10. Len(rates) = n
  <2>1. rates \in [1..n -> {rates[i] : i \in 1..n}]
    BY <1>8
  <2> HIDE DEF rates
  <2> QED
    BY <2>1, FunctionIsSeq
<1> HIDE DEF rates
<1>11. SumOf(rates) = a * SumOf(config.kpi)
  <2>1. Scaled(config.kpi, rates, n, a)
    BY <1>8, <1>9, <1>10 DEF Scaled
  <2> QED
    BY <2>1, SumScaled
<1>12. SumOf(rates) = a * sum
  BY <1>5, <1>11 DEF SumKPI
<1>13. 100 * den * agents * (a * sum) = num * sum * b
  <2>1. 100 * den * agents * ((num * sum) * sum) = num * sum * (den * 100 * sum * agents)
    OBVIOUS
  <2> QED
    BY <1>6, <2>1
<1>14. 100 * asked.den * config.agents * SumOf(rates) = asked.num * SumKPI * b
  <2> HIDE DEF asked
  <2>1. 100 * asked.den * config.agents * SumOf(rates) = 100 * den * agents * (a * sum)
    BY <1>4, <1>5, <1>12, Zenon
  <2>2. asked.num * SumKPI * b = num * sum * b
    BY <1>4, <1>5, Zenon
  <2> QED
    BY <1>13, <2>1, <2>2, Zenon
<1>15. metronom[0].phases[k].den = b /\ \A p \in Processes : metronom[p].phases[k].den = b
  BY <1>1, <1>7
<1> QED
  BY <1>14, <1>15, Zenon DEF rates, asked

\* __launchMetronom(), ManageThroughput(): however the processes are interleaved, a ramp of a
\* process that is ready, if it runs to its end, has a last pause as long as the timeout of
\* any of its blocking steps; and the metronoms of all processes together keep the rate that
\* was asked for.
THEOREM StartPacesFit == Spec => []PacesFit
<1>1. TInv /\ ListsOk /\ SInv => PacesFit
  BY GraceHolds, SharesHold DEF PacesFit
<1> QED
  BY <1>1, InvariantOfServices, PTL

-----------------------------------------------------------------------------
(* What a reader has found and met, from the files that he reads: the      *)
(* frame j of the stack has read a part of its file, to the depth Depth-j. *)

\* no file is in the stack twice
LEMMA StackDepth ==
    ASSUME NEW s \in Seq(FrameType), StackOk(s)
    PROVE  Len(s) \in 0..Depth
<1>1. PICK n \in Nat : n = Len(s)
  BY LenProperties
<1> DEFINE f == [j \in 1..n |-> s[j].name]
<1>2. \A j \in 1..n : s[j].name \in DOMAIN File
  <2>1. ASSUME NEW j \in 1..n PROVE s[j].name \in DOMAIN File
    <3>1. s[j] \in FrameType
      BY <1>1, ElementOfSeq
    <3> QED
      BY <3>1 DEF FrameType
  <2> QED
    BY <2>1
<1>3. f \in [1..n -> DOMAIN File]
  BY <1>2
<1>4. \A i, j \in 1..n : s[i].name = s[j].name => i = j
  BY <1>1 DEF StackOk
<1>5. ASSUME NEW i \in 1..n, NEW j \in 1..n, f[i] = f[j] PROVE i = j
  BY <1>4, <1>5
<1> HIDE DEF f
<1>6. f \in Injection(1..n, DOMAIN File)
  BY <1>3, <1>5 DEF Injection, IsInjective
<1>7. Cardinality(1..n) <= Cardinality(DOMAIN File)
  BY <1>6, FilesAssumption, FS_Injection
<1>8. Cardinality(1..n) = n
  BY FS_Interval
<1> QED
  BY <1>1, <1>7, <1>8, DepthIsNat DEF Depth

FoundIn(name, at, d) == Upto(StepsIn(name, StepsTo[d]), at)
MetIn(name, at, d) == <<name>> \o Upto(MetAt(name, MetTo[d]), at)

FoundParts(stack) == [j \in 1..Len(stack) |-> FoundIn(stack[j].name, stack[j].at, Depth - j)]
MetParts(stack) == [j \in 1..Len(stack) |-> MetIn(stack[j].name, stack[j].at, Depth - j)]

Found(stack) == FlattenSeq(FoundParts(stack))
MetSoFar(stack) == FlattenSeq(MetParts(stack))

LEMMA FoundInType ==
    ASSUME NEW name \in DOMAIN File, NEW at \in Nat, at <= Len(File[name].steps),
           NEW d \in 0..Depth
    PROVE  FoundIn(name, at, d) \in Seq(Places) /\ MetIn(name, at, d) \in Seq(DOMAIN File)
<1>1. Len(File[name].steps) \in Nat
  BY StepsAreMany
<1>2. StepsTo[d] \in [DOMAIN File -> Seq(Places)] /\ MetTo[d] \in [DOMAIN File -> Seq(DOMAIN File)]
  BY StepsToType, MetToType
<1>3. /\ \A i \in 1..Len(File[name].steps) : StepsIn(name, StepsTo[d])[i] \in Seq(Places)
      /\ \A i \in 1..Len(File[name].steps) : MetAt(name, MetTo[d])[i] \in Seq(DOMAIN File)
  BY <1>2, StepsInType, MetAtType
<1>4. /\ \A i \in 1..at : StepsIn(name, StepsTo[d])[i] \in Seq(Places)
      /\ \A i \in 1..at : MetAt(name, MetTo[d])[i] \in Seq(DOMAIN File)
  BY <1>1, <1>3
<1>5. Upto(StepsIn(name, StepsTo[d]), at) \in Seq(Places)
  BY <1>4, UptoType
<1>6. Upto(MetAt(name, MetTo[d]), at) \in Seq(DOMAIN File)
  BY <1>4, UptoType
<1>7. <<name>> \o Upto(MetAt(name, MetTo[d]), at) \in Seq(DOMAIN File)
  BY <1>6, SingleSeq, ConcatProperties
<1> QED
  BY <1>5, <1>7 DEF FoundIn, MetIn

LEMMA FoundInNone ==
    ASSUME NEW name \in DOMAIN File, NEW d
    PROVE  FoundIn(name, 0, d) = <<>> /\ MetIn(name, 0, d) = <<name>>
<1>1. <<name>> \o <<>> = <<name>>
  BY SingleSeq, ConcatEmptySeq
<1> QED
  BY <1>1, UptoNone DEF FoundIn, MetIn

LEMMA FoundInMore ==
    ASSUME NEW name \in DOMAIN File, NEW at \in Nat, at < Len(File[name].steps), NEW d \in 0..Depth
    PROVE  /\ FoundIn(name, at + 1, d) = FoundIn(name, at, d) \o StepsIn(name, StepsTo[d])[at + 1]
           /\ MetIn(name, at + 1, d) = MetIn(name, at, d) \o MetAt(name, MetTo[d])[at + 1]
           /\ StepsIn(name, StepsTo[d])[at + 1] \in Seq(Places)
           /\ MetAt(name, MetTo[d])[at + 1] \in Seq(DOMAIN File)
<1>1. Len(File[name].steps) \in Nat
  BY StepsAreMany
<1>2. StepsTo[d] \in [DOMAIN File -> Seq(Places)] /\ MetTo[d] \in [DOMAIN File -> Seq(DOMAIN File)]
  BY StepsToType, MetToType
<1> DEFINE g == StepsIn(name, StepsTo[d])
           h == MetAt(name, MetTo[d])
<1>3. /\ \A i \in 1..Len(File[name].steps) : g[i] \in Seq(Places)
      /\ \A i \in 1..Len(File[name].steps) : h[i] \in Seq(DOMAIN File)
  BY <1>2, StepsInType, MetAtType
<1> HIDE DEF g, h
<1>4. \A i \in 1..at + 1 : g[i] \in Seq(Places) /\ h[i] \in Seq(DOMAIN File)
  BY <1>1, <1>3
<1>5. Upto(g, at + 1) = Upto(g, at) \o g[at + 1]
  BY <1>4, UptoMore
<1>6. Upto(h, at + 1) = Upto(h, at) \o h[at + 1]
  BY <1>4, UptoMore
<1>7. <<name>> \o (Upto(h, at) \o h[at + 1]) = (<<name>> \o Upto(h, at)) \o h[at + 1]
  <2>1. PICK a \in Seq(DOMAIN File) : a = <<name>>
    BY SingleSeq
  <2>2. \A i \in 1..at : h[i] \in Seq(DOMAIN File)
    BY <1>4
  <2>3. PICK b \in Seq(DOMAIN File) : b = Upto(h, at)
    BY <2>2, UptoType
  <2>4. PICK c \in Seq(DOMAIN File) : c = h[at + 1]
    BY <1>4
  <2>5. (a \o b) \o c = a \o (b \o c)
    BY ConcatAssociative
  <2> QED
    BY <2>1, <2>3, <2>4, <2>5
<1>8. g[at + 1] \in Seq(Places) /\ h[at + 1] \in Seq(DOMAIN File)
  BY <1>4
<1> QED
  BY <1>5, <1>6, <1>7, <1>8 DEF FoundIn, MetIn, g, h

\* a file that is read to its end
LEMMA FoundInAll ==
    ASSUME NEW name \in DOMAIN File, NEW d \in Nat, d + 1 <= Depth
    PROVE  /\ FoundIn(name, Len(File[name].steps), d) = StepsTo[d + 1][name]
           /\ MetIn(name, Len(File[name].steps), d) = MetTo[d + 1][name]
<1>1. PICK n \in Nat : n = Len(File[name].steps)
  BY StepsAreMany
<1>2. d \in 0..Depth /\ d + 1 \in 0..Depth /\ d + 1 # 0 /\ d + 1 - 1 = d
  BY DepthIsNat
<1>3. StepsTo[d] \in [DOMAIN File -> Seq(Places)] /\ MetTo[d] \in [DOMAIN File -> Seq(DOMAIN File)]
  BY <1>2, StepsToType, MetToType
<1>4. PICK g \in Seq(Seq(Places)) : g = StepsIn(name, StepsTo[d]) /\ Len(g) = n
  BY <1>1, <1>3, StepsInType
<1>5. PICK h \in Seq(Seq(DOMAIN File)) : h = MetAt(name, MetTo[d]) /\ Len(h) = n
  BY <1>1, <1>3, MetAtType
<1>6. Upto(g, n) = FlattenSeq(g) /\ Upto(h, n) = FlattenSeq(h)
  BY <1>4, <1>5, UptoAll
<1>7. StepsTo[d + 1] = StepsBody(StepsTo[d], d + 1) /\ MetTo[d + 1] = MetBody(MetTo[d], d + 1)
  BY <1>2, StepsToIs, MetToIs
<1>8. /\ StepsTo[d + 1][name] = FlattenSeq(StepsIn(name, StepsTo[d]))
      /\ MetTo[d + 1][name] = <<name>> \o FlattenSeq(MetAt(name, MetTo[d]))
  BY <1>2, <1>7 DEF StepsBody, MetBody
<1> QED
  BY <1>1, <1>4, <1>5, <1>6, <1>8 DEF FoundIn, MetIn

LEMMA PartsType ==
    ASSUME NEW s \in Seq(FrameType), StackOk(s)
    PROVE  \E n \in 0..Depth :
             /\ n = Len(s)
             /\ FoundParts(s) \in Seq(Seq(Places)) /\ Len(FoundParts(s)) = n
             /\ MetParts(s) \in Seq(Seq(DOMAIN File)) /\ Len(MetParts(s)) = n
             /\ Found(s) \in Seq(Places) /\ MetSoFar(s) \in Seq(DOMAIN File)
<1>1. PICK n \in 0..Depth : n = Len(s)
  BY StackDepth
<1>2. n \in Nat
  BY DepthIsNat
<1> DEFINE f == FoundParts(s)
           g == MetParts(s)
<1>3. ASSUME NEW j \in 1..n
      PROVE  /\ FoundIn(s[j].name, s[j].at, Depth - j) \in Seq(Places)
             /\ MetIn(s[j].name, s[j].at, Depth - j) \in Seq(DOMAIN File)
  <2>1. s[j] \in FrameType /\ s[j].at <= Len(File[s[j].name].steps)
    BY <1>1, ElementOfSeq DEF StackOk
  <2>2. s[j].name \in DOMAIN File /\ s[j].at \in Nat
    BY <2>1 DEF FrameType
  <2>3. Depth - j \in 0..Depth
    BY DepthIsNat
  <2> QED
    BY <2>1, <2>2, <2>3, FoundInType
<1>4. f \in [1..n -> Seq(Places)] /\ g \in [1..n -> Seq(DOMAIN File)]
  BY <1>1, <1>3 DEF FoundParts, MetParts
<1> HIDE DEF f, g
<1>5. f \in Seq(Seq(Places)) /\ Len(f) = n
  BY <1>2, <1>4, FunctionIsSeq
<1>6. g \in Seq(Seq(DOMAIN File)) /\ Len(g) = n
  BY <1>2, <1>4, FunctionIsSeq
<1>7. FlattenSeq(f) \in Seq(Places)
  BY <1>5, FlattenType
<1>8. FlattenSeq(g) \in Seq(DOMAIN File)
  BY <1>6, FlattenType
<1> QED
  BY <1>1, <1>5, <1>6, <1>7, <1>8 DEF Found, MetSoFar, f, g

\* the parts of frame j
LEMMA PartIs ==
    ASSUME NEW s, NEW j \in 1..Len(s)
    PROVE  /\ FoundParts(s)[j] = FoundIn(s[j].name, s[j].at, Depth - j)
           /\ MetParts(s)[j] = MetIn(s[j].name, s[j].at, Depth - j)
  BY DEF FoundParts, MetParts

\* what the innermost file has at its next step
Below(s) == Depth - Len(s)
NextFound(s) == StepsIn(Last(s).name, StepsTo[Below(s)])[Last(s).at + 1]
NextMet(s) == MetAt(Last(s).name, MetTo[Below(s)])[Last(s).at + 1]

LEMMA PartsLonger ==
    ASSUME NEW s \in Seq(FrameType), s # <<>>, StackOk(s),
           Last(s).at < Len(File[Last(s).name].steps)
    PROVE  /\ Found(StepDone(s)) = Found(s) \o NextFound(s)
           /\ MetSoFar(StepDone(s)) = MetSoFar(s) \o NextMet(s)
<1>1. PICK n \in 0..Depth :
        /\ n = Len(s)
        /\ FoundParts(s) \in Seq(Seq(Places)) /\ Len(FoundParts(s)) = n
        /\ MetParts(s) \in Seq(Seq(DOMAIN File)) /\ Len(MetParts(s)) = n
  BY PartsType
<1>2. n \in Nat \ {0} /\ n \in 1..n /\ Depth - n \in 0..Depth
  BY <1>1, LastIs, DepthIsNat
<1>3. PICK top \in FrameType : top = s[n] /\ top = Last(s)
  BY <1>1, LastIs
<1>4. PICK t : t = StepDone(s)
  OBVIOUS
<1>5. /\ t \in Seq(FrameType) /\ Len(t) = n
      /\ \A i \in 1..n : t[i].name = s[i].name
      /\ \A i \in 1..n : t[i].at = IF i = n THEN s[i].at + 1 ELSE s[i].at
  BY <1>1, <1>4, StepDoneIs
<1>6. StackOk(t)
  BY <1>4, StackDone
<1>7. /\ FoundParts(t) \in Seq(Seq(Places)) /\ Len(FoundParts(t)) = n
      /\ MetParts(t) \in Seq(Seq(DOMAIN File)) /\ Len(MetParts(t)) = n
  BY <1>5, <1>6, PartsType
<1>8. \A i \in 1..n : /\ FoundParts(s)[i] = FoundIn(s[i].name, s[i].at, Depth - i)
                      /\ MetParts(s)[i] = MetIn(s[i].name, s[i].at, Depth - i)
                      /\ FoundParts(t)[i] = FoundIn(t[i].name, t[i].at, Depth - i)
                      /\ MetParts(t)[i] = MetIn(t[i].name, t[i].at, Depth - i)
  BY <1>1, <1>5, PartIs
<1>9. \A i \in 1..n - 1 : FoundParts(s)[i] = FoundParts(t)[i] /\ MetParts(s)[i] = MetParts(t)[i]
  <2>1. ASSUME NEW i \in 1..n - 1
        PROVE  FoundParts(s)[i] = FoundParts(t)[i] /\ MetParts(s)[i] = MetParts(t)[i]
    <3>1. i \in 1..n /\ i # n
      BY <1>2
    <3>2. t[i].name = s[i].name /\ t[i].at = s[i].at
      BY <1>5, <3>1
    <3> QED
      BY <1>8, <3>1, <3>2
  <2> QED
    BY <2>1
<1>10. PICK e \in Seq(Places), m \in Seq(DOMAIN File) :
         /\ e = NextFound(s) /\ m = NextMet(s)
         /\ FoundIn(top.name, top.at + 1, Depth - n) = FoundIn(top.name, top.at, Depth - n) \o e
         /\ MetIn(top.name, top.at + 1, Depth - n) = MetIn(top.name, top.at, Depth - n) \o m
  <2>1. top.name \in DOMAIN File /\ top.at \in Nat /\ top.at < Len(File[top.name].steps)
    BY <1>3 DEF FrameType
  <2> QED
    BY <1>1, <1>2, <1>3, <2>1, FoundInMore DEF NextFound, NextMet, Below
<1>11. t[n].name = top.name /\ t[n].at = top.at + 1
  BY <1>2, <1>3, <1>5
<1>12. FoundParts(t)[n] = FoundParts(s)[n] \o e /\ MetParts(t)[n] = MetParts(s)[n] \o m
  BY <1>2, <1>3, <1>8, <1>10, <1>11
<1>13. Longer(FoundParts(s), FoundParts(t), e)
  BY <1>1, <1>2, <1>7, <1>9, <1>12 DEF Longer
<1>14. Longer(MetParts(s), MetParts(t), m)
  BY <1>1, <1>2, <1>7, <1>9, <1>12 DEF Longer
<1>15. FlattenSeq(FoundParts(t)) = FlattenSeq(FoundParts(s)) \o e
  BY <1>1, <1>7, <1>13, FlattenLonger
<1>16. FlattenSeq(MetParts(t)) = FlattenSeq(MetParts(s)) \o m
  BY <1>1, <1>7, <1>14, FlattenLonger
<1> QED
  BY <1>4, <1>10, <1>15, <1>16 DEF Found, MetSoFar

LEMMA PartsMore ==
    ASSUME NEW r \in Seq(FrameType), StackOk(r), NEW s \in Seq(FrameType), StackOk(s),
           OneMore(r, s)
    PROVE  /\ Found(s) = Found(r) \o FoundIn(Last(s).name, Last(s).at, Below(s))
           /\ MetSoFar(s) = MetSoFar(r) \o MetIn(Last(s).name, Last(s).at, Below(s))
<1>1. PICK n \in 0..Depth :
        /\ n = Len(s)
        /\ FoundParts(s) \in Seq(Seq(Places)) /\ Len(FoundParts(s)) = n
        /\ MetParts(s) \in Seq(Seq(DOMAIN File)) /\ Len(MetParts(s)) = n
  BY PartsType
<1>2. PICK m \in 0..Depth :
        /\ m = Len(r)
        /\ FoundParts(r) \in Seq(Seq(Places)) /\ Len(FoundParts(r)) = m
        /\ MetParts(r) \in Seq(Seq(DOMAIN File)) /\ Len(MetParts(r)) = m
  BY PartsType
<1>3. n = m + 1 /\ n \in 1..n /\ n \in Nat \ {0} /\ \A i \in 1..m : r[i] = s[i]
  BY <1>1, <1>2, DepthIsNat DEF OneMore
<1>4. ASSUME NEW i \in 1..m
      PROVE  FoundParts(r)[i] = FoundParts(s)[i] /\ MetParts(r)[i] = MetParts(s)[i]
  <2>1. i \in 1..n /\ r[i] = s[i]
    BY <1>3
  <2>2. /\ FoundParts(s)[i] = FoundIn(s[i].name, s[i].at, Depth - i)
        /\ MetParts(s)[i] = MetIn(s[i].name, s[i].at, Depth - i)
    BY <1>1, <2>1, PartIs
  <2>3. /\ FoundParts(r)[i] = FoundIn(r[i].name, r[i].at, Depth - i)
        /\ MetParts(r)[i] = MetIn(r[i].name, r[i].at, Depth - i)
    BY <1>2, PartIs
  <2> QED
    BY <2>1, <2>2, <2>3
<1>5. OneMore(FoundParts(r), FoundParts(s))
  BY <1>1, <1>2, <1>3, <1>4 DEF OneMore
<1>6. OneMore(MetParts(r), MetParts(s))
  BY <1>1, <1>2, <1>3, <1>4 DEF OneMore
<1>7. FlattenSeq(FoundParts(s)) = FlattenSeq(FoundParts(r)) \o FoundParts(s)[n]
  BY <1>1, <1>2, <1>5, FlattenMore
<1>8. FlattenSeq(MetParts(s)) = FlattenSeq(MetParts(r)) \o MetParts(s)[n]
  BY <1>1, <1>2, <1>6, FlattenMore
<1>9. /\ FoundParts(s)[n] = FoundIn(s[n].name, s[n].at, Depth - n)
      /\ MetParts(s)[n] = MetIn(s[n].name, s[n].at, Depth - n)
  BY <1>1, <1>3, PartIs
<1>10. Last(s) = s[n] /\ Below(s) = Depth - n
  BY <1>1 DEF Last, Below
<1> QED
  BY <1>7, <1>8, <1>9, <1>10 DEF Found, MetSoFar

LEMMA TopFrame ==
    ASSUME NEW s \in Seq(FrameType), s # <<>>, Last(s).at < Len(File[Last(s).name].steps)
    PROVE  \E name \in DOMAIN File, at \in Nat :
             /\ name = Last(s).name /\ at = Last(s).at /\ at + 1 \in 1..Len(File[name].steps)
<1>1. PICK top \in FrameType : top = Last(s)
  BY LastIs
<1>2. top.name \in DOMAIN File /\ top.at \in Nat /\ top.at < Len(File[top.name].steps)
  BY <1>1 DEF FrameType
<1>3. Len(File[top.name].steps) \in Nat
  BY <1>2, StepsAreMany
<1>4. top.at + 1 \in 1..Len(File[top.name].steps)
  BY <1>2, <1>3
<1> QED
  BY <1>1, <1>2, <1>4

\* a step of the file itself
LEMMA NextIsStep ==
    ASSUME NEW s \in Seq(FrameType), s # <<>>, StackOk(s),
           Last(s).at < Len(File[Last(s).name].steps),
           StepAt(<<Last(s).name, Last(s).at + 1>>).include = ""
    PROVE  NextFound(s) = <<<<Last(s).name, Last(s).at + 1>>>> /\ NextMet(s) = <<>>
<1>1. PICK name \in DOMAIN File, at \in Nat :
        /\ name = Last(s).name /\ at = Last(s).at /\ at + 1 \in 1..Len(File[name].steps)
  BY TopFrame
<1>2. PICK i : i = at + 1 /\ i \in 1..Len(File[name].steps)
  BY <1>1
<1>3. ~Includes(StepAt(<<name, i>>)) /\ StepAt(<<name, i>>).include = ""
  BY <1>1, <1>2 DEF Includes
<1>4. NextFound(s) = StepsIn(name, StepsTo[Below(s)])[i] /\ NextMet(s) = MetAt(name, MetTo[Below(s)])[i]
  BY <1>1, <1>2 DEF NextFound, NextMet
<1>5. \A below : StepsIn(name, below)[i] = <<<<name, i>>>> /\ MetAt(name, below)[i] = <<>>
  BY <1>2, <1>3 DEF StepsIn, MetAt
<1> QED
  BY <1>1, <1>2, <1>4, <1>5

\* an included file
LEMMA NextIsInclude ==
    ASSUME NEW s \in Seq(FrameType), s # <<>>, StackOk(s),
           Last(s).at < Len(File[Last(s).name].steps),
           NEW new \in DOMAIN File, new = StepAt(<<Last(s).name, Last(s).at + 1>>).include
    PROVE  NextFound(s) = StepsTo[Below(s)][new] /\ NextMet(s) = MetTo[Below(s)][new]
<1>1. PICK name \in DOMAIN File, at \in Nat :
        /\ name = Last(s).name /\ at = Last(s).at /\ at + 1 \in 1..Len(File[name].steps)
  BY TopFrame
<1>2. PICK i : i = at + 1 /\ i \in 1..Len(File[name].steps)
  BY <1>1
<1>3. Includes(StepAt(<<name, i>>)) /\ StepAt(<<name, i>>).include = new
  BY <1>1, <1>2, FilesAssumption DEF Includes
<1>4. NextFound(s) = StepsIn(name, StepsTo[Below(s)])[i] /\ NextMet(s) = MetAt(name, MetTo[Below(s)])[i]
  BY <1>1, <1>2 DEF NextFound, NextMet
<1>5. \A below : StepsIn(name, below)[i] = below[new] /\ MetAt(name, below)[i] = below[new]
  BY <1>2, <1>3 DEF StepsIn, MetAt
<1> QED
  BY <1>4, <1>5

\* The moves of the reader: it takes a step, ...
LEMMA FoundTakes ==
    ASSUME NEW s \in Seq(FrameType), s # <<>>, StackOk(s),
           Last(s).at < Len(File[Last(s).name].steps),
           StepAt(<<Last(s).name, Last(s).at + 1>>).include = ""
    PROVE  /\ Found(StepDone(s)) = Append(Found(s), <<Last(s).name, Last(s).at + 1>>)
           /\ MetSoFar(StepDone(s)) = MetSoFar(s)
<1>1. Found(s) \in Seq(Places) /\ MetSoFar(s) \in Seq(DOMAIN File)
  BY PartsType
<1>2. /\ Found(StepDone(s)) = Found(s) \o <<<<Last(s).name, Last(s).at + 1>>>>
      /\ MetSoFar(StepDone(s)) = MetSoFar(s) \o <<>>
  BY PartsLonger, NextIsStep
<1>3. MetSoFar(s) \o <<>> = MetSoFar(s)
  BY <1>1, ConcatEmptySeq
<1>4. PICK at \in Places : at = <<Last(s).name, Last(s).at + 1>>
  <2>1. Last(s).name \in DOMAIN File /\ Last(s).at + 1 \in 1..Len(File[Last(s).name].steps)
    BY TopFrame
  <2> QED
    BY <2>1, PlacesAre
<1>5. Found(s) \o <<at>> = Append(Found(s), at)
  BY <1>1, AppendIsConcat
<1> QED
  BY <1>2, <1>3, <1>4, <1>5

\* ... enters a file, ...
LEMMA FoundEnters ==
    ASSUME NEW s \in Seq(FrameType), StackOk(s), NEW name \in DOMAIN File,
           Append(s, Frame(name)) \in Seq(FrameType), StackOk(Append(s, Frame(name)))
    PROVE  /\ Found(Append(s, Frame(name))) = Found(s)
           /\ MetSoFar(Append(s, Frame(name))) = Append(MetSoFar(s), name)
<1>1. Found(s) \in Seq(Places) /\ MetSoFar(s) \in Seq(DOMAIN File)
  BY PartsType
<1>2. PICK t \in Seq(FrameType) : t = Append(s, Frame(name)) /\ StackOk(t)
  OBVIOUS
<1>3. Frame(name) \in FrameType
  BY DEF Frame, FrameType
<1>4. PICK n \in Nat : n = Len(s)
  BY LenProperties
<1>5. OneMore(s, t)
  BY <1>2, <1>3, <1>4, AppendIs DEF OneMore
<1>6. Last(t) = Frame(name)
  <2>1. Len(t) = n + 1 /\ t[n + 1] = Frame(name)
    BY <1>2, <1>3, <1>4, AppendIs
  <2> QED
    BY <2>1 DEF Last
<1>7. Last(t).name = name /\ Last(t).at = 0
  BY <1>6 DEF Frame
<1>8. Found(t) = Found(s) \o <<>> /\ MetSoFar(t) = MetSoFar(s) \o <<name>>
  <2>1. /\ Found(t) = Found(s) \o FoundIn(Last(t).name, Last(t).at, Below(t))
        /\ MetSoFar(t) = MetSoFar(s) \o MetIn(Last(t).name, Last(t).at, Below(t))
    BY <1>2, <1>5, PartsMore
  <2>2. /\ FoundIn(name, 0, Below(t)) = <<>> /\ MetIn(name, 0, Below(t)) = <<name>>
    BY FoundInNone
  <2> QED
    BY <1>7, <2>1, <2>2
<1>9. Found(s) \o <<>> = Found(s)
  BY <1>1, ConcatEmptySeq
<1>10. MetSoFar(s) \o <<name>> = Append(MetSoFar(s), name)
  BY <1>1, AppendIsConcat
<1> QED
  BY <1>2, <1>8, <1>9, <1>10

\* ... leaves one that another includes, ...
LEMMA FoundLeaves ==
    ASSUME NEW s \in Seq(FrameType), s # <<>>, Len(s) # 1, StackOk(s),
           ~(Last(s).at < Len(File[Last(s).name].steps))
    PROVE  Found(StepDone(Front(s))) = Found(s) /\ MetSoFar(StepDone(Front(s))) = MetSoFar(s)
<1>1. PICK r : r = Front(s)
  OBVIOUS
<1>2. /\ r \in Seq(FrameType) /\ r # <<>> /\ StackOk(r)
      /\ Last(r).at < Len(File[Last(r).name].steps)
      /\ StepAt(<<Last(r).name, Last(r).at + 1>>).include = Last(s).name
  BY <1>1, StackFront
<1>3. PICK n \in 0..Depth : n = Len(s)
  BY StackDepth
<1>4. n \in Nat /\ n # 0 /\ n - 1 \in Nat /\ Depth - n \in Nat /\ Depth - n + 1 <= Depth
  BY <1>3, LastIs, DepthIsNat
<1>5. /\ Len(r) = n - 1
      /\ \A i \in 1..n - 1 : r[i] = s[i]
  BY <1>1, <1>3, FrontIs
<1>6. OneMore(r, s)
  BY <1>3, <1>4, <1>5 DEF OneMore
<1>7. Below(s) = Depth - n /\ Below(r) = Depth - n + 1
  BY <1>3, <1>4, <1>5, DepthIsNat DEF Below
<1>8. PICK name \in DOMAIN File : /\ name = Last(s).name /\ Last(s).at = Len(File[name].steps)
  <2>1. Last(s) \in FrameType /\ Last(s) = s[n] /\ n \in 1..n
    BY <1>3, <1>4, LastIs
  <2>2. Last(s).at <= Len(File[Last(s).name].steps)
    BY <1>3, <2>1 DEF StackOk
  <2>3. Last(s).name \in DOMAIN File /\ Last(s).at \in Nat /\ Len(File[Last(s).name].steps) \in Nat
    BY <2>1, StepsAreMany DEF FrameType
  <2> QED
    BY <2>2, <2>3
<1>9. /\ FoundIn(name, Len(File[name].steps), Depth - n) = StepsTo[Depth - n + 1][name]
      /\ MetIn(name, Len(File[name].steps), Depth - n) = MetTo[Depth - n + 1][name]
  BY <1>4, FoundInAll
<1>10. /\ Found(s) = Found(r) \o StepsTo[Depth - n + 1][name]
       /\ MetSoFar(s) = MetSoFar(r) \o MetTo[Depth - n + 1][name]
  BY <1>2, <1>6, <1>7, <1>8, <1>9, PartsMore
<1>11. /\ Found(StepDone(r)) = Found(r) \o NextFound(r)
       /\ MetSoFar(StepDone(r)) = MetSoFar(r) \o NextMet(r)
  BY <1>2, PartsLonger
<1>12. NextFound(r) = StepsTo[Depth - n + 1][name] /\ NextMet(r) = MetTo[Depth - n + 1][name]
  BY <1>2, <1>7, <1>8, NextIsInclude
<1> QED
  BY <1>1, <1>10, <1>11, <1>12

LEMMA FoundSingle ==
    ASSUME NEW s \in Seq(FrameType), StackOk(s), Len(s) = 1
    PROVE  /\ Found(s) = FoundIn(s[1].name, s[1].at, Depth - 1)
           /\ MetSoFar(s) = MetIn(s[1].name, s[1].at, Depth - 1)
<1>1. Len(FoundParts(s)) = 1 /\ Len(MetParts(s)) = 1
  BY PartsType
<1>2. ASSUME NEW t, Len(t) = 1 PROVE FlattenSeq(t) = t[1]
  <2>0. Len(t) \in Nat /\ Len(t) # 0
    BY <1>2
  <2>4. PICK f : IsFlat(f, t, Len(t)) /\ FlattenSeq(t) = f[Len(t)]
    BY <2>0, FlattenIsFlat
  <2>1. IsFlat(f, t, 1) /\ FlattenSeq(t) = f[1]
    BY <1>2, <2>4
  <2>2. PICK i \in 1..1 : i = 1
    OBVIOUS
  <2>3. f[i] = IF i = 1 THEN t[i] ELSE f[i - 1] \o t[i]
    BY <2>1, FlatAt
  <2> QED
    BY <2>1, <2>2, <2>3
<1>3. PICK j \in 1..Len(s) : j = 1
  OBVIOUS
<1>4. /\ FoundParts(s)[j] = FoundIn(s[j].name, s[j].at, Depth - j)
      /\ MetParts(s)[j] = MetIn(s[j].name, s[j].at, Depth - j)
  BY PartIs
<1> QED
  BY <1>1, <1>2, <1>3, <1>4 DEF Found, MetSoFar

\* ... begins with a file, and ends with it.
LEMMA FoundStarts ==
    ASSUME NEW name \in DOMAIN File
    PROVE  Found(<<Frame(name)>>) = <<>> /\ MetSoFar(<<Frame(name)>>) = <<name>>
<1>1. PICK s \in Seq(FrameType) : s = <<Frame(name)>> /\ StackOk(s)
  BY StackNew
<1>2. Len(s) = 1 /\ s[1] = Frame(name)
  BY <1>1
<1>3. s[1].name = name /\ s[1].at = 0
  BY <1>2 DEF Frame
<1>4. /\ Found(s) = FoundIn(s[1].name, s[1].at, Depth - 1)
      /\ MetSoFar(s) = MetIn(s[1].name, s[1].at, Depth - 1)
  BY <1>1, <1>2, FoundSingle
<1> QED
  BY <1>1, <1>3, <1>4, FoundInNone

LEMMA FoundEnds ==
    ASSUME NEW s \in Seq(FrameType), s # <<>>, StackOk(s), Len(s) = 1,
           ~(Last(s).at < Len(File[Last(s).name].steps))
    PROVE  /\ s[1].name \in DOMAIN File
           /\ Found(s) = StepsOf(s[1].name) /\ MetSoFar(s) = Met(s[1].name)
<1>1. Last(s) = s[1] /\ s[1] \in FrameType /\ s[1].at <= Len(File[s[1].name].steps)
  BY LastIs DEF StackOk
<1>2. PICK name \in DOMAIN File : name = s[1].name /\ s[1].at = Len(File[name].steps)
  <2>1. s[1].name \in DOMAIN File /\ s[1].at \in Nat
    BY <1>1 DEF FrameType
  <2>2. Len(File[s[1].name].steps) \in Nat
    BY <2>1, StepsAreMany
  <2> QED
    BY <1>1, <2>1, <2>2
<1>3. PICK d \in Nat : d = Depth - 1 /\ d + 1 = Depth
  BY StackDepth, DepthIsNat
<1>4. /\ FoundIn(name, Len(File[name].steps), d) = StepsTo[d + 1][name]
      /\ MetIn(name, Len(File[name].steps), d) = MetTo[d + 1][name]
  BY <1>3, FoundInAll
<1>5. /\ Found(s) = FoundIn(s[1].name, s[1].at, Depth - 1)
      /\ MetSoFar(s) = MetIn(s[1].name, s[1].at, Depth - 1)
  BY FoundSingle
<1> QED
  BY <1>2, <1>3, <1>4, <1>5 DEF StepsOf, Met

-----------------------------------------------------------------------------
(* The first file decides.                                                 *)

Own(name) == Flattened(File[name].context)

\* FirstDecides() by the names of the files
FirstOf(context, met) ==
    /\ DOMAIN context = UNION {DOMAIN Own(met[k]) : k \in DOMAIN met}
    /\ \A k \in DOMAIN met : \A v \in DOMAIN Own(met[k]) :
         (\A j \in 1..k - 1 : v \notin DOMAIN Own(met[j])) => context[v] = Own(met[k])[v]

LEMMA FirstIs == \A context, met : FirstDecides(context, met) <=> FirstOf(context, met)
  BY DEF FirstDecides, FirstOf, Own

LEMMA FirstAlone ==
    ASSUME NEW name \in DOMAIN File
    PROVE  FirstDecides(Flattened(File[name].context), <<name>>)
<1>0. PICK met \in Seq({name}) : met = <<name>> /\ Len(met) = 1
  BY SingleSeq
<1>1. DOMAIN met = 1..1
  BY <1>0, LenProperties
<1>2. \A k \in DOMAIN met : met[k] = name
  <2>1. ASSUME NEW k \in 1..Len(met) PROVE met[k] \in {name}
    BY ElementOfSeq
  <2> QED
    BY <1>0, <1>1, <2>1
<1>3. DOMAIN Own(name) = UNION {DOMAIN Own(met[k]) : k \in DOMAIN met}
  <2>1. 1 \in DOMAIN met
    BY <1>1
  <2>2. \A k \in DOMAIN met : DOMAIN Own(met[k]) = DOMAIN Own(name)
    BY <1>2
  <2> QED
    BY <2>1, <2>2
<1>4. FirstOf(Own(name), met)
  BY <1>2, <1>3 DEF FirstOf
<1> QED
  BY <1>0, <1>4, FirstIs DEF Own

LEMMA FirstMerged ==
    ASSUME NEW context, NEW met \in Seq(DOMAIN File), FirstDecides(context, met),
           NEW name \in DOMAIN File
    PROVE  FirstDecides(Merged(context, File[name].context), Append(met, name))
<1> DEFINE c == Merged(context, File[name].context)
           D == DOMAIN context
           E == DOMAIN Own(name)
<1>1. PICK n \in Nat : n = Len(met) /\ DOMAIN met = 1..n
  BY LenProperties
<1>2. PICK m : /\ m = Append(met, name) /\ DOMAIN m = 1..n + 1
               /\ \A i \in 1..n : m[i] = met[i]
               /\ m[n + 1] = name
  <2>1. PICK m \in Seq(DOMAIN File) : m = Append(met, name) /\ Len(m) = n + 1
    BY <1>1, AppendIs
  <2>2. (\A i \in 1..n : m[i] = met[i]) /\ (\A i \in 1..n + 1 : i = n + 1 => m[i] = name)
    BY <1>1, <2>1, AppendIs
  <2> QED
    BY <2>1, <2>2, LenProperties
<1>3. FirstOf(context, met)
  BY FirstIs
<1>4. c = [x \in D \union E |-> IF x \in D THEN context[x] ELSE Own(name)[x]]
  BY DEF Merged, Filled, Own
<1>5. DOMAIN c = D \union E
  BY <1>4
<1>6. \A x \in D : c[x] = context[x]
  BY <1>4
<1>7. \A x \in E : x \notin D => c[x] = Own(name)[x]
  BY <1>4
<1> HIDE DEF c
<1>8. D = UNION {DOMAIN Own(met[k]) : k \in 1..n}
  BY <1>1, <1>3 DEF FirstOf
<1> HIDE DEF D, E
<1>9. DOMAIN c = UNION {DOMAIN Own(m[k]) : k \in 1..n + 1}
  <2>1. \A x : x \in D <=> \E k \in 1..n : x \in DOMAIN Own(met[k])
    BY <1>8
  <2>2. \A x : x \in D <=> \E k \in 1..n : x \in DOMAIN Own(m[k])
    BY <1>2, <2>1
  <2>3. \A x : x \in E <=> x \in DOMAIN Own(m[n + 1])
    BY <1>2 DEF E
  <2>4. \A k : k \in 1..n + 1 <=> k \in 1..n \/ k = n + 1
    OBVIOUS
  <2>5. \A x : x \in D \union E <=> \E k \in 1..n + 1 : x \in DOMAIN Own(m[k])
    BY <2>2, <2>3, <2>4, Zenon
  <2>6. \A x : x \in D \union E <=> x \in UNION {DOMAIN Own(m[k]) : k \in 1..n + 1}
    BY <2>5, Zenon
  <2> QED
    BY <1>5, <2>6
<1>10. ASSUME NEW k \in 1..n + 1, NEW v \in DOMAIN Own(m[k]),
              \A j \in 1..k - 1 : v \notin DOMAIN Own(m[j])
       PROVE  c[v] = Own(m[k])[v]
  <2>1. CASE k = n + 1
    <3>1. m[k] = name /\ k - 1 = n
      BY <1>2, <2>1
    <3>2. \A j \in 1..n : v \notin DOMAIN Own(met[j])
      BY <1>2, <1>10, <3>1
    <3>3. v \notin D
      BY <1>8, <3>2
    <3>4. v \in E
      BY <1>10, <3>1 DEF E
    <3> QED
      BY <1>7, <3>1, <3>3, <3>4
  <2>2. CASE k # n + 1
    <3>1. k \in 1..n /\ m[k] = met[k] /\ 1..k - 1 \subseteq 1..n
      BY <1>2, <2>2
    <3>2. \A j \in 1..k - 1 : v \notin DOMAIN Own(met[j])
      BY <1>2, <1>10, <3>1
    <3>3. context[v] = Own(met[k])[v]
      BY <1>1, <1>3, <1>10, <3>1, <3>2 DEF FirstOf
    <3>4. v \in D
      BY <1>8, <1>10, <3>1
    <3> QED
      BY <1>6, <3>1, <3>3, <3>4
  <2> QED
    BY <2>1, <2>2
<1>11. FirstOf(c, m)
  BY <1>2, <1>9, <1>10 DEF FirstOf
<1> QED
  BY <1>2, <1>11, FirstIs DEF c

-----------------------------------------------------------------------------
(* The names of lines, and the calls that block among them.                *)

Sized(s, n) == n \in Nat /\ n = Len(s) /\ DOMAIN s = 1..n

Concat(u, s, m, t, n) ==
    /\ u = s \o t /\ Len(u) = m + n /\ DOMAIN u = 1..m + n
    /\ \A i \in 1..m + n : u[i] = IF i <= m THEN s[i] ELSE t[i - m]

LEMMA SizedIs == ASSUME NEW S, NEW s \in Seq(S) PROVE \E n \in Nat : Sized(s, n)
  BY LenProperties DEF Sized

LEMMA ConcatIs ==
    ASSUME NEW S, NEW s \in Seq(S), NEW t \in Seq(S), NEW m, NEW n, Sized(s, m), Sized(t, n)
    PROVE  \E u \in Seq(S) : Concat(u, s, m, t, n)
<1>0. m = Len(s) /\ n = Len(t)
  BY DEF Sized
<1>1. PICK u \in Seq(S) : u = s \o t
  BY ConcatProperties
<1>2. Len(u) = Len(s) + Len(t)
  BY <1>1, ConcatProperties
<1>3. ASSUME NEW i \in 1..Len(s) + Len(t)
      PROVE  u[i] = IF i <= Len(s) THEN s[i] ELSE t[i - Len(s)]
  BY <1>1, ConcatProperties
<1>4. DOMAIN u = 1..Len(u)
  BY LenProperties
<1>5. Len(u) = m + n /\ DOMAIN u = 1..m + n
  BY <1>0, <1>2, <1>4
<1>6. \A i \in 1..m + n : u[i] = IF i <= m THEN s[i] ELSE t[i - m]
  BY <1>0, <1>3
<1> QED
  BY <1>1, <1>5, <1>6 DEF Concat

NamesOf(lines) == [k \in DOMAIN lines |-> lines[k].name]
CallsIn(lines) == {k \in DOMAIN lines : lines[k].blocking}

LEMMA NamesType ==
    ASSUME NEW s \in Seq(LineType)
    PROVE  /\ NamesOf(s) \in Seq(StepNames) /\ Len(NamesOf(s)) = Len(s)
           /\ \A i \in 1..Len(s) : NamesOf(s)[i] = s[i].name
<1>1. PICK n \in Nat : n = Len(s) /\ DOMAIN s = 1..n
  BY LenProperties
<1>2. ASSUME NEW i \in 1..n PROVE s[i].name \in StepNames
  <2>1. s[i] \in LineType
    BY <1>1, ElementOfSeq
  <2> QED
    BY <2>1 DEF LineType
<1> DEFINE t == [k \in 1..n |-> s[k].name]
<1>3. t \in [1..n -> StepNames]
  BY <1>2
<1>4. \A i \in 1..n : t[i] = s[i].name
  OBVIOUS
<1>5. NamesOf(s) = t
  BY <1>1 DEF NamesOf
<1> HIDE DEF t
<1>6. t \in Seq(StepNames) /\ Len(t) = n
  BY <1>3, FunctionIsSeq
<1> QED
  BY <1>1, <1>4, <1>5, <1>6

LEMMA NamesConcat ==
    ASSUME NEW s \in Seq(LineType), NEW t \in Seq(LineType)
    PROVE  NamesOf(s \o t) = NamesOf(s) \o NamesOf(t)
<1>0. PICK m \in Nat, n \in Nat : Sized(s, m) /\ Sized(t, n)
  BY SizedIs
<1>1. m = Len(s) /\ n = Len(t)
  BY <1>0 DEF Sized
<1>2. PICK u \in Seq(LineType) : Concat(u, s, m, t, n)
  BY <1>0, ConcatIs
<1>9. /\ u = s \o t /\ Len(u) = m + n
      /\ \A i \in 1..m + n : u[i] = IF i <= m THEN s[i] ELSE t[i - m]
  BY <1>2 DEF Concat
<1>3. PICK a \in Seq(StepNames) :
        a = NamesOf(s) /\ Len(a) = m /\ \A i \in 1..m : a[i] = s[i].name
  BY <1>1, NamesType
<1>4. PICK b \in Seq(StepNames) :
        b = NamesOf(t) /\ Len(b) = n /\ \A i \in 1..n : b[i] = t[i].name
  BY <1>1, NamesType
<1>5. PICK c \in Seq(StepNames) :
        c = NamesOf(u) /\ Len(c) = m + n /\ \A i \in 1..m + n : c[i] = u[i].name
  BY <1>9, NamesType
<1>10. Sized(a, m) /\ Sized(b, n)
  BY <1>3, <1>4, LenProperties DEF Sized
<1>11. PICK d \in Seq(StepNames) : Concat(d, a, m, b, n)
  BY <1>10, ConcatIs
<1>6. /\ d = a \o b /\ Len(d) = m + n
      /\ \A i \in 1..m + n : d[i] = IF i <= m THEN a[i] ELSE b[i - m]
  BY <1>11 DEF Concat
<1>7. ASSUME NEW i \in 1..m + n PROVE c[i] = d[i]
  <2>1. CASE i <= m
    <3>1. i \in 1..m
      BY <2>1
    <3>2. c[i] = s[i].name /\ d[i] = a[i]
      BY <1>9, <1>5, <1>6, <2>1
    <3> QED
      BY <1>3, <3>1, <3>2
  <2>2. CASE ~(i <= m)
    <3>1. PICK j \in 1..n : j = i - m
      BY <2>2
    <3>2. c[i] = t[j].name /\ d[i] = b[j]
      BY <1>9, <1>5, <1>6, <2>2, <3>1
    <3> QED
      BY <1>4, <3>1, <3>2
  <2> QED
    BY <2>1, <2>2
<1>8. c = d
  BY <1>5, <1>6, <1>7, SeqEqual
<1> QED
  BY <1>9, <1>3, <1>4, <1>5, <1>6, <1>8

LEMMA NamesAppend ==
    ASSUME NEW s \in Seq(LineType), NEW line \in LineType
    PROVE  NamesOf(Append(s, line)) = NamesOf(s) \o <<line.name>>
<1>1. <<line>> \in Seq(LineType) /\ Len(<<line>>) = 1
  BY SingleSeq
<1>2. Append(s, line) = s \o <<line>>
  BY AppendIsConcat
<1>3. NamesOf(<<line>>) = <<line.name>>
  <2>1. PICK b \in Seq(StepNames) :
          b = NamesOf(<<line>>) /\ Len(b) = 1 /\ \A i \in 1..1 : b[i] = <<line>>[i].name
    BY <1>1, NamesType
  <2>2. line.name \in StepNames
    BY DEF LineType
  <2>3. <<line.name>> \in Seq(StepNames) /\ Len(<<line.name>>) = 1
    BY <2>2, SingleSeq
  <2>4. \A i \in 1..1 : b[i] = <<line.name>>[i]
    BY <2>1
  <2> QED
    BY <2>1, <2>3, <2>4, SeqEqual
<1> QED
  BY <1>1, <1>2, <1>3, NamesConcat

LEMMA CallsFinite ==
    ASSUME NEW s \in Seq(LineType)
    PROVE  IsFiniteSet(CallsIn(s)) /\ Cardinality(CallsIn(s)) \in Nat
<1>1. PICK n \in Nat : DOMAIN s = 1..n
  BY LenProperties
<1>2. CallsIn(s) \in SUBSET (1..n) /\ IsFiniteSet(1..n)
  BY <1>1, FS_Interval DEF CallsIn
<1>3. IsFiniteSet(CallsIn(s))
  BY <1>2, FS_Subset
<1> QED
  BY <1>3, FS_CardinalityType

LEMMA CallsNone == Cardinality(CallsIn(<<>>)) = 0
<1>1. CallsIn(<<>>) = {}
  BY DEF CallsIn
<1> QED
  BY <1>1, FS_EmptySet

\* the calls of both sequences, those of the second further back
LEMMA CallsConcat ==
    ASSUME NEW s \in Seq(LineType), NEW t \in Seq(LineType)
    PROVE  Cardinality(CallsIn(s \o t)) = Cardinality(CallsIn(s)) + Cardinality(CallsIn(t))
<1>0. PICK m \in Nat, n \in Nat : Sized(s, m) /\ Sized(t, n)
  BY SizedIs
<1>1. DOMAIN s = 1..m /\ DOMAIN t = 1..n
  BY <1>0 DEF Sized
<1>11. PICK u \in Seq(LineType) : Concat(u, s, m, t, n)
  BY <1>0, ConcatIs
<1>2. /\ u = s \o t /\ DOMAIN u = 1..m + n
      /\ \A i \in 1..m + n : u[i] = IF i <= m THEN s[i] ELSE t[i - m]
  BY <1>11 DEF Concat
<1> DEFINE A == CallsIn(s)
           B == CallsIn(t)
           C == {k + m : k \in B}
           f == [k \in B |-> k + m]
<1>3. IsFiniteSet(A) /\ IsFiniteSet(B)
  BY CallsFinite
<1>4. A \subseteq 1..m /\ B \subseteq 1..n
  BY <1>1 DEF CallsIn
<1>5. CallsIn(u) = A \union C
  <2>1. ASSUME NEW i \in 1..m + n PROVE u[i].blocking <=> i \in A \union C
    <3>1. CASE i <= m
      <4>1. i \in 1..m /\ u[i] = s[i]
        BY <1>2, <3>1
      <4>2. i \notin C
        BY <1>4, <3>1
      <4> QED
        BY <1>1, <4>1, <4>2 DEF CallsIn
    <3>2. CASE ~(i <= m)
      <4>1. PICK j \in 1..n : j = i - m /\ i = j + m
        BY <3>2
      <4>2. u[i] = t[j]
        BY <1>2, <3>2, <4>1
      <4>3. i \notin A
        BY <1>4, <3>2
      <4>4. i \in C <=> j \in B
        BY <1>4, <4>1
      <4> QED
        BY <1>1, <4>1, <4>2, <4>3, <4>4 DEF CallsIn
    <3> QED
      BY <3>1, <3>2
  <2>2. A \union C \subseteq 1..m + n
    BY <1>4
  <2> QED
    BY <1>2, <2>1, <2>2 DEF CallsIn
<1>6. f \in Bijection(B, C)
  <2>1. f \in [B -> C]
    OBVIOUS
  <2>2. \A a, b \in B : f[a] = f[b] => a = b
    BY <1>4
  <2>3. \A c \in C : \E b \in B : f[b] = c
    OBVIOUS
  <2> QED
    BY <2>1, <2>2, <2>3 DEF Bijection, Injection, Surjection, IsInjective
<1>7. IsFiniteSet(C) /\ Cardinality(C) = Cardinality(B)
  BY <1>3, <1>6, FS_Bijection DEF ExistsBijection
<1>8. A \cap C = {}
  BY <1>4
<1>9. /\ Cardinality(A \union C) = Cardinality(A) + Cardinality(C) - Cardinality(A \cap C)
      /\ Cardinality(A \cap C) = 0
      /\ Cardinality(A) \in Nat /\ Cardinality(C) \in Nat
  BY <1>3, <1>7, <1>8, FS_Union, FS_EmptySet, FS_CardinalityType
<1> HIDE DEF A, B, C, f
<1>10. Cardinality(A \union C) = Cardinality(A) + Cardinality(B)
  BY <1>7, <1>9
<1> QED
  BY <1>2, <1>5, <1>10 DEF A, B

LEMMA CallsAppend ==
    ASSUME NEW s \in Seq(LineType), NEW line \in LineType
    PROVE  Cardinality(CallsIn(Append(s, line)))
             = Cardinality(CallsIn(s)) + IF line.blocking THEN 1 ELSE 0
<1>1. <<line>> \in Seq(LineType) /\ Append(s, line) = s \o <<line>>
  BY SingleSeq, AppendIsConcat
<1>2. DOMAIN <<line>> = {1} /\ <<line>>[1] = line
  OBVIOUS
<1>3. CallsIn(<<line>>) = IF line.blocking THEN {1} ELSE {}
  BY <1>2 DEF CallsIn
<1>4. Cardinality(CallsIn(<<line>>)) = IF line.blocking THEN 1 ELSE 0
  BY <1>3, FS_Singleton, FS_EmptySet
<1> QED
  BY <1>1, <1>4, CallsConcat

-----------------------------------------------------------------------------
(* What the reader has found and merged so far.                            *)

KeptAt(cfg, steps) ==
    [k \in 1..Len(steps) |->
        IF Ignored(cfg, StepAt(steps[k])) THEN <<>> ELSE <<StepAt(steps[k]).name>>]

\* one of the first n steps is ignored, and blocks
DroppedIn(cfg, steps, n) ==
    \E k \in 1..n : Ignored(cfg, StepAt(steps[k])) /\ Blocks(StepAt(steps[k]).async)

\* all calls among the lines were counted, and others only if some were dropped
CallsCounted(lines, count, dropped) ==
    /\ Cardinality(CallsIn(lines)) <= count
    /\ Cardinality(CallsIn(lines)) < count => dropped

Including(rd, f) ==
    /\ f.lines = <<>> /\ f.asyncSteps = 0 /\ f.name = rd.stack[1].name
    /\ rd.steps = Found(rd.stack)
    /\ FirstDecides(f.context, MetSoFar(rd.stack))

ParsedSoFar(cfg, rd, f) ==
    /\ f.name \in DOMAIN File /\ rd.steps = StepsOf(f.name)
    /\ FirstDecides(f.context, Met(f.name))
    /\ NamesOf(f.lines) = Upto(KeptAt(cfg, rd.steps), rd.at)
    /\ CallsCounted(f.lines, f.asyncSteps, DroppedIn(cfg, rd.steps, rd.at))

MergeOk(cfg, at, rd, f) ==
    /\ at = "include" => Including(rd, f)
    /\ at = "parse" => ParsedSoFar(cfg, rd, f)

ScenarioMerged(cfg, new) ==
    /\ new.name \in DOMAIN File
    /\ NamesOf(new.lines) = KeptNames(cfg, StepsOf(new.name))
    /\ FirstDecides(new.context, Met(new.name))

ScenarioDrops(cfg, new) == DroppedIn(cfg, StepsOf(new.name), Len(StepsOf(new.name)))

ListMerged(cfg, l) ==
    /\ \A i \in 1..Len(l.scenarios) : ScenarioMerged(cfg, l.scenarios[i])
    /\ CallsCounted(LinesOf(l), l.steps,
                    \E i \in 1..Len(l.scenarios) : ScenarioDrops(cfg, l.scenarios[i]))

MInv ==
    \A q \in Processes : MergeOk(config, pc[q], reading[q], file[q]) /\ ListMerged(config, list[q])

LEMMA MovedMerges ==
    ASSUME TInv, MInv, NEW p \in Processes, NEW at, NEW turn, NEW rd, NEW f, NEW l,
           Moved(p, at, turn, rd, f, l), MergeOk(config, at, rd, f), ListMerged(config, l)
    PROVE  MInv'
<1>1. /\ config' = config /\ pc'[p] = at /\ reading'[p] = rd /\ file'[p] = f /\ list'[p] = l
      /\ \A q \in Processes :
           q # p => /\ pc'[q] = pc[q] /\ reading'[q] = reading[q]
                    /\ file'[q] = file[q] /\ list'[q] = list[q]
  BY MovedAt DEF TInv, SameFile
<1>2. ASSUME NEW q \in Processes
      PROVE  MergeOk(config, pc'[q], reading'[q], file'[q]) /\ ListMerged(config, list'[q])
  <2>1. CASE q = p
    BY <1>1, <2>1
  <2>2. CASE q # p
    BY <1>1, <2>2 DEF MInv
  <2> QED
    BY <2>1, <2>2
<1> QED
  BY <1>1, <1>2 DEF MInv

LEMMA OpensMerges == ASSUME TInv, MInv, NEW p \in Processes, Opens(p) PROVE MInv'
<1>1. PICK name \in DOMAIN File :
        /\ pc[p] = "open"
        /\ Moved(p, "include", loading[p], [reading[p] EXCEPT !.stack = <<Frame(name)>>],
                 NewFile(name, Flattened(File[name].context)), list[p])
  BY DEF Opens
<1> DEFINE rd == [reading[p] EXCEPT !.stack = <<Frame(name)>>]
           f == NewFile(name, Flattened(File[name].context))
<1>2. rd.stack = <<Frame(name)>> /\ rd.steps = <<>>
  <2>1. reading[p] = NotReading
    BY <1>1, StageAt DEF Stage
  <2> QED
    BY <2>1 DEF NotReading
<1>3. /\ f.lines = <<>> /\ f.asyncSteps = 0 /\ f.name = name
      /\ f.context = Flattened(File[name].context)
  BY DEF NewFile
<1>4. rd.stack[1].name = name
  BY <1>2 DEF Frame
<1>5. FirstDecides(f.context, MetSoFar(rd.stack))
  BY <1>2, <1>3, FoundStarts, FirstAlone
<1>6. rd.steps = Found(rd.stack)
  BY <1>2, FoundStarts
<1> HIDE DEF rd, f
<1>7. MergeOk(config, "include", rd, f)
  BY <1>3, <1>4, <1>5, <1>6 DEF MergeOk, Including
<1>8. ListMerged(config, list[p])
  BY DEF MInv
<1> QED
  BY <1>1, <1>7, <1>8, MovedMerges DEF rd, f

LEMMA IncludingIs ==
    ASSUME MInv, NEW p \in Processes, pc[p] = "include"
    PROVE  Including(reading[p], file[p]) /\ ListMerged(config, list[p])
  BY DEF MInv, MergeOk

LEMMA TakesMerges == ASSUME TInv, MInv, NEW p \in Processes, Takes(p) PROVE MInv'
<1> DEFINE s == reading[p].stack
           rd == [reading[p] EXCEPT !.steps = Append(@, NextAt(p)), !.stack = StepDone(@)]
<1>1. pc[p] = "include" /\ HasNext(p) /\ StepAt(NextAt(p)).include = ""
  BY DEF Takes
<1>2. /\ s \in Seq(FrameType) /\ s # <<>> /\ StackOk(s)
      /\ Last(s).at < Len(File[Last(s).name].steps)
      /\ NextAt(p) = <<Last(s).name, Last(s).at + 1>>
  BY <1>1, TopIs DEF HasNext, NextAt
<1>3. Including(reading[p], file[p]) /\ ListMerged(config, list[p])
  BY <1>1, IncludingIs
<1>4. rd.stack = StepDone(s) /\ rd.steps = Append(reading[p].steps, NextAt(p))
  <2>1. reading[p] \in ReadingType
    BY TypesAt DEF TInv
  <2> QED
    BY <2>1 DEF ReadingType
<1> HIDE DEF rd, s
<1>5. Found(StepDone(s)) = Append(Found(s), NextAt(p)) /\ MetSoFar(StepDone(s)) = MetSoFar(s)
  BY <1>1, <1>2, FoundTakes
<1>6. StepDone(s)[1].name = s[1].name
  <2>1. 1 \in 1..Len(s)
    BY <1>2, LastIs
  <2> QED
    BY <1>2, <2>1, StepDoneIs
<1>7. Including(rd, file[p])
  BY <1>3, <1>4, <1>5, <1>6 DEF Including, s
<1>8. Moved(p, "include", loading[p], rd, file[p], list[p])
  BY DEF Takes, rd
<1>9. MergeOk(config, "include", rd, file[p])
  BY <1>7 DEF MergeOk
<1> QED
  BY <1>3, <1>8, <1>9, MovedMerges

LEMMA EntersMerges == ASSUME TInv, MInv, NEW p \in Processes, Enters(p) PROVE MInv'
<1>1. PICK name \in DOMAIN File :
        /\ pc[p] = "include" /\ HasNext(p) /\ name = StepAt(NextAt(p)).include
        /\ NotIn(name, reading[p].stack)
        /\ Moved(p, "include", loading[p], [reading[p] EXCEPT !.stack = Append(@, Frame(name))],
                 [file[p] EXCEPT !.context = Merged(@, File[name].context)], list[p])
  BY DEF Enters
<1> DEFINE s == reading[p].stack
           rd == [reading[p] EXCEPT !.stack = Append(@, Frame(name))]
           f == [file[p] EXCEPT !.context = Merged(@, File[name].context)]
<1>2. /\ s \in Seq(FrameType) /\ s # <<>> /\ StackOk(s)
      /\ Last(s).at < Len(File[Last(s).name].steps)
      /\ NextAt(p) = <<Last(s).name, Last(s).at + 1>>
  BY <1>1, TopIs DEF HasNext, NextAt
<1>3. Including(reading[p], file[p]) /\ ListMerged(config, list[p])
  BY <1>1, IncludingIs
<1>4. rd.stack = Append(s, Frame(name)) /\ rd.steps = reading[p].steps
  <2>1. reading[p] \in ReadingType
    BY TypesAt DEF TInv
  <2> QED
    BY <2>1 DEF ReadingType
<1>5. /\ f.lines = file[p].lines /\ f.asyncSteps = file[p].asyncSteps /\ f.name = file[p].name
      /\ f.context = Merged(file[p].context, File[name].context)
  <2>1. file[p] \in FileType
    BY TypesAt DEF TInv
  <2> QED
    BY <2>1 DEF FileType
<1>6. Append(s, Frame(name)) \in Seq(FrameType) /\ StackOk(Append(s, Frame(name)))
  BY <1>1, <1>2, StackMore
<1> HIDE DEF rd, f
<1>7. /\ Found(Append(s, Frame(name))) = Found(s)
      /\ MetSoFar(Append(s, Frame(name))) = Append(MetSoFar(s), name)
  BY <1>2, <1>6, FoundEnters
<1>8. Append(s, Frame(name))[1] = s[1]
  <2>1. 1 \in 1..Len(s) /\ Frame(name) \in FrameType
    BY <1>2, LastIs DEF Frame, FrameType
  <2> QED
    BY <1>2, <2>1, AppendIs
<1>9. FirstDecides(f.context, MetSoFar(rd.stack))
  <2>1. MetSoFar(s) \in Seq(DOMAIN File)
    BY <1>2, PartsType
  <2>2. FirstDecides(file[p].context, MetSoFar(s))
    BY <1>3 DEF Including
  <2> QED
    BY <1>4, <1>5, <1>7, <2>1, <2>2, FirstMerged
<1>10. Including(rd, f)
  BY <1>3, <1>4, <1>5, <1>7, <1>8, <1>9 DEF Including
<1>11. MergeOk(config, "include", rd, f)
  BY <1>10 DEF MergeOk
<1> QED
  BY <1>1, <1>3, <1>11, MovedMerges DEF rd, f

LEMMA LeavesMerges == ASSUME TInv, MInv, NEW p \in Processes, Returns(p) PROVE MInv'
<1> DEFINE s == reading[p].stack
           rd == [reading[p] EXCEPT !.stack = StepDone(Front(@))]
<1>1. pc[p] = "include" /\ ~HasNext(p) /\ Len(s) # 1
  BY DEF Returns
<1>2. /\ s \in Seq(FrameType) /\ s # <<>> /\ StackOk(s)
      /\ ~(Last(s).at < Len(File[Last(s).name].steps))
  BY <1>1, TopIs DEF HasNext
<1>3. Including(reading[p], file[p]) /\ ListMerged(config, list[p])
  BY <1>1, IncludingIs
<1>4. rd.stack = StepDone(Front(s)) /\ rd.steps = reading[p].steps
  <2>1. reading[p] \in ReadingType
    BY TypesAt DEF TInv
  <2> QED
    BY <2>1 DEF ReadingType
<1> HIDE DEF rd, s
<1>5. /\ Found(StepDone(Front(s))) = Found(s) /\ MetSoFar(StepDone(Front(s))) = MetSoFar(s)
  BY <1>1, <1>2, FoundLeaves
<1>6. StepDone(Front(s))[1].name = s[1].name
  <2>1. /\ Front(s) \in Seq(FrameType) /\ Front(s) # <<>> /\ Len(Front(s)) = Len(s) - 1
        /\ Len(s) \in Nat \ {0} /\ \A i \in 1..Len(s) - 1 : Front(s)[i] = s[i]
    BY <1>1, <1>2, LastIs, FrontIs, StackFront
  <2>2. 1 \in 1..Len(Front(s)) /\ 1 \in 1..Len(s) - 1
    BY <1>1, <2>1
  <2>3. StepDone(Front(s))[1].name = Front(s)[1].name
    BY <2>1, <2>2, StepDoneIs
  <2> QED
    BY <2>1, <2>2, <2>3
<1>7. Including(rd, file[p])
  BY <1>3, <1>4, <1>5, <1>6 DEF Including, s
<1>8. Moved(p, "include", loading[p], rd, file[p], list[p])
  BY DEF Returns, rd
<1>9. MergeOk(config, "include", rd, file[p])
  BY <1>7 DEF MergeOk
<1> QED
  BY <1>3, <1>8, <1>9, MovedMerges

LEMMA EndsMerges == ASSUME TInv, MInv, NEW p \in Processes, Ends(p) PROVE MInv'
<1> DEFINE s == reading[p].stack
           rd == [reading[p] EXCEPT !.stack = <<>>]
<1>1. pc[p] = "include" /\ ~HasNext(p) /\ Len(s) = 1
  BY DEF Ends
<1>2. /\ s \in Seq(FrameType) /\ s # <<>> /\ StackOk(s) /\ reading[p].at = 0
      /\ ~(Last(s).at < Len(File[Last(s).name].steps))
  BY <1>1, TopIs DEF HasNext
<1>3. Including(reading[p], file[p]) /\ ListMerged(config, list[p])
  BY <1>1, IncludingIs
<1>4. rd.steps = reading[p].steps /\ rd.at = 0
  <2>1. reading[p] \in ReadingType
    BY TypesAt DEF TInv
  <2> QED
    BY <1>2, <2>1 DEF ReadingType
<1>5. file[p].name = s[1].name /\ file[p].lines = <<>> /\ file[p].asyncSteps = 0
  BY <1>3 DEF Including
<1> HIDE DEF rd, s
<1>6. s[1].name \in DOMAIN File /\ Found(s) = StepsOf(s[1].name) /\ MetSoFar(s) = Met(s[1].name)
  BY <1>1, <1>2, FoundEnds
<1>7. file[p].name \in DOMAIN File /\ rd.steps = StepsOf(file[p].name)
      /\ FirstDecides(file[p].context, Met(file[p].name))
  BY <1>3, <1>4, <1>5, <1>6 DEF Including, s
<1>8. NamesOf(file[p].lines) = <<>>
  <2>1. NamesOf(<<>>) = <<>>
    BY DEF NamesOf
  <2> QED
    BY <1>5, <2>1
<1>9. NamesOf(file[p].lines) = Upto(KeptAt(config, rd.steps), rd.at)
  BY <1>4, <1>8, UptoNone
<1>10. CallsCounted(file[p].lines, file[p].asyncSteps, DroppedIn(config, rd.steps, rd.at))
  BY <1>5, CallsNone DEF CallsCounted
<1>11. MergeOk(config, "parse", rd, file[p])
  BY <1>7, <1>9, <1>10 DEF MergeOk, ParsedSoFar
<1>12. Moved(p, "parse", loading[p], rd, file[p], list[p])
  BY DEF Ends, rd
<1> QED
  BY <1>3, <1>11, <1>12, MovedMerges

\* the names that are kept, one step further
LEMMA KeptMore ==
    ASSUME NEW cfg, NEW steps \in Seq(Places), NEW at \in Nat, at + 1 \in 1..Len(steps),
           NEW step, step = StepAt(steps[at + 1])
    PROVE  /\ Upto(KeptAt(cfg, steps), at) \in Seq(StepNames)
           /\ Upto(KeptAt(cfg, steps), at + 1)
                = IF Ignored(cfg, step) THEN Upto(KeptAt(cfg, steps), at)
                  ELSE Upto(KeptAt(cfg, steps), at) \o <<step.name>>
<1>1. PICK n \in Nat : n = Len(steps) /\ at + 1 \in 1..n
  BY LenProperties
<1> DEFINE g == KeptAt(cfg, steps)
<1>2. ASSUME NEW k \in 1..n
      PROVE  /\ g[k] \in Seq(StepNames)
             /\ g[k] = IF Ignored(cfg, StepAt(steps[k])) THEN <<>> ELSE <<StepAt(steps[k]).name>>
  <2>1. steps[k] \in Places
    BY <1>1, ElementOfSeq
  <2>2. StepAt(steps[k]).name \in StepNames
    BY <2>1 DEF StepNames
  <2>3. <<>> \in Seq(StepNames) /\ <<StepAt(steps[k]).name>> \in Seq(StepNames)
    BY <2>2, SingleSeq
  <2>4. g[k] = IF Ignored(cfg, StepAt(steps[k])) THEN <<>> ELSE <<StepAt(steps[k]).name>>
    BY <1>1 DEF KeptAt
  <2> QED
    BY <2>3, <2>4
<1> HIDE DEF g
<1>3. (\A k \in 1..at : g[k] \in Seq(StepNames)) /\ \A k \in 1..at + 1 : g[k] \in Seq(StepNames)
  <2>1. (\A k \in 1..at : k \in 1..n) /\ \A k \in 1..at + 1 : k \in 1..n
    BY <1>1
  <2>2. \A k \in 1..n : g[k] \in Seq(StepNames)
    BY <1>2
  <2> QED
    BY <2>1, <2>2
<1>4. PICK u \in Seq(StepNames) : u = Upto(g, at)
  BY <1>3, UptoType
<1>5. Upto(g, at + 1) = u \o g[at + 1]
  BY <1>3, <1>4, UptoMore
<1>6. g[at + 1] = IF Ignored(cfg, step) THEN <<>> ELSE <<step.name>>
  BY <1>1, <1>2
<1>7. u \o <<>> = u
  BY ConcatEmptySeq
<1> QED
  BY <1>4, <1>5, <1>6, <1>7 DEF g

LEMMA ParsingIs ==
    ASSUME TInv, MInv, NEW p \in Processes, Parsing(p)
    PROVE  /\ ParsedSoFar(config, reading[p], file[p]) /\ ListMerged(config, list[p])
           /\ LET rd == [reading[p] EXCEPT !.at = @ + 1]
              IN  rd.at = reading[p].at + 1 /\ rd.steps = reading[p].steps
<1>1. pc[p] = "parse" /\ reading[p] \in ReadingType
  BY TypesAt DEF TInv, Parsing
<1>2. ParsedSoFar(config, reading[p], file[p]) /\ ListMerged(config, list[p])
  BY <1>1 DEF MInv, MergeOk
<1>3. LET rd == [reading[p] EXCEPT !.at = @ + 1]
      IN  rd.at = reading[p].at + 1 /\ rd.steps = reading[p].steps
  BY <1>1 DEF ReadingType
<1> QED
  BY <1>2, <1>3

\* the steps that were dropped remain so
LEMMA DroppedMore ==
    ASSUME NEW cfg, NEW steps, NEW at \in Nat
    PROVE  /\ DroppedIn(cfg, steps, at) => DroppedIn(cfg, steps, at + 1)
           /\ Ignored(cfg, StepAt(steps[at + 1])) /\ Blocks(StepAt(steps[at + 1]).async)
                => DroppedIn(cfg, steps, at + 1)
<1>1. at + 1 \in 1..at + 1 /\ 1..at \subseteq 1..at + 1
  OBVIOUS
<1> QED
  BY <1>1 DEF DroppedIn

LEMMA IgnoresMerges == ASSUME TInv, MInv, NEW p \in Processes, Ignores(p) PROVE MInv'
<1> DEFINE rd == [reading[p] EXCEPT !.at = @ + 1]
           f == CountCall(file[p], Parsed(p).async)
<1>1. /\ Parsing(p) /\ Ignored(config, Parsed(p))
      /\ Moved(p, "parse", loading[p], rd, f, list[p])
  BY DEF Ignores
<1>2. PICK at \in Nat, steps \in Seq(Places) : at = reading[p].at /\ steps = reading[p].steps
                                               /\ at + 1 \in 1..Len(steps)
  BY <1>1, ParsedIs
<1>3. PICK place \in Places : place = steps[at + 1] /\ Parsed(p) = StepAt(place)
  BY <1>1, <1>2, LineMadeIs
<1>4. ParsedSoFar(config, reading[p], file[p]) /\ ListMerged(config, list[p])
      /\ rd.at = at + 1 /\ rd.steps = steps
  BY <1>1, <1>2, ParsingIs
<1>5. file[p] \in FileType
  BY TypesAt DEF TInv
<1>6. /\ f \in FileType /\ f.lines = file[p].lines /\ f.name = file[p].name
      /\ f.context = file[p].context
      /\ Blocks(StepAt(place).async) => f.asyncSteps = file[p].asyncSteps + 1
      /\ ~Blocks(StepAt(place).async) => f = file[p]
  BY <1>3, <1>5, CountedIs
<1> HIDE DEF rd, f
<1>7. NamesOf(f.lines) = Upto(KeptAt(config, rd.steps), rd.at)
  <2>1. Upto(KeptAt(config, steps), at + 1) = Upto(KeptAt(config, steps), at)
    BY <1>1, <1>2, <1>3, KeptMore
  <2> QED
    BY <1>2, <1>4, <1>6, <2>1 DEF ParsedSoFar
<1>8. CallsCounted(f.lines, f.asyncSteps, DroppedIn(config, rd.steps, rd.at))
  <2>1. PICK c \in Nat : c = Cardinality(CallsIn(f.lines))
    BY <1>6, CallsFinite DEF FileType
  <2>2. PICK n \in Nat : n = file[p].asyncSteps /\ c <= n /\ (c < n => DroppedIn(config, steps, at))
    BY <1>2, <1>4, <1>5, <1>6, <2>1 DEF ParsedSoFar, CallsCounted, FileType
  <2>3. CASE Blocks(StepAt(place).async)
    <3>1. DroppedIn(config, steps, at + 1)
      BY <1>1, <1>3, <2>3, DroppedMore
    <3>2. f.asyncSteps = n + 1
      BY <1>6, <2>2, <2>3
    <3> QED
      BY <1>4, <2>1, <2>2, <3>1, <3>2 DEF CallsCounted
  <2>4. CASE ~Blocks(StepAt(place).async)
    <3>1. f.asyncSteps = n /\ (c < n => DroppedIn(config, steps, at + 1))
      BY <1>6, <2>2, <2>4, DroppedMore
    <3> QED
      BY <1>4, <2>1, <2>2, <3>1 DEF CallsCounted
  <2> QED
    BY <2>3, <2>4
<1>9. MergeOk(config, "parse", rd, f)
  BY <1>2, <1>4, <1>6, <1>7, <1>8 DEF MergeOk, ParsedSoFar
<1> QED
  BY <1>1, <1>4, <1>9, MovedMerges

LEMMA MakesMerges == ASSUME TInv, MInv, NEW p \in Processes, Makes(p) PROVE MInv'
<1> DEFINE rd == [reading[p] EXCEPT !.at = @ + 1]
           turn == [loading[p] EXCEPT !.counter = @ + 1]
           counted == CountCall(file[p], Parsed(p).async)
           line == LineMade(p)
           f == AddLine(counted, Parsed(p), line)
<1>1. /\ Parsing(p) /\ ~Ignored(config, Parsed(p))
      /\ Moved(p, "parse", turn, rd, f, list[p])
  BY DEF Makes
<1>2. PICK at \in Nat, steps \in Seq(Places) : at = reading[p].at /\ steps = reading[p].steps
                                               /\ at + 1 \in 1..Len(steps)
  BY <1>1, ParsedIs
<1>3. PICK place \in Places : /\ place = steps[at + 1] /\ Parsed(p) = StepAt(place)
                              /\ line \in LineType /\ line.name = StepAt(place).name
                              /\ line.blocking = Blocks(StepAt(place).async)
  BY <1>1, <1>2, LineMadeIs
<1>4. ParsedSoFar(config, reading[p], file[p]) /\ ListMerged(config, list[p])
      /\ rd.at = at + 1 /\ rd.steps = steps
  BY <1>1, <1>2, ParsingIs
<1>5. file[p] \in FileType
  BY TypesAt DEF TInv
<1>6. /\ counted \in FileType /\ counted.lines = file[p].lines /\ counted.name = file[p].name
      /\ counted.context = file[p].context
      /\ Blocks(StepAt(place).async) => counted.asyncSteps = file[p].asyncSteps + 1
      /\ ~Blocks(StepAt(place).async) => counted = file[p]
  BY <1>3, <1>5, CountedIs
<1> HIDE DEF rd, line, turn, counted
<1>7. /\ f.lines = Append(file[p].lines, line) /\ f.name = file[p].name
      /\ f.context = file[p].context /\ f.asyncSteps = counted.asyncSteps
  <2>1. f = AddLine(counted, StepAt(place), line)
    BY <1>3
  <2> HIDE DEF f
  <2>2. /\ f.lines = Append(counted.lines, line) /\ f.name = counted.name
        /\ f.context = counted.context /\ f.asyncSteps = counted.asyncSteps
    BY <1>3, <1>6, <2>1, AddLineIs
  <2> QED
    BY <1>6, <2>2
<1> HIDE DEF f
<1>8. PICK lines \in Seq(LineType) : lines = file[p].lines
  BY <1>5 DEF FileType
<1>9. NamesOf(f.lines) = Upto(KeptAt(config, rd.steps), rd.at)
  <2>1. Upto(KeptAt(config, steps), at + 1) = Upto(KeptAt(config, steps), at) \o <<StepAt(place).name>>
    <3>1. PICK step : step = StepAt(place) /\ step = StepAt(steps[at + 1]) /\ ~Ignored(config, step)
      BY <1>1, <1>3
    <3>2. Upto(KeptAt(config, steps), at + 1)
            = IF Ignored(config, step) THEN Upto(KeptAt(config, steps), at)
              ELSE Upto(KeptAt(config, steps), at) \o <<step.name>>
      <4>1. at + 1 \in 1..Len(steps)
        BY <1>2
      <4>2. step = StepAt(steps[at + 1])
        BY <3>1
      <4> QED
        BY <4>1, <4>2, KeptMore
    <3>3. Upto(KeptAt(config, steps), at + 1) = Upto(KeptAt(config, steps), at) \o <<step.name>>
      BY <3>1, <3>2, Zenon
    <3> QED
      BY <3>1, <3>3
  <2>2. NamesOf(f.lines) = NamesOf(lines) \o <<line.name>>
    BY <1>3, <1>7, <1>8, NamesAppend
  <2> QED
    BY <1>2, <1>3, <1>4, <1>8, <2>1, <2>2 DEF ParsedSoFar
<1>10. CallsCounted(f.lines, f.asyncSteps, DroppedIn(config, rd.steps, rd.at))
  <2>1. PICK c \in Nat : c = Cardinality(CallsIn(lines))
    BY CallsFinite
  <2>2. PICK n \in Nat : n = file[p].asyncSteps /\ c <= n /\ (c < n => DroppedIn(config, steps, at))
    BY <1>2, <1>4, <1>5, <1>8, <2>1 DEF ParsedSoFar, CallsCounted, FileType
  <2>3. c < n => DroppedIn(config, steps, at + 1)
    BY <2>2, DroppedMore
  <2>4. Cardinality(CallsIn(f.lines)) = c + IF line.blocking THEN 1 ELSE 0
    BY <1>3, <1>7, <1>8, <2>1, CallsAppend
  <2>5. f.asyncSteps = n + IF line.blocking THEN 1 ELSE 0
    BY <1>3, <1>6, <1>7, <2>2
  <2>6. PICK b \in {0, 1} : b = IF line.blocking THEN 1 ELSE 0
    OBVIOUS
  <2>7. Cardinality(CallsIn(f.lines)) = c + b /\ f.asyncSteps = n + b
    BY <2>4, <2>5, <2>6
  <2> QED
    BY <1>4, <2>2, <2>3, <2>7 DEF CallsCounted
<1>11. MergeOk(config, "parse", rd, f)
  BY <1>2, <1>4, <1>7, <1>9, <1>10 DEF MergeOk, ParsedSoFar
<1> QED
  BY <1>1, <1>4, <1>11, MovedMerges

LEMMA KeptAll ==
    ASSUME NEW cfg, NEW steps PROVE Upto(KeptAt(cfg, steps), Len(steps)) = KeptNames(cfg, steps)
<1> DEFINE g == KeptAt(cfg, steps)
<1>1. g = [i \in 1..Len(steps) |-> g[i]]
  BY DEF KeptAt
<1>2. FlattenSeq(g) = KeptNames(cfg, steps)
  BY DEF KeptNames, KeptAt
<1> HIDE DEF g
<1>3. Upto(g, Len(steps)) = FlattenSeq(g)
  BY <1>1 DEF Upto
<1> QED
  BY <1>2, <1>3 DEF g

\* the lines of one more scenario come last
LEMMA LinesMore ==
    ASSUME NEW l \in ListType, NEW m \in ListType, NEW new \in FileType,
           m.scenarios = Append(l.scenarios, new)
    PROVE  LinesOf(m) = LinesOf(l) \o new.lines
<1> DEFINE Parts(x) == [i \in DOMAIN x.scenarios |-> x.scenarios[i].lines]
<1>1. ASSUME NEW x \in ListType
      PROVE  /\ Parts(x) \in Seq(Seq(LineType)) /\ Len(Parts(x)) = Len(x.scenarios)
             /\ \A i \in 1..Len(x.scenarios) : Parts(x)[i] = x.scenarios[i].lines
             /\ LinesOf(x) = FlattenSeq(Parts(x))
  <2>1. PICK n \in Nat : n = Len(x.scenarios) /\ DOMAIN x.scenarios = 1..n
                         /\ \A i \in 1..n : x.scenarios[i] \in FileType
    <3>1. x.scenarios \in Seq(FileType)
      BY DEF ListType
    <3> QED
      BY <3>1, LenProperties, ElementOfSeq
  <2>2. \A i \in 1..n : x.scenarios[i].lines \in Seq(LineType)
    BY <2>1 DEF FileType
  <2>3. Parts(x) \in [1..n -> Seq(LineType)] /\ \A i \in 1..n : Parts(x)[i] = x.scenarios[i].lines
    BY <2>1, <2>2
  <2>4. LinesOf(x) = FlattenSeq(Parts(x))
    BY DEF LinesOf
  <2> HIDE DEF Parts
  <2>5. Parts(x) \in Seq(Seq(LineType)) /\ Len(Parts(x)) = n
    BY <2>3, FunctionIsSeq
  <2> QED
    BY <2>1, <2>3, <2>4, <2>5
<1> HIDE DEF Parts
<1>2. PICK n \in Nat : n = Len(l.scenarios) /\ l.scenarios \in Seq(FileType)
  BY LenProperties DEF ListType
<1>3. /\ Len(m.scenarios) = n + 1 /\ \A i \in 1..n : m.scenarios[i] = l.scenarios[i]
      /\ \A i \in 1..n + 1 : i = n + 1 => m.scenarios[i] = new
  BY <1>2, AppendIs
<1>4. PICK s \in Seq(Seq(LineType)) :
        /\ s = Parts(l) /\ Len(s) = n /\ \A i \in 1..n : s[i] = l.scenarios[i].lines
  BY <1>1, <1>2
<1>5. PICK t \in Seq(Seq(LineType)) :
        /\ t = Parts(m) /\ Len(t) = n + 1 /\ \A i \in 1..n + 1 : t[i] = m.scenarios[i].lines
  BY <1>1, <1>3
<1>6. OneMore(s, t)
  <2>1. ASSUME NEW i \in 1..n PROVE s[i] = t[i]
    <3>1. i \in 1..n + 1
      OBVIOUS
    <3> QED
      BY <1>3, <1>4, <1>5, <3>1
  <2> QED
    BY <1>4, <1>5, <2>1 DEF OneMore
<1>7. t[n + 1] = new.lines
  <2>1. n + 1 \in 1..n + 1
    OBVIOUS
  <2> QED
    BY <1>3, <1>5, <2>1
<1>8. FlattenSeq(t) = FlattenSeq(s) \o t[Len(t)]
  BY <1>6, FlattenMore
<1> QED
  BY <1>1, <1>4, <1>5, <1>7, <1>8

LEMMA AddScenarioMerges ==
    ASSUME NEW cfg, NEW l \in ListType, ListMerged(cfg, l), NEW new \in FileType, FileOk(new),
           ScenarioMerged(cfg, new), CallsCounted(new.lines, new.asyncSteps, ScenarioDrops(cfg, new))
    PROVE  ListMerged(cfg, AddScenario(l, new))
<1> DEFINE m == AddScenario(l, new)
<1>1. /\ m \in ListType /\ m.scenarios = Append(l.scenarios, new)
      /\ m.steps = (IF new.asynchronous THEN l.steps + new.asyncSteps ELSE l.steps)
  BY AddScenarioIs
<1> HIDE DEF m
<1>2. PICK n \in Nat : n = Len(l.scenarios) /\ l.scenarios \in Seq(FileType)
  BY LenProperties DEF ListType
<1>3. /\ Len(m.scenarios) = n + 1 /\ \A i \in 1..n : m.scenarios[i] = l.scenarios[i]
      /\ \A i \in 1..n + 1 : i = n + 1 => m.scenarios[i] = new
  BY <1>1, <1>2, AppendIs
<1>4. PICK a \in Nat, b \in Nat : a = l.steps /\ b = new.asyncSteps /\ m.steps = a + b
  <2>1. l.steps \in Nat /\ new.asyncSteps \in Nat
    BY DEF ListType, FileType
  <2>2. ~new.asynchronous => new.asyncSteps = 0
    BY <2>1 DEF FileOk
  <2>3. m.steps = l.steps + new.asyncSteps
    BY <1>1, <2>1, <2>2
  <2> QED
    BY <2>1, <2>3
<1>5. PICK c \in Nat, d \in Nat :
        /\ c = Cardinality(CallsIn(LinesOf(l))) /\ d = Cardinality(CallsIn(new.lines))
        /\ Cardinality(CallsIn(LinesOf(m))) = c + d
  <2>1. LinesOf(l) \in Seq(LineType) /\ new.lines \in Seq(LineType)
    BY LinesAre DEF FileType
  <2>2. LinesOf(m) = LinesOf(l) \o new.lines
    BY <1>1, LinesMore
  <2> QED
    BY <2>1, <2>2, CallsConcat, CallsFinite
<1> DEFINE Drop(x) == \E i \in 1..Len(x.scenarios) : ScenarioDrops(cfg, x.scenarios[i])
<1>6. c <= a /\ (c < a => Drop(l)) /\ d <= b /\ (d < b => ScenarioDrops(cfg, new))
  BY <1>4, <1>5 DEF ListMerged, CallsCounted
<1>7. Drop(l) \/ ScenarioDrops(cfg, new) => Drop(m)
  <2>1. \A i \in 1..n : i \in 1..n + 1
    OBVIOUS
  <2>2. Drop(l) => Drop(m)
    BY <1>2, <1>3, <2>1
  <2>3. n + 1 \in 1..n + 1
    OBVIOUS
  <2>4. ScenarioDrops(cfg, new) => Drop(m)
    BY <1>3, <2>3
  <2> QED
    BY <2>2, <2>4
<1> HIDE DEF Drop
<1>8. c + d <= a + b /\ (c + d < a + b => Drop(m))
  BY <1>6, <1>7
<1>9. CallsCounted(LinesOf(m), m.steps, Drop(m))
  BY <1>4, <1>5, <1>8 DEF CallsCounted
<1>10. ASSUME NEW i \in 1..n + 1 PROVE ScenarioMerged(cfg, m.scenarios[i])
  <2>1. CASE i = n + 1
    BY <1>3, <2>1
  <2>2. CASE i # n + 1
    <3>1. i \in 1..n
      BY <2>2
    <3> QED
      BY <1>2, <1>3, <3>1 DEF ListMerged
  <2> QED
    BY <2>1, <2>2
<1>11. ListMerged(cfg, m)
  BY <1>3, <1>9, <1>10 DEF ListMerged, Drop
<1> QED
  BY <1>11 DEF m

LEMMA AppendsMerges ==
    ASSUME TInv, ListsOk, MInv, NEW p \in Processes, Appends(p) PROVE MInv'
<1>1. /\ pc[p] = "parse" /\ reading[p].at = Len(reading[p].steps)
      /\ \E turn : Moved(p, "open", turn, NotReading, NoFile, AddScenario(list[p], file[p]))
  BY DEF Appends, Loads
<1>2. ParsedSoFar(config, reading[p], file[p]) /\ ListMerged(config, list[p])
  BY <1>1 DEF MInv, MergeOk
<1>3. file[p] \in FileType /\ list[p] \in ListType /\ FileOk(file[p])
  BY TypesAt DEF TInv, ListsOk
<1>4. ScenarioMerged(config, file[p])
  BY <1>1, <1>2, KeptAll DEF ParsedSoFar, ScenarioMerged
<1>5. CallsCounted(file[p].lines, file[p].asyncSteps, ScenarioDrops(config, file[p]))
  BY <1>1, <1>2 DEF ParsedSoFar, ScenarioDrops
<1>6. ListMerged(config, AddScenario(list[p], file[p]))
  BY <1>2, <1>3, <1>4, <1>5, AddScenarioMerges
<1>7. MergeOk(config, "open", NotReading, NoFile)
  BY DEF MergeOk
<1> QED
  BY <1>1, <1>6, <1>7, MovedMerges

LEMMA ReadsMerges == ASSUME TInv, ListsOk, MInv, NEW p \in Processes, Reads(p) PROVE MInv'
<1>1. CASE Chooses(p) \/ Retries(p) \/ Skips(p) \/ Finishes(p)
  <2>1. \E at \in {"open", "flags"} : \E turn, rd, f : Moved(p, at, turn, rd, f, list[p])
    BY <1>1 DEF Chooses, Retries, Skips, Loads, Finishes
  <2>2. ListMerged(config, list[p])
    BY DEF MInv
  <2>3. \A at \in {"open", "flags"} : \A rd, f : MergeOk(config, at, rd, f)
    BY DEF MergeOk
  <2> QED
    BY <2>1, <2>2, <2>3, MovedMerges
<1> QED
  BY <1>1, OpensMerges, TakesMerges, EntersMerges, LeavesMerges, EndsMerges, IgnoresMerges,
     MakesMerges, AppendsMerges DEF Reads

\* a process that dies or starts its services reads no more
LEMMA StartsAt ==
    ASSUME TInv, NEW p \in Processes, Dies(p) \/ Starts(p)
    PROVE  /\ config' = config /\ reading' = reading /\ loading' = loading
           /\ pc'[p] \notin {"new", "open", "include", "parse"}
           /\ \A q \in Processes : q # p => pc'[q] = pc[q]
<1>1. CASE Dies(p)
  BY <1>1, DiesAt DEF TInv
<1>2. CASE Starts(p)
  <2>1. PICK at, m, sv, prt, r, mt :
          /\ at \notin {"new", "open", "include", "parse"}
          /\ Serves(p, at, m, sv, prt, r, mt)
    BY <1>2 DEF Starts, Flags, Asyncs, Listens, Goes, Paces
  <2> QED
    BY <2>1, ServesAt DEF TInv, SameServices
<1> QED
  BY <1>1, <1>2

LEMMA StepMerges == ASSUME TInv, ListsOk, MInv, [Next]_vars PROVE MInv'
<1>1. CASE UNCHANGED vars
  BY <1>1 DEF vars, MInv
<1>2. ASSUME NEW p \in Processes, Dies(p) \/ Starts(p) PROVE MInv'
  <2>1. /\ config' = config /\ reading' = reading /\ file' = file /\ list' = list
        /\ pc'[p] \notin {"include", "parse"}
        /\ \A q \in Processes : q # p => pc'[q] = pc[q]
    BY <1>2, StartsAt, StepKeepsLists DEF SameLists
  <2>2. ASSUME NEW q \in Processes
        PROVE  MergeOk(config, pc'[q], reading[q], file[q]) /\ ListMerged(config, list[q])
    <3>1. MergeOk(config, pc[q], reading[q], file[q]) /\ ListMerged(config, list[q])
      BY DEF MInv
    <3>2. CASE q = p
      BY <2>1, <3>1, <3>2 DEF MergeOk
    <3>3. CASE q # p
      BY <2>1, <3>1, <3>3
    <3> QED
      BY <3>2, <3>3
  <2> QED
    BY <2>1, <2>2 DEF MInv
<1>3. ASSUME NEW p \in Processes, StepKinds(p) PROVE MInv'
  BY <1>2, <1>3, ReadsMerges DEF StepKinds
<1> QED
  BY <1>1, <1>3, StepIsOne

LEMMA InitMerges == ASSUME Init PROVE MInv
<1> SUFFICES ASSUME NEW q \in Processes
             PROVE  MergeOk(config, pc[q], reading[q], file[q]) /\ ListMerged(config, list[q])
  BY DEF MInv
<1>1. /\ pc[q] = "new"
      /\ list[q] = [scenarios |-> <<>>, on |-> FALSE, router |-> FALSE, steps |-> 0, timeout |-> -1]
  BY DEF Init
<1>2. list[q].scenarios = <<>> /\ list[q].steps = 0 /\ Len(<<>>) = 0
  BY <1>1
<1>3. LinesOf(list[q]) = <<>>
  <2>1. [i \in DOMAIN list[q].scenarios |-> list[q].scenarios[i].lines] = <<>>
    BY <1>2
  <2> QED
    BY <1>2, <2>1, FlattenEmpty DEF LinesOf
<1>4. ListMerged(config, list[q])
  BY <1>2, <1>3, CallsNone DEF ListMerged, CallsCounted
<1> QED
  BY <1>1, <1>4 DEF MergeOk

LEMMA MergesHold == ASSUME TInv, MInv PROVE IncludesAreMerged
<1> SUFFICES ASSUME NEW p \in Processes, NEW i \in DOMAIN list[p].scenarios
             PROVE  LET scenario == list[p].scenarios[i]
                    IN  /\ [k \in DOMAIN scenario.lines |-> scenario.lines[k].name]
                              = KeptNames(config, StepsOf(scenario.name))
                        /\ FirstDecides(scenario.context, Met(scenario.name))
  BY DEF IncludesAreMerged
<1>1. i \in 1..Len(list[p].scenarios)
  <2>1. list[p].scenarios \in Seq(FileType)
    BY TypesAt DEF TInv, ListType
  <2> QED
    BY <2>1, LenProperties
<1>2. ScenarioMerged(config, list[p].scenarios[i])
  BY <1>1 DEF MInv, ListMerged
<1> QED
  BY <1>2 DEF ScenarioMerged, NamesOf

LEMMA InvariantOfMerges == Spec => [](TInv /\ ListsOk /\ SInv /\ MInv)
<1>1. Init => TInv /\ ListsOk /\ SInv /\ MInv
  BY InitTyped, InitLists, InitLate, InitMerges
<1>2. TInv /\ ListsOk /\ SInv /\ MInv /\ [Next]_vars => (TInv /\ ListsOk /\ SInv /\ MInv)'
  BY StepTyped, StepLists, StepLate, StepMerges
<1> QED
  BY <1>1, <1>2, PTL DEF Spec

\* __process_recursive_includes(): however the files of a scenario include one another, the
\* lines of a loaded scenario are the steps that a reader finds in them, in his order and
\* without those ignored, and a variable has the value of the first file he meets with it.
THEOREM StartMergesIncludes == Spec => []IncludesAreMerged
  BY MergesHold, InvariantOfMerges, PTL

LEMMA Monotone ==
    ASSUME NEW a \in Nat, NEW c \in Nat, NEW n \in Nat, c <= n
    PROVE  a * (1 + n) >= a * (1 + c) /\ (a * (1 + n) > a * (1 + c) => c < n)
<1>1. PICK d \in Nat : n = c + d
  <2>1. n - c \in Nat /\ n = c + (n - c)
    OBVIOUS
  <2> QED
    BY <2>1
<1>2. a * (1 + (c + d)) = a * (1 + c) + a * d /\ a * d \in Nat /\ a * (1 + c) \in Nat
  OBVIOUS
<1>3. d = 0 => a * d = 0
  OBVIOUS
<1>4. a * (1 + n) = a * (1 + c) + a * d
  BY <1>1, <1>2
<1>5. a * (1 + n) >= a * (1 + c)
  BY <1>2, <1>4
<1>6. a * (1 + n) > a * (1 + c) => d # 0
  BY <1>2, <1>3, <1>4
<1> QED
  BY <1>1, <1>5, <1>6

LEMMA RunsHold == ASSUME TInv, SInv, MInv PROVE PromisedRuns
<1> SUFFICES ASSUME NEW p \in Processes, Ready(p), ~mode[p].throughput
             PROVE  LET needed == config.runs * (1 + Cardinality(BlockingLines(p)))
                    IN  /\ runs[p] >= needed
                        /\ runs[p] > needed =>
                             \E i \in DOMAIN list[p].scenarios :
                                LET steps == StepsOf(list[p].scenarios[i].name)
                                IN  \E k \in DOMAIN steps : Drops(StepAt(steps[k]))
  BY DEF PromisedRuns
<1>1. list[p] \in ListType /\ config.runs \in Nat /\ list[p].steps \in Nat
  <2>1. list[p] \in ListType /\ config \in Configs
    BY TypesAt DEF TInv
  <2> QED
    BY <2>1, ConfigsAssumption DEF ListType
<1>2. runs[p] = config.runs * (1 + list[p].steps)
  BY DEF SInv, LateOk, Ready, LatePC, PacedPC
<1>3. BlockingLines(p) = CallsIn(LinesOf(list[p]))
  BY DEF BlockingLines, CallsIn, Lines, LinesOf
<1>4. PICK c \in Nat : c = Cardinality(BlockingLines(p))
  BY <1>1, <1>3, LinesAre, CallsFinite
<1>5. /\ c <= list[p].steps
      /\ c < list[p].steps =>
           \E i \in 1..Len(list[p].scenarios) : ScenarioDrops(config, list[p].scenarios[i])
  BY <1>3, <1>4 DEF MInv, ListMerged, CallsCounted
<1>6. /\ runs[p] >= config.runs * (1 + c)
      /\ runs[p] > config.runs * (1 + c) => c < list[p].steps
  BY <1>1, <1>2, <1>4, <1>5, Monotone
<1>7. ASSUME NEW i \in 1..Len(list[p].scenarios), ScenarioDrops(config, list[p].scenarios[i])
      PROVE  /\ i \in DOMAIN list[p].scenarios
             /\ \E k \in DOMAIN StepsOf(list[p].scenarios[i].name) :
                   Drops(StepAt(StepsOf(list[p].scenarios[i].name)[k]))
  <2>1. list[p].scenarios \in Seq(FileType) /\ list[p].scenarios[i].name \in DOMAIN File
    BY <1>1, <1>7 DEF ListType, MInv, ListMerged, ScenarioMerged
  <2>2. StepsOf(list[p].scenarios[i].name) \in Seq(Places)
    <3>1. StepsTo[Depth] \in [DOMAIN File -> Seq(Places)]
      BY StepsToType, DepthIsNat
    <3> QED
      BY <2>1, <3>1 DEF StepsOf
  <2>3. /\ DOMAIN StepsOf(list[p].scenarios[i].name) = 1..Len(StepsOf(list[p].scenarios[i].name))
        /\ DOMAIN list[p].scenarios = 1..Len(list[p].scenarios)
    BY <2>1, <2>2, LenProperties
  <2> QED
    BY <1>7, <2>3 DEF ScenarioDrops, DroppedIn, Drops
<1>8. c < list[p].steps =>
        \E i \in DOMAIN list[p].scenarios :
           \E k \in DOMAIN StepsOf(list[p].scenarios[i].name) :
              Drops(StepAt(StepsOf(list[p].scenarios[i].name)[k]))
  BY <1>5, <1>7
<1> QED
  BY <1>4, <1>6, <1>8

\* __manageAsyncConfiguration(): in validation mode each blocking line finds a further run of
\* The Grinder for every run that was asked for; the runs that are too many come from blocking
\* steps that were counted and then ignored, and from nothing else.
THEOREM StartPromisesRuns == Spec => []PromisedRuns
  BY RunsHold, InvariantOfMerges, PTL

-----------------------------------------------------------------------------
(* The numbers of the lines.                                               *)

TestBase(cfg, p) == IF cfg.perProcess THEN p * TestRange ELSE 0

\* the numbers rise, up to the one counted last; exactly one by one if no file was refused
Numbered(base, exact, lines, count) ==
    /\ \A i \in 1..Len(lines) : base < lines[i].test /\ lines[i].test <= base + count
    /\ \A i, j \in 1..Len(lines) : i < j => lines[i].test < lines[j].test
    /\ exact => /\ Len(lines) = count
                /\ \A i \in 1..Len(lines) : lines[i].test = base + i

LEMMA TestIdIs ==
    ASSUME TInv, NEW p \in Processes, NEW count \in Nat
    PROVE  /\ TestBase(config, p) \in Nat
           /\ TestId(config, p, count) = TestBase(config, p) + count
<1>1. p \in Nat /\ TestRange \in Nat
  BY ProcessesAre, FilesAssumption
<1>2. PICK r \in Nat : r = p * TestRange
  BY <1>1
<1>3. TestBase(config, p) = IF config.perProcess THEN r ELSE 0
  BY <1>2 DEF TestBase
<1>4. TestId(config, p, count) = IF config.perProcess THEN r + count ELSE count
  BY <1>2 DEF TestId
<1> QED
  BY <1>3, <1>4

LEMMA NumberedAppend ==
    ASSUME NEW base \in Nat, NEW exact, NEW s \in Seq(LineType), NEW count \in Nat,
           Numbered(base, exact, s, count), NEW line \in LineType, line.test = base + count + 1
    PROVE  Numbered(base, exact, Append(s, line), count + 1)
<1>1. PICK n \in Nat : Sized(s, n)
  BY SizedIs
<1>2. n = Len(s)
  BY <1>1 DEF Sized
<1>3. PICK t \in Seq(LineType) : t = Append(s, line)
  BY AppendIs
<1>4. /\ Len(t) = n + 1 /\ \A i \in 1..n : t[i] = s[i]
      /\ \A i \in 1..n + 1 : i = n + 1 => t[i] = line
  BY <1>2, <1>3, AppendIs
<1>5. /\ \A i \in 1..n : base < s[i].test /\ s[i].test <= base + count
      /\ \A i, j \in 1..n : i < j => s[i].test < s[j].test
      /\ exact => n = count /\ \A i \in 1..n : s[i].test = base + i
  BY <1>2 DEF Numbered
<1>6. ASSUME NEW i \in 1..n
      PROVE  s[i].test \in Nat /\ s[i].test <= base + count /\ base < s[i].test
  <2>1. s[i] \in LineType
    BY <1>2, ElementOfSeq
  <2> QED
    BY <1>5, <2>1 DEF LineType
<1>7. ASSUME NEW i \in 1..n + 1
      PROVE  /\ base < t[i].test /\ t[i].test <= base + (count + 1)
             /\ exact => t[i].test = base + i
  <2>1. CASE i = n + 1
    <3>1. t[i].test = base + count + 1
      BY <1>4, <2>1
    <3>2. exact => n = count
      BY <1>5
    <3> QED
      BY <2>1, <3>1, <3>2
  <2>2. CASE i # n + 1
    <3>1. i \in 1..n
      BY <2>2
    <3>2. PICK x \in Nat : x = s[i].test /\ t[i].test = x /\ x <= base + count /\ base < x
      BY <1>4, <1>6, <3>1
    <3>3. exact => x = base + i
      BY <1>5, <3>1, <3>2
    <3> QED
      BY <3>2, <3>3
  <2> QED
    BY <2>1, <2>2
<1>8. ASSUME NEW i \in 1..n + 1, NEW j \in 1..n + 1, i < j PROVE t[i].test < t[j].test
  <2>1. i \in 1..n
    BY <1>8
  <2>2. PICK x \in Nat : x = s[i].test /\ t[i].test = x /\ x <= base + count
    BY <1>4, <1>6, <2>1
  <2>3. CASE j = n + 1
    <3>1. t[j].test = base + count + 1
      BY <1>4, <2>3
    <3> QED
      BY <2>2, <3>1
  <2>4. CASE j # n + 1
    <3>1. j \in 1..n
      BY <2>4
    <3> QED
      BY <1>4, <1>5, <1>8, <2>1, <3>1
  <2> QED
    BY <2>3, <2>4
<1>9. exact => n + 1 = count + 1
  BY <1>5
<1>10. Numbered(base, exact, t, count + 1)
  BY <1>4, <1>7, <1>8, <1>9 DEF Numbered
<1> QED
  BY <1>3, <1>10

\* the lines of a file that is refused go, the counter stays or goes on
LEMMA NumberedLess ==
    ASSUME NEW base \in Nat, NEW s \in Seq(LineType), NEW t \in Seq(LineType), NEW count \in Nat,
           Numbered(base, FALSE, s \o t, count), NEW more \in Nat, count <= more
    PROVE  Numbered(base, FALSE, s, more)
<1>1. PICK m \in Nat, n \in Nat : Sized(s, m) /\ Sized(t, n)
  BY SizedIs
<1>2. PICK u \in Seq(LineType) : Concat(u, s, m, t, n)
  BY <1>1, ConcatIs
<1>3. /\ u = s \o t /\ Len(u) = m + n
      /\ \A i \in 1..m + n : u[i] = IF i <= m THEN s[i] ELSE t[i - m]
  BY <1>2 DEF Concat
<1>4. /\ \A i \in 1..m + n : base < u[i].test /\ u[i].test <= base + count
      /\ \A i, j \in 1..m + n : i < j => u[i].test < u[j].test
  BY <1>3 DEF Numbered
<1>5. \A i \in 1..m : i \in 1..m + n /\ u[i] = s[i]
  BY <1>3
<1>6. m = Len(s)
  BY <1>1 DEF Sized
<1>7. ASSUME NEW i \in 1..m PROVE base < s[i].test /\ s[i].test <= base + more
  <2>1. s[i] \in LineType
    BY <1>6, ElementOfSeq
  <2>2. PICK x \in Nat : x = s[i].test
    BY <2>1 DEF LineType
  <2>3. base < x /\ x <= base + count
    BY <1>4, <1>5, <2>2
  <2>4. x <= base + more
    BY <2>3
  <2> QED
    BY <2>2, <2>3, <2>4
<1>8. \A i, j \in 1..m : i < j => s[i].test < s[j].test
  BY <1>4, <1>5
<1> QED
  BY <1>6, <1>7, <1>8 DEF Numbered

\* the lines of the scenarios that are loaded, and of the one that is being loaded
AllLines(l, f) == LinesOf(l) \o f.lines

ScenarioNames(l) == [i \in 1..Len(l.scenarios) |-> l.scenarios[i].name]

NamesGiven(cfg, names) == FlattenSeq([i \in 1..Len(names) |-> KeptNames(cfg, StepsOf(names[i]))])

NamesAre(cfg, l) == NamesOf(LinesOf(l)) = NamesGiven(cfg, ScenarioNames(l))

\* a process of the common list loads all its files, in their order
TurnOk(cfg, files, at, turn, f, l) ==
    ~cfg.perProcess =>
        /\ at = "new" => l.scenarios = <<>>
        /\ at \in {"open", "include", "parse"} =>
             files # <<>> /\ ScenarioNames(l) \o turn.left = Expand(files)
        /\ at \in {"include", "parse"} => f.name = Head(turn.left)
        /\ at \notin {"new", "open", "include", "parse", "dead"} =>
             ScenarioNames(l) = Expand(files)

NumbersOk(q, at, turn, f, l) ==
    /\ Numbered(TestBase(config, q), ~config.perProcess, AllLines(l, f), turn.counter)
    /\ TurnOk(config, ListOf(q), at, turn, f, l)
    /\ NamesAre(config, l)

NInv == \A q \in Processes : NumbersOk(q, pc[q], loading[q], file[q], list[q])

LEMMA SameNumbers ==
    ASSUME config' = config, NEW q, NEW at, NEW turn, NEW f, NEW l,
           pc'[q] = at, loading'[q] = turn, file'[q] = f, list'[q] = l, NumbersOk(q, at, turn, f, l)
    PROVE  NumbersOk(q, pc[q], loading[q], file[q], list[q])'
<1>1. ListOf(q)' = ListOf(q)
  BY DEF ListOf
<1> QED
  BY <1>1 DEF NumbersOk

LEMMA MovedNumbers ==
    ASSUME TInv, NInv, NEW p \in Processes, NEW at, NEW turn, NEW rd, NEW f, NEW l,
           Moved(p, at, turn, rd, f, l), NumbersOk(p, at, turn, f, l)
    PROVE  NInv'
<1>1. /\ config' = config /\ pc'[p] = at /\ loading'[p] = turn /\ file'[p] = f /\ list'[p] = l
      /\ \A q \in Processes :
           q # p => /\ pc'[q] = pc[q] /\ loading'[q] = loading[q]
                    /\ file'[q] = file[q] /\ list'[q] = list[q]
  BY MovedAt DEF TInv, SameFile
<1>2. ASSUME NEW q \in Processes PROVE NumbersOk(q, pc[q], loading[q], file[q], list[q])'
  <2>1. CASE q = p
    BY <1>1, <2>1, SameNumbers
  <2>2. CASE q # p
    BY <1>1, <2>2, SameNumbers DEF NInv
  <2> QED
    BY <2>1, <2>2
<1> QED
  BY <1>2 DEF NInv

LEMMA NumbersAt ==
    ASSUME TInv, NInv, NEW p \in Processes
    PROVE  /\ NumbersOk(p, pc[p], loading[p], file[p], list[p])
           /\ LinesOf(list[p]) \in Seq(LineType) /\ file[p].lines \in Seq(LineType)
           /\ loading[p].counter \in Nat /\ loading[p].left \in Seq(STRING)
           /\ TestBase(config, p) \in Nat
<1>1. file[p] \in FileType /\ list[p] \in ListType /\ loading[p] \in LoadingType
  BY TypesAt DEF TInv
<1>2. LinesOf(list[p]) \in Seq(LineType)
  BY <1>1, LinesAre
<1>3. file[p].lines \in Seq(LineType) /\ loading[p].counter \in Nat
      /\ loading[p].left \in Seq(STRING)
  BY <1>1 DEF FileType, LoadingType
<1> QED
  BY <1>2, <1>3, TestIdIs DEF NInv

LEMMA KeepsNumbers ==
    ASSUME TInv, NInv, NEW p \in Processes, NEW at, NEW turn, NEW rd, NEW f,
           Moved(p, at, turn, rd, f, list[p]), f.lines = file[p].lines,
           turn.counter = loading[p].counter, TurnOk(config, ListOf(p), at, turn, f, list[p])
    PROVE  NInv'
<1>1. NumbersOk(p, pc[p], loading[p], file[p], list[p])
  BY DEF NInv
<1>2. AllLines(list[p], f) = AllLines(list[p], file[p])
  BY DEF AllLines
<1>3. NumbersOk(p, at, turn, f, list[p])
  BY <1>1, <1>2 DEF NumbersOk
<1> QED
  BY <1>3, MovedNumbers

\* the same file is read on
LEMMA StillReading ==
    ASSUME TInv, NInv, NEW p \in Processes, pc[p] \in {"include", "parse"},
           NEW at \in {"include", "parse"}, NEW turn, turn.left = loading[p].left,
           NEW f, f.name = file[p].name
    PROVE  TurnOk(config, ListOf(p), at, turn, f, list[p])
<1>1. TurnOk(config, ListOf(p), pc[p], loading[p], file[p], list[p])
  BY DEF NInv, NumbersOk
<1> QED
  BY <1>1 DEF TurnOk

\* names are tried by variants only where each process has its own list
LEMMA VariantsOf ==
    ASSUME NInv, NEW p \in Processes, pc[p] \in {"open", "include", "parse"}, ByVariants(p)
    PROVE  config.perProcess
<1>1. TurnOk(config, ListOf(p), pc[p], loading[p], file[p], list[p])
  BY DEF NInv, NumbersOk
<1> QED
  BY <1>1 DEF TurnOk, ByVariants

LEMMA ListUsedIs ==
    ASSUME Typed, NEW p \in Processes, ~config.perProcess, ListUsed(p) # <<>>
    PROVE  ListOf(p) # <<>> /\ ListUsed(p) = ListOf(p)
<1>1. /\ config.before \in Seq(STRING) /\ config.filein \in Seq(STRING)
      /\ config.after \in Seq(STRING)
  BY ConfigsAssumption DEF Typed
<1>2. CASE config.filein = <<>>
  BY <1>2 DEF ListOf, ListUsed
<1>3. CASE config.filein # <<>>
  <2>1. Len(config.filein) \in Nat \ {0}
    BY <1>1, <1>3, EmptySeq
  <2>2. Len(config.before) \in Nat /\ Len(config.after) \in Nat
    BY <1>1, LenProperties
  <2>3. PICK s \in Seq(STRING) : /\ s = config.before \o config.filein
                                 /\ Len(s) = Len(config.before) + Len(config.filein)
    BY <1>1, ConcatProperties
  <2>4. Len(s \o config.after) = Len(s) + Len(config.after)
    BY <1>1, ConcatProperties
  <2>5. Len(s \o config.after) # 0
    <3>1. PICK a \in Nat, b \in Nat \ {0}, c \in Nat :
            a = Len(config.before) /\ b = Len(config.filein) /\ c = Len(config.after)
      BY <2>1, <2>2
    <3>2. Len(s \o config.after) = (a + b) + c
      BY <2>3, <2>4, <3>1
    <3>3. (a + b) + c # 0
      OBVIOUS
    <3> QED
      BY <3>2, <3>3
  <2>6. s \o config.after # <<>>
    BY <2>5
  <2>7. ListOf(p) = s \o config.after
    BY <1>3, <2>3 DEF ListOf
  <2> QED
    BY <2>6, <2>7 DEF ListUsed
<1> QED
  BY <1>2, <1>3

LEMMA ChoosesNumbers == ASSUME TInv, NInv, NEW p \in Processes, Chooses(p) PROVE NInv'
<1> DEFINE turn == [loading[p] EXCEPT !.left = Expand(ListUsed(p))]
<1>1. /\ pc[p] = "new" /\ ListUsed(p) # <<>>
      /\ Moved(p, "open", turn, reading[p], file[p], list[p])
  BY DEF Chooses
<1>2. turn.left = Expand(ListUsed(p)) /\ turn.counter = loading[p].counter
  <2>1. loading[p] \in LoadingType
    BY TypesAt DEF TInv
  <2> QED
    BY <2>1 DEF LoadingType
<1> HIDE DEF turn
<1>3. ASSUME ~config.perProcess
      PROVE  ListOf(p) # <<>> /\ ScenarioNames(list[p]) \o turn.left = Expand(ListOf(p))
  <2>1. ListOf(p) # <<>> /\ turn.left = Expand(ListOf(p))
    BY <1>1, <1>2, <1>3, ListUsedIs DEF TInv
  <2>2. list[p].scenarios = <<>>
    BY <1>1, <1>3 DEF NInv, NumbersOk, TurnOk
  <2>3. ScenarioNames(list[p]) = <<>>
    BY <2>2 DEF ScenarioNames
  <2>4. PICK e \in Seq(STRING) : e = Expand(ListOf(p))
    BY <1>1, <1>3, ListUsedIs, ListUsedType, ExpandType DEF TInv
  <2>5. <<>> \o e = e
    BY ConcatEmptySeq
  <2> QED
    BY <2>1, <2>3, <2>4, <2>5
<1>4. TurnOk(config, ListOf(p), "open", turn, file[p], list[p])
  BY <1>3 DEF TurnOk
<1> QED
  BY <1>1, <1>2, <1>4, KeepsNumbers

LEMMA NamesSeq ==
    ASSUME NEW l \in ListType
    PROVE  /\ ScenarioNames(l) \in Seq(FileNames \union STRING)
           /\ Len(ScenarioNames(l)) = Len(l.scenarios)
<1>1. PICK n \in Nat : n = Len(l.scenarios) /\ \A i \in 1..n : l.scenarios[i] \in FileType
  <2>1. l.scenarios \in Seq(FileType)
    BY DEF ListType
  <2> QED
    BY <2>1, LenProperties, ElementOfSeq
<1>2. \A i \in 1..n : l.scenarios[i].name \in FileNames \union STRING
  BY <1>1 DEF FileType
<1>3. ScenarioNames(l) \in [1..n -> FileNames \union STRING]
  BY <1>1, <1>2 DEF ScenarioNames
<1> QED
  BY <1>1, <1>3, FunctionIsSeq

LEMMA FinishesNumbers == ASSUME TInv, NInv, NEW p \in Processes, Finishes(p) PROVE NInv'
<1>1. /\ pc[p] = "open" /\ loading[p].left = <<>>
      /\ Moved(p, "flags", loading[p], reading[p], file[p], list[p])
  BY DEF Finishes
<1>2. ASSUME ~config.perProcess PROVE ScenarioNames(list[p]) = Expand(ListOf(p))
  <2>1. ScenarioNames(list[p]) \o <<>> = Expand(ListOf(p))
    BY <1>1, <1>2 DEF NInv, NumbersOk, TurnOk
  <2>2. ScenarioNames(list[p]) \in Seq(FileNames \union STRING)
    BY NamesSeq, TypesAt DEF TInv
  <2> QED
    BY <2>1, <2>2, ConcatEmptySeq
<1>3. TurnOk(config, ListOf(p), "flags", loading[p], file[p], list[p])
  BY <1>2 DEF TurnOk
<1> QED
  BY <1>1, <1>3, KeepsNumbers

LEMMA OpensNumbers == ASSUME TInv, NInv, NEW p \in Processes, Opens(p) PROVE NInv'
<1>1. PICK name \in DOMAIN File :
        /\ pc[p] = "open" /\ name = NextName(p)
        /\ Moved(p, "include", loading[p], [reading[p] EXCEPT !.stack = <<Frame(name)>>],
                 NewFile(name, Flattened(File[name].context)), list[p])
  BY DEF Opens
<1> DEFINE f == NewFile(name, Flattened(File[name].context))
<1>2. f.name = name /\ f.lines = <<>>
  BY DEF NewFile
<1>3. file[p].lines = <<>>
  <2>1. file[p] = NoFile
    BY <1>1, StageAt DEF Stage
  <2>2. NoFile.lines = <<>>
    BY DEF NoFile, NewFile
  <2> QED
    BY <2>1, <2>2
<1> HIDE DEF f
<1>4. TurnOk(config, ListOf(p), "include", loading[p], f, list[p])
  <2>1. TurnOk(config, ListOf(p), "open", loading[p], file[p], list[p])
    BY <1>1 DEF NInv, NumbersOk
  <2>2. ListOf(p) # <<>> => name = Head(loading[p].left)
    BY <1>1 DEF NextName, ByVariants
  <2> QED
    BY <1>2, <2>1, <2>2 DEF TurnOk
<1>5. f.lines = file[p].lines
  BY <1>2, <1>3
<1> QED
  BY <1>1, <1>4, <1>5, KeepsNumbers DEF f

LEMMA GoesOnNumbers ==
    ASSUME TInv, NInv, NEW p \in Processes,
           Takes(p) \/ Enters(p) \/ Returns(p) \/ Ends(p) \/ Ignores(p)
    PROVE  NInv'
<1>1. file[p] \in FileType
  BY TypesAt DEF TInv
<1>2. /\ pc[p] \in {"include", "parse"}
      /\ \E at \in {"include", "parse"} : \E rd, f :
           /\ Moved(p, at, loading[p], rd, f, list[p])
           /\ f.name = file[p].name /\ f.lines = file[p].lines
  <2>1. CASE Takes(p) \/ Returns(p) \/ Ends(p)
    BY <2>1 DEF Takes, Returns, Ends
  <2>2. CASE Enters(p)
    <3>1. PICK rd, c : /\ pc[p] = "include"
                       /\ Moved(p, "include", loading[p], rd, [file[p] EXCEPT !.context = c], list[p])
      BY <2>2 DEF Enters
    <3>2. PICK f : f = [file[p] EXCEPT !.context = c]
      OBVIOUS
    <3>3. f.name = file[p].name /\ f.lines = file[p].lines
      BY <1>1, <3>2 DEF FileType
    <3> QED
      BY <3>1, <3>2, <3>3
  <2>3. CASE Ignores(p)
    <3>1. PICK rd, f : /\ Parsing(p) /\ f = CountCall(file[p], Parsed(p).async)
                       /\ Moved(p, "parse", loading[p], rd, f, list[p])
      BY <2>3 DEF Ignores
    <3>2. PICK at \in Places : Parsed(p) = StepAt(at)
      BY <3>1, LineMadeIs
    <3>3. f.name = file[p].name /\ f.lines = file[p].lines
      BY <1>1, <3>1, <3>2, CountedIs
    <3> QED
      BY <3>1, <3>3 DEF Parsing
  <2> QED
    BY <2>1, <2>2, <2>3
<1> QED
  BY <1>2, StillReading, KeepsNumbers

\* without the lines of the file
LEMMA OnlyLoaded ==
    ASSUME NEW l \in ListType, NEW f, f.lines = <<>>
    PROVE  AllLines(l, f) = LinesOf(l)
<1>1. LinesOf(l) \in Seq(LineType)
  BY LinesAre
<1> QED
  BY <1>1, ConcatEmptySeq DEF AllLines

LEMMA DropsNumbers ==
    ASSUME TInv, NInv, NEW p \in Processes, Retries(p) \/ Skips(p) PROVE NInv'
<1>1. PICK turn, rd :
        /\ pc[p] \in {"open", "include", "parse"} /\ ByVariants(p)
        /\ turn.counter \in {loading[p].counter, loading[p].counter + 1}
        /\ Moved(p, "open", turn, rd, NoFile, list[p])
  <2>1. CASE Retries(p)
    BY <2>1 DEF Retries
  <2>2. CASE Skips(p)
    <3>1. PICK turn, rd : /\ turn = [TurnEnds(loading[p]) EXCEPT !.found = TRUE]
                          /\ pc[p] = "parse" /\ ByVariants(p)
                          /\ Moved(p, "open", turn, rd, NoFile, list[p])
      BY <2>2 DEF Skips, Loads
    <3>2. turn.counter = loading[p].counter
      <4>1. loading[p] \in LoadingType /\ loading[p].left # <<>>
        BY <3>1, TypesAt, StageAt DEF TInv, Stage
      <4>2. PICK e \in LoadingType : e = TurnEnds(loading[p]) /\ e.counter = loading[p].counter
        BY <4>1, TurnEndsType
      <4> QED
        BY <3>1, <4>2 DEF LoadingType
    <3> QED
      BY <3>1, <3>2
  <2> QED
    BY <2>1, <2>2
<1>2. config.perProcess
  BY <1>1, VariantsOf
<1>3. Numbered(TestBase(config, p), FALSE, LinesOf(list[p]) \o file[p].lines, loading[p].counter)
  BY <1>2 DEF NInv, NumbersOk, AllLines
<1>4. Numbered(TestBase(config, p), FALSE, LinesOf(list[p]), turn.counter)
  <2>1. PICK base \in Nat, count \in Nat :
          base = TestBase(config, p) /\ count = loading[p].counter
    BY NumbersAt
  <2>2. PICK s \in Seq(LineType), t \in Seq(LineType) :
          s = LinesOf(list[p]) /\ t = file[p].lines
    BY NumbersAt
  <2>3. PICK more \in Nat : more = turn.counter /\ count <= more
    BY <1>1, <2>1
  <2>4. Numbered(base, FALSE, s \o t, count)
    BY <1>3, <2>1, <2>2
  <2>5. Numbered(base, FALSE, s, more)
    BY <2>3, <2>4, NumberedLess
  <2> QED
    BY <2>1, <2>2, <2>3, <2>5
<1>5. AllLines(list[p], NoFile) = LinesOf(list[p])
  <2>1. list[p] \in ListType /\ NoFile.lines = <<>>
    BY TypesAt DEF TInv, NoFile, NewFile
  <2> QED
    BY <2>1, OnlyLoaded
<1>6. NamesAre(config, list[p])
  BY DEF NInv, NumbersOk
<1>7. NumbersOk(p, "open", turn, NoFile, list[p])
  BY <1>2, <1>4, <1>5, <1>6 DEF NumbersOk, TurnOk
<1> QED
  BY <1>1, <1>7, MovedNumbers

LEMMA MakesNumbers == ASSUME TInv, NInv, NEW p \in Processes, Makes(p) PROVE NInv'
<1> DEFINE turn == [loading[p] EXCEPT !.counter = @ + 1]
           counted == CountCall(file[p], Parsed(p).async)
           line == LineMade(p)
           f == AddLine(counted, Parsed(p), line)
<1>1. PICK rd : Parsing(p) /\ Moved(p, "parse", turn, rd, f, list[p])
  BY DEF Makes
<1>2. PICK place \in Places :
        /\ Parsed(p) = StepAt(place) /\ line \in LineType
        /\ line.test = TestId(config, p, loading[p].counter + 1)
  BY <1>1, LineMadeIs
<1>3. file[p] \in FileType /\ loading[p] \in LoadingType
  BY TypesAt DEF TInv
<1>4. counted \in FileType /\ counted.lines = file[p].lines /\ counted.name = file[p].name
  BY <1>2, <1>3, CountedIs
<1>5. turn.counter = loading[p].counter + 1 /\ turn.left = loading[p].left
  BY <1>3 DEF LoadingType
<1> HIDE DEF turn, line, counted
<1>6. f.lines = Append(file[p].lines, line) /\ f.name = file[p].name
  <2>1. f = AddLine(counted, StepAt(place), line)
    BY <1>2
  <2> HIDE DEF f
  <2>2. f.lines = Append(counted.lines, line) /\ f.name = counted.name
    BY <1>2, <1>4, <2>1, AddLineIs
  <2> QED
    BY <1>4, <2>2
<1> HIDE DEF f
<1>7. PICK s \in Seq(LineType) : s = AllLines(list[p], file[p])
  BY NumbersAt, ConcatProperties DEF AllLines
<1>8. AllLines(list[p], f) = Append(s, line)
  <2>1. PICK a \in Seq(LineType), b \in Seq(LineType) : a = LinesOf(list[p]) /\ b = file[p].lines
    BY NumbersAt
  <2>2. PICK c \in Seq(LineType) : c = <<line>>
    BY <1>2, SingleSeq
  <2>3. Append(b, line) = b \o c /\ Append(s, line) = s \o c
    BY <1>2, <2>2, AppendIsConcat
  <2>4. (a \o b) \o c = a \o (b \o c)
    BY ConcatAssociative
  <2>5. s = a \o b
    BY <1>7, <2>1 DEF AllLines
  <2>6. AllLines(list[p], f) = a \o Append(b, line)
    BY <1>6, <2>1 DEF AllLines
  <2> QED
    BY <2>3, <2>4, <2>5, <2>6
<1>9. PICK base \in Nat, count \in Nat :
        base = TestBase(config, p) /\ count = loading[p].counter
  BY NumbersAt
<1>10. line.test = base + count + 1
  <2>1. PICK next \in Nat : next = count + 1
    OBVIOUS
  <2>2. TestId(config, p, next) = base + next
    BY <1>9, TestIdIs
  <2> QED
    BY <1>2, <1>9, <2>1, <2>2
<1>11. Numbered(base, ~config.perProcess, s, count)
  BY <1>7, <1>9 DEF NInv, NumbersOk
<1>12. Numbered(base, ~config.perProcess, Append(s, line), count + 1)
  BY <1>2, <1>10, <1>11, NumberedAppend
<1>13. TurnOk(config, ListOf(p), "parse", turn, f, list[p])
  BY <1>1, <1>5, <1>6, StillReading DEF Parsing
<1>14. NamesAre(config, list[p])
  BY DEF NInv, NumbersOk
<1>15. NumbersOk(p, "parse", turn, f, list[p])
  BY <1>5, <1>8, <1>9, <1>12, <1>13, <1>14 DEF NumbersOk
<1> QED
  BY <1>1, <1>15, MovedNumbers

\* the names of one more scenario
LEMMA GivenMore ==
    ASSUME NEW cfg, NEW l \in ListType, ListMerged(cfg, l), NamesAre(cfg, l), NEW new \in FileType,
           ScenarioMerged(cfg, new), NEW m \in ListType, ListMerged(cfg, m),
           m.scenarios = Append(l.scenarios, new)
    PROVE  /\ NamesAre(cfg, m)
           /\ ScenarioNames(m) = Append(ScenarioNames(l), new.name)
<1>1. PICK n \in Nat : n = Len(l.scenarios) /\ l.scenarios \in Seq(FileType)
  BY LenProperties DEF ListType
<1>2. /\ Len(m.scenarios) = n + 1 /\ \A i \in 1..n : m.scenarios[i] = l.scenarios[i]
      /\ \A i \in 1..n + 1 : i = n + 1 => m.scenarios[i] = new
  BY <1>1, AppendIs
<1> DEFINE S == FileNames \union STRING
<1>3. PICK a \in Seq(S) : a = ScenarioNames(l) /\ Len(a) = n
                          /\ \A i \in 1..n : a[i] = l.scenarios[i].name
  BY <1>1, NamesSeq DEF ScenarioNames
<1>4. PICK b \in Seq(S) : b = ScenarioNames(m) /\ Len(b) = n + 1
                          /\ \A i \in 1..n + 1 : b[i] = m.scenarios[i].name
  BY <1>2, NamesSeq DEF ScenarioNames
<1>5. new.name \in S
  BY DEF FileType
<1> HIDE DEF S
<1>6. \A i \in 1..n : i \in 1..n + 1 /\ b[i] = a[i]
  BY <1>2, <1>3, <1>4
<1>7. b[n + 1] = new.name
  <2>1. n + 1 \in 1..n + 1
    OBVIOUS
  <2> QED
    BY <1>2, <1>4, <2>1
<1>8. b = Append(a, new.name)
  <2>1. PICK c \in Seq(S) :
          /\ c = Append(a, new.name) /\ Len(c) = n + 1 /\ \A i \in 1..n : c[i] = a[i]
          /\ \A i \in 1..n + 1 : i = n + 1 => c[i] = new.name
    <3>1. PICK e \in S : e = new.name
      BY <1>5
    <3>2. /\ Append(a, e) \in Seq(S) /\ Len(Append(a, e)) = Len(a) + 1
          /\ \A i \in 1..Len(a) : Append(a, e)[i] = a[i]
          /\ \A i \in 1..Len(a) + 1 : i = Len(a) + 1 => Append(a, e)[i] = e
      BY AppendIs
    <3>3. Len(a) = n
      BY <1>3
    <3> QED
      BY <3>1, <3>2, <3>3
  <2>2. ASSUME NEW i \in 1..n + 1 PROVE b[i] = c[i]
    <3>1. CASE i = n + 1
      BY <1>7, <2>1, <3>1
    <3>2. CASE i # n + 1
      <4>1. i \in 1..n
        BY <3>2
      <4> QED
        BY <1>6, <2>1, <4>1
    <3> QED
      BY <3>1, <3>2
  <2>3. b = c
    BY <1>4, <2>1, <2>2, SeqEqual
  <2> QED
    BY <2>1, <2>3
<1> DEFINE given(x) == [i \in 1..Len(x) |-> KeptNames(cfg, StepsOf(x[i]))]
<1>9. \A i \in 1..n + 1 : KeptNames(cfg, StepsOf(b[i])) \in Seq(StepNames)
  <2>1. ASSUME NEW i \in 1..n + 1 PROVE KeptNames(cfg, StepsOf(b[i])) \in Seq(StepNames)
    <3>1. ScenarioMerged(cfg, m.scenarios[i])
      BY <1>2 DEF ListMerged
    <3>2. NamesOf(m.scenarios[i].lines) = KeptNames(cfg, StepsOf(b[i]))
      BY <1>4, <3>1 DEF ScenarioMerged
    <3>3. m.scenarios[i] \in FileType
      <4>1. m.scenarios \in Seq(FileType)
        BY DEF ListType
      <4> QED
        BY <1>2, <4>1, ElementOfSeq
    <3>4. m.scenarios[i].lines \in Seq(LineType)
      BY <3>3 DEF FileType
    <3> QED
      BY <3>2, <3>4, NamesType
  <2> QED
    BY <2>1
<1>10. /\ given(a) \in [1..n -> Seq(StepNames)] /\ given(b) \in [1..n + 1 -> Seq(StepNames)]
       /\ \A i \in 1..n : given(a)[i] = given(b)[i]
       /\ \A i \in 1..n + 1 : given(b)[i] = KeptNames(cfg, StepsOf(b[i]))
  BY <1>3, <1>4, <1>6, <1>9
<1>11. NamesGiven(cfg, a) = FlattenSeq(given(a)) /\ NamesGiven(cfg, b) = FlattenSeq(given(b))
  BY DEF NamesGiven
<1> HIDE DEF given
<1>12. /\ given(a) \in Seq(Seq(StepNames)) /\ Len(given(a)) = n
       /\ given(b) \in Seq(Seq(StepNames)) /\ Len(given(b)) = n + 1
  BY <1>10, FunctionIsSeq
<1>13. OneMore(given(a), given(b))
  BY <1>10, <1>12 DEF OneMore
<1>14. FlattenSeq(given(b)) = FlattenSeq(given(a)) \o given(b)[n + 1]
  BY <1>12, <1>13, FlattenMore
<1>15. given(b)[n + 1] = NamesOf(new.lines)
  <2>1. n + 1 \in 1..n + 1
    OBVIOUS
  <2> QED
    BY <1>7, <1>10, <2>1 DEF ScenarioMerged
<1>16. NamesOf(LinesOf(m)) = NamesOf(LinesOf(l)) \o NamesOf(new.lines)
  <2>1. LinesOf(l) \in Seq(LineType) /\ new.lines \in Seq(LineType)
    BY LinesAre DEF FileType
  <2>2. LinesOf(m) = LinesOf(l) \o new.lines
    BY LinesMore
  <2> QED
    BY <2>1, <2>2, NamesConcat
<1>17. NamesOf(LinesOf(l)) = FlattenSeq(given(a))
  BY <1>3, <1>11 DEF NamesAre
<1>18. NamesAre(cfg, m)
  BY <1>4, <1>11, <1>14, <1>15, <1>16, <1>17 DEF NamesAre
<1> QED
  BY <1>3, <1>4, <1>8, <1>18

LEMMA AppendsNumbers ==
    ASSUME TInv, ListsOk, MInv, NInv, NEW p \in Processes, Appends(p) PROVE NInv'
<1> DEFINE m == AddScenario(list[p], file[p])
           turn == [TurnEnds(loading[p]) EXCEPT !.found = TRUE]
<1>1. /\ pc[p] = "parse" /\ reading[p].at = Len(reading[p].steps)
      /\ Moved(p, "open", turn, NotReading, NoFile, m)
  BY DEF Appends, Loads
<1>2. file[p] \in FileType /\ list[p] \in ListType /\ FileOk(file[p])
  BY TypesAt DEF TInv, ListsOk
<1>3. m \in ListType /\ m.scenarios = Append(list[p].scenarios, file[p])
  BY <1>2, AddScenarioIs
<1>4. turn.counter = loading[p].counter /\ turn.left = Tail(loading[p].left)
      /\ loading[p].left # <<>>
  <2>1. loading[p] \in LoadingType /\ loading[p].left # <<>>
    BY <1>1, TypesAt, StageAt DEF TInv, Stage
  <2>2. PICK e \in LoadingType : /\ e = TurnEnds(loading[p]) /\ e.counter = loading[p].counter
                                 /\ e.left = Tail(loading[p].left)
    BY <2>1, TurnEndsType
  <2> QED
    BY <2>1, <2>2 DEF LoadingType
<1>5. ParsedSoFar(config, reading[p], file[p]) /\ ListMerged(config, list[p])
  BY <1>1 DEF MInv, MergeOk
<1>6. ScenarioMerged(config, file[p])
  BY <1>1, <1>5, KeptAll DEF ParsedSoFar, ScenarioMerged
<1>7. CallsCounted(file[p].lines, file[p].asyncSteps, ScenarioDrops(config, file[p]))
  BY <1>1, <1>5 DEF ParsedSoFar, ScenarioDrops
<1>8. ListMerged(config, m)
  BY <1>2, <1>5, <1>6, <1>7, AddScenarioMerges
<1> HIDE DEF m, turn
<1>9. NumbersOk(p, "parse", loading[p], file[p], list[p])
  BY <1>1 DEF NInv
<1>10. NamesAre(config, m) /\ ScenarioNames(m) = Append(ScenarioNames(list[p]), file[p].name)
  BY <1>2, <1>3, <1>5, <1>6, <1>8, <1>9, GivenMore DEF NumbersOk
<1>11. AllLines(m, NoFile) = AllLines(list[p], file[p])
  <2>1. NoFile.lines = <<>>
    BY DEF NoFile, NewFile
  <2>2. AllLines(m, NoFile) = LinesOf(m)
    BY <1>3, <2>1, OnlyLoaded
  <2>3. LinesOf(m) = LinesOf(list[p]) \o file[p].lines
    BY <1>2, <1>3, LinesMore
  <2> QED
    BY <2>2, <2>3 DEF AllLines
<1>12. ASSUME ~config.perProcess
       PROVE  ListOf(p) # <<>> /\ ScenarioNames(m) \o turn.left = Expand(ListOf(p))
  <2>1. /\ ListOf(p) # <<>> /\ ScenarioNames(list[p]) \o loading[p].left = Expand(ListOf(p))
        /\ file[p].name = Head(loading[p].left)
    BY <1>9, <1>12 DEF NumbersOk, TurnOk
  <2> DEFINE S == FileNames \union STRING
  <2>2. PICK names \in Seq(S) : names = ScenarioNames(list[p])
    BY <1>2, NamesSeq
  <2>3. PICK left \in Seq(STRING) : left = loading[p].left
    BY NumbersAt
  <2> HIDE DEF S
  <2>4. left \in Seq(S)
    <3>1. \A i \in 1..Len(left) : left[i] \in S
      BY ElementOfSeq DEF S
    <3> QED
      BY <3>1, SeqNarrowed
  <2>5. PICK rest \in Seq(S) : rest = Tail(left)
    BY <1>4, <2>3, <2>4, HeadTailProperties
  <2>6. PICK head \in Seq(S) : head = <<Head(left)>> /\ Head(left) \in S
    BY <1>4, <2>3, <2>4, HeadTailProperties, SingleSeq
  <2>7. left = head \o rest
    BY <1>4, <2>3, <2>4, <2>5, <2>6
  <2>8. Append(names, Head(left)) = names \o head
    BY <2>6, AppendIsConcat
  <2>9. (names \o head) \o rest = names \o (head \o rest)
    BY ConcatAssociative
  <2>10. ScenarioNames(m) \o turn.left = (names \o head) \o rest
    BY <1>4, <1>10, <2>1, <2>2, <2>3, <2>5, <2>8
  <2> QED
    BY <2>1, <2>2, <2>3, <2>7, <2>9, <2>10
<1>13. TurnOk(config, ListOf(p), "open", turn, NoFile, m)
  BY <1>12 DEF TurnOk
<1>14. NumbersOk(p, "open", turn, NoFile, m)
  BY <1>4, <1>9, <1>10, <1>11, <1>13 DEF NumbersOk
<1> QED
  BY <1>1, <1>14, MovedNumbers

LEMMA ReadsNumbers ==
    ASSUME TInv, ListsOk, MInv, NInv, NEW p \in Processes, Reads(p) PROVE NInv'
  BY ChoosesNumbers, DropsNumbers, OpensNumbers, GoesOnNumbers, MakesNumbers, AppendsNumbers,
     FinishesNumbers DEF Reads

\* the control points of the services come after those of the files
LEMMA StartsFrom ==
    ASSUME NEW p \in Processes, Starts(p) PROVE pc[p] \notin {"new", "open", "include", "parse", "dead"}
  BY DEF Starts, Flags, Asyncs, Listens, Goes, Paces

LEMMA StepNumbers == ASSUME TInv, ListsOk, MInv, NInv, [Next]_vars PROVE NInv'
<1>1. CASE UNCHANGED vars
  <2>1. config' = config /\ pc' = pc /\ loading' = loading /\ file' = file /\ list' = list
    BY <1>1 DEF vars
  <2>2. ASSUME NEW q \in Processes PROVE NumbersOk(q, pc[q], loading[q], file[q], list[q])'
    BY <2>1, SameNumbers DEF NInv
  <2> QED
    BY <2>2 DEF NInv
<1>2. ASSUME NEW p \in Processes, Dies(p) \/ Starts(p) PROVE NInv'
  <2>1. /\ config' = config /\ loading' = loading /\ file' = file /\ list' = list
        /\ pc'[p] \notin {"new", "open", "include", "parse"}
        /\ \A q \in Processes : q # p => pc'[q] = pc[q]
    BY <1>2, StartsAt, StepKeepsLists DEF SameLists
  <2>2. ASSUME NEW q \in Processes PROVE NumbersOk(q, pc[q], loading[q], file[q], list[q])'
    <3>1. NumbersOk(q, pc[q], loading[q], file[q], list[q])
      BY DEF NInv
    <3>2. NumbersOk(q, pc'[q], loading[q], file[q], list[q])
      <4>1. CASE q # p
        BY <2>1, <3>1, <4>1
      <4>2. CASE q = p /\ Dies(p)
        <5>1. pc'[q] = "dead"
          BY <4>2, DiesAt DEF TInv
        <5> QED
          BY <3>1, <5>1 DEF NumbersOk, TurnOk
      <4>3. CASE q = p /\ Starts(p)
        <5>1. pc[q] \notin {"new", "open", "include", "parse", "dead"}
          BY <4>3, StartsFrom
        <5>2. pc'[q] \notin {"new", "open", "include", "parse"}
          BY <2>1, <4>3
        <5> QED
          BY <3>1, <5>1, <5>2 DEF NumbersOk, TurnOk
      <4> QED
        BY <1>2, <4>1, <4>2, <4>3
    <3> QED
      BY <2>1, <3>2, SameNumbers
  <2> QED
    BY <2>2 DEF NInv
<1>3. ASSUME NEW p \in Processes, StepKinds(p) PROVE NInv'
  BY <1>2, <1>3, ReadsNumbers DEF StepKinds
<1> QED
  BY <1>1, <1>3, StepIsOne

LEMMA InitNumbers == ASSUME Init PROVE NInv
<1> SUFFICES ASSUME NEW q \in Processes PROVE NumbersOk(q, pc[q], loading[q], file[q], list[q])
  BY DEF NInv
<1>1. /\ pc[q] = "new" /\ file[q] = NoFile
      /\ list[q].scenarios = <<>> /\ Len(<<>>) = 0 /\ loading[q].counter = 0
  BY DEF Init
<1>2. file[q].lines = <<>>
  <2>1. NoFile.lines = <<>>
    BY DEF NoFile, NewFile
  <2> QED
    BY <1>1, <2>1
<1>3. LinesOf(list[q]) = <<>>
  <2>1. [i \in DOMAIN list[q].scenarios |-> list[q].scenarios[i].lines] = <<>>
    BY <1>1
  <2> QED
    BY <1>1, <2>1, FlattenEmpty DEF LinesOf
<1>4. AllLines(list[q], file[q]) = <<>>
  <2>1. PICK none \in Seq(LineType) : none = <<>>
    BY EmptySeq
  <2>2. none \o <<>> = none
    BY ConcatEmptySeq
  <2> QED
    BY <1>2, <1>3, <2>1, <2>2 DEF AllLines
<1>5. NamesAre(config, list[q])
  <2>1. NamesOf(<<>>) = <<>>
    BY DEF NamesOf
  <2>2. ScenarioNames(list[q]) = <<>>
    BY <1>1 DEF ScenarioNames
  <2>3. [i \in 1..0 |-> KeptNames(config, StepsOf(<<>>[i]))] = <<>>
    OBVIOUS
  <2>4. NamesGiven(config, <<>>) = <<>>
    BY <1>1, <2>3, FlattenEmpty DEF NamesGiven
  <2> QED
    BY <1>3, <2>1, <2>2, <2>4 DEF NamesAre
<1>6. Numbered(TestBase(config, q), ~config.perProcess, <<>>, 0)
  BY <1>1 DEF Numbered
<1>7. TurnOk(config, ListOf(q), pc[q], loading[q], file[q], list[q])
  BY <1>1 DEF TurnOk
<1> QED
  BY <1>1, <1>4, <1>5, <1>6, <1>7 DEF NumbersOk

\* a process that is ready has its lines, and their numbers
LEMMA ReadyNumbers ==
    ASSUME TInv, NInv, NEW p \in Processes, Ready(p)
    PROVE  /\ Lines(p) = LinesOf(list[p]) /\ Lines(p) \in Seq(LineType)
           /\ Numbered(TestBase(config, p), ~config.perProcess, Lines(p), loading[p].counter)
           /\ ~config.perProcess => ScenarioNames(list[p]) = Expand(ListOf(p))
           /\ NamesOf(Lines(p)) = NamesGiven(config, ScenarioNames(list[p]))
<1>1. list[p] \in ListType /\ pc[p] = "ready"
  BY TypesAt DEF TInv, Ready
<1>2. Lines(p) = LinesOf(list[p])
  BY DEF Lines, LinesOf
<1>3. file[p].lines = <<>>
  <2>1. file[p] = NoFile
    BY <1>1, StageAt DEF Stage
  <2>2. NoFile.lines = <<>>
    BY DEF NoFile, NewFile
  <2> QED
    BY <2>1, <2>2
<1>4. AllLines(list[p], file[p]) = Lines(p) /\ Lines(p) \in Seq(LineType)
  BY <1>1, <1>2, <1>3, OnlyLoaded, LinesAre
<1>5. NumbersOk(p, "ready", loading[p], file[p], list[p])
  BY <1>1 DEF NInv
<1> QED
  BY <1>2, <1>4, <1>5 DEF NumbersOk, TurnOk, NamesAre

\* no number of a process is one of another
LEMMA RangesDiffer ==
    ASSUME NEW r \in Nat \ {0}, NEW p \in Nat, NEW q \in Nat, p < q,
           NEW c \in Nat, c <= r, NEW x \in Nat, x <= p * r + c, q * r < x
    PROVE  FALSE
<1>1. PICK d \in Nat : q = p + 1 + d
  <2>1. q - p - 1 \in Nat /\ q = p + 1 + (q - p - 1)
    OBVIOUS
  <2> QED
    BY <2>1
<1>2. (p + 1 + d) * r = p * r + r + d * r /\ d * r \in Nat /\ p * r \in Nat
  OBVIOUS
<1>3. q * r = p * r + r + d * r
  BY <1>1, <1>2
<1>4. x <= p * r + r
  BY <1>2
<1> QED
  BY <1>2, <1>3, <1>4

LEMMA NumbersHold == ASSUME TInv, NInv PROVE TestIdsDiffer
<1> SUFFICES ASSUME NEW p \in Processes, NEW q \in Processes, Ready(p), Ready(q),
                    loading[p].counter <= TestRange, loading[q].counter <= TestRange,
                    NEW i \in DOMAIN Lines(p), NEW j \in DOMAIN Lines(q),
                    Lines(p)[i].test = Lines(q)[j].test
             PROVE  /\ p = q => i = j
                    /\ p # q => ~config.perProcess /\ Lines(p)[i].name = Lines(q)[j].name
  BY DEF TestIdsDiffer
<1>1. ASSUME NEW r \in Processes, Ready(r), NEW k \in DOMAIN Lines(r),
             loading[r].counter <= TestRange
      PROVE  /\ k \in 1..Len(Lines(r)) /\ Lines(r)[k].test \in Nat
             /\ TestBase(config, r) < Lines(r)[k].test
             /\ Lines(r)[k].test <= TestBase(config, r) + loading[r].counter
  <2>1. Lines(r) \in Seq(LineType)
    BY <1>1, ReadyNumbers
  <2>2. k \in 1..Len(Lines(r)) /\ Lines(r)[k] \in LineType
    BY <1>1, <2>1, LenProperties, ElementOfSeq
  <2>3. Lines(r)[k].test \in Nat
    BY <2>2 DEF LineType
  <2>4. Numbered(TestBase(config, r), ~config.perProcess, Lines(r), loading[r].counter)
    BY <1>1, ReadyNumbers
  <2> QED
    BY <2>2, <2>3, <2>4 DEF Numbered
<1>2. PICK x \in Nat : x = Lines(p)[i].test /\ x = Lines(q)[j].test
  BY <1>1
<1>3. i \in 1..Len(Lines(p)) /\ j \in 1..Len(Lines(q))
  BY <1>1
<1>4. ASSUME p = q PROVE i = j
  <2>1. /\ \A k, m \in 1..Len(Lines(p)) : k < m => Lines(p)[k].test < Lines(p)[m].test
        /\ Len(Lines(p)) \in Nat
    BY ReadyNumbers, LenProperties DEF Numbered
  <2>2. i \in Nat /\ j \in Nat /\ i \in 1..Len(Lines(p)) /\ j \in 1..Len(Lines(p))
    BY <1>3, <1>4, <2>1
  <2>3. Lines(p)[i].test = x /\ Lines(p)[j].test = x
    BY <1>2, <1>4
  <2>4. ~(i < j)
    BY <2>1, <2>2, <2>3
  <2>5. ~(j < i)
    BY <2>1, <2>2, <2>3
  <2> QED
    BY <2>2, <2>4, <2>5
<1>5. ASSUME p # q, config.perProcess PROVE FALSE
  <2>1. /\ p \in Nat /\ q \in Nat /\ TestRange \in Nat \ {0}
        /\ loading[p].counter \in Nat /\ loading[q].counter \in Nat
    BY ProcessesAre, FilesAssumption, NumbersAt
  <2>2. /\ p * TestRange < x /\ x <= p * TestRange + loading[p].counter
        /\ q * TestRange < x /\ x <= q * TestRange + loading[q].counter
    BY <1>1, <1>2, <1>5 DEF TestBase
  <2>3. CASE p < q
    BY <2>1, <2>2, <2>3, RangesDiffer
  <2>4. CASE q < p
    BY <2>1, <2>2, <2>4, RangesDiffer
  <2> QED
    BY <1>5, <2>1, <2>3, <2>4
<1>6. ASSUME ~config.perProcess PROVE Lines(p)[i].name = Lines(q)[j].name
  <2>1. NamesOf(Lines(p)) = NamesOf(Lines(q))
    <3>1. ListOf(p) = ListOf(q)
      BY <1>6 DEF ListOf
    <3>2. ScenarioNames(list[p]) = ScenarioNames(list[q])
      BY <1>6, <3>1, ReadyNumbers
    <3> QED
      BY <3>2, ReadyNumbers
  <2>2. x = i /\ x = j
    <3>1. /\ Numbered(0, TRUE, Lines(p), loading[p].counter)
          /\ Numbered(0, TRUE, Lines(q), loading[q].counter)
      BY <1>6, ReadyNumbers DEF TestBase
    <3>2. Lines(p)[i].test = 0 + i /\ Lines(q)[j].test = 0 + j
      BY <1>3, <3>1 DEF Numbered
    <3>3. Len(Lines(p)) \in Nat /\ Len(Lines(q)) \in Nat
      BY ReadyNumbers, LenProperties
    <3>4. PICK m \in Nat, n \in Nat : i \in 1..m /\ j \in 1..n
      BY <1>3, <3>3
    <3>5. i \in Nat /\ j \in Nat
      BY <3>4
    <3>6. x = 0 + i /\ x = 0 + j
      BY <1>2, <3>2
    <3> QED
      BY <3>5, <3>6
  <2>3. NamesOf(Lines(p))[i] = Lines(p)[i].name /\ NamesOf(Lines(q))[j] = Lines(q)[j].name
    BY DEF NamesOf
  <2>4. i = j
    BY <2>2
  <2> QED
    BY <2>1, <2>3, <2>4
<1> QED
  BY <1>4, <1>5, <1>6

LEMMA InvariantOfNumbers == Spec => [](TInv /\ ListsOk /\ MInv /\ NInv)
<1>1. Init => TInv /\ ListsOk /\ MInv /\ NInv
  BY InitTyped, InitLists, InitMerges, InitNumbers
<1>2. TInv /\ ListsOk /\ MInv /\ NInv /\ [Next]_vars => (TInv /\ ListsOk /\ MInv /\ NInv)'
  BY StepTyped, StepLists, StepMerges, StepNumbers
<1> QED
  BY <1>1, <1>2, PTL DEF Spec

\* Line.testId: whatever files are refused and tried again under another name, the numbers of
\* two lines of a process differ, those of two processes with own lists as long as they stay in
\* their ranges, and a number that two processes share stands for the same step of their list.
THEOREM StartNumbersTests == Spec => []TestIdsDiffer
  BY NumbersHold, InvariantOfNumbers, PTL
=============================================================================
