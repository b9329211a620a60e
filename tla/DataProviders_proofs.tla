------------------------ MODULE DataProviders_proofs ------------------------
(***************************************************************************)
(* Proofs about DataProviders, for every number of threads and runs and    *)
(* for every setup.                                                        *)
(***************************************************************************)
EXTENDS DataProviders, FiniteSetTheorems, TLAPS

-----------------------------------------------------------------------------
(* Division with remainder, and the index of a call.                       *)

\* Quotient and remainder.
LEMMA Division ==
    ASSUME NEW n \in Nat \ {0}, NEW a \in Int
    PROVE  /\ a % n \in 0 .. n - 1 /\ a % n \in Int
           /\ a \div n \in Int /\ a = n * (a \div n) + (a % n)
  BY Z3

LEMMA Cancel ==
    ASSUME NEW a \in Int, NEW x \in Int, NEW y \in Int, a + x = a + y
    PROVE  x = y
  OBVIOUS

\* The remainder of a division is unique (cycling: index % size).
LEMMA ModUnique ==
    ASSUME NEW n \in Nat \ {0}, NEW q \in Int, NEW r \in 0 .. n - 1
    PROVE  (n * q + r) % n = r
  <1> DEFINE a == n * q + r
  <1>1. a \in Int
    BY Z3
  <1>2. a % n \in 0 .. n - 1 /\ a \div n \in Int /\ a = n * (a \div n) + (a % n)
    BY <1>1, Division
  <1> HIDE DEF a
  <1>3. PICK d \in Int : d = a \div n
    BY <1>2
  <1>4. \A x, y \in Int : x <= y => n * x <= n * y
    BY Z3
  <1>5. CASE d = q
    BY <1>2, <1>3, <1>5 DEF a
  <1>6. CASE d < q
    <2>1. n * (d + 1) <= n * q
      BY <1>3, <1>4, <1>6
    <2> QED BY <1>2, <1>3, <2>1 DEF a
  <1>7. CASE d > q
    <2>1. n * (q + 1) <= n * d
      BY <1>3, <1>4, <1>7
    <2> QED BY <1>2, <1>3, <2>1 DEF a
  <1> QED BY <1>3, <1>5, <1>6, <1>7 DEF a

\* Two numbers with the same remainder differ by a multiple.
LEMMA ModDifference ==
    ASSUME NEW n \in Nat \ {0}, NEW a \in Int, NEW b \in Int, a % n = b % n
    PROVE  (a - b) % n = 0
  <1>1. PICK p \in Int : a = n * p + (a % n)
    BY Division
  <1>2. PICK q \in Int : b = n * q + (b % n)
    BY Division
  <1>3. a % n \in Int
    BY Z3
  <1>4. a - b = n * (p - q) + 0
    BY <1>1, <1>2, <1>3, Z3
  <1>5. (n * (p - q) + 0) % n = 0
    BY ModUnique
  <1> QED BY <1>4, <1>5

\* A number below n is its own remainder, n has none.
LEMMA ModSmall ==
    ASSUME NEW n \in Nat \ {0}
    PROVE  n % n = 0 /\ \A a \in 0 .. n - 1 : a % n = a
  <1>1. (n * 1 + 0) % n = 0
    BY ModUnique
  <1>2. ASSUME NEW a \in 0 .. n - 1 PROVE (n * 0 + a) % n = a
    BY ModUnique
  <1>3. n * 1 + 0 = n /\ \A a \in 0 .. n - 1 : n * 0 + a = a
    BY Z3
  <1> QED BY <1>1, <1>2, <1>3

\* The element after element number p of a list of n, which are counted from 1.
LEMMA ModSuccessor ==
    ASSUME NEW n \in Nat \ {0}, NEW p \in Int
    PROVE  (((p - 1) % n) + 1) % n = p % n
  <1> DEFINE r == (p - 1) % n
  <1>1. r \in 0 .. n - 1
    BY Z3
  <1> DEFINE b == p - 1
  <1>0. b \in Int
    OBVIOUS
  <1>2. PICK q \in Int : b = n * q + (b % n)
    BY <1>0, Division
  <1>3. p - 1 = n * q + r
    BY <1>2
  <1> HIDE DEF r
  <1>4. CASE r + 1 < n
    <2>1. (n * q + (r + 1)) % n = r + 1
      BY <1>1, <1>4, ModUnique
    <2>2. p = n * q + (r + 1)
      BY <1>1, <1>3
    <2>3. (r + 1) % n = r + 1
      BY <1>1, <1>4, ModSmall
    <2> QED BY <2>1, <2>2, <2>3 DEF r
  <1>5. CASE r + 1 = n
    <2>1. (n * (q + 1) + 0) % n = 0
      BY ModUnique
    <2>2. p = n * (q + 1) + 0
      BY <1>1, <1>3, <1>5, Z3
    <2> QED BY <1>5, <2>1, <2>2, ModSmall DEF r
  <1> QED BY <1>1, <1>4, <1>5

\* Different calls of a test have different indexes (dataFromFILE.getElem,
\* identifierGenerator.getValue), and there are as many as calls.
LEMMA IndexInjective ==
    ASSUME NEW n \in Nat \ {0}, NEW t \in 0 .. n - 1, NEW u \in 0 .. n - 1,
           NEW r \in Int, NEW s \in Int, Index(t, r, n) = Index(u, s, n)
    PROVE  t = u /\ r = s
  <1>1. r * n + t = n * r + t /\ s * n + u = n * s + u
    BY Z3
  <1>2. (n * r + t) % n = t /\ (n * s + u) % n = u
    BY ModUnique
  <1>3. t = u
    BY <1>1, <1>2 DEF Index
  <1>4. n * r = n * s
    BY <1>1, <1>3, Z3 DEF Index
  <1>5. r = s
    BY <1>4, Z3
  <1> QED BY <1>3, <1>5

LEMMA IndexBound ==
    ASSUME NEW n \in Nat \ {0}, NEW m \in Nat, NEW t \in 0 .. n - 1, NEW r \in 0 .. m - 1
    PROVE  Index(t, r, n) \in 0 .. m * n - 1
  <1>1. 0 <= r * n /\ (r + 1) * n <= m * n
    BY Z3
  <1>2. (r + 1) * n = r * n + n
    BY Z3
  <1>3. r * n \in Int /\ m * n \in Int
    BY Z3
  <1> QED BY <1>1, <1>2, <1>3 DEF Index

-----------------------------------------------------------------------------
(* Types.                                                                  *)

ClassType ==
    [size : Nat, cycling : BOOLEAN, counter : Nat \union {None}, position : Int,
     threads : Nat, min : Int, rows : Seq(Int), initialized : BOOLEAN, chunk : Nat \ {0},
     next : Int, over : BOOLEAN]

Calls == [thread : Threads, run : 0 .. NRuns - 1, value : Int]

\* Methods that divide by the number of lines, elements or identifiers
Dividing == {"getNextElem", "getElem", "getNextValue", "getValue", "next", "nextValue"}

\* Types of the variables; a thread that is in a call has a run to make it in, and who
\* divides by a size has one.
TypeInv ==
    /\ setup \in Setups
    /\ todo \in Seq(Definitions)
    /\ \A i \in DOMAIN todo : setup.method \in Methods[todo[i].module] \union {"assert"}
    /\ broken \in BOOLEAN
    /\ cls \in ClassType
    /\ pc \in [Threads -> {"idle", "eof", "rotate", "again", "call"}]
    /\ run \in [Threads -> 0 .. NRuns]
    /\ \A t \in Threads : pc[t] # "idle" => run[t] < NRuns
    /\ handed \in Seq(Calls)
    /\ macros \in Int
    /\ cls.cycling /\ setup.method \in Dividing => cls.size > 0
    /\ loaded # <<>> /\ setup.method \in {"next", "nextValue"} => cls.cycling
    /\ todo # <<>> \/ broken \/ loaded # <<>>

\* The arguments of a definition.
LEMMA DefinitionTypes ==
    ASSUME NEW d \in Definitions
    PROVE  /\ d.args \in Arguments
           /\ d.module \in DOMAIN Methods
           /\ d.scenario \in Int
  BY SMT DEF Definitions

\* The definitions of a setup.
LEMMA SetupTypes ==
    ASSUME setup \in Setups
    PROVE  /\ setup.defs \in Seq(Definitions)
           /\ setup.paced \in BOOLEAN /\ setup.target \in Nat
           /\ Scenarios \subseteq Int
           /\ OneInstance => /\ setup.defs[1] \in Definitions
                             /\ setup.method \in Methods[setup.defs[1].module] \union {"assert"}
  <1>1. setup.defs \in Seq(Definitions) /\ setup.paced \in BOOLEAN /\ setup.target \in Nat
    BY SetupsAssumption
  <1>2. \A i \in DOMAIN setup.defs : setup.defs[i] \in Definitions
    BY <1>1
  <1>3. \A i \in DOMAIN setup.defs : setup.method \in Methods[setup.defs[i].module] \union {"assert"}
    BY SetupsAssumption
  <1>4. OneInstance => 1 \in DOMAIN setup.defs
    BY <1>1 DEF OneInstance
  <1>5. Scenarios \subseteq Int
    BY <1>2, DefinitionTypes DEF Scenarios
  <1> QED BY <1>1, <1>2, <1>3, <1>4, <1>5

\* Lines of a chunk (dataChunkFromFILE.getNextChunkFromFile).
LEMMA NextLinesType ==
    ASSUME NEW c \in ClassType, c.next <= c.size
    PROVE  /\ NextLines(c) \in Seq(Int)
           /\ Len(NextLines(c)) \in Nat \ {0}
           /\ c.next + Len(NextLines(c)) <= c.size + 1
           /\ \A i \in 1 .. Len(NextLines(c)) : NextLines(c)[i] = c.next + i - 1
  <1> DEFINE end == IF c.next + c.chunk - 1 < c.size THEN c.next + c.chunk - 1 ELSE c.size
             n == end - c.next + 1
  <1>1. c.size \in Nat /\ c.next \in Int /\ c.chunk \in Nat \ {0}
    BY DEF ClassType
  <1>2. end \in Int /\ end <= c.size /\ end >= c.next
    BY <1>1
  <1>3. n \in Nat \ {0} /\ c.next + n <= c.size + 1
    BY <1>1, <1>2
  <1>4. NextLines(c) = [i \in 1 .. n |-> c.next + i - 1]
    BY DEF NextLines
  <1> HIDE DEF n
  <1>5. NextLines(c) \in Seq(Int) /\ Len(NextLines(c)) = n
    BY <1>1, <1>3, <1>4
  <1> QED BY <1>3, <1>4, <1>5

LEMMA AdvanceType ==
    ASSUME NEW c \in ClassType
    PROVE  Advance(c) \in ClassType
  <1>1. CASE c.next > c.size
    <2>0. <<>> \in Seq(Int)
      OBVIOUS
    <2>1. PICK lines \in Seq(Int) : lines = <<>>
      BY <2>0
    <2>2. Advance(c) = [c EXCEPT !.over = TRUE, !.rows = lines]
      BY <1>1, <2>1 DEF Advance
    <2> QED BY <2>2 DEF ClassType
  <1>2. CASE ~(c.next > c.size)
    <2>1. c.next <= c.size /\ c.next \in Int
      BY <1>2 DEF ClassType
    <2>2. NextLines(c) \in Seq(Int) /\ Len(NextLines(c)) \in Nat
      BY <2>1, NextLinesType
    <2> DEFINE lines == NextLines(c)
               next == c.next + Len(lines)
    <2>3. Advance(c) = [c EXCEPT !.rows = lines, !.next = next]
      BY <1>2 DEF Advance
    <2>4. lines \in Seq(Int) /\ next \in Int
      BY <2>1, <2>2
    <2> HIDE DEF lines, next
    <2> QED BY <2>3, <2>4 DEF ClassType
  <1> QED BY <1>1, <1>2

LEMMA NewGeneratorType ==
    ASSUME NEW c \in ClassType
    PROVE  NewGenerator(c) \in ClassType
  <1> DEFINE next == c.min + 1
             over == c.min > c.size
  <1>1. NewGenerator(c) = [c EXCEPT !.next = next, !.over = over]
    BY DEF NewGenerator
  <1>2. next \in Int /\ over \in BOOLEAN
    BY DEF ClassType
  <1> HIDE DEF next, over
  <1> QED BY <1>1, <1>2 DEF ClassType

\* A random pool holds each identifier once (identifierGenerator.shuffle).
LEMMA ShufflesType ==
    ASSUME NEW a \in Arguments, NEW p \in Shuffles(a)
    PROVE  /\ p \in Seq(Int)
           /\ p = <<>> \/ Len(p) = a.size
           /\ \A i, j \in DOMAIN p : p[i] = p[j] => i = j
  <1>1. a.size \in Nat /\ a.start \in Int /\ a.random \in BOOLEAN
    BY DEF Arguments
  <1>2. CASE ~a.random
    BY <1>2 DEF Shuffles
  <1>3. CASE a.random
    <2>1. /\ p \in [1 .. a.size -> a.start .. a.start + a.size - 1]
          /\ \A i, j \in 1 .. a.size : i # j => p[i] # p[j]
      BY <1>3 DEF Shuffles
    <2>2. p \in Seq(Int) /\ DOMAIN p = 1 .. a.size /\ Len(p) = a.size
      BY <1>1, <2>1
    <2> QED BY <2>1, <2>2
  <1> QED BY <1>1, <1>2, <1>3

\* Loading a definition gives a class (the factory functions).
LEMMA InstancesType ==
    ASSUME cls \in ClassType, NEW d \in Definitions, NEW c \in Instances(d)
    PROVE  c \in ClassType
  <1> DEFINE a == d.args
  <1>1. /\ a \in Arguments /\ d.module \in DOMAIN Methods
        /\ d.module = "dataChunkFromFILE" => a.start \in Nat
    BY DEF Definitions
  <1>2. cls \in ClassType /\ NThreads \in Nat
    BY ProvidersAssumption
  <1> HIDE DEF a
  <1>3. CASE d.module = "dataFromFILE"
    <2>1. c = LoadFile(a)
      BY <1>3 DEF Instances, a
    <2> QED BY <1>1, <1>2, <2>1 DEF LoadFile, ClassType, Arguments, None
  <1>4. CASE d.module = "dataChunkFromFILE"
    <2> DEFINE k == [cls EXCEPT !.size = a.size, !.cycling = a.cycle, !.min = a.start,
                        !.chunk = a.chunk, !.counter = IF a.counted THEN 0 ELSE None,
                        !.initialized = TRUE]
    <2>1. c = InitChunks(a)
      BY <1>4 DEF Instances, a
    <2>2. k \in ClassType
      BY <1>1, <1>2 DEF ClassType, Arguments, None
    <2>3. c = cls \/ c = Advance(NewGenerator(k))
      BY <2>1 DEF InitChunks
    <2> QED BY <1>2, <2>2, <2>3, AdvanceType, NewGeneratorType
  <1>5. CASE d.module = "identifierGenerator"
    <2>1. PICK p \in Shuffles(a) : c = InitIdentifiers(a, p)
      BY <1>5 DEF Instances, a
    <2>2. p \in Seq(Int)
      BY <1>1, ShufflesType
    <2>3. /\ a.start \in Int /\ a.size \in Nat /\ a.cycle \in BOOLEAN /\ NThreads \in Nat
      BY <1>1, ProvidersAssumption DEF Arguments
    <2>4. c = [cls EXCEPT !.min = a.start, !.position = a.start, !.cycling = a.cycle,
                          !.size = a.size, !.rows = p, !.threads = NThreads]
      BY <2>1 DEF InitIdentifiers
    <2> QED BY <1>2, <2>2, <2>3, <2>4 DEF ClassType
  <1>6. CASE d.module = "listGenerator"
    <2>1. c = InitList(a)
      BY <1>6 DEF Instances, a
    <2> QED BY <1>1, <1>2, <2>1 DEF InitList, ClassType, Arguments
  <1>7. CASE d.module = "CsvDataFile"
    <2> DEFINE n == cls.size + a.size
    <2>1. c = [cls EXCEPT !.size = n, !.cycling = TRUE]
      BY <1>7 DEF Instances, InitCsv, a
    <2>2. n \in Nat
      BY <1>1, <1>2 DEF ClassType, Arguments
    <2> HIDE DEF n
    <2> QED BY <1>2, <2>1, <2>2 DEF ClassType
  <1>8. CASE d.module = "Increment"
    <2>1. c = InitIncrement(a)
      BY <1>8 DEF Instances, a
    <2> QED BY <1>1, <1>2, <2>1 DEF InitIncrement, ClassType, Arguments
  <1> QED BY <1>1, <1>3, <1>4, <1>5, <1>6, <1>7, <1>8 DEF Methods

\* An instance whose methods divide by its size has a size, and a list starts again.
LEMMA InstancesDivide ==
    ASSUME cls \in ClassType, NEW d \in Definitions, NEW c \in Instances(d), ~Refused(d),
           NEW method, method \in Methods[d.module] \union {"assert"},
           cls.cycling /\ method \in Dividing => cls.size > 0
    PROVE  /\ c.cycling /\ method \in Dividing => c.size > 0
           /\ method \in {"next", "nextValue"} => c.cycling
  <1> DEFINE a == d.args
  <1>1. a \in Arguments /\ d.module \in DOMAIN Methods
    BY DEF Definitions
  <1>2. a.size \in Nat /\ cls.size \in Nat
    BY <1>1 DEF Arguments, ClassType
  <1> HIDE DEF a
  <1>3. CASE d.module = "dataFromFILE"
    <2>1. c = LoadFile(a) /\ ~FileRefused(a)
      BY <1>3 DEF Instances, Refused, a
    <2>2. c.size > 0
      <3>1. CASE cls.size # 0
        BY <2>1, <3>1, <1>2 DEF LoadFile
      <3>2. CASE cls.size = 0
        <4>1. c.size = a.size
          BY <2>1, <3>2 DEF LoadFile, ClassType
        <4> QED BY <1>2, <2>1, <3>2, <4>1 DEF FileRefused
      <3> QED BY <3>1, <3>2
    <2>3. method \notin {"next", "nextValue"}
      BY <1>3 DEF Methods
    <2> QED BY <2>2, <2>3
  <1>4. CASE d.module = "dataChunkFromFILE"
    BY <1>4 DEF Methods, Dividing
  <1>5. CASE d.module = "identifierGenerator"
    <2>1. PICK p \in Shuffles(a) : c = InitIdentifiers(a, p)
      BY <1>5 DEF Instances, a
    <2>2. c.size = a.size /\ c.cycling = a.cycle
      BY <2>1 DEF InitIdentifiers, ClassType
    <2>3. a.cycle => a.size > 0
      BY <1>5 DEF Definitions, a
    <2>4. method \notin {"next", "nextValue"}
      BY <1>5 DEF Methods
    <2> QED BY <2>2, <2>3, <2>4
  <1>6. CASE d.module = "listGenerator"
    <2>1. c = InitList(a)
      BY <1>6 DEF Instances, a
    <2>2. c.size = a.size /\ c.cycling
      BY <2>1 DEF InitList, ClassType
    <2>3. a.size > 0
      BY <1>6 DEF Definitions, a
    <2> QED BY <2>2, <2>3
  <1>7. CASE d.module = "CsvDataFile"
    <2>1. c = InitCsv(a) /\ ~CsvRefused(a)
      BY <1>7 DEF Instances, Refused, a
    <2>2. c.size = cls.size + a.size /\ c.cycling
      BY <2>1 DEF InitCsv, ClassType
    <2>3. cls.size + a.size > 0
      BY <1>2, <2>1 DEF CsvRefused
    <2> QED BY <2>2, <2>3
  <1>8. CASE d.module = "Increment"
    BY <1>8 DEF Methods, Dividing
  <1> QED BY <1>1, <1>3, <1>4, <1>5, <1>6, <1>7, <1>8 DEF Methods

\* The index of a call is a natural number, also after the division.
LEMMA OwnIndexType ==
    ASSUME TypeInv, setup.method \in Dividing, NEW t \in Threads, run[t] < NRuns,
           NEW n \in Nat
    PROVE  OwnIndex(t, n) \in Nat
  <1>1. run[t] \in Nat /\ t \in Nat /\ cls \in ClassType
    BY ProvidersAssumption DEF TypeInv, Threads
  <1>2. Index(t, run[t], n) \in Nat /\ Index(t, run[t], n) \in Int
    BY <1>1, Z3 DEF Index
  <1>3. CASE cls.cycling
    <2>1. cls.size \in Nat \ {0}
      BY <1>1, <1>3 DEF TypeInv, ClassType
    <2>2. Index(t, run[t], n) % cls.size \in 0 .. cls.size - 1
      BY <1>2, <2>1, Division
    <2> QED BY <1>3, <2>1, <2>2 DEF OwnIndex
  <1>4. CASE ~cls.cycling
    BY <1>2, <1>4 DEF OwnIndex
  <1> QED BY <1>3, <1>4

\* A call that ends.
LEMMA FinishStep ==
    ASSUME TypeInv, NEW t \in Threads, run[t] < NRuns, Finish(t)
    PROVE  /\ pc' \in [Threads -> {"idle", "eof", "rotate", "again", "call"}]
           /\ run' \in [Threads -> 0 .. NRuns]
           /\ pc'[t] = "idle" /\ run'[t] = run[t] + 1
           /\ \A u \in Threads \ {t} : pc'[u] = pc[u] /\ run'[u] = run[u]
           /\ \A u \in Threads : pc'[u] # "idle" => run'[u] < NRuns
  <1>1. NRuns \in Nat /\ run[t] \in 0 .. NRuns
    BY ProvidersAssumption DEF TypeInv
  <1>2. run[t] + 1 \in 0 .. NRuns
    BY <1>1
  <1> QED BY <1>1, <1>2 DEF Finish, TypeInv

\* A call that hands out a value.
LEMMA HandStep ==
    ASSUME TypeInv, NEW t \in Threads, run[t] < NRuns, NEW value \in Int, Hand(t, value)
    PROVE  /\ Finish(t) /\ failures' = failures
           /\ handed' \in Seq(Calls)
           /\ Len(handed) \in Nat /\ Len(handed') = Len(handed) + 1
           /\ handed'[Len(handed) + 1] = [thread |-> t, run |-> run[t], value |-> value]
           /\ \A i \in 1 .. Len(handed) : handed'[i] = handed[i]
           /\ handed' # <<>> /\ Last' = value
  <1> DEFINE call == [thread |-> t, run |-> run[t], value |-> value]
  <1>1. NRuns \in Nat /\ run[t] \in 0 .. NRuns - 1
    BY ProvidersAssumption DEF TypeInv
  <1>2. call \in Calls
    BY <1>1 DEF Calls
  <1>3. handed \in Seq(Calls) /\ handed' = Append(handed, call)
    BY DEF TypeInv, Hand
  <1>4. call.value = value
    OBVIOUS
  <1> HIDE DEF call
  <1>5. /\ handed' \in Seq(Calls) /\ Len(handed) \in Nat /\ Len(handed') = Len(handed) + 1
        /\ handed'[Len(handed) + 1] = call
        /\ \A i \in 1 .. Len(handed) : handed'[i] = handed[i]
        /\ handed' # <<>>
    BY <1>2, <1>3
  <1>6. Last' = value
    BY <1>4, <1>5 DEF Last
  <1> QED BY <1>5, <1>6 DEF Hand, call

\* A call that raises.
LEMMA FailStep ==
    ASSUME TypeInv, NEW t \in Threads, run[t] < NRuns, NEW error, Fail(t, error)
    PROVE  /\ Finish(t) /\ handed' = handed
           /\ failures' = failures
                            \union {[thread |-> t, run |-> run[t], error |-> error]}
  BY DEF Fail

\* The next line of a file in chunks.
LEMMA NextRowType ==
    ASSUME TypeInv
    PROVE  NextRow \in ClassType
  BY AdvanceType DEF NextRow, TypeInv

\* The definition that is loaded, and those that are left.
LEMMA HeadTail ==
    ASSUME NEW S, NEW s \in Seq(S), s # <<>>
    PROVE  /\ Head(s) \in S /\ Head(s) = s[1] /\ 1 \in DOMAIN s
           /\ Tail(s) \in Seq(S)
           /\ \A i \in DOMAIN Tail(s) : i + 1 \in DOMAIN s /\ Tail(s)[i] = s[i + 1]
           /\ Len(s) = 1 => Tail(s) = <<>>
  <1>1. Len(s) \in Nat \ {0} /\ DOMAIN s = 1 .. Len(s)
    OBVIOUS
  <1>2. Tail(s) \in Seq(S) /\ Len(Tail(s)) = Len(s) - 1
    BY <1>1
  <1>3. \A i \in DOMAIN Tail(s) : i + 1 \in DOMAIN s /\ Tail(s)[i] = s[i + 1]
    BY <1>1, <1>2
  <1>4. Head(s) = s[1] /\ Head(s) \in S
    BY <1>1
  <1>5. Len(s) = 1 => Tail(s) = <<>>
    <2> DEFINE r == Tail(s)
    <2>1. Len(s) = 1 => Len(r) = 0 /\ r \in Seq(S)
      BY <1>2
    <2> HIDE DEF r
    <2>2. Len(s) = 1 => r = <<>>
      BY <2>1
    <2> QED BY <2>2 DEF r
  <1> QED BY <1>1, <1>2, <1>3, <1>4, <1>5

LEMMA TypeInit ==
    ASSUME Init
    PROVE  TypeInv
  <1>1. setup \in Setups /\ todo = setup.defs
    BY DEF Init
  <1>2. todo \in Seq(Definitions) /\ todo # <<>>
        /\ \A i \in DOMAIN todo : setup.method \in Methods[todo[i].module] \union {"assert"}
    BY <1>1, SetupsAssumption
  <1>3. cls \in ClassType /\ ~cls.cycling
    <2>1. <<>> \in Seq(Int)
      OBVIOUS
    <2> QED BY <2>1 DEF Init, NewClass, ClassType, None
  <1>4. /\ pc \in [Threads -> {"idle", "eof", "rotate", "again", "call"}]
        /\ \A t \in Threads : pc[t] = "idle"
    BY DEF Init
  <1>5. run \in [Threads -> 0 .. NRuns]
    BY ProvidersAssumption DEF Init
  <1>6. handed \in Seq(Calls)
    <2>1. <<>> \in Seq(Calls)
      OBVIOUS
    <2> QED BY <2>1 DEF Init
  <1>7. loaded = <<>> /\ broken \in BOOLEAN
    BY DEF Init
  <1>8. macros \in Int
    BY DEF Init, None
  <1> QED BY <1>1, <1>2, <1>3, <1>4, <1>5, <1>6, <1>7, <1>8 DEF TypeInv

\* Loading keeps the types.
LEMMA TypeLoad ==
    ASSUME TypeInv, LoadMacro
    PROVE  TypeInv'
  <1> DEFINE d == Head(todo)
             key == <<d.scenario, IF d.name = "" THEN d.module ELSE d.name>>
             known == key \in DOMAIN loaded
  <1>1. /\ todo # <<>> /\ todo' = Tail(todo) /\ ~broken
        /\ broken' = IF known THEN d.name = "" ELSE Refused(d)
        /\ IF known \/ broken' THEN UNCHANGED <<cls, loaded>>
           ELSE /\ cls' \in Instances(d)
                /\ loaded' = [k \in DOMAIN loaded \union {key} |->
                                    IF k = key THEN d ELSE loaded[k]]
        /\ UNCHANGED <<setup, pc, run, handed, failures, macros, scn>>
    BY DEF LoadMacro
  <1>2. todo \in Seq(Definitions) /\ d \in Definitions /\ d = todo[1] /\ 1 \in DOMAIN todo
    BY <1>1, HeadTail DEF TypeInv
  <1>3. setup.method \in Methods[d.module] \union {"assert"}
    BY <1>2 DEF TypeInv
  <1>4. /\ todo' \in Seq(Definitions)
        /\ \A i \in DOMAIN todo' : i + 1 \in DOMAIN todo /\ todo'[i] = todo[i + 1]
    BY <1>1, <1>2, HeadTail
  <1>5. \A i \in DOMAIN todo' : setup.method \in Methods[todo'[i].module] \union {"assert"}
    BY <1>4 DEF TypeInv
  <1> HIDE DEF d, key
  <1>6. broken' \in BOOLEAN
    BY <1>1, Zenon DEF Refused, FileRefused, ChunkRefused, CsvRefused
  <1>7. CASE known \/ broken'
    <2>1. UNCHANGED <<cls, loaded>>
      BY <1>1, <1>7
    <2>2. known => loaded # <<>>
      OBVIOUS
    <2> QED BY <1>1, <1>4, <1>5, <1>6, <1>7, <2>1, <2>2 DEF TypeInv
  <1>8. CASE ~known /\ ~broken'
    <2>1. cls' \in Instances(d) /\ ~Refused(d)
      BY <1>1, <1>8
    <2>2. cls \in ClassType /\ (cls.cycling /\ setup.method \in Dividing => cls.size > 0)
      BY DEF TypeInv
    <2>3. cls' \in ClassType
      BY <1>2, <2>1, <2>2, InstancesType
    <2>4. /\ cls'.cycling /\ setup.method \in Dividing => cls'.size > 0
          /\ setup.method \in {"next", "nextValue"} => cls'.cycling
      BY <1>2, <1>3, <2>1, <2>2, InstancesDivide
    <2>5. key \in DOMAIN loaded'
      BY <1>1, <1>8
    <2>6. loaded' # <<>>
      BY <2>5
    <2> QED BY <1>1, <1>4, <1>5, <1>6, <2>3, <2>4, <2>6 DEF TypeInv
  <1> QED BY <1>7, <1>8

\* What a call may change without disturbing the types.
LEMMA TypeCall ==
    ASSUME TypeInv,
           UNCHANGED <<setup, todo, loaded, broken>>,
           cls' \in ClassType, cls'.cycling = cls.cycling, cls'.size = cls.size,
           pc' \in [Threads -> {"idle", "eof", "rotate", "again", "call"}],
           run' \in [Threads -> 0 .. NRuns],
           \A u \in Threads : pc'[u] # "idle" => run'[u] < NRuns,
           handed' \in Seq(Calls), macros' \in Int
    PROVE  TypeInv'
  BY DEF TypeInv

\* A call that hands out a number or raises.
LEMMA TypeHand ==
    ASSUME TypeInv, NEW t \in Threads, run[t] < NRuns, NEW value \in Int,
           Hand(t, value) \/ (\E error : Fail(t, error)),
           UNCHANGED Shared, cls' \in ClassType, cls'.cycling = cls.cycling, cls'.size = cls.size
    PROVE  TypeInv'
  <1>1. handed' \in Seq(Calls)
    BY HandStep DEF TypeInv, Fail
  <1>2. Finish(t)
    BY DEF Hand, Fail
  <1>3. UNCHANGED <<setup, todo, loaded, broken>> /\ macros' \in Int
    BY DEF Shared, TypeInv
  <1> QED BY <1>1, <1>2, <1>3, FinishStep, TypeCall

LEMMA TypeFile ==
    ASSUME TypeInv, NEW t \in Threads, FileNext(t) \/ FileElem(t)
    PROVE  TypeInv'
  <1>1. run[t] < NRuns /\ cls \in ClassType
    BY DEF FileNext, FileElem, Ready, TypeInv
  <1>2. CASE FileNext(t)
    <2> DEFINE over == cls.position + 1 > cls.size
               position == IF over /\ cls.cycling THEN 1 ELSE cls.position + 1
               counter == IF over /\ cls.cycling /\ cls.counter # None
                          THEN cls.counter + 1 ELSE cls.counter
    <2>1. cls' = [cls EXCEPT !.position = position, !.counter = counter]
      BY <1>2 DEF FileNext
    <2>2. position \in Int /\ counter \in Nat \union {None}
      BY <1>1 DEF ClassType
    <2> HIDE DEF position, counter
    <2>3. cls' \in ClassType /\ cls'.cycling = cls.cycling /\ cls'.size = cls.size
          /\ cls'.position \in Int
      BY <1>1, <2>1, <2>2 DEF ClassType
    <2>4. (Hand(t, cls'.position) \/ (\E error : Fail(t, error))) /\ UNCHANGED Shared
      BY <1>2 DEF FileNext
    <2> QED BY <1>1, <2>3, <2>4, TypeHand
  <1>3. CASE FileElem(t)
    <2> DEFINE k == OwnIndex(t, cls.threads)
    <2>1. cls.threads \in Nat /\ setup.method \in Dividing
      BY <1>1, <1>3 DEF ClassType, FileElem, Ready, Dividing
    <2>2. k \in Nat
      BY <1>1, <2>1, OwnIndexType
    <2>3. (Hand(t, k + 1) \/ (\E error : Fail(t, error))) /\ UNCHANGED Shared /\ UNCHANGED cls
      BY <1>3 DEF FileElem
    <2> HIDE DEF k
    <2>4. k + 1 \in Int
      BY <2>2
    <2> QED BY <1>1, <2>3, <2>4, TypeHand
  <1> QED BY <1>2, <1>3

\* The lines in memory without the first one, and with the next chunk if there were none.
LEMMA RowsType ==
    ASSUME TypeInv, NEW rows \in Seq(Int), cls' = [NextRow EXCEPT !.rows = rows] \/ cls' = NextRow
    PROVE  cls' \in ClassType /\ cls'.cycling = cls.cycling /\ cls'.size = cls.size
  <1>1. NextRow \in ClassType
    BY NextRowType
  <1>2. cls' \in ClassType /\ cls'.cycling = NextRow.cycling /\ cls'.size = NextRow.size
    BY <1>1 DEF ClassType
  <1>3. NextRow.cycling = cls.cycling /\ NextRow.size = cls.size
    BY DEF NextRow, Advance, TypeInv, ClassType
  <1> QED BY <1>2, <1>3

\* A line of a chunk is handed out.
LEMMA TypeRow ==
    ASSUME TypeInv, NEW t \in Threads, run[t] < NRuns, UNCHANGED Shared,
           NextRow.rows # <<>>, Hand(t, Head(NextRow.rows)),
           cls' = [NextRow EXCEPT !.rows = Tail(@)]
    PROVE  TypeInv'
  <1>1. NextRow.rows \in Seq(Int)
    BY NextRowType DEF ClassType
  <1>2. Head(NextRow.rows) \in Int /\ Tail(NextRow.rows) \in Seq(Int)
    BY <1>1, HeadTail
  <1>3. cls' \in ClassType /\ cls'.cycling = cls.cycling /\ cls'.size = cls.size
    BY <1>2, RowsType
  <1> QED BY <1>2, <1>3, TypeHand

LEMMA TypeChunk ==
    ASSUME TypeInv, NEW t \in Threads,
           ChunkLine(t) \/ ChunkCount(t) \/ ChunkRotate(t) \/ ChunkAgain(t)
    PROVE  TypeInv'
  <1>1. run[t] < NRuns /\ cls \in ClassType
    BY DEF ChunkLine, ChunkCount, ChunkRotate, ChunkAgain, Ready, TypeInv
  <1>2. UNCHANGED Shared
    BY DEF ChunkLine, ChunkCount, ChunkRotate, ChunkAgain
  <1>3. UNCHANGED <<setup, todo, loaded, broken>> /\ macros' \in Int
    BY <1>2 DEF Shared, TypeInv
  <1>4. <<>> \in Seq(Int)
    OBVIOUS
  <1>5. CASE ChunkLine(t)
    <2>1. CASE StopIteration
      <3>1. (\E error : Fail(t, error)) /\ UNCHANGED cls
        BY <1>5, <2>1 DEF ChunkLine
      <3> QED BY <1>1, <1>2, <3>1, TypeHand
    <2>2. CASE ~StopIteration /\ NextRow.rows # <<>>
      <3>1. Hand(t, Head(NextRow.rows)) /\ cls' = [NextRow EXCEPT !.rows = Tail(@)]
        BY <1>5, <2>2 DEF ChunkLine
      <3> QED BY <1>1, <1>2, <2>2, <3>1, TypeRow
    <2>3. CASE ~StopIteration /\ NextRow.rows = <<>>
      <3>1. cls' = NextRow
        BY <1>5, <2>3 DEF ChunkLine
      <3>2. cls' \in ClassType /\ cls'.cycling = cls.cycling /\ cls'.size = cls.size
        BY <1>4, <3>1, RowsType
      <3>3. CASE cls.cycling
        <4>1. pc' = [pc EXCEPT ![t] = "eof"] /\ UNCHANGED <<run, handed, failures>>
          BY <1>5, <2>3, <3>3 DEF ChunkLine
        <4> QED BY <1>1, <1>3, <3>2, <4>1, TypeCall DEF TypeInv
      <3>4. CASE ~cls.cycling
        <4>1. \E error : Fail(t, error)
          BY <1>5, <2>3, <3>4 DEF ChunkLine
        <4> QED BY <1>1, <1>2, <3>2, <4>1, TypeHand
      <3> QED BY <3>3, <3>4
    <2> QED BY <2>1, <2>2, <2>3
  <1>6. CASE ChunkCount(t)
    <2> DEFINE counter == IF cls.counter = None THEN cls.counter ELSE cls.counter + 1
    <2>1. /\ pc' = [pc EXCEPT ![t] = "rotate"] /\ UNCHANGED <<run, handed>>
          /\ cls' = [cls EXCEPT !.counter = counter]
      BY <1>6 DEF ChunkCount
    <2>2. counter \in Nat \union {None}
      BY <1>1 DEF ClassType
    <2> HIDE DEF counter
    <2>3. cls' \in ClassType /\ cls'.cycling = cls.cycling /\ cls'.size = cls.size
      BY <1>1, <2>1, <2>2 DEF ClassType
    <2> QED BY <1>1, <1>3, <2>1, <2>3, TypeCall DEF TypeInv
  <1>7. CASE ChunkRotate(t)
    <2>1. /\ pc' = [pc EXCEPT ![t] = "again"] /\ UNCHANGED <<run, handed>>
          /\ cls' = NewGenerator(cls)
      BY <1>7 DEF ChunkRotate
    <2>2. cls' \in ClassType
      BY <1>1, <2>1, NewGeneratorType
    <2>3. cls'.cycling = cls.cycling /\ cls'.size = cls.size
      BY <1>1, <2>1 DEF NewGenerator, ClassType
    <2> QED BY <1>1, <1>3, <2>1, <2>2, <2>3, TypeCall DEF TypeInv
  <1>8. CASE ChunkAgain(t)
    <2>1. CASE StopIteration
      <3>1. (\E error : Fail(t, error)) /\ UNCHANGED cls
        BY <1>8, <2>1 DEF ChunkAgain
      <3> QED BY <1>1, <1>2, <3>1, TypeHand
    <2>2. CASE ~StopIteration /\ NextRow.rows # <<>>
      <3>1. Hand(t, Head(NextRow.rows)) /\ cls' = [NextRow EXCEPT !.rows = Tail(@)]
        BY <1>8, <2>2 DEF ChunkAgain
      <3> QED BY <1>1, <1>2, <2>2, <3>1, TypeRow
    <2>3. CASE ~StopIteration /\ NextRow.rows = <<>>
      <3>1. (\E error : Fail(t, error)) /\ cls' = NextRow
        BY <1>8, <2>3 DEF ChunkAgain
      <3>2. cls' \in ClassType /\ cls'.cycling = cls.cycling /\ cls'.size = cls.size
        BY <1>4, <3>1, RowsType
      <3> QED BY <1>1, <1>2, <3>1, <3>2, TypeHand
    <2> QED BY <2>1, <2>2, <2>3
  <1> QED BY <1>5, <1>6, <1>7, <1>8

LEMMA TypeIdentifiers ==
    ASSUME TypeInv, NEW t \in Threads, PopValue(t) \/ NextValue(t) \/ OwnValue(t)
    PROVE  TypeInv'
  <1>1. run[t] < NRuns /\ cls \in ClassType /\ cls.rows \in Seq(Int) /\ cls.min \in Int
    BY DEF PopValue, NextValue, OwnValue, Ready, TypeInv, ClassType
  <1>2. UNCHANGED Shared
    BY DEF PopValue, NextValue, OwnValue
  <1>3. CASE PopValue(t)
    <2>1. CASE cls.rows = <<>>
      <3>1. (\E error : Fail(t, error)) /\ UNCHANGED cls
        BY <1>3, <2>1 DEF PopValue
      <3> QED BY <1>1, <1>2, <3>1, TypeHand
    <2>2. CASE cls.rows # <<>>
      <3> DEFINE value == cls.rows[Len(cls.rows)]
                 rows == SubSeq(cls.rows, 1, Len(cls.rows) - 1)
      <3>1. Hand(t, value) /\ cls' = [cls EXCEPT !.rows = rows]
        BY <1>3, <2>2 DEF PopValue
      <3>2. value \in Int /\ rows \in Seq(Int)
        BY <1>1, <2>2
      <3> HIDE DEF value, rows
      <3>3. cls' \in ClassType /\ cls'.cycling = cls.cycling /\ cls'.size = cls.size
        BY <1>1, <3>1, <3>2 DEF ClassType
      <3> QED BY <1>1, <1>2, <3>1, <3>2, <3>3, TypeHand
    <2> QED BY <2>1, <2>2
  <1>4. CASE NextValue(t)
    <2> DEFINE position == cls.position + 1
               value == cls.min + IF cls.cycling THEN position % cls.size ELSE position
    <2>1. position \in Int
      BY <1>1 DEF ClassType
    <2>2. cls' = [cls EXCEPT !.position = position]
      BY <1>4 DEF NextValue
    <2>3. value \in Int
      <3>1. CASE cls.cycling
        <4>1. cls.size \in Nat \ {0}
          BY <1>4, <3>1 DEF NextValue, Ready, Dividing, TypeInv, ClassType
        <4>2. position % cls.size \in 0 .. cls.size - 1
          BY <2>1, <4>1, Division
        <4> HIDE DEF position
        <4> QED BY <1>1, <3>1, <4>1, <4>2
      <3>2. CASE ~cls.cycling
        BY <1>1, <2>1, <3>2
      <3> QED BY <3>1, <3>2
    <2> HIDE DEF position
    <2>4. cls' \in ClassType /\ cls'.cycling = cls.cycling /\ cls'.size = cls.size
          /\ cls'.position = position
      BY <1>1, <2>1, <2>2 DEF ClassType
    <2>5. Hand(t, value)
      BY <1>4, <2>4 DEF NextValue
    <2> HIDE DEF value
    <2> QED BY <1>1, <1>2, <2>3, <2>4, <2>5, TypeHand
  <1>5. CASE OwnValue(t)
    <2> DEFINE k == OwnIndex(t, cls.threads)
    <2>1. cls.threads \in Nat /\ setup.method \in Dividing /\ UNCHANGED cls
      BY <1>1, <1>5 DEF ClassType, OwnValue, Ready, Dividing
    <2>2. k \in Nat
      BY <1>1, <2>1, OwnIndexType
    <2>3. IF cls.rows = <<>> THEN Hand(t, cls.min + k)
          ELSE IF k >= Len(cls.rows) THEN Fail(t, "ValueError")
          ELSE Hand(t, cls.rows[k + 1])
      BY <1>5 DEF OwnValue
    <2> HIDE DEF k
    <2>4. CASE cls.rows = <<>>
      <3>1. cls.min + k \in Int
        BY <1>1, <2>2
      <3> QED BY <1>1, <1>2, <2>1, <2>3, <2>4, <3>1, TypeHand
    <2>5. CASE cls.rows # <<>> /\ k >= Len(cls.rows)
      BY <1>1, <1>2, <2>1, <2>3, <2>5, TypeHand
    <2>6. CASE cls.rows # <<>> /\ ~(k >= Len(cls.rows))
      <3>1. cls.rows[k + 1] \in Int
        BY <1>1, <2>2, <2>6
      <3> QED BY <1>1, <1>2, <2>1, <2>3, <2>6, <3>1, TypeHand
    <2> QED BY <2>4, <2>5, <2>6
  <1> QED BY <1>3, <1>4, <1>5

LEMMA TypeLists ==
    ASSUME TypeInv, todo = <<>>, ~broken, NEW t \in Threads, InTurn(t) \/ Increased(t)
    PROVE  TypeInv'
  <1>1. run[t] < NRuns /\ cls \in ClassType
    BY DEF InTurn, Increased, Ready, TypeInv
  <1>2. UNCHANGED Shared
    BY DEF InTurn, Increased
  <1>3. PICK position \in Int : cls' = [cls EXCEPT !.position = position]
    <2>1. cls.position + 1 \in Int
      BY <1>1 DEF ClassType
    <2> QED BY <2>1 DEF InTurn, Increased
  <1>4. cls' \in ClassType /\ cls'.cycling = cls.cycling /\ cls'.size = cls.size
        /\ cls'.position \in Int
    BY <1>1, <1>3 DEF ClassType
  <1>5. CASE InTurn(t)
    <2>1. setup.method \in {"next", "nextValue"} /\ setup.method \in Dividing
      BY <1>5 DEF InTurn, Ready, Dividing
    <2>2. cls'.size \in Nat \ {0}
      BY <1>1, <1>4, <2>1 DEF TypeInv, ClassType
    <2> DEFINE value == ((cls'.position - 1) % cls'.size) + 1
    <2>3. (cls'.position - 1) % cls'.size \in 0 .. cls'.size - 1
      <3>1. cls'.position - 1 \in Int
        BY <1>4
      <3> QED BY <2>2, <3>1, Division
    <2>4. value \in Int
      BY <2>2, <2>3
    <2>5. Hand(t, value)
      BY <1>4, <1>5 DEF InTurn
    <2> HIDE DEF value
    <2> QED BY <1>1, <1>2, <1>4, <2>4, <2>5, TypeHand
  <1>6. CASE Increased(t)
    <2>1. Hand(t, cls'.position)
      BY <1>6 DEF Increased
    <2> QED BY <1>1, <1>2, <1>4, <2>1, TypeHand
  <1> QED BY <1>5, <1>6

LEMMA TypeAssertions ==
    ASSUME TypeInv, NEW t \in Threads, SetMacrosIndex(t) \/ CallMacro(t)
    PROVE  TypeInv'
  <1>1. run[t] < NRuns /\ cls \in ClassType /\ macros \in Int
    BY DEF SetMacrosIndex, CallMacro, Ready, TypeInv
  <1>2. CASE SetMacrosIndex(t)
    <2>1. macros' \in Int
      BY <1>2, SetupTypes DEF SetMacrosIndex, TypeInv
    <2>2. pc' = [pc EXCEPT ![t] = "call"]
          /\ UNCHANGED <<setup, todo, loaded, broken, cls, run, handed, failures>>
      BY <1>2 DEF SetMacrosIndex
    <2> QED BY <1>1, <2>1, <2>2, TypeCall DEF TypeInv
  <1>3. CASE CallMacro(t)
    <2>1. (Hand(t, macros) \/ (\E error : Fail(t, error))) /\ UNCHANGED <<cls, Shared>>
      BY <1>3 DEF CallMacro
    <2> QED BY <1>1, <2>1, TypeHand
  <1> QED BY <1>2, <1>3

LEMMA TypeStep ==
    ASSUME TypeInv, [Next]_vars
    PROVE  TypeInv'
  <1>1. CASE UNCHANGED vars
    BY <1>1 DEF vars, TypeInv
  <1>2. CASE LoadMacro
    BY <1>2, TypeLoad
  <1>3. ASSUME NEW t \in Threads,
               \/ FileNext(t) \/ FileElem(t)
               \/ ChunkLine(t) \/ ChunkCount(t) \/ ChunkRotate(t) \/ ChunkAgain(t)
               \/ PopValue(t) \/ NextValue(t) \/ OwnValue(t)
               \/ InTurn(t) \/ Increased(t)
               \/ SetMacrosIndex(t) \/ CallMacro(t)
        PROVE  TypeInv'
    <2>1. InTurn(t) \/ Increased(t) => todo = <<>> /\ ~broken
      BY DEF InTurn, Increased, Ready
    <2> QED BY <1>3, <2>1, TypeFile, TypeChunk, TypeIdentifiers, TypeLists, TypeAssertions
  <1> QED BY <1>1, <1>2, <1>3 DEF Next

\* The types of the variables (macros: what all instances of a module share).
THEOREM TypesAreKept == Spec => []TypeInv
  <1> QED BY TypeInit, TypeStep, PTL DEF Spec

\* The class of a provider keeps its types, whatever is loaded and called.
THEOREM TypeCorrect == Spec => []TypeOK
  <1>1. TypeInv => TypeOK
    <2>1. TypeInv => cls.counter \in Nat \union {None} /\ cls.position \in Int
      BY DEF TypeInv, ClassType
    <2> QED BY <2>1 DEF TypeInv, TypeOK
  <1> QED BY <1>1, TypesAreKept, PTL

-----------------------------------------------------------------------------
(* The steps of a process that serves one method.                          *)

\* No thread starts before the loading has ended well (Library: the macros are loaded with
\* the scenarios), and a single definition finds the class as its module has made it.
LoadInv ==
    /\ todo # <<>> \/ broken =>
        handed = <<>> /\ failures = {} /\ \A t \in Threads : pc[t] = "idle"
    /\ OneInstance /\ todo # <<>> =>
        todo = setup.defs /\ ~broken /\ loaded = <<>> /\ cls = NewClass
    /\ \A t \in Threads :
        /\ pc[t] \in {"eof", "rotate", "again"} => setup.method = "getLine"
        /\ pc[t] = "call" => setup.method = "assert"

\* The step of a thread is one of the method that the scenarios call.
LEMMA OneMethod ==
    ASSUME TypeInv, LoadInv, Next, ~LoadMacro
    PROVE  /\ todo = <<>> /\ ~broken /\ UNCHANGED <<setup, todo, broken, loaded>>
           /\ \E t \in Threads :
                /\ run[t] < NRuns
                /\ \/ setup.method = "getNextElem" /\ FileNext(t)
                   \/ setup.method = "getElem" /\ FileElem(t)
                   \/ /\ setup.method = "getLine"
                      /\ ChunkLine(t) \/ ChunkCount(t) \/ ChunkRotate(t) \/ ChunkAgain(t)
                   \/ setup.method = "popValue" /\ PopValue(t)
                   \/ setup.method = "getNextValue" /\ NextValue(t)
                   \/ setup.method = "getValue" /\ OwnValue(t)
                   \/ setup.method \in {"next", "nextValue"} /\ InTurn(t)
                   \/ setup.method = "increment" /\ Increased(t)
                   \/ setup.method = "assert" /\ (SetMacrosIndex(t) \/ CallMacro(t))
  <1>1. PICK t \in Threads :
               \/ FileNext(t) \/ FileElem(t)
               \/ ChunkLine(t) \/ ChunkCount(t) \/ ChunkRotate(t) \/ ChunkAgain(t)
               \/ PopValue(t) \/ NextValue(t) \/ OwnValue(t)
               \/ InTurn(t) \/ Increased(t)
               \/ SetMacrosIndex(t) \/ CallMacro(t)
    BY DEF Next
  <1>2. CASE FileNext(t)
    BY <1>2 DEF FileNext, Ready, Shared
  <1>3. CASE FileElem(t)
    BY <1>3 DEF FileElem, Ready, Shared
  <1>4. CASE ChunkLine(t)
    BY <1>4 DEF ChunkLine, Ready, Shared
  <1>5. CASE ChunkCount(t) \/ ChunkRotate(t) \/ ChunkAgain(t)
    <2>1. pc[t] \in {"eof", "rotate", "again"}
      BY <1>5 DEF ChunkCount, ChunkRotate, ChunkAgain
    <2>2. run[t] < NRuns /\ todo = <<>> /\ ~broken /\ setup.method = "getLine"
      BY <2>1 DEF TypeInv, LoadInv
    <2>3. UNCHANGED <<setup, todo, broken, loaded>>
      BY <1>5 DEF ChunkCount, ChunkRotate, ChunkAgain, Shared
    <2> QED BY <1>5, <2>2, <2>3
  <1>6. CASE PopValue(t)
    BY <1>6 DEF PopValue, Ready, Shared
  <1>7. CASE NextValue(t)
    BY <1>7 DEF NextValue, Ready, Shared
  <1>8. CASE OwnValue(t)
    BY <1>8 DEF OwnValue, Ready, Shared
  <1>9. CASE InTurn(t)
    BY <1>9 DEF InTurn, Ready, Shared
  <1>10. CASE Increased(t)
    BY <1>10 DEF Increased, Ready, Shared
  <1>11. CASE SetMacrosIndex(t)
    BY <1>11 DEF SetMacrosIndex, Ready
  <1>12. CASE CallMacro(t)
    <2>1. pc[t] = "call"
      BY <1>12 DEF CallMacro
    <2>2. run[t] < NRuns /\ todo = <<>> /\ ~broken /\ setup.method = "assert"
      BY <2>1 DEF TypeInv, LoadInv
    <2> QED BY <1>12, <2>2 DEF CallMacro, Shared
  <1> QED
    BY <1>1, <1>2, <1>3, <1>4, <1>5, <1>6, <1>7, <1>8, <1>9, <1>10, <1>11, <1>12

\* A step of a thread hands out, raises, or goes on within the call.
LEMMA CallShape ==
    ASSUME TypeInv, LoadInv, Next, ~LoadMacro
    PROVE  \E t \in Threads :
             /\ run[t] < NRuns
             /\ \/ \E value : Hand(t, value)
                \/ \E error : Fail(t, error)
                \/ /\ UNCHANGED <<run, handed, failures>>
                   /\ \E at \in {"eof", "rotate", "again", "call"} :
                        /\ pc' = [pc EXCEPT ![t] = at]
                        /\ IF at = "call" THEN setup.method = "assert"
                           ELSE setup.method = "getLine"
  <1>1. PICK t \in Threads :
                /\ run[t] < NRuns
                /\ \/ setup.method = "getNextElem" /\ FileNext(t)
                   \/ setup.method = "getElem" /\ FileElem(t)
                   \/ /\ setup.method = "getLine"
                      /\ ChunkLine(t) \/ ChunkCount(t) \/ ChunkRotate(t) \/ ChunkAgain(t)
                   \/ setup.method = "popValue" /\ PopValue(t)
                   \/ setup.method = "getNextValue" /\ NextValue(t)
                   \/ setup.method = "getValue" /\ OwnValue(t)
                   \/ setup.method \in {"next", "nextValue"} /\ InTurn(t)
                   \/ setup.method = "increment" /\ Increased(t)
                   \/ setup.method = "assert" /\ (SetMacrosIndex(t) \/ CallMacro(t))
    BY OneMethod
  <1>2. CASE FileNext(t) \/ FileElem(t)
    BY <1>1, <1>2, Zenon DEF FileNext, FileElem
  <1>3. CASE setup.method = "getLine" /\ ChunkLine(t)
    BY <1>1, <1>3, Zenon DEF ChunkLine
  <1>4. CASE setup.method = "getLine" /\ (ChunkCount(t) \/ ChunkRotate(t))
    BY <1>1, <1>4 DEF ChunkCount, ChunkRotate
  <1>5. CASE ChunkAgain(t)
    BY <1>1, <1>5, Zenon DEF ChunkAgain
  <1>6. CASE PopValue(t) \/ NextValue(t)
    BY <1>1, <1>6, Zenon DEF PopValue, NextValue
  <1>7. CASE OwnValue(t)
    BY <1>1, <1>7, Zenon DEF OwnValue
  <1>8. CASE InTurn(t) \/ Increased(t)
    BY <1>1, <1>8, Zenon DEF InTurn, Increased
  <1>9. CASE setup.method = "assert" /\ SetMacrosIndex(t)
    BY <1>1, <1>9 DEF SetMacrosIndex
  <1>10. CASE CallMacro(t)
    BY <1>1, <1>10, Zenon DEF CallMacro
  <1> QED BY <1>1, <1>2, <1>3, <1>4, <1>5, <1>6, <1>7, <1>8, <1>9, <1>10

LEMMA LoadStep ==
    ASSUME TypeInv, LoadInv, [Next]_vars
    PROVE  LoadInv'
  <1>1. CASE UNCHANGED vars
    <2>1. UNCHANGED <<setup, todo, loaded, broken, cls, pc, handed, failures>>
      BY <1>1 DEF vars
    <2> QED BY <2>1 DEF LoadInv, OneInstance, NewClass
  <1>2. CASE LoadMacro
    <2>1. todo # <<>> /\ todo' = Tail(todo) /\ UNCHANGED <<setup, pc, handed, failures>>
      BY <1>2 DEF LoadMacro
    <2>2. todo \in Seq(Definitions)
      BY DEF TypeInv
    <2>3. OneInstance' => OneInstance
      BY <2>1 DEF OneInstance
    <2>4. OneInstance => todo' = <<>>
      BY <2>1, <2>2, HeadTail DEF LoadInv, OneInstance
    <2> QED BY <2>1, <2>3, <2>4 DEF LoadInv
  <1>3. CASE Next /\ ~LoadMacro
    <2>1. todo = <<>> /\ ~broken /\ UNCHANGED <<setup, todo, broken>>
      BY <1>3, OneMethod
    <2>2. PICK t \in Threads :
             /\ run[t] < NRuns
             /\ \/ \E value : Hand(t, value)
                \/ \E error : Fail(t, error)
                \/ \E at \in {"eof", "rotate", "again", "call"} :
                        /\ pc' = [pc EXCEPT ![t] = at]
                        /\ IF at = "call" THEN setup.method = "assert"
                           ELSE setup.method = "getLine"
      BY <1>3, CallShape
    <2>3. pc' = [pc EXCEPT ![t] = "idle"]
          \/ \E at \in {"eof", "rotate", "again", "call"} :
                        /\ pc' = [pc EXCEPT ![t] = at]
                        /\ IF at = "call" THEN setup.method = "assert"
                           ELSE setup.method = "getLine"
      BY <2>2 DEF Hand, Fail, Finish
    <2>4. \A u \in Threads :
            /\ pc'[u] \in {"eof", "rotate", "again"} => setup.method = "getLine"
            /\ pc'[u] = "call" => setup.method = "assert"
      BY <2>3 DEF LoadInv, TypeInv
    <2> QED BY <2>1, <2>4 DEF LoadInv
  <1> QED BY <1>1, <1>2, <1>3

\* The only definition of a setup, when it is loaded.
LEMMA LoadsOne ==
    ASSUME TypeInv, LoadInv, Next, OneInstance, todo # <<>>
    PROVE  /\ setup.defs[1] \in Definitions
           /\ todo' = <<>> /\ setup' = setup
           /\ handed' = <<>> /\ failures' = {} /\ \A t \in Threads : pc'[t] = "idle"
           /\ cls = NewClass
           /\ broken' \/ (cls' \in Instances(setup.defs[1]) /\ ~Refused(setup.defs[1]))
  <1>1. LoadMacro
    BY OneMethod
  <1>2. todo = setup.defs /\ ~broken /\ loaded = <<>> /\ cls = NewClass
        /\ handed = <<>> /\ failures = {} /\ \A t \in Threads : pc[t] = "idle"
    BY DEF LoadInv
  <1>3. todo \in Seq(Definitions) /\ Len(todo) = 1
    BY <1>2 DEF TypeInv, OneInstance
  <1>4. Head(todo) = setup.defs[1] /\ Head(todo) \in Definitions /\ Tail(todo) = <<>>
    BY <1>2, <1>3, HeadTail
  <1> DEFINE d == Head(todo)
             key == <<d.scenario, IF d.name = "" THEN d.module ELSE d.name>>
  <1>5. /\ todo' = Tail(todo) /\ UNCHANGED <<setup, pc, handed, failures>>
        /\ broken' = IF key \in DOMAIN loaded THEN d.name = "" ELSE Refused(d)
        /\ key \in DOMAIN loaded \/ broken' \/ cls' \in Instances(d)
    BY <1>1 DEF LoadMacro
  <1>6. DOMAIN loaded = {}
    BY <1>2
  <1> HIDE DEF d, key
  <1>7. broken' \/ (cls' \in Instances(d) /\ ~Refused(d))
    BY <1>5, <1>6
  <1> QED BY <1>2, <1>4, <1>5, <1>7 DEF d

\* Every call is made by another thread or in another run.
PairsInv ==
    /\ \A i \in DOMAIN handed : handed[i].run < run[handed[i].thread]
    /\ \A i, j \in DOMAIN handed :
            handed[i].thread = handed[j].thread /\ handed[i].run = handed[j].run => i = j

\* The calls that were answered.
LEMMA CallTypes ==
    ASSUME TypeInv
    PROVE  /\ Len(handed) \in Nat /\ DOMAIN handed = 1 .. Len(handed)
           /\ \A i \in DOMAIN handed :
                /\ handed[i].thread \in Threads /\ handed[i].thread \in 0 .. NThreads - 1
                /\ handed[i].run \in 0 .. NRuns - 1 /\ handed[i].run \in Nat
                /\ handed[i].value \in Int
  <1>1. handed \in Seq(Calls) /\ NRuns \in Nat
    BY ProvidersAssumption DEF TypeInv
  <1>2. \A c \in Calls : /\ c.thread \in Threads /\ c.run \in 0 .. NRuns - 1
                         /\ c.value \in Int
    BY DEF Calls
  <1>3. \A i \in DOMAIN handed : handed[i] \in Calls
    BY <1>1
  <1> QED BY <1>1, <1>2, <1>3 DEF Threads

LEMMA HandShape ==
    ASSUME TypeInv, TypeInv', NEW t \in Threads, run[t] < NRuns, NEW value, Hand(t, value)
    PROVE  value \in Int
  <1> DEFINE call == [thread |-> t, run |-> run[t], value |-> value]
             n == Len(handed) + 1
  <1>1. handed' = Append(handed, call) /\ handed \in Seq(Calls) /\ handed' \in Seq(Calls)
    BY DEF Hand, TypeInv
  <1>2. call.value = value
    OBVIOUS
  <1> HIDE DEF call
  <1>3. Len(handed') = n /\ handed'[n] = call /\ n \in 1 .. Len(handed')
    BY <1>1
  <1>4. call \in Calls
    BY <1>1, <1>3
  <1> QED BY <1>2, <1>4 DEF Calls

LEMMA PairsStep ==
    ASSUME TypeInv, TypeInv', LoadInv, PairsInv, [Next]_vars
    PROVE  PairsInv'
  <1>1. CASE UNCHANGED <<run, handed>>
    BY <1>1 DEF PairsInv
  <1>2. handed \in Seq(Calls) /\ run \in [Threads -> 0 .. NRuns] /\ NRuns \in Nat
    BY ProvidersAssumption DEF TypeInv
  <1>3. \A i \in DOMAIN handed : handed[i].thread \in Threads /\ handed[i].run \in Nat
    BY CallTypes
  <1>4. ASSUME NEW t \in Threads, run[t] < NRuns, NEW value, Hand(t, value)
        PROVE  PairsInv'
    <2>1. value \in Int
      BY <1>4, HandShape
    <2> DEFINE n == Len(handed) + 1
    <2>2. /\ n \in Nat /\ DOMAIN handed = 1 .. n - 1 /\ DOMAIN handed' = 1 .. n
          /\ handed'[n].thread = t /\ handed'[n].run = run[t]
          /\ \A i \in 1 .. n - 1 : handed'[i] = handed[i]
      <3>1. handed' \in Seq(Calls) /\ Len(handed) \in Nat /\ Len(handed') = n
            /\ handed'[n] = [thread |-> t, run |-> run[t], value |-> value]
            /\ \A i \in 1 .. Len(handed) : handed'[i] = handed[i]
        BY <1>4, <2>1, HandStep
      <3> QED BY <1>2, <3>1
    <2>3. run'[t] = run[t] + 1 /\ \A u \in Threads \ {t} : run'[u] = run[u]
      BY <1>4, FinishStep DEF Hand
    <2> HIDE DEF n
    <2>4. \A i \in DOMAIN handed' : handed'[i].run < run'[handed'[i].thread]
      BY <1>2, <1>3, <2>2, <2>3 DEF PairsInv
    <2>5. \A i, j \in DOMAIN handed' :
            handed'[i].thread = handed'[j].thread /\ handed'[i].run = handed'[j].run => i = j
      BY <1>2, <1>3, <2>2 DEF PairsInv
    <2> QED BY <2>4, <2>5 DEF PairsInv
  <1>5. ASSUME NEW t \in Threads, run[t] < NRuns, NEW error, Fail(t, error)
        PROVE  PairsInv'
    <2>1. run'[t] = run[t] + 1 /\ (\A u \in Threads \ {t} : run'[u] = run[u]) /\ handed' = handed
      BY <1>5, FinishStep DEF Fail
    <2>2. \A u \in Threads : run[u] \in Nat /\ run'[u] >= run[u]
      BY <1>2, <2>1
    <2>3. \A u \in Threads : run'[u] \in Nat
      BY <1>2, <2>1
    <2>4. \A i \in DOMAIN handed : handed[i].run < run'[handed[i].thread]
      BY <1>3, <2>2, <2>3 DEF PairsInv
    <2> QED BY <2>1, <2>4 DEF PairsInv
  <1>6. CASE LoadMacro
    BY <1>1, <1>6 DEF LoadMacro
  <1>7. CASE Next /\ ~LoadMacro
    BY <1>1, <1>4, <1>5, <1>7, CallShape
  <1> QED BY <1>1, <1>6, <1>7 DEF vars

LEMMA PairsInit ==
    ASSUME Init
    PROVE  LoadInv /\ PairsInv
  <1>1. handed = <<>> /\ failures = {} /\ ~broken /\ todo = setup.defs /\ loaded = <<>>
        /\ cls = NewClass /\ \A t \in Threads : pc[t] = "idle"
    BY DEF Init
  <1>2. DOMAIN handed = {}
    BY <1>1
  <1> QED BY <1>1, <1>2 DEF LoadInv, PairsInv

-----------------------------------------------------------------------------
(* An accepted file suffices.                                              *)

\* As long as a thread has a run left, not all calls of the test have been made.
LEMMA CallsLeft ==
    ASSUME TypeInv, PairsInv, NEW t \in Threads, run[t] < NRuns
    PROVE  Len(handed) < NRuns * NThreads
  <1> DEFINE total == NRuns * NThreads
             k == Index(t, run[t], NThreads)
             slots == (0 .. total - 1) \ {k}
             f == [i \in 1 .. Len(handed) |->
                        Index(handed[i].thread, handed[i].run, NThreads)]
  <1>1. /\ NThreads \in Nat \ {0} /\ NRuns \in Nat \ {0} /\ total \in Nat
        /\ t \in 0 .. NThreads - 1 /\ run[t] \in 0 .. NRuns - 1
    <2>1. NThreads \in Nat \ {0} /\ NRuns \in Nat \ {0}
      BY ProvidersAssumption
    <2>2. total \in Nat
      BY <2>1, Z3
    <2> QED BY <2>1, <2>2 DEF TypeInv, Threads
  <1>2. k \in 0 .. total - 1
    BY <1>1, IndexBound
  <1>3. IsFiniteSet(slots) /\ Cardinality(slots) = total - 1
    <2>1. 0 \in Int /\ total - 1 \in Int
      BY <1>1
    <2>2. IsFiniteSet(0 .. total - 1)
          /\ Cardinality(0 .. total - 1) = IF 0 > total - 1 THEN 0 ELSE (total - 1) - 0 + 1
      BY <2>1, FS_Interval
    <2>3. total > 0
      BY <1>1, <1>2
    <2>4. Cardinality(0 .. total - 1) = total
      BY <1>1, <2>2, <2>3
    <2> HIDE DEF total, k
    <2>5. IsFiniteSet(slots) /\ Cardinality(slots) = Cardinality(0 .. total - 1) - 1
      BY <1>2, <2>2, FS_RemoveElement
    <2> QED BY <2>4, <2>5
  <1>4. IsFiniteSet(1 .. Len(handed)) /\ Cardinality(1 .. Len(handed)) = Len(handed)
    <2>1. Len(handed) \in Nat /\ Len(handed) \in Int /\ 1 \in Int
      BY CallTypes
    <2>2. IsFiniteSet(1 .. Len(handed))
          /\ Cardinality(1 .. Len(handed)) = IF 1 > Len(handed) THEN 0 ELSE Len(handed) - 1 + 1
      BY <2>1, FS_Interval
    <2> QED BY <2>1, <2>2
  <1>5. ASSUME NEW i \in 1 .. Len(handed)
        PROVE  f[i] \in slots
    <2>1. i \in DOMAIN handed
      BY CallTypes
    <2>2. /\ handed[i].thread \in 0 .. NThreads - 1 /\ handed[i].thread \in Threads
          /\ handed[i].run \in 0 .. NRuns - 1 /\ handed[i].run \in Int
      BY <2>1, CallTypes
    <2>3. f[i] \in 0 .. total - 1
      BY <1>1, <2>2, IndexBound
    <2>4. CASE f[i] = k
      <3>1. run[t] \in Int
        BY <1>1
      <3>2. Index(handed[i].thread, handed[i].run, NThreads) = Index(t, run[t], NThreads)
        BY <2>4
      <3>3. handed[i].thread = t /\ handed[i].run = run[t]
        BY <1>1, <2>2, <3>1, <3>2, IndexInjective
      <3>4. handed[i].run < run[t]
        BY <2>1, <3>3 DEF PairsInv
      <3> QED BY <3>1, <3>3, <3>4
    <2> QED BY <2>3, <2>4
  <1>6. f \in [1 .. Len(handed) -> slots]
    BY <1>5
  <1>7. ASSUME NEW i \in 1 .. Len(handed), NEW j \in 1 .. Len(handed), f[i] = f[j]
        PROVE  i = j
    <2>1. i \in DOMAIN handed /\ j \in DOMAIN handed
      BY CallTypes
    <2>2. /\ handed[i].thread \in 0 .. NThreads - 1 /\ handed[i].run \in Int
          /\ handed[j].thread \in 0 .. NThreads - 1 /\ handed[j].run \in Int
      BY <2>1, CallTypes
    <2>3. Index(handed[i].thread, handed[i].run, NThreads)
          = Index(handed[j].thread, handed[j].run, NThreads)
      BY <1>7
    <2>4. handed[i].thread = handed[j].thread /\ handed[i].run = handed[j].run
      BY <1>1, <2>2, <2>3, IndexInjective
    <2> QED BY <2>1, <2>4 DEF PairsInv
  <1>8. Len(handed) \in Nat
    BY CallTypes
  <1> HIDE DEF f, slots
  <1>9. ~(Cardinality(slots) < Cardinality(1 .. Len(handed)))
    BY <1>3, <1>4, <1>6, <1>7, FS_PigeonHole
  <1> QED BY <1>1, <1>3, <1>4, <1>8, <1>9

\* The process has loaded its only definition and serves calls of one method.
Served(method) == OneInstance /\ todo = <<>> /\ ~broken /\ setup.method = method
Only == setup.defs[1].args

\* The module that offers a method.
LEMMA ModuleOf ==
    ASSUME NEW m \in DOMAIN Methods, NEW x, x \in Methods[m] \union {"assert"}
    PROVE  /\ x \in {"getNextElem", "getElem"} => m = "dataFromFILE"
           /\ x = "getLine" => m = "dataChunkFromFILE"
           /\ x \in {"popValue", "getNextValue", "getValue"} => m = "identifierGenerator"
           /\ x = "next" => m = "listGenerator"
           /\ x = "nextValue" => m = "CsvDataFile"
           /\ x = "increment" => m = "Increment"
  BY DEF Methods

LEMMA OnlyTypes ==
    ASSUME setup \in Setups, OneInstance
    PROVE  LET m == setup.defs[1].module
               x == setup.method
           IN  /\ Only \in Arguments
               /\ x = "getLine" => Only.start \in Nat
               /\ m = "listGenerator" => Only.size > 0
               /\ m = "identifierGenerator" /\ Only.cycle => Only.size > 0
               /\ x \in {"getNextElem", "getElem"} => m = "dataFromFILE"
               /\ x = "getLine" => m = "dataChunkFromFILE"
               /\ x \in {"popValue", "getNextValue", "getValue"} => m = "identifierGenerator"
               /\ x = "next" => m = "listGenerator"
               /\ x = "nextValue" => m = "CsvDataFile"
               /\ x = "increment" => m = "Increment"
  <1> DEFINE m == setup.defs[1].module
             x == setup.method
  <1>1. setup.defs[1] \in Definitions /\ x \in Methods[m] \union {"assert"}
    BY SetupTypes
  <1>2. /\ Only \in Arguments /\ m \in DOMAIN Methods
        /\ m = "listGenerator" => Only.size > 0
        /\ m = "identifierGenerator" /\ Only.cycle => Only.size > 0
        /\ m = "dataChunkFromFILE" => Only.start \in Nat
    BY <1>1 DEF Definitions, Only
  <1> HIDE DEF m, x
  <1>3. /\ x \in {"getNextElem", "getElem"} => m = "dataFromFILE"
        /\ x = "getLine" => m = "dataChunkFromFILE"
        /\ x \in {"popValue", "getNextValue", "getValue"} => m = "identifierGenerator"
        /\ x = "next" => m = "listGenerator"
        /\ x = "nextValue" => m = "CsvDataFile"
        /\ x = "increment" => m = "Increment"
    BY <1>1, <1>2, ModuleOf
  <1> QED BY <1>2, <1>3 DEF m, x

\* dataFromFILE.getNextElem: the position counts the calls, until the file starts again.
FileInv ==
    Served("getNextElem") =>
        /\ cls.size = Only.size /\ cls.size > 0 /\ cls.cycling = Only.cycle
        /\ cls.counter = None <=> ~Only.counted
        /\ ~setup.paced /\ ~cls.cycling => cls.size >= NRuns * NThreads
        /\ ~cls.cycling =>
            /\ cls.position \in Nat
            /\ Len(handed) = IF cls.position <= cls.size THEN cls.position ELSE cls.size
            /\ \A i \in DOMAIN handed : handed[i].value = i
            /\ ~setup.paced => cls.position <= cls.size
        /\ cls.cycling /\ Only.counted =>
            /\ cls.position \in 0 .. cls.size /\ Last = cls.position
            /\ handed = <<>> => cls.position = 0
        /\ ~setup.paced => \A f \in failures : f.error = "TypeError"

\* dataFromFILE.getElem: each call has its own line.
ElemInv ==
    Served("getElem") /\ ~setup.paced =>
        /\ cls.size > 0 /\ cls.threads = NThreads
        /\ cls.cycling = Only.cycle
        /\ ~cls.cycling => cls.size >= NRuns * NThreads
        /\ failures = {}
        /\ ~cls.cycling => \A i \in DOMAIN handed :
                handed[i].value = Index(handed[i].thread, handed[i].run, NThreads) + 1

\* What loadFile leaves in the class.
LEMMA FileLoads ==
    ASSUME TypeInv, LoadInv, Next, OneInstance, todo # <<>>, ~broken',
           setup.method \in {"getNextElem", "getElem"}
    PROVE  /\ cls'.size = Only.size /\ cls'.size > 0 /\ cls'.cycling = Only.cycle
           /\ cls'.counter = None <=> ~Only.counted
           /\ cls'.position = 0
           /\ ~setup.paced => cls'.threads = NThreads
           /\ ~setup.paced /\ ~cls'.cycling => cls'.size >= NRuns * NThreads
  <1>1. setup.defs[1].module = "dataFromFILE" /\ Only \in Arguments
    BY OnlyTypes DEF TypeInv
  <1>2. cls = NewClass /\ cls' \in Instances(setup.defs[1]) /\ ~Refused(setup.defs[1])
    BY LoadsOne
  <1>3. cls' = LoadFile(Only) /\ ~FileRefused(Only)
    BY <1>1, <1>2 DEF Instances, Refused, Only
  <1>4. cls' = [NewClass EXCEPT !.size = Only.size, !.cycling = Only.cycle,
                     !.counter = IF Only.counted THEN 0 ELSE None,
                     !.threads = IF setup.paced THEN 0 ELSE NThreads]
    BY <1>2, <1>3 DEF LoadFile, NewClass
  <1>5. /\ cls'.size = Only.size /\ cls'.cycling = Only.cycle /\ cls'.position = 0
        /\ cls'.counter = IF Only.counted THEN 0 ELSE None
        /\ cls'.threads = IF setup.paced THEN 0 ELSE NThreads
    BY <1>4 DEF NewClass
  <1>6. Only.size \in Nat /\ NRuns \in Nat /\ NThreads \in Nat
    BY <1>1, ProvidersAssumption DEF Arguments
  <1>7. Only.size # 0 /\ (Only.size < MaxIndex => Only.cycle)
    BY <1>2, <1>3 DEF FileRefused, NewClass
  <1>8. ~setup.paced => MaxIndex = NRuns * NThreads
    BY DEF MaxIndex
  <1>9. ~setup.paced /\ ~Only.cycle => Only.size >= NRuns * NThreads
    <2>1. NRuns * NThreads \in Nat
      BY <1>6, Z3
    <2> QED BY <1>6, <1>7, <1>8, <2>1
  <1>10. cls'.counter = None <=> ~Only.counted
    BY <1>5 DEF None
  <1>11. Only.size > 0
    BY <1>6, <1>7
  <1> QED BY <1>5, <1>9, <1>10, <1>11

LEMMA FileStep ==
    ASSUME TypeInv, TypeInv', LoadInv, PairsInv, FileInv, Next
    PROVE  FileInv'
  <1> SUFFICES ASSUME Served("getNextElem")'
               PROVE  FileInv'
    BY DEF FileInv
  <1>1. setup' = setup /\ OneInstance /\ setup.method = "getNextElem"
    <2>1. setup' = setup
      BY OneMethod DEF LoadMacro
    <2> QED BY <2>1 DEF Served, OneInstance
  <1>2. CASE todo # <<>>
    <2>1. ~broken'
      BY DEF Served
    <2>2. /\ cls'.size = Only.size /\ cls'.size > 0 /\ cls'.cycling = Only.cycle
          /\ cls'.counter = None <=> ~Only.counted
          /\ cls'.position = 0
          /\ ~setup.paced /\ ~cls'.cycling => cls'.size >= NRuns * NThreads
      BY <1>1, <1>2, <2>1, FileLoads
    <2>3. handed' = <<>> /\ failures' = {} /\ Only' = Only
      BY <1>1, <1>2, LoadsOne DEF Only
    <2>4. Len(handed') = 0 /\ DOMAIN handed' = {} /\ Last' = 0
      BY <2>3 DEF Last
    <2>5. cls'.size \in Nat
      BY DEF TypeInv, ClassType
    <2> QED BY <1>1, <2>2, <2>3, <2>4, <2>5 DEF FileInv
  <1>3. CASE todo = <<>>
    <2>1. ~LoadMacro
      BY <1>3 DEF LoadMacro
    <2>2. PICK t \in Threads : run[t] < NRuns /\ FileNext(t)
      BY <1>1, <2>1, OneMethod
    <2>3. Served("getNextElem") /\ UNCHANGED <<setup, broken>> /\ Only' = Only
      BY <1>1, <1>3, <2>1, OneMethod DEF Served, Only
    <2> DEFINE over == cls.position + 1 > cls.size
               position == IF over /\ cls.cycling THEN 1 ELSE cls.position + 1
               counter == IF over /\ cls.cycling /\ cls.counter # None
                          THEN cls.counter + 1 ELSE cls.counter
    <2>4. cls' = [cls EXCEPT !.position = position, !.counter = counter]
      BY <2>2 DEF FileNext
    <2>5. cls \in ClassType
      BY DEF TypeInv
    <2>6. /\ cls'.size = cls.size /\ cls'.cycling = cls.cycling /\ cls'.position = position
          /\ cls'.counter = counter
      BY <2>4, <2>5 DEF ClassType
    <2>7. cls.size \in Nat /\ cls.position \in Int /\ cls.counter \in Nat \union {None}
      BY <2>5 DEF ClassType
    <2>8. counter = None <=> cls.counter = None
      BY <2>7 DEF None
    <2>9. IF over /\ (~cls.cycling \/ cls.counter = None)
          THEN Fail(t, IF cls.cycling THEN "TypeError" ELSE "IndexError")
          ELSE Hand(t, position)
      BY <2>2, <2>6 DEF FileNext
    <2>10. Len(handed) \in Nat /\ DOMAIN handed = 1 .. Len(handed)
      BY CallTypes
    <2>11. setup.paced \in BOOLEAN
      BY SetupTypes DEF TypeInv
    <2>12. CASE over /\ (~cls.cycling \/ cls.counter = None)
      <3>1. handed' = handed
            /\ failures' = failures \union {[thread |-> t, run |-> run[t],
                              error |-> IF cls.cycling THEN "TypeError" ELSE "IndexError"]}
        BY <2>2, <2>9, <2>12, FailStep
      <3>2. Last' = Last
        BY <3>1 DEF Last
      <3>3. CASE ~cls.cycling
        <4>1. setup.paced
          <5>1. SUFFICES ASSUME ~setup.paced PROVE FALSE
            BY <2>11
          <5>2. /\ cls.size >= NRuns * NThreads /\ cls.position <= cls.size
                /\ Len(handed) = cls.position
            BY <2>3, <3>3, <5>1 DEF FileInv
          <5>3. Len(handed) < NRuns * NThreads
            BY <2>2, CallsLeft
          <5>4. NRuns * NThreads \in Int
            BY ProvidersAssumption, Z3
          <5> QED BY <2>7, <2>10, <2>12, <5>2, <5>3, <5>4
        <4>2. Len(handed) = cls.size /\ cls.position \in Nat /\ \A i \in DOMAIN handed : handed[i].value = i
          BY <2>3, <2>7, <2>12, <3>3 DEF FileInv
        <4>3. position = cls.position + 1
          BY <3>3
        <4>4. /\ cls.size = Only.size /\ cls.size > 0 /\ cls.cycling = Only.cycle
              /\ cls.counter = None <=> ~Only.counted
          BY <2>3 DEF FileInv
        <4>5. position \in Nat
              /\ Len(handed) = IF position <= cls.size THEN position ELSE cls.size
          BY <2>7, <2>12, <4>2, <4>3
        <4> HIDE DEF position, counter
        <4> QED BY <2>3, <2>6, <2>8, <3>1, <3>3, <4>1, <4>2, <4>4, <4>5 DEF FileInv
      <3>4. CASE cls.cycling /\ cls.counter = None
        <4>1. /\ cls.size = Only.size /\ cls.size > 0 /\ cls.cycling = Only.cycle
              /\ cls.counter = None <=> ~Only.counted
              /\ ~setup.paced => \A f \in failures : f.error = "TypeError"
          BY <2>3 DEF FileInv
        <4>2. ~setup.paced => \A f \in failures' : f.error = "TypeError"
          BY <3>1, <3>4, <4>1
        <4> HIDE DEF position, counter
        <4> QED BY <2>3, <2>6, <2>8, <3>4, <4>1, <4>2 DEF FileInv
      <3> QED BY <2>12, <3>3, <3>4
    <2>13. CASE ~(over /\ (~cls.cycling \/ cls.counter = None))
      <3>1. Hand(t, position) /\ position \in Int
        BY <2>7, <2>9, <2>13
      <3>2. /\ failures' = failures
            /\ handed' \in Seq(Calls)
            /\ Len(handed') = Len(handed) + 1
            /\ handed'[Len(handed) + 1] = [thread |-> t, run |-> run[t], value |-> position]
            /\ \A i \in 1 .. Len(handed) : handed'[i] = handed[i]
            /\ handed' # <<>> /\ Last' = position
        BY <2>2, <3>1, HandStep
      <3>3. /\ DOMAIN handed' = 1 .. Len(handed) + 1
            /\ handed'[Len(handed) + 1].value = position
        BY <2>10, <3>2
      <3>4. /\ cls.size = Only.size /\ cls.size > 0 /\ cls.cycling = Only.cycle
            /\ cls.counter = None <=> ~Only.counted
            /\ ~setup.paced /\ ~cls.cycling => cls.size >= NRuns * NThreads
            /\ ~setup.paced => \A f \in failures : f.error = "TypeError"
        BY <2>3 DEF FileInv
      <3>5. CASE ~cls.cycling
        <4>1. position = cls.position + 1 /\ position <= cls.size
          BY <2>7, <2>13, <3>5
        <4>2. /\ Len(handed) = cls.position
              /\ \A i \in DOMAIN handed : handed[i].value = i
          BY <2>3, <2>7, <3>5, <4>1 DEF FileInv
        <4>3. position \in Nat /\ Len(handed') = position
          BY <2>10, <3>2, <4>1, <4>2
        <4>4. \A i \in DOMAIN handed' : handed'[i].value = i
          BY <2>10, <3>2, <3>3, <4>1, <4>2
        <4> HIDE DEF position, counter, over
        <4> QED BY <2>3, <2>6, <2>8, <3>2, <3>4, <3>5, <4>1, <4>3, <4>4 DEF FileInv
      <3>6. CASE cls.cycling
        <4>1. Only.counted => position \in 0 .. cls.size
          <5>1. Only.counted => cls.position \in 0 .. cls.size
            BY <2>3, <3>4, <3>6 DEF FileInv
          <5> QED BY <2>7, <3>4, <3>6, <5>1
        <4> HIDE DEF position, counter, over
        <4> QED BY <2>3, <2>6, <2>8, <3>2, <3>4, <3>6, <4>1 DEF FileInv
      <3> QED BY <3>5, <3>6
    <2> QED BY <2>12, <2>13
  <1> QED BY <1>2, <1>3

LEMMA ElemStep ==
    ASSUME TypeInv, TypeInv', LoadInv, ElemInv, Next
    PROVE  ElemInv'
  <1> SUFFICES ASSUME Served("getElem")', ~setup'.paced
               PROVE  ElemInv'
    BY DEF ElemInv
  <1>1. setup' = setup /\ OneInstance /\ setup.method = "getElem" /\ ~setup.paced
    <2>1. setup' = setup
      BY OneMethod DEF LoadMacro
    <2> QED BY <2>1 DEF Served, OneInstance
  <1>2. CASE todo # <<>>
    <2>1. ~broken'
      BY DEF Served
    <2>2. /\ cls'.size > 0 /\ cls'.cycling = Only.cycle /\ cls'.threads = NThreads
          /\ ~cls'.cycling => cls'.size >= NRuns * NThreads
      BY <1>1, <1>2, <2>1, FileLoads
    <2>3. handed' = <<>> /\ failures' = {} /\ Only' = Only
      BY <1>1, <1>2, LoadsOne DEF Only
    <2>4. DOMAIN handed' = {}
      BY <2>3
    <2> QED BY <2>2, <2>3, <2>4 DEF ElemInv
  <1>3. CASE todo = <<>>
    <2>1. ~LoadMacro
      BY <1>3 DEF LoadMacro
    <2>2. PICK t \in Threads : run[t] < NRuns /\ FileElem(t)
      BY <1>1, <2>1, OneMethod
    <2>3. Served("getElem") /\ UNCHANGED <<setup, broken>> /\ Only' = Only /\ cls' = cls
      BY <1>1, <1>3, <2>1, <2>2, OneMethod DEF Served, Only, FileElem
    <2>4. /\ cls.size > 0 /\ cls.threads = NThreads /\ cls.cycling = Only.cycle
          /\ ~cls.cycling => cls.size >= NRuns * NThreads
          /\ failures = {}
          /\ ~cls.cycling => \A i \in DOMAIN handed :
                handed[i].value = Index(handed[i].thread, handed[i].run, NThreads) + 1
      BY <1>1, <2>3 DEF ElemInv
    <2> DEFINE k == OwnIndex(t, NThreads)
    <2>5. cls.size \in Nat \ {0} /\ NThreads \in Nat \ {0} /\ NRuns \in Nat
      BY <2>4, ProvidersAssumption DEF TypeInv, ClassType
    <2>6. Index(t, run[t], NThreads) \in 0 .. NRuns * NThreads - 1
      <3>1. t \in 0 .. NThreads - 1 /\ run[t] \in 0 .. NRuns - 1
        BY <2>2, <2>5 DEF TypeInv, Threads
      <3> QED BY <2>5, <3>1, IndexBound
    <2>7. k \in Nat /\ k < cls.size
      <3>1. NRuns * NThreads \in Int
        BY <2>5, Z3
      <3>2. CASE cls.cycling
        <4>1. Index(t, run[t], NThreads) \in Int
          BY <2>6, <3>1
        <4>2. Index(t, run[t], NThreads) % cls.size \in 0 .. cls.size - 1
          BY <2>5, <4>1, Division
        <4> QED BY <2>5, <3>2, <4>2 DEF OwnIndex
      <3>3. CASE ~cls.cycling
        <4>1. k = Index(t, run[t], NThreads)
          BY <3>3 DEF OwnIndex
        <4> HIDE DEF k
        <4> QED BY <2>4, <2>5, <2>6, <3>1, <3>3, <4>1
      <3> QED BY <3>2, <3>3
    <2>8. Hand(t, k + 1)
      <3>1. ~(k >= cls.size)
        BY <2>5, <2>7
      <3> QED BY <2>2, <2>4, <3>1 DEF FileElem
    <2>9. ~cls.cycling => k = Index(t, run[t], NThreads)
      BY DEF OwnIndex
    <2> HIDE DEF k
    <2>10. k + 1 \in Int
      BY <2>7
    <2>11. /\ failures' = failures
           /\ handed' \in Seq(Calls) /\ Len(handed') = Len(handed) + 1
           /\ handed'[Len(handed) + 1] = [thread |-> t, run |-> run[t], value |-> k + 1]
           /\ \A i \in 1 .. Len(handed) : handed'[i] = handed[i]
      BY <2>2, <2>8, <2>10, HandStep
    <2>12. Len(handed) \in Nat /\ DOMAIN handed = 1 .. Len(handed)
           /\ DOMAIN handed' = 1 .. Len(handed) + 1
      BY <2>11, CallTypes
    <2>13. ~cls.cycling => \A i \in DOMAIN handed' :
                handed'[i].value = Index(handed'[i].thread, handed'[i].run, NThreads) + 1
      BY <2>4, <2>9, <2>11, <2>12
    <2> QED BY <2>3, <2>4, <2>11, <2>13 DEF ElemInv
  <1> QED BY <1>2, <1>3

LEMMA AcceptedFile ==
    ASSUME TypeInv, LoadInv, PairsInv, FileInv, ElemInv
    PROVE  AcceptedFileSuffices
  <1> SUFFICES ASSUME Serving({"getElem", "getNextElem"}), ~setup.paced
               PROVE  /\ \A f \in failures : f.error = "TypeError"
                      /\ Only.cycle \/ \A i, j \in DOMAIN handed :
                            i # j => handed[i].value # handed[j].value
    BY DEF AcceptedFileSuffices, Only
  <1>1. CASE todo # <<>> \/ broken
    <2>1. handed = <<>> /\ failures = {}
      BY <1>1 DEF LoadInv
    <2> QED BY <2>1
  <1>2. CASE Served("getNextElem")
    <2>1. \A f \in failures : f.error = "TypeError"
      BY <1>2 DEF FileInv
    <2>2. ~Only.cycle => \A i \in DOMAIN handed : handed[i].value = i
      BY <1>2 DEF FileInv
    <2> QED BY <2>1, <2>2
  <1>3. CASE Served("getElem")
    <2>1. failures = {}
      BY <1>3 DEF ElemInv
    <2>2. ASSUME ~Only.cycle, NEW i \in DOMAIN handed, NEW j \in DOMAIN handed,
                 handed[i].value = handed[j].value
          PROVE  i = j
      <3>1. /\ handed[i].value = Index(handed[i].thread, handed[i].run, NThreads) + 1
            /\ handed[j].value = Index(handed[j].thread, handed[j].run, NThreads) + 1
        BY <1>3, <2>2 DEF ElemInv
      <3>2. /\ handed[i].thread \in 0 .. NThreads - 1 /\ handed[i].run \in Int
            /\ handed[j].thread \in 0 .. NThreads - 1 /\ handed[j].run \in Int
            /\ NThreads \in Nat \ {0}
        BY CallTypes, ProvidersAssumption
      <3>3. /\ Index(handed[i].thread, handed[i].run, NThreads) \in Int
            /\ Index(handed[j].thread, handed[j].run, NThreads) \in Int
        BY <3>2, Z3 DEF Index
      <3>4. Index(handed[i].thread, handed[i].run, NThreads)
            = Index(handed[j].thread, handed[j].run, NThreads)
        <4> DEFINE x == Index(handed[i].thread, handed[i].run, NThreads)
                   y == Index(handed[j].thread, handed[j].run, NThreads)
        <4>1. x + 1 = y + 1 /\ x \in Int /\ y \in Int
          BY <2>2, <3>1, <3>3
        <4> HIDE DEF x, y
        <4>2. x = y
          BY <4>1
        <4> QED BY <4>2 DEF x, y
      <3>5. handed[i].thread = handed[j].thread /\ handed[i].run = handed[j].run
        BY <3>2, <3>4, IndexInjective
      <3> QED BY <3>5 DEF PairsInv
    <2> QED BY <2>1, <2>2
  <1>4. ~(todo # <<>> \/ broken) => Served("getElem") \/ Served("getNextElem")
    BY DEF Serving, Served
  <1> QED BY <1>1, <1>2, <1>3, <1>4

-----------------------------------------------------------------------------
(* Identifiers differ.                                                     *)

\* identifierGenerator.popValue: what was handed out has left the pool.
PopInv ==
    Served("popValue") =>
        /\ \A i, j \in DOMAIN cls.rows : cls.rows[i] = cls.rows[j] => i = j
        /\ \A i, j \in DOMAIN handed : handed[i].value = handed[j].value => i = j
        /\ \A i \in DOMAIN cls.rows, j \in DOMAIN handed : cls.rows[i] # handed[j].value

\* identifierGenerator.getNextValue: the position counts the calls.
NextInv ==
    Served("getNextValue") =>
        /\ cls.position = Only.start + Len(handed)
        /\ cls.cycling => cls.size > 0
        /\ \A i \in DOMAIN handed :
             handed[i].value = cls.min + IF cls.cycling THEN (Only.start + i) % cls.size
                                         ELSE Only.start + i

\* The element that a call asks for.
Wanted(call) ==
    LET k == Index(call.thread, call.run, NThreads)
    IN  IF cls.cycling THEN k % cls.size ELSE k

\* identifierGenerator.getValue: each call has its own element.
OwnInv ==
    Served("getValue") =>
        /\ cls.threads = NThreads
        /\ cls.cycling => cls.size > 0
        /\ \A i, j \in DOMAIN cls.rows : cls.rows[i] = cls.rows[j] => i = j
        /\ \A i \in DOMAIN handed :
             IF cls.rows = <<>> THEN handed[i].value = cls.min + Wanted(handed[i])
             ELSE Wanted(handed[i]) + 1 \in DOMAIN cls.rows
                  /\ handed[i].value = cls.rows[Wanted(handed[i]) + 1]

\* Increment.getValue: the number counts the calls.
IncrementInv ==
    Served("increment") =>
        /\ cls.position = Only.start + Len(handed)
        /\ \A i \in DOMAIN handed : handed[i].value = Only.start + i

\* What manageParameters leaves in the class.
LEMMA IdentifiersLoad ==
    ASSUME TypeInv, LoadInv, Next, OneInstance, todo # <<>>, ~broken',
           setup.method \in {"popValue", "getNextValue", "getValue"}
    PROVE  /\ cls'.position = Only.start /\ cls'.threads = NThreads
           /\ cls'.cycling => cls'.size > 0
           /\ \A i, j \in DOMAIN cls'.rows : cls'.rows[i] = cls'.rows[j] => i = j
  <1>1. setup.defs[1].module = "identifierGenerator" /\ Only \in Arguments
        /\ (Only.cycle => Only.size > 0)
    BY OnlyTypes DEF TypeInv
  <1>2. cls = NewClass /\ cls' \in Instances(setup.defs[1])
    BY LoadsOne
  <1>3. PICK p \in Shuffles(Only) : cls' = InitIdentifiers(Only, p)
    BY <1>1, <1>2 DEF Instances, Only
  <1>4. cls' = [NewClass EXCEPT !.min = Only.start, !.position = Only.start,
                     !.cycling = Only.cycle, !.size = Only.size, !.rows = p,
                     !.threads = NThreads]
    BY <1>2, <1>3 DEF InitIdentifiers
  <1>5. /\ cls'.position = Only.start /\ cls'.threads = NThreads /\ cls'.rows = p
        /\ cls'.cycling = Only.cycle /\ cls'.size = Only.size
    BY <1>4 DEF NewClass
  <1>6. \A i, j \in DOMAIN p : p[i] = p[j] => i = j
    BY <1>1, ShufflesType
  <1> QED BY <1>1, <1>5, <1>6

\* The method of a process does not change, and a call is made when all is loaded.
LEMMA ServedBefore ==
    ASSUME TypeInv, LoadInv, Next, NEW method, Served(method)'
    PROVE  /\ setup' = setup /\ OneInstance /\ setup.method = method /\ ~broken'
           /\ Only' = Only
           /\ todo = <<>> => ~LoadMacro /\ Served(method)
  <1>1. setup' = setup
    BY OneMethod DEF LoadMacro
  <1>2. OneInstance /\ setup.method = method /\ ~broken' /\ Only' = Only
    BY <1>1 DEF Served, OneInstance, Only
  <1>3. todo = <<>> => ~LoadMacro
    BY DEF LoadMacro
  <1>4. todo = <<>> => ~broken
    BY <1>3, OneMethod
  <1> QED BY <1>1, <1>2, <1>3, <1>4 DEF Served

LEMMA PopStep ==
    ASSUME TypeInv, TypeInv', LoadInv, PopInv, Next
    PROVE  PopInv'
  <1> SUFFICES ASSUME Served("popValue")'
               PROVE  PopInv'
    BY DEF PopInv
  <1>1. /\ setup' = setup /\ OneInstance /\ setup.method = "popValue" /\ ~broken'
        /\ todo = <<>> => ~LoadMacro /\ Served("popValue")
    BY ServedBefore
  <1>2. CASE todo # <<>>
    <2>1. \A i, j \in DOMAIN cls'.rows : cls'.rows[i] = cls'.rows[j] => i = j
      BY <1>1, <1>2, IdentifiersLoad
    <2>2. handed' = <<>>
      BY <1>1, <1>2, LoadsOne
    <2>3. DOMAIN handed' = {}
      BY <2>2
    <2> QED BY <2>1, <2>3 DEF PopInv
  <1>3. CASE todo = <<>>
    <2>1. PICK t \in Threads : run[t] < NRuns /\ PopValue(t)
      BY <1>1, <1>3, OneMethod
    <2>2. /\ \A i, j \in DOMAIN cls.rows : cls.rows[i] = cls.rows[j] => i = j
          /\ \A i, j \in DOMAIN handed : handed[i].value = handed[j].value => i = j
          /\ \A i \in DOMAIN cls.rows, j \in DOMAIN handed : cls.rows[i] # handed[j].value
      BY <1>1, <1>3 DEF PopInv
    <2>3. CASE cls.rows = <<>>
      <3>1. Fail(t, "ValueError") /\ UNCHANGED cls
        BY <2>1, <2>3 DEF PopValue
      <3>2. handed' = handed /\ cls' = cls
        BY <3>1 DEF Fail
      <3> QED BY <2>2, <3>2 DEF PopInv
    <2>4. CASE cls.rows # <<>>
      <3> DEFINE value == cls.rows[Len(cls.rows)]
                 rows == SubSeq(cls.rows, 1, Len(cls.rows) - 1)
      <3>1. Hand(t, value) /\ cls' = [cls EXCEPT !.rows = rows]
        BY <2>1, <2>4 DEF PopValue
      <3>2. cls.rows \in Seq(Int) /\ cls \in ClassType
        BY DEF TypeInv, ClassType
      <3>3. /\ Len(cls.rows) \in Nat \ {0} /\ DOMAIN cls.rows = 1 .. Len(cls.rows)
            /\ DOMAIN rows = 1 .. Len(cls.rows) - 1
            /\ \A i \in DOMAIN rows : rows[i] = cls.rows[i]
            /\ value \in Int
        BY <2>4, <3>2
      <3>4. cls'.rows = rows
        BY <3>1, <3>2 DEF ClassType
      <3>5. /\ handed' \in Seq(Calls) /\ Len(handed) \in Nat /\ Len(handed') = Len(handed) + 1
            /\ handed'[Len(handed) + 1] = [thread |-> t, run |-> run[t], value |-> value]
            /\ \A i \in 1 .. Len(handed) : handed'[i] = handed[i]
        BY <2>1, <3>1, <3>3, HandStep
      <3>6. /\ DOMAIN handed' = 1 .. Len(handed) + 1 /\ DOMAIN handed = 1 .. Len(handed)
            /\ handed'[Len(handed) + 1].value = value
        BY <3>5, CallTypes
      <3>7. Len(cls.rows) \in DOMAIN cls.rows
        BY <3>3
      <3>8. \A i \in DOMAIN rows : i \in DOMAIN cls.rows /\ i # Len(cls.rows)
        BY <3>3
      <3> HIDE DEF rows
      <3>9. \A i, j \in DOMAIN rows : rows[i] = rows[j] => i = j
        BY <2>2, <3>3, <3>8
      <3>10. \A j \in DOMAIN handed : handed[j].value # value
        BY <2>2, <3>7
      <3>11. \A i \in DOMAIN rows : rows[i] # value
        BY <2>2, <3>3, <3>7, <3>8
      <3> HIDE DEF value
      <3>12. \A i, j \in DOMAIN handed' : handed'[i].value = handed'[j].value => i = j
        BY <2>2, <3>5, <3>6, <3>10
      <3>13. \A i \in DOMAIN rows, j \in DOMAIN handed' : rows[i] # handed'[j].value
        BY <2>2, <3>3, <3>5, <3>6, <3>8, <3>11
      <3> QED BY <3>4, <3>9, <3>12, <3>13 DEF PopInv
    <2> QED BY <2>3, <2>4
  <1> QED BY <1>2, <1>3

LEMMA NextStep ==
    ASSUME TypeInv, TypeInv', LoadInv, NextInv, Next
    PROVE  NextInv'
  <1> SUFFICES ASSUME Served("getNextValue")'
               PROVE  NextInv'
    BY DEF NextInv
  <1>1. /\ setup' = setup /\ OneInstance /\ setup.method = "getNextValue" /\ ~broken'
        /\ Only' = Only
        /\ todo = <<>> => ~LoadMacro /\ Served("getNextValue")
    BY ServedBefore
  <1>2. Only.start \in Int
    BY <1>1, OnlyTypes DEF TypeInv, Arguments
  <1>3. CASE todo # <<>>
    <2>1. cls'.position = Only.start /\ (cls'.cycling => cls'.size > 0)
      BY <1>1, <1>3, IdentifiersLoad
    <2>2. handed' = <<>>
      BY <1>1, <1>3, LoadsOne
    <2>3. DOMAIN handed' = {} /\ Len(handed') = 0
      BY <2>2
    <2> QED BY <1>1, <1>2, <2>1, <2>3 DEF NextInv
  <1>4. CASE todo = <<>>
    <2>1. PICK t \in Threads : run[t] < NRuns /\ NextValue(t)
      BY <1>1, <1>4, OneMethod
    <2>2. /\ cls.position = Only.start + Len(handed)
          /\ cls.cycling => cls.size > 0
          /\ \A i \in DOMAIN handed :
               handed[i].value = cls.min + IF cls.cycling THEN (Only.start + i) % cls.size
                                           ELSE Only.start + i
      BY <1>1, <1>4 DEF NextInv
    <2> DEFINE position == cls.position + 1
               value == cls.min + IF cls.cycling THEN position % cls.size ELSE position
    <2>3. cls \in ClassType /\ cls' = [cls EXCEPT !.position = position]
      BY <2>1 DEF NextValue, TypeInv
    <2>4. /\ cls'.position = position /\ cls'.cycling = cls.cycling /\ cls'.size = cls.size
          /\ cls'.min = cls.min
      BY <2>3 DEF ClassType
    <2>5. Hand(t, value)
      BY <2>1, <2>4 DEF NextValue
    <2>6. Len(handed) \in Nat /\ DOMAIN handed = 1 .. Len(handed)
      BY CallTypes
    <2>7. position = Only.start + (Len(handed) + 1)
      BY <1>2, <2>2, <2>6
    <2>8. value = cls.min + IF cls.cycling THEN (Only.start + (Len(handed) + 1)) % cls.size
                            ELSE Only.start + (Len(handed) + 1)
      BY <2>7
    <2> HIDE DEF value, position
    <2>9. value \in Int
      BY <2>1, <2>5, HandShape
    <2>10. /\ handed' \in Seq(Calls) /\ Len(handed') = Len(handed) + 1
           /\ handed'[Len(handed) + 1] = [thread |-> t, run |-> run[t], value |-> value]
           /\ \A i \in 1 .. Len(handed) : handed'[i] = handed[i]
      BY <2>1, <2>5, <2>9, HandStep
    <2>11. DOMAIN handed' = 1 .. Len(handed) + 1 /\ handed'[Len(handed) + 1].value = value
      BY <2>6, <2>10
    <2>12. \A i \in DOMAIN handed' :
               handed'[i].value = cls.min + IF cls.cycling THEN (Only.start + i) % cls.size
                                           ELSE Only.start + i
      <3>1. TAKE i \in DOMAIN handed'
      <3>2. CASE i = Len(handed) + 1
        BY <2>8, <2>11, <3>2
      <3>3. CASE i # Len(handed) + 1
        <4>1. i \in DOMAIN handed /\ handed'[i] = handed[i]
          BY <2>6, <2>10, <2>11, <3>3
        <4> QED BY <2>2, <4>1
      <3> QED BY <3>2, <3>3
    <2> QED BY <1>1, <2>2, <2>4, <2>7, <2>10, <2>12 DEF NextInv
  <1> QED BY <1>3, <1>4

LEMMA OwnStep ==
    ASSUME TypeInv, TypeInv', LoadInv, OwnInv, Next
    PROVE  OwnInv'
  <1> SUFFICES ASSUME Served("getValue")'
               PROVE  OwnInv'
    BY DEF OwnInv
  <1>1. /\ setup' = setup /\ OneInstance /\ setup.method = "getValue" /\ ~broken'
        /\ Only' = Only
        /\ todo = <<>> => ~LoadMacro /\ Served("getValue")
    BY ServedBefore
  <1>2. CASE todo # <<>>
    <2>1. /\ cls'.threads = NThreads
          /\ cls'.cycling => cls'.size > 0
          /\ \A i, j \in DOMAIN cls'.rows : cls'.rows[i] = cls'.rows[j] => i = j
      BY <1>1, <1>2, IdentifiersLoad
    <2>2. handed' = <<>>
      BY <1>1, <1>2, LoadsOne
    <2>3. DOMAIN handed' = {}
      BY <2>2
    <2> QED BY <2>1, <2>3 DEF OwnInv
  <1>3. CASE todo = <<>>
    <2>1. PICK t \in Threads : run[t] < NRuns /\ OwnValue(t)
      BY <1>1, <1>3, OneMethod
    <2>2. /\ cls.threads = NThreads
          /\ cls.cycling => cls.size > 0
          /\ \A i, j \in DOMAIN cls.rows : cls.rows[i] = cls.rows[j] => i = j
          /\ \A i \in DOMAIN handed :
               IF cls.rows = <<>> THEN handed[i].value = cls.min + Wanted(handed[i])
               ELSE Wanted(handed[i]) + 1 \in DOMAIN cls.rows
                    /\ handed[i].value = cls.rows[Wanted(handed[i]) + 1]
      BY <1>1, <1>3 DEF OwnInv
    <2>3. cls' = cls
      BY <2>1 DEF OwnValue
    <2> DEFINE k == OwnIndex(t, NThreads)
    <2>4. IF cls.rows = <<>> THEN Hand(t, cls.min + k)
          ELSE IF k >= Len(cls.rows) THEN Fail(t, "ValueError")
          ELSE Hand(t, cls.rows[k + 1])
      BY <2>1, <2>2 DEF OwnValue
    <2>5. k \in Nat
      <3>1. setup.method \in Dividing /\ NThreads \in Nat
        BY <1>1, ProvidersAssumption DEF Dividing
      <3> QED BY <2>1, <3>1, OwnIndexType
    <2>6. ASSUME NEW value, Hand(t, value),
                 IF cls.rows = <<>> THEN value = cls.min + k
                 ELSE k + 1 \in DOMAIN cls.rows /\ value = cls.rows[k + 1]
          PROVE  OwnInv'
      <3>1. value \in Int
        BY <2>1, <2>6, HandShape
      <3>2. /\ handed' \in Seq(Calls) /\ Len(handed') = Len(handed) + 1
            /\ handed'[Len(handed) + 1] = [thread |-> t, run |-> run[t], value |-> value]
            /\ \A i \in 1 .. Len(handed) : handed'[i] = handed[i]
        BY <2>1, <2>6, <3>1, HandStep
      <3>3. /\ Len(handed) \in Nat /\ DOMAIN handed = 1 .. Len(handed)
            /\ DOMAIN handed' = 1 .. Len(handed) + 1
            /\ handed'[Len(handed) + 1].value = value
            /\ handed'[Len(handed) + 1].thread = t /\ handed'[Len(handed) + 1].run = run[t]
        BY <3>2, CallTypes
      <3> DEFINE index(c) == IF cls.cycling THEN Index(c.thread, c.run, NThreads) % cls.size
                             ELSE Index(c.thread, c.run, NThreads)
      <3>4. index(handed'[Len(handed) + 1]) = k
        BY <3>3 DEF OwnIndex
      <3>5. \A i \in DOMAIN handed :
               IF cls.rows = <<>> THEN handed[i].value = cls.min + index(handed[i])
               ELSE index(handed[i]) + 1 \in DOMAIN cls.rows
                    /\ handed[i].value = cls.rows[index(handed[i]) + 1]
        BY <2>2 DEF Wanted
      <3> HIDE DEF k, index
      <3>6. ASSUME NEW i \in DOMAIN handed'
            PROVE  IF cls.rows = <<>> THEN handed'[i].value = cls.min + index(handed'[i])
                   ELSE index(handed'[i]) + 1 \in DOMAIN cls.rows
                        /\ handed'[i].value = cls.rows[index(handed'[i]) + 1]
        <4>1. CASE i = Len(handed) + 1
          BY <2>6, <3>3, <3>4, <4>1
        <4>2. CASE i # Len(handed) + 1
          <5>1. i \in DOMAIN handed /\ handed'[i] = handed[i]
            BY <3>2, <3>3, <4>2
          <5> QED BY <3>5, <5>1
        <4> QED BY <4>1, <4>2
      <3> QED BY <2>2, <2>3, <3>6 DEF OwnInv, Wanted, index
    <2>7. CASE cls.rows = <<>>
      BY <2>4, <2>6, <2>7
    <2>8. CASE cls.rows # <<>> /\ k >= Len(cls.rows)
      <3>1. handed' = handed
        BY <2>4, <2>8 DEF Fail
      <3> QED BY <2>2, <2>3, <3>1 DEF OwnInv, Wanted
    <2>9. CASE cls.rows # <<>> /\ ~(k >= Len(cls.rows))
      <3>1. cls.rows \in Seq(Int)
        BY DEF TypeInv, ClassType
      <3> HIDE DEF k
      <3>2. k + 1 \in DOMAIN cls.rows
        BY <2>5, <2>9, <3>1
      <3> QED BY <2>4, <2>6, <2>9, <3>2
    <2> QED BY <2>7, <2>8, <2>9
  <1> QED BY <1>2, <1>3

LEMMA IncrementStep ==
    ASSUME TypeInv, TypeInv', LoadInv, IncrementInv, Next
    PROVE  IncrementInv'
  <1> SUFFICES ASSUME Served("increment")'
               PROVE  IncrementInv'
    BY DEF IncrementInv
  <1>1. /\ setup' = setup /\ OneInstance /\ setup.method = "increment" /\ ~broken'
        /\ Only' = Only
        /\ todo = <<>> => ~LoadMacro /\ Served("increment")
    BY ServedBefore
  <1>2. Only.start \in Int /\ setup.defs[1].module = "Increment"
    BY <1>1, OnlyTypes DEF TypeInv, Arguments
  <1>3. CASE todo # <<>>
    <2>1. cls = NewClass /\ cls' \in Instances(setup.defs[1]) /\ handed' = <<>>
      BY <1>1, <1>3, LoadsOne
    <2>2. cls' = InitIncrement(Only)
      BY <1>2, <2>1 DEF Instances, Only
    <2>3. cls' = [NewClass EXCEPT !.position = Only.start]
      BY <2>1, <2>2 DEF InitIncrement, NewClass
    <2>4. cls'.position = Only.start
      BY <2>3 DEF NewClass
    <2>5. DOMAIN handed' = {} /\ Len(handed') = 0
      BY <2>1
    <2> QED BY <1>1, <1>2, <2>4, <2>5 DEF IncrementInv
  <1>4. CASE todo = <<>>
    <2>1. PICK t \in Threads : run[t] < NRuns /\ Increased(t)
      BY <1>1, <1>4, OneMethod
    <2>2. /\ cls.position = Only.start + Len(handed)
          /\ \A i \in DOMAIN handed : handed[i].value = Only.start + i
      BY <1>1, <1>4 DEF IncrementInv
    <2> DEFINE position == cls.position + 1
    <2>3. cls \in ClassType /\ cls' = [cls EXCEPT !.position = position]
      BY <2>1 DEF Increased, TypeInv
    <2>4. cls'.position = position
      BY <2>3 DEF ClassType
    <2>5. Hand(t, position)
      BY <2>1, <2>4 DEF Increased
    <2>6. Len(handed) \in Nat /\ DOMAIN handed = 1 .. Len(handed)
      BY CallTypes
    <2>7. position = Only.start + (Len(handed) + 1) /\ position \in Int
      BY <1>2, <2>2, <2>6
    <2> HIDE DEF position
    <2>8. /\ handed' \in Seq(Calls) /\ Len(handed') = Len(handed) + 1
          /\ handed'[Len(handed) + 1] = [thread |-> t, run |-> run[t], value |-> position]
          /\ \A i \in 1 .. Len(handed) : handed'[i] = handed[i]
      BY <2>1, <2>5, <2>7, HandStep
    <2>9. DOMAIN handed' = 1 .. Len(handed) + 1 /\ handed'[Len(handed) + 1].value = position
      BY <2>6, <2>8
    <2>10. \A i \in DOMAIN handed' : handed'[i].value = Only.start + i
      BY <2>2, <2>6, <2>7, <2>8, <2>9
    <2> QED BY <1>1, <2>4, <2>7, <2>8, <2>10 DEF IncrementInv
  <1> QED BY <1>3, <1>4

LEMMA Identifiers ==
    ASSUME TypeInv, LoadInv, PairsInv, PopInv, NextInv, OwnInv, IncrementInv
    PROVE  IdentifiersDiffer
  <1> SUFFICES ASSUME Serving({"popValue", "getNextValue", "getValue", "increment"}),
                      NEW i \in DOMAIN handed, NEW j \in DOMAIN handed, i # j,
                      handed[i].value = handed[j].value
               PROVE  /\ setup.method # "popValue" /\ cls.cycling
                      /\ IF setup.method = "getNextValue" THEN (i - j) % cls.size = 0
                         ELSE (Index(handed[i].thread, handed[i].run, NThreads)
                               - Index(handed[j].thread, handed[j].run, NThreads)) % cls.size = 0
    BY DEF IdentifiersDiffer
  <1>1. /\ OneInstance /\ todo = <<>> /\ ~broken
        /\ setup.method \in {"popValue", "getNextValue", "getValue", "increment"}
    <2>1. DOMAIN handed # {}
      OBVIOUS
    <2>2. handed # <<>>
      BY <2>1
    <2> QED BY <2>2 DEF Serving, LoadInv
  <1>2. Only.start \in Int /\ cls.min \in Int /\ cls.size \in Nat /\ cls.rows \in Seq(Int)
    BY <1>1, OnlyTypes DEF TypeInv, ClassType, Arguments
  <1>3. i \in Int /\ j \in Int
    BY CallTypes
  <1>4. /\ handed[i].thread \in 0 .. NThreads - 1 /\ handed[i].run \in Int
        /\ handed[j].thread \in 0 .. NThreads - 1 /\ handed[j].run \in Int
        /\ NThreads \in Nat \ {0}
    BY CallTypes, ProvidersAssumption
  <1> DEFINE k == Index(handed[i].thread, handed[i].run, NThreads)
             l == Index(handed[j].thread, handed[j].run, NThreads)
  <1>5. k \in Int /\ l \in Int
    BY <1>4, Z3 DEF Index
  <1>6. CASE setup.method = "popValue"
    <2>1. Served("popValue")
      BY <1>1, <1>6 DEF Served
    <2> QED BY <2>1 DEF PopInv
  <1>7. CASE setup.method = "increment"
    <2>1. Served("increment")
      BY <1>1, <1>7 DEF Served
    <2>2. handed[i].value = Only.start + i /\ handed[j].value = Only.start + j
      BY <2>1 DEF IncrementInv
    <2>3. FALSE
      BY <1>2, <1>3, <2>2, Cancel
    <2> QED BY <2>3
  <1>8. CASE setup.method = "getNextValue"
    <2>1. Served("getNextValue")
      BY <1>1, <1>8 DEF Served
    <2> DEFINE x == Only.start + i
               y == Only.start + j
    <2>2. /\ handed[i].value = cls.min + IF cls.cycling THEN x % cls.size ELSE x
          /\ handed[j].value = cls.min + IF cls.cycling THEN y % cls.size ELSE y
          /\ cls.cycling => cls.size > 0
      BY <2>1 DEF NextInv
    <2>3. x \in Int /\ y \in Int /\ x # y /\ x - y = i - j
      BY <1>2, <1>3
    <2> HIDE DEF x, y
    <2>4. CASE ~cls.cycling
      <3>1. cls.min + x = cls.min + y
        BY <2>2, <2>4
      <3>2. FALSE
        BY <1>2, <2>3, <3>1, Cancel
      <3> QED BY <3>2
    <2>5. CASE cls.cycling
      <3>1. cls.size \in Nat \ {0}
        BY <1>2, <2>2, <2>5
      <3>2. x % cls.size \in Int /\ y % cls.size \in Int
        BY <2>3, <3>1, Division
      <3>3. x % cls.size = y % cls.size
        <4>1. cls.min + (x % cls.size) = cls.min + (y % cls.size)
          BY <2>2, <2>5
        <4> QED BY <1>2, <3>2, <4>1, Cancel
      <3>4. (x - y) % cls.size = 0
        BY <2>3, <3>1, <3>3, ModDifference
      <3> QED BY <1>8, <2>3, <2>5, <3>4
    <2> QED BY <2>4, <2>5
  <1>9. CASE setup.method = "getValue"
    <2>1. Served("getValue")
      BY <1>1, <1>9 DEF Served
    <2>2. cls.cycling => cls.size \in Nat \ {0}
      BY <1>2, <2>1 DEF OwnInv
    <2>3. Wanted(handed[i]) = Wanted(handed[j])
      <3> DEFINE x == Wanted(handed[i])
                 y == Wanted(handed[j])
      <3>1. x \in Int /\ y \in Int
        <4>1. cls.cycling => k % cls.size \in Int /\ l % cls.size \in Int
          BY <1>5, <2>2, Division
        <4> QED BY <1>5, <4>1 DEF Wanted
      <3>2. CASE cls.rows = <<>>
        <4>1. handed[i].value = cls.min + x /\ handed[j].value = cls.min + y
          BY <2>1, <3>2 DEF OwnInv
        <4> HIDE DEF x, y
        <4>2. cls.min + x = cls.min + y
          BY <4>1
        <4>3. x = y
          BY <1>2, <3>1, <4>2, Cancel
        <4> QED BY <4>3 DEF x, y
      <3>3. CASE cls.rows # <<>>
        <4>1. /\ x + 1 \in DOMAIN cls.rows /\ handed[i].value = cls.rows[x + 1]
              /\ y + 1 \in DOMAIN cls.rows /\ handed[j].value = cls.rows[y + 1]
              /\ \A p, q \in DOMAIN cls.rows : cls.rows[p] = cls.rows[q] => p = q
          BY <2>1, <3>3 DEF OwnInv
        <4> HIDE DEF x, y
        <4>2. x + 1 = y + 1
          BY <4>1
        <4>3. x = y
          BY <3>1, <4>2
        <4> QED BY <4>3 DEF x, y
      <3> QED BY <3>2, <3>3
    <2>4. CASE ~cls.cycling
      <3>1. k = l
        BY <2>3, <2>4 DEF Wanted
      <3>2. handed[i].thread = handed[j].thread /\ handed[i].run = handed[j].run
        BY <1>4, <3>1, IndexInjective
      <3>3. i = j
        BY <3>2 DEF PairsInv
      <3> QED BY <3>3
    <2>5. CASE cls.cycling
      <3>1. k % cls.size = l % cls.size
        BY <2>3, <2>5 DEF Wanted
      <3>2. (k - l) % cls.size = 0
        BY <1>5, <2>2, <2>5, <3>1, ModDifference
      <3> QED BY <1>9, <2>5, <3>2
    <2> QED BY <2>4, <2>5
  <1> QED BY <1>1, <1>6, <1>7, <1>8, <1>9

-----------------------------------------------------------------------------
(* The lines of a file in chunks.                                          *)

\* The next line that will be handed out, when there is one
Front(c) == c.next - Len(c.rows)

\* The lines in memory are consecutive ones, and the generator goes on behind them.
Consecutive(c) ==
    /\ c \in ClassType
    /\ c.min \in Nat /\ c.min <= c.size
    /\ Front(c) \in c.min + 1 .. c.size + 1 /\ c.next <= c.size + 1
    /\ \A i \in DOMAIN c.rows : c.rows[i] = Front(c) + i - 1
    /\ c.over => c.rows = <<>> /\ c.next = c.size + 1

AtEnd(t) == pc[t] \in {"eof", "rotate"}

\* dataChunkFromFILE: one thread at most replaces the generator, and nobody reads before it
\* has done so; a thread that has replaced it is the only one that has not read since.
ChunkInv ==
    Served("getLine") =>
        /\ cls.size = Only.size /\ cls.min = Only.start /\ cls.cycling = Only.cycle
        /\ Consecutive(cls)
        /\ \A t \in Threads : AtEnd(t) => cls.over
        /\ \A t, u \in Threads : AtEnd(t) /\ AtEnd(u) => t = u
        /\ \A t \in Threads : AtEnd(t) \/ pc[t] = "again" => cls.cycling
        /\ cls.over => \/ ~cls.cycling \/ cls.min = cls.size
                       \/ Dead \/ \E t \in Threads : AtEnd(t)
        /\ \/ Front(cls) > cls.min + 1 /\ handed # <<>> /\ Last = Front(cls) - 1
           \/ Front(cls) = cls.min + 1 /\ (handed = <<>> \/ (Last = cls.size /\ cls.cycling))
        /\ Len(handed) >= Front(cls) - cls.min - 1
        /\ \A t \in Threads : pc[t] = "again" =>
             \A i \in Len(handed) - (Front(cls) - cls.min - 1) + 1 .. Len(handed) :
                handed[i].thread # t

\* The next chunk has the next lines.
LEMMA AdvanceLines ==
    ASSUME NEW c \in ClassType, c.min \in Nat, c.min <= c.size, c.rows = <<>>, ~c.over,
           c.next \in c.min + 1 .. c.size + 1
    PROVE  /\ Consecutive(Advance(c)) /\ Front(Advance(c)) = c.next
           /\ Advance(c).size = c.size /\ Advance(c).min = c.min
           /\ Advance(c).cycling = c.cycling
           /\ Advance(c).rows = <<>> => c.next = c.size + 1 /\ Advance(c).over
           /\ Advance(c).rows # <<>> => ~Advance(c).over
  <1>1. c.size \in Nat /\ c.next \in Int /\ c.min \in Nat /\ c.over \in BOOLEAN
    BY DEF ClassType
  <1>2. Advance(c) \in ClassType
    BY AdvanceType
  <1>3. CASE c.next > c.size
    <2>1. Advance(c) = [c EXCEPT !.over = TRUE, !.rows = <<>>]
      BY <1>3 DEF Advance
    <2>2. /\ Advance(c).rows = <<>> /\ Advance(c).next = c.next /\ Advance(c).size = c.size
          /\ Advance(c).min = c.min /\ Advance(c).cycling = c.cycling /\ Advance(c).over
      BY <2>1 DEF ClassType
    <2>3. c.next = c.size + 1
      BY <1>1, <1>3
    <2> DEFINE a == Advance(c)
    <2>4. /\ a.rows = <<>> /\ a.next = c.next /\ a.size = c.size /\ a.min = c.min
          /\ a.cycling = c.cycling /\ a \in ClassType /\ a.over
      BY <1>2, <2>2
    <2> HIDE DEF a
    <2>5. Len(a.rows) = 0 /\ DOMAIN a.rows = {}
      BY <2>4
    <2>6. Front(a) = c.next
      BY <1>1, <2>4, <2>5 DEF Front
    <2>7. Consecutive(a)
      BY <1>1, <2>3, <2>4, <2>5, <2>6 DEF Consecutive
    <2> QED BY <2>3, <2>4, <2>6, <2>7 DEF a
  <1>4. CASE ~(c.next > c.size)
    <2> DEFINE lines == NextLines(c)
               next == c.next + Len(lines)
    <2>1. c.next <= c.size
      BY <1>1, <1>4
    <2>2. /\ lines \in Seq(Int) /\ Len(lines) \in Nat \ {0}
          /\ c.next + Len(lines) <= c.size + 1
          /\ \A i \in 1 .. Len(lines) : lines[i] = c.next + i - 1
      BY <2>1, NextLinesType
    <2>3. Advance(c) = [c EXCEPT !.rows = lines, !.next = next]
      BY <1>4 DEF Advance
    <2> HIDE DEF lines, next
    <2>4. /\ Advance(c).rows = lines /\ Advance(c).next = next /\ Advance(c).size = c.size
          /\ Advance(c).min = c.min /\ Advance(c).cycling = c.cycling /\ Advance(c).over = c.over
      BY <2>3 DEF ClassType
    <2> DEFINE a == Advance(c)
    <2>5. /\ a.rows = lines /\ a.next = next /\ a.size = c.size /\ a.min = c.min
          /\ a.cycling = c.cycling /\ a \in ClassType /\ a.over = c.over
      BY <1>2, <2>4
    <2> HIDE DEF a
    <2>6. next = c.next + Len(lines)
      BY DEF next
    <2>7. Front(a) = c.next
      BY <1>1, <2>2, <2>5, <2>6 DEF Front
    <2>8. DOMAIN lines = 1 .. Len(lines) /\ lines # <<>>
      BY <2>2
    <2>9. \A i \in DOMAIN a.rows : a.rows[i] = Front(a) + i - 1
      BY <2>2, <2>5, <2>7, <2>8
    <2>10. Front(a) \in a.min + 1 .. a.size + 1 /\ a.next <= a.size + 1
      BY <2>2, <2>5, <2>6, <2>7
    <2>11. Consecutive(a)
      BY <2>5, <2>9, <2>10 DEF Consecutive
    <2> QED BY <2>5, <2>7, <2>8, <2>11 DEF a
  <1> QED BY <1>3, <1>4

\* Reading on: the first line in memory is the next one.
LEMMA NextRowLines ==
    ASSUME Consecutive(cls), ~StopIteration
    PROVE  /\ Consecutive(NextRow) /\ Front(NextRow) = Front(cls)
           /\ NextRow.size = cls.size /\ NextRow.min = cls.min /\ NextRow.cycling = cls.cycling
           /\ ~cls.over
           /\ NextRow.rows = <<>> => Front(cls) = cls.size + 1 /\ NextRow.over
           /\ NextRow.rows # <<>> => ~NextRow.over /\ Head(NextRow.rows) = Front(cls)
  <1>1. cls \in ClassType /\ cls.rows \in Seq(Int)
    BY DEF Consecutive, ClassType
  <1>2. CASE cls.rows # <<>>
    <2>1. NextRow = cls /\ ~cls.over
      BY <1>2 DEF NextRow, Consecutive
    <2>2. Head(cls.rows) = cls.rows[1] /\ 1 \in DOMAIN cls.rows
      BY <1>1, <1>2, HeadTail
    <2>3. Head(cls.rows) = Front(cls) + 1 - 1 /\ Front(cls) \in Int
      BY <2>2 DEF Consecutive
    <2>4. Head(cls.rows) = Front(cls)
      BY <2>3
    <2> QED BY <1>2, <2>1, <2>4
  <1>3. CASE cls.rows = <<>>
    <2>1. NextRow = Advance(cls) /\ ~cls.over
      BY <1>3 DEF NextRow, StopIteration
    <2>2. Len(cls.rows) = 0 /\ cls.next \in Int
      BY <1>1, <1>3 DEF ClassType
    <2>3. Front(cls) = cls.next
      BY <2>2 DEF Front
    <2>4. /\ cls.min \in Nat /\ cls.min <= cls.size
          /\ cls.next \in cls.min + 1 .. cls.size + 1
      BY <2>3 DEF Consecutive
    <2>5. /\ Consecutive(NextRow) /\ Front(NextRow) = cls.next
          /\ NextRow.size = cls.size /\ NextRow.min = cls.min /\ NextRow.cycling = cls.cycling
          /\ NextRow.rows = <<>> => cls.next = cls.size + 1 /\ NextRow.over
          /\ NextRow.rows # <<>> => ~NextRow.over
      BY <1>1, <1>3, <2>1, <2>4, AdvanceLines
    <2>6. NextRow.rows # <<>> => Head(NextRow.rows) = Front(NextRow)
      <3>1. SUFFICES ASSUME NextRow.rows # <<>>
                     PROVE  Head(NextRow.rows) = Front(NextRow)
        OBVIOUS
      <3>2. NextRow.rows \in Seq(Int)
        BY <2>5 DEF Consecutive, ClassType
      <3>3. Head(NextRow.rows) = NextRow.rows[1] /\ 1 \in DOMAIN NextRow.rows
        BY <3>1, <3>2, HeadTail
      <3>4. Head(NextRow.rows) = Front(NextRow) + 1 - 1 /\ Front(NextRow) \in Int
        BY <2>5, <3>3 DEF Consecutive
      <3> QED BY <3>4
    <2> QED BY <2>1, <2>3, <2>5, <2>6
  <1> QED BY <1>2, <1>3

\* Taking the first line in memory.
LEMMA TakeLine ==
    ASSUME NEW c, Consecutive(c), c.rows # <<>>, ~c.over
    PROVE  LET d == [c EXCEPT !.rows = Tail(@)]
           IN  /\ Consecutive(d) /\ Front(d) = Front(c) + 1
               /\ d.size = c.size /\ d.min = c.min /\ d.cycling = c.cycling /\ ~d.over
  <1> DEFINE rows == Tail(c.rows)
             d == [c EXCEPT !.rows = rows]
  <1>1. c \in ClassType /\ c.rows \in Seq(Int) /\ c.next \in Int
    BY DEF Consecutive, ClassType
  <1>2. /\ rows \in Seq(Int) /\ Len(c.rows) \in Nat /\ Len(rows) = Len(c.rows) - 1
        /\ \A i \in DOMAIN rows : i + 1 \in DOMAIN c.rows /\ rows[i] = c.rows[i + 1]
    <2>1. Len(c.rows) \in Nat /\ Len(rows) = Len(c.rows) - 1
      BY <1>1
    <2> QED BY <1>1, <2>1, HeadTail
  <1>3. \A i \in DOMAIN rows : i \in Int
    BY <1>2
  <1> HIDE DEF rows
  <1>4. /\ d \in ClassType /\ d.rows = rows /\ d.next = c.next /\ d.size = c.size
        /\ d.min = c.min /\ d.cycling = c.cycling /\ d.over = c.over
    BY <1>1, <1>2 DEF ClassType
  <1> HIDE DEF d
  <1>5. Front(d) = Front(c) + 1 /\ Front(c) \in Int
    BY <1>1, <1>2, <1>4 DEF Front
  <1>6. Front(d) <= c.size + 1
    <2>1. Front(d) = c.next - Len(rows) /\ Len(rows) \in Nat
      BY <1>2, <1>4 DEF Front
    <2>2. c.next <= c.size + 1 /\ c.size \in Nat
      BY DEF Consecutive, ClassType
    <2> QED BY <1>1, <2>1, <2>2
  <1>7. /\ c.min \in Nat /\ c.min <= c.size /\ c.size \in Nat /\ c.next <= c.size + 1
        /\ Front(c) \in c.min + 1 .. c.size + 1
        /\ \A i \in DOMAIN c.rows : c.rows[i] = Front(c) + i - 1
    BY DEF Consecutive, ClassType
  <1>8. \A i \in DOMAIN rows : rows[i] = Front(d) + i - 1
    <2>1. TAKE i \in DOMAIN rows
    <2>2. i \in Int /\ i + 1 \in DOMAIN c.rows /\ rows[i] = c.rows[i + 1]
      BY <1>2, <1>3
    <2>3. c.rows[i + 1] = Front(c) + (i + 1) - 1
      BY <1>7, <2>2
    <2> QED BY <1>5, <2>2, <2>3
  <1>9. Front(d) \in d.min + 1 .. d.size + 1
    BY <1>4, <1>5, <1>6, <1>7
  <1>10. Consecutive(d)
    BY <1>4, <1>7, <1>8, <1>9 DEF Consecutive
  <1> QED BY <1>4, <1>5, <1>10 DEF d, rows

\* What initClass leaves in the class.
LEMMA ChunkLoads ==
    ASSUME TypeInv, LoadInv, Next, OneInstance, todo # <<>>, ~broken', setup.method = "getLine"
    PROVE  /\ cls'.size = Only.size /\ cls'.min = Only.start /\ cls'.cycling = Only.cycle
           /\ Consecutive(cls') /\ Front(cls') = cls'.min + 1
           /\ cls'.over => cls'.min = cls'.size
  <1> DEFINE k == [NewClass EXCEPT !.size = Only.size, !.cycling = Only.cycle,
                        !.min = Only.start, !.chunk = Only.chunk,
                        !.counter = IF Only.counted THEN 0 ELSE None,
                        !.initialized = TRUE]
             g == NewGenerator(k)
  <1>1. setup.defs[1].module = "dataChunkFromFILE" /\ Only \in Arguments /\ Only.start \in Nat
    BY OnlyTypes DEF TypeInv
  <1>2. cls = NewClass /\ cls' \in Instances(setup.defs[1]) /\ ~Refused(setup.defs[1])
    BY LoadsOne
  <1>3. cls' = InitChunks(Only) /\ ~ChunkRefused(Only)
    BY <1>1, <1>2 DEF Instances, Refused, Only
  <1>4. ~cls.initialized
    BY <1>2 DEF NewClass
  <1>5. cls' = Advance(g)
    BY <1>2, <1>3, <1>4 DEF InitChunks
  <1>6. Only.start <= Only.size /\ Only.size \in Nat
    BY <1>1, <1>3, <1>4 DEF ChunkRefused, Arguments
  <1>7. k \in ClassType
    <2>1. NewClass \in ClassType
      BY <1>2 DEF TypeInv
    <2> QED BY <1>1, <2>1 DEF ClassType, Arguments, None
  <1>8. k.size = Only.size /\ k.min = Only.start /\ k.cycling = Only.cycle /\ k.rows = <<>>
    BY DEF NewClass
  <1> HIDE DEF k
  <1>9. /\ g \in ClassType /\ g.next = k.min + 1 /\ g.over = (k.min > k.size)
        /\ g.size = k.size /\ g.min = k.min /\ g.cycling = k.cycling /\ g.rows = k.rows
    BY <1>7, NewGeneratorType DEF NewGenerator, ClassType
  <1>10. /\ g \in ClassType /\ g.next = Only.start + 1 /\ g.rows = <<>>
         /\ g.size = Only.size /\ g.min = Only.start /\ g.cycling = Only.cycle
    BY <1>8, <1>9
  <1>11. ~g.over
    <2>1. ~(k.min > k.size)
      <3>1. k.min \in Nat /\ k.size \in Nat /\ k.min <= k.size
        BY <1>1, <1>6, <1>8
      <3> QED BY <3>1
    <2> QED BY <1>9, <2>1, Zenon
  <1> HIDE DEF g
  <1>12. g.min \in Nat /\ g.min <= g.size /\ g.next \in g.min + 1 .. g.size + 1
    BY <1>1, <1>6, <1>10
  <1>13. /\ Consecutive(cls') /\ Front(cls') = g.next
         /\ cls'.size = g.size /\ cls'.min = g.min /\ cls'.cycling = g.cycling
         /\ cls'.rows = <<>> => g.next = g.size + 1
         /\ cls'.rows # <<>> => ~cls'.over
    BY <1>5, <1>10, <1>11, <1>12, AdvanceLines
  <1>14. cls'.over => cls'.min = cls'.size
    BY <1>1, <1>6, <1>10, <1>13
  <1> QED BY <1>10, <1>13, <1>14

\* A thread gets the next line.
LEMMA ChunkHands ==
    ASSUME TypeInv, ChunkInv, Served("getLine"), NEW t \in Threads, run[t] < NRuns,
           ~StopIteration, NextRow.rows # <<>>,
           Hand(t, Head(NextRow.rows)), cls' = [NextRow EXCEPT !.rows = Tail(@)],
           Served("getLine")', Only' = Only
    PROVE  /\ ChunkInv' /\ Last' = Front(cls) /\ Front(cls) <= cls.size
           /\ Len(handed') = Len(handed) + 1 /\ handed' # <<>>
  <1>1. /\ cls.size = Only.size /\ cls.min = Only.start /\ cls.cycling = Only.cycle
        /\ Consecutive(cls)
        /\ \A u \in Threads : AtEnd(u) => cls.over
        /\ \A u \in Threads : AtEnd(u) \/ pc[u] = "again" => cls.cycling
        /\ Len(handed) >= Front(cls) - cls.min - 1
        /\ \A u \in Threads : pc[u] = "again" =>
             \A i \in Len(handed) - (Front(cls) - cls.min - 1) + 1 .. Len(handed) :
                handed[i].thread # u
    BY DEF ChunkInv
  <1>2. /\ Consecutive(NextRow) /\ Front(NextRow) = Front(cls)
        /\ NextRow.size = cls.size /\ NextRow.min = cls.min /\ NextRow.cycling = cls.cycling
        /\ ~cls.over /\ ~NextRow.over /\ Head(NextRow.rows) = Front(cls)
    BY <1>1, NextRowLines
  <1>3. /\ Consecutive(cls') /\ Front(cls') = Front(cls) + 1
        /\ cls'.size = cls.size /\ cls'.min = cls.min /\ cls'.cycling = cls.cycling
        /\ ~cls'.over
    BY <1>2, TakeLine
  <1> DEFINE f == Front(cls)
             n == Len(handed)
  <1>4. f \in Int /\ f >= cls.min + 1 /\ cls.min \in Nat /\ cls.size \in Nat
    <2>1. f \in cls.min + 1 .. cls.size + 1 /\ cls.min \in Nat
      BY <1>1 DEF Consecutive
    <2>2. cls.size \in Nat
      BY DEF TypeInv, ClassType
    <2> QED BY <2>1, <2>2
  <1>5. f <= cls.size
    <2>1. Front(cls') \in cls'.min + 1 .. cls'.size + 1
      BY <1>3 DEF Consecutive
    <2> QED BY <1>3, <1>4, <2>1
  <1>6. /\ handed' \in Seq(Calls) /\ n \in Nat /\ Len(handed') = n + 1
        /\ handed'[n + 1] = [thread |-> t, run |-> run[t], value |-> f]
        /\ \A i \in 1 .. n : handed'[i] = handed[i]
        /\ handed' # <<>> /\ Last' = f /\ failures' = failures
        /\ Finish(t)
    <2>1. Hand(t, f) /\ f \in Int
      BY <1>2, <1>4
    <2> QED BY <2>1, HandStep
  <1>7. handed'[n + 1].thread = t
    BY <1>6
  <1>8. pc'[t] = "idle" /\ \A u \in Threads \ {t} : pc'[u] = pc[u]
    BY <1>6, FinishStep
  <1>9. \A u \in Threads : ~AtEnd(u)'
    BY <1>1, <1>2, <1>8 DEF AtEnd
  <1>10. \A u \in Threads : pc'[u] = "again" => pc[u] = "again" /\ u # t
    BY <1>8
  <1> HIDE DEF f, n
  <1>11. ASSUME NEW u \in Threads, pc'[u] = "again",
                NEW i \in (n + 1) - ((f + 1) - cls.min - 1) + 1 .. n + 1
         PROVE  handed'[i].thread # u
    <2>1. pc[u] = "again" /\ u # t
      BY <1>10, <1>11
    <2>2. CASE i = n + 1
      BY <1>7, <2>1, <2>2
    <2>3. CASE i # n + 1
      <3>1. n >= f - cls.min - 1
        BY <1>1 DEF f, n
      <3>2. i \in n - (f - cls.min - 1) + 1 .. n /\ i \in 1 .. n
        <4> DEFINE m == cls.min
        <4>1. f \in Int /\ n \in Nat /\ m \in Nat
          BY <1>4, <1>6
        <4>2. n >= f - m - 1 /\ i # n + 1 /\ i \in (n + 1) - ((f + 1) - m - 1) + 1 .. n + 1
          BY <1>11, <2>3, <3>1
        <4> HIDE DEF m
        <4>3. i \in Int /\ i <= n /\ i >= (n + 1) - ((f + 1) - m - 1) + 1
          BY <4>1, <4>2
        <4>4. i \in n - (f - m - 1) + 1 .. n
          BY <4>1, <4>3
        <4>5. i \in 1 .. n
          BY <4>1, <4>2, <4>3
        <4> QED BY <4>4, <4>5 DEF m
      <3>3. handed[i].thread # u
        BY <1>1, <2>1, <3>2 DEF f, n
      <3> QED BY <1>6, <3>2, <3>3
    <2> QED BY <2>2, <2>3
  <1>12. /\ Front(cls') > cls'.min + 1 /\ Last' = Front(cls') - 1
         /\ Len(handed') >= Front(cls') - cls'.min - 1
    <2>1. n >= f - cls.min - 1
      BY <1>1 DEF f, n
    <2>2. Front(cls') = f + 1
      BY <1>3 DEF f
    <2> QED BY <1>3, <1>4, <1>6, <2>1, <2>2
  <1>13. \A u \in Threads : pc'[u] = "again" =>
             \A i \in Len(handed') - (Front(cls') - cls'.min - 1) + 1 .. Len(handed') :
                handed'[i].thread # u
    <2>1. Front(cls') = f + 1 /\ Len(handed') = n + 1 /\ cls'.min = cls.min
      BY <1>3, <1>6 DEF f
    <2> QED BY <1>11, <2>1
  <1>14. \A u \in Threads : AtEnd(u)' \/ pc'[u] = "again" => cls'.cycling
    BY <1>1, <1>3, <1>9, <1>10
  <1>15. ChunkInv'
    BY <1>1, <1>3, <1>6, <1>9, <1>12, <1>13, <1>14 DEF ChunkInv
  <1> QED BY <1>5, <1>6, <1>15 DEF f, n

\* A call that fails while the generator is over, or the count of a full file: the lines
\* stay as they are.
LEMMA ChunkStays ==
    ASSUME TypeInv', ChunkInv, Served("getLine"), NEW t \in Threads,
           cls'.size = cls.size, cls'.min = cls.min, cls'.cycling = cls.cycling,
           cls'.next = cls.next, cls'.rows = cls.rows, cls'.over = cls.over,
           handed' = handed, Dead => Dead', Only' = Only,
           \A u \in Threads \ {t} : pc'[u] = pc[u],
           \/ pc'[t] = "idle" /\ ~AtEnd(t)
           \/ pc'[t] = "rotate" /\ pc[t] = "eof"
    PROVE  ChunkInv'
  <1>1. Front(cls') = Front(cls)
    BY DEF Front
  <1>2. /\ cls.size = Only.size /\ cls.min = Only.start /\ cls.cycling = Only.cycle
        /\ Consecutive(cls)
        /\ \A u \in Threads : AtEnd(u) => cls.over
        /\ \A u, v \in Threads : AtEnd(u) /\ AtEnd(v) => u = v
        /\ \A u \in Threads : AtEnd(u) \/ pc[u] = "again" => cls.cycling
        /\ cls.over => \/ ~cls.cycling \/ cls.min = cls.size
                       \/ Dead \/ \E u \in Threads : AtEnd(u)
    BY DEF ChunkInv
  <1>3. Consecutive(cls')
    <2>1. cls' \in ClassType
      BY DEF TypeInv
    <2> QED BY <1>1, <1>2, <2>1 DEF Consecutive
  <1>4. \A u \in Threads : AtEnd(u)' <=> AtEnd(u)
    BY DEF AtEnd
  <1>5. \A u \in Threads : pc'[u] = "again" => pc[u] = "again"
    OBVIOUS
  <1>6. Last' = Last
    BY DEF Last
  <1>7. \/ Front(cls') > cls'.min + 1 /\ handed' # <<>> /\ Last' = Front(cls') - 1
        \/ Front(cls') = cls'.min + 1
           /\ (handed' = <<>> \/ (Last' = cls'.size /\ cls'.cycling))
    BY <1>1, <1>6 DEF ChunkInv
  <1>8. Len(handed') >= Front(cls') - cls'.min - 1
    BY <1>1 DEF ChunkInv
  <1>9. \A u \in Threads : pc'[u] = "again" =>
             \A i \in Len(handed') - (Front(cls') - cls'.min - 1) + 1 .. Len(handed') :
                handed'[i].thread # u
    BY <1>1, <1>5 DEF ChunkInv
  <1>10. \A u \in Threads : AtEnd(u)' \/ pc'[u] = "again" => cls'.cycling
    BY <1>2, <1>4, <1>5
  <1>11. cls'.over => \/ ~cls'.cycling \/ cls'.min = cls'.size
                      \/ Dead' \/ \E u \in Threads : AtEnd(u)'
    BY <1>2, <1>4
  <1> QED BY <1>2, <1>3, <1>4, <1>7, <1>8, <1>9, <1>10, <1>11 DEF ChunkInv

\* A call meets the end of the file.
LEMMA ChunkEnds ==
    ASSUME TypeInv, ChunkInv, Served("getLine"), NEW t \in Threads,
           ~StopIteration, NextRow.rows = <<>>, cls' = NextRow,
           handed' = handed, Only' = Only,
           \A u \in Threads \ {t} : pc'[u] = pc[u],
           \/ pc'[t] = "eof" /\ cls.cycling
           \/ pc'[t] = "idle" /\ (~cls.cycling \/ Dead')
    PROVE  ChunkInv'
  <1>1. /\ cls.size = Only.size /\ cls.min = Only.start /\ cls.cycling = Only.cycle
        /\ Consecutive(cls)
        /\ \A u \in Threads : AtEnd(u) => cls.over
        /\ \A u \in Threads : AtEnd(u) \/ pc[u] = "again" => cls.cycling
    BY DEF ChunkInv
  <1>2. /\ Consecutive(cls') /\ Front(cls') = Front(cls)
        /\ cls'.size = cls.size /\ cls'.min = cls.min /\ cls'.cycling = cls.cycling
        /\ ~cls.over /\ cls'.over
    BY <1>1, NextRowLines
  <1>3. \A u \in Threads : AtEnd(u)' => u = t /\ pc'[t] = "eof"
    BY <1>1, <1>2 DEF AtEnd
  <1>4. pc'[t] = "eof" => AtEnd(t)'
    BY DEF AtEnd
  <1>5. \A u \in Threads : pc'[u] = "again" => pc[u] = "again"
    OBVIOUS
  <1>6. Last' = Last
    BY DEF Last
  <1>7. \/ Front(cls') > cls'.min + 1 /\ handed' # <<>> /\ Last' = Front(cls') - 1
        \/ Front(cls') = cls'.min + 1
           /\ (handed' = <<>> \/ (Last' = cls'.size /\ cls'.cycling))
    BY <1>2, <1>6 DEF ChunkInv
  <1>8. Len(handed') >= Front(cls') - cls'.min - 1
    BY <1>2 DEF ChunkInv
  <1>9. \A u \in Threads : pc'[u] = "again" =>
             \A i \in Len(handed') - (Front(cls') - cls'.min - 1) + 1 .. Len(handed') :
                handed'[i].thread # u
    BY <1>2, <1>5 DEF ChunkInv
  <1>10. \A u \in Threads : AtEnd(u)' \/ pc'[u] = "again" => cls'.cycling
    BY <1>1, <1>2, <1>3, <1>5
  <1>11. cls'.over => \/ ~cls'.cycling \/ cls'.min = cls'.size
                      \/ Dead' \/ \E u \in Threads : AtEnd(u)'
    BY <1>2, <1>4
  <1>12. \A u \in Threads : AtEnd(u)' => cls'.over
    BY <1>2
  <1>13. \A u, v \in Threads : AtEnd(u)' /\ AtEnd(v)' => u = v
    BY <1>3
  <1> QED BY <1>1, <1>2, <1>7, <1>8, <1>9, <1>10, <1>11, <1>12, <1>13 DEF ChunkInv

\* A thread replaces the generator.
LEMMA ChunkRotates ==
    ASSUME TypeInv, TypeInv', ChunkInv, Served("getLine"), NEW t \in Threads, ChunkRotate(t),
           Only' = Only
    PROVE  ChunkInv' /\ cls.over /\ ~cls'.over
  <1>1. /\ pc[t] = "rotate" /\ pc' = [pc EXCEPT ![t] = "again"]
        /\ cls' = NewGenerator(cls) /\ handed' = handed /\ failures' = failures
    BY DEF ChunkRotate
  <1>2. pc'[t] = "again" /\ \A u \in Threads \ {t} : pc'[u] = pc[u]
    BY <1>1 DEF TypeInv
  <1>3. /\ cls.size = Only.size /\ cls.min = Only.start /\ cls.cycling = Only.cycle
        /\ Consecutive(cls) /\ cls.cycling /\ cls.over
        /\ \A u \in Threads : AtEnd(u) => u = t
    BY <1>1 DEF ChunkInv, AtEnd
  <1>4. cls \in ClassType /\ cls.size \in Nat /\ cls.min \in Nat /\ cls.min <= cls.size
        /\ cls.rows = <<>> /\ cls.next = cls.size + 1 /\ Len(cls.rows) = 0
    BY <1>3 DEF Consecutive, ClassType
  <1>5. ~(cls.min > cls.size)
    BY <1>4
  <1>6. cls'.over = (cls.min > cls.size)
    BY <1>1, <1>4 DEF NewGenerator, ClassType
  <1>7. /\ cls'.size = cls.size /\ cls'.min = cls.min /\ cls'.cycling = cls.cycling
        /\ cls'.rows = <<>> /\ cls'.next = cls.min + 1 /\ ~cls'.over
    <2>1. ~cls'.over
      BY <1>5, <1>6, Zenon
    <2> QED BY <1>1, <1>4, <2>1 DEF NewGenerator, ClassType
  <1>8. Front(cls) = cls.size + 1 /\ Len(cls'.rows) = 0 /\ DOMAIN cls'.rows = {}
    BY <1>4, <1>7 DEF Front
  <1>9. Front(cls') = cls'.min + 1
    BY <1>4, <1>7, <1>8 DEF Front
  <1>10. Consecutive(cls')
    <2>1. cls' \in ClassType
      BY DEF TypeInv
    <2> QED BY <1>4, <1>7, <1>8, <1>9, <2>1 DEF Consecutive
  <1>11. Last' = Last
    BY <1>1 DEF Last
  <1>12. handed = <<>> \/ Last = cls.size
    BY <1>4, <1>8 DEF ChunkInv
  <1>13. Len(handed) \in Nat
    BY CallTypes
  <1>14. Len(handed') >= Front(cls') - cls'.min - 1
    BY <1>1, <1>4, <1>7, <1>9, <1>13
  <1>15. \A u \in Threads : pc'[u] = "again" =>
             \A i \in Len(handed') - (Front(cls') - cls'.min - 1) + 1 .. Len(handed') :
                handed'[i].thread # u
    <2>1. Len(handed') - (Front(cls') - cls'.min - 1) + 1 = Len(handed') + 1
      BY <1>1, <1>4, <1>7, <1>9, <1>13
    <2>2. \A i \in Len(handed') + 1 .. Len(handed') : FALSE
      BY <1>1, <1>13
    <2> QED BY <2>1, <2>2
  <1>16. \A u \in Threads : ~AtEnd(u)'
    BY <1>2, <1>3 DEF AtEnd
  <1> QED BY <1>1, <1>3, <1>7, <1>9, <1>10, <1>11, <1>12, <1>14, <1>15, <1>16 DEF ChunkInv

\* What a call that has failed leaves.
LEMMA FailLeaves ==
    ASSUME TypeInv, NEW t \in Threads, run[t] < NRuns, NEW error, Fail(t, error)
    PROVE  /\ handed' = handed
           /\ Dead => Dead'
           /\ error = "AttributeError" => Dead'
           /\ pc'[t] = "idle" /\ run'[t] = run[t] + 1
           /\ \A u \in Threads \ {t} : pc'[u] = pc[u] /\ run'[u] = run[u]
  <1> DEFINE f == [thread |-> t, run |-> run[t], error |-> error]
  <1>1. failures' = failures \union {f} /\ handed' = handed /\ Finish(t)
    BY DEF Fail
  <1>2. f.error = error
    OBVIOUS
  <1> HIDE DEF f
  <1>3. (Dead => Dead') /\ (error = "AttributeError" => Dead')
    BY <1>1, <1>2 DEF Dead
  <1> QED BY <1>1, <1>3, FinishStep

LEMMA ChunkStep ==
    ASSUME TypeInv, TypeInv', LoadInv, ChunkInv, Next
    PROVE  ChunkInv'
  <1> SUFFICES ASSUME Served("getLine")'
               PROVE  ChunkInv'
    BY DEF ChunkInv
  <1>1. setup' = setup /\ OneInstance /\ setup.method = "getLine"
    <2>1. setup' = setup
      BY OneMethod DEF LoadMacro
    <2> QED BY <2>1 DEF Served, OneInstance
  <1>2. Only' = Only
    BY <1>1 DEF Only
  <1>3. CASE todo # <<>>
    <2>1. ~broken'
      BY DEF Served
    <2>2. /\ cls'.size = Only.size /\ cls'.min = Only.start /\ cls'.cycling = Only.cycle
          /\ Consecutive(cls') /\ Front(cls') = cls'.min + 1
          /\ cls'.over => cls'.min = cls'.size
      BY <1>1, <1>3, <2>1, ChunkLoads
    <2>3. handed' = <<>> /\ \A t \in Threads : pc'[t] = "idle"
      BY <1>1, <1>3, LoadsOne
    <2>4. Len(handed') = 0 /\ cls'.min \in Nat
      BY <2>2, <2>3 DEF Consecutive
    <2>5. Len(handed') >= Front(cls') - cls'.min - 1
      BY <2>2, <2>4
    <2> QED BY <1>2, <2>2, <2>3, <2>5 DEF ChunkInv, AtEnd
  <1>4. CASE todo = <<>>
    <2>1. ~LoadMacro
      BY <1>4 DEF LoadMacro
    <2>2. PICK t \in Threads :
            run[t] < NRuns /\ (ChunkLine(t) \/ ChunkCount(t) \/ ChunkRotate(t) \/ ChunkAgain(t))
      BY <1>1, <2>1, OneMethod
    <2>3. Served("getLine") /\ cls \in ClassType
      BY <1>1, <1>4, <2>1, OneMethod DEF Served, TypeInv
    <2>4. CASE ChunkCount(t)
      <3> DEFINE counter == IF cls.counter = None THEN cls.counter ELSE cls.counter + 1
      <3>1. /\ pc[t] = "eof" /\ pc' = [pc EXCEPT ![t] = "rotate"]
            /\ handed' = handed /\ failures' = failures
            /\ cls' = [cls EXCEPT !.counter = counter]
        BY <2>4 DEF ChunkCount
      <3> HIDE DEF counter
      <3>2. /\ cls'.size = cls.size /\ cls'.min = cls.min /\ cls'.cycling = cls.cycling
            /\ cls'.next = cls.next /\ cls'.rows = cls.rows /\ cls'.over = cls.over
        BY <2>3, <3>1 DEF ClassType
      <3>3. pc'[t] = "rotate" /\ \A u \in Threads \ {t} : pc'[u] = pc[u]
        BY <3>1 DEF TypeInv
      <3>4. Dead => Dead'
        BY <3>1 DEF Dead
      <3> QED BY <1>2, <2>3, <3>1, <3>2, <3>3, <3>4, ChunkStays
    <2>5. CASE ChunkRotate(t)
      BY <1>2, <2>3, <2>5, ChunkRotates
    <2>6. CASE (ChunkLine(t) \/ ChunkAgain(t)) /\ StopIteration
      <3>1. cls' = cls /\ Fail(t, "StopIteration") /\ ~AtEnd(t)
        BY <2>6 DEF ChunkLine, ChunkAgain, AtEnd, Ready
      <3>2. /\ handed' = handed /\ pc'[t] = "idle"
            /\ Dead => Dead'
            /\ \A u \in Threads \ {t} : pc'[u] = pc[u]
        BY <2>2, <3>1, FailLeaves
      <3> QED BY <1>2, <2>3, <3>1, <3>2, ChunkStays
    <2>7. CASE (ChunkLine(t) \/ ChunkAgain(t)) /\ ~StopIteration /\ NextRow.rows # <<>>
      <3>1. Hand(t, Head(NextRow.rows)) /\ cls' = [NextRow EXCEPT !.rows = Tail(@)]
        BY <2>7 DEF ChunkLine, ChunkAgain
      <3> QED BY <1>2, <2>2, <2>3, <2>7, <3>1, ChunkHands
    <2>8. CASE ChunkLine(t) /\ ~StopIteration /\ NextRow.rows = <<>>
      <3>1. cls' = NextRow
        BY <2>8 DEF ChunkLine
      <3>2. CASE cls.cycling
        <4>1. pc' = [pc EXCEPT ![t] = "eof"] /\ handed' = handed
          BY <2>8, <3>2 DEF ChunkLine
        <4>2. pc'[t] = "eof" /\ \A u \in Threads \ {t} : pc'[u] = pc[u]
          BY <4>1 DEF TypeInv
        <4> QED BY <1>2, <2>3, <2>8, <3>1, <3>2, <4>1, <4>2, ChunkEnds
      <3>3. CASE ~cls.cycling
        <4>1. Fail(t, "EOFError")
          BY <2>8, <3>3 DEF ChunkLine
        <4>2. handed' = handed /\ pc'[t] = "idle" /\ \A u \in Threads \ {t} : pc'[u] = pc[u]
          BY <2>2, <4>1, FailLeaves
        <4> QED BY <1>2, <2>3, <2>8, <3>1, <3>3, <4>2, ChunkEnds
      <3> QED BY <3>2, <3>3
    <2>9. CASE ChunkAgain(t) /\ ~StopIteration /\ NextRow.rows = <<>>
      <3>1. cls' = NextRow /\ Fail(t, "AttributeError")
        BY <2>9 DEF ChunkAgain
      <3>2. /\ handed' = handed /\ pc'[t] = "idle" /\ Dead'
            /\ \A u \in Threads \ {t} : pc'[u] = pc[u]
        BY <2>2, <3>1, FailLeaves
      <3> QED BY <1>2, <2>3, <2>9, <3>1, <3>2, ChunkEnds
    <2> QED BY <2>2, <2>4, <2>5, <2>6, <2>7, <2>8, <2>9
  <1> QED BY <1>3, <1>4

\* What raises after a full file has started again.
LEMMA RotationStep ==
    ASSUME TypeInv, LoadInv, ChunkInv, [Next]_vars,
           Serving({"getLine"}), cls.cycling, cls.min < cls.size, failures' # failures
    PROVE  \E t \in Threads :
             /\ run'[t] # run[t]
             /\ \/ \E u \in Threads \ {t} : pc[u] \in {"eof", "rotate"}
                \/ Overtaken(t)
                \/ Dead
  <1>1. Next /\ ~LoadMacro /\ setup.method = "getLine" /\ OneInstance
    BY DEF vars, LoadMacro, Serving
  <1>2. PICK t \in Threads :
            run[t] < NRuns /\ (ChunkLine(t) \/ ChunkCount(t) \/ ChunkRotate(t) \/ ChunkAgain(t))
    BY <1>1, OneMethod
  <1>3. Served("getLine")
    BY <1>1, OneMethod DEF Served
  <1>4. PICK error : Fail(t, error) /\ (ChunkLine(t) \/ ChunkAgain(t))
    BY <1>2, Zenon DEF ChunkLine, ChunkCount, ChunkRotate, ChunkAgain, Hand
  <1>5. run'[t] # run[t]
    <2>1. run[t] \in Int
      BY ProvidersAssumption DEF TypeInv
    <2>2. run'[t] = run[t] + 1
      BY <1>2, <1>4, FailLeaves
    <2> QED BY <2>1, <2>2
  <1>6. CASE StopIteration
    <2>1. cls.over
      BY <1>6 DEF StopIteration
    <2>2. cls.min # cls.size
      BY DEF TypeInv, ClassType
    <2>3. Dead \/ \E u \in Threads : AtEnd(u)
      BY <1>3, <2>1, <2>2 DEF ChunkInv
    <2>4. ~AtEnd(t)
      BY <1>4 DEF ChunkLine, ChunkAgain, Ready, AtEnd
    <2> QED BY <1>5, <2>3, <2>4 DEF AtEnd
  <1>7. CASE ~StopIteration
    <2>1. NextRow.rows = <<>> /\ ChunkAgain(t)
      <3>1. NextRow.rows = <<>>
        BY <1>4, <1>7 DEF ChunkLine, ChunkAgain, Hand
      <3>2. ~ChunkLine(t)
        BY <1>7, <3>1 DEF ChunkLine
      <3> QED BY <1>4, <3>1, <3>2
    <2>2. Consecutive(cls)
      BY <1>3 DEF ChunkInv
    <2>3. Front(cls) = cls.size + 1
      BY <1>7, <2>1, <2>2, NextRowLines
    <2>4. pc[t] = "again"
      BY <2>1 DEF ChunkAgain
    <2>5. \A i \in Len(handed) - (Front(cls) - cls.min - 1) + 1 .. Len(handed) :
                handed[i].thread # t
      BY <1>3, <2>4 DEF ChunkInv
    <2>6. Front(cls) - cls.min - 1 = cls.size - cls.min
      <3>1. cls.size \in Int /\ cls.min \in Int
        BY DEF TypeInv, ClassType
      <3> QED BY <2>3, <3>1
    <2> QED BY <1>5, <2>4, <2>5, <2>6 DEF Overtaken
  <1> QED BY <1>6, <1>7

-----------------------------------------------------------------------------
(* Values in turn.                                                         *)

\* listGenerator.getValue: the position is the number of the last element.
ListInv ==
    Served("next") =>
        /\ cls.size = Only.size /\ cls.size > 0
        /\ cls.position \in 0 .. cls.size /\ Last = cls.position
        /\ handed = <<>> => cls.position = 0

\* CsvDataFile.nextValue: the position counts the calls.
CsvInv ==
    Served("nextValue") =>
        /\ cls.size = Only.size /\ cls.size > 0
        /\ cls.position = Len(handed)
        /\ handed # <<>> => Last = ((cls.position - 1) % cls.size) + 1

\* A call of InTurn.
LEMMA InTurnCall ==
    ASSUME TypeInv, TypeInv', NEW t \in Threads, run[t] < NRuns, InTurn(t),
           NEW position \in Int, cls' = [cls EXCEPT !.position = position]
    PROVE  /\ cls'.size = cls.size /\ cls'.position = position
           /\ Len(handed') = Len(handed) + 1 /\ handed' # <<>>
           /\ Last' = ((position - 1) % cls.size) + 1
  <1>1. /\ cls'.size = cls.size /\ cls'.position = position
    BY DEF TypeInv, ClassType
  <1> DEFINE value == ((position - 1) % cls.size) + 1
  <1>2. Hand(t, value)
    BY <1>1 DEF InTurn
  <1> HIDE DEF value
  <1>3. value \in Int
    BY <1>2, HandShape
  <1>4. Len(handed') = Len(handed) + 1 /\ handed' # <<>> /\ Last' = value
    BY <1>2, <1>3, HandStep
  <1> QED BY <1>1, <1>4 DEF value

\* The element after the last one is the first one.
LEMMA NextElement ==
    ASSUME NEW n \in Nat \ {0}, NEW p \in 0 .. n
    PROVE  /\ (p % n) + 1 = IF p >= n THEN 1 ELSE p + 1
           /\ (((IF p >= n THEN 1 ELSE p + 1) - 1) % n) + 1 = IF p >= n THEN 1 ELSE p + 1
  <1>1. CASE p = n
    <2>1. n % n = 0 /\ 0 % n = 0
      BY ModSmall
    <2>2. p >= n /\ 1 - 1 = 0
      BY <1>1
    <2> QED BY <1>1, <2>1, <2>2
  <1>2. CASE p # n
    <2>1. p \in 0 .. n - 1 /\ ~(p >= n) /\ (p + 1) - 1 = p
      BY <1>2
    <2>2. p % n = p
      BY <2>1, ModSmall
    <2> QED BY <2>1, <2>2
  <1> QED BY <1>1, <1>2

LEMMA ListStep ==
    ASSUME TypeInv, TypeInv', LoadInv, ListInv, Next
    PROVE  ListInv'
  <1> SUFFICES ASSUME Served("next")'
               PROVE  ListInv'
    BY DEF ListInv
  <1>1. /\ setup' = setup /\ OneInstance /\ setup.method = "next" /\ ~broken'
        /\ Only' = Only
        /\ todo = <<>> => ~LoadMacro /\ Served("next")
    BY ServedBefore
  <1>2. CASE todo # <<>>
    <2>1. cls = NewClass /\ cls' \in Instances(setup.defs[1]) /\ handed' = <<>>
      BY <1>1, <1>2, LoadsOne
    <2>2. setup.defs[1].module = "listGenerator" /\ Only.size > 0 /\ Only.size \in Nat
      BY <1>1, OnlyTypes DEF TypeInv, Arguments
    <2>3. cls' = InitList(Only)
      BY <2>1, <2>2 DEF Instances, Only
    <2>4. cls'.size = Only.size /\ cls'.position = 0
      BY <2>1, <2>3 DEF InitList, NewClass
    <2>5. Last' = 0
      BY <2>1 DEF Last
    <2> QED BY <1>1, <2>1, <2>2, <2>4, <2>5 DEF ListInv
  <1>3. CASE todo = <<>>
    <2>1. PICK t \in Threads : run[t] < NRuns /\ InTurn(t)
      BY <1>1, <1>3, OneMethod
    <2>2. /\ cls.size = Only.size /\ cls.size > 0 /\ cls.position \in 0 .. cls.size
          /\ cls.size \in Nat \ {0}
      BY <1>1, <1>3 DEF ListInv, TypeInv, ClassType
    <2> DEFINE position == IF cls.position >= cls.size THEN 1 ELSE cls.position + 1
    <2>3. cls' = [cls EXCEPT !.position = position]
      BY <1>1, <2>1 DEF InTurn, Ready
    <2>4. position \in 0 .. cls.size /\ position \in Int
      BY <2>2
    <2>5. ((position - 1) % cls.size) + 1 = position
      BY <2>2, NextElement
    <2> HIDE DEF position
    <2>6. /\ cls'.size = cls.size /\ cls'.position = position
          /\ handed' # <<>> /\ Last' = ((position - 1) % cls.size) + 1
      BY <2>1, <2>3, <2>4, InTurnCall
    <2> QED BY <1>1, <2>2, <2>4, <2>5, <2>6 DEF ListInv
  <1> QED BY <1>2, <1>3

LEMMA CsvStep ==
    ASSUME TypeInv, TypeInv', LoadInv, CsvInv, Next
    PROVE  CsvInv'
  <1> SUFFICES ASSUME Served("nextValue")'
               PROVE  CsvInv'
    BY DEF CsvInv
  <1>1. /\ setup' = setup /\ OneInstance /\ setup.method = "nextValue" /\ ~broken'
        /\ Only' = Only
        /\ todo = <<>> => ~LoadMacro /\ Served("nextValue")
    BY ServedBefore
  <1>2. CASE todo # <<>>
    <2>1. /\ cls = NewClass /\ cls' \in Instances(setup.defs[1]) /\ ~Refused(setup.defs[1])
          /\ handed' = <<>>
      BY <1>1, <1>2, LoadsOne
    <2>2. setup.defs[1].module = "CsvDataFile" /\ Only.size \in Nat
      BY <1>1, OnlyTypes DEF TypeInv, Arguments
    <2>3. cls' = InitCsv(Only) /\ ~CsvRefused(Only)
      BY <2>1, <2>2 DEF Instances, Refused, Only
    <2>4. cls.size = 0 /\ cls.position = 0
      BY <2>1 DEF NewClass
    <2>5. cls'.size = 0 + Only.size /\ cls'.position = 0
      BY <2>1, <2>3, <2>4 DEF InitCsv, NewClass
    <2>6. cls'.size = Only.size /\ Only.size > 0
      BY <2>2, <2>3, <2>4, <2>5 DEF CsvRefused
    <2>7. Len(handed') = 0
      BY <2>1
    <2> QED BY <1>1, <2>1, <2>5, <2>6, <2>7 DEF CsvInv
  <1>3. CASE todo = <<>>
    <2>1. PICK t \in Threads : run[t] < NRuns /\ InTurn(t)
      BY <1>1, <1>3, OneMethod
    <2>2. cls.size = Only.size /\ cls.size > 0 /\ cls.position = Len(handed)
      BY <1>1, <1>3 DEF CsvInv
    <2> DEFINE position == cls.position + 1
    <2>3. cls' = [cls EXCEPT !.position = position]
      BY <1>1, <2>1 DEF InTurn, Ready
    <2>4. position \in Int /\ position = Len(handed) + 1
      BY <2>2, CallTypes
    <2> HIDE DEF position
    <2>5. /\ cls'.size = cls.size /\ cls'.position = position
          /\ Len(handed') = Len(handed) + 1
          /\ handed' # <<>> /\ Last' = ((position - 1) % cls.size) + 1
      BY <2>1, <2>3, <2>4, InTurnCall
    <2> QED BY <1>1, <2>2, <2>4, <2>5 DEF CsvInv
  <1> QED BY <1>2, <1>3

\* The number of the last value that was handed out.
LastDealt == IF handed = <<>> THEN 0 ELSE Last - First
Starts == setup.defs[1].args.cycle \/ setup.method \in {"next", "nextValue"}

\* A call deals the next value.
Deals ==
    /\ Len(handed') = Len(handed) + 1 /\ handed' # <<>>
    /\ Starts \/ LastDealt < setup.defs[1].args.size - First
    /\ Last' - First = (LastDealt % (setup.defs[1].args.size - First)) + 1

LEMMA FileDeals ==
    ASSUME TypeInv, FileInv, Served("getNextElem"), Only.counted \/ ~Only.cycle,
           NEW t \in Threads, run[t] < NRuns, FileNext(t)
    PROVE  handed' = handed \/ Deals
  <1> DEFINE over == cls.position + 1 > cls.size
             position == IF over /\ cls.cycling THEN 1 ELSE cls.position + 1
             counter == IF over /\ cls.cycling /\ cls.counter # None
                        THEN cls.counter + 1 ELSE cls.counter
  <1>1. cls' = [cls EXCEPT !.position = position, !.counter = counter]
    BY DEF FileNext
  <1>2. cls \in ClassType /\ cls.size \in Nat /\ cls.position \in Int
    BY DEF TypeInv, ClassType
  <1>3. cls'.position = position
    BY <1>1, <1>2 DEF ClassType
  <1>4. /\ cls.size = Only.size /\ cls.size > 0 /\ cls.cycling = Only.cycle
        /\ cls.counter = None <=> ~Only.counted
    BY DEF FileInv
  <1>5. First = 0 /\ setup.defs[1].args.size - First = Only.size
    BY <1>2, <1>4 DEF Served, First, Only
  <1>6. Len(handed) \in Nat /\ DOMAIN handed = 1 .. Len(handed)
    BY CallTypes
  <1>7. CASE over /\ (~cls.cycling \/ cls.counter = None)
    <2>1. \E error : Fail(t, error)
      BY <1>7 DEF FileNext
    <2> QED BY <2>1 DEF Fail
  <1>8. CASE ~(over /\ (~cls.cycling \/ cls.counter = None))
    <2>1. Hand(t, position) /\ position \in Int
      BY <1>2, <1>3, <1>8 DEF FileNext
    <2>2. Len(handed') = Len(handed) + 1 /\ handed' # <<>> /\ Last' = position
      BY <2>1, HandStep
    <2>3. CASE cls.cycling
      <3>1. cls.position \in 0 .. cls.size /\ Last = cls.position
            /\ (handed = <<>> => cls.position = 0)
        BY <1>4, <2>3 DEF FileInv
      <3>2. LastDealt = cls.position
        BY <1>2, <1>5, <3>1 DEF LastDealt
      <3>3. cls.size \in Nat \ {0}
        BY <1>2, <1>4
      <3>4. position = IF cls.position >= cls.size THEN 1 ELSE cls.position + 1
        BY <1>2, <2>3
      <3>5. Starts
        BY <1>4, <2>3 DEF Starts, Only
      <3> HIDE DEF position
      <3>6. (cls.position % cls.size) + 1 = position
        BY <3>1, <3>3, <3>4, NextElement
      <3>7. Last' - First = position
        BY <1>5, <2>1, <2>2
      <3> QED BY <1>4, <1>5, <2>2, <3>2, <3>5, <3>6, <3>7 DEF Deals
    <2>4. CASE ~cls.cycling
      <3>1. position = cls.position + 1 /\ position <= cls.size
        BY <1>2, <1>8, <2>4
      <3>2. /\ cls.position \in Nat /\ Len(handed) = cls.position
            /\ \A i \in DOMAIN handed : handed[i].value = i
        BY <1>2, <2>4, <3>1 DEF FileInv
      <3>3. LastDealt = cls.position
        <4>1. CASE handed = <<>>
          <5>1. Len(handed) = 0
            BY <4>1
          <5> QED BY <3>2, <4>1, <5>1 DEF LastDealt
        <4>2. CASE handed # <<>>
          <5>1. Len(handed) \in DOMAIN handed
            <6>1. handed \in Seq(Calls)
              BY DEF TypeInv
            <6> QED BY <4>2, <6>1
          <5>2. Last = cls.position
            BY <3>2, <4>2, <5>1 DEF Last
          <5> QED BY <1>2, <1>5, <4>2, <5>2 DEF LastDealt
        <4> QED BY <4>1, <4>2
      <3>4. cls.size \in Nat \ {0} /\ cls.position \in 0 .. cls.size - 1
            /\ cls.position < cls.size
        BY <1>2, <1>4, <3>1, <3>2
      <3>5. cls.position % cls.size = cls.position
        BY <3>4, ModSmall
      <3>6. Last' - First = position
        BY <1>5, <2>1, <2>2
      <3> HIDE DEF position
      <3> QED BY <1>4, <1>5, <2>2, <3>1, <3>3, <3>4, <3>5, <3>6 DEF Deals
    <2> QED BY <2>3, <2>4
  <1> QED BY <1>7, <1>8

LEMMA ListDeals ==
    ASSUME TypeInv, TypeInv', ListInv, CsvInv, NEW t \in Threads, run[t] < NRuns, InTurn(t),
           Served("next") \/ Served("nextValue")
    PROVE  Deals
  <1>1. cls.size \in Nat /\ cls.position \in Int
    BY DEF TypeInv, ClassType
  <1>2. cls.size = Only.size /\ cls.size \in Nat \ {0}
    BY <1>1 DEF ListInv, CsvInv
  <1>3. First = 0 /\ setup.defs[1].args.size - First = cls.size /\ Starts
    BY <1>1, <1>2 DEF Served, First, Only, Starts
  <1>4. CASE Served("next")
    <2> DEFINE position == IF cls.position >= cls.size THEN 1 ELSE cls.position + 1
    <2>1. cls' = [cls EXCEPT !.position = position]
      BY <1>4 DEF InTurn, Ready, Served
    <2>2. cls.position \in 0 .. cls.size /\ Last = cls.position
          /\ (handed = <<>> => cls.position = 0)
      BY <1>4 DEF ListInv
    <2>3. LastDealt = cls.position
      BY <1>1, <1>3, <2>2 DEF LastDealt
    <2>4. position \in Int
      BY <1>1
    <2>5. ((position - 1) % cls.size) + 1 = position /\ (cls.position % cls.size) + 1 = position
      BY <1>2, <2>2, NextElement
    <2> HIDE DEF position
    <2>6. Len(handed') = Len(handed) + 1 /\ handed' # <<>> /\ Last' = position
      BY <2>1, <2>4, <2>5, InTurnCall
    <2>7. Last' - First = position
      BY <1>3, <2>4, <2>6
    <2> QED BY <1>3, <2>3, <2>5, <2>6, <2>7 DEF Deals
  <1>5. CASE Served("nextValue")
    <2> DEFINE position == cls.position + 1
    <2>1. cls' = [cls EXCEPT !.position = position]
      BY <1>5 DEF InTurn, Ready, Served
    <2>2. cls.position = Len(handed)
          /\ (handed # <<>> => Last = ((cls.position - 1) % cls.size) + 1)
      BY <1>5 DEF CsvInv
    <2>3. position \in Int /\ position - 1 = cls.position
      BY <1>1
    <2> HIDE DEF position
    <2> DEFINE value == (cls.position % cls.size) + 1
    <2>4. Len(handed') = Len(handed) + 1 /\ handed' # <<>> /\ Last' = value
      BY <2>1, <2>3, InTurnCall
    <2>5. LastDealt % cls.size = cls.position % cls.size
      <3>1. CASE handed = <<>>
        <4>1. Len(handed) = 0
          BY <3>1
        <4> QED BY <2>2, <3>1, <4>1 DEF LastDealt
      <3>2. CASE handed # <<>>
        <4> DEFINE last == ((cls.position - 1) % cls.size) + 1
        <4>0. cls.position - 1 \in Int
          BY <1>1
        <4>1. last \in Int
          BY <1>2, <4>0, Division
        <4>2. last % cls.size = cls.position % cls.size
          BY <1>1, <1>2, ModSuccessor
        <4>3. Last = last
          BY <2>2, <3>2
        <4> HIDE DEF last
        <4>4. LastDealt = last
          BY <1>3, <3>2, <4>1, <4>3 DEF LastDealt
        <4> QED BY <4>2, <4>4
      <3> QED BY <3>1, <3>2
    <2>6. value \in Int
      BY <1>1, <1>2, Division
    <2>7. (LastDealt % cls.size) + 1 = value
      BY <2>5
    <2> HIDE DEF value
    <2>8. Last' - First = value
      BY <1>3, <2>4, <2>6
    <2> QED BY <1>3, <2>4, <2>7, <2>8 DEF Deals
  <1> QED BY <1>4, <1>5

LEMMA ChunkDeals ==
    ASSUME TypeInv, LoadInv, ChunkInv, Next, ~LoadMacro, Served("getLine")
    PROVE  handed' = handed \/ Deals
  <1>1. PICK t \in Threads :
            run[t] < NRuns /\ (ChunkLine(t) \/ ChunkCount(t) \/ ChunkRotate(t) \/ ChunkAgain(t))
    BY OneMethod DEF Served
  <1>2. CASE ~((ChunkLine(t) \/ ChunkAgain(t)) /\ ~StopIteration /\ NextRow.rows # <<>>)
    BY <1>1, <1>2, Zenon DEF ChunkLine, ChunkCount, ChunkRotate, ChunkAgain, Fail
  <1>3. CASE (ChunkLine(t) \/ ChunkAgain(t)) /\ ~StopIteration /\ NextRow.rows # <<>>
    <2>1. Hand(t, Head(NextRow.rows)) /\ cls' = [NextRow EXCEPT !.rows = Tail(@)]
          /\ UNCHANGED Shared
      BY <1>3 DEF ChunkLine, ChunkAgain
    <2>2. Served("getLine")' /\ Only' = Only
      BY <2>1 DEF Shared, Served, OneInstance, Only
    <2>3. /\ Last' = Front(cls) /\ Front(cls) <= cls.size
          /\ Len(handed') = Len(handed) + 1 /\ handed' # <<>>
      BY <1>1, <1>3, <2>1, <2>2, ChunkHands
    <2>4. /\ cls.size = Only.size /\ cls.min = Only.start /\ cls.cycling = Only.cycle
          /\ Consecutive(cls)
          /\ \/ Front(cls) > cls.min + 1 /\ handed # <<>> /\ Last = Front(cls) - 1
             \/ Front(cls) = cls.min + 1 /\ (handed = <<>> \/ (Last = cls.size /\ cls.cycling))
      BY DEF ChunkInv
    <2>5. /\ Front(cls) \in cls.min + 1 .. cls.size /\ cls.min \in Nat /\ cls.size \in Nat
          /\ Front(cls) \in Int
      <3>1. cls.size \in Nat /\ cls.min \in Nat /\ Front(cls) \in cls.min + 1 .. cls.size + 1
        BY <2>4 DEF Consecutive, ClassType
      <3> QED BY <2>3, <3>1
    <2>6. First = cls.min /\ setup.defs[1].args.size = cls.size /\ (cls.cycling => Starts)
      BY <2>4 DEF First, Served, Only, Starts
    <2> DEFINE n == cls.size - cls.min
               f == Front(cls) - cls.min
    <2>7. n \in Nat \ {0} /\ f \in 1 .. n /\ f - 1 \in 0 .. n - 1 /\ f \in Int
      BY <2>5
    <2>8. Last' - First = f
      BY <2>3, <2>6
    <2>9. CASE LastDealt = f - 1
      <3>1. (f - 1) % n = f - 1
        BY <2>7, ModSmall
      <3>2. f - 1 < n
        BY <2>7
      <3>3. (f - 1) + 1 = f
        BY <2>7
      <3> HIDE DEF f
      <3>4. LastDealt < n /\ f = (LastDealt % n) + 1
        BY <2>9, <3>1, <3>2, <3>3
      <3> QED BY <2>3, <2>6, <2>8, <3>4 DEF Deals
    <2>10. CASE LastDealt # f - 1
      <3>1. handed # <<>> /\ Front(cls) = cls.min + 1 /\ Last = cls.size /\ cls.cycling
        BY <2>4, <2>5, <2>6, <2>10 DEF LastDealt
      <3>2. LastDealt = n /\ f = 1
        BY <2>5, <2>6, <3>1 DEF LastDealt
      <3>3. n % n = 0
        BY <2>7, ModSmall
      <3>4. f = (LastDealt % n) + 1
        BY <3>2, <3>3
      <3> HIDE DEF f
      <3> QED BY <2>3, <2>6, <2>8, <3>1, <3>4 DEF Deals
    <2> QED BY <2>9, <2>10
  <1> QED BY <1>2, <1>3

-----------------------------------------------------------------------------
(* The theorems.                                                           *)

\* What the process has loaded and handed out, for every method.
ProvidersInv ==
    /\ TypeInv /\ LoadInv /\ PairsInv
    /\ FileInv /\ ElemInv
    /\ PopInv /\ NextInv /\ OwnInv /\ IncrementInv
    /\ ChunkInv /\ ListInv /\ CsvInv

LEMMA ProvidersInit ==
    ASSUME Init
    PROVE  ProvidersInv
  <1>1. todo # <<>>
    BY SetupsAssumption DEF Init
  <1>2. \A method : ~Served(method)
    BY <1>1 DEF Served
  <1>3. /\ FileInv /\ ElemInv /\ PopInv /\ NextInv /\ OwnInv /\ IncrementInv
        /\ ChunkInv /\ ListInv /\ CsvInv
    BY <1>2
    DEF FileInv, ElemInv, PopInv, NextInv, OwnInv, IncrementInv, ChunkInv, ListInv, CsvInv
  <1> QED BY <1>3, TypeInit, PairsInit DEF ProvidersInv

LEMMA ProvidersStutter ==
    ASSUME ProvidersInv, UNCHANGED vars
    PROVE  ProvidersInv'
  <1>1. UNCHANGED <<setup, todo, loaded, broken, cls, pc, run, handed, failures>>
    BY DEF vars
  <1>2. UNCHANGED <<OneInstance, Only, Last, Dead>>
        /\ (\A method : Served(method)' <=> Served(method))
        /\ (\A t \in Threads : AtEnd(t)' <=> AtEnd(t))
    BY <1>1 DEF OneInstance, Only, Last, Dead, Served, AtEnd
  <1>3. TypeInv' /\ LoadInv' /\ PairsInv'
    BY TypeStep, LoadStep, PairsStep DEF ProvidersInv
  <1>4. FileInv' /\ ElemInv'
    BY <1>1, <1>2 DEF ProvidersInv, FileInv, ElemInv
  <1>5. PopInv' /\ NextInv' /\ IncrementInv'
    BY <1>1, <1>2 DEF ProvidersInv, PopInv, NextInv, IncrementInv
  <1>6. OwnInv'
    BY <1>1, <1>2 DEF ProvidersInv, OwnInv, Wanted
  <1>7. ChunkInv'
    BY <1>1, <1>2 DEF ProvidersInv, ChunkInv
  <1>8. ListInv' /\ CsvInv'
    BY <1>1, <1>2 DEF ProvidersInv, ListInv, CsvInv
  <1> QED BY <1>3, <1>4, <1>5, <1>6, <1>7, <1>8 DEF ProvidersInv

LEMMA ProvidersStep ==
    ASSUME ProvidersInv, [Next]_vars
    PROVE  ProvidersInv'
  <1>1. CASE UNCHANGED vars
    BY <1>1, ProvidersStutter
  <1>2. CASE Next
    <2>1. TypeInv' /\ LoadInv' /\ PairsInv'
      BY TypeStep, LoadStep, PairsStep DEF ProvidersInv
    <2>2. FileInv' /\ ElemInv'
      BY <1>2, <2>1, FileStep, ElemStep DEF ProvidersInv
    <2>3. PopInv' /\ NextInv' /\ OwnInv' /\ IncrementInv'
      BY <1>2, <2>1, PopStep, NextStep, OwnStep, IncrementStep DEF ProvidersInv
    <2>4. ChunkInv' /\ ListInv' /\ CsvInv'
      BY <1>2, <2>1, ChunkStep, ListStep, CsvStep DEF ProvidersInv
    <2> QED BY <2>1, <2>2, <2>3, <2>4 DEF ProvidersInv
  <1> QED BY <1>1, <1>2

THEOREM ProvidersAreKept == Spec => []ProvidersInv
  <1> QED BY ProvidersInit, ProvidersStep, PTL DEF Spec

\* In thread mode no call of getElem or getNextElem runs out of the lines of a file that
\* loadFile has accepted, and unless the file starts again no line is given twice.
THEOREM AcceptedFiles == Spec => []AcceptedFileSuffices
  <1>1. ProvidersInv => AcceptedFileSuffices
    BY AcceptedFile DEF ProvidersInv
  <1> QED BY <1>1, ProvidersAreKept, PTL

\* identifierGenerator and Increment give no identifier twice, whichever thread asks in
\* which order; those that start again do so after their whole amount.
THEOREM IdentifiersAreDifferent == Spec => []IdentifiersDiffer
  <1>1. ProvidersInv => IdentifiersDiffer
    BY Identifiers DEF ProvidersInv
  <1> QED BY <1>1, ProvidersAreKept, PTL

\* A chunk file that rotates raises only while another thread is about to start it again, to
\* a reader that was overtaken by the whole file, or after that has happened once.
THEOREM RotationRaces == Spec => RotationRaisesInRaceOnly
  <1>1. ProvidersInv /\ [Next]_vars =>
          (Serving({"getLine"}) /\ cls.cycling /\ cls.min < cls.size /\ failures' # failures =>
            \E t \in Threads :
                /\ run'[t] # run[t]
                /\ \/ \E u \in Threads \ {t} : pc[u] \in {"eof", "rotate"}
                   \/ Overtaken(t)
                   \/ Dead)
    BY RotationStep DEF ProvidersInv
  <1> QED BY <1>1, ProvidersAreKept, PTL DEF Spec, RotationRaisesInRaceOnly

LEMMA DealtInit ==
    ASSUME Init
    PROVE  Dealt!Init
  <1>1. handed = <<>> /\ Len(handed) = 0
    BY DEF Init
  <1> QED BY <1>1 DEF Dealt!Init

\* A step deals the next value or none.
LEMMA DealtStep ==
    ASSUME ProvidersInv, ProvidersInv', [Next]_vars
    PROVE  [Dealt!Next]_(Dealt!vars)
  <1>1. UNCHANGED setup
    <2>1. Next => UNCHANGED setup
      BY OneMethod DEF LoadMacro, ProvidersInv
    <2> QED BY <2>1 DEF vars
  <1>2. UNCHANGED <<ToDeal, First, Starts>>
    BY <1>1 DEF ToDeal, Serving, OneInstance, First, Starts
  <1>3. CASE handed' = handed \/ ~ToDeal
    <2>1. handed' = handed => Last' = Last
      BY DEF Last
    <2> QED BY <1>1, <1>2, <1>3, <2>1 DEF Dealt!vars, Starts
  <1>4. CASE handed' # handed /\ ToDeal
    <2>1. Next /\ ~LoadMacro
      BY <1>4 DEF vars, LoadMacro
    <2>2. OneInstance /\ todo = <<>> /\ ~broken
          /\ setup.method \in {"getLine", "next", "nextValue", "getNextElem"}
      BY <1>4, <2>1, OneMethod DEF ToDeal, Serving, ProvidersInv
    <2>3. Deals
      <3>1. CASE Served("getLine")
        BY <1>4, <2>1, <3>1, ChunkDeals DEF ProvidersInv
      <3>2. CASE Served("next") \/ Served("nextValue")
        <4>1. PICK t \in Threads : run[t] < NRuns /\ InTurn(t)
          BY <2>1, <3>2, OneMethod DEF Served, ProvidersInv
        <4> QED BY <3>2, <4>1, ListDeals DEF ProvidersInv
      <3>3. CASE Served("getNextElem")
        <4>1. PICK t \in Threads : run[t] < NRuns /\ FileNext(t)
          BY <2>1, <3>3, OneMethod DEF Served, ProvidersInv
        <4>2. Only.counted \/ ~Only.cycle
          BY <1>4, <3>3 DEF ToDeal, Serving, Served, Only
        <4> QED BY <1>4, <3>3, <4>1, <4>2, FileDeals DEF ProvidersInv
      <3> QED BY <2>2, <3>1, <3>2, <3>3 DEF Served
    <2> DEFINE last == IF ToDeal /\ handed # <<>> THEN Last - First ELSE 0
               given == IF ToDeal THEN Len(handed) ELSE 0
    <2>4. last = LastDealt /\ given = Len(handed)
      BY <1>4 DEF LastDealt
    <2>5. last' = Last' - First /\ given' = Len(handed')
      BY <1>2, <1>4, <2>3 DEF Deals
    <2>6. /\ given' = given + 1
          /\ Starts \/ last < setup.defs[1].args.size - First
          /\ last' = (last % (setup.defs[1].args.size - First)) + 1
      BY <2>3, <2>4, <2>5 DEF Deals
    <2> HIDE DEF last, given
    <2>7. (setup.defs[1].args.size - First)' = setup.defs[1].args.size - First
      BY <1>1, <1>2
    <2> QED BY <1>2, <2>6, <2>7 DEF Dealt!Next, Dealt!Deal, Starts, last, given
  <1> QED BY <1>3, <1>4

\* The lines of a file and the elements of a list are dealt one by one and in order, each
\* once before any a second time, to all threads together.
THEOREM ValuesAreDealt == Spec => ValuesInTurn
  <1> QED
    BY DealtInit, DealtStep, ProvidersAreKept, PTL DEF Spec, ValuesInTurn, Dealt!Spec
=============================================================================
