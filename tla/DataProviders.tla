---------------------------- MODULE DataProviders ----------------------------
(***************************************************************************)
(* The macros that provide test data: how a process loads them, and how    *)
(* its threads share them.  A macro instance is copied for each thread     *)
(* (copyMacros), but what it hands out is kept in attributes of its class, *)
(* so that all instances in all threads work on the same position; cls is  *)
(* the class object.  The text of lines and identifiers is left out: a     *)
(* value is the number of its line, its element or its identifier.         *)
(***************************************************************************)
EXTENDS Integers, Sequences, FiniteSets

CONSTANTS
    NThreads,   \* grinder.threads: the threads are 0 .. NThreads - 1
    NRuns,      \* grinder.runs: the runs of each thread are 0 .. NRuns - 1
    Setups      \* the macro sections and the method that the scenarios call

\* Without a number of runs (0) the threads never end: left out.
ASSUME ProvidersAssumption == NThreads \in Nat \ {0} /\ NRuns \in Nat \ {0}

\* The methods that scenarios call, by the module that offers them; assertions call those
\* of any module.
Methods ==
    [dataFromFILE |-> {"getNextElem", "getElem"}, dataChunkFromFILE |-> {"getLine"},
     identifierGenerator |-> {"popValue", "getNextValue", "getValue"},
     listGenerator |-> {"next"}, CsvDataFile |-> {"nextValue"}, Increment |-> {"increment"}]

\* size is the number of lines, elements or identifiers, start the first identifier or the
\* number of lines to skip.  A string has at least one element to split, and the lines
\* come in chunks of at least one; who numbers identifiers from the start again gives
\* their amount.
Arguments ==
    [size : Nat, cycle : BOOLEAN, counted : BOOLEAN, start : Int, chunk : Nat \ {0},
     random : BOOLEAN]

Definitions ==
    {d \in [scenario : Int, name : STRING, module : DOMAIN Methods, args : Arguments] :
        /\ d.module = "dataChunkFromFILE" => d.args.start \in Nat
        /\ d.module = "listGenerator" => d.args.size > 0
        /\ d.module = "identifierGenerator" /\ d.args.cycle => d.args.size > 0}

ASSUME SetupsAssumption ==
    \A s \in Setups :
        /\ s.defs \in Seq(Definitions) /\ s.defs # <<>>
        /\ \A i \in DOMAIN s.defs : s.method \in Methods[s.defs[i].module] \union {"assert"}
        /\ s.paced \in BOOLEAN         \* is there a throughput profile?
        /\ s.target \in Nat            \* its number of calls

VARIABLES
    setup,      \* the chosen setup, constant
    todo,       \* definitions of the macros sections that are still to be loaded
    loaded,     \* CachedMacros.loadedMacros: <<scenario, instance name>> -> definition
    broken,     \* the loading has failed, no thread will start
    cls,        \* the attributes of the class of the provider
    pc,         \* thread -> control point
    run,        \* thread -> grinder.runNumber
    handed,     \* history: what was handed out, to whom
    failures,   \* history: the calls that raised
    macros,     \* ExecMacros.macros: the scenario whose instances assertions use
    scn         \* thread -> the scenario that it executes

vars == <<setup, todo, loaded, broken, cls, pc, run, handed, failures, macros, scn>>

None == -1
Threads == 0 .. NThreads - 1
Scenarios == {d.scenario : d \in {setup.defs[i] : i \in DOMAIN setup.defs}}

\* Class attributes as the module defines them.  For the file readers, rows are the
\* lines in memory, in the order in which they will be handed out.
NewClass ==
    [size |-> 0, cycling |-> FALSE, counter |-> None, position |-> 0, threads |-> 0,
     min |-> 0, rows |-> <<>>, initialized |-> FALSE, chunk |-> 10000, next |-> 0,
     over |-> FALSE]

\* maxGrinderIndex: the number of calls that the test will make
MaxIndex == IF setup.paced THEN setup.target ELSE NRuns * NThreads

------------------------------------------------------------------------------
(* Factory functions: initialize() of the macro modules.                      *)

\* dataFromFILE.loadFile, manageParameters: only the first instance loads its file.  With
\* a throughput profile the number of threads is not set.
\* Mutant: one line less is accepted.
FileRefusedLate(a) ==
    cls.size = 0 /\ (a.size = 0 \/ (a.size < MaxIndex - 1 /\ ~a.cycle))

FileRefused(a) ==
    cls.size = 0 /\ (a.size = 0 \/ (a.size < MaxIndex /\ ~a.cycle))

LoadFile(a) ==
    IF cls.size # 0 THEN cls
    ELSE [cls EXCEPT !.size = a.size, !.cycling = a.cycle,
                     !.counter = IF a.counted THEN 0 ELSE None,
                     !.threads = IF setup.paced THEN 0 ELSE NThreads]

\* dataChunkFromFILE: the generator of chunks.  It skips the lines before startFrom, gives
\* one chunk after the other, then None once; after that, or when there are not even the
\* lines to skip, it is over and raises StopIteration.
NewGenerator(c) == [c EXCEPT !.next = c.min + 1, !.over = c.min > c.size]

\* Mutant: a chunk is one line too short, but the generator goes on behind it.
NextLinesShort(c) ==
    LET end == IF c.next + c.chunk - 1 < c.size THEN c.next + c.chunk - 1 ELSE c.size
    IN  [i \in 1 .. end - c.next + 1 |-> c.next + i]

NextLines(c) ==
    LET end == IF c.next + c.chunk - 1 < c.size THEN c.next + c.chunk - 1 ELSE c.size
    IN  [i \in 1 .. end - c.next + 1 |-> c.next + i - 1]

Advance(c) ==
    IF c.next > c.size THEN [c EXCEPT !.over = TRUE, !.rows = <<>>]
    ELSE [c EXCEPT !.rows = NextLines(c), !.next = @ + Len(NextLines(c))]

ChunkRefused(a) == ~cls.initialized /\ a.start > a.size

InitChunks(a) ==
    IF cls.initialized THEN cls
    ELSE Advance(NewGenerator(
            [cls EXCEPT !.size = a.size, !.cycling = a.cycle, !.min = a.start,
                        !.chunk = a.chunk, !.counter = IF a.counted THEN 0 ELSE None,
                        !.initialized = TRUE]))

\* identifierGenerator.manageParameters and shuffle: every instance starts all over
Shuffles(a) ==
    IF ~a.random THEN {<<>>}
    ELSE {p \in [1 .. a.size -> a.start .. a.start + a.size - 1] :
            \A i, j \in 1 .. a.size : i # j => p[i] # p[j]}

InitIdentifiers(a, pool) ==
    [cls EXCEPT !.min = a.start, !.position = a.start, !.cycling = a.cycle,
                !.size = a.size, !.rows = pool, !.threads = NThreads]

\* listGenerator: the last instance gives the elements, the index stays where it is;
\* CsvDataFile: every instance appends its lines to those of the others, and an empty file
\* is refused when there are none before
InitList(a) == [cls EXCEPT !.size = a.size, !.cycling = TRUE]
CsvRefused(a) == cls.size + a.size < 1
InitCsv(a) == [cls EXCEPT !.size = @ + a.size, !.cycling = TRUE]

\* Increment: the first instance gives the number
InitIncrement(a) == IF cls.position # 0 THEN cls ELSE [cls EXCEPT !.position = a.start]

Instances(d) ==
    CASE d.module = "dataFromFILE" -> {LoadFile(d.args)}
      [] d.module = "dataChunkFromFILE" -> {InitChunks(d.args)}
      [] d.module = "identifierGenerator" ->
            {InitIdentifiers(d.args, p) : p \in Shuffles(d.args)}
      [] d.module = "listGenerator" -> {InitList(d.args)}
      [] d.module = "CsvDataFile" -> {InitCsv(d.args)}
      [] d.module = "Increment" -> {InitIncrement(d.args)}

Refused(d) ==
    \/ d.module = "dataFromFILE" /\ FileRefused(d.args)
    \/ d.module = "dataChunkFromFILE" /\ ChunkRefused(d.args)
    \/ d.module = "CsvDataFile" /\ CsvRefused(d.args)

\* CachedMacros.__load_macro: one definition of a macros section.  A second macro of a
\* module without a name is taken for a malformed one with a name and raises; a second
\* one under a known name is skipped.
LoadMacro ==
    /\ todo # <<>> /\ ~broken
    /\ LET d == Head(todo)
           key == <<d.scenario, IF d.name = "" THEN d.module ELSE d.name>>
           known == key \in DOMAIN loaded
       IN  /\ todo' = Tail(todo)
           /\ broken' = IF known THEN d.name = "" ELSE Refused(d)
           /\ IF known \/ broken' THEN UNCHANGED <<cls, loaded>>
              ELSE /\ cls' \in Instances(d)
                   /\ loaded' = [k \in DOMAIN loaded \union {key} |->
                                    IF k = key THEN d ELSE loaded[k]]
    /\ UNCHANGED <<setup, pc, run, handed, failures, macros, scn>>
------------------------------------------------------------------------------
(* A run of a thread makes one call; the call hands out a value or raises.    *)

Ready(t, method) ==
    /\ todo = <<>> /\ ~broken
    /\ pc[t] = "idle" /\ run[t] < NRuns
    /\ setup.method = method

Finish(t) ==
    /\ pc' = [pc EXCEPT ![t] = "idle"]
    /\ run' = [run EXCEPT ![t] = @ + 1]

Hand(t, value) ==
    /\ handed' = Append(handed, [thread |-> t, run |-> run[t], value |-> value])
    /\ Finish(t)
    /\ UNCHANGED failures

\* Mutant: a failed call uses up two runs.
FailTwice(t, error) ==
    /\ failures' = failures \union {[thread |-> t, run |-> run[t], error |-> error]}
    /\ pc' = [pc EXCEPT ![t] = "idle"]
    /\ run' = [run EXCEPT ![t] = @ + 2]
    /\ UNCHANGED handed

Fail(t, error) ==
    /\ failures' = failures \union {[thread |-> t, run |-> run[t], error |-> error]}
    /\ Finish(t)
    /\ UNCHANGED handed

Shared == <<setup, todo, loaded, broken, macros, scn>>

\* The (thread, run) pair as an index, and the same of an element of a shared array
\* Mutant: thread and run are mixed up.
IndexSwapped(t, r, n) == t * n + r
Index(t, r, n) == r * n + t
OwnIndex(t, n) == IF cls.cycling THEN Index(t, run[t], n) % cls.size
                  ELSE Index(t, run[t], n)

\* dataFromFILE.getNextElem, under mutex: the position is moved before anything can fail,
\* and a file that cycles without any counter raises when it iterates over None.
FileNext(t) ==
    LET over == cls.position + 1 > cls.size
    IN  /\ Ready(t, "getNextElem")
        /\ cls' = [cls EXCEPT
                    !.position = IF over /\ cls.cycling THEN 1 ELSE @ + 1,
                    !.counter = IF over /\ cls.cycling /\ @ # None THEN @ + 1 ELSE @]
        /\ IF over /\ (~cls.cycling \/ cls.counter = None)
           THEN Fail(t, IF cls.cycling THEN "TypeError" ELSE "IndexError")
           ELSE Hand(t, cls'.position)
        /\ UNCHANGED Shared

\* dataFromFILE.getElem: rows[k] raises for k = maxSize, which the test before lets pass
FileElem(t) ==
    /\ Ready(t, "getElem")
    /\ LET k == OwnIndex(t, cls.threads)
       IN  IF k >= cls.size THEN Fail(t, "IndexError") ELSE Hand(t, k + 1)
    /\ UNCHANGED <<cls, Shared>>

\* dataChunkFromFILE.getNextRowFromChunk, under mutex: the next line in memory, or the
\* first one of the next chunk, or None at the end of the file
NextRow == IF cls.rows # <<>> THEN cls ELSE Advance(cls)
StopIteration == cls.rows = <<>> /\ cls.over

\* dataChunkFromFILE.getLine and getElem.  Who gets None increases the counters and
\* replaces the generator, outside of the mutex that protects the rows, and reads again.
ChunkLine(t) ==
    /\ Ready(t, "getLine")
    /\ IF StopIteration THEN Fail(t, "StopIteration") /\ UNCHANGED cls
       ELSE IF NextRow.rows # <<>>
       THEN /\ Hand(t, Head(NextRow.rows))
            /\ cls' = [NextRow EXCEPT !.rows = Tail(@)]
       ELSE /\ cls' = NextRow
            /\ IF cls.cycling THEN /\ pc' = [pc EXCEPT ![t] = "eof"]
                                   /\ UNCHANGED <<run, handed, failures>>
               ELSE Fail(t, "EOFError")
    /\ UNCHANGED Shared

ChunkCount(t) ==
    /\ pc[t] = "eof"
    /\ pc' = [pc EXCEPT ![t] = "rotate"]
    /\ cls' = [cls EXCEPT !.counter = IF @ = None THEN @ ELSE @ + 1]
    /\ UNCHANGED <<run, handed, failures, Shared>>

\* Mutant: the old generator is read again.
ChunkRotateNot(t) ==
    /\ pc[t] = "rotate"
    /\ pc' = [pc EXCEPT ![t] = "again"]
    /\ UNCHANGED <<cls, run, handed, failures, Shared>>

ChunkRotate(t) ==
    /\ pc[t] = "rotate"
    /\ pc' = [pc EXCEPT ![t] = "again"]
    /\ cls' = NewGenerator(cls)
    /\ UNCHANGED <<run, handed, failures, Shared>>

ChunkAgain(t) ==
    /\ pc[t] = "again"
    /\ IF StopIteration THEN Fail(t, "StopIteration") /\ UNCHANGED cls
       ELSE IF NextRow.rows = <<>>
       THEN Fail(t, "AttributeError") /\ cls' = NextRow
       ELSE /\ Hand(t, Head(NextRow.rows))
            /\ cls' = [NextRow EXCEPT !.rows = Tail(@)]
    /\ UNCHANGED Shared

\* identifierGenerator: popValue, getNextValue, getValue
PopValue(t) ==
    /\ Ready(t, "popValue")
    /\ IF cls.rows = <<>> THEN Fail(t, "ValueError") /\ UNCHANGED cls
       ELSE /\ Hand(t, cls.rows[Len(cls.rows)])
            /\ cls' = [cls EXCEPT !.rows = SubSeq(@, 1, Len(@) - 1)]
    /\ UNCHANGED Shared

NextValue(t) ==
    /\ Ready(t, "getNextValue")
    /\ cls' = [cls EXCEPT !.position = @ + 1]
    /\ Hand(t, cls.min + IF cls.cycling THEN cls'.position % cls.size ELSE cls'.position)
    /\ UNCHANGED Shared

OwnValue(t) ==
    /\ Ready(t, "getValue")
    /\ LET k == OwnIndex(t, cls.threads)
       IN  IF cls.rows = <<>> THEN Hand(t, cls.min + k)
           ELSE IF k >= Len(cls.rows) THEN Fail(t, "ValueError")
           ELSE Hand(t, cls.rows[k + 1])
    /\ UNCHANGED <<cls, Shared>>

\* listGenerator.getValue, CsvDataFile.nextValue of the last instance
InTurn(t) ==
    /\ \/ Ready(t, "next") /\ cls' = [cls EXCEPT
                !.position = IF @ >= cls.size THEN 1 ELSE @ + 1]
       \/ Ready(t, "nextValue") /\ cls' = [cls EXCEPT !.position = @ + 1]
    /\ Hand(t, ((cls'.position - 1) % cls.size) + 1)
    /\ UNCHANGED Shared

\* Increment.getValue
Increased(t) ==
    /\ Ready(t, "increment")
    /\ cls' = [cls EXCEPT !.position = @ + 1]
    /\ Hand(t, cls'.position)
    /\ UNCHANGED Shared

\* The assertion "macro" of Line.checkResponse: setMacrosIndex switches an attribute of the
\* class ExecMacros, and callMacro looks the instance up there, in two steps.
SetMacrosIndex(t) ==
    /\ Ready(t, "assert")
    /\ \E s \in Scenarios : scn' = [scn EXCEPT ![t] = s] /\ macros' = s
    /\ pc' = [pc EXCEPT ![t] = "call"]
    /\ UNCHANGED <<setup, todo, loaded, broken, cls, run, handed, failures>>

CallMacro(t) ==
    /\ pc[t] = "call"
    /\ IF \E k \in DOMAIN loaded : k[1] = macros THEN Hand(t, macros)
       ELSE Fail(t, "SyntaxError")
    /\ UNCHANGED <<cls, Shared>>

Init ==
    /\ setup \in Setups
    /\ todo = setup.defs
    /\ loaded = <<>>
    /\ broken = FALSE
    /\ cls = NewClass
    /\ pc = [t \in Threads |-> "idle"]
    /\ run = [t \in Threads |-> 0]
    /\ handed = <<>> /\ failures = {}
    /\ macros = None
    /\ scn = [t \in Threads |-> None]

Next ==
    \/ LoadMacro
    \/ \E t \in Threads :
        \/ FileNext(t) \/ FileElem(t)
        \/ ChunkLine(t) \/ ChunkCount(t) \/ ChunkRotate(t) \/ ChunkAgain(t)
        \/ PopValue(t) \/ NextValue(t) \/ OwnValue(t)
        \/ InTurn(t) \/ Increased(t)
        \/ SetMacrosIndex(t) \/ CallMacro(t)

Spec == Init /\ [][Next]_vars

\* Threads finish their runs.
FairSpec == Spec /\ WF_vars(Next)

------------------------------------------------------------------------------
(* Properties *)

\* Types of the variables that do not depend on the class of the provider.
TypeOK ==
    /\ pc \in [Threads -> {"idle", "eof", "rotate", "again", "call"}]
    /\ run \in [Threads -> 0 .. NRuns]
    /\ broken \in BOOLEAN
    /\ cls.counter \in Nat \union {None} /\ cls.position \in Int

OneInstance == Len(setup.defs) = 1
Serving(methods) == OneInstance /\ setup.method \in methods
Last == IF handed = <<>> THEN 0 ELSE handed[Len(handed)].value

\* The lines of a file, the elements of a list are handed out in turn by all threads
\* together (macros: the mutex of getNextElem, of the chunks and of the list).  For a file
\* that starts at a later line, the first line is that one; a file that cycles without
\* counters is left out, because it loses its first line, see FileNext.
First == IF setup.method = "getLine" THEN setup.defs[1].args.start ELSE 0
ToDeal == \/ Serving({"getLine", "next", "nextValue"})
          \/ Serving({"getNextElem"}) /\ (setup.defs[1].args.counted \/ ~setup.defs[1].args.cycle)
Dealt == INSTANCE Dealer WITH
    size <- setup.defs[1].args.size - First,
    cycling <- setup.defs[1].args.cycle \/ setup.method \in {"next", "nextValue"},
    given <- IF ToDeal THEN Len(handed) ELSE 0,
    last <- IF ToDeal /\ handed # <<>> THEN Last - First ELSE 0
ValuesInTurn == Dealt!Spec

\* A file that is accepted at its loading is large enough: in thread mode no call fails and
\* no two calls of the test get the same line (dataFromFILE.py:63).
AcceptedFileSuffices ==
    Serving({"getElem", "getNextElem"}) /\ ~setup.paced =>
        /\ \A f \in failures : f.error = "TypeError"
        /\ setup.defs[1].args.cycle \/ \A i, j \in DOMAIN handed :
                i # j => handed[i].value # handed[j].value

\* Unless its file starts again, no two calls get the same identifier, whoever makes them and
\* however the threads are scheduled; if it does, at least amount calls of the same kind
\* lie in between.
IdentifiersDiffer ==
    Serving({"popValue", "getNextValue", "getValue", "increment"}) =>
        \A i, j \in DOMAIN handed :
            i # j /\ handed[i].value = handed[j].value =>
                /\ setup.method # "popValue" /\ cls.cycling
                /\ IF setup.method = "getNextValue" THEN (i - j) % cls.size = 0
                   ELSE (Index(handed[i].thread, handed[i].run, NThreads)
                         - Index(handed[j].thread, handed[j].run, NThreads)) % cls.size = 0

\* A file with lines that rotates has always a next line, but for a race: a reader raises
\* while another thread has met the end of the file and has not replaced the generator yet;
\* or when, between its own replacement and its second read, others have read the whole
\* file.  In the latter case it consumes the end of the file without replacing the
\* generator again, and every later read raises (dataChunkFromFILE.py:267-277).
Overtaken(t) ==
    /\ pc[t] = "again"
    /\ \A i \in Len(handed) - (cls.size - cls.min) + 1 .. Len(handed) : handed[i].thread # t
Dead == \E f \in failures : f.error = "AttributeError"

RotationRaisesInRaceOnly ==
    [][Serving({"getLine"}) /\ cls.cycling /\ cls.min < cls.size /\ failures' # failures =>
        \E t \in Threads :
            /\ run'[t] # run[t]
            /\ \/ \E u \in Threads \ {t} : pc[u] \in {"eof", "rotate"}
               \/ Overtaken(t)
               \/ Dead]_vars

\* The macro of an assertion is looked up in the scenario of the thread that checks it
\* (macroLibs.py:305: "Each index of the list is a scenario").
AssertionUsesOwnMacros ==
    [][\A t \in Threads : CallMacro(t) => macros = scn[t]]_vars
=============================================================================
