------------------------------- MODULE StartUp -------------------------------
(***************************************************************************)
(* The start of the worker processes: Configuration.initialize() and the   *)
(* creation of the tests, each process for itself but for the ports of the *)
(* host.  An exception anywhere ends the process, which is "dead" then.    *)
(*                                                                         *)
(* All processes read the same properties, config.  What they wait for -   *)
(* the router, the reporting server, the SMSC - may answer or not.         *)
(***************************************************************************)
EXTENDS ScenarioLoad, Pace

CONSTANTS
    Processes,      \* process numbers, counted from the first process of the start
    Configs,        \* properties that the test may have
    Glob,           \* from patterns of the property filein to the files that match
    Variant         \* the three names tried for a file of a process without own list

IsProfile(ramp) ==
    ramp \in [bare : BOOLEAN,
              phases : Seq([num : Nat, den : Nat \ {0}, secs : Nat, unit : STRING])]

ASSUME StartUpAssumption ==
    /\ IsFiniteSet(Processes) /\ Processes # {}
    /\ Processes = 0..Cardinality(Processes) - 1
    /\ \A token \in DOMAIN Glob : Glob[token] \in Seq(STRING)

\* the properties have been read; a list of files is cut at its commas
ASSUME ConfigsAssumption ==
    \A c \in Configs :
        /\ c.threads \in Nat \ {0} /\ c.runs \in Nat \ {0}
        /\ {c.throughput, c.waiting, c.force} \subseteq BOOLEAN
        /\ {c.perProcess, c.perThread, c.percentage} \subseteq BOOLEAN
        /\ {c.before, c.filein, c.after} \subseteq Seq(STRING)
        /\ c.agent \in Nat /\ c.agents \in Nat \ {0} /\ c.port \in Nat
        /\ c.kpi \in Seq(Nat) /\ IsProfile(c.ramp)
        /\ \A p \in Processes : c.fileinOf[p] \in Seq(STRING) /\ IsProfile(c.rampOf[p])

VARIABLES
    config,     \* the properties, which never change
    pc,         \* control point of each process
    loading,    \* files still to be read, and Line.testCounter
    macros,     \* CachedMacros.loadedMacros
    reading,    \* files being read that include one another, steps found, steps parsed
    file,       \* the ScenarioFile under construction
    list,       \* the ScenarioList: scenarios, and what their asynchronous steps need
    mode,       \* validationMode, use_throughput, pureThreadMode, grinder.threads
    services,   \* what the process has started or reached
    port,       \* port of the callback listener, 0 for none
    runs,       \* grinder.runs
    metronom    \* method, phases and target of the metronom

vars == <<config, pc, loading, macros, reading, file, list, mode, services, port, runs, metronom>>

NoMetronom == [on |-> FALSE, method |-> "", phases |-> <<>>, target |-> -1]
NoFile == NewFile("", <<>>)
NotReading == [stack |-> <<>>, steps |-> <<>>, at |-> 0]

PC == {"new", "open", "include", "parse", "flags", "async", "listener", "smsc", "connect",
       "reporter", "throughput", "throttler", "tests", "ready", "dead"}

Services == {"reaper", "router", "smsc", "reporter"}

TypeOK ==
    /\ config \in Configs
    /\ pc \in [Processes -> PC]
    /\ \A p \in Processes :
         /\ loading[p].id \in Nat /\ loading[p].counter \in Nat
         /\ loading[p].attempt \in 1..3 /\ loading[p].found \in BOOLEAN
         /\ reading[p].at \in 0..Len(reading[p].steps)
         /\ \A i \in DOMAIN reading[p].stack :
              LET frame == reading[p].stack[i]
              IN  frame.at \in 0..Len(File[frame.name].steps)
         /\ list[p].steps \in Nat /\ list[p].timeout \in Nat \union {-1}
         /\ list[p].on <=> list[p].steps > 0
         /\ mode[p].threads \in Nat \ {0}
    /\ services \in [Processes -> SUBSET Services]
    /\ port \in [Processes -> Nat]
    /\ runs \in [Processes -> Nat]

\* a process alone does not pace: "throughput_activate" is switched off for one thread
Init ==
    /\ config \in Configs
    /\ pc = [p \in Processes |-> "new"]
    /\ loading = [p \in Processes |-> [left |-> <<>>, id |-> 0, attempt |-> 1, found |-> FALSE,
                                       counter |-> 0]]
    /\ macros = [p \in Processes |-> {}]
    /\ reading = [p \in Processes |-> NotReading]
    /\ file = [p \in Processes |-> NoFile]
    /\ list = [p \in Processes |-> [scenarios |-> <<>>, on |-> FALSE, router |-> FALSE,
                                    steps |-> 0, timeout |-> -1]]
    /\ mode = [p \in Processes |->
                  [validation |-> FALSE, pure |-> FALSE, threads |-> config.threads,
                   throughput |-> config.throughput /\ config.threads # 1]]
    /\ services = [p \in Processes |-> {}]
    /\ port = [p \in Processes |-> 0]
    /\ runs = [p \in Processes |-> config.runs]
    /\ metronom = [p \in Processes |-> NoMetronom]

Goto(p, at) == pc' = [pc EXCEPT ![p] = at]

fileVars == <<loading, macros, reading, file>>
serviceVars == <<mode, services, port, runs, metronom>>

\* an exception: the process ends and its port is free again
Dies(p) ==
    /\ Goto(p, "dead")
    /\ port' = [port EXCEPT ![p] = 0]
    /\ UNCHANGED <<config, fileVars, list, mode, services, runs, metronom>>

Start(p, service) == services' = [services EXCEPT ![p] = @ \union {service}]

-----------------------------------------------------------------------------
(* ScenarioList.                                                           *)

Expand(tokens) ==
    FlattenSeq([i \in DOMAIN tokens |->
                   IF tokens[i] \in DOMAIN Glob THEN Glob[tokens[i]] ELSE <<tokens[i]>>])

ListOf(p) ==
    IF config.perProcess THEN config.fileinOf[p]
    ELSE IF config.filein = <<>> THEN <<>>
    ELSE config.before \o config.filein \o config.after

\* a list per thread reads numberOfThreads, an attribute that no ScenarioList has, before it
\* reads any property of a thread
InitScenarioPerThread(p) == pc[p] = "new" /\ config.perThread /\ Dies(p)

ChooseList(p) ==
    LET files == IF ListOf(p) # <<>> THEN ListOf(p) ELSE config.filein
    IN  /\ pc[p] = "new" /\ ~config.perThread
        /\ IF files = <<>> THEN Dies(p)
           ELSE /\ loading' = [loading EXCEPT ![p].left = Expand(files)]
                /\ Goto(p, "open")
                /\ UNCHANGED <<config, macros, reading, file, list, serviceVars>>

\* (seeded bug) the last scenario replaces the steps of the others
AddScenarioAlone(l, new) ==
    [l EXCEPT !.scenarios = Append(@, new), !.on = @ \/ new.asynchronous,
              !.router = @ \/ (new.asynchronous /\ new.router),
              !.steps = IF new.asynchronous THEN new.asyncSteps ELSE @,
              !.timeout = IF new.asynchronous THEN MaxOf(@, new.timeout) ELSE @]

\* (seeded bug) the last scenario decides whether there are asynchronous ones
AddScenarioLast(l, new) ==
    [AddScenarioAlone(l, new) EXCEPT !.on = new.asynchronous,
                                      !.steps = l.steps + new.asyncSteps]

\* __caseAsyncScenario()
AddScenario(l, new) ==
    [l EXCEPT !.scenarios = Append(@, new), !.on = @ \/ new.asynchronous,
              !.router = @ \/ (new.asynchronous /\ new.router),
              !.steps = IF new.asynchronous THEN @ + new.asyncSteps ELSE @,
              !.timeout = IF new.asynchronous THEN MaxOf(@, new.timeout) ELSE @]

\* a process without own list tries three names for each file of the common one
ByVariants(p) == ListOf(p) = <<>>

NextName(p) ==
    IF ByVariants(p) THEN Variant[Head(loading[p].left), loading[p].attempt, p]
    ELSE Head(loading[p].left)

TurnEnds(turn) == [turn EXCEPT !.left = Tail(@), !.id = @ + 1, !.attempt = 1]

\* an exception in ScenarioFile(), after which the classes have counted and loaded: the errors
\* of the first two names are passed over, and after the first one the scenario of the
\* previous turn stands for the one not found
FileFails(p, counter, loaded) ==
    LET turn == [loading[p] EXCEPT !.counter = counter]
        stale == turn.attempt = 1 /\ turn.found
    IN  IF ~ByVariants(p) \/ turn.attempt = 3 THEN Dies(p)
        ELSE /\ loading' = [loading EXCEPT ![p] =
                               IF stale THEN TurnEnds(turn) ELSE [turn EXCEPT !.attempt = @ + 1]]
             /\ macros' = [macros EXCEPT ![p] = loaded]
             /\ reading' = [reading EXCEPT ![p] = NotReading]
             /\ file' = [file EXCEPT ![p] = NoFile]
             /\ Goto(p, "open")
             /\ UNCHANGED <<config, list, serviceVars>>

FileFailsHere(p) == FileFails(p, loading[p].counter, macros[p])

Frame(name) == [name |-> name, at |-> 0]

\* ScenarioFile(): a file that has a scenario must have steps in it
OpenFile(p) ==
    LET name == NextName(p)
        loaded == LoadMacros(loading[p].id, macros[p], File[name].macros)
    IN  /\ pc[p] = "open" /\ loading[p].left # <<>>
        /\ IF FileRefused(name) THEN FileFailsHere(p)
           ELSE IF ~loaded.ok \/ ~File[name].hasSteps THEN FileFails(p, loading[p].counter, loaded.macros)
           ELSE /\ macros' = [macros EXCEPT ![p] = loaded.macros]
                /\ reading' = [reading EXCEPT ![p].stack = <<Frame(name)>>]
                /\ file' = [file EXCEPT ![p] = NewFile(name, Flattened(File[name].context))]
                /\ Goto(p, "include")
                /\ UNCHANGED <<config, loading, list, serviceVars>>

\* __process_recursive_includes(): the frame of the innermost call, and its next step
Top(p) == Last(reading[p].stack)
HasNext(p) == Top(p).at < Len(File[Top(p).name].steps)
NextAt(p) == <<Top(p).name, Top(p).at + 1>>

StepDone(stack) == [stack EXCEPT ![Len(stack)].at = @ + 1]

TakeStep(p) ==
    /\ pc[p] = "include" /\ HasNext(p) /\ StepAt(NextAt(p)).include = ""
    /\ reading' = [reading EXCEPT ![p].steps = Append(@, NextAt(p)),
                                  ![p].stack = StepDone(@)]
    /\ UNCHANGED <<config, pc, loading, macros, file, list, serviceVars>>

\* the macros of the included file come before its context and its steps
IncludeFile(p) ==
    LET name == StepAt(NextAt(p)).include
        loaded == LoadMacros(loading[p].id, macros[p], File[name].macros)
    IN  /\ pc[p] = "include" /\ HasNext(p) /\ name # ""
        /\ IF IncludeRefused(name, reading[p].stack) THEN FileFailsHere(p)
           ELSE IF ~loaded.ok THEN FileFails(p, loading[p].counter, loaded.macros)
           ELSE /\ macros' = [macros EXCEPT ![p] = loaded.macros]
                /\ reading' = [reading EXCEPT ![p].stack = Append(@, Frame(name))]
                /\ file' = [file EXCEPT ![p].context = Merged(@, File[name].context)]
                /\ UNCHANGED <<config, pc, loading, list, serviceVars>>

\* the recursive call returns
EndInclude(p) ==
    LET stack == reading[p].stack
    IN  /\ pc[p] = "include" /\ ~HasNext(p)
        /\ reading' = [reading EXCEPT ![p].stack =
                          IF Len(stack) = 1 THEN <<>> ELSE StepDone(Front(stack))]
        /\ IF Len(stack) = 1 THEN Goto(p, "parse") ELSE UNCHANGED pc
        /\ UNCHANGED <<config, loading, macros, file, list, serviceVars>>

\* parse_version_11(): the next step
Parsing(p) == pc[p] = "parse" /\ reading[p].at < Len(reading[p].steps)
Parsed(p) == StepAt(reading[p].steps[reading[p].at + 1])

CallAccepted(step) == step.protocol \in Protocols /\ ~CallRefused(step.async)

RefuseCall(p) ==
    Parsing(p) /\ ~CallAccepted(Parsed(p)) /\ FileFailsHere(p)

IgnoreStep(p) ==
    /\ Parsing(p) /\ CallAccepted(Parsed(p)) /\ Ignored(config, Parsed(p))
    /\ file' = [file EXCEPT ![p] = CountCall(@, Parsed(p).async)]
    /\ reading' = [reading EXCEPT ![p].at = @ + 1]
    /\ UNCHANGED <<config, pc, loading, macros, list, serviceVars>>

\* Line(): a step without name is refused before it is counted, the others after it
MakeLine(p) ==
    LET step == Parsed(p)
        count == loading[p].counter + 1
        counted == CountCall(file[p], step.async)
    IN  /\ Parsing(p) /\ CallAccepted(step) /\ ~Ignored(config, step)
        /\ IF StepRefused(config, step) \/ step.name = "" THEN FileFailsHere(p)
           ELSE IF LineRefused(file[p], step) THEN FileFails(p, count, macros[p])
           ELSE /\ loading' = [loading EXCEPT ![p].counter = count]
                /\ file' = [file EXCEPT ![p] =
                               AddLine(counted, step, Line(config, p, counted, step, count))]
                /\ reading' = [reading EXCEPT ![p].at = @ + 1]
                /\ UNCHANGED <<config, pc, macros, list, serviceVars>>

\* a file found under the first of three names is not appended
FileLoaded(p) ==
    /\ pc[p] = "parse" /\ reading[p].at = Len(reading[p].steps)
    /\ loading' = [loading EXCEPT ![p] = [TurnEnds(@) EXCEPT !.found = TRUE]]
    /\ list' = IF ByVariants(p) /\ loading[p].attempt = 1 THEN list
               ELSE [list EXCEPT ![p] = AddScenario(@, file[p])]
    /\ reading' = [reading EXCEPT ![p] = NotReading]
    /\ file' = [file EXCEPT ![p] = NoFile]
    /\ Goto(p, "open")
    /\ UNCHANGED <<config, macros, serviceVars>>

ListLoaded(p) ==
    /\ pc[p] = "open" /\ loading[p].left = <<>>
    /\ IF config.perProcess /\ list[p].scenarios = <<>>
          THEN Dies(p)
          ELSE Goto(p, "flags") /\ UNCHANGED <<config, fileVars, list, serviceVars>>

ManageScenarioAndFlags(p) ==
    LET async == list[p].on
        validation == async /\ (config.threads = 1 \/ config.force)
        throughput == mode[p].throughput /\ ~validation
    IN  /\ pc[p] = "flags"
        /\ IF (throughput /\ config.waiting) \/ (async /\ ~throughput /\ ~validation)
              THEN Dies(p)
              ELSE /\ mode' = [mode EXCEPT ![p].validation = validation,
                                           ![p].throughput = throughput,
                                           ![p].pure = ~throughput /\ ~async]
                   /\ Goto(p, IF async THEN "async" ELSE "smsc")
                   /\ UNCHANGED <<config, fileVars, list, services, port, runs, metronom>>

-----------------------------------------------------------------------------
(* Services.                                                               *)

\* the client of the router pings it when a call comes back through it: the router answers,
\* or the client raises, also where the answer is not a 200
RouterAnswers(p) == IF list[p].router THEN BOOLEAN ELSE {TRUE}

\* getLastScenario(), the list being the same for all threads
LastScenario(p) == Last(list[p].scenarios)

\* isLastStepAsync(); a scenario without lines has no last step, which raises
LastStepRefused(scenario) == scenario.lines = <<>> \/ Last(scenario.lines).isAsync

\* the reaper, the client of the router, and "VIRTUALRUN DEFINITION"
ManageAsync(p) ==
    /\ pc[p] = "async"
    /\ \E answers \in RouterAnswers(p) :
         IF ~answers \/ LastStepRefused(LastScenario(p)) THEN Dies(p)
         ELSE /\ services' = [services EXCEPT ![p] = @ \union {"reaper"} \union
                                 IF list[p].router THEN {"router"} ELSE {}]
              /\ runs' = [runs EXCEPT ![p] = @ * (1 + list[p].steps)]
              /\ Goto(p, "listener")
              /\ UNCHANGED <<config, fileVars, list, mode, port, metronom>>

ListenerPort(p) ==
    IF config.port # 0 THEN config.port ELSE 9080 + config.agent * 100 + p

StartListener(p) ==
    /\ pc[p] = "listener"
    /\ IF \E q \in Processes : port[q] = ListenerPort(p)
          THEN Dies(p)
          ELSE /\ port' = [port EXCEPT ![p] = ListenerPort(p)]
               /\ Goto(p, "smsc")
               /\ UNCHANGED <<config, fileVars, list, mode, services, runs, metronom>>

\* only threads without pace wait for the connection here
ManageSMSC(p) ==
    /\ pc[p] = "smsc"
    /\ IF config.smsc \in {"off", "on"}
          THEN /\ services' = [services EXCEPT ![p] =
                                  @ \union IF config.smsc = "on" THEN {"reaper", "smsc"} ELSE {}]
               /\ Goto(p, IF config.smsc = "on" /\ mode[p].pure THEN "connect" ELSE "reporter")
               /\ UNCHANGED <<config, fileVars, list, mode, port, runs, metronom>>
          ELSE Dies(p)

SmscConnected(p) ==
    /\ pc[p] = "connect"
    /\ Goto(p, "reporter")
    /\ UNCHANGED <<config, fileVars, list, serviceVars>>

\* the error of the central reporter is logged, then setTPS() is called on None
ManageReporter(p) ==
    /\ pc[p] = "reporter"
    /\ \/ /\ config.reporter \in {"statsd", "centralreporter", "module"}
          /\ Start(p, "reporter")
          /\ Goto(p, "throughput")
          /\ UNCHANGED <<config, fileVars, list, mode, port, runs, metronom>>
       \/ config.reporter # "off" /\ Dies(p)
       \/ /\ config.reporter = "off"
          /\ Goto(p, "throughput")
          /\ UNCHANGED <<config, fileVars, list, serviceVars>>

-----------------------------------------------------------------------------
(* Pace: __launchMetronom().                                               *)

SumOf(s) ==
    LET sum[i \in 0..Len(s)] == IF i = 0 THEN 0 ELSE sum[i - 1] + s[i]
    IN  sum[Len(s)]

SumKPI == SumOf(config.kpi)

\* (seeded bug) the share of a process is divided by the processes once more
ShareTwice(phase, p) ==
    [phase EXCEPT !.num = @ * SumKPI * config.kpi[p + 1],
                  !.den = @ * 100 * SumKPI * config.agents * Len(config.kpi)]

\* the percentage of the KPIs of all scenarios, of which the process has its part
Share(phase, p) ==
    [phase EXCEPT !.num = @ * SumKPI * config.kpi[p + 1],
                  !.den = @ * 100 * SumKPI * config.agents]

PercentageRefused ==
    \/ config.agent + 1 > config.agents
    \/ Len(config.kpi) # Cardinality(Processes)
    \/ config.ramp.bare \/ config.ramp.phases = <<>>

Defined(ramp) == ramp.bare \/ ramp.phases # <<>>

Ramp(p) ==
    IF ~config.perProcess THEN config.ramp
    ELSE IF ~config.percentage THEN config.rampOf[p]
    ELSE [bare |-> FALSE, phases |-> [i \in DOMAIN config.ramp.phases |->
                                         Share(config.ramp.phases[i], p)]]

\* "we add the graceful period"
Profile(p) ==
    [Ramp(p) EXCEPT !.phases = IF list[p].on THEN Append(@, GracefulPhase(list[p].timeout))
                               ELSE @]

\* an own target of 0 stands for a part of the common one, which only percentages give
TargetRefused(p) ==
    config.perProcess /\ config.targetOf[p] = 0 /\ config.target > 0 /\ ~config.percentage

Target(p) ==
    IF ~config.perProcess THEN config.target
    ELSE IF config.targetOf[p] # 0 \/ config.target <= 0 THEN config.targetOf[p]
    ELSE (2 * config.target * config.kpi[p + 1] + SumKPI) \div (2 * SumKPI)

PaceRefused(p) ==
    \/ config.perProcess /\ config.percentage /\ PercentageRefused
    \/ ~Defined(Ramp(p))
    \/ TargetRefused(p)
    \/ Ramp(p).bare /\ list[p].on
    \/ CadencerRefused(config.method, Profile(p))

\* __launchRegulator() is called with an argument that it does not take, and would read a
\* rate that is no attribute of its class: no process that asks for the regulator starts
LaunchRegulator(p) == pc[p] = "throughput" /\ config.regulator /\ Dies(p)

ManageThroughput(p) ==
    /\ pc[p] = "throughput" /\ ~config.regulator
    /\ IF mode[p].throughput /\ PaceRefused(p) THEN Dies(p)
       ELSE /\ metronom' = IF ~mode[p].throughput THEN metronom
                           ELSE [metronom EXCEPT ![p] =
                                   [on |-> TRUE, method |-> config.method,
                                    phases |-> Profile(p).phases, target |-> Target(p)]]
            /\ runs' = [runs EXCEPT ![p] = IF mode[p].throughput THEN 0 ELSE @]
            /\ mode' = [mode EXCEPT ![p].threads =
                           IF mode[p].throughput THEN MaxOf(@, 16) ELSE @]
            /\ Goto(p, "throttler")
            /\ UNCHANGED <<config, fileVars, list, services, port>>

\* "Number of threshold thread cannot be above number of grinder threads"; 0 is read as 100,
\* which changes nothing here
ActivateSessionThrottler(p) ==
    /\ pc[p] = "throttler"
    /\ IF config.control /\ (config.pct \div 100) * config.threads > config.threads
          THEN Dies(p)
          ELSE /\ Goto(p, "tests")
               /\ UNCHANGED <<config, fileVars, list, serviceVars>>

\* __createTest(): "No tests were create !"
CreateTest(p) ==
    /\ pc[p] = "tests"
    /\ IF \A i \in DOMAIN list[p].scenarios : list[p].scenarios[i].lines = <<>>
          THEN Dies(p)
          ELSE /\ Goto(p, "ready")
               /\ UNCHANGED <<config, fileVars, list, serviceVars>>

Step(p) ==
    \/ InitScenarioPerThread(p) \/ ChooseList(p)
    \/ OpenFile(p) \/ TakeStep(p) \/ IncludeFile(p) \/ EndInclude(p)
    \/ RefuseCall(p) \/ IgnoreStep(p) \/ MakeLine(p) \/ FileLoaded(p) \/ ListLoaded(p)
    \/ ManageScenarioAndFlags(p) \/ ManageAsync(p) \/ StartListener(p)
    \/ ManageSMSC(p) \/ SmscConnected(p) \/ ManageReporter(p)
    \/ LaunchRegulator(p) \/ ManageThroughput(p) \/ ActivateSessionThrottler(p) \/ CreateTest(p)

Next == \E p \in Processes : Step(p)

Spec == Init /\ [][Next]_vars

-----------------------------------------------------------------------------
(* Properties.                                                             *)

Ready(p) == pc[p] = "ready"

Lines(p) == FlattenSeq([i \in DOMAIN list[p].scenarios |-> list[p].scenarios[i].lines])

\* Line.testId, "to be sure to have separated range of test in the Grinder console": as long
\* as no process counts beyond its range - files that were refused count as well - one number
\* stands for one line of a process, and for lines of the same name in two processes that
\* read the same list.
TestIdsDiffer ==
    \A p, q \in Processes :
        Ready(p) /\ Ready(q) /\ loading[p].counter <= TestRange /\ loading[q].counter <= TestRange
        => \A i \in DOMAIN Lines(p), j \in DOMAIN Lines(q) :
             Lines(p)[i].test = Lines(q)[j].test =>
                 /\ p = q => i = j
                 /\ p # q => ~config.perProcess /\ Lines(p)[i].name = Lines(q)[j].name

\* no file includes one that is being read, so that no include is deeper than the files are many
Depth == Cardinality(DOMAIN File)

Includes(step) == step.include # "" /\ step.include \in DOMAIN File

\* what a reader finds at each step of a file, where below has it for the files that it
\* includes: the files that he meets, and the steps, each include replaced by its file
MetAt(name, below) ==
    [i \in 1..Len(File[name].steps) |->
        IF Includes(StepAt(<<name, i>>)) THEN below[StepAt(<<name, i>>).include] ELSE <<>>]

StepsIn(name, below) ==
    [i \in 1..Len(File[name].steps) |->
        IF Includes(StepAt(<<name, i>>)) THEN below[StepAt(<<name, i>>).include]
        ELSE IF StepAt(<<name, i>>).include = "" THEN <<<<name, i>>>> ELSE <<>>]

\* the same for files with those that they include, down to a depth
MetTo[depth \in 0..Depth] ==
    [name \in DOMAIN File |->
        IF depth = 0 THEN <<>> ELSE <<name>> \o FlattenSeq(MetAt(name, MetTo[depth - 1]))]

StepsTo[depth \in 0..Depth] ==
    [name \in DOMAIN File |->
        IF depth = 0 THEN <<>> ELSE FlattenSeq(StepsIn(name, StepsTo[depth - 1]))]

Met(name) == MetTo[Depth][name]
StepsOf(name) == StepsTo[Depth][name]

KeptNames(cfg, steps) ==
    FlattenSeq([k \in 1..Len(steps) |->
                   IF Ignored(cfg, StepAt(steps[k])) THEN <<>> ELSE <<StepAt(steps[k]).name>>])

\* a variable has its value from the first file that has it
FirstDecides(context, met) ==
    LET Of(k) == Flattened(File[met[k]].context)
    IN  /\ DOMAIN context = UNION {DOMAIN Of(k) : k \in DOMAIN met}
        /\ \A k \in DOMAIN met : \A v \in DOMAIN Of(k) :
             (\A j \in 1..k - 1 : v \notin DOMAIN Of(j)) => context[v] = Of(k)[v]

\* __process_recursive_includes(): the lines of a scenario are the steps of its files, each
\* where it is included, without those that the configuration ignores; a variable has the
\* value of the first file that a reader meets with it, whatever the depth.
IncludesAreMerged ==
    \A p \in Processes : \A i \in DOMAIN list[p].scenarios :
        LET scenario == list[p].scenarios[i]
        IN  /\ [k \in DOMAIN scenario.lines |-> scenario.lines[k].name]
                  = KeptNames(config, StepsOf(scenario.name))
            /\ FirstDecides(scenario.context, Met(scenario.name))

BlockingLines(p) == {i \in DOMAIN Lines(p) : Lines(p)[i].blocking}

Drops(step) == Ignored(config, step) /\ Blocks(step.async)

\* __manageAsyncConfiguration(), "Force another thread run if an async": in validation mode
\* every blocking line finds a further run of The Grinder for each run that was asked for;
\* there are no more than those unless blocking steps are ignored, which count as well.
PromisedRuns ==
    \A p \in Processes :
        Ready(p) /\ ~mode[p].throughput =>
            LET needed == config.runs * (1 + Cardinality(BlockingLines(p)))
            IN  /\ runs[p] >= needed
                /\ runs[p] > needed =>
                     \E i \in DOMAIN list[p].scenarios :
                        LET steps == StepsOf(list[p].scenarios[i].name)
                        IN  \E k \in DOMAIN steps : Drops(StepAt(steps[k]))

\* Configuration.initialize(): a process that is ready to run a blocking line has its reaper,
\* a callback listener on a port that no other process has, and the router if the callback of
\* any such line comes through it.
ServicesAreUp ==
    \A p \in Processes :
        Ready(p) =>
            \A i \in BlockingLines(p) :
                /\ "reaper" \in services[p]
                /\ port[p] # 0 /\ \A q \in Processes \ {p} : port[q] # port[p]
                /\ Lines(p)[i].router => "router" \in services[p]

\* without a target the metronom has this one
TargetRuns(target) == IF target = -1 THEN 999999999 ELSE target

\* the metronom counts a token before it takes the next one, and stops above its target
RunsToItsEnd(p) == Len(Intervals(metronom[p].phases)) <= TargetRuns(metronom[p].target) + 1

\* the last token of a ramp is followed by a pause as long as any one call may last (not
\* several in a row); the rate of the pause, 0.0001, makes it one of ten thousand seconds,
\* however long the call.  A target that is met before the ramp ends leaves no such pause,
\* and an empty phase ends the ramp early.
GraceIsLongEnough(p) ==
    LET phases == metronom[p].phases
    IN  /\ metronom[p].method = "RAMPING" /\ (\A i \in DOMAIN phases : phases[i].secs > 0)
        /\ RunsToItsEnd(p)
        => \A i \in BlockingLines(p) :
              Lines(p)[i].timeout <= 10000 =>
                  Last(Intervals(phases)) >= 1000 * Lines(p)[i].timeout

\* in each phase the processes of all agents together keep the rate that was asked for
SharesAddUp ==
    \A k \in DOMAIN config.ramp.phases :
        LET asked == config.ramp.phases[k]
            Rate(p) == metronom[p].phases[k].num
            den == metronom[0].phases[k].den
        IN  /\ \A p \in Processes : metronom[p].phases[k].den = den
            /\ 100 * asked.den * config.agents
                   * SumOf([i \in 1..Cardinality(Processes) |-> Rate(i - 1)])
               = asked.num * SumKPI * den

\* __launchMetronom() and the cadencers: a ramp that runs to its end has a last pause, before
\* the threads are poisoned, as long as the timeout of any blocking step; and the processes
\* share the rate of each phase.
PacesFit ==
    /\ \A p \in Processes : Ready(p) /\ metronom[p].on => GraceIsLongEnough(p)
    /\ (\A p \in Processes : Ready(p) /\ metronom[p].on)
           /\ config.perProcess /\ config.percentage => SharesAddUp
==============================================================================
