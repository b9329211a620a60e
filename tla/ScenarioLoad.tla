---------------------------- MODULE ScenarioLoad ----------------------------
(***************************************************************************)
(* What ScenarioFile makes of the parts of a scenario file: which rules,   *)
(* steps and calls it refuses, how it flattens and merges contexts, and    *)
(* the Line of a step.  StartUp reads a file with it, step by step.        *)
(*                                                                         *)
(* A file has what its YAML text is parsed to: steps, or includes of other *)
(* files, with what the code tells apart.                                  *)
(***************************************************************************)
EXTENDS Integers, Sequences, FiniteSets, SequencesExt

CONSTANTS
    File,           \* what dataFilePath holds: from names to scenario files
    Protocols,      \* what can be loaded from implementations/
    MacroModules,   \* what can be loaded from macros/
    TestRange       \* grindertool.test.range

\* a file has a name (a step without include has the empty one), variables and a list of steps,
\* and a call the seconds it may last
ASSUME FilesAssumption ==
    /\ IsFiniteSet(DOMAIN File) /\ "" \notin DOMAIN File
    /\ \A name \in DOMAIN File :
         /\ File[name].context = [v \in DOMAIN File[name].context |-> File[name].context[v]]
         /\ File[name].steps = [i \in 1..Len(File[name].steps) |-> File[name].steps[i]]
         /\ Len(File[name].steps) \in Nat
         /\ \A i \in DOMAIN File[name].steps :
              /\ File[name].steps[i].async.timeout \in Nat
              /\ File[name].steps[i].async.blocking \in BOOLEAN
    /\ TestRange \in Nat \ {0}

Keywords == {"matches", "notmatches", "contains", "notcontains", "equals", "notequals",
             "exists", "macro", "eval", "maxduration"}

MaxOf(a, b) == IF a >= b THEN a ELSE b

-----------------------------------------------------------------------------
(* CheckRule.__init__().  A rule has its keywords, the ones among literal, *)
(* quote_string and regex that are set, the form of its value and of its   *)
(* XPath: good, bad, or with a placeholder, and json.                      *)

Kind(r) == CHOOSE k \in r.keywords : TRUE

\* equals is literal by default, matches and contains are not
Literal(r) ==
    /\ "regex" \notin r.usage
    /\ Kind(r) \in {"equals", "notequals"} \/ r.usage # {}

\* a macro must have the form of one, an XPath and a pattern must compile
ValueRefused(r) ==
    \/ Kind(r) \in {"maxduration", "macro"} /\ r.form = "bad"
    \/ /\ Kind(r) \notin {"maxduration", "macro", "eval", "exists"}
       /\ \/ r.xpath = "bad"
          \/ r.form = "bad" /\ ~Literal(r) /\ ~r.json

RuleRefused(r) ==
    \/ Cardinality(r.keywords \cap Keywords) # 1
    \/ Kind(r) # "maxduration" /\ Cardinality(r.usage) > 1
    \/ ValueRefused(r)

RulesRefused(rules) == \E i \in DOMAIN rules : RuleRefused(rules[i])

-----------------------------------------------------------------------------
(* Contexts: from variables to values.  A variable is the path of its name *)
(* and a string the sequence of its parts, both cut at the dots.  A value  *)
(* that is a dictionary or a list is given by the strings at its leaves,   *)
(* each with the path of keys and numbers that leads to it.                *)

\* a dictionary takes from another what it has not
Filled(f, g) == [x \in DOMAIN f \union DOMAIN g |-> IF x \in DOMAIN f THEN f[x] ELSE g[x]]

\* flatten_dict() of a variable
Leaves(value, path) == {path \o k \o value.at[k] : k \in DOMAIN value.at}

\* to_flattened_dictionary(): beside a complex element only strings are kept, and the last
\* part of a string becomes the value of a longer name
Flattened(context) ==
    LET Of(kind) == {v \in DOMAIN context : context[v].kind = kind}
        leaves == UNION {Leaves(context[v], v) : v \in Of("deep")}
        Names == {Front(l) : l \in leaves}
        Flat(n) == [kind |-> "string",
                    parts |-> <<Last(CHOOSE l \in leaves : Front(l) = n)>>]
    IN  IF Of("deep") = {} THEN context
        ELSE Filled([n \in Names |-> Flat(n)], [v \in Of("string") |-> context[v]])

-----------------------------------------------------------------------------
(* Macros and includes.                                                    *)

\* CachedMacros.__load_macro(), after those before it: a second macro without name is not
\* recognised as a macro
LoadMacro(loaded, m) ==
    LET key == <<loaded.id, IF m.name = "" THEN m.module ELSE m.name>>
        Refused == \/ key \in loaded.macros /\ m.name = ""
                   \/ key \notin loaded.macros /\ m.module \notin MacroModules
    IN  IF ~loaded.ok THEN loaded
        ELSE IF Refused THEN [loaded EXCEPT !.ok = FALSE]
        ELSE [loaded EXCEPT !.macros = @ \union {key}]

\* the macros of scenario id, some of which are loaded; when one is refused, those before it
\* stay
LoadMacros(id, known, macros) ==
    FoldLeft(LoadMacro, [ok |-> TRUE, id |-> id, macros |-> known], macros)

\* parse_yaml(); a file can be included in either version
Unreadable(name) == name \notin DOMAIN File \/ ~File[name].parses

\* stack has the files that include one another
IncludeRefused(name, stack) ==
    \/ \E i \in DOMAIN stack : stack[i].name = name
    \/ Unreadable(name)
    \/ File[name].version \notin {10, 11}

\* (seeded bug) the included file decides
MergedLate(context, included) == Filled(Flattened(included), context)

\* the including file decides, and before it the files that were included earlier
Merged(context, included) == Filled(context, Flattened(included))

\* a step is known by its file and its position there
StepAt(at) == File[at[1]].steps[at[2]]

-----------------------------------------------------------------------------
(* Steps.  The key async holds one call or several; several never block.   *)

CallRefused(call) ==
    \/ call.kind = "bad"
    \/ call.kind = "several" /\ (call.value \/ call.blocking)
    \/ /\ call.kind = "one"
       /\ \/ call.callback \notin Protocols \union {""}
          \/ call.blocking /\ "timeout" \notin call.keys

Blocks(call) == call.kind = "one" /\ call.blocking

\* before it is known whether the step is ignored
CountCall(file, call) ==
    IF ~Blocks(call) THEN file
    ELSE [file EXCEPT !.asyncSteps = @ + 1, !.asynchronous = TRUE,
                      !.timeout = MaxOf(@, call.timeout)]

\* optional steps, and steps with a tag that is ignored
Ignored(cfg, step) ==
    \/ cfg.ignoreOptional /\ step.optional
    \/ ~step.badTags /\ step.tags \cap cfg.ignoredTags # {}

StepRefused(cfg, step) ==
    \/ step.badTags /\ cfg.ignoredTags # {}
    \/ ~step.listsAndDicts
    \/ {"output", "memorize"} \subseteq step.memory

\* the key sleep is never None: a step without before or after is refused
SleepRefused(file, step) ==
    \/ step.sleep = {}
    \/ /\ step.pause # <<>>
       /\ \/ step.pause \notin DOMAIN file.context
          \/ file.context[step.pause].kind # "string"
          \/ file.context[step.pause].parts \notin {<<"1">>, <<"0", "5">>}

AsyncRefused(call) ==
    /\ call.kind = "one"
    /\ \/ ~({"contextKey", "timeout"} \subseteq call.keys)
       \/ call.assert = "bad"
       \/ call.assert = "list" /\ RulesRefused(call.rules)

\* MemoryField(): one of the fields that the step memorises is not one
MemoryRefused(step) == "bad" \in step.memory

LineRefused(file, step) ==
    \/ RulesRefused(step.rules)
    \/ MemoryRefused(step)
    \/ \E i \in DOMAIN step.teardown : step.teardown[i] = "bad"
    \/ SleepRefused(file, step)
    \/ AsyncRefused(step.async)

\* (seeded bug) the processes count their tests from the same number
TestIdShared(cfg, p, count) == count

\* "To be sure to have separated range of test in the Grinder console"
TestId(cfg, p, count) == IF cfg.perProcess THEN p * TestRange + count ELSE count

\* a lag sleep is put before a line that follows one of another protocol
Sleeps(cfg, file, step) ==
    step.sleep \union
    IF file.last \notin {"", step.protocol} /\ step.protocol \in cfg.lag THEN {"before"} ELSE {}

\* count is the value of Line.testCounter
Line(cfg, p, file, step, count) ==
    [test     |-> TestId(cfg, p, count),
     name     |-> step.name,
     isAsync  |-> step.async.kind \in {"one", "several"},
     blocking |-> Blocks(step.async),
     timeout  |-> step.async.timeout,
     sleeps   |-> Sleeps(cfg, file, step),
     router   |-> /\ step.async.kind \in {"one", "several"}
                  /\ step.async.callback \notin {"smpp", "smsc", "internal"}]

\* (seeded bug) the last line decides
UsesRouterLast(file, line) == line.router

\* "if only one step is asynchronous and using external soap call callback"
UsesRouter(file, line) == file.router \/ (line.isAsync /\ line.router)

AddLine(file, step, line) ==
    [file EXCEPT !.lines = Append(@, line), !.last = step.protocol,
                 !.router = UsesRouter(file, line)]

\* the attributes of a ScenarioFile
NewFile(name, context) ==
    [name |-> name, context |-> context, lines |-> <<>>, last |-> "",
     asynchronous |-> FALSE, asyncSteps |-> 0, timeout |-> -1, router |-> FALSE]

\* a step of version 10 reads an attribute that no file has
FileRefused(name) ==
    \/ Unreadable(name)
    \/ ~File[name].yaml
    \/ File[name].version # 11
    \/ ~(File[name].keys \subseteq {"version", "macros", "scenario"})
=============================================================================
