---------------------------- MODULE MCScenarioRun ----------------------------
(* Model-checking instances of ScenarioRun.                                   *)
EXTENDS ScenarioRun

MCNodes == ("one" :> <<"x">>) @@ ("two" :> <<"x", "y">>) @@ ("zero" :> <<>>)
           @@ ("empty" :> <<Blank>>)
MCEnv == ("RUN" :> Literal("1"))

Step ==
    [fields |-> <<>>, template |-> "none", holders |-> {}, memory |-> <<>>, rules |-> <<>>,
     async |-> FALSE, key |-> "", value |-> "", timed |-> FALSE, timeoutOk |-> FALSE,
     stop |-> FALSE, answers |-> {}]

Ok(keys) == [kind |-> "accepted", keys |-> keys]
Fails(kind) == [kind |-> kind, keys |-> <<>>]
Text(a) == ("responseText" :> Literal(a))

Scn(context, lines) == [context |-> context, macros |-> TRUE, lines |-> lines]
One(scenarios) ==
    [scenarios |-> scenarios, threads |-> {"w1"}, runs |-> 1, waiting |-> FALSE,
     data |-> ("data" :> Literal("notified"))]

-----------------------------------------------------------------------------
Plain == [Step EXCEPT !.answers = {Ok(Text("x"))}]

\* chains of placeholders, macros in them, values of the environment, blanks
Contexts ==
    {("a" :> Literal("1")) @@ ("b" :> Placeholder("a")) @@ ("c" :> Call(Placeholder("b")))
        @@ ("d" :> Placeholder("c")),
     ("a" :> Call(Literal("1"))) @@ ("b" :> Call(Call(Placeholder("a"))))
        @@ ("c" :> Placeholder("RUN")) @@ ("e" :> Literal(Blank)) @@ ("f" :> Placeholder("e"))}

\* chains of fields, with a template or without
FieldSteps ==
    LET fields == ("f" :> Placeholder("g")) @@ ("g" :> Placeholder("a")) @@ ("l" :> Literal("2"))
                  @@ ("m" :> Call(Placeholder("l"))) @@ ("n" :> Call(Placeholder("h")))
                  @@ ("h" :> Placeholder("f")) @@ ("a" :> Placeholder("a"))
    IN  {[Plain EXCEPT !.fields = fields],
         [Plain EXCEPT !.fields = fields, !.template = "file", !.holders = {"f", "g", "m", "a"}],
         [Plain EXCEPT !.fields = fields, !.template = "dynamic"],
         [Plain EXCEPT !.fields = ("f" :> Call(Placeholder("e"))) @@ ("e" :> Literal(Blank))]}

Evaluated ==
    {One(<<Scn(c, <<Plain, Plain>>)>>) : c \in Contexts}
    \union {One(<<Scn(("a" :> Literal("1")), <<s, Plain>>)>>) : s \in FieldSteps}
    \union {One(<<[Scn(("a" :> Call(Literal("1"))), <<Plain>>) EXCEPT !.macros = FALSE]>>),
            One(<<[Scn(<<>>, <<[Plain EXCEPT !.fields = ("f" :> Call(Literal("1")))]>>)
                    EXCEPT !.macros = FALSE]>>)}

-----------------------------------------------------------------------------
Xml == {"one", "two", "zero", "empty", "x"}

Rules ==
    {Rule(t, "responseText", {"x", "NOT_EMPTY", "one"}) :
        t \in {"regexp", "json", "eval", "exists", "xpath"}}
    \union {[Rule(t, "responseText", {"two"}) EXCEPT !.positive = FALSE] :
        t \in {"regexp", "json", "exists"}}
    \union {[Rule("xpath", "responseText", {e}) EXCEPT !.text = FALSE] :
        e \in {"NOT_EMPTY", "EMPTY", "TOO_MANY", "NOT_FOUND"}}
    \union {Rule("maxduration", "", {"short"}), Rule("maxduration", "", {}),
            Rule("regexp", "nothing", {"x"}),
            [Rule("regexp", "responseText", {"two"}) EXCEPT !.deferred = TRUE]}

RuleLists == {<<r>> : r \in Rules} \union {<<r, s>> : r, s \in Rules}

Checked ==
    {One(<<Scn(<<>>, <<[Plain EXCEPT !.rules = r, !.answers = {Ok(Text(a)) : a \in Xml}]>>)>>) :
        r \in RuleLists}

-----------------------------------------------------------------------------
Fields ==
    <<MemoryField("m", Blank, "regexp", {"x"}), MemoryField("n", "extra", "copy", {}),
      MemoryField("o", Blank, "context_single", {"extra", "f"}),
      MemoryField("p", Blank, "xpath keyword", {})>>

Memorising ==
    [Plain EXCEPT !.memory = Fields, !.fields = ("f" :> Literal("3")),
        !.answers = {Ok(Text("x") @@ ("extra" :> Literal("4"))), Ok(Text("x")),
                     [Ok(Text("x")) EXCEPT !.kind = "no code"], Fails("refused"),
                     Fails("exception"), Fails("shutdown"), Fails("fatal")}]

Using == [Plain EXCEPT !.fields = ("u" :> Placeholder("m")) @@ ("v" :> Placeholder("n"))]

Memorised ==
    {One(<<Scn(("a" :> Literal("1")), <<Memorising, [Memorising EXCEPT !.stop = TRUE], Using>>),
           Scn(<<>>, <<Using>>)>>)}
    \union {One(<<Scn(<<>>, <<[Memorising EXCEPT !.memory = <<MemoryField("m", Blank, "xpath", {})>>,
                    !.answers = {Ok(Text(a)) : a \in Xml}], Using>>)>>)}

-----------------------------------------------------------------------------
\* a rule that no answer respects
Never == <<Rule("regexp", "responseText", {"y"})>>

\* an asynchronous step that memorises, then a step that uses it
Async ==
    [Step EXCEPT !.async = TRUE, !.key = "session", !.value = "session", !.timed = TRUE,
        !.memory = <<MemoryField("m", Blank, "copy", {})>>,
        !.fields = ("f" :> Literal("3")),
        !.answers = {Ok(Text("x")), Fails("exception"), Fails("refused"), Fails("no code")}]

\* one identifier for all calls, or one for each thread
Session(k) == ("session" :> Placeholder(k))

\* a run that ends with an exception leaves its memory to the thread
Dying ==
    [Plain EXCEPT !.memory = <<MemoryField("k", Blank, "copy", {})>>,
        !.answers = {Ok(Text("x"))}, !.rules = Never]

Final == [Plain EXCEPT !.memory = <<MemoryField("q", Blank, "copy", {})>>]

\* two steps whose calls have the identifiers of those of the other thread
Kept == [Async EXCEPT !.timed = FALSE, !.memory = <<>>, !.answers = {Ok(Text("x"))}]

Asynchronous ==
    {[One(<<Scn(Session("RUN"), <<[Async EXCEPT !.timeoutOk = ok], Final, Using>>), Scn(<<>>, <<Dying>>)>>)
        EXCEPT !.runs = 3] : ok \in BOOLEAN}
    \union {[One(<<Scn(Session(k), <<[Async EXCEPT !.answers = {Ok(Text("x"))},
                         !.rules = <<[Rule("regexp", "data", {"notified"}) EXCEPT !.deferred = TRUE]>>],
                         Using>>)>>)
                EXCEPT !.threads = {"w1", "w2"}, !.runs = 2] : k \in {"RUN", "THREAD"}}
    \union {[One(<<Scn(Session("RUN"), <<Kept, [Kept EXCEPT !.key = "second"]>>)>>)
                EXCEPT !.threads = {"w1", "w2"}]}
    \union {[One(<<Scn(Session("RUN"), <<[Async EXCEPT !.timeoutOk = TRUE, !.rules = Never,
                         !.answers = {Ok(Text("x"))}], Using>>)>>) EXCEPT !.runs = 2],
            One(<<Scn(<<>>, <<Async, Plain>>)>>),
            One(<<Scn(Session("RUN"), <<[Async EXCEPT !.template = "dynamic"], Plain>>)>>)}

\* identifiers of their own: two threads, of which one may go on for the other, two
\* asynchronous steps in a row, and an answer that raises or comes after the timeout
Unique ==
    LET Own == [Async EXCEPT !.value = "grindertool.transactionId",
                             !.answers = {Ok(Text("x")), Fails("exception")}]
        Later == [Own EXCEPT !.key = "second"]
        Setup(lines) == [One(<<Scn(<<>>, lines)>>) EXCEPT !.threads = {"w1", "w2"}]
    IN  {Setup(<<[Own EXCEPT !.timeoutOk = TRUE], [Later EXCEPT !.timeoutOk = ok], Final>>) :
            ok \in BOOLEAN}
        \union {Setup(<<[Own EXCEPT !.timeoutOk = ok, !.memory = <<>>], Using>>) : ok \in BOOLEAN}
        \union {[Setup(<<[Own EXCEPT !.timeoutOk = TRUE], Later, Final>>)
                    EXCEPT !.threads = {"w1"}, !.runs = 3]}

Waiting ==
    {[One(<<Scn(("a" :> Placeholder("event")), <<Plain>>), Scn(("a" :> Literal("2")), <<Plain>>)>>)
        EXCEPT !.waiting = TRUE, !.runs = 2]}

All == Evaluated \union Checked \union Memorised \union Asynchronous \union Unique
       \union Waiting
==============================================================================
