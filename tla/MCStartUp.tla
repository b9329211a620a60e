------------------------------ MODULE MCStartUp ------------------------------
(* Model-checking instance of StartUp: two processes.                         *)
EXTENDS StartUp, FiniteSetsExt

InAnyOrder(set) == FoldSet(LAMBDA x, s : Append(s, x), <<>>, set)

NoCall == [kind |-> "none", keys |-> {"contextKey", "timeout"}, blocking |-> FALSE,
           timeout |-> 0, callback |-> "", value |-> FALSE, assert |-> "none", rules |-> <<>>]
Call(timeout) == [NoCall EXCEPT !.kind = "one", !.blocking = TRUE, !.timeout = timeout]
Several == [NoCall EXCEPT !.kind = "several", !.timeout = 300]

Rule(k) == [keywords |-> {k}, usage |-> {}, form |-> "good", xpath |-> "none", json |-> FALSE]
GoodRules ==
    InAnyOrder({Rule(k) : k \in Keywords})
    \o <<[Rule("equals") EXCEPT !.form = "bad"],
         [Rule("matches") EXCEPT !.form = "bad", !.usage = {"literal"}],
         [Rule("contains") EXCEPT !.form = "bad", !.json = TRUE, !.xpath = "placeholder"]>>
BadRules ==
    {[Rule("matches") EXCEPT !.keywords = {}], [Rule("matches") EXCEPT !.form = "bad"],
     [Rule("equals") EXCEPT !.keywords = {"equals", "exists"}],
     [Rule("equals") EXCEPT !.form = "bad", !.usage = {"regex"}],
     [Rule("contains") EXCEPT !.usage = {"literal", "regex"}],
     [Rule("contains") EXCEPT !.xpath = "bad"],
     [Rule("macro") EXCEPT !.form = "bad"], [Rule("maxduration") EXCEPT !.form = "bad"]}

S(name) == [include |-> "", name |-> name, protocol |-> "http", sleep |-> {"before"},
            pause |-> <<>>, async |-> NoCall, optional |-> FALSE, tags |-> {},
            badTags |-> FALSE, listsAndDicts |-> TRUE, memory |-> {"output"},
            rules |-> <<>>, teardown |-> <<"good">>]
Async(name, call) == [S(name) EXCEPT !.async = call]
Inc(name) == [S("") EXCEPT !.include = name]

BadSteps ==
    {[S("x") EXCEPT !.rules = <<r>>] : r \in BadRules} \union
    {Async("x", [Call(5) EXCEPT !.assert = "list", !.rules = <<r>>]) : r \in {Rule("none")}}
    \union
    {[S("x") EXCEPT !.protocol = "unknown"], S(""), [S("x") EXCEPT !.sleep = {}],
     [S("x") EXCEPT !.pause = <<"nowhere">>], [S("x") EXCEPT !.listsAndDicts = FALSE],
     [S("x") EXCEPT !.memory = {"output", "memorize"}],
     [S("x") EXCEPT !.memory = {"memorize", "bad"}], [S("x") EXCEPT !.teardown = <<"bad">>],
     Async("x", [Call(5) EXCEPT !.kind = "bad"]), Async("x", [Call(5) EXCEPT !.keys = {"contextKey"}]),
     Async("x", [Call(5) EXCEPT !.blocking = FALSE, !.keys = {"timeout"}]),
     Async("x", [Call(5) EXCEPT !.callback = "unknown"]), Async("x", [Call(5) EXCEPT !.assert = "bad"]),
     Async("x", [Several EXCEPT !.value = TRUE]), Async("x", [Several EXCEPT !.blocking = TRUE]),
     Inc("loop"), Inc("nowhere"), Inc("old version"), Inc("macros twice"), Inc("x")}

Str(parts) == [kind |-> "string", parts |-> parts]
F(steps) == [yaml |-> TRUE, parses |-> TRUE, version |-> 11, macros |-> <<>>, hasSteps |-> TRUE,
             keys |-> {"version", "macros", "scenario"}, context |-> <<>>, steps |-> steps]
M(name, module) == [name |-> name, module |-> module]

BadFiles ==
    LET steps == InAnyOrder(BadSteps)
    IN  [n \in {ToString(i) : i \in DOMAIN steps} |->
            F(<<S("a"), steps[CHOOSE i \in DOMAIN steps : ToString(i) = n]>>)]

Deep(at) == [kind |-> "deep", at |-> at]
\* pause is torn into a longer name beside the complex variable, rate is dropped
TopContext == <<"host">> :> Str(<<"top">>) @@ <<"data">> :> Deep(<<"x">> :> <<"1">> @@ <<"y", "0">> :> <<"a", "b">>)
       @@ <<"rate">> :> [kind |-> "flag", parts |-> <<"true">>]
Part == <<"host">> :> Str(<<"part">>) @@ <<"pause">> :> Str(<<"0", "5">>) @@ <<"who">> :> Str(<<"part">>)
Bottom == <<"end">> :> Str(<<"1">>) @@ <<"who">> :> Str(<<"bottom">>)

GoodFiles ==
    "plain" :> F(<<[S("a") EXCEPT !.rules = GoodRules], [S("b") EXCEPT !.protocol = "smpp"]>>)
    @@ "calls" :> F(<<S("c"), Async("call", [Call(5) EXCEPT !.assert = "list", !.rules = GoodRules]),
                      Async("smpp", [Call(9) EXCEPT !.callback = "smpp"]), S("d")>>)
    @@ "optional" :> F(<<S("e"), [Async("o", Call(7)) EXCEPT !.optional = TRUE],
                         [Async("t", [Call(3) EXCEPT !.callback = "internal"]) EXCEPT !.tags = {"slow"}],
                         S("f")>>)
    @@ "several" :> F(<<Async("many", Several), Async("later", [Call(4) EXCEPT !.callback = "smpp"]), S("g")>>)
    @@ "manyonly" :> F(<<Async("many", Several)>>)
    @@ "ends async" :> F(<<S("a"), Async("call", Call(5))>>)
    @@ "nothing" :> F(<<[S("o") EXCEPT !.optional = TRUE]>>)
    @@ "bottom" :> [F(<<S("z")>>) EXCEPT !.context = Bottom, !.macros = <<M("m", "list")>>]
    @@ "part" :> [F(<<S("p"), Inc("bottom"), [S("q") EXCEPT !.pause = <<"pause">>],
                        [S("r") EXCEPT !.pause = <<"end">>]>>)
                     EXCEPT !.context = Part, !.macros = <<M("", "list"), M("m", "file")>>]
    @@ "top" :> [F(<<S("a"), Inc("part"), S("b"), Inc("bottom")>>) EXCEPT !.context = TopContext]
    @@ "macros twice" :> [F(<<S("a")>>) EXCEPT !.macros = <<M("", "list"), M("", "list")>>]
    @@ "loop" :> F(<<Inc("plain"), Inc("loop")>>)
    @@ "old version" :> [F(<<S("a")>>) EXCEPT !.version = 12]
    @@ "version 10" :> [F(<<S("a")>>) EXCEPT !.version = 10]
    @@ "functions" :> [F(<<S("a")>>) EXCEPT !.keys = {"functions"}]
    @@ "no steps" :> [F(<<>>) EXCEPT !.hasSteps = FALSE]
    @@ "no yaml" :> [F(<<S("a")>>) EXCEPT !.yaml = FALSE]
    @@ "unclosed" :> [F(<<S("a")>>) EXCEPT !.parses = FALSE]
    \* names tried for a process without list of its own
    @@ "v.in.0.yaml" :> F(<<S("v"), Async("call", Call(2)), S("w")>>)
    @@ "v.in.1.yaml" :> [F(<<S("v"), [S("w") EXCEPT !.sleep = {}]>>) EXCEPT !.macros = <<M("m", "list")>>]
    @@ "v.in.1.yml" :> F(<<S("v"), Async("call", Call(3)), S("w")>>)
    @@ "u0" :> F(<<S("u")>>) @@ "u1" :> F(<<S("u")>>)

MCFile == GoodFiles @@ BadFiles
MCProtocols == {"http", "smpp", "internal", "dummy"}
MCMacroModules == {"list", "file"}
MCProcesses == {0, 1}
MCGlob == "*" :> <<"plain", "calls">> @@ "?" :> <<>>
MCVariant ==
    [v \in {<<n, k, p>> : n \in {"u", "v"}, k \in 1..3, p \in MCProcesses} |->
        v[1] \o <<"", ".in.", ".in.">>[v[2]] \o ToString(v[3]) \o <<"", ".yaml", ".yml">>[v[2]]]

Ramp0 == [bare |-> FALSE, phases |-> <<Phase(2, 1, 3), Phase(1, 2, 4)>>]
NoRamp == [bare |-> FALSE, phases |-> <<>>]

Default ==
    [perProcess |-> FALSE, perThread |-> FALSE, fileinOf |-> <<<<>>, <<>>>>, filein |-> <<"plain">>,
     before |-> <<>>, after |-> <<>>, ignoreOptional |-> FALSE, ignoredTags |-> {}, lag |-> {"smpp"},
     threads |-> 4, runs |-> 2, throughput |-> FALSE, waiting |-> FALSE, force |-> TRUE,
     agent |-> 0, port |-> 0, smsc |-> "off", reporter |-> "off", regulator |-> FALSE,
     method |-> "RAMPING", percentage |-> FALSE, agents |-> 1, kpi |-> <<3, 1>>, ramp |-> Ramp0,
     rampOf |-> <<NoRamp, NoRamp>>, target |-> -1, targetOf |-> <<-1, -1>>,
     control |-> FALSE, pct |-> 100]
\* functions of processes, which start from 0
C(c) == [c EXCEPT !.fileinOf = [p \in MCProcesses |-> c.fileinOf[p + 1]],
                  !.rampOf = [p \in MCProcesses |-> c.rampOf[p + 1]],
                  !.targetOf = [p \in MCProcesses |-> c.targetOf[p + 1]]]

Single(files) == [Default EXCEPT !.filein = files]
PerProcess(a, b) == [Default EXCEPT !.perProcess = TRUE, !.fileinOf = <<a, b>>]
Paced(c) == [c EXCEPT !.throughput = TRUE, !.force = FALSE]

Files ==
    {Single(<<f>>) : f \in DOMAIN MCFile}
    \union {Single(l) : l \in {<<>>, <<"nowhere">>, <<"?">>, <<"plain", "calls", "top">>,
                               <<"optional", "several">>, <<"top", "part">>}}
    \union {[Single(<<"*">>) EXCEPT !.before = <<"optional">>, !.after = <<"plain">>],
            [Default EXCEPT !.perThread = TRUE]}
    \union {[Single(<<f>>) EXCEPT !.ignoreOptional = o, !.ignoredTags = t] :
                f \in {"optional", "nothing"}, o \in BOOLEAN, t \in {{}, {"slow", "x"}}}
    \union {PerProcess(<<"calls">>, <<"plain", "optional">>), PerProcess(<<"top">>, <<"?">>)}
    \union {[PerProcess(<<>>, <<>>) EXCEPT !.filein = l] :
                l \in {<<>>, <<"u">>, <<"v">>, <<"u", "v">>, <<"v", "u">>, <<"v", "v">>}}

Modes ==
    {[Single(<<"calls">>) EXCEPT !.threads = n, !.force = f] : n \in {1, 4}, f \in BOOLEAN}
    \union {[Paced(Single(<<f>>)) EXCEPT !.threads = n, !.waiting = w, !.force = v] :
                f \in {"plain", "calls"}, n \in {1, 4, 20}, w, v \in BOOLEAN}
    \union {[Single(<<f>>) EXCEPT !.smsc = s, !.port = n] :
                f \in {"plain", "calls"}, s \in {"on", "noprofile"}, n \in {0, 8000}}
    \union {[Default EXCEPT !.reporter = r] :
                r \in {"statsd", "centralreporter", "module", "carbonreporter"}}
    \union {[Default EXCEPT !.control = TRUE, !.pct = n] : n \in {0, 100, 150, 200}}
    \union {[Default EXCEPT !.regulator = TRUE]}

Bare == [bare |-> TRUE, phases |-> <<>>]
One == [Ramp0 EXCEPT !.phases = <<Phase(2, 1, 3)>>]
Minutes == [Ramp0 EXCEPT !.phases[1].unit = "m"]
Gap == [Ramp0 EXCEPT !.phases = <<Phase(2, 1, 0), Phase(1, 1, 2), Phase(3, 1, 0)>>]
Ramps == {Ramp0, NoRamp, Bare, One, Minutes, Gap, [Ramp0 EXCEPT !.phases[2].num = 0]}
Percents == [Ramp0 EXCEPT !.phases = <<Phase(50, 1, 10), Phase(100, 1, 20)>>]

Paces ==
    {[Paced(Single(<<f>>)) EXCEPT !.method = m, !.ramp = r] :
        f \in {"plain", "calls"}, m \in Methods, r \in Ramps}
    \union {[Paced(Single(<<"plain">>)) EXCEPT !.method = "SLOW"]}
    \union {[Paced(PerProcess(<<"plain">>, <<"calls">>)) EXCEPT
                !.rampOf = <<r, Ramp0>>, !.targetOf = <<t, 5>>, !.target = 8] :
                r \in {Ramp0, NoRamp}, t \in {-1, 0}}
    \union {[Paced(PerProcess(<<"plain">>, <<"calls", "optional">>)) EXCEPT
                !.percentage = TRUE, !.ramp = r, !.agents = a, !.agent = n, !.kpi = k,
                !.targetOf = <<0, 0>>, !.target = 8] :
                r \in {Percents, Bare, NoRamp}, a \in {1, 2}, n \in {0, 1},
                k \in {<<3, 1>>, <<2, 5>>, <<1>>}}

MCConfigs == {C(c) : c \in Files \union Modes \union Paces}
==============================================================================
