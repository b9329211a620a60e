------------------------------ MODULE CacheKeys ------------------------------
(***************************************************************************)
(* The cache of an execution context and what is evaluated in it: the      *)
(* context section of a scenario, when the scenario starts, and the fields *)
(* of a step, when the step is sent.                                       *)
(*                                                                         *)
(* A text is known by the macro calls nested in it, by the atom inside and *)
(* by whether the atom is a placeholder, the name of another key.  Values  *)
(* also carry the run that they come from and the kind of thing that put   *)
(* them into the cache, which the code does not know and the properties    *)
(* are about.                                                              *)
(***************************************************************************)
EXTENDS Naturals, Sequences, FiniteSets, SequencesExt, Functions

Blank == ""
Raw   == "made of a placeholder"

Literal(a)       == [calls |-> 0, ref |-> FALSE, atom |-> a, by |-> <<>>, kind |-> "text"]
Placeholder(key) == [Literal(key) EXCEPT !.ref = TRUE]
Call(text)       == [text EXCEPT !.calls = @ + 1]

Single(key, text) == [k \in {key} |-> text]

\* Keys -> texts, all of them values of one kind
Values(texts, kind) == [k \in DOMAIN texts |-> [texts[k] EXCEPT !.kind = kind]]

-----------------------------------------------------------------------------
(* CacheKey: the living keys, the ones that every step starts from, and    *)
(* those that an event brings to the next scenario.                        *)

EmptyCache == [runtime |-> <<>>, with |-> <<>>, dynamic |-> <<>>]

\* dict.update()
Updated(dict, keys) ==
    [k \in DOMAIN dict \union DOMAIN keys |-> IF k \in DOMAIN keys THEN keys[k] ELSE dict[k]]

Reset(c, env) == [c EXCEPT !.runtime = Updated(env, c.dynamic), !.dynamic = <<>>]

UpdateKeys(c, keys) == [c EXCEPT !.runtime = Updated(@, keys)]

AddDynamicKeys(c, keys) == [c EXCEPT !.dynamic = Updated(@, keys)]

UpdateKeysPermanently(c, keys) ==
    [c EXCEPT !.with = Updated(@, keys), !.runtime = Updated(@, keys)]

UpdateAsyncDataPermanently(c, keys) == [c EXCEPT !.with = Updated(@, keys)]

SetContextMarker(c) == [runtime |-> c.runtime, with |-> c.runtime, dynamic |-> c.dynamic]

ResetToContextMarker(c) == [c EXCEPT !.runtime = c.with]

-----------------------------------------------------------------------------
(* getNextScenario(): the context section.                                 *)

\* safe_substitute(): a placeholder that nobody knows stays
Substitute(text, keys) ==
    IF text.ref /\ text.atom \in DOMAIN keys
       THEN [keys[text.atom] EXCEPT !.calls = @ + text.calls, !.kind = text.kind]
       ELSE text

StillPlaceHolder(text) == text.ref

\* __macroInside(): a macro is called where the scenario has no macros section, with a
\* placeholder left or not
MacroRefused(text, macros) == text.calls > 0 /\ ~macros

\* __substitute_in_value(): the innermost call is made, once the placeholder has gone
SubstituteInValue(text) ==
    [still |-> StillPlaceHolder(text),
     text  |-> IF StillPlaceHolder(text) \/ text.calls = 0 THEN text
               ELSE [text EXCEPT !.calls = @ - 1]]

\* one key of one round; e.todo is temp_dict
EvaluateKey(e, k) ==
    LET found == SubstituteInValue(Substitute(e.todo[k], e.cache.runtime)) IN
    IF found.still
       THEN [e EXCEPT !.todo[k] = found.text, !.again = TRUE]
    ELSE IF found.text.atom = Blank
       THEN [e EXCEPT !.todo[k] = found.text]
    ELSE [e EXCEPT !.todo = Restrict(@, DOMAIN @ \ {k}),
                   !.cache = UpdateKeys(@, Single(k, found.text))]

\* the orders that a dictionary may have
Orders(S) == Bijection(1..Cardinality(S), S)

\* a round over the keys that are left: what has been done before each of them
AfterKeys(e, order) ==
    LET after[n \in 0..Len(order)] ==
            IF n = 0 THEN [e EXCEPT !.again = FALSE] ELSE EvaluateKey(after[n - 1], order[n])
    IN  after

EvaluationRound(e) ==
    IF e.again THEN {AfterKeys(e, order)[Len(order)] : order \in Orders(DOMAIN e.todo)}
    ELSE {e}

\* Mutant: range(1, nbRetryLoop) is one too short.
TwoRounds == 2

Rounds == 3

AfterRounds(start) ==
    LET after[n \in 0..Rounds] ==
            IF n = 0 THEN {start} ELSE UNION {EvaluationRound(e) : e \in after[n - 1]}
    IN  after

TransactionId == "grindertool.transactionId"

\* the ways in which the context section may be evaluated, round after round
Evaluations(context, uid, c, env) ==
    AfterRounds([todo |-> Values(context, "context"), again |-> TRUE,
                 cache |-> UpdateKeys(Reset(c, env), Single(TransactionId, Literal(uid)))])[Rounds]

\* The caches that a scenario may start with; none where a macro is refused
ScenarioCaches(scenario, uid, c, env) ==
    IF \E k \in DOMAIN scenario.context : MacroRefused(scenario.context[k], scenario.macros)
       THEN {}
       ELSE {SetContextMarker(e.cache) : e \in Evaluations(scenario.context, uid, c, env)}

-----------------------------------------------------------------------------
(* processNew(): the fields of a step.                                     *)

LiteralFields(fields)  == {f \in DOMAIN fields : fields[f].calls = 0 /\ ~fields[f].ref}
TemplateFields(fields) == {f \in DOMAIN fields : fields[f].ref}
FunctionFields(fields) == {f \in DOMAIN fields : fields[f].calls > 0}

\* the outermost call is made, with the text inside as it is
CallField(text) ==
    [text EXCEPT !.calls = 0, !.ref = FALSE, !.atom = IF text.ref THEN Raw ELSE @]

\* what is sent: the template with its placeholders replaced, or the fields themselves
Command(line, fields, keys) ==
    IF line.template = "none"
       THEN [f \in DOMAIN fields |-> Substitute(fields[f], keys)]
       ELSE [k \in line.holders |-> Substitute(Placeholder(k), keys)]

ProcessNew(line, macros, c) ==
    LET fields    == Values(line.fields, "field")
        functions == FunctionFields(fields)
        known     == UpdateKeys(ResetToContextMarker(c),
                                Restrict(fields, LiteralFields(fields)))
        value(f)  == IF f \in TemplateFields(fields)
                        THEN Substitute(fields[f], known.runtime) ELSE fields[f]
        values    == [f \in DOMAIN fields |->
                        IF f \in functions THEN CallField(value(f)) ELSE value(f)]
        all       == UpdateKeys(known, values)
        done(outcome, command) == [outcome |-> outcome, cache |-> all, command |-> command]
    IN
    IF \/ functions # {} /\ ~macros
       \/ \E f \in functions : values[f].atom = Blank
       THEN done("fatal", <<>>)
    \* getDynamicTemplate() asks the dictionary of keys for its get() without a key
    ELSE IF line.template = "dynamic"
       THEN done("failed", <<>>)
       ELSE done("sent", Command(line, values, all.runtime))
=============================================================================
