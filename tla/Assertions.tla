------------------------------ MODULE Assertions ------------------------------
(***************************************************************************)
(* What is done with the answer of a step: values are memorised from it    *)
(* (MemoryMgr), and the assertion rules of the step are applied to it      *)
(* (Line.checkResponse).                                                   *)
(*                                                                         *)
(* A document is known by its atom.  "Nodes" gives the texts of the nodes  *)
(* that an XPath expression finds in an XML document; every other atom     *)
(* cannot be parsed.  A regular expression or a JSON document is the set   *)
(* of atoms that it matches.                                               *)
(***************************************************************************)
EXTENDS CacheKeys

CONSTANT Nodes      \* XML documents -> the texts of the nodes found

ASSUME NodesAssumption == \A d \in DOMAIN Nodes : Nodes[d] \in Seq(STRING)

\* the text of the first node that is found
NodeText(doc) == [doc EXCEPT !.atom = Nodes[@][1]]

-----------------------------------------------------------------------------
(* MemoryMgr.memorizeVariable().                                           *)

MemoryField(name, from, type, match) ==
    [name |-> name, from |-> from, type |-> type, match |-> match]

MemoryTypes == {"copy", "regexp", "xpath keyword", "xpath", "context_single"}

\* what a field finds in the text: nothing (the memory keeps what it has), a value, or
\* the exception that stops the run
Extract(field, text, keys) ==
    LET named == {k \in DOMAIN keys : k \in field.match}
        found(value) == [outcome |-> "ok", value |-> {value}]
        none(outcome) == [outcome |-> outcome, value |-> {}]
    IN
    CASE field.type = "copy" -> found(text)
      [] field.type = "regexp" ->
            IF text.atom \in field.match THEN found(text) ELSE none("ok")
      \* the keyword xpath leaves the field without an expression
      [] field.type = "xpath keyword" -> none("ok")
      [] field.type = "xpath" ->
            IF text.atom \in DOMAIN Nodes /\ Len(Nodes[text.atom]) = 1
               THEN found(NodeText(text)) ELSE none("fatal")
      [] field.type = "context_single" ->
            found(IF named = {} THEN Literal(Blank) ELSE keys[CHOOSE k \in named : TRUE])

\* one field; the text that it takes from a key stays for the fields after it
Memorize(m, field) ==
    LET text  == IF field.from = Blank THEN m.text ELSE m.keys[field.from]
        found == Extract(field, text, m.keys)
    IN
    IF m.outcome # "ok" THEN m
    ELSE IF field.from # Blank /\ field.from \notin DOMAIN m.keys
       THEN [m EXCEPT !.outcome = "failed"]
       ELSE [m EXCEPT !.text = text, !.outcome = found.outcome,
                      !.memory = Updated(@, [x \in {field.name : v \in found.value} |->
                                                CHOOSE v \in found.value : TRUE])]

\* what the first fields have found
AfterFields(fields, start) ==
    LET after[n \in 0..Len(fields)] ==
            IF n = 0 THEN start ELSE Memorize(after[n - 1], fields[n])
    IN  after

MemorizeVariable(fields, memory, text, keys) ==
    AfterFields(fields, [memory |-> memory, text |-> text, keys |-> keys, outcome |-> "ok"]
               )[Len(fields)]

-----------------------------------------------------------------------------
(* Line.checkResponse(): the rules in their order, applied to the keys of  *)
(* the context and of the answer.  A rule leads to the next one, accepts   *)
(* the answer at once, fails it, or raises.                                *)

Rule(type, key, expect) ==
    [type |-> type, key |-> key, expect |-> expect, positive |-> TRUE, deferred |-> FALSE,
     text |-> TRUE]

Expects(rule, ok) == IF ok THEN "next" ELSE "failed"

\* maxduration, without a default for the key
MaxDuration(rule, keys) ==
    IF "time" \in DOMAIN keys
       THEN Expects(rule, keys["time"].atom \in rule.expect) ELSE "raised"

\* macro and eval: an exception in them fails the rule
CallRule(rule, keys) ==
    Expects(rule, rule.key \in DOMAIN keys /\ keys[rule.key].atom \in rule.expect)

Exists(rule, keys) ==
    LET there == rule.key \in DOMAIN keys /\ keys[rule.key].atom # Blank
    IN  Expects(rule, rule.positive <=> there)

\* an xpath rule replaces the text by that of the node, or by what was found
XPathSource(rule, source) ==
    LET nodes == Len(Nodes[source.atom])
        what(word) == {[source EXCEPT !.atom = word]}
    IN
    IF source.atom \notin DOMAIN Nodes THEN {}
    ELSE IF nodes > 1
       THEN IF rule.text THEN {}
            ELSE what(IF rule.expect = {"NOT_EMPTY"} THEN "NOT_EMPTY" ELSE "TOO_MANY")
    ELSE IF nodes = 0
       THEN what("NOT_FOUND")
    ELSE IF rule.text
       THEN {NodeText(source)}
       ELSE what(IF NodeText(source).atom = Blank THEN "EMPTY" ELSE "NOT_EMPTY")

\* the rules that follow are not looked at
JsonRule(rule, source) ==
    IF (source.atom \in rule.expect) <=> rule.positive THEN "accepted" ELSE "failed"

\* the message of a failure has one value too few for its format
RegexpRule(rule, source) ==
    IF (source.atom \in rule.expect) <=> rule.positive THEN "next" ELSE "raised"

CheckRule(rule, keys) ==
    LET source == keys[rule.key] IN
    CASE rule.type = "maxduration" -> MaxDuration(rule, keys)
      [] rule.type \in {"macro", "eval"} -> CallRule(rule, keys)
      [] rule.type = "exists" -> Exists(rule, keys)
      [] OTHER ->
            IF rule.key \notin DOMAIN keys THEN "failed"
            ELSE IF rule.type = "json" THEN JsonRule(rule, source)
            ELSE IF rule.type = "regexp" THEN RegexpRule(rule, source)
            ELSE IF XPathSource(rule, source) = {} THEN "failed"
            ELSE RegexpRule(rule, CHOOSE s \in XPathSource(rule, source) : TRUE)

\* Mutant: every rule of the step is applied, now and again to the notification.
CheckAllRules(rules, keys, deferred) ==
    LET ends == {i \in DOMAIN rules : CheckRule(rules[i], keys) # "next"}
    IN  IF ends = {} THEN "next"
        ELSE CheckRule(rules[CHOOSE i \in ends : \A j \in ends : i <= j], keys)

\* the immediate rules, or those that wait for the notification: the first of them that
\* does not lead to the next one decides
CheckResponse(rules, keys, deferred) ==
    LET ends == {i \in DOMAIN rules :
                    rules[i].deferred = deferred /\ CheckRule(rules[i], keys) # "next"}
    IN  IF ends = {} THEN "next"
        ELSE CheckRule(rules[CHOOSE i \in ends : \A j \in ends : i <= j], keys)

Accepts(verdict) == verdict \in {"next", "accepted"}
=============================================================================
