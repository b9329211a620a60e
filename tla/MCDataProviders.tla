--------------------------- MODULE MCDataProviders ---------------------------
(* Model-checking instances of DataProviders.                                 *)
EXTENDS DataProviders

Args(size, cycle) == [size |-> size, cycle |-> cycle, counted |-> cycle, start |-> 0,
                      chunk |-> 2, random |-> FALSE]
D(module, args) == [scenario |-> 0, name |-> "", module |-> module, args |-> args]
S(defs, method) == [defs |-> defs, method |-> method, paced |-> FALSE, target |-> 0]
One(module, args, method) == S(<<D(module, args)>>, method)

Files ==
    {One("dataFromFILE", Args(n, c), m) :
        n \in {0, 3, 5, 6}, c \in BOOLEAN, m \in {"getNextElem", "getElem"}}
    \union {One("dataFromFILE", [Args(4, TRUE) EXCEPT !.counted = FALSE], "getNextElem")}
    \union {[One("dataFromFILE", Args(n, FALSE), m) EXCEPT !.paced = TRUE, !.target = 5] :
                n \in {4, 5}, m \in {"getNextElem", "getElem"}}

\* files of several chunks, of less than one, that start at a later line or behind the end
Chunks ==
    {One("dataChunkFromFILE", Args(n, c), "getLine") : n \in {0, 1, 3, 4}, c \in BOOLEAN}
    \union {One("dataChunkFromFILE", [Args(n, TRUE) EXCEPT !.start = 2], "getLine") :
                n \in {1, 2, 4, 5}}
    \union {One("dataChunkFromFILE", [Args(2, TRUE) EXCEPT !.counted = FALSE], "getLine")}

Identifiers ==
    {One("identifierGenerator",
         [Args(n, c) EXCEPT !.start = 7, !.random = r], m) :
        n \in {3, 6}, c \in BOOLEAN, r \in {FALSE}, m \in {"getNextValue", "getValue"}}
    \union {One("identifierGenerator", [Args(3, c) EXCEPT !.random = TRUE], m) :
                c \in BOOLEAN, m \in {"popValue", "getValue"}}
    \union {One("Increment", [Args(0, FALSE) EXCEPT !.start = n], "increment") : n \in {-2, 7}}

Lists ==
    {One("listGenerator", Args(2, FALSE), "next"), One("CsvDataFile", Args(4, FALSE), "nextValue"),
     One("CsvDataFile", Args(0, FALSE), "nextValue")}

\* two definitions of a module: in two scenarios, under two names, under the same name and
\* without name
Two(module, method) ==
    LET d == D(module, [Args(6, FALSE) EXCEPT !.start = 1])
        e == [d EXCEPT !.args.size = 7]
    IN  {S(<<d, [e EXCEPT !.scenario = 1]>>, method),
         S(<<[d EXCEPT !.name = "a"], [e EXCEPT !.name = "b"]>>, method),
         S(<<[d EXCEPT !.name = "a"], [e EXCEPT !.name = "a"]>>, method),
         S(<<d, e>>, method)}

Several == Two("dataFromFILE", "getNextElem") \union Two("dataChunkFromFILE", "getLine")
           \union Two("CsvDataFile", "nextValue") \union Two("Increment", "increment")

Assertions == Two("listGenerator", "assert")

All == Files \union Chunks \union Identifiers \union Lists \union Several \union Assertions
==============================================================================
