---------------------------- MODULE EventFilter ----------------------------
(***************************************************************************)
(* The event filter (modules/filter): rules are compiled when a server     *)
(* starts or reload_event_filter is called, and every reporter asks the    *)
(* compiled filter before it sends an event.                               *)
(*                                                                         *)
(* A JSON value is an object (items: <<name, value>>), an array or a       *)
(* scalar; texts are sequences of letters.  A name with a dot in front has *)
(* an operator op, one without is a path of gjson: the names of fields and *)
(* the numbers of elements, one inside the other; wildcards, queries and   *)
(* modifiers are left out.  An event and each value in it has fields,      *)
(* which are values, and a text.                                           *)
(* A compiled filter is what the interface Filter shows of it: a function  *)
(* from payloads to whether it lets them pass.                             *)
(***************************************************************************)
EXTENDS Naturals, Sequences

CONSTANTS Files,    \* contents that the rules file may have when it is read
          Starts,   \* Starts[f]: what gjson makes of the texts that f starts with
          Values,   \* Values[n]: values in them with fewer than n levels of values inside
          Payloads, \* events, the values in them, and the value of no text
          Events,   \* events pushed
          Adders,   \* servers starting, reload calls
          Matches,  \* regular expressions that compile, with what they match
          None, Panic

VARIABLES
    read,    \* what each adder read and whether it is all, None if not running
    filter,  \* filters[file], None if no filter is installed
    rules    \* history: what was read and compiled into it

vars == <<read, filter, rules>>

Obj(items) == [kind |-> "object", items |-> items]

\* gjson: a text of any value; that of objects and arrays matters nowhere.
String(v) == IF v.kind = "scalar" THEN v.text ELSE <<"raw">>

Contains(t, u) ==
    \E i \in 0..(Len(t) - Len(u)) : SubSeq(t, i + 1, i + Len(u)) = u

Nothing == [fields |-> <<>>, text |-> <<>>]
Field(p, name) == IF name \in DOMAIN p.fields THEN p.fields[name] ELSE Nothing

\* gjson: the value at the end of a path.
Get(p, path) ==
    LET along[i \in 0..Len(path)] == IF i = 0 THEN p ELSE Field(along[i - 1], path[i])
    IN along[Len(path)]

Upto(n) == IF n = 0 THEN {} ELSE Values[n]

Inside(v) == CASE v.kind = "object" -> {v.items[i][2] : i \in 1..Len(v.items)}
               [] v.kind = "array"  -> {v.items[i] : i \in 1..Len(v.items)}
               [] OTHER             -> {}

\* Names that are no operators are paths.
Named(v) == v.kind = "object" =>
                \A i \in 1..Len(v.items) : v.items[i][1].dot \/ Len(v.items[i][1].path) \in Nat

RulesAssumption ==
    /\ Len(Values) \in Nat
    /\ \A n \in 1..Len(Values) : \A v \in Values[n] : Inside(v) \subseteq Upto(n - 1) /\ Named(v)
    /\ \A f \in Files : \A v \in {f} \cup Starts[f] :
           Inside(v) \subseteq Upto(Len(Values)) /\ Named(v)
    /\ None \notin [Payloads -> BOOLEAN]

PayloadsAssumption ==
    /\ Events \subseteq Payloads /\ Nothing \in Payloads
    /\ \A p \in Payloads : \A x \in DOMAIN p.fields : p.fields[x] \in Payloads

-----------------------------------------------------------------------------
(* Generate, and Eval of what it makes; of is what the values inside become. *)

Operators == {"and", "or", "not", "eq", "neq", "in", "contains", "regex"}

\* Mutant: every item is held against the whole payload.
AllFlat(ops) ==
    IF \E i \in DOMAIN ops : ops[i][2] = Panic THEN Panic
    ELSE [p \in Payloads |-> \A i \in DOMAIN ops : ops[i][2][p]]

\* ops are <<key, filter>>, the key being empty for an operator and a path for a name.
AllOf(ops) ==
    IF \E i \in DOMAIN ops : ops[i][2] = Panic THEN Panic
    ELSE [p \in Payloads |->
             \A i \in DOMAIN ops : ops[i][2][IF ops[i][1] = <<>> THEN p ELSE Get(p, ops[i][1])]]

AnyOf(ops) ==
    IF \E i \in DOMAIN ops : ops[i] = Panic THEN Panic
    ELSE [p \in Payloads |-> \E i \in DOMAIN ops : ops[i][p]]

Not(op) == IF op = Panic THEN Panic ELSE [p \in Payloads |-> ~op[p]]

\* An item of an object; an empty name cannot be indexed, and other operators
\* are not supported.
Item(of, item) ==
    LET name == item[1]  value == item[2] IN
    IF name.dot THEN <<<<>>, IF name.op \in Operators THEN of[name.op][value] ELSE Panic>>
    ELSE IF name.path = <<>> THEN <<<<>>, Panic>>
    ELSE <<name.path, of[IF value.kind = "object" THEN "and" ELSE "eq"][value]>>

And(of, v) == IF v.kind # "object" THEN Panic
              ELSE AllOf([i \in 1..Len(v.items) |-> Item(of, v.items[i])])
Or(of, v) == IF v.kind # "array" THEN Panic
             ELSE AnyOf([i \in 1..Len(v.items) |-> of["and"][v.items[i]]])
In(v) ==
    CASE v.kind = "object" -> Panic
      [] v.kind = "array"  ->
            [p \in Payloads |-> \E i \in 1..Len(v.items) : p.text = String(v.items[i])]
      [] OTHER             -> [p \in Payloads |-> Contains(v.text, p.text)]
Regex(v) == IF v.kind # "scalar" THEN Panic
            ELSE IF v.text \notin DOMAIN Matches THEN Panic
            ELSE [p \in Payloads |-> p.text \in Matches[v.text]]

Operator(of, op, v) ==
    CASE op = "and" -> And(of, v)
      [] op = "not" -> Not(And(of, v))
      [] op = "or"  -> Or(of, v)
      [] op = "eq"  -> [p \in Payloads |-> p.text = String(v)]
      [] op = "neq" -> [p \in Payloads |-> p.text # String(v)]
      [] op = "in"  -> In(v)
      [] op = "contains" -> IF v.kind # "scalar" THEN Panic
                            ELSE [p \in Payloads |-> Contains(p.text, v.text)]
      [] OTHER      -> Regex(v)

\* What Generate makes of an operator and a value with at most n levels inside.
Compiled[n \in 0..Len(Values)] ==
    [op \in Operators |-> [v \in Upto(n) |->
        Operator(IF n = 0 THEN <<>> ELSE Compiled[n - 1], op, v)]]

Generate(v) == And(Compiled[Len(Values)], v)

\* What the reporters ask.
Passes(e) == filter = None \/ filter[e]

-----------------------------------------------------------------------------
(* Add.                                                                    *)

\* os.ReadFile, of a file that anybody may have edited; while it is written only
\* the start may be there, and gjson, which reports no errors, makes what it can
\* of it.  Without a file nothing is done.
ReadFile(a) ==
    /\ read[a] = None
    /\ \E f \in Files :
          \/ read' = [read EXCEPT ![a] = [text |-> f, torn |-> FALSE]]
          \/ \E v \in Starts[f] : read' = [read EXCEPT ![a] = [text |-> v, torn |-> TRUE]]
    /\ UNCHANGED <<filter, rules>>

\* Compiled and stored under filterMutex; a panic is recovered and the filter
\* stays as it was.
Add(a) ==
    /\ read[a] # None
    /\ read' = [read EXCEPT ![a] = None]
    /\ LET f == Generate(read[a].text) IN
       IF f = Panic THEN UNCHANGED <<filter, rules>>
       ELSE filter' = f /\ rules' = read[a]

Init ==
    /\ read = [a \in Adders |-> None]
    /\ filter = None
    /\ rules = None

Next == \E a \in Adders : ReadFile(a) \/ Add(a)

Spec == Init /\ [][Next]_vars

-----------------------------------------------------------------------------
(* Properties.                                                             *)

\* docs/EventFilter.md, read off the rules: an object means all its items; a
\* plain name with a value that is no object means equality.
AllItems(means, v, p) ==
    \A i \in 1..Len(v.items) :
        LET name == v.items[i][1]  value == v.items[i][2] IN
        IF name.dot THEN means[name.op][value][p]
        ELSE IF value.kind = "object" THEN means["and"][value][Get(p, name.path)]
        ELSE Get(p, name.path).text = String(value)

Meaning(means, op, v, p) ==
    CASE op = "and"      -> AllItems(means, v, p)
      [] op = "not"      -> \E i \in 1..Len(v.items) : ~AllItems(means, Obj(<<v.items[i]>>), p)
      [] op = "or"       -> \E i \in 1..Len(v.items) : means["and"][v.items[i]][p]
      [] op = "eq"       -> p.text = String(v)
      [] op = "neq"      -> p.text # String(v)
      [] op = "in"       -> IF v.kind = "array"
                            THEN \E i \in 1..Len(v.items) : p.text = String(v.items[i])
                            ELSE Contains(v.text, p.text)
      [] op = "contains" -> Contains(p.text, v.text)
      [] OTHER           -> p.text \in Matches[v.text]

Means[n \in 0..Len(Values)] ==
    [op \in Operators |-> [v \in Upto(n) |-> [p \in Payloads |->
        Meaning(IF n = 0 THEN <<>> ELSE Means[n - 1], op, v, p)]]]

\* Whatever is edited or does not compile, events are judged by the last rules
\* that did, as the documentation reads operators and names, and these are all
\* that a file had.  Excepted by name, against the documentation, which leaves
\* the filter off at an error of syntax: the start of a file is rules too.
JudgedByRules ==
    /\ \A e \in Events :
          Passes(e) <=> (rules = None \/ AllItems(Means[Len(Values)], rules.text, e))
    /\ rules = None \/ rules.text \in Files \/ rules.torn
=============================================================================
