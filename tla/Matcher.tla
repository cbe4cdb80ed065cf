------------------------------ MODULE Matcher ------------------------------
(***************************************************************************)
(* The matcher of xdsmatcher/pkg/matcher: a match tree is created from its *)
(* configuration and evaluated, again and again if need be, on data that   *)
(* arrive in the course of time.                                           *)
(*                                                                         *)
(* A matcher is a list of predicates or an exact match map, with an        *)
(* on_no_match; what it leads to is an action, another matcher or nothing: *)
(*   [kind : list, entries : Seq([predicate, onMatch]), onNoMatch],        *)
(*   [kind : exact, input, map, onNoMatch];                                *)
(*   [kind : action, action], [kind : matcher, matcher], [kind : nil];     *)
(*   [kind : single, input, accepts], [kind : and or or, parts].           *)
(* A kind the code does not implement is "other".  A regular expression is *)
(* the set of values it accepts.                                           *)
(***************************************************************************)
EXTENDS Naturals, Sequences, FiniteSetsExt

CONSTANTS Inputs,   \* inputs of the data
          Values,   \* the strings inputs may yield
          NoData,   \* the nil string
          Grows,    \* pairs: the first value may become the second with more data
          Growing,  \* inputs whose value may arrive in parts, others arrive whole
          InputExtensions, ActionExtensions,  \* what is registered
          Configs   \* configurations

ASSUME GrowsAssumption ==
    /\ NoData \notin Values
    /\ Grows \subseteq Values \X Values
    /\ Growing \subseteq Inputs

NoOnMatch == [kind |-> "nil"]
NoTree == [kind |-> "none"]

VARIABLES tree,    \* the MatcherTree in use
          data,    \* per input what DataInput.Input yields: [availability, value]
          result   \* what Match returned last: [match, more, err]

vars == <<tree, data, result>>

Available == {"error", "not", "more", "all"}

Inconclusive == [match |-> NoOnMatch, more |-> TRUE, err |-> "none"]
Failed(e) == [match |-> NoOnMatch, more |-> FALSE, err |-> e]
Found(onMatch) == [match |-> onMatch, more |-> FALSE, err |-> "none"]

\* Nothing has been matched: what the caller knows then.
Init ==
    /\ tree = NoTree
    /\ data \in [Inputs -> [availability : {"error", "not"}, value : {NoData}]]
    /\ result = Inconclusive

----------------------------------------------------------------------------
(* Creating a tree                                                         *)

RECURSIVE createPredicate(_)
createPredicate(p) ==
    CASE p.kind \in {"and", "or"} -> \A i \in DOMAIN p.parts : createPredicate(p.parts[i])
      [] p.kind = "single"        -> p.input \in InputExtensions
      [] OTHER                    -> FALSE

\* create and its helpers succeed.
RECURSIVE create(_)

createOnMatch(o) ==
    CASE o.kind = "nil"     -> TRUE
      [] o.kind = "matcher" -> create(o.matcher)
      [] o.kind = "action"  -> o.action \in ActionExtensions
      [] OTHER              -> FALSE

\* The entries of a list need an on_match, those of a map do not.
createMatcherList(m) ==
    \A i \in DOMAIN m.entries :
        /\ m.entries[i].onMatch # NoOnMatch
        /\ createOnMatch(m.entries[i].onMatch)
        /\ createPredicate(m.entries[i].predicate)

createMatchTree(m) ==
    /\ m.input \in InputExtensions
    /\ \A v \in DOMAIN m.map : createOnMatch(m.map[v])

create(m) ==
    /\ createOnMatch(m.onNoMatch)
    /\ CASE m.kind = "list"  -> createMatcherList(m)
         [] m.kind = "exact" -> createMatchTree(m)
         [] OTHER            -> FALSE

Create(config) ==
    /\ tree = NoTree
    /\ create(config)
    /\ tree' = config
    /\ UNCHANGED <<data, result>>

----------------------------------------------------------------------------
(* Matching                                                                *)

\* Mutant: all data are treated as if more might come.
handlePossiblyMissingInput_NeverAll(input, found) ==
    CASE input.availability \in {"all", "more"} ->
           [match |-> found, more |-> found = NoOnMatch, err |-> "none"]
      [] input.availability = "not"   -> Inconclusive
      [] input.availability = "error" -> Failed("input")

\* found is what the value there is leads to.
handlePossiblyMissingInput(input, found) ==
    CASE input.availability = "all"   -> Found(found)
      [] input.availability = "more"  -> [match |-> found, more |-> found = NoOnMatch, err |-> "none"]
      [] input.availability = "not"   -> Inconclusive
      [] input.availability = "error" -> Failed("input")

\* matcherResult of a predicate.
Verdict(match, more) == [match |-> match, more |-> more, err |-> "none"]

\* regexMatcher does not match nil.
singlePredicate(p, d) ==
    LET r == handlePossiblyMissingInput(d[p.input],
                 IF d[p.input].value \in p.accepts THEN [kind |-> "match"] ELSE NoOnMatch)
    IN  [r EXCEPT !.match = (@ # NoOnMatch)]

\* The results of the parts, evaluated in order: the first that fails, is
\* inconclusive or does not match decides.
conjunctionPredicate(rs) ==
    LET stops == {i \in DOMAIN rs : rs[i].err # "none" \/ rs[i].more \/ ~rs[i].match}
    IN  IF stops = {} THEN Verdict(TRUE, FALSE) ELSE rs[Min(stops)]

\* Mutant: inconclusive parts are taken for parts that do not match.
disjunctionPredicate_Hasty(rs) ==
    LET stops == {i \in DOMAIN rs : rs[i].err # "none" \/ (~rs[i].more /\ rs[i].match)}
    IN  IF stops = {} THEN Verdict(FALSE, FALSE) ELSE rs[Min(stops)]

\* The first that fails or matches decides; inconclusive ones count if none does.
disjunctionPredicate(rs) ==
    LET stops == {i \in DOMAIN rs : rs[i].err # "none" \/ (~rs[i].more /\ rs[i].match)}
    IN  IF stops = {} THEN Verdict(FALSE, \E i \in DOMAIN rs : rs[i].more)
                      ELSE rs[Min(stops)]

RECURSIVE predicateMatch(_, _)
predicateMatch(p, d) ==
    CASE p.kind = "single" -> singlePredicate(p, d)
      [] p.kind = "and" ->
           conjunctionPredicate([i \in DOMAIN p.parts |-> predicateMatch(p.parts[i], d)])
      [] p.kind = "or" ->
           disjunctionPredicate([i \in DOMAIN p.parts |-> predicateMatch(p.parts[i], d)])

\* The first entry that fails, matches or is inconclusive decides.
matcherList(m, d) ==
    LET verdict == [i \in DOMAIN m.entries |-> predicateMatch(m.entries[i].predicate, d)]
        stops   == {i \in DOMAIN verdict :
                       verdict[i].err # "none" \/ verdict[i].match \/ verdict[i].more}
        v       == verdict[Min(stops)]
    IN  IF stops = {} THEN Found(NoOnMatch)
        ELSE IF v.err # "none" THEN Failed(v.err)
        ELSE IF v.match THEN Found(m.entries[Min(stops)].onMatch)
        ELSE Inconclusive

\* Mutant: an eager match asks for more data all the same.
exactMatchTree_AlwaysMore(m, d) ==
    LET value == d[m.input].value
        r == handlePossiblyMissingInput(d[m.input],
                 IF value \in DOMAIN m.map THEN m.map[value] ELSE NoOnMatch)
    IN  [r EXCEPT !.more = d[m.input].availability \in {"more", "not"}]

exactMatchTree(m, d) ==
    LET value == d[m.input].value
    IN  handlePossiblyMissingInput(d[m.input],
            IF value \in DOMAIN m.map THEN m.map[value] ELSE NoOnMatch)

\* MatcherTree.Match.
RECURSIVE MatcherTreeMatch(_, _)
MatcherTreeMatch(m, d) ==
    LET r == IF m.kind = "list" THEN matcherList(m, d) ELSE exactMatchTree(m, d)
    IN  CASE r.err # "none"                                    -> r
          [] r.err = "none" /\ r.match # NoOnMatch /\ r.more  -> Failed("invariant")
          [] r.err = "none" /\ r.match # NoOnMatch /\ ~r.more ->
               IF r.match.kind = "matcher" THEN MatcherTreeMatch(r.match.matcher, d) ELSE r
          [] r.err = "none" /\ r.match = NoOnMatch /\ r.more  -> r
          [] r.err = "none" /\ r.match = NoOnMatch /\ ~r.more -> Found(m.onNoMatch)

Match ==
    /\ tree # NoTree
    /\ result' = MatcherTreeMatch(tree, data)
    /\ UNCHANGED <<tree, data>>

----------------------------------------------------------------------------
(* Data arrive                                                             *)

\* What may become of an input: nothing is taken back, and a value only changes
\* in an input that arrives in parts.
Later(i) ==
    LET now  == data[i]
        next == IF now.value = NoData THEN Values \cup {NoData}
                ELSE {now.value} \cup {w \in Values : i \in Growing /\ <<now.value, w>> \in Grows}
    IN  CASE now.availability \in {"error", "all"} -> {}
          [] now.availability \in {"not", "more"}  ->
               {x \in [availability : {"more", "all"}, value : next] : x # now}

Arrive(i) ==
    /\ \E x \in Later(i) : data' = [data EXCEPT ![i] = x]
    /\ UNCHANGED <<tree, result>>

Next ==
    \/ \E config \in Configs : Create(config)
    \/ \E i \in Inputs : Arrive(i)
    \/ Match

Spec == Init /\ [][Next]_vars

----------------------------------------------------------------------------
(* What a configuration means when all values are known                    *)

RECURSIVE Holds(_, _)
Holds(p, values) ==
    CASE p.kind = "single" -> values[p.input] \in p.accepts
      [] p.kind = "and"    -> \A i \in DOMAIN p.parts : Holds(p.parts[i], values)
      [] p.kind = "or"     -> \E i \in DOMAIN p.parts : Holds(p.parts[i], values)

\* The first entry that holds, or the entry of the input's value; a matcher it leads
\* to decides.  What leads to nothing has not matched, "even if a predicate at this
\* level or above returned true", and on_no_match is used, "the most specific" first.
RECURSIVE Meaning(_, _)
Meaning(m, values) ==
    LET holding == {i \in DOMAIN m.entries : Holds(m.entries[i].predicate, values)}
        chosen  == IF m.kind = "list"
                   THEN IF holding = {} THEN NoOnMatch ELSE m.entries[Min(holding)].onMatch
                   ELSE IF values[m.input] \in DOMAIN m.map THEN m.map[values[m.input]] ELSE NoOnMatch
        Reached(o) == IF o.kind = "matcher" THEN Meaning(o.matcher, values) ELSE o
    IN  IF Reached(chosen) # NoOnMatch THEN Reached(chosen) ELSE Reached(m.onNoMatch)

\* The values there may be in the end; those of a failing input are any.
Final(i) ==
    CASE data[i].availability = "all"   -> {data[i].value}
      [] data[i].availability = "error" -> Values \cup {NoData}
      [] OTHER                          -> {x.value : x \in Later(i)}

Decided == result.err = "none" /\ ~result.more

----------------------------------------------------------------------------
(* Properties                                                              *)

\* Every tree in use can be evaluated, and the results are as Match may return
\* them: its own check for an "invariant violation" never fires (Match, create).
TypeOK ==
    /\ tree \in Configs \cup {NoTree}
    /\ \A i \in Inputs : data[i].availability \in Available /\ data[i].value \in Values \cup {NoData}
    /\ result.err \in {"none", "input"}
    /\ result.more => result.match = NoOnMatch

\* Partial data decide only what all data would: a result that does not ask for
\* more data is what the configuration means, by the documentation of the
\* configuration, whatever the values still to come, and whatever a failing input
\* would have been, although lists, conjunctions, disjunctions and nested matchers
\* stop early at different places ("MatchResult is the final result, if NeedMoreData
\* is false").
FinalResult ==
    Decided =>
        \A values \in [Inputs -> UNION {Final(i) : i \in Inputs}] :
            (\A i \in Inputs : values[i] \in Final(i))
                => result.match = Meaning(tree, values)

\* Once every input has all its data, Match asks for no more
\* ("AllDataAvailable indicates that all data is present").
Conclusive ==
    tree # NoTree /\ (\A i \in Inputs : data[i].availability = "all")
        => ~MatcherTreeMatch(tree, data).more
============================================================================
