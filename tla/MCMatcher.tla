----------------------------- MODULE MCMatcher -----------------------------
(***************************************************************************)
(* Configurations of Matcher for TLC.                                      *)
(***************************************************************************)
EXTENDS Matcher, TLC

\* The input foo arrives in parts: "f" may turn out to be "fo".
MCGrows == {<<"f", "fo">>}

Single(input, accepts) == [kind |-> "single", input |-> input, accepts |-> accepts]
Compound(kind, p, q) == [kind |-> kind, parts |-> <<p, q>>]
Action(x) == [kind |-> "action", action |-> x]
Nested(m) == [kind |-> "matcher", matcher |-> m]
Entry(p, o) == [predicate |-> p, onMatch |-> o]
List(entries, onNoMatch) == [kind |-> "list", entries |-> entries, onNoMatch |-> onNoMatch]
Exact(input, map, onNoMatch) == [kind |-> "exact", input |-> input, map |-> map, onNoMatch |-> onNoMatch]

\* What matches "f" also matches what it grows into, as an unanchored regular
\* expression does.
Foo == Single("foo", {"f", "fo"})
Long == Single("foo", {"fo"})
Bar == Single("bar", {"x"})
NotBar == Single("bar", {"f", "fo"})

Predicates ==
    {Foo, Bar} \cup {Compound(k, p, q) : k \in {"and", "or"}, p, q \in {Foo, Bar, Long}}
        \cup {Compound("or", Compound("and", Foo, Bar), NotBar),
              Compound("and", Compound("or", Bar, Long), Foo)}

Lists ==
    {List(<<Entry(p, Action("A")), Entry(q, Action("B"))>>, o) :
        p \in Predicates, q \in {Long, Bar}, o \in {NoOnMatch, Action("C")}}

\* The on_no_match of a nested matcher and of the one around it.  A nested matcher
\* without one has no other around it: code and documentation differ about that.
OnNoMatches ==
    {<<Action("D"), Action("C")>>, <<Action("D"), NoOnMatch>>, <<NoOnMatch, NoOnMatch>>}

Trees ==
    {Exact("bar", ("x" :> Nested(List(<<Entry(p, Action("A"))>>, o[1])) @@ "f" :> Action("B")), o[2]) :
        p \in Predicates, o \in OnNoMatches}

NestedLists ==
    {List(<<Entry(p, Nested(Exact("bar", "x" :> Action("A"), o[1]))), Entry(Foo, Action("B"))>>, o[2]) :
        p \in Predicates, o \in OnNoMatches}

\* Configurations create refuses.
Refused ==
    {List(<<Entry(Foo, NoOnMatch)>>, NoOnMatch),
     List(<<Entry([kind |-> "other"], Action("A"))>>, NoOnMatch),
     List(<<Entry(Foo, Action("E"))>>, NoOnMatch),
     List(<<Entry(Single("baz", {"x"}), Action("A"))>>, NoOnMatch),
     Exact("baz", "x" :> Action("A"), NoOnMatch),
     Exact("bar", "x" :> Nested([kind |-> "other", onNoMatch |-> NoOnMatch]), NoOnMatch),
     Exact("bar", "x" :> Action("A"), [kind |-> "other"])}

MCConfigs == Lists \cup Trees \cup NestedLists \cup Refused

\* Every one of the last kind is refused, all others are created.
ASSUME MCRefused == \A c \in MCConfigs : create(c) <=> c \notin Refused
============================================================================
