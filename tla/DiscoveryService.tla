-------------------------- MODULE DiscoveryService --------------------------
(***************************************************************************)
(* What the discovery service promises its clients, without the streams,   *)
(* watches, channels and nonces it is made of.                             *)
(*                                                                         *)
(* The management server publishes snapshots.  Answers are made from the   *)
(* snapshot that is current, are under way for a while, and may get lost.  *)
(* A client that takes an answer is brought to the answer's snapshot, in   *)
(* everything the answer is about, and never back to an older one.         *)
(*                                                                         *)
(* SotwServer and DeltaServer implement this specification.                *)
(***************************************************************************)
EXTENDS Naturals, Functions

CONSTANTS Nodes,       \* nodes, each with one client
          Types,       \* resource types
          Names,       \* resource names
          Snapshots,   \* what may be published: per type a map of resources
          NoSnapshot   \* nothing is published

VARIABLES
    current,   \* per node, the snapshot published last
    index,     \* snapshots published so far
    answers,   \* answers under way
    wanted,    \* per node and type, the names the client is interested in
    held,      \* per node and type, the resources the client holds
    position,  \* per node and type, the index of the answer taken last
    refused    \* per node and type, whether the client refused an answer

vars == <<current, index, answers, wanted, held, position, refused>>

\* An answer is about the names in its scope.  One of kind "all" holds all there
\* is, one of kind "named" does not tell of removals, and one of kind "delta" is
\* sent as the difference to the answers before it.
IsAnswer(a) ==
    /\ current[a.node] # NoSnapshot
    /\ a.index = index
    /\ LET resources == current[a.node].resources[a.type]
       IN  a.view = Restrict(resources, DOMAIN resources \cap a.scope)

Init ==
    /\ current = [n \in Nodes |-> NoSnapshot]
    /\ index = 0
    /\ answers = {}
    /\ wanted \in [Nodes -> [Types -> SUBSET Names]]
    /\ held = [n \in Nodes |-> [t \in Types |-> [x \in {} |-> x]]]
    /\ position = [n \in Nodes |-> [t \in Types |-> 0]]
    /\ refused = [n \in Nodes |-> [t \in Types |-> FALSE]]

Publish(n, s) ==
    /\ current' = [current EXCEPT ![n] = s]
    /\ index' = index + 1
    /\ UNCHANGED <<answers, wanted, held, position, refused>>

Withdraw(n) ==
    /\ current' = [current EXCEPT ![n] = NoSnapshot]
    /\ UNCHANGED <<index, answers, wanted, held, position, refused>>

\* An answer is made; others, which it supersedes, may be given up.
Answer ==
    /\ \E a \in answers' : IsAnswer(a) /\ answers' \subseteq answers \cup {a}
    /\ UNCHANGED <<current, index, wanted, held, position, refused>>

Lose ==
    /\ answers' \subseteq answers
    /\ UNCHANGED <<current, index, wanted, held, position, refused>>

ChangeInterest(n, t) ==
    /\ wanted' \in {[wanted EXCEPT ![n][t] = w] : w \in SUBSET Names}
    /\ held' = [held EXCEPT ![n][t] = Restrict(@, DOMAIN @ \cap wanted'[n][t])]
    /\ UNCHANGED <<current, index, answers, position, refused>>

\* What a client holds once it has taken an answer: of the names the answer
\* tells about what is in the snapshot, of the others what it held.
After(a) ==
    LET before == held[a.node][a.type]
        told == IF a.kind = "named" THEN DOMAIN a.view ELSE a.scope
    IN  [x \in wanted[a.node][a.type] \cap (DOMAIN a.view \cup (DOMAIN before \ told)) |->
            IF x \in DOMAIN a.view THEN a.view[x] ELSE before[x]]

\* A difference to an answer the client refused leaves it with a mixture.
Mixture(a, content) ==
    \A x \in DOMAIN content :
        \/ x \in DOMAIN a.view /\ content[x] = a.view[x]
        \/ x \in DOMAIN held[a.node][a.type] /\ content[x] = held[a.node][a.type][x]

Take(a) ==
    LET n == a.node
        t == a.type
    IN  /\ a.index >= position[n][t]
        /\ position' = [position EXCEPT ![n][t] = a.index]
        /\ answers \ {a} \subseteq answers'
        /\ answers' \subseteq answers
        /\ held' = [held EXCEPT ![n][t] = held'[n][t]]
        /\ \/ held'[n][t] = After(a)
           \/ a.kind = "delta" /\ refused[n][t] /\ Mixture(a, held'[n][t])
        /\ refused' \in {refused, [refused EXCEPT ![n][t] = FALSE]}
        /\ UNCHANGED <<current, index, wanted>>

Refuse(n, t) ==
    /\ refused' = [refused EXCEPT ![n][t] = TRUE]
    /\ answers' \subseteq answers
    /\ UNCHANGED <<current, index, wanted, held, position>>

Next ==
    \/ \E n \in Nodes, s \in Snapshots : Publish(n, s)
    \/ \E n \in Nodes : Withdraw(n)
    \/ Answer
    \/ Lose
    \/ \E n \in Nodes, t \in Types : ChangeInterest(n, t)
    \/ \E a \in answers : Take(a)
    \/ \E n \in Nodes, t \in Types : Refuse(n, t)

Spec == Init /\ [][Next]_vars
============================================================================
