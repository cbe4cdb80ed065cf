----------------------- MODULE DeltaConvergenceProofs -----------------------
(***************************************************************************)
(* Proofs that delta clients converge, for all nodes, streams, types,      *)
(* names, snapshots and bounds, as long as subscriptions do not change.    *)
(*                                                                         *)
(* The requests, watches and responses of a type on a stream are then one  *)
(* token, which is in one place at a time: on its way to the server, in    *)
(* the loop's hands, in the cache as a watch, in the channel, or on its    *)
(* way to the client.  Wherever it is, it leads the client to what the     *)
(* stream records.                                                         *)
(*                                                                         *)
(* Such streams implement the discovery service: SetSnapshot publishes,    *)
(* ClearSnapshot withdraws, answering a watch makes an answer, Ack takes   *)
(* it, Nack refuses it, and every other step loses answers or none.        *)
(***************************************************************************)
EXTENDS DeltaServerProofs, StreamStateProofs

\* A queue has no element of the type; it has one, d.
Without(q, t) == \A i \in DOMAIN q : q[i].type # t
Single(q, t, d) ==
    \E i \in DOMAIN q : /\ q[i] = d /\ d.type = t
                        /\ \A j \in DOMAIN q : q[j].type = t => j = i

\* The loop handles a request of the type.
InHand(s, t) == pc[s] \in {"drain", "cancel", "create"} /\ current[s].type = t

\* There is nothing of the type on the stream but in one place.
Only(s, t, place) ==
    /\ place = "request" \/ Without(toServer[s], t)
    /\ place = "loop" \/ ~InHand(s, t)
    /\ place = "watch" \/ OpenDeltaOn(s, t) = {}
    /\ place = "channel" \/ Without(deltaResponses[s], t)
    /\ place = "wire" \/ Without(toClient[s], t)

\* The stream knows the subscription of its client, and what the client holds
\* unless it rejected a response.
Subscriber(state, st) == state.wildcard = st.wildcard /\ state.subscribed = st.names
Agrees(state, st) == Subscriber(state, st) /\ (st.rejected \/ state.versions = st.content)

\* The first request of a type has all the stream needs to know, later ones
\* change nothing.
FirstRequest(t, st) ==
    [Plain(t) EXCEPT !.subscribe = st.names, !.star = FALSE, !.initial = st.content]
Asks(r, w, st, t) ==
    \/ ~w.active /\ r = FirstRequest(t, st)
    \/ w.active /\ r = Plain(t) /\ Agrees(w.state, st)

\* A response takes the client to the resources in its scope of the snapshot it
\* was made from, which is not older than what the client has.
Wanted(st) == IF st.wildcard THEN Names ELSE st.names
Leads(d, st) ==
    /\ d.scope = Wanted(st)
    /\ DOMAIN d.next \subseteq d.scope
    /\ d.at \in st.at .. sets
    /\ \A x \in DOMAIN d.resources : x \in DOMAIN d.next /\ d.resources[x] = d.next[x]
    /\ st.rejected \/ Apply(st.content, d) = d.next

Unasked(s, t, w, st) == Only(s, t, "none") /\ ~st.asked /\ ~w.active
Requested(s, t, w, st) ==
    Only(s, t, "request") /\ st.asked /\ \E r : Single(toServer[s], t, r) /\ Asks(r, w, st, t)
Handled(s, t, w, st) ==
    /\ Only(s, t, "loop") /\ st.asked /\ InHand(s, t)
    /\ IF pc[s] = "create" THEN w.active /\ Agrees(w.state, st) ELSE Asks(current[s], w, st, t)
Watched(s, t, w, st) ==
    /\ Only(s, t, "watch") /\ st.asked /\ w.active /\ Agrees(w.state, st)
    /\ \A x \in OpenDeltaOn(s, t) : x.state = w.state
    /\ Clearing \/ OpenDeltaOn(s, t) # {}
Buffered(s, t, w, st) ==
    /\ Only(s, t, "channel") /\ st.asked /\ w.active /\ Subscriber(w.state, st)
    /\ \E d : Single(deltaResponses[s], t, d) /\ Leads(d, st)
Sent(s, t, w, st) ==
    /\ Only(s, t, "wire") /\ st.asked /\ w.active /\ Subscriber(w.state, st)
    /\ \E d : Single(toClient[s], t, d) /\ Leads(d, st) /\ w.state.versions = d.next

Token(s, t, w, st) ==
    \/ Unasked(s, t, w, st) \/ Requested(s, t, w, st) \/ Handled(s, t, w, st)
    \/ Watched(s, t, w, st) \/ Buffered(s, t, w, st) \/ Sent(s, t, w, st)

TokenInv ==
    \A n \in Nodes, s \in Streams, t \in Types :
        conn[n] # NoStream /\ conn[n] = s => Token(s, t, watching[s][t], client[n][t])

\* A client's stream is its node's and runs; a stream that has not started is
\* empty; no two watches share a cancel function.
StreamInv ==
    /\ \A n \in Nodes, s \in Streams :
          conn[n] # NoStream /\ conn[n] = s =>
            StreamNode[s] = n /\ live[s] /\ pc[s] \notin {"idle", "closing", "closed"}
    /\ \A s \in Streams :
          pc[s] = "idle" => /\ toServer[s] = <<>> /\ toClient[s] = <<>> /\ deltaResponses[s] = <<>>
                            /\ \A t \in Types : ~watching[s][t].active
    /\ \A s, x \in Streams, t, u \in Types :
          watching[s][t].cancel = watching[x][u].cancel /\ watching[s][t].cancel # 0
            => s = x /\ t = u

\* A client with names holds nothing else, and is never ahead of the snapshots.
HoldingInv ==
    \A n \in Nodes, t \in Types :
        LET st == client[n][t]
        IN  /\ st.wildcard <=> st.names = {}
            /\ DOMAIN st.content \subseteq Wanted(st)
            /\ st.at <= sets

ConvergeInv == ServerInv /\ StreamInv /\ HoldingInv /\ TokenInv

----------------------------------------------------------------------------
(* Queues                                                                  *)

\* q2 has of a type what q has.
Same(q2, q, t) == (Without(q, t) => Without(q2, t)) /\ \A d : Single(q, t, d) => Single(q2, t, d)

\* A queue has what it has.
LEMMA SameRefl == ASSUME NEW q, NEW t PROVE Same(q, q, t)
  BY DEF Same

\* The elements of a queue with one more.
LEMMA AppendParts ==
    ASSUME NEW S, NEW q \in Seq(S), NEW d
    PROVE  /\ DOMAIN Append(q, d) = DOMAIN q \cup {Len(q) + 1}
           /\ Append(q, d)[Len(q) + 1] = d /\ Len(q) + 1 \notin DOMAIN q
           /\ \A i \in DOMAIN q : Append(q, d)[i] = q[i]
  <1>1. /\ Len(q) \in Nat /\ Len(Append(q, d)) = Len(q) + 1 /\ DOMAIN q = 1 .. Len(q)
        /\ DOMAIN Append(q, d) = 1 .. Len(q) + 1 /\ Append(q, d)[Len(q) + 1] = d
        /\ \A i \in 1 .. Len(q) : Append(q, d)[i] = q[i]
    OBVIOUS
  <1> QED
    BY <1>1

\* An element of another type changes nothing.
LEMMA AppendOther ==
    ASSUME NEW S, NEW q \in Seq(S), NEW d, NEW t, d.type # t
    PROVE  Same(Append(q, d), q, t)
  <1> DEFINE p == Append(q, d)
             k == Len(q) + 1
  <1>1. DOMAIN p = DOMAIN q \cup {k} /\ p[k] = d /\ \A i \in DOMAIN q : p[i] = q[i]
    BY AppendParts
  <1> HIDE DEF p, k
  <1>2. Same(p, q, t)
    BY <1>1 DEF Same, Without, Single
  <1> QED
    BY <1>2 DEF p

\* A queue without the type has the new element.
LEMMA AppendSame ==
    ASSUME NEW S, NEW q \in Seq(S), NEW d, NEW t, d.type = t, Without(q, t)
    PROVE  Single(Append(q, d), t, d)
  <1> DEFINE p == Append(q, d)
             k == Len(q) + 1
  <1>1. DOMAIN p = DOMAIN q \cup {k} /\ p[k] = d /\ \A i \in DOMAIN q : p[i] = q[i]
    BY AppendParts
  <1> HIDE DEF p, k
  <1>2. Single(p, t, d)
    BY <1>1 DEF Without, Single
  <1> QED
    BY <1>2 DEF p

\* The elements of a queue without its head.
LEMMA TailParts ==
    ASSUME NEW S, NEW q \in Seq(S), q # <<>>
    PROVE  /\ 1 \in DOMAIN q /\ Head(q) = q[1]
           /\ \A i \in DOMAIN Tail(q) : i \in Nat /\ i # 0 /\ i + 1 \in DOMAIN q /\ Tail(q)[i] = q[i + 1]
           /\ \A i \in DOMAIN q : i \in Nat /\ (i = 1 \/ (i - 1 \in DOMAIN Tail(q) /\ Tail(q)[i - 1] = q[i]))
  <1>1. /\ Len(q) \in Nat /\ Len(q) # 0 /\ DOMAIN q = 1 .. Len(q) /\ DOMAIN Tail(q) = 1 .. Len(q) - 1
        /\ Head(q) = q[1] /\ \A i \in 1 .. Len(q) - 1 : Tail(q)[i] = q[i + 1]
    OBVIOUS
  <1> QED
    BY <1>1

\* A head of another type changes nothing.
LEMMA TailOther ==
    ASSUME NEW S, NEW q \in Seq(S), q # <<>>, NEW t, Head(q).type # t
    PROVE  Same(Tail(q), q, t)
  <1> DEFINE p == Tail(q)
  <1>1. /\ 1 \in DOMAIN q /\ Head(q) = q[1]
        /\ \A i \in DOMAIN p : i \in Nat /\ i # 0 /\ i + 1 \in DOMAIN q /\ p[i] = q[i + 1]
        /\ \A i \in DOMAIN q : i \in Nat /\ (i = 1 \/ (i - 1 \in DOMAIN p /\ p[i - 1] = q[i]))
    BY TailParts
  <1> HIDE DEF p
  <1>2. Without(q, t) => Without(p, t)
    BY <1>1 DEF Without
  <1>3. ASSUME NEW d, Single(q, t, d) PROVE Single(p, t, d)
    <2>1. PICK i \in DOMAIN q : q[i] = d /\ d.type = t /\ \A j \in DOMAIN q : q[j].type = t => j = i
      BY <1>3 DEF Single
    <2>2. i # 1
      BY <1>1, <2>1
    <2>3. i \in Nat /\ i - 1 \in DOMAIN p /\ p[i - 1] = d
      BY <1>1, <2>1, <2>2
    <2>4. ASSUME NEW j \in DOMAIN p, p[j].type = t PROVE j = i - 1
      <3>1. j \in Nat /\ j + 1 \in DOMAIN q /\ q[j + 1].type = t
        BY <1>1, <2>4
      <3>2. j + 1 = i
        BY <2>1, <3>1
      <3> QED
        BY <2>3, <3>1, <3>2
    <2> QED
      BY <2>1, <2>3, <2>4 DEF Single
  <1> QED
    BY <1>2, <1>3 DEF Same, p

\* The only element of a type is gone with the head.
LEMMA TailSame ==
    ASSUME NEW S, NEW q \in Seq(S), q # <<>>, NEW t, Head(q).type = t, NEW d, Single(q, t, d)
    PROVE  d = Head(q) /\ Without(Tail(q), t)
  <1> DEFINE p == Tail(q)
  <1>1. /\ 1 \in DOMAIN q /\ Head(q) = q[1]
        /\ \A i \in DOMAIN p : i \in Nat /\ i # 0 /\ i + 1 \in DOMAIN q /\ p[i] = q[i + 1]
    BY TailParts
  <1>2. PICK i \in DOMAIN q : q[i] = d /\ d.type = t /\ \A j \in DOMAIN q : q[j].type = t => j = i
    BY DEF Single
  <1>3. i = 1
    BY <1>1, <1>2
  <1> HIDE DEF p
  <1>4. ASSUME NEW j \in DOMAIN p, p[j].type = t PROVE FALSE
    <2>1. j \in Nat /\ j # 0 /\ j + 1 \in DOMAIN q /\ q[j + 1].type = t
      BY <1>1, <1>4
    <2>2. j + 1 = 1
      BY <1>2, <1>3, <2>1
    <2> QED
      BY <2>1, <2>2
  <1> QED
    BY <1>1, <1>2, <1>3, <1>4 DEF Without, p

\* The head of a queue is of a type that the queue is not without.
LEMMA HeadOf ==
    ASSUME NEW S, NEW q \in Seq(S), q # <<>>
    PROVE  ~Without(q, Head(q).type)
  BY TailParts DEF Without

\* The empty queue has nothing of any type.
LEMMA EmptyQueue ==
    ASSUME NEW t PROVE Without(<<>>, t)
  BY DEF Without

----------------------------------------------------------------------------
(* What requests and responses lead to                                     *)

\* The response made from a state that agrees with the client leads the client
\* to the snapshot.
LEMMA ResponseLeads ==
    ASSUME NEW state \in StreamStates, NEW st \in ClientStates, NEW res \in ResourceMaps, NEW d,
           Agrees(state, st), DOMAIN st.content \subseteq Wanted(st), st.at <= sets, sets \in Nat,
           d.resources = createDeltaResponse(state, res).resources,
           d.removed = createDeltaResponse(state, res).removed,
           d.next = createDeltaResponse(state, res).next,
           d.at = sets, d.scope = Scope(state)
    PROVE  Leads(d, st)
  <1>1. state.wildcard = st.wildcard /\ state.subscribed = st.names /\ st.at \in Nat
    BY DEF Agrees, Subscriber, ClientStates
  <1>2. d.scope = Wanted(st)
    BY <1>1 DEF Scope, Wanted
  <1>3. /\ d.next = [n \in InScope(state, res) |-> res[n]]
        /\ d.resources = [n \in Changed(state, res) |-> res[n]]
    BY DEF createDeltaResponse, Restrict
  <1>4. DOMAIN res \subseteq Names
    BY DEF ResourceMaps, Maps
  <1>5. DOMAIN d.next \subseteq d.scope
    BY <1>3, <1>4 DEF Scope, InScope
  <1>6. \A x \in DOMAIN d.resources : x \in DOMAIN d.next /\ d.resources[x] = d.next[x]
    BY <1>3 DEF Changed
  <1>7. st.rejected \/ Apply(st.content, d) = d.next
    <2>1. SUFFICES ASSUME ~st.rejected PROVE Apply(st.content, d) = d.next
      OBVIOUS
    <2>2. state.versions = st.content
      BY <2>1 DEF Agrees
    <2>3. state.wildcard \/ DOMAIN state.versions \subseteq state.subscribed
      BY <1>1, <2>2 DEF Wanted
    <2>4. Apply(state.versions, createDeltaResponse(state, res)) = Restrict(res, InScope(state, res))
      BY <2>3, DeltaResponseComplete
    <2>5. Apply(st.content, d) = Apply(state.versions, createDeltaResponse(state, res))
      BY <2>2 DEF Apply
    <2>6. d.next = Restrict(res, InScope(state, res))
      BY DEF createDeltaResponse
    <2> QED
      BY <2>4, <2>5, <2>6
  <1> QED
    BY <1>1, <1>2, <1>5, <1>6, <1>7 DEF Leads

\* The state after a first request, and after one that changes nothing.
LEMMA SubscribedFirst ==
    ASSUME NEW st \in ClientStates, NEW t, st.wildcard <=> st.names = {}, NEW r, r = FirstRequest(t, st)
    PROVE  Agrees(Subscribed(NewStreamState(r.subscribe = {} /\ ~r.star, r.initial), r), st)
  <1>1. /\ r.subscribe = st.names /\ r.star = FALSE /\ r.unsubscribe = {} /\ r.unstar = FALSE
        /\ r.initial = st.content
    BY DEF FirstRequest, Plain
  <1> DEFINE s0 == NewStreamState(r.subscribe = {} /\ ~r.star, r.initial)
             s1 == Subscribe(s0, r.subscribe, r.star)
             s2 == Unsubscribe(s1, r.unsubscribe, r.unstar)
  <1>2. s0.wildcard = st.wildcard /\ s0.subscribed = {} /\ s0.versions = st.content
    <2>1. s0.subscribed = {} /\ s0.versions = st.content /\ s0.wildcard = (r.subscribe = {} /\ ~r.star)
      BY <1>1 DEF NewStreamState
    <2>2. st.wildcard \in BOOLEAN
      BY DEF ClientStates
    <2> QED
      BY <1>1, <2>1, <2>2
  <1> DEFINE R == [wildcard : BOOLEAN, subscribed : SUBSET Names, versions : {st.content}, first : {TRUE}]
  <1>3. s0 \in R
    BY <1>1 DEF NewStreamState
  <1> HIDE DEF s0
  <1>4. /\ s1 = [s0 EXCEPT !.subscribed = @ \cup st.names, !.wildcard = @ \/ FALSE]
        /\ s1.versions = s0.versions /\ s1.subscribed = s0.subscribed \cup st.names
        /\ s1.wildcard = (s0.wildcard \/ FALSE)
    BY <1>1, <1>3 DEF Subscribe
  <1>5. s1.subscribed = st.names /\ s1.versions = st.content /\ s1.wildcard = (st.wildcard \/ FALSE)
    BY <1>2, <1>4
  <1>6. s1.wildcard = st.wildcard
    <2>1. st.wildcard \in BOOLEAN
      BY DEF ClientStates
    <2> QED
      BY <1>5, <2>1
  <1>6a. s1 \in R
    <2>1. st.names \in SUBSET Names
      BY DEF ClientStates
    <2>2. s0.wildcard \in BOOLEAN
      BY <1>3
    <2> QED
      BY <1>3, <1>4, <2>1, <2>2
  <1> HIDE DEF s1
  <1>7. PICK D \in SUBSET Names : st.content \in [D -> Hashes]
    BY DEF ClientStates, ResourceMaps, Maps
  <1> DEFINE versions == [n \in DOMAIN s1.versions \cup {} |-> IF n \in {} THEN NoHash ELSE s1.versions[n]]
  <1>8. versions = st.content
    BY <1>5, <1>7
  <1>9. s2 = [s1 EXCEPT !.versions = versions, !.subscribed = @ \ r.unsubscribe,
                        !.wildcard = @ /\ ~r.unstar]
    BY <1>1 DEF Unsubscribe
  <1> HIDE DEF versions
  <1>10. s2.versions = versions /\ s2.subscribed = s1.subscribed \ r.unsubscribe
         /\ s2.wildcard = (s1.wildcard /\ ~r.unstar)
    BY <1>6a, <1>9
  <1>11. s2.wildcard = st.wildcard
    <2>1. st.wildcard \in BOOLEAN
      BY DEF ClientStates
    <2> QED
      BY <1>1, <1>6, <1>10, <2>1
  <1> QED
    BY <1>1, <1>5, <1>8, <1>10, <1>11 DEF Agrees, Subscriber, Subscribed, s0, s1

\* A request without names changes nothing of a state.
LEMMA SubscribedPlain ==
    ASSUME NEW st, NEW t, NEW state \in StreamStates, Agrees(state, st)
    PROVE  Agrees(Subscribed(state, Plain(t)), st)
  <1> DEFINE r == Plain(t)
             s1 == Subscribe(state, r.subscribe, r.star)
             s2 == Unsubscribe(s1, r.unsubscribe, r.unstar)
  <1>1. r.subscribe = {} /\ r.star = FALSE /\ r.unsubscribe = {} /\ r.unstar = FALSE
    BY DEF Plain
  <1>2. state.wildcard \in BOOLEAN
    BY DEF StreamStates
  <1>3. /\ s1 = [state EXCEPT !.subscribed = @ \cup {}, !.wildcard = @ \/ FALSE]
        /\ s1.versions = state.versions /\ s1.subscribed = state.subscribed
        /\ s1.wildcard = (state.wildcard \/ FALSE)
    BY <1>1 DEF Subscribe, StreamStates
  <1>4. s1 \in StreamStates
    BY <1>2, <1>3 DEF StreamStates
  <1>5. s1.wildcard = state.wildcard
    BY <1>2, <1>3
  <1> HIDE DEF s1
  <1>6. PICK D \in SUBSET Names : state.versions \in [D -> Hashes \cup {NoHash}]
    BY DEF StreamStates, VersionMaps, Maps
  <1> DEFINE versions == [n \in DOMAIN s1.versions \cup {} |-> IF n \in {} THEN NoHash ELSE s1.versions[n]]
  <1>7. versions = state.versions
    BY <1>3, <1>6
  <1>8. s2 = [s1 EXCEPT !.versions = versions, !.subscribed = @ \ r.unsubscribe,
                        !.wildcard = @ /\ ~r.unstar]
    BY <1>1 DEF Unsubscribe
  <1> HIDE DEF versions
  <1>9. s2.versions = versions /\ s2.subscribed = s1.subscribed \ r.unsubscribe
        /\ s2.wildcard = (s1.wildcard /\ ~r.unstar)
    BY <1>4, <1>8 DEF StreamStates
  <1>10. s2.wildcard = state.wildcard
    BY <1>1, <1>2, <1>5, <1>9
  <1> QED
    BY <1>1, <1>3, <1>7, <1>9, <1>10 DEF Agrees, Subscriber, Subscribed, s1

\* A client that takes the response holds its resources, none out of scope.
Taken(d, st) ==
    LET applied == Apply(st.content, d)
    IN  IF st.wildcard THEN applied ELSE Restrict(applied, DOMAIN applied \cap st.names)

\* A client that takes a response that leads it has what the response leads to.
LEMMA TakenLeads ==
    ASSUME NEW st \in ClientStates, NEW d \in DeltaResponses, Leads(d, st),
           DOMAIN st.content \subseteq Wanted(st)
    PROVE  /\ DOMAIN Taken(d, st) \subseteq Wanted(st)
           /\ st.rejected \/ Taken(d, st) = d.next
  <1> DEFINE applied == Apply(st.content, d)
  <1>1. DOMAIN applied = (DOMAIN st.content \ d.removed) \cup DOMAIN d.resources
    BY DEF Apply
  <1>2. DOMAIN d.resources \subseteq Wanted(st)
    BY DEF Leads
  <1>3. DOMAIN applied \subseteq Wanted(st)
    BY <1>1, <1>2
  <1> HIDE DEF applied
  <1>4. Taken(d, st) = IF st.wildcard THEN applied ELSE [x \in DOMAIN applied \cap st.names |-> applied[x]]
    BY DEF Taken, Restrict, applied
  <1>5. DOMAIN Taken(d, st) \subseteq Wanted(st)
    BY <1>3, <1>4 DEF Wanted
  <1>6. st.rejected \/ Taken(d, st) = d.next
    <2> SUFFICES ASSUME ~st.rejected PROVE Taken(d, st) = d.next
      OBVIOUS
    <2>1. applied = d.next
      BY DEF Leads, applied
    <2>2. PICK D \in SUBSET Names : d.next \in [D -> Hashes]
      BY DEF DeltaResponses, ResourceMaps, Maps
    <2>3. CASE st.wildcard
      BY <1>4, <2>1, <2>3
    <2>4. CASE ~st.wildcard
      <3>1. DOMAIN applied \cap st.names = D
        BY <1>3, <2>1, <2>2, <2>4 DEF Wanted
      <3> QED
        BY <1>4, <2>1, <2>2, <2>4, <3>1
    <2> QED
      BY <2>3, <2>4
  <1> QED
    BY <1>5, <1>6

----------------------------------------------------------------------------
(* A token that a step leaves alone                                        *)

Untouched(n, s, t) ==
    /\ client'[n][t] = client[n][t] /\ watching'[s][t] = watching[s][t]
    /\ OpenDeltaOn(s, t)' = OpenDeltaOn(s, t) \/ (Clearing /\ OpenDeltaOn(s, t)' = {})
    /\ Same(toServer'[s], toServer[s], t) /\ Same(toClient'[s], toClient[s], t)
    /\ Same(deltaResponses'[s], deltaResponses[s], t)
    /\ InHand(s, t)' <=> InHand(s, t)
    /\ InHand(s, t) => (pc'[s] = "create" <=> pc[s] = "create") /\ current'[s] = current[s]

\* A token that a step does not touch stays where it is, and is what it was.
LEMMA TokenKept ==
    ASSUME NEW n, NEW s, NEW t, Token(s, t, watching[s][t], client[n][t]), Untouched(n, s, t),
           sets \in Nat, sets' \in Nat, sets <= sets'
    PROVE  Token(s, t, watching[s][t], client[n][t])'
  <1> DEFINE w == watching[s][t]
             st == client[n][t]
  <1>1. ASSUME NEW place, Only(s, t, place) PROVE Only(s, t, place)'
    BY <1>1 DEF Only, Same, Untouched
  <1>2. ASSUME NEW d, Leads(d, st) PROVE Leads(d, st)'
    BY <1>2 DEF Leads, Untouched
  <1>3. CASE Unasked(s, t, w, st)
    BY <1>1, <1>3 DEF Unasked, Token, Untouched
  <1>4. CASE Requested(s, t, w, st)
    BY <1>1, <1>4 DEF Requested, Token, Same, Untouched
  <1>5. CASE Handled(s, t, w, st)
    BY <1>1, <1>5 DEF Handled, Token, Untouched
  <1>6. CASE Watched(s, t, w, st)
    BY <1>1, <1>6 DEF Watched, Token, Untouched
  <1>7. CASE Buffered(s, t, w, st)
    BY <1>1, <1>2, <1>7 DEF Buffered, Token, Same, Untouched
  <1>8. CASE Sent(s, t, w, st)
    BY <1>1, <1>2, <1>8 DEF Sent, Token, Same, Untouched
  <1> QED
    BY <1>3, <1>4, <1>5, <1>6, <1>7, <1>8 DEF Token

\* Nothing happens on the stream, but maybe to its watches.
StreamStays(s) ==
    /\ toServer'[s] = toServer[s] /\ toClient'[s] = toClient[s]
    /\ deltaResponses'[s] = deltaResponses[s]
    /\ pc'[s] = pc[s] /\ current'[s] = current[s]

\* A step that leaves a stream alone, maybe clearing its watches, does not touch it.
LEMMA StaysUntouched ==
    ASSUME NEW n, NEW s, NEW t, StreamStays(s), client'[n][t] = client[n][t],
           watching'[s][t] = watching[s][t],
           OpenDeltaOn(s, t)' = OpenDeltaOn(s, t) \/ (Clearing /\ OpenDeltaOn(s, t)' = {})
    PROVE  Untouched(n, s, t)
  BY SameRefl DEF Untouched, StreamStays, InHand

\* Where the token is.
LEMMA WhenRequested ==
    ASSUME NEW s, NEW t, NEW w, NEW st, Token(s, t, w, st), ~Without(toServer[s], t)
    PROVE  Requested(s, t, w, st)
  BY DEF Token, Unasked, Handled, Watched, Buffered, Sent, Only

LEMMA WhenHandled ==
    ASSUME NEW s, NEW t, NEW w, NEW st, Token(s, t, w, st), InHand(s, t)
    PROVE  Handled(s, t, w, st)
  BY DEF Token, Unasked, Requested, Watched, Buffered, Sent, Only

LEMMA WhenWatched ==
    ASSUME NEW s, NEW t, NEW w, NEW st, Token(s, t, w, st), OpenDeltaOn(s, t) # {}
    PROVE  Watched(s, t, w, st)
  BY DEF Token, Unasked, Requested, Handled, Buffered, Sent, Only

LEMMA WhenBuffered ==
    ASSUME NEW s, NEW t, NEW w, NEW st, Token(s, t, w, st), ~Without(deltaResponses[s], t)
    PROVE  Buffered(s, t, w, st)
  BY DEF Token, Unasked, Requested, Handled, Watched, Sent, Only

LEMMA WhenSent ==
    ASSUME NEW s, NEW t, NEW w, NEW st, Token(s, t, w, st), ~Without(toClient[s], t)
    PROVE  Sent(s, t, w, st)
  BY DEF Token, Unasked, Requested, Handled, Watched, Buffered, Only

LEMMA WhenUnasked ==
    ASSUME NEW s, NEW t, NEW w, NEW st, Token(s, t, w, st), ~st.asked
    PROVE  Unasked(s, t, w, st)
  BY DEF Token, Requested, Handled, Watched, Buffered, Sent

----------------------------------------------------------------------------
(* The steps of the cache                                                  *)

\* What the cache and its caller do to watches and channels is seen by the
\* tokens of connected streams only.
LEMMA KeepsRest ==
    ASSUME ServerInv, StreamInv, HoldingInv, sets' \in Nat, sets <= sets',
           UNCHANGED <<client, conn, live, toServer, toClient>>,
           \A s \in Streams : pc'[s] = pc[s] /\ deltaResponses'[s] = deltaResponses[s],
           \A s \in Streams, t \in Types : watching'[s][t] = watching[s][t]
    PROVE  StreamInv' /\ HoldingInv'
  <1>1. ASSUME NEW n \in Nodes, NEW t \in Types PROVE client[n][t].at \in Nat
    BY DEF ServerInv, TypeOK
  <1>2. sets \in Nat
    BY DEF ServerInv, TypeOK, CacheTypeOK
  <1>3. StreamInv'
    BY DEF StreamInv
  <1>4. HoldingInv'
    BY <1>1, <1>2 DEF HoldingInv, Wanted
  <1> QED
    BY <1>3, <1>4

\* Steps of the cache that answer no delta watch: they leave watches open, or clear
\* those of a node.
LEMMA CacheQuiet ==
    ASSUME CacheActs, ~\E w \in deltaTodo : RespondDeltaWatch(w), sets \in Nat
    PROVE  /\ UNCHANGED <<serverVars, linkVars, clientVars, deltaResponses>>
           /\ sets' \in Nat /\ sets <= sets'
           /\ \/ UNCHANGED deltaWatches
              \/ Clearing /\ \E n \in Nodes : deltaWatches' = {w \in deltaWatches : w.node # n}
  <1>1. UNCHANGED <<serverVars, linkVars, clientVars>>
    BY DEF CacheActs
  <1> DEFINE P == /\ UNCHANGED deltaResponses /\ sets' \in Nat /\ sets <= sets'
                  /\ \/ UNCHANGED deltaWatches
                     \/ Clearing /\ \E n \in Nodes : deltaWatches' = {w \in deltaWatches : w.node # n}
  <1>2. ASSUME NEW n \in Nodes, NEW s, SetSnapshot(n, s) PROVE P
    <2>1. UNCHANGED deltaVars /\ sets' = sets + 1
      BY <1>2 DEF SetSnapshot
    <2> QED
      BY <2>1 DEF deltaVars
  <1>3. ASSUME UNCHANGED <<deltaVars, setVars>> PROVE P
    BY <1>3 DEF deltaVars, setVars
  <1>4. ASSUME NEW w, RespondWatch(w) \/ SendHeartbeat(w) \/ LoseHeartbeat(w) PROVE UNCHANGED <<deltaVars, setVars>>
    BY <1>4 DEF RespondWatch, SendHeartbeat, LoseHeartbeat
  <1>5. ASSUME NEW n \in Nodes, AbortSetSnapshot(n) PROVE P
    BY <1>5 DEF AbortSetSnapshot, deltaVars
  <1>6. ASSUME NEW n \in Nodes, ClearSnapshot(n) PROVE P
    BY <1>6 DEF ClearSnapshot
  <1>7. ASSUME HeartbeatTick \/ CancelHeartbeats \/ StopHeartbeats PROVE UNCHANGED <<deltaVars, setVars>>
    BY <1>7 DEF HeartbeatTick, CancelHeartbeats, StopHeartbeats
  <1>8. P
    <2> HIDE DEF P
    <2> QED
      BY <1>2, <1>3, <1>4, <1>5, <1>6, <1>7 DEF CacheActs, CacheStep
  <1> QED
    BY <1>1, <1>8

\* SetSnapshot, ClearSnapshot and an error leave tokens in their place.
LEMMA CacheTokens ==
    ASSUME ConvergeInv, CacheActs, ~\E w \in deltaTodo : RespondDeltaWatch(w)
    PROVE  StreamInv' /\ HoldingInv' /\ TokenInv'
  <1>1. ServerInv /\ StreamInv /\ HoldingInv /\ TokenInv /\ TypeOK /\ WatchInv
    BY DEF ConvergeInv, ServerInv
  <1>2. sets \in Nat /\ deltaWatches \subseteq DeltaWatches
    BY <1>1 DEF TypeOK, CacheTypeOK
  <1>3. /\ UNCHANGED <<serverVars, linkVars, clientVars, deltaResponses>>
        /\ sets' \in Nat /\ sets <= sets'
        /\ \/ UNCHANGED deltaWatches
           \/ Clearing /\ \E n \in Nodes : deltaWatches' = {w \in deltaWatches : w.node # n}
    BY <1>2, CacheQuiet
  <1>4. StreamInv' /\ HoldingInv'
    BY <1>1, <1>3, KeepsRest DEF serverVars, linkVars, clientVars
  <1>5. ASSUME NEW s \in Streams, NEW t \in Types
        PROVE  OpenDeltaOn(s, t)' = OpenDeltaOn(s, t) \/ (Clearing /\ OpenDeltaOn(s, t)' = {})
    <2>1. CASE UNCHANGED deltaWatches
      BY <2>1 DEF OpenDeltaOn
    <2>2. ASSUME NEW n \in Nodes, deltaWatches' = {w \in deltaWatches : w.node # n}, Clearing
          PROVE  OpenDeltaOn(s, t)' = OpenDeltaOn(s, t) \/ (Clearing /\ OpenDeltaOn(s, t)' = {})
      <3>1. \A w \in OpenDeltaOn(s, t) : w.node = StreamNode[s]
        BY <1>1 DEF WatchInv, OpenDeltaOn
      <3>2. OpenDeltaOn(s, t)' = {w \in OpenDeltaOn(s, t) : w.node # n}
        BY <2>2 DEF OpenDeltaOn
      <3>3. CASE StreamNode[s] = n
        BY <2>2, <3>1, <3>2, <3>3
      <3>4. CASE StreamNode[s] # n
        BY <3>1, <3>2, <3>4
      <3> QED
        BY <3>3, <3>4
    <2> QED
      BY <1>3, <2>1, <2>2
  <1>6. ASSUME NEW n \in Nodes, NEW s \in Streams, NEW t \in Types, conn'[n] # NoStream, conn'[n] = s
        PROVE  Token(s, t, watching[s][t], client[n][t])'
    <2>1. Token(s, t, watching[s][t], client[n][t])
      BY <1>1, <1>3, <1>6 DEF TokenInv, clientVars
    <2>2. StreamStays(s) /\ client'[n][t] = client[n][t] /\ watching'[s][t] = watching[s][t]
      BY <1>3 DEF StreamStays, serverVars, linkVars, clientVars
    <2>3. Untouched(n, s, t)
      BY <1>5, <2>2, StaysUntouched
    <2> QED
      BY <1>2, <1>3, <2>1, <2>3, TokenKept
  <1> QED
    BY <1>4, <1>6 DEF TokenInv

\* A response is made from a state that agrees with the client, and put into the
\* channel.
LEMMA ResponseBuffered ==
    ASSUME TypeOK, HoldingInv, NEW n \in Nodes, NEW s \in Streams, NEW t \in Types, NEW d,
           NEW state \in StreamStates, Exists(n), Agrees(state, client[n][t]),
           d = [type |-> t, resources |-> createDeltaResponse(state, SnapshotResources(n, t)).resources,
                removed |-> createDeltaResponse(state, SnapshotResources(n, t)).removed,
                next |-> createDeltaResponse(state, SnapshotResources(n, t)).next,
                at |-> sets, scope |-> Scope(state)],
           Without(deltaResponses[s], t)
    PROVE  Single(Append(deltaResponses[s], d), t, d) /\ Leads(d, client[n][t])
  <1>1. SnapshotResources(n, t) \in ResourceMaps
    <2>1. snapshots[n] \in SnapshotRecords
      BY SnapshotAssumption DEF TypeOK, CacheTypeOK, Exists
    <2> QED
      BY <2>1 DEF SnapshotRecords, SnapshotResources
  <1>2. client[n][t] \in ClientStates /\ sets \in Nat /\ deltaResponses[s] \in Seq(DeltaResponses)
    BY TypeParts, ChannelAssumption DEF ClientTypeOK, CacheTypeOK
  <1>3. DOMAIN client[n][t].content \subseteq Wanted(client[n][t]) /\ client[n][t].at <= sets
    BY DEF HoldingInv
  <1>4. /\ d.type = t /\ d.resources = createDeltaResponse(state, SnapshotResources(n, t)).resources
        /\ d.removed = createDeltaResponse(state, SnapshotResources(n, t)).removed
        /\ d.next = createDeltaResponse(state, SnapshotResources(n, t)).next
        /\ d.at = sets /\ d.scope = Scope(state)
    OBVIOUS
  <1>5. Leads(d, client[n][t])
    BY <1>1, <1>2, <1>3, <1>4, ResponseLeads
  <1>6. Single(Append(deltaResponses[s], d), t, d)
    BY <1>2, <1>4, AppendSame
  <1> QED
    BY <1>5, <1>6

\* A response of another type is put into the channel, or taken from it.
LEMMA OtherBuffered ==
    ASSUME TypeOK, NEW s \in Streams, NEW t, NEW d, d.type # t
    PROVE  Same(Append(deltaResponses[s], d), deltaResponses[s], t)
  <1>1. deltaResponses[s] \in Seq(DeltaResponses)
    BY ChannelAssumption DEF TypeOK, CacheTypeOK
  <1> QED
    BY <1>1, AppendOther

\* SetSnapshot answers a watch: the token moves from the cache to the channel.
LEMMA RespondTokens ==
    ASSUME ConvergeInv, NEW w \in deltaTodo, RespondDeltaWatch(w),
           UNCHANGED <<serverVars, linkVars, clientVars>>
    PROVE  StreamInv' /\ HoldingInv' /\ TokenInv'
  <1> DEFINE c == w.chan
             u == w.type
             r == createDeltaResponse(w.state, SnapshotResources(w.node, w.type))
             d == [type |-> w.type, resources |-> r.resources, removed |-> r.removed, next |-> r.next,
                   at |-> sets, scope |-> Scope(w.state)]
  <1>1. ServerInv /\ StreamInv /\ HoldingInv /\ TokenInv /\ TypeOK /\ WatchInv /\ BufferInv /\ LockDiscipline
    BY DEF ConvergeInv, ServerInv
  <1>2. /\ w \in deltaWatches /\ c \in Streams /\ u \in Types /\ w.state \in StreamStates
        /\ sets \in Nat /\ sets <= sets /\ deltaResponses \in [Streams -> Seq(DeltaResponses)]
    BY <1>1, ChannelAssumption DEF TypeOK, CacheTypeOK, DeltaWatches
  <1>3. /\ deltaResponses' = [deltaResponses EXCEPT ![c] = Append(@, d)]
        /\ deltaWatches' = deltaWatches \ {w} /\ sets' = sets /\ holder = "set"
    BY DEF RespondDeltaWatch, setVars
  <1>4. Exists(w.node) /\ w.node = StreamNode[c]
    BY <1>1, <1>2, <1>3 DEF LockDiscipline, WatchInv
  <1>4a. d.type = u
    OBVIOUS
  <1>4b. deltaResponses'[c] = Append(deltaResponses[c], d)
         /\ \A s \in Streams : s # c => deltaResponses'[s] = deltaResponses[s]
    BY <1>2, <1>3
  <1>4c. UNCHANGED <<pc, current, watching, client, conn, live, toServer, toClient>>
    BY DEF serverVars, linkVars, clientVars
  <1> HIDE DEF d
  <1>5. HoldingInv'
    BY <1>1, <1>3, <1>4c DEF HoldingInv, Wanted
  <1>6. pc[c] # "idle"
    BY <1>1, <1>2 DEF WatchInv, ServerInv, WatchingInv
  <1>7. StreamInv'
    <2>1. \A s \in Streams : pc[s] = "idle" => deltaResponses'[s] = deltaResponses[s]
      BY <1>6, <1>4b
    <2> QED
      BY <1>1, <1>4c, <2>1 DEF StreamInv
  <1>8. ASSUME NEW n \in Nodes, NEW s \in Streams, NEW t \in Types, conn'[n] # NoStream, conn'[n] = s
        PROVE  Token(s, t, watching[s][t], client[n][t])'
    <2>1. Token(s, t, watching[s][t], client[n][t]) /\ StreamNode[s] = n
      BY <1>1, <1>4c, <1>8 DEF TokenInv, StreamInv
    <2>2. CASE s # c \/ t # u
      <3>1. OpenDeltaOn(s, t)' = OpenDeltaOn(s, t)
        BY <1>3, <2>2 DEF OpenDeltaOn
      <3>2. Same(deltaResponses'[s], deltaResponses[s], t)
        <4>1. CASE s # c
          BY <1>4b, <4>1, SameRefl
        <4>2. CASE s = c
          BY <1>1, <1>4a, <1>4b, <2>2, <4>2, OtherBuffered
        <4> QED
          BY <4>1, <4>2
      <3>3. Untouched(n, s, t)
        BY <1>4c, <3>1, <3>2, SameRefl DEF Untouched, InHand
      <3> QED
        BY <1>2, <1>3, <2>1, <3>3, TokenKept
    <2>3. CASE s = c /\ t = u
      <3>1. w \in OpenDeltaOn(s, t) /\ OpenDeltaOn(s, t)' = {}
        BY <1>1, <1>2, <1>3, <2>3 DEF OpenDeltaOn, BufferInv, BufferOn
      <3>2. Watched(s, t, watching[s][t], client[n][t])
        BY <2>1, <3>1, WhenWatched
      <3>3. w.state = watching[s][t].state /\ Agrees(w.state, client[n][t])
        BY <3>1, <3>2 DEF Watched
      <3>4. Without(deltaResponses[s], t)
        BY <3>2 DEF Watched, Only
      <3>5. w.node = n
        BY <1>4, <2>1, <2>3
      <3>6. Single(Append(deltaResponses[s], d), t, d) /\ Leads(d, client[n][t])
        BY <1>1, <1>2, <1>4, <2>3, <3>3, <3>4, <3>5, ResponseBuffered DEF d
      <3>7. PICK e : Single(deltaResponses'[s], t, e) /\ Leads(e, client[n][t])
        BY <1>4b, <2>3, <3>6
      <3>8. Leads(e, client[n][t])'
        BY <1>3, <1>4c, <3>7 DEF Leads
      <3>9. Only(s, t, "channel")'
        BY <1>4c, <3>1, <3>2 DEF Watched, Only, InHand
      <3>10. Buffered(s, t, watching[s][t], client[n][t])'
        BY <1>4c, <3>2, <3>3, <3>7, <3>8, <3>9 DEF Buffered, Watched, Agrees
      <3> QED
        BY <3>10 DEF Token
    <2> QED
      BY <2>2, <2>3
  <1> QED
    BY <1>5, <1>7, <1>8 DEF TokenInv

----------------------------------------------------------------------------
(* The steps of the loop                                                   *)

\* The loop sends a response and records it: the token moves to the wire.
LEMMA ProcessTokens ==
    ASSUME ConvergeInv, NEW c \in Streams, deltaResponses[c] # <<>>, Process(c),
           pc[c] \in {"select", "drain"},
           UNCHANGED <<pc, current, live, toServer, clientVars>>
    PROVE  StreamInv' /\ HoldingInv' /\ TokenInv'
  <1> DEFINE d == Head(deltaResponses[c])
             u == d.type
             w == watching[c][u]
             w2 == [w EXCEPT !.state = SetResourceVersions(@, d.next)]
  <1>1. ServerInv /\ StreamInv /\ HoldingInv /\ TokenInv /\ TypeOK
    BY DEF ConvergeInv, ServerInv
  <1>2. /\ d \in DeltaResponses /\ u \in Types /\ sets \in Nat /\ sets <= sets
        /\ deltaResponses \in [Streams -> Seq(DeltaResponses)]
        /\ toClient \in [Streams -> Seq(DeltaResponses)]
        /\ watching \in [Streams -> [Types -> Watchings]]
    BY <1>1, HeadTyped, TypeParts, ChannelAssumption DEF CacheTypeOK, LinkTypeOK, LoopTypeOK
  <1>3. /\ deltaResponses' = [deltaResponses EXCEPT ![c] = Tail(@)]
        /\ toClient' = [toClient EXCEPT ![c] = IF live[c] THEN Append(@, d) ELSE @]
        /\ watching' = [watching EXCEPT ![c][u] = w2]
        /\ UNCHANGED <<deltaWatches, sets, snapshots>>
    BY DEF Process, setVars
  <1>4. UNCHANGED <<client, conn>>
    BY DEF clientVars
  <1> HIDE DEF d
  <1>5. w \in Watchings
    BY <1>2
  <1>6. /\ w2.active = w.active /\ w2.cancel = w.cancel
        /\ w2.state.versions = d.next /\ w2.state.wildcard = w.state.wildcard
        /\ w2.state.subscribed = w.state.subscribed
    BY <1>5 DEF Watchings, StreamStates, SetResourceVersions
  <1> HIDE DEF w2
  <1>7. /\ watching'[c][u] = w2
        /\ \A s \in Streams, t \in Types : s # c \/ t # u => watching'[s][t] = watching[s][t]
        /\ deltaResponses'[c] = Tail(deltaResponses[c])
        /\ toClient'[c] = IF live[c] THEN Append(toClient[c], d) ELSE toClient[c]
        /\ \A s \in Streams : s # c => /\ deltaResponses'[s] = deltaResponses[s]
                                       /\ toClient'[s] = toClient[s]
    BY <1>2, <1>3
  <1>8. \A s \in Streams, t \in Types : /\ watching'[s][t].cancel = watching[s][t].cancel
                                        /\ watching'[s][t].active = watching[s][t].active
    BY <1>6, <1>7
  <1>9. HoldingInv'
    BY <1>1, <1>3, <1>4 DEF HoldingInv, Wanted
  <1>10. StreamInv'
    <2>1. \A s \in Streams : pc[s] = "idle" => s # c
      OBVIOUS
    <2> QED
      BY <1>1, <1>4, <1>7, <1>8, <2>1 DEF StreamInv
  <1>11. ASSUME NEW n \in Nodes, NEW s \in Streams, NEW t \in Types, conn'[n] # NoStream, conn'[n] = s
        PROVE  Token(s, t, watching[s][t], client[n][t])'
    <2>1. Token(s, t, watching[s][t], client[n][t]) /\ live[s]
      BY <1>1, <1>4, <1>11 DEF TokenInv, StreamInv
    <2>2. OpenDeltaOn(s, t)' = OpenDeltaOn(s, t) /\ (InHand(s, t)' <=> InHand(s, t))
      BY <1>3 DEF OpenDeltaOn, InHand
    <2>3. CASE s # c \/ t # u
      <3>1. Same(deltaResponses'[s], deltaResponses[s], t) /\ Same(toClient'[s], toClient[s], t)
        <4>1. CASE s # c
          BY <1>7, <4>1, SameRefl
        <4>2. CASE s = c
          <5>1. deltaResponses[c] \in Seq(DeltaResponses) /\ toClient[c] \in Seq(DeltaResponses)
            BY <1>2
          <5> QED
            BY <1>7, <2>1, <2>3, <4>2, <5>1, TailOther, AppendOther DEF d
        <4> QED
          BY <4>1, <4>2
      <3>2. Untouched(n, s, t)
        BY <1>4, <1>7, <2>2, <2>3, <3>1, SameRefl DEF Untouched
      <3> QED
        BY <1>2, <1>3, <2>1, <3>2, TokenKept
    <2>4. CASE s = c /\ t = u
      <3>0. deltaResponses[c] \in Seq(DeltaResponses) /\ toClient[c] \in Seq(DeltaResponses)
        BY <1>2
      <3>1. ~Without(deltaResponses[s], t)
        BY <2>4, <3>0, HeadOf DEF d
      <3>2. Buffered(s, t, watching[s][t], client[n][t])
        BY <2>1, <3>1, WhenBuffered
      <3>3. PICK e : Single(deltaResponses[s], t, e) /\ Leads(e, client[n][t])
        BY <3>2 DEF Buffered
      <3>4. e = d /\ Without(deltaResponses'[s], t)
        BY <1>7, <2>4, <3>0, <3>3, TailSame DEF d
      <3>5. Without(toClient[s], t)
        BY <3>2 DEF Buffered, Only
      <3>6. Single(toClient'[s], t, d)
        BY <1>7, <2>1, <2>4, <3>0, <3>5, AppendSame
      <3>7. Leads(e, client[n][t])'
        BY <1>3, <1>4, <3>3 DEF Leads
      <3>8. Only(s, t, "wire")'
        BY <2>2, <3>2, <3>4 DEF Buffered, Only
      <3>9. /\ watching'[s][t].active /\ Subscriber(watching'[s][t].state, client[n][t])
            /\ watching'[s][t].state.versions = d.next
        BY <1>6, <1>7, <2>4, <3>2 DEF Buffered, Subscriber
      <3>10. Sent(s, t, watching[s][t], client[n][t])'
        BY <1>4, <3>2, <3>4, <3>6, <3>7, <3>8, <3>9 DEF Sent, Buffered, Subscriber
      <3> QED
        BY <3>10 DEF Token
    <2> QED
      BY <2>3, <2>4
  <1> QED
    BY <1>9, <1>10, <1>11 DEF TokenInv

\* Steps of a stream that leave cache, clients and wires alone, but maybe for the
\* requests of the stream and its watches.
LEMMA LoopRest ==
    ASSUME ConvergeInv, NEW c \in Streams, pc[c] # "idle",
           pc'[c] \in {"select", "drain", "cancel", "create"} \/ \A n \in Nodes : conn[n] = c => conn[n] = NoStream,
           pc'[c] # "idle",
           \A s \in Streams : s # c => pc'[s] = pc[s] /\ toServer'[s] = toServer[s]
                                       /\ deltaResponses'[s] = deltaResponses[s],
           UNCHANGED <<client, conn, live, toClient, sets>>,
           \A s \in Streams, t \in Types : s # c => watching'[s][t] = watching[s][t],
           \A s, x \in Streams, t, u \in Types :
              watching'[s][t].cancel = watching'[x][u].cancel /\ watching'[s][t].cancel # 0
                => s = x /\ t = u
    PROVE  StreamInv' /\ HoldingInv'
  <1>1. StreamInv /\ HoldingInv
    BY DEF ConvergeInv
  <1>2. HoldingInv'
    BY <1>1 DEF HoldingInv, Wanted
  <1>3. ASSUME NEW n \in Nodes, NEW s \in Streams, conn'[n] # NoStream, conn'[n] = s
        PROVE  StreamNode[s] = n /\ live'[s] /\ pc'[s] \notin {"idle", "closing", "closed"}
    <2>1. StreamNode[s] = n /\ live[s] /\ pc[s] \notin {"idle", "closing", "closed"}
      BY <1>1, <1>3 DEF StreamInv
    <2> QED
      BY <1>3, <2>1
  <1>4. ASSUME NEW s \in Streams, pc'[s] = "idle"
        PROVE  /\ toServer'[s] = <<>> /\ toClient'[s] = <<>> /\ deltaResponses'[s] = <<>>
               /\ \A t \in Types : ~watching'[s][t].active
    <2>1. s # c /\ pc[s] = "idle"
      BY <1>4
    <2> QED
      BY <1>1, <2>1 DEF StreamInv
  <1>5. StreamInv'
    BY <1>3, <1>4 DEF StreamInv
  <1> QED
    BY <1>2, <1>5

\* The loop receives a request: the token is in its hands.
LEMMA RecvTokens ==
    ASSUME ConvergeInv, NEW c \in Streams, RecvRequest(c)
    PROVE  StreamInv' /\ HoldingInv' /\ TokenInv'
  <1> DEFINE r == Head(toServer[c])
             u == r.type
  <1>1. ServerInv /\ StreamInv /\ HoldingInv /\ TokenInv /\ TypeOK
    BY DEF ConvergeInv, ServerInv
  <1>2. /\ sets \in Nat /\ sets <= sets /\ toServer[c] \in Seq(DeltaDiscoveryRequests)
        /\ pc \in [Streams -> {"idle", "select", "drain", "cancel", "create", "closing", "closed"}]
        /\ toServer \in [Streams -> Seq(DeltaDiscoveryRequests)] /\ DOMAIN current = Streams
    BY <1>1 DEF TypeOK, CacheTypeOK
  <1>3. /\ pc[c] = "select" /\ toServer[c] # <<>>
        /\ current' = [current EXCEPT ![c] = r] /\ toServer' = [toServer EXCEPT ![c] = Tail(@)]
        /\ pc' = [pc EXCEPT ![c] = "drain"]
        /\ UNCHANGED <<cacheVars, watching, live, toClient, client, conn>>
    BY DEF RecvRequest, clientVars
  <1> HIDE DEF r
  <1>4. UNCHANGED <<deltaWatches, deltaResponses, sets>>
    BY <1>3 DEF cacheVars, deltaVars, setVars
  <1>5. /\ current'[c] = r /\ toServer'[c] = Tail(toServer[c]) /\ pc'[c] = "drain"
        /\ \A s \in Streams : s # c => current'[s] = current[s] /\ toServer'[s] = toServer[s] /\ pc'[s] = pc[s]
    BY <1>2, <1>3
  <1>6. \A s, x \in Streams, t, v \in Types :
              watching'[s][t].cancel = watching'[x][v].cancel /\ watching'[s][t].cancel # 0
                => s = x /\ t = v
    BY <1>1, <1>3 DEF StreamInv
  <1>7. StreamInv' /\ HoldingInv'
    BY <1>3, <1>4, <1>5, <1>6, LoopRest
  <1>8. ASSUME NEW n \in Nodes, NEW s \in Streams, NEW t \in Types, conn'[n] # NoStream, conn'[n] = s
        PROVE  Token(s, t, watching[s][t], client[n][t])'
    <2>1. Token(s, t, watching[s][t], client[n][t])
      BY <1>1, <1>3, <1>8 DEF TokenInv
    <2>2. OpenDeltaOn(s, t)' = OpenDeltaOn(s, t)
      BY <1>4 DEF OpenDeltaOn
    <2>3. CASE s # c
      <3>1. StreamStays(s)
        BY <1>3, <1>4, <1>5, <2>3 DEF StreamStays
      <3>2. Untouched(n, s, t)
        BY <1>3, <2>2, <3>1, StaysUntouched
      <3> QED
        BY <1>2, <1>4, <2>1, <3>2, TokenKept
    <2>4. CASE s = c /\ t # u
      <3>1. Same(toServer'[s], toServer[s], t)
        BY <1>2, <1>3, <1>5, <2>4, TailOther DEF r
      <3>2. ~InHand(s, t) /\ ~InHand(s, t)'
        BY <1>3, <1>5, <2>4 DEF InHand
      <3>3. Untouched(n, s, t)
        BY <1>3, <1>4, <2>2, <3>1, <3>2, SameRefl DEF Untouched
      <3> QED
        BY <1>2, <1>4, <2>1, <3>3, TokenKept
    <2>5. CASE s = c /\ t = u
      <3>1. ~Without(toServer[s], t)
        BY <1>2, <1>3, <2>5, HeadOf DEF r
      <3>2. Requested(s, t, watching[s][t], client[n][t])
        BY <2>1, <3>1, WhenRequested
      <3>3. PICK e : Single(toServer[s], t, e) /\ Asks(e, watching[s][t], client[n][t], t)
        BY <3>2 DEF Requested
      <3>4. e = r /\ Without(toServer'[s], t)
        <4>1. toServer[c] # <<>> /\ Head(toServer[c]).type = t /\ Single(toServer[c], t, e)
          BY <1>3, <2>5, <3>3 DEF r
        <4>2. e = Head(toServer[c]) /\ Without(Tail(toServer[c]), t)
          BY <1>2, <4>1, TailSame
        <4> QED
          BY <1>5, <2>5, <4>2 DEF r
      <3>5. InHand(s, t)' /\ pc'[s] # "create" /\ current'[s] = e
        BY <1>5, <2>5, <3>4 DEF InHand
      <3>6. Asks(current[s], watching[s][t], client[n][t], t)'
        BY <1>3, <3>3, <3>5 DEF Asks, FirstRequest, Agrees, Subscriber
      <3>7. Only(s, t, "loop")'
        BY <1>3, <1>4, <2>2, <3>2, <3>4 DEF Requested, Only
      <3>8. Handled(s, t, watching[s][t], client[n][t])'
        BY <1>3, <3>2, <3>5, <3>6, <3>7 DEF Handled, Requested
      <3> QED
        BY <3>8 DEF Token
    <2> QED
      BY <2>3, <2>4, <2>5
  <1> QED
    BY <1>7, <1>8 DEF TokenInv

\* The channel is drained, or the loop ends on a stream without a client.
LEMMA ControlTokens ==
    ASSUME ConvergeInv, NEW c \in Streams,
           (ProcessAll(c) /\ deltaResponses[c] = <<>>) \/ Exit(c) \/ CloseChannel(c)
    PROVE  StreamInv' /\ HoldingInv' /\ TokenInv'
  <1>1. ServerInv /\ StreamInv /\ HoldingInv /\ TokenInv /\ TypeOK
    BY DEF ConvergeInv, ServerInv
  <1>2. /\ sets \in Nat /\ sets <= sets
        /\ pc \in [Streams -> {"idle", "select", "drain", "cancel", "create", "closing", "closed"}]
    BY <1>1 DEF TypeOK, CacheTypeOK
  <1>3. UNCHANGED <<cacheVars, watching, current, live, toServer, toClient, clientVars>>
    BY DEF ProcessAll, Exit, CloseChannel, linkVars
  <1>4. UNCHANGED <<deltaWatches, deltaResponses, sets, client, conn>>
    BY <1>3 DEF cacheVars, deltaVars, setVars, clientVars
  <1>5. /\ \A s \in Streams : s # c => pc'[s] = pc[s]
        /\ pc[c] # "idle"
        /\ \/ pc[c] = "drain" /\ pc'[c] = "cancel"
           \/ pc'[c] \in {"closing", "closed"} /\ (~live[c] \/ pc[c] = "closing")
    BY <1>2 DEF ProcessAll, Exit, CloseChannel
  <1>6. \/ pc[c] = "drain" /\ pc'[c] = "cancel"
        \/ pc'[c] \in {"closing", "closed"} /\ \A n \in Nodes : conn[n] = c => conn[n] = NoStream
    BY <1>1, <1>5 DEF StreamInv
  <1>7. \A s, x \in Streams, t, u \in Types :
              watching'[s][t].cancel = watching'[x][u].cancel /\ watching'[s][t].cancel # 0
                => s = x /\ t = u
    BY <1>1, <1>3 DEF StreamInv
  <1>8. StreamInv' /\ HoldingInv'
    <2>1. /\ pc'[c] \in {"select", "drain", "cancel", "create"} \/ \A n \in Nodes : conn[n] = c => conn[n] = NoStream
          /\ pc'[c] # "idle"
      BY <1>6
    <2> QED
      BY <1>3, <1>4, <1>5, <1>7, <2>1, LoopRest
  <1>9. ASSUME NEW n \in Nodes, NEW s \in Streams, NEW t \in Types, conn'[n] # NoStream, conn'[n] = s
        PROVE  Token(s, t, watching[s][t], client[n][t])'
    <2>1. Token(s, t, watching[s][t], client[n][t])
      BY <1>1, <1>4, <1>9 DEF TokenInv
    <2>2. OpenDeltaOn(s, t)' = OpenDeltaOn(s, t)
      BY <1>4 DEF OpenDeltaOn
    <2>3. pc'[s] = pc[s] \/ (pc[s] = "drain" /\ pc'[s] = "cancel")
      BY <1>4, <1>5, <1>6, <1>9
    <2>4. Untouched(n, s, t)
      BY <1>3, <1>4, <2>2, <2>3, SameRefl DEF Untouched, InHand
    <2> QED
      BY <1>2, <1>4, <2>1, <2>4, TokenKept
  <1> QED
    BY <1>8, <1>9 DEF TokenInv

\* Cancelling a stream's watch of a type leaves the watches of other types and
\* streams open.
LEMMA CancelledWatches ==
    ASSUME ConvergeInv, NEW c \in Streams, NEW u \in Types,
           \/ UNCHANGED deltaWatches
           \/ /\ watching[c][u].cancel # 0
              /\ deltaWatches' = {w \in deltaWatches : ~(w.node = StreamNode[c] /\ w.id = watching[c][u].cancel)}
    PROVE  /\ OpenDeltaOn(c, u)' \subseteq OpenDeltaOn(c, u)
           /\ \A s \in Streams, t \in Types :
                 s # c \/ t # u => OpenDeltaOn(s, t)' = OpenDeltaOn(s, t)
  <1>1. StreamInv /\ WatchInv
    BY DEF ConvergeInv, ServerInv
  <1>2. CASE UNCHANGED deltaWatches
    BY <1>2 DEF OpenDeltaOn
  <1>3. CASE /\ watching[c][u].cancel # 0
             /\ deltaWatches' = {w \in deltaWatches : ~(w.node = StreamNode[c] /\ w.id = watching[c][u].cancel)}
    <2>1. ASSUME NEW s \in Streams, NEW t \in Types, s # c \/ t # u, NEW w \in OpenDeltaOn(s, t)
          PROVE  w.id # watching[c][u].cancel
      <3>1. w.id = watching[s][t].cancel
        BY <1>1, <2>1 DEF WatchInv, OpenDeltaOn
      <3> QED
        BY <1>1, <1>3, <2>1, <3>1 DEF StreamInv
    <2>2. \A s \in Streams, t \in Types :
            OpenDeltaOn(s, t)' = {w \in OpenDeltaOn(s, t) : ~(w.node = StreamNode[c] /\ w.id = watching[c][u].cancel)}
      BY <1>3 DEF OpenDeltaOn
    <2>3. ASSUME NEW s \in Streams, NEW t \in Types, s # c \/ t # u
          PROVE  OpenDeltaOn(s, t)' = OpenDeltaOn(s, t)
      BY <2>1, <2>2, <2>3
    <2> QED
      BY <2>2, <2>3
  <1> QED
    BY <1>2, <1>3

\* The request is entered into the state and the watch it supersedes cancelled;
\* there is none open, as the token is in the loop.
LEMMA CancelTokens ==
    ASSUME ConvergeInv, NEW c \in Streams, CancelPrevious(c)
    PROVE  StreamInv' /\ HoldingInv' /\ TokenInv'
  <1> DEFINE r == current[c]
             u == r.type
             w == watching[c][u]
             state == IF w.active THEN w.state ELSE NewStreamState(r.subscribe = {} /\ ~r.star, r.initial)
             w2 == [active |-> TRUE, cancel |-> w.cancel, state |-> Subscribed(state, r)]
  <1>1. ServerInv /\ StreamInv /\ HoldingInv /\ TokenInv /\ TypeOK /\ CurrentInv
    BY DEF ConvergeInv, ServerInv
  <1>2. /\ sets \in Nat /\ sets <= sets
        /\ pc \in [Streams -> {"idle", "select", "drain", "cancel", "create", "closing", "closed"}]
        /\ watching \in [Streams -> [Types -> Watchings]] /\ client \in [Nodes -> [Types -> ClientStates]]
    BY <1>1, TypeParts DEF CacheTypeOK, LoopTypeOK, ClientTypeOK
  <1>3. /\ pc[c] = "cancel" /\ pc' = [pc EXCEPT ![c] = "create"]
        /\ UNCHANGED cacheVars \/ (w.cancel # 0 /\ CancelDeltaWatch(StreamNode[c], w.cancel))
        /\ watching' = [watching EXCEPT ![c][u] = w2]
        /\ UNCHANGED <<current, live, toServer, toClient, client, conn>>
    BY DEF CancelPrevious, linkVars, clientVars
  <1>4. /\ UNCHANGED <<deltaResponses, sets>>
        /\ \/ UNCHANGED deltaWatches
           \/ /\ w.cancel # 0
              /\ deltaWatches' = {x \in deltaWatches : ~(x.node = StreamNode[c] /\ x.id = w.cancel)}
    BY <1>3 DEF cacheVars, deltaVars, setVars, CancelDeltaWatch
  <1>5. r \in DeltaDiscoveryRequests /\ u \in Types
    BY <1>1, <1>3 DEF CurrentInv, DeltaDiscoveryRequests
  <1>6. w \in Watchings /\ w2.active = TRUE /\ w2.cancel = w.cancel /\ w2.state = Subscribed(state, r)
    BY <1>2, <1>5
  <1> HIDE DEF w2, state
  <1>7. /\ pc'[c] = "create" /\ watching'[c][u] = w2
        /\ \A s \in Streams : s # c => pc'[s] = pc[s]
        /\ \A s \in Streams, t \in Types : s # c \/ t # u => watching'[s][t] = watching[s][t]
    BY <1>2, <1>3, <1>5
  <1>8. \A s \in Streams, t \in Types : watching'[s][t].cancel = watching[s][t].cancel
    BY <1>6, <1>7
  <1>9. \A s, x \in Streams, t, v \in Types :
              watching'[s][t].cancel = watching'[x][v].cancel /\ watching'[s][t].cancel # 0
                => s = x /\ t = v
    BY <1>1, <1>8 DEF StreamInv
  <1>10. StreamInv' /\ HoldingInv'
    BY <1>3, <1>4, <1>7, <1>9, LoopRest
  <1>11. \A s \in Streams, t \in Types : /\ OpenDeltaOn(s, t)' \subseteq OpenDeltaOn(s, t)
                                         /\ s # c \/ t # u => OpenDeltaOn(s, t)' = OpenDeltaOn(s, t)
    <2>1. PICK v \in Types : v = u
      BY <1>5
    <2>2. /\ OpenDeltaOn(c, v)' \subseteq OpenDeltaOn(c, v)
          /\ \A s \in Streams, t \in Types : s # c \/ t # v => OpenDeltaOn(s, t)' = OpenDeltaOn(s, t)
      BY <1>4, <2>1, CancelledWatches
    <2> QED
      BY <2>1, <2>2
  <1>12. ASSUME NEW n \in Nodes, NEW s \in Streams, NEW t \in Types, conn'[n] # NoStream, conn'[n] = s
        PROVE  Token(s, t, watching[s][t], client[n][t])'
    <2>1. Token(s, t, watching[s][t], client[n][t])
      BY <1>1, <1>3, <1>12 DEF TokenInv
    <2>2. CASE s # c
      <3>1. StreamStays(s)
        BY <1>3, <1>4, <1>7, <2>2 DEF StreamStays
      <3>2. Untouched(n, s, t)
        BY <1>3, <1>7, <1>11, <2>2, <3>1, StaysUntouched
      <3> QED
        BY <1>2, <1>4, <2>1, <3>2, TokenKept
    <2>3. CASE s = c /\ t # u
      <3>1. ~InHand(s, t) /\ ~InHand(s, t)'
        BY <1>3, <2>3 DEF InHand
      <3>2. Untouched(n, s, t)
        BY <1>3, <1>4, <1>7, <1>11, <2>3, <3>1, SameRefl DEF Untouched
      <3> QED
        BY <1>2, <1>4, <2>1, <3>2, TokenKept
    <2>4. CASE s = c /\ t = u
      <3>1. InHand(s, t) /\ pc[s] # "create"
        BY <1>3, <2>4 DEF InHand
      <3>2. Handled(s, t, watching[s][t], client[n][t])
        BY <2>1, <3>1, WhenHandled
      <3>3. Asks(r, w, client[n][t], t) /\ client[n][t].asked /\ Only(s, t, "loop")
        BY <2>4, <3>1, <3>2 DEF Handled
      <3>4. Agrees(w2.state, client[n][t])
        <4>1. CASE w.active
          <5>1. r = Plain(t) /\ Agrees(w.state, client[n][t]) /\ state = w.state /\ w.state \in StreamStates
            BY <1>6, <3>3, <4>1 DEF Asks, state, Watchings
          <5> QED
            BY <1>6, <5>1, SubscribedPlain
        <4>2. CASE ~w.active
          <5>1. r = FirstRequest(t, client[n][t])
                /\ state = NewStreamState(r.subscribe = {} /\ ~r.star, r.initial)
            BY <3>3, <4>2 DEF Asks, state
          <5>2. client[n][t] \in ClientStates /\ (client[n][t].wildcard <=> client[n][t].names = {})
            BY <1>1, <1>2 DEF HoldingInv
          <5> QED
            BY <1>6, <5>1, <5>2, SubscribedFirst
        <4> QED
          BY <4>1, <4>2
      <3>5. InHand(s, t)' /\ pc'[s] = "create"
        BY <1>3, <1>7, <2>4 DEF InHand
      <3>6. OpenDeltaOn(s, t)' = {}
        BY <1>11, <2>4, <3>3 DEF Only
      <3>7. Only(s, t, "loop")'
        BY <1>3, <1>4, <3>3, <3>6 DEF Only
      <3>8. watching'[s][t].active /\ Agrees(watching[s][t].state, client[n][t])'
        BY <1>3, <1>6, <1>7, <2>4, <3>4 DEF Agrees, Subscriber
      <3>9. Handled(s, t, watching[s][t], client[n][t])'
        BY <1>3, <3>3, <3>5, <3>7, <3>8 DEF Handled
      <3> QED
        BY <3>9 DEF Token
    <2> QED
      BY <2>2, <2>3, <2>4
  <1> QED
    BY <1>10, <1>12 DEF TokenInv

\* A loop that ends cancels watches that no client waits for.
LEMMA CloseTokens ==
    ASSUME ConvergeInv, NEW c \in Streams, NEW u \in Types, CloseWatch(c, u)
    PROVE  StreamInv' /\ HoldingInv' /\ TokenInv'
  <1>1. ServerInv /\ StreamInv /\ HoldingInv /\ TokenInv /\ TypeOK
    BY DEF ConvergeInv, ServerInv
  <1>2. sets \in Nat /\ sets <= sets /\ watching \in [Streams -> [Types -> Watchings]]
    BY <1>1, TypeParts DEF CacheTypeOK, LoopTypeOK
  <1> DEFINE w2 == [watching[c][u] EXCEPT !.cancel = 0]
  <1>3. /\ pc[c] = "closing" /\ watching[c][u].cancel # 0
        /\ watching' = [watching EXCEPT ![c][u] = w2]
        /\ deltaWatches' = {x \in deltaWatches : ~(x.node = StreamNode[c] /\ x.id = watching[c][u].cancel)}
        /\ UNCHANGED <<deltaResponses, sets, pc, current, live, toServer, toClient, client, conn>>
    BY DEF CloseWatch, CancelDeltaWatch, setVars, linkVars, clientVars
  <1>4. w2.cancel = 0
    BY <1>2 DEF Watchings
  <1> HIDE DEF w2
  <1>5. /\ watching'[c][u] = w2
        /\ \A s \in Streams, t \in Types : s # c \/ t # u => watching'[s][t] = watching[s][t]
    BY <1>2, <1>3
  <1>6. \A s, x \in Streams, t, v \in Types :
              watching'[s][t].cancel = watching'[x][v].cancel /\ watching'[s][t].cancel # 0
                => s = x /\ t = v
    BY <1>1, <1>4, <1>5 DEF StreamInv
  <1>7. \A n \in Nodes : conn[n] = c => conn[n] = NoStream
    BY <1>1, <1>3 DEF StreamInv
  <1>8. StreamInv' /\ HoldingInv'
    BY <1>3, <1>5, <1>6, <1>7, LoopRest
  <1>9. \A s \in Streams, t \in Types : s # c \/ t # u => OpenDeltaOn(s, t)' = OpenDeltaOn(s, t)
    BY <1>3, CancelledWatches
  <1>10. ASSUME NEW n \in Nodes, NEW s \in Streams, NEW t \in Types, conn'[n] # NoStream, conn'[n] = s
        PROVE  Token(s, t, watching[s][t], client[n][t])'
    <2>1. Token(s, t, watching[s][t], client[n][t])
      BY <1>1, <1>3, <1>10 DEF TokenInv
    <2>2. s # c
      BY <1>3, <1>7, <1>10
    <2>3. StreamStays(s)
      BY <1>3 DEF StreamStays
    <2>4. Untouched(n, s, t)
      BY <1>3, <1>5, <1>9, <2>2, <2>3, StaysUntouched
    <2> QED
      BY <1>2, <1>3, <2>1, <2>4, TokenKept
  <1> QED
    BY <1>8, <1>10 DEF TokenInv

\* CreateDeltaWatch: the token is in the channel, or in the cache.
LEMMA OpenTokens ==
    ASSUME ConvergeInv, NEW c \in Streams, OpenWatch(c)
    PROVE  StreamInv' /\ HoldingInv' /\ TokenInv'
  <1> DEFINE u == current[c].type
             m == StreamNode[c]
             state == watching[c][u].state
             r == createDeltaResponse(state, SnapshotResources(m, u))
             d == [type |-> u, resources |-> r.resources, removed |-> r.removed, next |-> r.next,
                   at |-> sets, scope |-> Scope(state)]
             x2 == [id |-> deltaWatchCount + 1, node |-> m, type |-> u, chan |-> c, state |-> state]
             w2 == [watching[c][u] EXCEPT !.cancel = OpenedDeltaWatch]
  <1>1. ServerInv /\ StreamInv /\ HoldingInv /\ TokenInv /\ TypeOK /\ CurrentInv /\ WatchingInv /\ WatchInv
    BY DEF ConvergeInv, ServerInv
  <1>2. /\ sets \in Nat /\ sets <= sets /\ deltaWatchCount \in Nat
        /\ pc \in [Streams -> {"idle", "select", "drain", "cancel", "create", "closing", "closed"}]
        /\ watching \in [Streams -> [Types -> Watchings]] /\ DOMAIN current = Streams
        /\ deltaResponses \in [Streams -> Seq(DeltaResponses)]
    BY <1>1, TypeParts, ChannelAssumption DEF CacheTypeOK, LoopTypeOK
  <1>3. /\ pc[c] = "create" /\ pc' = [pc EXCEPT ![c] = "select"]
        /\ watching' = [watching EXCEPT ![c][u] = w2]
        /\ current' = [current EXCEPT ![c] = NoRequest]
        /\ UNCHANGED <<sets, live, toServer, toClient, client, conn>>
    BY DEF OpenWatch, CreateDeltaWatch, setVars, linkVars, clientVars
  <1>4. \/ /\ deltaWatchCount' = deltaWatchCount + 1 /\ deltaWatches' = deltaWatches \cup {x2}
           /\ UNCHANGED deltaResponses
        \/ /\ Exists(m) /\ deltaResponses' = [deltaResponses EXCEPT ![c] = Append(@, d)]
           /\ UNCHANGED <<deltaWatches, deltaWatchCount>>
    BY DEF OpenWatch, CreateDeltaWatch
  <1>5. u \in Types /\ m \in Nodes
    BY <1>1, <1>3, StreamAssumption DEF CurrentInv, DeltaDiscoveryRequests
  <1>6. watching[c][u] \in Watchings
    BY <1>2, <1>5
  <1>7. /\ w2.active = watching[c][u].active /\ w2.state = state /\ w2.cancel = OpenedDeltaWatch
        /\ state \in StreamStates
    BY <1>6 DEF Watchings
  <1>8. w2.cancel = 0 \/ w2.cancel = deltaWatchCount + 1
    BY <1>4, <1>7 DEF OpenedDeltaWatch
  <1>9. d.type = u /\ x2.chan = c /\ x2.type = u /\ x2.state = state
    OBVIOUS
  <1> HIDE DEF w2, x2
  <1>10. /\ pc'[c] = "select" /\ watching'[c][u] = w2
         /\ \A s \in Streams : s # c => pc'[s] = pc[s] /\ current'[s] = current[s]
         /\ \A s \in Streams, t \in Types : s # c \/ t # u => watching'[s][t] = watching[s][t]
    BY <1>2, <1>3, <1>5
  <1>11. \A s, x \in Streams, t, v \in Types :
              watching'[s][t].cancel = watching'[x][v].cancel /\ watching'[s][t].cancel # 0
                => s = x /\ t = v
    <2>1. \A s \in Streams, t \in Types : watching[s][t].cancel # deltaWatchCount + 1
      <3> SUFFICES ASSUME NEW s \in Streams, NEW t \in Types PROVE watching[s][t].cancel # deltaWatchCount + 1
        OBVIOUS
      <3>1. watching[s][t].cancel \in Nat /\ watching[s][t].cancel <= deltaWatchCount
        BY <1>1, <1>2 DEF WatchingInv, Watchings
      <3> QED
        BY <1>2, <3>1
    <2>2. \A s, x \in Streams, t, v \in Types :
              watching[s][t].cancel = watching[x][v].cancel /\ watching[s][t].cancel # 0
                => s = x /\ t = v
      BY <1>1 DEF StreamInv
    <2> QED
      BY <1>8, <1>10, <2>1, <2>2
  <1>12. \A s \in Streams : s # c => deltaResponses'[s] = deltaResponses[s]
    BY <1>2, <1>4
  <1>13. StreamInv' /\ HoldingInv'
    BY <1>3, <1>10, <1>11, <1>12, LoopRest
  <1>14. ASSUME NEW n \in Nodes, NEW s \in Streams, NEW t \in Types, conn'[n] # NoStream, conn'[n] = s
        PROVE  Token(s, t, watching[s][t], client[n][t])'
    <2>1. Token(s, t, watching[s][t], client[n][t]) /\ StreamNode[s] = n
      BY <1>1, <1>3, <1>14 DEF TokenInv, StreamInv
    <2>2. ASSUME s # c \/ t # u PROVE OpenDeltaOn(s, t)' = OpenDeltaOn(s, t)
      BY <1>4, <1>9, <2>2 DEF OpenDeltaOn
    <2>3. CASE s # c
      <3>1. StreamStays(s)
        BY <1>3, <1>10, <1>12, <2>3 DEF StreamStays
      <3>2. Untouched(n, s, t)
        BY <1>3, <1>10, <2>2, <2>3, <3>1, StaysUntouched
      <3> QED
        BY <1>2, <1>3, <2>1, <3>2, TokenKept
    <2>4. CASE s = c /\ t # u
      <3>1. ~InHand(s, t) /\ ~InHand(s, t)'
        BY <1>3, <1>10, <2>4 DEF InHand
      <3>2. Same(deltaResponses'[s], deltaResponses[s], t)
        <4>1. CASE UNCHANGED deltaResponses
          BY <4>1, SameRefl
        <4>2. CASE deltaResponses' = [deltaResponses EXCEPT ![c] = Append(@, d)]
          <5>1. deltaResponses'[s] = Append(deltaResponses[s], d)
            BY <1>2, <2>4, <4>2
          <5> QED
            BY <1>1, <1>9, <2>4, <5>1, OtherBuffered
        <4> QED
          BY <1>4, <4>1, <4>2
      <3>3. Untouched(n, s, t)
        BY <1>3, <1>10, <2>2, <2>4, <3>1, <3>2, SameRefl DEF Untouched
      <3> QED
        BY <1>2, <1>3, <2>1, <3>3, TokenKept
    <2>5. CASE s = c /\ t = u
      <3>1. InHand(s, t)
        BY <1>3, <2>5 DEF InHand
      <3>2. Handled(s, t, watching[s][t], client[n][t])
        BY <2>1, <3>1, WhenHandled
      <3>3. /\ client[n][t].asked /\ Only(s, t, "loop") /\ watching[s][t].active
            /\ Agrees(state, client[n][t])
        BY <1>3, <2>5, <3>2 DEF Handled
      <3>4. ~InHand(s, t)'
        BY <1>10, <2>5 DEF InHand
      <3>5. watching'[s][t].active /\ watching'[s][t].state = state
        BY <1>7, <1>10, <2>5, <3>3
      <3>6. Agrees(watching[s][t].state, client[n][t])'
        BY <1>3, <3>3, <3>5 DEF Agrees, Subscriber
      <3>7. CASE deltaWatches' = deltaWatches \cup {x2} /\ UNCHANGED deltaResponses
        <4>1. OpenDeltaOn(s, t)' = {x2}
          BY <1>9, <2>5, <3>3, <3>7 DEF Only, OpenDeltaOn
        <4>2. Only(s, t, "watch")'
          BY <1>3, <3>3, <3>4, <3>7 DEF Only
        <4>3. Watched(s, t, watching[s][t], client[n][t])'
          BY <1>3, <1>9, <3>3, <3>5, <3>6, <4>1, <4>2 DEF Watched
        <4> QED
          BY <4>3 DEF Token
      <3>8. CASE /\ Exists(m) /\ deltaResponses' = [deltaResponses EXCEPT ![c] = Append(@, d)]
                 /\ UNCHANGED deltaWatches
        <4>1. deltaResponses'[s] = Append(deltaResponses[s], d)
          BY <1>2, <2>5, <3>8
        <4>2. Without(deltaResponses[s], t) /\ m = n
          BY <2>1, <2>5, <3>3 DEF Only
        <4>3. Single(Append(deltaResponses[s], d), t, d) /\ Leads(d, client[n][t])
          BY <1>1, <1>7, <2>5, <3>3, <3>8, <4>2, ResponseBuffered
        <4>4. PICK e : Single(deltaResponses'[s], t, e) /\ Leads(e, client[n][t])
          BY <4>1, <4>3
        <4>5. Leads(e, client[n][t])'
          BY <1>3, <4>4 DEF Leads
        <4>6. OpenDeltaOn(s, t)' = {}
          BY <3>3, <3>8 DEF Only, OpenDeltaOn
        <4>7. Only(s, t, "channel")'
          BY <1>3, <3>3, <3>4, <4>6 DEF Only
        <4>8. Buffered(s, t, watching[s][t], client[n][t])'
          BY <1>3, <3>3, <3>5, <3>6, <4>4, <4>5, <4>7 DEF Buffered, Agrees
        <4> QED
          BY <4>8 DEF Token
      <3> QED
        BY <1>4, <3>7, <3>8
    <2> QED
      BY <2>3, <2>4, <2>5
  <1> QED
    BY <1>13, <1>14 DEF TokenInv

----------------------------------------------------------------------------
(* The steps of clients                                                    *)

\* A client answers the response at the head of its stream and holds what the
\* stream has recorded, unless it has rejected a response.
LEMMA AnswerTokens ==
    ASSUME ConvergeInv, NEW m \in Nodes, NEW c \in Streams, conn[m] = c, conn[m] # NoStream,
           NEW u \in Types, toClient[c] # <<>>, Head(toClient[c]).type = u,
           client'[m][u].asked = client[m][u].asked, client'[m][u].wildcard = client[m][u].wildcard,
           client'[m][u].names = client[m][u].names, client'[m][u].at <= sets,
           DOMAIN client'[m][u].content \subseteq Wanted(client[m][u]),
           client'[m][u].rejected \/ client'[m][u].content = watching[c][u].state.versions,
           \A n \in Nodes, t \in Types : n # m \/ t # u => client'[n][t] = client[n][t],
           toServer' = [toServer EXCEPT ![c] = Append(@, Plain(u))],
           toClient' = [toClient EXCEPT ![c] = Tail(@)],
           UNCHANGED <<cacheVars, serverVars, live, conn>>
    PROVE  StreamInv' /\ HoldingInv' /\ TokenInv'
  <1>1. ServerInv /\ StreamInv /\ HoldingInv /\ TokenInv /\ TypeOK
    BY DEF ConvergeInv, ServerInv
  <1>2. /\ sets \in Nat /\ sets <= sets
        /\ toServer \in [Streams -> Seq(DeltaDiscoveryRequests)] /\ toClient \in [Streams -> Seq(DeltaResponses)]
    BY <1>1, TypeParts DEF CacheTypeOK, LinkTypeOK
  <1>3. UNCHANGED <<deltaWatches, deltaResponses, sets, pc, current, watching>>
    BY DEF cacheVars, deltaVars, setVars, serverVars
  <1>4. /\ toServer'[c] = Append(toServer[c], Plain(u)) /\ toClient'[c] = Tail(toClient[c])
        /\ \A s \in Streams : s # c => toServer'[s] = toServer[s] /\ toClient'[s] = toClient[s]
    BY <1>2
  <1>5. pc[c] # "idle" /\ StreamNode[c] = m
    BY <1>1 DEF StreamInv
  <1>6. StreamInv'
    <2>1. \A s \in Streams : pc[s] = "idle" => toServer'[s] = toServer[s] /\ toClient'[s] = toClient[s]
      BY <1>4, <1>5
    <2> QED
      BY <1>1, <1>3, <2>1 DEF StreamInv
  <1>7. HoldingInv'
    <2>1. ASSUME NEW n \in Nodes, NEW t \in Types
          PROVE  /\ client'[n][t].wildcard <=> client'[n][t].names = {}
                 /\ DOMAIN client'[n][t].content \subseteq Wanted(client'[n][t])
                 /\ client'[n][t].at <= sets
      <3>1. CASE n # m \/ t # u
        BY <1>1, <3>1 DEF HoldingInv
      <3>2. CASE n = m /\ t = u
        BY <1>1, <3>2 DEF HoldingInv, Wanted
      <3> QED
        BY <3>1, <3>2
    <2> QED
      BY <1>3, <2>1 DEF HoldingInv, Wanted
  <1>8. ASSUME NEW n \in Nodes, NEW s \in Streams, NEW t \in Types, conn'[n] # NoStream, conn'[n] = s
        PROVE  Token(s, t, watching[s][t], client[n][t])'
    <2>1. Token(s, t, watching[s][t], client[n][t]) /\ StreamNode[s] = n
      BY <1>1, <1>8 DEF TokenInv, StreamInv
    <2>2. OpenDeltaOn(s, t)' = OpenDeltaOn(s, t) /\ (InHand(s, t)' <=> InHand(s, t))
      BY <1>3 DEF OpenDeltaOn, InHand
    <2>3. CASE s # c \/ t # u
      <3>1. client'[n][t] = client[n][t]
        BY <1>8, <2>3
      <3>2. Same(toServer'[s], toServer[s], t) /\ Same(toClient'[s], toClient[s], t)
        <4>1. CASE s # c
          BY <1>4, <4>1, SameRefl
        <4>2. CASE s = c
          <5>1. toServer[c] \in Seq(DeltaDiscoveryRequests) /\ toClient[c] \in Seq(DeltaResponses)
            BY <1>2
          <5>2. Plain(u).type # t /\ Head(toClient[c]).type # t
            BY <2>3, <4>2 DEF Plain
          <5>3. Same(Append(toServer[c], Plain(u)), toServer[c], t)
            BY <5>1, <5>2, AppendOther
          <5>4. Same(Tail(toClient[c]), toClient[c], t)
            BY <5>1, <5>2, TailOther
          <5> QED
            BY <1>4, <4>2, <5>3, <5>4
        <4> QED
          BY <4>1, <4>2
      <3>3. Untouched(n, s, t)
        BY <1>3, <2>2, <3>1, <3>2, SameRefl DEF Untouched
      <3> QED
        BY <1>2, <1>3, <2>1, <3>3, TokenKept
    <2>4. CASE s = c /\ t = u
      <3>0. toServer[c] \in Seq(DeltaDiscoveryRequests) /\ toClient[c] \in Seq(DeltaResponses) /\ n = m
        BY <1>2, <1>5, <2>1, <2>4
      <3>1. ~Without(toClient[s], t)
        BY <2>4, <3>0, HeadOf
      <3>2. Sent(s, t, watching[s][t], client[n][t])
        BY <2>1, <3>1, WhenSent
      <3>3. PICK d : Single(toClient[s], t, d)
        BY <3>2 DEF Sent
      <3>4. Without(toClient'[s], t)
        <4>1. toClient[c] \in Seq(DeltaResponses) /\ Head(toClient[c]).type = t /\ Single(toClient[c], t, d)
          BY <2>4, <3>0, <3>3
        <4>2. Without(Tail(toClient[c]), t)
          BY <4>1, TailSame
        <4> QED
          BY <1>4, <2>4, <4>2
      <3>5. Plain(t).type = t /\ Without(toServer[s], t)
        BY <3>2 DEF Plain, Sent, Only
      <3>6. Single(toServer'[s], t, Plain(t))
        BY <1>4, <2>4, <3>0, <3>5, AppendSame
      <3>7. Only(s, t, "request")'
        BY <1>3, <2>2, <3>2, <3>4 DEF Sent, Only
      <3>8. Agrees(watching[s][t].state, client[n][t])' /\ watching'[s][t].active /\ client'[n][t].asked
        BY <1>3, <2>4, <3>0, <3>2 DEF Agrees, Subscriber, Sent
      <3>9. Requested(s, t, watching[s][t], client[n][t])'
        BY <3>6, <3>7, <3>8 DEF Requested, Asks
      <3> QED
        BY <3>9 DEF Token
    <2> QED
      BY <2>3, <2>4
  <1> QED
    BY <1>6, <1>7, <1>8 DEF TokenInv

\* The response at the head of a client's stream leads it to what the stream has
\* recorded.
LEMMA AtHead ==
    ASSUME ConvergeInv, NEW m \in Nodes, conn[m] # NoStream, toClient[conn[m]] # <<>>
    PROVE  \E c \in Streams, r \in DeltaResponses, u \in Types :
              /\ conn[m] = c /\ StreamNode[c] = m /\ r = Head(toClient[c]) /\ u = r.type
              /\ Leads(r, client[m][u]) /\ watching[c][u].state.versions = r.next
  <1>1. StreamInv /\ TokenInv /\ TypeOK
    BY DEF ConvergeInv, ServerInv
  <1>2. PICK c \in Streams : conn[m] = c /\ toClient[c] # <<>>
    BY <1>1 DEF TypeOK
  <1>3. toClient[c] \in Seq(DeltaResponses)
    BY <1>1, TypeParts DEF LinkTypeOK
  <1>4. PICK r \in DeltaResponses : r = Head(toClient[c])
    BY <1>2, <1>3
  <1>5. PICK u \in Types : u = r.type
    BY DEF DeltaResponses
  <1>6. Token(c, u, watching[c][u], client[m][u]) /\ StreamNode[c] = m
    BY <1>1, <1>2 DEF TokenInv, StreamInv
  <1>7. ~Without(toClient[c], u)
    BY <1>2, <1>3, <1>4, <1>5, HeadOf
  <1>8. Sent(c, u, watching[c][u], client[m][u])
    BY <1>6, <1>7, WhenSent
  <1>9. PICK d : Single(toClient[c], u, d) /\ Leads(d, client[m][u]) /\ watching[c][u].state.versions = d.next
    BY <1>8 DEF Sent
  <1>10. d = r
    BY <1>2, <1>3, <1>4, <1>5, <1>9, TailSame
  <1> QED
    BY <1>2, <1>4, <1>5, <1>6, <1>9, <1>10

\* The answer to a response is the next request.
LEMMA AckTokens ==
    ASSUME ConvergeInv, NEW m \in Nodes, Ack(m) \/ Nack(m)
    PROVE  StreamInv' /\ HoldingInv' /\ TokenInv'
  <1>1. HoldingInv /\ TypeOK
    BY DEF ConvergeInv, ServerInv
  <1>2. conn[m] # NoStream /\ toClient[conn[m]] # <<>>
    BY DEF Ack, Nack
  <1>3. PICK c \in Streams, r \in DeltaResponses, u \in Types :
              /\ conn[m] = c /\ StreamNode[c] = m /\ r = Head(toClient[c]) /\ u = r.type
              /\ Leads(r, client[m][u]) /\ watching[c][u].state.versions = r.next
    BY <1>2, AtHead
  <1>4. sets \in Nat /\ client \in [Nodes -> [Types -> ClientStates]]
    BY <1>1, TypeParts DEF CacheTypeOK, ClientTypeOK
  <1>5. client[m][u] \in ClientStates
    BY <1>4
  <1>6. /\ DOMAIN client[m][u].content \subseteq Wanted(client[m][u])
        /\ client[m][u].at <= sets
    BY <1>1 DEF HoldingInv
  <1>7. /\ toServer' = [toServer EXCEPT ![c] = Append(@, Plain(u))]
        /\ toClient' = [toClient EXCEPT ![c] = Tail(@)]
        /\ UNCHANGED <<cacheVars, serverVars, live, conn>>
    BY <1>3 DEF Ack, Nack
  <1>8. CASE Ack(m)
    <2> DEFINE st2 == [client[m][u] EXCEPT !.content = Taken(r, client[m][u]), !.at = r.at,
                                           !.dropped = @ \cap r.scope]
    <2>1. client' = [client EXCEPT ![m][u].content = Taken(r, client[m][u]), ![m][u].at = r.at,
                                   ![m][u].dropped = @ \cap r.scope]
      BY <1>3, <1>8 DEF Ack, Taken
    <2>2. client' = [client EXCEPT ![m][u] = st2]
      BY <1>4, <2>1
    <2>3. /\ st2.asked = client[m][u].asked /\ st2.wildcard = client[m][u].wildcard
          /\ st2.names = client[m][u].names /\ st2.at = r.at /\ st2.content = Taken(r, client[m][u])
          /\ st2.rejected = client[m][u].rejected
      BY <1>5 DEF ClientStates
    <2> HIDE DEF st2
    <2>4. client'[m][u] = st2 /\ \A n \in Nodes, t \in Types : n # m \/ t # u => client'[n][t] = client[n][t]
      BY <1>4, <2>2
    <2>5. st2.at <= sets
      BY <1>3, <1>4, <1>5, <2>3 DEF Leads, ClientStates
    <2>6. /\ DOMAIN st2.content \subseteq Wanted(client[m][u])
          /\ st2.rejected \/ st2.content = watching[c][u].state.versions
      BY <1>3, <1>5, <1>6, <2>3, TakenLeads
    <2> QED
      BY <1>2, <1>3, <1>7, <2>3, <2>4, <2>5, <2>6, AnswerTokens
  <1>9. CASE Nack(m)
    <2> DEFINE st2 == [client[m][u] EXCEPT !.rejected = TRUE]
    <2>1. client' = [client EXCEPT ![m][u] = st2]
      BY <1>3, <1>9 DEF Nack
    <2>2. /\ st2.asked = client[m][u].asked /\ st2.wildcard = client[m][u].wildcard
          /\ st2.names = client[m][u].names /\ st2.at = client[m][u].at
          /\ st2.content = client[m][u].content /\ st2.rejected = TRUE
      BY <1>5 DEF ClientStates
    <2> HIDE DEF st2
    <2>3. client'[m][u] = st2 /\ \A n \in Nodes, t \in Types : n # m \/ t # u => client'[n][t] = client[n][t]
      BY <1>4, <2>1
    <2> QED
      BY <1>2, <1>3, <1>6, <1>7, <2>2, <2>3, AnswerTokens
  <1> QED
    BY <1>8, <1>9

\* The first request of a type puts the token on its way.
LEMMA AskTokens ==
    ASSUME ConvergeInv, NEW m \in Nodes, NEW u \in Types, Ask(m, u)
    PROVE  StreamInv' /\ HoldingInv' /\ TokenInv'
  <1> DEFINE st == client[m][u]
             st2 == [st EXCEPT !.asked = TRUE]
  <1>1. ServerInv /\ StreamInv /\ HoldingInv /\ TokenInv /\ TypeOK
    BY DEF ConvergeInv, ServerInv
  <1>2. PICK c \in Streams : conn[m] = c /\ conn[m] # NoStream
    BY <1>1 DEF Ask, TypeOK
  <1>3. /\ sets \in Nat /\ sets <= sets /\ client \in [Nodes -> [Types -> ClientStates]]
        /\ toServer \in [Streams -> Seq(DeltaDiscoveryRequests)]
    BY <1>1, TypeParts DEF CacheTypeOK, LinkTypeOK, ClientTypeOK
  <1>4. PICK r : r = [Plain(u) EXCEPT !.subscribe = st.names, !.star = st.wildcard /\ st.names # {},
                                      !.initial = st.content]
    OBVIOUS
  <1>5. /\ ~st.asked /\ client' = [client EXCEPT ![m][u] = st2]
        /\ toServer' = [toServer EXCEPT ![c] = Append(@, r)]
        /\ UNCHANGED <<cacheVars, serverVars, live, toClient, conn>>
    BY <1>2, <1>4 DEF Ask
  <1>6. UNCHANGED <<deltaWatches, deltaResponses, sets, pc, current, watching>>
    BY <1>5 DEF cacheVars, deltaVars, setVars, serverVars
  <1>7. st \in ClientStates /\ (st.wildcard <=> st.names = {})
    BY <1>1, <1>3 DEF HoldingInv
  <1>8. /\ st2.asked = TRUE /\ st2.wildcard = st.wildcard /\ st2.names = st.names /\ st2.at = st.at
        /\ st2.content = st.content /\ st2.rejected = st.rejected
    BY <1>7 DEF ClientStates
  <1> HIDE DEF st2
  <1>9. r = FirstRequest(u, st2) /\ r.type = u
    <2>1. PICK star : star = (st.wildcard /\ st.names # {})
      OBVIOUS
    <2>2. star = FALSE
      BY <1>7, <2>1
    <2>3. r = [Plain(u) EXCEPT !.subscribe = st.names, !.star = star, !.initial = st.content]
      BY <1>4, <2>1
    <2>4. r = [Plain(u) EXCEPT !.subscribe = st2.names, !.star = FALSE, !.initial = st2.content]
      BY <1>8, <2>2, <2>3
    <2> QED
      BY <2>3, <2>4 DEF FirstRequest, Plain
  <1>10. /\ client'[m][u] = st2 /\ \A n \in Nodes, t \in Types : n # m \/ t # u => client'[n][t] = client[n][t]
         /\ toServer'[c] = Append(toServer[c], r)
         /\ \A s \in Streams : s # c => toServer'[s] = toServer[s]
    BY <1>3, <1>5
  <1>11. pc[c] # "idle" /\ StreamNode[c] = m
    BY <1>1, <1>2 DEF StreamInv
  <1>12. StreamInv'
    <2>1. \A s \in Streams : pc[s] = "idle" => toServer'[s] = toServer[s]
      BY <1>10, <1>11
    <2>2. UNCHANGED <<live, toClient, conn>>
      BY <1>5
    <2> QED
      BY <1>1, <1>6, <2>1, <2>2 DEF StreamInv
  <1>13. HoldingInv'
    <2>1. ASSUME NEW n \in Nodes, NEW t \in Types
          PROVE  /\ client'[n][t].wildcard = client[n][t].wildcard
                 /\ client'[n][t].names = client[n][t].names
                 /\ client'[n][t].content = client[n][t].content
                 /\ client'[n][t].at = client[n][t].at
      BY <1>8, <1>10
    <2> QED
      BY <1>1, <1>6, <2>1 DEF HoldingInv, Wanted
  <1>14. ASSUME NEW n \in Nodes, NEW s \in Streams, NEW t \in Types, conn'[n] # NoStream, conn'[n] = s
        PROVE  Token(s, t, watching[s][t], client[n][t])'
    <2>1. Token(s, t, watching[s][t], client[n][t]) /\ StreamNode[s] = n
      BY <1>1, <1>5, <1>14 DEF TokenInv, StreamInv
    <2>2. OpenDeltaOn(s, t)' = OpenDeltaOn(s, t) /\ (InHand(s, t)' <=> InHand(s, t))
      BY <1>6 DEF OpenDeltaOn, InHand
    <2>3. CASE s # c \/ t # u
      <3>1. client'[n][t] = client[n][t]
        BY <1>2, <1>5, <1>10, <1>14, <2>3
      <3>2. Same(toServer'[s], toServer[s], t)
        <4>1. CASE s # c
          BY <1>10, <4>1, SameRefl
        <4>2. CASE s = c
          <5>1. toServer[c] \in Seq(DeltaDiscoveryRequests) /\ r.type # t
            BY <1>3, <1>9, <2>3, <4>2
          <5>2. Same(Append(toServer[c], r), toServer[c], t)
            BY <5>1, AppendOther
          <5> QED
            BY <1>10, <4>2, <5>2
        <4> QED
          BY <4>1, <4>2
      <3>3. Untouched(n, s, t)
        BY <1>5, <1>6, <2>2, <3>1, <3>2, SameRefl DEF Untouched
      <3> QED
        BY <1>3, <1>6, <2>1, <3>3, TokenKept
    <2>4. CASE s = c /\ t = u
      <3>0. toServer[c] \in Seq(DeltaDiscoveryRequests) /\ n = m
        BY <1>3, <1>11, <2>1, <2>4
      <3>1. Unasked(s, t, watching[s][t], client[n][t])
        BY <1>5, <2>1, <2>4, <3>0, WhenUnasked
      <3>2. Without(toServer[s], t)
        BY <3>1 DEF Unasked, Only
      <3>3. Single(toServer'[s], t, r)
        BY <1>9, <1>10, <2>4, <3>0, <3>2, AppendSame
      <3>4. Only(s, t, "request")'
        BY <1>5, <1>6, <2>2, <3>1 DEF Unasked, Only
      <3>5. r = FirstRequest(t, client[n][t])'
        BY <1>9, <1>10, <2>4, <3>0 DEF FirstRequest
      <3>6. ~watching'[s][t].active /\ client'[n][t].asked
        BY <1>6, <1>8, <1>10, <2>4, <3>0, <3>1 DEF Unasked
      <3>7. Requested(s, t, watching[s][t], client[n][t])'
        BY <3>3, <3>4, <3>5, <3>6 DEF Requested, Asks
      <3> QED
        BY <3>7 DEF Token
    <2> QED
      BY <2>3, <2>4
  <1> QED
    BY <1>12, <1>13, <1>14 DEF TokenInv

\* A new stream has no tokens.
LEMMA ConnectTokens ==
    ASSUME ConvergeInv, NEW c \in Streams, Connect(c)
    PROVE  StreamInv' /\ HoldingInv' /\ TokenInv'
  <1> DEFINE m == StreamNode[c]
             fresh == [t \in Types |-> [client[m][t] EXCEPT !.asked = FALSE]]
  <1>1. ServerInv /\ StreamInv /\ HoldingInv /\ TokenInv /\ TypeOK /\ WatchInv /\ WatchingInv
    BY DEF ConvergeInv, ServerInv
  <1>2. /\ sets \in Nat /\ sets <= sets /\ client \in [Nodes -> [Types -> ClientStates]]
        /\ DOMAIN pc = Streams /\ DOMAIN live = Streams /\ DOMAIN conn = Nodes /\ m \in Nodes
    BY <1>1, TypeParts, StreamAssumption DEF CacheTypeOK, LoopTypeOK, LinkTypeOK, ClientTypeOK
  <1>3. /\ pc[c] = "idle" /\ pc' = [pc EXCEPT ![c] = "select"] /\ live' = [live EXCEPT ![c] = TRUE]
        /\ conn' = [conn EXCEPT ![m] = c] /\ client' = [client EXCEPT ![m] = fresh]
        /\ UNCHANGED <<cacheVars, current, watching, toServer, toClient>>
    BY DEF Connect
  <1>4. UNCHANGED <<deltaWatches, deltaResponses, sets>>
    BY <1>3 DEF cacheVars, deltaVars, setVars
  <1>5. ASSUME NEW t \in Types
        PROVE  /\ fresh[t].asked = FALSE /\ fresh[t].wildcard = client[m][t].wildcard
               /\ fresh[t].names = client[m][t].names /\ fresh[t].content = client[m][t].content
               /\ fresh[t].at = client[m][t].at
    <2>1. client[m][t] \in ClientStates /\ fresh[t] = [client[m][t] EXCEPT !.asked = FALSE]
      BY <1>2
    <2> HIDE DEF fresh
    <2> QED
      BY <2>1 DEF ClientStates
  <1> HIDE DEF fresh
  <1>6. /\ pc'[c] = "select" /\ live'[c] = TRUE /\ conn'[m] = c /\ client'[m] = fresh
        /\ \A s \in Streams : s # c => pc'[s] = pc[s] /\ live'[s] = live[s]
        /\ \A n \in Nodes : n # m => conn'[n] = conn[n] /\ client'[n] = client[n]
    BY <1>2, <1>3
  <1>7. HoldingInv'
    <2>1. ASSUME NEW n \in Nodes, NEW t \in Types
          PROVE  /\ client'[n][t].wildcard = client[n][t].wildcard
                 /\ client'[n][t].names = client[n][t].names
                 /\ client'[n][t].content = client[n][t].content
                 /\ client'[n][t].at = client[n][t].at
      <3>1. CASE n = m
        <4>1. client'[n][t] = fresh[t]
          BY <1>6, <3>1
        <4> QED
          BY <1>5, <3>1, <4>1
      <3>2. CASE n # m
        BY <1>6, <3>2
      <3> QED
        BY <3>1, <3>2
    <2> QED
      BY <1>1, <1>4, <2>1 DEF HoldingInv, Wanted
  <1>8. ASSUME NEW n \in Nodes, NEW s \in Streams, conn'[n] # NoStream, conn'[n] = s
        PROVE  \/ n = m /\ s = c
               \/ n # m /\ s # c /\ conn[n] # NoStream /\ conn[n] = s /\ StreamNode[s] = n
                  /\ live[s] /\ pc[s] \notin {"idle", "closing", "closed"}
    <2>1. CASE n = m
      BY <1>6, <1>8, <2>1
    <2>2. CASE n # m
      <3>1. conn[n] # NoStream /\ conn[n] = s
        BY <1>6, <1>8, <2>2
      <3>2. StreamNode[s] = n /\ live[s] /\ pc[s] \notin {"idle", "closing", "closed"}
        BY <1>1, <3>1 DEF StreamInv
      <3> QED
        BY <1>3, <2>2, <3>1, <3>2
    <2> QED
      BY <2>1, <2>2
  <1>9. StreamInv'
    <2>1. ASSUME NEW n \in Nodes, NEW s \in Streams, conn'[n] # NoStream, conn'[n] = s
          PROVE  StreamNode[s] = n /\ live'[s] /\ pc'[s] \notin {"idle", "closing", "closed"}
      BY <1>6, <1>8, <2>1
    <2>2. ASSUME NEW s \in Streams, pc'[s] = "idle"
          PROVE  /\ toServer'[s] = <<>> /\ toClient'[s] = <<>> /\ deltaResponses'[s] = <<>>
                 /\ \A t \in Types : ~watching'[s][t].active
      <3>1. pc[s] = "idle"
        BY <1>6, <2>2
      <3> QED
        BY <1>1, <1>3, <1>4, <3>1 DEF StreamInv
    <2>3. \A s, x \in Streams, t, u \in Types :
             watching'[s][t].cancel = watching'[x][u].cancel /\ watching'[s][t].cancel # 0
               => s = x /\ t = u
      BY <1>1, <1>3 DEF StreamInv
    <2> QED
      BY <2>1, <2>2, <2>3 DEF StreamInv
  <1>10. ASSUME NEW n \in Nodes, NEW s \in Streams, NEW t \in Types, conn'[n] # NoStream, conn'[n] = s
        PROVE  Token(s, t, watching[s][t], client[n][t])'
    <2>1. OpenDeltaOn(s, t)' = OpenDeltaOn(s, t)
      BY <1>4 DEF OpenDeltaOn
    <2>2. CASE n = m /\ s = c
      <3>1. OpenDeltaOn(s, t) = {}
        BY <1>1, <1>3, <2>2 DEF OpenDeltaOn, WatchInv, WatchingInv
      <3>2. toServer'[s] = <<>> /\ toClient'[s] = <<>> /\ deltaResponses'[s] = <<>> /\ ~watching'[s][t].active
        BY <1>1, <1>3, <1>4, <2>2 DEF StreamInv
      <3>3. ~InHand(s, t)'
        BY <1>6, <2>2 DEF InHand
      <3>4. Only(s, t, "none")'
        BY <2>1, <3>1, <3>2, <3>3, EmptyQueue DEF Only
      <3>5. ~client'[n][t].asked
        BY <1>5, <1>6, <2>2
      <3> QED
        BY <3>2, <3>4, <3>5 DEF Token, Unasked
    <2>3. CASE n # m /\ s # c /\ conn[n] # NoStream /\ conn[n] = s
      <3>1. Token(s, t, watching[s][t], client[n][t])
        BY <1>1, <2>3 DEF TokenInv
      <3>2. StreamStays(s) /\ client'[n][t] = client[n][t] /\ watching'[s][t] = watching[s][t]
        BY <1>3, <1>4, <1>6, <2>3 DEF StreamStays
      <3>3. Untouched(n, s, t)
        BY <2>1, <3>2, StaysUntouched
      <3> QED
        BY <1>2, <1>4, <3>1, <3>3, TokenKept
    <2> QED
      BY <1>8, <1>10, <2>2, <2>3
  <1> QED
    BY <1>7, <1>9, <1>10 DEF TokenInv

\* What is left on the stream concerns its client no longer.
LEMMA DisconnectTokens ==
    ASSUME ConvergeInv, NEW c \in Streams, Disconnect(c)
    PROVE  StreamInv' /\ HoldingInv' /\ TokenInv'
  <1> DEFINE m == StreamNode[c]
  <1>1. ServerInv /\ StreamInv /\ HoldingInv /\ TokenInv /\ TypeOK
    BY DEF ConvergeInv, ServerInv
  <1>2. /\ sets \in Nat /\ sets <= sets /\ DOMAIN toClient = Streams /\ DOMAIN live = Streams
        /\ DOMAIN conn = Nodes /\ m \in Nodes
    BY <1>1, TypeParts, StreamAssumption DEF CacheTypeOK, LinkTypeOK, ClientTypeOK
  <1>3. /\ live' = [live EXCEPT ![c] = FALSE] /\ conn' = [conn EXCEPT ![m] = NoStream]
        /\ toClient' = [toClient EXCEPT ![c] = <<>>]
        /\ UNCHANGED <<cacheVars, serverVars, toServer, client>>
    BY DEF Disconnect
  <1>4. UNCHANGED <<deltaWatches, deltaResponses, sets, pc, current, watching>>
    BY <1>3 DEF cacheVars, deltaVars, setVars, serverVars
  <1>5. /\ conn'[m] = NoStream /\ \A n \in Nodes : n # m => conn'[n] = conn[n]
        /\ toClient'[c] = <<>>
        /\ \A s \in Streams : s # c => toClient'[s] = toClient[s] /\ live'[s] = live[s]
    BY <1>2, <1>3
  <1>6. HoldingInv'
    BY <1>1, <1>3, <1>4 DEF HoldingInv, Wanted
  <1>7. ASSUME NEW n \in Nodes, NEW s \in Streams, conn'[n] # NoStream, conn'[n] = s
        PROVE  /\ s # c /\ conn[n] # NoStream /\ conn[n] = s /\ StreamNode[s] = n
               /\ live[s] /\ pc[s] \notin {"idle", "closing", "closed"}
    <2>1. conn[n] # NoStream /\ conn[n] = s /\ n # m
      BY <1>5, <1>7
    <2>2. StreamNode[s] = n /\ live[s] /\ pc[s] \notin {"idle", "closing", "closed"}
      BY <1>1, <2>1 DEF StreamInv
    <2> QED
      BY <2>1, <2>2
  <1>8. StreamInv'
    <2>1. ASSUME NEW n \in Nodes, NEW s \in Streams, conn'[n] # NoStream, conn'[n] = s
          PROVE  StreamNode[s] = n /\ live'[s] /\ pc'[s] \notin {"idle", "closing", "closed"}
      BY <1>4, <1>5, <1>7, <2>1
    <2>2. ASSUME NEW s \in Streams, pc'[s] = "idle"
          PROVE  /\ toServer'[s] = <<>> /\ toClient'[s] = <<>> /\ deltaResponses'[s] = <<>>
                 /\ \A t \in Types : ~watching'[s][t].active
      BY <1>1, <1>3, <1>4, <1>5, <2>2 DEF StreamInv
    <2>3. \A s, x \in Streams, t, u \in Types :
             watching'[s][t].cancel = watching'[x][u].cancel /\ watching'[s][t].cancel # 0
               => s = x /\ t = u
      BY <1>1, <1>4 DEF StreamInv
    <2> QED
      BY <2>1, <2>2, <2>3 DEF StreamInv
  <1>9. ASSUME NEW n \in Nodes, NEW s \in Streams, NEW t \in Types, conn'[n] # NoStream, conn'[n] = s
        PROVE  Token(s, t, watching[s][t], client[n][t])'
    <2>1. OpenDeltaOn(s, t)' = OpenDeltaOn(s, t)
      BY <1>4 DEF OpenDeltaOn
    <2>2. Token(s, t, watching[s][t], client[n][t]) /\ s # c
      BY <1>1, <1>7, <1>9 DEF TokenInv
    <2>3. StreamStays(s) /\ client'[n][t] = client[n][t] /\ watching'[s][t] = watching[s][t]
      BY <1>3, <1>4, <1>5, <2>2 DEF StreamStays
    <2>4. Untouched(n, s, t)
      BY <2>1, <2>3, StaysUntouched
    <2> QED
      BY <1>2, <1>4, <2>2, <2>4, TokenKept
  <1> QED
    BY <1>6, <1>8, <1>9 DEF TokenInv

----------------------------------------------------------------------------
(* The invariant                                                           *)

\* Stuttering.
LEMMA StillTokens ==
    ASSUME ConvergeInv, UNCHANGED vars
    PROVE  StreamInv' /\ HoldingInv' /\ TokenInv'
  <1>1. /\ UNCHANGED <<deltaWatches, deltaResponses, sets, pc, current, watching>>
        /\ UNCHANGED <<live, toServer, toClient, client, conn>>
    BY DEF vars, cacheVars, deltaVars, setVars, serverVars, linkVars, clientVars
  <1>2. StreamInv /\ HoldingInv /\ TokenInv /\ sets \in Nat /\ sets <= sets
    BY DEF ConvergeInv, ServerInv, TypeOK, CacheTypeOK
  <1>3. StreamInv' /\ HoldingInv'
    BY <1>1, <1>2 DEF StreamInv, HoldingInv, Wanted
  <1>4. ASSUME NEW n \in Nodes, NEW s \in Streams, NEW t \in Types, conn'[n] # NoStream, conn'[n] = s
        PROVE  Token(s, t, watching[s][t], client[n][t])'
    <2>1. Token(s, t, watching[s][t], client[n][t])
      BY <1>1, <1>2, <1>4 DEF TokenInv
    <2>2. Untouched(n, s, t)
      BY <1>1, SameRefl DEF Untouched, OpenDeltaOn, InHand
    <2> QED
      BY <1>1, <1>2, <2>1, <2>2, TokenKept
  <1> QED
    BY <1>3, <1>4 DEF TokenInv

\* The invariant is inductive, if subscriptions do not change.
LEMMA ConvergeStep ==
    ASSUME Changes = {}, ConvergeInv, [Next]_vars
    PROVE  ConvergeInv'
  <1>1. ServerInv'
    BY ServerStep DEF ConvergeInv
  <1> DEFINE P == StreamInv' /\ HoldingInv' /\ TokenInv'
  <1>2. ASSUME CacheActs PROVE P
    <2>1. CASE \E w \in deltaTodo : RespondDeltaWatch(w)
      <3>1. UNCHANGED <<serverVars, linkVars, clientVars>>
        BY <1>2 DEF CacheActs
      <3> QED
        BY <2>1, <3>1, RespondTokens
    <2>2. CASE ~\E w \in deltaTodo : RespondDeltaWatch(w)
      BY <1>2, <2>2, CacheTokens
    <2> QED
      BY <2>1, <2>2
  <1>3. ASSUME NEW n \in Nodes, NEW t \in Types, NEW x \in Names,
               \/ SubscribeName(n, t, x) \/ UnsubscribeName(n, t, x)
               \/ SubscribeStar(n, t) \/ UnsubscribeStar(n, t)
        PROVE  FALSE
    BY <1>3 DEF SubscribeName, UnsubscribeName, SubscribeStar, UnsubscribeStar, Change
  <1>4. ASSUME NEW n \in Nodes, NEW t \in Types, SubscribeStar(n, t) \/ UnsubscribeStar(n, t)
        PROVE  FALSE
    BY <1>4 DEF SubscribeStar, UnsubscribeStar, Change
  <1>5. ASSUME NEW s \in Streams, ServerActs(s) PROVE P
    <2>1. CASE SendResponse(s)
      <3>1. /\ deltaResponses[s] # <<>> /\ Process(s) /\ pc[s] \in {"select", "drain"}
            /\ UNCHANGED <<pc, current, live, toServer, clientVars>>
        BY <2>1 DEF SendResponse
      <3> QED
        BY <3>1, ProcessTokens
    <2>2. CASE ProcessAll(s) /\ deltaResponses[s] # <<>>
      <3>1. /\ deltaResponses[s] # <<>> /\ Process(s) /\ pc[s] \in {"select", "drain"}
            /\ UNCHANGED <<pc, current, live, toServer, clientVars>>
        BY <2>2 DEF ProcessAll
      <3> QED
        BY <3>1, ProcessTokens
    <2>3. CASE (ProcessAll(s) /\ deltaResponses[s] = <<>>) \/ Exit(s) \/ CloseChannel(s)
      BY <2>3, ControlTokens
    <2>4. CASE RecvRequest(s)
      BY <2>4, RecvTokens
    <2>5. CASE CancelPrevious(s)
      BY <2>5, CancelTokens
    <2>6. CASE OpenWatch(s)
      BY <2>6, OpenTokens
    <2>7. ASSUME NEW t \in Types, CloseWatch(s, t) PROVE P
      BY <2>7, CloseTokens
    <2> HIDE DEF P
    <2> QED
      BY <1>5, <2>1, <2>2, <2>3, <2>4, <2>5, <2>6, <2>7 DEF ServerActs
  <1>6. ASSUME NEW s \in Streams, Connect(s) PROVE P
    BY <1>6, ConnectTokens
  <1>7. ASSUME NEW s \in Streams, Disconnect(s) PROVE P
    BY <1>7, DisconnectTokens
  <1>8. ASSUME NEW n \in Nodes, NEW t \in Types, Ask(n, t) PROVE P
    BY <1>8, AskTokens
  <1>9. ASSUME NEW n \in Nodes, Ack(n) \/ Nack(n) PROVE P
    BY <1>9, AckTokens
  <1>10. ASSUME UNCHANGED vars PROVE P
    BY <1>10, StillTokens
  <1> HIDE DEF P
  <1>11. P
    BY <1>2, <1>3, <1>4, <1>5, <1>6, <1>7, <1>8, <1>9, <1>10 DEF Next
  <1> QED
    BY <1>1, <1>11 DEF ConvergeInv, P

\* No client is connected initially.
LEMMA InitConverge == Init => ConvergeInv
  <1> SUFFICES ASSUME Init PROVE ConvergeInv
    OBVIOUS
  <1>1. ServerInv
    BY InitServer
  <1>2. \A n \in Nodes : conn[n] = NoStream
    BY DEF Init
  <1>3. \A n \in Nodes, s \in Streams : ~(conn[n] # NoStream /\ conn[n] = s)
    BY <1>2
  <1>4. StreamInv
    <2>1. \A s \in Streams : toServer[s] = <<>> /\ toClient[s] = <<>> /\ deltaResponses[s] = <<>>
      BY ChannelAssumption DEF Init, CacheInit
    <2>2. \A s \in Streams, t \in Types : ~watching[s][t].active /\ watching[s][t].cancel = 0
      BY DEF Init, NoWatch
    <2> QED
      BY <1>3, <2>1, <2>2 DEF StreamInv
  <1>5. HoldingInv
    <2>1. ASSUME NEW n \in Nodes, NEW t \in Types
          PROVE  /\ client[n][t].wildcard <=> client[n][t].names = {}
                 /\ client[n][t].content = EmptyMap /\ client[n][t].at = 0
      <3> DEFINE S == [asked : {FALSE}, wildcard : BOOLEAN, names : SUBSET Names, content : {EmptyMap},
                       at : {0}, dropped : {{}}, rejected : {FALSE}]
                 I == {st \in S : st.wildcard <=> st.names = {}}
      <3>1. client \in [Nodes -> [Types -> I]]
        BY DEF Init
      <3> HIDE DEF I
      <3>2. client[n][t] \in I
        BY <3>1
      <3> USE DEF I
      <3> HIDE DEF S
      <3>3. client[n][t] \in S /\ (client[n][t].wildcard <=> client[n][t].names = {})
        BY <3>2
      <3> QED
        BY <3>3 DEF S
    <2>2. sets = 0 /\ DOMAIN EmptyMap = {}
      BY DEF Init, CacheInit, EmptyMap
    <2> QED
      BY <2>1, <2>2 DEF HoldingInv
  <1>6. TokenInv
    BY <1>3 DEF TokenInv
  <1> QED
    BY <1>1, <1>4, <1>5, <1>6 DEF ConvergeInv

----------------------------------------------------------------------------
(* Theorems                                                                *)

\* A stream at rest has the token of a type its client has asked for among its
\* watches.
LEMMA AtRest ==
    ASSUME ConvergeInv, NEW n \in Nodes, NEW t \in Types, conn[n] # NoStream, Quiet(conn[n]),
           client[n][t].asked
    PROVE  /\ conn[n] \in Streams /\ StreamNode[conn[n]] = n
           /\ Watched(conn[n], t, watching[conn[n]][t], client[n][t])
  <1>1. PICK s \in Streams : s = conn[n]
    BY DEF ConvergeInv, ServerInv, TypeOK
  <1>2. Token(s, t, watching[s][t], client[n][t]) /\ StreamNode[s] = n
    BY <1>1 DEF ConvergeInv, TokenInv, StreamInv
  <1>3. pc[s] = "select" /\ toServer[s] = <<>> /\ toClient[s] = <<>> /\ deltaResponses[s] = <<>>
    BY <1>1 DEF Quiet
  <1>4. ~InHand(s, t)
    BY <1>3 DEF InHand
  <1>5. \A d : ~Single(<<>>, t, d)
    BY DEF Single
  <1> QED
    BY <1>1, <1>2, <1>3, <1>4, <1>5 DEF Token, Unasked, Requested, Handled, Buffered, Sent

\* The versions a stream has recorded for a type are, at rest, what its client
\* holds ("This field stores the last state sent to the client"): every request
\* is answered by at most one response, recorded when it is sent, and the next
\* request is the answer to it (process, processDelta, createDeltaResponse).
THEOREM StateIsWhatClientHolds ==
    ASSUME Changes = {}
    PROVE  Spec => []StateIsLastSent
  <1>1. ConvergeInv => StateIsLastSent
    <2> SUFFICES ASSUME ConvergeInv, NEW n \in Nodes, conn[n] # NoStream, Quiet(conn[n]), NEW t \in Types,
                        client[n][t].asked, ~client[n][t].rejected
                 PROVE  client[n][t].content
                          = Restrict(watching[conn[n]][t].state.versions,
                                     {x \in DOMAIN watching[conn[n]][t].state.versions :
                                         client[n][t].wildcard \/ x \in client[n][t].names})
      BY DEF StateIsLastSent
    <2> DEFINE st == client[n][t]
    <2>1. Watched(conn[n], t, watching[conn[n]][t], st)
      BY AtRest
    <2>2. watching[conn[n]][t].state.versions = st.content
      BY <2>1 DEF Watched, Agrees
    <2>3. st \in ClientStates /\ DOMAIN st.content \subseteq Wanted(st)
      BY TypeParts DEF ConvergeInv, ServerInv, ClientTypeOK, HoldingInv
    <2>4. PICK D \in SUBSET Names : st.content \in [D -> Hashes]
      BY <2>3 DEF ClientStates, ResourceMaps, Maps
    <2>5. {x \in DOMAIN st.content : st.wildcard \/ x \in st.names} = D
      BY <2>3, <2>4 DEF Wanted
    <2>6. Restrict(st.content, D) = st.content
      BY <2>4 DEF Restrict
    <2> QED
      BY <2>2, <2>5, <2>6
  <1> QED
    BY <1>1, InitConverge, ConvergeStep, PTL DEF Spec

\* A state with nothing to report has the snapshot's resources in its scope.
LEMMA NothingToReport ==
    ASSUME NEW state \in StreamStates, NEW res \in ResourceMaps, ~ShouldRespond(state, res),
           state.wildcard \/ DOMAIN state.versions \subseteq state.subscribed
    PROVE  state.versions = Restrict(res, InScope(state, res))
  <1> DEFINE r == createDeltaResponse(state, res)
  <1>1. Changed(state, res) = {} /\ Removed(state, res) = {}
    BY DEF ShouldRespond
  <1>2. DOMAIN r.resources = {} /\ r.removed = {}
    BY <1>1 DEF createDeltaResponse, Restrict
  <1> HIDE DEF r
  <1>3. PICK D \in SUBSET Names : state.versions \in [D -> Hashes \cup {NoHash}]
    BY DEF StreamStates, VersionMaps, Maps
  <1>4. Apply(state.versions, r) = state.versions
    BY <1>2, <1>3 DEF Apply
  <1> QED
    BY <1>4, DeltaResponseComplete DEF r

\* A stream at rest has brought its client to the node's snapshot, removals
\* included, whatever was set, cancelled, rejected for other types or reconnected
\* before, unless SetSnapshot reported an error (processDelta, CreateDeltaWatch,
\* SetSnapshot, createDeltaResponse).  ClearSnapshot discards open watches without
\* an answer, so that it is excluded.
THEOREM StreamsAtRestHaveConverged ==
    ASSUME Changes = {}, ~Clearing
    PROVE  Spec => []QuietMeansConverged
  <1>1. ConvergeInv /\ NoMissedDelta => QuietMeansConverged
    <2> SUFFICES ASSUME ConvergeInv, NoMissedDelta, NEW n \in Nodes, conn[n] # NoStream, Quiet(conn[n]),
                        Exists(n), n \notin interrupted, NEW t \in Types,
                        client[n][t].asked, ~client[n][t].rejected
                 PROVE  Converged(n, t)
      BY DEF QuietMeansConverged
    <2> DEFINE st == client[n][t]
               s == conn[n]
               res == SnapshotResources(n, t)
    <2>1. s \in Streams /\ StreamNode[s] = n /\ Watched(s, t, watching[s][t], st)
      BY AtRest
    <2>2. PICK w \in deltaWatches : w.chan = s /\ w.type = t /\ w.state = watching[s][t].state
      BY <2>1 DEF Watched, OpenDeltaOn
    <2>3. w.node = n /\ w.state \in StreamStates
      BY <2>1, <2>2 DEF ConvergeInv, ServerInv, WatchInv, TypeOK, CacheTypeOK, DeltaWatches
    <2>4. ~ShouldRespond(w.state, res)
      BY <2>2, <2>3 DEF NoMissedDelta, Quiet
    <2>5. Agrees(w.state, st) /\ w.state.versions = st.content
      BY <2>1, <2>2 DEF Watched, Agrees
    <2>6. res \in ResourceMaps
      <3>1. snapshots[n] \in SnapshotRecords
        BY SnapshotAssumption DEF ConvergeInv, ServerInv, TypeOK, CacheTypeOK, Exists
      <3> QED
        BY <3>1 DEF SnapshotRecords, SnapshotResources
    <2>7. w.state.wildcard \/ DOMAIN w.state.versions \subseteq w.state.subscribed
      BY <2>5 DEF Agrees, Subscriber, ConvergeInv, HoldingInv, Wanted
    <2>8. st.content = Restrict(res, InScope(w.state, res))
      BY <2>3, <2>4, <2>5, <2>6, <2>7, NothingToReport
    <2>9. InScope(w.state, res) = IF st.wildcard THEN DOMAIN res ELSE DOMAIN res \cap st.names
      BY <2>5 DEF Agrees, Subscriber, InScope
    <2> QED
      BY <2>8, <2>9 DEF Converged
  <1>2. Spec => []ConvergeInv
    BY InitConverge, ConvergeStep, PTL DEF Spec
  <1> QED
    BY <1>1, <1>2, ServedDeltaCacheIsSound, PTL

----------------------------------------------------------------------------
(* The streams implement the discovery service                             *)

\* Nothing is published, and clients hold nothing.
LEMMA InitService == Init => Service!Init
  <1> SUFFICES ASSUME Init PROVE Service!Init
    OBVIOUS
  <1>1. ConvergeInv
    BY InitConverge
  <1>2. client \in [Nodes -> [Types -> ClientStates]]
    BY <1>1, TypeParts DEF ConvergeInv, ServerInv, ClientTypeOK
  <1>3. snapshots = [n \in Nodes |-> NoSnapshot] /\ sets = 0
    BY DEF Init, CacheInit
  <1>4. Answers = {}
    BY ChannelAssumption DEF Init, CacheInit, Answers, Range
  <1>5. Wants \in [Nodes -> [Types -> SUBSET Names]]
    BY <1>2 DEF Wants, ClientStates
  <1>6. ASSUME NEW n \in Nodes, NEW t \in Types
        PROVE  client[n][t].content = [x \in {} |-> x] /\ client[n][t].at = 0 /\ client[n][t].rejected = FALSE
    <2> DEFINE S == [asked : {FALSE}, wildcard : BOOLEAN, names : SUBSET Names, content : {EmptyMap},
                     at : {0}, dropped : {{}}, rejected : {FALSE}]
               I == {st \in S : st.wildcard <=> st.names = {}}
    <2>1. client \in [Nodes -> [Types -> I]]
      BY DEF Init
    <2> HIDE DEF I
    <2>2. client[n][t] \in I
      BY <2>1
    <2>3. client[n][t] \in S
      BY <2>2 DEF I
    <2>4. EmptyMap = [x \in {} |-> x]
      BY DEF EmptyMap
    <2> QED
      BY <2>3, <2>4
  <1>7. Holds = [n \in Nodes |-> [t \in Types |-> [x \in {} |-> x]]]
    BY <1>6 DEF Holds
  <1>8. Positions = [n \in Nodes |-> [t \in Types |-> 0]] /\ Refusals = [n \in Nodes |-> [t \in Types |-> FALSE]]
    BY <1>6 DEF Positions, Refusals
  <1> QED
    BY <1>3, <1>4, <1>5, <1>7, <1>8 DEF Service!Init

----------------------------------------------------------------------------
(* Answers under way                                                       *)

InFlight(s) == Range(deltaResponses[s]) \cup Range(toClient[s])

AnswerOf(s, r) == [node |-> StreamNode[s], type |-> r.type, index |-> r.at, scope |-> r.scope,
                   view |-> r.next, kind |-> "delta"]

\* What a queue has with one more element, and without its head.
LEMMA AppendRange ==
    ASSUME NEW S, NEW q \in Seq(S), NEW d
    PROVE  Range(Append(q, d)) = Range(q) \cup {d}
  <1> DEFINE p == Append(q, d)
             k == Len(q) + 1
  <1>1. DOMAIN p = DOMAIN q \cup {k} /\ p[k] = d /\ \A i \in DOMAIN q : p[i] = q[i]
    BY AppendParts
  <1> HIDE DEF p, k
  <1>2. Range(p) = Range(q) \cup {d}
    BY <1>1 DEF Range
  <1> QED
    BY <1>2 DEF p

LEMMA TailRange ==
    ASSUME NEW S, NEW q \in Seq(S), q # <<>>
    PROVE  Head(q) \in Range(q) /\ Range(Tail(q)) \subseteq Range(q)
           /\ Range(q) \subseteq Range(Tail(q)) \cup {Head(q)}
  <1> DEFINE p == Tail(q)
  <1>1. /\ 1 \in DOMAIN q /\ Head(q) = q[1]
        /\ \A i \in DOMAIN p : i + 1 \in DOMAIN q /\ p[i] = q[i + 1]
        /\ \A i \in DOMAIN q : i = 1 \/ (i - 1 \in DOMAIN p /\ p[i - 1] = q[i])
    BY TailParts
  <1> HIDE DEF p
  <1>2. Head(q) \in Range(q) /\ Range(p) \subseteq Range(q) /\ Range(q) \subseteq Range(p) \cup {Head(q)}
    BY <1>1 DEF Range
  <1> QED
    BY <1>2 DEF p

\* The answers of the service, in a state and in the next.
LEMMA AnswersAre ==
    ASSUME NEW a
    PROVE  a \in Answers <=> \E s \in Streams : \E r \in InFlight(s) : a = AnswerOf(s, r)
  BY DEF Answers, InFlight, AnswerOf

LEMMA AnswersAreNext ==
    ASSUME NEW a
    PROVE  a \in Answers' <=> \E s \in Streams : \E r \in InFlight(s)' : a = AnswerOf(s, r)
  BY DEF Answers, InFlight, AnswerOf

\* Responses that go are answers that go.
LEMMA AnswersShrink ==
    ASSUME \A s \in Streams : InFlight(s)' \subseteq InFlight(s)
    PROVE  Answers' \subseteq Answers
  <1> SUFFICES ASSUME NEW a \in Answers' PROVE a \in Answers
    OBVIOUS
  <1>1. PICK s \in Streams : \E r \in InFlight(s)' : a = AnswerOf(s, r)
    BY AnswersAreNext
  <1>2. PICK r \in InFlight(s)' : a = AnswerOf(s, r)
    BY <1>1
  <1>3. r \in InFlight(s)
    BY <1>2
  <1> QED
    BY <1>2, <1>3, AnswersAre

\* What the service sees of clients.
LEMMA ViewsStay ==
    ASSUME \A n \in Nodes, t \in Types :
              /\ client'[n][t].wildcard = client[n][t].wildcard /\ client'[n][t].names = client[n][t].names
              /\ client'[n][t].content = client[n][t].content /\ client'[n][t].at = client[n][t].at
              /\ client'[n][t].rejected = client[n][t].rejected
    PROVE  UNCHANGED <<Wants, Holds, Positions, Refusals>>
  BY DEF Wants, Holds, Positions, Refusals

\* The service does nothing but to lose answers.
LEMMA Loses ==
    ASSUME UNCHANGED <<snapshots, sets>>, \A s \in Streams : InFlight(s)' \subseteq InFlight(s),
           UNCHANGED <<Wants, Holds, Positions, Refusals>>
    PROVE  Service!Next
  <1>1. Answers' \subseteq Answers
    BY AnswersShrink
  <1> QED
    BY <1>1 DEF Service!Next, Service!Lose

\* A response made from the node's snapshot is an answer.
LEMMA MakesAnswer ==
    ASSUME TypeOK, NEW c \in Streams, NEW u \in Types, NEW state \in StreamStates, NEW d,
           Exists(StreamNode[c]), d.type = u, d.at = sets, d.scope = Scope(state),
           d.next = createDeltaResponse(state, SnapshotResources(StreamNode[c], u)).next,
           deltaResponses'[c] = Append(deltaResponses[c], d),
           \A s \in Streams : s # c => deltaResponses'[s] = deltaResponses[s],
           UNCHANGED <<snapshots, sets, toClient>>, UNCHANGED <<Wants, Holds, Positions, Refusals>>
    PROVE  Service!Next
  <1> DEFINE res == SnapshotResources(StreamNode[c], u)
  <1>1. res \in ResourceMaps /\ StreamNode[c] \in Nodes
    <2>1. StreamNode[c] \in Nodes
      BY StreamAssumption
    <2>2. snapshots[StreamNode[c]] \in SnapshotRecords
      BY <2>1, SnapshotAssumption DEF TypeOK, CacheTypeOK, Exists
    <2> QED
      BY <2>1, <2>2 DEF SnapshotRecords, SnapshotResources
  <1>2. deltaResponses[c] \in Seq(DeltaResponses)
    BY ChannelAssumption DEF TypeOK, CacheTypeOK
  <1>3. PICK a : a = AnswerOf(c, d)
    OBVIOUS
  <1>4. /\ a.node = StreamNode[c] /\ a.type = u /\ a.index = sets /\ a.scope = Scope(state)
        /\ a.view = d.next
    BY <1>3 DEF AnswerOf
  <1>5. Service!IsAnswer(a)
    <2>1. DOMAIN res \subseteq Names
      BY <1>1 DEF ResourceMaps, Maps
    <2>2. InScope(state, res) = DOMAIN res \cap Scope(state)
      BY <2>1 DEF InScope, Scope
    <2>3. d.next = Restrict(res, DOMAIN res \cap Scope(state))
      BY <2>2 DEF createDeltaResponse
    <2>4. res = snapshots[StreamNode[c]].resources[u]
      BY DEF SnapshotResources
    <2> QED
      BY <1>4, <2>3, <2>4 DEF Service!IsAnswer, Service!Restrict, Restrict, Exists
  <1>6. InFlight(c)' = InFlight(c) \cup {d} /\ \A s \in Streams : s # c => InFlight(s)' = InFlight(s)
    <2>1. Range(Append(deltaResponses[c], d)) = Range(deltaResponses[c]) \cup {d}
      BY <1>2, AppendRange
    <2> QED
      BY <2>1 DEF InFlight
  <1>7. a \in Answers'
    BY <1>3, <1>6, AnswersAreNext
  <1>8. Answers' \subseteq Answers \cup {a}
    <2> SUFFICES ASSUME NEW b \in Answers' PROVE b \in Answers \cup {a}
      OBVIOUS
    <2>1. PICK s \in Streams : \E r \in InFlight(s)' : b = AnswerOf(s, r)
      BY AnswersAreNext
    <2>2. PICK r \in InFlight(s)' : b = AnswerOf(s, r)
      BY <2>1
    <2>3. CASE r \in InFlight(s)
      BY <2>2, <2>3, AnswersAre
    <2>4. CASE s = c /\ r = d
      BY <1>3, <2>2, <2>4
    <2> QED
      BY <1>6, <2>2, <2>3, <2>4
  <1> QED
    BY <1>5, <1>7, <1>8 DEF Service!Next, Service!Answer

----------------------------------------------------------------------------
(* Steps                                                                   *)

\* Queues and clients that stay.
LEMMA InFlightStays ==
    ASSUME UNCHANGED <<deltaResponses, toClient>>
    PROVE  \A s \in Streams : InFlight(s)' = InFlight(s)
  BY DEF InFlight

\* Clients that stay the same show the service the same.
LEMMA ClientsStay ==
    ASSUME UNCHANGED client
    PROVE  UNCHANGED <<Wants, Holds, Positions, Refusals>>
  BY DEF Wants, Holds, Positions, Refusals

\* SetSnapshot publishes, ClearSnapshot withdraws, RespondDeltaWatch answers.
LEMMA CacheService ==
    ASSUME ConvergeInv, CacheActs
    PROVE  Service!Next
  <1>1. TypeOK /\ WatchInv /\ LockDiscipline
    BY DEF ConvergeInv, ServerInv
  <1>2. UNCHANGED <<toClient, client>>
    BY DEF CacheActs, linkVars, clientVars
  <1>3. UNCHANGED <<Wants, Holds, Positions, Refusals>>
    BY <1>2, ClientsStay
  <1>4. ASSUME UNCHANGED deltaResponses PROVE UNCHANGED Answers
    BY <1>2, <1>4 DEF Answers
  <1>5. ASSUME UNCHANGED <<deltaResponses, snapshots, sets>> PROVE Service!Next
    <2>1. \A s \in Streams : InFlight(s)' \subseteq InFlight(s)
      BY <1>2, <1>5, InFlightStays
    <2> QED
      BY <1>3, <1>5, <2>1, Loses
  <1>6. ASSUME NEW n \in Nodes, NEW s \in Snapshots, SetSnapshot(n, s) PROVE Service!Next
    <2>1. /\ snapshots' = [snapshots EXCEPT ![n] = s] /\ sets' = sets + 1
          /\ UNCHANGED deltaResponses
      BY <1>6 DEF SetSnapshot, deltaVars
    <2>2. Service!Publish(n, s)
      BY <1>3, <1>4, <2>1 DEF Service!Publish
    <2> QED
      BY <2>2 DEF Service!Next
  <1>7. ASSUME NEW n \in Nodes, ClearSnapshot(n) PROVE Service!Next
    <2>1. snapshots' = [snapshots EXCEPT ![n] = NoSnapshot] /\ UNCHANGED <<sets, deltaResponses>>
      BY <1>7 DEF ClearSnapshot
    <2>2. Service!Withdraw(n)
      BY <1>3, <1>4, <2>1 DEF Service!Withdraw
    <2> QED
      BY <2>2 DEF Service!Next
  <1>8. ASSUME NEW w \in deltaTodo, RespondDeltaWatch(w) PROVE Service!Next
    <2>1. PICK c \in Streams : c = w.chan
      BY <1>1, <1>8, ChannelAssumption DEF TypeOK, CacheTypeOK, DeltaWatches
    <2>2. PICK u \in Types : u = w.type
      BY <1>1, <1>8 DEF TypeOK, CacheTypeOK, DeltaWatches
    <2>3. PICK state \in StreamStates : state = w.state
      BY <1>1, <1>8 DEF TypeOK, CacheTypeOK, DeltaWatches
    <2>4. w.node = StreamNode[c] /\ Exists(StreamNode[c])
      BY <1>1, <1>8, <2>1 DEF WatchInv, TypeOK, CacheTypeOK, LockDiscipline, RespondDeltaWatch
    <2> DEFINE r == createDeltaResponse(state, SnapshotResources(StreamNode[c], u))
    <2>5. PICK d : d = [type |-> u, resources |-> r.resources, removed |-> r.removed, next |-> r.next,
                        at |-> sets, scope |-> Scope(state)]
      OBVIOUS
    <2>6. deltaResponses' = [deltaResponses EXCEPT ![c] = Append(@, d)] /\ UNCHANGED <<snapshots, sets>>
      BY <1>8, <2>1, <2>2, <2>3, <2>4, <2>5 DEF RespondDeltaWatch, setVars
    <2>7. DOMAIN deltaResponses = Streams
      BY <1>1, ChannelAssumption DEF TypeOK, CacheTypeOK
    <2>8. /\ deltaResponses'[c] = Append(deltaResponses[c], d)
          /\ \A s \in Streams : s # c => deltaResponses'[s] = deltaResponses[s]
      BY <2>6, <2>7
    <2>9. d.type = u /\ d.at = sets /\ d.scope = Scope(state) /\ d.next = r.next
      BY <2>5
    <2> HIDE DEF r
    <2> QED
      BY <1>1, <1>2, <1>3, <2>4, <2>6, <2>8, <2>9, MakesAnswer DEF r
  <1>9. ASSUME NEW w, RespondWatch(w) \/ SendHeartbeat(w) \/ LoseHeartbeat(w)
        PROVE  UNCHANGED <<deltaResponses, snapshots, sets>>
    BY <1>9 DEF RespondWatch, SendHeartbeat, LoseHeartbeat, deltaVars, setVars
  <1>10. ASSUME NEW n, AbortSetSnapshot(n) PROVE UNCHANGED <<deltaResponses, snapshots, sets>>
    BY <1>10 DEF AbortSetSnapshot, deltaVars
  <1>11. ASSUME HeartbeatTick \/ CancelHeartbeats \/ StopHeartbeats
         PROVE  UNCHANGED <<deltaResponses, snapshots, sets>>
    BY <1>11 DEF HeartbeatTick, CancelHeartbeats, StopHeartbeats, deltaVars, setVars
  <1> QED
    BY <1>5, <1>6, <1>7, <1>8, <1>9, <1>10, <1>11 DEF CacheActs, CacheStep

\* The loop answers when it opens a watch; otherwise it moves answers, or they go
\* with the channel.
LEMMA LoopService ==
    ASSUME ConvergeInv, NEW c \in Streams, ServerActs(c)
    PROVE  Service!Next
  <1>1. TypeOK /\ CurrentInv
    BY DEF ConvergeInv, ServerInv
  <1>2. /\ deltaResponses \in [Streams -> Seq(DeltaResponses)] /\ toClient \in [Streams -> Seq(DeltaResponses)]
        /\ watching \in [Streams -> [Types -> Watchings]]
    BY <1>1, TypeParts, ChannelAssumption DEF CacheTypeOK, LinkTypeOK, LoopTypeOK
  <1>3. UNCHANGED client
    BY DEF ServerActs, SendResponse, RecvRequest, ProcessAll, CancelPrevious, OpenWatch, Exit, CloseWatch,
           CloseChannel, clientVars
  <1>4. UNCHANGED <<Wants, Holds, Positions, Refusals>>
    BY <1>3, ClientsStay
  <1>5. CASE SendResponse(c) \/ (ProcessAll(c) /\ deltaResponses[c] # <<>>)
    <2> DEFINE d == Head(deltaResponses[c])
    <2>1. deltaResponses[c] # <<>> /\ Process(c)
      BY <1>5 DEF SendResponse, ProcessAll
    <2>2. /\ deltaResponses' = [deltaResponses EXCEPT ![c] = Tail(@)]
          /\ toClient' = [toClient EXCEPT ![c] = IF live[c] THEN Append(@, d) ELSE @]
          /\ UNCHANGED <<snapshots, sets>>
      BY <2>1 DEF Process, setVars
    <2>3. /\ deltaResponses'[c] = Tail(deltaResponses[c])
          /\ toClient'[c] = Append(toClient[c], d) \/ toClient'[c] = toClient[c]
          /\ \A s \in Streams : s # c => deltaResponses'[s] = deltaResponses[s] /\ toClient'[s] = toClient[s]
      BY <1>2, <2>2
    <2>4. d \in Range(deltaResponses[c]) /\ Range(Tail(deltaResponses[c])) \subseteq Range(deltaResponses[c])
          /\ Range(Append(toClient[c], d)) = Range(toClient[c]) \cup {d}
      BY <1>2, <2>1, TailRange, AppendRange
    <2> HIDE DEF d
    <2>5. \A s \in Streams : InFlight(s)' \subseteq InFlight(s)
      BY <2>3, <2>4 DEF InFlight
    <2> QED
      BY <1>4, <2>2, <2>5, Loses
  <1>6. CASE \/ RecvRequest(c) \/ CancelPrevious(c) \/ Exit(c) \/ CloseChannel(c)
             \/ \E t \in Types : CloseWatch(c, t)
             \/ ProcessAll(c) /\ deltaResponses[c] = <<>>
    <2>1. UNCHANGED <<deltaResponses, snapshots, sets, toClient>>
      <3>1. CASE RecvRequest(c) \/ Exit(c) \/ CloseChannel(c) \/ (ProcessAll(c) /\ deltaResponses[c] = <<>>)
        <4>1. UNCHANGED <<cacheVars, toClient>>
          BY <3>1 DEF RecvRequest, Exit, CloseChannel, ProcessAll, linkVars
        <4> QED
          BY <4>1 DEF cacheVars, deltaVars, setVars
      <3>2. CASE CancelPrevious(c)
        <4>1. UNCHANGED toClient /\ (UNCHANGED cacheVars \/ \E n, id : CancelDeltaWatch(n, id))
          BY <3>2 DEF CancelPrevious, linkVars
        <4> QED
          BY <4>1 DEF cacheVars, deltaVars, setVars, CancelDeltaWatch
      <3>3. ASSUME NEW t \in Types, CloseWatch(c, t) PROVE UNCHANGED <<deltaResponses, snapshots, sets, toClient>>
        BY <3>3 DEF CloseWatch, CancelDeltaWatch, linkVars, setVars
      <3> QED
        BY <1>6, <3>1, <3>2, <3>3
    <2>2. \A s \in Streams : InFlight(s)' \subseteq InFlight(s)
      BY <2>1, InFlightStays
    <2> QED
      BY <1>4, <2>1, <2>2, Loses
  <1>7. CASE OpenWatch(c)
    <2>1. PICK u \in Types : u = current[c].type
      BY <1>1, <1>7 DEF OpenWatch, CurrentInv, DeltaDiscoveryRequests
    <2>2. PICK state \in StreamStates : state = watching[c][u].state
      BY <1>2 DEF Watchings
    <2> DEFINE r == createDeltaResponse(state, SnapshotResources(StreamNode[c], u))
    <2>3. PICK d : d = [type |-> u, resources |-> r.resources, removed |-> r.removed, next |-> r.next,
                        at |-> sets, scope |-> Scope(state)]
      OBVIOUS
    <2>4. /\ UNCHANGED <<snapshots, sets, toClient>>
          /\ \/ UNCHANGED deltaResponses
             \/ /\ Exists(StreamNode[c])
                /\ deltaResponses' = [deltaResponses EXCEPT ![c] = Append(@, d)]
      BY <1>7, <2>1, <2>2, <2>3 DEF OpenWatch, CreateDeltaWatch, setVars, linkVars
    <2>5. CASE UNCHANGED deltaResponses
      <3>1. \A s \in Streams : InFlight(s)' \subseteq InFlight(s)
        BY <2>4, <2>5, InFlightStays
      <3> QED
        BY <1>4, <2>4, <3>1, Loses
    <2>6. CASE Exists(StreamNode[c]) /\ deltaResponses' = [deltaResponses EXCEPT ![c] = Append(@, d)]
      <3>1. /\ deltaResponses'[c] = Append(deltaResponses[c], d)
            /\ \A s \in Streams : s # c => deltaResponses'[s] = deltaResponses[s]
        BY <1>2, <2>6
      <3>2. d.type = u /\ d.at = sets /\ d.scope = Scope(state) /\ d.next = r.next
        BY <2>3
      <3> HIDE DEF r
      <3> QED
        BY <1>1, <1>4, <2>4, <2>6, <3>1, <3>2, MakesAnswer DEF r
    <2> QED
      BY <2>4, <2>5, <2>6
  <1> QED
    BY <1>5, <1>6, <1>7 DEF ServerActs, ProcessAll

\* A client takes the response at the head of its stream: it leads the client to
\* the answer's view, or to a mixture once a response has been rejected.
LEMMA TakenAfter ==
    ASSUME NEW m \in Nodes, NEW u \in Types, NEW st \in ClientStates, NEW r \in DeltaResponses, NEW a,
           st = client[m][u], Leads(r, st), DOMAIN st.content \subseteq Wanted(st),
           a.node = m, a.type = u, a.scope = r.scope, a.view = r.next, a.kind = "delta"
    PROVE  IF st.rejected THEN Service!Mixture(a, Taken(r, st)) ELSE Taken(r, st) = Service!After(a)
  <1>1. Wants[m][u] = Wanted(st) /\ Holds[m][u] = st.content
    BY DEF Wants, Wanted, Holds
  <1>2. CASE ~st.rejected
    <2>1. Taken(r, st) = r.next /\ DOMAIN r.next \subseteq Wanted(st) /\ r.scope = Wanted(st)
      BY <1>2, TakenLeads DEF Leads
    <2>2. PICK D \in SUBSET Names : r.next \in [D -> Hashes]
      BY DEF DeltaResponses, ResourceMaps, Maps
    <2>3. Wants[m][u] \cap (DOMAIN r.next \cup (DOMAIN Holds[m][u] \ r.scope)) = D
      BY <1>1, <2>1, <2>2
    <2>4. Service!After(a) = [x \in D |-> r.next[x]]
      BY <2>2, <2>3 DEF Service!After
    <2> QED
      BY <1>2, <2>1, <2>2, <2>4
  <1>3. CASE st.rejected
    <2> DEFINE applied == Apply(st.content, r)
    <2>1. DOMAIN Taken(r, st) \subseteq DOMAIN applied /\ \A x \in DOMAIN Taken(r, st) : Taken(r, st)[x] = applied[x]
      BY DEF Taken, Restrict
    <2>2. \A x \in DOMAIN applied : \/ x \in DOMAIN r.resources /\ applied[x] = r.resources[x]
                                    \/ x \in DOMAIN st.content /\ applied[x] = st.content[x]
      BY DEF Apply
    <2> HIDE DEF applied
    <2>3. \A x \in DOMAIN r.resources : x \in DOMAIN r.next /\ r.resources[x] = r.next[x]
      BY DEF Leads
    <2>4. Service!Mixture(a, Taken(r, st))
      BY <1>1, <2>1, <2>2, <2>3 DEF Service!Mixture
    <2> QED
      BY <1>3, <2>4
  <1> QED
    BY <1>2, <1>3

\* The head of a client's wire goes.
LEMMA HeadGoes ==
    ASSUME TypeOK, NEW c \in Streams, toClient[c] # <<>>,
           toClient' = [toClient EXCEPT ![c] = Tail(@)], UNCHANGED deltaResponses
    PROVE  /\ Answers' \subseteq Answers
           /\ \A b \in Answers : b \in Answers' \/ b = AnswerOf(c, Head(toClient[c]))
           /\ AnswerOf(c, Head(toClient[c])) \in Answers
  <1>1. toClient \in [Streams -> Seq(DeltaResponses)]
    BY TypeParts DEF LinkTypeOK
  <1>2. /\ toClient'[c] = Tail(toClient[c]) /\ \A s \in Streams : s # c => toClient'[s] = toClient[s]
        /\ toClient[c] \in Seq(DeltaResponses)
    BY <1>1
  <1>3. PICK r : r = Head(toClient[c])
    OBVIOUS
  <1>4. /\ r \in Range(toClient[c]) /\ Range(toClient'[c]) \subseteq Range(toClient[c])
        /\ Range(toClient[c]) \subseteq Range(toClient'[c]) \cup {r}
    BY <1>2, <1>3, TailRange
  <1>5. /\ \A s \in Streams : InFlight(s)' \subseteq InFlight(s)
        /\ \A s \in Streams : \A x \in InFlight(s) : x \in InFlight(s)' \/ (s = c /\ x = r)
        /\ r \in InFlight(c)
    BY <1>2, <1>4 DEF InFlight
  <1>6. Answers' \subseteq Answers
    BY <1>5, AnswersShrink
  <1>7. ASSUME NEW b \in Answers PROVE b \in Answers' \/ b = AnswerOf(c, r)
    <2>1. PICK s \in Streams : \E x \in InFlight(s) : b = AnswerOf(s, x)
      BY AnswersAre
    <2>2. PICK x \in InFlight(s) : b = AnswerOf(s, x)
      BY <2>1
    <2>3. CASE x \in InFlight(s)'
      BY <2>2, <2>3, AnswersAreNext
    <2>4. CASE s = c /\ x = r
      BY <2>2, <2>4
    <2> QED
      BY <1>5, <2>3, <2>4
  <1>8. AnswerOf(c, r) \in Answers
    BY <1>5, AnswersAre
  <1> QED
    BY <1>3, <1>6, <1>7, <1>8

(* A grid of values that agrees with another one in all cells but one is    *)
(* that other one with the cell replaced.                                   *)
LEMMA GridUpdate ==
    ASSUME NEW S, NEW T, NEW V, NEW f \in [S -> [T -> V]], NEW g \in [S -> [T -> V]],
           NEW m \in S, NEW u \in T, NEW v,
           \A s \in S, t \in T : g[s][t] = IF s = m /\ t = u THEN v ELSE f[s][t]
    PROVE  g = [f EXCEPT ![m][u] = v]
  <1>1. PICK h : h = [f EXCEPT ![m][u] = v]
    OBVIOUS
  <1>2. h = [s \in S |-> IF s = m THEN [f[m] EXCEPT ![u] = v] ELSE f[s]]
    BY <1>1
  <1>3. ASSUME NEW s \in S
        PROVE  g[s] = h[s]
    <2>1. CASE s = m
      <3>1. h[s] = [f[m] EXCEPT ![u] = v] /\ g[m] \in [T -> V] /\ f[m] \in [T -> V]
        BY <1>2, <2>1
      <3>2. \A t \in T : g[m][t] = [f[m] EXCEPT ![u] = v][t]
        BY <3>1
      <3> QED
        BY <2>1, <3>1, <3>2
    <2>2. CASE s # m
      <3>1. h[s] = f[s] /\ g[s] \in [T -> V] /\ f[s] \in [T -> V]
        BY <1>2, <2>2
      <3> QED
        BY <2>2, <3>1
    <2> QED
      BY <2>1, <2>2
  <1> QED
    BY <1>1, <1>2, <1>3

\* Accepting a response is taking the answer.
LEMMA AckService ==
    ASSUME ConvergeInv, NEW m \in Nodes, Ack(m)
    PROVE  Service!Next
  <1>1. TypeOK /\ HoldingInv
    BY DEF ConvergeInv, ServerInv
  <1>2. conn[m] # NoStream /\ toClient[conn[m]] # <<>>
    BY DEF Ack
  <1>3. PICK c \in Streams, r \in DeltaResponses, u \in Types :
              /\ conn[m] = c /\ StreamNode[c] = m /\ r = Head(toClient[c]) /\ u = r.type
              /\ Leads(r, client[m][u]) /\ watching[c][u].state.versions = r.next
    BY <1>2, AtHead
  <1>4. client \in [Nodes -> [Types -> ClientStates]] /\ sets \in Nat
    BY <1>1, TypeParts DEF ClientTypeOK, CacheTypeOK
  <1>4a. client' \in [Nodes -> [Types -> ClientStates]]
    BY <1>1, ClientType DEF TypeOK, ClientStates
  <1>5. PICK st \in ClientStates : st = client[m][u]
    BY <1>4
  <1> DEFINE st2 == [st EXCEPT !.content = Taken(r, st), !.at = r.at, !.dropped = @ \cap r.scope]
  <1>6. client' = [client EXCEPT ![m][u].content = Taken(r, st), ![m][u].at = r.at,
                                 ![m][u].dropped = @ \cap r.scope]
    BY <1>3, <1>5 DEF Ack, Taken
  <1>7. client' = [client EXCEPT ![m][u] = st2]
    BY <1>4, <1>5, <1>6
  <1>8. /\ st2.wildcard = st.wildcard /\ st2.names = st.names /\ st2.rejected = st.rejected
        /\ st2.content = Taken(r, st) /\ st2.at = r.at
    BY DEF ClientStates
  <1> HIDE DEF st2
  <1>9. client'[m][u] = st2 /\ \A n \in Nodes, t \in Types : n # m \/ t # u => client'[n][t] = client[n][t]
    BY <1>4, <1>7
  <1>10. toClient' = [toClient EXCEPT ![c] = Tail(@)] /\ UNCHANGED <<deltaResponses, snapshots, sets>>
    BY <1>3 DEF Ack, cacheVars, deltaVars, setVars
  <1>11. PICK a : a = AnswerOf(c, r)
    OBVIOUS
  <1>12. /\ a.node = m /\ a.type = u /\ a.index = r.at /\ a.scope = r.scope /\ a.view = r.next
         /\ a.kind = "delta"
    BY <1>3, <1>11 DEF AnswerOf
  <1>13. a \in Answers /\ Answers' \subseteq Answers /\ Answers \ {a} \subseteq Answers'
    BY <1>1, <1>2, <1>3, <1>10, <1>11, HeadGoes
  <1>14. UNCHANGED <<Wants, Refusals>>
    <2>1. ASSUME NEW n \in Nodes, NEW t \in Types
          PROVE  /\ client'[n][t].wildcard = client[n][t].wildcard /\ client'[n][t].names = client[n][t].names
                 /\ client'[n][t].rejected = client[n][t].rejected
      BY <1>5, <1>8, <1>9
    <2> QED
      BY <2>1 DEF Wants, Refusals
  <1>15. Positions' = [Positions EXCEPT ![m][u] = r.at]
    <2>1. PICK at : at = r.at
      OBVIOUS
    <2>2. ASSUME NEW n \in Nodes, NEW t \in Types
          PROVE  client'[n][t].at = IF n = m /\ t = u THEN at ELSE client[n][t].at
      BY <1>8, <1>9, <2>1
    <2>3. Positions' = [Positions EXCEPT ![m][u] = at]
      <3>1. Positions \in [Nodes -> [Types -> Nat]] /\ Positions' \in [Nodes -> [Types -> Nat]]
        BY <1>4, <1>4a DEF Positions, ClientStates
      <3>2. \A n \in Nodes, t \in Types :
                Positions'[n][t] = IF n = m /\ t = u THEN at ELSE Positions[n][t]
        BY <2>2 DEF Positions
      <3> QED
        BY <3>1, <3>2, GridUpdate
    <2> QED
      BY <2>1, <2>3
  <1>16. Holds' = [Holds EXCEPT ![m][u] = Taken(r, st)]
    <2>1. PICK content : content = Taken(r, st)
      OBVIOUS
    <2>2. ASSUME NEW n \in Nodes, NEW t \in Types
          PROVE  client'[n][t].content = IF n = m /\ t = u THEN content ELSE client[n][t].content
      BY <1>8, <1>9, <2>1
    <2>3. Holds' = [Holds EXCEPT ![m][u] = content]
      <3>1. Holds \in [Nodes -> [Types -> ResourceMaps]] /\ Holds' \in [Nodes -> [Types -> ResourceMaps]]
        BY <1>4, <1>4a DEF Holds, ClientStates
      <3>2. \A n \in Nodes, t \in Types :
                Holds'[n][t] = IF n = m /\ t = u THEN content ELSE Holds[n][t]
        BY <2>2 DEF Holds
      <3> QED
        BY <3>1, <3>2, GridUpdate
    <2> QED
      BY <2>1, <2>3
  <1>17. Holds'[m][u] = Taken(r, st)
    BY <1>16 DEF Holds
  <1>18. IF st.rejected THEN Service!Mixture(a, Taken(r, st)) ELSE Taken(r, st) = Service!After(a)
    <2>1. Leads(r, st) /\ DOMAIN st.content \subseteq Wanted(st)
      BY <1>1, <1>3, <1>5 DEF HoldingInv
    <2> QED
      BY <1>5, <1>12, <2>1, TakenAfter
  <1>19. Positions[m][u] = st.at /\ Refusals[m][u] = st.rejected /\ r.at >= st.at
    BY <1>3, <1>4, <1>5 DEF Positions, Refusals, Leads, ClientStates
  <1>20. Service!Take(a)
    BY <1>10, <1>12, <1>13, <1>14, <1>15, <1>16, <1>17, <1>18, <1>19 DEF Service!Take
  <1> QED
    BY <1>13, <1>20 DEF Service!Next

\* Rejecting it is refusing the answer.
LEMMA NackService ==
    ASSUME ConvergeInv, NEW m \in Nodes, Nack(m)
    PROVE  Service!Next
  <1>1. TypeOK
    BY DEF ConvergeInv, ServerInv
  <1>2. conn[m] # NoStream /\ toClient[conn[m]] # <<>>
    BY DEF Nack
  <1>3. PICK c \in Streams, r \in DeltaResponses, u \in Types :
              /\ conn[m] = c /\ StreamNode[c] = m /\ r = Head(toClient[c]) /\ u = r.type
              /\ Leads(r, client[m][u]) /\ watching[c][u].state.versions = r.next
    BY <1>2, AtHead
  <1>4. client \in [Nodes -> [Types -> ClientStates]]
    BY <1>1, TypeParts DEF ClientTypeOK
  <1>5. PICK st \in ClientStates : st = client[m][u]
    BY <1>4
  <1> DEFINE st2 == [st EXCEPT !.rejected = TRUE]
  <1>6. client' = [client EXCEPT ![m][u] = st2]
    BY <1>3, <1>5 DEF Nack
  <1>7. /\ st2.wildcard = st.wildcard /\ st2.names = st.names /\ st2.rejected = TRUE
        /\ st2.content = st.content /\ st2.at = st.at
    BY DEF ClientStates
  <1> HIDE DEF st2
  <1>8. client'[m][u] = st2 /\ \A n \in Nodes, t \in Types : n # m \/ t # u => client'[n][t] = client[n][t]
    BY <1>4, <1>6
  <1>9. toClient' = [toClient EXCEPT ![c] = Tail(@)] /\ UNCHANGED <<deltaResponses, snapshots, sets>>
    BY <1>3 DEF Nack, cacheVars, deltaVars, setVars
  <1>10. Answers' \subseteq Answers
    BY <1>1, <1>2, <1>3, <1>9, HeadGoes
  <1>11. UNCHANGED <<Wants, Holds, Positions>>
    <2>1. ASSUME NEW n \in Nodes, NEW t \in Types
          PROVE  /\ client'[n][t].wildcard = client[n][t].wildcard /\ client'[n][t].names = client[n][t].names
                 /\ client'[n][t].content = client[n][t].content /\ client'[n][t].at = client[n][t].at
      BY <1>5, <1>7, <1>8
    <2> QED
      BY <2>1 DEF Wants, Holds, Positions
  <1>12. Refusals' = [Refusals EXCEPT ![m][u] = TRUE]
    <2>1. ASSUME NEW n \in Nodes, NEW t \in Types
          PROVE  client'[n][t].rejected = IF n = m /\ t = u THEN TRUE ELSE client[n][t].rejected
      BY <1>7, <1>8
    <2> QED
      BY <2>1 DEF Refusals
  <1>13. Service!Refuse(m, u)
    BY <1>9, <1>10, <1>11, <1>12 DEF Service!Refuse
  <1> QED
    BY <1>13 DEF Service!Next

\* Connecting, disconnecting and asking.
LEMMA ClientService ==
    ASSUME ConvergeInv,
           \/ \E s \in Streams : Connect(s) \/ Disconnect(s)
           \/ \E n \in Nodes, t \in Types : Ask(n, t)
    PROVE  Service!Next
  <1>1. client \in [Nodes -> [Types -> ClientStates]] /\ toClient \in [Streams -> Seq(DeltaResponses)]
    BY TypeParts DEF ConvergeInv, ServerInv, ClientTypeOK, LinkTypeOK
  <1>2. UNCHANGED <<deltaResponses, snapshots, sets>>
    <2>1. UNCHANGED cacheVars
      BY DEF Connect, Disconnect, Ask
    <2> QED
      BY <2>1 DEF cacheVars, deltaVars, setVars
  <1>3. ASSUME NEW c \in Streams, Disconnect(c) PROVE Service!Next
    <2>1. toClient' = [toClient EXCEPT ![c] = <<>>] /\ UNCHANGED client
      BY <1>3 DEF Disconnect
    <2>2. Range(<<>>) = {}
      BY DEF Range
    <2>3. \A s \in Streams : Range(toClient'[s]) \subseteq Range(toClient[s])
      BY <1>1, <2>1, <2>2
    <2>4. \A s \in Streams : InFlight(s)' \subseteq InFlight(s)
      BY <1>2, <2>3 DEF InFlight
    <2> QED
      BY <1>2, <2>1, <2>4, ClientsStay, Loses
  <1>4. ASSUME UNCHANGED toClient,
               \A n \in Nodes, t \in Types :
                  client'[n][t] = client[n][t] \/ \E v : client'[n][t] = [client[n][t] EXCEPT !.asked = v]
        PROVE  Service!Next
    <2>1. ASSUME NEW n \in Nodes, NEW t \in Types
          PROVE  /\ client'[n][t].wildcard = client[n][t].wildcard /\ client'[n][t].names = client[n][t].names
                 /\ client'[n][t].content = client[n][t].content /\ client'[n][t].at = client[n][t].at
                 /\ client'[n][t].rejected = client[n][t].rejected
      <3>1. PICK st \in ClientStates : st = client[n][t]
        BY <1>1
      <3>2. CASE client'[n][t] = st
        BY <3>1, <3>2
      <3>3. ASSUME NEW v, client'[n][t] = [st EXCEPT !.asked = v]
            PROVE  /\ client'[n][t].wildcard = st.wildcard /\ client'[n][t].names = st.names
                   /\ client'[n][t].content = st.content /\ client'[n][t].at = st.at
                   /\ client'[n][t].rejected = st.rejected
        BY <3>3 DEF ClientStates
      <3>4. client'[n][t] = st \/ \E v : client'[n][t] = [st EXCEPT !.asked = v]
        BY <1>4, <3>1
      <3> QED
        BY <3>1, <3>2, <3>3, <3>4
    <2>2. UNCHANGED <<Wants, Holds, Positions, Refusals>>
      BY <2>1, ViewsStay
    <2>3. \A s \in Streams : InFlight(s)' \subseteq InFlight(s)
      BY <1>2, <1>4, InFlightStays
    <2> QED
      BY <1>2, <2>2, <2>3, Loses
  <1>5. ASSUME NEW c \in Streams, Connect(c) PROVE Service!Next
    <2>1. PICK m \in Nodes : m = StreamNode[c]
      BY StreamAssumption
    <2>2. /\ client' = [client EXCEPT ![m] = [t \in Types |-> [@[t] EXCEPT !.asked = FALSE]]]
          /\ UNCHANGED toClient
      BY <1>5, <2>1 DEF Connect
    <2>3. \A n \in Nodes, t \in Types :
             client'[n][t] = client[n][t] \/ client'[n][t] = [client[n][t] EXCEPT !.asked = FALSE]
      BY <1>1, <2>2
    <2> QED
      BY <1>4, <2>2, <2>3
  <1>6. ASSUME NEW n \in Nodes, NEW t \in Types, Ask(n, t) PROVE Service!Next
    <2>1. client' = [client EXCEPT ![n][t].asked = TRUE] /\ UNCHANGED toClient
      BY <1>6 DEF Ask
    <2>2. \A m \in Nodes, u \in Types :
             client'[m][u] = client[m][u] \/ client'[m][u] = [client[m][u] EXCEPT !.asked = TRUE]
      BY <1>1, <2>1
    <2> QED
      BY <1>4, <2>1, <2>2
  <1> QED
    BY <1>3, <1>5, <1>6

----------------------------------------------------------------------------
(* The refinement                                                          *)

\* Every step is one of the service.
LEMMA ServiceStep ==
    ASSUME Changes = {}, ConvergeInv, [Next]_vars
    PROVE  [Service!Next]_(Service!vars)
  <1>1. ASSUME NEW n \in Nodes, NEW t \in Types, NEW x \in Names,
               SubscribeName(n, t, x) \/ UnsubscribeName(n, t, x)
        PROVE  FALSE
    BY <1>1 DEF SubscribeName, UnsubscribeName, Change
  <1>2. ASSUME NEW n \in Nodes, NEW t \in Types, SubscribeStar(n, t) \/ UnsubscribeStar(n, t)
        PROVE  FALSE
    BY <1>2 DEF SubscribeStar, UnsubscribeStar, Change
  <1>3. CASE UNCHANGED vars
    <2>1. UNCHANGED <<snapshots, sets, deltaResponses, toClient, client>>
      BY <1>3 DEF vars, cacheVars, deltaVars, setVars, linkVars, clientVars
    <2>2. \A s \in Streams : InFlight(s)' \subseteq InFlight(s)
      BY <2>1, InFlightStays
    <2>3. Service!Next
      BY <2>1, <2>2, ClientsStay, Loses
    <2> QED
      BY <2>3
  <1>4. CASE Next
    <2>1. Service!Next
      BY <1>1, <1>2, <1>4, CacheService, LoopService, AckService, NackService, ClientService DEF Next
    <2> QED
      BY <2>1
  <1> QED
    BY <1>3, <1>4

\* Seen from its clients, the delta streams are the discovery service: although
\* every response is only a difference to what the stream believes its client
\* has, a client that applies them in turn has, after each, exactly what the
\* snapshot the response was made from has of its subscription, and no client
\* goes back to an older snapshot, reconnecting included (processDelta,
\* createDeltaResponse, CreateDeltaWatch).
THEOREM DeltaStreamsImplementService ==
    ASSUME Changes = {}
    PROVE  Spec => ImplementsService
  BY InitService, ServiceStep, InitConverge, ConvergeStep, PTL DEF Spec, ImplementsService, Service!Spec

=============================================================================
