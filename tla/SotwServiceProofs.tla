------------------------- MODULE SotwServiceProofs --------------------------
(***************************************************************************)
(* What the state-of-the-world streams give to their clients, for all      *)
(* nodes, streams, types, names, snapshots and bounds.                     *)
(*                                                                         *)
(* They implement the discovery service: SetSnapshot publishes,            *)
(* ClearSnapshot withdraws, answering a watch or a request makes an answer,*)
(* Ack takes it, Nack refuses it, asking for other names changes the       *)
(* interest; every other step loses answers or none.                       *)
(***************************************************************************)
EXTENDS SotwServerProofs

----------------------------------------------------------------------------
(* Queues                                                                  *)

\* What a queue has with one more element, and without its head.
LEMMA AppendParts ==
    ASSUME NEW S, NEW q \in Seq(S), NEW d
    PROVE  /\ DOMAIN Append(q, d) = DOMAIN q \cup {Len(q) + 1}
           /\ Append(q, d)[Len(q) + 1] = d
           /\ \A i \in DOMAIN q : i \in Nat /\ i < Len(q) + 1 /\ Append(q, d)[i] = q[i]
           /\ Len(q) + 1 \in Nat
  OBVIOUS

\* What a queue has without its head.
LEMMA TailParts ==
    ASSUME NEW S, NEW q \in Seq(S), q # <<>>
    PROVE  /\ 1 \in DOMAIN q /\ Head(q) = q[1] /\ Head(q) \in S
           /\ \A i \in DOMAIN Tail(q) : i \in Nat /\ i + 1 \in DOMAIN q /\ Tail(q)[i] = q[i + 1]
           /\ \A i \in DOMAIN q : i \in Nat /\ i >= 1
                                  /\ (i = 1 \/ (i - 1 \in DOMAIN Tail(q) /\ Tail(q)[i - 1] = q[i]))
  <1>1. Len(q) >= 1 /\ Len(Tail(q)) = Len(q) - 1 /\ Tail(q) \in Seq(S) /\ Len(q) \in Nat
    OBVIOUS
  <1>2. \A i \in 1 .. Len(Tail(q)) : Tail(q)[i] = q[i + 1]
    BY <1>1
  <1> QED
    BY <1>1, <1>2

\* The elements of a queue with one more.
LEMMA AppendRange ==
    ASSUME NEW S, NEW q \in Seq(S), NEW d
    PROVE  Range(Append(q, d)) = Range(q) \cup {d}
  <1> DEFINE p == Append(q, d)
             k == Len(q) + 1
  <1>1. DOMAIN p = DOMAIN q \cup {k} /\ p[k] = d /\ \A i \in DOMAIN q : p[i] = q[i]
    BY AppendParts
  <1> HIDE DEF p, k
  <1>2. Range(p) = Range(q) \cup {d}
    BY <1>1 DEF Range
  <1> QED
    BY <1>2 DEF p

\* The elements of a queue without its head.
LEMMA TailRange ==
    ASSUME NEW S, NEW q \in Seq(S), q # <<>>
    PROVE  /\ Head(q) \in Range(q) /\ Range(Tail(q)) \subseteq Range(q)
           /\ Range(q) \subseteq Range(Tail(q)) \cup {Head(q)}
  <1> DEFINE p == Tail(q)
  <1>1. /\ 1 \in DOMAIN q /\ Head(q) = q[1]
        /\ \A i \in DOMAIN p : i + 1 \in DOMAIN q /\ p[i] = q[i + 1]
        /\ \A i \in DOMAIN q : i = 1 \/ (i - 1 \in DOMAIN p /\ p[i - 1] = q[i])
    BY TailParts
  <1> HIDE DEF p
  <1>2. Head(q) \in Range(q) /\ Range(p) \subseteq Range(q) /\ Range(q) \subseteq Range(p) \cup {Head(q)}
    BY <1>1 DEF Range
  <1> QED
    BY <1>2 DEF p

\* An empty queue has none.
LEMMA EmptyRange == Range(<<>>) = {}
  BY DEF Range

(* A grid of values that agrees with another one in all cells but one is    *)
(* that other one with the cell replaced.                                   *)
LEMMA GridUpdate ==
    ASSUME NEW S, NEW T, NEW V, NEW f \in [S -> [T -> V]], NEW g \in [S -> [T -> V]],
           NEW m \in S, NEW u \in T, NEW v,
           \A s \in S, t \in T : g[s][t] = IF s = m /\ t = u THEN v ELSE f[s][t]
    PROVE  g = [f EXCEPT ![m][u] = v]
  <1>1. PICK h : h = [f EXCEPT ![m][u] = v]
    OBVIOUS
  <1>2. h = [s \in S |-> IF s = m THEN [f[m] EXCEPT ![u] = v] ELSE f[s]]
    BY <1>1
  <1>3. ASSUME NEW s \in S
        PROVE  g[s] = h[s]
    <2>1. CASE s = m
      <3>1. h[s] = [f[m] EXCEPT ![u] = v] /\ g[m] \in [T -> V] /\ f[m] \in [T -> V]
        BY <1>2, <2>1
      <3>2. \A t \in T : g[m][t] = [f[m] EXCEPT ![u] = v][t]
        BY <3>1
      <3> QED
        BY <2>1, <3>1, <3>2
    <2>2. CASE s # m
      <3>1. h[s] = f[s] /\ g[s] \in [T -> V] /\ f[s] \in [T -> V]
        BY <1>2, <2>2
      <3> QED
        BY <2>2, <3>1
    <2> QED
      BY <2>1, <2>2
  <1> QED
    BY <1>1, <1>2, <1>3

----------------------------------------------------------------------------
(* Streams and their clients                                               *)

\* The client of its node uses the stream.
Used(s) == conn[StreamNode[s]] = s

\* A stream that is used runs; one that was not opened yet has nothing.
OpenedOK(s) ==
    /\ Used(s) => live[s] /\ pc[s] \notin {"idle", "closing", "closed"}
    /\ pc[s] = "idle" =>
         /\ toServer[s] = <<>> /\ toClient[s] = <<>> /\ resent[s] = NoRequest /\ nonce[s] = 0
         /\ \A c \in Channels : c[1] = s => responses[c] = <<>>
         /\ \A t \in Types : /\ responders[s][t] = NoWatch
                             /\ known[s][t] = {}
                             /\ last[s][t] = [nonce |-> 0, names |-> {}]

\* A response is in the channel of its type and stream.
PlaceOK(s) ==
    \A c \in Channels : c[1] = s =>
        \A i \in DOMAIN responses[c] :
            /\ responses[c][i].request.node = StreamNode[s]
            /\ c = Channel(s, responses[c][i].request.type)

\* The requests of a stream that are on the wire or in the loop's hands.
Requested(s) ==
    Range(toServer[s]) \cup ({resent[s]} \ {NoRequest}) \cup {x \in {current[s]} : Handling(s)}

\* The name sets that requests and responses of a type under way are about.
Asked(s, t) ==
    {r.names : r \in {x \in Requested(s) : x.type = t}}
        \cup {r.names : r \in {x \in Range(toClient[s]) : x.type = t}}
        \cup {w.names : w \in {x \in {responders[s][t]} : x.active}}

\* They all are for all resources of the type, or all for named ones, as the
\* client wants it now; a client that follows its resources names them.
NamesOK(s) ==
    Used(s) => \A t \in Types : \A N \in Asked(s, t) :
                  /\ N = {} <=> client[StreamNode[s]][t].names = {}
                  /\ Followed(t) => N # {}

\* A response of a type is not made from an older snapshot than those sent
\* before it or accepted: first what the client has, then the wire, then the
\* channel, each in its order.
Aged(at, wire, buffer, t, top) ==
    /\ \A i \in DOMAIN wire : wire[i].type = t =>
         /\ at <= wire[i].at /\ wire[i].at <= top
         /\ \A j \in DOMAIN wire : wire[j].type = t /\ i < j => wire[i].at <= wire[j].at
         /\ \A k \in DOMAIN buffer : buffer[k].request.type = t => wire[i].at <= buffer[k].at
    /\ \A k \in DOMAIN buffer : buffer[k].request.type = t =>
         /\ at <= buffer[k].at /\ buffer[k].at <= top
         /\ \A j \in DOMAIN buffer : buffer[j].request.type = t /\ k < j => buffer[k].at <= buffer[j].at

AgeOK(s) ==
    Used(s) => \A t \in Types :
                  Aged(client[StreamNode[s]][t].at, toClient[s], responses[Channel(s, t)], t, sets)

\* A client holds what it wants, from a snapshot that was set.
HoldingInv ==
    \A n \in Nodes, t \in Types :
        /\ client[n][t].at <= sets
        /\ client[n][t].names # {} => DOMAIN client[n][t].content \subseteq client[n][t].names

\* A client uses a stream of its own.
ConnInv == \A n \in Nodes : conn[n] # NoStream => StreamNode[conn[n]] = n

StreamInv == \A s \in Streams : OpenedOK(s) /\ PlaceOK(s) /\ NamesOK(s) /\ AgeOK(s)

ServiceInv == ServerInv /\ ConnInv /\ StreamInv /\ HoldingInv

----------------------------------------------------------------------------
(* What a step leaves alone                                                *)

Untouched(s) ==
    /\ toServer'[s] = toServer[s] /\ toClient'[s] = toClient[s] /\ resent'[s] = resent[s]
    /\ pc'[s] = pc[s] /\ current'[s] = current[s] /\ live'[s] = live[s]
    /\ nonce'[s] = nonce[s] /\ last'[s] = last[s] /\ known'[s] = known[s]
    /\ responders'[s] = responders[s]
    /\ \A c \in Channels : c[1] = s => responses'[c] = responses[c]

\* The step is one of the stream s or of the client that uses it.
Elsewhere(s) ==
    /\ \A s2 \in Streams : s2 # s => Untouched(s2)
    /\ \A n \in Nodes : \/ n = StreamNode[s] /\ conn'[n] \in {s, NoStream}
                        \/ conn'[n] = conn[n] /\ client'[n] = client[n]
    /\ UNCHANGED setVars

\* The stream that the client of a node uses is its own, and runs.
LEMMA NodeOfStream ==
    ASSUME ServiceInv, NEW n \in Nodes, conn[n] # NoStream
    PROVE  /\ conn[n] \in Streams /\ StreamNode[conn[n]] = n /\ Used(conn[n])
           /\ live[conn[n]] /\ pc[conn[n]] \notin {"idle", "closing", "closed"}
  <1>1. conn[n] \in Streams /\ StreamNode[conn[n]] = n
    BY DEF ServiceInv, ConnInv, ServerInv, TypeOK
  <1>2. Used(conn[n])
    BY <1>1 DEF Used
  <1> QED
    BY <1>1, <1>2 DEF ServiceInv, StreamInv, OpenedOK

\* A step of a client.
LEMMA ClientElsewhere ==
    ASSUME ServiceInv, NEW n \in Nodes,
           \/ \E t \in Types : Ask(n, t) \/ AskMore(n, t) \/ Follow(n, t)
           \/ Ack(n) \/ Nack(n)
    PROVE  /\ conn[n] # NoStream /\ Elsewhere(conn[n])
           /\ UNCHANGED <<cacheVars, loopVars, watcherVars, sentVars, conn, live>>
  <1> DEFINE Rest == /\ conn[n] # NoStream
                     /\ UNCHANGED <<cacheVars, loopVars, watcherVars, sentVars, conn, live>>
             Mine == /\ \E q : toServer' = [toServer EXCEPT ![conn[n]] = q]
                     /\ UNCHANGED toClient \/ \E q : toClient' = [toClient EXCEPT ![conn[n]] = q]
                     /\ \E t, v : client' = [client EXCEPT ![n][t] = v]
  <1>0. /\ toServer \in [Streams -> Seq(DiscoveryRequests)] /\ toClient \in [Streams -> Seq(DiscoveryResponses)]
        /\ client \in [Nodes -> [Types -> ClientStates]]
    BY DEF ServiceInv, ServerInv, TypeOK, ClientStates
  <1>1. Rest
    BY DEF Ask, AskMore, Follow, Ack, Nack, streamVars
  <1>2. Mine
    <2>1. ASSUME NEW t \in Types, Ask(n, t) PROVE Mine
      <3>1. UNCHANGED toClient /\ \E q : toServer' = [toServer EXCEPT ![conn[n]] = q]
        BY <2>1 DEF Ask
      <3>2. PICK v : client' = [client EXCEPT ![n][t].asked = TRUE, ![n][t].version = v]
        BY <2>1 DEF Ask
      <3>3. client' = [client EXCEPT ![n][t] = [@ EXCEPT !.asked = TRUE, !.version = v]]
        BY <1>0, <3>2
      <3> QED
        BY <3>1, <3>3
    <2>2. ASSUME NEW t \in Types, AskMore(n, t) PROVE Mine
      BY <2>2 DEF AskMore
    <2>3. ASSUME NEW t \in Types, Follow(n, t) PROVE Mine
      <3>1. UNCHANGED toClient /\ \E q : toServer' = [toServer EXCEPT ![conn[n]] = q]
        BY <2>3 DEF Follow
      <3>2. PICK names, content : client' = [client EXCEPT ![n][t].asked = TRUE, ![n][t].names = names,
                                                           ![n][t].content = content]
        BY <2>3 DEF Follow
      <3>3. client' = [client EXCEPT ![n][t] = [@ EXCEPT !.asked = TRUE, !.names = names, !.content = content]]
        BY <1>0, <3>2
      <3> QED
        BY <3>1, <3>3
    <2>4. CASE Ack(n)
      BY <2>4 DEF Ack
    <2>5. CASE Nack(n)
      <3> DEFINE r == Head(toClient[conn[n]])
                 t == r.type
      <3>1. /\ \E q : toServer' = [toServer EXCEPT ![conn[n]] = q]
            /\ \E q : toClient' = [toClient EXCEPT ![conn[n]] = q]
        BY <2>5 DEF Nack
      <3>2. client' = [client EXCEPT ![n][t].received = r.version, ![n][t].nonce = r.nonce,
                                     ![n][t].rejected = TRUE]
        BY <2>5 DEF Nack
      <3> HIDE DEF r
      <3>3. client' = [client EXCEPT ![n][t] = [@ EXCEPT !.received = r.version, !.nonce = r.nonce,
                                                         !.rejected = TRUE]]
        BY <1>0, <3>2
      <3> QED
        BY <3>1, <3>3
    <2> QED
      BY <2>1, <2>2, <2>3, <2>4, <2>5
  <1> HIDE DEF Mine
  <1>3. StreamNode[conn[n]] = n
    BY <1>1, NodeOfStream
  <1>4. \A s2 \in Streams : s2 # conn[n] => toServer'[s2] = toServer[s2] /\ toClient'[s2] = toClient[s2]
    BY <1>0, <1>2 DEF Mine
  <1>5. \A m \in Nodes : m # n => client'[m] = client[m]
    BY <1>0, <1>2 DEF Mine
  <1>6. UNCHANGED <<setVars, responses>> /\ UNCHANGED <<pc, current, resent, responders, known, nonce, last, conn, live>>
    BY <1>1 DEF cacheVars, watchVars, loopVars, watcherVars, sentVars
  <1> QED
    BY <1>1, <1>3, <1>4, <1>5, <1>6 DEF Elsewhere, Untouched

\* A step of the server for a stream, or one that opens or ends it.
LEMMA ServerElsewhere ==
    ASSUME ServiceInv, NEW s \in Streams,
           \/ ServerActs(s) \/ CloseRequests(s) \/ Connect(s) \/ Disconnect(s) \/ RefuseRequest(s)
    PROVE  Elsewhere(s)
  <1> DEFINE Mine == /\ \A s2 \in Streams : s2 # s =>
                          /\ toServer'[s2] = toServer[s2] /\ toClient'[s2] = toClient[s2]
                          /\ resent'[s2] = resent[s2] /\ pc'[s2] = pc[s2] /\ current'[s2] = current[s2]
                          /\ live'[s2] = live[s2]
                          /\ nonce'[s2] = nonce[s2] /\ last'[s2] = last[s2] /\ known'[s2] = known[s2]
                          /\ responders'[s2] = responders[s2]
                     /\ \A c \in Channels : c[1] # s => responses'[c] = responses[c]
                     /\ \A n \in Nodes : \/ n = StreamNode[s] /\ conn'[n] \in {s, NoStream}
                                         \/ conn'[n] = conn[n] /\ client'[n] = client[n]
                     /\ UNCHANGED setVars
  <1> SUFFICES Mine
    BY DEF Elsewhere, Untouched
  <1>0. TypeOK /\ TypeInv /\ responses \in [Channels -> Seq(Responses)] /\ StreamNode[s] \in Nodes
    BY StreamAssumption DEF ServiceInv, ServerInv, TypeInv, TypeOK, CacheTypeOK
  <1>1. ASSUME UNCHANGED cacheVars PROVE UNCHANGED <<responses, setVars>>
    BY <1>1 DEF cacheVars, watchVars
  <1>2. CASE EnterADS(s) \/ Exit(s) \/ CloseMux(s) \/ Closed(s) \/ CloseRequests(s)
    <2>1. UNCHANGED cacheVars
      BY <1>2 DEF EnterADS, Exit, CloseMux, Closed, CloseRequests
    <2>2. UNCHANGED <<current, responders, known, nonce, last, toClient, live, conn, client>>
      BY <1>2 DEF EnterADS, Exit, CloseMux, Closed, CloseRequests, loopVars, watcherVars, sentVars,
                  linkVars, streamVars, clientVars
    <2>3. \A s2 \in Streams : s2 # s => toServer'[s2] = toServer[s2] /\ pc'[s2] = pc[s2] /\ resent'[s2] = resent[s2]
      BY <1>0, <1>2 DEF EnterADS, Exit, CloseMux, Closed, CloseRequests, loopVars, linkVars, TypeOK
    <2> QED
      BY <1>1, <2>1, <2>2, <2>3
  <1>3. CASE Connect(s) \/ Disconnect(s) \/ RefuseRequest(s)
    <2>1. UNCHANGED cacheVars
      BY <1>3 DEF Connect, Disconnect, RefuseRequest
    <2>2. UNCHANGED <<current, responders, known, nonce, last>>
      BY <1>3 DEF Connect, Disconnect, RefuseRequest, loopVars, watcherVars, sentVars
    <2>3. \A s2 \in Streams : s2 # s => /\ toClient'[s2] = toClient[s2] /\ pc'[s2] = pc[s2]
                                        /\ live'[s2] = live[s2]
      BY <1>0, <1>3 DEF Connect, Disconnect, RefuseRequest, loopVars, linkVars, TypeOK
    <2>4. \A s2 \in Streams : s2 # s => toServer'[s2] = toServer[s2] /\ resent'[s2] = resent[s2]
      BY <1>0, <1>3 DEF Connect, Disconnect, RefuseRequest, Take, loopVars, linkVars, TypeOK
    <2>5. \A n \in Nodes : \/ n = StreamNode[s] /\ conn'[n] \in {s, NoStream}
                           \/ conn'[n] = conn[n] /\ client'[n] = client[n]
      <3>1. CASE Connect(s)
        BY <1>0, <3>1 DEF Connect, TypeOK
      <3>2. CASE Disconnect(s) \/ RefuseRequest(s)
        <4>1. UNCHANGED client /\ conn' = [conn EXCEPT ![StreamNode[s]] = NoStream]
          BY <3>2 DEF Disconnect, RefuseRequest
        <4> QED
          BY <1>0, <4>1 DEF TypeOK
      <3> QED
        BY <1>3, <3>1, <3>2
    <2> QED
      BY <1>1, <2>1, <2>2, <2>3, <2>4, <2>5
  <1>4. ASSUME NEW t \in Types, CancelResponder(s, t) PROVE UNCHANGED <<responses, setVars>>
    BY <1>1, <1>4 DEF CancelResponder, CancelWatch
  <1>5. ASSUME NEW t \in Types, CloseWatch(s, t) PROVE Mine
    <2>1. UNCHANGED <<responses, setVars>>
      BY <1>4, <1>5 DEF CloseWatch
    <2>2. UNCHANGED <<pc, current, resent, known, nonce, last, toServer, toClient, live, conn, client>>
      BY <1>5 DEF CloseWatch, loopVars, sentVars, linkVars, streamVars, clientVars
    <2>3. \A s2 \in Streams : s2 # s => responders'[s2] = responders[s2]
      BY <1>0, <1>5 DEF CloseWatch, TypeOK
    <2> QED
      BY <2>1, <2>2, <2>3
  <1>6. ASSUME NEW r \in DiscoveryRequests, OpenWatch(s, r)
        PROVE  /\ \A s2 \in Streams : s2 # s => responders'[s2] = responders[s2]
               /\ \A c \in Channels : c[1] # s => responses'[c] = responses[c]
               /\ UNCHANGED setVars
    <2>1. \A c \in Channels : c # Channel(s, r.type) => responses'[c] = responses[c]
      BY <1>6, OpenWatchEffect DEF ServiceInv
    <2>2. Channel(s, r.type)[1] = s
      BY DEF Channel
    <2>3. \A s2 \in Streams : s2 # s => responders'[s2] = responders[s2]
      BY <1>0, <1>6 DEF OpenWatch, TypeOK
    <2>4. UNCHANGED setVars
      BY <1>6 DEF OpenWatch, CreateWatch
    <2> QED
      BY <2>1, <2>2, <2>3, <2>4
  <1>7. CASE SupersedeWatch(s)
    <2>1. current[s] \in DiscoveryRequests
      BY <1>7 DEF SupersedeWatch, ServiceInv, ServerInv, CurrentInv, Handling
    <2>2. UNCHANGED <<resent, known, nonce, last, toServer, toClient, live, conn, client>>
      BY <1>7 DEF SupersedeWatch, sentVars, linkVars, streamVars, clientVars
    <2>3. \A s2 \in Streams : s2 # s => pc'[s2] = pc[s2] /\ current'[s2] = current[s2]
      BY <1>0, <1>7 DEF SupersedeWatch, TypeOK
    <2> QED
      BY <1>6, <1>7, <2>1, <2>2, <2>3 DEF SupersedeWatch
  <1>8. CASE RecvRequest(s)
    <2>1. PICK r \in Incoming(s) : Take(s, r) /\ Handle(s, r)
      BY <1>8 DEF RecvRequest
    <2>2. r \in DiscoveryRequests /\ r.type \in Types
      BY <1>0, <2>1, IncomingTyped, CacheRequestTyped
    <2>3. UNCHANGED <<nonce, last, toClient, live, conn, client>>
      BY <1>8 DEF RecvRequest, sentVars, streamVars, clientVars
    <2>4. \A s2 \in Streams : s2 # s => toServer'[s2] = toServer[s2] /\ resent'[s2] = resent[s2]
      BY <1>0, <2>1 DEF Take, TypeOK
    <2>5. \A s2 \in Streams : s2 # s => known'[s2] = known[s2]
      BY <1>0, <2>1, <2>2 DEF Handle, Learn, TypeOK
    <2>6. \A s2 \in Streams : s2 # s => pc'[s2] = pc[s2] /\ current'[s2] = current[s2]
      BY <1>0, <2>1 DEF Handle, TypeOK
    <2>7. /\ \A s2 \in Streams : s2 # s => responders'[s2] = responders[s2]
          /\ \A c \in Channels : c[1] # s => responses'[c] = responses[c]
          /\ UNCHANGED setVars
      BY <1>1, <1>4, <1>6, <2>1, <2>2 DEF Handle
    <2> QED
      BY <2>3, <2>4, <2>5, <2>6, <2>7
  <1>9. CASE SendResponse(s) \/ Drain(s)
    <2>1. UNCHANGED <<setVars, current, resent, known, toServer, live, conn, client>>
      BY <1>9 DEF SendResponse, Drain, loopVars, streamVars, clientVars
    <2>2. \A s2 \in Streams : s2 # s => pc'[s2] = pc[s2]
      BY <1>0, <1>9 DEF SendResponse, Drain, loopVars, TypeOK
    <2> DEFINE Out == /\ \A s2 \in Streams : s2 # s =>
                           /\ toClient'[s2] = toClient[s2] /\ nonce'[s2] = nonce[s2]
                           /\ last'[s2] = last[s2] /\ responders'[s2] = responders[s2]
                      /\ \A c \in Channels : c[1] # s => responses'[c] = responses[c]
    <2>3. ASSUME NEW c \in Channels, c[1] = s, Send(s, c) PROVE Out
      BY <1>0, <2>3 DEF Send, TypeOK
    <2>4. ASSUME NEW c \in Channels, c[1] = s, responses' = [responses EXCEPT ![c] = Tail(@)],
                 UNCHANGED <<responders, sentVars, toClient>>
          PROVE  Out
      BY <1>0, <2>4 DEF sentVars
    <2>5. Channel(s, AnyType) \in Channels /\ Channel(s, AnyType)[1] = s
          /\ \A t \in Types : Channel(s, t) \in Channels /\ Channel(s, t)[1] = s
      BY ChannelAssumption DEF Channel
    <2>6. Out
      <3>1. CASE SendResponse(s)
        BY <2>3, <2>5, <3>1 DEF SendResponse
      <3>2. CASE Drain(s)
        BY <2>3, <2>4, <2>5, <3>2 DEF Drain, sentVars
      <3> QED
        BY <1>9, <3>1, <3>2
    <2> QED
      BY <2>1, <2>2, <2>6
  <1> QED
    BY <1>2, <1>3, <1>5, <1>7, <1>8, <1>9 DEF ServerActs

\* What a step of another stream leaves as it was.
LEMMA UntouchedStays ==
    ASSUME ServiceInv, NEW s \in Streams, Untouched(s), sets' >= sets, sets \in Nat, sets' \in Nat,
           Used(s)' => Used(s) /\ client'[StreamNode[s]] = client[StreamNode[s]]
    PROVE  OpenedOK(s)' /\ PlaceOK(s)' /\ NamesOK(s)' /\ AgeOK(s)'
  <1>1. OpenedOK(s) /\ PlaceOK(s) /\ NamesOK(s) /\ AgeOK(s)
    BY DEF ServiceInv, StreamInv
  <1>2. OpenedOK(s)'
    BY <1>1 DEF OpenedOK, Untouched
  <1>3. PlaceOK(s)'
    BY <1>1 DEF PlaceOK, Untouched, Channel
  <1>4. NamesOK(s)'
    <2>1. \A t \in Types : Asked(s, t)' = Asked(s, t)
      BY DEF Asked, Requested, Handling, Untouched
    <2> QED
      BY <1>1, <2>1 DEF NamesOK, Followed
  <1>5. AgeOK(s)'
    <2> SUFFICES ASSUME Used(s)', NEW t \in Types
                 PROVE  Aged(client[StreamNode[s]][t].at, toClient[s], responses[Channel(s, t)], t, sets)'
      BY DEF AgeOK
    <2>1. Aged(client[StreamNode[s]][t].at, toClient[s], responses[Channel(s, t)], t, sets)
      BY <1>1 DEF AgeOK
    <2>2. Channel(s, t) \in Channels /\ Channel(s, t)[1] = s /\ Channel(s, t)' = Channel(s, t)
      BY ChannelTyped DEF Channel
    <2>3. /\ toClient'[s] = toClient[s] /\ responses'[Channel(s, t)] = responses[Channel(s, t)]
          /\ client'[StreamNode[s]][t].at = client[StreamNode[s]][t].at
      BY <2>2 DEF Untouched
    <2>4. toClient[s] \in Seq(DiscoveryResponses) /\ responses[Channel(s, t)] \in Seq(Responses)
      BY <2>2 DEF ServiceInv, ServerInv, TypeOK, CacheTypeOK
    <2>5. /\ \A i \in DOMAIN toClient[s] : toClient[s][i].at \in Nat
          /\ \A i \in DOMAIN responses[Channel(s, t)] : responses[Channel(s, t)][i].at \in Nat
      <3>1. \A i \in DOMAIN toClient[s] : toClient[s][i] \in DiscoveryResponses
        BY <2>4
      <3>2. \A i \in DOMAIN responses[Channel(s, t)] : responses[Channel(s, t)][i] \in Responses
        BY <2>4
      <3> QED
        BY <3>1, <3>2 DEF DiscoveryResponses, Responses
    <2> QED
      BY <2>1, <2>2, <2>3, <2>5 DEF Aged
  <1> QED
    BY <1>2, <1>3, <1>4, <1>5

\* It is enough to look at the stream and its client.
LEMMA HereSuffices ==
    ASSUME ServiceInv, ServerInv', NEW s \in Streams, Elsewhere(s),
           OpenedOK(s)', PlaceOK(s)', NamesOK(s)', AgeOK(s)', HoldingInv'
    PROVE  ServiceInv'
  <1>1. ConnInv'
    BY DEF ServiceInv, ConnInv, Elsewhere
  <1>2. ASSUME NEW s2 \in Streams, s2 # s PROVE OpenedOK(s2)' /\ PlaceOK(s2)' /\ NamesOK(s2)' /\ AgeOK(s2)'
    <2>1. Untouched(s2)
      BY <1>2 DEF Elsewhere
    <2>2. StreamNode[s2] \in Nodes /\ s2 # NoStream
      BY StreamAssumption
    <2>3. Used(s2)' => Used(s2) /\ client'[StreamNode[s2]] = client[StreamNode[s2]]
      BY <1>2, <2>2 DEF Used, Elsewhere
    <2>4. sets' >= sets /\ sets \in Nat /\ sets' \in Nat
      BY DEF Elsewhere, setVars, ServiceInv, ServerInv, TypeOK, CacheTypeOK
    <2> QED
      BY <2>1, <2>3, <2>4, UntouchedStays
  <1> QED
    BY <1>1, <1>2 DEF ServiceInv, StreamInv

----------------------------------------------------------------------------
(* The age of responses                                                    *)

\* The types of what a stream and its client have.
LEMMA QueuesTyped ==
    ASSUME ServerInv, NEW s \in Streams, NEW t \in Types
    PROVE  /\ toClient[s] \in Seq(DiscoveryResponses) /\ responses[Channel(s, t)] \in Seq(Responses)
           /\ toServer[s] \in Seq(DiscoveryRequests)
           /\ client[StreamNode[s]][t] \in ClientStates /\ client[StreamNode[s]][t].at \in Nat
           /\ sets \in Nat
  <1>1. StreamNode[s] \in Nodes /\ Channel(s, t) \in Channels
    BY ChannelTyped
  <1>2. client[StreamNode[s]][t] \in ClientStates
    BY <1>1, ClientTyped DEF ServerInv
  <1> QED
    BY <1>1, <1>2 DEF ServerInv, TypeOK, CacheTypeOK, ClientStates

\* A snapshot is set, and some of the channel may be dropped.
LEMMA AgedFewer ==
    ASSUME NEW at \in Nat, NEW wire \in Seq(DiscoveryResponses), NEW buffer \in Seq(Responses), NEW t,
           NEW top \in Nat, NEW top2 \in Nat, top <= top2, NEW buffer2,
           buffer2 = buffer \/ buffer2 = <<>> \/ (buffer # <<>> /\ buffer2 = Tail(buffer)),
           Aged(at, wire, buffer, t, top)
    PROVE  Aged(at, wire, buffer2, t, top2)
  <1>1. PICK d \in {0, 1} : \A k \in DOMAIN buffer2 : k \in Nat /\ k + d \in DOMAIN buffer /\ buffer2[k] = buffer[k + d]
    <2>1. CASE buffer2 = buffer
      <3>1. \A k \in DOMAIN buffer : k \in Nat /\ k + 0 = k
        OBVIOUS
      <3> QED
        BY <2>1, <3>1
    <2>2. CASE buffer2 = <<>>
      BY <2>2
    <2>3. CASE buffer # <<>> /\ buffer2 = Tail(buffer)
      BY <2>3, TailParts
    <2> QED
      BY <2>1, <2>2, <2>3
  <1>2. /\ \A i \in DOMAIN wire : wire[i].at \in Nat
        /\ \A k \in DOMAIN buffer : buffer[k].at \in Nat
    <2>1. \A i \in DOMAIN wire : wire[i] \in DiscoveryResponses
      OBVIOUS
    <2>2. \A k \in DOMAIN buffer : buffer[k] \in Responses
      OBVIOUS
    <2> QED
      BY <2>1, <2>2 DEF DiscoveryResponses, Responses
  <1>3. \A k, j \in DOMAIN buffer2 : k < j => k + d < j + d
    BY <1>1
  <1> QED
    BY <1>1, <1>2, <1>3 DEF Aged

\* A response is made from the snapshot that was set last.
LEMMA AgedMade ==
    ASSUME NEW at \in Nat, NEW wire \in Seq(DiscoveryResponses), NEW buffer \in Seq(Responses), NEW t,
           NEW top \in Nat, at <= top, NEW r, r.at = top, Aged(at, wire, buffer, t, top)
    PROVE  Aged(at, wire, Append(buffer, r), t, top)
  <1> DEFINE b == Append(buffer, r)
             k == Len(buffer) + 1
  <1>1. /\ DOMAIN b = DOMAIN buffer \cup {k} /\ b[k] = r
        /\ \A i \in DOMAIN buffer : i \in Nat /\ i < k /\ b[i] = buffer[i]
        /\ k \in Nat
    BY AppendParts
  <1> HIDE DEF b, k
  <1>2. Aged(at, wire, b, t, top)
    BY <1>1 DEF Aged
  <1> QED
    BY <1>2 DEF b

\* The stream sends the response at the head of the channel.
LEMMA AgedSent ==
    ASSUME NEW at \in Nat, NEW wire \in Seq(DiscoveryResponses), NEW buffer \in Seq(Responses), NEW t,
           NEW top \in Nat, buffer # <<>>, NEW d, d.at = Head(buffer).at, d.type = Head(buffer).request.type,
           Aged(at, wire, buffer, t, top)
    PROVE  Aged(at, Append(wire, d), Tail(buffer), t, top)
  <1> DEFINE w == Append(wire, d)
             k == Len(wire) + 1
             b == Tail(buffer)
  <1>1. /\ DOMAIN w = DOMAIN wire \cup {k} /\ w[k] = d
        /\ \A i \in DOMAIN wire : i \in Nat /\ i < k /\ w[i] = wire[i]
        /\ k \in Nat
    BY AppendParts
  <1>2. /\ 1 \in DOMAIN buffer /\ Head(buffer) = buffer[1]
        /\ \A i \in DOMAIN b : i \in Nat /\ i >= 1 /\ i + 1 \in DOMAIN buffer /\ b[i] = buffer[i + 1]
    <2>1. b \in Seq(Responses)
      OBVIOUS
    <2>2. \A i \in DOMAIN b : i >= 1
      BY <2>1
    <2> QED
      BY <2>2, TailParts
  <1> HIDE DEF w, k, b
  <1>3. /\ \A i \in DOMAIN b : 1 < i + 1
        /\ \A i, j \in DOMAIN b : i < j => i + 1 < j + 1
        /\ \A i \in DOMAIN w : i \in Nat
    BY <1>1, <1>2
  <1>4. Aged(at, w, b, t, top)
    <2>1. ASSUME NEW i \in DOMAIN w, w[i].type = t
          PROVE  /\ at <= w[i].at /\ w[i].at <= top
                 /\ \A m \in DOMAIN b : b[m].request.type = t => w[i].at <= b[m].at
      BY <1>1, <1>2, <1>3, <2>1 DEF Aged
    <2>2. ASSUME NEW i \in DOMAIN w, w[i].type = t, NEW j \in DOMAIN w, w[j].type = t, i < j
          PROVE  w[i].at <= w[j].at
      <3>1. i \in DOMAIN wire
        BY <1>1, <1>3, <2>2
      <3> QED
        BY <1>1, <1>2, <2>2, <3>1 DEF Aged
    <2>3. ASSUME NEW m \in DOMAIN b, b[m].request.type = t
          PROVE  /\ at <= b[m].at /\ b[m].at <= top
                 /\ \A j \in DOMAIN b : b[j].request.type = t /\ m < j => b[m].at <= b[j].at
      BY <1>2, <1>3, <2>3 DEF Aged
    <2> QED
      BY <2>1, <2>2, <2>3 DEF Aged
  <1> QED
    BY <1>4 DEF w, b

\* The client takes the response at the head of its wire.
LEMMA AgedTaken ==
    ASSUME NEW at \in Nat, NEW wire \in Seq(DiscoveryResponses), NEW buffer \in Seq(Responses), NEW t,
           NEW top \in Nat, wire # <<>>, NEW at2,
           at2 = at \/ (Head(wire).type = t /\ at2 = Head(wire).at), Aged(at, wire, buffer, t, top)
    PROVE  /\ Aged(at2, Tail(wire), buffer, t, top)
           /\ Head(wire).type = t => at <= Head(wire).at /\ Head(wire).at <= top
  <1> DEFINE w == Tail(wire)
  <1>1. /\ 1 \in DOMAIN wire /\ Head(wire) = wire[1]
        /\ \A i \in DOMAIN w : i \in Nat /\ i >= 1 /\ i + 1 \in DOMAIN wire /\ w[i] = wire[i + 1]
    <2>1. w \in Seq(DiscoveryResponses)
      OBVIOUS
    <2>2. \A i \in DOMAIN w : i >= 1
      BY <2>1
    <2> QED
      BY <2>2, TailParts
  <1> HIDE DEF w
  <1>2. /\ \A i \in DOMAIN w : 1 < i + 1
        /\ \A i, j \in DOMAIN w : i < j => i + 1 < j + 1
    BY <1>1
  <1>3. Aged(at2, w, buffer, t, top)
    <2>1. ASSUME NEW i \in DOMAIN w, w[i].type = t
          PROVE  /\ at2 <= w[i].at /\ w[i].at <= top
                 /\ \A m \in DOMAIN buffer : buffer[m].request.type = t => w[i].at <= buffer[m].at
                 /\ \A j \in DOMAIN w : w[j].type = t /\ i < j => w[i].at <= w[j].at
      BY <1>1, <1>2, <2>1 DEF Aged
    <2>2. ASSUME NEW m \in DOMAIN buffer, buffer[m].request.type = t
          PROVE  /\ at2 <= buffer[m].at /\ buffer[m].at <= top
                 /\ \A j \in DOMAIN buffer : buffer[j].request.type = t /\ m < j => buffer[m].at <= buffer[j].at
      BY <1>1, <2>2 DEF Aged
    <2> QED
      BY <2>1, <2>2 DEF Aged
  <1>4. Head(wire).type = t => at <= Head(wire).at /\ Head(wire).at <= top
    BY <1>1 DEF Aged
  <1> QED
    BY <1>3, <1>4 DEF w

\* A response of another type changes nothing.
LEMMA AgedOther ==
    ASSUME NEW at \in Nat, NEW wire \in Seq(DiscoveryResponses), NEW buffer \in Seq(Responses), NEW t,
           NEW top \in Nat, NEW d, d.type # t, Aged(at, wire, buffer, t, top)
    PROVE  Aged(at, Append(wire, d), buffer, t, top)
  <1> DEFINE w == Append(wire, d)
             k == Len(wire) + 1
  <1>1. /\ DOMAIN w = DOMAIN wire \cup {k} /\ w[k] = d
        /\ \A i \in DOMAIN wire : i \in Nat /\ i < k /\ w[i] = wire[i]
        /\ k \in Nat
    BY AppendParts
  <1> HIDE DEF w, k
  <1>2. Aged(at, w, buffer, t, top)
    BY <1>1 DEF Aged
  <1> QED
    BY <1>2 DEF w

----------------------------------------------------------------------------
(* The steps of a stream                                                   *)

\* Responses that come from the channel before, or from watches, are in place.
LEMMA KeepsPlace ==
    ASSUME ServiceInv, Keeps, NEW s \in Streams
    PROVE  PlaceOK(s)'
  <1> SUFFICES ASSUME NEW c \in Channels, c[1] = s, NEW i \in DOMAIN responses'[c]
               PROVE  /\ responses'[c][i].request.node = StreamNode[s]
                      /\ c = Channel(s, responses'[c][i].request.type)
    BY DEF PlaceOK, Channel
  <1>1. ASSUME NEW j \in DOMAIN responses[c], responses'[c][i].request = responses[c][j].request
        PROVE  /\ responses'[c][i].request.node = StreamNode[s]
               /\ c = Channel(s, responses'[c][i].request.type)
    BY <1>1 DEF ServiceInv, StreamInv, PlaceOK
  <1>2. ASSUME NEW w \in watches, w.chan = c, responses'[c][i].request = w.request
        PROVE  /\ responses'[c][i].request.node = StreamNode[s]
               /\ c = Channel(s, responses'[c][i].request.type)
    <2>1. PICK s2 \in Streams : Owned(w, s2)
      BY DEF ServiceInv, ServerInv, WatchInv
    <2>2. w.chan = Channel(s2, w.request.type) /\ w.request.node = StreamNode[s2]
      BY <2>1 DEF Owned
    <2>3. s2 = s
      BY <1>2, <2>2 DEF Channel
    <2> QED
      BY <1>2, <2>2, <2>3
  <1> QED
    BY <1>1, <1>2 DEF Keeps

\* Clients that keep what they hold.
LEMMA HoldingStays ==
    ASSUME ServiceInv, sets' >= sets, sets' \in Nat,
           \A n \in Nodes, t \in Types :
              /\ client'[n][t].names = client[n][t].names
              /\ client'[n][t].content = client[n][t].content
              /\ client'[n][t].at = client[n][t].at
    PROVE  HoldingInv'
  <1>1. sets \in Nat /\ \A n \in Nodes, t \in Types : client[n][t].at \in Nat
    BY ClientTyped DEF ServiceInv, ServerInv, TypeOK, CacheTypeOK, ClientStates
  <1> QED
    BY <1>1 DEF ServiceInv, HoldingInv

\* A stream that is not used any more.
LEMMA UnusedHere ==
    ASSUME ServiceInv, ServerInv', NEW s \in Streams, Elsewhere(s), ~Used(s)', OpenedOK(s)', PlaceOK(s)',
           UNCHANGED <<client, sets>>
    PROVE  ServiceInv'
  <1>1. NamesOK(s)' /\ AgeOK(s)'
    BY DEF NamesOK, AgeOK
  <1>2. HoldingInv'
    <2>1. sets \in Nat
      BY DEF ServiceInv, ServerInv, TypeOK, CacheTypeOK
    <2> QED
      BY <2>1, HoldingStays
  <1> QED
    BY <1>1, <1>2, HereSuffices

\* A stream ends, and shuts down.
LEMMA EndingService ==
    ASSUME ServiceInv, ServerInv', NEW s \in Streams,
           \/ Disconnect(s) \/ RefuseRequest(s) \/ CloseRequests(s) \/ Exit(s)
           \/ (\E t \in Types : CloseWatch(s, t)) \/ CloseMux(s) \/ Closed(s)
    PROVE  ServiceInv'
  <1>1. Elsewhere(s)
    BY ServerElsewhere DEF ServerActs
  <1>0. /\ TypeOK /\ OpenedOK(s) /\ StreamNode[s] \in Nodes /\ s # NoStream
    BY StreamAssumption DEF ServiceInv, ServerInv, StreamInv
  <1>2. UNCHANGED <<client, sets>>
    <2>1. UNCHANGED client
      BY DEF Disconnect, RefuseRequest, CloseRequests, Exit, CloseWatch, CloseMux, Closed, clientVars
    <2> QED
      BY <1>1, <2>1 DEF Elsewhere, setVars
  <1>3. ~Used(s)'
    <2>1. CASE Disconnect(s) \/ RefuseRequest(s)
      BY <1>0, <2>1 DEF Disconnect, RefuseRequest, Used, TypeOK
    <2>2. CASE CloseRequests(s) \/ Exit(s) \/ (\E t \in Types : CloseWatch(s, t)) \/ CloseMux(s) \/ Closed(s)
      <3>1. UNCHANGED conn /\ (~live[s] \/ pc[s] = "closing")
        BY <2>2 DEF CloseRequests, Exit, CloseWatch, CloseMux, Closed, clientVars
      <3> QED
        BY <1>0, <3>1 DEF OpenedOK, Used
    <2> QED
      BY <2>1, <2>2
  <1>4. PlaceOK(s)'
    <2>1. CASE \E t \in Types : CloseWatch(s, t)
      <3>1. responses' = responses
        BY <2>1, CancelEffect DEF CloseWatch, ServiceInv
      <3> QED
        BY <3>1 DEF PlaceOK, Channel, ServiceInv, StreamInv
    <2>2. CASE Disconnect(s) \/ RefuseRequest(s) \/ CloseRequests(s) \/ Exit(s) \/ CloseMux(s) \/ Closed(s)
      BY <2>2, OtherStepKeeps, KeepsPlace DEF ServiceInv
    <2> QED
      BY <2>1, <2>2
  <1>5. OpenedOK(s)'
    <2>1. CASE pc'[s] # "idle"
      BY <1>3, <2>1 DEF OpenedOK
    <2>2. CASE pc'[s] = "idle"
      <3>1. pc[s] = "idle" /\ (Disconnect(s) \/ CloseRequests(s))
        BY <1>0, <2>2 DEF Disconnect, RefuseRequest, CloseRequests, Exit, CloseWatch, CloseMux, Closed, loopVars, TypeOK
      <3>2. UNCHANGED <<responses, toServer, resent, nonce, responders, known, last>>
        BY <3>1 DEF Disconnect, CloseRequests, cacheVars, watchVars, loopVars, watcherVars, sentVars, linkVars
      <3>3. toClient'[s] = toClient[s] \/ toClient'[s] = <<>>
        BY <1>0, <3>1 DEF Disconnect, CloseRequests, linkVars, TypeOK
      <3> QED
        BY <1>0, <1>3, <3>1, <3>2, <3>3 DEF OpenedOK
    <2> QED
      BY <2>1, <2>2
  <1> QED
    BY <1>1, <1>2, <1>3, <1>4, <1>5, UnusedHere

\* A stream opens with nothing under way.
LEMMA ConnectService ==
    ASSUME ServiceInv, ServerInv', NEW s \in Streams, Connect(s)
    PROVE  ServiceInv'
  <1>1. Elsewhere(s)
    BY ServerElsewhere
  <1>0. /\ TypeOK /\ OpenedOK(s) /\ pc[s] = "idle" /\ StreamNode[s] \in Nodes
    BY StreamAssumption DEF ServiceInv, ServerInv, StreamInv, Connect
  <1>2. /\ pc'[s] = "process" /\ live'[s]
        /\ client' = [client EXCEPT ![StreamNode[s]] = [t \in Types |-> [@[t] EXCEPT !.asked = FALSE]]]
        /\ UNCHANGED <<responses, sets, toServer, toClient, resent, responders>>
    BY <1>0 DEF Connect, TypeOK, cacheVars, watchVars, setVars, watcherVars, linkVars
  <1>3. /\ toServer[s] = <<>> /\ toClient[s] = <<>> /\ resent[s] = NoRequest
        /\ \A c \in Channels : c[1] = s => responses[c] = <<>>
        /\ \A t \in Types : responders[s][t] = NoWatch
    BY <1>0 DEF OpenedOK
  <1>4. OpenedOK(s)'
    BY <1>2 DEF OpenedOK
  <1>5. PlaceOK(s)'
    BY OtherStepKeeps, KeepsPlace DEF ServiceInv
  <1>6. NamesOK(s)'
    <2>1. Requested(s)' = {}
      BY <1>2, <1>3, EmptyRange DEF Requested, Handling
    <2>2. \A t \in Types : Asked(s, t)' = {}
      BY <1>2, <1>3, <2>1, EmptyRange DEF Asked, NoWatch
    <2> QED
      BY <2>2 DEF NamesOK
  <1>7. AgeOK(s)'
    <2>1. \A t \in Types : Channel(s, t) \in Channels /\ Channel(s, t)[1] = s /\ Channel(s, t)' = Channel(s, t)
      BY ChannelTyped DEF Channel
    <2>2. \A t \in Types : toClient'[s] = <<>> /\ responses'[Channel(s, t)] = <<>>
      BY <1>2, <1>3, <2>1
    <2> QED
      BY <2>1, <2>2 DEF AgeOK, Aged
  <1>8. HoldingInv'
    <2>1. client \in [Nodes -> [Types -> ClientStates]] /\ sets \in Nat
      BY <1>0 DEF TypeOK, CacheTypeOK, ClientStates
    <2>2. ASSUME NEW n \in Nodes, NEW t \in Types
          PROVE  /\ client'[n][t].names = client[n][t].names
                 /\ client'[n][t].content = client[n][t].content
                 /\ client'[n][t].at = client[n][t].at
      <3>1. PICK st \in ClientStates : st = client[n][t]
        BY <2>1
      <3>2. client'[n][t] = st \/ client'[n][t] = [st EXCEPT !.asked = FALSE]
        BY <1>2, <2>1, <3>1
      <3>3. /\ [st EXCEPT !.asked = FALSE].names = st.names
            /\ [st EXCEPT !.asked = FALSE].content = st.content
            /\ [st EXCEPT !.asked = FALSE].at = st.at
        BY DEF ClientStates
      <3> QED
        BY <3>1, <3>2, <3>3
    <2> QED
      BY <1>2, <2>1, <2>2, HoldingStays
  <1> QED
    BY <1>1, <1>4, <1>5, <1>6, <1>7, <1>8, HereSuffices

\* The loop of a stream takes up requests and sends responses.
LEMMA LoopHere ==
    ASSUME ServiceInv, ServerInv', NEW s \in Streams,
           EnterADS(s) \/ RecvRequest(s) \/ SupersedeWatch(s) \/ SendResponse(s) \/ Drain(s),
           PlaceOK(s)',
           Used(s) => \A t \in Types :
              /\ Asked(s, t)' \subseteq Asked(s, t)
              /\ Aged(client[StreamNode[s]][t].at, toClient'[s], responses'[Channel(s, t)], t, sets)
    PROVE  ServiceInv'
  <1>1. Elsewhere(s)
    BY ServerElsewhere DEF ServerActs
  <1>0. TypeOK /\ OpenedOK(s) /\ NamesOK(s)
    BY DEF ServiceInv, ServerInv, StreamInv
  <1>2. UNCHANGED <<client, conn, live, sets>>
    <2>1. UNCHANGED <<client, conn, live>>
      BY DEF EnterADS, RecvRequest, SupersedeWatch, SendResponse, Drain, clientVars, streamVars
    <2> QED
      BY <1>1, <2>1 DEF Elsewhere, setVars
  <1>3. pc'[s] \notin {"idle", "closing", "closed"}
    BY <1>0 DEF EnterADS, RecvRequest, SupersedeWatch, SendResponse, Drain, Handle, Loop, loopVars, TypeOK
  <1>4. OpenedOK(s)'
    BY <1>0, <1>2, <1>3 DEF OpenedOK, Used
  <1>5. NamesOK(s)'
    BY <1>0, <1>2 DEF NamesOK, Used, Followed
  <1>6. AgeOK(s)'
    BY <1>2 DEF AgeOK, Used, Channel
  <1>7. HoldingInv'
    <2>1. sets \in Nat
      BY <1>0 DEF TypeOK, CacheTypeOK
    <2> QED
      BY <1>2, <2>1, HoldingStays
  <1> QED
    BY <1>1, <1>4, <1>5, <1>6, <1>7, HereSuffices

\* What is asked for when no new request, response or watch is about other names.
LEMMA AskedShrinks ==
    ASSUME NEW s \in Streams, NEW t \in Types, Requested(s)' \subseteq Requested(s),
           \A r \in Range(toClient'[s]) : r.type = t => r.names \in Asked(s, t),
           responders'[s][t].active => responders'[s][t].names \in Asked(s, t)
    PROVE  Asked(s, t)' \subseteq Asked(s, t)
  BY DEF Asked

\* With Ordered, the first request goes round once more.
LEMMA EnterService ==
    ASSUME ServiceInv, ServerInv', NEW s \in Streams, EnterADS(s)
    PROVE  ServiceInv'
  <1>1. /\ UNCHANGED <<responses, toClient, responders, current>>
        /\ resent' = [resent EXCEPT ![s] = Head(toServer[s])]
        /\ toServer' = [toServer EXCEPT ![s] = Tail(@)] /\ toServer[s] # <<>>
        /\ pc' = [pc EXCEPT ![s] = "ads"]
    BY DEF EnterADS, cacheVars, watchVars, watcherVars
  <1>2. TypeOK /\ AgeOK(s) /\ toServer[s] \in Seq(DiscoveryRequests)
    BY DEF ServiceInv, ServerInv, StreamInv, TypeOK
  <1>3. /\ resent'[s] = Head(toServer[s]) /\ toServer'[s] = Tail(toServer[s]) /\ pc'[s] = "ads"
    BY <1>1, <1>2 DEF TypeOK
  <1>4. Head(toServer[s]) \in Range(toServer[s]) /\ Range(Tail(toServer[s])) \subseteq Range(toServer[s])
    BY <1>1, <1>2, TailRange
  <1>5. Requested(s)' \subseteq Requested(s)
    BY <1>3, <1>4 DEF Requested, Handling
  <1>6. \A t \in Types : Asked(s, t)' \subseteq Asked(s, t)
    BY <1>1, <1>5 DEF Asked
  <1>7. PlaceOK(s)'
    BY OtherStepKeeps, KeepsPlace DEF ServiceInv
  <1> QED
    BY <1>1, <1>2, <1>6, <1>7, LoopHere DEF AgeOK, Channel

\* What the cache puts into a channel is made from the snapshot set last.
LEMMA AnsweredAged ==
    ASSUME NEW at \in Nat, NEW wire \in Seq(DiscoveryResponses), NEW buffer \in Seq(Responses), NEW t,
           sets \in Nat, at <= sets, Aged(at, wire, buffer, t, sets),
           NEW request, NEW resources, NEW beat, NEW pushed
    PROVE  Aged(at, wire, Answered(buffer, request, resources, beat, pushed), t, sets)
  <1>1. PICK r : r = createResponse(request, resources, beat, pushed)
    OBVIOUS
  <1>2. r.at = sets
    BY <1>1 DEF createResponse
  <1>3. Answered(buffer, request, resources, beat, pushed) \in {buffer, Append(buffer, r)}
    BY <1>1 DEF Answered
  <1>4. Aged(at, wire, Append(buffer, r), t, sets)
    BY <1>2, AgedMade
  <1> QED
    BY <1>3, <1>4

\* A watch is opened, or answered at once.
LEMMA OpenHere ==
    ASSUME ServiceInv, NEW s \in Streams, NEW r \in DiscoveryRequests, OpenWatch(s, r)
    PROVE  /\ PlaceOK(s)'
           /\ \A t \in Types : responders'[s][t] = responders[s][t]
                               \/ (t = r.type /\ responders'[s][t].names = r.names)
           /\ Used(s) => \A t \in Types :
                 Aged(client[StreamNode[s]][t].at, toClient[s], responses'[Channel(s, t)], t, sets)
  <1> DEFINE c == Channel(s, r.type)
             buffer == IF Ordered THEN responses[c] ELSE <<>>
             b == Answered(buffer, CacheRequest(s, r), SnapshotResources(StreamNode[s], r.type), FALSE, FALSE)
  <1>1. r.type \in Types /\ c \in Channels /\ c[1] = s
    BY CacheRequestTyped, ChannelTyped DEF Channel
  <1>2. /\ \A t \in Types : responders'[s][t] = responders[s][t]
                            \/ (t = r.type /\ responders'[s][t].names = r.names)
        /\ \A d \in Channels : d # c => responses'[d] = responses[d]
        /\ Extends(responses'[c], buffer, CacheRequest(s, r))
        /\ responses'[c] \in {buffer, b}
    <2>0. ServerInv
      BY DEF ServiceInv
    <2>1. /\ \A d \in Channels : d # c => responses'[d] = responses[d]
          /\ Extends(responses'[c], buffer, CacheRequest(s, r))
          /\ responses'[c] = buffer \/ responses'[c] = b
      BY <2>0, OpenWatchEffect
    <2>2. /\ responders'[s][r.type] = [active |-> TRUE, cancel |-> OpenedWatch, nonce |-> 0, names |-> r.names]
          /\ \A s2 \in Streams, t2 \in Types :
                s2 # s \/ t2 # r.type => responders'[s2][t2] = responders[s2][t2]
      BY <2>0, OpenWatchEffect
    <2> HIDE DEF c, buffer, b
    <2>3. responders'[s][r.type].names = r.names
      BY <2>2
    <2> QED
      BY <2>1, <2>2, <2>3
  <1>3. responses[c] \in Seq(Responses) /\ buffer \in Seq(Responses)
    <2>1. responses[c] \in Seq(Responses) /\ <<>> \in Seq(Responses)
      BY <1>1, QueuesTyped DEF ServiceInv
    <2> QED
      BY <2>1
  <1>4. PlaceOK(s)'
    <2>1. PlaceOK(s)
      BY DEF ServiceInv, StreamInv
    <2>2. CacheRequest(s, r).node = StreamNode[s] /\ CacheRequest(s, r).type = r.type
      BY DEF CacheRequest
    <2>3. ASSUME NEW i \in DOMAIN responses'[c]
          PROVE  /\ responses'[c][i].request.node = StreamNode[s]
                 /\ c = Channel(s, responses'[c][i].request.type)
      <3>1. \/ i \in DOMAIN buffer /\ responses'[c][i] = buffer[i]
            \/ responses'[c][i].request = CacheRequest(s, r)
        BY <1>2 DEF Extends
      <3>2. CASE i \in DOMAIN buffer /\ responses'[c][i] = buffer[i]
        <4>1. buffer = responses[c]
          BY <3>2
        <4> QED
          BY <1>1, <2>1, <3>2, <4>1 DEF PlaceOK
      <3>3. CASE responses'[c][i].request = CacheRequest(s, r)
        BY <2>2, <3>3
      <3> QED
        BY <3>1, <3>2, <3>3
    <2> HIDE DEF c
    <2>4. ASSUME NEW d \in Channels, d[1] = s, NEW i \in DOMAIN responses'[d]
          PROVE  /\ responses'[d][i].request.node = StreamNode[s]
                 /\ d = Channel(s, responses'[d][i].request.type)
      <3>1. CASE d = c
        BY <2>3, <3>1
      <3>2. CASE d # c
        BY <1>2, <2>1, <2>4, <3>2 DEF PlaceOK
      <3> QED
        BY <3>1, <3>2
    <2> QED
      BY <2>4 DEF PlaceOK, Channel
  <1>5. ASSUME Used(s), NEW t \in Types
        PROVE  Aged(client[StreamNode[s]][t].at, toClient[s], responses'[Channel(s, t)], t, sets)
    <2>1. PICK at \in Nat : at = client[StreamNode[s]][t].at
      BY QueuesTyped DEF ServiceInv
    <2>2. /\ toClient[s] \in Seq(DiscoveryResponses) /\ responses[Channel(s, t)] \in Seq(Responses)
          /\ sets \in Nat /\ at <= sets /\ Channel(s, t) \in Channels
      BY <2>1, QueuesTyped, ChannelTyped DEF ServiceInv, HoldingInv
    <2>3. Aged(at, toClient[s], responses[Channel(s, t)], t, sets)
      BY <1>5, <2>1 DEF ServiceInv, StreamInv, AgeOK
    <2>4. CASE Channel(s, t) # c
      BY <1>2, <2>1, <2>2, <2>3, <2>4
    <2>5. CASE Channel(s, t) = c
      <3>1. buffer = responses[c] \/ buffer = <<>>
        OBVIOUS
      <3> HIDE DEF c, buffer
      <3>2. Aged(at, toClient[s], buffer, t, sets)
        BY <1>3, <2>2, <2>3, <2>5, <3>1, AgedFewer
      <3>3. Aged(at, toClient[s], b, t, sets)
        BY <1>3, <2>2, <3>2, AnsweredAged
      <3> QED
        BY <1>2, <2>1, <2>5, <3>2, <3>3
    <2> QED
      BY <2>4, <2>5
  <1> QED
    BY <1>2, <1>4, <1>5

\* A request is taken up.
LEMMA ReceiveService ==
    ASSUME ServiceInv, ServerInv', NEW s \in Streams, RecvRequest(s)
    PROVE  ServiceInv'
  <1>0. TypeOK /\ PlaceOK(s) /\ AgeOK(s) /\ toServer[s] \in Seq(DiscoveryRequests)
    BY DEF ServiceInv, ServerInv, StreamInv, TypeOK
  <1>1. PICK r \in Incoming(s) : Take(s, r) /\ Handle(s, r)
    BY DEF RecvRequest
  <1>2. r \in DiscoveryRequests /\ r.type \in Types
    BY <1>0, <1>1, IncomingTyped, CacheRequestTyped
  <1>3. UNCHANGED toClient /\ ~Handling(s)
    BY DEF RecvRequest, Handling, Loop
  <1>4. r \in Requested(s) /\ Range(toServer'[s]) \cup ({resent'[s]} \ {NoRequest}) \subseteq Requested(s)
    <2>1. CASE toServer[s] # <<>> /\ r = Head(toServer[s]) /\ toServer' = [toServer EXCEPT ![s] = Tail(@)] /\ UNCHANGED resent
      <3>1. toServer'[s] = Tail(toServer[s])
        BY <1>0, <2>1 DEF TypeOK
      <3>2. r \in Range(toServer[s]) /\ Range(Tail(toServer[s])) \subseteq Range(toServer[s])
        BY <1>0, <2>1, TailRange
      <3> QED
        BY <2>1, <3>1, <3>2 DEF Requested
    <2>2. CASE r = resent[s] /\ resent' = [resent EXCEPT ![s] = NoRequest] /\ UNCHANGED toServer
      <3>1. resent'[s] = NoRequest
        BY <1>0, <2>2 DEF TypeOK
      <3>2. r \in Requested(s)
        <4>1. CASE r # NoRequest
          BY <2>2, <4>1 DEF Requested
        <4>2. CASE r = NoRequest
          <5>1. r \in {toServer[s][i] : i \in DOMAIN toServer[s] \cap {1}}
            BY <1>1, <4>2 DEF Incoming
          <5> QED
            BY <5>1 DEF Requested, Range
        <4> QED
          BY <4>1, <4>2
      <3> QED
        BY <2>2, <3>1, <3>2 DEF Requested
    <2> QED
      BY <1>1, <2>1, <2>2 DEF Take
  <1>5. Requested(s)' \subseteq Requested(s)
    <2>1. Handling(s)' => current'[s] = r
      <3>1. CASE pc' = pc
        BY <1>3, <3>1 DEF Handling
      <3>2. CASE current' = [current EXCEPT ![s] = r]
        BY <1>0, <3>2 DEF TypeOK
      <3> QED
        BY <1>1, <3>1, <3>2 DEF Handle
    <2> QED
      BY <1>4, <2>1 DEF Requested
  <1>6. /\ PlaceOK(s)'
        /\ \A t \in Types : responders'[s][t] = responders[s][t]
                            \/ (t = r.type /\ responders'[s][t].names = r.names)
        /\ Used(s) => \A t \in Types :
              Aged(client[StreamNode[s]][t].at, toClient[s], responses'[Channel(s, t)], t, sets)
    <2>1. CASE OpenWatch(s, r)
      BY <1>2, <2>1, OpenHere
    <2>2. CASE UNCHANGED <<responses, responders>>
      BY <1>0, <2>2 DEF PlaceOK, AgeOK, Channel
    <2>3. UNCHANGED <<cacheVars, responders>> => UNCHANGED <<responses, responders>>
      BY DEF cacheVars, watchVars
    <2>4. CancelResponder(s, r.type) => UNCHANGED responses
      BY <1>2, CancelEffect DEF ServiceInv
    <2> QED
      BY <1>1, <2>1, <2>2, <2>3, <2>4 DEF Handle
  <1>7. ASSUME NEW t \in Types PROVE Asked(s, t)' \subseteq Asked(s, t)
    <2>1. responders'[s][t].active => responders'[s][t].names \in Asked(s, t)
      BY <1>4, <1>6 DEF Asked
    <2>2. \A x \in Range(toClient'[s]) : x.type = t => x.names \in Asked(s, t)
      BY <1>3 DEF Asked
    <2> QED
      BY <1>5, <2>1, <2>2, AskedShrinks
  <1> QED
    BY <1>3, <1>6, <1>7, LoopHere

\* The watch of a request that superseded another is opened.
LEMMA SupersedeService ==
    ASSUME ServiceInv, ServerInv', NEW s \in Streams, SupersedeWatch(s)
    PROVE  ServiceInv'
  <1>1. /\ OpenWatch(s, current[s]) /\ UNCHANGED <<toServer, toClient, resent>> /\ pc[s] = "create"
        /\ pc' = [pc EXCEPT ![s] = Loop] /\ TypeOK
    BY DEF SupersedeWatch, linkVars, ServiceInv, ServerInv
  <1>2. PICK r \in DiscoveryRequests : r = current[s]
    BY <1>1 DEF ServiceInv, ServerInv, CurrentInv, Handling
  <1>3. /\ PlaceOK(s)'
        /\ \A t \in Types : responders'[s][t] = responders[s][t]
                            \/ (t = r.type /\ responders'[s][t].names = r.names)
        /\ Used(s) => \A t \in Types :
              Aged(client[StreamNode[s]][t].at, toClient[s], responses'[Channel(s, t)], t, sets)
    BY <1>1, <1>2, OpenHere
  <1>4. Requested(s)' \subseteq Requested(s) /\ r \in Requested(s)
    <2>1. ~Handling(s)' /\ Handling(s)
      BY <1>1 DEF Handling, Loop, TypeOK
    <2> QED
      BY <1>1, <1>2, <2>1 DEF Requested
  <1>5. ASSUME NEW t \in Types PROVE Asked(s, t)' \subseteq Asked(s, t)
    <2>1. responders'[s][t].active => responders'[s][t].names \in Asked(s, t)
      BY <1>3, <1>4 DEF Asked
    <2>2. \A x \in Range(toClient'[s]) : x.type = t => x.names \in Asked(s, t)
      BY <1>1 DEF Asked
    <2> QED
      BY <1>4, <2>1, <2>2, AskedShrinks
  <1> QED
    BY <1>1, <1>3, <1>5, LoopHere

\* A response goes from the channel to the wire.
LEMMA SendHere ==
    ASSUME ServiceInv, NEW s \in Streams, NEW c \in Channels, c[1] = s, responses[c] # <<>>, Send(s, c),
           Used(s), NEW t \in Types
    PROVE  /\ \A r \in Range(toClient'[s]) : r.type = t => r.names \in Asked(s, t)
           /\ Aged(client[StreamNode[s]][t].at, toClient'[s], responses'[Channel(s, t)], t, sets)
  <1>1. PICK r \in Responses, u \in Types : r = Head(responses[c]) /\ u = r.request.type
    BY HeadTyped DEF ServiceInv, ServerInv, TypeInv, TypeOK
  <1>2. PICK d : d = [type |-> u, version |-> r.version, resources |-> r.resources,
                      heartbeat |-> r.heartbeat, nonce |-> nonce[s] + 1, at |-> r.at,
                      pushed |-> r.pushed, names |-> r.request.names]
    OBVIOUS
  <1>3. d.type = u /\ d.at = r.at /\ d.names = r.request.names
    BY <1>2
  <1>4. /\ responses \in [Channels -> Seq(Responses)] /\ toClient \in [Streams -> Seq(DiscoveryResponses)]
        /\ responses[c] \in Seq(Responses) /\ toClient[s] \in Seq(DiscoveryResponses)
    BY DEF ServiceInv, ServerInv, TypeOK, CacheTypeOK
  <1>5. live[s] /\ pc[s] \notin {"closing", "closed"}
    BY DEF ServiceInv, StreamInv, OpenedOK
  <1>6. responses' = [responses EXCEPT ![c] = Tail(@)] /\ toClient' = [toClient EXCEPT ![s] = Append(@, d)]
    BY <1>1, <1>2, <1>5 DEF Send
  <1>7. /\ responses'[c] = Tail(responses[c]) /\ toClient'[s] = Append(toClient[s], d)
        /\ \A k \in Channels : k # c => responses'[k] = responses[k]
    BY <1>4, <1>6
  <1>8. 1 \in DOMAIN responses[c] /\ r = responses[c][1]
    BY <1>1, <1>4
  <1>9. c = Channel(s, u)
    BY <1>1, <1>8 DEF ServiceInv, StreamInv, PlaceOK
  <1>10. d.names \in Asked(s, u)
    <2>1. 1 \in BufferedOn(Channel(s, u), u)
      BY <1>1, <1>8, <1>9 DEF BufferedOn
    <2>2. responders[s][u].active /\ r.request.names = responders[s][u].names
      BY <1>5, <1>8, <1>9, <2>1 DEF ServiceInv, ServerInv, BufferInv
    <2> QED
      BY <1>3, <2>2 DEF Asked
  <1>11. Range(toClient'[s]) = Range(toClient[s]) \cup {d}
    BY <1>4, <1>7, AppendRange
  <1>12. \A x \in Range(toClient'[s]) : x.type = t => x.names \in Asked(s, t)
    BY <1>3, <1>10, <1>11 DEF Asked
  <1>13. Aged(client[StreamNode[s]][t].at, toClient'[s], responses'[Channel(s, t)], t, sets)
    <2>1. PICK at \in Nat : at = client[StreamNode[s]][t].at
      BY QueuesTyped DEF ServiceInv
    <2>2. /\ responses[Channel(s, t)] \in Seq(Responses) /\ Channel(s, t) \in Channels
          /\ sets \in Nat /\ Aged(at, toClient[s], responses[Channel(s, t)], t, sets)
      BY <2>1, QueuesTyped, ChannelTyped DEF ServiceInv, StreamInv, AgeOK
    <2>3. CASE Channel(s, t) = c /\ t = u
      <3>1. PICK buffer \in Seq(Responses) : buffer = responses[c]
        BY <1>4
      <3>2. d.at = Head(buffer).at /\ d.type = Head(buffer).request.type /\ buffer # <<>>
        BY <1>1, <1>3, <3>1
      <3>3. Aged(at, toClient[s], buffer, t, sets)
        BY <2>2, <2>3, <3>1
      <3>4. Aged(at, Append(toClient[s], d), Tail(buffer), t, sets)
        BY <1>4, <2>2, <3>2, <3>3, AgedSent
      <3> QED
        BY <1>7, <2>1, <2>3, <3>1, <3>4
    <2>4. CASE Channel(s, t) = c /\ t # u
      <3>1. Aged(at, toClient[s], Tail(responses[c]), t, sets)
        <4>1. PICK buffer \in Seq(Responses) : buffer = responses[c]
          BY <1>4
        <4>2. Aged(at, toClient[s], buffer, t, sets) /\ buffer # <<>> /\ sets <= sets
          BY <2>2, <2>4, <4>1
        <4>3. Aged(at, toClient[s], Tail(buffer), t, sets)
          BY <1>4, <2>2, <4>2, AgedFewer
        <4> QED
          BY <4>1, <4>3
      <3>2. Tail(responses[c]) \in Seq(Responses)
        BY <1>4
      <3>3. Aged(at, Append(toClient[s], d), Tail(responses[c]), t, sets)
        BY <1>3, <1>4, <2>2, <2>4, <3>1, <3>2, AgedOther
      <3> QED
        BY <1>7, <2>1, <2>4, <3>3
    <2>5. CASE Channel(s, t) # c
      <3>1. u # t
        BY <1>9, <2>5
      <3>2. Aged(at, Append(toClient[s], d), responses[Channel(s, t)], t, sets)
        BY <1>3, <1>4, <2>2, <3>1, AgedOther
      <3> QED
        BY <1>7, <2>1, <2>2, <2>5, <3>2
    <2> QED
      BY <2>3, <2>4, <2>5
  <1> QED
    BY <1>12, <1>13

\* Responses are sent, or dropped with the request they answer.
LEMMA SendService ==
    ASSUME ServiceInv, ServerInv', NEW s \in Streams, SendResponse(s) \/ Drain(s)
    PROVE  ServiceInv'
  <1>1. PlaceOK(s)'
    BY SendKeeps, KeepsPlace DEF ServiceInv
  <1>2. UNCHANGED <<toServer, resent, current>> /\ Handling(s)' = Handling(s)
    BY DEF SendResponse, Drain, loopVars, Handling, ServiceInv, ServerInv, TypeOK
  <1>3. Requested(s)' = Requested(s)
    BY <1>2 DEF Requested
  <1>4. \A t \in Types : /\ responders'[s][t].active = responders[s][t].active
                         /\ responders'[s][t].names = responders[s][t].names
    BY SendKeeps DEF ServiceInv, Keeps
  <1> DEFINE Sent(t) == /\ \A r \in Range(toClient'[s]) : r.type = t => r.names \in Asked(s, t)
                        /\ Aged(client[StreamNode[s]][t].at, toClient'[s], responses'[Channel(s, t)], t, sets)
  <1>5. ASSUME Used(s), NEW t \in Types PROVE Sent(t)
    <2>1. Channel(s, t) \in Channels /\ \A u : Channel(s, u)[1] = s
      BY ChannelTyped DEF Channel
    <2>2. ASSUME NEW c \in Channels, c[1] = s, responses[c] # <<>>, Send(s, c) PROVE Sent(t)
      BY <1>5, <2>2, SendHere
    <2>3. ASSUME UNCHANGED toClient,
                 \/ UNCHANGED responses
                 \/ \E c \in Channels : responses[c] # <<>> /\ responses' = [responses EXCEPT ![c] = Tail(@)]
          PROVE  Sent(t)
      <3>1. \A r \in Range(toClient'[s]) : r.type = t => r.names \in Asked(s, t)
        BY <2>3 DEF Asked
      <3>2. PICK at \in Nat : at = client[StreamNode[s]][t].at
        BY QueuesTyped DEF ServiceInv
      <3>3. /\ toClient[s] \in Seq(DiscoveryResponses) /\ responses[Channel(s, t)] \in Seq(Responses)
            /\ sets \in Nat /\ Aged(at, toClient[s], responses[Channel(s, t)], t, sets)
        BY <1>5, <3>2, QueuesTyped DEF ServiceInv, StreamInv, AgeOK
      <3>4. \/ responses'[Channel(s, t)] = responses[Channel(s, t)]
            \/ /\ responses[Channel(s, t)] # <<>>
               /\ responses'[Channel(s, t)] = Tail(responses[Channel(s, t)])
        BY <2>1, <2>3 DEF ServiceInv, ServerInv, TypeOK, CacheTypeOK
      <3>5. Aged(at, toClient[s], responses'[Channel(s, t)], t, sets)
        <4>1. PICK buffer \in Seq(Responses) : buffer = responses[Channel(s, t)]
          BY <3>3
        <4>0. PICK buffer2 : buffer2 = responses'[Channel(s, t)]
          OBVIOUS
        <4>2. Aged(at, toClient[s], buffer, t, sets) /\ sets <= sets
          BY <3>3, <4>1
        <4>3. buffer2 = buffer \/ buffer2 = <<>> \/ (buffer # <<>> /\ buffer2 = Tail(buffer))
          BY <3>4, <4>0, <4>1
        <4>4. Aged(at, toClient[s], buffer2, t, sets)
          BY <3>3, <4>2, <4>3, AgedFewer
        <4> QED
          BY <4>0, <4>4
      <3> QED
        BY <2>3, <3>1, <3>2, <3>5
    <2>4. CASE SendResponse(s)
      <3>1. PICK u \in Types : responses[Channel(s, u)] # <<>> /\ Send(s, Channel(s, u))
        BY <2>4 DEF SendResponse
      <3> QED
        BY <2>1, <2>2, <3>1, ChannelTyped
    <2>5. CASE Drain(s)
      <3>1. Channel(s, AnyType) \in Channels
        BY ChannelAssumption DEF Channel
      <3> HIDE DEF Sent
      <3> QED
        BY <2>1, <2>2, <2>3, <2>5, <3>1 DEF Drain
    <2> QED
      BY <2>4, <2>5
  <1>6. ASSUME Used(s), NEW t \in Types PROVE Asked(s, t)' \subseteq Asked(s, t)
    <2>1. responders'[s][t].active => responders'[s][t].names \in Asked(s, t)
      BY <1>4 DEF Asked
    <2> QED
      BY <1>3, <1>5, <1>6, <2>1, AskedShrinks
  <1> QED
    BY <1>1, <1>5, <1>6, LoopHere

----------------------------------------------------------------------------
(* The steps of a client                                                   *)

\* What a client knows of a type after each of its steps.
OnAsk(st) == [st EXCEPT !.asked = TRUE, !.version = st.received]
OnAskMore(st, names) == [st EXCEPT !.names = names]
OnFollow(st, names) ==
    [st EXCEPT !.asked = TRUE, !.names = names,
               !.content = Restrict(st.content, DOMAIN st.content \cap names)]
OnAck(st, r) ==
    [st EXCEPT !.version = r.version, !.received = r.version, !.nonce = r.nonce,
               !.content = Updated(st, r), !.at = IF r.heartbeat THEN st.at ELSE r.at,
               !.rejected = st.rejected /\ r.heartbeat]
OnNack(st, r) == [st EXCEPT !.received = r.version, !.nonce = r.nonce, !.rejected = TRUE]

\* The request it sends then.
RequestOf(t, st) == [type |-> t, names |-> st.names, version |-> st.version, nonce |-> st.nonce]

Sends(n, t, st) ==
    /\ client' = [client EXCEPT ![n][t] = st]
    /\ toServer' = [toServer EXCEPT ![conn[n]] = Append(@, RequestOf(t, st))]

\* What changes by a step, and what does not.
LEMMA OnAskParts ==
    ASSUME NEW st \in ClientStates
    PROVE  /\ OnAsk(st) \in ClientStates
           /\ OnAsk(st).asked /\ OnAsk(st).names = st.names /\ OnAsk(st).version = st.received
           /\ OnAsk(st).received = st.received /\ OnAsk(st).nonce = st.nonce
           /\ OnAsk(st).content = st.content /\ OnAsk(st).at = st.at /\ OnAsk(st).rejected = st.rejected
  BY DEF OnAsk, ClientStates

\* Asking for more names changes the names only.
LEMMA OnAskMoreParts ==
    ASSUME NEW st \in ClientStates, NEW names \in SUBSET Names
    PROVE  LET st2 == OnAskMore(st, names)
           IN  /\ st2 \in ClientStates
               /\ st2.asked = st.asked /\ st2.names = names /\ st2.version = st.version
               /\ st2.received = st.received /\ st2.nonce = st.nonce
               /\ st2.content = st.content /\ st2.at = st.at /\ st2.rejected = st.rejected
  BY DEF OnAskMore, ClientStates

\* Following resources changes the names and what is held of them.
LEMMA OnFollowParts ==
    ASSUME NEW st \in ClientStates, NEW names \in SUBSET Names
    PROVE  LET st2 == OnFollow(st, names)
           IN  /\ st2 \in ClientStates
               /\ st2.asked /\ st2.names = names
               /\ st2.content = Restrict(st.content, DOMAIN st.content \cap names)
               /\ st2.at = st.at /\ st2.rejected = st.rejected
  <1>1. PICK content : content = Restrict(st.content, DOMAIN st.content \cap names)
    OBVIOUS
  <1>2. content \in ResourceMaps
    BY <1>1 DEF Restrict, ResourceMaps, Maps, ClientStates
  <1>3. OnFollow(st, names) = [st EXCEPT !.asked = TRUE, !.names = names, !.content = content]
    BY <1>1 DEF OnFollow
  <1> QED
    BY <1>1, <1>2, <1>3 DEF ClientStates

\* Accepting a response changes versions, nonce, content and age.
LEMMA OnAckParts ==
    ASSUME NEW st \in ClientStates, NEW r \in DiscoveryResponses
    PROVE  LET st2 == OnAck(st, r)
           IN  /\ st2 \in ClientStates
               /\ st2.asked = st.asked /\ st2.names = st.names /\ st2.version = r.version
               /\ st2.received = r.version /\ st2.nonce = r.nonce
               /\ st2.content = Updated(st, r) /\ st2.at = (IF r.heartbeat THEN st.at ELSE r.at)
               /\ st2.rejected = (st.rejected /\ r.heartbeat)
  <1>1. PICK content \in ResourceMaps : content = Updated(st, r)
    BY UpdatedTyped
  <1>2. PICK at \in Nat : at = IF r.heartbeat THEN st.at ELSE r.at
    BY DEF DiscoveryResponses, ClientStates
  <1>3. PICK rejected \in BOOLEAN : rejected = (st.rejected /\ r.heartbeat)
    OBVIOUS
  <1>4. OnAck(st, r) = [st EXCEPT !.version = r.version, !.received = r.version, !.nonce = r.nonce,
                                  !.content = content, !.at = at, !.rejected = rejected]
    BY <1>1, <1>2, <1>3 DEF OnAck
  <1>5. r.version \in VersionInfos /\ r.nonce \in Nat
    BY DEF DiscoveryResponses
  <1> QED
    BY <1>1, <1>2, <1>3, <1>4, <1>5 DEF ClientStates

\* Rejecting a response leaves what is held.
LEMMA OnNackParts ==
    ASSUME NEW st \in ClientStates, NEW r \in DiscoveryResponses
    PROVE  LET st2 == OnNack(st, r)
           IN  /\ st2 \in ClientStates
               /\ st2.asked = st.asked /\ st2.names = st.names /\ st2.version = st.version
               /\ st2.received = r.version /\ st2.nonce = r.nonce
               /\ st2.content = st.content /\ st2.at = st.at /\ st2.rejected = TRUE
  BY DEF OnNack, ClientStates, DiscoveryResponses

\* The request a client sends tells its state.
LEMMA RequestTyped ==
    ASSUME NEW t \in Types, NEW st \in ClientStates
    PROVE  /\ RequestOf(t, st) \in DiscoveryRequests
           /\ RequestOf(t, st).type = t /\ RequestOf(t, st).names = st.names
           /\ RequestOf(t, st).version = st.version /\ RequestOf(t, st).nonce = st.nonce
  BY DEF RequestOf, DiscoveryRequests, ClientStates

\* Each step of a client changes what it knows of a type, and sends a request.
LEMMA AskSends ==
    ASSUME TypeOK, NEW n \in Nodes, NEW t \in Types, Ask(n, t)
    PROVE  /\ Sends(n, t, OnAsk(client[n][t])) /\ toClient' = toClient
           /\ ~client[n][t].asked /\ (Followed(t) => client[n][t].names # {})
  <1>1. client \in [Nodes -> [Types -> ClientStates]]
    BY DEF TypeOK, ClientStates
  <1>2. PICK st \in ClientStates : st = client[n][t]
    BY <1>1
  <1>3. client' = [client EXCEPT ![n][t].asked = TRUE, ![n][t].version = st.received]
    BY <1>2 DEF Ask
  <1>4. client' = [client EXCEPT ![n][t] = OnAsk(st)]
    BY <1>1, <1>2, <1>3 DEF OnAsk
  <1>5. [RequestFor(n, t) EXCEPT !.version = st.received]
           = [type |-> t, names |-> st.names, version |-> st.received, nonce |-> st.nonce]
    BY <1>2 DEF RequestFor
  <1>6. RequestOf(t, OnAsk(st)) = [type |-> t, names |-> st.names, version |-> st.received, nonce |-> st.nonce]
    BY OnAskParts DEF RequestOf
  <1>7. toServer' = [toServer EXCEPT ![conn[n]] = Append(@, RequestOf(t, OnAsk(st)))]
    BY <1>2, <1>5, <1>6 DEF Ask
  <1>8. toClient' = toClient /\ ~client[n][t].asked /\ (Followed(t) => client[n][t].names # {})
    BY DEF Ask
  <1> QED
    BY <1>2, <1>4, <1>7, <1>8 DEF Sends

\* Asking for more names sends a request for them.
LEMMA AskMoreSends ==
    ASSUME TypeOK, NEW n \in Nodes, NEW t \in Types, AskMore(n, t)
    PROVE  /\ \E more \in SUBSET Names :
                 client[n][t].names \subseteq more /\ Sends(n, t, OnAskMore(client[n][t], more))
           /\ toClient' = toClient /\ client[n][t].asked /\ client[n][t].names # {}
  <1>1. client \in [Nodes -> [Types -> ClientStates]]
    BY DEF TypeOK, ClientStates
  <1>2. PICK st \in ClientStates : st = client[n][t]
    BY <1>1
  <1>3. PICK more \in SUBSET Names :
              /\ st.names \subseteq more
              /\ client' = [client EXCEPT ![n][t].names = more]
              /\ toServer' = [toServer EXCEPT ![conn[n]] = Append(@, [RequestFor(n, t) EXCEPT !.names = more])]
    BY <1>2, InterestAssumption DEF AskMore
  <1>4. client' = [client EXCEPT ![n][t] = OnAskMore(st, more)]
    BY <1>1, <1>2, <1>3 DEF OnAskMore
  <1>5. [RequestFor(n, t) EXCEPT !.names = more]
           = [type |-> t, names |-> more, version |-> st.version, nonce |-> st.nonce]
    BY <1>2 DEF RequestFor
  <1>6. RequestOf(t, OnAskMore(st, more)) = [type |-> t, names |-> more, version |-> st.version, nonce |-> st.nonce]
    BY OnAskMoreParts DEF RequestOf
  <1>7. Sends(n, t, OnAskMore(st, more))
    BY <1>3, <1>4, <1>5, <1>6 DEF Sends
  <1>8. toClient' = toClient /\ client[n][t].asked /\ client[n][t].names # {}
    BY DEF AskMore
  <1> QED
    BY <1>2, <1>3, <1>7, <1>8

\* So does following what the resources refer to.
LEMMA FollowSends ==
    ASSUME TypeOK, NEW n \in Nodes, NEW t \in Types, Follow(n, t)
    PROVE  /\ \E names \in SUBSET Names : names # {} /\ Sends(n, t, OnFollow(client[n][t], names))
           /\ toClient' = toClient /\ Followed(t)
  <1>1. client \in [Nodes -> [Types -> ClientStates]]
    BY DEF TypeOK, ClientStates
  <1>2. PICK st \in ClientStates : st = client[n][t]
    BY <1>1
  <1>3. PICK names \in SUBSET Names : names = Referenced(n, t)
    BY ReferencedTyped DEF Follow, Followed
  <1>4. PICK content : content = Restrict(st.content, DOMAIN st.content \cap names)
    OBVIOUS
  <1>5. client' = [client EXCEPT ![n][t].asked = TRUE, ![n][t].names = names, ![n][t].content = content]
    <2>1. client' = [client EXCEPT ![n][t].asked = TRUE, ![n][t].names = names,
                                   ![n][t].content = Restrict(@, DOMAIN @ \cap names)]
      BY <1>3 DEF Follow
    <2> QED
      BY <1>1, <1>2, <1>4, <2>1
  <1>6. OnFollow(st, names) = [st EXCEPT !.asked = TRUE, !.names = names, !.content = content]
    BY <1>4 DEF OnFollow
  <1>7. client' = [client EXCEPT ![n][t] = OnFollow(st, names)]
    BY <1>1, <1>2, <1>5, <1>6
  <1>8. [RequestFor(n, t) EXCEPT !.names = names]
           = [type |-> t, names |-> names, version |-> st.version, nonce |-> st.nonce]
    BY <1>2 DEF RequestFor
  <1>9. RequestOf(t, OnFollow(st, names)) = [type |-> t, names |-> names, version |-> st.version, nonce |-> st.nonce]
    <2>1. /\ OnFollow(st, names).names = names /\ OnFollow(st, names).version = st.version
          /\ OnFollow(st, names).nonce = st.nonce
      BY <1>6 DEF ClientStates
    <2> QED
      BY <2>1 DEF RequestOf
  <1>10. toServer' = [toServer EXCEPT ![conn[n]] = Append(@, RequestOf(t, OnFollow(st, names)))]
    BY <1>3, <1>8, <1>9 DEF Follow
  <1>11. names # {} /\ toClient' = toClient /\ Followed(t)
    BY <1>3 DEF Follow
  <1> QED
    BY <1>2, <1>7, <1>10, <1>11 DEF Sends

\* Accepting a response sends a request with its version and nonce.
LEMMA AckSends ==
    ASSUME TypeOK, NEW n \in Nodes, Ack(n), NEW r \in DiscoveryResponses, NEW t \in Types,
           r = Head(toClient[conn[n]]), t = r.type
    PROVE  Sends(n, t, OnAck(client[n][t], r)) /\ toClient' = [toClient EXCEPT ![conn[n]] = Tail(@)]
  <1>1. PICK st : st = OnAck(client[n][t], r)
    OBVIOUS
  <1>2. st = [client[n][t] EXCEPT !.version = r.version, !.received = r.version, !.nonce = r.nonce,
                                  !.content = Updated(client[n][t], r),
                                  !.at = IF r.heartbeat THEN @ ELSE r.at,
                                  !.rejected = @ /\ r.heartbeat]
    BY <1>1 DEF OnAck
  <1>3. PICK q : q = [type |-> t, names |-> st.names, version |-> st.version, nonce |-> st.nonce]
    OBVIOUS
  <1>4. /\ client' = [client EXCEPT ![n][t] = st]
        /\ toServer' = [toServer EXCEPT ![conn[n]] = Append(@, q)]
        /\ toClient' = [toClient EXCEPT ![conn[n]] = Tail(@)]
    BY <1>2, <1>3 DEF Ack
  <1>5. q = RequestOf(t, st)
    BY <1>3 DEF RequestOf
  <1> QED
    BY <1>1, <1>4, <1>5 DEF Sends

\* Rejecting it sends one with the version accepted last.
LEMMA NackSends ==
    ASSUME TypeOK, NEW n \in Nodes, Nack(n), NEW r \in DiscoveryResponses, NEW t \in Types,
           r = Head(toClient[conn[n]]), t = r.type
    PROVE  Sends(n, t, OnNack(client[n][t], r)) /\ toClient' = [toClient EXCEPT ![conn[n]] = Tail(@)]
  <1>1. client \in [Nodes -> [Types -> ClientStates]]
    BY DEF TypeOK, ClientStates
  <1>2. PICK st \in ClientStates : st = client[n][t]
    BY <1>1
  <1>3. client' = [client EXCEPT ![n][t].received = r.version, ![n][t].nonce = r.nonce, ![n][t].rejected = TRUE]
    BY DEF Nack
  <1>4. client' = [client EXCEPT ![n][t] = OnNack(st, r)]
    BY <1>1, <1>2, <1>3 DEF OnNack
  <1>5. [RequestFor(n, t) EXCEPT !.nonce = r.nonce]
           = [type |-> t, names |-> st.names, version |-> st.version, nonce |-> r.nonce]
    BY <1>2 DEF RequestFor
  <1>6. RequestOf(t, OnNack(st, r)) = [type |-> t, names |-> st.names, version |-> st.version, nonce |-> r.nonce]
    BY OnNackParts DEF RequestOf
  <1>7. /\ toServer' = [toServer EXCEPT ![conn[n]] = Append(@, [RequestFor(n, t) EXCEPT !.nonce = r.nonce])]
        /\ toClient' = [toClient EXCEPT ![conn[n]] = Tail(@)]
    BY DEF Nack
  <1> QED
    BY <1>2, <1>4, <1>5, <1>6, <1>7 DEF Sends

\* A client that goes to a state of its own choice keeps the invariant, as long as what
\* is under way is for all resources, or for named ones, as it wants it then.
LEMMA SendsHere ==
    ASSUME ServiceInv, ServerInv', NEW n \in Nodes,
           \/ \E t \in Types : Ask(n, t) \/ AskMore(n, t) \/ Follow(n, t)
           \/ Ack(n) \/ Nack(n),
           NEW t \in Types, NEW st \in ClientStates, Sends(n, t, st),
           \/ toClient' = toClient
           \/ toClient[conn[n]] # <<>> /\ toClient' = [toClient EXCEPT ![conn[n]] = Tail(@)],
           \A N \in Asked(conn[n], t) : N = {} <=> st.names = {},
           Followed(t) => st.names # {},
           st.at <= sets, st.names # {} => DOMAIN st.content \subseteq st.names,
           Aged(st.at, toClient'[conn[n]], responses[Channel(conn[n], t)], t, sets)
    PROVE  ServiceInv'
  <1>0. PICK q \in DiscoveryRequests : q = RequestOf(t, st) /\ q.type = t /\ q.names = st.names
    BY RequestTyped
  <1>1. /\ conn[n] # NoStream /\ Elsewhere(conn[n])
        /\ UNCHANGED <<cacheVars, loopVars, watcherVars, sentVars, conn, live>>
    BY ClientElsewhere
  <1>2. PICK s \in Streams : s = conn[n] /\ StreamNode[s] = n /\ Used(s)
    BY <1>1, NodeOfStream
  <1>3. /\ client \in [Nodes -> [Types -> ClientStates]] /\ toServer \in [Streams -> Seq(DiscoveryRequests)]
        /\ toClient \in [Streams -> Seq(DiscoveryResponses)] /\ sets \in Nat
        /\ toServer[s] \in Seq(DiscoveryRequests) /\ toClient[s] \in Seq(DiscoveryResponses)
    BY DEF ServiceInv, ServerInv, TypeOK, CacheTypeOK, ClientStates
  <1>4. OpenedOK(s) /\ PlaceOK(s) /\ NamesOK(s) /\ AgeOK(s)
    BY DEF ServiceInv, StreamInv
  <1>5. UNCHANGED <<responses, pc, current, resent, responders, known, nonce, last, conn, live, sets>>
    BY <1>1 DEF cacheVars, watchVars, setVars, loopVars, watcherVars, sentVars
  <1>6. /\ client'[n][t] = st /\ toServer'[s] = Append(toServer[s], q)
        /\ \A m \in Nodes, u \in Types : m # n \/ u # t => client'[m][u] = client[m][u]
        /\ \/ toClient'[s] = toClient[s]
           \/ toClient[s] # <<>> /\ toClient'[s] = Tail(toClient[s])
    BY <1>0, <1>2, <1>3 DEF Sends
  <1>7. Range(toServer'[s]) = Range(toServer[s]) \cup {q} /\ Range(toClient'[s]) \subseteq Range(toClient[s])
    <2>1. Range(toServer'[s]) = Range(toServer[s]) \cup {q}
      BY <1>3, <1>6, AppendRange
    <2>2. toClient[s] # <<>> => Range(Tail(toClient[s])) \subseteq Range(toClient[s])
      BY <1>3, TailRange
    <2> QED
      BY <1>6, <2>1, <2>2
  <1>8. OpenedOK(s)'
    BY <1>2, <1>4, <1>5 DEF OpenedOK, Used
  <1>9. PlaceOK(s)'
    BY <1>4, <1>5 DEF PlaceOK, Channel
  <1>10. NamesOK(s)'
    <2>1. Requested(s)' \subseteq Requested(s) \cup {q}
      BY <1>5, <1>7 DEF Requested, Handling
    <2>2. ASSUME NEW u \in Types
          PROVE  Asked(s, u)' \subseteq Asked(s, u) \cup (IF u = t THEN {st.names} ELSE {})
      BY <1>0, <1>5, <1>7, <2>1 DEF Asked
    <2>3. ASSUME NEW u \in Types, NEW N \in Asked(s, u)'
          PROVE  (N = {} <=> client'[n][u].names = {}) /\ (Followed(u) => N # {})
      <3>1. \A M \in Asked(s, u) : (M = {} <=> client[n][u].names = {}) /\ (Followed(u) => M # {})
        BY <1>2, <1>4 DEF NamesOK
      <3>2. CASE u = t
        BY <1>2, <1>6, <2>2, <2>3, <3>1, <3>2
      <3>3. CASE u # t
        BY <1>6, <2>2, <2>3, <3>1, <3>3
      <3> QED
        BY <3>2, <3>3
    <2> QED
      BY <1>2, <2>3 DEF NamesOK, Followed
  <1>11. AgeOK(s)'
    <2>1. ASSUME NEW u \in Types
          PROVE  Aged(client'[n][u].at, toClient'[s], responses[Channel(s, u)], u, sets)
      <3>1. CASE u = t
        BY <1>2, <1>6, <3>1
      <3>2. CASE u # t
        <4>1. PICK at \in Nat, buffer \in Seq(Responses) :
                 at = client[n][u].at /\ buffer = responses[Channel(s, u)]
          BY <1>2, QueuesTyped DEF ServiceInv
        <4>2. Aged(at, toClient[s], buffer, u, sets)
          BY <1>2, <1>4, <4>1 DEF AgeOK
        <4>3. toClient[s] # <<>> => Aged(at, Tail(toClient[s]), buffer, u, sets)
          BY <1>3, <4>2, AgedTaken
        <4> QED
          BY <1>6, <3>2, <4>1, <4>2, <4>3
      <3> QED
        BY <3>1, <3>2
    <2> QED
      BY <1>2, <1>5, <2>1 DEF AgeOK, Channel
  <1>12. HoldingInv'
    BY <1>5, <1>6 DEF ServiceInv, HoldingInv
  <1> QED
    BY <1>1, <1>2, <1>8, <1>9, <1>10, <1>11, <1>12, HereSuffices

\* The response a client takes is for all resources of the type or for named ones
\* as the client wants it; it is not made from an older snapshot than the one the
\* client has.
LEMMA HeadService ==
    ASSUME ServiceInv, NEW n \in Nodes, conn[n] # NoStream, toClient[conn[n]] # <<>>
    PROVE  LET r == Head(toClient[conn[n]])
               t == r.type
           IN  /\ conn[n] \in Streams /\ r \in DiscoveryResponses /\ t \in Types
               /\ r.names \in Asked(conn[n], t)
               /\ r.names = {} <=> client[n][t].names = {}
               /\ Followed(t) => client[n][t].names # {}
               /\ client[n][t].at <= r.at /\ r.at <= sets
  <1>1. PICK s \in Streams : s = conn[n] /\ StreamNode[s] = n /\ Used(s)
    BY NodeOfStream
  <1>2. toClient[s] \in Seq(DiscoveryResponses)
    BY DEF ServiceInv, ServerInv, TypeOK
  <1>3. PICK r \in DiscoveryResponses, t \in Types : r = Head(toClient[s]) /\ t = r.type
    <2>1. toClient[s] # <<>>
      BY <1>1
    <2>2. Head(toClient[s]) \in DiscoveryResponses
      BY <1>2, <2>1
    <2> QED
      BY <2>2 DEF DiscoveryResponses
  <1>4. r \in Range(toClient[s])
    BY <1>1, <1>2, <1>3, TailRange
  <1>5. r.names \in Asked(s, t)
    BY <1>3, <1>4 DEF Asked
  <1>6. (r.names = {} <=> client[n][t].names = {}) /\ (Followed(t) => client[n][t].names # {})
    BY <1>1, <1>5 DEF ServiceInv, StreamInv, NamesOK
  <1>7. client[n][t].at <= r.at /\ r.at <= sets
    <2>1. 1 \in DOMAIN toClient[s] /\ r = toClient[s][1]
      BY <1>1, <1>2, <1>3
    <2>2. Aged(client[n][t].at, toClient[s], responses[Channel(s, t)], t, sets)
      BY <1>1 DEF ServiceInv, StreamInv, AgeOK
    <2> QED
      BY <1>3, <2>1, <2>2 DEF Aged
  <1> QED
    BY <1>1, <1>3, <1>5, <1>6, <1>7

\* Asking for names, other ones included.
LEMMA AskingService ==
    ASSUME ServiceInv, ServerInv', NEW n \in Nodes, NEW t \in Types,
           Ask(n, t) \/ AskMore(n, t) \/ Follow(n, t)
    PROVE  ServiceInv'
  <1>0. TypeOK /\ client[n][t] \in ClientStates /\ conn[n] # NoStream
    BY ClientTyped, ClientElsewhere DEF ServiceInv, ServerInv
  <1>1. PICK s \in Streams : s = conn[n] /\ StreamNode[s] = n /\ Used(s)
    BY <1>0, NodeOfStream
  <1>2. PICK old \in ClientStates : old = client[n][t]
    BY <1>0
  <1>3. /\ \A N \in Asked(s, t) : (N = {} <=> old.names = {}) /\ (Followed(t) => N # {})
        /\ Aged(old.at, toClient[s], responses[Channel(s, t)], t, sets)
        /\ old.at <= sets /\ (old.names # {} => DOMAIN old.content \subseteq old.names)
    BY <1>1, <1>2 DEF ServiceInv, StreamInv, NamesOK, AgeOK, HoldingInv
  <1>4. ASSUME NEW st \in ClientStates, Sends(n, t, st), toClient' = toClient,
               st.at = old.at, \A N \in Asked(s, t) : N = {} <=> st.names = {},
               Followed(t) => st.names # {}, st.names # {} => DOMAIN st.content \subseteq st.names
        PROVE  ServiceInv'
    BY <1>1, <1>3, <1>4, SendsHere
  <1>5. CASE Ask(n, t)
    <2>1. Sends(n, t, OnAsk(old)) /\ toClient' = toClient /\ (Followed(t) => old.names # {})
      BY <1>0, <1>2, <1>5, AskSends
    <2> QED
      BY <1>3, <1>4, <2>1, OnAskParts
  <1>6. CASE AskMore(n, t)
    <2>1. toClient' = toClient /\ old.names # {}
      BY <1>0, <1>2, <1>6, AskMoreSends
    <2>2. PICK more \in SUBSET Names : old.names \subseteq more /\ Sends(n, t, OnAskMore(old, more))
      BY <1>0, <1>2, <1>6, AskMoreSends
    <2> QED
      BY <1>3, <1>4, <2>1, <2>2, OnAskMoreParts
  <1>7. CASE Follow(n, t)
    <2>1. toClient' = toClient /\ Followed(t)
      BY <1>0, <1>2, <1>7, FollowSends
    <2>2. PICK names \in SUBSET Names : names # {} /\ Sends(n, t, OnFollow(old, names))
      BY <1>0, <1>2, <1>7, FollowSends
    <2>3. DOMAIN OnFollow(old, names).content \subseteq names
      <3>1. PICK kept : kept = DOMAIN old.content \cap names
        OBVIOUS
      <3>2. OnFollow(old, names).content = Restrict(old.content, kept)
        BY <3>1, OnFollowParts
      <3> QED
        BY <3>1, <3>2 DEF Restrict
    <2> QED
      BY <1>3, <1>4, <2>1, <2>2, <2>3, OnFollowParts
  <1> QED
    BY <1>5, <1>6, <1>7

\* Accepting and rejecting responses.
LEMMA TakingService ==
    ASSUME ServiceInv, ServerInv', NEW n \in Nodes, Ack(n) \/ Nack(n)
    PROVE  ServiceInv'
  <1>0. TypeOK /\ conn[n] # NoStream /\ toClient[conn[n]] # <<>>
    BY DEF ServiceInv, ServerInv, Ack, Nack
  <1>1. PICK s \in Streams : s = conn[n] /\ StreamNode[s] = n /\ Used(s)
    BY <1>0, NodeOfStream
  <1>2. PICK r \in DiscoveryResponses, t \in Types :
              /\ r = Head(toClient[s]) /\ t = r.type
              /\ Followed(t) => client[n][t].names # {}
              /\ client[n][t].at <= r.at /\ r.at <= sets
    BY <1>0, <1>1, HeadService
  <1>3. PICK old \in ClientStates : old = client[n][t]
    BY <1>0, ClientTyped
  <1>4. /\ \A N \in Asked(s, t) : N = {} <=> old.names = {}
        /\ old.at <= sets /\ (old.names # {} => DOMAIN old.content \subseteq old.names)
    BY <1>1, <1>3 DEF ServiceInv, StreamInv, NamesOK, HoldingInv
  <1>5. ASSUME NEW at \in {old.at, r.at}
        PROVE  Aged(at, Tail(toClient[s]), responses[Channel(s, t)], t, sets)
    <2>1. PICK buffer \in Seq(Responses) : buffer = responses[Channel(s, t)]
      BY QueuesTyped DEF ServiceInv
    <2>2. old.at \in Nat /\ sets \in Nat /\ toClient[s] \in Seq(DiscoveryResponses)
      BY <1>3, QueuesTyped DEF ServiceInv, ClientStates
    <2>3. Aged(old.at, toClient[s], buffer, t, sets)
      BY <1>1, <1>3, <2>1 DEF ServiceInv, StreamInv, AgeOK
    <2>4. toClient[s] # <<>> /\ (at = old.at \/ (Head(toClient[s]).type = t /\ at = Head(toClient[s]).at))
      BY <1>0, <1>1, <1>2, <1>5
    <2>5. Aged(at, Tail(toClient[s]), buffer, t, sets)
      BY <2>2, <2>3, <2>4, AgedTaken
    <2> QED
      BY <2>1, <2>5
  <1>6. ASSUME NEW st \in ClientStates, Sends(n, t, st),
               toClient' = [toClient EXCEPT ![s] = Tail(@)], st.at \in {old.at, r.at}, st.names = old.names,
               old.names # {} => DOMAIN st.content \subseteq old.names
        PROVE  ServiceInv'
    <2>1. toClient'[s] = Tail(toClient[s])
      BY <1>0, <1>6 DEF TypeOK
    <2>2. Aged(st.at, toClient'[s], responses[Channel(s, t)], t, sets)
      BY <1>5, <1>6, <2>1
    <2>3. st.at <= sets /\ (Followed(t) => st.names # {})
      BY <1>2, <1>3, <1>4, <1>6
    <2> QED
      <3>1. /\ toClient[conn[n]] # <<>> /\ toClient' = [toClient EXCEPT ![conn[n]] = Tail(@)]
            /\ Aged(st.at, toClient'[conn[n]], responses[Channel(conn[n], t)], t, sets)
            /\ \A N \in Asked(conn[n], t) : N = {} <=> st.names = {}
            /\ st.names # {} => DOMAIN st.content \subseteq st.names
        BY <1>0, <1>1, <1>4, <1>6, <2>2
      <3>2. Sends(n, t, st) /\ st.at <= sets /\ (Followed(t) => st.names # {})
        BY <1>6, <2>3
      <3> QED
        BY <3>1, <3>2, SendsHere
  <1>7. CASE Ack(n)
    <2>1. Sends(n, t, OnAck(old, r)) /\ toClient' = [toClient EXCEPT ![s] = Tail(@)]
      BY <1>0, <1>1, <1>2, <1>3, <1>7, AckSends
    <2>2. /\ OnAck(old, r) \in ClientStates /\ OnAck(old, r).names = old.names
          /\ OnAck(old, r).content = Updated(old, r) /\ OnAck(old, r).at \in {old.at, r.at}
      BY OnAckParts
    <2>3. old.names # {} => DOMAIN Updated(old, r) \subseteq old.names
      BY <1>4 DEF Updated
    <2> QED
      BY <1>6, <2>1, <2>2, <2>3
  <1>8. CASE Nack(n)
    <2>1. Sends(n, t, OnNack(old, r)) /\ toClient' = [toClient EXCEPT ![s] = Tail(@)]
      BY <1>0, <1>1, <1>2, <1>3, <1>8, NackSends
    <2>2. /\ OnNack(old, r) \in ClientStates /\ OnNack(old, r).names = old.names
          /\ OnNack(old, r).content = old.content /\ OnNack(old, r).at = old.at
      BY OnNackParts
    <2> QED
      BY <1>4, <1>6, <2>1, <2>2
  <1> QED
    BY <1>7, <1>8

----------------------------------------------------------------------------
(* The steps of the cache                                                  *)

\* A watch is answered into its channel.
Fills(w, resources, beat, pushed) ==
    responses' = [responses EXCEPT ![w.chan] = Answered(@, w.request, resources, beat, pushed)]

\* The cache fills a channel when it answers a watch or sends a heartbeat, only.
LEMMA CacheActsFill ==
    ASSUME CacheActs
    PROVE  \/ UNCHANGED responses /\ (sets' = sets \/ sets' = sets + 1)
           \/ /\ UNCHANGED <<snapshots, sets>>
              /\ \E w \in todo : \/ RespondWatch(w) /\ Fills(w, SnapshotResources(w.request.node, w.request.type), FALSE, TRUE)
                                 \/ SendHeartbeat(w) /\ Fills(w, ResourcesWithTTL(w.request.node, w.request.type), TRUE, FALSE)
  <1> DEFINE Still == UNCHANGED responses /\ (sets' = sets \/ sets' = sets + 1)
  <1>1. ASSUME NEW w \in todo, RespondWatch(w)
        PROVE  /\ UNCHANGED <<snapshots, sets>>
               /\ Fills(w, SnapshotResources(w.request.node, w.request.type), FALSE, TRUE)
    BY <1>1 DEF RespondWatch, setVars, Fills
  <1>2. ASSUME NEW w \in todo, SendHeartbeat(w)
        PROVE  /\ UNCHANGED <<snapshots, sets>>
               /\ Fills(w, ResourcesWithTTL(w.request.node, w.request.type), TRUE, FALSE)
    BY <1>2 DEF SendHeartbeat, setVars, Fills
  <1>3. ASSUME NEW w, LoseHeartbeat(w) PROVE Still
    BY <1>3 DEF LoseHeartbeat, setVars
  <1>4. ASSUME NEW n, AbortSetSnapshot(n) \/ ClearSnapshot(n) \/ \E sn \in Snapshots : SetSnapshot(n, sn) PROVE Still
    BY <1>4 DEF AbortSetSnapshot, ClearSnapshot, SetSnapshot, watchVars
  <1>5. ASSUME HeartbeatTick \/ CancelHeartbeats \/ StopHeartbeats \/ \E w \in deltaTodo : RespondDeltaWatch(w)
        PROVE  Still
    BY <1>5 DEF HeartbeatTick, CancelHeartbeats, StopHeartbeats, RespondDeltaWatch, watchVars, setVars
  <1> HIDE DEF Still
  <1>6. \/ Still
        \/ \E w \in todo : RespondWatch(w) \/ SendHeartbeat(w)
    BY <1>3, <1>4, <1>5 DEF CacheActs, CacheStep
  <1> QED
    BY <1>1, <1>2, <1>6 DEF Still

\* Snapshots are set, watches answered, heartbeats sent.
LEMMA CacheService ==
    ASSUME ServiceInv, ServerInv', CacheActs
    PROVE  ServiceInv'
  <1>0. /\ TypeOK /\ LockDiscipline /\ sets \in Nat /\ sets' \in Nat
        /\ responses \in [Channels -> Seq(Responses)]
    BY DEF ServiceInv, ServerInv, TypeOK, CacheTypeOK
  <1>1. UNCHANGED <<toServer, toClient, resent, pc, current, live, nonce, last, known, responders, conn, client>>
    BY DEF CacheActs, serverVars, loopVars, watcherVars, sentVars, linkVars, streamVars, clientVars
  <1>2. sets' >= sets
    <2>1. sets' = sets \/ sets' = sets + 1
      BY CacheActsFill
    <2> QED
      BY <1>0, <2>1
  <1>3. \/ UNCHANGED responses
        \/ /\ sets' = sets
           /\ \E w \in watches : \E resources, beat, pushed : Fills(w, resources, beat, pushed)
    BY <1>0, CacheActsFill DEF TypeOK, CacheTypeOK
  <1>4. ConnInv' /\ HoldingInv'
    BY <1>0, <1>1, <1>2, HoldingStays DEF ServiceInv, ConnInv
  <1>5. ASSUME NEW s \in Streams PROVE OpenedOK(s)' /\ PlaceOK(s)' /\ NamesOK(s)' /\ AgeOK(s)'
    <2>1. OpenedOK(s) /\ PlaceOK(s) /\ NamesOK(s) /\ AgeOK(s)
      BY DEF ServiceInv, StreamInv
    <2>2. PlaceOK(s)'
      BY CacheActsKeeps, KeepsPlace DEF ServiceInv
    <2>3. NamesOK(s)'
      <3>1. \A t \in Types : Asked(s, t)' = Asked(s, t)
        BY <1>1 DEF Asked, Requested, Handling
      <3> QED
        BY <1>1, <2>1, <3>1 DEF NamesOK, Used, Followed
    <2>4. ASSUME NEW w \in watches, NEW resources, NEW beat, NEW pushed, Fills(w, resources, beat, pushed),
                 NEW c \in Channels, c[1] = s
          PROVE  /\ pc[s] = "idle" => responses'[c] = responses[c]
                 /\ \/ responses'[c] = responses[c]
                    \/ responses'[c] = Answered(responses[c], w.request, resources, beat, pushed)
      <3>1. PICK s2 \in Streams : Owned(w, s2)
        BY DEF ServiceInv, ServerInv, WatchInv
      <3>2. w.request.type \in Types /\ w.chan \in Channels
        BY <1>0 DEF TypeOK, CacheTypeOK, Watches, Requests
      <3>3. pc[s2] # "idle" /\ w.chan[1] = s2
        BY <3>1, <3>2 DEF Owned, Channel, ServiceInv, ServerInv, ResponderInv
      <3> QED
        BY <1>0, <2>4, <3>2, <3>3 DEF Fills
    <2>5. OpenedOK(s)'
      <3>1. pc[s] = "idle" => \A c \in Channels : c[1] = s => responses'[c] = responses[c]
        BY <1>3, <2>4
      <3> QED
        BY <1>1, <2>1, <3>1 DEF OpenedOK, Used
    <2>6. ASSUME Used(s), NEW t \in Types
          PROVE  Aged(client[StreamNode[s]][t].at, toClient[s], responses'[Channel(s, t)], t, sets')
      <3>1. PICK at \in Nat : at = client[StreamNode[s]][t].at
        BY QueuesTyped DEF ServiceInv
      <3>2. PICK buffer \in Seq(Responses) : buffer = responses[Channel(s, t)]
        BY QueuesTyped DEF ServiceInv
      <3>3. /\ toClient[s] \in Seq(DiscoveryResponses) /\ at <= sets
            /\ Aged(at, toClient[s], buffer, t, sets)
        BY <2>1, <2>6, <3>1, <3>2, QueuesTyped, ChannelTyped DEF ServiceInv, HoldingInv, AgeOK
      <3>4. Channel(s, t) \in Channels /\ Channel(s, t)[1] = s
        BY ChannelTyped DEF Channel
      <3>5. CASE UNCHANGED responses
        <4>1. Aged(at, toClient[s], buffer, t, sets')
          BY <1>0, <1>2, <3>3, AgedFewer
        <4> QED
          BY <3>1, <3>2, <3>5, <4>1
      <3>6. ASSUME sets' = sets, NEW w \in watches, NEW resources, NEW beat, NEW pushed,
                   Fills(w, resources, beat, pushed)
            PROVE  Aged(at, toClient[s], responses'[Channel(s, t)], t, sets')
        <4>1. Aged(at, toClient[s], Answered(buffer, w.request, resources, beat, pushed), t, sets)
          BY <1>0, <3>3, AnsweredAged
        <4>2. responses'[Channel(s, t)] \in {buffer, Answered(buffer, w.request, resources, beat, pushed)}
          BY <2>4, <3>2, <3>4, <3>6
        <4> QED
          BY <3>3, <3>6, <4>1, <4>2
      <3> QED
        BY <1>3, <3>1, <3>5, <3>6
    <2>7. AgeOK(s)'
      BY <1>1, <2>6 DEF AgeOK, Used, Channel
    <2> QED
      BY <2>2, <2>3, <2>5, <2>7
  <1> QED
    BY <1>4, <1>5 DEF ServiceInv, StreamInv

\* Nothing happens.
LEMMA StutterService ==
    ASSUME ServiceInv, ServerInv', UNCHANGED vars
    PROVE  ServiceInv'
  <1>1. UNCHANGED <<responses, sets, toServer, toClient, resent, pc, current, live, nonce, last, known,
                    responders, conn, client>>
    BY DEF vars, cacheVars, watchVars, setVars, loopVars, watcherVars, sentVars, linkVars, streamVars, clientVars
  <1>2. ConnInv' /\ HoldingInv'
    BY <1>1 DEF ServiceInv, ConnInv, HoldingInv
  <1>3. ASSUME NEW s \in Streams PROVE OpenedOK(s)' /\ PlaceOK(s)' /\ NamesOK(s)' /\ AgeOK(s)'
    <2>1. Untouched(s) /\ (Used(s)' => Used(s))
      BY <1>1 DEF Untouched, Used
    <2>2. sets' >= sets /\ sets \in Nat /\ sets' \in Nat
      BY <1>1 DEF ServiceInv, ServerInv, TypeOK, CacheTypeOK
    <2> QED
      BY <1>1, <2>1, <2>2, UntouchedStays
  <1> QED
    BY <1>2, <1>3 DEF ServiceInv, StreamInv

\* Every step keeps the invariant.
LEMMA ServiceInvStep ==
    ASSUME ServiceInv, [Next]_vars
    PROVE  ServiceInv'
  <1>1. ServerInv'
    BY ServerStep DEF ServiceInv
  <1>2. CASE UNCHANGED vars
    BY <1>1, <1>2, StutterService
  <1>3. ASSUME NEW s \in Streams, ServerActs(s) PROVE ServiceInv'
    BY <1>1, <1>3, EnterService, ReceiveService, SupersedeService, SendService, EndingService DEF ServerActs
  <1>4. CASE Next
    BY <1>1, <1>3, <1>4, CacheService, ConnectService, AskingService, TakingService, EndingService DEF Next
  <1> QED
    BY <1>2, <1>4

\* The invariant holds at the start.
LEMMA InitServiceInv == Init => ServiceInv
  <1> SUFFICES ASSUME Init PROVE ServiceInv
    OBVIOUS
  <1>0. ServerInv
    BY InitServer
  <1>1. /\ conn = [n \in Nodes |-> NoStream] /\ pc = [s \in Streams |-> "idle"]
        /\ nonce = [s \in Streams |-> 0] /\ resent = [s \in Streams |-> NoRequest]
        /\ toServer = [s \in Streams |-> <<>>] /\ toClient = [s \in Streams |-> <<>>]
        /\ responders = [s \in Streams |-> [t \in Types |-> NoWatch]]
        /\ known = [s \in Streams |-> [t \in Types |-> {}]]
        /\ last = [s \in Streams |-> [t \in Types |-> [nonce |-> 0, names |-> {}]]]
        /\ responses = [c \in Channels |-> <<>>]
    BY DEF Init, CacheInit
  <1>2. \A n \in Nodes, t \in Types : client[n][t].at = 0 /\ client[n][t].content = EmptyMap
    BY DEF Init
  <1>3. ConnInv
    BY <1>1 DEF ConnInv
  <1>4. HoldingInv
    <2>1. sets = 0 /\ DOMAIN EmptyMap = {}
      BY DEF Init, CacheInit, EmptyMap
    <2> QED
      BY <1>2, <2>1 DEF HoldingInv
  <1>5. ASSUME NEW s \in Streams PROVE OpenedOK(s) /\ PlaceOK(s) /\ NamesOK(s) /\ AgeOK(s)
    <2>1. ~Used(s)
      BY <1>1, StreamAssumption DEF Used
    <2>2. OpenedOK(s)
      BY <1>1, <2>1 DEF OpenedOK
    <2>3. PlaceOK(s)
      BY <1>1 DEF PlaceOK
    <2> QED
      BY <2>1, <2>2, <2>3 DEF NamesOK, AgeOK
  <1> QED
    BY <1>0, <1>3, <1>4, <1>5 DEF ServiceInv, StreamInv

----------------------------------------------------------------------------
(* What the service sees of a step                                         *)

\* The responses with resources that are in a channel, and on the wire.
InChannel(c) == {r \in Range(responses[c]) : ~r.heartbeat}
OnWire(s) == {r \in Range(toClient[s]) : ~r.heartbeat}

\* The answers that they are.
ChannelAnswer(r) == AnswerOf(r.request.node, r.request.type, r.request.names, r)
WireAnswer(s, r) == AnswerOf(StreamNode[s], r.type, r.names, r)

\* The answers under way are those in channels and on wires.
LEMMA AnswersAre ==
    \A a : a \in Answers <=>
              \/ \E c \in Channels : \E r \in InChannel(c) : a = ChannelAnswer(r)
              \/ \E s \in Streams : \E r \in OnWire(s) : a = WireAnswer(s, r)
  BY DEF Answers, InChannel, OnWire, ChannelAnswer, WireAnswer

\* So are those after a step.
LEMMA AnswersAreNext ==
    \A a : a \in Answers' <=>
              \/ \E c \in Channels : \E r \in InChannel(c)' : a = ChannelAnswer(r)
              \/ \E s \in Streams : \E r \in OnWire(s)' : a = WireAnswer(s, r)
  BY DEF Answers, InChannel, OnWire, ChannelAnswer, WireAnswer, AnswerOf

\* Responses that go are answers that go; so does one that is sent.
LEMMA AnswersShrink ==
    ASSUME \A c \in Channels : InChannel(c)' \subseteq InChannel(c),
           \A s \in Streams : \A d \in OnWire(s)' :
              d \in OnWire(s) \/ \E c \in Channels : \E r \in InChannel(c) : WireAnswer(s, d) = ChannelAnswer(r)
    PROVE  Answers' \subseteq Answers
  <1> SUFFICES ASSUME NEW a \in Answers' PROVE a \in Answers
    OBVIOUS
  <1>1. CASE \E c \in Channels : \E r \in InChannel(c)' : a = ChannelAnswer(r)
    BY <1>1, AnswersAre
  <1>2. CASE \E s \in Streams : \E r \in OnWire(s)' : a = WireAnswer(s, r)
    <2>1. PICK s \in Streams : \E d \in OnWire(s)' : a = WireAnswer(s, d)
      BY <1>2
    <2>2. PICK d \in OnWire(s)' : a = WireAnswer(s, d)
      BY <2>1
    <2> QED
      BY <2>2, AnswersAre
  <1> QED
    BY <1>1, <1>2, AnswersAreNext

\* What the service sees of clients.
LEMMA ViewsStay ==
    ASSUME \A n \in Nodes, t \in Types :
              /\ client'[n][t].names = client[n][t].names /\ client'[n][t].content = client[n][t].content
              /\ client'[n][t].at = client[n][t].at /\ client'[n][t].rejected = client[n][t].rejected
    PROVE  UNCHANGED <<Wants, Holds, Positions, Refusals>>
  BY DEF Wants, Holds, Positions, Refusals

\* Clients that stay the same show the service the same.
LEMMA ClientsStay ==
    ASSUME UNCHANGED client
    PROVE  UNCHANGED <<Wants, Holds, Positions, Refusals>>
  BY DEF Wants, Holds, Positions, Refusals

\* The service does nothing but to lose answers.
LEMMA Loses ==
    ASSUME UNCHANGED <<snapshots, sets>>, UNCHANGED <<Wants, Holds, Positions, Refusals>>,
           \A c \in Channels : Range(responses'[c]) \subseteq Range(responses[c]),
           \A s \in Streams : Range(toClient'[s]) \subseteq Range(toClient[s])
    PROVE  Service!Next
  <1>1. /\ \A c \in Channels : InChannel(c)' \subseteq InChannel(c)
        /\ \A s \in Streams : OnWire(s)' \subseteq OnWire(s)
    BY DEF InChannel, OnWire
  <1>2. Answers' \subseteq Answers
    BY <1>1, AnswersShrink
  <1> QED
    BY <1>2 DEF Service!Next, Service!Lose

\* A response made from the node's snapshot is an answer.
LEMMA ResponseIsAnswer ==
    ASSUME TypeOK, NEW request \in Requests, Exists(request.node), NEW pushed, NEW r, NEW a,
           r = createResponse(request, SnapshotResources(request.node, request.type), FALSE, pushed),
           a = ChannelAnswer(r)
    PROVE  Service!IsAnswer(a) /\ ~r.heartbeat /\ r.request = request
  <1>1. request.node \in Nodes /\ request.type \in Types /\ request.names \in SUBSET Names
    BY DEF Requests
  <1>2. PICK res : res = SnapshotResources(request.node, request.type)
    OBVIOUS
  <1>3. res \in ResourceMaps /\ res = snapshots[request.node].resources[request.type]
    <2>1. snapshots[request.node] \in SnapshotRecords
      BY <1>1, SnapshotAssumption DEF TypeOK, CacheTypeOK, Exists
    <2> QED
      BY <1>1, <1>2, <2>1 DEF SnapshotRecords, SnapshotResources
  <1>4. PICK named : named = Restrict(res, DOMAIN res \cap request.names)
    OBVIOUS
  <1>5. /\ r.request = request /\ r.heartbeat = FALSE /\ r.at = sets
        /\ r.resources = IF request.names = {} THEN res ELSE named
    BY <1>2, <1>4 DEF createResponse
  <1>6. /\ a.node = request.node /\ a.type = request.type /\ a.index = sets
        /\ a.scope = (IF request.names = {} THEN Names ELSE request.names) /\ a.view = r.resources
    BY <1>5 DEF ChannelAnswer, AnswerOf
  <1>7. DOMAIN res \subseteq Names /\ res = [x \in DOMAIN res |-> res[x]]
    BY <1>3 DEF ResourceMaps, Maps
  <1>8. a.view = Restrict(res, DOMAIN res \cap a.scope)
    <2>1. CASE request.names = {}
      <3>1. DOMAIN res \cap a.scope = DOMAIN res
        BY <1>6, <1>7, <2>1
      <3> QED
        BY <1>5, <1>6, <1>7, <2>1, <3>1 DEF Restrict
    <2>2. CASE request.names # {}
      BY <1>4, <1>5, <1>6, <2>2
    <2> QED
      BY <2>1, <2>2
  <1>9. Service!Restrict(res, DOMAIN res \cap a.scope) = Restrict(res, DOMAIN res \cap a.scope)
    BY DEF Service!Restrict, Restrict
  <1> QED
    BY <1>3, <1>5, <1>6, <1>8, <1>9 DEF Service!IsAnswer, Exists

\* The service makes an answer, or loses some.
LEMMA Answering ==
    ASSUME TypeOK, NEW request \in Requests, Exists(request.node), NEW pushed, NEW c \in Channels,
           NEW buffer \in Seq(Responses), Range(buffer) \subseteq Range(responses[c]),
           responses'[c] = Answered(buffer, request, SnapshotResources(request.node, request.type), FALSE, pushed),
           \A d \in Channels : d # c => responses'[d] = responses[d],
           UNCHANGED <<snapshots, sets, toClient, client>>
    PROVE  Service!Next
  <1>1. PICK r : r = createResponse(request, SnapshotResources(request.node, request.type), FALSE, pushed)
    OBVIOUS
  <1>2. PICK a : a = ChannelAnswer(r)
    OBVIOUS
  <1>3. Service!IsAnswer(a) /\ ~r.heartbeat
    BY <1>1, <1>2, ResponseIsAnswer
  <1>4. responses'[c] \in {buffer, Append(buffer, r)}
    BY <1>1 DEF Answered
  <1>5. UNCHANGED <<Wants, Holds, Positions, Refusals>>
    BY ClientsStay
  <1>6. CASE responses'[c] = buffer
    <2>1. \A d \in Channels : Range(responses'[d]) \subseteq Range(responses[d])
      BY <1>6
    <2> QED
      BY <1>5, <2>1, Loses
  <1>7. CASE responses'[c] = Append(buffer, r)
    <2>1. Range(responses'[c]) = Range(buffer) \cup {r}
      BY <1>7, AppendRange
    <2>2. /\ \A d \in Channels : InChannel(d)' \subseteq InChannel(d) \cup {r}
          /\ r \in InChannel(c)' /\ \A s \in Streams : OnWire(s)' = OnWire(s)
      BY <1>3, <2>1 DEF InChannel, OnWire
    <2>3. a \in Answers'
      BY <1>2, <2>2, AnswersAreNext
    <2>4. ASSUME NEW b \in Answers' PROVE b \in Answers \cup {a}
      <3>1. CASE \E d \in Channels : \E x \in InChannel(d)' : b = ChannelAnswer(x)
        <4>1. PICK d \in Channels : \E x \in InChannel(d)' : b = ChannelAnswer(x)
          BY <3>1
        <4>2. PICK x \in InChannel(d)' : b = ChannelAnswer(x)
          BY <4>1
        <4> QED
          BY <1>2, <2>2, <4>2, AnswersAre
      <3>2. CASE \E s \in Streams : \E x \in OnWire(s)' : b = WireAnswer(s, x)
        BY <2>2, <3>2, AnswersAre
      <3> QED
        BY <3>1, <3>2, AnswersAreNext
    <2>5. Service!Answer
      BY <1>3, <1>5, <2>3, <2>4 DEF Service!Answer
    <2> QED
      BY <2>5 DEF Service!Next
  <1> QED
    BY <1>4, <1>6, <1>7

\* Nothing changes for the service.
LEMMA NothingChanges ==
    ASSUME UNCHANGED <<snapshots, sets, responses, toClient>>, UNCHANGED <<Wants, Holds, Positions, Refusals>>
    PROVE  Service!Next
  BY Loses

----------------------------------------------------------------------------
(* Every step is one of the service                                        *)

\* SetSnapshot publishes, ClearSnapshot withdraws, RespondWatch answers; a
\* heartbeat is no answer.
LEMMA CacheServes ==
    ASSUME ServiceInv, CacheActs
    PROVE  Service!Next
  <1>1. TypeOK /\ LockDiscipline /\ responses \in [Channels -> Seq(Responses)]
    BY DEF ServiceInv, ServerInv, TypeOK, CacheTypeOK
  <1>2. UNCHANGED <<toClient, client>>
    BY DEF CacheActs, serverVars, linkVars, clientVars
  <1>3. UNCHANGED <<Wants, Holds, Positions, Refusals>>
    BY <1>2, ClientsStay
  <1>4. ASSUME UNCHANGED responses PROVE UNCHANGED Answers
    BY <1>2, <1>4 DEF Answers
  <1>5. ASSUME UNCHANGED <<responses, snapshots, sets>> PROVE Service!Next
    BY <1>2, <1>3, <1>5, NothingChanges
  <1>6. ASSUME NEW n \in Nodes, NEW sn \in Snapshots, SetSnapshot(n, sn) PROVE Service!Next
    <2>1. /\ snapshots' = [snapshots EXCEPT ![n] = sn] /\ sets' = sets + 1
          /\ UNCHANGED responses
      BY <1>6 DEF SetSnapshot, watchVars
    <2>2. Service!Publish(n, sn)
      BY <1>3, <1>4, <2>1 DEF Service!Publish
    <2> QED
      BY <2>2 DEF Service!Next
  <1>7. ASSUME NEW n \in Nodes, ClearSnapshot(n) PROVE Service!Next
    <2>1. snapshots' = [snapshots EXCEPT ![n] = NoSnapshot] /\ UNCHANGED <<sets, responses>>
      BY <1>7 DEF ClearSnapshot
    <2>2. Service!Withdraw(n)
      BY <1>3, <1>4, <2>1 DEF Service!Withdraw
    <2> QED
      BY <2>2 DEF Service!Next
  <1>8. ASSUME NEW w \in todo PROVE w.request \in Requests /\ w.chan \in Channels /\ Exists(w.request.node)
    BY <1>1, <1>8 DEF TypeOK, CacheTypeOK, Watches, LockDiscipline
  <1>9. ASSUME NEW w \in todo, RespondWatch(w) PROVE Service!Next
    <2>1. PICK c \in Channels, request \in Requests : c = w.chan /\ request = w.request
      BY <1>8
    <2>2. PICK buffer \in Seq(Responses) : buffer = responses[c]
      BY <1>1
    <2>3. /\ responses' = [responses EXCEPT ![c] =
                 Answered(@, request, SnapshotResources(request.node, request.type), FALSE, TRUE)]
          /\ UNCHANGED <<snapshots, sets>>
      BY <1>9, <2>1 DEF RespondWatch, setVars
    <2>4. /\ responses'[c] = Answered(buffer, request, SnapshotResources(request.node, request.type), FALSE, TRUE)
          /\ \A d \in Channels : d # c => responses'[d] = responses[d]
      BY <1>1, <2>2, <2>3
    <2>5. Exists(request.node) /\ Range(buffer) \subseteq Range(responses[c])
      BY <1>8, <2>1, <2>2
    <2> QED
      BY <1>1, <1>2, <2>3, <2>4, <2>5, Answering
  <1>10. ASSUME NEW w \in todo, SendHeartbeat(w) PROVE Service!Next
    <2>1. PICK c \in Channels, request \in Requests : c = w.chan /\ request = w.request
      BY <1>8
    <2>2. PICK buffer \in Seq(Responses) : buffer = responses[c]
      BY <1>1
    <2>3. PICK r : r = createResponse(request, ResourcesWithTTL(request.node, request.type), TRUE, FALSE)
      OBVIOUS
    <2>4. r.heartbeat
      BY <2>3 DEF createResponse
    <2>5. /\ responses' = [responses EXCEPT ![c] =
                 Answered(@, request, ResourcesWithTTL(request.node, request.type), TRUE, FALSE)]
          /\ UNCHANGED <<snapshots, sets>>
      BY <1>10, <2>1 DEF SendHeartbeat, setVars
    <2>6. /\ responses'[c] \in {buffer, Append(buffer, r)}
          /\ \A d \in Channels : d # c => responses'[d] = responses[d]
      BY <1>1, <2>2, <2>3, <2>5 DEF Answered
    <2>7. Range(responses'[c]) \subseteq Range(responses[c]) \cup {r}
      <3>1. Range(Append(buffer, r)) = Range(buffer) \cup {r}
        BY AppendRange
      <3> QED
        BY <2>2, <2>6, <3>1
    <2>8. \A d \in Channels : InChannel(d)' \subseteq InChannel(d)
      BY <2>4, <2>6, <2>7 DEF InChannel
    <2>9. \A s \in Streams : OnWire(s)' = OnWire(s)
      BY <1>2 DEF OnWire
    <2>10. Answers' \subseteq Answers
      BY <2>8, <2>9, AnswersShrink
    <2>11. Service!Lose
      BY <1>3, <2>5, <2>10 DEF Service!Lose
    <2> QED
      BY <2>11 DEF Service!Next
  <1>11. ASSUME NEW w, LoseHeartbeat(w) \/ RespondDeltaWatch(w)
         PROVE  UNCHANGED <<responses, snapshots, sets>>
    BY <1>11 DEF LoseHeartbeat, RespondDeltaWatch, watchVars, setVars
  <1>12. ASSUME NEW n, AbortSetSnapshot(n) PROVE UNCHANGED <<responses, snapshots, sets>>
    BY <1>12 DEF AbortSetSnapshot, watchVars
  <1>13. ASSUME HeartbeatTick \/ CancelHeartbeats \/ StopHeartbeats
         PROVE  UNCHANGED <<responses, snapshots, sets>>
    BY <1>13 DEF HeartbeatTick, CancelHeartbeats, StopHeartbeats, watchVars, setVars
  <1> QED
    BY <1>5, <1>6, <1>7, <1>9, <1>10, <1>11, <1>12, <1>13 DEF CacheActs, CacheStep

\* A request that is not to wait is answered.
LEMMA OpenServes ==
    ASSUME ServiceInv, NEW s \in Streams, NEW r \in DiscoveryRequests, OpenWatch(s, r),
           UNCHANGED <<toClient, client>>
    PROVE  Service!Next
  <1>1. TypeOK /\ responses \in [Channels -> Seq(Responses)]
    BY DEF ServiceInv, ServerInv, TypeOK, CacheTypeOK
  <1>2. PICK c \in Channels : c = Channel(s, r.type)
    BY CacheRequestTyped, ChannelTyped
  <1>3. PICK request \in Requests : request = CacheRequest(s, r)
    BY CacheRequestTyped
  <1>4. PICK buffer \in Seq(Responses) : buffer = IF Ordered THEN responses[c] ELSE <<>>
    <2>1. responses[c] \in Seq(Responses) /\ <<>> \in Seq(Responses)
      BY <1>1
    <2> QED
      BY <2>1
  <1>5. PICK k : k = known'[s][r.type]
    OBVIOUS
  <1>6. CreateWatch(request, k, c, buffer)
    BY <1>2, <1>3, <1>4, <1>5 DEF OpenWatch, CacheRequest
  <1>7. UNCHANGED <<snapshots, sets>>
    BY <1>6 DEF CreateWatch, setVars
  <1>8. Range(buffer) \subseteq Range(responses[c])
    BY <1>4, EmptyRange
  <1>9. CASE responses' = [responses EXCEPT ![c] = buffer]
    <2>1. responses'[c] = buffer /\ \A d \in Channels : d # c => responses'[d] = responses[d]
      BY <1>1, <1>9
    <2>2. \A d \in Channels : Range(responses'[d]) \subseteq Range(responses[d])
      BY <1>8, <2>1
    <2> QED
      BY <1>7, <2>2, ClientsStay, Loses
  <1>10. CASE /\ ~StaysOpen(request, k)
              /\ responses' = [responses EXCEPT ![c] =
                   Answered(buffer, request, SnapshotResources(request.node, request.type), FALSE, FALSE)]
    <2>1. /\ responses'[c] = Answered(buffer, request, SnapshotResources(request.node, request.type), FALSE, FALSE)
          /\ \A d \in Channels : d # c => responses'[d] = responses[d]
      BY <1>1, <1>10
    <2>2. Exists(request.node)
      BY <1>10 DEF StaysOpen
    <2> QED
      BY <1>1, <1>7, <1>8, <2>1, <2>2, Answering
  <1> QED
    BY <1>6, <1>9, <1>10 DEF CreateWatch

\* A response that is sent is the answer it was in the channel.
LEMMA SendServes ==
    ASSUME ServiceInv, NEW s \in Streams, NEW c \in Channels, c[1] = s, responses[c] # <<>>,
           \/ Send(s, c)
           \/ responses' = [responses EXCEPT ![c] = Tail(@)] /\ UNCHANGED toClient,
           UNCHANGED <<snapshots, sets, client>>
    PROVE  Service!Next
  <1>1. /\ responses \in [Channels -> Seq(Responses)] /\ toClient \in [Streams -> Seq(DiscoveryResponses)]
        /\ responses[c] \in Seq(Responses) /\ toClient[s] \in Seq(DiscoveryResponses)
    BY DEF ServiceInv, ServerInv, TypeOK, CacheTypeOK
  <1>2. responses' = [responses EXCEPT ![c] = Tail(@)]
    BY DEF Send
  <1>3. PICK r : r = Head(responses[c])
    OBVIOUS
  <1>4. /\ r \in Range(responses[c]) /\ Range(responses'[c]) \subseteq Range(responses[c])
        /\ \A d \in Channels : d # c => responses'[d] = responses[d]
    <2>1. responses'[c] = Tail(responses[c]) /\ \A d \in Channels : d # c => responses'[d] = responses[d]
      BY <1>1, <1>2
    <2> QED
      BY <1>1, <1>3, <2>1, TailRange
  <1>5. PICK d : d = [type |-> r.request.type, version |-> r.version, resources |-> r.resources,
                      heartbeat |-> r.heartbeat, nonce |-> nonce[s] + 1, at |-> r.at,
                      pushed |-> r.pushed, names |-> r.request.names]
    OBVIOUS
  <1>6. toClient'[s] \in {toClient[s], Append(toClient[s], d)}
        /\ \A s2 \in Streams : s2 # s => toClient'[s2] = toClient[s2]
    <2>1. CASE UNCHANGED toClient
      BY <2>1
    <2>2. CASE Send(s, c)
      <3>1. toClient' = [toClient EXCEPT ![s] = IF ~live[s] THEN @ ELSE Append(@, d)]
        BY <1>3, <1>5, <2>2 DEF Send
      <3> QED
        BY <1>1, <3>1
    <2> QED
      BY <2>1, <2>2
  <1>7. Range(toClient'[s]) \subseteq Range(toClient[s]) \cup {d}
    <2>1. Range(Append(toClient[s], d)) = Range(toClient[s]) \cup {d}
      BY <1>1, AppendRange
    <2> QED
      BY <1>6, <2>1
  <1>8. r.request.node = StreamNode[s]
    <2>1. 1 \in DOMAIN responses[c] /\ r = responses[c][1]
      BY <1>1, <1>3
    <2> QED
      BY <2>1 DEF ServiceInv, StreamInv, PlaceOK
  <1>9. d.heartbeat = r.heartbeat /\ WireAnswer(s, d) = ChannelAnswer(r)
    BY <1>5, <1>8 DEF WireAnswer, ChannelAnswer, AnswerOf
  <1>10. \A k \in Channels : InChannel(k)' \subseteq InChannel(k)
    BY <1>4 DEF InChannel
  <1>11. ASSUME NEW s2 \in Streams, NEW x \in OnWire(s2)'
         PROVE  x \in OnWire(s2) \/ \E k \in Channels : \E y \in InChannel(k) : WireAnswer(s2, x) = ChannelAnswer(y)
    <2>1. x \in OnWire(s2) \/ (s2 = s /\ x = d /\ ~d.heartbeat)
      BY <1>6, <1>7 DEF OnWire
    <2>2. CASE s2 = s /\ x = d /\ ~d.heartbeat
      <3>1. r \in InChannel(c)
        BY <1>4, <1>9, <2>2 DEF InChannel
      <3> QED
        BY <1>9, <2>2, <3>1
    <2> QED
      BY <2>1, <2>2
  <1>12. Answers' \subseteq Answers
    BY <1>10, <1>11, AnswersShrink
  <1>13. UNCHANGED <<Wants, Holds, Positions, Refusals>>
    BY ClientsStay
  <1>14. Service!Lose
    BY <1>12, <1>13 DEF Service!Lose
  <1> QED
    BY <1>14 DEF Service!Next

\* The loop of a stream answers when it opens a watch; otherwise it moves answers,
\* or they go with the stream.
LEMMA LoopServes ==
    ASSUME ServiceInv, NEW s \in Streams,
           ServerActs(s) \/ CloseRequests(s) \/ RefuseRequest(s) \/ Disconnect(s)
    PROVE  Service!Next
  <1>1. UNCHANGED client
    BY DEF ServerActs, EnterADS, RecvRequest, SupersedeWatch, SendResponse, Drain, Exit, CloseWatch, CloseMux,
           Closed, CloseRequests, RefuseRequest, Disconnect, clientVars
  <1>2. UNCHANGED <<Wants, Holds, Positions, Refusals>>
    BY <1>1, ClientsStay
  <1>3. ASSUME UNCHANGED <<cacheVars, toClient>> PROVE Service!Next
    BY <1>2, <1>3, NothingChanges DEF cacheVars, watchVars, setVars
  <1>4. ASSUME NEW t, CancelResponder(s, t) PROVE UNCHANGED <<responses, snapshots, sets>>
    <2>1. UNCHANGED cacheVars \/ \E n, id : CancelWatch(n, id)
      BY <1>4 DEF CancelResponder
    <2> QED
      BY <2>1 DEF CancelWatch, cacheVars, watchVars, setVars
  <1>5. CASE EnterADS(s) \/ Exit(s) \/ CloseMux(s) \/ Closed(s) \/ CloseRequests(s)
    BY <1>3, <1>5 DEF EnterADS, Exit, CloseMux, Closed, CloseRequests, linkVars
  <1>6. CASE \E t \in Types : CloseWatch(s, t)
    <2>1. PICK t \in Types : CloseWatch(s, t)
      BY <1>6
    <2>2. CancelResponder(s, t) /\ UNCHANGED toClient
      BY <2>1 DEF CloseWatch, linkVars
    <2> QED
      BY <1>2, <1>4, <2>2, NothingChanges
  <1>7. CASE RecvRequest(s)
    <2>1. PICK r \in Incoming(s) : Take(s, r) /\ Handle(s, r)
      BY <1>7 DEF RecvRequest
    <2>2. r \in DiscoveryRequests
      BY <2>1, IncomingTyped DEF ServiceInv, ServerInv
    <2>3. UNCHANGED toClient
      BY <1>7 DEF RecvRequest
    <2>4. CASE UNCHANGED cacheVars
      BY <1>3, <2>3, <2>4
    <2>5. CASE OpenWatch(s, r)
      BY <1>1, <2>2, <2>3, <2>5, OpenServes
    <2>6. CASE CancelResponder(s, r.type)
      BY <1>2, <1>4, <2>3, <2>6, NothingChanges
    <2> QED
      BY <2>1, <2>4, <2>5, <2>6 DEF Handle
  <1>8. CASE SupersedeWatch(s)
    <2>1. OpenWatch(s, current[s]) /\ UNCHANGED toClient /\ pc[s] = "create"
      BY <1>8 DEF SupersedeWatch, linkVars
    <2>2. PICK r \in DiscoveryRequests : r = current[s]
      BY <2>1 DEF ServiceInv, ServerInv, CurrentInv, Handling
    <2> QED
      BY <1>1, <2>1, <2>2, OpenServes
  <1>9. CASE SendResponse(s)
    <2>1. PICK t \in Types : responses[Channel(s, t)] # <<>> /\ Send(s, Channel(s, t))
      BY <1>9 DEF SendResponse
    <2>2. UNCHANGED <<snapshots, sets>> /\ Channel(s, t) \in Channels /\ Channel(s, t)[1] = s
      BY <1>9, ChannelTyped DEF SendResponse, setVars, Channel
    <2> QED
      BY <1>1, <2>1, <2>2, SendServes
  <1>10. CASE Drain(s)
    <2>0. Channel(s, AnyType) \in Channels /\ Channel(s, AnyType)[1] = s
      BY ChannelAssumption DEF Channel
    <2>1. PICK c \in Channels : c = Channel(s, AnyType) /\ c[1] = s
      BY <2>0
    <2>2. UNCHANGED <<snapshots, sets>>
      BY <1>10 DEF Drain, setVars
    <2>3. \/ UNCHANGED <<responses, toClient>>
          \/ /\ responses[c] # <<>>
             /\ \/ Send(s, c)
                \/ responses' = [responses EXCEPT ![c] = Tail(@)] /\ UNCHANGED toClient
      BY <1>10, <2>1 DEF Drain
    <2> QED
      BY <1>1, <1>2, <2>1, <2>2, <2>3, SendServes, NothingChanges
  <1>11. CASE RefuseRequest(s) \/ Disconnect(s)
    <2>1. toClient' = [toClient EXCEPT ![s] = <<>>] /\ UNCHANGED <<responses, snapshots, sets>>
      BY <1>11 DEF RefuseRequest, Disconnect, cacheVars, watchVars, setVars
    <2>2. toClient \in [Streams -> Seq(DiscoveryResponses)]
      BY DEF ServiceInv, ServerInv, TypeOK
    <2>3. \A s2 \in Streams : Range(toClient'[s2]) \subseteq Range(toClient[s2])
      BY <2>1, <2>2, EmptyRange
    <2> QED
      BY <1>2, <2>1, <2>3, Loses
  <1> QED
    BY <1>5, <1>6, <1>7, <1>8, <1>9, <1>10, <1>11 DEF ServerActs

\* Connecting, and asking for the same names again, is not seen.
LEMMA ConnectServes ==
    ASSUME ServiceInv, NEW s \in Streams, Connect(s)
    PROVE  Service!Next
  <1>1. client \in [Nodes -> [Types -> ClientStates]] /\ StreamNode[s] \in Nodes
    BY StreamAssumption DEF ServiceInv, ServerInv, TypeOK, ClientStates
  <1>2. PICK m \in Nodes : m = StreamNode[s]
    BY <1>1
  <1>3. /\ client' = [client EXCEPT ![m] = [t \in Types |-> [@[t] EXCEPT !.asked = FALSE]]]
        /\ UNCHANGED <<toClient, responses, snapshots, sets>>
    BY <1>2 DEF Connect, linkVars, cacheVars, watchVars, setVars
  <1>4. ASSUME NEW n \in Nodes, NEW t \in Types
        PROVE  /\ client'[n][t].names = client[n][t].names /\ client'[n][t].content = client[n][t].content
               /\ client'[n][t].at = client[n][t].at /\ client'[n][t].rejected = client[n][t].rejected
    <2>1. PICK st \in ClientStates : st = client[n][t]
      BY <1>1
    <2>2. client'[n][t] = st \/ client'[n][t] = [st EXCEPT !.asked = FALSE]
      BY <1>1, <1>3, <2>1
    <2> QED
      BY <2>1, <2>2 DEF ClientStates
  <1> QED
    BY <1>3, <1>4, ViewsStay, NothingChanges

\* A client changes in one type.
Turns(m, u, st) == client' = [client EXCEPT ![m][u] = st]

\* What the service sees of it.
Shows(m, u, names, content, at, rejected) ==
    /\ Wants' = [Wants EXCEPT ![m][u] = names]
    /\ Holds' = [Holds EXCEPT ![m][u] = content]
    /\ Positions' = [Positions EXCEPT ![m][u] = at]
    /\ Refusals' = [Refusals EXCEPT ![m][u] = rejected]

\* What the service sees of a client that changes in one type.
LEMMA ViewsChange ==
    ASSUME TypeOK, NEW m \in Nodes, NEW u \in Types, NEW st \in ClientStates,
           Turns(m, u, st), NEW names, NEW content, NEW at, NEW rejected,
           names = IF st.names = {} THEN Names ELSE st.names,
           content = st.content, at = st.at, rejected = st.rejected
    PROVE  Shows(m, u, names, content, at, rejected)
  <1>1. client \in [Nodes -> [Types -> ClientStates]]
    BY DEF TypeOK, ClientStates
  <1>2. /\ client' \in [Nodes -> [Types -> ClientStates]]
        /\ \A n \in Nodes, t \in Types : client'[n][t] = IF n = m /\ t = u THEN st ELSE client[n][t]
    BY <1>1 DEF Turns
  <1>4. Wants' = [Wants EXCEPT ![m][u] = names]
    <2>1. Wants \in [Nodes -> [Types -> SUBSET Names]] /\ Wants' \in [Nodes -> [Types -> SUBSET Names]]
      BY <1>1, <1>2 DEF Wants, ClientStates
    <2>2. \A n \in Nodes, t \in Types : Wants'[n][t] = IF n = m /\ t = u THEN names ELSE Wants[n][t]
      BY <1>2 DEF Wants
    <2> QED
      BY <2>1, <2>2, GridUpdate
  <1>5. Holds' = [Holds EXCEPT ![m][u] = content]
    <2>1. Holds \in [Nodes -> [Types -> ResourceMaps]] /\ Holds' \in [Nodes -> [Types -> ResourceMaps]]
      BY <1>1, <1>2 DEF Holds, ClientStates
    <2>2. \A n \in Nodes, t \in Types : Holds'[n][t] = IF n = m /\ t = u THEN content ELSE Holds[n][t]
      BY <1>2 DEF Holds
    <2> QED
      BY <2>1, <2>2, GridUpdate
  <1>6. Positions' = [Positions EXCEPT ![m][u] = at]
    <2>1. Positions \in [Nodes -> [Types -> Nat]] /\ Positions' \in [Nodes -> [Types -> Nat]]
      BY <1>1, <1>2 DEF Positions, ClientStates
    <2>2. \A n \in Nodes, t \in Types : Positions'[n][t] = IF n = m /\ t = u THEN at ELSE Positions[n][t]
      BY <1>2 DEF Positions
    <2> QED
      BY <2>1, <2>2, GridUpdate
  <1>7. Refusals' = [Refusals EXCEPT ![m][u] = rejected]
    <2>1. Refusals \in [Nodes -> [Types -> BOOLEAN]] /\ Refusals' \in [Nodes -> [Types -> BOOLEAN]]
      BY <1>1, <1>2 DEF Refusals, ClientStates
    <2>2. \A n \in Nodes, t \in Types : Refusals'[n][t] = IF n = m /\ t = u THEN rejected ELSE Refusals[n][t]
      BY <1>2 DEF Refusals
    <2> QED
      BY <2>1, <2>2, GridUpdate
  <1> QED
    BY <1>4, <1>5, <1>6, <1>7 DEF Shows

\* What the service sees of one type.
LEMMA ViewsOf ==
    ASSUME NEW n \in Nodes, NEW t \in Types
    PROVE  /\ Wants[n][t] = IF client[n][t].names = {} THEN Names ELSE client[n][t].names
           /\ Holds[n][t] = client[n][t].content
           /\ Positions[n][t] = client[n][t].at /\ Refusals[n][t] = client[n][t].rejected
           /\ Wants'[n][t] = IF client'[n][t].names = {} THEN Names ELSE client'[n][t].names
           /\ Holds'[n][t] = client'[n][t].content
  BY DEF Wants, Holds, Positions, Refusals

\* Asking for other names changes what the client is interested in; names that
\* are given up are no longer held.
LEMMA AskingServes ==
    ASSUME ServiceInv, NEW n \in Nodes, NEW t \in Types, Ask(n, t) \/ AskMore(n, t) \/ Follow(n, t)
    PROVE  Service!Next
  <1>1. TypeOK /\ client \in [Nodes -> [Types -> ClientStates]]
    BY DEF ServiceInv, ServerInv, TypeOK, ClientStates
  <1>2. PICK old \in ClientStates : old = client[n][t]
    BY <1>1
  <1>3. UNCHANGED <<responses, snapshots, sets>>
    BY DEF Ask, AskMore, Follow, cacheVars, watchVars, setVars
  <1>4. old.names # {} => DOMAIN old.content \subseteq old.names
    BY <1>2 DEF ServiceInv, HoldingInv
  <1>5. PICK D \in SUBSET Names : old.content \in [D -> Hashes]
    BY DEF ClientStates, ResourceMaps, Maps
  <1>6. ASSUME toClient' = toClient, NEW st \in ClientStates, client' = [client EXCEPT ![n][t] = st],
               NEW names \in SUBSET Names, names # {}, st.names = names, st.at = old.at, st.rejected = old.rejected,
               st.content = Restrict(old.content, DOMAIN old.content \cap names)
        PROVE  Service!Next
    <2>0. PICK content, at, rejected : content = st.content /\ at = old.at /\ rejected = old.rejected
      OBVIOUS
    <2>1. /\ Wants' = [Wants EXCEPT ![n][t] = names]
          /\ Holds' = [Holds EXCEPT ![n][t] = content]
          /\ Positions' = [Positions EXCEPT ![n][t] = at] /\ Refusals' = [Refusals EXCEPT ![n][t] = rejected]
      <3>1. /\ names = IF st.names = {} THEN Names ELSE st.names
            /\ content = st.content /\ at = st.at /\ rejected = st.rejected
        BY <1>6, <2>0
      <3>2. Turns(n, t, st)
        BY <1>6 DEF Turns
      <3>3. Shows(n, t, names, content, at, rejected)
        BY <1>1, <1>6, <3>1, <3>2, ViewsChange
      <3> QED
        BY <3>3 DEF Shows
    <2>2. Positions' = Positions /\ Refusals' = Refusals
      <3>1. Positions[n][t] = at /\ Refusals[n][t] = rejected
        BY <1>2, <2>0, ViewsOf
      <3>2. [Positions EXCEPT ![n][t] = at] = Positions
        BY <3>1 DEF Positions
      <3>3. [Refusals EXCEPT ![n][t] = rejected] = Refusals
        BY <3>1 DEF Refusals
      <3> QED
        BY <2>1, <3>2, <3>3
    <2>3. Wants'[n][t] = names
      BY <2>1 DEF Wants
    <2>4. st.content = Service!Restrict(Holds[n][t], DOMAIN Holds[n][t] \cap Wants'[n][t])
      BY <1>2, <1>6, <2>3, ViewsOf DEF Restrict, Service!Restrict
    <2>5. Holds' = [Holds EXCEPT ![n][t] = Service!Restrict(@, DOMAIN @ \cap Wants'[n][t])]
      BY <2>0, <2>1, <2>4
    <2>6. UNCHANGED Answers
      BY <1>3, <1>6 DEF Answers
    <2>7. Service!ChangeInterest(n, t)
      BY <1>3, <2>1, <2>2, <2>5, <2>6 DEF Service!ChangeInterest
    <2> QED
      BY <2>7 DEF Service!Next
  <1>7. CASE Ask(n, t)
    <2>1. client' = [client EXCEPT ![n][t] = OnAsk(old)] /\ toClient' = toClient
      BY <1>1, <1>2, <1>7, AskSends DEF Sends
    <2>2. PICK st \in ClientStates : st = OnAsk(old)
      BY OnAskParts
    <2>3. /\ st.names = old.names /\ st.content = old.content /\ st.at = old.at /\ st.rejected = old.rejected
      BY <2>2, OnAskParts
    <2>4. ASSUME NEW m \in Nodes, NEW u \in Types
          PROVE  /\ client'[m][u].names = client[m][u].names /\ client'[m][u].content = client[m][u].content
                 /\ client'[m][u].at = client[m][u].at /\ client'[m][u].rejected = client[m][u].rejected
      <3>1. client'[m][u] = IF m = n /\ u = t THEN st ELSE client[m][u]
        BY <1>1, <2>1, <2>2
      <3> QED
        BY <1>2, <2>3, <3>1
    <2> QED
      BY <1>3, <2>1, <2>4, ViewsStay, NothingChanges
  <1>8. CASE AskMore(n, t)
    <2>1. toClient' = toClient /\ old.names # {}
      BY <1>1, <1>2, <1>8, AskMoreSends
    <2>2. PICK more \in SUBSET Names : old.names \subseteq more /\ Sends(n, t, OnAskMore(old, more))
      BY <1>1, <1>2, <1>8, AskMoreSends
    <2>3. PICK st \in ClientStates : st = OnAskMore(old, more)
      BY OnAskMoreParts
    <2>4. /\ st.names = more /\ st.content = old.content /\ st.at = old.at /\ st.rejected = old.rejected
      BY <2>3, OnAskMoreParts
    <2>5. old.content = Restrict(old.content, DOMAIN old.content \cap more)
      <3>1. DOMAIN old.content \cap more = D /\ DOMAIN old.content = D
        BY <1>4, <1>5, <2>1, <2>2
      <3> QED
        BY <1>5, <3>1 DEF Restrict
    <2> QED
      BY <1>6, <2>1, <2>2, <2>3, <2>4, <2>5 DEF Sends
  <1>9. CASE Follow(n, t)
    <2>1. toClient' = toClient
      BY <1>1, <1>2, <1>9, FollowSends
    <2>2. PICK names \in SUBSET Names : names # {} /\ Sends(n, t, OnFollow(old, names))
      BY <1>1, <1>2, <1>9, FollowSends
    <2>3. PICK st \in ClientStates : st = OnFollow(old, names)
      BY OnFollowParts
    <2>4. /\ st.names = names /\ st.at = old.at /\ st.rejected = old.rejected
          /\ st.content = Restrict(old.content, DOMAIN old.content \cap names)
      BY <2>3, OnFollowParts
    <2> QED
      BY <1>6, <2>1, <2>2, <2>3, <2>4 DEF Sends
  <1> QED
    BY <1>7, <1>8, <1>9

\* The head of a client's wire goes.
LEMMA HeadGoes ==
    ASSUME TypeOK, NEW s \in Streams, toClient[s] # <<>>,
           toClient' = [toClient EXCEPT ![s] = Tail(@)], UNCHANGED responses,
           NEW r, r = Head(toClient[s])
    PROVE  /\ Answers' \subseteq Answers
           /\ \A s2 \in Streams : Range(toClient'[s2]) \subseteq Range(toClient[s2])
           /\ \A b \in Answers : b \in Answers' \/ b = WireAnswer(s, r)
           /\ ~r.heartbeat => WireAnswer(s, r) \in Answers
  <1>1. toClient \in [Streams -> Seq(DiscoveryResponses)] /\ toClient[s] \in Seq(DiscoveryResponses)
    BY DEF TypeOK
  <1>2. toClient'[s] = Tail(toClient[s]) /\ \A s2 \in Streams : s2 # s => toClient'[s2] = toClient[s2]
    BY <1>1
  <1>3. /\ r \in Range(toClient[s]) /\ Range(toClient'[s]) \subseteq Range(toClient[s])
        /\ Range(toClient[s]) \subseteq Range(toClient'[s]) \cup {r}
    BY <1>1, <1>2, TailRange
  <1>4. /\ \A c \in Channels : InChannel(c)' = InChannel(c)
        /\ \A s2 \in Streams : OnWire(s2)' \subseteq OnWire(s2)
        /\ \A s2 \in Streams : \A x \in OnWire(s2) : x \in OnWire(s2)' \/ (s2 = s /\ x = r)
        /\ ~r.heartbeat => r \in OnWire(s)
    BY <1>2, <1>3 DEF InChannel, OnWire
  <1>5. Answers' \subseteq Answers
    BY <1>4, AnswersShrink
  <1>6. \A s2 \in Streams : Range(toClient'[s2]) \subseteq Range(toClient[s2])
    BY <1>2, <1>3
  <1>7. ASSUME NEW b \in Answers PROVE b \in Answers' \/ b = WireAnswer(s, r)
    <2>1. CASE \E c \in Channels : \E x \in InChannel(c) : b = ChannelAnswer(x)
      BY <1>4, <2>1, AnswersAreNext
    <2>2. CASE \E s2 \in Streams : \E x \in OnWire(s2) : b = WireAnswer(s2, x)
      <3>1. PICK s2 \in Streams : \E x \in OnWire(s2) : b = WireAnswer(s2, x)
        BY <2>2
      <3>2. PICK x \in OnWire(s2) : b = WireAnswer(s2, x)
        BY <3>1
      <3>3. x \in OnWire(s2)' => b \in Answers'
        BY <3>2, AnswersAreNext
      <3> QED
        BY <1>4, <3>2, <3>3
    <2> QED
      BY <2>1, <2>2, AnswersAre
  <1>8. ~r.heartbeat => WireAnswer(s, r) \in Answers
    BY <1>4, AnswersAre
  <1> QED
    BY <1>5, <1>6, <1>7, <1>8

\* What a client holds after a response is what the answer brings it to.
LEMMA UpdatedAfter ==
    ASSUME NEW n \in Nodes, NEW t \in Types, NEW st \in ClientStates, NEW r \in DiscoveryResponses, NEW a,
           st = client[n][t], ~r.heartbeat, r.names = {} <=> st.names = {},
           a.node = n, a.type = t, a.scope = (IF r.names = {} THEN Names ELSE r.names),
           a.view = r.resources, a.kind = (IF r.names = {} THEN "all" ELSE "named")
    PROVE  Updated(st, r) = Service!After(a)
  <1>1. Wants[n][t] = (IF st.names = {} THEN Names ELSE st.names) /\ Holds[n][t] = st.content
    BY ViewsOf
  <1>2. PICK D \in SUBSET Names : r.resources \in [D -> Hashes]
    BY DEF DiscoveryResponses, ResourceMaps, Maps
  <1>3. PICK E \in SUBSET Names : st.content \in [E -> Hashes]
    BY DEF ClientStates, ResourceMaps, Maps
  <1>4. CASE st.names = {}
    <2>1. Updated(st, r) = r.resources
      BY <1>4 DEF Updated
    <2>2. a.kind # "named" /\ a.scope = Names
      BY <1>4
    <2>3. Names \cap (D \cup (E \ Names)) = D
      OBVIOUS
    <2>4. Service!After(a) = [x \in Names \cap (D \cup (E \ Names)) |->
                                 IF x \in D THEN r.resources[x] ELSE st.content[x]]
      BY <1>1, <1>2, <1>3, <1>4, <2>2 DEF Service!After
    <2>5. Service!After(a) = [x \in D |-> r.resources[x]]
      BY <2>3, <2>4
    <2> QED
      BY <1>2, <2>1, <2>5
  <1>5. CASE st.names # {}
    <2>1. Updated(st, r) = [x \in st.names \cap (E \cup D) |->
                               IF x \in D THEN r.resources[x] ELSE st.content[x]]
      BY <1>2, <1>3, <1>5 DEF Updated
    <2>2. Service!After(a) = [x \in st.names \cap (D \cup (E \ D)) |->
                                 IF x \in D THEN r.resources[x] ELSE st.content[x]]
      BY <1>1, <1>2, <1>3, <1>5 DEF Service!After
    <2>3. D \cup (E \ D) = E \cup D
      OBVIOUS
    <2> QED
      BY <2>1, <2>2, <2>3
  <1> QED
    BY <1>4, <1>5

\* Accepting a response is taking the answer; a heartbeat goes unnoticed.
LEMMA AckServes ==
    ASSUME ServiceInv, NEW n \in Nodes, Ack(n)
    PROVE  Service!Next
  <1>1. TypeOK /\ conn[n] # NoStream /\ toClient[conn[n]] # <<>> /\ sets \in Nat
    BY DEF ServiceInv, ServerInv, Ack, TypeOK, CacheTypeOK
  <1>2. PICK s \in Streams : s = conn[n] /\ StreamNode[s] = n
    BY <1>1, NodeOfStream
  <1>3. PICK r \in DiscoveryResponses, t \in Types :
              /\ r = Head(toClient[s]) /\ t = r.type
              /\ (r.names = {} <=> client[n][t].names = {})
              /\ client[n][t].at <= r.at /\ r.at <= sets
    BY <1>1, <1>2, HeadService
  <1>4. PICK old \in ClientStates : old = client[n][t]
    BY <1>1, ClientTyped
  <1>5. PICK st \in ClientStates : st = OnAck(old, r)
    BY OnAckParts
  <1>6. /\ st.names = old.names /\ st.content = Updated(old, r)
        /\ st.at = (IF r.heartbeat THEN old.at ELSE r.at) /\ st.rejected = (old.rejected /\ r.heartbeat)
    BY <1>5, OnAckParts
  <1>7. Turns(n, t, st) /\ toClient' = [toClient EXCEPT ![s] = Tail(@)]
    <2>1. Sends(n, t, OnAck(client[n][t], r)) /\ toClient' = [toClient EXCEPT ![conn[n]] = Tail(@)]
      BY <1>1, <1>2, <1>3, AckSends
    <2>2. Sends(n, t, st) /\ toClient' = [toClient EXCEPT ![s] = Tail(@)]
      BY <1>2, <1>4, <1>5, <2>1
    <2> QED
      BY <2>2 DEF Sends, Turns
  <1>8. UNCHANGED <<responses, snapshots, sets>>
    BY DEF Ack, cacheVars, watchVars, setVars
  <1>9. PICK a : a = WireAnswer(s, r)
    OBVIOUS
  <1>10. /\ Answers' \subseteq Answers
         /\ \A s2 \in Streams : Range(toClient'[s2]) \subseteq Range(toClient[s2])
         /\ \A b \in Answers : b \in Answers' \/ b = a
         /\ ~r.heartbeat => a \in Answers
    BY <1>1, <1>2, <1>3, <1>7, <1>8, <1>9, HeadGoes
  <1>11. PICK names, content, at, rejected :
               /\ names = (IF st.names = {} THEN Names ELSE st.names)
               /\ content = st.content /\ at = st.at /\ rejected = st.rejected
    OBVIOUS
  <1>12. Shows(n, t, names, content, at, rejected)
    BY <1>1, <1>7, <1>11, ViewsChange
  <1>13. Wants' = Wants
    <2>1. Wants[n][t] = names
      BY <1>4, <1>6, <1>11, ViewsOf
    <2>2. [Wants EXCEPT ![n][t] = names] = Wants
      BY <2>1 DEF Wants
    <2> QED
      BY <1>12, <2>2 DEF Shows
  <1>14. CASE r.heartbeat
    <2>1. content = old.content /\ at = old.at /\ rejected = old.rejected
      <3>1. (old.rejected /\ r.heartbeat) = old.rejected
        BY <1>14 DEF ClientStates
      <3> QED
        BY <1>6, <1>11, <1>14, <3>1 DEF Updated
    <2>2. Holds[n][t] = content /\ Positions[n][t] = at /\ Refusals[n][t] = rejected
      BY <1>4, <2>1, ViewsOf
    <2>3. /\ [Holds EXCEPT ![n][t] = content] = Holds
          /\ [Positions EXCEPT ![n][t] = at] = Positions
          /\ [Refusals EXCEPT ![n][t] = rejected] = Refusals
      BY <2>2 DEF Holds, Positions, Refusals
    <2>4. UNCHANGED <<Wants, Holds, Positions, Refusals>>
      BY <1>12, <1>13, <2>3 DEF Shows
    <2> QED
      BY <1>8, <1>10, <2>4, Loses
  <1>15. CASE ~r.heartbeat
    <2>1. /\ a.node = n /\ a.type = t /\ a.index = r.at
          /\ a.scope = (IF r.names = {} THEN Names ELSE r.names)
          /\ a.view = r.resources /\ a.kind = (IF r.names = {} THEN "all" ELSE "named")
      BY <1>2, <1>3, <1>9 DEF WireAnswer, AnswerOf
    <2>2. content = Service!After(a)
      <3>1. r.names = {} <=> old.names = {}
        BY <1>3, <1>4
      <3>2. Updated(old, r) = Service!After(a)
        BY <1>4, <1>15, <2>1, <3>1, UpdatedAfter
      <3> QED
        BY <1>6, <1>11, <3>2
    <2>3. at = r.at /\ rejected = FALSE
      BY <1>6, <1>11, <1>15
    <2>4. Positions' = [Positions EXCEPT ![n][t] = r.at] /\ Refusals' = [Refusals EXCEPT ![n][t] = FALSE]
      BY <1>12, <2>3 DEF Shows
    <2>5. Holds' = [Holds EXCEPT ![n][t] = content] /\ Holds'[n][t] = content
      BY <1>12 DEF Shows, Holds
    <2>6. r.at >= Positions[n][t]
      <3>1. Positions[n][t] = old.at /\ old.at \in Nat /\ r.at \in Nat /\ old.at <= r.at
        BY <1>3, <1>4, ViewsOf DEF ClientStates, DiscoveryResponses
      <3> QED
        BY <3>1
    <2>7. Service!Take(a)
      BY <1>8, <1>10, <1>13, <2>1, <2>2, <2>4, <2>5, <2>6 DEF Service!Take
    <2> QED
      BY <1>10, <1>15, <2>7 DEF Service!Next
  <1> QED
    BY <1>14, <1>15

\* Rejecting it is refusing the answer.
LEMMA NackServes ==
    ASSUME ServiceInv, NEW n \in Nodes, Nack(n)
    PROVE  Service!Next
  <1>1. TypeOK /\ conn[n] # NoStream /\ toClient[conn[n]] # <<>>
    BY DEF ServiceInv, ServerInv, Nack
  <1>2. PICK s \in Streams : s = conn[n] /\ StreamNode[s] = n
    BY <1>1, NodeOfStream
  <1>3. PICK r \in DiscoveryResponses, t \in Types : r = Head(toClient[s]) /\ t = r.type
    BY <1>1, <1>2, HeadService
  <1>4. PICK old \in ClientStates : old = client[n][t]
    BY <1>1, ClientTyped
  <1>5. PICK st \in ClientStates : st = OnNack(old, r)
    BY OnNackParts
  <1>6. st.names = old.names /\ st.content = old.content /\ st.at = old.at /\ st.rejected = TRUE
    BY <1>5, OnNackParts
  <1>7. Turns(n, t, st) /\ toClient' = [toClient EXCEPT ![s] = Tail(@)]
    BY <1>1, <1>2, <1>3, <1>4, <1>5, NackSends DEF Sends, Turns
  <1>8. UNCHANGED <<responses, snapshots, sets>>
    BY DEF Nack, cacheVars, watchVars, setVars
  <1>9. Answers' \subseteq Answers
    BY <1>1, <1>2, <1>3, <1>7, <1>8, HeadGoes
  <1>10. PICK names, content, at :
               /\ names = (IF st.names = {} THEN Names ELSE st.names)
               /\ content = st.content /\ at = st.at
    OBVIOUS
  <1>11. Shows(n, t, names, content, at, TRUE)
    BY <1>1, <1>6, <1>7, <1>10, ViewsChange
  <1>12. UNCHANGED <<Wants, Holds, Positions>>
    <2>1. Wants[n][t] = names /\ Holds[n][t] = content /\ Positions[n][t] = at
      BY <1>4, <1>6, <1>10, ViewsOf
    <2>2. /\ [Wants EXCEPT ![n][t] = names] = Wants
          /\ [Holds EXCEPT ![n][t] = content] = Holds
          /\ [Positions EXCEPT ![n][t] = at] = Positions
      BY <2>1 DEF Wants, Holds, Positions
    <2> QED
      BY <1>11, <2>2 DEF Shows
  <1>13. Service!Refuse(n, t)
    BY <1>8, <1>9, <1>11, <1>12 DEF Service!Refuse, Shows
  <1> QED
    BY <1>13 DEF Service!Next

\* The service begins with nothing published.
LEMMA InitServes == Init => Service!Init
  <1> SUFFICES ASSUME Init PROVE Service!Init
    OBVIOUS
  <1>1. client \in [Nodes -> [Types -> ClientStates]]
    BY InitServer DEF ServerInv, TypeOK, ClientStates
  <1>2. snapshots = [n \in Nodes |-> NoSnapshot] /\ sets = 0
    BY DEF Init, CacheInit
  <1>3. Answers = {}
    <2>1. (\A c \in Channels : InChannel(c) = {}) /\ (\A s \in Streams : OnWire(s) = {})
      BY EmptyRange DEF Init, CacheInit, InChannel, OnWire
    <2> QED
      BY <2>1, AnswersAre
  <1>4. Wants \in [Nodes -> [Types -> SUBSET Names]]
    BY <1>1 DEF Wants, ClientStates
  <1>5. ASSUME NEW n \in Nodes, NEW t \in Types
        PROVE  client[n][t].content = [x \in {} |-> x] /\ client[n][t].at = 0 /\ client[n][t].rejected = FALSE
    <2>1. client[n][t].content = EmptyMap /\ client[n][t].at = 0 /\ client[n][t].rejected = FALSE
      BY DEF Init
    <2>2. EmptyMap = [x \in {} |-> x]
      BY DEF EmptyMap
    <2> QED
      BY <2>1, <2>2
  <1>6. Holds = [n \in Nodes |-> [t \in Types |-> [x \in {} |-> x]]]
    BY <1>5 DEF Holds
  <1>7. Positions = [n \in Nodes |-> [t \in Types |-> 0]] /\ Refusals = [n \in Nodes |-> [t \in Types |-> FALSE]]
    BY <1>5 DEF Positions, Refusals
  <1> QED
    BY <1>2, <1>3, <1>4, <1>6, <1>7 DEF Service!Init

\* Every step is one of the service.
LEMMA ServiceStep ==
    ASSUME ServiceInv, [Next]_vars
    PROVE  [Service!Next]_(Service!vars)
  <1>1. CASE UNCHANGED vars
    <2>1. UNCHANGED <<snapshots, sets, responses, toClient, client>>
      BY <1>1 DEF vars, cacheVars, watchVars, setVars, linkVars, clientVars
    <2>2. Service!Next
      BY <2>1, ClientsStay, NothingChanges
    <2> QED
      BY <2>2
  <1>2. CASE Next
    <2>1. Service!Next
      BY <1>2, CacheServes, ConnectServes, AskingServes, AckServes, NackServes, LoopServes DEF Next
    <2> QED
      BY <2>1
  <1> QED
    BY <1>1, <1>2

\* Seen from its clients, the machinery of watches, channels, nonces and
\* superseded requests is the discovery service: every response is made from the
\* snapshot that is current, a client that accepts one has what that snapshot has
\* of the names asked for, and no client, on whichever of its streams, goes back
\* to an older snapshot, with Ordered or without, in ADS mode or not, whatever
\* requests, snapshots, heartbeats and ends of streams come in between (process,
\* processADS, respond, createResponse).
THEOREM SotwStreamsImplementService == Spec => ImplementsService
  BY InitServes, ServiceStep, InitServiceInv, ServiceInvStep, PTL DEF Spec, ImplementsService, Service!Spec

=============================================================================
