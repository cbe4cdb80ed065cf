----------------------------- MODULE SotwServer -----------------------------
(***************************************************************************)
(* The state-of-the-world server of pkg/server/sotw/v3 on a snapshot       *)
(* cache, and its clients.                                                 *)
(*                                                                         *)
(* Every stream has a goroutine that receives requests, one that runs      *)
(* process (one channel per type) or, with the Ordered option, processADS  *)
(* (one channel for all types), and a client that acknowledges or rejects  *)
(* responses and asks for more names.  The cache is shared: SetSnapshot    *)
(* and heartbeats run between any two steps of a stream that take its lock.*)
(***************************************************************************)
EXTENDS SnapshotCache, Consistency

CONSTANTS Streams,      \* streams, each opened at most once
          StreamNode,   \* the node whose client opens the stream
          Ordered,      \* the WithOrderedADS option
          Interest,     \* per type the name sets a client may ask for; {} is all
          Following,    \* clients ask for what the resources they hold refer to
          NoRequest,    \* no request
          MaxRejects    \* bound: responses a client rejects

AnyType == "Any"
NoStream == "none"

ASSUME StreamAssumption == StreamNode \in [Streams -> Nodes] /\ NoStream \notin Streams
ASSUME OrderedAssumption == {Ordered, Following} \subseteq BOOLEAN
ASSUME InterestAssumption == Interest \in [Types -> SUBSET SUBSET Names]
ASSUME ChannelAssumption == Channels = Streams \X (Types \cup {AnyType})
ASSUME RejectAssumption == MaxRejects \in Nat

\* DiscoveryRequest as the client sends it; nonce 0 is the empty nonce.
DiscoveryRequests == [type : Types, names : SUBSET Names, version : VersionInfos, nonce : Nat]

ASSUME RequestAssumption == NoRequest \notin DiscoveryRequests

\* DiscoveryResponse on the wire.  A heartbeat carries no resource bodies.
\* History: at and pushed as in Responses, names as in its request.
DiscoveryResponses == [type : Types, version : VersionInfos, resources : ResourceMaps,
                       heartbeat : BOOLEAN, nonce : Nat, at : Nat, pushed : BOOLEAN,
                       names : SUBSET Names]

VARIABLES
    pc,         \* idle, process, ads, drain, create, closing, closed
    current,    \* the request being handled in drain and create
    nonce,      \* streamWrapper.nonce
    responders, \* watches.responders: [active, cancel, nonce, names]
    known,      \* streamState.knownResourceNames
    last,       \* lastDiscoveryResponses: [nonce, names], nonce 0 if none
    resent,     \* the first request while a goroutine sends it again
    mux,        \* the channel of AnyType: absent, open, closed
    live,       \* the stream's context is not done
    reqClosed,  \* reqCh is closed
    toServer,   \* requests on the wire
    toClient,   \* responses on the wire
    conn,       \* the stream a node's client uses
    client,     \* per node and type: [asked, names, version, received, nonce, content, at,
                \* rejected]: version last acknowledged, version and nonce last received;
                \* history: at of the response last accepted
    rejects     \* responses rejected so far

loopVars == <<pc, current, resent>>
watcherVars == <<responders, known>>
sentVars == <<nonce, last>>
linkVars == <<toServer, toClient>>
streamVars == <<live, reqClosed>>
clientVars == <<conn, client, rejects>>
vars == <<cacheVars, loopVars, watcherVars, sentVars, linkVars, streamVars, mux, clientVars>>

NoWatch == [active |-> FALSE, cancel |-> 0, nonce |-> 0, names |-> {}]

TypeOK ==
    /\ CacheTypeOK
    /\ pc \in [Streams -> {"idle", "process", "ads", "drain", "create", "closing", "closed"}]
    /\ current \in [Streams -> DiscoveryRequests \cup {NoRequest}]
    /\ nonce \in [Streams -> Nat]
    /\ responders \in [Streams -> [Types -> [active : BOOLEAN, cancel : Nat, nonce : Nat,
                                            names : SUBSET Names]]]
    /\ known \in [Streams -> [Types -> SUBSET Names]]
    /\ last \in [Streams -> [Types -> [nonce : Nat, names : SUBSET Names]]]
    /\ resent \in [Streams -> DiscoveryRequests \cup {NoRequest}]
    /\ mux \in [Streams -> {"absent", "open", "closed"}]
    /\ live \in [Streams -> BOOLEAN]
    /\ reqClosed \in [Streams -> BOOLEAN]
    /\ toServer \in [Streams -> Seq(DiscoveryRequests)]
    /\ toClient \in [Streams -> Seq(DiscoveryResponses)]
    /\ conn \in [Nodes -> Streams \cup {NoStream}]
    /\ client \in [Nodes -> [Types -> [asked : BOOLEAN, names : SUBSET Names,
                                       version : VersionInfos, received : VersionInfos,
                                       nonce : Nat, content : ResourceMaps, at : Nat,
                                       rejected : BOOLEAN]]]
    /\ rejects \in Nat

\* A client that has not asked for a type yet may start with any of the name
\* sets it is interested in.
Init ==
    /\ CacheInit
    /\ pc = [s \in Streams |-> "idle"]
    /\ current = [s \in Streams |-> NoRequest]
    /\ nonce = [s \in Streams |-> 0]
    /\ responders = [s \in Streams |-> [t \in Types |-> NoWatch]]
    /\ known = [s \in Streams |-> [t \in Types |-> {}]]
    /\ last = [s \in Streams |-> [t \in Types |-> [nonce |-> 0, names |-> {}]]]
    /\ resent = [s \in Streams |-> NoRequest]
    /\ mux = [s \in Streams |-> "absent"]
    /\ live = [s \in Streams |-> FALSE]
    /\ reqClosed = [s \in Streams |-> FALSE]
    /\ toServer = [s \in Streams |-> <<>>]
    /\ toClient = [s \in Streams |-> <<>>]
    /\ conn = [n \in Nodes |-> NoStream]
    /\ client \in [Nodes -> {f \in [Types -> [asked : {FALSE}, names : UNION {Interest[t] : t \in Types},
                                              version : {NoVersion}, received : {NoVersion},
                                              nonce : {0},
                                              content : {EmptyMap}, at : {0}, rejected : {FALSE}]] :
                                \A t \in Types : f[t].names \in Interest[t]}]
    /\ rejects = 0

----------------------------------------------------------------------------
(* The client (pkg/client/sotw/v3 for acknowledging and rejecting)         *)

RequestFor(n, t) ==
    [type |-> t, names |-> client[n][t].names, version |-> client[n][t].version,
     nonce |-> client[n][t].nonce]

\* A new stream; the client knows what it received last on the old one.
Connect(s) ==
    /\ pc[s] = "idle"
    /\ conn[StreamNode[s]] = NoStream
    /\ pc' = [pc EXCEPT ![s] = "process"]
    /\ live' = [live EXCEPT ![s] = TRUE]
    /\ conn' = [conn EXCEPT ![StreamNode[s]] = s]
    /\ client' = [client EXCEPT ![StreamNode[s]] =
                    [t \in Types |-> [@[t] EXCEPT !.asked = FALSE]]]
    /\ UNCHANGED <<cacheVars, current, resent, watcherVars, sentVars, linkVars, reqClosed,
                   mux, rejects>>

\* A type of which a client asks for what the resources it holds refer to.
Followed(t) == Following /\ t \in ReferencedTypes

\* It asks for no empty name, which a scoped route may have.
Referenced(n, t) ==
    GetAllResourceReferences([u \in Types |-> client[n][u].content])[t] \ {NoName}

\* The client has asked for what the resources it holds refer to.
UpToDate(n) ==
    \A t \in Types : Followed(t) => Referenced(n, t) \in {{}, client[n][t].names}

\* The first request of a type on the stream: InitConnect acknowledges what was
\* received last, whether or not it was rejected then.
Ask(n, t) ==
    /\ conn[n] # NoStream
    /\ ~client[n][t].asked
    /\ Followed(t) => client[n][t].names # {}
    /\ client' = [client EXCEPT ![n][t].asked = TRUE, ![n][t].version = client[n][t].received]
    /\ toServer' = [toServer EXCEPT ![conn[n]] =
            Append(@, [RequestFor(n, t) EXCEPT !.version = client[n][t].received])]
    /\ UNCHANGED <<cacheVars, loopVars, watcherVars, sentVars, toClient, streamVars, mux,
                   conn, rejects>>

\* The client asks for more names.
AskMore(n, t) ==
    /\ conn[n] # NoStream
    /\ client[n][t].asked
    /\ client[n][t].names # {}
    /\ \E more \in Interest[t] :
         /\ client[n][t].names \subseteq more
         /\ client[n][t].names # more
         /\ client' = [client EXCEPT ![n][t].names = more]
         /\ toServer' = [toServer EXCEPT ![conn[n]] =
                Append(@, [RequestFor(n, t) EXCEPT !.names = more])]
    /\ UNCHANGED <<cacheVars, loopVars, watcherVars, sentVars, toClient, streamVars, mux,
                   conn, rejects>>

\* The client asks for the endpoints of the clusters it holds now, or for the
\* routes of its listeners, and lets go of the others.  It does so before it
\* looks at the next response.
Follow(n, t) ==
    /\ conn[n] # NoStream
    /\ Followed(t)
    /\ LET names == Referenced(n, t)
       IN  /\ names \notin {{}, client[n][t].names}
           /\ client' = [client EXCEPT ![n][t].asked = TRUE,
                                       ![n][t].names = names,
                                       ![n][t].content = Restrict(@, DOMAIN @ \cap names)]
           /\ toServer' = [toServer EXCEPT ![conn[n]] =
                  Append(@, [RequestFor(n, t) EXCEPT !.names = names])]
    /\ UNCHANGED <<cacheVars, loopVars, watcherVars, sentVars, toClient, streamVars, mux,
                   conn, rejects>>

\* Resources held after a response: all there is for a wildcard type, what was
\* sent on top of what is known, as far as it is wanted, for a type with names.
Updated(state, response) ==
    IF response.heartbeat THEN state.content
    ELSE IF state.names = {} THEN response.resources
    ELSE [n \in state.names \cap (DOMAIN state.content \cup DOMAIN response.resources) |->
            IF n \in DOMAIN response.resources THEN response.resources[n]
                                               ELSE state.content[n]]

\* Fetch and Ack: the version is accepted, the request repeats it.
Ack(n) ==
    /\ conn[n] # NoStream
    /\ UpToDate(n)
    /\ toClient[conn[n]] # <<>>
    /\ LET r  == Head(toClient[conn[n]])
           st == client[n][r.type]
           st2 == [st EXCEPT !.version = r.version, !.received = r.version, !.nonce = r.nonce,
                             !.content = Updated(st, r),
                             !.at = IF r.heartbeat THEN @ ELSE r.at,
                             !.rejected = @ /\ r.heartbeat]
       IN  /\ client' = [client EXCEPT ![n][r.type] = st2]
           /\ toServer' = [toServer EXCEPT ![conn[n]] =
                  Append(@, [type |-> r.type, names |-> st2.names,
                             version |-> st2.version, nonce |-> st2.nonce])]
    /\ toClient' = [toClient EXCEPT ![conn[n]] = Tail(@)]
    /\ UNCHANGED <<cacheVars, loopVars, watcherVars, sentVars, streamVars, mux, conn, rejects>>

\* Fetch and Nack: the request repeats the last version acknowledged.
Nack(n) ==
    /\ conn[n] # NoStream
    /\ UpToDate(n)
    /\ toClient[conn[n]] # <<>>
    /\ rejects < MaxRejects
    /\ rejects' = rejects + 1
    /\ LET r == Head(toClient[conn[n]])
       IN  /\ client' = [client EXCEPT ![n][r.type].received = r.version,
                                       ![n][r.type].nonce = r.nonce,
                                       ![n][r.type].rejected = TRUE]
           /\ toServer' = [toServer EXCEPT ![conn[n]] =
                  Append(@, [RequestFor(n, r.type) EXCEPT !.nonce = r.nonce])]
    /\ toClient' = [toClient EXCEPT ![conn[n]] = Tail(@)]
    /\ UNCHANGED <<cacheVars, loopVars, watcherVars, sentVars, streamVars, mux, conn>>

\* The stream ends: the client leaves, the connection breaks or the server's
\* context is done.  What is still on the wire towards the client is lost.
Disconnect(s) ==
    /\ live[s]
    /\ live' = [live EXCEPT ![s] = FALSE]
    /\ conn' = [conn EXCEPT ![StreamNode[s]] = NoStream]
    /\ toClient' = [toClient EXCEPT ![s] = <<>>]
    /\ UNCHANGED <<cacheVars, loopVars, watcherVars, sentVars, toServer, reqClosed, mux,
                   client, rejects>>

----------------------------------------------------------------------------
(* Receiving requests                                                      *)

\* The control loop that handles requests.
Loop == IF Ordered THEN "ads" ELSE "process"

Channel(s, t) == <<s, IF Ordered THEN AnyType ELSE t>>

\* The receiving goroutine ends and closes reqCh.
CloseRequests(s) ==
    /\ pc[s] # "idle"
    /\ ~live[s]
    /\ ~reqClosed[s]
    /\ reqClosed' = [reqClosed EXCEPT ![s] = TRUE]
    /\ UNCHANGED <<cacheVars, loopVars, watcherVars, sentVars, linkVars, live, mux, clientVars>>

\* With Ordered, process hands its first request to a goroutine that sends it
\* to reqCh again, and runs processADS.
EnterADS(s) ==
    /\ Ordered
    /\ pc[s] = "process"
    /\ ~reqClosed[s]
    /\ toServer[s] # <<>>
    /\ resent' = [resent EXCEPT ![s] = Head(toServer[s])]
    /\ toServer' = [toServer EXCEPT ![s] = Tail(@)]
    /\ pc' = [pc EXCEPT ![s] = "ads"]
    /\ mux' = [mux EXCEPT ![s] = "open"]
    /\ UNCHANGED <<cacheVars, current, watcherVars, sentVars, toClient, streamVars, clientVars>>

\* A response the client received is recorded with the names of its request.
Learn(s, r) ==
    known' = IF last[s][r.type].nonce # 0 /\ last[s][r.type].nonce = r.nonce
             THEN [known EXCEPT ![s][r.type] = last[s][r.type].names]
             ELSE known

\* A request that answers an older response than the last one of its type.
Stale(s, r) ==
    LET w == responders[s][r.type]
    IN  w.active /\ w.nonce # 0 /\ w.nonce # r.nonce

\* Mutant: process uses the channel of the watch it supersedes again.
OpenWatch_KeepsChannel(s, r) ==
    LET c == Channel(s, r.type)
    IN  /\ CreateWatch([node |-> StreamNode[s], type |-> r.type, names |-> r.names,
                        version |-> r.version],
                       known'[s][r.type], c, responses[c])
        /\ responders' = [responders EXCEPT ![s][r.type] =
                [active |-> TRUE, cancel |-> OpenedWatch, nonce |-> 0, names |-> r.names]]

\* s.cache.CreateWatch and addWatch.  process makes a channel for the watch,
\* processADS uses the one of AnyType.
OpenWatch(s, r) ==
    LET c == Channel(s, r.type)
    IN  /\ CreateWatch([node |-> StreamNode[s], type |-> r.type, names |-> r.names,
                        version |-> r.version],
                       known'[s][r.type], c, IF Ordered THEN responses[c] ELSE <<>>)
        /\ responders' = [responders EXCEPT ![s][r.type] =
                [active |-> TRUE, cancel |-> OpenedWatch, nonce |-> 0, names |-> r.names]]

\* Mutant: the superseded watch is not cancelled.
CancelResponder_Leaks(s, t) == UNCHANGED cacheVars

\* watch.close: the cancel function of a watch answered at once does nothing.
CancelResponder(s, t) ==
    LET id == responders[s][t].cancel
    IN  IF id = 0 THEN UNCHANGED cacheVars ELSE CancelWatch(StreamNode[s], id)

\* A request is taken from reqCh: an outdated one only counts as received, the
\* first one of its type opens a watch, another one first cancels the watch it
\* supersedes.
Handle(s, r) ==
    /\ Learn(s, r)
    /\ \/ /\ Stale(s, r)
          /\ pc' = pc
          /\ UNCHANGED <<cacheVars, current, responders>>
       \/ /\ ~responders[s][r.type].active
          /\ OpenWatch(s, r)
          /\ pc' = pc
          /\ UNCHANGED current
       \/ /\ responders[s][r.type].active
          /\ ~Stale(s, r)
          /\ CancelResponder(s, r.type)
          /\ pc' = [pc EXCEPT ![s] = IF Ordered THEN "drain" ELSE "create"]
          /\ current' = [current EXCEPT ![s] = r]
          /\ UNCHANGED responders

\* reqCh offers the next request on the wire and the first one sent again.
Incoming(s) ==
    {r \in {resent[s]} : r # NoRequest}
        \cup {toServer[s][i] : i \in DOMAIN toServer[s] \cap {1}}

Take(s, r) ==
    \/ /\ toServer[s] # <<>>
       /\ r = Head(toServer[s])
       /\ toServer' = [toServer EXCEPT ![s] = Tail(@)]
       /\ UNCHANGED resent
    \/ /\ r = resent[s]
       /\ resent' = [resent EXCEPT ![s] = NoRequest]
       /\ UNCHANGED toServer

RecvRequest(s) ==
    /\ pc[s] = Loop
    /\ ~reqClosed[s]
    /\ \E r \in Incoming(s) : Take(s, r) /\ Handle(s, r)
    /\ UNCHANGED <<sentVars, toClient, streamVars, mux, clientVars>>

\* The request is refused by a callback or lacks what the loop requires: the
\* handler returns an error, which ends the stream.
RefuseRequest(s) ==
    /\ live[s]
    /\ pc[s] = Loop
    /\ \E r \in Incoming(s) : Take(s, r)
    /\ pc' = [pc EXCEPT ![s] = "closing"]
    /\ live' = [live EXCEPT ![s] = FALSE]
    /\ conn' = [conn EXCEPT ![StreamNode[s]] = NoStream]
    /\ toClient' = [toClient EXCEPT ![s] = <<>>]
    /\ UNCHANGED <<cacheVars, current, watcherVars, sentVars, reqClosed, mux, client, rejects>>

\* The watch of the request that superseded another is opened.
SupersedeWatch(s) ==
    /\ pc[s] = "create"
    /\ UNCHANGED known
    /\ OpenWatch(s, current[s])
    /\ pc' = [pc EXCEPT ![s] = Loop]
    /\ current' = [current EXCEPT ![s] = NoRequest]
    /\ UNCHANGED <<resent, sentVars, linkVars, streamVars, mux, clientVars>>

----------------------------------------------------------------------------
(* Sending responses                                                       *)

\* streamWrapper.send, and the nonce of the type's watch; r was taken from c.
Send(s, c) ==
    LET r == Head(responses[c])
        t == r.request.type
    IN  /\ responses' = [responses EXCEPT ![c] = Tail(@)]
        /\ nonce' = [nonce EXCEPT ![s] = @ + 1]
        /\ last' = [last EXCEPT ![s][t] = [nonce |-> nonce[s] + 1, names |-> r.request.names]]
        /\ responders' = [responders EXCEPT ![s][t].nonce = nonce[s] + 1]
        /\ toClient' = [toClient EXCEPT ![s] =
                IF ~live[s] THEN @
                ELSE Append(@, [type |-> t, version |-> r.version, resources |-> r.resources,
                                heartbeat |-> r.heartbeat, nonce |-> nonce[s] + 1, at |-> r.at,
                                pushed |-> r.pushed, names |-> r.request.names])]

SendResponse(s) ==
    /\ pc[s] = Loop
    /\ \E t \in Types :
         /\ responses[Channel(s, t)] # <<>>
         /\ Send(s, Channel(s, t))
    /\ UNCHANGED <<watches, watchCount, deltaVars, lockVars, beatVars, setVars, status, loopVars,
                   known, toServer, streamVars, mux, clientVars>>

\* Mutant: the channel is not emptied.
Drain_Skipped(s) ==
    /\ pc[s] = "drain"
    /\ pc' = [pc EXCEPT ![s] = "create"]
    /\ UNCHANGED <<cacheVars, responders, sentVars, toClient, current, resent, known, toServer,
                   streamVars, mux, clientVars>>

\* Mutant: responses of every type are dropped.
Drain_DropsAll(s) ==
    LET c == Channel(s, AnyType)
    IN  /\ pc[s] = "drain"
        /\ responses' = [responses EXCEPT ![c] = <<>>]
        /\ pc' = [pc EXCEPT ![s] = "create"]
        /\ UNCHANGED <<watches, watchCount, deltaVars, lockVars, beatVars, setVars, status,
                       responders, sentVars, toClient, current, resent, known, toServer,
                       streamVars, mux, clientVars>>

\* One iteration of processAllExcept: a response of the type whose watch was
\* cancelled is dropped, the others are sent.
Drain(s) ==
    LET c == Channel(s, AnyType)
    IN  /\ pc[s] = "drain"
        /\ \/ /\ responses[c] = <<>>
              /\ pc' = [pc EXCEPT ![s] = "create"]
              /\ UNCHANGED <<responses, responders, sentVars, toClient>>
           \/ /\ responses[c] # <<>>
              /\ Head(responses[c]).request.type # current[s].type
              /\ Send(s, c)
              /\ UNCHANGED pc
           \/ /\ responses[c] # <<>>
              /\ Head(responses[c]).request.type = current[s].type
              /\ responses' = [responses EXCEPT ![c] = Tail(@)]
              /\ UNCHANGED <<pc, responders, sentVars, toClient>>
    /\ UNCHANGED <<watches, watchCount, deltaVars, lockVars, beatVars, setVars, status, current,
                   resent, known, toServer, streamVars, mux, clientVars>>

----------------------------------------------------------------------------
(* Shutdown                                                                *)

\* process or processADS returns: reqCh is closed, a context is done, or
\* sending failed.
Exit(s) ==
    /\ \/ pc[s] \in {"process", "ads"}
       \/ pc[s] = "drain" /\ responses[Channel(s, AnyType)] # <<>>
    /\ ~live[s]
    /\ pc' = [pc EXCEPT ![s] = "closing"]
    /\ UNCHANGED <<cacheVars, current, resent, watcherVars, sentVars, linkVars, streamVars,
                   mux, clientVars>>

\* Mutant: watches are left open.
CloseWatch_Leaks(s, t) ==
    /\ pc[s] = "closing"
    /\ responders[s][t].active
    /\ responders' = [responders EXCEPT ![s][t] = NoWatch]
    /\ UNCHANGED <<cacheVars, loopVars, known, sentVars, linkVars, streamVars, mux, clientVars>>

\* watches.close cancels the responders in any order; the one of AnyType
\* closes the channel that processADS shares.
CloseWatch(s, t) ==
    /\ pc[s] = "closing"
    /\ responders[s][t].active
    /\ CancelResponder(s, t)
    /\ responders' = [responders EXCEPT ![s][t] = NoWatch]
    /\ UNCHANGED <<loopVars, known, sentVars, linkVars, streamVars, mux, clientVars>>

CloseMux(s) ==
    /\ pc[s] = "closing"
    /\ mux[s] = "open"
    /\ mux' = [mux EXCEPT ![s] = "closed"]
    /\ UNCHANGED <<cacheVars, loopVars, watcherVars, sentVars, linkVars, streamVars, clientVars>>

Closed(s) ==
    /\ pc[s] = "closing"
    /\ \A t \in Types : ~responders[s][t].active
    /\ mux[s] # "open"
    /\ pc' = [pc EXCEPT ![s] = "closed"]
    /\ UNCHANGED <<cacheVars, current, resent, watcherVars, sentVars, linkVars, streamVars,
                   mux, clientVars>>

----------------------------------------------------------------------------
serverVars == <<loopVars, watcherVars, sentVars, linkVars, streamVars, mux, clientVars>>

CacheActs == CacheStep /\ UNCHANGED serverVars

ServerActs(s) ==
    \/ EnterADS(s)
    \/ RecvRequest(s)
    \/ SupersedeWatch(s)
    \/ SendResponse(s)
    \/ Drain(s)
    \/ Exit(s)
    \/ \E t \in Types : CloseWatch(s, t)
    \/ CloseMux(s)
    \/ Closed(s)

Next ==
    \/ CacheActs
    \/ \E s \in Streams : Connect(s)
    \/ \E n \in Nodes, t \in Types : Ask(n, t)
    \/ \E n \in Nodes, t \in Types : AskMore(n, t)
    \/ \E n \in Nodes, t \in Types : Follow(n, t)
    \/ \E n \in Nodes : Ack(n)
    \/ \E n \in Nodes : Nack(n)
    \/ \E s \in Streams : Disconnect(s)
    \/ \E s \in Streams : CloseRequests(s)
    \/ \E s \in Streams : RefuseRequest(s)
    \/ \E s \in Streams : ServerActs(s)

Spec == Init /\ [][Next]_vars

(***************************************************************************)
(* The goroutines of the server, the SetSnapshot call or the heartbeat     *)
(* under way, and clients that answer what they receive keep running.      *)
(* Nothing obliges a management server to set a snapshot, or a client to   *)
(* ask for more names, to reject a response or to leave.                   *)
(***************************************************************************)
Fairness ==
    /\ WF_vars(\E w \in todo : (RespondWatch(w) \/ SendHeartbeat(w)) /\ UNCHANGED serverVars)
    /\ \A s \in Streams : WF_vars(ServerActs(s))
    /\ \A n \in Nodes, t \in Types : WF_vars(Ask(n, t)) /\ WF_vars(Follow(n, t))
    /\ \A n \in Nodes : WF_vars(Ack(n))

FairSpec == Spec /\ Fairness

----------------------------------------------------------------------------
(* Properties                                                              *)

\* The cache holds a watch for the type, or the answer waits in the channel.
Pending(s, t) ==
    \/ \E w \in OpenOn(Channel(s, t), t) : w.id = responders[s][t].cancel
    \/ BufferedOn(Channel(s, t), t) # {}

\* A request of a type with names may go unanswered in ADS mode.
MayBeHeld(s, t) == Ads /\ responders[s][t].names # {}

\* A stream is never left in silence: as long as nothing was sent in answer to
\* the last request accepted for a type, the cache still holds a watch for it
\* or the answer is in the channel, whatever SetSnapshot, heartbeats, stale
\* requests and superseding requests did in the meantime (process, processADS,
\* CreateWatch, sendHeartbeats).
NeverSilent ==
    \A s \in Streams, t \in Types :
        pc[s] = Loop /\ responders[s][t].active /\ responders[s][t].nonce = 0
            => Pending(s, t) \/ MayBeHeld(s, t)

\* "Each subsequent request is assumed to supercede the previous request": what
\* is in the channel when the loop selects answers the last request accepted
\* for the type, never one it superseded (process, processAllExcept).
FreshAnswers ==
    \A s \in Streams, t \in Types :
        pc[s] = Loop =>
            \A i \in BufferedOn(Channel(s, t), t) :
                responses[Channel(s, t)][i].request.names = responders[s][t].names

\* No watch outlives its stream, and none is out of reach of the cancel
\* function the stream holds for its type (watches.close, shutdown).
NoLeakedWatch ==
    \A w \in watches :
        LET s == w.chan[1]
        IN  /\ pc[s] \notin {"idle", "closed"}
            /\ w.id = responders[s][w.request.type].cancel

\* With WithOrderedADS on an ADS cache the responses caused by one SetSnapshot
\* reach the wire in the order of types.ResponseType ("guarantees the server
\* will send updates over the wire in an ordered fashion").
OrderedOnTheWire ==
    Ads /\ Ordered =>
        \A s \in Streams : \A i, j \in DOMAIN toClient[s] :
            LET x == toClient[s][i]
                y == toClient[s][j]
            IN  i < j /\ x.pushed /\ y.pushed /\ x.at = y.at
                    => GetResponseType(x.type) <= GetResponseType(y.type)

\* Nothing is under way between the client, the stream's loop and the cache.
Quiet(s) ==
    /\ pc[s] = Loop
    /\ toServer[s] = <<>>
    /\ toClient[s] = <<>>
    /\ resent[s] = NoRequest
    /\ holder = "none"
    /\ \A t \in Types : responses[Channel(s, t)] = <<>>

\* The client has the snapshot's version of a type and its resources, as far
\* as it asked for them.
Converged(n, t) ==
    LET st  == client[n][t]
        res == SnapshotResources(n, t)
        want == IF st.names = {} THEN DOMAIN res ELSE DOMAIN res \cap st.names
    IN  /\ st.version = SnapshotVersion(n, t)
        /\ \A x \in want : x \in DOMAIN st.content /\ st.content[x] = res[x]
        /\ st.names = {} => DOMAIN st.content = want

\* A stream at rest has brought its client up to date: version and contents of
\* every type it asked for are those of the snapshot, unless SetSnapshot
\* reported an error or the client rejected the last response; the cache is not
\* in ADS mode (the whole protocol: process, CreateWatch, SetSnapshot, send, Ack).
QuietMeansConverged ==
    \A n \in Nodes :
        conn[n] # NoStream =>
            (Quiet(conn[n]) /\ Exists(n) /\ n \notin interrupted /\ ~Ads
                => \A t \in Types : client[n][t].asked =>
                       Converged(n, t) \/ client[n][t].rejected)

\* Every client that stays connected and rejects nothing for good ends up with
\* the last snapshot set for its node, for every type it asks for.  In ADS mode,
\* where a request that does not name all resources is not answered, this is
\* so if snapshots are consistent and clients ask for what their resources refer
\* to ("to ensure that Envoy makes the request for all EDS clusters or RDS
\* routes eventually").
EventuallyConverged ==
    <>[](\A n \in Nodes :
            conn[n] # NoStream /\ Exists(n) /\ n \notin interrupted
                => \A t \in Types : client[n][t].asked
                       => client[n][t].rejected \/ Converged(n, t))

\* No goroutine sends on the channel of AnyType once it is closed: what the
\* cache is about to send goes to open channels (shutdown "closes all open
\* watches").
NoSendOnClosedChannel ==
    \A w \in todo :
        w.chan[2] = AnyType /\ mux[w.chan[1]] = "closed"
            => Held(w.request, SnapshotResources(w.request.node, w.request.type))

----------------------------------------------------------------------------
(* What the streams implement                                              *)

AnswerOf(n, t, names, r) ==
    [node |-> n, type |-> t, index |-> r.at,
     scope |-> IF names = {} THEN Names ELSE names,
     view |-> r.resources,
     kind |-> IF names = {} THEN "all" ELSE "named"]

Answers ==
    (UNION {{AnswerOf(r.request.node, r.request.type, r.request.names, r) :
                r \in {x \in Range(responses[c]) : ~x.heartbeat}} : c \in Channels})
    \cup
    (UNION {{AnswerOf(StreamNode[s], r.type, r.names, r) :
                r \in {x \in Range(toClient[s]) : ~x.heartbeat}} : s \in Streams})

Wants ==
    [n \in Nodes |-> [t \in Types |-> IF client[n][t].names = {} THEN Names ELSE client[n][t].names]]
Holds == [n \in Nodes |-> [t \in Types |-> client[n][t].content]]
Positions == [n \in Nodes |-> [t \in Types |-> client[n][t].at]]
Refusals == [n \in Nodes |-> [t \in Types |-> client[n][t].rejected]]

Service == INSTANCE DiscoveryService WITH
    current  <- snapshots,
    index    <- sets,
    answers  <- Answers,
    wanted   <- Wants,
    held     <- Holds,
    position <- Positions,
    refused  <- Refusals

\* Seen from its clients, the machinery of watches, channels, nonces and
\* superseded requests is the discovery service: every response is made from the
\* snapshot that is current, a client that accepts one has what the snapshot
\* has of the names asked for, and no client, on whichever of its streams, goes
\* back to an older snapshot (process, processADS, respond, createResponse).
ImplementsService == Service!Spec
============================================================================
