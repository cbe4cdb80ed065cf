----------------------------- MODULE DeltaServer -----------------------------
(***************************************************************************)
(* The delta server of pkg/server/delta/v3 on a snapshot cache, and its    *)
(* clients.                                                                *)
(*                                                                         *)
(* A stream's loop handles a request in several steps, between which the   *)
(* cache runs: it sends what is in its channel (processAll), cancels the   *)
(* watch of the request's type, updates the subscription and opens the     *)
(* next watch with the versions it has sent so far.                        *)
(***************************************************************************)
EXTENDS SnapshotCache, FiniteSets

CONSTANTS Streams,     \* streams, each opened at most once
          StreamNode,  \* the node whose client opens the stream
          Changes,     \* how clients change subscriptions: subscribe, unsubscribe, star, unstar
          NoRequest,   \* no request
          MaxChanges,  \* bound: changes of subscriptions
          MaxRejects   \* bound: responses a client rejects

ASSUME StreamAssumption == StreamNode \in [Streams -> Nodes]
ASSUME ChannelAssumption == DeltaChannels = Streams
ASSUME ChangesAssumption == Changes \subseteq {"subscribe", "unsubscribe", "star", "unstar"}
ASSUME ClientBoundAssumption == {MaxChanges, MaxRejects} \subseteq Nat

\* DeltaDiscoveryRequest; star and unstar stand for "*" in the two lists of names.
DeltaDiscoveryRequests ==
    [type : Types, subscribe : SUBSET Names, star : BOOLEAN, unsubscribe : SUBSET Names,
     unstar : BOOLEAN, initial : ResourceMaps]

VARIABLES
    pc,        \* idle, select, drain, cancel, create, closing, closed
    current,   \* the request being handled
    watching,  \* watches.deltaWatches: [active, cancel, state]
    live,      \* the stream's context is not done
    toServer,  \* requests on the wire
    toClient,  \* responses on the wire
    conn,      \* the stream a node's client uses
    client,    \* per node and type: [asked, wildcard, names, content, at, dropped, rejected];
               \* history: at of the response last accepted
    changes,   \* changes of subscriptions so far
    rejects    \* responses rejected so far

linkVars == <<live, toServer, toClient>>
clientVars == <<conn, client, changes, rejects>>
serverVars == <<pc, current, watching>>
vars == <<cacheVars, serverVars, linkVars, clientVars>>

NoStream == "none"

NoWatch == [active |-> FALSE, cancel |-> 0, state |-> NewStreamState(FALSE, EmptyMap)]

TypeOK ==
    /\ CacheTypeOK
    /\ pc \in [Streams -> {"idle", "select", "drain", "cancel", "create", "closing", "closed"}]
    /\ current \in [Streams -> DeltaDiscoveryRequests \cup {NoRequest}]
    /\ watching \in [Streams -> [Types -> [active : BOOLEAN, cancel : Nat, state : StreamStates]]]
    /\ live \in [Streams -> BOOLEAN]
    /\ toServer \in [Streams -> Seq(DeltaDiscoveryRequests)]
    /\ toClient \in [Streams -> Seq(DeltaResponses)]
    /\ conn \in [Nodes -> Streams \cup {NoStream}]
    /\ client \in [Nodes -> [Types -> [asked : BOOLEAN, wildcard : BOOLEAN, names : SUBSET Names,
                                       content : ResourceMaps, at : Nat, dropped : SUBSET Names,
                                       rejected : BOOLEAN]]]
    /\ changes \in Nat
    /\ rejects \in Nat

\* A client starts as a wildcard subscriber or with some names.
Init ==
    /\ CacheInit
    /\ pc = [s \in Streams |-> "idle"]
    /\ current = [s \in Streams |-> NoRequest]
    /\ watching = [s \in Streams |-> [t \in Types |-> NoWatch]]
    /\ live = [s \in Streams |-> FALSE]
    /\ toServer = [s \in Streams |-> <<>>]
    /\ toClient = [s \in Streams |-> <<>>]
    /\ conn = [n \in Nodes |-> NoStream]
    /\ client \in [Nodes -> [Types -> {st \in [asked : {FALSE}, wildcard : BOOLEAN,
                                               names : SUBSET Names, content : {EmptyMap}, at : {0},
                                               dropped : {{}}, rejected : {FALSE}] :
                                           st.wildcard <=> st.names = {}}]]
    /\ changes = 0
    /\ rejects = 0

----------------------------------------------------------------------------
(* The client                                                              *)

\* A request that changes nothing: an acknowledgement or a rejection.
Plain(t) == [type |-> t, subscribe |-> {}, star |-> FALSE, unsubscribe |-> {},
             unstar |-> FALSE, initial |-> EmptyMap]

Connect(s) ==
    /\ pc[s] = "idle"
    /\ conn[StreamNode[s]] = NoStream
    /\ pc' = [pc EXCEPT ![s] = "select"]
    /\ live' = [live EXCEPT ![s] = TRUE]
    /\ conn' = [conn EXCEPT ![StreamNode[s]] = s]
    /\ client' = [client EXCEPT ![StreamNode[s]] =
                    [t \in Types |-> [@[t] EXCEPT !.asked = FALSE]]]
    /\ UNCHANGED <<cacheVars, current, watching, toServer, toClient, changes, rejects>>

\* The first request of a type on a stream names what the client holds already.
\* A wildcard subscription needs its "*" only beside other names.
Ask(n, t) ==
    /\ conn[n] # NoStream
    /\ ~client[n][t].asked
    /\ client' = [client EXCEPT ![n][t].asked = TRUE]
    /\ toServer' = [toServer EXCEPT ![conn[n]] =
            Append(@, [Plain(t) EXCEPT !.subscribe = client[n][t].names,
                                       !.star = client[n][t].wildcard /\ client[n][t].names # {},
                                       !.initial = client[n][t].content])]
    /\ UNCHANGED <<cacheVars, serverVars, live, toClient, conn, changes, rejects>>

Change(n, t, kind, request, st) ==
    /\ kind \in Changes
    /\ conn[n] # NoStream
    /\ client[n][t].asked
    /\ changes < MaxChanges
    /\ changes' = changes + 1
    /\ client' = [client EXCEPT ![n][t] = st]
    /\ toServer' = [toServer EXCEPT ![conn[n]] = Append(@, request)]
    /\ UNCHANGED <<cacheVars, serverVars, live, toClient, conn, rejects>>

\* Clients return to a name they gave up once a response has left it out, with
\* which the stream forgets its version (dropped).
SubscribeName(n, t, x) ==
    /\ x \notin client[n][t].names \cup client[n][t].dropped
    /\ Change(n, t, "subscribe", [Plain(t) EXCEPT !.subscribe = {x}],
              [client[n][t] EXCEPT !.names = @ \cup {x}])

UnsubscribeName(n, t, x) ==
    /\ x \in client[n][t].names
    /\ client[n][t].wildcard \/ client[n][t].names # {x}
    /\ Change(n, t, "unsubscribe", [Plain(t) EXCEPT !.unsubscribe = {x}],
              [client[n][t] EXCEPT !.names = @ \ {x},
                                   !.dropped = @ \cup {x},
                                   !.content = Restrict(@, DOMAIN @ \ {x})])

SubscribeStar(n, t) ==
    /\ ~client[n][t].wildcard
    /\ client[n][t].dropped = {}
    /\ Change(n, t, "star", [Plain(t) EXCEPT !.star = TRUE],
              [client[n][t] EXCEPT !.wildcard = TRUE])

UnsubscribeStar(n, t) ==
    /\ client[n][t].wildcard
    /\ client[n][t].names # {}
    /\ Change(n, t, "unstar", [Plain(t) EXCEPT !.unstar = TRUE],
              [client[n][t] EXCEPT !.wildcard = FALSE,
                                   !.dropped = Names \ client[n][t].names,
                                   !.content = Restrict(@, DOMAIN @ \cap client[n][t].names)])

\* A response is applied to what the client is subscribed to, and acknowledged.
Ack(n) ==
    /\ conn[n] # NoStream
    /\ toClient[conn[n]] # <<>>
    /\ LET r  == Head(toClient[conn[n]])
           st == client[n][r.type]
           applied == Apply(st.content, r)
       IN  /\ client' = [client EXCEPT ![n][r.type].content =
                    IF st.wildcard THEN applied
                                   ELSE Restrict(applied, DOMAIN applied \cap st.names),
                               ![n][r.type].at = r.at,
                               ![n][r.type].dropped = @ \cap r.scope]
           /\ toServer' = [toServer EXCEPT ![conn[n]] = Append(@, Plain(r.type))]
    /\ toClient' = [toClient EXCEPT ![conn[n]] = Tail(@)]
    /\ UNCHANGED <<cacheVars, serverVars, live, conn, changes, rejects>>

Nack(n) ==
    /\ conn[n] # NoStream
    /\ toClient[conn[n]] # <<>>
    /\ rejects < MaxRejects
    /\ rejects' = rejects + 1
    /\ LET r == Head(toClient[conn[n]])
       IN  /\ client' = [client EXCEPT ![n][r.type].rejected = TRUE]
           /\ toServer' = [toServer EXCEPT ![conn[n]] = Append(@, Plain(r.type))]
    /\ toClient' = [toClient EXCEPT ![conn[n]] = Tail(@)]
    /\ UNCHANGED <<cacheVars, serverVars, live, conn, changes>>

\* The stream ends, for whatever reason.  What is on the wire is lost.
Disconnect(s) ==
    /\ live[s]
    /\ live' = [live EXCEPT ![s] = FALSE]
    /\ conn' = [conn EXCEPT ![StreamNode[s]] = NoStream]
    /\ toClient' = [toClient EXCEPT ![s] = <<>>]
    /\ UNCHANGED <<cacheVars, serverVars, toServer, client, changes, rejects>>

----------------------------------------------------------------------------
(* The loop of processDelta                                                *)

\* process: the response is sent, and its version map becomes the state of the
\* type's watch.
Process(s) ==
    LET r == Head(deltaResponses[s])
    IN  /\ deltaResponses' = [deltaResponses EXCEPT ![s] = Tail(@)]
        /\ toClient' = [toClient EXCEPT ![s] = IF live[s] THEN Append(@, r) ELSE @]
        /\ watching' = [watching EXCEPT ![s][r.type].state = SetResourceVersions(@, r.next)]
        /\ UNCHANGED <<deltaWatches, deltaWatchCount, watchVars, lockVars, beatVars, setVars, status>>

SendResponse(s) ==
    /\ pc[s] = "select"
    /\ deltaResponses[s] # <<>>
    /\ Process(s)
    /\ UNCHANGED <<pc, current, live, toServer, clientVars>>

RecvRequest(s) ==
    /\ pc[s] = "select"
    /\ toServer[s] # <<>>
    /\ current' = [current EXCEPT ![s] = Head(toServer[s])]
    /\ toServer' = [toServer EXCEPT ![s] = Tail(@)]
    /\ pc' = [pc EXCEPT ![s] = "drain"]
    /\ UNCHANGED <<cacheVars, watching, live, toClient, clientVars>>

\* Mutant: responses in the channel wait.
ProcessAll_Skipped(s) ==
    /\ pc[s] = "drain"
    /\ pc' = [pc EXCEPT ![s] = "cancel"]
    /\ UNCHANGED <<cacheVars, watching, toClient, current, live, toServer, clientVars>>

\* Mutant: responses in the channel are recorded and not sent.
ProcessAll_Discards(s) ==
    /\ pc[s] = "drain"
    /\ \/ /\ deltaResponses[s] # <<>>
          /\ watching' = [watching EXCEPT ![s][Head(deltaResponses[s]).type].state =
                SetResourceVersions(@, Head(deltaResponses[s]).next)]
          /\ deltaResponses' = [deltaResponses EXCEPT ![s] = Tail(@)]
          /\ UNCHANGED <<pc, deltaWatches, deltaWatchCount, watchVars, lockVars, beatVars,
                         setVars, status>>
       \/ /\ deltaResponses[s] = <<>>
          /\ pc' = [pc EXCEPT ![s] = "cancel"]
          /\ UNCHANGED <<cacheVars, watching>>
    /\ UNCHANGED <<toClient, current, live, toServer, clientVars>>

\* processAll, one response at a time, until the channel is empty.
ProcessAll(s) ==
    /\ pc[s] = "drain"
    /\ \/ /\ deltaResponses[s] # <<>>
          /\ Process(s)
          /\ UNCHANGED pc
       \/ /\ deltaResponses[s] = <<>>
          /\ pc' = [pc EXCEPT ![s] = "cancel"]
          /\ UNCHANGED <<cacheVars, watching, toClient>>
    /\ UNCHANGED <<current, live, toServer, clientVars>>

\* The subscription after a request.
Subscribed(st, r) == Unsubscribe(Subscribe(st, r.subscribe, r.star), r.unsubscribe, r.unstar)

\* Mutant: the watch of the type is not cancelled.
CancelPrevious_Leaks(s) ==
    LET r == current[s]
        w == watching[s][r.type]
        st == IF w.active THEN w.state ELSE NewStreamState(r.subscribe = {} /\ ~r.star, r.initial)
    IN  /\ pc[s] = "cancel"
        /\ UNCHANGED cacheVars
        /\ watching' = [watching EXCEPT ![s][r.type] =
                [active |-> TRUE, cancel |-> w.cancel, state |-> Subscribed(st, r)]]
        /\ pc' = [pc EXCEPT ![s] = "create"]
        /\ UNCHANGED <<current, linkVars, clientVars>>

\* The first request of a type makes the state, another one cancels the watch;
\* then the state's subscription is updated.
CancelPrevious(s) ==
    LET r == current[s]
        w == watching[s][r.type]
        st == IF w.active THEN w.state ELSE NewStreamState(r.subscribe = {} /\ ~r.star, r.initial)
    IN  /\ pc[s] = "cancel"
        /\ IF w.cancel = 0 THEN UNCHANGED cacheVars
                           ELSE CancelDeltaWatch(StreamNode[s], w.cancel)
        /\ watching' = [watching EXCEPT ![s][r.type] =
                [active |-> TRUE, cancel |-> w.cancel, state |-> Subscribed(st, r)]]
        /\ pc' = [pc EXCEPT ![s] = "create"]
        /\ UNCHANGED <<current, linkVars, clientVars>>

\* The next watch is opened with the state reached.
OpenWatch(s) ==
    LET t == current[s].type
    IN  /\ pc[s] = "create"
        /\ CreateDeltaWatch(StreamNode[s], t, watching[s][t].state, s)
        /\ watching' = [watching EXCEPT ![s][t].cancel = OpenedDeltaWatch]
        /\ pc' = [pc EXCEPT ![s] = "select"]
        /\ current' = [current EXCEPT ![s] = NoRequest]
        /\ UNCHANGED <<linkVars, clientVars>>

\* processDelta returns: the request channel is closed, a context is done, a
\* callback refused the request or sending failed.
Exit(s) ==
    /\ pc[s] \in {"select", "drain"}
    /\ ~live[s]
    /\ pc' = [pc EXCEPT ![s] = "closing"]
    /\ UNCHANGED <<cacheVars, current, watching, linkVars, clientVars>>

\* watches.Cancel cancels the watches in any order and then closes the channel.
CloseWatch(s, t) ==
    /\ pc[s] = "closing"
    /\ watching[s][t].cancel # 0
    /\ CancelDeltaWatch(StreamNode[s], watching[s][t].cancel)
    /\ watching' = [watching EXCEPT ![s][t].cancel = 0]
    /\ UNCHANGED <<pc, current, linkVars, clientVars>>

\* Mutant: the channel is closed before all watches are cancelled.
CloseChannel_Early(s) ==
    /\ pc[s] = "closing"
    /\ pc' = [pc EXCEPT ![s] = "closed"]
    /\ UNCHANGED <<cacheVars, current, watching, linkVars, clientVars>>

CloseChannel(s) ==
    /\ pc[s] = "closing"
    /\ \A t \in Types : watching[s][t].cancel = 0
    /\ pc' = [pc EXCEPT ![s] = "closed"]
    /\ UNCHANGED <<cacheVars, current, watching, linkVars, clientVars>>

----------------------------------------------------------------------------
CacheActs == CacheStep /\ UNCHANGED <<serverVars, linkVars, clientVars>>

ServerActs(s) ==
    \/ SendResponse(s)
    \/ RecvRequest(s)
    \/ ProcessAll(s)
    \/ CancelPrevious(s)
    \/ OpenWatch(s)
    \/ Exit(s)
    \/ \E t \in Types : CloseWatch(s, t)
    \/ CloseChannel(s)

Next ==
    \/ CacheActs
    \/ \E s \in Streams : Connect(s)
    \/ \E n \in Nodes, t \in Types : Ask(n, t)
    \/ \E n \in Nodes, t \in Types, x \in Names : SubscribeName(n, t, x)
    \/ \E n \in Nodes, t \in Types, x \in Names : UnsubscribeName(n, t, x)
    \/ \E n \in Nodes, t \in Types : SubscribeStar(n, t)
    \/ \E n \in Nodes, t \in Types : UnsubscribeStar(n, t)
    \/ \E n \in Nodes : Ack(n)
    \/ \E n \in Nodes : Nack(n)
    \/ \E s \in Streams : Disconnect(s)
    \/ \E s \in Streams : ServerActs(s)

Spec == Init /\ [][Next]_vars

\* As for SotwServer: goroutines run, clients acknowledge, nobody is obliged to
\* set snapshots, change subscriptions, reject or leave.
Fairness ==
    /\ WF_vars(\E w \in deltaTodo :
            RespondDeltaWatch(w) /\ UNCHANGED <<serverVars, linkVars, clientVars>>)
    /\ \A s \in Streams : WF_vars(ServerActs(s))
    /\ \A n \in Nodes, t \in Types : WF_vars(Ask(n, t))
    /\ \A n \in Nodes : WF_vars(Ack(n))

FairSpec == Spec /\ Fairness

----------------------------------------------------------------------------
(* Properties                                                              *)

\* At rest between the client, the loop and the cache.
Quiet(s) ==
    /\ pc[s] = "select"
    /\ toServer[s] = <<>>
    /\ toClient[s] = <<>>
    /\ deltaResponses[s] = <<>>
    /\ holder = "none"

\* The client holds exactly the snapshot's resources it is subscribed to.
Converged(n, t) ==
    LET st  == client[n][t]
        res == SnapshotResources(n, t)
        want == IF st.wildcard THEN DOMAIN res ELSE DOMAIN res \cap st.names
    IN  st.content = Restrict(res, want)

\* A stream at rest has brought its client up to date, removals included,
\* unless SetSnapshot reported an error or the client rejected a response
\* (processDelta, CreateDeltaWatch, SetSnapshot, createDeltaResponse).
QuietMeansConverged ==
    \A n \in Nodes :
        conn[n] # NoStream =>
            (Quiet(conn[n]) /\ Exists(n) /\ n \notin interrupted
                => \A t \in Types : client[n][t].asked /\ ~client[n][t].rejected
                                        => Converged(n, t))

\* "This field stores the last state sent to the client": at rest, the versions
\* the stream has recorded for a type are what the client holds of it.
StateIsLastSent ==
    \A n \in Nodes :
        conn[n] # NoStream /\ Quiet(conn[n]) =>
            \A t \in Types :
                LET w == watching[conn[n]][t]
                IN  client[n][t].asked /\ ~client[n][t].rejected /\ ~w.state.first
                        => client[n][t].content
                             = Restrict(w.state.versions,
                                        {x \in DOMAIN w.state.versions :
                                            client[n][t].wildcard \/ x \in client[n][t].names})

\* "We need to create the channel with a buffer size of 2x the number of types
\* to avoid deadlocks": two responses per type is the most the channel ever
\* holds, so that neither SetSnapshot nor the loop itself, which fill it while
\* they hold cache.mu, blocks (newWatches).
ChannelNeverFull ==
    \A s \in Streams, t \in Types : Cardinality(BufferedDeltaOn(s, t)) <= 2

\* The cache never sends on a channel that is closed, and closed streams leave
\* no watch behind: every watch is within reach of the cancel function its
\* stream holds (watches.Cancel; "Delta xDS properly closes watches when a
\* stream is closed").
NoLeakedWatch ==
    \A w \in deltaWatches :
        /\ pc[w.chan] \notin {"idle", "closed"}
        /\ w.id = watching[w.chan][w.type].cancel

\* Every client that stays connected and rejects nothing ends up with the last
\* snapshot set for its node.
EventuallyConverged ==
    <>[](\A n \in Nodes :
            conn[n] # NoStream /\ Exists(n) /\ n \notin interrupted
                => \A t \in Types : client[n][t].asked
                       => client[n][t].rejected \/ Converged(n, t))

----------------------------------------------------------------------------
(* What the streams implement                                              *)

Answers ==
    UNION {{[node |-> StreamNode[s], type |-> r.type, index |-> r.at, scope |-> r.scope,
             view |-> r.next, kind |-> "delta"] :
                r \in Range(deltaResponses[s]) \cup Range(toClient[s])} : s \in Streams}

Wants ==
    [n \in Nodes |-> [t \in Types |-> IF client[n][t].wildcard THEN Names ELSE client[n][t].names]]
Holds == [n \in Nodes |-> [t \in Types |-> client[n][t].content]]
Positions == [n \in Nodes |-> [t \in Types |-> client[n][t].at]]
Refusals == [n \in Nodes |-> [t \in Types |-> client[n][t].rejected]]

Service == INSTANCE DiscoveryService WITH
    current  <- snapshots,
    index    <- sets,
    answers  <- Answers,
    wanted   <- Wants,
    held     <- Holds,
    position <- Positions,
    refused  <- Refusals

\* Seen from its clients, the delta streams are the discovery service: although
\* every response is only a difference to what the stream believes its client
\* has, a client that applies them in turn has, after each, exactly what the
\* snapshot the response was made from has of its subscription, and no client
\* goes back to an older snapshot, reconnecting included (processDelta,
\* createDeltaResponse, CreateDeltaWatch).
ImplementsService == Service!Spec
============================================================================
