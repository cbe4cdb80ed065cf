------------------------- MODULE DeltaServerProofs -------------------------
(***************************************************************************)
(* Proofs about DeltaServer, for all nodes, streams, types, names,         *)
(* snapshots, changes of subscriptions and bounds.                         *)
(***************************************************************************)
EXTENDS DeltaServer, SnapshotCacheProofs, FiniteSetTheorems, TLAPS

ClientStates == [asked : BOOLEAN, wildcard : BOOLEAN, names : SUBSET Names,
                 content : ResourceMaps, at : Nat, dropped : SUBSET Names, rejected : BOOLEAN]

Watchings == [active : BOOLEAN, cancel : Nat, state : StreamStates]

\* The request a stream handles is one.
CurrentInv ==
    \A s \in Streams : pc[s] \in {"drain", "cancel", "create"} => current[s] \in DeltaDiscoveryRequests

----------------------------------------------------------------------------
(* Types: stream states and clients                                        *)

LEMMA EmptyMapTyped == EmptyMap \in ResourceMaps /\ EmptyMap \in VersionMaps
  BY DEF EmptyMap, ResourceMaps, VersionMaps, Maps

\* A resource map is a version map.
LEMMA ResourceVersions ==
    ASSUME NEW m \in ResourceMaps PROVE m \in VersionMaps
  <1>1. PICK D \in SUBSET Names : m \in [D -> Hashes]
    BY DEF ResourceMaps, Maps
  <1>2. m \in [D -> Hashes \cup {NoHash}]
    BY <1>1
  <1> QED
    BY <1>1, <1>2 DEF VersionMaps, Maps

\* A new stream state, one whose versions are replaced, and one whose
\* subscription changes.
LEMMA NewStateTyped ==
    ASSUME NEW wildcard \in BOOLEAN, NEW initial \in ResourceMaps
    PROVE  NewStreamState(wildcard, initial) \in StreamStates
  BY ResourceVersions DEF NewStreamState, StreamStates

LEMMA SetVersionsTyped ==
    ASSUME NEW st \in StreamStates, NEW versions \in ResourceMaps
    PROVE  SetResourceVersions(st, versions) \in StreamStates
  BY ResourceVersions DEF SetResourceVersions, StreamStates

LEMMA SubscribedTyped ==
    ASSUME NEW st \in StreamStates, NEW r \in DeltaDiscoveryRequests
    PROVE  Subscribed(st, r) \in StreamStates
  <1> DEFINE st1 == Subscribe(st, r.subscribe, r.star)
             forced == IF st1.wildcard THEN r.unsubscribe \cap st1.subscribed ELSE {}
             versions == [n \in DOMAIN st1.versions \cup forced |->
                            IF n \in forced THEN NoHash ELSE st1.versions[n]]
  <1>1. /\ r.subscribe \in SUBSET Names /\ r.unsubscribe \in SUBSET Names
        /\ r.star \in BOOLEAN /\ r.unstar \in BOOLEAN
    BY DEF DeltaDiscoveryRequests
  <1>2. st1 \in StreamStates
    BY <1>1 DEF Subscribe, StreamStates
  <1>3. forced \in SUBSET Names
    BY <1>1
  <1> HIDE DEF st1
  <1>4. PICK D \in SUBSET Names : st1.versions \in [D -> Hashes \cup {NoHash}]
    BY <1>2 DEF StreamStates, VersionMaps, Maps
  <1> HIDE DEF forced
  <1>5. versions \in [D \cup forced -> Hashes \cup {NoHash}]
    BY <1>4
  <1>6. versions \in VersionMaps
    BY <1>3, <1>5 DEF VersionMaps, Maps
  <1>7. Unsubscribe(st1, r.unsubscribe, r.unstar) =
            [st1 EXCEPT !.versions = versions, !.subscribed = @ \ r.unsubscribe,
                        !.wildcard = @ /\ ~r.unstar]
    BY DEF Unsubscribe, forced
  <1> HIDE DEF versions
  <1>8. Unsubscribe(st1, r.unsubscribe, r.unstar) \in StreamStates
    BY <1>1, <1>2, <1>6, <1>7 DEF StreamStates
  <1> QED
    BY <1>8 DEF Subscribed, st1

\* What a client holds after a response.
LEMMA ApplyTyped ==
    ASSUME NEW held \in ResourceMaps, NEW r, r.resources \in ResourceMaps
    PROVE  Apply(held, r) \in ResourceMaps
  <1>1. PICK D \in SUBSET Names : held \in [D -> Hashes]
    BY DEF ResourceMaps, Maps
  <1>2. PICK E \in SUBSET Names : r.resources \in [E -> Hashes]
    BY DEF ResourceMaps, Maps
  <1>3. Apply(held, r) \in [(D \ r.removed) \cup E -> Hashes]
    BY <1>1, <1>2 DEF Apply
  <1>4. (D \ r.removed) \cup E \in SUBSET Names
    OBVIOUS
  <1> QED
    BY <1>3, <1>4 DEF ResourceMaps, Maps

LEMMA PlainTyped ==
    ASSUME NEW t \in Types PROVE Plain(t) \in DeltaDiscoveryRequests
  BY EmptyMapTyped DEF Plain, DeltaDiscoveryRequests

\* Nothing happens to the cache.
LEMMA CacheUnchangedType ==
    ASSUME TypeInv, UNCHANGED cacheVars
    PROVE  TypeInv'
  BY DEF TypeInv, CacheTypeOK, LockDiscipline, Exists, cacheVars, watchVars, deltaVars,
         lockVars, beatVars, setVars

\* The client of a node sends a request on its stream and changes its state of a
\* type.
LEMMA ClientSendsType ==
    ASSUME TypeOK, NEW n \in Nodes, NEW t \in Types, NEW st \in ClientStates,
           NEW r \in DeltaDiscoveryRequests, conn[n] # NoStream,
           client' = [client EXCEPT ![n][t] = st],
           toServer' = [toServer EXCEPT ![conn[n]] = Append(@, r)],
           toClient' \in [Streams -> Seq(DeltaResponses)],
           changes' \in Nat, rejects' \in Nat,
           UNCHANGED <<cacheVars, serverVars, live, conn>>
    PROVE  TypeOK'
  <1>1. conn[n] \in Streams
    BY DEF TypeOK
  <1>2. Append(toServer[conn[n]], r) \in Seq(DeltaDiscoveryRequests)
    BY <1>1 DEF TypeOK
  <1>3. toServer' \in [Streams -> Seq(DeltaDiscoveryRequests)]
    BY <1>1, <1>2 DEF TypeOK
  <1>4. client' \in [Nodes -> [Types -> ClientStates]]
    <2>1. client \in [Nodes -> [Types -> ClientStates]]
      BY DEF TypeOK, ClientStates
    <2> QED
      BY <2>1
  <1>5. CacheTypeOK'
    BY DEF TypeOK, CacheTypeOK, cacheVars, watchVars, deltaVars, lockVars, beatVars, setVars
  <1> QED
    BY <1>3, <1>4, <1>5 DEF TypeOK, ClientStates, serverVars

\* A client changes its subscription.
LEMMA ChangeType ==
    ASSUME TypeOK, NEW n \in Nodes, NEW t \in Types, NEW kind, NEW st \in ClientStates,
           NEW r \in DeltaDiscoveryRequests, Change(n, t, kind, r, st)
    PROVE  TypeOK'
  <1>1. changes' \in Nat /\ rejects' \in Nat /\ toClient' \in [Streams -> Seq(DeltaResponses)]
    BY DEF Change, TypeOK
  <1> QED
    BY <1>1, ClientSendsType DEF Change

\* The steps of clients keep the types.
LEMMA ClientType ==
    ASSUME TypeOK, NEW n \in Nodes,
           \/ \E t \in Types : \/ Ask(n, t) \/ SubscribeStar(n, t) \/ UnsubscribeStar(n, t)
                               \/ \E x \in Names : SubscribeName(n, t, x) \/ UnsubscribeName(n, t, x)
           \/ Ack(n) \/ Nack(n)
    PROVE  TypeOK'
  <1>0. ASSUME NEW t \in Types
        PROVE  /\ client[n][t] \in ClientStates /\ Plain(t) \in DeltaDiscoveryRequests
               /\ client[n][t].content \in ResourceMaps
               /\ \A S : Restrict(client[n][t].content, DOMAIN client[n][t].content \cap S) \in ResourceMaps
    <2>1. client[n][t] \in ClientStates /\ Plain(t) \in DeltaDiscoveryRequests
      BY PlainTyped DEF TypeOK, ClientStates
    <2>2. client[n][t].content \in ResourceMaps
      BY <2>1 DEF ClientStates
    <2> QED
      BY <2>1, <2>2, RestrictMap DEF ResourceMaps
  <1>1. ASSUME NEW t \in Types, Ask(n, t) PROVE TypeOK'
    <2> DEFINE st == [client[n][t] EXCEPT !.asked = TRUE]
               r == [Plain(t) EXCEPT !.subscribe = client[n][t].names,
                                     !.star = client[n][t].wildcard /\ client[n][t].names # {},
                                     !.initial = client[n][t].content]
    <2>1. st \in ClientStates /\ r \in DeltaDiscoveryRequests
      <3>1. st \in ClientStates
        BY <1>0 DEF ClientStates
      <3>2. r \in DeltaDiscoveryRequests
        BY <1>0, EmptyMapTyped DEF ClientStates, DeltaDiscoveryRequests, Plain
      <3> QED
        BY <3>1, <3>2
    <2>2. /\ client' = [client EXCEPT ![n][t] = st]
          /\ toServer' = [toServer EXCEPT ![conn[n]] = Append(@, r)]
          /\ conn[n] # NoStream /\ UNCHANGED <<cacheVars, serverVars, live, toClient, conn, changes, rejects>>
      BY <1>1 DEF Ask
    <2>3. changes' \in Nat /\ rejects' \in Nat /\ toClient' \in [Streams -> Seq(DeltaResponses)]
      BY <2>2 DEF TypeOK
    <2> HIDE DEF st, r
    <2> QED
      BY <2>1, <2>2, <2>3, ClientSendsType
  <1>2. ASSUME NEW t \in Types, NEW x \in Names, SubscribeName(n, t, x) PROVE TypeOK'
    <2> DEFINE st == [client[n][t] EXCEPT !.names = @ \cup {x}]
               r == [Plain(t) EXCEPT !.subscribe = {x}]
    <2>1. st \in ClientStates /\ r \in DeltaDiscoveryRequests
      <3>1. st \in ClientStates
        BY <1>0 DEF ClientStates
      <3>2. r \in DeltaDiscoveryRequests
        BY <1>0 DEF ClientStates, DeltaDiscoveryRequests
      <3> QED
        BY <3>1, <3>2
    <2>2. Change(n, t, "subscribe", r, st)
      BY <1>2 DEF SubscribeName
    <2> HIDE DEF st, r
    <2> QED
      BY <2>1, <2>2, ChangeType
  <1>3. ASSUME NEW t \in Types, NEW x \in Names, UnsubscribeName(n, t, x) PROVE TypeOK'
    <2> DEFINE content == client[n][t].content
               kept == Restrict(content, DOMAIN content \ {x})
               st == [client[n][t] EXCEPT !.names = @ \ {x}, !.dropped = @ \cup {x}, !.content = kept]
               r == [Plain(t) EXCEPT !.unsubscribe = {x}]
    <2>1. kept \in ResourceMaps
      BY <1>0, RestrictMap DEF ResourceMaps
    <2>2. Change(n, t, "unsubscribe", r, st)
      BY <1>3 DEF UnsubscribeName
    <2> HIDE DEF kept
    <2>3. st \in ClientStates /\ r \in DeltaDiscoveryRequests
      <3>1. st \in ClientStates
        BY <1>0, <2>1 DEF ClientStates
      <3>2. r \in DeltaDiscoveryRequests
        BY <1>0, <2>1 DEF ClientStates, DeltaDiscoveryRequests
      <3> QED
        BY <3>1, <3>2
    <2> HIDE DEF st, r
    <2> QED
      BY <2>2, <2>3, ChangeType
  <1>4. ASSUME NEW t \in Types, SubscribeStar(n, t) PROVE TypeOK'
    <2> DEFINE st == [client[n][t] EXCEPT !.wildcard = TRUE]
               r == [Plain(t) EXCEPT !.star = TRUE]
    <2>1. st \in ClientStates /\ r \in DeltaDiscoveryRequests
      <3>1. st \in ClientStates
        BY <1>0 DEF ClientStates
      <3>2. r \in DeltaDiscoveryRequests
        BY <1>0, EmptyMapTyped DEF ClientStates, DeltaDiscoveryRequests, Plain
      <3> QED
        BY <3>1, <3>2
    <2>2. Change(n, t, "star", r, st)
      BY <1>4 DEF SubscribeStar
    <2> HIDE DEF st, r
    <2> QED
      BY <2>1, <2>2, ChangeType
  <1>5. ASSUME NEW t \in Types, UnsubscribeStar(n, t) PROVE TypeOK'
    <2> DEFINE content == client[n][t].content
               kept == Restrict(content, DOMAIN content \cap client[n][t].names)
               st == [client[n][t] EXCEPT !.wildcard = FALSE, !.dropped = Names \ client[n][t].names,
                                          !.content = kept]
               r == [Plain(t) EXCEPT !.unstar = TRUE]
    <2>1. kept \in ResourceMaps
      BY <1>0
    <2>2. Change(n, t, "unstar", r, st)
      BY <1>5 DEF UnsubscribeStar
    <2> HIDE DEF kept
    <2>3. st \in ClientStates /\ r \in DeltaDiscoveryRequests
      <3>1. st \in ClientStates
        BY <1>0, <2>1 DEF ClientStates
      <3>2. r \in DeltaDiscoveryRequests
        BY <1>0, <2>1, EmptyMapTyped DEF ClientStates, DeltaDiscoveryRequests, Plain
      <3> QED
        BY <3>1, <3>2
    <2> HIDE DEF st, r
    <2> QED
      BY <2>2, <2>3, ChangeType
  <1>6. ASSUME Ack(n) \/ Nack(n)
        PROVE  /\ conn[n] \in Streams /\ conn[n] # NoStream
               /\ Head(toClient[conn[n]]) \in DeltaResponses
               /\ Head(toClient[conn[n]]).type \in Types
               /\ toClient' \in [Streams -> Seq(DeltaResponses)]
    <2>1. conn[n] \in Streams /\ conn[n] # NoStream /\ toClient[conn[n]] # <<>>
      BY <1>6 DEF Ack, Nack, TypeOK
    <2>2. /\ Head(toClient[conn[n]]) \in DeltaResponses
          /\ Tail(toClient[conn[n]]) \in Seq(DeltaResponses)
      BY <2>1 DEF TypeOK
    <2>3. toClient' = [toClient EXCEPT ![conn[n]] = Tail(@)]
      BY <1>6 DEF Ack, Nack
    <2> QED
      BY <2>1, <2>2, <2>3 DEF TypeOK, DeltaResponses
  <1>7. CASE Ack(n)
    <2> DEFINE r == Head(toClient[conn[n]])
               t == r.type
               applied == Apply(client[n][t].content, r)
               content == IF client[n][t].wildcard THEN applied
                          ELSE Restrict(applied, DOMAIN applied \cap client[n][t].names)
               st == [client[n][t] EXCEPT !.content = content, !.at = r.at,
                                          !.dropped = @ \cap r.scope]
    <2>1. r \in DeltaResponses /\ t \in Types /\ conn[n] # NoStream
      BY <1>6, <1>7
    <2>2. r.resources \in ResourceMaps /\ r.at \in Nat
      BY <2>1 DEF DeltaResponses
    <2>3. /\ client' = [client EXCEPT ![n][t].content = content, ![n][t].at = r.at,
                                      ![n][t].dropped = @ \cap r.scope]
          /\ toServer' = [toServer EXCEPT ![conn[n]] = Append(@, Plain(t))]
          /\ UNCHANGED <<cacheVars, serverVars, live, conn, changes, rejects>>
      BY <1>7 DEF Ack
    <2> HIDE DEF r
    <2>4. applied \in ResourceMaps
      BY <1>0, <2>1, <2>2, ApplyTyped
    <2> HIDE DEF applied
    <2>5. content \in ResourceMaps
      BY <2>4, RestrictMap DEF ResourceMaps
    <2> HIDE DEF content
    <2>6. st \in ClientStates
      BY <1>0, <2>1, <2>2, <2>5 DEF ClientStates
    <2>7. client' = [client EXCEPT ![n][t] = st]
      BY <2>1, <2>3
    <2>8. changes' \in Nat /\ rejects' \in Nat
      BY <2>3 DEF TypeOK
    <2> HIDE DEF st, t
    <2> QED
      BY <1>6, <1>7, <2>1, <2>3, <2>6, <2>7, <2>8, PlainTyped, ClientSendsType DEF t
  <1>8. CASE Nack(n)
    <2> DEFINE t == Head(toClient[conn[n]]).type
               st == [client[n][t] EXCEPT !.rejected = TRUE]
    <2>1. t \in Types /\ conn[n] # NoStream
      BY <1>6, <1>8
    <2>2. /\ client' = [client EXCEPT ![n][t] = st]
          /\ toServer' = [toServer EXCEPT ![conn[n]] = Append(@, Plain(t))]
          /\ rejects' = rejects + 1 /\ UNCHANGED <<cacheVars, serverVars, live, conn, changes>>
      BY <1>8 DEF Nack
    <2> HIDE DEF t
    <2>3. st \in ClientStates
      BY <1>0, <2>1 DEF ClientStates
    <2>4. changes' \in Nat /\ rejects' \in Nat
      BY <2>2 DEF TypeOK
    <2> HIDE DEF st
    <2> QED
      BY <1>6, <1>8, <2>1, <2>2, <2>3, <2>4, PlainTyped, ClientSendsType
  <1> QED
    BY <1>1, <1>2, <1>3, <1>4, <1>5, <1>7, <1>8

----------------------------------------------------------------------------
(* The inductive invariant                                                 *)

\* The stream holds the cancel functions of watches that have been opened, and
\* none before it starts and after it has ended.
WatchingInv ==
    \A s \in Streams, t \in Types :
        /\ watching[s][t].cancel <= deltaWatchCount
        /\ watching[s][t].cancel # 0 => pc[s] \notin {"idle", "closed"}

\* An open watch is its stream's for its node, under the cancel function the
\* stream holds for the type; between cancelling and creating there is none.
WatchInv ==
    \A w \in deltaWatches :
        /\ w.node = StreamNode[w.chan]
        /\ w.id = watching[w.chan][w.type].cancel
        /\ w.id # 0
        /\ pc[w.chan] = "create" => w.type # current[w.chan].type

\* Once the channel has been drained, there is room for the answer of the
\* previous watch and for that of the next.
Drained(s) == pc[s] \in {"cancel", "create"}

BufferOn(s, t) ==
    /\ \A w, x \in OpenDeltaOn(s, t) : w = x
    /\ \A i, j, k \in BufferedDeltaOn(s, t) : i = j \/ j = k \/ i = k
    /\ OpenDeltaOn(s, t) # {} \/ Drained(s) => \A i, j \in BufferedDeltaOn(s, t) : i = j
    /\ OpenDeltaOn(s, t) = {} \/ ~Drained(s) \/ BufferedDeltaOn(s, t) = {}

BufferInv == \A s \in Streams, t \in Types : BufferOn(s, t)

ServerInv == TypeOK /\ LockDiscipline /\ CurrentInv /\ WatchingInv /\ WatchInv /\ BufferInv

----------------------------------------------------------------------------
(* Types: the server                                                       *)

\* The types of what is not the cache's.
LoopTypeOK ==
    /\ pc \in [Streams -> {"idle", "select", "drain", "cancel", "create", "closing", "closed"}]
    /\ current \in [Streams -> DeltaDiscoveryRequests \cup {NoRequest}]
    /\ watching \in [Streams -> [Types -> Watchings]]

LinkTypeOK ==
    /\ live \in [Streams -> BOOLEAN]
    /\ toServer \in [Streams -> Seq(DeltaDiscoveryRequests)]
    /\ toClient \in [Streams -> Seq(DeltaResponses)]

ClientTypeOK ==
    /\ conn \in [Nodes -> Streams \cup {NoStream}]
    /\ client \in [Nodes -> [Types -> ClientStates]]
    /\ changes \in Nat
    /\ rejects \in Nat

LEMMA TypeParts == TypeOK <=> CacheTypeOK /\ LoopTypeOK /\ LinkTypeOK /\ ClientTypeOK
  BY DEF TypeOK, LoopTypeOK, LinkTypeOK, ClientTypeOK, Watchings, ClientStates

\* What a stream receives from its channel.
LEMMA HeadTyped ==
    ASSUME TypeOK, NEW s \in Streams, deltaResponses[s] # <<>>
    PROVE  /\ Head(deltaResponses[s]) \in DeltaResponses
           /\ Head(deltaResponses[s]).type \in Types
           /\ Head(deltaResponses[s]).next \in ResourceMaps
  <1>1. deltaResponses[s] \in Seq(DeltaResponses)
    BY ChannelAssumption DEF TypeOK, CacheTypeOK
  <1>2. Head(deltaResponses[s]) \in DeltaResponses
    BY <1>1
  <1> QED
    BY <1>2 DEF DeltaResponses

LEMMA ProcessType ==
    ASSUME TypeOK, NEW s \in Streams, deltaResponses[s] # <<>>, Process(s)
    PROVE  /\ toClient' \in [Streams -> Seq(DeltaResponses)]
           /\ watching' \in [Streams -> [Types -> Watchings]]
           /\ \A x \in Streams, t \in Types : watching'[x][t].cancel = watching[x][t].cancel
  <1> DEFINE r == Head(deltaResponses[s])
             t == r.type
             w == watching[s][t]
             w2 == [w EXCEPT !.state = SetResourceVersions(@, r.next)]
  <1>1. r \in DeltaResponses /\ t \in Types /\ r.next \in ResourceMaps
    BY HeadTyped
  <1>2. /\ toClient' = [toClient EXCEPT ![s] = IF live[s] THEN Append(@, r) ELSE @]
        /\ watching' = [watching EXCEPT ![s][t] = w2]
    BY DEF Process
  <1>3. toClient \in [Streams -> Seq(DeltaResponses)] /\ watching \in [Streams -> [Types -> Watchings]]
    BY TypeParts DEF LinkTypeOK, LoopTypeOK
  <1> HIDE DEF r
  <1>4. w \in Watchings
    BY <1>1, <1>3
  <1>5. SetResourceVersions(w.state, r.next) \in StreamStates
    BY <1>1, <1>4, SetVersionsTyped DEF Watchings
  <1>6. w2 \in Watchings /\ w2.cancel = w.cancel
    BY <1>4, <1>5 DEF Watchings
  <1> HIDE DEF w2, t
  <1>7. Append(toClient[s], r) \in Seq(DeltaResponses)
    BY <1>1, <1>3
  <1> QED
    BY <1>1, <1>2, <1>3, <1>6, <1>7

\* A stream's subscription after a request.
LEMMA CancelPreviousType ==
    ASSUME TypeOK, CurrentInv, NEW s \in Streams, CancelPrevious(s)
    PROVE  /\ LoopTypeOK' /\ CurrentInv'
           /\ \A x \in Streams, t \in Types : watching'[x][t].cancel = watching[x][t].cancel
  <1> DEFINE r == current[s]
             w == watching[s][r.type]
             st == IF w.active THEN w.state ELSE NewStreamState(r.subscribe = {} /\ ~r.star, r.initial)
             w2 == [active |-> TRUE, cancel |-> w.cancel, state |-> Subscribed(st, r)]
  <1>1. r \in DeltaDiscoveryRequests
    BY DEF CurrentInv, CancelPrevious
  <1>2. r.type \in Types /\ r.initial \in ResourceMaps
    BY <1>1 DEF DeltaDiscoveryRequests
  <1>3. LoopTypeOK
    BY TypeParts
  <1>4. w \in Watchings
    BY <1>2, <1>3 DEF LoopTypeOK
  <1>5. st \in StreamStates
    BY <1>2, <1>4, NewStateTyped DEF Watchings
  <1>6. /\ watching' = [watching EXCEPT ![s][r.type] = w2]
        /\ pc' = [pc EXCEPT ![s] = "create"] /\ UNCHANGED current
    BY DEF CancelPrevious
  <1> HIDE DEF st
  <1>7. w2 \in Watchings /\ w2.cancel = w.cancel
    BY <1>1, <1>4, <1>5, SubscribedTyped DEF Watchings
  <1> HIDE DEF w2
  <1>8. LoopTypeOK'
    BY <1>2, <1>3, <1>6, <1>7 DEF LoopTypeOK
  <1>9. CurrentInv'
    BY <1>1, <1>3, <1>6 DEF CurrentInv, LoopTypeOK
  <1> QED
    BY <1>2, <1>3, <1>6, <1>7, <1>8, <1>9 DEF LoopTypeOK

\* The steps of the loop that do not touch watches keep the types.
LEMMA LoopType ==
    ASSUME TypeOK, CurrentInv, CacheTypeOK', NEW s \in Streams,
           \/ SendResponse(s) \/ ProcessAll(s) \/ RecvRequest(s) \/ Exit(s) \/ CloseChannel(s)
    PROVE  TypeOK' /\ CurrentInv'
  <1>1. LoopTypeOK /\ LinkTypeOK /\ ClientTypeOK
    BY TypeParts
  <1>2. CASE SendResponse(s) \/ (ProcessAll(s) /\ deltaResponses[s] # <<>>)
    <2>1. deltaResponses[s] # <<>> /\ Process(s) /\ UNCHANGED <<pc, current, live, toServer, clientVars>>
      BY <1>2 DEF SendResponse, ProcessAll
    <2>2. LoopTypeOK' /\ LinkTypeOK' /\ ClientTypeOK'
      BY <1>1, <2>1, ProcessType DEF LoopTypeOK, LinkTypeOK, ClientTypeOK, clientVars
    <2> QED
      BY <2>1, <2>2, TypeParts DEF CurrentInv, TypeOK, LoopTypeOK, LinkTypeOK, ClientTypeOK,
                                   Watchings, ClientStates
  <1>3. CASE ProcessAll(s) /\ deltaResponses[s] = <<>>
    <2>1. pc[s] = "drain" /\ pc' = [pc EXCEPT ![s] = "cancel"] /\ UNCHANGED <<current, watching, linkVars, clientVars>>
      BY <1>3 DEF ProcessAll, linkVars
    <2> QED
      BY <1>1, <2>1 DEF CurrentInv, TypeOK, linkVars, clientVars
  <1>4. CASE RecvRequest(s)
    <2>1. Head(toServer[s]) \in DeltaDiscoveryRequests /\ Tail(toServer[s]) \in Seq(DeltaDiscoveryRequests)
      BY <1>1, <1>4 DEF LinkTypeOK, RecvRequest
    <2> QED
      BY <1>1, <1>4, <2>1 DEF RecvRequest, CurrentInv, TypeOK, clientVars
  <1>5. CASE Exit(s) \/ CloseChannel(s)
    <2>1. /\ \E p \in {"closing", "closed"} : pc' = [pc EXCEPT ![s] = p]
          /\ UNCHANGED <<current, watching, linkVars, clientVars>>
      BY <1>5 DEF Exit, CloseChannel
    <2> QED
      BY <1>1, <2>1 DEF CurrentInv, TypeOK, linkVars, clientVars
  <1> QED
    BY <1>2, <1>3, <1>4, <1>5 DEF ProcessAll

\* So do connecting and disconnecting.
LEMMA ConnectType ==
    ASSUME TypeOK, CurrentInv, CacheTypeOK', NEW s \in Streams, Connect(s) \/ Disconnect(s)
    PROVE  TypeOK' /\ CurrentInv'
  <1>1. StreamNode[s] \in Nodes
    BY StreamAssumption
  <1>2. CASE Connect(s)
    <2> DEFINE n == StreamNode[s]
               fresh == [t \in Types |-> [client[n][t] EXCEPT !.asked = FALSE]]
    <2>1. client \in [Nodes -> [Types -> ClientStates]]
      BY TypeParts DEF ClientTypeOK
    <2>2. fresh \in [Types -> ClientStates]
      <3>1. ASSUME NEW t \in Types PROVE [client[n][t] EXCEPT !.asked = FALSE] \in ClientStates
        <4>1. client[n][t] \in ClientStates
          BY <1>1, <2>1
        <4> QED
          BY <4>1 DEF ClientStates
      <3> QED
        BY <3>1
    <2>3. client' = [client EXCEPT ![n] = fresh]
      BY <1>2 DEF Connect
    <2> HIDE DEF fresh
    <2>4. client' \in [Nodes -> [Types -> ClientStates]]
      BY <1>1, <2>1, <2>2, <2>3
    <2> QED
      BY <1>1, <1>2, <2>4 DEF Connect, CurrentInv, TypeOK, ClientStates
  <1>3. CASE Disconnect(s)
    BY <1>1, <1>3 DEF Disconnect, CurrentInv, TypeOK, serverVars
  <1> QED
    BY <1>2, <1>3

----------------------------------------------------------------------------
(* What is awaited and buffered                                            *)

\* A response is put into a channel.
LEMMA Appended ==
    ASSUME TypeOK, NEW c \in Streams, NEW d,
           deltaResponses'[c] = Append(deltaResponses[c], d),
           \A s \in Streams : s # c => deltaResponses'[s] = deltaResponses[s]
    PROVE  /\ \A s \in Streams, t \in Types :
                 s # c \/ t # d.type => BufferedDeltaOn(s, t)' = BufferedDeltaOn(s, t)
           /\ \A t \in Types :
                 t = d.type =>
                    BufferedDeltaOn(c, t)' = BufferedDeltaOn(c, t) \cup {Len(deltaResponses[c]) + 1}
  <1>1. deltaResponses \in [Streams -> Seq(DeltaResponses)]
    BY ChannelAssumption DEF TypeOK, CacheTypeOK
  <1> DEFINE q == deltaResponses[c]
             q2 == Append(q, d)
  <1>2. /\ DOMAIN q2 = DOMAIN q \cup {Len(q) + 1} /\ q2[Len(q) + 1] = d
        /\ \A i \in DOMAIN q : q2[i] = q[i]
    <2>1. q \in Seq(DeltaResponses)
      BY <1>1
    <2>2. /\ Len(q) \in Nat /\ Len(q2) = Len(q) + 1 /\ DOMAIN q = 1 .. Len(q)
          /\ DOMAIN q2 = 1 .. Len(q2) /\ q2[Len(q) + 1] = d
          /\ \A i \in 1 .. Len(q) : q2[i] = q[i]
      BY <2>1
    <2> QED
      BY <2>2
  <1>3. deltaResponses'[c] = q2 /\ \A s \in Streams : s # c => deltaResponses'[s] = deltaResponses[s]
    OBVIOUS
  <1> HIDE DEF q2
  <1>4. ASSUME NEW s \in Streams, NEW t \in Types, s # c \/ t # d.type
        PROVE  BufferedDeltaOn(s, t)' = BufferedDeltaOn(s, t)
    BY <1>2, <1>3, <1>4 DEF BufferedDeltaOn
  <1>5. ASSUME NEW t \in Types, t = d.type
        PROVE  BufferedDeltaOn(c, t)' = BufferedDeltaOn(c, t) \cup {Len(q) + 1}
    BY <1>2, <1>3, <1>5 DEF BufferedDeltaOn
  <1> QED
    BY <1>4, <1>5

\* A response is taken from a channel.
LEMMA Received ==
    ASSUME TypeOK, NEW c \in Streams, deltaResponses[c] # <<>>,
           deltaResponses' = [deltaResponses EXCEPT ![c] = Tail(@)]
    PROVE  \A s \in Streams, t \in Types :
              /\ s # c => BufferedDeltaOn(s, t)' = BufferedDeltaOn(s, t)
              /\ \A i \in BufferedDeltaOn(c, t)' : i \in Nat /\ i + 1 \in BufferedDeltaOn(c, t)
  <1>1. deltaResponses \in [Streams -> Seq(DeltaResponses)]
    BY ChannelAssumption DEF TypeOK, CacheTypeOK
  <1> DEFINE q == deltaResponses[c]
  <1>2. \A i \in DOMAIN Tail(q) : i \in Nat /\ i + 1 \in DOMAIN q /\ Tail(q)[i] = q[i + 1]
    <2>1. q \in Seq(DeltaResponses) /\ q # <<>>
      BY <1>1
    <2>2. /\ Len(q) \in Nat /\ Len(Tail(q)) = Len(q) - 1 /\ DOMAIN q = 1 .. Len(q)
          /\ DOMAIN Tail(q) = 1 .. Len(Tail(q)) /\ Len(q) # 0
          /\ \A i \in 1 .. Len(Tail(q)) : Tail(q)[i] = q[i + 1]
      BY <2>1
    <2> QED
      BY <2>2
  <1>3. deltaResponses'[c] = Tail(q) /\ \A s \in Streams : s # c => deltaResponses'[s] = deltaResponses[s]
    BY <1>1
  <1> QED
    BY <1>2, <1>3 DEF BufferedDeltaOn

\* A stream's control state changes, no watch is opened and no response sent.
\* A stream that ends holds no cancel function any more, and one that has drained
\* its channel found it empty.
StandsStill ==
    /\ deltaWatches' \subseteq deltaWatches
    /\ UNCHANGED <<deltaWatchCount, deltaResponses>>
    /\ \A s \in Streams, t \in Types : watching'[s][t].cancel = watching[s][t].cancel
    /\ \A s \in Streams :
          \/ pc'[s] = pc[s] /\ current'[s] = current[s]
          \/ pc'[s] \in {"select", "drain", "closing"}
          \/ pc'[s] = "closed" /\ \A t \in Types : watching[s][t].cancel = 0
          \/ pc'[s] = "cancel" /\ deltaResponses[s] = <<>>

LEMMA StandsStillInv ==
    ASSUME ServerInv, StandsStill
    PROVE  WatchingInv' /\ WatchInv' /\ BufferInv'
  <1>0. ASSUME NEW w \in deltaWatches PROVE w.chan \in Streams /\ w.type \in Types
    BY ChannelAssumption DEF ServerInv, TypeOK, CacheTypeOK, DeltaWatches
  <1>1. WatchingInv'
    BY DEF StandsStill, ServerInv, WatchingInv
  <1>2. WatchInv'
    <2> SUFFICES ASSUME NEW w \in deltaWatches'
                 PROVE  /\ w.node = StreamNode[w.chan]
                        /\ w.id = watching'[w.chan][w.type].cancel
                        /\ w.id # 0
                        /\ pc'[w.chan] = "create" => w.type # current'[w.chan].type
      BY DEF WatchInv
    <2>1. w \in deltaWatches
      BY DEF StandsStill
    <2> QED
      BY <2>1, <1>0 DEF StandsStill, ServerInv, WatchInv
  <1>3. ASSUME NEW s \in Streams, NEW t \in Types PROVE BufferOn(s, t)'
    <2>1. BufferOn(s, t)
      BY DEF ServerInv, BufferInv
    <2>2. OpenDeltaOn(s, t)' \subseteq OpenDeltaOn(s, t) /\ BufferedDeltaOn(s, t)' = BufferedDeltaOn(s, t)
      BY DEF StandsStill, OpenDeltaOn, BufferedDeltaOn
    <2>3. \/ Drained(s)' => Drained(s)
          \/ BufferedDeltaOn(s, t) = {}
      BY DEF StandsStill, Drained, BufferedDeltaOn
    <2> QED
      BY <2>1, <2>2, <2>3 DEF BufferOn
  <1> QED
    BY <1>1, <1>2, <1>3 DEF BufferInv

\* The loop takes a response from its channel and sends it.
LEMMA ProcessInv ==
    ASSUME ServerInv, NEW s \in Streams, deltaResponses[s] # <<>>, Process(s), UNCHANGED <<pc, current>>
    PROVE  WatchingInv' /\ WatchInv' /\ BufferInv'
  <1>0. ASSUME NEW w \in deltaWatches PROVE w.chan \in Streams /\ w.type \in Types
    BY ChannelAssumption DEF ServerInv, TypeOK, CacheTypeOK, DeltaWatches
  <1>1. /\ UNCHANGED <<deltaWatches, deltaWatchCount>>
        /\ deltaResponses' = [deltaResponses EXCEPT ![s] = Tail(@)]
        /\ \A x \in Streams, t \in Types : watching'[x][t].cancel = watching[x][t].cancel
    BY ProcessType DEF Process, ServerInv
  <1>2. WatchingInv'
    BY <1>1 DEF ServerInv, WatchingInv
  <1>3. WatchInv'
    BY <1>0, <1>1 DEF ServerInv, WatchInv
  <1>4. ASSUME NEW x \in Streams, NEW t \in Types PROVE BufferOn(x, t)'
    <2>1. BufferOn(x, t)
      BY DEF ServerInv, BufferInv
    <2>2. OpenDeltaOn(x, t)' = OpenDeltaOn(x, t) /\ (Drained(x)' <=> Drained(x))
      BY <1>1 DEF OpenDeltaOn, Drained
    <2>3. CASE x # s
      <3>1. BufferedDeltaOn(x, t)' = BufferedDeltaOn(x, t)
        BY <1>1, <2>3, Received DEF ServerInv
      <3> QED
        BY <2>1, <2>2, <3>1 DEF BufferOn
    <2>4. CASE x = s
      <3>1. \A i \in BufferedDeltaOn(x, t)' : i \in Nat /\ i + 1 \in BufferedDeltaOn(x, t)
        BY <1>1, <2>4, Received DEF ServerInv
      <3> QED
        BY <2>1, <2>2, <3>1 DEF BufferOn
    <2> QED
      BY <2>3, <2>4
  <1> QED
    BY <1>2, <1>3, <1>4 DEF BufferInv

\* The cache answers a watch.
LEMMA RespondInv ==
    ASSUME ServerInv, NEW w \in deltaTodo, RespondDeltaWatch(w), UNCHANGED serverVars
    PROVE  WatchingInv' /\ WatchInv' /\ BufferInv'
  <1>0. w \in deltaWatches /\ w.chan \in Streams /\ w.type \in Types
    BY ChannelAssumption DEF ServerInv, TypeOK, CacheTypeOK, DeltaWatches
  <1>1. deltaWatches' = deltaWatches \ {w} /\ UNCHANGED <<deltaWatchCount, pc, current, watching>>
    BY DEF RespondDeltaWatch, serverVars
  <1>2. WatchingInv' /\ WatchInv'
    BY <1>1 DEF ServerInv, WatchingInv, WatchInv
  <1>3. ASSUME NEW s \in Streams, NEW t \in Types PROVE BufferOn(s, t)'
    <2> DEFINE r == createDeltaResponse(w.state, SnapshotResources(w.node, w.type))
               d == [type |-> w.type, resources |-> r.resources, removed |-> r.removed,
                     next |-> r.next, at |-> sets, scope |-> Scope(w.state)]
    <2>1. /\ deltaResponses'[w.chan] = Append(deltaResponses[w.chan], d) /\ d.type = w.type
          /\ \A x \in Streams : x # w.chan => deltaResponses'[x] = deltaResponses[x]
      <3>1. deltaResponses' = [deltaResponses EXCEPT ![w.chan] = Append(@, d)]
        BY DEF RespondDeltaWatch
      <3>2. d.type = w.type
        OBVIOUS
      <3> HIDE DEF d
      <3> QED
        BY <1>0, <3>1, <3>2, ChannelAssumption DEF ServerInv, TypeOK, CacheTypeOK
    <2> HIDE DEF d
    <2>2. BufferOn(s, t)
      BY DEF ServerInv, BufferInv
    <2>3. Drained(s)' <=> Drained(s)
      BY <1>1 DEF Drained
    <2>4. CASE s # w.chan \/ t # w.type
      <3>1. BufferedDeltaOn(s, t)' = BufferedDeltaOn(s, t)
        <4>1. TypeOK
          BY DEF ServerInv
        <4> QED
          BY <1>0, <2>1, <2>4, <4>1, Appended
      <3>2. OpenDeltaOn(s, t)' = OpenDeltaOn(s, t)
        BY <1>1, <2>4 DEF OpenDeltaOn
      <3> QED
        BY <2>2, <2>3, <3>1, <3>2 DEF BufferOn
    <2>5. CASE s = w.chan /\ t = w.type
      <3>1. BufferedDeltaOn(s, t)' = BufferedDeltaOn(s, t) \cup {Len(deltaResponses[s]) + 1}
        <4>1. TypeOK
          BY DEF ServerInv
        <4> QED
          BY <1>0, <2>1, <2>5, <4>1, Appended
      <3>2. w \in OpenDeltaOn(s, t) /\ OpenDeltaOn(s, t)' = OpenDeltaOn(s, t) \ {w}
        BY <1>0, <1>1, <2>5 DEF OpenDeltaOn
      <3>3. OpenDeltaOn(s, t)' = {}
        BY <2>2, <3>2 DEF BufferOn
      <3> QED
        BY <2>2, <2>3, <3>1, <3>2, <3>3 DEF BufferOn
    <2> QED
      BY <2>4, <2>5
  <1> QED
    BY <1>2, <1>3 DEF BufferInv

\* The loop cancels the previous watch of the request's type: none is left.
LEMMA CancelPreviousInv ==
    ASSUME ServerInv, NEW s \in Streams, CancelPrevious(s)
    PROVE  WatchingInv' /\ WatchInv' /\ BufferInv'
  <1> DEFINE t == current[s].type
             id == watching[s][t].cancel
  <1>0. ASSUME NEW w \in deltaWatches PROVE w.chan \in Streams /\ w.type \in Types
    BY ChannelAssumption DEF ServerInv, TypeOK, CacheTypeOK, DeltaWatches
  <1>1. \A x \in Streams, u \in Types : watching'[x][u].cancel = watching[x][u].cancel
    BY CancelPreviousType DEF ServerInv
  <1>2. /\ pc[s] = "cancel" /\ pc' = [pc EXCEPT ![s] = "create"] /\ UNCHANGED current
        /\ UNCHANGED <<deltaWatchCount, deltaResponses>>
        /\ deltaWatches' = IF id = 0 THEN deltaWatches
                           ELSE {w \in deltaWatches : ~(w.node = StreamNode[s] /\ w.id = id)}
    BY DEF CancelPrevious, CancelDeltaWatch, cacheVars, deltaVars
  <1>3. /\ deltaWatches' \subseteq deltaWatches
        /\ \A x \in Streams : pc'[x] = IF x = s THEN "create" ELSE pc[x]
    BY <1>2 DEF ServerInv, TypeOK
  <1>4. WatchingInv'
    BY <1>1, <1>2, <1>3 DEF ServerInv, WatchingInv
  <1>5. ASSUME NEW w \in deltaWatches', w.chan = s PROVE w.type # t
    <2>1. w \in deltaWatches /\ w.node = StreamNode[s] /\ w.id = watching[s][w.type].cancel /\ w.id # 0
      BY <1>3, <1>5 DEF ServerInv, WatchInv
    <2> QED
      BY <1>2, <2>1
  <1>6. WatchInv'
    BY <1>0, <1>1, <1>2, <1>3, <1>5 DEF ServerInv, WatchInv
  <1>7. ASSUME NEW x \in Streams, NEW u \in Types PROVE BufferOn(x, u)'
    <2>1. BufferOn(x, u)
      BY DEF ServerInv, BufferInv
    <2>2. OpenDeltaOn(x, u)' \subseteq OpenDeltaOn(x, u) /\ BufferedDeltaOn(x, u)' = BufferedDeltaOn(x, u)
      BY <1>2, <1>3 DEF OpenDeltaOn, BufferedDeltaOn
    <2>3. Drained(x)' <=> Drained(x)
      BY <1>2, <1>3 DEF Drained
    <2> QED
      BY <2>1, <2>2, <2>3 DEF BufferOn
  <1> QED
    BY <1>4, <1>6, <1>7 DEF BufferInv

\* Nothing of the type is awaited when the loop opens the next watch, and at most
\* the answer of the previous one is buffered.
LEMMA OpenWatchContract ==
    ASSUME ServerInv, NEW s \in Streams, OpenWatch(s)
    PROVE  /\ current[s].type \in Types
           /\ watching[s][current[s].type].state \in StreamStates
           /\ CreateDelta(StreamNode[s], current[s].type, watching[s][current[s].type].state, s)
  <1> DEFINE t == current[s].type
  <1>1. t \in Types
    BY DEF ServerInv, CurrentInv, OpenWatch, DeltaDiscoveryRequests
  <1>2. OpenDeltaOn(s, t) = {}
    BY DEF ServerInv, WatchInv, OpenWatch, OpenDeltaOn
  <1>3. \A i, j \in BufferedDeltaOn(s, t) : i = j
    BY <1>1 DEF ServerInv, BufferInv, BufferOn, OpenWatch, Drained
  <1>4. watching[s][t].state \in StreamStates
    BY <1>1 DEF ServerInv, TypeOK
  <1> QED
    BY <1>1, <1>2, <1>3, <1>4 DEF CreateDelta, OpenWatch

\* The loop opens the next watch, which the cache may answer at once.
LEMMA OpenWatchInv ==
    ASSUME ServerInv, NEW s \in Streams, OpenWatch(s)
    PROVE  /\ LoopTypeOK' /\ CurrentInv' /\ WatchingInv' /\ WatchInv' /\ BufferInv'
  <1> DEFINE t == current[s].type
             st == watching[s][t].state
             n == StreamNode[s]
             w == [id |-> deltaWatchCount + 1, node |-> n, type |-> t, chan |-> s, state |-> st]
             r == createDeltaResponse(st, SnapshotResources(n, t))
             d == [type |-> t, resources |-> r.resources, removed |-> r.removed, next |-> r.next,
                   at |-> sets, scope |-> Scope(st)]
  <1>0. ASSUME NEW x \in deltaWatches PROVE x.chan \in Streams /\ x.type \in Types
    BY ChannelAssumption DEF ServerInv, TypeOK, CacheTypeOK, DeltaWatches
  <1>1. t \in Types /\ OpenDeltaOn(s, t) = {} /\ \A i, j \in BufferedDeltaOn(s, t) : i = j
    BY OpenWatchContract DEF CreateDelta
  <1>2. /\ pc[s] = "create" /\ pc' = [pc EXCEPT ![s] = "select"]
        /\ current' = [current EXCEPT ![s] = NoRequest]
        /\ watching' = [watching EXCEPT ![s][t].cancel = OpenedDeltaWatch]
    BY DEF OpenWatch
  <1>3. /\ deltaWatchCount \in Nat /\ LoopTypeOK /\ TypeOK
        /\ \A x \in Streams : pc'[x] = IF x = s THEN "select" ELSE pc[x]
    <2>1. TypeOK /\ LoopTypeOK
      BY TypeParts DEF ServerInv
    <2>2. deltaWatchCount \in Nat
      BY <2>1 DEF TypeOK, CacheTypeOK
    <2> QED
      BY <1>2, <2>1, <2>2 DEF LoopTypeOK
  <1> DEFINE added == /\ deltaResponses'[s] = Append(deltaResponses[s], d)
                      /\ \A x \in Streams : x # s => deltaResponses'[x] = deltaResponses[x]
  <1>4. d.type = t /\ w.chan = s /\ w.type = t /\ w.node = n /\ w.id = deltaWatchCount + 1
    OBVIOUS
  <1>5. \/ /\ deltaWatchCount' = deltaWatchCount + 1 /\ deltaWatches' = deltaWatches \cup {w}
           /\ UNCHANGED deltaResponses
        \/ /\ added
           /\ UNCHANGED <<deltaWatches, deltaWatchCount>>
    <2>1. \/ /\ deltaWatchCount' = deltaWatchCount + 1 /\ deltaWatches' = deltaWatches \cup {w}
             /\ UNCHANGED deltaResponses
          \/ /\ deltaResponses' = [deltaResponses EXCEPT ![s] = Append(@, d)]
             /\ UNCHANGED <<deltaWatches, deltaWatchCount>>
      BY DEF OpenWatch, CreateDeltaWatch
    <2> HIDE DEF d, w, r
    <2>2. deltaResponses \in [Streams -> Seq(DeltaResponses)]
      BY <1>3, ChannelAssumption DEF TypeOK, CacheTypeOK
    <2> QED
      BY <2>1, <2>2
  <1> HIDE DEF d, w, r
  <1>6. PICK id \in Nat :
            /\ watching' = [watching EXCEPT ![s][t].cancel = id]
            /\ \/ id = deltaWatchCount + 1 /\ deltaWatchCount' = deltaWatchCount + 1
               \/ id = 0 /\ deltaWatchCount' = deltaWatchCount
    <2>1. deltaWatchCount \in Nat
      BY <1>3
    <2>2. CASE deltaWatchCount' = deltaWatchCount + 1
      <3>1. OpenedDeltaWatch = deltaWatchCount + 1 /\ deltaWatchCount + 1 \in Nat
        BY <2>1, <2>2 DEF OpenedDeltaWatch
      <3>2. watching' = [watching EXCEPT ![s][t].cancel = deltaWatchCount + 1]
        BY <1>2, <3>1
      <3> QED
        BY <2>2, <3>1, <3>2
    <2>3. CASE deltaWatchCount' = deltaWatchCount
      <3>1. OpenedDeltaWatch = 0
        BY <2>3 DEF OpenedDeltaWatch
      <3>2. watching' = [watching EXCEPT ![s][t].cancel = 0]
        BY <1>2, <3>1
      <3> QED
        BY <2>3, <3>2
    <2> QED
      BY <1>5, <2>2, <2>3
  <1>7. /\ watching' \in [Streams -> [Types -> Watchings]] /\ watching'[s][t].cancel = id
        /\ \A x \in Streams, u \in Types : x # s \/ u # t => watching'[x][u].cancel = watching[x][u].cancel
    <2> HIDE DEF t
    <2> DEFINE w2 == [watching[s][t] EXCEPT !.cancel = id]
    <2>1. watching \in [Streams -> [Types -> Watchings]] /\ watching' = [watching EXCEPT ![s][t] = w2]
      BY <1>3, <1>6 DEF LoopTypeOK
    <2>2. w2 \in Watchings /\ w2.cancel = id
      <3>1. watching[s][t] \in Watchings
        BY <1>1, <2>1
      <3> QED
        BY <3>1 DEF Watchings
    <2> HIDE DEF w2
    <2> QED
      BY <1>1, <2>1, <2>2
  <1> HIDE DEF t
  <1>8. LoopTypeOK' /\ CurrentInv'
    BY <1>2, <1>3, <1>7 DEF LoopTypeOK, ServerInv, CurrentInv
  <1>9. WatchingInv'
    <2> SUFFICES ASSUME NEW x \in Streams, NEW u \in Types
                 PROVE  /\ watching'[x][u].cancel <= deltaWatchCount'
                        /\ watching'[x][u].cancel # 0 => pc'[x] \notin {"idle", "closed"}
      BY DEF WatchingInv
    <2>1. /\ watching[x][u].cancel <= deltaWatchCount /\ watching[x][u].cancel \in Nat
          /\ watching[x][u].cancel # 0 => pc[x] \notin {"idle", "closed"}
      BY DEF ServerInv, WatchingInv, TypeOK
    <2> QED
      BY <1>2, <1>3, <1>6, <1>7, <2>1
  <1>10. WatchInv'
    <2> SUFFICES ASSUME NEW x \in deltaWatches'
                 PROVE  /\ x.node = StreamNode[x.chan]
                        /\ x.id = watching'[x.chan][x.type].cancel
                        /\ x.id # 0
                        /\ pc'[x.chan] = "create" => x.type # current'[x.chan].type
      BY DEF WatchInv
    <2>1. CASE x \in deltaWatches
      <3>1. x.chan # s \/ x.type # t
        BY <1>1, <2>1 DEF OpenDeltaOn
      <3> QED
        BY <1>0, <1>2, <1>3, <1>7, <2>1, <3>1 DEF ServerInv, WatchInv
    <2>2. CASE x \notin deltaWatches
      <3>1. x = w /\ deltaWatchCount' = deltaWatchCount + 1
        BY <1>5, <2>2
      <3>2. id = deltaWatchCount + 1
        BY <1>3, <1>6, <3>1
      <3> QED
        BY <1>2, <1>3, <1>4, <1>7, <3>1, <3>2
    <2> QED
      BY <2>1, <2>2
  <1>11. ASSUME NEW x \in Streams, NEW u \in Types PROVE BufferOn(x, u)'
    <2>1. BufferOn(x, u)
      BY DEF ServerInv, BufferInv
    <2>2. CASE x # s \/ u # t
      <3>1. OpenDeltaOn(x, u)' = OpenDeltaOn(x, u)
        BY <1>5, <1>4, <2>2 DEF OpenDeltaOn
      <3>2. BufferedDeltaOn(x, u)' = BufferedDeltaOn(x, u)
        <4>1. CASE UNCHANGED deltaResponses
          BY <4>1 DEF BufferedDeltaOn
        <4>2. CASE added
          BY <1>3, <1>4, <2>2, <4>2, Appended
        <4> QED
          BY <1>5, <4>1, <4>2
      <3>3. Drained(x)' => Drained(x)
        BY <1>2, <1>3 DEF Drained
      <3> QED
        BY <2>1, <3>1, <3>2, <3>3 DEF BufferOn
    <2>3. CASE x = s /\ u = t
      <3>1. ~Drained(x)'
        BY <1>2, <1>3, <2>3 DEF Drained
      <3>2. CASE UNCHANGED deltaResponses /\ deltaWatches' = deltaWatches \cup {w}
        <4>1. OpenDeltaOn(x, u)' \subseteq {w} /\ BufferedDeltaOn(x, u)' = BufferedDeltaOn(x, u)
          BY <1>1, <2>3, <3>2 DEF OpenDeltaOn, BufferedDeltaOn
        <4> QED
          BY <1>1, <2>3, <3>1, <4>1 DEF BufferOn
      <3>3. CASE added /\ UNCHANGED deltaWatches
        <4>1. BufferedDeltaOn(x, u)' = BufferedDeltaOn(x, u) \cup {Len(deltaResponses[s]) + 1}
          BY <1>3, <1>4, <2>3, <3>3, Appended
        <4>2. OpenDeltaOn(x, u)' = {}
          BY <1>1, <2>3, <3>3 DEF OpenDeltaOn
        <4> QED
          BY <1>1, <2>3, <3>1, <4>1, <4>2 DEF BufferOn
      <3> QED
        BY <1>5, <3>2, <3>3
    <2> QED
      BY <2>2, <2>3
  <1> QED
    BY <1>8, <1>9, <1>10, <1>11 DEF BufferInv

\* watches.Cancel runs one of the cancel functions.
LEMMA CloseWatchInv ==
    ASSUME ServerInv, NEW s \in Streams, NEW t \in Types, CloseWatch(s, t)
    PROVE  LoopTypeOK' /\ CurrentInv' /\ WatchingInv' /\ WatchInv' /\ BufferInv'
  <1> DEFINE id == watching[s][t].cancel
  <1>0. ASSUME NEW w \in deltaWatches PROVE w.chan \in Streams /\ w.type \in Types
    BY ChannelAssumption DEF ServerInv, TypeOK, CacheTypeOK, DeltaWatches
  <1>1. /\ UNCHANGED <<pc, current, deltaWatchCount, deltaResponses>>
        /\ deltaWatches' = {w \in deltaWatches : ~(w.node = StreamNode[s] /\ w.id = id)}
        /\ watching' = [watching EXCEPT ![s][t].cancel = 0]
    BY DEF CloseWatch, CancelDeltaWatch
  <1>2. /\ watching' \in [Streams -> [Types -> Watchings]] /\ watching'[s][t].cancel = 0
        /\ \A x \in Streams, u \in Types : x # s \/ u # t => watching'[x][u].cancel = watching[x][u].cancel
    <2> DEFINE w2 == [watching[s][t] EXCEPT !.cancel = 0]
    <2>1. watching \in [Streams -> [Types -> Watchings]] /\ watching' = [watching EXCEPT ![s][t] = w2]
      BY <1>1, TypeParts DEF LoopTypeOK, ServerInv
    <2>2. w2 \in Watchings /\ w2.cancel = 0
      BY <2>1 DEF Watchings
    <2> HIDE DEF w2
    <2> QED
      BY <2>1, <2>2
  <1>3. LoopTypeOK' /\ CurrentInv'
    BY <1>1, <1>2, TypeParts DEF LoopTypeOK, ServerInv, CurrentInv
  <1>4. WatchingInv'
    <2>1. deltaWatchCount \in Nat
      BY DEF ServerInv, TypeOK, CacheTypeOK
    <2> QED
      BY <1>1, <1>2, <2>1 DEF ServerInv, WatchingInv
  <1>5. ASSUME NEW w \in deltaWatches' PROVE w \in deltaWatches /\ (w.chan # s \/ w.type # t)
    BY <1>1 DEF ServerInv, WatchInv
  <1>6. WatchInv'
    BY <1>0, <1>1, <1>2, <1>5 DEF ServerInv, WatchInv
  <1>7. ASSUME NEW x \in Streams, NEW u \in Types PROVE BufferOn(x, u)'
    <2>1. BufferOn(x, u)
      BY DEF ServerInv, BufferInv
    <2>2. OpenDeltaOn(x, u)' \subseteq OpenDeltaOn(x, u) /\ BufferedDeltaOn(x, u)' = BufferedDeltaOn(x, u)
      BY <1>1 DEF OpenDeltaOn, BufferedDeltaOn
    <2>3. Drained(x)' <=> Drained(x)
      BY <1>1 DEF Drained
    <2> QED
      BY <2>1, <2>2, <2>3 DEF BufferOn
  <1> QED
    BY <1>3, <1>4, <1>6, <1>7 DEF BufferInv

----------------------------------------------------------------------------
(* The steps of the system                                                 *)

\* The steps of the cache but the answers to watches leave watches as they are
\* or, ClearSnapshot, forget some.
LEMMA CacheStands ==
    ASSUME ServerInv, CacheActs, ~(\E w \in deltaTodo : RespondDeltaWatch(w))
    PROVE  StandsStill
  <1>1. UNCHANGED serverVars
    BY DEF CacheActs
  <1>2. deltaWatches' \subseteq deltaWatches /\ UNCHANGED <<deltaWatchCount, deltaResponses>>
    <2>1. ASSUME NEW n, NEW s, SetSnapshot(n, s) PROVE UNCHANGED deltaVars
      BY <2>1 DEF SetSnapshot
    <2>2. ASSUME NEW w, RespondWatch(w) \/ SendHeartbeat(w) \/ LoseHeartbeat(w) PROVE UNCHANGED deltaVars
      BY <2>2 DEF RespondWatch, SendHeartbeat, LoseHeartbeat
    <2>3. ASSUME NEW n, AbortSetSnapshot(n) PROVE UNCHANGED deltaVars
      BY <2>3 DEF AbortSetSnapshot
    <2>4. ASSUME NEW n, ClearSnapshot(n)
          PROVE  deltaWatches' \subseteq deltaWatches /\ UNCHANGED <<deltaWatchCount, deltaResponses>>
      BY <2>4 DEF ClearSnapshot
    <2>5. ASSUME HeartbeatTick \/ CancelHeartbeats \/ StopHeartbeats PROVE UNCHANGED deltaVars
      BY <2>5 DEF HeartbeatTick, CancelHeartbeats, StopHeartbeats
    <2>6. UNCHANGED deltaVars => deltaWatches' \subseteq deltaWatches /\ UNCHANGED <<deltaWatchCount, deltaResponses>>
      BY DEF deltaVars
    <2> QED
      BY <2>1, <2>2, <2>3, <2>4, <2>5, <2>6 DEF CacheActs, CacheStep
  <1> QED
    BY <1>1, <1>2 DEF StandsStill, serverVars

\* The steps that do not touch the cache.
Offline ==
    \/ \E n \in Nodes :
          \/ \E t \in Types : \/ Ask(n, t) \/ SubscribeStar(n, t) \/ UnsubscribeStar(n, t)
                              \/ \E x \in Names : SubscribeName(n, t, x) \/ UnsubscribeName(n, t, x)
          \/ Ack(n) \/ Nack(n)
    \/ \E s \in Streams :
          \/ Connect(s) \/ Disconnect(s) \/ RecvRequest(s) \/ Exit(s) \/ CloseChannel(s)
          \/ ProcessAll(s) /\ deltaResponses[s] = <<>>
    \/ UNCHANGED vars

LEMMA OfflineStep ==
    ASSUME ServerInv, Offline
    PROVE  ServerInv' /\ UNCHANGED cacheVars
  <1>0. TypeInv /\ TypeOK /\ CurrentInv
    BY DEF ServerInv, TypeInv, TypeOK
  <1>1. ASSUME NEW n \in Nodes,
               \/ \E t \in Types : \/ Ask(n, t) \/ SubscribeStar(n, t) \/ UnsubscribeStar(n, t)
                                   \/ \E x \in Names : SubscribeName(n, t, x) \/ UnsubscribeName(n, t, x)
               \/ Ack(n) \/ Nack(n)
        PROVE  UNCHANGED <<cacheVars, serverVars>> /\ TypeOK'
    <2>1. TypeOK'
      BY <1>0, <1>1, ClientType
    <2>2. ASSUME NEW t, NEW x, Ask(n, t) \/ SubscribeStar(n, t) \/ UnsubscribeStar(n, t)
                                  \/ SubscribeName(n, t, x) \/ UnsubscribeName(n, t, x)
          PROVE  UNCHANGED <<cacheVars, serverVars>>
      BY <2>2 DEF Ask, SubscribeStar, UnsubscribeStar, SubscribeName, UnsubscribeName, Change
    <2>3. ASSUME Ack(n) \/ Nack(n) PROVE UNCHANGED <<cacheVars, serverVars>>
      BY <2>3 DEF Ack, Nack
    <2> QED
      BY <1>1, <2>1, <2>2, <2>3
  <1>2. ASSUME UNCHANGED <<cacheVars, serverVars>>
        PROVE  StandsStill /\ CurrentInv'
    BY <1>0, <1>2 DEF StandsStill, CurrentInv, cacheVars, deltaVars, serverVars
  <1>3. ASSUME NEW s \in Streams,
               \/ Connect(s) \/ Disconnect(s) \/ RecvRequest(s) \/ Exit(s) \/ CloseChannel(s)
               \/ ProcessAll(s) /\ deltaResponses[s] = <<>>
        PROVE  UNCHANGED cacheVars /\ StandsStill
    <2>1. UNCHANGED <<cacheVars, watching>>
      BY <1>3 DEF Connect, Disconnect, RecvRequest, Exit, CloseChannel, ProcessAll, serverVars
    <2>2. \A x \in Streams :
             \/ pc'[x] = pc[x] /\ current'[x] = current[x]
             \/ pc'[x] \in {"select", "drain", "closing"}
             \/ pc'[x] = "closed" /\ \A t \in Types : watching[x][t].cancel = 0
             \/ pc'[x] = "cancel" /\ deltaResponses[x] = <<>>
      BY <1>0, <1>3 DEF Connect, Disconnect, RecvRequest, Exit, CloseChannel, ProcessAll, serverVars, TypeOK
    <2> QED
      BY <2>1, <2>2 DEF StandsStill, cacheVars, deltaVars
  <1>4. ASSUME UNCHANGED cacheVars PROVE CacheTypeOK' /\ LockDiscipline'
    BY <1>0, <1>4, CacheUnchangedType DEF TypeInv
  <1>5. ASSUME UNCHANGED vars PROVE TypeOK' /\ UNCHANGED <<cacheVars, serverVars>>
    <2>1. UNCHANGED <<cacheVars, serverVars, linkVars, clientVars>>
      BY <1>5 DEF vars
    <2> QED
      BY <1>0, <1>4, <2>1 DEF TypeOK, serverVars, linkVars, clientVars
  <1>6. ASSUME NEW s \in Streams, UNCHANGED cacheVars,
               \/ Connect(s) \/ Disconnect(s) \/ RecvRequest(s) \/ Exit(s) \/ CloseChannel(s)
               \/ ProcessAll(s)
        PROVE  TypeOK' /\ CurrentInv'
    BY <1>0, <1>4, <1>6, LoopType, ConnectType
  <1>7. UNCHANGED cacheVars /\ StandsStill /\ TypeOK' /\ CurrentInv'
    <2>1. CASE UNCHANGED vars
      BY <1>2, <1>5, <2>1
    <2>2. ASSUME NEW n \in Nodes,
               \/ \E t \in Types : \/ Ask(n, t) \/ SubscribeStar(n, t) \/ UnsubscribeStar(n, t)
                                   \/ \E x \in Names : SubscribeName(n, t, x) \/ UnsubscribeName(n, t, x)
               \/ Ack(n) \/ Nack(n)
          PROVE  UNCHANGED cacheVars /\ StandsStill /\ TypeOK' /\ CurrentInv'
      BY <1>1, <1>2, <2>2
    <2>3. ASSUME NEW s \in Streams,
               \/ Connect(s) \/ Disconnect(s) \/ RecvRequest(s) \/ Exit(s) \/ CloseChannel(s)
               \/ ProcessAll(s) /\ deltaResponses[s] = <<>>
          PROVE  UNCHANGED cacheVars /\ StandsStill /\ TypeOK' /\ CurrentInv'
      BY <1>3, <1>6, <2>3
    <2> QED
      BY <2>1, <2>2, <2>3 DEF Offline
  <1> QED
    BY <1>4, <1>7, StandsStillInv DEF ServerInv

\* Each of the others is a step of the cache or of a caller that keeps its
\* contract.
LEMMA OnlineStep ==
    ASSUME ServerInv,
           \/ CacheActs
           \/ \E s \in Streams :
                 \/ SendResponse(s) \/ (ProcessAll(s) /\ deltaResponses[s] # <<>>)
                 \/ CancelPrevious(s) \/ OpenWatch(s) \/ \E t \in Types : CloseWatch(s, t)
    PROVE  ServerInv' /\ (UNCHANGED cacheVars \/ CacheNext)
  <1>0. TypeInv /\ TypeOK /\ CurrentInv /\ LoopTypeOK /\ LinkTypeOK /\ ClientTypeOK
    BY TypeParts DEF ServerInv, TypeInv, TypeOK
  <1>1. ASSUME UNCHANGED cacheVars \/ CacheNext PROVE CacheTypeOK' /\ LockDiscipline'
    BY <1>0, <1>1, StepType DEF TypeInv
  <1>2. CASE CacheActs
    <2>1. CacheNext /\ UNCHANGED <<serverVars, linkVars, clientVars>>
      BY <1>2 DEF CacheActs, CacheNext
    <2>2. TypeOK' /\ CurrentInv' /\ LockDiscipline'
      BY <1>0, <1>1, <2>1 DEF TypeOK, CurrentInv, serverVars, linkVars, clientVars
    <2>3. WatchingInv' /\ WatchInv' /\ BufferInv'
      BY <1>2, <2>1, RespondInv, CacheStands, StandsStillInv
    <2> QED
      BY <2>1, <2>2, <2>3 DEF ServerInv
  <1>3. ASSUME NEW s \in Streams, SendResponse(s) \/ (ProcessAll(s) /\ deltaResponses[s] # <<>>)
        PROVE  ServerInv' /\ CacheNext
    <2>1. deltaResponses[s] # <<>> /\ Process(s) /\ UNCHANGED <<pc, current>>
      BY <1>3 DEF SendResponse, ProcessAll
    <2>2. ReceiveDelta(s)
      BY <2>1 DEF Process, ReceiveDelta
    <2>3. CacheNext
      BY <2>2, ChannelAssumption DEF CacheNext, CallerStep
    <2>4. TypeOK' /\ CurrentInv' /\ LockDiscipline'
      BY <1>0, <1>1, <1>3, <2>3, LoopType
    <2> QED
      BY <2>1, <2>3, <2>4, ProcessInv DEF ServerInv
  <1>4. ASSUME NEW s \in Streams, CancelPrevious(s)
        PROVE  ServerInv' /\ (UNCHANGED cacheVars \/ CacheNext)
    <2> DEFINE id == watching[s][current[s].type].cancel
    <2>1. current[s].type \in Types
      BY <1>4 DEF ServerInv, CurrentInv, CancelPrevious, DeltaDiscoveryRequests
    <2>2. id # 0 => id \in 1 .. deltaWatchCount
      BY <2>1 DEF ServerInv, WatchingInv, TypeOK, CacheTypeOK
    <2>3. /\ UNCHANGED cacheVars \/ (id # 0 /\ CancelDeltaWatch(StreamNode[s], id))
          /\ UNCHANGED <<linkVars, clientVars>>
      BY <1>4 DEF CancelPrevious
    <2>4. UNCHANGED cacheVars \/ CacheNext
      BY <2>2, <2>3, StreamAssumption DEF CacheNext, CallerStep
    <2>5. LinkTypeOK' /\ ClientTypeOK'
      BY <1>0, <2>3 DEF LinkTypeOK, ClientTypeOK, linkVars, clientVars
    <2>6. TypeOK' /\ CurrentInv' /\ LockDiscipline'
      <3>1. CacheTypeOK' /\ LockDiscipline'
        BY <1>1, <2>4
      <3>2. LoopTypeOK' /\ CurrentInv'
        BY <1>0, <1>4, CancelPreviousType
      <3> QED
        BY <3>1, <3>2, <2>5 DEF TypeOK, LoopTypeOK, LinkTypeOK, ClientTypeOK, Watchings, ClientStates
    <2> QED
      BY <1>4, <2>4, <2>6, CancelPreviousInv DEF ServerInv
  <1>5. ASSUME NEW s \in Streams, OpenWatch(s) PROVE ServerInv' /\ CacheNext
    <2>1. CacheNext
      BY <1>5, OpenWatchContract, StreamAssumption, ChannelAssumption DEF CacheNext, CallerStep
    <2>2. LinkTypeOK' /\ ClientTypeOK'
      BY <1>0, <1>5 DEF OpenWatch, LinkTypeOK, ClientTypeOK, linkVars, clientVars
    <2>3. LoopTypeOK' /\ CurrentInv' /\ WatchingInv' /\ WatchInv' /\ BufferInv'
      BY <1>5, OpenWatchInv
    <2>4. CacheTypeOK' /\ LockDiscipline'
      BY <1>1, <2>1
    <2>5. TypeOK'
      BY <2>2, <2>3, <2>4 DEF TypeOK, LoopTypeOK, LinkTypeOK, ClientTypeOK, Watchings, ClientStates
    <2> QED
      BY <2>1, <2>3, <2>4, <2>5 DEF ServerInv
  <1>6. ASSUME NEW s \in Streams, NEW t \in Types, CloseWatch(s, t) PROVE ServerInv' /\ CacheNext
    <2>1. watching[s][t].cancel \in 1 .. deltaWatchCount
      BY <1>6 DEF CloseWatch, ServerInv, WatchingInv, TypeOK, CacheTypeOK
    <2>2. CacheNext
      BY <1>6, <2>1, StreamAssumption DEF CloseWatch, CacheNext, CallerStep
    <2>3. LinkTypeOK' /\ ClientTypeOK'
      BY <1>0, <1>6 DEF CloseWatch, LinkTypeOK, ClientTypeOK, linkVars, clientVars
    <2>4. LoopTypeOK' /\ CurrentInv' /\ WatchingInv' /\ WatchInv' /\ BufferInv'
      BY <1>6, CloseWatchInv
    <2>5. CacheTypeOK' /\ LockDiscipline'
      BY <1>1, <2>2
    <2>6. TypeOK'
      BY <2>3, <2>4, <2>5 DEF TypeOK, LoopTypeOK, LinkTypeOK, ClientTypeOK, Watchings, ClientStates
    <2> QED
      BY <2>2, <2>4, <2>5, <2>6 DEF ServerInv
  <1> QED
    BY <1>2, <1>3, <1>4, <1>5, <1>6

LEMMA ServerStep ==
    ASSUME ServerInv, [Next]_vars
    PROVE  ServerInv' /\ [UNCHANGED cacheVars \/ CacheNext]_cacheVars
  <1>1. \/ Offline
        \/ CacheActs
        \/ \E s \in Streams :
              \/ SendResponse(s) \/ (ProcessAll(s) /\ deltaResponses[s] # <<>>)
              \/ CancelPrevious(s) \/ OpenWatch(s) \/ \E t \in Types : CloseWatch(s, t)
    BY DEF Next, ServerActs, Offline
  <1> QED
    BY <1>1, OfflineStep, OnlineStep

LEMMA InitServer == Init => ServerInv /\ CacheInit
  <1> SUFFICES ASSUME Init PROVE ServerInv /\ CacheInit
    OBVIOUS
  <1>1. CacheTypeOK /\ LockDiscipline /\ CacheInit
    BY InitType DEF Init, TypeInv
  <1>2. /\ deltaWatches = {} /\ deltaWatchCount = 0
        /\ deltaResponses = [c \in Streams |-> <<>>]
        /\ watching = [s \in Streams |-> [t \in Types |-> NoWatch]]
        /\ pc = [s \in Streams |-> "idle"] /\ current = [s \in Streams |-> NoRequest]
    BY ChannelAssumption DEF Init, CacheInit
  <1>3. NoWatch \in Watchings /\ NoWatch.cancel = 0
    BY EmptyMapTyped, NewStateTyped DEF NoWatch, Watchings
  <1>4. LoopTypeOK
    BY <1>2, <1>3 DEF LoopTypeOK
  <1>5. LinkTypeOK
    BY DEF Init, LinkTypeOK
  <1>6. ClientTypeOK
    <2>1. client \in [Nodes -> [Types -> ClientStates]]
      <3> DEFINE S == [asked : {FALSE}, wildcard : BOOLEAN, names : SUBSET Names, content : {EmptyMap},
                       at : {0}, dropped : {{}}, rejected : {FALSE}]
      <3>1. {st \in S : st.wildcard <=> st.names = {}} \subseteq ClientStates
        <4>1. {FALSE} \subseteq BOOLEAN /\ {EmptyMap} \subseteq ResourceMaps /\ {0} \subseteq Nat
              /\ {{}} \subseteq SUBSET Names
          BY EmptyMapTyped
        <4>2. S \subseteq ClientStates
          BY <4>1 DEF ClientStates
        <4> QED
          BY <4>2
      <3> QED
        BY <3>1 DEF Init
    <2> QED
      BY <2>1 DEF Init, ClientTypeOK
  <1>7. TypeOK
    BY <1>1, <1>4, <1>5, <1>6, TypeParts
  <1>8. CurrentInv /\ WatchingInv /\ WatchInv
    BY <1>2, <1>3 DEF CurrentInv, WatchingInv, WatchInv
  <1>9. BufferInv
    <2>1. ASSUME NEW s \in Streams, NEW t \in Types
          PROVE  OpenDeltaOn(s, t) = {} /\ BufferedDeltaOn(s, t) = {}
      BY <1>2 DEF OpenDeltaOn, BufferedDeltaOn
    <2> QED
      BY <2>1 DEF BufferInv, BufferOn
  <1> QED
    BY <1>1, <1>7, <1>8, <1>9 DEF ServerInv

----------------------------------------------------------------------------
(* Theorems                                                                *)

\* Every variable of server, clients and cache keeps its type.
THEOREM DeltaTypeCorrect == Spec => []TypeOK
  <1>1. ServerInv => TypeOK
    BY DEF ServerInv
  <1> QED
    BY <1>1, InitServer, ServerStep, PTL DEF Spec

\* processDelta creates a watch only when the previous one of the type is gone
\* and at most its answer is still in the channel, whatever snapshots are set
\* between draining the channel, cancelling and creating ("make sure all existing
\* responses are processed prior to new requests").
THEOREM DeltaStreamsKeepContract == Spec => KeepsContract
  BY InitServer, ServerStep, PTL DEF Spec, KeepsContract

\* So what is proved of the cache on its own holds for it under the delta server:
\* the lock's discipline, and that no open watch has something to report.
THEOREM ServedDeltaCacheIsSound == Spec => [](LockDiscipline /\ NoMissedDelta)
  BY DeltaStreamsKeepContract, ContractSuffices, PTL

\* No watch outlives its stream, and the stream holds the cancel function of each
\* of its watches (watches.Cancel).
THEOREM NoDeltaWatchIsLeaked == Spec => []NoLeakedWatch
  <1>1. ServerInv => NoLeakedWatch
    <2> SUFFICES ASSUME ServerInv, NEW w \in deltaWatches
                 PROVE  /\ pc[w.chan] \notin {"idle", "closed"}
                        /\ w.id = watching[w.chan][w.type].cancel
      BY DEF NoLeakedWatch
    <2>1. w.chan \in Streams /\ w.type \in Types
      BY ChannelAssumption DEF ServerInv, TypeOK, CacheTypeOK, DeltaWatches
    <2> QED
      BY <2>1 DEF ServerInv, WatchInv, WatchingInv
  <1> QED
    BY <1>1, InitServer, ServerStep, PTL DEF Spec

\* A set of which no three elements differ has at most two.
LEMMA AtMostTwo ==
    ASSUME NEW S, \A i, j, k \in S : i = j \/ j = k \/ i = k
    PROVE  Cardinality(S) <= 2
  <1>1. CASE S = {}
    BY <1>1, FS_EmptySet
  <1>2. CASE S # {}
    <2>1. PICK i : i \in S
      BY <1>2
    <2>2. CASE S = {i}
      <3>1. Cardinality({i}) = 1
        BY FS_Singleton
      <3> QED
        BY <2>2, <3>1
    <2>3. CASE S # {i}
      <3>1. PICK j \in S : j # i
        BY <2>1, <2>3
      <3>2. S = {i} \cup {j}
        BY <2>1, <3>1
      <3>3. IsFiniteSet({i}) /\ Cardinality({i}) = 1 /\ j \notin {i}
        BY <3>1, FS_Singleton
      <3>4. Cardinality(S) = Cardinality({i}) + 1
        BY <3>2, <3>3, FS_AddElement
      <3> QED
        BY <3>3, <3>4
    <2> QED
      BY <2>2, <2>3
  <1> QED
    BY <1>1, <1>2

\* A channel never holds more than two responses of a type, so that one of twice
\* the number of types never blocks SetSnapshot or the loop itself while they
\* hold cache.mu (newWatches: "2x the number of types to avoid deadlocks").
THEOREM DeltaChannelNeverFull == Spec => []ChannelNeverFull
  <1>1. ServerInv => ChannelNeverFull
    BY AtMostTwo DEF ServerInv, BufferInv, BufferOn, ChannelNeverFull
  <1> QED
    BY <1>1, InitServer, ServerStep, PTL DEF Spec

============================================================================
