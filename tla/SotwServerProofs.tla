-------------------------- MODULE SotwServerProofs --------------------------
(***************************************************************************)
(* Proofs about SotwServer, for all nodes, streams, types, names,          *)
(* snapshots and bounds, with and without ordered ADS; and first, what     *)
(* Snapshot.Consistent establishes for the snapshots it serves.            *)
(***************************************************************************)
EXTENDS SotwServer, SnapshotCacheProofs, FiniteSetTheorems, TLAPS

----------------------------------------------------------------------------
(* What Snapshot.Consistent establishes, for all contents                  *)

\* Every place of a snapshot has a map of resources.
LEMMA ItemsType ==
    ASSUME NEW T, NEW resources \in [T -> ResourceMaps], NEW t
    PROVE  Items(resources, t) \in ResourceMaps
<1>1. EmptyMap \in ResourceMaps
  BY DEF EmptyMap, ResourceMaps, Maps
<1>2. t \in DOMAIN resources => resources[t] \in ResourceMaps
  OBVIOUS
<1> QED BY <1>1, <1>2 DEF Items

\* Its names are names, its resources hashes.
LEMMA ItemsAreNamed ==
    ASSUME NEW T, NEW resources \in [T -> ResourceMaps], NEW t
    PROVE  /\ DOMAIN Items(resources, t) \subseteq Names
           /\ \A n \in DOMAIN Items(resources, t) : Items(resources, t)[n] \in Hashes
BY ItemsType DEF ResourceMaps, Maps

\* References are names, or the empty name.
LEMMA ReferencesAreNames ==
    ASSUME NEW T, NEW resources \in [T -> ResourceMaps], NEW t \in ReferencedTypes
    PROVE  GetAllResourceReferences(resources)[t] \subseteq NamesOrNone
<1> DEFINE cds  == Items(resources, "Cluster")
           lds  == Items(resources, "Listener")
           srds == Items(resources, "ScopedRoute")
           endpoints == UNION {getClusterReferences(n, Content.Cluster[cds[n]]) : n \in DOMAIN cds}
           listed == UNION {getListenerReferences(Content.Listener[lds[n]]) : n \in DOMAIN lds}
           scoped == UNION {getScopedRouteReferences(Content.ScopedRoute[srds[n]]) : n \in DOMAIN srds}
<1>1. endpoints \subseteq NamesOrNone
  <2>1. ASSUME NEW n \in DOMAIN cds
        PROVE  getClusterReferences(n, Content.Cluster[cds[n]]) \subseteq NamesOrNone
    <3>1. n \in Names /\ cds[n] \in Hashes
      BY <2>1, ItemsAreNamed
    <3>2. Content.Cluster[cds[n]].serviceName \in NamesOrNone
      BY <3>1, ContentAssumption DEF Clusters
    <3> QED BY <3>1, <3>2 DEF getClusterReferences, NamesOrNone
  <2> QED BY <2>1
<1>2. listed \subseteq NamesOrNone
  <2>1. ASSUME NEW n \in DOMAIN lds
        PROVE  getListenerReferences(Content.Listener[lds[n]]) \subseteq NamesOrNone
    <3>1. Content.Listener[lds[n]] \in Listeners
      BY <2>1, ItemsAreNamed, ContentAssumption
    <3>2. ASSUME NEW chain \in Content.Listener[lds[n]]
          PROVE  getListenerReferencesFromChain(chain) \subseteq NamesOrNone
      <4>1. \A m \in chain : m.rds \in NamesOrNone /\ m.scoped \subseteq NamesOrNone
        BY <3>1, <3>2 DEF Listeners, ConnectionManagers
      <4> QED BY <4>1 DEF getListenerReferencesFromChain
    <3> QED BY <3>2 DEF getListenerReferences
  <2> QED BY <2>1
<1>3. scoped \subseteq NamesOrNone
  <2>1. ASSUME NEW n \in DOMAIN srds
        PROVE  getScopedRouteReferences(Content.ScopedRoute[srds[n]]) \subseteq NamesOrNone
    BY <2>1, ItemsAreNamed, ContentAssumption DEF ScopedRoutes, getScopedRouteReferences
  <2> QED BY <2>1
<1>4. GetAllResourceReferences(resources) = [Endpoint |-> endpoints, Route |-> listed \cup scoped]
  BY DEF GetAllResourceReferences
<1>5. CASE t = "Endpoint"
  BY <1>5, <1>1, <1>4
<1>6. CASE t = "Route"
  BY <1>6, <1>2, <1>3, <1>4
<1> QED BY <1>5, <1>6 DEF ReferencedTypes

\* Comparing numbers and looking up the resources among the references, as
\* Consistent does, is comparing the two sets: in a consistent snapshot every
\* reference has its resource and every resource of a referenced type is
\* referred to (Snapshot.Consistent, superset, GetAllResourceReferences).
THEOREM ConsistentIsClosed ==
    ASSUME NEW T, NEW resources \in [T -> ResourceMaps]
    PROVE  Consistent(resources)
             <=> \A t \in ReferencedTypes :
                     GetAllResourceReferences(resources)[t] = DOMAIN Items(resources, t)
<1>1. ASSUME NEW t \in ReferencedTypes
      PROVE  /\ IsFiniteSet(GetAllResourceReferences(resources)[t])
             /\ IsFiniteSet(DOMAIN Items(resources, t))
  <2>1. IsFiniteSet(NamesOrNone)
    BY FiniteAssumption, FS_AddElement DEF NamesOrNone
  <2>2. DOMAIN Items(resources, t) \subseteq Names
    BY ItemsAreNamed
  <2> QED BY <2>1, <2>2, ReferencesAreNames, FiniteAssumption, FS_Subset
<1>2. ASSUME NEW t \in ReferencedTypes
      PROVE  (/\ Cardinality(GetAllResourceReferences(resources)[t])
                   = Cardinality(DOMAIN Items(resources, t))
              /\ superset(GetAllResourceReferences(resources)[t], Items(resources, t)))
             <=> GetAllResourceReferences(resources)[t] = DOMAIN Items(resources, t)
  BY <1>1, FS_Subset DEF superset
<1> QED BY <1>2 DEF Consistent

----------------------------------------------------------------------------
(* Vocabulary                                                              *)


ClientStates == [asked : BOOLEAN, names : SUBSET Names, version : VersionInfos,
                 received : VersionInfos, nonce : Nat, content : ResourceMaps, at : Nat,
                 rejected : BOOLEAN]

Responders == [active : BOOLEAN, cancel : Nat, nonce : Nat, names : SUBSET Names]

\* A stream handles a request whose predecessor's watch it has cancelled.
Handling(s) == pc[s] \in {"drain", "create"}

\* The request a stream handles is one.
CurrentInv == \A s \in Streams : Handling(s) => current[s] \in DiscoveryRequests

----------------------------------------------------------------------------
(* Types                                                                   *)

\* What a client knows of a type, and the request it sends.
LEMMA ClientTyped ==
    ASSUME TypeOK, NEW n \in Nodes, NEW t \in Types
    PROVE  client[n][t] \in ClientStates /\ RequestFor(n, t) \in DiscoveryRequests
  <1>1. client[n][t] \in ClientStates
    BY DEF TypeOK, ClientStates
  <1> QED
    BY <1>1 DEF ClientStates, RequestFor, DiscoveryRequests

\* The client of a node sends a request on its stream and changes its state of a
\* type.
LEMMA ClientSendsType ==
    ASSUME TypeOK, NEW n \in Nodes, NEW t \in Types, NEW st \in ClientStates,
           NEW r \in DiscoveryRequests, conn[n] # NoStream,
           client' = [client EXCEPT ![n][t] = st],
           toServer' = [toServer EXCEPT ![conn[n]] = Append(@, r)]
    PROVE  /\ client' \in [Nodes -> [Types -> ClientStates]]
           /\ toServer' \in [Streams -> Seq(DiscoveryRequests)]
  <1>1. conn[n] \in Streams
    BY DEF TypeOK
  <1>2. Append(toServer[conn[n]], r) \in Seq(DiscoveryRequests)
    BY <1>1 DEF TypeOK
  <1>3. toServer' \in [Streams -> Seq(DiscoveryRequests)]
    BY <1>1, <1>2 DEF TypeOK
  <1>4. client \in [Nodes -> [Types -> ClientStates]]
    BY DEF TypeOK, ClientStates
  <1> QED
    BY <1>3, <1>4

\* What a client asks for when it follows its resources are names.
LEMMA ReferencedTyped ==
    ASSUME TypeOK, NEW n \in Nodes, NEW t \in ReferencedTypes
    PROVE  Referenced(n, t) \in SUBSET Names
  <1>1. [u \in Types |-> client[n][u].content] \in [Types -> ResourceMaps]
    BY DEF TypeOK
  <1> QED
    BY <1>1, ReferencesAreNames DEF Referenced, NamesOrNone

\* What a client holds after a response is a resource map.
LEMMA UpdatedTyped ==
    ASSUME NEW st \in ClientStates, NEW r \in DiscoveryResponses
    PROVE  Updated(st, r) \in ResourceMaps
  <1> DEFINE D == st.names \cap (DOMAIN st.content \cup DOMAIN r.resources)
             m == [n \in D |-> IF n \in DOMAIN r.resources THEN r.resources[n] ELSE st.content[n]]
  <1>1. /\ st.content \in ResourceMaps /\ r.resources \in ResourceMaps
        /\ st.names \in SUBSET Names
    BY DEF ClientStates, DiscoveryResponses
  <1>2. D \in SUBSET Names
    BY <1>1
  <1>3. \A n \in DOMAIN st.content : st.content[n] \in Hashes
    BY <1>1 DEF ResourceMaps, Maps
  <1>4. \A n \in DOMAIN r.resources : r.resources[n] \in Hashes
    BY <1>1 DEF ResourceMaps, Maps
  <1>5. m \in [D -> Hashes]
    BY <1>3, <1>4
  <1>6. m \in ResourceMaps
    BY <1>2, <1>5 DEF ResourceMaps, Maps
  <1> QED
    BY <1>1, <1>6 DEF Updated

\* The steps of clients keep the types.
LEMMA ClientType ==
    ASSUME TypeOK, NEW n \in Nodes,
           \/ \E t \in Types : Ask(n, t) \/ AskMore(n, t) \/ Follow(n, t)
           \/ Ack(n) \/ Nack(n)
    PROVE  TypeOK'
  <1> DEFINE Rest == /\ UNCHANGED <<cacheVars, loopVars, watcherVars, sentVars, streamVars, mux, conn>>
                     /\ toClient' \in [Streams -> Seq(DiscoveryResponses)]
                     /\ rejects' \in Nat
  <1>0. ASSUME Rest, client' \in [Nodes -> [Types -> ClientStates]],
               toServer' \in [Streams -> Seq(DiscoveryRequests)]
        PROVE  TypeOK'
    <2>1. CacheTypeOK'
      BY <1>0 DEF TypeOK, CacheTypeOK, cacheVars, watchVars, deltaVars, lockVars, beatVars, setVars
    <2> QED
      BY <1>0, <2>1 DEF TypeOK, ClientStates, loopVars, watcherVars, sentVars, streamVars
  <1> HIDE DEF Rest
  <1>1. ASSUME NEW t \in Types, Ask(n, t) PROVE TypeOK'
    <2> DEFINE st == [client[n][t] EXCEPT !.asked = TRUE, !.version = client[n][t].received]
               r  == [RequestFor(n, t) EXCEPT !.version = client[n][t].received]
    <2>0. client[n][t] \in ClientStates /\ RequestFor(n, t) \in DiscoveryRequests
      BY ClientTyped
    <2>1. st \in ClientStates /\ r \in DiscoveryRequests
      BY <2>0 DEF ClientStates, DiscoveryRequests
    <2>2. /\ client' = [client EXCEPT ![n][t] = st]
          /\ toServer' = [toServer EXCEPT ![conn[n]] = Append(@, r)]
          /\ conn[n] # NoStream
      BY <1>1 DEF Ask
    <2>3. Rest
      BY <1>1 DEF Ask, TypeOK, Rest
    <2> HIDE DEF st, r
    <2> QED
      BY <1>0, <2>1, <2>2, <2>3, ClientSendsType
  <1>2. ASSUME NEW t \in Types, AskMore(n, t) PROVE TypeOK'
    <2>1. PICK more \in Interest[t] :
            /\ client' = [client EXCEPT ![n][t].names = more]
            /\ toServer' = [toServer EXCEPT ![conn[n]] =
                               Append(@, [RequestFor(n, t) EXCEPT !.names = more])]
      BY <1>2 DEF AskMore
    <2> DEFINE st == [client[n][t] EXCEPT !.names = more]
               r  == [RequestFor(n, t) EXCEPT !.names = more]
    <2>2. more \in SUBSET Names
      BY InterestAssumption
    <2>3. st \in ClientStates /\ r \in DiscoveryRequests
      BY <2>2, ClientTyped DEF ClientStates, DiscoveryRequests
    <2>4. /\ client' = [client EXCEPT ![n][t] = st]
          /\ toServer' = [toServer EXCEPT ![conn[n]] = Append(@, r)]
          /\ conn[n] # NoStream
      BY <1>2, <2>1 DEF AskMore
    <2>5. Rest
      BY <1>2 DEF AskMore, TypeOK, Rest
    <2> HIDE DEF st, r
    <2> QED
      BY <1>0, <2>3, <2>4, <2>5, ClientSendsType
  <1>3. ASSUME NEW t \in Types, Follow(n, t) PROVE TypeOK'
    <2> DEFINE names == Referenced(n, t)
               content == client[n][t].content
               st == [client[n][t] EXCEPT !.asked = TRUE, !.names = names,
                                          !.content = Restrict(content, DOMAIN content \cap names)]
               r  == [RequestFor(n, t) EXCEPT !.names = names]
    <2>1. names \in SUBSET Names
      BY <1>3, ReferencedTyped DEF Follow, Followed
    <2>2. client[n][t] \in ClientStates /\ content \in ResourceMaps
      BY ClientTyped DEF ClientStates
    <2>3. Restrict(content, DOMAIN content \cap names) \in ResourceMaps
      BY <2>2, RestrictMap DEF ResourceMaps
    <2> HIDE DEF names, content
    <2>4. st \in ClientStates /\ r \in DiscoveryRequests
      <3>1. RequestFor(n, t) \in DiscoveryRequests
        BY ClientTyped
      <3> QED
        BY <2>1, <2>2, <2>3, <3>1 DEF ClientStates, DiscoveryRequests
    <2>5. /\ client' = [client EXCEPT ![n][t] = st]
          /\ toServer' = [toServer EXCEPT ![conn[n]] = Append(@, r)]
          /\ conn[n] # NoStream
      BY <1>3 DEF Follow, names, content
    <2>6. Rest
      BY <1>3 DEF Follow, TypeOK, Rest
    <2> HIDE DEF st, r
    <2> QED
      BY <1>0, <2>4, <2>5, <2>6, ClientSendsType
  <1>4. CASE Ack(n)
    <2> DEFINE r  == Head(toClient[conn[n]])
               st == client[n][r.type]
               st2 == [st EXCEPT !.version = r.version, !.received = r.version, !.nonce = r.nonce,
                                 !.content = Updated(st, r),
                                 !.at = IF r.heartbeat THEN @ ELSE r.at,
                                 !.rejected = @ /\ r.heartbeat]
               q == [type |-> r.type, names |-> st2.names, version |-> st2.version,
                     nonce |-> st2.nonce]
    <2>1. conn[n] \in Streams /\ toClient[conn[n]] # <<>>
      BY <1>4 DEF Ack, TypeOK
    <2>2. r \in DiscoveryResponses /\ Tail(toClient[conn[n]]) \in Seq(DiscoveryResponses)
      BY <2>1 DEF TypeOK
    <2>3. /\ r.type \in Types /\ r.version \in VersionInfos /\ r.nonce \in Nat /\ r.at \in Nat
          /\ r.heartbeat \in BOOLEAN
      BY <2>2 DEF DiscoveryResponses
    <2>4. st \in ClientStates
      BY <2>3, ClientTyped
    <2>5. Updated(st, r) \in ResourceMaps
      BY <2>2, <2>4, UpdatedTyped
    <2>6. /\ client' = [client EXCEPT ![n][r.type] = st2]
          /\ toServer' = [toServer EXCEPT ![conn[n]] = Append(@, q)]
          /\ conn[n] # NoStream
      BY <1>4 DEF Ack
    <2>7. Rest
      BY <1>4, <2>1, <2>2 DEF Ack, TypeOK, Rest
    <2> HIDE DEF r
    <2>8. st2 \in ClientStates
      BY <2>3, <2>4, <2>5 DEF ClientStates
    <2>9. q \in DiscoveryRequests
      BY <2>3, <2>8 DEF ClientStates, DiscoveryRequests
    <2> HIDE DEF st2, q
    <2> QED
      BY <1>0, <2>3, <2>6, <2>7, <2>8, <2>9, ClientSendsType
  <1>5. CASE Nack(n)
    <2> DEFINE r  == Head(toClient[conn[n]])
               st == [client[n][r.type] EXCEPT !.received = r.version, !.nonce = r.nonce,
                                               !.rejected = TRUE]
               q  == [RequestFor(n, r.type) EXCEPT !.nonce = r.nonce]
    <2>1. conn[n] \in Streams /\ toClient[conn[n]] # <<>>
      BY <1>5 DEF Nack, TypeOK
    <2>2. r \in DiscoveryResponses /\ Tail(toClient[conn[n]]) \in Seq(DiscoveryResponses)
      BY <2>1 DEF TypeOK
    <2>3. r.type \in Types /\ r.version \in VersionInfos /\ r.nonce \in Nat
      BY <2>2 DEF DiscoveryResponses
    <2>4. /\ client' = [client EXCEPT ![n][r.type].received = r.version,
                                       ![n][r.type].nonce = r.nonce,
                                       ![n][r.type].rejected = TRUE]
          /\ toServer' = [toServer EXCEPT ![conn[n]] = Append(@, q)]
          /\ conn[n] # NoStream /\ rejects' = rejects + 1
          /\ toClient' = [toClient EXCEPT ![conn[n]] = Tail(@)]
          /\ UNCHANGED <<cacheVars, loopVars, watcherVars, sentVars, streamVars, mux, conn>>
      BY <1>5 DEF Nack
    <2> HIDE DEF r
    <2>5. Rest
      BY <2>1, <2>2, <2>4 DEF TypeOK, Rest
    <2>6. client[n][r.type] \in ClientStates /\ RequestFor(n, r.type) \in DiscoveryRequests
      BY <2>3, ClientTyped
    <2>7. st \in ClientStates /\ q \in DiscoveryRequests
      BY <2>3, <2>6 DEF ClientStates, DiscoveryRequests
    <2>8. client' = [client EXCEPT ![n][r.type] = st]
      BY <2>3, <2>4
    <2> HIDE DEF st, q
    <2> QED
      BY <1>0, <2>3, <2>4, <2>5, <2>7, <2>8, ClientSendsType
  <1> QED
    BY <1>1, <1>2, <1>3, <1>4, <1>5

----------------------------------------------------------------------------
(* The types of the server                                                 *)

\* The channels of a stream are channels of the cache, its requests requests.
LEMMA ChannelTyped ==
    ASSUME NEW s \in Streams, NEW t \in Types
    PROVE  /\ Channel(s, t) \in Channels /\ Channel(s, AnyType) \in Channels
           /\ StreamNode[s] \in Nodes
  BY ChannelAssumption, StreamAssumption DEF Channel

\* What a stream puts into a request for the cache.
CacheRequest(s, r) ==
    [node |-> StreamNode[s], type |-> r.type, names |-> r.names, version |-> r.version]

\* It is a request for the cache.
LEMMA CacheRequestTyped ==
    ASSUME NEW s \in Streams, NEW r \in DiscoveryRequests
    PROVE  CacheRequest(s, r) \in Requests /\ r.type \in Types /\ r.names \in SUBSET Names
  BY StreamAssumption DEF CacheRequest, Requests, DiscoveryRequests

\* Nothing happens to the cache.
LEMMA CacheUnchangedType ==
    ASSUME TypeInv, UNCHANGED cacheVars
    PROVE  TypeInv'
  BY DEF TypeInv, CacheTypeOK, LockDiscipline, Exists, cacheVars, watchVars, deltaVars,
         lockVars, beatVars, setVars

\* Opening a watch keeps the types.
LEMMA OpenWatchType ==
    ASSUME TypeInv, TypeOK, NEW s \in Streams, NEW r \in DiscoveryRequests, OpenWatch(s, r)
    PROVE  TypeInv' /\ responders' \in [Streams -> [Types -> Responders]]
  <1> DEFINE c == Channel(s, r.type)
             buffer == IF Ordered THEN responses[c] ELSE <<>>
             w == [active |-> TRUE, cancel |-> OpenedWatch, nonce |-> 0, names |-> r.names]
  <1>1. CacheRequest(s, r) \in Requests /\ r.type \in Types /\ r.names \in SUBSET Names
    BY CacheRequestTyped
  <1>2. c \in Channels
    BY <1>1, ChannelTyped
  <1>3. buffer \in Seq(Responses)
    <2>1. responses[c] \in Seq(Responses) /\ <<>> \in Seq(Responses)
      BY <1>2 DEF TypeInv, CacheTypeOK
    <2> QED
      BY <2>1
  <1>4. CreateWatch(CacheRequest(s, r), known'[s][r.type], c, buffer)
    BY DEF OpenWatch, CacheRequest
  <1> HIDE DEF c, buffer
  <1>5. TypeInv'
    BY <1>1, <1>2, <1>3, <1>4, CreateWatchType
  <1>6. w \in Responders
    BY <1>1, <1>5 DEF OpenedWatch, Responders, TypeInv, CacheTypeOK
  <1>7. responders \in [Streams -> [Types -> Responders]]
    BY DEF TypeOK, Responders
  <1>8. responders' = [responders EXCEPT ![s][r.type] = w]
    BY DEF OpenWatch
  <1> HIDE DEF w
  <1> QED
    BY <1>1, <1>5, <1>6, <1>7, <1>8

\* Cancelling one keeps them.
LEMMA CancelResponderType ==
    ASSUME TypeInv, NEW s, NEW t, CancelResponder(s, t)
    PROVE  TypeInv'
  BY CacheUnchangedType, CancelWatchType DEF CancelResponder

\* What a channel holds is a response for a type the server knows.
LEMMA HeadTyped ==
    ASSUME TypeInv, NEW c \in Channels, responses[c] # <<>>
    PROVE  /\ Head(responses[c]) \in Responses
           /\ Head(responses[c]).request \in Requests
           /\ Head(responses[c]).request.type \in Types
           /\ Head(responses[c]).request.names \in SUBSET Names
  <1>1. responses[c] \in Seq(Responses)
    BY DEF TypeInv, CacheTypeOK
  <1>2. Head(responses[c]) \in Responses
    BY <1>1
  <1> QED
    BY <1>2 DEF Responses, Requests

\* streamWrapper.send and the bookkeeping after it.
LEMMA SendType ==
    ASSUME TypeInv, TypeOK, NEW s \in Streams, NEW c \in Channels, responses[c] # <<>>, Send(s, c)
    PROVE  /\ nonce' \in [Streams -> Nat]
           /\ last' \in [Streams -> [Types -> [nonce : Nat, names : SUBSET Names]]]
           /\ responders' \in [Streams -> [Types -> Responders]]
           /\ toClient' \in [Streams -> Seq(DiscoveryResponses)]
  <1> DEFINE r == Head(responses[c])
             t == r.request.type
             d == [type |-> t, version |-> r.version, resources |-> r.resources,
                   heartbeat |-> r.heartbeat, nonce |-> nonce[s] + 1, at |-> r.at,
                   pushed |-> r.pushed, names |-> r.request.names]
  <1>1. r \in Responses /\ t \in Types /\ r.request.names \in SUBSET Names
    BY HeadTyped
  <1>2. /\ nonce' = [nonce EXCEPT ![s] = @ + 1]
        /\ last' = [last EXCEPT ![s][t] = [nonce |-> nonce[s] + 1, names |-> r.request.names]]
        /\ responders' = [responders EXCEPT ![s][t].nonce = nonce[s] + 1]
        /\ toClient' = [toClient EXCEPT ![s] = IF ~live[s] THEN @ ELSE Append(@, d)]
    BY DEF Send
  <1> HIDE DEF r
  <1>3. nonce[s] + 1 \in Nat /\ nonce' \in [Streams -> Nat]
    BY <1>2 DEF TypeOK
  <1>4. last' \in [Streams -> [Types -> [nonce : Nat, names : SUBSET Names]]]
    BY <1>1, <1>2, <1>3 DEF TypeOK
  <1>5. responders' \in [Streams -> [Types -> Responders]]
    <2> DEFINE w == [responders[s][t] EXCEPT !.nonce = nonce[s] + 1]
    <2>1. responders \in [Streams -> [Types -> Responders]]
      BY DEF TypeOK, Responders
    <2>2. w \in Responders
      <3>1. responders[s][t] \in Responders
        BY <1>1, <2>1
      <3> QED
        BY <1>3, <3>1 DEF Responders
    <2>3. responders' = [responders EXCEPT ![s][t] = w]
      BY <1>2, <2>1
    <2> HIDE DEF w
    <2> QED
      BY <1>1, <2>1, <2>2, <2>3
  <1>6. d \in DiscoveryResponses
    BY <1>1, <1>3 DEF Responses, DiscoveryResponses
  <1>7. toClient \in [Streams -> Seq(DiscoveryResponses)]
    BY DEF TypeOK
  <1> HIDE DEF d
  <1>8. toClient' \in [Streams -> Seq(DiscoveryResponses)]
    BY <1>2, <1>6, <1>7
  <1> QED
    BY <1>3, <1>4, <1>5, <1>8

\* What the stream receives of its channel it has received from the cache.
LEMMA IncomingTyped ==
    ASSUME TypeOK, NEW s \in Streams, NEW r \in Incoming(s), Take(s, r)
    PROVE  /\ r \in DiscoveryRequests
           /\ toServer' \in [Streams -> Seq(DiscoveryRequests)]
           /\ resent' \in [Streams -> DiscoveryRequests \cup {NoRequest}]
  <1>1. r \in DiscoveryRequests
    <2>1. CASE r = resent[s] /\ r # NoRequest
      BY <2>1 DEF TypeOK
    <2>2. CASE 1 \in DOMAIN toServer[s] /\ r = toServer[s][1]
      <3>1. toServer[s] \in Seq(DiscoveryRequests)
        BY DEF TypeOK
      <3> QED
        BY <2>2, <3>1
    <2> QED
      BY <2>1, <2>2 DEF Incoming
  <1>2. toServer' \in [Streams -> Seq(DiscoveryRequests)]
    <2>1. toServer[s] # <<>> => Tail(toServer[s]) \in Seq(DiscoveryRequests)
      BY DEF TypeOK
    <2> QED
      BY <2>1 DEF Take, TypeOK
  <1>3. resent' \in [Streams -> DiscoveryRequests \cup {NoRequest}]
    BY DEF Take, TypeOK
  <1> QED
    BY <1>1, <1>2, <1>3

\* A request is taken from reqCh.
LEMMA RecvRequestType ==
    ASSUME TypeInv, TypeOK, NEW s \in Streams, RecvRequest(s)
    PROVE  TypeOK' /\ LockDiscipline'
  <1>1. PICK r \in Incoming(s) : Take(s, r) /\ Handle(s, r)
    BY DEF RecvRequest
  <1>2. /\ r \in DiscoveryRequests /\ r.type \in Types
        /\ toServer' \in [Streams -> Seq(DiscoveryRequests)]
        /\ resent' \in [Streams -> DiscoveryRequests \cup {NoRequest}]
    BY <1>1, IncomingTyped, CacheRequestTyped
  <1>3. known' \in [Streams -> [Types -> SUBSET Names]]
    <2>1. last[s][r.type].names \in SUBSET Names
      BY <1>2 DEF TypeOK
    <2> QED
      BY <1>1, <1>2, <2>1 DEF Handle, Learn, TypeOK
  <1>4. TypeInv' /\ responders' \in [Streams -> [Types -> Responders]]
    <2>1. CASE UNCHANGED <<cacheVars, responders>>
      BY <2>1, CacheUnchangedType DEF TypeOK, Responders
    <2>2. CASE OpenWatch(s, r)
      BY <1>2, <2>2, OpenWatchType
    <2>3. CASE CancelResponder(s, r.type) /\ UNCHANGED responders
      BY <2>3, CancelResponderType DEF TypeOK, Responders
    <2> QED
      BY <1>1, <2>1, <2>2, <2>3 DEF Handle
  <1>5. /\ pc' \in [Streams -> {"idle", "process", "ads", "drain", "create", "closing", "closed"}]
        /\ current' \in [Streams -> DiscoveryRequests \cup {NoRequest}]
    <2>1. \/ pc' = pc /\ current' = current
          \/ \E x \in {"drain", "create"} : /\ pc' = [pc EXCEPT ![s] = x]
                                           /\ current' = [current EXCEPT ![s] = r]
      BY <1>1 DEF Handle
    <2> QED
      BY <1>2, <2>1 DEF TypeOK
  <1>6. UNCHANGED <<sentVars, toClient, streamVars, mux, clientVars>>
    BY DEF RecvRequest
  <1> QED
    BY <1>2, <1>3, <1>4, <1>5, <1>6
       DEF TypeInv, TypeOK, Responders, sentVars, streamVars, clientVars

\* Opening the watch of a request that superseded another keeps them.
LEMMA SupersedeWatchType ==
    ASSUME TypeInv, TypeOK, CurrentInv, NEW s \in Streams, SupersedeWatch(s)
    PROVE  TypeOK' /\ LockDiscipline'
  <1>1. current[s] \in DiscoveryRequests
    BY DEF SupersedeWatch, CurrentInv, Handling
  <1>2. TypeInv' /\ responders' \in [Streams -> [Types -> Responders]]
    BY <1>1, OpenWatchType DEF SupersedeWatch
  <1>3. /\ pc' \in [Streams -> {"idle", "process", "ads", "drain", "create", "closing", "closed"}]
        /\ current' \in [Streams -> DiscoveryRequests \cup {NoRequest}]
    BY DEF SupersedeWatch, TypeOK, Loop
  <1>4. UNCHANGED <<known, resent, sentVars, linkVars, streamVars, mux, clientVars>>
    BY DEF SupersedeWatch
  <1> QED
    BY <1>2, <1>3, <1>4
       DEF TypeInv, TypeOK, Responders, sentVars, linkVars, streamVars, clientVars

\* A response is taken from a channel and sent, or dropped.
LEMMA SendResponseType ==
    ASSUME TypeInv, TypeOK, NEW s \in Streams, SendResponse(s) \/ Drain(s)
    PROVE  TypeOK' /\ LockDiscipline'
  <1> DEFINE Rest == UNCHANGED <<watches, watchCount, deltaVars, lockVars, beatVars, setVars, status,
                                 current, resent, known, toServer, streamVars, mux, clientVars>>
  <1>1. Rest /\ pc' \in [Streams -> {"idle", "process", "ads", "drain", "create", "closing", "closed"}]
    BY DEF SendResponse, Drain, loopVars, TypeOK
  <1>2. ASSUME NEW c \in Channels, responses[c] # <<>>, Send(s, c) PROVE TypeOK' /\ LockDiscipline'
    <2>1. Receive(c)
      BY <1>1, <1>2 DEF Receive, Send
    <2>2. TypeInv'
      BY <2>1, ReceiveType
    <2> QED
      BY <1>1, <1>2, <2>2, SendType DEF TypeInv, TypeOK, Responders, streamVars, clientVars
  <1>3. ASSUME NEW c \in Channels, responses[c] # <<>>,
               responses' = [responses EXCEPT ![c] = Tail(@)],
               UNCHANGED <<responders, sentVars, toClient>>
        PROVE  TypeOK' /\ LockDiscipline'
    <2>1. Receive(c)
      BY <1>1, <1>3 DEF Receive
    <2>2. TypeInv'
      BY <2>1, ReceiveType
    <2> QED
      BY <1>1, <1>3, <2>2 DEF TypeInv, TypeOK, sentVars, streamVars, clientVars
  <1>4. CASE UNCHANGED <<responses, responders, sentVars, toClient>>
    <2>1. UNCHANGED cacheVars
      BY <1>1, <1>4 DEF cacheVars, watchVars
    <2>2. TypeInv'
      BY <2>1, CacheUnchangedType
    <2> QED
      BY <1>1, <1>4, <2>2 DEF TypeInv, TypeOK, sentVars, streamVars, clientVars
  <1>5. CASE SendResponse(s)
    BY <1>2, <1>5, ChannelTyped DEF SendResponse
  <1>6. CASE Drain(s)
    <2>1. Channel(s, AnyType) \in Channels
      BY ChannelAssumption DEF Channel
    <2> QED
      BY <1>2, <1>3, <1>4, <1>6, <2>1 DEF Drain
  <1> QED
    BY <1>5, <1>6

\* The remaining steps of the server leave the cache alone, or close a watch.
LEMMA OtherServerType ==
    ASSUME TypeInv, TypeOK, NEW s \in Streams,
           \/ EnterADS(s) \/ Exit(s) \/ CloseMux(s) \/ Closed(s) \/ CloseRequests(s)
           \/ Connect(s) \/ Disconnect(s) \/ RefuseRequest(s)
           \/ \E t \in Types : CloseWatch(s, t)
    PROVE  TypeOK' /\ LockDiscipline'
  <1>1. ASSUME UNCHANGED cacheVars PROVE CacheTypeOK' /\ LockDiscipline'
    BY <1>1, CacheUnchangedType DEF TypeInv
  <1>2. CASE EnterADS(s)
    <2>1. Head(toServer[s]) \in DiscoveryRequests /\ Tail(toServer[s]) \in Seq(DiscoveryRequests)
      BY <1>2 DEF EnterADS, TypeOK
    <2>2. CacheTypeOK' /\ LockDiscipline'
      BY <1>1, <1>2 DEF EnterADS
    <2>3. /\ resent' \in [Streams -> DiscoveryRequests \cup {NoRequest}]
          /\ toServer' \in [Streams -> Seq(DiscoveryRequests)]
          /\ pc' \in [Streams -> {"idle", "process", "ads", "drain", "create", "closing", "closed"}]
          /\ mux' \in [Streams -> {"absent", "open", "closed"}]
      BY <1>2, <2>1 DEF EnterADS, TypeOK
    <2> QED
      BY <1>2, <2>2, <2>3 DEF EnterADS, TypeOK, watcherVars, sentVars, streamVars, clientVars
  <1>3. CASE Exit(s)
    BY <1>1, <1>3 DEF Exit, TypeOK, watcherVars, sentVars, linkVars, streamVars, clientVars
  <1>4. CASE CloseMux(s)
    BY <1>1, <1>4 DEF CloseMux, TypeOK, loopVars, watcherVars, sentVars, linkVars, streamVars,
                      clientVars
  <1>5. CASE Closed(s)
    BY <1>1, <1>5 DEF Closed, TypeOK, watcherVars, sentVars, linkVars, streamVars, clientVars
  <1>6. CASE CloseRequests(s)
    BY <1>1, <1>6 DEF CloseRequests, TypeOK, loopVars, watcherVars, sentVars, linkVars, clientVars
  <1>7. CASE Connect(s)
    <2>1. StreamNode[s] \in Nodes
      BY StreamAssumption
    <2>2. CacheTypeOK' /\ LockDiscipline'
      BY <1>1, <1>7 DEF Connect
    <2> DEFINE f == [t \in Types |-> [client[StreamNode[s]][t] EXCEPT !.asked = FALSE]]
    <2>3. f \in [Types -> ClientStates]
      <3>1. ASSUME NEW t \in Types
            PROVE  [client[StreamNode[s]][t] EXCEPT !.asked = FALSE] \in ClientStates
        <4>1. client[StreamNode[s]][t] \in ClientStates
          BY <2>1, ClientTyped
        <4> QED
          BY <4>1 DEF ClientStates
      <3> QED
        BY <3>1
    <2>4. client' = [client EXCEPT ![StreamNode[s]] = f]
      BY <1>7 DEF Connect
    <2> HIDE DEF f
    <2>5. client' \in [Nodes -> [Types -> ClientStates]]
      <3>1. client \in [Nodes -> [Types -> ClientStates]]
        BY DEF TypeOK, ClientStates
      <3> QED
        BY <2>1, <2>3, <2>4, <3>1
    <2>6. /\ pc' \in [Streams -> {"idle", "process", "ads", "drain", "create", "closing", "closed"}]
          /\ live' \in [Streams -> BOOLEAN]
          /\ conn' \in [Nodes -> Streams \cup {NoStream}]
      BY <1>7, <2>1 DEF Connect, TypeOK
    <2> QED
      BY <1>7, <2>2, <2>5, <2>6 DEF Connect, TypeOK, ClientStates, watcherVars, sentVars, linkVars
  <1>8. CASE Disconnect(s)
    <2>1. StreamNode[s] \in Nodes
      BY StreamAssumption
    <2>2. CacheTypeOK' /\ LockDiscipline'
      BY <1>1, <1>8 DEF Disconnect
    <2>3. <<>> \in Seq(DiscoveryResponses)
      OBVIOUS
    <2>4. /\ live' \in [Streams -> BOOLEAN]
          /\ conn' \in [Nodes -> Streams \cup {NoStream}]
          /\ toClient' \in [Streams -> Seq(DiscoveryResponses)]
      BY <1>8, <2>1, <2>3 DEF Disconnect, TypeOK
    <2> QED
      BY <1>8, <2>2, <2>4 DEF Disconnect, TypeOK, loopVars, watcherVars, sentVars
  <1>9. CASE RefuseRequest(s)
    <2>0. PICK r \in Incoming(s) : Take(s, r)
      BY <1>9 DEF RefuseRequest
    <2>1. StreamNode[s] \in Nodes
      BY StreamAssumption
    <2>2. CacheTypeOK' /\ LockDiscipline'
      BY <1>1, <1>9 DEF RefuseRequest
    <2>3. <<>> \in Seq(DiscoveryResponses)
      OBVIOUS
    <2>4. /\ live' \in [Streams -> BOOLEAN]
          /\ conn' \in [Nodes -> Streams \cup {NoStream}]
          /\ toClient' \in [Streams -> Seq(DiscoveryResponses)]
          /\ pc' \in [Streams -> {"idle", "process", "ads", "drain", "create", "closing", "closed"}]
      BY <1>9, <2>1, <2>3 DEF RefuseRequest, TypeOK
    <2>5. /\ toServer' \in [Streams -> Seq(DiscoveryRequests)]
          /\ resent' \in [Streams -> DiscoveryRequests \cup {NoRequest}]
      BY <2>0, IncomingTyped
    <2> QED
      BY <1>9, <2>2, <2>4, <2>5 DEF RefuseRequest, TypeOK, watcherVars, sentVars
  <1>10. ASSUME NEW t \in Types, CloseWatch(s, t) PROVE TypeOK' /\ LockDiscipline'
    <2>1. TypeInv'
      BY <1>10, CancelResponderType DEF CloseWatch
    <2>2. NoWatch \in Responders
      BY DEF NoWatch, Responders
    <2>3. responders' \in [Streams -> [Types -> Responders]]
      BY <1>10, <2>2 DEF CloseWatch, TypeOK, Responders
    <2> QED
      BY <1>10, <2>1, <2>3 DEF CloseWatch, TypeInv, TypeOK, Responders, loopVars, sentVars, linkVars,
                               streamVars, clientVars
  <1> QED
    BY <1>2, <1>3, <1>4, <1>5, <1>6, <1>7, <1>8, <1>9, <1>10

\* A step of the cache.
LEMMA CacheActsType ==
    ASSUME TypeInv, TypeOK, CacheActs
    PROVE  TypeOK' /\ LockDiscipline'
  <1>1. TypeInv'
    BY StepType DEF CacheActs, CacheNext
  <1> QED
    BY <1>1 DEF CacheActs, TypeInv, TypeOK, serverVars, loopVars, watcherVars, sentVars, linkVars,
                streamVars, clientVars

\* Every step keeps the types and the discipline of the lock.
LEMMA ServerStepType ==
    ASSUME TypeOK, LockDiscipline, CurrentInv, [Next]_vars
    PROVE  TypeOK' /\ LockDiscipline'
  <1>0. TypeInv
    BY DEF TypeInv, TypeOK
  <1>1. CASE CacheActs
    BY <1>0, <1>1, CacheActsType
  <1>2. ASSUME NEW n \in Nodes,
               \/ \E t \in Types : Ask(n, t) \/ AskMore(n, t) \/ Follow(n, t)
               \/ Ack(n) \/ Nack(n)
        PROVE  TypeOK' /\ LockDiscipline'
    <2>1. UNCHANGED cacheVars
      BY <1>2 DEF Ask, AskMore, Follow, Ack, Nack
    <2> QED
      BY <1>0, <1>2, <2>1, ClientType, CacheUnchangedType DEF TypeInv
  <1>3. ASSUME NEW s \in Streams,
               \/ EnterADS(s) \/ Exit(s) \/ CloseMux(s) \/ Closed(s) \/ CloseRequests(s)
               \/ Connect(s) \/ Disconnect(s) \/ RefuseRequest(s)
               \/ \E t \in Types : CloseWatch(s, t)
        PROVE  TypeOK' /\ LockDiscipline'
    BY <1>0, <1>3, OtherServerType
  <1>4. ASSUME NEW s \in Streams, RecvRequest(s) \/ SupersedeWatch(s) \/ SendResponse(s) \/ Drain(s)
        PROVE  TypeOK' /\ LockDiscipline'
    BY <1>0, <1>4, RecvRequestType, SupersedeWatchType, SendResponseType
  <1>5. CASE UNCHANGED vars
    <2>1. TypeInv'
      BY <1>0, <1>5, CacheUnchangedType DEF vars
    <2> QED
      BY <1>5, <2>1 DEF TypeInv, TypeOK, vars, loopVars, watcherVars, sentVars, linkVars,
                        streamVars, clientVars
  <1> QED
    BY <1>1, <1>2, <1>3, <1>4, <1>5 DEF Next, ServerActs

\* They hold at the start.
LEMMA InitServerType == Init => TypeOK /\ LockDiscipline /\ CurrentInv
  <1> SUFFICES ASSUME Init PROVE TypeOK /\ LockDiscipline /\ CurrentInv
    OBVIOUS
  <1>1. TypeInv
    BY InitType DEF Init
  <1>2. EmptyMap \in ResourceMaps
    BY DEF EmptyMap, ResourceMaps, Maps
  <1>3. client \in [Nodes -> [Types -> ClientStates]]
    <2>1. UNION {Interest[t] : t \in Types} \subseteq SUBSET Names
      BY InterestAssumption
    <2> DEFINE R == [asked : {FALSE}, names : UNION {Interest[t] : t \in Types},
                     version : {NoVersion}, received : {NoVersion}, nonce : {0},
                     content : {EmptyMap}, at : {0}, rejected : {FALSE}]
    <2>2. R \subseteq ClientStates
      <3>1. NoVersion \in VersionInfos
        BY DEF VersionInfos
      <3>2. {FALSE} \subseteq BOOLEAN /\ {0} \subseteq Nat
        OBVIOUS
      <3> QED
        BY <1>2, <2>1, <3>1, <3>2, Zenon DEF ClientStates
    <2>3. client \in [Nodes -> {f \in [Types -> R] : \A t \in Types : f[t].names \in Interest[t]}]
      BY DEF Init
    <2> HIDE DEF R
    <2> QED
      BY <2>2, <2>3
  <1>4. CurrentInv
    BY DEF Init, CurrentInv, Handling
  <1>5. NoWatch \in Responders
    BY DEF NoWatch, Responders
  <1> QED
    BY <1>1, <1>3, <1>4, <1>5 DEF Init, TypeInv, TypeOK, ClientStates, Responders

----------------------------------------------------------------------------
(* Whose watches the cache holds, and whose responses the channels         *)

\* The stream that has opened a watch holds its cancel function, and is not about
\* to open the next of its type.
Owned(w, s) ==
    LET t == w.request.type
    IN  /\ w.chan = Channel(s, t)
        /\ w.request.node = StreamNode[s]
        /\ w.request.names = responders[s][t].names
        /\ w.id = responders[s][t].cancel
        /\ w.id # 0
        /\ responders[s][t].active
        /\ Handling(s) => t # current[s].type

WatchInv == \A w \in watches : \E s \in Streams : Owned(w, s)

\* Cancel functions are of watches opened before, no two of the same one; a
\* stream has responders only while its loop runs or shuts down.
ResponderInv ==
    \A s \in Streams, t \in Types :
        /\ responders[s][t].cancel \in 0 .. watchCount
        /\ responders[s][t].active => pc[s] \notin {"idle", "closed"}
        /\ \A s2 \in Streams, t2 \in Types :
             responders[s][t].cancel # 0 /\ responders[s2][t2].cancel = responders[s][t].cancel
                => s2 = s /\ t2 = t

\* A response in a channel answers the request that the stream accepted last for
\* the type; once the shared channel was drained, it has none of the type to come.
BufferInv ==
    \A s \in Streams, t \in Types : \A i \in BufferedOn(Channel(s, t), t) :
        pc[s] \notin {"closing", "closed"} =>
            /\ responders[s][t].active
            /\ responses[Channel(s, t)][i].request.names = responders[s][t].names
            /\ Ordered /\ pc[s] = "create" => t # current[s].type

ServerInv == TypeOK /\ LockDiscipline /\ CurrentInv /\ ResponderInv /\ WatchInv /\ BufferInv

\* The step opens no watch and leaves the responders but for their nonces; a
\* response that is in a channel after it was there before or answers an open
\* watch; no stream begins or stops to handle a request, leaves its shutdown, or
\* ends with responders.
Keeps ==
    /\ watches' \subseteq watches
    /\ watchCount' = watchCount
    /\ \A s \in Streams, t \in Types :
         /\ responders'[s][t].active = responders[s][t].active
         /\ responders'[s][t].cancel = responders[s][t].cancel
         /\ responders'[s][t].names = responders[s][t].names
    /\ \A c \in Channels : \A i \in DOMAIN responses'[c] :
         \/ \E j \in DOMAIN responses[c] : responses'[c][i].request = responses[c][j].request
         \/ \E w \in watches : w.chan = c /\ responses'[c][i].request = w.request
    /\ \A s \in Streams :
         /\ pc'[s] \notin {"closing", "closed"}
              => /\ pc[s] \notin {"closing", "closed"}
                 /\ pc'[s] \in {"drain", "create"} <=> Handling(s)
                 /\ Handling(s) => current'[s] = current[s]
         /\ pc'[s] \in {"idle", "closed"}
              => pc[s] \in {"idle", "closed"} \/ \A t \in Types : ~responders[s][t].active
         /\ Ordered /\ pc'[s] = "create"
              => pc[s] = "create" \/ responses[Channel(s, AnyType)] = <<>>

\* A channel belongs to one stream, without ordered ADS to one type of it.
LEMMA ChannelOfStream ==
    ASSUME NEW s \in Streams, NEW t, NEW s2 \in Streams, NEW t2, Channel(s, t) = Channel(s2, t2)
    PROVE  s = s2 /\ (Ordered \/ t = t2)
  BY DEF Channel

\* A step that keeps the watches and channels of streams as they were keeps the invariant.
LEMMA KeepsInv ==
    ASSUME ServerInv, Keeps
    PROVE  CurrentInv' /\ ResponderInv' /\ WatchInv' /\ BufferInv'
  <1>1. CurrentInv'
    BY DEF ServerInv, Keeps, CurrentInv, Handling
  <1>2. ResponderInv'
    BY DEF ServerInv, Keeps, ResponderInv
  <1>3. WatchInv'
    <2> SUFFICES ASSUME NEW w \in watches' PROVE \E s \in Streams : Owned(w, s)'
      BY DEF WatchInv
    <2>1. PICK s \in Streams : Owned(w, s)
      BY DEF ServerInv, WatchInv, Keeps
    <2>2. w \in Watches /\ w.request.type \in Types
      BY DEF ServerInv, TypeOK, CacheTypeOK, Keeps, Watches, Requests
    <2>3. Handling(s)' => Handling(s) /\ current'[s] = current[s]
      BY DEF Keeps, Handling
    <2>4. Owned(w, s)'
      BY <2>1, <2>2, <2>3 DEF Keeps, Owned, Channel
    <2> QED
      BY <2>4
  <1>4. BufferInv'
    <2> SUFFICES ASSUME NEW s \in Streams, NEW t \in Types, NEW i \in BufferedOn(Channel(s, t), t)',
                        pc'[s] \notin {"closing", "closed"}
                 PROVE  /\ responders'[s][t].active
                        /\ responses'[Channel(s, t)][i].request.names = responders'[s][t].names
                        /\ Ordered /\ pc'[s] = "create" => t # current'[s].type
      BY DEF BufferInv, Channel
    <2> DEFINE c == Channel(s, t)
    <2>1. c \in Channels
      BY ChannelTyped
    <2>2. i \in DOMAIN responses'[c] /\ responses'[c][i].request.type = t
      BY DEF BufferedOn, Channel
    <2>3. pc[s] \notin {"closing", "closed"}
      BY DEF Keeps
    <2>4. ASSUME NEW j \in DOMAIN responses[c], responses'[c][i].request = responses[c][j].request
          PROVE  /\ responders[s][t].active
                 /\ responses'[c][i].request.names = responders[s][t].names
                 /\ Ordered /\ pc'[s] = "create" => t # current'[s].type
      <3>1. j \in BufferedOn(c, t)
        BY <2>2, <2>4 DEF BufferedOn
      <3>2. /\ responders[s][t].active
            /\ responses[c][j].request.names = responders[s][t].names
            /\ Ordered /\ pc[s] = "create" => t # current[s].type
        BY <2>3, <3>1 DEF ServerInv, BufferInv
      <3>3. Ordered /\ pc'[s] = "create" => pc[s] = "create" /\ current'[s] = current[s]
        <4>1. Ordered => responses[Channel(s, AnyType)] # <<>>
          BY DEF Channel
        <4> QED
          BY <4>1 DEF Keeps
      <3> QED
        BY <2>4, <3>2, <3>3
    <2>5. ASSUME NEW w \in watches, w.chan = c, responses'[c][i].request = w.request
          PROVE  /\ responders[s][t].active
                 /\ responses'[c][i].request.names = responders[s][t].names
                 /\ Ordered /\ pc'[s] = "create" => t # current'[s].type
      <3>1. PICK s2 \in Streams : Owned(w, s2)
        BY DEF ServerInv, WatchInv
      <3>2. s2 = s /\ w.request.type = t
        <4>1. w.request.type = t
          BY <2>2, <2>5
        <4>2. Channel(s, t) = Channel(s2, t)
          BY <2>5, <3>1, <4>1 DEF Owned
        <4> QED
          BY <4>1, <4>2, ChannelOfStream
      <3>3. pc'[s] = "create" => Handling(s) /\ current'[s] = current[s]
        BY DEF Keeps
      <3> QED
        BY <2>5, <3>1, <3>2, <3>3 DEF Owned
    <2> QED
      BY <2>1, <2>2, <2>4, <2>5 DEF Keeps
  <1> QED
    BY <1>1, <1>2, <1>3, <1>4

\* A step of the cache: it answers open watches, or drops some.
LEMMA CacheActsKeeps ==
    ASSUME ServerInv, CacheActs
    PROVE  Keeps
  <1>1. UNCHANGED <<pc, current, responders>>
    BY DEF CacheActs, serverVars, loopVars, watcherVars
  <1>2. responses \in [Channels -> Seq(Responses)] /\ todo \subseteq watches /\ watches \subseteq Watches
    BY DEF ServerInv, TypeOK, CacheTypeOK
  <1> DEFINE Fills == \A c \in Channels : \A i \in DOMAIN responses'[c] :
                 \/ \E j \in DOMAIN responses[c] : responses'[c][i].request = responses[c][j].request
                 \/ \E w \in watches : w.chan = c /\ responses'[c][i].request = w.request
  <1>3. ASSUME UNCHANGED responses PROVE Fills
    BY <1>3
  <1>4. ASSUME NEW w \in todo, NEW resources, NEW isHeartbeat, NEW pushed,
               responses' = [responses EXCEPT ![w.chan] =
                    Answered(@, w.request, resources, isHeartbeat, pushed)]
        PROVE  Fills
    <2> DEFINE b == Answered(responses[w.chan], w.request, resources, isHeartbeat, pushed)
    <2>1. w \in watches /\ w.chan \in Channels /\ responses[w.chan] \in Seq(Responses)
      BY <1>2 DEF Watches
    <2>2. Extends(b, responses[w.chan], w.request)
      BY <2>1, AnsweredAdds
    <2>3. responses' = [responses EXCEPT ![w.chan] = b]
      BY <1>4
    <2> HIDE DEF b
    <2>4. ASSUME NEW c \in Channels, c # w.chan PROVE responses'[c] = responses[c]
      BY <1>2, <2>3, <2>4
    <2>5. responses'[w.chan] = b
      BY <1>2, <2>1, <2>3
    <2>6. \A i \in DOMAIN b : \/ i \in DOMAIN responses[w.chan] /\ b[i] = responses[w.chan][i]
                              \/ b[i].request = w.request
      BY <2>2 DEF Extends
    <2> SUFFICES ASSUME NEW c \in Channels, NEW i \in DOMAIN responses'[c]
                 PROVE  \/ \E j \in DOMAIN responses[c] : responses'[c][i].request = responses[c][j].request
                        \/ \E x \in watches : x.chan = c /\ responses'[c][i].request = x.request
      OBVIOUS
    <2>7. CASE c = w.chan
      BY <2>1, <2>5, <2>6, <2>7
    <2>8. CASE c # w.chan
      BY <2>4, <2>8
    <2> QED
      BY <2>7, <2>8
  <1> HIDE DEF Fills
  <1>5. Fills /\ watches' \subseteq watches /\ watchCount' = watchCount
    <2>1. ASSUME NEW w \in todo, RespondWatch(w) \/ SendHeartbeat(w)
          PROVE  Fills /\ watches' \subseteq watches /\ watchCount' = watchCount
      BY <1>4, <2>1 DEF RespondWatch, SendHeartbeat
    <2>2. ASSUME UNCHANGED responses, watches' \subseteq watches, watchCount' = watchCount
          PROVE  Fills /\ watches' \subseteq watches /\ watchCount' = watchCount
      BY <1>3, <2>2
    <2>3. ASSUME NEW w \in todo, LoseHeartbeat(w)
          PROVE  UNCHANGED responses /\ watches' \subseteq watches /\ watchCount' = watchCount
      BY <2>3 DEF LoseHeartbeat
    <2>4. ASSUME NEW n \in Nodes, AbortSetSnapshot(n) \/ ClearSnapshot(n)
                                  \/ \E sn \in Snapshots : SetSnapshot(n, sn)
          PROVE  UNCHANGED responses /\ watches' \subseteq watches /\ watchCount' = watchCount
      BY <2>4 DEF AbortSetSnapshot, ClearSnapshot, SetSnapshot, watchVars
    <2>5. ASSUME HeartbeatTick \/ CancelHeartbeats \/ StopHeartbeats
                 \/ \E w \in deltaTodo : RespondDeltaWatch(w)
          PROVE  UNCHANGED responses /\ watches' \subseteq watches /\ watchCount' = watchCount
      BY <2>5 DEF HeartbeatTick, CancelHeartbeats, StopHeartbeats, RespondDeltaWatch, watchVars
    <2> QED
      BY <2>1, <2>2, <2>3, <2>4, <2>5 DEF CacheActs, CacheStep
  <1> QED
    BY <1>1, <1>5 DEF Keeps, Fills, Handling

\* A step that leaves the cache and the responders alone.
LEMMA StillKeeps ==
    ASSUME UNCHANGED <<cacheVars, responders>>,
           \A s \in Streams :
              /\ pc'[s] \notin {"closing", "closed"}
                   => /\ pc[s] \notin {"closing", "closed"}
                      /\ pc'[s] \in {"drain", "create"} \/ Handling(s)
                           => pc'[s] = pc[s] /\ current'[s] = current[s]
              /\ pc'[s] \in {"idle", "closed"}
                   => pc[s] \in {"idle", "closed"} \/ \A t \in Types : ~responders[s][t].active
    PROVE  Keeps
  BY DEF Keeps, Handling, cacheVars, watchVars

\* The steps of clients, of the receiving goroutine and of the loop that have
\* nothing to do with watches.
LEMMA OtherStepKeeps ==
    ASSUME ServerInv,
           \/ \E n \in Nodes : \/ \E t \in Types : Ask(n, t) \/ AskMore(n, t) \/ Follow(n, t)
                               \/ Ack(n) \/ Nack(n)
           \/ \E s \in Streams : \/ EnterADS(s) \/ Exit(s) \/ CloseMux(s) \/ Closed(s)
                                 \/ CloseRequests(s) \/ Connect(s) \/ Disconnect(s)
                                 \/ RefuseRequest(s)
           \/ UNCHANGED vars
    PROVE  Keeps
  <1>0. pc \in [Streams -> {"idle", "process", "ads", "drain", "create", "closing", "closed"}]
    BY DEF ServerInv, TypeOK
  <1>1. ASSUME NEW n \in Nodes,
               \/ \E t \in Types : Ask(n, t) \/ AskMore(n, t) \/ Follow(n, t)
               \/ Ack(n) \/ Nack(n)
        PROVE  Keeps
    <2>1. UNCHANGED <<cacheVars, loopVars, watcherVars>>
      BY <1>1 DEF Ask, AskMore, Follow, Ack, Nack
    <2> QED
      BY <2>1, StillKeeps DEF loopVars, watcherVars
  <1>2. ASSUME NEW s \in Streams, EnterADS(s) PROVE Keeps
    BY <1>0, <1>2, StillKeeps DEF EnterADS, watcherVars, Handling
  <1>3. ASSUME NEW s \in Streams, Exit(s) PROVE Keeps
    BY <1>0, <1>3, StillKeeps DEF Exit, watcherVars
  <1>4. ASSUME NEW s \in Streams, CloseMux(s) \/ CloseRequests(s) \/ Disconnect(s) PROVE Keeps
    BY <1>4, StillKeeps DEF CloseMux, CloseRequests, Disconnect, loopVars, watcherVars
  <1>5. ASSUME NEW s \in Streams, Closed(s) PROVE Keeps
    BY <1>0, <1>5, StillKeeps DEF Closed, watcherVars
  <1>6. ASSUME NEW s \in Streams, Connect(s) PROVE Keeps
    BY <1>0, <1>6, StillKeeps DEF Connect, watcherVars, Handling
  <1>7. ASSUME NEW s \in Streams, RefuseRequest(s) PROVE Keeps
    BY <1>0, <1>7, StillKeeps DEF RefuseRequest, watcherVars, Loop
  <1>8. CASE UNCHANGED vars
    BY <1>8, StillKeeps DEF vars, loopVars, watcherVars
  <1> QED
    BY <1>1, <1>2, <1>3, <1>4, <1>5, <1>6, <1>7, <1>8

\* A response leaves its channel.
LEMMA SendKeeps ==
    ASSUME ServerInv, NEW s \in Streams, SendResponse(s) \/ Drain(s)
    PROVE  Keeps /\ (UNCHANGED cacheVars \/ \E c \in Channels : Receive(c))
  <1> DEFINE Rest == UNCHANGED <<watches, watchCount, deltaVars, lockVars, beatVars, setVars, status,
                                 current>>
             Loops == \A s2 \in Streams :
                 /\ pc'[s2] \notin {"closing", "closed"}
                      => /\ pc[s2] \notin {"closing", "closed"}
                         /\ pc'[s2] \in {"drain", "create"} <=> Handling(s2)
                         /\ Handling(s2) => current'[s2] = current[s2]
                 /\ pc'[s2] \in {"idle", "closed"} => pc[s2] \in {"idle", "closed"}
                 /\ Ordered /\ pc'[s2] = "create"
                      => pc[s2] = "create" \/ responses[Channel(s2, AnyType)] = <<>>
             Kept(c) == /\ responses[c] # <<>>
                        /\ responses' = [responses EXCEPT ![c] = Tail(@)]
             Same == \A s2 \in Streams, t \in Types :
                 /\ responders'[s2][t].active = responders[s2][t].active
                 /\ responders'[s2][t].cancel = responders[s2][t].cancel
                 /\ responders'[s2][t].names = responders[s2][t].names
  <1>0. /\ TypeInv /\ pc \in [Streams -> {"idle", "process", "ads", "drain", "create", "closing", "closed"}]
        /\ responders \in [Streams -> [Types -> Responders]]
        /\ responses \in [Channels -> Seq(Responses)]
    BY DEF ServerInv, TypeInv, TypeOK, CacheTypeOK, Responders
  <1>1. Rest
    BY DEF SendResponse, Drain, loopVars
  <1>2. Loops
    BY <1>0 DEF SendResponse, Drain, loopVars, Handling
  <1>3. ASSUME NEW c \in Channels, responses[c] # <<>>, Send(s, c) PROVE Kept(c) /\ Same
    <2>1. Head(responses[c]).request.type \in Types
      BY <1>0, <1>3, HeadTyped
    <2>2. Kept(c)
      BY <1>3 DEF Send
    <2> DEFINE t == Head(responses[c]).request.type
    <2>3. responders' = [responders EXCEPT ![s][t].nonce = nonce[s] + 1]
      BY <1>3 DEF Send
    <2> HIDE DEF t
    <2>4. Same
      BY <1>0, <2>1, <2>3 DEF t, Responders
    <2> QED
      BY <2>2, <2>4
  <1>4. \/ \E c \in Channels : Kept(c) /\ Same
        \/ UNCHANGED <<responses, responders>>
    <2>1. CASE SendResponse(s)
      BY <1>3, <2>1, ChannelTyped DEF SendResponse
    <2>2. CASE Drain(s)
      <3>1. Channel(s, AnyType) \in Channels
        BY ChannelAssumption DEF Channel
      <3> QED
        BY <1>3, <2>2, <3>1 DEF Drain
    <2> QED
      BY <2>1, <2>2
  <1> HIDE DEF Loops, Same
  <1>5. ASSUME NEW c \in Channels, Kept(c), Same PROVE Keeps /\ Receive(c)
    <2>1. Receive(c)
      BY <1>1, <1>5 DEF Receive
    <2>2. \A d \in Channels : \A i \in DOMAIN responses'[d] :
             \E j \in DOMAIN responses[d] : responses'[d][i] = responses[d][j]
      <3>1. \A i \in DOMAIN Tail(responses[c]) :
               i + 1 \in DOMAIN responses[c] /\ Tail(responses[c])[i] = responses[c][i + 1]
        BY <1>0, <1>5
      <3>2. \A d \in Channels : d # c => responses'[d] = responses[d]
        BY <1>0, <1>5
      <3>3. responses'[c] = Tail(responses[c])
        BY <1>0, <1>5
      <3> QED
        BY <3>1, <3>2, <3>3
    <2> QED
      BY <1>1, <1>2, <1>5, <2>1, <2>2 DEF Keeps, Loops, Same
  <1>6. CASE UNCHANGED <<responses, responders>>
    <2>1. UNCHANGED cacheVars
      BY <1>1, <1>6 DEF cacheVars, watchVars
    <2> QED
      BY <1>1, <1>2, <1>6, <2>1 DEF Keeps, Loops
  <1> QED
    BY <1>4, <1>5, <1>6

\* A stream may open a watch of a type: the loop has none, or has cancelled it
\* and, with ordered ADS, has drained the channel.
MayOpen(s, r) ==
    \/ pc[s] = Loop /\ ~responders[s][r.type].active
    \/ pc[s] = "create" /\ r = current[s]

\* Nothing of the type is awaited on the channel then, and nothing of it is in a
\* channel that is used again.
LEMMA NothingAwaited ==
    ASSUME ServerInv, NEW s \in Streams, NEW r \in DiscoveryRequests, MayOpen(s, r)
    PROVE  /\ \A w \in watches, s2 \in Streams :
                 Owned(w, s2) => s2 # s \/ w.request.type # r.type
           /\ OpenOn(Channel(s, r.type), r.type) = {}
           /\ ~Ordered => \A u \in Types : OpenOn(Channel(s, r.type), u) = {}
           /\ Ordered => BufferedOn(Channel(s, r.type), r.type) = {}
  <1> DEFINE c == Channel(s, r.type)
  <1>1. r.type \in Types
    BY CacheRequestTyped
  <1>2. ASSUME NEW w \in watches, NEW s2 \in Streams, Owned(w, s2)
        PROVE  s2 # s \/ w.request.type # r.type
    BY <1>2 DEF MayOpen, Owned, Handling
  <1>3. ASSUME NEW w \in watches, w.chan = c PROVE Ordered /\ w.request.type # r.type
    <2>1. PICK s2 \in Streams : Owned(w, s2)
      BY DEF ServerInv, WatchInv
    <2>2. Channel(s2, w.request.type) = Channel(s, r.type)
      BY <1>3, <2>1 DEF Owned
    <2>3. s2 = s /\ (Ordered \/ w.request.type = r.type)
      BY <2>2, ChannelOfStream
    <2> QED
      BY <1>2, <2>1, <2>3
  <1>4. Ordered => BufferedOn(c, r.type) = {}
    <2> SUFFICES ASSUME Ordered, NEW i \in BufferedOn(c, r.type) PROVE FALSE
      OBVIOUS
    <2>1. pc[s] \notin {"closing", "closed"}
      BY DEF MayOpen, Loop
    <2> QED
      BY <1>1, <2>1 DEF ServerInv, BufferInv, MayOpen
  <1> QED
    BY <1>2, <1>3, <1>4 DEF OpenOn

\* What CreateWatch and addWatch do.
LEMMA OpenWatchEffect ==
    ASSUME ServerInv, NEW s \in Streams, NEW r \in DiscoveryRequests, OpenWatch(s, r)
    PROVE  LET c == Channel(s, r.type)
               buffer == IF Ordered THEN responses[c] ELSE <<>>
               new == [id |-> watchCount + 1, request |-> CacheRequest(s, r), chan |-> c]
               responder == [active |-> TRUE, cancel |-> OpenedWatch, nonce |-> 0, names |-> r.names]
           IN  /\ responders' = [responders EXCEPT ![s][r.type] = responder]
               /\ responders'[s][r.type] = responder
               /\ \A s2 \in Streams, t2 \in Types :
                     s2 # s \/ t2 # r.type => responders'[s2][t2] = responders[s2][t2]
               /\ \A d \in Channels : d # c => responses'[d] = responses[d]
               /\ Extends(responses'[c], buffer, CacheRequest(s, r))
               /\ \/ /\ watchCount' = watchCount + 1 /\ OpenedWatch = watchCount + 1
                     /\ watches' = watches \cup {new}
                     /\ responses'[c] = buffer
                  \/ /\ watchCount' = watchCount /\ OpenedWatch = 0
                     /\ watches' = watches
                     /\ responses'[c] = Answered(buffer, CacheRequest(s, r),
                                          SnapshotResources(StreamNode[s], r.type), FALSE, FALSE)
  <1> DEFINE c == Channel(s, r.type)
             buffer == IF Ordered THEN responses[c] ELSE <<>>
             b == Answered(buffer, CacheRequest(s, r),
                           SnapshotResources(StreamNode[s], r.type), FALSE, FALSE)
             new == [id |-> watchCount + 1, request |-> CacheRequest(s, r), chan |-> c]
             responder == [active |-> TRUE, cancel |-> OpenedWatch, nonce |-> 0, names |-> r.names]
  <1>1. r.type \in Types /\ c \in Channels
    BY CacheRequestTyped, ChannelTyped
  <1>2. /\ responses \in [Channels -> Seq(Responses)] /\ watchCount \in Nat
        /\ responders \in [Streams -> [Types -> Responders]]
    BY DEF ServerInv, TypeOK, CacheTypeOK, Responders
  <1>3. responses[c] \in Seq(Responses) /\ <<>> \in Seq(Responses)
    BY <1>1, <1>2
  <1>4. buffer \in Seq(Responses)
    BY <1>3
  <1>5. /\ CreateWatch(CacheRequest(s, r), known'[s][r.type], c, buffer)
        /\ responders' = [responders EXCEPT ![s][r.type] = responder]
    BY DEF OpenWatch, CacheRequest
  <1>6. CacheRequest(s, r).node = StreamNode[s] /\ CacheRequest(s, r).type = r.type
    BY DEF CacheRequest
  <1> HIDE DEF c, buffer
  <1>7. \/ /\ watchCount' = watchCount + 1 /\ watches' = watches \cup {new}
           /\ responses' = [responses EXCEPT ![c] = buffer]
        \/ /\ watchCount' = watchCount /\ watches' = watches
           /\ responses' = [responses EXCEPT ![c] = b]
    BY <1>5, <1>6 DEF CreateWatch
  <1>8. /\ watchCount' = watchCount + 1 => OpenedWatch = watchCount + 1
        /\ watchCount' = watchCount => OpenedWatch = 0
    <2>1. watchCount + 1 # watchCount
      BY <1>2
    <2> QED
      BY <2>1, Zenon DEF OpenedWatch
  <1>9. Extends(b, buffer, CacheRequest(s, r)) /\ Extends(buffer, buffer, CacheRequest(s, r))
    <2>1. Extends(b, buffer, CacheRequest(s, r))
      BY <1>4, AnsweredAdds
    <2>2. Extends(buffer, buffer, CacheRequest(s, r))
      BY DEF Extends
    <2> QED
      BY <2>1, <2>2
  <1> HIDE DEF b, new, responder
  <1>10. /\ \A d \in Channels : d # c => responses'[d] = responses[d]
         /\ responses'[c] = buffer \/ responses'[c] = b
    BY <1>1, <1>2, <1>7
  <1>11. /\ responders'[s][r.type] = responder
         /\ \A s2 \in Streams, t2 \in Types :
               s2 # s \/ t2 # r.type => responders'[s2][t2] = responders[s2][t2]
    BY <1>1, <1>2, <1>5
  <1>12. \/ /\ watchCount' = watchCount + 1 /\ OpenedWatch = watchCount + 1
            /\ watches' = watches \cup {new} /\ responses'[c] = buffer
         \/ /\ watchCount' = watchCount /\ OpenedWatch = 0
            /\ watches' = watches /\ responses'[c] = b
    BY <1>1, <1>2, <1>7, <1>8
  <1> QED
    BY <1>5, <1>9, <1>10, <1>11, <1>12 DEF c, buffer, b, new, responder

\* Opening a watch, when the type's last one is out of the way.
LEMMA OpenWatchInv ==
    ASSUME ServerInv, NEW s \in Streams, NEW r \in DiscoveryRequests, MayOpen(s, r),
           OpenWatch(s, r), known'[s][r.type] \in SUBSET Names,
           pc' = [pc EXCEPT ![s] = Loop],
           \A s2 \in Streams : s2 # s => current'[s2] = current[s2]
    PROVE  /\ CurrentInv' /\ ResponderInv' /\ WatchInv' /\ BufferInv'
           /\ Create(CacheRequest(s, r), known'[s][r.type], Channel(s, r.type))
  <1> DEFINE t == r.type
             c == Channel(s, t)
             buffer == IF Ordered THEN responses[c] ELSE <<>>
             new == [id |-> watchCount + 1, request |-> CacheRequest(s, r), chan |-> c]
             responder == [active |-> TRUE, cancel |-> OpenedWatch, nonce |-> 0, names |-> r.names]
  <1>1. t \in Types /\ c \in Channels /\ watchCount \in Nat
    BY CacheRequestTyped, ChannelTyped DEF ServerInv, TypeOK, CacheTypeOK
  <1>2. /\ responders'[s][t] = responder
        /\ \A s2 \in Streams, t2 \in Types :
              s2 # s \/ t2 # t => responders'[s2][t2] = responders[s2][t2]
        /\ \A d \in Channels : d # c => responses'[d] = responses[d]
        /\ Extends(responses'[c], buffer, CacheRequest(s, r))
        /\ \/ /\ watchCount' = watchCount + 1 /\ OpenedWatch = watchCount + 1
              /\ watches' = watches \cup {new}
           \/ watchCount' = watchCount /\ OpenedWatch = 0 /\ watches' = watches
    BY OpenWatchEffect
  <1>3. /\ \A w \in watches, s2 \in Streams : Owned(w, s2) => s2 # s \/ w.request.type # t
        /\ OpenOn(c, t) = {}
        /\ ~Ordered => \A u \in Types : OpenOn(c, u) = {}
        /\ Ordered => BufferedOn(c, t) = {}
    BY NothingAwaited
  <1>4. /\ pc'[s] = Loop /\ Loop \notin {"drain", "create", "idle", "closing", "closed"}
        /\ \A s2 \in Streams : s2 # s => pc'[s2] = pc[s2]
        /\ pc[s] \notin {"closing", "closed", "idle"}
    BY DEF ServerInv, TypeOK, MayOpen, Loop
  <1>5. CurrentInv'
    BY <1>4 DEF ServerInv, CurrentInv, Handling
  <1>6. ResponderInv'
    <2>1. ASSUME NEW s2 \in Streams, NEW t2 \in Types
          PROVE  /\ responders'[s2][t2].cancel \in 0 .. watchCount'
                 /\ responders'[s2][t2].active => pc'[s2] \notin {"idle", "closed"}
                 /\ s2 = s /\ t2 = t => responders'[s2][t2].cancel = OpenedWatch
                 /\ s2 # s \/ t2 # t => responders'[s2][t2].cancel \in 0 .. watchCount
                                       /\ responders'[s2][t2].cancel = responders[s2][t2].cancel
      BY <1>1, <1>2, <1>4 DEF ServerInv, ResponderInv
    <2> DEFINE cancel(x, y) == responders'[x][y].cancel
    <2>2. ASSUME NEW s2 \in Streams, NEW t2 \in Types, NEW s3 \in Streams, NEW t3 \in Types,
                 cancel(s2, t2) # 0, cancel(s3, t3) = cancel(s2, t2)
          PROVE  s3 = s2 /\ t3 = t2
      <3>1. OpenedWatch \notin 1 .. watchCount
        BY <1>1, <1>2
      <3>2. ASSUME s2 # s \/ t2 # t, s3 # s \/ t3 # t PROVE s3 = s2 /\ t3 = t2
        BY <2>1, <2>2, <3>2 DEF ServerInv, ResponderInv
      <3>3. ASSUME s2 = s, t2 = t, s3 # s \/ t3 # t PROVE FALSE
        BY <1>1, <2>1, <2>2, <3>1, <3>3
      <3>4. ASSUME s3 = s, t3 = t, s2 # s \/ t2 # t PROVE FALSE
        BY <1>1, <2>1, <2>2, <3>1, <3>4
      <3> QED
        BY <3>2, <3>3, <3>4
    <2> QED
      BY <2>1, <2>2 DEF ResponderInv
  <1>7. WatchInv'
    <2> SUFFICES ASSUME NEW w \in watches' PROVE \E s2 \in Streams : Owned(w, s2)'
      BY DEF WatchInv
    <2>1. CASE w \in watches
      <3>1. PICK s2 \in Streams : Owned(w, s2)
        BY <2>1 DEF ServerInv, WatchInv
      <3>2. w.request.type \in Types
        BY <2>1 DEF ServerInv, TypeOK, CacheTypeOK, Watches, Requests
      <3>3. responders'[s2][w.request.type] = responders[s2][w.request.type]
        BY <1>2, <1>3, <2>1, <3>1, <3>2
      <3>4. Handling(s2)' => Handling(s2) /\ current'[s2] = current[s2]
        BY <1>4 DEF Handling
      <3>5. Owned(w, s2)'
        BY <3>1, <3>3, <3>4 DEF Owned, Channel
      <3> QED
        BY <3>5
    <2>2. CASE w \notin watches
      <3>1. w = new /\ OpenedWatch = watchCount + 1
        BY <1>2, <2>2
      <3>2. /\ w.id = watchCount + 1 /\ w.chan = c /\ w.request.type = t
            /\ w.request.node = StreamNode[s] /\ w.request.names = r.names
        BY <3>1 DEF CacheRequest
      <3>3. ~Handling(s)'
        BY <1>4 DEF Handling
      <3>4. Owned(w, s)'
        BY <1>1, <1>2, <3>1, <3>2, <3>3 DEF Owned, Channel
      <3> QED
        BY <3>4
    <2> QED
      BY <2>1, <2>2
  <1>8. BufferInv'
    <2> SUFFICES ASSUME NEW s2 \in Streams, NEW t2 \in Types, NEW i \in BufferedOn(Channel(s2, t2), t2)',
                        pc'[s2] \notin {"closing", "closed"}
                 PROVE  /\ responders'[s2][t2].active
                        /\ responses'[Channel(s2, t2)][i].request.names = responders'[s2][t2].names
                        /\ Ordered /\ pc'[s2] = "create" => t2 # current'[s2].type
      BY DEF BufferInv, Channel
    <2> DEFINE d == Channel(s2, t2)
    <2>1. d \in Channels /\ i \in DOMAIN responses'[d] /\ responses'[d][i].request.type = t2
      BY ChannelTyped DEF BufferedOn, Channel
    <2>2. pc[s2] \notin {"closing", "closed"}
      BY <1>4
    <2>3. pc'[s2] = "create" => pc[s2] = "create" /\ current'[s2] = current[s2]
      BY <1>4
    <2>4. ASSUME i \in DOMAIN responses[d], responses'[d][i] = responses[d][i], s2 # s \/ t2 # t
          PROVE  /\ responders'[s2][t2].active
                 /\ responses'[d][i].request.names = responders'[s2][t2].names
                 /\ Ordered /\ pc'[s2] = "create" => t2 # current'[s2].type
      <3>1. i \in BufferedOn(d, t2)
        BY <2>1, <2>4 DEF BufferedOn
      <3> QED
        BY <1>2, <2>2, <2>3, <2>4, <3>1 DEF ServerInv, BufferInv
    <2>5. CASE d # c
      BY <1>2, <2>1, <2>4, <2>5
    <2>6. CASE d = c
      <3>1. s2 = s /\ (Ordered \/ t2 = t)
        BY <2>6, ChannelOfStream
      <3>2. \/ i \in DOMAIN buffer /\ responses'[c][i] = buffer[i]
            \/ responses'[c][i].request = CacheRequest(s, r)
        BY <1>2, <2>1, <2>6 DEF Extends
      <3>3. CacheRequest(s, r).names = r.names /\ CacheRequest(s, r).type = t
        BY DEF CacheRequest
      <3>4. CASE t2 = t
        <4>1. responses'[c][i].request = CacheRequest(s, r)
          <5>1. ~(i \in DOMAIN buffer /\ responses'[c][i] = buffer[i])
            BY <1>3, <2>1, <2>6, <3>4 DEF BufferedOn
          <5> QED
            BY <3>2, <5>1
        <4> QED
          BY <1>2, <1>4, <2>6, <3>1, <3>3, <3>4, <4>1
      <3>5. CASE t2 # t
        BY <2>1, <2>4, <2>6, <3>1, <3>2, <3>3, <3>5
      <3> QED
        BY <3>4, <3>5
    <2> QED
      BY <2>5, <2>6
  <1>9. Create(CacheRequest(s, r), known'[s][r.type], c)
    <2>1. CreateWatch(CacheRequest(s, r), known'[s][r.type], c, buffer)
      BY DEF OpenWatch, CacheRequest
    <2>2. CacheRequest(s, r).type = t
      BY DEF CacheRequest
    <2> HIDE DEF c
    <2> QED
      BY <1>3, <2>1, <2>2 DEF Create
  <1> QED
    BY <1>5, <1>6, <1>7, <1>8, <1>9

\* A cancelled watch is gone from the cache, and its cancel function is one of
\* those the cache gave out.
LEMMA CancelEffect ==
    ASSUME ServerInv, NEW s \in Streams, NEW t \in Types, CancelResponder(s, t)
    PROVE  /\ watches' \subseteq watches /\ watchCount' = watchCount /\ responses' = responses
           /\ \A w \in watches', s2 \in Streams : Owned(w, s2) => s2 # s \/ w.request.type # t
           /\ UNCHANGED cacheVars \/ \E n \in Nodes, id \in 1 .. watchCount : CancelWatch(n, id)
  <1> DEFINE id == responders[s][t].cancel
  <1>1. id \in 0 .. watchCount /\ watchCount \in Nat
    BY DEF ServerInv, ResponderInv, TypeOK, CacheTypeOK
  <1>2. CASE id = 0
    <2>1. UNCHANGED cacheVars
      BY <1>2 DEF CancelResponder
    <2> QED
      BY <1>2, <2>1 DEF cacheVars, watchVars, Owned
  <1>3. CASE id # 0
    <2>1. CancelWatch(StreamNode[s], id)
      BY <1>3 DEF CancelResponder
    <2>2. StreamNode[s] \in Nodes /\ id \in 1 .. watchCount
      BY <1>1, <1>3, StreamAssumption
    <2>3. /\ watches' = {w \in watches : ~(w.request.node = StreamNode[s] /\ w.id = id)}
          /\ watchCount' = watchCount /\ responses' = responses
      BY <2>1 DEF CancelWatch
    <2>4. ASSUME NEW w \in watches', NEW s2 \in Streams, Owned(w, s2), s2 = s, w.request.type = t
          PROVE  FALSE
      <3>1. w.request.node = StreamNode[s] /\ w.id = id
        BY <2>4 DEF Owned
      <3> QED
        BY <2>3, <3>1
    <2> HIDE DEF id
    <2> QED
      BY <2>1, <2>2, <2>3, <2>4
  <1> QED
    BY <1>2, <1>3

\* A request supersedes the last one of its type.
LEMMA CancelInv ==
    ASSUME ServerInv, NEW s \in Streams, NEW r \in DiscoveryRequests, CancelResponder(s, r.type),
           pc[s] = Loop, pc' = [pc EXCEPT ![s] = IF Ordered THEN "drain" ELSE "create"],
           current' = [current EXCEPT ![s] = r], responders' = responders
    PROVE  CurrentInv' /\ ResponderInv' /\ WatchInv' /\ BufferInv'
  <1>1. /\ r.type \in Types /\ pc \in [Streams -> {"idle", "process", "ads", "drain", "create", "closing", "closed"}]
        /\ current \in [Streams -> DiscoveryRequests \cup {NoRequest}]
    BY CacheRequestTyped DEF ServerInv, TypeOK
  <1>2. /\ watches' \subseteq watches /\ watchCount' = watchCount /\ responses' = responses
        /\ \A w \in watches', s2 \in Streams : Owned(w, s2) => s2 # s \/ w.request.type # r.type
    BY <1>1, CancelEffect
  <1>3. /\ pc[s] \notin {"closing", "closed", "idle", "drain", "create"}
        /\ pc'[s] \in {"drain", "create"} /\ (Ordered => pc'[s] = "drain") /\ current'[s] = r
        /\ \A s2 \in Streams : s2 # s => pc'[s2] = pc[s2] /\ current'[s2] = current[s2]
    BY <1>1 DEF Loop
  <1>4. CurrentInv'
    BY <1>3 DEF ServerInv, CurrentInv, Handling
  <1>5. ResponderInv'
    BY <1>2, <1>3 DEF ServerInv, ResponderInv
  <1>6. WatchInv'
    <2> SUFFICES ASSUME NEW w \in watches' PROVE \E s2 \in Streams : Owned(w, s2)'
      BY DEF WatchInv
    <2>1. PICK s2 \in Streams : Owned(w, s2)
      BY <1>2 DEF ServerInv, WatchInv
    <2>2. Handling(s2)' => w.request.type # current'[s2].type
      BY <1>2, <1>3, <2>1 DEF Owned, Handling
    <2>3. Owned(w, s2)'
      BY <2>1, <2>2 DEF Owned, Channel
    <2> QED
      BY <2>3
  <1>7. BufferInv'
    <2> SUFFICES ASSUME NEW s2 \in Streams, NEW t2 \in Types, NEW i \in BufferedOn(Channel(s2, t2), t2)',
                        pc'[s2] \notin {"closing", "closed"}
                 PROVE  /\ responders'[s2][t2].active
                        /\ responses'[Channel(s2, t2)][i].request.names = responders'[s2][t2].names
                        /\ Ordered /\ pc'[s2] = "create" => t2 # current'[s2].type
      BY DEF BufferInv, Channel
    <2>1. i \in BufferedOn(Channel(s2, t2), t2)
      BY <1>2 DEF BufferedOn, Channel
    <2> QED
      BY <1>2, <1>3, <2>1 DEF ServerInv, BufferInv
  <1> QED
    BY <1>4, <1>5, <1>6, <1>7

\* A watch is closed at shutdown.
LEMMA CloseWatchInv ==
    ASSUME ServerInv, NEW s \in Streams, NEW t \in Types, CloseWatch(s, t)
    PROVE  CurrentInv' /\ ResponderInv' /\ WatchInv' /\ BufferInv'
  <1>1. /\ pc[s] = "closing" /\ UNCHANGED <<pc, current>>
        /\ CancelResponder(s, t) /\ responders' = [responders EXCEPT ![s][t] = NoWatch]
    BY DEF CloseWatch, loopVars
  <1>2. /\ watches' \subseteq watches /\ watchCount' = watchCount /\ responses' = responses
        /\ \A w \in watches', s2 \in Streams : Owned(w, s2) => s2 # s \/ w.request.type # t
    BY <1>1, CancelEffect
  <1>3. /\ responders'[s][t] = NoWatch
        /\ \A s2 \in Streams, t2 \in Types :
              s2 # s \/ t2 # t => responders'[s2][t2] = responders[s2][t2]
    BY <1>1 DEF ServerInv, TypeOK
  <1>4. CurrentInv'
    BY <1>1 DEF ServerInv, CurrentInv, Handling
  <1>5. ResponderInv'
    <2>1. NoWatch.cancel = 0 /\ NoWatch.active = FALSE /\ 0 \in 0 .. watchCount
      BY DEF NoWatch, ServerInv, TypeOK, CacheTypeOK
    <2>2. ASSUME NEW s2 \in Streams, NEW t2 \in Types
          PROVE  responders'[s2][t2] = NoWatch \/ responders'[s2][t2] = responders[s2][t2]
      BY <1>3
    <2>3. ASSUME NEW s2 \in Streams, NEW t2 \in Types
          PROVE  /\ responders'[s2][t2].cancel \in 0 .. watchCount'
                 /\ responders'[s2][t2].active => pc'[s2] \notin {"idle", "closed"}
      BY <1>1, <1>2, <2>1, <2>2 DEF ServerInv, ResponderInv
    <2>4. ASSUME NEW s2 \in Streams, NEW t2 \in Types, NEW s3 \in Streams, NEW t3 \in Types,
                 responders'[s2][t2].cancel # 0,
                 responders'[s3][t3].cancel = responders'[s2][t2].cancel
          PROVE  s3 = s2 /\ t3 = t2
      <3>1. /\ responders'[s2][t2] = responders[s2][t2]
            /\ responders'[s3][t3] = responders[s3][t3]
        BY <2>1, <2>2, <2>4
      <3> QED
        BY <2>4, <3>1 DEF ServerInv, ResponderInv
    <2> QED
      BY <2>3, <2>4 DEF ResponderInv
  <1>6. WatchInv'
    <2> SUFFICES ASSUME NEW w \in watches' PROVE \E s2 \in Streams : Owned(w, s2)'
      BY DEF WatchInv
    <2>1. PICK s2 \in Streams : Owned(w, s2)
      BY <1>2 DEF ServerInv, WatchInv
    <2>2. w.request.type \in Types
      BY <1>2 DEF ServerInv, TypeOK, CacheTypeOK, Watches, Requests
    <2>3. responders'[s2][w.request.type] = responders[s2][w.request.type]
      BY <1>2, <1>3, <2>1, <2>2
    <2>4. Owned(w, s2)'
      BY <1>1, <2>1, <2>3 DEF Owned, Channel, Handling
    <2> QED
      BY <2>4
  <1>7. BufferInv'
    <2> SUFFICES ASSUME NEW s2 \in Streams, NEW t2 \in Types, NEW i \in BufferedOn(Channel(s2, t2), t2)',
                        pc'[s2] \notin {"closing", "closed"}
                 PROVE  /\ responders'[s2][t2].active
                        /\ responses'[Channel(s2, t2)][i].request.names = responders'[s2][t2].names
                        /\ Ordered /\ pc'[s2] = "create" => t2 # current'[s2].type
      BY DEF BufferInv, Channel
    <2>1. i \in BufferedOn(Channel(s2, t2), t2)
      BY <1>2 DEF BufferedOn, Channel
    <2>2. s2 # s
      BY <1>1
    <2> QED
      BY <1>1, <1>2, <1>3, <2>1, <2>2 DEF ServerInv, BufferInv
  <1> QED
    BY <1>4, <1>5, <1>6, <1>7

\* The first request of its type, or one that supersedes another, gets its watch.
LEMMA OpenStep ==
    ASSUME ServerInv, TypeOK', NEW s \in Streams, RecvRequest(s) \/ SupersedeWatch(s)
    PROVE  /\ CurrentInv' /\ ResponderInv' /\ WatchInv' /\ BufferInv'
           /\ UNCHANGED cacheVars \/ CacheNext
  <1>0. TypeOK /\ pc \in [Streams -> {"idle", "process", "ads", "drain", "create", "closing", "closed"}]
    BY DEF ServerInv, TypeOK
  <1>1. ASSUME NEW r \in DiscoveryRequests, MayOpen(s, r), OpenWatch(s, r),
               pc' = [pc EXCEPT ![s] = Loop],
               \A s2 \in Streams : s2 # s => current'[s2] = current[s2]
        PROVE  CurrentInv' /\ ResponderInv' /\ WatchInv' /\ BufferInv' /\ CacheNext
    <2>1. r.type \in Types /\ CacheRequest(s, r) \in Requests /\ Channel(s, r.type) \in Channels
      BY CacheRequestTyped, ChannelTyped
    <2>2. known'[s][r.type] \in SUBSET Names
      BY <2>1 DEF TypeOK
    <2>3. /\ CurrentInv' /\ ResponderInv' /\ WatchInv' /\ BufferInv'
          /\ Create(CacheRequest(s, r), known'[s][r.type], Channel(s, r.type))
      BY <1>1, <2>2, OpenWatchInv
    <2>4. CallerStep
      BY <2>1, <2>2, <2>3 DEF CallerStep
    <2> QED
      BY <2>3, <2>4 DEF CacheNext
  <1>2. CASE SupersedeWatch(s)
    <2>1. current[s] \in DiscoveryRequests
      BY <1>2 DEF ServerInv, CurrentInv, Handling, SupersedeWatch
    <2>2. /\ MayOpen(s, current[s]) /\ OpenWatch(s, current[s]) /\ pc' = [pc EXCEPT ![s] = Loop]
          /\ \A s2 \in Streams : s2 # s => current'[s2] = current[s2]
      BY <1>0, <1>2 DEF SupersedeWatch, MayOpen, TypeOK
    <2> QED
      BY <1>1, <2>1, <2>2
  <1>3. CASE RecvRequest(s)
    <2>1. PICK r \in Incoming(s) : Take(s, r) /\ Handle(s, r)
      BY <1>3 DEF RecvRequest
    <2>2. r \in DiscoveryRequests /\ r.type \in Types /\ pc[s] = Loop
      BY <1>0, <1>3, <2>1, IncomingTyped, CacheRequestTyped DEF RecvRequest
    <2>3. CASE pc' = pc /\ UNCHANGED <<cacheVars, current, responders>>
      <3>1. Keeps
        BY <2>3, StillKeeps
      <3> QED
        BY <2>3, <3>1, KeepsInv
    <2>4. CASE ~responders[s][r.type].active /\ OpenWatch(s, r) /\ pc' = pc /\ UNCHANGED current
      <3>1. pc' = [pc EXCEPT ![s] = Loop] /\ MayOpen(s, r)
        BY <1>0, <2>2, <2>4 DEF MayOpen
      <3> QED
        BY <1>1, <2>2, <2>4, <3>1
    <2>5. CASE /\ CancelResponder(s, r.type)
               /\ pc' = [pc EXCEPT ![s] = IF Ordered THEN "drain" ELSE "create"]
               /\ current' = [current EXCEPT ![s] = r]
               /\ UNCHANGED responders
      <3>1. UNCHANGED cacheVars \/ CallerStep
        BY <2>2, <2>5, CancelEffect DEF CallerStep
      <3> QED
        BY <2>2, <2>5, <3>1, CancelInv DEF CacheNext
    <2> QED
      BY <2>1, <2>3, <2>4, <2>5 DEF Handle
  <1> QED
    BY <1>2, <1>3

\* Every step keeps the invariant, and is one that the cache's contract allows.
LEMMA ServerStep ==
    ASSUME ServerInv, [Next]_vars
    PROVE  ServerInv' /\ [UNCHANGED cacheVars \/ CacheNext]_cacheVars
  <1>0. TypeOK' /\ LockDiscipline'
    BY ServerStepType DEF ServerInv
  <1>1. ASSUME Keeps PROVE ServerInv'
    BY <1>0, <1>1, KeepsInv DEF ServerInv
  <1>2. CASE CacheActs
    BY <1>1, <1>2, CacheActsKeeps DEF CacheActs, CacheNext
  <1>3. CASE \/ \E n \in Nodes : \/ \E t \in Types : Ask(n, t) \/ AskMore(n, t) \/ Follow(n, t)
                                 \/ Ack(n) \/ Nack(n)
             \/ \E s \in Streams : \/ EnterADS(s) \/ Exit(s) \/ CloseMux(s) \/ Closed(s)
                                   \/ CloseRequests(s) \/ Connect(s) \/ Disconnect(s)
                                   \/ RefuseRequest(s)
             \/ UNCHANGED vars
    <2>1. UNCHANGED cacheVars
      <3>1. ASSUME NEW n, NEW t, Ask(n, t) \/ AskMore(n, t) \/ Follow(n, t) \/ Ack(n) \/ Nack(n)
            PROVE  UNCHANGED cacheVars
        BY <3>1 DEF Ask, AskMore, Follow, Ack, Nack
      <3>2. ASSUME NEW s, \/ EnterADS(s) \/ Exit(s) \/ CloseMux(s) \/ Closed(s)
                          \/ CloseRequests(s) \/ Connect(s) \/ Disconnect(s) \/ RefuseRequest(s)
            PROVE  UNCHANGED cacheVars
        BY <3>2 DEF EnterADS, Exit, CloseMux, Closed, CloseRequests, Connect, Disconnect,
                    RefuseRequest
      <3> QED
        BY <1>3, <3>1, <3>2 DEF vars
    <2> QED
      BY <1>1, <1>3, <2>1, OtherStepKeeps
  <1>4. ASSUME NEW s \in Streams, SendResponse(s) \/ Drain(s)
        PROVE  ServerInv' /\ [UNCHANGED cacheVars \/ CacheNext]_cacheVars
    <2>1. Keeps /\ (UNCHANGED cacheVars \/ \E c \in Channels : Receive(c))
      BY <1>4, SendKeeps
    <2> QED
      BY <1>1, <2>1 DEF CacheNext, CallerStep
  <1>5. ASSUME NEW s \in Streams, RecvRequest(s) \/ SupersedeWatch(s)
        PROVE  ServerInv' /\ [UNCHANGED cacheVars \/ CacheNext]_cacheVars
    BY <1>0, <1>5, OpenStep DEF ServerInv
  <1>6. ASSUME NEW s \in Streams, NEW t \in Types, CloseWatch(s, t)
        PROVE  ServerInv' /\ [UNCHANGED cacheVars \/ CacheNext]_cacheVars
    <2>1. UNCHANGED cacheVars \/ CallerStep
      BY <1>6, CancelEffect DEF CloseWatch, CallerStep
    <2> QED
      BY <1>0, <1>6, <2>1, CloseWatchInv DEF ServerInv, CacheNext
  <1> QED
    BY <1>2, <1>3, <1>4, <1>5, <1>6 DEF Next, ServerActs

\* The invariant holds at the start.
LEMMA InitServer == Init => ServerInv /\ CacheInit
  <1> SUFFICES ASSUME Init PROVE ServerInv /\ CacheInit
    OBVIOUS
  <1>1. TypeOK /\ LockDiscipline /\ CurrentInv
    BY InitServerType
  <1>2. watches = {} /\ watchCount = 0 /\ responses = [c \in Channels |-> <<>>]
    BY DEF Init, CacheInit
  <1>3. responders = [s \in Streams |-> [t \in Types |-> NoWatch]]
    BY DEF Init
  <1>4. ResponderInv
    BY <1>2, <1>3 DEF ResponderInv, NoWatch
  <1>5. WatchInv
    BY <1>2 DEF WatchInv
  <1>6. BufferInv
    <2>1. ASSUME NEW s \in Streams, NEW t \in Types PROVE BufferedOn(Channel(s, t), t) = {}
      BY <1>2, ChannelTyped DEF BufferedOn
    <2> QED
      BY <2>1 DEF BufferInv
  <1> QED
    BY <1>1, <1>4, <1>5, <1>6 DEF ServerInv, Init

----------------------------------------------------------------------------
(* Theorems                                                                *)

\* Every variable of server, clients and cache keeps its type.
THEOREM ServerTypeCorrect == Spec => []TypeOK
  <1>1. ServerInv => TypeOK
    BY DEF ServerInv
  <1> QED
    BY <1>1, InitServer, ServerStep, PTL DEF Spec

\* Whatever requests, acknowledgements, rejections, reconnections, heartbeats and
\* snapshots interleave, process and processADS use the cache as its contract
\* asks: a watch is created on a new channel, or on the shared one once nothing of
\* its type is awaited or buffered there (CreateWatch, processAllExcept).
THEOREM StreamsKeepContract == Spec => KeepsContract
  BY InitServer, ServerStep, PTL DEF Spec, KeepsContract

\* So what is proved of the cache on its own holds for it under the server: the
\* lock's discipline, that no update is missed, and that a channel with room for
\* one response per type never blocks the holder of cache.mu.
THEOREM ServedCacheIsSound ==
    Spec => [](LockDiscipline /\ NoMissedUpdate /\ AnsweredOnce)
  BY StreamsKeepContract, ContractSuffices, PTL

\* No watch outlives its stream, and the stream holds the cancel function of each
\* of its watches (watches.close, shutdown).
THEOREM NoWatchIsLeaked == Spec => []NoLeakedWatch
  <1>1. ServerInv => NoLeakedWatch
    <2> SUFFICES ASSUME ServerInv, NEW w \in watches
                 PROVE  /\ pc[w.chan[1]] \notin {"idle", "closed"}
                        /\ w.id = responders[w.chan[1]][w.request.type].cancel
      BY DEF NoLeakedWatch
    <2>1. PICK s \in Streams : Owned(w, s)
      BY DEF ServerInv, WatchInv
    <2>2. w.request.type \in Types
      BY DEF ServerInv, TypeOK, CacheTypeOK, Watches, Requests
    <2>3. w.chan[1] = s
      BY <2>1 DEF Owned, Channel
    <2> QED
      BY <2>1, <2>2, <2>3 DEF ServerInv, ResponderInv, Owned
  <1> QED
    BY <1>1, InitServer, ServerStep, PTL DEF Spec

\* What the loop finds in a channel answers the request it accepted last for the
\* type, never a superseded one (process, processAllExcept).
THEOREM AnswersAreFresh == Spec => []FreshAnswers
  <1>1. ServerInv => FreshAnswers
    <2>1. Loop \notin {"closing", "closed"}
      BY DEF Loop
    <2> QED
      BY <2>1 DEF ServerInv, BufferInv, FreshAnswers
  <1> QED
    BY <1>1, InitServer, ServerStep, PTL DEF Spec

----------------------------------------------------------------------------
(* No stream is left in silence                                            *)

\* The stream owes an answer to the last request accepted for the type, and is
\* not busy replacing it.
Awaiting(s, t) ==
    /\ pc[s] \notin {"closing", "closed"}
    /\ Handling(s) => t # current[s].type
    /\ responders[s][t].active
    /\ responders[s][t].nonce = 0

SilentInv ==
    \A s \in Streams, t \in Types : Awaiting(s, t) => Pending(s, t) \/ MayBeHeld(s, t)

\* A step that keeps the watch of the type open and its response in the channel.
LEMMA PendingKept ==
    ASSUME NEW s \in Streams, NEW t \in Types, Pending(s, t),
           responders'[s][t].cancel = responders[s][t].cancel,
           \A w \in OpenOn(Channel(s, t), t) : w.id = responders[s][t].cancel => w \in watches',
           BufferedOn(Channel(s, t), t) # {} => BufferedOn(Channel(s, t), t)' # {}
    PROVE  Pending(s, t)'
  <1>1. Channel(s, t)' = Channel(s, t)
    BY DEF Channel
  <1>2. ASSUME NEW w \in OpenOn(Channel(s, t), t), w \in watches' PROVE w \in OpenOn(Channel(s, t), t)'
    BY <1>2, <1>1 DEF OpenOn
  <1> QED
    BY <1>1, <1>2 DEF Pending

\* A step that changes neither watches nor channels nor responders.
LEMMA StillSilent ==
    ASSUME SilentInv, Keeps, UNCHANGED <<watches, responses, responders>>
    PROVE  SilentInv'
  <1> SUFFICES ASSUME NEW s \in Streams, NEW t \in Types, Awaiting(s, t)'
               PROVE  Pending(s, t)' \/ MayBeHeld(s, t)'
    BY DEF SilentInv
  <1>1. Awaiting(s, t)
    BY DEF Awaiting, Keeps, Handling
  <1>2. MayBeHeld(s, t)' = MayBeHeld(s, t)
    BY DEF MayBeHeld
  <1>3. /\ \A w \in OpenOn(Channel(s, t), t) : w \in watches'
        /\ BufferedOn(Channel(s, t), t)' = BufferedOn(Channel(s, t), t)
    BY DEF OpenOn, BufferedOn, Channel
  <1> QED
    BY <1>1, <1>2, <1>3, PendingKept DEF SilentInv

\* A watch is answered and discarded: the answer is in the channel, or the request
\* is one that ADS mode may hold.
LEMMA AnsweredSilent ==
    ASSUME ServerInv, SilentInv, Keeps, NEW w \in todo, NEW resources, NEW isHeartbeat, NEW pushed,
           watches' = watches \ {w}, UNCHANGED responders,
           responses' = [responses EXCEPT ![w.chan] =
                Answered(@, w.request, resources, isHeartbeat, pushed)]
    PROVE  SilentInv'
  <1> SUFFICES ASSUME NEW s \in Streams, NEW t \in Types, Awaiting(s, t)'
               PROVE  Pending(s, t)' \/ MayBeHeld(s, t)'
    BY DEF SilentInv
  <1> DEFINE c == Channel(s, t)
             b == Answered(responses[w.chan], w.request, resources, isHeartbeat, pushed)
  <1>1. Awaiting(s, t)
    BY DEF Awaiting, Keeps, Handling
  <1>2. MayBeHeld(s, t)' = MayBeHeld(s, t)
    BY DEF MayBeHeld
  <1>3. /\ w \in watches /\ w.chan \in Channels /\ c \in Channels
        /\ responses \in [Channels -> Seq(Responses)] /\ responses[w.chan] \in Seq(Responses)
    BY ChannelTyped DEF ServerInv, TypeOK, CacheTypeOK, Watches
  <1>4. Extends(b, responses[w.chan], w.request)
    BY <1>3, AnsweredAdds
  <1>5. responses'[w.chan] = b /\ (c # w.chan => responses'[c] = responses[c])
    BY <1>3
  <1>6. Held(w.request, resources) \/ Len(responses[w.chan]) + 1 \in DOMAIN b
    BY <1>3 DEF Answered
  <1> HIDE DEF b
  <1>7. BufferedOn(c, t) # {} => BufferedOn(c, t)' # {}
    <2>1. ASSUME NEW i \in BufferedOn(c, t) PROVE i \in BufferedOn(c, t)'
      BY <1>4, <1>5 DEF BufferedOn, Extends, Channel
    <2> QED
      BY <2>1
  <1>8. CASE w \in OpenOn(c, t)
    <2>1. PICK s2 \in Streams : Owned(w, s2)
      BY <1>3 DEF ServerInv, WatchInv
    <2>2. w.chan = c /\ w.request.type = t /\ s2 = s
      BY <1>8, <2>1, ChannelOfStream DEF OpenOn, Owned
    <2>3. CASE Held(w.request, resources)
      BY <1>2, <2>1, <2>2, <2>3 DEF Held, Owned, MayBeHeld
    <2>4. CASE ~Held(w.request, resources)
      <3>1. Len(responses[c]) + 1 \in DOMAIN responses'[c]
        BY <1>5, <1>6, <2>2, <2>4
      <3>2. responses'[c][Len(responses[c]) + 1].request = w.request
        <4>1. b[Len(responses[c]) + 1].request = w.request
          <5>1. Len(responses[c]) + 1 \notin DOMAIN responses[c]
            BY <1>3
          <5> QED
            BY <1>4, <1>5, <2>2, <3>1, <5>1 DEF Extends
        <4> QED
          BY <1>5, <2>2, <4>1
      <3>3. BufferedOn(c, t)' # {}
        BY <2>2, <3>1, <3>2 DEF BufferedOn, Channel
      <3> QED
        BY <3>3 DEF Pending, Channel
    <2> QED
      BY <2>3, <2>4
  <1>9. CASE w \notin OpenOn(c, t)
    <2>1. \A x \in OpenOn(c, t) : x \in watches'
      BY <1>9 DEF OpenOn
    <2> QED
      BY <1>1, <1>2, <1>7, <2>1, PendingKept DEF SilentInv
  <1> QED
    BY <1>8, <1>9

\* A step of the cache, whose heartbeat routine keeps running.
LEMMA CacheSilent ==
    ASSUME ServerInv, SilentInv, CacheActs, heartbeat # "cancelled", ~Clearing
    PROVE  SilentInv'
  <1>1. Keeps /\ UNCHANGED responders
    BY CacheActsKeeps DEF CacheActs, serverVars, watcherVars
  <1>2. ASSUME NEW w \in todo, RespondWatch(w) \/ SendHeartbeat(w) PROVE SilentInv'
    BY <1>1, <1>2, AnsweredSilent DEF RespondWatch, SendHeartbeat
  <1>3. ASSUME UNCHANGED <<watches, responses>> PROVE SilentInv'
    BY <1>1, <1>3, StillSilent
  <1>4. ASSUME NEW n \in Nodes, AbortSetSnapshot(n) \/ \E sn \in Snapshots : SetSnapshot(n, sn)
        PROVE  UNCHANGED <<watches, responses>>
    BY <1>4 DEF AbortSetSnapshot, SetSnapshot, watchVars
  <1>5. ASSUME HeartbeatTick \/ CancelHeartbeats \/ StopHeartbeats
               \/ \E w \in deltaTodo : RespondDeltaWatch(w)
        PROVE  UNCHANGED <<watches, responses>>
    BY <1>5 DEF HeartbeatTick, CancelHeartbeats, StopHeartbeats, RespondDeltaWatch, watchVars
  <1>6. /\ \A w \in todo : ~LoseHeartbeat(w)
        /\ \A n \in Nodes : ~ClearSnapshot(n)
    BY DEF LoseHeartbeat, ClearSnapshot
  <1> QED
    BY <1>2, <1>3, <1>4, <1>5, <1>6 DEF CacheActs, CacheStep

\* A response leaves its channel: it is sent, which ends the wait for its type, or
\* it answers the request that is being replaced.
LEMMA SendSilent ==
    ASSUME ServerInv, SilentInv, NEW s \in Streams, SendResponse(s) \/ Drain(s)
    PROVE  SilentInv'
  <1>0. /\ Keeps /\ TypeInv /\ UNCHANGED watches
        /\ responses \in [Channels -> Seq(Responses)] /\ nonce[s] \in Nat
        /\ responders \in [Streams -> [Types -> Responders]]
    <2>1. Keeps
      BY SendKeeps
    <2> QED
      BY <2>1 DEF ServerInv, TypeInv, TypeOK, CacheTypeOK, Responders, SendResponse, Drain
  <1>1. ASSUME NEW c \in Channels, responses[c] # <<>>,
               responses' = [responses EXCEPT ![c] = Tail(@)],
               \A s2 \in Streams, t2 \in Types : Awaiting(s2, t2)' =>
                   /\ Awaiting(s2, t2)
                   /\ Channel(s2, t2) = c => t2 # Head(responses[c]).request.type
        PROVE  SilentInv'
    <2> SUFFICES ASSUME NEW s2 \in Streams, NEW t2 \in Types, Awaiting(s2, t2)'
                 PROVE  Pending(s2, t2)' \/ MayBeHeld(s2, t2)'
      BY DEF SilentInv
    <2> DEFINE d == Channel(s2, t2)
    <2>1. d \in Channels
      BY ChannelTyped
    <2>2. MayBeHeld(s2, t2)' = MayBeHeld(s2, t2)
      BY <1>0 DEF MayBeHeld, Keeps
    <2>3. \A w \in OpenOn(d, t2) : w \in watches'
      BY <1>0 DEF OpenOn
    <2>4. BufferedOn(d, t2) # {} => BufferedOn(d, t2)' # {}
      <3>1. CASE d # c
        <4>1. responses'[d] = responses[d]
          BY <1>0, <1>1, <2>1, <3>1
        <4> QED
          BY <4>1 DEF BufferedOn, Channel
      <3>2. CASE d = c
        <4>1. responses'[d] = Tail(responses[d]) /\ responses[d] \in Seq(Responses) /\ responses[d] # <<>>
          BY <1>0, <1>1, <2>1, <3>2
        <4>2. ASSUME NEW i \in BufferedOn(d, t2) PROVE i - 1 \in BufferedOn(d, t2)'
          <5>1. i \in DOMAIN responses[d] /\ responses[d][i].request.type = t2
            BY <4>2 DEF BufferedOn
          <5>2. i # 1
            BY <1>1, <3>2, <4>1, <5>1
          <5>3. i - 1 \in DOMAIN Tail(responses[d]) /\ Tail(responses[d])[i - 1] = responses[d][i]
            BY <4>1, <5>1, <5>2
          <5> QED
            BY <4>1, <5>1, <5>3 DEF BufferedOn, Channel
        <4> QED
          BY <4>2
      <3> QED
        BY <3>1, <3>2
    <2>5. responders'[s2][t2].cancel = responders[s2][t2].cancel
      BY <1>0 DEF Keeps
    <2> HIDE DEF d
    <2> QED
      BY <1>1, <2>2, <2>3, <2>4, <2>5, PendingKept DEF SilentInv, d
  <1>2. ASSUME NEW s2 \in Streams, NEW t2 \in Types, Awaiting(s2, t2)',
               responders[s2][t2].nonce = 0
        PROVE  Awaiting(s2, t2)
    BY <1>0, <1>2 DEF Awaiting, Keeps, Handling
  <1>3. ASSUME NEW c \in Channels, responses[c] # <<>>, Send(s, c),
               \A s2 \in Streams, t2 \in Types : Channel(s2, t2) = c => s2 = s
        PROVE  SilentInv'
    <2> DEFINE t == Head(responses[c]).request.type
    <2>1. t \in Types
      BY <1>0, <1>3, HeadTyped
    <2>2. /\ responses' = [responses EXCEPT ![c] = Tail(@)]
          /\ responders' = [responders EXCEPT ![s][t].nonce = nonce[s] + 1]
      BY <1>3 DEF Send
    <2> HIDE DEF t
    <2>3. /\ responders'[s][t].nonce # 0
          /\ \A s2 \in Streams, t2 \in Types :
               s2 # s \/ t2 # t => responders'[s2][t2] = responders[s2][t2]
      BY <1>0, <2>1, <2>2 DEF Responders
    <2>4. ASSUME NEW s2 \in Streams, NEW t2 \in Types, Awaiting(s2, t2)'
          PROVE  Awaiting(s2, t2) /\ (s2 # s \/ t2 # t)
      <3>1. responders'[s2][t2].nonce = 0
        BY <2>4 DEF Awaiting
      <3>2. s2 # s \/ t2 # t
        BY <2>3, <3>1
      <3> QED
        BY <1>2, <2>3, <2>4, <3>1, <3>2
    <2> QED
      BY <1>1, <1>3, <2>2, <2>4 DEF t
  <1>4. CASE SendResponse(s)
    <2>1. PICK t \in Types : responses[Channel(s, t)] # <<>> /\ Send(s, Channel(s, t))
      BY <1>4 DEF SendResponse
    <2>2. \A s2 \in Streams, t2 \in Types : Channel(s2, t2) = Channel(s, t) => s2 = s
      BY DEF Channel
    <2> QED
      BY <1>3, <2>1, <2>2, ChannelTyped
  <1>5. CASE Drain(s)
    <2> DEFINE c == Channel(s, AnyType)
    <2>1. c \in Channels /\ \A s2 \in Streams, t2 \in Types : Channel(s2, t2) = c => s2 = s
      BY ChannelAssumption DEF Channel
    <2>2. CASE UNCHANGED <<responses, responders>>
      BY <1>0, <2>2, StillSilent
    <2>3. CASE responses[c] # <<>> /\ Send(s, c)
      BY <1>3, <2>1, <2>3
    <2>4. CASE /\ responses[c] # <<>> /\ Head(responses[c]).request.type = current[s].type
               /\ responses' = [responses EXCEPT ![c] = Tail(@)]
               /\ UNCHANGED <<pc, responders>>
      <3>1. pc'[s] = "drain" /\ current'[s] = current[s]
        BY <1>5, <2>4 DEF Drain
      <3>2. ASSUME NEW s2 \in Streams, NEW t2 \in Types, Awaiting(s2, t2)'
            PROVE  Awaiting(s2, t2) /\ (s2 = s => t2 # current[s].type)
        <4>1. responders[s2][t2].nonce = 0
          BY <2>4, <3>2 DEF Awaiting
        <4> QED
          BY <1>2, <3>1, <3>2, <4>1 DEF Awaiting, Handling
      <3> QED
        BY <1>1, <2>1, <2>4, <3>2
    <2> QED
      BY <1>5, <2>2, <2>3, <2>4 DEF Drain
  <1> QED
    BY <1>4, <1>5

\* A watch is opened, or answered at once: what waits elsewhere is not touched.
LEMMA OpenSilent ==
    ASSUME ServerInv, SilentInv, NEW s \in Streams, NEW r \in DiscoveryRequests, MayOpen(s, r),
           OpenWatch(s, r), pc' = [pc EXCEPT ![s] = Loop],
           \A s2 \in Streams : s2 # s => current'[s2] = current[s2]
    PROVE  SilentInv'
  <1> DEFINE t == r.type
             c == Channel(s, t)
             buffer == IF Ordered THEN responses[c] ELSE <<>>
             new == [id |-> watchCount + 1, request |-> CacheRequest(s, r), chan |-> c]
             responder == [active |-> TRUE, cancel |-> OpenedWatch, nonce |-> 0, names |-> r.names]
             resources == SnapshotResources(StreamNode[s], t)
  <1>1. /\ t \in Types /\ c \in Channels
        /\ <<>> \in Seq(Responses) /\ responses[c] \in Seq(Responses)
    BY CacheRequestTyped, ChannelTyped DEF ServerInv, TypeOK, CacheTypeOK
  <1>2. /\ responders'[s][t] = responder
        /\ \A s2 \in Streams, t2 \in Types :
              s2 # s \/ t2 # t => responders'[s2][t2] = responders[s2][t2]
        /\ \A d \in Channels : d # c => responses'[d] = responses[d]
        /\ Extends(responses'[c], buffer, CacheRequest(s, r))
        /\ \/ OpenedWatch = watchCount + 1 /\ watches' = watches \cup {new}
           \/ /\ OpenedWatch = 0 /\ watches' = watches
              /\ responses'[c] = Answered(buffer, CacheRequest(s, r), resources, FALSE, FALSE)
    BY OpenWatchEffect
  <1>3. CacheRequest(s, r).type = t /\ CacheRequest(s, r).names = r.names
    BY DEF CacheRequest
  <1>4. buffer \in Seq(Responses)
    BY <1>1
  <1>5. Pending(s, t)' \/ MayBeHeld(s, t)'
    <2>1. CASE OpenedWatch = watchCount + 1 /\ watches' = watches \cup {new}
      <3>1. new \in OpenOn(c, t)' /\ new.id = responders'[s][t].cancel
        BY <1>2, <1>3, <2>1 DEF OpenOn, Channel
      <3> QED
        BY <3>1 DEF Pending, Channel
    <2>2. CASE responses'[c] = Answered(buffer, CacheRequest(s, r), resources, FALSE, FALSE)
      <3>1. CASE Held(CacheRequest(s, r), resources)
        BY <1>2, <1>3, <3>1 DEF Held, MayBeHeld
      <3>2. CASE ~Held(CacheRequest(s, r), resources)
        <4> DEFINE a == createResponse(CacheRequest(s, r), resources, FALSE, FALSE)
        <4>1. responses'[c] = Append(buffer, a) /\ a.request = CacheRequest(s, r)
          BY <2>2, <3>2 DEF Answered, createResponse
        <4> HIDE DEF a, buffer
        <4>2. /\ Len(buffer) + 1 \in DOMAIN Append(buffer, a)
              /\ Append(buffer, a)[Len(buffer) + 1] = a
          BY <1>4
        <4>3. BufferedOn(c, t)' # {}
          BY <1>3, <4>1, <4>2 DEF BufferedOn, Channel
        <4> QED
          BY <4>3 DEF Pending, Channel
      <3> QED
        BY <3>1, <3>2
    <2> QED
      BY <1>2, <2>1, <2>2
  <1>6. ASSUME NEW s2 \in Streams, NEW t2 \in Types, s2 # s \/ t2 # t, Awaiting(s2, t2)'
        PROVE  Pending(s2, t2)' \/ MayBeHeld(s2, t2)'
    <2> DEFINE d == Channel(s2, t2)
    <2>1. responders'[s2][t2] = responders[s2][t2] /\ d \in Channels
      BY <1>2, <1>6, ChannelTyped
    <2>2. Awaiting(s2, t2)
      <3>1. CASE s2 = s
        BY <1>6, <2>1, <3>1 DEF Awaiting, MayOpen, Loop, Handling
      <3>2. CASE s2 # s
        <4>1. pc'[s2] = pc[s2] /\ current'[s2] = current[s2]
          BY <3>2 DEF ServerInv, TypeOK
        <4> QED
          BY <1>6, <2>1, <4>1 DEF Awaiting, Handling
      <3> QED
        BY <3>1, <3>2
    <2>3. \A w \in OpenOn(d, t2) : w \in watches'
      BY <1>2 DEF OpenOn
    <2>4. BufferedOn(d, t2) # {} => BufferedOn(d, t2)' # {}
      <3>1. CASE d # c
        <4>1. responses'[d] = responses[d]
          BY <1>2, <2>1, <3>1
        <4> QED
          BY <4>1 DEF BufferedOn, Channel
      <3>2. CASE d = c
        <4>1. s2 = s /\ (Ordered \/ t2 = t)
          BY <3>2, ChannelOfStream
        <4>2. Extends(responses'[d], responses[d], CacheRequest(s, r))
          BY <1>2, <1>6, <3>2, <4>1
        <4>3. ASSUME NEW i \in BufferedOn(d, t2) PROVE i \in BufferedOn(d, t2)'
          BY <4>2 DEF BufferedOn, Extends, Channel
        <4> QED
          BY <4>3
      <3> QED
        BY <3>1, <3>2
    <2>5. MayBeHeld(s2, t2)' = MayBeHeld(s2, t2)
      BY <2>1 DEF MayBeHeld
    <2> HIDE DEF d
    <2> QED
      BY <2>1, <2>2, <2>3, <2>4, <2>5, PendingKept DEF SilentInv, d
  <1> QED
    BY <1>5, <1>6 DEF SilentInv

\* A watch is cancelled: it is the watch of no other stream or type.
LEMMA CancelSilent ==
    ASSUME ServerInv, SilentInv, NEW s \in Streams, NEW t \in Types, CancelResponder(s, t),
           \A s2 \in Streams, t2 \in Types : Awaiting(s2, t2)' =>
               /\ s2 # s \/ t2 # t
               /\ Awaiting(s2, t2)
               /\ responders'[s2][t2] = responders[s2][t2]
    PROVE  SilentInv'
  <1> SUFFICES ASSUME NEW s2 \in Streams, NEW t2 \in Types, Awaiting(s2, t2)'
               PROVE  Pending(s2, t2)' \/ MayBeHeld(s2, t2)'
    BY DEF SilentInv
  <1>1. /\ s2 # s \/ t2 # t
        /\ Awaiting(s2, t2) /\ responders'[s2][t2] = responders[s2][t2]
    OBVIOUS
  <1> DEFINE id == responders[s][t].cancel
  <1>2. /\ responses' = responses
        /\ \A w \in watches : w \in watches' \/ (w.id = id /\ id # 0)
    BY DEF CancelResponder, CancelWatch, cacheVars, watchVars
  <1>3. \A w \in OpenOn(Channel(s2, t2), t2) : w.id = responders[s2][t2].cancel => w \in watches'
    BY <1>1, <1>2 DEF OpenOn, ServerInv, ResponderInv
  <1>4. BufferedOn(Channel(s2, t2), t2)' = BufferedOn(Channel(s2, t2), t2)
    BY <1>2 DEF BufferedOn, Channel
  <1>5. MayBeHeld(s2, t2)' = MayBeHeld(s2, t2)
    BY <1>1 DEF MayBeHeld
  <1> QED
    BY <1>1, <1>3, <1>4, <1>5, PendingKept DEF SilentInv

\* Every step, unless a watch is dropped by ClearSnapshot or by a heartbeat
\* routine whose context is done.
LEMMA SilentStep ==
    ASSUME ~BeatsMayStop \/ heartbeat = "off", ~Clearing, ServerInv, SilentInv, heartbeat # "cancelled",
           [Next]_vars
    PROVE  SilentInv' /\ heartbeat' # "cancelled"
  <1>0. /\ pc \in [Streams -> {"idle", "process", "ads", "drain", "create", "closing", "closed"}]
        /\ current \in [Streams -> DiscoveryRequests \cup {NoRequest}]
        /\ responders \in [Streams -> [Types -> Responders]]
    BY DEF ServerInv, TypeOK, Responders
  <1>1. CASE CacheActs
    <2>1. heartbeat' # "cancelled"
      BY <1>1 DEF CacheActs, CacheStep, SetSnapshot, RespondWatch, RespondDeltaWatch,
                  AbortSetSnapshot, ClearSnapshot, HeartbeatTick, SendHeartbeat, LoseHeartbeat,
                  CancelHeartbeats, StopHeartbeats, beatVars
    <2> QED
      BY <1>1, <2>1, CacheSilent
  <1>2. ASSUME UNCHANGED <<cacheVars, responders>>, Keeps
        PROVE  SilentInv' /\ heartbeat' # "cancelled"
    BY <1>2, StillSilent DEF cacheVars, watchVars, beatVars
  <1>3. CASE \/ \E n \in Nodes : \/ \E t \in Types : Ask(n, t) \/ AskMore(n, t) \/ Follow(n, t)
                                 \/ Ack(n) \/ Nack(n)
             \/ \E s \in Streams : \/ EnterADS(s) \/ Exit(s) \/ CloseMux(s) \/ Closed(s)
                                   \/ CloseRequests(s) \/ Connect(s) \/ Disconnect(s)
                                   \/ RefuseRequest(s)
             \/ UNCHANGED vars
    <2>1. Keeps
      BY <1>3, OtherStepKeeps
    <2>2. ASSUME NEW n, NEW t, Ask(n, t) \/ AskMore(n, t) \/ Follow(n, t) \/ Ack(n) \/ Nack(n)
          PROVE  UNCHANGED <<cacheVars, responders>>
      BY <2>2 DEF Ask, AskMore, Follow, Ack, Nack, watcherVars
    <2>3. ASSUME NEW s, \/ EnterADS(s) \/ Exit(s) \/ CloseMux(s) \/ Closed(s)
                        \/ CloseRequests(s) \/ Connect(s) \/ Disconnect(s) \/ RefuseRequest(s)
          PROVE  UNCHANGED <<cacheVars, responders>>
      BY <2>3 DEF EnterADS, Exit, CloseMux, Closed, CloseRequests, Connect, Disconnect,
                  RefuseRequest, watcherVars
    <2>4. UNCHANGED <<cacheVars, responders>>
      BY <1>3, <2>2, <2>3 DEF vars, watcherVars
    <2> QED
      BY <1>2, <2>1, <2>4
  <1>4. ASSUME NEW s \in Streams, SendResponse(s) \/ Drain(s)
        PROVE  SilentInv' /\ heartbeat' # "cancelled"
    <2>1. UNCHANGED heartbeat
      BY <1>4 DEF SendResponse, Drain, beatVars
    <2> QED
      BY <1>4, <2>1, SendSilent
  <1>5. ASSUME NEW s \in Streams, SupersedeWatch(s)
        PROVE  SilentInv' /\ heartbeat' # "cancelled"
    <2>1. current[s] \in DiscoveryRequests
      BY <1>5 DEF ServerInv, CurrentInv, Handling, SupersedeWatch
    <2>2. /\ MayOpen(s, current[s]) /\ OpenWatch(s, current[s]) /\ pc' = [pc EXCEPT ![s] = Loop]
          /\ \A s2 \in Streams : s2 # s => current'[s2] = current[s2]
      BY <1>0, <1>5 DEF SupersedeWatch, MayOpen
    <2>3. UNCHANGED heartbeat
      BY <2>2 DEF OpenWatch, CreateWatch, beatVars
    <2> QED
      BY <2>1, <2>2, <2>3, OpenSilent
  <1>6. ASSUME NEW s \in Streams, RecvRequest(s)
        PROVE  SilentInv' /\ heartbeat' # "cancelled"
    <2>1. PICK r \in Incoming(s) : Take(s, r) /\ Handle(s, r)
      BY <1>6 DEF RecvRequest
    <2>2. r \in DiscoveryRequests /\ r.type \in Types /\ pc[s] = Loop
      BY <1>6, <2>1, IncomingTyped, CacheRequestTyped DEF RecvRequest, ServerInv
    <2>3. CASE pc' = pc /\ UNCHANGED <<cacheVars, current, responders>>
      <3>1. Keeps
        BY <2>3, StillKeeps
      <3> QED
        BY <1>2, <2>3, <3>1
    <2>4. CASE ~responders[s][r.type].active /\ OpenWatch(s, r) /\ pc' = pc /\ UNCHANGED current
      <3>1. pc' = [pc EXCEPT ![s] = Loop] /\ MayOpen(s, r)
        BY <1>0, <2>2, <2>4 DEF MayOpen
      <3>2. UNCHANGED heartbeat
        BY <2>4 DEF OpenWatch, CreateWatch, beatVars
      <3> QED
        BY <2>2, <2>4, <3>1, <3>2, OpenSilent
    <2>5. CASE /\ CancelResponder(s, r.type)
               /\ pc' = [pc EXCEPT ![s] = IF Ordered THEN "drain" ELSE "create"]
               /\ current' = [current EXCEPT ![s] = r]
               /\ UNCHANGED responders
      <3>1. /\ pc'[s] \in {"drain", "create"} /\ current'[s] = r
            /\ pc[s] \notin {"closing", "closed", "drain", "create"}
            /\ \A s2 \in Streams : s2 # s => pc'[s2] = pc[s2] /\ current'[s2] = current[s2]
        BY <1>0, <2>2, <2>5 DEF Loop
      <3>2. ASSUME NEW s2 \in Streams, NEW t2 \in Types, Awaiting(s2, t2)'
            PROVE  (s2 # s \/ t2 # r.type) /\ Awaiting(s2, t2)
        BY <2>5, <3>1, <3>2 DEF Awaiting, Handling
      <3>3. UNCHANGED heartbeat
        BY <2>5 DEF CancelResponder, CancelWatch, cacheVars, beatVars
      <3> QED
        BY <2>2, <2>5, <3>2, <3>3, CancelSilent
    <2> QED
      BY <2>1, <2>3, <2>4, <2>5 DEF Handle
  <1>7. ASSUME NEW s \in Streams, NEW t \in Types, CloseWatch(s, t)
        PROVE  SilentInv' /\ heartbeat' # "cancelled"
    <2>1. /\ pc[s] = "closing" /\ UNCHANGED <<pc, current>>
          /\ CancelResponder(s, t) /\ responders' = [responders EXCEPT ![s][t] = NoWatch]
      BY <1>7 DEF CloseWatch, loopVars
    <2>2. \A s2 \in Streams, t2 \in Types : s2 # s => responders'[s2][t2] = responders[s2][t2]
      BY <1>0, <2>1
    <2>3. ASSUME NEW s2 \in Streams, NEW t2 \in Types, Awaiting(s2, t2)'
          PROVE  s2 # s /\ Awaiting(s2, t2)
      BY <2>1, <2>2, <2>3 DEF Awaiting, Handling
    <2>4. UNCHANGED heartbeat
      BY <2>1 DEF CancelResponder, CancelWatch, cacheVars, beatVars
    <2> QED
      BY <2>1, <2>2, <2>3, <2>4, CancelSilent
  <1> QED
    BY <1>1, <1>3, <1>4, <1>5, <1>6, <1>7 DEF Next, ServerActs

\* A stream is never left in silence: as long as nothing was sent in answer to the
\* last request accepted for a type, its watch is open, its answer is in the
\* channel, or ADS mode holds it back.  ClearSnapshot drops the watches of its
\* node, and a heartbeat routine whose context is done drops those it could not
\* answer, so the theorem is about a server that does neither (CreateWatch,
\* respond, sendHeartbeats, process, processADS).
THEOREM NoStreamIsSilent ==
    ASSUME ~BeatsMayStop, ~Clearing
    PROVE  Spec => []NeverSilent
  <1> DEFINE Inv == ServerInv /\ SilentInv /\ heartbeat # "cancelled"
  <1>1. Init => Inv
    <2> SUFFICES ASSUME Init PROVE Inv
      OBVIOUS
    <2>1. ServerInv
      BY InitServer
    <2>2. SilentInv
      BY DEF Init, SilentInv, Awaiting, NoWatch
    <2>3. heartbeat # "cancelled"
      BY DEF Init, CacheInit
    <2> QED
      BY <2>1, <2>2, <2>3
  <1>2. Inv /\ [Next]_vars => Inv'
    BY ServerStep, SilentStep
  <1>3. Inv => NeverSilent
    <2>1. Loop \notin {"closing", "closed", "drain", "create"}
      BY DEF Loop
    <2> QED
      BY <2>1 DEF SilentInv, Awaiting, Handling, NeverSilent
  <1> HIDE DEF Inv
  <1> QED
    BY <1>1, <1>2, <1>3, PTL DEF Spec

----------------------------------------------------------------------------
(* The order of responses in ordered ADS mode                              *)

\* Of the responses that SetSnapshot made, those on the wire and behind them those
\* in the shared channel are in the order of their types as far as they are of the
\* same SetSnapshot, and none of the one under way comes after a type that it has
\* yet to answer.
WireOrder(s) ==
    LET b == responses[Channel(s, AnyType)]
        o == toClient[s]
    IN  /\ \A i \in DOMAIN b : b[i].pushed => b[i].at <= sets
        /\ \A i \in DOMAIN o : o[i].pushed => o[i].at <= sets
        /\ \A i, j \in DOMAIN b : i < j /\ b[i].pushed /\ b[j].pushed /\ b[i].at = b[j].at
              => GetResponseType(b[i].request.type) <= GetResponseType(b[j].request.type)
        /\ \A i \in DOMAIN o, j \in DOMAIN b : o[i].pushed /\ b[j].pushed /\ o[i].at = b[j].at
              => GetResponseType(o[i].type) <= GetResponseType(b[j].request.type)
        /\ \A i, j \in DOMAIN o : i < j /\ o[i].pushed /\ o[j].pushed /\ o[i].at = o[j].at
              => GetResponseType(o[i].type) <= GetResponseType(o[j].type)
        /\ \A w \in todo : holder = "set" /\ w.chan = Channel(s, AnyType) =>
              /\ \A i \in DOMAIN b : b[i].pushed /\ b[i].at = sets
                    => GetResponseType(b[i].request.type) <= GetResponseType(w.request.type)
              /\ \A i \in DOMAIN o : o[i].pushed /\ o[i].at = sets
                    => GetResponseType(o[i].type) <= GetResponseType(w.request.type)

OrderInv == \A s \in Streams : WireOrder(s)

\* The responses of y that SetSnapshot made are responses of x, in the same order.
Among(y, x) ==
    \E k \in Nat : \A i \in DOMAIN y :
        y[i].pushed => i \in Nat /\ i + k \in DOMAIN x /\ y[i] = x[i + k]

\* A queue, the rest of it, nothing of it, and the queue with a response at its
\* end that SetSnapshot did not make.
LEMMA AmongQueue ==
    ASSUME NEW S, NEW x \in Seq(S)
    PROVE  /\ Among(x, x)
           /\ x # <<>> => Among(Tail(x), x)
           /\ Among(<<>>, x)
           /\ \A r : ~r.pushed => Among(Append(x, r), x)
  <1>1. Among(x, x)
    <2>1. \A i \in DOMAIN x : i \in Nat /\ i + 0 \in DOMAIN x /\ x[i] = x[i + 0]
      OBVIOUS
    <2> QED
      BY <2>1 DEF Among
  <1>2. ASSUME x # <<>> PROVE Among(Tail(x), x)
    <2>1. \A i \in DOMAIN Tail(x) : i \in Nat /\ i + 1 \in DOMAIN x /\ Tail(x)[i] = x[i + 1]
      BY <1>2
    <2>2. 1 \in Nat
      OBVIOUS
    <2> QED
      BY <2>1, <2>2 DEF Among
  <1>3. Among(<<>>, x)
    <2>1. 0 \in Nat /\ DOMAIN <<>> = {}
      OBVIOUS
    <2> QED
      BY <2>1 DEF Among
  <1>4. ASSUME NEW r, ~r.pushed PROVE Among(Append(x, r), x)
    <2>1. \A i \in DOMAIN Append(x, r) :
             \/ i = Len(x) + 1 /\ Append(x, r)[i] = r
             \/ i \in Nat /\ i + 0 \in DOMAIN x /\ Append(x, r)[i] = x[i + 0]
      OBVIOUS
    <2>2. 0 \in Nat
      OBVIOUS
    <2> QED
      BY <1>4, <2>1, <2>2 DEF Among
  <1> QED
    BY <1>1, <1>2, <1>3, <1>4

\* A step that adds no response of SetSnapshot to a queue, and leaves the one under
\* way at most what it had to answer.
LEMMA FewerOrder ==
    ASSUME ServerInv, OrderInv,
           \A s \in Streams : /\ Among(responses'[Channel(s, AnyType)], responses[Channel(s, AnyType)])
                              /\ Among(toClient'[s], toClient[s]),
           \/ sets' = sets /\ (holder' = "set" => holder = "set" /\ todo' \subseteq todo)
           \/ sets' = sets + 1
    PROVE  OrderInv'
  <1> SUFFICES ASSUME NEW s \in Streams PROVE WireOrder(s)'
    BY DEF OrderInv
  <1> DEFINE c == Channel(s, AnyType)
             b == responses[c]
             o == toClient[s]
             b2 == responses'[c]
             o2 == toClient'[s]
  <1>0. Channel(s, AnyType)' = c /\ c \in Channels
    BY ChannelAssumption DEF Channel
  <1>1. PICK k \in Nat : \A i \in DOMAIN b2 :
            b2[i].pushed => i \in Nat /\ i + k \in DOMAIN b /\ b2[i] = b[i + k]
    BY DEF Among
  <1>2. PICK m \in Nat : \A i \in DOMAIN o2 :
            o2[i].pushed => i \in Nat /\ i + m \in DOMAIN o /\ o2[i] = o[i + m]
    BY DEF Among
  <1>3. /\ sets \in Nat
        /\ \A i \in DOMAIN b : b[i].at \in Nat
        /\ \A i \in DOMAIN o : o[i].at \in Nat
    <2>1. b \in Seq(Responses) /\ o \in Seq(DiscoveryResponses) /\ sets \in Nat
      BY <1>0 DEF ServerInv, TypeOK, CacheTypeOK
    <2>2. \A i \in DOMAIN b : b[i] \in Responses
      BY <2>1
    <2>3. \A i \in DOMAIN o : o[i] \in DiscoveryResponses
      BY <2>1
    <2> QED
      BY <2>1, <2>2, <2>3 DEF Responses, DiscoveryResponses
  <1>4. WireOrder(s)
    BY DEF OrderInv
  <1> HIDE DEF c
  <1>5. /\ \A i \in DOMAIN b2 : b2[i].pushed => b2[i].at <= sets'
        /\ \A i \in DOMAIN o2 : o2[i].pushed => o2[i].at <= sets'
    BY <1>1, <1>2, <1>3, <1>4 DEF WireOrder, c
  <1>6. \A i, j \in DOMAIN b2 : i < j /\ b2[i].pushed /\ b2[j].pushed /\ b2[i].at = b2[j].at
           => GetResponseType(b2[i].request.type) <= GetResponseType(b2[j].request.type)
    <2> SUFFICES ASSUME NEW i \in DOMAIN b2, NEW j \in DOMAIN b2,
                        i < j, b2[i].pushed, b2[j].pushed, b2[i].at = b2[j].at
                 PROVE  GetResponseType(b2[i].request.type) <= GetResponseType(b2[j].request.type)
      OBVIOUS
    <2>1. /\ i + k \in DOMAIN b /\ j + k \in DOMAIN b /\ i + k < j + k
          /\ b2[i] = b[i + k] /\ b2[j] = b[j + k]
      BY <1>1
    <2> QED
      BY <1>4, <2>1 DEF WireOrder, c
  <1>7. \A i \in DOMAIN o2, j \in DOMAIN b2 : o2[i].pushed /\ b2[j].pushed /\ o2[i].at = b2[j].at
           => GetResponseType(o2[i].type) <= GetResponseType(b2[j].request.type)
    BY <1>1, <1>2, <1>4 DEF WireOrder, c
  <1>8. \A i, j \in DOMAIN o2 : i < j /\ o2[i].pushed /\ o2[j].pushed /\ o2[i].at = o2[j].at
           => GetResponseType(o2[i].type) <= GetResponseType(o2[j].type)
    <2> SUFFICES ASSUME NEW i \in DOMAIN o2, NEW j \in DOMAIN o2,
                        i < j, o2[i].pushed, o2[j].pushed, o2[i].at = o2[j].at
                 PROVE  GetResponseType(o2[i].type) <= GetResponseType(o2[j].type)
      OBVIOUS
    <2>1. /\ i + m \in DOMAIN o /\ j + m \in DOMAIN o /\ i + m < j + m
          /\ o2[i] = o[i + m] /\ o2[j] = o[j + m]
      BY <1>2
    <2> QED
      BY <1>4, <2>1 DEF WireOrder
  <1>9. ASSUME NEW w \in todo', holder' = "set", w.chan = c
        PROVE  /\ \A i \in DOMAIN b2 : b2[i].pushed /\ b2[i].at = sets'
                     => GetResponseType(b2[i].request.type) <= GetResponseType(w.request.type)
               /\ \A i \in DOMAIN o2 : o2[i].pushed /\ o2[i].at = sets'
                     => GetResponseType(o2[i].type) <= GetResponseType(w.request.type)
    <2>1. CASE sets' = sets
      <3>1. w \in todo /\ holder = "set"
        BY <1>3, <1>9, <2>1
      <3> QED
        BY <1>1, <1>2, <1>4, <1>9, <2>1, <3>1 DEF WireOrder, c
    <2>2. CASE sets' = sets + 1
      BY <1>1, <1>2, <1>3, <1>4, <2>2 DEF WireOrder, c
    <2> QED
      BY <2>1, <2>2
  <1> QED
    BY <1>0, <1>5, <1>6, <1>7, <1>8, <1>9 DEF WireOrder

\* SetSnapshot answers a watch of the lowest type that it has yet to answer.
LEMMA RespondOrder ==
    ASSUME Ads, Ordered, ServerInv, OrderInv, NEW w \in todo, RespondWatch(w), UNCHANGED toClient
    PROVE  OrderInv'
  <1> SUFFICES ASSUME NEW s \in Streams PROVE WireOrder(s)'
    BY DEF OrderInv
  <1> DEFINE c == Channel(s, AnyType)
             b == responses[c]
             o == toClient[s]
             b2 == responses'[c]
             r == createResponse(w.request, SnapshotResources(w.request.node, w.request.type),
                                 FALSE, TRUE)
  <1>1. /\ Channel(s, AnyType)' = c /\ c \in Channels /\ w.chan \in Channels
        /\ responses \in [Channels -> Seq(Responses)] /\ b \in Seq(Responses) /\ sets \in Nat
    BY ChannelAssumption DEF Channel, ServerInv, TypeOK, CacheTypeOK, Watches
  <1>2. /\ holder = "set" /\ sets' = sets /\ todo' = todo \ {w}
        /\ \A x \in todo : GetResponseType(w.request.type) <= GetResponseType(x.request.type)
        /\ responses' = [responses EXCEPT ![w.chan] =
              Answered(@, w.request, SnapshotResources(w.request.node, w.request.type), FALSE, TRUE)]
    BY DEF RespondWatch, NextWatches, Continue, setVars
  <1>3. b2 = b \/ (w.chan = c /\ b2 = Append(b, r))
    BY <1>1, <1>2 DEF Answered
  <1>4. r.request = w.request /\ r.at = sets /\ r.pushed
    BY DEF createResponse
  <1>5. WireOrder(s)
    BY DEF OrderInv
  <1> HIDE DEF c, r
  <1>6. CASE b2 = b
    <2>1. /\ todo' \subseteq todo /\ holder = "set" /\ sets' = sets
          /\ responses'[Channel(s, AnyType)'] = responses[Channel(s, AnyType)]
          /\ toClient'[s] = toClient[s] /\ Channel(s, AnyType)' = Channel(s, AnyType)
      BY <1>1, <1>2, <1>6 DEF c
    <2> QED
      BY <1>5, <2>1 DEF WireOrder
  <1>7. CASE w.chan = c /\ b2 = Append(b, r)
    <2>1. /\ \A i \in DOMAIN b2 : \/ i \in DOMAIN b /\ b2[i] = b[i]
                                  \/ i = Len(b) + 1 /\ b2[i] = r
          /\ \A i \in DOMAIN b : i < Len(b) + 1
          /\ \A i, j \in DOMAIN b2 : i < j => i \in DOMAIN b
      BY <1>1, <1>7
    <2>2. /\ \A i \in DOMAIN b : b[i].pushed /\ b[i].at = sets
                => GetResponseType(b[i].request.type) <= GetResponseType(w.request.type)
          /\ \A i \in DOMAIN o : o[i].pushed /\ o[i].at = sets
                => GetResponseType(o[i].type) <= GetResponseType(w.request.type)
      BY <1>2, <1>5, <1>7 DEF WireOrder, c
    <2>3. \A i \in DOMAIN b2 : b2[i].pushed => b2[i].at <= sets
      <3>1. \A i \in DOMAIN b : b[i].pushed => b[i].at <= sets
        BY <1>5 DEF WireOrder, c
      <3>2. r.at <= sets
        BY <1>1, <1>4
      <3> QED
        BY <2>1, <3>1, <3>2
    <2>4. \A i, j \in DOMAIN b2 : i < j /\ b2[i].pushed /\ b2[j].pushed /\ b2[i].at = b2[j].at
             => GetResponseType(b2[i].request.type) <= GetResponseType(b2[j].request.type)
      <3> SUFFICES ASSUME NEW i \in DOMAIN b2, NEW j \in DOMAIN b2,
                          i < j, b2[i].pushed, b2[j].pushed, b2[i].at = b2[j].at
                   PROVE  GetResponseType(b2[i].request.type) <= GetResponseType(b2[j].request.type)
        OBVIOUS
      <3>1. i \in DOMAIN b /\ b2[i] = b[i]
        BY <1>1, <1>7, <2>1
      <3>2. CASE j \in DOMAIN b /\ b2[j] = b[j]
        BY <1>5, <3>1, <3>2 DEF WireOrder, c
      <3>3. CASE b2[j] = r
        BY <1>4, <2>2, <3>1, <3>3
      <3> QED
        BY <2>1, <3>2, <3>3
    <2>5. \A i \in DOMAIN o, j \in DOMAIN b2 : o[i].pushed /\ b2[j].pushed /\ o[i].at = b2[j].at
             => GetResponseType(o[i].type) <= GetResponseType(b2[j].request.type)
      BY <1>4, <1>5, <2>1, <2>2 DEF WireOrder, c
    <2>6. ASSUME NEW x \in todo', x.chan = c
          PROVE  /\ \A i \in DOMAIN b2 : b2[i].pushed /\ b2[i].at = sets
                       => GetResponseType(b2[i].request.type) <= GetResponseType(x.request.type)
                 /\ \A i \in DOMAIN o : o[i].pushed /\ o[i].at = sets
                       => GetResponseType(o[i].type) <= GetResponseType(x.request.type)
      BY <1>2, <1>4, <1>5, <2>1, <2>6 DEF WireOrder, c
    <2>7. /\ \A i \in DOMAIN o : o[i].pushed => o[i].at <= sets
          /\ \A i, j \in DOMAIN o : i < j /\ o[i].pushed /\ o[j].pushed /\ o[i].at = o[j].at
                => GetResponseType(o[i].type) <= GetResponseType(o[j].type)
      BY <1>5 DEF WireOrder
    <2>8. /\ toClient'[s] = o /\ responses'[Channel(s, AnyType)'] = b2
          /\ Channel(s, AnyType)' = c /\ sets' = sets
      BY <1>1, <1>2
    <2> HIDE DEF b, o, b2
    <2> QED
      BY <2>3, <2>4, <2>5, <2>6, <2>7, <2>8 DEF WireOrder
  <1> QED
    BY <1>3, <1>6, <1>7

\* The first response of the shared channel goes on the wire.
LEMMA SendOrder ==
    ASSUME ServerInv, OrderInv, NEW s0 \in Streams, responses[Channel(s0, AnyType)] # <<>>,
           Send(s0, Channel(s0, AnyType)), UNCHANGED <<sets, holder, todo>>
    PROVE  OrderInv'
  <1> SUFFICES ASSUME NEW s \in Streams PROVE WireOrder(s)'
    BY DEF OrderInv
  <1> DEFINE c == Channel(s, AnyType)
             b == responses[c]
             o == toClient[s]
             b2 == responses'[c]
             o2 == toClient'[s]
             r == Head(responses[Channel(s0, AnyType)])
             d == [type |-> r.request.type, version |-> r.version, resources |-> r.resources,
                   heartbeat |-> r.heartbeat, nonce |-> nonce[s0] + 1, at |-> r.at,
                   pushed |-> r.pushed, names |-> r.request.names]
  <1>1. /\ Channel(s, AnyType)' = c /\ c \in Channels /\ Channel(s0, AnyType) \in Channels
        /\ responses \in [Channels -> Seq(Responses)]
        /\ toClient \in [Streams -> Seq(DiscoveryResponses)] /\ sets \in Nat
        /\ s # s0 => c # Channel(s0, AnyType)
    BY ChannelAssumption DEF Channel, ServerInv, TypeOK, CacheTypeOK
  <1>2. b \in Seq(Responses) /\ o \in Seq(DiscoveryResponses)
    BY <1>1
  <1>3. /\ responses' = [responses EXCEPT ![Channel(s0, AnyType)] = Tail(@)]
        /\ toClient' = [toClient EXCEPT ![s0] = IF ~live[s0] THEN @ ELSE Append(@, d)]
    BY DEF Send
  <1>4. d.type = r.request.type /\ d.at = r.at /\ d.pushed = r.pushed
    OBVIOUS
  <1>5. WireOrder(s)
    BY DEF OrderInv
  <1> HIDE DEF d
  <1>6. CASE s # s0
    <2>1. b2 = b /\ o2 = o
      BY <1>1, <1>3, <1>6
    <2> HIDE DEF c
    <2> QED
      BY <1>1, <1>5, <2>1 DEF WireOrder
  <1>7. CASE s = s0
    <2>1. b # <<>> /\ b2 = Tail(b) /\ (o2 = o \/ o2 = Append(o, d)) /\ r = b[1]
      BY <1>1, <1>2, <1>3, <1>7
    <2>2. /\ \A i \in DOMAIN b2 : i \in Nat /\ i + 1 \in DOMAIN b /\ b2[i] = b[i + 1] /\ 1 < i + 1
          /\ 1 \in DOMAIN b
      BY <1>2, <2>1
    <2>3. /\ \A i \in DOMAIN o2 : \/ i \in DOMAIN o /\ o2[i] = o[i]
                                  \/ i = Len(o) + 1 /\ o2[i] = d
          /\ \A i, j \in DOMAIN o2 : i < j => i \in DOMAIN o /\ o2[i] = o[i]
      <3>1. CASE o2 = o
        BY <3>1
      <3>2. CASE o2 = Append(o, d)
        <4>1. \A i \in DOMAIN o2 : \/ i \in DOMAIN o /\ o2[i] = o[i]
                                   \/ i = Len(o) + 1 /\ o2[i] = d
          BY <1>2, <3>2
        <4>2. \A i, j \in DOMAIN o2 : i < j => i \in DOMAIN o /\ o2[i] = o[i]
          BY <1>2, <3>2
        <4> QED
          BY <4>1, <4>2
      <3> QED
        BY <2>1, <3>1, <3>2
    <2> HIDE DEF c, r, o2
    <2>4. /\ \A i \in DOMAIN b2 : b2[i].pushed => b2[i].at <= sets
          /\ \A i \in DOMAIN o2 : o2[i].pushed => o2[i].at <= sets
      <3>1. /\ \A i \in DOMAIN b : b[i].pushed => b[i].at <= sets
            /\ \A i \in DOMAIN o : o[i].pushed => o[i].at <= sets
        BY <1>5 DEF WireOrder, c
      <3>2. d.pushed => d.at <= sets
        BY <1>4, <2>1, <2>2, <3>1
      <3> QED
        BY <2>2, <2>3, <3>1, <3>2
    <2>5. \A i, j \in DOMAIN b2 : i < j /\ b2[i].pushed /\ b2[j].pushed /\ b2[i].at = b2[j].at
             => GetResponseType(b2[i].request.type) <= GetResponseType(b2[j].request.type)
      <3> SUFFICES ASSUME NEW i \in DOMAIN b2, NEW j \in DOMAIN b2,
                          i < j, b2[i].pushed, b2[j].pushed, b2[i].at = b2[j].at
                   PROVE  GetResponseType(b2[i].request.type) <= GetResponseType(b2[j].request.type)
        OBVIOUS
      <3>1. /\ i + 1 \in DOMAIN b /\ j + 1 \in DOMAIN b /\ i + 1 < j + 1
            /\ b2[i] = b[i + 1] /\ b2[j] = b[j + 1]
        BY <2>2
      <3> QED
        BY <1>5, <3>1 DEF WireOrder, c
    <2>6. \A i \in DOMAIN o2, j \in DOMAIN b2 : o2[i].pushed /\ b2[j].pushed /\ o2[i].at = b2[j].at
             => GetResponseType(o2[i].type) <= GetResponseType(b2[j].request.type)
      <3> SUFFICES ASSUME NEW i \in DOMAIN o2, NEW j \in DOMAIN b2,
                          o2[i].pushed, b2[j].pushed, o2[i].at = b2[j].at
                   PROVE  GetResponseType(o2[i].type) <= GetResponseType(b2[j].request.type)
        OBVIOUS
      <3>1. j + 1 \in DOMAIN b /\ b2[j] = b[j + 1] /\ 1 < j + 1 /\ 1 \in DOMAIN b
        BY <2>2
      <3>2. CASE i \in DOMAIN o /\ o2[i] = o[i]
        BY <1>5, <3>1, <3>2 DEF WireOrder, c
      <3>3. CASE o2[i] = d
        BY <1>4, <1>5, <2>1, <3>1, <3>3 DEF WireOrder, c
      <3> QED
        BY <2>3, <3>2, <3>3
    <2>7. \A i, j \in DOMAIN o2 : i < j /\ o2[i].pushed /\ o2[j].pushed /\ o2[i].at = o2[j].at
             => GetResponseType(o2[i].type) <= GetResponseType(o2[j].type)
      <3> SUFFICES ASSUME NEW i \in DOMAIN o2, NEW j \in DOMAIN o2,
                          i < j, o2[i].pushed, o2[j].pushed, o2[i].at = o2[j].at
                   PROVE  GetResponseType(o2[i].type) <= GetResponseType(o2[j].type)
        OBVIOUS
      <3>1. i \in DOMAIN o /\ o2[i] = o[i]
        BY <2>3
      <3>2. CASE j \in DOMAIN o /\ o2[j] = o[j]
        BY <1>5, <3>1, <3>2 DEF WireOrder
      <3>3. CASE o2[j] = d
        BY <1>4, <1>5, <2>1, <2>2, <3>1, <3>3 DEF WireOrder, c
      <3> QED
        BY <2>3, <3>2, <3>3
    <2>8. ASSUME NEW w \in todo, holder = "set", w.chan = c
          PROVE  /\ \A i \in DOMAIN b2 : b2[i].pushed /\ b2[i].at = sets
                       => GetResponseType(b2[i].request.type) <= GetResponseType(w.request.type)
                 /\ \A i \in DOMAIN o2 : o2[i].pushed /\ o2[i].at = sets
                       => GetResponseType(o2[i].type) <= GetResponseType(w.request.type)
      <3>1. /\ \A i \in DOMAIN b : b[i].pushed /\ b[i].at = sets
                  => GetResponseType(b[i].request.type) <= GetResponseType(w.request.type)
            /\ \A i \in DOMAIN o : o[i].pushed /\ o[i].at = sets
                  => GetResponseType(o[i].type) <= GetResponseType(w.request.type)
        BY <1>5, <2>8 DEF WireOrder, c
      <3>2. d.pushed /\ d.at = sets => GetResponseType(d.type) <= GetResponseType(w.request.type)
        BY <1>4, <2>1, <2>2, <3>1
      <3> QED
        BY <2>2, <2>3, <3>1, <3>2
    <2> QED
      BY <1>1, <2>4, <2>5, <2>6, <2>7, <2>8 DEF WireOrder, o2
  <1> QED
    BY <1>6, <1>7

\* An answer that SetSnapshot does not make.
LEMMA AnsweredAmong ==
    ASSUME NEW buffer \in Seq(Responses), NEW request, NEW resources, NEW isHeartbeat
    PROVE  Among(Answered(buffer, request, resources, isHeartbeat, FALSE), buffer)
  <1> DEFINE r == createResponse(request, resources, isHeartbeat, FALSE)
  <1>1. ~r.pushed
    BY DEF createResponse
  <1> HIDE DEF r
  <1>2. Among(Append(buffer, r), buffer) /\ Among(buffer, buffer)
    BY <1>1, AmongQueue
  <1> QED
    BY <1>2 DEF Answered, r

\* What is in the channel and on the wire; a queue has its own elements.
LEMMA SameQueues ==
    ASSUME ServerInv, NEW s \in Streams
    PROVE  /\ responses[Channel(s, AnyType)] \in Seq(Responses)
           /\ toClient[s] \in Seq(DiscoveryResponses)
           /\ Among(responses[Channel(s, AnyType)], responses[Channel(s, AnyType)])
           /\ Among(toClient[s], toClient[s])
  <1>1. /\ responses[Channel(s, AnyType)] \in Seq(Responses)
        /\ toClient[s] \in Seq(DiscoveryResponses)
    BY ChannelAssumption DEF ServerInv, TypeOK, CacheTypeOK, Channel
  <1> QED
    BY <1>1, AmongQueue

\* A step of the cache.
LEMMA CacheOrder ==
    ASSUME Ads, Ordered, ServerInv, OrderInv, CacheActs
    PROVE  OrderInv'
  <1>0. UNCHANGED toClient /\ todo \subseteq watches
    BY DEF CacheActs, serverVars, linkVars, ServerInv, TypeOK, CacheTypeOK
  <1>1. ASSUME NEW w \in todo, RespondWatch(w) PROVE OrderInv'
    BY <1>0, <1>1, RespondOrder
  <1>2. ASSUME UNCHANGED responses,
               \/ sets' = sets /\ (holder' = "set" => holder = "set" /\ todo' \subseteq todo)
               \/ sets' = sets + 1
        PROVE  OrderInv'
    BY <1>0, <1>2, SameQueues, FewerOrder
  <1>3. ASSUME NEW w \in todo, SendHeartbeat(w) PROVE OrderInv'
    <2>1. /\ w.chan \in Channels /\ responses \in [Channels -> Seq(Responses)]
          /\ responses[w.chan] \in Seq(Responses)
      BY <1>0 DEF ServerInv, TypeOK, CacheTypeOK, Watches
    <2> DEFINE b == Answered(responses[w.chan], w.request,
                             ResourcesWithTTL(w.request.node, w.request.type), TRUE, FALSE)
    <2>2. responses' = [responses EXCEPT ![w.chan] = b]
      BY <1>3 DEF SendHeartbeat
    <2>3. Among(b, responses[w.chan])
      BY <2>1, AnsweredAmong
    <2> HIDE DEF b
    <2>4. \A s \in Streams : Among(responses'[Channel(s, AnyType)], responses[Channel(s, AnyType)])
      <3> SUFFICES ASSUME NEW s \in Streams
                   PROVE  Among(responses'[Channel(s, AnyType)], responses[Channel(s, AnyType)])
        OBVIOUS
      <3>1. Channel(s, AnyType) \in Channels
        BY ChannelAssumption DEF Channel
      <3>2. CASE Channel(s, AnyType) = w.chan
        BY <2>1, <2>2, <2>3, <3>2
      <3>3. CASE Channel(s, AnyType) # w.chan
        BY <2>1, <2>2, <3>1, <3>3, SameQueues
      <3> QED
        BY <3>2, <3>3
    <2>5. sets' = sets /\ holder' # "set"
      BY <1>3 DEF SendHeartbeat, Continue, setVars
    <2> QED
      BY <1>0, <2>4, <2>5, SameQueues, FewerOrder
  <1>4. ASSUME NEW n \in Nodes, AbortSetSnapshot(n) \/ ClearSnapshot(n)
                                \/ \E sn \in Snapshots : SetSnapshot(n, sn)
        PROVE  OrderInv'
    <2>1. /\ UNCHANGED responses
          /\ \/ sets' = sets /\ (holder' = "set" => holder = "set" /\ todo' \subseteq todo)
             \/ sets' = sets + 1
      BY <1>4 DEF AbortSetSnapshot, ClearSnapshot, SetSnapshot, Continue, watchVars, lockVars
    <2> QED
      BY <1>2, <2>1
  <1>5. ASSUME NEW w, RespondDeltaWatch(w) \/ LoseHeartbeat(w) PROVE OrderInv'
    <2>1. /\ UNCHANGED responses /\ sets' = sets
          /\ holder' = "set" => holder = "set" /\ todo' \subseteq todo
      BY <1>5 DEF RespondDeltaWatch, LoseHeartbeat, Continue, watchVars, setVars
    <2> QED
      BY <1>2, <2>1
  <1>6. CASE HeartbeatTick \/ CancelHeartbeats \/ StopHeartbeats
    <2>1. /\ UNCHANGED responses /\ sets' = sets
          /\ holder' = "set" => holder = "set" /\ todo' \subseteq todo
      BY <1>6 DEF HeartbeatTick, CancelHeartbeats, StopHeartbeats, Continue, watchVars, setVars, lockVars
    <2> QED
      BY <1>2, <2>1
  <1> QED
    BY <1>1, <1>3, <1>4, <1>5, <1>6 DEF CacheActs, CacheStep

\* Every other step adds to a queue at most an answer given at once, or moves a
\* response from the channel to the wire.
LEMMA OrderStep ==
    ASSUME Ads, Ordered, ServerInv, OrderInv, [Next]_vars
    PROVE  OrderInv'
  <1>1. ASSUME UNCHANGED <<sets, holder, todo>>,
               \A s \in Streams :
                  /\ Among(responses'[Channel(s, AnyType)], responses[Channel(s, AnyType)])
                  /\ Among(toClient'[s], toClient[s])
        PROVE  OrderInv'
    BY <1>1, FewerOrder
  <1>2. ASSUME UNCHANGED cacheVars PROVE UNCHANGED <<responses, sets, holder, todo>>
    BY <1>2 DEF cacheVars, watchVars, setVars, lockVars
  <1>3. ASSUME UNCHANGED cacheVars, UNCHANGED toClient PROVE OrderInv'
    BY <1>1, <1>2, <1>3, SameQueues
  <1>4. ASSUME NEW n \in Nodes, NEW t \in Types, Ask(n, t) \/ AskMore(n, t) \/ Follow(n, t)
        PROVE  OrderInv'
    BY <1>3, <1>4 DEF Ask, AskMore, Follow
  <1>5. ASSUME UNCHANGED cacheVars, NEW s \in Streams,
               \/ toClient' = [toClient EXCEPT ![s] = <<>>]
               \/ toClient[s] # <<>> /\ toClient' = [toClient EXCEPT ![s] = Tail(@)]
        PROVE  OrderInv'
    <2>1. toClient \in [Streams -> Seq(DiscoveryResponses)]
      BY DEF ServerInv, TypeOK
    <2>2. Among(toClient'[s], toClient[s])
      BY <1>5, <2>1, SameQueues, AmongQueue
    <2>3. \A s2 \in Streams : s2 # s => toClient'[s2] = toClient[s2]
      BY <1>5, <2>1
    <2>4. \A s2 \in Streams : Among(toClient'[s2], toClient[s2])
      BY <2>2, <2>3, SameQueues
    <2> QED
      BY <1>1, <1>2, <1>5, <2>4, SameQueues
  <1>6. ASSUME NEW n \in Nodes, Ack(n) \/ Nack(n) PROVE OrderInv'
    <2>1. /\ conn[n] \in Streams /\ UNCHANGED cacheVars /\ toClient[conn[n]] # <<>>
          /\ toClient' = [toClient EXCEPT ![conn[n]] = Tail(@)]
      BY <1>6 DEF Ack, Nack, ServerInv, TypeOK
    <2> QED
      BY <1>5, <2>1
  <1>7. ASSUME NEW s \in Streams, Disconnect(s) \/ RefuseRequest(s) PROVE OrderInv'
    BY <1>5, <1>7 DEF Disconnect, RefuseRequest
  <1>8. ASSUME NEW s \in Streams,
               \/ EnterADS(s) \/ Exit(s) \/ CloseMux(s) \/ Closed(s) \/ CloseRequests(s) \/ Connect(s)
        PROVE  OrderInv'
    BY <1>3, <1>8 DEF EnterADS, Exit, CloseMux, Closed, CloseRequests, Connect, linkVars
  <1>9. ASSUME NEW s \in Streams, NEW r \in DiscoveryRequests, OpenWatch(s, r), UNCHANGED toClient
        PROVE  OrderInv'
    <2> DEFINE c == Channel(s, r.type)
               b == Answered(responses[c], CacheRequest(s, r),
                             SnapshotResources(StreamNode[s], r.type), FALSE, FALSE)
    <2>1. c \in Channels /\ responses[c] \in Seq(Responses)
      BY CacheRequestTyped, ChannelTyped DEF ServerInv, TypeOK, CacheTypeOK
    <2>2. /\ \A d \in Channels : d # c => responses'[d] = responses[d]
          /\ responses'[c] = responses[c] \/ responses'[c] = b
      BY <1>9, OpenWatchEffect
    <2>3. Among(b, responses[c]) /\ Among(responses[c], responses[c])
      BY <2>1, AnsweredAmong, AmongQueue
    <2> HIDE DEF b
    <2>4. \A s2 \in Streams : Among(responses'[Channel(s2, AnyType)], responses[Channel(s2, AnyType)])
      <3> SUFFICES ASSUME NEW s2 \in Streams
                   PROVE  Among(responses'[Channel(s2, AnyType)], responses[Channel(s2, AnyType)])
        OBVIOUS
      <3>1. Channel(s2, AnyType) \in Channels
        BY ChannelAssumption DEF Channel
      <3>2. CASE Channel(s2, AnyType) = c
        BY <2>2, <2>3, <3>2
      <3>3. CASE Channel(s2, AnyType) # c
        BY <2>2, <3>1, <3>3, SameQueues
      <3> QED
        BY <3>2, <3>3
    <2>5. UNCHANGED <<sets, holder, todo>>
      BY <1>9 DEF OpenWatch, CreateWatch, setVars, lockVars
    <2> QED
      BY <1>1, <1>9, <2>4, <2>5, SameQueues
  <1>10. ASSUME NEW s \in Streams, NEW t \in Types, CancelResponder(s, t), UNCHANGED toClient
         PROVE  OrderInv'
    <2>1. UNCHANGED <<responses, sets, holder, todo>>
      BY <1>2, <1>10 DEF CancelResponder, CancelWatch, setVars, lockVars
    <2> QED
      BY <1>1, <1>10, <2>1, SameQueues
  <1>11. ASSUME NEW s \in Streams, RecvRequest(s) PROVE OrderInv'
    <2>1. PICK r \in Incoming(s) : Take(s, r) /\ Handle(s, r)
      BY <1>11 DEF RecvRequest
    <2>2. r \in DiscoveryRequests /\ r.type \in Types /\ UNCHANGED toClient
      BY <1>11, <2>1, IncomingTyped, CacheRequestTyped DEF RecvRequest, ServerInv
    <2> QED
      BY <1>3, <1>9, <1>10, <2>1, <2>2 DEF Handle
  <1>12. ASSUME NEW s \in Streams, SupersedeWatch(s) PROVE OrderInv'
    <2>1. current[s] \in DiscoveryRequests
      BY <1>12 DEF ServerInv, CurrentInv, Handling, SupersedeWatch
    <2> QED
      BY <1>9, <1>12, <2>1 DEF SupersedeWatch, linkVars
  <1>13. ASSUME NEW s \in Streams, NEW t \in Types, CloseWatch(s, t) PROVE OrderInv'
    BY <1>10, <1>13 DEF CloseWatch, linkVars
  <1>14. ASSUME NEW s \in Streams, SendResponse(s) \/ Drain(s) PROVE OrderInv'
    <2> DEFINE c == Channel(s, AnyType)
    <2>1. UNCHANGED <<sets, holder, todo>>
      BY <1>14 DEF SendResponse, Drain, setVars, lockVars
    <2>2. ASSUME responses[c] # <<>>, Send(s, c) PROVE OrderInv'
      BY <2>1, <2>2, SendOrder
    <2>3. CASE SendResponse(s)
      <3>1. \A t \in Types : Channel(s, t) = c
        BY DEF Channel
      <3> QED
        BY <2>2, <2>3, <3>1 DEF SendResponse
    <2>4. CASE Drain(s)
      <3>1. CASE UNCHANGED <<responses, toClient>>
        BY <1>1, <2>1, <3>1, SameQueues
      <3>2. CASE /\ responses[c] # <<>> /\ UNCHANGED toClient
                 /\ responses' = [responses EXCEPT ![c] = Tail(@)]
        <4>1. responses \in [Channels -> Seq(Responses)] /\ c \in Channels
          BY ChannelAssumption DEF ServerInv, TypeOK, CacheTypeOK, Channel
        <4>2. responses'[c] = Tail(responses[c]) /\ Among(Tail(responses[c]), responses[c])
          BY <3>2, <4>1, AmongQueue
        <4>3. \A s2 \in Streams : s2 # s => responses'[Channel(s2, AnyType)] = responses[Channel(s2, AnyType)]
          BY <3>2, <4>1, ChannelAssumption DEF Channel
        <4>4. \A s2 \in Streams : Among(responses'[Channel(s2, AnyType)], responses[Channel(s2, AnyType)])
          BY <4>2, <4>3, SameQueues
        <4> QED
          BY <1>1, <2>1, <3>2, <4>4, SameQueues
      <3> QED
        BY <2>2, <2>4, <3>1, <3>2 DEF Drain
    <2> QED
      BY <1>14, <2>3, <2>4
  <1>15. CASE UNCHANGED vars
    BY <1>3, <1>15 DEF vars, linkVars
  <1>16. CASE CacheActs
    BY <1>16, CacheOrder
  <1> QED
    BY <1>4, <1>6, <1>7, <1>8, <1>11, <1>12, <1>13, <1>14, <1>15, <1>16 DEF Next, ServerActs

\* With WithOrderedADS on an ADS cache, what one SetSnapshot causes is on the wire
\* in the order of types.ResponseType: the cache answers watches in that order,
\* the shared channel keeps it, and neither superseding requests nor heartbeats
\* change it (respondSOTWWatches, processADS, processAllExcept).
THEOREM ResponsesAreOrdered == Spec => []OrderedOnTheWire
  <1>1. CASE Ads /\ Ordered
    <2>1. Init => ServerInv /\ OrderInv
      <3> SUFFICES ASSUME Init PROVE OrderInv
        BY InitServer
      <3>1. ASSUME NEW s \in Streams
            PROVE  responses[Channel(s, AnyType)] = <<>> /\ toClient[s] = <<>> /\ todo = {}
        BY ChannelAssumption DEF Init, CacheInit, Channel
      <3> QED
        BY <3>1 DEF OrderInv, WireOrder
    <2>2. (ServerInv /\ OrderInv) /\ [Next]_vars => (ServerInv /\ OrderInv)'
      BY <1>1, ServerStep, OrderStep
    <2>3. ServerInv /\ OrderInv => OrderedOnTheWire
      BY DEF OrderInv, WireOrder, OrderedOnTheWire
    <2> QED
      BY <2>1, <2>2, <2>3, PTL DEF Spec
  <1>2. CASE ~(Ads /\ Ordered)
    <2>1. OrderedOnTheWire
      BY <1>2 DEF OrderedOnTheWire
    <2> QED
      BY <2>1, PTL
  <1> QED
    BY <1>1, <1>2

============================================================================
