--------------------------- MODULE SnapshotCache ---------------------------
(***************************************************************************)
(* The snapshot cache of pkg/cache/v3/simple.go: per node one snapshot and *)
(* the open state-of-the-world (SOTW) and delta watches of its streams.    *)
(*                                                                         *)
(* SetSnapshot and the heartbeat ticker hold cache.mu while they send one  *)
(* response after the other, and the receivers run meanwhile: those two    *)
(* operations are a first step, which takes the lock, and one step per     *)
(* watch (holder, todo, deltaTodo).  The other operations are one step.    *)
(***************************************************************************)
EXTENDS StreamState, Naturals, Sequences

CONSTANTS Nodes,          \* node IDs (NodeHash.ID of the requests' nodes)
          Types,          \* type URLs in use, by short name
          Versions,       \* version strings
          NoVersion,      \* the empty version string
          Snapshots,      \* the snapshots the management server may set
          NoSnapshot,     \* no entry in cache.snapshots
          Channels,       \* response channels of SOTW streams
          DeltaChannels,  \* response channels of delta streams
          Ads,            \* the ads flag of NewSnapshotCache
          Heartbeating,   \* built by NewSnapshotCacheWithHeartbeating
          BeatsMayStop,   \* the context of the heartbeat routine may be cancelled
          Interruptible,  \* the contexts given to SetSnapshot may be done
          Clearing,       \* the management server calls ClearSnapshot
          MaxSets,        \* bound: calls of SetSnapshot
          MaxBeats,       \* bound: ticks of the heartbeat ticker
          MaxWatches,     \* bound: SOTW watches ever opened
          MaxDeltaWatches \* bound: delta watches ever opened

\* Order of types.ResponseType, the order of responses in ADS mode.
ResponseType ==
    [Cluster |-> 0, Endpoint |-> 1, Listener |-> 2, Route |-> 3, ScopedRoute |-> 4,
     VirtualHost |-> 5, Secret |-> 6, Runtime |-> 7, ExtensionConfig |-> 8,
     RateLimitConfig |-> 9]

UnknownType == 10

GetResponseType(t) == IF t \in DOMAIN ResponseType THEN ResponseType[t] ELSE UnknownType

VersionInfos == Versions \cup {NoVersion}

SnapshotRecords == [version   : [Types -> VersionInfos],
                    resources : [Types -> ResourceMaps],
                    ttl       : [Types -> SUBSET Names]]

ASSUME SnapshotAssumption == /\ Snapshots \subseteq SnapshotRecords
                             /\ NoSnapshot \notin Snapshots
ASSUME FlagAssumption == {Ads, Heartbeating, BeatsMayStop, Interruptible, Clearing} \subseteq BOOLEAN
ASSUME BoundAssumption == {MaxSets, MaxBeats, MaxWatches, MaxDeltaWatches} \subseteq Nat

Requests == [node : Nodes, type : Types, names : SUBSET Names, version : VersionInfos]

\* An entry of info.watches (ResponseWatch under its ID).
Watches == [id : Nat, request : Requests, chan : Channels]

\* An entry of info.deltaWatches (DeltaResponseWatch under its ID).
DeltaWatches == [id : Nat, node : Nodes, type : Types, chan : DeltaChannels,
                 state : StreamStates]

\* RawResponse.  History: at is the number of SetSnapshot calls before it was
\* made, pushed tells one made by SetSnapshot from an answer given at once and
\* from a heartbeat.
Responses == [request : Requests, version : VersionInfos, resources : ResourceMaps,
              heartbeat : BOOLEAN, at : Nat, pushed : BOOLEAN]

\* RawDeltaResponse.  History: at, and scope, the names subscribed to.
DeltaResponses == [type : Types, resources : ResourceMaps, removed : SUBSET Names,
                   next : ResourceMaps, at : Nat, scope : SUBSET Names]

VARIABLES
    snapshots,       \* cache.snapshots
    status,          \* the keys of cache.status
    watches,         \* the SOTW watches of all nodes
    deltaWatches,    \* the delta watches of all nodes
    watchCount,      \* cache.watchCount
    deltaWatchCount, \* cache.deltaWatchCount
    holder,          \* who holds cache.mu between two steps: none, set or beat
    todo,            \* SOTW watches the holder has yet to answer
    deltaTodo,       \* delta watches the holder has yet to answer
    responses,       \* what each SOTW channel buffers
    deltaResponses,  \* what each delta channel buffers
    heartbeat,       \* the heartbeat routine: on, cancelled (its context is), off
    interrupted,     \* nodes whose last SetSnapshot returned an error
    sets,            \* calls of SetSnapshot so far
    beats            \* ticks so far

watchVars == <<watches, watchCount, responses>>
deltaVars == <<deltaWatches, deltaWatchCount, deltaResponses>>
lockVars == <<holder, todo, deltaTodo>>
beatVars == <<heartbeat, beats>>
setVars == <<snapshots, interrupted, sets>>
cacheVars == <<watchVars, deltaVars, lockVars, beatVars, setVars, status>>

CacheTypeOK ==
    /\ snapshots \in [Nodes -> Snapshots \cup {NoSnapshot}]
    /\ status \subseteq Nodes
    /\ watches \subseteq Watches
    /\ deltaWatches \subseteq DeltaWatches
    /\ watchCount \in Nat
    /\ deltaWatchCount \in Nat
    /\ holder \in {"none", "set", "beat"}
    /\ todo \subseteq watches
    /\ deltaTodo \subseteq deltaWatches
    /\ responses \in [Channels -> Seq(Responses)]
    /\ deltaResponses \in [DeltaChannels -> Seq(DeltaResponses)]
    /\ heartbeat \in {"on", "cancelled", "off"}
    /\ interrupted \subseteq Nodes
    /\ sets \in Nat
    /\ beats \in Nat

CacheInit ==
    /\ snapshots = [n \in Nodes |-> NoSnapshot]
    /\ status = {}
    /\ watches = {}
    /\ deltaWatches = {}
    /\ watchCount = 0
    /\ deltaWatchCount = 0
    /\ holder = "none"
    /\ todo = {}
    /\ deltaTodo = {}
    /\ responses = [c \in Channels |-> <<>>]
    /\ deltaResponses = [c \in DeltaChannels |-> <<>>]
    /\ heartbeat = IF Heartbeating THEN "on" ELSE "off"
    /\ interrupted = {}
    /\ sets = 0
    /\ beats = 0

----------------------------------------------------------------------------
(* Answering a watch                                                       *)

Exists(n) == snapshots[n] # NoSnapshot
SnapshotVersion(n, t) == snapshots[n].version[t]
SnapshotResources(n, t) == snapshots[n].resources[t]
ResourcesWithTTL(n, t) ==
    Restrict(SnapshotResources(n, t),
             DOMAIN SnapshotResources(n, t) \cap snapshots[n].ttl[t])

\* ADS mode answers a request with names only when it names every resource.
Held(request, resources) ==
    Ads /\ request.names # {} /\ ~(DOMAIN resources \subseteq request.names)

\* Mutant: the names of the request are ignored.
createResponse_AllNames(request, resources, isHeartbeat, pushed) ==
    [request |-> request,
     version |-> SnapshotVersion(request.node, request.type),
     resources |-> resources,
     heartbeat |-> isHeartbeat,
     at |-> sets,
     pushed |-> pushed]

createResponse(request, resources, isHeartbeat, pushed) ==
    [request |-> request,
     version |-> SnapshotVersion(request.node, request.type),
     resources |-> IF request.names = {} THEN resources
                   ELSE Restrict(resources, DOMAIN resources \cap request.names),
     heartbeat |-> isHeartbeat,
     at |-> sets,
     pushed |-> pushed]

\* What a channel buffers once a request has been answered into it.
Answered(buffer, request, resources, isHeartbeat, pushed) ==
    IF Held(request, resources) THEN buffer
    ELSE Append(buffer, createResponse(request, resources, isHeartbeat, pushed))

\* Mutant: ADS order is not established.
NextWatches_Unordered(ws) == ws

\* The watches that may be answered next: any, by increasing type in ADS mode.
NextWatches(ws) ==
    IF Ads
    THEN {w \in ws : \A x \in ws : GetResponseType(w.request.type) <= GetResponseType(x.request.type)}
    ELSE ws

NextDeltaWatches(ws) ==
    IF Ads
    THEN {w \in ws : \A x \in ws : GetResponseType(w.type) <= GetResponseType(x.type)}
    ELSE ws

\* cache.mu passes to h while watches remain to be answered, and is released
\* with the last of them.
Continue(h, ws, dws) ==
    /\ holder' = IF ws = {} /\ dws = {} THEN "none" ELSE h
    /\ todo' = ws
    /\ deltaTodo' = dws

----------------------------------------------------------------------------
(* SetSnapshot and ClearSnapshot                                           *)

\* Mutant: watches are compared with the snapshot being replaced.
SetSnapshot_StaleCompare(n, s) ==
    /\ holder = "none"
    /\ sets < MaxSets
    /\ snapshots' = [snapshots EXCEPT ![n] = s]
    /\ sets' = sets + 1
    /\ interrupted' = interrupted \ {n}
    /\ Continue("set",
         {w \in watches : /\ w.request.node = n
                          /\ Exists(n)
                          /\ w.request.version # SnapshotVersion(n, w.request.type)},
         {w \in deltaWatches : /\ w.node = n
                               /\ Exists(n)
                               /\ ShouldRespond(w.state, SnapshotResources(n, w.type))})
    /\ UNCHANGED <<watchVars, deltaVars, beatVars, status>>

\* Mutant: delta watches are compared with the snapshot being replaced.
SetSnapshot_StaleDelta(n, s) ==
    /\ holder = "none"
    /\ sets < MaxSets
    /\ snapshots' = [snapshots EXCEPT ![n] = s]
    /\ sets' = sets + 1
    /\ interrupted' = interrupted \ {n}
    /\ Continue("set",
         {w \in watches : /\ w.request.node = n
                          /\ w.request.version # s.version[w.request.type]},
         {w \in deltaWatches : /\ w.node = n
                               /\ Exists(n)
                               /\ ShouldRespond(w.state, SnapshotResources(n, w.type))})
    /\ UNCHANGED <<watchVars, deltaVars, beatVars, status>>

SetSnapshot(n, s) ==
    /\ holder = "none"
    /\ sets < MaxSets
    /\ snapshots' = [snapshots EXCEPT ![n] = s]
    /\ sets' = sets + 1
    /\ interrupted' = interrupted \ {n}
    /\ Continue("set",
         {w \in watches : /\ w.request.node = n
                          /\ w.request.version # s.version[w.request.type]},
         {w \in deltaWatches : /\ w.node = n
                               /\ ShouldRespond(w.state, s.resources[w.type])})
    /\ UNCHANGED <<watchVars, deltaVars, beatVars, status>>

\* Mutant: the answered watch is not discarded.
RespondWatch_NotDiscarded(w) ==
    /\ holder = "set"
    /\ w \in NextWatches(todo)
    /\ responses' = [responses EXCEPT ![w.chan] =
            Answered(@, w.request, SnapshotResources(w.request.node, w.request.type),
                     FALSE, TRUE)]
    /\ Continue("set", todo \ {w}, deltaTodo)
    /\ UNCHANGED <<watches, watchCount, deltaVars, beatVars, setVars, status>>

\* One iteration of respondSOTWWatches: a watch whose response is held in ADS
\* mode is discarded too.
RespondWatch(w) ==
    /\ holder = "set"
    /\ w \in NextWatches(todo)
    /\ responses' = [responses EXCEPT ![w.chan] =
            Answered(@, w.request, SnapshotResources(w.request.node, w.request.type),
                     FALSE, TRUE)]
    /\ watches' = watches \ {w}
    /\ Continue("set", todo \ {w}, deltaTodo)
    /\ UNCHANGED <<watchCount, deltaVars, beatVars, setVars, status>>

\* One iteration of respondDeltaWatches that sends.
RespondDeltaWatch(w) ==
    /\ holder = "set"
    /\ todo = {}
    /\ w \in NextDeltaWatches(deltaTodo)
    /\ LET r == createDeltaResponse(w.state, SnapshotResources(w.node, w.type))
       IN  deltaResponses' = [deltaResponses EXCEPT ![w.chan] =
               Append(@, [type |-> w.type, resources |-> r.resources,
                          removed |-> r.removed, next |-> r.next,
                          at |-> sets, scope |-> Scope(w.state)])]
    /\ deltaWatches' = deltaWatches \ {w}
    /\ Continue("set", todo, deltaTodo \ {w})
    /\ UNCHANGED <<watchVars, deltaWatchCount, beatVars, setVars, status>>

\* The context given to SetSnapshot is done when a response is to be sent: the
\* remaining watches stay open, and SetSnapshot returns the error.
AbortSetSnapshot(n) ==
    /\ Interruptible
    /\ holder = "set"
    /\ \/ \E w \in NextWatches(todo) :
            /\ w.request.node = n
            /\ ~Held(w.request, SnapshotResources(n, w.request.type))
       \/ /\ todo = {}
          /\ \E w \in NextDeltaWatches(deltaTodo) : w.node = n
    /\ interrupted' = interrupted \cup {n}
    /\ Continue("none", {}, {})
    /\ UNCHANGED <<watchVars, deltaVars, beatVars, snapshots, sets, status>>

\* Mutant: cache.mu is not taken.
ClearSnapshot_Unlocked(n) ==
    /\ Clearing
    /\ snapshots' = [snapshots EXCEPT ![n] = NoSnapshot]
    /\ status' = status \ {n}
    /\ watches' = {w \in watches : w.request.node # n}
    /\ deltaWatches' = {w \in deltaWatches : w.node # n}
    /\ interrupted' = interrupted \ {n}
    /\ UNCHANGED <<watchCount, responses, deltaWatchCount, deltaResponses,
                   lockVars, beatVars, sets>>

ClearSnapshot(n) ==
    /\ Clearing
    /\ holder = "none"
    /\ snapshots' = [snapshots EXCEPT ![n] = NoSnapshot]
    /\ status' = status \ {n}
    /\ watches' = {w \in watches : w.request.node # n}
    /\ deltaWatches' = {w \in deltaWatches : w.node # n}
    /\ interrupted' = interrupted \ {n}
    /\ UNCHANGED <<watchCount, responses, deltaWatchCount, deltaResponses,
                   lockVars, beatVars, sets>>

----------------------------------------------------------------------------
(* The heartbeat routine                                                   *)

\* Mutant: watches on types without such resources are discarded too.
HeartbeatTick_DiscardsAll ==
    /\ holder = "none"
    /\ heartbeat # "off"
    /\ beats < MaxBeats
    /\ beats' = beats + 1
    /\ watches' = {w \in watches : Exists(w.request.node) =>
                     ResourcesWithTTL(w.request.node, w.request.type) # EmptyMap}
    /\ Continue("beat", {w \in watches' : Exists(w.request.node)}, {})
    /\ UNCHANGED <<watchCount, responses, deltaVars, setVars, heartbeat, status>>

\* A tick takes cache.mu for the watches, of all nodes, on types with
\* resources that have a TTL.
HeartbeatTick ==
    /\ holder = "none"
    /\ heartbeat # "off"
    /\ beats < MaxBeats
    /\ beats' = beats + 1
    /\ Continue("beat",
         {w \in watches : /\ Exists(w.request.node)
                          /\ ResourcesWithTTL(w.request.node, w.request.type) # EmptyMap},
         {})
    /\ UNCHANGED <<watchVars, deltaVars, setVars, heartbeat, status>>

\* One iteration of sendHeartbeats.
SendHeartbeat(w) ==
    /\ holder = "beat"
    /\ w \in todo
    /\ responses' = [responses EXCEPT ![w.chan] =
            Answered(@, w.request, ResourcesWithTTL(w.request.node, w.request.type), TRUE, FALSE)]
    /\ watches' = watches \ {w}
    /\ Continue("beat", todo \ {w}, {})
    /\ UNCHANGED <<watchCount, deltaVars, beatVars, setVars, status>>

\* The iteration when the context is done: respond may return the error, which
\* is logged, and the watch is discarded all the same.
LoseHeartbeat(w) ==
    /\ holder = "beat"
    /\ heartbeat = "cancelled"
    /\ w \in todo
    /\ ~Held(w.request, ResourcesWithTTL(w.request.node, w.request.type))
    /\ watches' = watches \ {w}
    /\ Continue("beat", todo \ {w}, {})
    /\ UNCHANGED <<watchCount, responses, deltaVars, beatVars, setVars, status>>

\* The context is cancelled; the routine's select may still take a tick.
CancelHeartbeats ==
    /\ BeatsMayStop
    /\ heartbeat = "on"
    /\ heartbeat' = "cancelled"
    /\ UNCHANGED <<watchVars, deltaVars, lockVars, setVars, beats, status>>

StopHeartbeats ==
    /\ holder # "beat"
    /\ heartbeat = "cancelled"
    /\ heartbeat' = "off"
    /\ UNCHANGED <<watchVars, deltaVars, lockVars, setVars, beats, status>>

----------------------------------------------------------------------------
(* Watches.  buffer is what the caller's channel holds when the call is    *)
(* made: nothing for a channel made for this call.                         *)

\* A requested name that is new to the client and present is answered at once
\* whatever the version.
NewName(request, known) ==
    (request.names \ known) \cap DOMAIN SnapshotResources(request.node, request.type) # {}

\* Mutant: a request that names a new resource waits for the next version.
StaysOpen_IgnoresNewNames(request, known) ==
    Exists(request.node)
        => request.version = SnapshotVersion(request.node, request.type)

StaysOpen(request, known) ==
    Exists(request.node)
        => /\ request.version = SnapshotVersion(request.node, request.type)
           /\ ~NewName(request, known)

CreateWatch(request, known, c, buffer) ==
    /\ holder = "none"
    /\ status' = status \cup {request.node}
    /\ \/ /\ StaysOpen(request, known)
          /\ watchCount < MaxWatches
          /\ watchCount' = watchCount + 1
          /\ watches' = watches \cup {[id |-> watchCount + 1, request |-> request, chan |-> c]}
          /\ responses' = [responses EXCEPT ![c] = buffer]
       \/ /\ ~StaysOpen(request, known)
          /\ responses' = [responses EXCEPT ![c] =
                Answered(buffer, request, SnapshotResources(request.node, request.type),
                         FALSE, FALSE)]
          /\ UNCHANGED <<watches, watchCount>>
    /\ UNCHANGED <<deltaVars, lockVars, beatVars, setVars>>

\* The watch CreateWatch has opened, 0 when it answered at once: what the
\* cancel function it returns stands for.
OpenedWatch == IF watchCount' = watchCount THEN 0 ELSE watchCount'

\* Mutant: cache.mu is not taken.
CancelWatch_Unlocked(n, id) ==
    /\ watches' = {w \in watches : ~(w.request.node = n /\ w.id = id)}
    /\ UNCHANGED <<watchCount, responses, deltaVars, lockVars, beatVars, setVars, status>>

CancelWatch(n, id) ==
    /\ holder = "none"
    /\ watches' = {w \in watches : ~(w.request.node = n /\ w.id = id)}
    /\ UNCHANGED <<watchCount, responses, deltaVars, lockVars, beatVars, setVars, status>>

CreateDeltaWatch(n, t, st, c) ==
    /\ holder = "none"
    /\ status' = status \cup {n}
    /\ \/ /\ Exists(n) => ~ShouldRespond(st, SnapshotResources(n, t))
          /\ deltaWatchCount < MaxDeltaWatches
          /\ deltaWatchCount' = deltaWatchCount + 1
          /\ deltaWatches' = deltaWatches \cup
               {[id |-> deltaWatchCount + 1, node |-> n, type |-> t, chan |-> c, state |-> st]}
          /\ UNCHANGED deltaResponses
       \/ /\ Exists(n)
          /\ ShouldRespond(st, SnapshotResources(n, t))
          /\ LET r == createDeltaResponse(st, SnapshotResources(n, t))
             IN  deltaResponses' = [deltaResponses EXCEPT ![c] =
                     Append(@, [type |-> t, resources |-> r.resources,
                                removed |-> r.removed, next |-> r.next,
                                at |-> sets, scope |-> Scope(st)])]
          /\ UNCHANGED <<deltaWatches, deltaWatchCount>>
    /\ UNCHANGED <<watchVars, lockVars, beatVars, setVars>>

OpenedDeltaWatch == IF deltaWatchCount' = deltaWatchCount THEN 0 ELSE deltaWatchCount'

\* Mutant: cache.mu is not taken.
CancelDeltaWatch_Unlocked(n, id) ==
    /\ deltaWatches' = {w \in deltaWatches : ~(w.node = n /\ w.id = id)}
    /\ UNCHANGED <<deltaWatchCount, deltaResponses, watchVars, lockVars, beatVars,
                   setVars, status>>

CancelDeltaWatch(n, id) ==
    /\ holder = "none"
    /\ deltaWatches' = {w \in deltaWatches : ~(w.node = n /\ w.id = id)}
    /\ UNCHANGED <<deltaWatchCount, deltaResponses, watchVars, lockVars, beatVars,
                   setVars, status>>

----------------------------------------------------------------------------
(* What the cache does by itself, and what a caller that keeps the         *)
(* channels' contract may ask of it.                                       *)

CacheStep ==
    \/ \E n \in Nodes, s \in Snapshots : SetSnapshot(n, s)
    \/ \E w \in todo : RespondWatch(w)
    \/ \E w \in deltaTodo : RespondDeltaWatch(w)
    \/ \E n \in Nodes : AbortSetSnapshot(n)
    \/ \E n \in Nodes : ClearSnapshot(n)
    \/ HeartbeatTick
    \/ \E w \in todo : SendHeartbeat(w)
    \/ \E w \in todo : LoseHeartbeat(w)
    \/ CancelHeartbeats
    \/ StopHeartbeats

\* Open watches and buffered responses of a type on a channel.
OpenOn(c, t) == {w \in watches : w.chan = c /\ w.request.type = t}
OpenDeltaOn(c, t) == {w \in deltaWatches : w.chan = c /\ w.type = t}
BufferedOn(c, t) == {i \in DOMAIN responses[c] : responses[c][i].request.type = t}
BufferedDeltaOn(c, t) == {i \in DOMAIN deltaResponses[c] : deltaResponses[c][i].type = t}

\* A watch of a type is created on a channel made for it, or on a shared
\* channel that neither has nor awaits a response of the type.
Create(request, known, c) ==
    \/ /\ \A t \in Types : OpenOn(c, t) = {}
       /\ CreateWatch(request, known, c, <<>>)
    \/ /\ OpenOn(c, request.type) = {}
       /\ BufferedOn(c, request.type) = {}
       /\ CreateWatch(request, known, c, responses[c])

Receive(c) ==
    /\ responses[c] # <<>>
    /\ responses' = [responses EXCEPT ![c] = Tail(@)]
    /\ UNCHANGED <<watches, watchCount, deltaVars, lockVars, beatVars, setVars, status>>

\* A delta stream cancels its watch of a type, and has received all that was
\* sent before, when it creates the next: at most the answer of the cancelled
\* watch is still in the channel.
CreateDelta(n, t, st, c) ==
    /\ OpenDeltaOn(c, t) = {}
    /\ \A i, j \in BufferedDeltaOn(c, t) : i = j
    /\ CreateDeltaWatch(n, t, st, c)

ReceiveDelta(c) ==
    /\ deltaResponses[c] # <<>>
    /\ deltaResponses' = [deltaResponses EXCEPT ![c] = Tail(@)]
    /\ UNCHANGED <<deltaWatches, deltaWatchCount, watchVars, lockVars, beatVars, setVars, status>>

CallerStep ==
    \/ \E request \in Requests, known \in SUBSET Names, c \in Channels :
            Create(request, known, c)
    \/ \E n \in Nodes, id \in 1 .. watchCount : CancelWatch(n, id)
    \/ \E c \in Channels : Receive(c)
    \/ \E n \in Nodes, t \in Types, st \in StreamStates, c \in DeltaChannels :
            CreateDelta(n, t, st, c)
    \/ \E n \in Nodes, id \in 1 .. deltaWatchCount : CancelDeltaWatch(n, id)
    \/ \E c \in DeltaChannels : ReceiveDelta(c)

CacheNext == CacheStep \/ CallerStep

CacheSpec == CacheInit /\ [][CacheNext]_cacheVars

\* Streams keep the contract above on whatever interleaving: all they do with
\* the cache is a behaviour of CacheSpec, so that what is proved about it holds
\* for them (process, processADS, processDelta; "make sure all existing
\* responses are processed prior to new requests").
KeepsContract == CacheInit /\ [][UNCHANGED cacheVars \/ CacheNext]_cacheVars

----------------------------------------------------------------------------
(* Properties                                                              *)

\* Whoever holds cache.mu between two sends answers watches of nodes whose
\* snapshots stay in place until it is done, and a SetSnapshot those of its own
\* node only (SetSnapshot, ClearSnapshot, sendHeartbeats).
LockDiscipline ==
    /\ holder = "none" => todo = {} /\ deltaTodo = {}
    /\ \A w \in todo : Exists(w.request.node)
    /\ holder = "set" =>
         \E n \in Nodes : /\ Exists(n)
                          /\ \A w \in todo : w.request.node = n
                          /\ \A w \in deltaTodo : w.node = n

\* No update is missed, however requests and SetSnapshot interleave: a watch
\* that is open, and that the SetSnapshot under way is not about to answer,
\* asks for the version the node's snapshot has.  Only a SetSnapshot that
\* returned an error leaves watches behind (SetSnapshot, CreateWatch).
NoMissedUpdate ==
    \A w \in watches :
        Exists(w.request.node) /\ w.request.node \notin interrupted
            => \/ holder = "set" /\ w \in todo
               \/ w.request.version = SnapshotVersion(w.request.node, w.request.type)

\* The same of delta watches: an open one has nothing to report
\* (SetSnapshot, CreateDeltaWatch).
NoMissedDelta ==
    \A w \in deltaWatches :
        Exists(w.node) /\ w.node \notin interrupted
            => \/ holder = "set" /\ w \in deltaTodo
               \/ ~ShouldRespond(w.state, SnapshotResources(w.node, w.type))

\* A watch is answered at most once: per channel and type at most one response
\* is awaited or buffered, so that a channel with room for one response per
\* type never blocks the sender, which holds cache.mu (respond: "The value
\* channel should have capacity not to block").
AnsweredOnce ==
    \A c \in Channels, t \in Types :
        /\ \A w, x \in OpenOn(c, t) : w = x
        /\ \A i, j \in BufferedOn(c, t) : i = j
        /\ OpenOn(c, t) = {} \/ BufferedOn(c, t) = {}
============================================================================
