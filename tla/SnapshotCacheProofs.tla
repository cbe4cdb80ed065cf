------------------------ MODULE SnapshotCacheProofs ------------------------
(***************************************************************************)
(* Proofs about SnapshotCache, for all nodes, types, names, snapshots,     *)
(* channels and bounds.                                                    *)
(***************************************************************************)
EXTENDS SnapshotCache, StreamStateProofs, TLAPS

----------------------------------------------------------------------------
(* What answers are made of                                                *)

\* A node with a snapshot has a version and resources of every type.
LEMMA SnapshotTyped ==
    ASSUME CacheTypeOK, NEW n \in Nodes, NEW t \in Types, Exists(n)
    PROVE  /\ SnapshotVersion(n, t) \in VersionInfos
           /\ SnapshotResources(n, t) \in ResourceMaps
           /\ ResourcesWithTTL(n, t) \in ResourceMaps
  <1>1. snapshots[n] \in SnapshotRecords
    BY SnapshotAssumption DEF CacheTypeOK, Exists
  <1>2. /\ snapshots[n].version[t] \in VersionInfos
        /\ snapshots[n].resources[t] \in ResourceMaps
    BY <1>1 DEF SnapshotRecords
  <1>3. ResourcesWithTTL(n, t) \in ResourceMaps
    BY <1>2, RestrictMap DEF ResourcesWithTTL, SnapshotResources, ResourceMaps
  <1> QED
    BY <1>2, <1>3 DEF SnapshotVersion, SnapshotResources

\* Answering a request keeps a channel's buffer a sequence of responses.
LEMMA AnsweredTyped ==
    ASSUME CacheTypeOK, NEW request \in Requests, Exists(request.node),
           NEW resources \in ResourceMaps, NEW isHeartbeat \in BOOLEAN, NEW pushed \in BOOLEAN,
           NEW buffer \in Seq(Responses)
    PROVE  Answered(buffer, request, resources, isHeartbeat, pushed) \in Seq(Responses)
  <1> DEFINE part == IF request.names = {} THEN resources
                     ELSE Restrict(resources, DOMAIN resources \cap request.names)
  <1>1. part \in ResourceMaps
    BY RestrictMap DEF ResourceMaps
  <1>2. request.node \in Nodes /\ request.type \in Types
    BY DEF Requests
  <1>3. SnapshotVersion(request.node, request.type) \in VersionInfos
    BY <1>2, SnapshotTyped
  <1>4. createResponse(request, resources, isHeartbeat, pushed) \in Responses
    BY <1>1, <1>3 DEF createResponse, Responses, CacheTypeOK
  <1> QED
    BY <1>4 DEF Answered

\* A delta response has the type of one.
LEMMA DeltaResponseTyped ==
    ASSUME CacheTypeOK, NEW st \in StreamStates, NEW resources \in ResourceMaps, NEW t \in Types
    PROVE  LET r == createDeltaResponse(st, resources)
           IN  [type |-> t, resources |-> r.resources, removed |-> r.removed,
                next |-> r.next, at |-> sets, scope |-> Scope(st)] \in DeltaResponses
  <1>1. createDeltaResponse(st, resources)
          \in [resources : ResourceMaps, removed : SUBSET Names, next : ResourceMaps]
    BY DeltaResponseParts
  <1>2. Scope(st) \in SUBSET Names
    BY DEF Scope, StreamStates
  <1> QED
    BY <1>1, <1>2 DEF DeltaResponses, CacheTypeOK

----------------------------------------------------------------------------
(* The inductive invariant                                                 *)

\* Types alone are not inductive: an answer has a version only because the
\* snapshot it is made from is still there.
TypeInv == CacheTypeOK /\ LockDiscipline

(* Each operation of the cache preserves it.                               *)

\* SetSnapshot: the watches it is to answer are of the node whose snapshot it set.
LEMMA SetSnapshotType ==
    ASSUME TypeInv, NEW n \in Nodes, NEW s \in Snapshots, SetSnapshot(n, s)
    PROVE  TypeInv'
  <1> USE DEF TypeInv
  <1>1. CacheTypeOK'
    BY DEF CacheTypeOK, SetSnapshot, Continue, watchVars, deltaVars, beatVars
  <1>2. /\ \A w \in todo' : w.request.node = n
        /\ \A w \in deltaTodo' : w.node = n
    BY DEF SetSnapshot, Continue
  <1>3. snapshots'[n] = s /\ s # NoSnapshot
    BY SnapshotAssumption DEF SetSnapshot, CacheTypeOK
  <1>4. LockDiscipline'
    BY <1>2, <1>3 DEF LockDiscipline, SetSnapshot, Continue, Exists
  <1> QED
    BY <1>1, <1>4

\* respondSOTWWatches, one watch: the answer is a response and the watch is gone.
LEMMA RespondWatchType ==
    ASSUME TypeInv, NEW w \in todo, RespondWatch(w)
    PROVE  TypeInv'
  <1> USE DEF TypeInv
  <1>1. w \in Watches /\ w \in watches /\ Exists(w.request.node)
    BY DEF CacheTypeOK, LockDiscipline
  <1>2. /\ w.request \in Requests /\ w.chan \in Channels
        /\ w.request.node \in Nodes /\ w.request.type \in Types
    BY <1>1 DEF Watches, Requests
  <1>3. SnapshotResources(w.request.node, w.request.type) \in ResourceMaps
    BY <1>1, <1>2, SnapshotTyped
  <1>4. responses[w.chan] \in Seq(Responses)
    BY <1>2 DEF CacheTypeOK
  <1>5. Answered(responses[w.chan], w.request,
                 SnapshotResources(w.request.node, w.request.type), FALSE, TRUE) \in Seq(Responses)
    BY <1>1, <1>2, <1>3, <1>4, AnsweredTyped DEF CacheTypeOK
  <1>6. responses' \in [Channels -> Seq(Responses)]
    BY <1>2, <1>5 DEF RespondWatch, CacheTypeOK
  <1>7. CacheTypeOK'
    BY <1>6 DEF CacheTypeOK, RespondWatch, Continue, deltaVars, beatVars, setVars
  <1>8. LockDiscipline'
    BY DEF LockDiscipline, RespondWatch, Continue, Exists, setVars
  <1> QED
    BY <1>7, <1>8

\* respondDeltaWatches, one watch.
LEMMA RespondDeltaWatchType ==
    ASSUME TypeInv, NEW w \in deltaTodo, RespondDeltaWatch(w)
    PROVE  TypeInv'
  <1> USE DEF TypeInv
  <1>1. w \in DeltaWatches /\ w \in deltaWatches
    BY DEF CacheTypeOK
  <1>2. w.node \in Nodes /\ w.type \in Types /\ w.chan \in DeltaChannels /\ w.state \in StreamStates
    BY <1>1 DEF DeltaWatches
  <1>3. Exists(w.node)
    <2>1. holder = "set"
      BY DEF RespondDeltaWatch
    <2>2. PICK n \in Nodes : Exists(n) /\ \A x \in deltaTodo : x.node = n
      BY <2>1 DEF LockDiscipline, Exists
    <2> QED
      BY <2>2
  <1>4. SnapshotResources(w.node, w.type) \in ResourceMaps
    BY <1>2, <1>3, SnapshotTyped
  <1> DEFINE r == createDeltaResponse(w.state, SnapshotResources(w.node, w.type))
             d == [type |-> w.type, resources |-> r.resources, removed |-> r.removed,
                   next |-> r.next, at |-> sets, scope |-> Scope(w.state)]
  <1>5. d \in DeltaResponses
    BY <1>2, <1>4, DeltaResponseTyped
  <1>6. deltaResponses[w.chan] \in Seq(DeltaResponses)
    BY <1>2 DEF CacheTypeOK
  <1>7. deltaResponses' = [deltaResponses EXCEPT ![w.chan] = Append(@, d)]
    BY DEF RespondDeltaWatch
  <1> HIDE DEF d
  <1>8. deltaResponses' \in [DeltaChannels -> Seq(DeltaResponses)]
    BY <1>2, <1>5, <1>6, <1>7 DEF CacheTypeOK
  <1>9. CacheTypeOK'
    BY <1>8 DEF CacheTypeOK, RespondDeltaWatch, Continue, watchVars, beatVars, setVars
  <1>10. LockDiscipline'
    BY DEF LockDiscipline, RespondDeltaWatch, Continue, Exists, setVars
  <1> QED
    BY <1>9, <1>10

\* SetSnapshot returning an error leaves no watch under way.
LEMMA AbortSetSnapshotType ==
    ASSUME TypeInv, NEW n \in Nodes, AbortSetSnapshot(n)
    PROVE  TypeInv'
  <1> USE DEF TypeInv
  <1>1. CacheTypeOK'
    BY DEF CacheTypeOK, AbortSetSnapshot, Continue, watchVars, deltaVars, beatVars
  <1>2. LockDiscipline'
    BY DEF LockDiscipline, AbortSetSnapshot, Continue
  <1> QED
    BY <1>1, <1>2

\* ClearSnapshot runs only when nobody answers from the snapshot.
LEMMA ClearSnapshotType ==
    ASSUME TypeInv, NEW n \in Nodes, ClearSnapshot(n)
    PROVE  TypeInv'
  <1> USE DEF TypeInv
  <1>1. CacheTypeOK'
    BY DEF CacheTypeOK, LockDiscipline, ClearSnapshot, lockVars, beatVars
  <1>2. LockDiscipline'
    BY DEF LockDiscipline, ClearSnapshot, lockVars
  <1> QED
    BY <1>1, <1>2
\* A tick of the heartbeat routine takes the watches of nodes with snapshots.
LEMMA HeartbeatTickType ==
    ASSUME TypeInv, HeartbeatTick
    PROVE  TypeInv'
  <1> USE DEF TypeInv
  <1>1. CacheTypeOK'
    BY DEF CacheTypeOK, HeartbeatTick, Continue, watchVars, deltaVars, setVars
  <1>2. LockDiscipline'
    BY DEF LockDiscipline, HeartbeatTick, Continue, Exists, setVars
  <1> QED
    BY <1>1, <1>2

\* sendHeartbeats, one watch.
LEMMA SendHeartbeatType ==
    ASSUME TypeInv, NEW w \in todo, SendHeartbeat(w)
    PROVE  TypeInv'
  <1> USE DEF TypeInv
  <1>1. w \in Watches /\ w \in watches /\ Exists(w.request.node)
    BY DEF CacheTypeOK, LockDiscipline
  <1>2. /\ w.request \in Requests /\ w.chan \in Channels
        /\ w.request.node \in Nodes /\ w.request.type \in Types
    BY <1>1 DEF Watches, Requests
  <1>3. ResourcesWithTTL(w.request.node, w.request.type) \in ResourceMaps
    BY <1>1, <1>2, SnapshotTyped
  <1>4. responses[w.chan] \in Seq(Responses)
    BY <1>2 DEF CacheTypeOK
  <1>5. Answered(responses[w.chan], w.request,
                 ResourcesWithTTL(w.request.node, w.request.type), TRUE, FALSE) \in Seq(Responses)
    BY <1>1, <1>2, <1>3, <1>4, AnsweredTyped
  <1>6. responses' \in [Channels -> Seq(Responses)]
    BY <1>2, <1>5 DEF SendHeartbeat, CacheTypeOK
  <1>7. CacheTypeOK'
    BY <1>6 DEF CacheTypeOK, SendHeartbeat, Continue, deltaVars, beatVars, setVars
  <1>8. LockDiscipline'
    BY DEF LockDiscipline, SendHeartbeat, Continue, Exists, setVars
  <1> QED
    BY <1>7, <1>8

\* sendHeartbeats, one watch, when the context is done.
LEMMA LoseHeartbeatType ==
    ASSUME TypeInv, NEW w \in todo, LoseHeartbeat(w)
    PROVE  TypeInv'
  <1> USE DEF TypeInv
  <1>1. CacheTypeOK'
    BY DEF CacheTypeOK, LoseHeartbeat, Continue, deltaVars, beatVars, setVars
  <1>2. LockDiscipline'
    BY DEF LockDiscipline, LoseHeartbeat, Continue, Exists, setVars
  <1> QED
    BY <1>1, <1>2

\* The end of the heartbeat routine.
LEMMA StopHeartbeatsType ==
    ASSUME TypeInv, CancelHeartbeats \/ StopHeartbeats
    PROVE  TypeInv'
  <1> USE DEF TypeInv
  <1>1. CacheTypeOK'
    BY DEF CacheTypeOK, CancelHeartbeats, StopHeartbeats, watchVars, deltaVars, lockVars, setVars
  <1>2. LockDiscipline'
    BY DEF LockDiscipline, CancelHeartbeats, StopHeartbeats, Exists, lockVars, setVars
  <1> QED
    BY <1>1, <1>2

\* CreateWatch opens a watch, or answers from a snapshot that exists.
LEMMA CreateWatchType ==
    ASSUME TypeInv, NEW request \in Requests, NEW known, NEW c \in Channels,
           NEW buffer \in Seq(Responses), CreateWatch(request, known, c, buffer)
    PROVE  TypeInv'
  <1> USE DEF TypeInv
  <1>1. request.node \in Nodes /\ request.type \in Types
    BY DEF Requests
  <1>2. LockDiscipline'
    BY DEF LockDiscipline, CreateWatch, lockVars
  <1>3. CASE StaysOpen(request, known)
    <2>1. [id |-> watchCount + 1, request |-> request, chan |-> c] \in Watches
      BY DEF Watches, CacheTypeOK
    <2>2. responses' \in [Channels -> Seq(Responses)]
      BY <1>3 DEF CreateWatch, CacheTypeOK
    <2>3. watches' \subseteq Watches /\ watches \subseteq watches' /\ watchCount' \in Nat
      BY <1>3, <2>1 DEF CreateWatch, CacheTypeOK
    <2>4. CacheTypeOK'
      BY <1>1, <2>2, <2>3 DEF CreateWatch, CacheTypeOK, deltaVars, lockVars, beatVars, setVars
    <2> QED
      BY <1>2, <2>4
  <1>4. CASE ~StaysOpen(request, known)
    <2>1. Exists(request.node)
      BY <1>4 DEF StaysOpen
    <2>2. SnapshotResources(request.node, request.type) \in ResourceMaps
      BY <1>1, <2>1, SnapshotTyped
    <2>3. Answered(buffer, request, SnapshotResources(request.node, request.type), FALSE, FALSE)
            \in Seq(Responses)
      BY <2>1, <2>2, AnsweredTyped
    <2>4. responses' \in [Channels -> Seq(Responses)]
      BY <1>4, <2>3 DEF CreateWatch, CacheTypeOK
    <2>5. CacheTypeOK'
      BY <1>1, <1>4, <2>4 DEF CreateWatch, CacheTypeOK, deltaVars, lockVars, beatVars, setVars
    <2> QED
      BY <1>2, <2>5
  <1> QED
    BY <1>3, <1>4

\* The cancel function takes no watch from the holder of cache.mu.
LEMMA CancelWatchType ==
    ASSUME TypeInv, NEW n, NEW id, CancelWatch(n, id)
    PROVE  TypeInv'
  <1> USE DEF TypeInv
  <1>1. CacheTypeOK'
    BY DEF CacheTypeOK, LockDiscipline, CancelWatch, deltaVars, lockVars, beatVars, setVars
  <1>2. LockDiscipline'
    BY DEF LockDiscipline, CancelWatch, lockVars
  <1> QED
    BY <1>1, <1>2

\* A stream receives a response.
LEMMA ReceiveType ==
    ASSUME TypeInv, NEW c \in Channels, Receive(c)
    PROVE  TypeInv'
  <1> USE DEF TypeInv
  <1>1. Tail(responses[c]) \in Seq(Responses)
    BY DEF CacheTypeOK, Receive
  <1>2. CacheTypeOK'
    BY <1>1 DEF CacheTypeOK, Receive, deltaVars, lockVars, beatVars, setVars
  <1>3. LockDiscipline'
    BY DEF LockDiscipline, Receive, Exists, lockVars, setVars
  <1> QED
    BY <1>2, <1>3

\* CreateDeltaWatch opens a watch, or answers from a snapshot that exists.
LEMMA CreateDeltaWatchType ==
    ASSUME TypeInv, NEW n \in Nodes, NEW t \in Types, NEW st \in StreamStates,
           NEW c \in DeltaChannels, CreateDeltaWatch(n, t, st, c)
    PROVE  TypeInv'
  <1> USE DEF TypeInv
  <1>1. LockDiscipline'
    BY DEF LockDiscipline, CreateDeltaWatch, lockVars
  <1>2. CASE Exists(n) => ~ShouldRespond(st, SnapshotResources(n, t))
    <2>1. [id |-> deltaWatchCount + 1, node |-> n, type |-> t, chan |-> c, state |-> st]
             \in DeltaWatches
      BY DEF DeltaWatches, CacheTypeOK
    <2>2. /\ deltaWatches' \subseteq DeltaWatches /\ deltaWatches \subseteq deltaWatches'
          /\ deltaWatchCount' \in Nat /\ deltaResponses' = deltaResponses
      BY <1>2, <2>1 DEF CreateDeltaWatch, CacheTypeOK
    <2>3. CacheTypeOK'
      BY <2>2 DEF CreateDeltaWatch, CacheTypeOK, watchVars, lockVars, beatVars, setVars
    <2> QED
      BY <1>1, <2>3
  <1>3. CASE Exists(n) /\ ShouldRespond(st, SnapshotResources(n, t))
    <2> DEFINE r == createDeltaResponse(st, SnapshotResources(n, t))
               d == [type |-> t, resources |-> r.resources, removed |-> r.removed,
                     next |-> r.next, at |-> sets, scope |-> Scope(st)]
    <2>1. SnapshotResources(n, t) \in ResourceMaps
      BY <1>3, SnapshotTyped
    <2>2. d \in DeltaResponses
      BY <2>1, DeltaResponseTyped
    <2>3. deltaResponses[c] \in Seq(DeltaResponses)
      BY DEF CacheTypeOK
    <2>4. /\ deltaResponses' = [deltaResponses EXCEPT ![c] = Append(@, d)]
          /\ UNCHANGED <<deltaWatches, deltaWatchCount>>
      BY <1>3 DEF CreateDeltaWatch
    <2> HIDE DEF d
    <2>5. deltaResponses' \in [DeltaChannels -> Seq(DeltaResponses)]
      BY <2>2, <2>3, <2>4 DEF CacheTypeOK
    <2>6. CacheTypeOK'
      BY <2>4, <2>5 DEF CreateDeltaWatch, CacheTypeOK, watchVars, lockVars, beatVars, setVars
    <2> QED
      BY <1>1, <2>6
  <1> QED
    BY <1>2, <1>3

\* The cancel function of a delta watch takes none from the holder of cache.mu.
LEMMA CancelDeltaWatchType ==
    ASSUME TypeInv, NEW n, NEW id, CancelDeltaWatch(n, id)
    PROVE  TypeInv'
  <1> USE DEF TypeInv
  <1>1. CacheTypeOK'
    BY DEF CacheTypeOK, LockDiscipline, CancelDeltaWatch, watchVars, lockVars, beatVars, setVars
  <1>2. LockDiscipline'
    BY DEF LockDiscipline, CancelDeltaWatch, lockVars
  <1> QED
    BY <1>1, <1>2

\* A delta stream receives a response.
LEMMA ReceiveDeltaType ==
    ASSUME TypeInv, NEW c \in DeltaChannels, ReceiveDelta(c)
    PROVE  TypeInv'
  <1> USE DEF TypeInv
  <1>1. Tail(deltaResponses[c]) \in Seq(DeltaResponses)
    BY DEF CacheTypeOK, ReceiveDelta
  <1>2. CacheTypeOK'
    BY <1>1 DEF CacheTypeOK, ReceiveDelta, watchVars, lockVars, beatVars, setVars
  <1>3. LockDiscipline'
    BY DEF LockDiscipline, ReceiveDelta, Exists, lockVars, setVars
  <1> QED
    BY <1>2, <1>3
\* Every step of CacheSpec preserves it.
LEMMA StepType ==
    ASSUME TypeInv, [CacheNext]_cacheVars
    PROVE  TypeInv'
  <1>1. ASSUME NEW n \in Nodes, NEW s \in Snapshots, SetSnapshot(n, s) PROVE TypeInv'
    BY <1>1, SetSnapshotType
  <1>2. ASSUME NEW w \in todo, RespondWatch(w) \/ SendHeartbeat(w) \/ LoseHeartbeat(w)
        PROVE  TypeInv'
    BY <1>2, RespondWatchType, SendHeartbeatType, LoseHeartbeatType
  <1>3. ASSUME NEW w \in deltaTodo, RespondDeltaWatch(w) PROVE TypeInv'
    BY <1>3, RespondDeltaWatchType
  <1>4. ASSUME NEW n \in Nodes, AbortSetSnapshot(n) \/ ClearSnapshot(n) PROVE TypeInv'
    BY <1>4, AbortSetSnapshotType, ClearSnapshotType
  <1>5. CASE HeartbeatTick \/ CancelHeartbeats \/ StopHeartbeats
    BY <1>5, HeartbeatTickType, StopHeartbeatsType
  <1>6. CASE CacheStep
    BY <1>1, <1>2, <1>3, <1>4, <1>5, <1>6 DEF CacheStep
  <1>7. ASSUME NEW request \in Requests, NEW known \in SUBSET Names, NEW c \in Channels,
               Create(request, known, c)
        PROVE  TypeInv'
    <2>1. responses[c] \in Seq(Responses) /\ <<>> \in Seq(Responses)
      BY DEF TypeInv, CacheTypeOK
    <2>2. \E buffer \in Seq(Responses) : CreateWatch(request, known, c, buffer)
      BY <1>7, <2>1 DEF Create
    <2> QED
      BY <2>2, CreateWatchType
  <1>8. ASSUME NEW n \in Nodes, NEW t \in Types, NEW st \in StreamStates, NEW c \in DeltaChannels,
               CreateDelta(n, t, st, c)
        PROVE  TypeInv'
    BY <1>8, CreateDeltaWatchType DEF CreateDelta
  <1>9. ASSUME NEW n, NEW id, CancelWatch(n, id) \/ CancelDeltaWatch(n, id) PROVE TypeInv'
    BY <1>9, CancelWatchType, CancelDeltaWatchType
  <1>10. CASE CallerStep
    BY <1>7, <1>8, <1>9, <1>10, ReceiveType, ReceiveDeltaType DEF CallerStep
  <1>11. CASE UNCHANGED cacheVars
    BY <1>11 DEF TypeInv, CacheTypeOK, LockDiscipline, Exists, cacheVars, watchVars, deltaVars,
                 lockVars, beatVars, setVars
  <1> QED
    BY <1>6, <1>10, <1>11 DEF CacheNext

\* A new cache satisfies it.
LEMMA InitType == CacheInit => TypeInv
  BY DEF CacheInit, TypeInv, CacheTypeOK, LockDiscipline

\* Every variable keeps its type, and the watches under way stay among the open
\* ones: nobody takes a watch away from the holder of cache.mu.
THEOREM CacheTypeCorrect == CacheSpec => []CacheTypeOK
  <1>1. TypeInv => CacheTypeOK
    BY DEF TypeInv
  <1> QED
    BY <1>1, InitType, StepType, PTL DEF CacheSpec

\* The snapshots that SetSnapshot and the heartbeat routine answer from stay in
\* place until they are done.
THEOREM LockDisciplineHolds == CacheSpec => []LockDiscipline
  <1>1. TypeInv => LockDiscipline
    BY DEF TypeInv
  <1> QED
    BY <1>1, InitType, StepType, PTL DEF CacheSpec

----------------------------------------------------------------------------
(* No update is missed                                                     *)

\* The watches a SetSnapshot has to answer belong to one node: when one of them
\* makes it give up, the rest are excused with it.
LEMMA OneNode ==
    ASSUME TypeInv, holder = "set", NEW n \in Nodes,
           \/ \E w \in todo : w.request.node = n
           \/ \E w \in deltaTodo : w.node = n
    PROVE  /\ \A w \in todo : w.request.node = n
           /\ \A w \in deltaTodo : w.node = n
  BY DEF TypeInv, LockDiscipline

\* The watches answered next, ordered or not, are among those to answer.
LEMMA NextAreTodo ==
    ASSUME NEW ws
    PROVE  NextWatches(ws) \subseteq ws /\ NextDeltaWatches(ws) \subseteq ws
  BY DEF NextWatches, NextDeltaWatches

\* A SetSnapshot gives up the watches of the node it reports the error for.
LEMMA AbortedNode ==
    ASSUME TypeInv, NEW n \in Nodes, AbortSetSnapshot(n)
    PROVE  /\ \A w \in todo : w.request.node = n
           /\ \A w \in deltaTodo : w.node = n
  <1>1. holder = "set"
    BY DEF AbortSetSnapshot
  <1>2. \/ \E w \in todo : w.request.node = n
        \/ \E w \in deltaTodo : w.node = n
    BY NextAreTodo DEF AbortSetSnapshot
  <1> QED
    BY <1>1, <1>2, OneNode

\* Opening a watch: only a request that asks for the version at hand waits.
LEMMA CreateWatchUpdate ==
    ASSUME TypeInv, NoMissedUpdate, NEW request \in Requests, NEW known, NEW c, NEW buffer,
           CreateWatch(request, known, c, buffer)
    PROVE  NoMissedUpdate'
  <1> DEFINE new == [id |-> watchCount + 1, request |-> request, chan |-> c]
  <1>1. UNCHANGED <<snapshots, interrupted, holder, todo>> /\ todo = {}
    BY DEF CreateWatch, lockVars, setVars, TypeInv, LockDiscipline
  <1>2. \A w \in watches : Exists(w.request.node)' /\ w.request.node \notin interrupted'
            => w.request.version = SnapshotVersion(w.request.node, w.request.type)'
    BY <1>1 DEF NoMissedUpdate, Exists, SnapshotVersion
  <1>3. CASE StaysOpen(request, known)
    <2>1. watches' = watches \cup {new}
      BY <1>3 DEF CreateWatch
    <2>2. Exists(new.request.node)'
            => new.request.version = SnapshotVersion(new.request.node, new.request.type)'
      BY <1>1, <1>3 DEF StaysOpen, Exists, SnapshotVersion
    <2> QED
      BY <1>2, <2>1, <2>2 DEF NoMissedUpdate
  <1>4. CASE ~StaysOpen(request, known)
    <2>1. watches' = watches
      BY <1>4 DEF CreateWatch
    <2> QED
      BY <1>2, <2>1 DEF NoMissedUpdate
  <1> QED
    BY <1>3, <1>4

\* Every step of CacheSpec preserves NoMissedUpdate.
LEMMA StepUpdate ==
    ASSUME TypeInv, NoMissedUpdate, [CacheNext]_cacheVars
    PROVE  NoMissedUpdate'
  <1> USE DEF NoMissedUpdate, Exists, SnapshotVersion
  <1>1. ASSUME NEW n \in Nodes, NEW s \in Snapshots, SetSnapshot(n, s) PROVE NoMissedUpdate'
    <2>1. todo = {} /\ watches' = watches /\ interrupted' = interrupted \ {n}
      BY <1>1 DEF SetSnapshot, watchVars, TypeInv, LockDiscipline
    <2>2. snapshots' = [snapshots EXCEPT ![n] = s] /\ n \in DOMAIN snapshots
      BY <1>1 DEF SetSnapshot, TypeInv, CacheTypeOK
    <2>3. \A w \in watches : w.request.node = n /\ w.request.version # s.version[w.request.type]
              => holder' = "set" /\ w \in todo'
      BY <1>1 DEF SetSnapshot, Continue
    <2> QED
      BY <2>1, <2>2, <2>3
  <1>2. ASSUME NEW w \in todo, RespondWatch(w) PROVE NoMissedUpdate'
    BY <1>2 DEF RespondWatch, Continue, setVars
  <1>3. ASSUME NEW w \in todo, SendHeartbeat(w) \/ LoseHeartbeat(w) PROVE NoMissedUpdate'
    BY <1>3 DEF SendHeartbeat, LoseHeartbeat, setVars
  <1>4. ASSUME NEW w \in deltaTodo, RespondDeltaWatch(w) PROVE NoMissedUpdate'
    BY <1>4 DEF RespondDeltaWatch, Continue, watchVars, setVars
  <1>5. ASSUME NEW n \in Nodes, AbortSetSnapshot(n) PROVE NoMissedUpdate'
    BY <1>5, AbortedNode DEF AbortSetSnapshot, watchVars
  <1>6. ASSUME NEW n \in Nodes, ClearSnapshot(n) PROVE NoMissedUpdate'
    BY <1>6 DEF ClearSnapshot, lockVars, TypeInv, CacheTypeOK
  <1>7. CASE HeartbeatTick
    BY <1>7 DEF HeartbeatTick, watchVars, setVars
  <1>8. CASE CancelHeartbeats \/ StopHeartbeats
    BY <1>8 DEF CancelHeartbeats, StopHeartbeats, watchVars, lockVars, setVars
  <1>9. CASE CacheStep
    BY <1>1, <1>2, <1>3, <1>4, <1>5, <1>6, <1>7, <1>8, <1>9 DEF CacheStep
  <1>10. ASSUME NEW request \in Requests, NEW known \in SUBSET Names, NEW c \in Channels,
                Create(request, known, c)
         PROVE  NoMissedUpdate'
    BY <1>10, CreateWatchUpdate DEF Create
  <1>11. ASSUME NEW n, NEW id, CancelWatch(n, id) PROVE NoMissedUpdate'
    BY <1>11 DEF CancelWatch, lockVars, setVars
  <1>12. ASSUME NEW c, Receive(c) PROVE NoMissedUpdate'
    BY <1>12 DEF Receive, lockVars, setVars
  <1>13. ASSUME NEW n, NEW t, NEW st, NEW c, CreateDelta(n, t, st, c) PROVE NoMissedUpdate'
    BY <1>13 DEF CreateDelta, CreateDeltaWatch, watchVars, lockVars, setVars
  <1>14. ASSUME NEW n, NEW id, CancelDeltaWatch(n, id) PROVE NoMissedUpdate'
    BY <1>14 DEF CancelDeltaWatch, watchVars, lockVars, setVars
  <1>15. ASSUME NEW c, ReceiveDelta(c) PROVE NoMissedUpdate'
    BY <1>15 DEF ReceiveDelta, watchVars, lockVars, setVars
  <1>16. CASE CallerStep
    BY <1>10, <1>11, <1>12, <1>13, <1>14, <1>15, <1>16 DEF CallerStep
  <1>17. CASE UNCHANGED cacheVars
    BY <1>17 DEF cacheVars, watchVars, lockVars, setVars
  <1> QED
    BY <1>9, <1>16, <1>17 DEF CacheNext

\* No interleaving of requests, cancellations, heartbeats and SetSnapshot calls
\* leaves a watch waiting although the node's snapshot has another version than
\* the one the client asked with.
THEOREM NoUpdateIsMissed == CacheSpec => []NoMissedUpdate
  <1>1. CacheInit => NoMissedUpdate
    BY DEF CacheInit, NoMissedUpdate
  <1> QED
    BY <1>1, InitType, StepType, StepUpdate, PTL DEF CacheSpec

----------------------------------------------------------------------------
(* No delta update is missed                                               *)

\* Opening a delta watch: only one with nothing to report waits.
LEMMA CreateDeltaUpdate ==
    ASSUME TypeInv, NoMissedDelta, NEW n, NEW t, NEW st, NEW c,
           CreateDeltaWatch(n, t, st, c)
    PROVE  NoMissedDelta'
  <1> DEFINE new == [id |-> deltaWatchCount + 1, node |-> n, type |-> t, chan |-> c, state |-> st]
  <1>1. UNCHANGED <<snapshots, interrupted, holder, deltaTodo>> /\ deltaTodo = {}
    BY DEF CreateDeltaWatch, lockVars, setVars, TypeInv, LockDiscipline
  <1>2. \A w \in deltaWatches : Exists(w.node)' /\ w.node \notin interrupted'
            => ~ShouldRespond(w.state, SnapshotResources(w.node, w.type)')
    BY <1>1 DEF NoMissedDelta, Exists, SnapshotResources
  <1>3. \/ /\ deltaWatches' = deltaWatches \cup {new}
           /\ Exists(n) => ~ShouldRespond(st, SnapshotResources(n, t))
        \/ deltaWatches' = deltaWatches
    BY DEF CreateDeltaWatch
  <1>4. (Exists(n) => ~ShouldRespond(st, SnapshotResources(n, t)))
            => (Exists(n)' => ~ShouldRespond(st, SnapshotResources(n, t)'))
    BY <1>1 DEF Exists, SnapshotResources
  <1> QED
    BY <1>2, <1>3, <1>4 DEF NoMissedDelta, Exists, SnapshotResources

\* Every step of CacheSpec preserves NoMissedDelta.
LEMMA StepDelta ==
    ASSUME TypeInv, NoMissedDelta, [CacheNext]_cacheVars
    PROVE  NoMissedDelta'
  <1> USE DEF NoMissedDelta, Exists, SnapshotResources
  <1>1. ASSUME NEW n \in Nodes, NEW s \in Snapshots, SetSnapshot(n, s) PROVE NoMissedDelta'
    <2>1. deltaTodo = {} /\ deltaWatches' = deltaWatches /\ interrupted' = interrupted \ {n}
      BY <1>1 DEF SetSnapshot, deltaVars, TypeInv, LockDiscipline
    <2>2. snapshots' = [snapshots EXCEPT ![n] = s] /\ n \in DOMAIN snapshots
      BY <1>1 DEF SetSnapshot, TypeInv, CacheTypeOK
    <2>3. \A w \in deltaWatches : w.node = n /\ ShouldRespond(w.state, s.resources[w.type])
              => holder' = "set" /\ w \in deltaTodo'
      BY <1>1 DEF SetSnapshot, Continue
    <2> QED
      BY <2>1, <2>2, <2>3
  <1>2. ASSUME NEW w \in todo, RespondWatch(w) PROVE NoMissedDelta'
    BY <1>2 DEF RespondWatch, Continue, deltaVars, setVars
  <1>3. ASSUME NEW w \in todo, SendHeartbeat(w) \/ LoseHeartbeat(w) PROVE NoMissedDelta'
    BY <1>3 DEF SendHeartbeat, LoseHeartbeat, deltaVars, setVars
  <1>4. ASSUME NEW w \in deltaTodo, RespondDeltaWatch(w) PROVE NoMissedDelta'
    BY <1>4 DEF RespondDeltaWatch, Continue, setVars
  <1>5. ASSUME NEW n \in Nodes, AbortSetSnapshot(n) PROVE NoMissedDelta'
    BY <1>5, AbortedNode DEF AbortSetSnapshot, deltaVars
  <1>6. ASSUME NEW n \in Nodes, ClearSnapshot(n) PROVE NoMissedDelta'
    BY <1>6 DEF ClearSnapshot, lockVars, TypeInv, CacheTypeOK
  <1>7. CASE HeartbeatTick
    BY <1>7 DEF HeartbeatTick, deltaVars, setVars
  <1>8. CASE CancelHeartbeats \/ StopHeartbeats
    BY <1>8 DEF CancelHeartbeats, StopHeartbeats, deltaVars, lockVars, setVars
  <1>9. CASE CacheStep
    BY <1>1, <1>2, <1>3, <1>4, <1>5, <1>6, <1>7, <1>8, <1>9 DEF CacheStep
  <1>10. ASSUME NEW request \in Requests, NEW known \in SUBSET Names, NEW c \in Channels,
                Create(request, known, c)
         PROVE  NoMissedDelta'
    <2>1. UNCHANGED <<deltaVars, lockVars, setVars>>
      BY <1>10 DEF Create, CreateWatch
    <2> QED
      BY <2>1 DEF deltaVars, lockVars, setVars
  <1>11. ASSUME NEW n, NEW id, CancelWatch(n, id) PROVE NoMissedDelta'
    BY <1>11 DEF CancelWatch, deltaVars, lockVars, setVars
  <1>12. ASSUME NEW c, Receive(c) PROVE NoMissedDelta'
    BY <1>12 DEF Receive, deltaVars, lockVars, setVars
  <1>13. ASSUME NEW n, NEW t, NEW st, NEW c, CreateDelta(n, t, st, c) PROVE NoMissedDelta'
    BY <1>13, CreateDeltaUpdate DEF CreateDelta
  <1>14. ASSUME NEW n, NEW id, CancelDeltaWatch(n, id) PROVE NoMissedDelta'
    BY <1>14 DEF CancelDeltaWatch, lockVars, setVars
  <1>15. ASSUME NEW c, ReceiveDelta(c) PROVE NoMissedDelta'
    BY <1>15 DEF ReceiveDelta, lockVars, setVars
  <1>16. CASE CallerStep
    BY <1>10, <1>11, <1>12, <1>13, <1>14, <1>15, <1>16 DEF CallerStep
  <1>17. CASE UNCHANGED cacheVars
    BY <1>17 DEF cacheVars, deltaVars, lockVars, setVars
  <1> QED
    BY <1>9, <1>16, <1>17 DEF CacheNext

\* No interleaving leaves a delta watch waiting while the node's snapshot has
\* something to report to it.
THEOREM NoDeltaIsMissed == CacheSpec => []NoMissedDelta
  <1>1. CacheInit => NoMissedDelta
    BY DEF CacheInit, NoMissedDelta
  <1> QED
    BY <1>1, InitType, StepType, StepDelta, PTL DEF CacheSpec

----------------------------------------------------------------------------
(* A watch is answered at most once                                        *)

\* AnsweredOnce for one channel and type.
OnceOn(c, t) ==
    /\ \A w, x \in OpenOn(c, t) : w = x
    /\ \A i, j \in BufferedOn(c, t) : i = j
    /\ OpenOn(c, t) = {} \/ BufferedOn(c, t) = {}

\* Fewer watches and the same buffer.
LEMMA OnceKept ==
    ASSUME NEW c, NEW t, OnceOn(c, t), watches' \subseteq watches, responses'[c] = responses[c]
    PROVE  OnceOn(c, t)'
  <1>1. BufferedOn(c, t)' = BufferedOn(c, t)
    BY DEF BufferedOn
  <1>2. OpenOn(c, t)' \subseteq OpenOn(c, t)
    BY DEF OpenOn
  <1> QED
    BY <1>1, <1>2 DEF OnceOn

\* b is buffer, or buffer with one response to the request at its end.
Extends(b, buffer, request) ==
    \/ b = buffer
    \/ /\ DOMAIN b = DOMAIN buffer \cup {Len(buffer) + 1}
       /\ b[Len(buffer) + 1].request = request
       /\ \A i \in DOMAIN buffer : b[i] = buffer[i]

\* An answer adds nothing to the buffer when it is held, one response otherwise.
LEMMA AnsweredAdds ==
    ASSUME NEW buffer \in Seq(Responses), NEW request, NEW resources, NEW isHeartbeat, NEW pushed
    PROVE  Extends(Answered(buffer, request, resources, isHeartbeat, pushed), buffer, request)
  <1> DEFINE r == createResponse(request, resources, isHeartbeat, pushed)
  <1>1. r.request = request
    BY DEF createResponse
  <1> HIDE DEF r
  <1>2. /\ DOMAIN Append(buffer, r) = DOMAIN buffer \cup {Len(buffer) + 1}
        /\ Append(buffer, r)[Len(buffer) + 1] = r
        /\ \A i \in DOMAIN buffer : Append(buffer, r)[i] = buffer[i]
    OBVIOUS
  <1>3. Extends(Append(buffer, r), buffer, request)
    BY <1>1, <1>2 DEF Extends
  <1>4. Extends(buffer, buffer, request)
    BY DEF Extends
  <1> QED
    BY <1>3, <1>4 DEF Answered, r

\* Answering an open watch and discarding it.
LEMMA OnceAnswered ==
    ASSUME TypeInv, AnsweredOnce, NEW w \in watches, NEW resources, NEW isHeartbeat, NEW pushed,
           watches' = watches \ {w},
           responses' = [responses EXCEPT ![w.chan] =
                Answered(@, w.request, resources, isHeartbeat, pushed)]
    PROVE  AnsweredOnce'
  <1> SUFFICES ASSUME NEW c \in Channels, NEW t \in Types PROVE OnceOn(c, t)'
    BY DEF AnsweredOnce, OnceOn
  <1>1. OnceOn(c, t)
    BY DEF AnsweredOnce, OnceOn
  <1>2. w \in Watches /\ responses \in [Channels -> Seq(Responses)]
    BY DEF TypeInv, CacheTypeOK
  <1>3. w.chan \in Channels /\ responses[w.chan] \in Seq(Responses)
    BY <1>2 DEF Watches
  <1>4. CASE c # w.chan
    BY <1>1, <1>2, <1>3, <1>4, OnceKept
  <1>5. CASE c = w.chan
    <2> DEFINE b == Answered(responses[c], w.request, resources, isHeartbeat, pushed)
    <2>1. responses'[c] = b
      BY <1>2, <1>3, <1>5
    <2>2. Extends(b, responses[c], w.request)
      BY <1>3, <1>5, AnsweredAdds
    <2> HIDE DEF b
    <2>3. CASE b = responses[c]
      BY <1>1, <2>1, <2>3, OnceKept
    <2>4. CASE t # w.request.type
      <3>1. BufferedOn(c, t)' = BufferedOn(c, t)
        BY <2>1, <2>2, <2>4 DEF BufferedOn, Extends
      <3>2. OpenOn(c, t)' \subseteq OpenOn(c, t)
        BY DEF OpenOn
      <3> QED
        BY <1>1, <3>1, <3>2 DEF OnceOn
    <2>5. CASE t = w.request.type /\ b # responses[c]
      <3>1. OpenOn(c, t) = {w}
        BY <1>1, <1>5, <2>5 DEF OnceOn, OpenOn
      <3>2. BufferedOn(c, t) = {} /\ OpenOn(c, t)' = {}
        BY <1>1, <3>1 DEF OnceOn, OpenOn
      <3>3. BufferedOn(c, t)' \subseteq {Len(responses[c]) + 1}
        BY <2>1, <2>2, <2>5, <3>2 DEF BufferedOn, Extends
      <3> QED
        BY <3>2, <3>3 DEF OnceOn
    <2> QED
      BY <2>3, <2>4, <2>5
  <1> QED
    BY <1>4, <1>5

\* A caller that keeps the channels' contract opens a watch, or is answered.
LEMMA OnceCreated ==
    ASSUME TypeInv, AnsweredOnce, NEW request \in Requests, NEW known, NEW d \in Channels,
           Create(request, known, d)
    PROVE  AnsweredOnce'
  <1> SUFFICES ASSUME NEW c \in Channels, NEW t \in Types PROVE OnceOn(c, t)'
    BY DEF AnsweredOnce, OnceOn
  <1>1. OnceOn(c, t)
    BY DEF AnsweredOnce, OnceOn
  <1>2. responses \in [Channels -> Seq(Responses)] /\ request.type \in Types
    BY DEF TypeInv, CacheTypeOK, Requests
  <1>3. PICK buffer \in Seq(Responses) :
            /\ CreateWatch(request, known, d, buffer)
            /\ \/ buffer = <<>> /\ \A u \in Types : OpenOn(d, u) = {}
               \/ /\ buffer = responses[d]
                  /\ OpenOn(d, request.type) = {} /\ BufferedOn(d, request.type) = {}
    <2>1. <<>> \in Seq(Responses) /\ responses[d] \in Seq(Responses)
      BY <1>2
    <2>2. CASE CreateWatch(request, known, d, <<>>) /\ \A u \in Types : OpenOn(d, u) = {}
      BY <2>1, <2>2
    <2>3. CASE /\ OpenOn(d, request.type) = {} /\ BufferedOn(d, request.type) = {}
               /\ CreateWatch(request, known, d, responses[d])
      BY <2>1, <2>3
    <2> QED
      BY <2>2, <2>3 DEF Create
  <1> DEFINE new == [id |-> watchCount + 1, request |-> request, chan |-> d]
             b   == Answered(buffer, request, SnapshotResources(request.node, request.type), FALSE, FALSE)
  <1>4. \/ watches' = watches \cup {new} /\ responses' = [responses EXCEPT ![d] = buffer]
        \/ watches' = watches /\ responses' = [responses EXCEPT ![d] = b]
    BY <1>3 DEF CreateWatch
  <1>5. new.chan = d /\ new.request = request
    OBVIOUS
  <1>6. Extends(b, buffer, request)
    BY AnsweredAdds
  <1> HIDE DEF new, b
  <1>7. CASE c # d
    <2>1. responses'[c] = responses[c]
      BY <1>2, <1>4, <1>7
    <2>2. OpenOn(c, t)' = OpenOn(c, t) /\ BufferedOn(c, t)' = BufferedOn(c, t)
      BY <1>4, <1>5, <1>7, <2>1 DEF OpenOn, BufferedOn
    <2> QED
      BY <1>1, <2>2 DEF OnceOn
  <1>8. CASE c = d /\ watches' = watches \cup {new} /\ responses' = [responses EXCEPT ![d] = buffer]
    <2>1. responses'[c] = buffer
      BY <1>2, <1>8
    <2>2. CASE t = request.type
      <3>1. OpenOn(c, t)' \subseteq {new} /\ BufferedOn(c, t)' = {}
        BY <1>2, <1>3, <1>8, <2>1, <2>2 DEF OpenOn, BufferedOn
      <3> QED
        BY <3>1 DEF OnceOn
    <2>3. CASE t # request.type
      <3>1. OpenOn(c, t)' = OpenOn(c, t)
        BY <1>5, <1>8, <2>3 DEF OpenOn
      <3>2. BufferedOn(c, t)' = {} \/ BufferedOn(c, t)' = BufferedOn(c, t)
        BY <1>3, <1>8, <2>1 DEF BufferedOn
      <3> QED
        BY <1>1, <3>1, <3>2 DEF OnceOn
    <2> QED
      BY <2>2, <2>3
  <1>9. CASE c = d /\ watches' = watches /\ responses' = [responses EXCEPT ![d] = b]
    <2>1. responses'[c] = b
      BY <1>2, <1>9
    <2>2. OpenOn(c, t)' = OpenOn(c, t)
      BY <1>9 DEF OpenOn
    <2>3. CASE t = request.type
      <3>1. OpenOn(c, t) = {}
        BY <1>2, <1>3, <1>9, <2>3
      <3>2. \A i \in DOMAIN buffer : buffer[i].request.type # t
        BY <1>3, <1>9, <2>3 DEF BufferedOn
      <3>3. BufferedOn(c, t)' \subseteq {Len(buffer) + 1}
        BY <1>6, <2>1, <3>2 DEF BufferedOn, Extends
      <3> QED
        BY <2>2, <3>1, <3>3 DEF OnceOn
    <2>4. CASE t # request.type
      <3>1. BufferedOn(c, t)' = {} \/ BufferedOn(c, t)' = BufferedOn(c, t)
        BY <1>3, <1>6, <1>9, <2>1, <2>4 DEF BufferedOn, Extends
      <3> QED
        BY <1>1, <2>2, <3>1 DEF OnceOn
    <2> QED
      BY <2>3, <2>4
  <1> QED
    BY <1>4, <1>7, <1>8, <1>9

\* A stream receives the first response of its channel.
LEMMA OnceReceived ==
    ASSUME TypeInv, AnsweredOnce, NEW d \in Channels, Receive(d)
    PROVE  AnsweredOnce'
  <1> SUFFICES ASSUME NEW c \in Channels, NEW t \in Types PROVE OnceOn(c, t)'
    BY DEF AnsweredOnce, OnceOn
  <1>1. OnceOn(c, t)
    BY DEF AnsweredOnce, OnceOn
  <1>2. /\ responses \in [Channels -> Seq(Responses)] /\ responses[d] # <<>>
        /\ watches' = watches /\ responses' = [responses EXCEPT ![d] = Tail(@)]
    BY DEF Receive, TypeInv, CacheTypeOK
  <1>3. CASE c # d
    BY <1>1, <1>2, <1>3, OnceKept
  <1>4. CASE c = d
    <2> DEFINE s == responses[c]
    <2>1. s \in Seq(Responses) /\ s # <<>> /\ responses'[c] = Tail(s)
      BY <1>2, <1>4
    <2>2. /\ \A i \in DOMAIN Tail(s) : i + 1 \in DOMAIN s /\ Tail(s)[i] = s[i + 1]
          /\ \A i \in DOMAIN Tail(s) : i \in Nat
      BY <2>1
    <2> HIDE DEF s
    <2>3. \A i \in BufferedOn(c, t)' : i \in Nat /\ i + 1 \in BufferedOn(c, t)
      BY <2>1, <2>2 DEF BufferedOn, s
    <2>4. OpenOn(c, t)' = OpenOn(c, t)
      BY <1>2 DEF OpenOn
    <2>5. \A i, j \in BufferedOn(c, t)' : i = j
      BY <1>1, <2>3 DEF OnceOn
    <2> QED
      BY <1>1, <2>3, <2>4, <2>5 DEF OnceOn
  <1> QED
    BY <1>3, <1>4

\* A step that neither opens a watch nor fills a channel.
LEMMA OnceShrunk ==
    ASSUME AnsweredOnce, watches' \subseteq watches, responses' = responses
    PROVE  AnsweredOnce'
  <1> SUFFICES ASSUME NEW c \in Channels, NEW t \in Types PROVE OnceOn(c, t)'
    BY DEF AnsweredOnce, OnceOn
  <1>1. OnceOn(c, t)
    BY DEF AnsweredOnce, OnceOn
  <1> QED
    BY <1>1, OnceKept

\* Every step of CacheSpec preserves AnsweredOnce.
LEMMA StepOnce ==
    ASSUME TypeInv, AnsweredOnce, [CacheNext]_cacheVars
    PROVE  AnsweredOnce'
  <1>1. ASSUME NEW w \in todo, RespondWatch(w) \/ SendHeartbeat(w) PROVE AnsweredOnce'
    <2>1. w \in watches
      BY DEF TypeInv, CacheTypeOK
    <2> QED
      BY <1>1, <2>1, OnceAnswered DEF RespondWatch, SendHeartbeat
  <1>2. ASSUME NEW w \in todo, LoseHeartbeat(w) PROVE AnsweredOnce'
    BY <1>2, OnceShrunk DEF LoseHeartbeat
  <1>3. ASSUME NEW w \in deltaTodo, RespondDeltaWatch(w) PROVE AnsweredOnce'
    BY <1>3, OnceShrunk DEF RespondDeltaWatch, watchVars
  <1>4. ASSUME NEW n \in Nodes, NEW s \in Snapshots, SetSnapshot(n, s) PROVE AnsweredOnce'
    BY <1>4, OnceShrunk DEF SetSnapshot, watchVars
  <1>5. ASSUME NEW n \in Nodes, AbortSetSnapshot(n) \/ ClearSnapshot(n) PROVE AnsweredOnce'
    BY <1>5, OnceShrunk DEF AbortSetSnapshot, ClearSnapshot, watchVars
  <1>6. CASE HeartbeatTick \/ CancelHeartbeats \/ StopHeartbeats
    BY <1>6, OnceShrunk DEF HeartbeatTick, CancelHeartbeats, StopHeartbeats, watchVars
  <1>7. CASE CacheStep
    BY <1>1, <1>2, <1>3, <1>4, <1>5, <1>6, <1>7 DEF CacheStep
  <1>8. ASSUME NEW n, NEW id, CancelWatch(n, id) \/ CancelDeltaWatch(n, id) PROVE AnsweredOnce'
    BY <1>8, OnceShrunk DEF CancelWatch, CancelDeltaWatch, watchVars
  <1>9. ASSUME NEW n, NEW t, NEW st, NEW c, CreateDelta(n, t, st, c) PROVE AnsweredOnce'
    BY <1>9, OnceShrunk DEF CreateDelta, CreateDeltaWatch, watchVars
  <1>10. ASSUME NEW c, ReceiveDelta(c) PROVE AnsweredOnce'
    BY <1>10, OnceShrunk DEF ReceiveDelta, watchVars
  <1>11. CASE CallerStep
    BY <1>8, <1>9, <1>10, <1>11, OnceCreated, OnceReceived DEF CallerStep
  <1>12. CASE UNCHANGED cacheVars
    BY <1>12, OnceShrunk DEF cacheVars, watchVars
  <1> QED
    BY <1>7, <1>11, <1>12 DEF CacheNext

\* With a caller that keeps the channels' contract, a channel never holds more
\* than one response of a type, nor one while another is awaited: a channel with
\* room for one response per type cannot block the holder of cache.mu.
THEOREM WatchesAnsweredOnce == CacheSpec => []AnsweredOnce
  <1>1. CacheInit => AnsweredOnce
    BY DEF CacheInit, AnsweredOnce, OpenOn, BufferedOn
  <1> QED
    BY <1>1, InitType, StepType, StepOnce, PTL DEF CacheSpec

----------------------------------------------------------------------------
(* Streams that keep the contract                                          *)

\* KeepsContract is CacheSpec in the form in which the server modules are checked
\* for it (process, processADS, processDelta).
LEMMA ContractIsSpec == KeepsContract => CacheSpec
  <1>1. [UNCHANGED cacheVars \/ CacheNext]_cacheVars => [CacheNext]_cacheVars
    OBVIOUS
  <1> QED
    BY <1>1, PTL DEF KeepsContract, CacheSpec

\* On streams that keep the contract, whatever else they do, the cache misses no
\* update, answers through channels with room, and hands out its lock in order
\* (process, processADS, processDelta with simple.go).
THEOREM ContractSuffices ==
    KeepsContract => [](LockDiscipline /\ NoMissedUpdate /\ NoMissedDelta /\ AnsweredOnce)
  BY ContractIsSpec, LockDisciplineHolds, NoUpdateIsMissed, NoDeltaIsMissed, WatchesAnsweredOnce, PTL
============================================================================
