------------------------- MODULE LinearCacheProofs -------------------------
(***************************************************************************)
(* Proofs about LinearCache, for all names, resources, streams and bounds. *)
(***************************************************************************)
EXTENDS LinearCache, StreamStateProofs, TLAPS

\* m is a function: what it is is what it maps its domain to.
IsMap(m) == m = [n \in DOMAIN m |-> m[n]]

\* VersionsCurrent with the types it needs.
VersionInv ==
    /\ version \in Nat
    /\ IsMap(resources)
    /\ VersionsCurrent

\* What the functions that change the collection have in common: the names they
\* tell notifyAll of are those in which the new resources may differ.
Named(res, updated, deleted) ==
    /\ res \in ResourceMaps
    /\ updated \in SUBSET Names
    /\ deleted \in SUBSET Names
    /\ updated \cap deleted = {}
    /\ DOMAIN res = (DOMAIN resources \ deleted) \cup updated
    /\ \A n \in DOMAIN res \ (updated \cup deleted) : res[n] = resources[n]

----------------------------------------------------------------------------
(* Maps                                                                    *)

LEMMA MapIs ==
    ASSUME NEW V, NEW m
    PROVE  m \in Maps(V) <=> /\ IsMap(m) /\ DOMAIN m \in SUBSET Names
                             /\ \A n \in DOMAIN m : m[n] \in V
  <1>1. ASSUME m \in Maps(V)
        PROVE  IsMap(m) /\ DOMAIN m \in SUBSET Names /\ \A n \in DOMAIN m : m[n] \in V
    <2>1. PICK D \in SUBSET Names : m \in [D -> V]
      BY <1>1 DEF Maps
    <2> QED
      BY <2>1 DEF IsMap
  <1>2. ASSUME IsMap(m), DOMAIN m \in SUBSET Names, \A n \in DOMAIN m : m[n] \in V
        PROVE  m \in Maps(V)
    <2>1. m \in [DOMAIN m -> V]
      BY <1>2 DEF IsMap
    <2> QED
      BY <1>2, <2>1 DEF Maps
  <1> QED
    BY <1>1, <1>2

\* Putting a resource map over another, or taking names out of one, gives a
\* resource map (UpdateResources, DeleteResource).
LEMMA OverTyped ==
    ASSUME NEW upper \in ResourceMaps, NEW lower \in ResourceMaps
    PROVE  Over(upper, lower) \in ResourceMaps
  <1>1. /\ DOMAIN upper \in SUBSET Names /\ \A n \in DOMAIN upper : upper[n] \in Hashes
        /\ DOMAIN lower \in SUBSET Names /\ \A n \in DOMAIN lower : lower[n] \in Hashes
    BY MapIs DEF ResourceMaps
  <1>2. DOMAIN Over(upper, lower) \in SUBSET Names
    BY <1>1 DEF Over
  <1>3. \A n \in DOMAIN Over(upper, lower) : Over(upper, lower)[n] \in Hashes
    BY <1>1 DEF Over
  <1>4. IsMap(Over(upper, lower))
    BY DEF IsMap, Over
  <1> QED
    BY <1>2, <1>3, <1>4, MapIs DEF ResourceMaps

LEMMA WithoutTyped ==
    ASSUME NEW map \in ResourceMaps, NEW names
    PROVE  Without(map, names) \in ResourceMaps
  BY RestrictMap DEF Without, ResourceMaps

\* Once the version map is that of the resources, the versions a delta watch is
\* compared with are those of the resources.
LEMMA VersionedIsCurrent ==
    ASSUME NEW res, IsMap(res)
    PROVE  Versioned(res, res) = res
  BY DEF Versioned, IsMap

----------------------------------------------------------------------------
(* Changes of the collection                                               *)

\* Whatever changes the collection names what it changes (UpdateResource,
\* DeleteResource, UpdateResources, SetResources).
LEMMA ChangesAreNamed ==
    ASSUME resources \in ResourceMaps,
           \/ \E n \in Names, h \in Hashes : UpdateResource(n, h)
           \/ \E n \in Names : DeleteResource(n)
           \/ \E toUpdate \in ResourceMaps, toDelete \in SUBSET Names :
                    UpdateResources(toUpdate, toDelete)
           \/ \E res \in ResourceMaps : SetResources(res)
    PROVE  \E res, updated, deleted : Named(res, updated, deleted) /\ Modify(res, updated, deleted)
  <1> USE DEF Named
  <1>1. ASSUME NEW n \in Names, NEW h \in Hashes, UpdateResource(n, h)
        PROVE  \E res, updated, deleted : Named(res, updated, deleted) /\ Modify(res, updated, deleted)
    <2> DEFINE new == [x \in {n} |-> h]
               res == Over(new, resources)
    <2>1. new \in ResourceMaps
      BY MapIs DEF ResourceMaps, IsMap
    <2>2. res \in ResourceMaps
      BY <2>1, OverTyped
    <2>3. DOMAIN res = (DOMAIN resources \ {}) \cup {n}
      BY DEF Over
    <2>4. \A x \in DOMAIN res \ ({n} \cup {}) : res[x] = resources[x]
      BY DEF Over
    <2> HIDE DEF res
    <2>5. Named(res, {n}, {})
      BY <2>2, <2>3, <2>4
    <2>6. Modify(res, {n}, {})
      BY <1>1 DEF UpdateResource, res
    <2> QED
      BY <2>5, <2>6
  <1>2. ASSUME NEW n \in Names, DeleteResource(n)
        PROVE  \E res, updated, deleted : Named(res, updated, deleted) /\ Modify(res, updated, deleted)
    <2> DEFINE res == Without(resources, {n})
    <2>1. res \in ResourceMaps
      BY WithoutTyped
    <2>2. DOMAIN res = (DOMAIN resources \ {n}) \cup {}
      BY DEF Without, Restrict
    <2>3. \A x \in DOMAIN res \ ({} \cup {n}) : res[x] = resources[x]
      BY DEF Without, Restrict
    <2> HIDE DEF res
    <2>4. Named(res, {}, {n})
      BY <2>1, <2>2, <2>3
    <2>5. Modify(res, {}, {n})
      BY <1>2 DEF DeleteResource, res
    <2> QED
      BY <2>4, <2>5
  <1>3. ASSUME NEW up \in ResourceMaps, NEW del \in SUBSET Names, UpdateResources(up, del)
        PROVE  \E res, updated, deleted : Named(res, updated, deleted) /\ Modify(res, updated, deleted)
    <2> DEFINE res == Without(Over(up, resources), del)
    <2>1. res \in ResourceMaps
      BY OverTyped, WithoutTyped
    <2>2. DOMAIN res = (DOMAIN resources \ del) \cup (DOMAIN up \ del)
      BY DEF Over, Without, Restrict
    <2>3. \A x \in DOMAIN res \ ((DOMAIN up \ del) \cup del) : res[x] = resources[x]
      BY DEF Over, Without, Restrict
    <2>4. DOMAIN up \in SUBSET Names
      BY MapIs DEF ResourceMaps
    <2> HIDE DEF res
    <2>5. Named(res, DOMAIN up \ del, del)
      BY <2>1, <2>2, <2>3, <2>4
    <2>6. Modify(res, DOMAIN up \ del, del)
      BY <1>3 DEF UpdateResources, res
    <2> QED
      BY <2>5, <2>6
  <1>4. ASSUME NEW res \in ResourceMaps, SetResources(res)
        PROVE  \E r, updated, deleted : Named(r, updated, deleted) /\ Modify(r, updated, deleted)
    <2>1. DOMAIN res \in SUBSET Names /\ DOMAIN resources \in SUBSET Names
      BY MapIs DEF ResourceMaps
    <2>2. Named(res, DOMAIN res, DOMAIN resources \ DOMAIN res)
      BY <2>1
    <2> QED
      BY <1>4, <2>2 DEF SetResources
  <1> QED
    BY <1>1, <1>2, <1>3, <1>4

\* The incremental update of the version map gives the version map of the new
\* resources, if these differ from the old in the modified names only
\* (updateVersionMap).
LEMMA VersionMapFollows ==
    ASSUME NEW old, NEW res, NEW modified, IsMap(res),
           DOMAIN old \ modified = DOMAIN res \ modified,
           \A n \in DOMAIN res \ modified : res[n] = old[n]
    PROVE  UpdatedVersionMap(old, res, modified) = res
  <1>1. (DOMAIN old \ modified) \cup (DOMAIN res \cap modified) = DOMAIN res
    OBVIOUS
  <1>2. \A n \in DOMAIN res : (IF n \in modified THEN res[n] ELSE old[n]) = res[n]
    OBVIOUS
  <1>3. UpdatedVersionMap(old, res, modified) = [n \in DOMAIN res |-> res[n]]
    BY <1>1, <1>2 DEF UpdatedVersionMap
  <1> QED
    BY <1>3 DEF IsMap

\* A change that names every resource it touches keeps the versions current
\* (the part common to UpdateResource, DeleteResource, UpdateResources and
\* SetResources).
LEMMA ModifyKeepsVersions ==
    ASSUME VersionInv, NEW res, NEW updated, NEW deleted, Named(res, updated, deleted),
           Modify(res, updated, deleted)
    PROVE  VersionInv'
  <1> USE DEF Named
  <1>0. IsMap(res)
    BY MapIs DEF ResourceMaps
  <1>1. /\ version' = version + 1 /\ resources' = res
        /\ versionVector' = [n \in (DOMAIN versionVector \ deleted) \cup updated |->
                                IF n \in updated THEN version + 1 ELSE versionVector[n]]
        /\ notifyAll(res, updated \cup deleted)
    BY DEF Modify
  <1>2. /\ DOMAIN versionVector = DOMAIN resources
        /\ \A n \in DOMAIN versionVector : versionVector[n] \in 0 .. version
    BY DEF VersionInv, VersionsCurrent
  <1>3. DOMAIN versionVector' = DOMAIN resources'
    BY <1>1, <1>2
  <1>4. \A n \in DOMAIN versionVector' : versionVector'[n] \in 0 .. version'
    <2> SUFFICES ASSUME NEW n \in DOMAIN versionVector' PROVE versionVector'[n] \in 0 .. version'
      OBVIOUS
    <2>1. CASE n \in updated
      BY <1>1, <2>1 DEF VersionInv
    <2>2. CASE n \notin updated
      <3>1. versionVector'[n] = versionVector[n] /\ n \in DOMAIN versionVector
        BY <1>1, <2>2
      <3> QED
        BY <1>1, <1>2, <3>1 DEF VersionInv
    <2> QED
      BY <2>1, <2>2
  <1>5. versionMap' # NoMap => versionMap' = resources'
    <2>1. CASE versionMap = NoMap
      BY <1>1, <2>1 DEF notifyAll
    <2>2. CASE versionMap # NoMap
      <3>1. versionMap = resources
        BY <2>2 DEF VersionInv, VersionsCurrent
      <3>2. versionMap' = UpdatedVersionMap(versionMap, res, updated \cup deleted)
        BY <1>1, <2>2 DEF notifyAll
      <3>3. UpdatedVersionMap(resources, res, updated \cup deleted) = res
        BY <1>0, VersionMapFollows
      <3> QED
        BY <1>1, <3>1, <3>2, <3>3
    <2> QED
      BY <2>1, <2>2
  <1> QED
    BY <1>0, <1>1, <1>3, <1>4, <1>5 DEF VersionInv, VersionsCurrent

----------------------------------------------------------------------------
(* The inductive invariant of the collection and its delta watches         *)

\* There is a version map as long as there is a delta watch, and no delta watch
\* has anything to report.
DeltaInv ==
    /\ deltaWatches # {} => versionMap # NoMap
    /\ NoMissedDelta

\* Types alone are not inductive: the resources of a delta response have hashes
\* because the version map is that of the resources, and is there to be used.
ContentInv == TypeOK /\ VersionInv /\ DeltaInv

LEMMA ResourceMapsAreVersionMaps == ResourceMaps \subseteq VersionMaps
  <1> SUFFICES ASSUME NEW m \in ResourceMaps PROVE m \in VersionMaps
    OBVIOUS
  <1>1. IsMap(m) /\ DOMAIN m \in SUBSET Names /\ \A n \in DOMAIN m : m[n] \in Hashes
    BY MapIs DEF ResourceMaps
  <1>2. \A n \in DOMAIN m : m[n] \in Hashes \cup {NoHash}
    BY <1>1
  <1> QED
    BY <1>1, <1>2, MapIs DEF VersionMaps

\* A delta response of the collection has the type of one.
LEMMA LinearDeltaTyped ==
    ASSUME NEW st \in StreamStates, NEW res \in ResourceMaps
    PROVE  createDeltaResponse(st, Versioned(res, res))
             \in [resources : ResourceMaps, removed : SUBSET Names, next : VersionMaps]
  <1>1. Versioned(res, res) = res
    BY VersionedIsCurrent, MapIs DEF ResourceMaps
  <1> QED
    BY <1>1, DeltaResponseParts, ResourceMapsAreVersionMaps

\* An answer has the type of a response (respond).
LEMMA AnswerTyped ==
    ASSUME TypeOK, NEW stale
    PROVE  Answer(stale) \in LinearResponses /\ Answer(stale).version = version
  <1>1. Restrict(resources, DOMAIN resources \cap stale) \in ResourceMaps
    BY RestrictMap DEF TypeOK, ResourceMaps
  <1> QED
    BY <1>1 DEF Answer, LinearResponses, TypeOK

\* A change of the collection keeps the types.
LEMMA ModifyType ==
    ASSUME ContentInv, NEW res, NEW updated, NEW deleted, Named(res, updated, deleted),
           Modify(res, updated, deleted)
    PROVE  TypeOK'
  <1>1. TypeOK /\ VersionInv
    BY DEF ContentInv
  <1>2. res \in ResourceMaps /\ updated \in SUBSET Names /\ deleted \in SUBSET Names
    BY DEF Named
  <1>3. versionMap' \in VersionMaps \cup {NoMap}
    <2>1. VersionInv'
      BY <1>1, ModifyKeepsVersions
    <2>2. versionMap' # NoMap => versionMap' = res
      BY <2>1 DEF VersionInv, VersionsCurrent, Modify
    <2> QED
      BY <1>2, <2>2, ResourceMapsAreVersionMaps
  <1>4. /\ resources' \in ResourceMaps
        /\ version' \in Nat
        /\ DOMAIN versionVector' \subseteq Names
        /\ \A n \in DOMAIN versionVector' : versionVector'[n] \in Nat
    BY <1>1, <1>2 DEF Modify, TypeOK
  <1>5. /\ watches' \in [Names -> SUBSET Subscribers]
        /\ watchAll' \subseteq Subscribers
    BY <1>1 DEF Modify, notifyAll, TypeOK
  <1>6. sending' \subseteq [chan : Subscribers, stale : SUBSET Names]
    <2> DEFINE modified == updated \cup deleted
    <2>1. sending' = {[chan |-> k, stale |-> {n \in modified : k \in watches[n]}] :
                          k \in UNION {watches[n] : n \in modified}}
                     \cup {[chan |-> k, stale |-> {}] : k \in watchAll}
      BY DEF Modify, notifyAll
    <2>2. modified \in SUBSET Names
      BY <1>2
    <2> HIDE DEF modified
    <2> QED
      BY <1>1, <2>1, <2>2 DEF TypeOK
  <1>7. deltaSending' \subseteq deltaWatches' /\ deltaWatches' \subseteq DeltaWatches
    BY <1>1 DEF Modify, notifyAll, deltaVars, TypeOK
  <1> QED
    BY <1>1, <1>3, <1>4, <1>5, <1>6, <1>7 DEF Modify, notifyAll, deltaVars, subVars, TypeOK

\* The delta watches that a change leaves alone have nothing to report of it
\* (notifyAll).
LEMMA UnconcernedWatch ==
    ASSUME NEW st, NEW res, NEW updated, NEW deleted, Named(res, updated, deleted),
           ~WatchesResources(st, updated \cup deleted),
           ~ShouldRespond(st, resources)
    PROVE  ~ShouldRespond(st, res)
  <1> DEFINE modified == updated \cup deleted
  <1>1. ~st.wildcard /\ st.subscribed \cap modified = {}
    BY DEF WatchesResources
  <1>2. /\ DOMAIN res = (DOMAIN resources \ deleted) \cup updated
        /\ \A n \in DOMAIN res \ modified : res[n] = resources[n]
    BY DEF Named
  <1>3. InScope(st, res) = InScope(st, resources)
    BY <1>1, <1>2 DEF InScope
  <1>4. \A n \in InScope(st, res) : res[n] = resources[n]
    BY <1>1, <1>2 DEF InScope
  <1>5. Changed(st, res) = {}
    BY <1>3, <1>4 DEF Changed, ShouldRespond
  <1>6. Removed(st, res) = {}
    BY <1>1, <1>2 DEF Removed, ShouldRespond
  <1> QED
    BY <1>1, <1>5, <1>6 DEF ShouldRespond

\* A change of the collection leaves no delta watch behind.
LEMMA ModifyDelta ==
    ASSUME ContentInv, NEW res, NEW updated, NEW deleted, Named(res, updated, deleted),
           Modify(res, updated, deleted)
    PROVE  DeltaInv'
  <1>1. TypeOK /\ VersionInv /\ DeltaInv
    BY DEF ContentInv
  <1> DEFINE modified == updated \cup deleted
             vm == UpdatedVersionMap(versionMap, res, modified)
  <1>2. /\ deltaWatches' = deltaWatches /\ resources' = res /\ deltaSending = {}
    BY DEF Modify, notifyAll, deltaVars, Unlocked
  <1>3. CASE versionMap = NoMap
    BY <1>1, <1>2, <1>3 DEF DeltaInv, NoMissedDelta
  <1>4. CASE versionMap # NoMap
    <2>1. vm = res /\ versionMap' = res
      <3>1. versionMap = resources
        BY <1>1, <1>4 DEF VersionInv, VersionsCurrent
      <3>2. IsMap(res)
        BY MapIs DEF Named, ResourceMaps
      <3>3. vm = res
        BY <3>1, <3>2, VersionMapFollows DEF Named
      <3>4. versionMap' = vm
        BY <1>4 DEF Modify, notifyAll
      <3> QED
        BY <3>3, <3>4
    <2>2. Versioned(res, vm) = res
      BY <2>1, VersionedIsCurrent, MapIs DEF Named, ResourceMaps
    <2>3. deltaSending' = {w \in deltaWatches : /\ WatchesResources(w.state, modified)
                                                /\ ShouldRespond(w.state, Versioned(res, vm))}
      BY <1>4 DEF Modify, notifyAll
    <2>4. ASSUME NEW w \in deltaWatches, w \notin deltaSending'
          PROVE  ~ShouldRespond(w.state, res)
      <3>1. ~ShouldRespond(w.state, resources)
        BY <1>1, <1>2 DEF DeltaInv, NoMissedDelta
      <3>2. CASE WatchesResources(w.state, modified)
        BY <2>2, <2>3, <2>4, <3>2
      <3>3. CASE ~WatchesResources(w.state, modified)
        BY <3>1, <3>3, UnconcernedWatch
      <3> QED
        BY <3>2, <3>3
    <2>5. versionMap' # NoMap
      BY <2>1, ResourceMapsAreVersionMaps, MapAssumption DEF Named
    <2> QED
      BY <1>2, <2>4, <2>5 DEF DeltaInv, NoMissedDelta
  <1> QED
    BY <1>3, <1>4

\* A stream's part of the cache keeps the types.
LEMMA StreamType ==
    ASSUME TypeOK, NEW k \in Subscribers, StreamActs(k)
    PROVE  TypeOK'
  <1>1. CASE TakeRequest(k)
    BY <1>1 DEF TypeOK, TakeRequest, contentVars, watchVars, deltaVars, lockVars
  <1>2. CASE CancelWatch(k)
    BY <1>2 DEF TypeOK, CancelWatch, contentVars, deltaVars, lockVars
  <1>3. CASE CreateWatch(k)
    <2>1. \A stale : <<Answer(stale)>> \in Seq(LinearResponses)
      BY AnswerTyped
    <2>2. responses' \in [Subscribers -> Seq(LinearResponses)]
      <3>1. PICK b \in Seq(LinearResponses) : responses' = [responses EXCEPT ![k] = b]
        <4>1. <<>> \in Seq(LinearResponses)
          OBVIOUS
        <4> QED
          BY <1>3, <2>1, <4>1 DEF CreateWatch
      <3> QED
        BY <3>1 DEF TypeOK
    <2>3. watches' \in [Names -> SUBSET Subscribers] /\ watchAll' \subseteq Subscribers
      <3>1. CASE UNCHANGED watchVars
        BY <3>1 DEF TypeOK, watchVars
      <3>2. CASE ~UNCHANGED watchVars
        <4>1. /\ watches' = [n \in Names |-> IF n \in sub[k].names THEN watches[n] \cup {k} ELSE watches[n]]
              /\ watchAll' = IF sub[k].names = {} THEN watchAll \cup {k} ELSE watchAll
          BY <1>3, <3>2 DEF CreateWatch
        <4> QED
          BY <4>1 DEF TypeOK
      <3> QED
        BY <3>1, <3>2
    <2>4. cancels' \in [Subscribers -> BOOLEAN]
      BY <1>3 DEF TypeOK, CreateWatch
    <2> QED
      BY <1>3, <2>2, <2>3, <2>4 DEF TypeOK, CreateWatch, contentVars, deltaVars, lockVars
  <1>4. CASE Deliver(k)
    <2> DEFINE r == Head(responses[k])
               content == IF sub[k].names = {} THEN r.resources ELSE Over(r.resources, sub[k].content)
    <2>1. r \in LinearResponses /\ Tail(responses[k]) \in Seq(LinearResponses)
      BY <1>4 DEF TypeOK, Deliver
    <2>2. r.version \in VersionInfos /\ r.resources \in ResourceMaps
      BY <2>1 DEF LinearResponses, VersionInfos
    <2>3. sub[k] \in [names : SUBSET Names, version : VersionInfos, content : ResourceMaps]
      BY DEF TypeOK
    <2>4. content \in ResourceMaps
      BY <2>2, <2>3, OverTyped
    <2>5. sub' = [sub EXCEPT ![k].version = r.version, ![k].content = content]
      BY <1>4 DEF Deliver
    <2> HIDE DEF content
    <2>6. sub' \in [Subscribers -> [names : SUBSET Names, version : VersionInfos, content : ResourceMaps]]
      BY <2>2, <2>3, <2>4, <2>5 DEF TypeOK
    <2>7. responses' \in [Subscribers -> Seq(LinearResponses)]
      BY <1>4, <2>1 DEF TypeOK, Deliver
    <2> QED
      BY <1>4, <2>6, <2>7 DEF TypeOK, Deliver, contentVars, watchVars, deltaVars, lockVars
  <1>5. CASE Shutdown(k)
    <2>1. watches' \in [Names -> SUBSET Subscribers] /\ watchAll' \subseteq Subscribers
      BY <1>5 DEF TypeOK, Shutdown, watchVars
    <2>2. responses' \in [Subscribers -> Seq(LinearResponses)]
      <3>1. <<>> \in Seq(LinearResponses)
        OBVIOUS
      <3> QED
        BY <1>5, <3>1 DEF TypeOK, Shutdown
    <2>3. pc' \in [Subscribers -> {"select", "cancel", "create", "closing", "gone"}]
      BY <1>5 DEF TypeOK, Shutdown
    <2>4. cancels' \in [Subscribers -> BOOLEAN]
      BY <1>5 DEF TypeOK, Shutdown
    <2> QED
      BY <1>5, <2>1, <2>2, <2>3, <2>4 DEF TypeOK, Shutdown, contentVars, deltaVars, lockVars
  <1> QED
    BY <1>1, <1>2, <1>3, <1>4, <1>5 DEF StreamActs

\* Answering the watches keeps the types.
LEMMA SendType ==
    ASSUME ContentInv, (\E p \in sending : Send(p)) \/ (\E w \in deltaSending : SendDelta(w))
    PROVE  TypeOK'
  <1>0. TypeOK
    BY DEF ContentInv
  <1>1. ASSUME NEW p \in sending, Send(p) PROVE TypeOK'
    <2>1. p.chan \in Subscribers
      BY <1>0 DEF TypeOK
    <2>2. Append(responses[p.chan], Answer(p.stale)) \in Seq(LinearResponses)
      <3>1. Answer(p.stale) \in LinearResponses
        BY <1>0, AnswerTyped
      <3>2. responses[p.chan] \in Seq(LinearResponses)
        BY <1>0, <2>1 DEF TypeOK
      <3> QED
        BY <3>1, <3>2
    <2>3. responses' \in [Subscribers -> Seq(LinearResponses)]
      BY <1>0, <1>1, <2>1, <2>2 DEF TypeOK, Send
    <2> QED
      BY <1>0, <1>1, <2>3 DEF TypeOK, Send, contentVars, watchVars, deltaVars, subVars
  <1>2. ASSUME NEW w \in deltaSending, SendDelta(w) PROVE TypeOK'
    <2> DEFINE D == [resources : ResourceMaps, removed : SUBSET Names, next : VersionMaps]
               r == createDeltaResponse(w.state, Versioned(resources, versionMap))
    <2>1. w \in deltaWatches /\ w.chan \in DeltaChannels /\ w.state \in StreamStates
      BY <1>0 DEF TypeOK, DeltaWatches
    <2>2. versionMap = resources /\ resources \in ResourceMaps
      BY <1>0, <2>1 DEF ContentInv, DeltaInv, VersionInv, VersionsCurrent, TypeOK
    <2>3. r \in D
      BY <2>1, <2>2, LinearDeltaTyped
    <2>4. deltaResponses \in [DeltaChannels -> Seq(D)]
      BY <1>0 DEF TypeOK
    <2>5. deltaResponses' = [deltaResponses EXCEPT ![w.chan] = Append(@, r)]
      BY <1>2 DEF SendDelta
    <2> HIDE DEF r, D
    <2>6. deltaResponses' \in [DeltaChannels -> Seq(D)]
      BY <2>1, <2>3, <2>4, <2>5
    <2> QED
      BY <1>0, <1>2, <2>6 DEF TypeOK, SendDelta, contentVars, watchVars, subVars, D
  <1> QED
    BY <1>1, <1>2

\* CreateDeltaWatch keeps the types, the version map it may build included.
LEMMA CreateDeltaContent ==
    ASSUME ContentInv, NEW st \in StreamStates, NEW c \in DeltaChannels, CreateDelta(st, c)
    PROVE  ContentInv'
  <1>0. TypeOK /\ VersionInv /\ DeltaInv
    BY DEF ContentInv
  <1> DEFINE D == [resources : ResourceMaps, removed : SUBSET Names, next : VersionMaps]
             r == createDeltaResponse(st, Versioned(resources, BuiltVersionMap))
             w == [id |-> deltaWatchCount + 1, chan |-> c, state |-> st]
  <1>1. BuiltVersionMap = resources /\ resources \in ResourceMaps
    BY <1>0 DEF BuiltVersionMap, VersionInv, VersionsCurrent, TypeOK
  <1>2. Versioned(resources, BuiltVersionMap) = resources /\ r \in D
    BY <1>1, LinearDeltaTyped, VersionedIsCurrent, MapIs DEF ResourceMaps
  <1>3. /\ versionMap' = resources /\ versionMap' \in VersionMaps /\ versionMap' # NoMap
        /\ resources' = resources /\ version' = version /\ versionVector' = versionVector
        /\ deltaSending = {} /\ deltaSending' = {}
    BY <1>1, ResourceMapsAreVersionMaps, MapAssumption
       DEF CreateDelta, CreateDeltaWatch, Unlocked, lockVars
  <1>4. VersionInv'
    BY <1>0, <1>3 DEF VersionInv, VersionsCurrent
  <1>5. CASE ~ShouldRespond(st, resources)
    <2>1. /\ deltaWatches' = deltaWatches \cup {w} /\ deltaWatchCount' = deltaWatchCount + 1
          /\ deltaResponses' = deltaResponses
      BY <1>2, <1>5 DEF CreateDelta, CreateDeltaWatch
    <2>2. w \in DeltaWatches
      BY <1>0 DEF DeltaWatches, TypeOK
    <2>3. /\ deltaWatches' \subseteq DeltaWatches /\ deltaWatchCount' \in Nat
          /\ deltaSending' \subseteq deltaWatches'
      BY <1>0, <1>3, <2>1, <2>2 DEF TypeOK
    <2> HIDE DEF w
    <2>4. TypeOK'
      BY <1>0, <1>3, <2>1, <2>3 DEF TypeOK, CreateDelta, CreateDeltaWatch, watchVars, lockVars, subVars
    <2>5. DeltaInv'
      BY <1>0, <1>3, <1>5, <2>1 DEF DeltaInv, NoMissedDelta, w
    <2> QED
      BY <1>4, <2>4, <2>5 DEF ContentInv
  <1>6. CASE ShouldRespond(st, resources)
    <2>1. /\ deltaWatches' = deltaWatches /\ deltaWatchCount' = deltaWatchCount
          /\ deltaResponses' = [deltaResponses EXCEPT ![c] = Append(@, r)]
      BY <1>2, <1>6 DEF CreateDelta, CreateDeltaWatch
    <2>2. deltaResponses \in [DeltaChannels -> Seq(D)]
      BY <1>0 DEF TypeOK
    <2> HIDE DEF r, D
    <2>3. deltaResponses' \in [DeltaChannels -> Seq(D)]
      BY <1>2, <2>1, <2>2
    <2>4. TypeOK'
      BY <1>0, <1>3, <2>1, <2>3
         DEF TypeOK, CreateDelta, CreateDeltaWatch, watchVars, lockVars, subVars, D
    <2>5. DeltaInv'
      BY <1>0, <1>3, <2>1 DEF DeltaInv, NoMissedDelta
    <2> QED
      BY <1>4, <2>4, <2>5 DEF ContentInv
  <1> QED
    BY <1>5, <1>6

\* Every step keeps the content's invariant.
LEMMA StepContent ==
    ASSUME ContentInv, [Next]_vars
    PROVE  ContentInv'
  <1>0. TypeOK /\ VersionInv /\ DeltaInv
    BY DEF ContentInv
  <1>1. CASE \/ \E n \in Names, h \in Hashes : UpdateResource(n, h)
             \/ \E n \in Names : DeleteResource(n)
             \/ \E toUpdate \in ResourceMaps, toDelete \in SUBSET Names :
                    UpdateResources(toUpdate, toDelete)
             \/ \E res \in ResourceMaps : SetResources(res)
    <2>1. PICK res, updated, deleted : Named(res, updated, deleted) /\ Modify(res, updated, deleted)
      BY <1>0, <1>1, ChangesAreNamed DEF TypeOK
    <2> QED
      BY <1>0, <2>1, ModifyType, ModifyKeepsVersions, ModifyDelta DEF ContentInv
  <1>2. ASSUME NEW st \in StreamStates, NEW c \in DeltaChannels, CreateDelta(st, c)
        PROVE  ContentInv'
    BY <1>2, CreateDeltaContent
  <1>3. ASSUME TypeOK', UNCHANGED contentVars, deltaWatches' \subseteq deltaWatches,
               deltaSending \cap deltaWatches' \subseteq deltaSending'
        PROVE  ContentInv'
    <2>1. VersionInv'
      BY <1>0, <1>3 DEF contentVars, VersionInv, VersionsCurrent
    <2>2. DeltaInv'
      BY <1>0, <1>3 DEF contentVars, DeltaInv, NoMissedDelta
    <2> QED
      BY <1>3, <2>1, <2>2 DEF ContentInv
  <1>4. CASE (\E p \in sending : Send(p)) \/ (\E w \in deltaSending : SendDelta(w))
    <2>1. /\ UNCHANGED contentVars /\ deltaWatches' \subseteq deltaWatches
          /\ deltaSending \cap deltaWatches' \subseteq deltaSending'
      BY <1>4 DEF Send, SendDelta, deltaVars
    <2> QED
      BY <1>3, <1>4, <2>1, SendType
  <1>5. ASSUME NEW k \in Subscribers, StreamActs(k) PROVE ContentInv'
    <2>1. UNCHANGED <<contentVars, deltaVars, lockVars>>
      BY <1>5 DEF StreamActs, TakeRequest, CancelWatch, CreateWatch, Deliver, Shutdown
    <2> QED
      BY <1>0, <1>3, <1>5, <2>1, StreamType DEF deltaVars, lockVars
  <1>6. ASSUME NEW k \in Subscribers, NEW names \in Interest, ChangeNames(k, names) PROVE ContentInv'
    <2>1. names \in SUBSET Names
      BY InterestAssumption
    <2>2. TypeOK'
      BY <1>0, <1>6, <2>1 DEF TypeOK, ChangeNames, contentVars, watchVars, deltaVars, lockVars
    <2> QED
      BY <1>3, <1>6, <2>2 DEF ChangeNames, deltaVars, lockVars
  <1>7. ASSUME NEW k \in Subscribers, Leave(k) \/ Return(k) PROVE ContentInv'
    <2>1. CASE Leave(k)
      <3>1. /\ pc' \in [Subscribers -> {"select", "cancel", "create", "closing", "gone"}]
            /\ due' \in [Subscribers -> BOOLEAN]
        BY <1>0, <2>1 DEF TypeOK, Leave
      <3>2. leaves' \in Nat
        BY <1>0, <2>1 DEF TypeOK, Leave
      <3>3. TypeOK'
        BY <1>0, <2>1, <3>1, <3>2 DEF TypeOK, Leave, contentVars, watchVars, deltaVars, lockVars
      <3> QED
        BY <1>3, <2>1, <3>3 DEF Leave, deltaVars, lockVars
    <2>2. CASE Return(k)
      <3>1. TypeOK'
        BY <1>0, <2>2 DEF TypeOK, Return, contentVars, watchVars, deltaVars, lockVars
      <3> QED
        BY <1>3, <2>2, <3>1 DEF Return, deltaVars, lockVars
    <2> QED
      BY <1>7, <2>1, <2>2
  <1>8. ASSUME NEW w \in deltaWatches, CancelDeltaWatch(w) PROVE ContentInv'
    <2>1. TypeOK'
      BY <1>0, <1>8 DEF TypeOK, CancelDeltaWatch, Unlocked, contentVars, watchVars, lockVars, subVars
    <2> QED
      BY <1>3, <1>8, <2>1 DEF CancelDeltaWatch, lockVars
  <1>9. ASSUME NEW c \in DeltaChannels, ReceiveDelta(c) PROVE ContentInv'
    <2> DEFINE D == [resources : ResourceMaps, removed : SUBSET Names, next : VersionMaps]
    <2>0. deltaResponses' \in [DeltaChannels -> Seq(D)]
      <3>1. deltaResponses \in [DeltaChannels -> Seq(D)]
        BY <1>0 DEF TypeOK
      <3> HIDE DEF D
      <3>2. Tail(deltaResponses[c]) \in Seq(D)
        BY <1>9, <3>1 DEF ReceiveDelta
      <3> QED
        BY <1>9, <3>1, <3>2 DEF ReceiveDelta
    <2>1. TypeOK'
      BY <1>0, <1>9, <2>0 DEF TypeOK, ReceiveDelta, contentVars, watchVars, lockVars, subVars
    <2> QED
      BY <1>3, <1>9, <2>1 DEF ReceiveDelta, lockVars
  <1>10. CASE UNCHANGED vars
    <2>1. TypeOK'
      BY <1>0, <1>10 DEF TypeOK, vars, contentVars, watchVars, deltaVars, lockVars, subVars
    <2> QED
      BY <1>3, <1>10, <2>1 DEF vars, deltaVars, lockVars
  <1> QED
    BY <1>1, <1>2, <1>4, <1>5, <1>6, <1>7, <1>8, <1>9, <1>10 DEF Next

LEMMA InitContent == Init => ContentInv
  <1> SUFFICES ASSUME Init PROVE ContentInv
    OBVIOUS
  <1>1. IsMap(InitialResources) /\ DOMAIN InitialResources \in SUBSET Names
    BY InitialAssumption, MapIs DEF ResourceMaps
  <1>2. EmptyMap \in ResourceMaps
    BY MapIs DEF EmptyMap, ResourceMaps, IsMap
  <1>3. TypeOK
    BY <1>1, <1>2, InitialAssumption, InterestAssumption DEF Init, TypeOK, VersionInfos
  <1>4. VersionInv
    BY <1>1 DEF Init, VersionInv, VersionsCurrent
  <1>5. DeltaInv
    BY DEF Init, DeltaInv, NoMissedDelta
  <1> QED
    BY <1>3, <1>4, <1>5 DEF ContentInv

LEMMA ContentInvariant == Spec => []ContentInv
  BY InitContent, StepContent, PTL DEF Spec

\* The types of the linear cache's state.
THEOREM LinearTypeCorrect == Spec => []TypeOK
  <1>1. ContentInv => TypeOK
    BY DEF ContentInv
  <1> QED
    BY <1>1, ContentInvariant, PTL

\* However the collection is changed, its version vector and, once there is one,
\* its incrementally maintained version map are those of its resources.
THEOREM VersionsStayCurrent == Spec => []VersionsCurrent
  <1>1. ContentInv => VersionsCurrent
    BY DEF ContentInv, VersionInv
  <1> QED
    BY <1>1, ContentInvariant, PTL

\* No delta watch of a linear cache misses a change: notifyAll only looks at the
\* watches of the modified names, and compares them with a version map that is
\* maintained incrementally.
THEOREM NoLinearDeltaIsMissed == Spec => []NoMissedDelta
  <1>1. ContentInv => NoMissedDelta
    BY DEF ContentInv, DeltaInv
  <1> QED
    BY <1>1, ContentInvariant, PTL

----------------------------------------------------------------------------
(* The versions the clients of open watches have                           *)

\* A client with an open watch has a version not older than the last change of what
\* it watches, and what its channel still holds does not set it back.
SeenInv ==
    \A k \in Subscribers :
        /\ k \in watchAll =>
              /\ sub[k].version = version
              /\ \A i \in DOMAIN responses[k] : responses[k][i].version = version
        /\ \A n \in DOMAIN versionVector : k \in watches[n] =>
              /\ sub[k].version \in Nat /\ sub[k].version >= versionVector[n]
              /\ \A i \in DOMAIN responses[k] : responses[k][i].version >= versionVector[n]

\* A step that opens no watch and leaves clients and versions alone keeps it, if
\* what it puts into the channels has the version of the collection.
LEMMA SeenKept ==
    ASSUME ContentInv, SeenInv,
           version' = version, versionVector' = versionVector,
           watchAll' \subseteq watchAll, \A n \in Names : watches'[n] \subseteq watches[n],
           \A k \in Subscribers : sub'[k].version = sub[k].version,
           \A k \in Subscribers : \A i \in DOMAIN responses'[k] :
                \/ responses'[k][i].version = version
                \/ i \in DOMAIN responses[k] /\ responses'[k][i] = responses[k][i]
    PROVE  SeenInv'
  <1>1. /\ version \in Nat
        /\ DOMAIN versionVector \subseteq Names
        /\ \A n \in DOMAIN versionVector : versionVector[n] \in 0 .. version
    BY DEF ContentInv, VersionInv, VersionsCurrent, TypeOK
  <1> SUFFICES ASSUME NEW k \in Subscribers
               PROVE  /\ k \in watchAll' =>
                            /\ sub'[k].version = version'
                            /\ \A i \in DOMAIN responses'[k] : responses'[k][i].version = version'
                      /\ \A n \in DOMAIN versionVector' : k \in watches'[n] =>
                            /\ sub'[k].version \in Nat /\ sub'[k].version >= versionVector'[n]
                            /\ \A i \in DOMAIN responses'[k] :
                                  responses'[k][i].version >= versionVector'[n]
    BY DEF SeenInv
  <1>2. k \in watchAll' => /\ sub'[k].version = version'
                           /\ \A i \in DOMAIN responses'[k] : responses'[k][i].version = version'
    BY DEF SeenInv
  <1>3. ASSUME NEW n \in DOMAIN versionVector', k \in watches'[n]
        PROVE  /\ sub'[k].version \in Nat /\ sub'[k].version >= versionVector'[n]
               /\ \A i \in DOMAIN responses'[k] : responses'[k][i].version >= versionVector'[n]
    <2>1. n \in DOMAIN versionVector /\ k \in watches[n]
      BY <1>1, <1>3
    <2>2. versionVector'[n] <= version
      BY <1>1, <2>1
    <2>3. sub'[k].version \in Nat /\ sub'[k].version >= versionVector'[n]
      BY <2>1 DEF SeenInv
    <2>4. \A i \in DOMAIN responses[k] : responses[k][i].version >= versionVector[n]
      BY <2>1 DEF SeenInv
    <2>5. ASSUME NEW i \in DOMAIN responses'[k] PROVE responses'[k][i].version >= versionVector'[n]
      <3>1. CASE responses'[k][i].version = version
        BY <1>1, <2>1, <2>2, <3>1
      <3>2. CASE i \in DOMAIN responses[k] /\ responses'[k][i] = responses[k][i]
        BY <2>4, <3>2
      <3> QED
        BY <3>1, <3>2
    <2> QED
      BY <2>3, <2>5
  <1> QED
    BY <1>2, <1>3

\* A change of the collection takes the watches of what it changes.
LEMMA ModifySeen ==
    ASSUME ContentInv, SeenInv, NEW res, NEW updated, NEW deleted, Named(res, updated, deleted),
           Modify(res, updated, deleted)
    PROVE  SeenInv'
  <1>1. watchAll' = {} /\ sub' = sub /\ responses' = responses
    BY DEF Modify, notifyAll, subVars
  <1>2. ASSUME NEW k \in Subscribers, NEW n \in DOMAIN versionVector', k \in watches'[n]
        PROVE  /\ n \in DOMAIN versionVector /\ k \in watches[n]
               /\ versionVector'[n] = versionVector[n]
    <2>1. /\ DOMAIN versionVector' = (DOMAIN versionVector \ deleted) \cup updated
          /\ n \notin updated => versionVector'[n] = versionVector[n]
      BY DEF Modify
    <2>2. n \in Names
      BY <2>1 DEF ContentInv, TypeOK, Named
    <2>3. n \notin updated \cup deleted /\ k \in watches[n]
      BY <1>2, <2>2 DEF Modify, notifyAll
    <2> QED
      BY <2>1, <2>3
  <1> QED
    BY <1>1, <1>2 DEF SeenInv

\* A watch that CreateWatch opens is up to date.
LEMMA CreateWatchSeen ==
    ASSUME ContentInv, SeenInv, NEW k \in Subscribers, CreateWatch(k)
    PROVE  SeenInv'
  <1>0. TypeOK
    BY DEF ContentInv
  <1>1. /\ version' = version /\ versionVector' = versionVector /\ sub' = sub
        /\ \A j \in Subscribers \ {k} : responses'[j] = responses[j]
    BY <1>0 DEF CreateWatch, contentVars, TypeOK
  <1>2. CASE Stale(sub[k].names, sub[k].version)
    <2>1. UNCHANGED watchVars
      BY <1>2 DEF CreateWatch
    <2>2. responses'[k] = <<Answer(Reported(sub[k].names, sub[k].version))>>
      BY <1>0, <1>2 DEF CreateWatch, TypeOK
    <2>3. \A i \in DOMAIN responses'[k] : responses'[k][i].version = version
      BY <1>0, <2>2, AnswerTyped
    <2> QED
      BY <1>1, <2>1, <2>3, SeenKept DEF watchVars
  <1>3. CASE ~Stale(sub[k].names, sub[k].version)
    <2>1. /\ responses'[k] = <<>>
          /\ watches' = [n \in Names |-> IF n \in sub[k].names THEN watches[n] \cup {k} ELSE watches[n]]
          /\ watchAll' = IF sub[k].names = {} THEN watchAll \cup {k} ELSE watchAll
      BY <1>0, <1>3 DEF CreateWatch, TypeOK
    <2>2. DOMAIN versionVector \subseteq Names
      BY <1>0 DEF TypeOK
    <2>3. ASSUME NEW j \in Subscribers, j # k
          PROVE  /\ responses'[j] = responses[j] /\ (j \in watchAll' <=> j \in watchAll)
                 /\ \A n \in DOMAIN versionVector : j \in watches'[n] <=> j \in watches[n]
      BY <1>1, <2>1, <2>2, <2>3
    <2>4. sub[k].version # NoVersion
      BY <1>3 DEF Stale
    <2>5. sub[k].version \in Nat
      BY <1>0, <2>4 DEF TypeOK, VersionInfos
    <2>6. k \in watchAll' => sub[k].version = version
      <3>1. CASE sub[k].names = {}
        BY <1>3, <2>4, <3>1 DEF Stale
      <3>2. CASE sub[k].names # {}
        BY <2>1, <3>2 DEF SeenInv
      <3> QED
        BY <3>1, <3>2
    <2>7. ASSUME NEW n \in DOMAIN versionVector, k \in watches'[n]
          PROVE  sub[k].version >= versionVector[n]
      <3>0. versionVector[n] \in Nat
        BY <1>0 DEF TypeOK
      <3>1. CASE n \in sub[k].names
        <4>1. n \notin StaleNames(sub[k].names, sub[k].version)
          BY <1>3, <2>4, <3>1 DEF Stale
        <4> QED
          BY <2>5, <3>0, <3>1, <4>1 DEF StaleNames
      <3>2. CASE n \notin sub[k].names
        BY <2>1, <2>2, <2>7, <3>2 DEF SeenInv
      <3> QED
        BY <3>1, <3>2
    <2>8. DOMAIN responses'[k] = {}
      BY <2>1
    <2> QED
      BY <1>1, <2>3, <2>5, <2>6, <2>7, <2>8 DEF SeenInv
  <1> QED
    BY <1>2, <1>3

\* A response that is delivered brings its client no further back than it was.
LEMMA DeliverSeen ==
    ASSUME ContentInv, SeenInv, NEW k \in Subscribers, Deliver(k)
    PROVE  SeenInv'
  <1>0. TypeOK
    BY DEF ContentInv
  <1>1. /\ version' = version /\ versionVector' = versionVector
        /\ watches' = watches /\ watchAll' = watchAll
        /\ \A j \in Subscribers \ {k} : sub'[j] = sub[j] /\ responses'[j] = responses[j]
    BY <1>0 DEF Deliver, TypeOK, contentVars, watchVars
  <1> DEFINE b == responses[k]
  <1>2. b \in Seq(LinearResponses) /\ b # <<>> /\ responses'[k] = Tail(b)
    BY <1>0 DEF Deliver, TypeOK
  <1>3. sub'[k].version = Head(b).version
    BY <1>0 DEF Deliver, TypeOK
  <1>4. 1 \in DOMAIN b /\ Head(b) = b[1] /\ b[1].version \in Nat
    <2>1. 1 \in DOMAIN b /\ Head(b) = b[1] /\ b[1] \in LinearResponses
      BY <1>2
    <2> QED
      BY <2>1 DEF LinearResponses
  <1>5. \A i \in DOMAIN Tail(b) : i + 1 \in DOMAIN b /\ Tail(b)[i] = b[i + 1]
    BY <1>2
  <1> HIDE DEF b
  <1>6. \A j \in DOMAIN responses'[k] : \E i \in DOMAIN b : responses'[k][j] = b[i]
    BY <1>2, <1>5
  <1>7. ASSUME k \in watchAll
        PROVE  /\ sub'[k].version = version
               /\ \A i \in DOMAIN responses'[k] : responses'[k][i].version = version
    BY <1>3, <1>4, <1>6, <1>7 DEF SeenInv, b
  <1>8. ASSUME NEW n \in DOMAIN versionVector, k \in watches[n]
        PROVE  /\ sub'[k].version \in Nat /\ sub'[k].version >= versionVector[n]
               /\ \A i \in DOMAIN responses'[k] : responses'[k][i].version >= versionVector[n]
    <2>1. \A i \in DOMAIN b : b[i].version >= versionVector[n]
      BY <1>8 DEF SeenInv, b
    <2> QED
      BY <1>3, <1>4, <1>6, <2>1
  <1> QED
    BY <1>1, <1>7, <1>8 DEF SeenInv

\* Every step keeps that.
LEMMA StepSeen ==
    ASSUME ContentInv, SeenInv, [Next]_vars
    PROVE  SeenInv'
  <1>0. TypeOK
    BY DEF ContentInv
  <1>1. CASE \/ \E n \in Names, h \in Hashes : UpdateResource(n, h)
             \/ \E n \in Names : DeleteResource(n)
             \/ \E toUpdate \in ResourceMaps, toDelete \in SUBSET Names :
                    UpdateResources(toUpdate, toDelete)
             \/ \E res \in ResourceMaps : SetResources(res)
    <2>1. PICK res, updated, deleted : Named(res, updated, deleted) /\ Modify(res, updated, deleted)
      BY <1>0, <1>1, ChangesAreNamed DEF TypeOK
    <2> QED
      BY <2>1, ModifySeen
  <1>2. ASSUME NEW p \in sending, Send(p) PROVE SeenInv'
    <2>1. p.chan \in Subscribers /\ responses[p.chan] \in Seq(LinearResponses)
      BY <1>0 DEF TypeOK
    <2>2. responses' = [responses EXCEPT ![p.chan] = Append(responses[p.chan], Answer(p.stale))]
      BY <1>2 DEF Send
    <2>3. Answer(p.stale) \in LinearResponses /\ Answer(p.stale).version = version
      BY <1>0, AnswerTyped
    <2>4. \A k \in Subscribers : \A i \in DOMAIN responses'[k] :
                \/ responses'[k][i].version = version
                \/ i \in DOMAIN responses[k] /\ responses'[k][i] = responses[k][i]
      <3> SUFFICES ASSUME NEW k \in Subscribers, NEW i \in DOMAIN responses'[k]
                   PROVE  \/ responses'[k][i].version = version
                          \/ i \in DOMAIN responses[k] /\ responses'[k][i] = responses[k][i]
        OBVIOUS
      <3>1. CASE k # p.chan
        BY <1>0, <2>2, <3>1 DEF TypeOK
      <3>2. CASE k = p.chan
        <4>1. responses'[k] = Append(responses[k], Answer(p.stale))
          BY <1>0, <2>2, <3>2 DEF TypeOK
        <4> QED
          BY <2>1, <2>3, <3>2, <4>1
      <3> QED
        BY <3>1, <3>2
    <2> QED
      BY <1>2, <2>4, SeenKept DEF Send, contentVars, watchVars, subVars
  <1>3. ASSUME NEW k \in Subscribers, StreamActs(k) PROVE SeenInv'
    <2>1. CASE CreateWatch(k)
      BY <2>1, CreateWatchSeen
    <2>2. CASE Deliver(k)
      BY <2>2, DeliverSeen
    <2>3. CASE TakeRequest(k) \/ CancelWatch(k) \/ Shutdown(k)
      <3>1. /\ version' = version /\ versionVector' = versionVector /\ sub' = sub
            /\ watchAll' \subseteq watchAll /\ \A n \in Names : watches'[n] \subseteq watches[n]
        BY <2>3 DEF TakeRequest, CancelWatch, Shutdown, contentVars, watchVars
      <3>2. \A j \in Subscribers : responses'[j] = responses[j] \/ responses'[j] = <<>>
        BY <1>0, <2>3 DEF TakeRequest, CancelWatch, Shutdown, TypeOK
      <3> QED
        BY <3>1, <3>2, SeenKept
    <2> QED
      BY <1>3, <2>1, <2>2, <2>3 DEF StreamActs
  <1>4. CASE \/ \E w \in deltaSending : SendDelta(w)
             \/ \E k \in Subscribers, names \in Interest : ChangeNames(k, names)
             \/ \E k \in Subscribers : Leave(k)
             \/ \E k \in Subscribers : Return(k)
             \/ \E st \in StreamStates, c \in DeltaChannels : CreateDelta(st, c)
             \/ \E w \in deltaWatches : CancelDeltaWatch(w)
             \/ \E c \in DeltaChannels : ReceiveDelta(c)
             \/ UNCHANGED vars
    <2>1. /\ version' = version /\ versionVector' = versionVector /\ responses' = responses
          /\ watches' = watches /\ watchAll' = watchAll
      BY <1>4 DEF SendDelta, ChangeNames, Leave, Return, CreateDelta, CreateDeltaWatch,
                  CancelDeltaWatch, ReceiveDelta, vars, contentVars, watchVars
    <2>2. \A k \in Subscribers : sub'[k].version = sub[k].version
      <3>1. CASE \E k \in Subscribers, names \in Interest : ChangeNames(k, names)
        BY <1>0, <3>1 DEF ChangeNames, TypeOK
      <3>2. CASE sub' = sub
        BY <3>2
      <3> QED
        BY <1>4, <3>1, <3>2 DEF SendDelta, Leave, Return, CreateDelta, CreateDeltaWatch,
                                CancelDeltaWatch, ReceiveDelta, vars, subVars
    <2> QED
      BY <2>1, <2>2, SeenKept
  <1> QED
    BY <1>1, <1>2, <1>3, <1>4 DEF Next

\* By the versions, every open watch of a linear cache waits for a change that is yet
\* to come, although a channel that waits for several names is answered for some of
\* them and keeps waiting for the rest, and although the client's names and version
\* change while answers are under way (CreateWatch, notifyAll).
THEOREM LinearWatchesAwaitChanges == Spec => []WatchesAwaitChanges
  <1>1. Init => SeenInv
    BY InitContent DEF Init, SeenInv, ContentInv, TypeOK
  <1>2. SeenInv /\ ContentInv => WatchesAwaitChanges
    <2> SUFFICES ASSUME SeenInv, ContentInv PROVE WatchesAwaitChanges
      OBVIOUS
    <2>1. \A n \in DOMAIN versionVector, k \in Subscribers : k \in watches[n] =>
             sub[k].version # NoVersion /\ sub[k].version >= versionVector[n]
      BY MapAssumption DEF SeenInv
    <2> QED
      BY <2>1 DEF SeenInv, WatchesAwaitChanges
  <1> QED
    BY <1>1, <1>2, StepSeen, InitContent, StepContent, PTL DEF Spec

----------------------------------------------------------------------------
(* What the streams wait for                                               *)

\* The stream of k has a watch open, or an answer to one is being sent.
Awaits(k) ==
    \/ k \in watchAll
    \/ \E n \in Names : k \in watches[n]
    \/ \E p \in sending : p.chan = k

\* A stream holds the cancel function of what it awaits, and awaits nothing
\* when it creates its next watch or has ended.
StrayInv ==
    \A k \in Subscribers :
        /\ Awaits(k) => cancels[k] /\ pc[k] \notin {"create", "gone"}
        /\ pc[k] # "select" => ~due[k]
        /\ pc[k] = "select" /\ ~due[k] =>
              /\ \A n \in Names : k \in watches[n] => n \in sub[k].names
              /\ k \in watchAll => sub[k].names = {}

\* A change of the collection answers only who has a watch open.
LEMMA ModifyAwaits ==
    ASSUME TypeOK, NEW res, NEW updated, NEW deleted, Named(res, updated, deleted),
           Modify(res, updated, deleted), NEW k, Awaits(k)'
    PROVE  Awaits(k)
  <1>1. updated \cup deleted \in SUBSET Names
    BY DEF Named
  <1>2. CASE \E n \in Names : k \in watches'[n]
    BY <1>2 DEF Modify, notifyAll, Awaits
  <1>3. CASE \E p \in sending' : p.chan = k
    BY <1>1, <1>3 DEF Modify, notifyAll, Awaits
  <1> QED
    BY <1>2, <1>3 DEF Modify, notifyAll, Awaits

\* A step that opens no watch and leaves the streams alone keeps it.
LEMMA StrayKept ==
    ASSUME StrayInv, UNCHANGED <<pc, due, cancels, sub>>,
           \A k \in Subscribers : Awaits(k)' => Awaits(k),
           watchAll' \subseteq watchAll, \A n \in Names : watches'[n] \subseteq watches[n]
    PROVE  StrayInv'
  <1> SUFFICES ASSUME NEW k \in Subscribers
               PROVE  /\ Awaits(k)' => cancels'[k] /\ pc'[k] \notin {"create", "gone"}
                      /\ pc'[k] # "select" => ~due'[k]
                      /\ pc'[k] = "select" /\ ~due'[k] =>
                            /\ \A n \in Names : k \in watches'[n] => n \in sub'[k].names
                            /\ k \in watchAll' => sub'[k].names = {}
    BY DEF StrayInv
  <1> QED
    BY DEF StrayInv

\* What a stream does with its watch concerns no other stream.
LEMMA StrayOthers ==
    ASSUME StrayInv, NEW k \in Subscribers, sending' = sending,
           \A j \in Subscribers \ {k} :
              /\ pc'[j] = pc[j] /\ due'[j] = due[j] /\ cancels'[j] = cancels[j] /\ sub'[j] = sub[j]
              /\ j \in watchAll' <=> j \in watchAll
              /\ \A n \in Names : j \in watches'[n] <=> j \in watches[n],
           Awaits(k)' => cancels'[k] /\ pc'[k] \notin {"create", "gone"},
           pc'[k] # "select" => ~due'[k],
           pc'[k] = "select" /\ ~due'[k] =>
              /\ \A n \in Names : k \in watches'[n] => n \in sub'[k].names
              /\ k \in watchAll' => sub'[k].names = {}
    PROVE  StrayInv'
  <1>1. ASSUME NEW j \in Subscribers, j # k PROVE Awaits(j)' <=> Awaits(j)
    BY <1>1 DEF Awaits
  <1>2. ASSUME NEW j \in Subscribers
        PROVE  /\ Awaits(j)' => cancels'[j] /\ pc'[j] \notin {"create", "gone"}
               /\ pc'[j] # "select" => ~due'[j]
               /\ pc'[j] = "select" /\ ~due'[j] =>
                     /\ \A n \in Names : j \in watches'[n] => n \in sub'[j].names
                     /\ j \in watchAll' => sub'[j].names = {}
    <2>1. CASE j = k
      BY <2>1
    <2>2. CASE j # k
      BY <1>1, <2>2 DEF StrayInv
    <2> QED
      BY <2>1, <2>2
  <1> QED
    BY <1>2 DEF StrayInv

\* The stream's own steps: it cancels what it awaits before it creates a watch
\* or ends.
LEMMA StreamStray ==
    ASSUME TypeOK, StrayInv, NEW k \in Subscribers, StreamActs(k)
    PROVE  StrayInv'
  <1>1. CASE TakeRequest(k)
    <2>1. Awaits(k)' <=> Awaits(k)
      BY <1>1 DEF TakeRequest, watchVars, lockVars, Awaits
    <2>2. /\ pc'[k] = IF cancels[k] THEN "cancel" ELSE "create"
          /\ ~due'[k] /\ cancels'[k] = cancels[k]
      BY <1>1 DEF TakeRequest, TypeOK
    <2>3. Awaits(k)' => cancels'[k] /\ pc'[k] \notin {"create", "gone"}
      BY <2>1, <2>2 DEF StrayInv
    <2> QED
      BY <1>1, <2>2, <2>3, StrayOthers DEF TakeRequest, watchVars, lockVars, TypeOK
  <1>2. CASE CancelWatch(k)
    <2>1. ~Awaits(k)'
      BY <1>2 DEF CancelWatch, Unlocked, lockVars, Awaits
    <2>2. pc'[k] = "create" /\ ~due'[k]
      BY <1>2 DEF CancelWatch, StrayInv, TypeOK
    <2> QED
      BY <1>2, <2>1, <2>2, StrayOthers DEF CancelWatch, lockVars, TypeOK
  <1>3. CASE CreateWatch(k)
    <2>1. ~Awaits(k) /\ ~due[k]
      BY <1>3 DEF CreateWatch, StrayInv
    <2>2. pc'[k] = "select" /\ due' = due /\ sub' = sub /\ sending' = sending
      BY <1>3 DEF CreateWatch, TypeOK, lockVars
    <2>3. CASE Stale(sub[k].names, sub[k].version)
      <3>1. UNCHANGED watchVars
        BY <1>3, <2>3 DEF CreateWatch
      <3>2. ~Awaits(k)'
        BY <2>1, <2>2, <3>1 DEF Awaits, watchVars
      <3> QED
        BY <1>3, <2>2, <3>1, <3>2, StrayOthers DEF CreateWatch, TypeOK, Awaits, watchVars
    <2>4. CASE ~Stale(sub[k].names, sub[k].version)
      <3>1. /\ watches' = [n \in Names |-> IF n \in sub[k].names THEN watches[n] \cup {k} ELSE watches[n]]
            /\ watchAll' = IF sub[k].names = {} THEN watchAll \cup {k} ELSE watchAll
            /\ cancels'[k]
        BY <1>3, <2>4 DEF CreateWatch, TypeOK
      <3>2. /\ \A n \in Names : k \in watches'[n] => n \in sub'[k].names
            /\ k \in watchAll' => sub'[k].names = {}
        BY <2>1, <2>2, <3>1 DEF Awaits
      <3> QED
        BY <1>3, <2>2, <3>1, <3>2, StrayOthers DEF CreateWatch, TypeOK
    <2> QED
      BY <2>3, <2>4
  <1>4. CASE Deliver(k)
    <2>1. /\ pc' = pc /\ cancels' = cancels /\ sending' = sending
          /\ watches' = watches /\ watchAll' = watchAll /\ due'[k] /\ pc[k] = "select"
      BY <1>4 DEF Deliver, TypeOK, watchVars, lockVars
    <2>2. Awaits(k)' <=> Awaits(k)
      BY <2>1 DEF Awaits
    <2> QED
      BY <1>4, <2>1, <2>2, StrayOthers DEF Deliver, TypeOK, StrayInv
  <1>5. CASE Shutdown(k)
    <2>1. ~Awaits(k)'
      <3>1. CASE cancels[k]
        BY <1>5, <3>1 DEF Shutdown, Unlocked, lockVars, Awaits
      <3>2. CASE ~cancels[k]
        <4>1. ~Awaits(k)
          BY <3>2 DEF StrayInv
        <4> QED
          BY <1>5, <3>2, <4>1 DEF Shutdown, lockVars, watchVars, Awaits
      <3> QED
        BY <3>1, <3>2
    <2>2. pc'[k] = "gone" /\ ~due'[k]
      BY <1>5 DEF Shutdown, StrayInv, TypeOK
    <2>3. \A j \in Subscribers \ {k} :
             /\ j \in watchAll' <=> j \in watchAll
             /\ \A n \in Names : j \in watches'[n] <=> j \in watches[n]
      BY <1>5 DEF Shutdown, watchVars, TypeOK
    <2>4. /\ sending' = sending
          /\ \A j \in Subscribers \ {k} : /\ pc'[j] = pc[j] /\ due'[j] = due[j]
                                          /\ cancels'[j] = cancels[j] /\ sub'[j] = sub[j]
      BY <1>5 DEF Shutdown, lockVars, TypeOK
    <2> QED
      BY <2>1, <2>2, <2>3, <2>4, StrayOthers
  <1> QED
    BY <1>1, <1>2, <1>3, <1>4, <1>5 DEF StreamActs

\* Every step keeps it.
LEMMA StepStray ==
    ASSUME TypeOK, StrayInv, [Next]_vars
    PROVE  StrayInv'
  <1>1. CASE \/ \E n \in Names, h \in Hashes : UpdateResource(n, h)
             \/ \E n \in Names : DeleteResource(n)
             \/ \E toUpdate \in ResourceMaps, toDelete \in SUBSET Names :
                    UpdateResources(toUpdate, toDelete)
             \/ \E res \in ResourceMaps : SetResources(res)
    <2>1. PICK res, updated, deleted : Named(res, updated, deleted) /\ Modify(res, updated, deleted)
      BY <1>1, ChangesAreNamed DEF TypeOK
    <2>2. \A k \in Subscribers : Awaits(k)' => Awaits(k)
      BY <2>1, ModifyAwaits
    <2>3. /\ UNCHANGED <<pc, due, cancels, sub>>
          /\ watchAll' \subseteq watchAll /\ \A n \in Names : watches'[n] \subseteq watches[n]
      BY <2>1 DEF Modify, notifyAll, subVars
    <2> QED
      BY <2>2, <2>3, StrayKept
  <1>2. ASSUME NEW k \in Subscribers, StreamActs(k) PROVE StrayInv'
    BY <1>2, StreamStray
  <1>3. ASSUME NEW k \in Subscribers, NEW names \in Interest, ChangeNames(k, names) PROVE StrayInv'
    <2>1. /\ pc' = pc /\ cancels' = cancels /\ sending' = sending
          /\ watches' = watches /\ watchAll' = watchAll /\ due'[k] /\ pc[k] = "select"
      BY <1>3 DEF ChangeNames, TypeOK, watchVars, lockVars
    <2>2. Awaits(k)' <=> Awaits(k)
      BY <2>1 DEF Awaits
    <2> QED
      BY <1>3, <2>1, <2>2, StrayOthers DEF ChangeNames, TypeOK, StrayInv
  <1>4. ASSUME NEW k \in Subscribers, Leave(k) PROVE StrayInv'
    <2>1. /\ pc'[k] = "closing" /\ ~due'[k] /\ cancels' = cancels /\ pc[k] = "select"
          /\ sending' = sending /\ watches' = watches /\ watchAll' = watchAll
      BY <1>4 DEF Leave, TypeOK, watchVars, lockVars
    <2>2. Awaits(k)' <=> Awaits(k)
      BY <2>1 DEF Awaits
    <2> QED
      BY <1>4, <2>1, <2>2, StrayOthers DEF Leave, TypeOK, StrayInv
  <1>5. ASSUME NEW k \in Subscribers, Return(k) PROVE StrayInv'
    <2>1. /\ pc'[k] = "select" /\ due'[k] /\ cancels' = cancels /\ pc[k] = "gone"
          /\ sending' = sending /\ watches' = watches /\ watchAll' = watchAll
      BY <1>5 DEF Return, TypeOK, watchVars, lockVars
    <2>2. ~Awaits(k)'
      BY <2>1 DEF Awaits, StrayInv
    <2> QED
      BY <1>5, <2>1, <2>2, StrayOthers DEF Return, TypeOK
  <1>6. CASE \/ \E p \in sending : Send(p)
             \/ \E w \in deltaSending : SendDelta(w)
             \/ \E st \in StreamStates, c \in DeltaChannels : CreateDelta(st, c)
             \/ \E w \in deltaWatches : CancelDeltaWatch(w)
             \/ \E c \in DeltaChannels : ReceiveDelta(c)
             \/ UNCHANGED vars
    <2>1. /\ UNCHANGED <<pc, due, cancels, sub, watches, watchAll>>
          /\ sending' \subseteq sending
      BY <1>6 DEF Send, SendDelta, CreateDelta, CreateDeltaWatch, CancelDeltaWatch, ReceiveDelta,
                  vars, watchVars, lockVars, subVars
    <2>2. \A k \in Subscribers : Awaits(k)' => Awaits(k)
      BY <2>1 DEF Awaits
    <2> QED
      BY <2>1, <2>2, StrayKept
  <1> QED
    BY <1>1, <1>2, <1>3, <1>4, <1>5, <1>6 DEF Next

LEMMA InitStray == Init => StrayInv
  BY DEF Init, StrayInv, Awaits

\* The streams of a linear cache leave nothing behind: the watch of a superseded
\* request is gone under all its names, and nothing is sent to a stream that ended.
THEOREM NoLinearWatchStrays == Spec => []NoStrayWatch
  <1>1. StrayInv => NoStrayWatch
    BY DEF StrayInv, NoStrayWatch, Awaits
  <1>2. ContentInv => TypeOK
    BY DEF ContentInv
  <1> QED
    BY <1>1, <1>2, InitStray, StepStray, InitContent, StepContent, PTL DEF Spec

----------------------------------------------------------------------------
(* Streams that wait for one name or for all                               *)

\* What an answer under way is for is what its client asked for, so that a stream
\* awaits one answer at a time; its channel is empty meanwhile.
SingleInv ==
    \A k \in Subscribers :
        /\ sub[k].names \in Interest
        /\ Awaits(k) => responses[k] = <<>>
        /\ \A n \in Names : k \in watches[n] => n \in sub[k].names
        /\ k \in watchAll => sub[k].names = {}
        /\ \A p \in sending : p.chan = k =>
              /\ p.stale = sub[k].names
              /\ k \notin watchAll
              /\ \A n \in Names : k \notin watches[n]

\* Clients ask for one resource or for all, and never for others.
SingleNames == ~MayChangeNames /\ \A names \in Interest : \A m, n \in names : m = n

\* A change takes every watch of the streams it answers.
LEMMA ModifySingle ==
    ASSUME SingleNames, TypeOK, SingleInv,
           NEW res, NEW updated, NEW deleted, Named(res, updated, deleted),
           Modify(res, updated, deleted)
    PROVE  SingleInv'
  <1> DEFINE modified == updated \cup deleted
  <1>1. modified \in SUBSET Names
    BY DEF Named
  <1>2. /\ sending = {} /\ watchAll' = {} /\ sub' = sub /\ responses' = responses
        /\ watches' = [n \in Names |-> IF n \in modified THEN {} ELSE watches[n]]
        /\ sending' = {[chan |-> k, stale |-> {n \in modified : k \in watches[n]}] :
                          k \in UNION {watches[n] : n \in modified}}
                      \cup {[chan |-> k, stale |-> {}] : k \in watchAll}
    BY DEF Modify, notifyAll, Unlocked, subVars
  <1> HIDE DEF modified
  <1>3. ASSUME NEW k \in Subscribers, NEW p \in sending', p.chan = k
        PROVE  p.stale = sub[k].names /\ \A n \in Names : k \notin watches'[n]
    <2>1. CASE k \in watchAll /\ p.stale = {}
      BY <1>2, <2>1 DEF SingleInv
    <2>2. CASE p.stale = {n \in modified : k \in watches[n]}
               /\ k \in UNION {watches[n] : n \in modified}
      <3>1. PICK m \in modified : k \in watches[m]
        BY <2>2
      <3>2. m \in sub[k].names /\ sub[k].names \in Interest
        BY <1>1, <3>1 DEF SingleInv
      <3>3. sub[k].names = {m}
        BY <3>2 DEF SingleNames
      <3>4. \A n \in Names : k \in watches[n] => n = m
        BY <3>3 DEF SingleInv
      <3> QED
        BY <1>1, <1>2, <2>2, <3>1, <3>3, <3>4
    <2> QED
      BY <1>2, <1>3, <2>1, <2>2
  <1>4. ASSUME NEW k \in Subscribers, Awaits(k)' PROVE responses'[k] = <<>>
    <2>1. Awaits(k)
      BY <1>4, ModifyAwaits
    <2> QED
      BY <1>2, <2>1 DEF SingleInv
  <1>5. \A k \in Subscribers, n \in Names : k \in watches'[n] => n \in sub'[k].names
    BY <1>2 DEF SingleInv
  <1> QED
    BY <1>2, <1>3, <1>4, <1>5 DEF SingleInv

\* A step that opens no watch and sends nothing to who still awaits an answer
\* keeps it.
LEMMA SingleKept ==
    ASSUME SingleInv, \A k \in Subscribers : sub'[k].names = sub[k].names,
           sending' \subseteq sending, watchAll' \subseteq watchAll,
           \A n \in Names : watches'[n] \subseteq watches[n],
           \A k \in Subscribers : Awaits(k)' /\ responses[k] = <<>> => responses'[k] = <<>>
    PROVE  SingleInv'
  <1>1. \A k \in Subscribers : Awaits(k)' => Awaits(k)
    BY DEF Awaits
  <1>2. \A k \in Subscribers : Awaits(k)' => responses'[k] = <<>>
    BY <1>1 DEF SingleInv
  <1> QED
    BY <1>2 DEF SingleInv

LEMMA StepSingle ==
    ASSUME SingleNames, TypeOK, StrayInv, SingleInv, [Next]_vars
    PROVE  SingleInv'
  <1>1. CASE \/ \E n \in Names, h \in Hashes : UpdateResource(n, h)
             \/ \E n \in Names : DeleteResource(n)
             \/ \E toUpdate \in ResourceMaps, toDelete \in SUBSET Names :
                    UpdateResources(toUpdate, toDelete)
             \/ \E res \in ResourceMaps : SetResources(res)
    <2>1. PICK res, updated, deleted : Named(res, updated, deleted) /\ Modify(res, updated, deleted)
      BY <1>1, ChangesAreNamed DEF TypeOK
    <2> QED
      BY <2>1, ModifySingle
  <1>2. ASSUME NEW p \in sending, Send(p) PROVE SingleInv'
    <2>0. p \in [chan : Subscribers, stale : SUBSET Names] /\ p.chan \in Subscribers
      BY DEF TypeOK
    <2>1. /\ sub' = sub /\ watches' = watches /\ watchAll' = watchAll
          /\ sending' = sending \ {p}
          /\ \A k \in Subscribers \ {p.chan} : responses'[k] = responses[k]
      BY <1>2 DEF Send, watchVars, subVars, TypeOK
    <2>2. ~Awaits(p.chan)'
      <3>1. ASSUME NEW q \in sending, q.chan = p.chan PROVE q = p
        <4>1. q.stale = p.stale
          BY <2>0, <3>1 DEF SingleInv
        <4>2. q \in [chan : Subscribers, stale : SUBSET Names]
          BY DEF TypeOK
        <4> QED
          BY <2>0, <3>1, <4>1, <4>2
      <3>2. p.chan \notin watchAll /\ \A n \in Names : p.chan \notin watches[n]
        BY <2>0 DEF SingleInv
      <3> QED
        BY <2>1, <3>1, <3>2 DEF Awaits
    <2> QED
      BY <2>1, <2>2, SingleKept
  <1>3. ASSUME NEW k \in Subscribers, CreateWatch(k) PROVE SingleInv'
    <2>1. ~Awaits(k) /\ sending = {}
      BY <1>3 DEF CreateWatch, StrayInv, Unlocked
    <2>2. /\ sub' = sub /\ sending' = sending
          /\ \A j \in Subscribers \ {k} : responses'[j] = responses[j]
      BY <1>3 DEF CreateWatch, TypeOK, lockVars
    <2>3. CASE Stale(sub[k].names, sub[k].version)
      <3>1. UNCHANGED watchVars
        BY <1>3, <2>3 DEF CreateWatch
      <3>2. ~Awaits(k)'
        BY <2>1, <2>2, <3>1 DEF Awaits, watchVars
      <3> QED
        BY <2>2, <3>1, <3>2, SingleKept DEF watchVars
    <2>4. CASE ~Stale(sub[k].names, sub[k].version)
      <3>1. /\ watches' = [n \in Names |-> IF n \in sub[k].names THEN watches[n] \cup {k} ELSE watches[n]]
            /\ watchAll' = IF sub[k].names = {} THEN watchAll \cup {k} ELSE watchAll
            /\ responses'[k] = <<>>
        BY <1>3, <2>4 DEF CreateWatch, TypeOK
      <3>2. ASSUME NEW j \in Subscribers, Awaits(j)' PROVE responses'[j] = <<>>
        <4>1. CASE j = k
          BY <3>1, <4>1
        <4>2. CASE j # k
          <5>1. Awaits(j)
            BY <2>2, <3>1, <3>2, <4>2 DEF Awaits
          <5> QED
            BY <2>2, <4>2, <5>1 DEF SingleInv
        <4> QED
          BY <4>1, <4>2
      <3>3. ASSUME NEW j \in Subscribers
            PROVE  /\ \A n \in Names : j \in watches'[n] => n \in sub'[j].names
                   /\ j \in watchAll' => sub'[j].names = {}
        BY <2>2, <3>1 DEF SingleInv
      <3> QED
        BY <2>1, <2>2, <3>2, <3>3 DEF SingleInv
    <2> QED
      BY <2>3, <2>4
  <1>4. ASSUME NEW k \in Subscribers, Deliver(k) PROVE SingleInv'
    <2>1. ~Awaits(k)
      BY <1>4 DEF Deliver, SingleInv
    <2>2. /\ watches' = watches /\ watchAll' = watchAll /\ sending' = sending
          /\ \A j \in Subscribers \ {k} : responses'[j] = responses[j]
          /\ \A j \in Subscribers : sub'[j].names = sub[j].names
      BY <1>4 DEF Deliver, TypeOK, watchVars, lockVars
    <2>3. ~Awaits(k)'
      BY <2>1, <2>2 DEF Awaits
    <2> QED
      BY <2>2, <2>3, SingleKept
  <1>5. ASSUME NEW k \in Subscribers, TakeRequest(k) \/ CancelWatch(k) \/ Shutdown(k) PROVE SingleInv'
    <2>1. /\ sub' = sub /\ sending' = sending
          /\ watchAll' \subseteq watchAll /\ \A n \in Names : watches'[n] \subseteq watches[n]
      BY <1>5 DEF TakeRequest, CancelWatch, Shutdown, watchVars, lockVars
    <2>2. \A j \in Subscribers : responses'[j] = responses[j] \/ responses'[j] = <<>>
      BY <1>5 DEF TakeRequest, CancelWatch, Shutdown, TypeOK
    <2> QED
      BY <2>1, <2>2, SingleKept
  <1>6. CASE \/ \E w \in deltaSending : SendDelta(w)
             \/ \E k \in Subscribers : Leave(k)
             \/ \E k \in Subscribers : Return(k)
             \/ \E st \in StreamStates, c \in DeltaChannels : CreateDelta(st, c)
             \/ \E w \in deltaWatches : CancelDeltaWatch(w)
             \/ \E c \in DeltaChannels : ReceiveDelta(c)
             \/ UNCHANGED vars
    <2>1. UNCHANGED <<sub, watches, watchAll, sending, responses>>
      BY <1>6 DEF SendDelta, Leave, Return, CreateDelta, CreateDeltaWatch, CancelDeltaWatch,
                  ReceiveDelta, vars, watchVars, lockVars, subVars
    <2> QED
      BY <2>1, SingleKept
  <1>7. ASSUME NEW k \in Subscribers, NEW names \in Interest PROVE ~ChangeNames(k, names)
    BY DEF SingleNames, ChangeNames
  <1> QED
    BY <1>1, <1>2, <1>3, <1>4, <1>5, <1>6, <1>7 DEF Next, StreamActs

\* Among streams that ask for one resource or for all, and for no others later,
\* a change never waits for a stream that waits for the cache: the channel of an
\* open watch is empty.  Without the condition it can (LinearLockedOut.cfg).
THEOREM SingleNamesNeverLockedOut ==
    ASSUME SingleNames
    PROVE  Spec => []NeverLockedOut
  <1>1. Init => SingleInv
    BY DEF Init, SingleInv, Awaits
  <1>2. TypeOK /\ SingleInv => NeverLockedOut
    <2> SUFFICES ASSUME TypeOK, SingleInv, NEW p \in sending PROVE Len(responses[p.chan]) # Capacity
      BY DEF NeverLockedOut
    <2>1. p.chan \in Subscribers
      BY DEF TypeOK
    <2>2. responses[p.chan] = <<>>
      BY <2>1 DEF SingleInv, Awaits
    <2> QED
      BY <2>2 DEF Capacity
  <1>3. SingleInv /\ StrayInv /\ ContentInv /\ [Next]_vars => SingleInv'
    BY StepSingle DEF ContentInv
  <1>4. StrayInv /\ ContentInv /\ [Next]_vars => StrayInv'
    BY StepStray DEF ContentInv
  <1>5. ContentInv => TypeOK
    BY DEF ContentInv
  <1> QED
    BY <1>1, <1>2, <1>3, <1>4, <1>5, InitStray, InitContent, StepContent, PTL DEF Spec

----------------------------------------------------------------------------
(* What the clients of one name or of all hold                             *)

\* What is held at a version is, of the names asked for, what the collection has,
\* as far as it has not changed since.
Current(names, v, held) ==
    v \in Nat =>
        /\ v <= version
        /\ names = {} /\ v = version => held = resources
        /\ \A n \in DOMAIN resources : n \in names /\ versionVector[n] <= v =>
              n \in DOMAIN held /\ held[n] = resources[n]

\* Clients, and the responses in their channels, are current at their versions.
HeldInv ==
    \A k \in Subscribers :
        /\ Current(sub[k].names, sub[k].version, sub[k].content)
        /\ \A i \in DOMAIN responses[k] :
              Current(sub[k].names, responses[k][i].version, responses[k][i].resources)

\* A change of the collection is later than any version there is.
LEMMA ModifyCurrent ==
    ASSUME ContentInv, NEW res, NEW updated, NEW deleted, Named(res, updated, deleted),
           Modify(res, updated, deleted), NEW names, NEW v, NEW held, Current(names, v, held)
    PROVE  Current(names, v, held)'
  <1>1. /\ version \in Nat /\ version' = version + 1 /\ resources' = res
        /\ versionVector' = [n \in (DOMAIN versionVector \ deleted) \cup updated |->
                                IF n \in updated THEN version + 1 ELSE versionVector[n]]
        /\ DOMAIN versionVector = DOMAIN resources
    BY DEF Modify, ContentInv, VersionInv, VersionsCurrent
  <1> SUFFICES ASSUME v \in Nat
               PROVE  /\ v <= version' /\ v # version'
                      /\ \A n \in DOMAIN resources' : n \in names /\ versionVector'[n] <= v =>
                            n \in DOMAIN held /\ held[n] = resources'[n]
    BY DEF Current
  <1>2. v <= version
    BY DEF Current
  <1>3. ASSUME NEW n \in DOMAIN resources', n \in names, versionVector'[n] <= v
        PROVE  n \in DOMAIN held /\ held[n] = resources'[n]
    <2>1. n \in (DOMAIN versionVector \ deleted) \cup updated
      BY <1>1 DEF Named
    <2>2. n \notin updated
      BY <1>1, <1>2, <1>3, <2>1
    <2>3. n \in DOMAIN resources /\ versionVector[n] <= v
      BY <1>1, <1>3, <2>1, <2>2
    <2>4. resources'[n] = resources[n]
      BY <1>1, <2>1, <2>2 DEF Named
    <2> QED
      BY <1>3, <2>3, <2>4 DEF Current
  <1> QED
    BY <1>1, <1>2, <1>3

\* A step that leaves the collection alone, and gives clients and channels nothing
\* but what is current, keeps it.
LEMMA HeldKept ==
    ASSUME HeldInv, UNCHANGED contentVars,
           \A k \in Subscribers :
              /\ sub'[k].names = sub[k].names
              /\ \/ sub'[k].version = sub[k].version /\ sub'[k].content = sub[k].content
                 \/ Current(sub[k].names, sub'[k].version, sub'[k].content)
              /\ \A i \in DOMAIN responses'[k] :
                    \/ Current(sub[k].names, responses'[k][i].version, responses'[k][i].resources)
                    \/ \E j \in DOMAIN responses[k] : responses'[k][i] = responses[k][j]
    PROVE  HeldInv'
  <1>1. \A names, v, held : Current(names, v, held) <=> Current(names, v, held)'
    BY DEF Current, contentVars
  <1> SUFFICES ASSUME NEW k \in Subscribers
               PROVE  /\ Current(sub[k].names, sub'[k].version, sub'[k].content)
                      /\ \A i \in DOMAIN responses'[k] :
                            Current(sub[k].names, responses'[k][i].version, responses'[k][i].resources)
    BY <1>1 DEF HeldInv
  <1> QED
    BY DEF HeldInv

\* An answer to a client of one name or of all is current at its version.
LEMMA AnswerCurrent ==
    ASSUME ContentInv, NEW names, NEW stale, stale = names
    PROVE  Current(names, Answer(stale).version, Answer(stale).resources)
  <1>2. Answer(stale).version = version /\ version \in Nat
    BY DEF Answer, ContentInv, VersionInv
  <1>3. CASE stale = {}
    BY <1>2, <1>3 DEF Answer, Current
  <1>4. CASE stale # {}
    <2>1. Answer(stale).resources = [n \in DOMAIN resources \cap stale |-> resources[n]]
      BY <1>4 DEF Answer, Restrict
    <2> QED
      BY <1>2, <1>4, <2>1 DEF Current
  <1> QED
    BY <1>3, <1>4

\* What is asked for is reported in full: a name that is stale is all there is.
LEMMA ReportedIsAsked ==
    ASSUME SingleNames, NEW names \in Interest, NEW v, Stale(names, v)
    PROVE  Reported(names, v) = names
  <1>1. CASE v = NoVersion
    BY <1>1 DEF Reported
  <1>2. CASE v # NoVersion /\ names = {}
    BY <1>2 DEF Reported, StaleNames
  <1>3. CASE v # NoVersion /\ names # {}
    <2>1. StaleNames(names, v) # {} /\ StaleNames(names, v) \subseteq names
      BY <1>3 DEF Stale, StaleNames
    <2>2. \A m, n \in names : m = n
      BY DEF SingleNames
    <2>3. StaleNames(names, v) = names
      BY <2>1, <2>2
    <2> QED
      BY <1>3, <2>3 DEF Reported
  <1> QED
    BY <1>1, <1>2, <1>3

\* What a client makes of a response that is current is current (Deliver).
LEMMA DeliverHeld ==
    ASSUME TypeOK, HeldInv, NEW k \in Subscribers, Deliver(k)
    PROVE  HeldInv'
  <1> DEFINE r == Head(responses[k])
  <1>1. /\ responses[k] \in Seq(LinearResponses) /\ responses[k] # <<>>
        /\ responses' = [responses EXCEPT ![k] = Tail(@)]
        /\ sub' = [sub EXCEPT ![k].version = r.version,
                              ![k].content = IF sub[k].names = {} THEN r.resources
                                             ELSE Over(r.resources, @)]
        /\ UNCHANGED contentVars
    BY DEF Deliver, TypeOK
  <1>2. 1 \in DOMAIN responses[k] /\ r = responses[k][1]
    BY <1>1
  <1>3. Current(sub[k].names, r.version, r.resources)
    BY <1>2 DEF HeldInv
  <1> HIDE DEF r
  <1>4. /\ sub'[k].names = sub[k].names /\ sub'[k].version = r.version
        /\ sub'[k].content = IF sub[k].names = {} THEN r.resources
                             ELSE Over(r.resources, sub[k].content)
        /\ \A j \in Subscribers \ {k} : sub'[j] = sub[j] /\ responses'[j] = responses[j]
        /\ responses'[k] = Tail(responses[k])
    BY <1>1 DEF TypeOK
  <1>5. Current(sub[k].names, sub'[k].version, sub'[k].content)
    <2>1. CASE sub[k].names = {}
      BY <1>3, <1>4, <2>1
    <2>2. CASE sub[k].names # {}
      <3>1. \A n \in DOMAIN r.resources :
               /\ n \in DOMAIN Over(r.resources, sub[k].content)
               /\ Over(r.resources, sub[k].content)[n] = r.resources[n]
        BY DEF Over
      <3> QED
        BY <1>3, <1>4, <2>2, <3>1 DEF Current
    <2> QED
      BY <2>1, <2>2
  <1>6. \A i \in DOMAIN responses'[k] :
           \E j \in DOMAIN responses[k] : responses'[k][i] = responses[k][j]
    <2> SUFFICES ASSUME NEW i \in DOMAIN Tail(responses[k])
                 PROVE  \E j \in DOMAIN responses[k] : Tail(responses[k])[i] = responses[k][j]
      BY <1>4
    <2>1. i + 1 \in DOMAIN responses[k] /\ Tail(responses[k])[i] = responses[k][i + 1]
      BY <1>1
    <2> QED
      BY <2>1
  <1>7. ASSUME NEW j \in Subscribers
        PROVE  /\ sub'[j].names = sub[j].names
               /\ \/ sub'[j].version = sub[j].version /\ sub'[j].content = sub[j].content
                  \/ Current(sub[j].names, sub'[j].version, sub'[j].content)
    BY <1>4, <1>5
  <1>8. ASSUME NEW j \in Subscribers, NEW i \in DOMAIN responses'[j]
        PROVE  \E l \in DOMAIN responses[j] : responses'[j][i] = responses[j][l]
    BY <1>4, <1>6
  <1> QED
    BY <1>1, <1>7, <1>8, HeldKept

\* Every step keeps it, if clients ask for one resource or for all and keep to that.
LEMMA StepHeld ==
    ASSUME SingleNames, ContentInv, SingleInv, HeldInv, [Next]_vars
    PROVE  HeldInv'
  <1>0. TypeOK
    BY DEF ContentInv
  <1>1. CASE \/ \E n \in Names, h \in Hashes : UpdateResource(n, h)
             \/ \E n \in Names : DeleteResource(n)
             \/ \E toUpdate \in ResourceMaps, toDelete \in SUBSET Names :
                    UpdateResources(toUpdate, toDelete)
             \/ \E res \in ResourceMaps : SetResources(res)
    <2>1. PICK res, updated, deleted : Named(res, updated, deleted) /\ Modify(res, updated, deleted)
      BY <1>0, <1>1, ChangesAreNamed DEF TypeOK
    <2>2. sub' = sub /\ responses' = responses
      BY <2>1 DEF Modify, notifyAll, subVars
    <2>3. \A names, v, held : Current(names, v, held) => Current(names, v, held)'
      BY <2>1, ModifyCurrent
    <2> QED
      BY <2>2, <2>3 DEF HeldInv
  <1>2. ASSUME NEW p \in sending, Send(p) PROVE HeldInv'
    <2>1. p.chan \in Subscribers /\ p.stale = sub[p.chan].names
      BY <1>0 DEF TypeOK, SingleInv
    <2>2. /\ sub' = sub /\ UNCHANGED contentVars
          /\ responses' = [responses EXCEPT ![p.chan] = Append(@, Answer(p.stale))]
      BY <1>2 DEF Send, subVars
    <2>3. Current(sub[p.chan].names, Answer(p.stale).version, Answer(p.stale).resources)
      BY <2>1, AnswerCurrent
    <2>4. ASSUME NEW k \in Subscribers, NEW i \in DOMAIN responses'[k]
          PROVE  \/ Current(sub[k].names, responses'[k][i].version, responses'[k][i].resources)
                 \/ \E j \in DOMAIN responses[k] : responses'[k][i] = responses[k][j]
      <3>1. CASE k # p.chan
        BY <1>0, <2>2, <3>1 DEF TypeOK
      <3>2. CASE k = p.chan
        <4>1. responses[k] \in Seq(LinearResponses) /\ responses'[k] = Append(responses[k], Answer(p.stale))
          BY <1>0, <2>1, <2>2, <3>2 DEF TypeOK
        <4>2. \/ responses'[k][i] = Answer(p.stale)
              \/ i \in DOMAIN responses[k] /\ responses'[k][i] = responses[k][i]
          BY <4>1
        <4> QED
          BY <2>3, <3>2, <4>2
      <3> QED
        BY <3>1, <3>2
    <2> QED
      BY <2>2, <2>4, HeldKept
  <1>3. ASSUME NEW k \in Subscribers, CreateWatch(k) PROVE HeldInv'
    <2> DEFINE names == sub[k].names
               v     == sub[k].version
    <2>1. sub' = sub /\ UNCHANGED contentVars
      BY <1>3 DEF CreateWatch
    <2>2. \A j \in Subscribers \ {k} : responses'[j] = responses[j]
      BY <1>0, <1>3 DEF CreateWatch, TypeOK
    <2>3. \A i \in DOMAIN responses'[k] :
             Current(names, responses'[k][i].version, responses'[k][i].resources)
      <3>1. CASE Stale(names, v)
        <4>1. responses'[k] = <<Answer(Reported(names, v))>>
          BY <1>0, <1>3, <3>1 DEF CreateWatch, TypeOK
        <4>2. Reported(names, v) = names
          BY <3>1, ReportedIsAsked DEF SingleInv
        <4>3. Current(names, Answer(names).version, Answer(names).resources)
          BY AnswerCurrent
        <4> QED
          BY <4>1, <4>2, <4>3
      <3>2. CASE ~Stale(names, v)
        <4>1. responses'[k] = <<>>
          BY <1>0, <1>3, <3>2 DEF CreateWatch, TypeOK
        <4> QED
          BY <4>1
      <3> QED
        BY <3>1, <3>2
    <2> QED
      BY <2>1, <2>2, <2>3, HeldKept
  <1>4. ASSUME NEW k \in Subscribers, Deliver(k) PROVE HeldInv'
    BY <1>0, <1>4, DeliverHeld
  <1>5. ASSUME NEW k \in Subscribers, TakeRequest(k) \/ CancelWatch(k) \/ Shutdown(k) PROVE HeldInv'
    <2>1. sub' = sub /\ UNCHANGED contentVars
      BY <1>5 DEF TakeRequest, CancelWatch, Shutdown
    <2>2. \A j \in Subscribers : responses'[j] = responses[j] \/ responses'[j] = <<>>
      BY <1>0, <1>5 DEF TakeRequest, CancelWatch, Shutdown, TypeOK
    <2> QED
      BY <2>1, <2>2, HeldKept
  <1>6. ASSUME NEW st \in StreamStates, NEW c \in DeltaChannels, CreateDelta(st, c) PROVE HeldInv'
    <2>1. UNCHANGED <<sub, responses, resources, version, versionVector>>
      BY <1>6 DEF CreateDelta, CreateDeltaWatch, subVars
    <2>2. \A names, v, held : Current(names, v, held) <=> Current(names, v, held)'
      BY <2>1 DEF Current
    <2> QED
      BY <2>1, <2>2 DEF HeldInv
  <1>7. CASE \/ \E w \in deltaSending : SendDelta(w)
             \/ \E k \in Subscribers : Leave(k)
             \/ \E k \in Subscribers : Return(k)
             \/ \E w \in deltaWatches : CancelDeltaWatch(w)
             \/ \E c \in DeltaChannels : ReceiveDelta(c)
             \/ UNCHANGED vars
    <2>1. UNCHANGED <<sub, responses, contentVars>>
      BY <1>7 DEF SendDelta, Leave, Return, CancelDeltaWatch, ReceiveDelta, vars, subVars
    <2> QED
      BY <2>1, HeldKept
  <1>8. ASSUME NEW k \in Subscribers, NEW names \in Interest PROVE ~ChangeNames(k, names)
    BY DEF SingleNames, ChangeNames
  <1> QED
    BY <1>1, <1>2, <1>3, <1>4, <1>5, <1>6, <1>7, <1>8 DEF Next, StreamActs

\* A stream of one name, or of all, that waits belongs to a client that holds what
\* it waits for as the collection has it now, whatever changes, acknowledgements,
\* cancellations and reconnects come in between: "Create open watches since versions
\* are up to date" (CreateWatch).  For several names, or names that change, it is
\* false: the version of a client says nothing of each name.
THEOREM ClientsHoldWhatTheyWatch ==
    ASSUME SingleNames
    PROVE  Spec => []NoMissedUpdate
  <1>1. Init => SeenInv
    BY InitContent DEF Init, SeenInv, ContentInv, TypeOK
  <1>2. Init => SingleInv
    BY DEF Init, SingleInv, Awaits
  <1>3. Init => HeldInv
    BY MapAssumption DEF Init, HeldInv, Current
  <1>4. SeenInv /\ SingleInv /\ HeldInv /\ ContentInv => NoMissedUpdate
    <2> SUFFICES ASSUME SeenInv, SingleInv, HeldInv, ContentInv, NEW k \in Subscribers
                 PROVE  /\ k \in watchAll => sub[k].content = resources
                        /\ \A n \in DOMAIN resources : k \in watches[n] =>
                              n \in DOMAIN sub[k].content /\ sub[k].content[n] = resources[n]
      BY DEF NoMissedUpdate
    <2>1. /\ version \in Nat /\ DOMAIN versionVector = DOMAIN resources
          /\ DOMAIN resources \subseteq Names
      BY MapIs DEF ContentInv, VersionInv, VersionsCurrent, TypeOK, ResourceMaps
    <2>2. Current(sub[k].names, sub[k].version, sub[k].content)
      BY DEF HeldInv
    <2>3. ASSUME k \in watchAll PROVE sub[k].content = resources
      <3>1. sub[k].names = {} /\ sub[k].version = version
        BY <2>3 DEF SingleInv, SeenInv
      <3> QED
        BY <2>1, <2>2, <3>1 DEF Current
    <2>4. ASSUME NEW n \in DOMAIN resources, k \in watches[n]
          PROVE  n \in DOMAIN sub[k].content /\ sub[k].content[n] = resources[n]
      <3>1. n \in sub[k].names
        BY <2>1, <2>4 DEF SingleInv
      <3>2. sub[k].version \in Nat /\ versionVector[n] \in Nat /\ sub[k].version >= versionVector[n]
        BY <2>1, <2>4 DEF SeenInv, ContentInv, TypeOK
      <3> QED
        BY <2>2, <3>1, <3>2 DEF Current
    <2> QED
      BY <2>3, <2>4
  <1>5. ContentInv => TypeOK
    BY DEF ContentInv
  <1> QED
    BY <1>1, <1>2, <1>3, <1>4, <1>5, StepSeen, StepSingle, StepHeld, InitStray, StepStray,
       InitContent, StepContent, PTL DEF Spec

============================================================================
