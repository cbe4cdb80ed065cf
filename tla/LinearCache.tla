---------------------------- MODULE LinearCache ----------------------------
(***************************************************************************)
(* The linear cache of pkg/cache/v3/linear.go: one collection of resources *)
(* of one type, with a version that every change increments and a vector   *)
(* of the versions at which the resources last changed.                    *)
(*                                                                         *)
(* A change answers the watches it concerns one after the other and holds  *)
(* cache.mu meanwhile; a send on a full channel blocks.  The subscribers   *)
(* are SOTW streams of process (pkg/server/sotw/v3), reduced to what they  *)
(* do with the cache: receive, have the client acknowledge, cancel the     *)
(* watch of the previous request and create one on a new channel; a stream *)
(* may end and its client open another.  Delta watches are created and     *)
(* cancelled by arbitrary delta streams.                                   *)
(***************************************************************************)
EXTENDS StreamState, Integers, Sequences

CONSTANTS Subscribers,     \* SOTW streams, each with its channel
          Interest,        \* the name sets subscribers may ask for; {} is all
          MayChangeNames,  \* subscribers may ask for other names later
          NoVersion,       \* a version info that is no version of this cache
          NoMap,           \* the nil version map
          InitialResources,\* WithInitialResources
          DeltaChannels,   \* channels of delta streams
          MaxVersion,      \* bound: changes of the collection
          MaxDeltaWatches, \* bound: delta watches ever opened
          MaxLeaves        \* bound: streams that end

ASSUME InterestAssumption == Interest \subseteq SUBSET Names
ASSUME InitialAssumption == InitialResources \in ResourceMaps
ASSUME MapAssumption == NoMap \notin VersionMaps /\ NoVersion \notin Nat
ASSUME BoundAssumption == {MaxVersion, MaxDeltaWatches, MaxLeaves} \subseteq Nat

\* The channels process makes have room for one response.
Capacity == 1

VARIABLES
    resources,       \* cache.resources
    version,         \* cache.version
    versionVector,   \* cache.versionVector
    versionMap,      \* cache.versionMap
    watches,         \* cache.watches: per name the channels that wait
    watchAll,        \* cache.watchAll
    deltaWatches,    \* cache.deltaWatches
    deltaWatchCount, \* cache.deltaWatchCount
    sending,         \* the answers the holder of cache.mu has yet to send
    deltaSending,    \* the delta watches it has yet to answer
    responses,       \* what each subscriber's channel buffers
    deltaResponses,  \* what each delta channel buffers
    pc,              \* a subscriber's stream: select, cancel, create, closing, gone
    due,             \* a request of its client is on the way
    cancels,         \* its cancel function undoes an open watch
    sub,             \* its client: [names, version, content]
    leaves           \* streams that ended so far

contentVars == <<resources, version, versionVector, versionMap>>
watchVars == <<watches, watchAll>>
deltaVars == <<deltaWatches, deltaWatchCount, deltaResponses>>
lockVars == <<sending, deltaSending>>
subVars == <<pc, due, cancels, sub, leaves>>
vars == <<contentVars, watchVars, deltaVars, lockVars, responses, subVars>>

VersionInfos == Nat \cup {NoVersion}
LinearResponses == [version : Nat, resources : ResourceMaps]
DeltaWatches == [id : Nat, chan : DeltaChannels, state : StreamStates]

TypeOK ==
    /\ resources \in ResourceMaps
    /\ version \in Nat
    /\ DOMAIN versionVector \subseteq Names
    /\ \A n \in DOMAIN versionVector : versionVector[n] \in Nat
    /\ versionMap \in VersionMaps \cup {NoMap}
    /\ watches \in [Names -> SUBSET Subscribers]
    /\ watchAll \subseteq Subscribers
    /\ deltaWatches \subseteq DeltaWatches
    /\ deltaWatchCount \in Nat
    /\ sending \subseteq [chan : Subscribers, stale : SUBSET Names]
    /\ deltaSending \subseteq deltaWatches
    /\ responses \in [Subscribers -> Seq(LinearResponses)]
    /\ deltaResponses \in [DeltaChannels -> Seq([resources : ResourceMaps, removed : SUBSET Names,
                                                 next : VersionMaps])]
    /\ pc \in [Subscribers -> {"select", "cancel", "create", "closing", "gone"}]
    /\ due \in [Subscribers -> BOOLEAN]
    /\ cancels \in [Subscribers -> BOOLEAN]
    /\ sub \in [Subscribers -> [names : SUBSET Names, version : VersionInfos,
                                content : ResourceMaps]]
    /\ leaves \in Nat

Init ==
    /\ resources = InitialResources
    /\ version = 0
    /\ versionVector = [n \in DOMAIN InitialResources |-> 0]
    /\ versionMap = NoMap
    /\ watches = [n \in Names |-> {}]
    /\ watchAll = {}
    /\ deltaWatches = {}
    /\ deltaWatchCount = 0
    /\ sending = {}
    /\ deltaSending = {}
    /\ responses = [k \in Subscribers |-> <<>>]
    /\ deltaResponses = [c \in DeltaChannels |-> <<>>]
    /\ pc = [k \in Subscribers |-> "select"]
    /\ due = [k \in Subscribers |-> TRUE]
    /\ cancels = [k \in Subscribers |-> FALSE]
    /\ sub \in [Subscribers -> [names : Interest, version : {NoVersion}, content : {EmptyMap}]]
    /\ leaves = 0

\* cache.mu is free: whoever changed the collection has answered all watches.
Unlocked == sending = {} /\ deltaSending = {}

----------------------------------------------------------------------------
(* Changing the collection                                                 *)

\* Mutant: a deleted resource stays in the map.
UpdatedVersionMap_KeepsDeleted(vm, res, modified) ==
    [n \in DOMAIN vm \cup (DOMAIN res \cap modified) |->
        IF n \in modified /\ n \in DOMAIN res THEN res[n] ELSE vm[n]]

\* updateVersionMap for the modified names, over a map that exists.
UpdatedVersionMap(vm, res, modified) ==
    [n \in (DOMAIN vm \ modified) \cup (DOMAIN res \cap modified) |->
        IF n \in modified THEN res[n] ELSE vm[n]]

\* The resources with the versions the version map has for them.
Versioned(res, vm) ==
    [n \in DOMAIN res |-> IF n \in DOMAIN vm THEN vm[n] ELSE NoHash]

\* Mutant: a wildcard subscription is forgotten.
WatchesResources_Subscribed(st, names) == st.subscribed \cap names # {}

\* StreamState.WatchesResources.
WatchesResources(st, names) == st.wildcard \/ st.subscribed \cap names # {}

\* Mutant: the watches of the modified names stay.
notifyAll_KeepsWatches(res, modified) ==
    /\ sending' =
         {[chan |-> k, stale |-> {n \in modified : k \in watches[n]}] :
             k \in UNION {watches[n] : n \in modified}}
         \cup {[chan |-> k, stale |-> {}] : k \in watchAll}
    /\ watchAll' = {}
    /\ versionMap' = IF versionMap = NoMap THEN NoMap ELSE UpdatedVersionMap(versionMap, res, modified)
    /\ deltaSending' = IF versionMap = NoMap THEN {}
                       ELSE {w \in deltaWatches : ShouldRespond(w.state, res)}
    /\ UNCHANGED <<watches, deltaVars, responses, subVars>>

\* notifyAll: the watches of the modified names and those of all names are
\* taken, the answers are to be sent, the version map follows if there is one,
\* and the delta watches concerned are to be answered.  A channel that waits
\* for other names as well keeps waiting for these.
notifyAll(res, modified) ==
    /\ sending' =
         {[chan |-> k, stale |-> {n \in modified : k \in watches[n]}] :
             k \in UNION {watches[n] : n \in modified}}
         \cup {[chan |-> k, stale |-> {}] : k \in watchAll}
    /\ watches' = [n \in Names |-> IF n \in modified THEN {} ELSE watches[n]]
    /\ watchAll' = {}
    /\ IF versionMap = NoMap
       THEN UNCHANGED versionMap /\ deltaSending' = {}
       ELSE LET vm == UpdatedVersionMap(versionMap, res, modified)
            IN  /\ versionMap' = vm
                /\ deltaSending' = {w \in deltaWatches :
                        /\ WatchesResources(w.state, modified)
                        /\ ShouldRespond(w.state, Versioned(res, vm))}
    /\ UNCHANGED <<deltaVars, responses, subVars>>

\* A change of the collection to res, of which the names in updated and
\* deleted take part; vector is the version vector afterwards.
Modify(res, updated, deleted) ==
    /\ Unlocked
    /\ version < MaxVersion
    /\ version' = version + 1
    /\ resources' = res
    /\ versionVector' =
         [n \in (DOMAIN versionVector \ deleted) \cup updated |->
             IF n \in updated THEN version + 1 ELSE versionVector[n]]
    /\ notifyAll(res, updated \cup deleted)

\* The map with those of another put over it, and with names taken out.
Over(upper, lower) ==
    [n \in DOMAIN upper \cup DOMAIN lower |->
        IF n \in DOMAIN upper THEN upper[n] ELSE lower[n]]
Without(map, names) == Restrict(map, DOMAIN map \ names)

UpdateResource(n, h) == Modify(Over([x \in {n} |-> h], resources), {n}, {})

DeleteResource(n) == Modify(Without(resources, {n}), {}, {n})

UpdateResources(toUpdate, toDelete) ==
    Modify(Without(Over(toUpdate, resources), toDelete), DOMAIN toUpdate \ toDelete, toDelete)

SetResources(res) == Modify(res, DOMAIN res, DOMAIN resources \ DOMAIN res)

----------------------------------------------------------------------------
(* Answering                                                               *)

\* respond: no stale names stand for all resources.
Answer(stale) ==
    [version   |-> version,
     resources |-> IF stale = {} THEN resources
                   ELSE Restrict(resources, DOMAIN resources \cap stale)]

\* Mutant: an answered watch is not taken off the list.
Send_Again(p) ==
    /\ p \in sending
    /\ Len(responses[p.chan]) < Capacity
    /\ responses' = [responses EXCEPT ![p.chan] = Append(@, Answer(p.stale))]
    /\ UNCHANGED <<contentVars, watchVars, deltaVars, lockVars, subVars>>

\* The next answer of notifyAll, as soon as the channel has room.
Send(p) ==
    /\ p \in sending
    /\ Len(responses[p.chan]) < Capacity
    /\ responses' = [responses EXCEPT ![p.chan] = Append(@, Answer(p.stale))]
    /\ sending' = sending \ {p}
    /\ UNCHANGED <<contentVars, watchVars, deltaVars, deltaSending, subVars>>

SendDelta(w) ==
    /\ sending = {}
    /\ w \in deltaSending
    /\ deltaResponses' = [deltaResponses EXCEPT ![w.chan] =
            Append(@, createDeltaResponse(w.state, Versioned(resources, versionMap)))]
    /\ deltaWatches' = deltaWatches \ {w}
    /\ deltaSending' = deltaSending \ {w}
    /\ UNCHANGED <<contentVars, watchVars, deltaWatchCount, sending, responses, subVars>>

----------------------------------------------------------------------------
(* Watches                                                                 *)

\* Mutant: the change right after the version of the request counts as seen.
StaleNames_Late(names, v) ==
    {n \in names \cap DOMAIN versionVector : v + 1 < versionVector[n]}

\* The requested names that changed after the version of the request.
StaleNames(names, v) ==
    {n \in names \cap DOMAIN versionVector : v < versionVector[n]}

\* Mutant: a wildcard request is stale only when a resource it knows changed.
Stale_MissesDeletions(names, v) ==
    IF v = NoVersion THEN TRUE
    ELSE StaleNames(IF names = {} THEN Names ELSE names, v) # {}

Stale(names, v) ==
    IF v = NoVersion THEN TRUE
    ELSE IF names = {} THEN v # version
    ELSE StaleNames(names, v) # {}

\* What the answer is restricted to; {} stands for all.
Reported(names, v) ==
    IF v = NoVersion THEN names ELSE StaleNames(names, v)

\* CreateWatch on a channel made for it.
CreateWatch(k) ==
    LET names == sub[k].names
        v     == sub[k].version
    IN  /\ pc[k] = "create"
        /\ Unlocked
        /\ \/ /\ Stale(names, v)
              /\ responses' = [responses EXCEPT ![k] = <<Answer(Reported(names, v))>>]
              /\ cancels' = [cancels EXCEPT ![k] = FALSE]
              /\ UNCHANGED watchVars
           \/ /\ ~Stale(names, v)
              /\ responses' = [responses EXCEPT ![k] = <<>>]
              /\ watches' = [n \in Names |-> IF n \in names THEN watches[n] \cup {k} ELSE watches[n]]
              /\ watchAll' = IF names = {} THEN watchAll \cup {k} ELSE watchAll
              /\ cancels' = [cancels EXCEPT ![k] = TRUE]
        /\ pc' = [pc EXCEPT ![k] = "select"]
        /\ UNCHANGED <<contentVars, deltaVars, lockVars, due, sub, leaves>>

\* The stream takes the client's request and calls the cancel function of the
\* watch it supersedes, which takes cache.mu.
TakeRequest(k) ==
    /\ pc[k] = "select"
    /\ due[k]
    /\ due' = [due EXCEPT ![k] = FALSE]
    /\ pc' = [pc EXCEPT ![k] = IF cancels[k] THEN "cancel" ELSE "create"]
    /\ UNCHANGED <<contentVars, watchVars, deltaVars, lockVars, responses, cancels, sub, leaves>>

CancelWatch(k) ==
    /\ pc[k] = "cancel"
    /\ Unlocked
    /\ watches' = [n \in Names |-> watches[n] \ {k}]
    /\ watchAll' = watchAll \ {k}
    /\ pc' = [pc EXCEPT ![k] = "create"]
    /\ UNCHANGED <<contentVars, deltaVars, lockVars, responses, due, cancels, sub, leaves>>

\* The stream sends a response to its client, whose acknowledgement is due.
Deliver(k) ==
    /\ pc[k] = "select"
    /\ responses[k] # <<>>
    /\ LET r == Head(responses[k])
       IN  sub' = [sub EXCEPT ![k].version = r.version,
                              ![k].content = IF sub[k].names = {} THEN r.resources
                                             ELSE Over(r.resources, @)]
    /\ responses' = [responses EXCEPT ![k] = Tail(@)]
    /\ due' = [due EXCEPT ![k] = TRUE]
    /\ UNCHANGED <<contentVars, watchVars, deltaVars, lockVars, pc, cancels, leaves>>

\* The client asks for other names; what it has of them it keeps.  Its request
\* takes the place of one under way, which it supersedes in the stream too.
ChangeNames(k, names) ==
    /\ MayChangeNames
    /\ sub[k].names # names
    /\ pc[k] = "select"
    /\ sub' = [sub EXCEPT ![k].names = names]
    /\ due' = [due EXCEPT ![k] = TRUE]
    /\ UNCHANGED <<contentVars, watchVars, deltaVars, lockVars, responses, pc, cancels, leaves>>

\* The stream ends: its loop returns.
Leave(k) ==
    /\ pc[k] = "select"
    /\ leaves < MaxLeaves
    /\ leaves' = leaves + 1
    /\ pc' = [pc EXCEPT ![k] = "closing"]
    /\ due' = [due EXCEPT ![k] = FALSE]
    /\ UNCHANGED <<contentVars, watchVars, deltaVars, lockVars, responses, cancels, sub>>

\* Mutant: the watch is left open.
Shutdown_Leaks(k) ==
    /\ pc[k] = "closing"
    /\ responses' = [responses EXCEPT ![k] = <<>>]
    /\ cancels' = [cancels EXCEPT ![k] = FALSE]
    /\ pc' = [pc EXCEPT ![k] = "gone"]
    /\ UNCHANGED <<contentVars, watchVars, deltaVars, lockVars, due, sub, leaves>>

\* watches.close: the cancel function of an open watch takes cache.mu; what the
\* channel holds is lost.
Shutdown(k) ==
    /\ pc[k] = "closing"
    /\ \/ /\ cancels[k]
          /\ Unlocked
          /\ watches' = [n \in Names |-> watches[n] \ {k}]
          /\ watchAll' = watchAll \ {k}
       \/ /\ ~cancels[k]
          /\ UNCHANGED watchVars
    /\ responses' = [responses EXCEPT ![k] = <<>>]
    /\ cancels' = [cancels EXCEPT ![k] = FALSE]
    /\ pc' = [pc EXCEPT ![k] = "gone"]
    /\ UNCHANGED <<contentVars, deltaVars, lockVars, due, sub, leaves>>

\* The client opens another stream and asks for what it had asked for, with the
\* version it has.
Return(k) ==
    /\ pc[k] = "gone"
    /\ pc' = [pc EXCEPT ![k] = "select"]
    /\ due' = [due EXCEPT ![k] = TRUE]
    /\ UNCHANGED <<contentVars, watchVars, deltaVars, lockVars, responses, cancels, sub, leaves>>

\* The version map is built with the first delta watch.
BuiltVersionMap == IF versionMap = NoMap THEN resources ELSE versionMap

CreateDeltaWatch(st, c) ==
    /\ Unlocked
    /\ versionMap' = BuiltVersionMap
    /\ \/ /\ ~ShouldRespond(st, Versioned(resources, BuiltVersionMap))
          /\ deltaWatchCount < MaxDeltaWatches
          /\ deltaWatchCount' = deltaWatchCount + 1
          /\ deltaWatches' = deltaWatches \cup
                {[id |-> deltaWatchCount + 1, chan |-> c, state |-> st]}
          /\ UNCHANGED deltaResponses
       \/ /\ ShouldRespond(st, Versioned(resources, BuiltVersionMap))
          /\ deltaResponses' = [deltaResponses EXCEPT ![c] =
                Append(@, createDeltaResponse(st, Versioned(resources, BuiltVersionMap)))]
          /\ UNCHANGED <<deltaWatches, deltaWatchCount>>
    /\ UNCHANGED <<resources, version, versionVector, watchVars, lockVars, responses, subVars>>

\* Mutant: the cancel function does not take the lock.
CancelDeltaWatch_Unlocked(w) ==
    /\ deltaWatches' = deltaWatches \ {w}
    /\ UNCHANGED <<contentVars, watchVars, deltaWatchCount, deltaResponses, lockVars, responses,
                   subVars>>

CancelDeltaWatch(w) ==
    /\ Unlocked
    /\ deltaWatches' = deltaWatches \ {w}
    /\ UNCHANGED <<contentVars, watchVars, deltaWatchCount, deltaResponses, lockVars, responses,
                   subVars>>

----------------------------------------------------------------------------
\* Delta streams have one watch or response at a time.
CreateDelta(st, c) ==
    /\ deltaResponses[c] = <<>>
    /\ \A w \in deltaWatches : w.chan # c
    /\ CreateDeltaWatch(st, c)

ReceiveDelta(c) ==
    /\ deltaResponses[c] # <<>>
    /\ deltaResponses' = [deltaResponses EXCEPT ![c] = Tail(@)]
    /\ UNCHANGED <<contentVars, watchVars, deltaWatches, deltaWatchCount, lockVars, responses,
                   subVars>>

StreamActs(k) == TakeRequest(k) \/ CancelWatch(k) \/ CreateWatch(k) \/ Deliver(k) \/ Shutdown(k)

Next ==
    \/ \E n \in Names, h \in Hashes : UpdateResource(n, h)
    \/ \E n \in Names : DeleteResource(n)
    \/ \E toUpdate \in ResourceMaps, toDelete \in SUBSET Names : UpdateResources(toUpdate, toDelete)
    \/ \E res \in ResourceMaps : SetResources(res)
    \/ \E p \in sending : Send(p)
    \/ \E w \in deltaSending : SendDelta(w)
    \/ \E k \in Subscribers : StreamActs(k)
    \/ \E k \in Subscribers, names \in Interest : ChangeNames(k, names)
    \/ \E k \in Subscribers : Leave(k)
    \/ \E k \in Subscribers : Return(k)
    \/ \E st \in StreamStates, c \in DeltaChannels : CreateDelta(st, c)
    \/ \E w \in deltaWatches : CancelDeltaWatch(w)
    \/ \E c \in DeltaChannels : ReceiveDelta(c)

Spec == Init /\ [][Next]_vars

\* The streams and the change under way keep running; nobody is obliged to leave
\* or to return.
Fairness ==
    /\ WF_vars(\E p \in sending : Send(p))
    /\ WF_vars(\E w \in deltaSending : SendDelta(w))
    /\ \A k \in Subscribers : WF_vars(StreamActs(k))

FairSpec == Spec /\ Fairness

----------------------------------------------------------------------------
(* Properties                                                              *)

\* The version vector has an entry for the resources there are and no other,
\* and none is of the future; the version map, once built, has the hash of
\* every resource and of no other, although it is maintained incrementally
\* and, until the first delta watch, not at all (UpdateResources,
\* SetResources, updateVersionMap).
VersionsCurrent ==
    /\ DOMAIN versionVector = DOMAIN resources
    /\ \A n \in DOMAIN versionVector : versionVector[n] \in 0 .. version
    /\ versionMap # NoMap => versionMap = resources

\* An open delta watch has nothing to report although notifyAll only looks at
\* the watches of the modified names (notifyAll, CreateDeltaWatch).
NoMissedDelta ==
    \A w \in deltaWatches : w \in deltaSending \/ ~ShouldRespond(w.state, resources)

\* By the versions, an open watch waits for a change that is yet to come: no name it
\* is open for, or of all no name, has changed since the version its client has,
\* while answers for some names of a watch, later requests and later answers come
\* in between (CreateWatch, notifyAll).  A version comparison only: a client need
\* not have what it watches, see NoMissedUpdate.
WatchesAwaitChanges ==
    \A k \in Subscribers :
        /\ k \in watchAll => sub[k].version = version
        /\ \A n \in DOMAIN versionVector :
              k \in watches[n] => sub[k].version # NoVersion /\ sub[k].version >= versionVector[n]

\* An open watch belongs to a client that holds what it waits for as it is now
\* ("Create open watches since versions are up to date").  This is so for streams
\* that ask for one name or for all and keep to it.  A name asked for in addition
\* counts as received if it has not changed since, and so does a name of several
\* that changed while the answer for another was under way.
NoMissedUpdate ==
    \A k \in Subscribers :
        /\ k \in watchAll => sub[k].content = resources
        /\ \A n \in DOMAIN resources :
              k \in watches[n] => n \in DOMAIN sub[k].content /\ sub[k].content[n] = resources[n]

\* A stream in its loop waits for nothing but what its client asked for last, and
\* a stream that ended for nothing: the watch of an earlier request is gone under
\* all its names, though some of them may have been answered and some not, and
\* some may be on their way to a channel nobody reads (CreateWatch and its cancel
\* function, watches.close).
NoStrayWatch ==
    \A k \in Subscribers :
        /\ pc[k] = "select" /\ ~due[k] =>
              /\ \A n \in Names : k \in watches[n] => n \in sub[k].names
              /\ k \in watchAll => sub[k].names = {}
        /\ pc[k] = "gone" =>
              /\ \A n \in Names : k \notin watches[n]
              /\ k \notin watchAll
              /\ \A p \in sending : p.chan # k

\* A client holds the resources of the collection that it asked for.
Converged(k) ==
    LET st   == sub[k]
        want == IF st.names = {} THEN DOMAIN resources ELSE DOMAIN resources \cap st.names
    IN  /\ \A n \in want : n \in DOMAIN st.content /\ st.content[n] = resources[n]
        /\ st.names = {} => DOMAIN st.content = want

\* A change never waits for a stream that is itself waiting for the cache: a
\* channel that is full is one whose stream receives (notifyAll "de-duplicates
\* watches that need to be responded"; the streams' channels hold one response).
NeverLockedOut ==
    \A p \in sending : Len(responses[p.chan]) = Capacity => pc[p.chan] = "select"

\* "Linear is an eventually consistent cache": once the collection rests, its
\* clients, those that come back included, come to hold it for good (CreateWatch, notifyAll, respond, process).
EventuallyConverged == \A k \in Subscribers : <>[](Converged(k) \/ pc[k] = "gone")
============================================================================
