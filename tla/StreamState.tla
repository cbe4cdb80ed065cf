---------------------------- MODULE StreamState ----------------------------
(***************************************************************************)
(* The per-type state of a delta xDS stream (pkg/server/stream/v3) and the *)
(* computation of a delta response from it (pkg/cache/v3/delta.go).        *)
(*                                                                         *)
(* A resource is identified by the hash of its marshalled form, so a map   *)
(* from names to hashes stands both for a resource map and for its version *)
(* map.  Pure definitions: no state.                                       *)
(***************************************************************************)
EXTENDS Functions

CONSTANTS Names,    \* resource names
          Hashes,   \* resource versions: hashes of marshalled resources
          NoHash    \* the empty version string, which is no hash

ASSUME NoHashAssumption == NoHash \notin Hashes

\* Go maps from names to values: functions on a subset of Names.
Maps(V) == UNION {[D -> V] : D \in SUBSET Names}

ResourceMaps == Maps(Hashes)
VersionMaps == Maps(Hashes \cup {NoHash})

EmptyMap == [n \in {} |-> NoHash]

StreamStates == [wildcard   : BOOLEAN,
                 subscribed : SUBSET Names,
                 versions   : VersionMaps,
                 first      : BOOLEAN]

NewStreamState(wildcard, initialVersions) ==
    [wildcard   |-> wildcard,
     subscribed |-> {},
     versions   |-> initialVersions,
     first      |-> TRUE]

SetResourceVersions(st, versions) ==
    [st EXCEPT !.versions = versions, !.first = FALSE]

----------------------------------------------------------------------------
(***************************************************************************)
(* A request subscribes to a set of names and to "*" (star), then          *)
(* unsubscribes from others.  A request naming "*" and other names in one  *)
(* unsubscribe list is taken with "*" last.                                *)
(***************************************************************************)
Subscribe(st, names, star) ==
    [st EXCEPT !.subscribed = @ \cup names,
               !.wildcard = @ \/ star]

\* In wildcard mode an explicitly subscribed name that is given up is marked
\* with the empty version, so that the next response reports it.
Unsubscribe(st, names, star) ==
    LET forced == IF st.wildcard THEN names \cap st.subscribed ELSE {}
    IN  [st EXCEPT
           !.versions = [n \in DOMAIN @ \cup forced |->
                           IF n \in forced THEN NoHash ELSE @[n]],
           !.subscribed = @ \ names,
           !.wildcard = @ /\ ~star]

----------------------------------------------------------------------------
\* The names a stream is subscribed to.
Scope(st) == IF st.wildcard THEN Names ELSE st.subscribed

\* The names of a resource map the stream is entitled to.
InScope(st, resources) ==
    IF st.wildcard THEN DOMAIN resources
                   ELSE DOMAIN resources \cap st.subscribed

\* Of those, the ones whose version the client does not have yet.  A resource
\* has a hash, from which a missing version and an empty one differ alike.
Changed(st, resources) ==
    {n \in InScope(st, resources) :
        n \in DOMAIN st.versions => st.versions[n] # resources[n]}

\* Mutant: a wildcard subscription is not told of removals.
Removed_Subscribed(st, resources) ==
    (DOMAIN st.versions \cap st.subscribed) \ DOMAIN resources

\* What the client was last sent and is gone.
Removed(st, resources) ==
    IF st.wildcard THEN DOMAIN st.versions \ DOMAIN resources
                   ELSE (DOMAIN st.versions \cap st.subscribed) \ DOMAIN resources

\* Mutant: a resource the client has in another version is not sent again.
createDeltaResponse_NewOnly(st, resources) ==
    [resources |-> Restrict(resources, InScope(st, resources) \ DOMAIN st.versions),
     removed   |-> Removed(st, resources),
     next      |-> Restrict(resources, InScope(st, resources))]

createDeltaResponse(st, resources) ==
    [resources |-> Restrict(resources, Changed(st, resources)),
     removed   |-> Removed(st, resources),
     next      |-> Restrict(resources, InScope(st, resources))]

\* respondDelta sends only what reports a change, except that the first
\* request of a wildcard stream is always answered.
ShouldRespond(st, resources) ==
    \/ Changed(st, resources) # {}
    \/ Removed(st, resources) # {}
    \/ st.wildcard /\ st.first

\* What a client holds once it has applied a response to what it held.
Apply(held, response) ==
    [n \in (DOMAIN held \ response.removed) \cup DOMAIN response.resources |->
        IF n \in DOMAIN response.resources THEN response.resources[n] ELSE held[n]]
============================================================================
