------------------------- MODULE StreamStateProofs -------------------------
(***************************************************************************)
(* Proofs about the computation of delta responses, for all resource maps  *)
(* and all stream states.                                                  *)
(***************************************************************************)
EXTENDS StreamState, TLAPS

\* A part of a resource map is a resource map (createResponse,
\* createDeltaResponse).
LEMMA RestrictMap ==
    ASSUME NEW V, NEW m \in Maps(V), NEW S \in SUBSET DOMAIN m
    PROVE  Restrict(m, S) \in Maps(V)
  <1>1. PICK D \in SUBSET Names : m \in [D -> V]
    BY DEF Maps
  <1>2. S \in SUBSET Names
    BY <1>1
  <1>3. Restrict(m, S) \in [S -> V]
    BY <1>1 DEF Restrict
  <1> QED
    BY <1>2, <1>3 DEF Maps

\* What a delta response is made of: resources, removed names and the version
\* map of the resources in scope (createDeltaResponse).
LEMMA DeltaResponseParts ==
    ASSUME NEW st \in StreamStates, NEW resources \in ResourceMaps
    PROVE  createDeltaResponse(st, resources)
             \in [resources : ResourceMaps, removed : SUBSET Names, next : ResourceMaps]
  <1>1. /\ Restrict(resources, Changed(st, resources)) \in ResourceMaps
        /\ Restrict(resources, InScope(st, resources)) \in ResourceMaps
    BY RestrictMap DEF ResourceMaps, Changed, InScope
  <1>2. PICK D \in SUBSET Names : st.versions \in [D -> Hashes \cup {NoHash}]
    BY DEF StreamStates, VersionMaps, Maps
  <1>3. Removed(st, resources) \in SUBSET Names
    BY <1>2 DEF Removed
  <1> QED
    BY <1>1, <1>3 DEF createDeltaResponse

\* A delta response is complete: a client that holds what the stream recorded
\* as sent, and that the stream is still entitled to, holds after it exactly the
\* resources in the stream's scope, additions, changes and removals included
\* (createDeltaResponse).
THEOREM DeltaResponseComplete ==
    ASSUME NEW st \in StreamStates, NEW resources \in ResourceMaps,
           st.wildcard \/ DOMAIN st.versions \subseteq st.subscribed
    PROVE  Apply(st.versions, createDeltaResponse(st, resources))
             = Restrict(resources, InScope(st, resources))
  <1> DEFINE r == createDeltaResponse(st, resources)
             scope == InScope(st, resources)
  <1>1. /\ r.resources = [n \in Changed(st, resources) |-> resources[n]]
        /\ r.removed = Removed(st, resources)
    BY DEF createDeltaResponse, Restrict
  <1>2. DOMAIN r.resources = Changed(st, resources) /\ Changed(st, resources) \subseteq scope
    BY <1>1 DEF Changed
  <1>3. DOMAIN st.versions \ Removed(st, resources) = DOMAIN st.versions \cap scope
    BY DEF Removed, InScope
  <1>4. \A n \in scope : n \notin Changed(st, resources)
            => n \in DOMAIN st.versions /\ st.versions[n] = resources[n]
    BY DEF Changed
  <1>5. (DOMAIN st.versions \ r.removed) \cup DOMAIN r.resources = scope
    BY <1>1, <1>2, <1>3, <1>4
  <1>6. \A n \in scope : (IF n \in DOMAIN r.resources THEN r.resources[n] ELSE st.versions[n])
                            = resources[n]
    BY <1>1, <1>2, <1>4
  <1> HIDE DEF r, scope
  <1>7. Apply(st.versions, r) = [n \in scope |-> resources[n]]
    BY <1>5, <1>6 DEF Apply
  <1> QED
    BY <1>7 DEF r, scope, Restrict

\* A delta response settles the stream: once its version map is recorded, the
\* same resources give nothing more to send, so that acknowledging a response
\* never causes another one (createDeltaResponse, SetResourceVersions,
\* respondDelta).
THEOREM DeltaResponseSettles ==
    ASSUME NEW st \in StreamStates, NEW resources \in ResourceMaps
    PROVE  ~ShouldRespond(SetResourceVersions(st, createDeltaResponse(st, resources).next), resources)
  <1> DEFINE next == createDeltaResponse(st, resources).next
             st2  == SetResourceVersions(st, next)
  <1>1. next = [n \in InScope(st, resources) |-> resources[n]]
    BY DEF createDeltaResponse, Restrict
  <1>2. /\ st2.wildcard = st.wildcard /\ st2.subscribed = st.subscribed
        /\ st2.versions = next /\ st2.first = FALSE
    BY DEF SetResourceVersions, StreamStates
  <1>3. InScope(st2, resources) = InScope(st, resources)
    BY <1>2 DEF InScope
  <1>4. Changed(st2, resources) = {}
    BY <1>1, <1>2, <1>3 DEF Changed
  <1>5. Removed(st2, resources) = {}
    BY <1>1, <1>2 DEF Removed, InScope
  <1> QED
    BY <1>2, <1>4, <1>5 DEF ShouldRespond
============================================================================
