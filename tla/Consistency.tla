---------------------------- MODULE Consistency ----------------------------
(***************************************************************************)
(* Snapshot.Consistent (pkg/cache/v3/snapshot.go) and the references of    *)
(* resources to resources of other types (resource.go).  Pure definitions. *)
(*                                                                         *)
(* A resource is the hash of its marshalled form, so its content is a      *)
(* function of the hash.                                                   *)
(***************************************************************************)
EXTENDS StreamState, FiniteSets

CONSTANTS Content,  \* per type, the content of a resource with a given hash
          NoName    \* the empty name

NamesOrNone == Names \cup {NoName}

\* A cluster: whether it uses EDS, and its EDS service name.
Clusters == [eds : BOOLEAN, serviceName : NamesOrNone]

\* An HTTP connection manager: the route configuration it takes from RDS, and
\* those of the scoped routes embedded in it.
ConnectionManagers == [rds : NamesOrNone, scoped : SUBSET NamesOrNone]

\* A listener: its filter chains, the default one included, each with the
\* connection managers among its filters.
Listeners == SUBSET SUBSET ConnectionManagers

\* A scoped route: the route configuration it names.
ScopedRoutes == NamesOrNone

ASSUME FiniteAssumption == IsFiniteSet(Names)
ASSUME ContentAssumption ==
    /\ NoName \notin Names
    /\ Content \in [Cluster : [Hashes -> Clusters], Listener : [Hashes -> Listeners],
                    ScopedRoute : [Hashes -> ScopedRoutes]]

\* Resources[t].Items of a snapshot, which has a place for every type.
Items(resources, t) == IF t \in DOMAIN resources THEN resources[t] ELSE EmptyMap

----------------------------------------------------------------------------
\* The endpoints of a cluster go by its service name, if it has one.
getClusterReferences(name, c) ==
    IF ~c.eds THEN {} ELSE IF c.serviceName # NoName THEN {c.serviceName} ELSE {name}

getListenerReferencesFromChain(chain) ==
    UNION {({m.rds} \ {NoName}) \cup m.scoped : m \in chain}

getListenerReferences(l) == UNION {getListenerReferencesFromChain(chain) : chain \in l}

getScopedRouteReferences(s) == {s}

\* The types whose resources are referred to by others.
ReferencedTypes == {"Endpoint", "Route"}

GetAllResourceReferences(resources) ==
    LET cds  == Items(resources, "Cluster")
        lds  == Items(resources, "Listener")
        srds == Items(resources, "ScopedRoute")
    IN  [Endpoint |-> UNION {getClusterReferences(n, Content.Cluster[cds[n]]) : n \in DOMAIN cds},
         Route    |-> (UNION {getListenerReferences(Content.Listener[lds[n]]) : n \in DOMAIN lds})
                        \cup (UNION {getScopedRouteReferences(Content.ScopedRoute[srds[n]]) :
                                        n \in DOMAIN srds})]

superset(names, items) == DOMAIN items \subseteq names

\* Mutant: only the numbers are compared.
Consistent_CountOnly(resources) ==
    \A t \in ReferencedTypes :
        Cardinality(GetAllResourceReferences(resources)[t])
            = Cardinality(DOMAIN Items(resources, t))

Consistent(resources) ==
    \A t \in ReferencedTypes :
        LET references == GetAllResourceReferences(resources)[t]
            items == Items(resources, t)
        IN  /\ Cardinality(references) = Cardinality(DOMAIN items)
            /\ superset(references, items)
============================================================================
