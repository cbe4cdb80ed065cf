---------------------------- MODULE MCSotwServer ----------------------------
(***************************************************************************)
(* Instances of SotwServer for TLC.                                        *)
(***************************************************************************)
EXTENDS SotwServer, TLC

CONSTANTS a, b

MCChannels == Streams \X (Types \cup {AnyType})

\* All streams belong to the only node.
MCStreamNode == [s \in Streams |-> CHOOSE n \in Nodes : TRUE]

\* Clients that want everything, or to begin with do not know what to ask for.
MCAll == [t \in Types |-> {{}}]

\* Clients want all clusters, and the endpoints of one cluster, then of two.
MCInterest == [t \in Types |-> IF t = "Cluster" THEN {{}} ELSE {{a}, {a, b}}]

\* Clients that want everything, or the endpoints of one cluster.
MCFixedInterest == [t \in Types |-> IF t = "Cluster" THEN {{}} ELSE {{}, {a}}]

\* A cluster's endpoints go by its own name (h1) or by the name b (h2).  A
\* listener takes one route configuration from RDS, or has a second filter
\* chain with an embedded scoped route.
MCContent ==
    [Cluster     |-> ("h1" :> [eds |-> TRUE, serviceName |-> NoName]
                      @@ "h2" :> [eds |-> TRUE, serviceName |-> b]),
     Listener    |-> ("h1" :> {{[rds |-> a, scoped |-> {}]}}
                      @@ "h2" :> {{[rds |-> NoName, scoped |-> {b}]}, {[rds |-> a, scoped |-> {}]}}),
     ScopedRoute |-> ("h1" :> a @@ "h2" :> b)]

\* Cases of snapshot_test.go in which the numbers of names already decide.
ASSUME MCConsistent ==
    /\ Consistent([Cluster |-> a :> "h1", Endpoint |-> a :> "h1"])
    /\ ~Consistent([Endpoint |-> a :> "h1"])
    /\ ~Consistent([Listener |-> b :> "h1"])
    /\ Consistent([Listener |-> b :> "h1", Route |-> a :> "h1"])
    /\ ~Consistent([Listener |-> b :> "h2", Route |-> a :> "h1"])
    /\ Consistent([Listener |-> b :> "h1", ScopedRoute |-> a :> "h2",
                   Route |-> a :> "h1" @@ b :> "h1"])

Snapshot(v, cds, eds, ttl) ==
    [version   |-> [t \in Types |-> v],
     resources |-> [t \in Types |-> IF t = "Cluster" THEN cds ELSE eds],
     ttl       |-> [t \in Types |-> IF t = "Cluster" THEN {} ELSE ttl]]

\* A snapshot with one cluster and its endpoint, and one with another cluster
\* added and the first endpoint changed, which now has a TTL.
MCSnapshots ==
    {Snapshot("v1", a :> "h1", a :> "h1", {}),
     Snapshot("v2", a :> "h1" @@ b :> "h1", a :> "h2" @@ b :> "h1", {a})}

\* Of several snapshots those a management server sets that calls Consistent
\* first: a cluster is added and an endpoint changes, which now has a TTL, and
\* endpoints go by another name; the last two are not consistent.
MCConsistentSnapshots ==
    {s \in {Snapshot("v1", a :> "h1", a :> "h1", {}),
            Snapshot("v2", a :> "h1" @@ b :> "h1", a :> "h2" @@ b :> "h1", {a}),
            Snapshot("v3", a :> "h2", b :> "h1", {}),
            Snapshot("v3", a :> "h1", b :> "h1", {}),
            Snapshot("v3", a :> "h1", a :> "h1" @@ b :> "h1", {})} :
        Consistent(s.resources)}
============================================================================
