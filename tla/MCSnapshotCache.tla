-------------------------- MODULE MCSnapshotCache --------------------------
(***************************************************************************)
(* Instances of SnapshotCache for TLC.                                     *)
(***************************************************************************)
EXTENDS SnapshotCache, TLC

CONSTANTS a

Snapshot(v, cds, ttls) ==
    [version   |-> "Cluster" :> v,
     resources |-> "Cluster" :> cds,
     ttl       |-> "Cluster" :> ttls]

\* A first snapshot, and one that changes the resource, which loses its TTL.
MCSnapshots ==
    {Snapshot("v1", a :> "h1", {a}),
     Snapshot("v2", a :> "h2", {})}
============================================================================
