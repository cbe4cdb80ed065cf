--------------------------- MODULE MCDeltaServer ---------------------------
(***************************************************************************)
(* Instances of DeltaServer for TLC.                                       *)
(***************************************************************************)
EXTENDS DeltaServer, TLC

CONSTANTS a, b

\* All streams belong to the only node.
MCStreamNode == [s \in Streams |-> CHOOSE n \in Nodes : TRUE]

Snapshot(v, res) ==
    [version   |-> [t \in Types |-> v],
     resources |-> [t \in Types |-> res],
     ttl       |-> [t \in Types |-> {}]]

\* Snapshots that add, change and remove resources.
MCSnapshots ==
    {Snapshot("v1", a :> "h1"),
     Snapshot("v2", a :> "h2" @@ b :> "h1"),
     Snapshot("v3", b :> "h1")}

\* Snapshots of the same resources.
MCUpdates ==
    {Snapshot("v1", a :> "h1" @@ b :> "h1"),
     Snapshot("v2", a :> "h2" @@ b :> "h2")}
============================================================================
