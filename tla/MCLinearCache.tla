--------------------------- MODULE MCLinearCache ---------------------------
(***************************************************************************)
(* Instances of LinearCache for TLC.                                       *)
(***************************************************************************)
EXTENDS LinearCache, TLC

CONSTANTS a, b, c, k1, k2

MCInitial == a :> "h1"

\* Subscribers to one resource or to all.
MCSingle == {{}, {a}}

\* Subscribers to any resources: they may ask for some that are new to them.
MCSeveral == SUBSET Names

\* A subscriber to three.
MCThree == {{a, b, c}}

\* Names and hashes are interchangeable if no resource is there initially.
MCSymmetry == Permutations(Names) \cup Permutations(Hashes)

\* No step depends on what the clients hold or on what responses carry, and of the
\* properties of LinearWatches only TypeOK speaks of it: states that differ in
\* nothing else count as one.
MCView ==
    <<contentVars, watchVars, deltaWatches, deltaWatchCount, lockVars, pc, due, cancels, leaves,
      [d \in DeltaChannels |-> Len(deltaResponses[d])],
      [k \in Subscribers |-> [i \in DOMAIN responses[k] |-> responses[k][i].version]],
      [k \in Subscribers |-> <<sub[k].names, sub[k].version>>]>>
============================================================================
