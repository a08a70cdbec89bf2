---------------------------- MODULE MCModelLoad ----------------------------
(* Small instances of ModelLoad for TLC.  Instances are interchangeable, and *)
(* so are the two handlers that run in one process.                         *)
EXTENDS ModelLoad, TLC

CONSTANTS h1, h2, h3, r1, r2

MCReplicaOf == [h \in Handlers |-> IF h = h3 THEN r2 ELSE r1]
MCFaults == FaultKinds
MCSentinelFaults == {"releaseResent"}
MCSymmetry == Permutations(Instances) \cup Permutations({h1, h2})
=============================================================================
