------------------------ MODULE MCTunnelTransaction ------------------------
(* Small instances of TunnelTransaction for TLC.                           *)
EXTENDS TunnelTransaction, TLC

CONSTANTS s1, s2, u1, u2, v1, v2

\* Every session belongs to one user, or each to its own; likewise servers.
OneOwner == [s \in Sessions |-> u1]
OwnOwner == [s \in Sessions |-> IF s = s1 THEN u1 ELSE u2]
OneServer == [s \in Sessions |-> v1]
OwnServer == [s \in Sessions |-> IF s = s1 THEN v1 ELSE v2]

\* Helpers start alike, so permuting them maps behaviours to behaviours.
HelperSymmetry == Permutations(Helpers)
=============================================================================
