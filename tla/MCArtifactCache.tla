--------------------------- MODULE MCArtifactCache ---------------------------
(* Instances of ArtifactCache for TLC. *)
EXTENDS ArtifactCache, TLC

CONSTANTS p, q

Two == {p, q}
Symmetry == Permutations(Two)

TwoArtifacts == 1..2
ThreeArtifacts == 1..3

NoFaults == {}
Deaths == {"die"}
EveryFault == AllFaults
=============================================================================
