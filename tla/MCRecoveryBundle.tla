-------------------------- MODULE MCRecoveryBundle --------------------------
(* Instances of RecoveryBundle for TLC. *)
EXTENDS RecoveryBundle, TLC

CONSTANTS old, new, unsigned

ThreeGens == {old, new, unsigned}
Signed == {old, new}

\* The signed generations are interchangeable.
Symmetry == Permutations(Signed)

NoAsideFault == AllFaults \ {"aside"}
OnlyAsideFault == {"aside"}
=============================================================================
