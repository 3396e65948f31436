-------------------------- MODULE MCRefreshRotation --------------------------
(* Instances of RefreshRotation for TLC. *)
EXTENDS RefreshRotation, TLC

\* Calls are interchangeable, and so are families.
Symmetry == Permutations(Call) \cup Permutations(Family)
=============================================================================
