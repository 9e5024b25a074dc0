--------------------------- MODULE MCUserProfiles ---------------------------
(* Instances of UserProfiles for TLC: three keys, one of them the admin's,  *)
(* and a multisig name.                                                     *)
EXTENDS UserProfiles, TLC

CONSTANTS admin, k1, k2, root, shared

Symmetry == Permutations({k1, k2})
=============================================================================
