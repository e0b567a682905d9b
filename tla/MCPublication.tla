--------------------------- MODULE MCPublication ---------------------------
(* Model values for the publication of one share. *)
EXTENDS Publication, TLC

CONSTANTS A, B

MCManifests == {A, B}
Symmetry == Permutations(MCManifests)
=============================================================================
