---------------------------- MODULE MCEpochEngine ----------------------------
(* EpochEngine on small instances. *)
EXTENDS EpochEngine

Symmetry == Permutations(ClientSeeds)
=============================================================================
