----------------------------- MODULE MCReferenceTee -----------------------------
(* ReferenceTee on small instances. *)
EXTENDS ReferenceTee, TLC

CONSTANTS m1, m2, c1, c2, k1, k2

\* Distinct identity keys, one per machine of the extension (HARDENING.md).
DistinctKeys == m1 :> k1 @@ m2 :> k2
OneKey == m1 :> k1

\* The first machine stays up, the second one restarts once.
SecondRestarts == m1 :> 0 @@ m2 :> 1
FirstRestarts == m1 :> 1

Symmetry == Permutations(ClientSeeds)
=============================================================================
