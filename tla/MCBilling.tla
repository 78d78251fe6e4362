------------------------------ MODULE MCBilling ------------------------------
(* Billing on small instances. *)
EXTENDS Billing, TLC

Symmetry == Permutations(Wallets) \cup Permutations(TxHashes) \cup Permutations(Calls)
=============================================================================
