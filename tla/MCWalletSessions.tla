---------------------------- MODULE MCWalletSessions ----------------------------
(* WalletSessions on small instances. *)
EXTENDS WalletSessions, TLC

Symmetry == Permutations(Wallets)
=============================================================================
