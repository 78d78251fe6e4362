------------------------------- MODULE MCCasino -------------------------------
(* Casino on small instances. *)
EXTENDS Casino, TLC

=============================================================================
