------------------------------ MODULE MCAnchoring ------------------------------
(* Anchoring on small instances. *)
EXTENDS Anchoring, TLC

=============================================================================
