------------------------------ MODULE MCDemoEpoch ------------------------------
(* DemoEpoch on small instances. *)
EXTENDS DemoEpoch, TLC

=============================================================================
