---------------------------- MODULE MCTreatFleet ----------------------------
(* Model-checking instance of TreatFleet.                                   *)
EXTENDS TreatFleet

=============================================================================
