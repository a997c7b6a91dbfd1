--------------------------- MODULE MCTreatWorker ----------------------------
(* Model-checking instance of TreatWorker.                                  *)
EXTENDS TreatWorker

=============================================================================
