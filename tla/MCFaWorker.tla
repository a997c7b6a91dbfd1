---------------------------- MODULE MCFaWorker ------------------------------
(* Small instances of one worker for TLC.                                   *)
EXTENDS FaWorkerProps, TLC

\* Clients, conns and descriptors are interchangeable: no definition picks one
\* of them by name.  Used for safety only.
WorkerSymmetry ==
  Permutations(Clients) \cup Permutations(Conns) \cup Permutations(Slots)
=============================================================================
