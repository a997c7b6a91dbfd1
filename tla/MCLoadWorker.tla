---------------------------- MODULE MCLoadWorker ----------------------------
(* A small instance of one load generator thread for TLC.                   *)
EXTENDS LoadWorker

\* A closed loop of two connections, and an open loop with a slow clock.
SmallConfigs ==
  { [conns |-> 2, interval |-> 1, duration |-> 1, sample_pct |-> 1],
    [conns |-> 0, interval |-> 1, duration |-> 3, sample_pct |-> 1] }
=============================================================================
