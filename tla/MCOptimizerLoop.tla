-------------------------- MODULE MCOptimizerLoop --------------------------
(* OptimizerLoop for TLC: scores at and past the 3% promotion margin, control   *)
(* scores at and past the edge of the 5% drift band and one that failed, boxes  *)
(* that are left alone after the first end, started again, or disturbed.        *)
EXTENDS OptimizerLoop

MCScores == {0, 100, 103, 110}
MCControl == {0, 100, 105, 106}
MCEnvs ==
  {{"edit", "chdown", "fail", "stop"}, {"chdown", "fail", "stop", "restart"},
   {"fail", "kill", "restart"}, {"fail", "nocommit", "restart"},
   {"fail", "kill", "nocommit"}}

=============================================================================
