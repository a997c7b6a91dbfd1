SPECIFICATION Spec
CONSTANTS
  MaxIters = 3
  MaxRestarts = 1
  MaxEdits = 3
  None = None
  Patience = 2
  K = 2
  Epsilon = 3
  Scores <- MCScores
  ControlScores <- MCControl
  Envs <- MCEnvs
CHECK_DEADLOCK FALSE
INVARIANTS ChampionAtHead Unbeaten PlateauIsReal DriftPauses StrandedByKills FlushedIsStored
