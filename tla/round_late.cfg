\* The deadline may pass between the polls of run_build and of sim_round.
SPECIFICATION Spec
CONSTANTS
  older = older
  newer = newer
  tx = tx
  uuid = uuid
  Item <- MCItem
  Bundle <- MCBundle
  Id <- MCId
  IdOf <- MCIdOf
  First <- MCFirst
  Last <- MCLast
  MaxRank = 1
  MaxTime = 0
  Capacity = 2
  DisallowedCapacity = 1
  ReadLimit = 2
  Gas = {1, 2}
  Score = {0, 1, 2}
  MaxGas = 3
  MaxRounds = 1
  FeedsInRound = FALSE
  RoundTimesOut = TRUE
INVARIANT SimsDropped
CHECK_DEADLOCK FALSE
