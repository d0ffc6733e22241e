\* One round; the feeds write at any time and sim_round may meet its own deadline.
SPECIFICATION FairSpec
CONSTANTS
  older = older
  newer = newer
  tx = tx
  uuid = uuid
  Item <- MCItem
  Bundle <- MCBundle
  Id <- MCId
  IdOf <- MCIdOf
  First <- MCFirst
  Last <- MCLast
  MaxRank = 1
  MaxTime = 0
  Capacity = 2
  DisallowedCapacity = 1
  ReadLimit = 2
  Gas = {1}
  Score = {0, 1}
  MaxGas = 2
  MaxRounds = 1
  FeedsInRound = TRUE
  RoundTimesOut = TRUE
PROPERTY RoundsEnd
CHECK_DEADLOCK FALSE
