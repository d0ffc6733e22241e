\* Rounds of two simulations; the feeds write between rounds, and the deadline may
\* also end a round from within.
SPECIFICATION Spec
CONSTANTS
  older = older
  newer = newer
  tx = tx
  uuid = uuid
  Item <- MCItem
  Bundle <- MCBundle
  Id <- MCId
  IdOf <- MCIdOf
  First <- MCFirst
  Last <- MCLast
  MaxRank = 1
  MaxTime = 0
  Capacity = 2
  DisallowedCapacity = 1
  ReadLimit = 2
  Gas = {1, 2}
  Score = {0, 1, 2}
  MaxGas = 3
  MaxRounds = 2
  FeedsInRound = FALSE
  RoundTimesOut = TRUE
INVARIANTS
  TypeOK
  GasWithinLimit
  IncludedWasSimulated
  IncludedOnce
PROPERTIES
  BestIsIncluded
CHECK_DEADLOCK FALSE
