\* A cache of two items, smaller than what is offered; and the verdicts on items
\* of up to two transactions on either chain while both chains move.
SPECIFICATION MCSpec
CONSTANTS
  older = older
  newer = newer
  tx1 = tx1
  tx2 = tx2
  uuid = uuid
  Item <- MCItem
  Bundle <- MCBundle
  Id <- MCId
  IdOf <- MCIdOf
  First <- MCFirst
  Last <- MCLast
  MaxRank = 2
  MaxTime = 1
  Capacity = 2
  DisallowedCapacity = 1
  ReadLimit = 1
  Offers <- MCOffers
  Signer <- MCSigner
  Balances = {1, 5}
  MaxNonce = 1
  MaxVerdicts = 2
  FeeWord = 4
INVARIANTS
  ItemsAreDistinct
  DisallowedStayOut
  VerdictsHold
PROPERTIES
  DisallowedWasJudgedOrNew
SYMMETRY transactions
CHECK_DEADLOCK FALSE
