\* Blocks of items of up to two transactions; called bundles; fillers that race for three orders.
SPECIFICATION MCSpec
CONSTANTS
  HostAsset = HostAsset
  RollupAsset = RollupAsset
  OtherAsset = OtherAsset
  User = User
  quick = quick
  patient = patient
  Asset <- MCAsset
  Recipient <- MCRecipient
  MaxAmount = 13
  HostTxFills <- OneHostFill
  TxEvents <- FillsAndOrders
  MaxHostTxs = 1
  MaxTxs = 2
  MaxBlockTxs = 3
  CallTxs <- MCCallTxs
  CoinbaseHas = 1
  MaxBalance = 3
  MaxBefore = 1
  Orders <- MCOrders
  Filler <- MCFiller
  Options <- MCOptions
  ChainOf <- MCChainOf
  PageSize = 1
  TargetCounts = {0, 2}
  MaxFills <- MCMaxFills
  MaxHeight = 1
INVARIANTS
  MCTypeOK
  CheckedDuringSimulation
  FillStateExact
  BuilderAndNodeAgree
  CallReports
  StreamedAll
  FillsPayOrders
  NothingPaidTwice
CHECK_DEADLOCK FALSE
