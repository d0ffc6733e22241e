\* Blocks of up to two items of each sort; every order output is positive and
\* a Transact can always pay for its unused gas.  Call trees of depth three with four
\* logs of each kind, in which no contract destroys itself.
SPECIFICATION MCSpec
CONSTANTS
  HostAsset = HostAsset
  RollupAsset = RollupAsset
  User = User
  Asset <- MCAsset
  Recipient <- MCRecipient
  MaxAmount = 3
  HostFills <- MCHostFills
  TxEvents <- PositiveEvents
  Gas = {1}
  BaseFee = 1
  MintGas = 1
  MaxItems = 2
  UnusedGasMayBeUnpayable = FALSE
  FillsOnly = FALSE
  MaxDepth = 3
  MaxLogs = 4
INVARIANTS
  TypeOK
  OrdersCovered
  ContextBacked
  FramesMatchCalls
PROPERTIES
  DiscardedLeavesNoTrace
  EventsFollowCalls
CHECK_DEADLOCK FALSE
