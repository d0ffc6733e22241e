\* Gas, receipts, nonces and fees, with every outcome of every item.
SPECIFICATION Spec
CONSTANTS
  HostAsset = HostAsset
  RollupAsset = RollupAsset
  User = User
  Asset <- MCAsset
  Recipient <- MCRecipient
  MaxAmount = 3
  HostFills <- OneHostFill
  TxEvents <- FewEvents
  Gas = {1, 2}
  BaseFee = 1
  MintGas = 1
  MaxItems = 2
  UnusedGasMayBeUnpayable = TRUE
INVARIANTS
  FeesAndPassageSettled
  ReceiptsFollowTransactions
  MinterNoncesFresh
CHECK_DEADLOCK FALSE
