\* Orders may contain an output of amount zero.
SPECIFICATION Spec
CONSTANTS
  HostAsset = HostAsset
  RollupAsset = RollupAsset
  User = User
  Asset <- MCAsset
  Recipient <- MCRecipient
  MaxAmount = 3
  HostFills <- MCHostFills
  TxEvents <- ZeroEvents
  Gas = {1}
  BaseFee = 1
  MintGas = 1
  MaxItems = 2
  UnusedGasMayBeUnpayable = FALSE
INVARIANT OrdersCovered
CHECK_DEADLOCK FALSE
