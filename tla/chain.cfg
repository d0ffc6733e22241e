\* A release build: arithmetic wraps around.
SPECIFICATION MCSpec
CONSTANTS
  nil = nil
  genesis = genesis
  genesis2 = genesis2
  a1 = a1
  a2 = a2
  a3 = a3
  a4 = a4
  b1 = b1
  b2 = b2
  b3 = b3
  c2 = c2
  c3 = c3
  skips = skips
  orphan = orphan
  Journal <- MCJournal
  Hash <- MCHash
  HeightOf <- MCHeightOf
  PrevOf <- MCPrevOf
  Width = 8
  OverflowChecks = FALSE
  Word = 1000000
  Wide = 1048576
  Base = 2
  NativeDecimals = 18
  Pairs <- MCPairs
  Account = {alice, contract}
  Depositor = alice
  Token = {"usdc", "usdt", "dai", "wbtc", "junk"}
  FillAmount = {2}
  DepositAmount = {5}
  ToAlias = {contract}
  RuBlocks <- MCRuBlocks
  RuGenesis <- MCRuGenesis
  MaxLogs = 2
  MaxBlocks = 3
  Plain = {"call", "create"}
  Blob = {"blob"}
  Foreign <- MCForeign
  MaxBlockTxs = 2
  alice = alice
  contract = contract
INVARIANTS
  MCTypeOK
  Chained
  LookupRight
  FollowsHostChain
  RevertsUndo
  DepositsCanBeMinted
  SystemTxsTraceBack
  MintsKeepTheValue
  RollupLinked
  BlocksReadBack
  DataReadsBack
PROPERTY FollowsChain
CHECK_DEADLOCK FALSE
