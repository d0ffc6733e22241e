------------------------------ MODULE HostFeed ------------------------------
(***************************************************************************)
(* The host chain as the rollup sees it: blocks are built, committed, and  *)
(* reverted in notifications, as the specifications of crates/test-utils   *)
(* (HostBlockSpec, RuBlockSpec, NotificationSpec, Chain) do it; the        *)
(* Extractor reads every notification, and a follower (external: the node  *)
(* is not in this repository) keeps the extracts of its chain.             *)
(*                                                                         *)
(* Where the specifications give every event a transaction of its own, a   *)
(* host transaction may emit several; and where they give all of these the *)
(* same content, a transaction is known by its block and its place in it.  *)
(***************************************************************************)
EXTENDS SystemTxs

CONSTANTS
  Pairs,          \* pairs of chains: [sys, permitted], their constants and
                  \* the tokens that the rollup is to take
  Account,        \* senders of Transact events
  Depositor,      \* who deposits, and is paid
  Token,          \* tokens that are deposited
  FillAmount,     \* amounts of fills
  DepositAmount,  \* amounts of deposits
  ToAlias,        \* the accounts to alias: those with code
  RuBlocks,       \* the RuBlockSpecs that are submitted; gas limit and
                  \* reward address are Options
  MaxLogs,        \* bound on the logs emitted in a behaviour
  MaxBlocks       \* bound on the blocks built in a behaviour

ASSUME FeedAssumption ==
  /\ \A p \in Pairs :
       LET host == p.sys.host
           contracts == <<host.zenith, host.orders, host.passage, host.transactor,
                          Depositor>>
       IN  /\ host.deployHeight \in Nat
           /\ p.sys.rollup.chainId \in 1..(Word - 1)
           /\ \A i, j \in 1..5 : contracts[i] = contracts[j] => i = j
  /\ Word \in Nat /\ Wide \in Nat \ {0}
  /\ FillAmount \subseteq Nat /\ DepositAmount \subseteq Nat
  /\ \A ru \in RuBlocks : /\ \A a, b \in ru.gasLimit : a = b
                          /\ \A a, b \in ru.rewardAddress : a = b
                          /\ ru.txs \in Seq(Range(ru.txs))
  /\ MaxLogs \in Nat /\ MaxBlocks \in Nat

(* The tokens that cross the bridge, by the tables of the host chain.  The *)
(* rollup is to take these of Token, and no two USDs have one address.     *)
Bridged(tokens) ==
  {tokens.wbtc, tokens.weth, Native}
    \cup {r.address : r \in {u \in Range(tokens.usds) : u.ticker \in {"USDC", "USDT"}}}

ASSUME PermittedAssumption ==
  \A p \in Pairs :
    LET tokens == p.sys.host.tokens
        usds == tokens.usds
    IN  /\ \A t \in Token : t \in p.permitted <=> t \in Bridged(tokens)
        /\ usds \in Seq(Range(usds))
        /\ \A a, b \in DOMAIN usds : usds[a].address = usds[b].address => a = b

(* Nobody can put code where the minter is, nor at an alias.               *)
ASSUME AliasAssumption ==
  Minter \notin ToAlias /\ \A a \in Account : AliasAddress(a) \notin ToAlias

(* Every USD has decimals: a token that counts in whole units would not be *)
(* converted.                                                              *)
ASSUME DecimalsAssumption ==
  /\ Base \in Nat \ {0} /\ NativeDecimals \in Nat \ {0}
  /\ \A p \in Pairs : \A r \in Range(p.sys.host.tokens.usds) : r.decimals \in Nat \ {0}

VARIABLES
  pair,        \* the pair of chains, one of Pairs, which does not change
  draft,       \* the block being built, a HostBlockSpec
  fresh,       \* blocks built for the next notification
  canonical,   \* the host chain: the blocks that are committed
  followed,    \* their Extracts, as the follower kept them
  notified,    \* the last notification, with what the follower undid
  emitted,     \* logs so far
  mined        \* blocks so far

feedVars == <<pair, draft, fresh, canonical, followed, notified, emitted,
              mined>>

Sys == pair.sys
RuId == Sys.rollup.chainId

(* The first block that is followed is that of the deployment.             *)
FirstNumber == Sys.host.deployHeight

-----------------------------------------------------------------------------
(* HostBlockSpec::new, to_receipt.                                         *)
EmptySpec ==
  [number |-> 0, receipts |-> <<>>, events |-> <<>>, ruBlock |-> {},
   ruReceipt |-> {}, sidecar |-> {}]

Log(address, event) == [address |-> address, event |-> event]

(* A log in a transaction of its own or, on a host chain, in the last one. *)
AddLog(spec, log, joins) ==
  IF joins /\ spec.receipts # <<>>
  THEN [spec EXCEPT !.receipts = Append(Front(@), Append(Last(@), log))]
  ELSE [spec EXCEPT !.receipts = Append(@, <<log>>)]

(* The event is recorded: the rollup is expected to see it.                *)
Record(spec, event) == [spec EXCEPT !.events = Append(@, event)]

EnterEvent(chainId, recipient, amount) ==
  [kind |-> "enter", chain |-> chainId, recipient |-> recipient,
   amount |-> amount]
EnterTokenEvent(chainId, recipient, amount, token) ==
  [kind |-> "enterToken", chain |-> chainId, recipient |-> recipient,
   amount |-> amount, token |-> token]
TransactEvent(chainId, sender, to) ==
  [kind |-> "transact", chain |-> chainId, sender |-> sender, to |-> to,
   value |-> 0, gas |-> 100000]
FilledEvent(chainId, token, recipient, amount) ==
  [kind |-> "filled",
   outputs |-> <<[chain |-> chainId, token |-> token, recipient |-> recipient,
                  amount |-> amount]>>]

-----------------------------------------------------------------------------
(* RuBlockSpec::to_block_submitted.  The data hash stands for the encoded  *)
(* transactions, which are the sidecar.                                    *)
RuBlockSpec(txs, gasLimit, rewardAddress) ==
  [txs |-> txs, gasLimit |-> gasLimit, rewardAddress |-> rewardAddress]

DefaultGasLimit == 100000000
DefaultReward == "defaultReward"

BlockSubmitted(ru) ==
  [kind |-> "submitted", chain |-> Sys.rollup.chainId,
   gasLimit |-> IF ru.gasLimit = {} THEN DefaultGasLimit
                ELSE CHOOSE g \in ru.gasLimit : TRUE,
   rewardAddress |-> IF ru.rewardAddress = {} THEN DefaultReward
                     ELSE CHOOSE a \in ru.rewardAddress : TRUE,
   blockDataHash |-> ru.txs]

(* submit_block replaces the block submitted before.                       *)
WithBlock(spec, ru) ==
  [spec EXCEPT !.ruBlock = {ru}, !.sidecar = {ru.txs},
               !.ruReceipt = {<<Log(Sys.host.zenith, BlockSubmitted(ru))>>}]

(* make_txns: one for every receipt, and the blob transaction last.        *)
MakeTxns(spec) ==
  LET At(i, blob) == [hash |-> <<spec.number, i>>, blob |-> blob]
  IN  [i \in 1..Len(spec.receipts) |-> At(i, FALSE)]
        \o [i \in 1..Cardinality(spec.sidecar) |->
              At(Len(spec.receipts) + 1, TRUE)]

(* ExecutionOutcome: receipts by block, from a first block on.             *)
NewOutcome(spec) ==
  [receipts |-> <<spec.receipts \o SetToSeq(spec.ruReceipt)>>,
   firstBlock |-> spec.number]
AppendOutcome(outcome, other) ==
  [outcome EXCEPT !.receipts = @ \o other.receipts]
LastBlock(outcome) == Max({0, outcome.firstBlock + Len(outcome.receipts) - 1})

(* Mutant of ReceiptsByBlock: blocks counted from one.                     *)
ReceiptsCounted(outcome, number) ==
  LET i == number - outcome.firstBlock
  IN  {IF i \in 1..Len(outcome.receipts) THEN outcome.receipts[i] ELSE <<>>}

(* An Option: below the first block the distance underflows, and builds    *)
(* give no common answer (a panic with overflow checks, or an empty slice).*)
ReceiptsByBlock(outcome, number) ==
  LET i == number - outcome.firstBlock + 1
  IN  IF number < outcome.firstBlock THEN {}
      ELSE {IF i \in 1..Len(outcome.receipts) THEN outcome.receipts[i] ELSE <<>>}

(* Chain: from_block, append_block; blocks_and_receipts zips the two.      *)
RecoveredBlock(spec) == [number |-> spec.number, txs |-> MakeTxns(spec)]
NoChain == [blocks |-> <<>>, outcome |-> [receipts |-> <<>>, firstBlock |-> 0]]
AppendBlock(chain, spec) ==
  [blocks |-> Append(chain.blocks, RecoveredBlock(spec)),
   outcome |-> IF chain.blocks = <<>> THEN NewOutcome(spec)
               ELSE AppendOutcome(chain.outcome, NewOutcome(spec))]

BlocksAndReceipts(chain) ==
  [i \in 1..Min({Len(chain.blocks), Len(chain.outcome.receipts)}) |->
     [number |-> chain.blocks[i].number, txs |-> chain.blocks[i].txs,
      receipts |-> chain.outcome.receipts[i]]]

-----------------------------------------------------------------------------
(* to_exex_notification: the first block of either chain has its number,   *)
(* the others are numbered after it.                                       *)
Numbered(specs) ==
  [i \in 1..Len(specs) |-> [specs[i] EXCEPT !.number = specs[1].number + i - 1]]

ToChain(specs) ==
  LET chain[n \in 0..Len(specs)] ==
        IF n = 0 THEN NoChain ELSE AppendBlock(chain[n - 1], Numbered(specs)[n])
  IN  chain[Len(specs)]

(* The sidecars of the new blocks, by number, with the last transaction.   *)
Sidecars(new) ==
  {[number |-> spec.number, sidecar |-> CHOOSE s \in spec.sidecar : TRUE,
    tx |-> Last(MakeTxns(spec))] :
     spec \in {s \in ToSet(Numbered(new)) : s.sidecar # {}}}

Notification(old, new, undone) ==
  [old |-> ToChain(old), new |-> ToChain(new), sidecars |-> Sidecars(new),
   undone |-> undone]

-----------------------------------------------------------------------------
FeedInit ==
  /\ pair \in Pairs
  /\ draft = EmptySpec
  /\ fresh = <<>>
  /\ canonical = <<>>
  /\ followed = <<>>
  /\ notified = Notification(<<>>, <<>>, <<>>)
  /\ emitted = 0
  /\ mined = 0

(* A log joins the last transaction or has one of its own; the event is    *)
(* recorded if the rollup is to see it.                                    *)
Emit(address, event, seen) ==
  /\ emitted < MaxLogs /\ mined < MaxBlocks
  /\ \E joins \in BOOLEAN :
       LET logged == AddLog(draft, Log(address, event), joins)
       IN  draft' = IF seen THEN Record(logged, event) ELSE logged
  /\ emitted' = emitted + 1
  /\ UNCHANGED <<pair, fresh, canonical, followed, notified, mined>>

Enter ==
  \E n \in DepositAmount :
    Emit(Sys.host.passage, EnterEvent(RuId, Depositor, n), TRUE)

(* enter_token; a specification that deposits a token that is not          *)
(* permitted says so by not recording it.                                  *)
EnterToken ==
  \E n \in DepositAmount, t \in Token :
    Emit(Sys.host.passage, EnterTokenEvent(RuId, Depositor, n, t),
         t \in pair.permitted)

Transact ==
  \E a \in Account :
    Emit(Sys.host.transactor, TransactEvent(RuId, a, Depositor), TRUE)

Fill ==
  \E n \in FillAmount :
    Emit(Sys.host.orders, FilledEvent(RuId, Sys.host.tokens.weth, Depositor, n),
         TRUE)

(* ignored_enter, ingnored_enter_token and ignored_fill name chain zero.   *)
Ignored ==
  \/ Emit(Sys.host.passage, EnterEvent(0, Depositor, 1), FALSE)
  \/ Emit(Sys.host.passage,
          EnterTokenEvent(0, Depositor, 1, Sys.host.tokens.wbtc), FALSE)
  \/ Emit(Sys.host.orders,
          FilledEvent(0, Sys.host.tokens.weth, Depositor, 1), FALSE)

(* Other logs of the host chain: one that a system contract emits and the  *)
(* rollup does not read, and one that looks like a deposit.                *)
OtherLog ==
  \/ Emit(Sys.host.passage, [kind |-> "other"], FALSE)
  \/ Emit(Depositor, EnterEvent(RuId, Depositor, 1), FALSE)

SubmitBlock ==
  /\ emitted < MaxLogs /\ mined < MaxBlocks
  /\ \E ru \in RuBlocks : draft' = WithBlock(draft, ru)
  /\ emitted' = emitted + 1
  /\ UNCHANGED <<pair, fresh, canonical, followed, notified, mined>>

(* commit: the block is the next of the new chain.                         *)
CommitBlock ==
  /\ mined < MaxBlocks
  /\ fresh' = Append(fresh, draft)
  /\ draft' = EmptySpec
  /\ mined' = mined + 1
  /\ UNCHANGED <<pair, canonical, followed, notified, emitted>>

(* The notification, with_block_number on the first new block, and what    *)
(* the follower does: it undoes as many blocks as the reverted chain has   *)
(* extracts, and keeps those of the new one.                               *)
Extracts(specs) == ExtractSignet(Sys, BlocksAndReceipts(ToChain(specs)))

Notify ==
  \E k \in 0..Len(canonical) :
    LET kept == SubSeq(canonical, 1, Len(canonical) - k)
        old == SubSeq(canonical, Len(kept) + 1, Len(canonical))
        new == Numbered([i \in DOMAIN fresh |->
                           [fresh[i] EXCEPT !.number = FirstNumber + Len(kept)]])
        left == Len(followed) - Len(Extracts(old))
    IN  /\ k > 0 \/ fresh # <<>>
        /\ canonical' = kept \o new
        /\ followed' = SubSeq(followed, 1, left) \o Extracts(new)
        /\ notified' =
             Notification(old, new, SubSeq(followed, left + 1, Len(followed)))
        /\ fresh' = <<>>
        /\ UNCHANGED <<pair, draft, emitted, mined>>

FeedNext ==
  \/ Enter \/ EnterToken \/ Transact \/ Fill \/ Ignored \/ OtherLog
  \/ SubmitBlock \/ CommitBlock \/ Notify

FeedSpec == FeedInit /\ [][FeedNext]_feedVars
-----------------------------------------------------------------------------
FeedTypeOK ==
  /\ pair \in Pairs
  /\ draft.number = 0
  /\ \A i \in DOMAIN canonical : canonical[i].number = FirstNumber + i - 1
  /\ \A i \in DOMAIN followed : followed[i].hostBlock.number \in Nat
  /\ notified.sidecars \subseteq
       [number : Nat, sidecar : {ru.txs : ru \in RuBlocks},
        tx : [hash : Seq(Nat), blob : BOOLEAN]]
  /\ emitted \in 0..MaxLogs /\ mined \in 0..MaxBlocks

(* assert_conforms: the recorded events, by kind and in order, and the     *)
(* submitted block where there is one.                                     *)
EventsOf(s) == [i \in DOMAIN s |-> s[i].event]
OfKind(spec, kind) ==
  Kept(spec.events, {i \in DOMAIN spec.events : spec.events[i].kind = kind})
AddFills(fills, chainId) ==
  LET added[n \in 0..Len(fills)] ==
        IF n = 0 THEN NoFills ELSE AddFill(added[n - 1], chainId, fills[n])
  IN  added[Len(fills)]

Conforms(x, spec) ==
  /\ EventsOf(x.enters) = OfKind(spec, "enter")
  /\ EventsOf(x.enterTokens) = OfKind(spec, "enterToken")
  /\ EventsOf(x.transacts) = OfKind(spec, "transact")
  /\ x.context = AddFills(OfKind(spec, "filled"), Sys.host.chainId)
  /\ \A ru \in spec.ruBlock :
       \E s \in x.submitted :
         /\ ru.gasLimit \subseteq {s.event.gasLimit}
         /\ ru.rewardAddress \subseteq {s.event.rewardAddress}

(* After any commits, reverts and reorganisations the follower holds the   *)
(* blocks of the host chain above the deployment, at consecutive rollup    *)
(* heights from one on, each as its specification says: extraction in the  *)
(* pieces that were notified loses, repeats and reorders nothing.          *)
FollowsHostChain ==
  /\ Len(followed) = Max({0, Len(canonical) - 1})
  /\ \A i \in DOMAIN followed :
       /\ followed[i].ruHeight = i
       /\ PairHost(Sys, canonical[i + 1].number)
            = {PairRu(Sys, followed[i].ruHeight)}
       /\ Conforms(followed[i], canonical[i + 1])

(* A revert names what was committed: extracting the reverted chain gives  *)
(* what the follower had kept of it, and the receipts of a block are found *)
(* by its number as well as by its place in the chain, with no underflow.  *)
RevertsUndo ==
  /\ notified.undone = ExtractSignet(Sys, BlocksAndReceipts(notified.old))
  /\ \A chain \in {notified.old, notified.new} :
       \A b \in ToSet(BlocksAndReceipts(chain)) :
         /\ {b.receipts} = ReceiptsByBlock(chain.outcome, b.number)
         /\ b.number <= LastBlock(chain.outcome)

(* Every deposit that extraction lets through has a place on the rollup:   *)
(* run_mints_inner expects an address "unpermissioned tokens must be       *)
(* filtered during extraction" (sys/driver.rs:464).                        *)
DepositsCanBeMinted == \A i \in DOMAIN followed : ~MintPanics(Sys, followed[i])

ToExecute(events) == Kept(events, {i \in DOMAIN events : events[i].kind # "filled"})
SysTxs(x) == ToSet(Mints(Sys, x, 0)) \cup ToSet(Transacts(x, ToAlias))

(* The logs of a host block that a signature points to.                    *)
LogsAt(block, signature) ==
  {block.receipts[i][signature.index + 1] :
     i \in {j \in DOMAIN block.receipts :
              /\ block.txs[j].hash = signature.r
              /\ signature.index + 1 \in DOMAIN block.receipts[j]}}

(* The signature of a system transaction names the one host log it is for, *)
(* no two in the chain are alike, whoever recovers the sender from it      *)
(* finds the one the EVM ran it with, and nothing runs as an account that  *)
(* is to be aliased.                                                       *)
SystemTxsTraceBack ==
  \A i \in DOMAIN followed : LET block == followed[i].hostBlock IN
    /\ Cardinality(SysTxs(followed[i])) = Len(ToExecute(canonical[i + 1].events))
    /\ \A t \in SysTxs(followed[i]) :
         LET sig == MakeTransaction(t).signature
         IN  /\ Cardinality(LogsAt(block, sig)) = 1
             /\ \A log \in LogsAt(block, sig) :
                  /\ log.event.kind = sig.info.flag
                  /\ MakeSysLog(t).subject \in
                       IF t.kind = "TransactSysTx"
                       THEN {log.event.sender, AliasAddress(log.event.sender)}
                       ELSE {log.event.recipient}
             /\ {RollupSender(m) : m \in FromSignature(sig)} = {EvmSender(t)}
             /\ EvmSender(t) \notin ToAlias
             /\ \A j \in DOMAIN followed : \A u \in SysTxs(followed[j]) :
                  MakeTransaction(u).signature = sig => u = t /\ i = j

(* A deposit of USD is worth as much on the rollup: no more than was       *)
(* deposited, and less by less than one unit, if the product fits a word.  *)
MintsKeepTheValue ==
  \A i \in DOMAIN followed :
    \A t \in {u \in ToSet(Mints(Sys, followed[i], 0)) : u.kind = "MintNative"} :
      \A r \in UsdRecordOf(Sys.host.tokens, t.hostToken) :
        LET e == CHOOSE e \in ToSet(followed[i].enterTokens) :
                   EnterSig(e) = t.magicSig
            worth == e.event.amount * Units(NativeDecimals)
            unit == Units(r.decimals)
        IN  e.event.amount * Units(Max({0, NativeDecimals - r.decimals})) < Wide
              => /\ t.amount * unit <= worth
                 /\ worth < (t.amount + 1) * unit
=============================================================================
