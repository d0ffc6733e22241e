------------------------------ MODULE OrderFlow ------------------------------
(***************************************************************************)
(* Orders from their signature to their fill.  Users sign and send orders  *)
(* (OrderSender), a transaction cache keeps them (TxCache), fillers stream *)
(* them, sign fills for them (Filler, UnsignedFill), and submit bundles    *)
(* for the next blocks (FeePolicySubmitter).  What is outside of the       *)
(* repository, the cache, the builder and the Permit2 and Orders           *)
(* contracts, is modelled by what the code relies on.                      *)
(*                                                                         *)
(* A signature is known by who signed for which chain and contract; wall   *)
(* clocks are read to the block, twelve seconds apart.  An Option is a set *)
(* of at most one value.  The inputs of orders are left out of the market. *)
(***************************************************************************)
EXTENDS Market, Lists

CONSTANTS
  Orders,        \* unsigned orders: [owner, inputs, outputs, deadline, nonce]
  Filler,        \* signers of fills
  Options,       \* what each filler is set to: [deadlineOffset, nonce, serves]
  ChainOf,       \* the chain of an asset
  PageSize,      \* orders in a response of the cache
  TargetCounts,  \* numbers of blocks a fill may be submitted for
  MaxFills,      \* bound on the fills of each filler, which streams before
  MaxHeight      \* bound on the height

Output == [asset : Asset, recipient : Recipient, amount : Amount]

ASSUME FlowAssumption ==
  /\ \A i \in DOMAIN Orders :
       Orders[i].outputs \in Seq(Output) /\ Orders[i].deadline \in Int
  /\ ChainOf \in [Asset -> {"ru", "host", "elsewhere"}]
  /\ PageSize \in Nat \ {0} /\ TargetCounts \subseteq Nat
  /\ MaxFills \in [Filler -> Nat] /\ MaxHeight \in Nat

VARIABLES
  height,   \* of the rollup, whose time is twelve seconds a block
  cached,   \* the orders the cache got, in its order
  listed,   \* the places in cached it still has an order at
  bundles,  \* the bundles the cache has
  filling,  \* what each filler is doing
  spent,    \* the nonces Permit2 has seen: <<chain, owner, nonce>>
  paid,     \* what each filler has paid into slots
  taken     \* the orders whose inputs each filler has received

cacheVars == <<cached, listed, bundles>>
chainVars == <<height, spent, paid, taken>>
flowVars == <<height, cached, listed, bundles, filling, spent, paid, taken>>

Now == 12 * height
Given(option, default) ==
  IF option = {} THEN default ELSE CHOOSE value \in option : TRUE

-----------------------------------------------------------------------------
(* AggregateOrders, by its outputs.                                        *)
IngestOutput(agg, output) ==
  Absorb(agg, [s \in {<<output.asset, output.recipient>>} |-> output.amount])
AggregateOutputs(outputs) ==
  LET sums[n \in 0..Len(outputs)] ==
        IF n = 0 THEN EmptyMap ELSE IngestOutput(sums[n - 1], outputs[n])
  IN  sums[Len(outputs)]
Aggregated(orders) ==
  AggregateOutputs(FlattenSeq([i \in DOMAIN orders |-> orders[i].outputs]))

TargetChainIds(agg) == {ChainOf[s[1]] : s \in DOMAIN agg}

(* The outputs to be filled on a chain, in any order.                      *)
OutputsFor(agg, chain) ==
  SetToSeq({[asset |-> s[1], recipient |-> s[2], amount |-> agg[s],
             chainId |-> "ru"] :
              s \in {t \in DOMAIN agg : ChainOf[t[1]] = chain}})

(* The tokens and amounts of inputs or outputs (TokenPermissions).         *)
Permitted(items) ==
  [i \in DOMAIN items |-> [asset |-> items[i].asset, amount |-> items[i].amount]]

-----------------------------------------------------------------------------
(* permit_signing_info and the signature: a SignedOrder or a SignedFill.   *)
Contracts == [ru |-> "ruOrders", host |-> "hostOrders"]

Permit(outputs, permitted, deadline, nonce, chain, signer) ==
  [outputs |-> outputs, permitted |-> permitted, deadline |-> deadline,
   nonce |-> nonce, owner |-> signer, signedFor |-> <<chain, Contracts[chain]>>]

(* OrderSender::sign_order.  The nonce is the time in microseconds, which  *)
(* no other signature is made at, if the order does not give one.          *)
SignOrder(i) ==
  Permit(Orders[i].outputs, Permitted(Orders[i].inputs), Orders[i].deadline,
         Given(Orders[i].nonce, i), "ru", Orders[i].owner)

(* Filler::sign_fills and UnsignedFill::sign: a fill for every chain, or   *)
(* an error if one of them has no contract.  By default the deadline is    *)
(* the next block.                                                         *)
SignFills(f, orders, fills) ==
  LET agg == Aggregated(orders)
      deadline == Given({Now + o : o \in Options[f].deadlineOffset}, Now + 12)
      Fill(chain) ==
        Permit(OutputsFor(agg, chain), Permitted(OutputsFor(agg, chain)),
               deadline, Given(Options[f].nonce, fills), chain, f)
  IN  IF TargetChainIds(agg) \subseteq DOMAIN Contracts
      THEN {[chain \in TargetChainIds(agg) |-> Fill(chain)]}
      ELSE {}

(* SignedOrder::validate and SignedFill::validate.                         *)
ExpiredAt(order, time) == time > order.deadline
ValidOrder(order, time) == ~ExpiredAt(order, time)
ValidFill(fill, time) ==
  time <= fill.deadline /\ Permitted(fill.outputs) = fill.permitted

(* not_expired_at and has_output_chain, composed with filter_orders.       *)
HasOutputChain(order, chain) ==
  \E output \in ToSet(order.outputs) : ChainOf[output.asset] = chain
Wanted(f, order) ==
  ~ExpiredAt(order, Now) /\ HasOutputChain(order, Options[f].serves)

-----------------------------------------------------------------------------
(* The transactions of submit_fills: to_fill_tx and to_initiate_tx.        *)
ToFillTx(fill) == [kind |-> "fill", permit |-> fill, to |-> fill.signedFor[2]]
ToInitiateTx(order, recipient) ==
  [kind |-> "initiate", permit |-> order, to |-> Contracts.ru,
   tokenRecipient |-> recipient]

FillTxs(fills, chain) ==
  IF chain \in DOMAIN fills THEN <<ToFillTx(fills[chain])>> ELSE <<>>

(* Mutant of RollupTxs: one order of those that are filled.                *)
InitiatesOne(f, orders, fills) ==
  FillTxs(fills, "ru") \o <<ToInitiateTx(orders[1], f)>>

(* The fill, if there is one, must come first.                             *)
RollupTxs(f, orders, fills) ==
  FillTxs(fills, "ru") \o [i \in DOMAIN orders |-> ToInitiateTx(orders[i], f)]

BaseBundle(f, orders, fills, target) ==
  [txs |-> RollupTxs(f, orders, fills), hostTxs |-> FillTxs(fills, "host"),
   blockNumber |-> target]

ForTarget(bundle, target) == [bundle EXCEPT !.blockNumber = target]

-----------------------------------------------------------------------------
Resting ==
  [at |-> "idle", cursor |-> {}, before |-> {}, orders |-> <<>>,
   complete |-> FALSE, count |-> 0, fills |-> 0, signed |-> {},
   bundle |-> {}, targets |-> {}, stored |-> {}, result |-> {}]

FlowInit ==
  /\ height = 0
  /\ cached = <<>> /\ listed = {} /\ bundles = {}
  /\ filling = [f \in Filler |-> Resting]
  /\ spent = {}
  /\ paid = [f \in Filler |-> EmptyMap]
  /\ taken = [f \in Filler |-> <<>>]

(* sign_and_send_order: forward_order reaches the cache or not; whether an *)
(* error is reported is not told apart.                                    *)
SendOrder(i) ==
  /\ SignOrder(i) \notin ToSet(cached)
  /\ cached' = Append(cached, SignOrder(i))
  /\ listed' = listed \cup {Len(cached) + 1}
  /\ UNCHANGED <<bundles, filling, chainVars>>

(* The cache drops an order that can no longer be initiated, external.     *)
ForgetOrder(i) ==
  /\ \/ ExpiredAt(cached[i], Now)
     \/ <<"ru", cached[i].owner, cached[i].nonce>> \in spent
  /\ listed' = listed \ {i}
  /\ UNCHANGED <<cached, bundles, filling, chainVars>>

(* stream_orders is polled for the first time.                             *)
StartStream(f) ==
  /\ filling[f].at \in {"idle", "got"}
  /\ filling[f].fills = 0
  /\ filling' = [filling EXCEPT ![f] =
                   [Resting EXCEPT !.at = "streaming", !.cursor = {0},
                                   !.before = listed]]
  /\ UNCHANGED <<cacheVars, chainVars>>

(* A page of the cache, external: what it has after the cursor, and a      *)
(* cursor if it has more.                                                  *)
Page(cursor) ==
  {i \in listed : i > cursor /\ Cardinality({j \in listed : cursor < j /\ j < i}) < PageSize}
PageCursor(cursor) ==
  {i \in Page(cursor) : \E j \in listed : \A k \in Page(cursor) : i >= k /\ j > k}

(* Mutant of NextCursor: the first page is taken for all there is.         *)
FirstPageOnly(cursor) == {}

(* get_inner and into_parts: the cursor of the next page, an Option.       *)
NextCursor(cursor) == PageCursor(cursor)

(* A page of stream_orders, filtered item by item.                         *)
FetchPage(f) ==
  /\ filling[f].at = "streaming"
  /\ \E cursor \in filling[f].cursor :
       LET new == Kept(cached, {i \in Page(cursor) : Wanted(f, cached[i])})
           ended == NextCursor(cursor) = {}
       IN  filling' = [filling EXCEPT ![f] =
                         [filling[f] EXCEPT !.orders = filling[f].orders \o new,
                                            !.cursor = NextCursor(cursor),
                                            !.at = IF ended THEN "got" ELSE "streaming",
                                            !.complete = ended]]
  /\ UNCHANGED <<cacheVars, chainVars>>

(* The stream yields an error and ends: the orders before it are usable.   *)
StreamFails(f) ==
  /\ filling[f].at = "streaming"
  /\ filling' = [filling EXCEPT ![f] = [filling[f] EXCEPT !.at = "got", !.cursor = {}]]
  /\ UNCHANGED <<cacheVars, chainVars>>

(* Filler::fill: the orders are checked and the fills signed.  It is an    *)
(* error if there are none, no block, no contract, or no fill.             *)
FillOrders(f, count) ==
  /\ filling[f].at = "got"
  /\ filling[f].fills < MaxFills[f]
  /\ LET orders == filling[f].orders
         signed == IF orders = <<>> \/ count = 0 THEN {}
                   ELSE SignFills(f, orders, filling[f].fills) \ {<<>>}
     IN  filling' = [filling EXCEPT ![f] =
                       [filling[f] EXCEPT !.at = IF signed = {} THEN "got" ELSE "signed",
                                          !.before = {}, !.complete = FALSE,
                                          !.bundle = {}, !.targets = {}, !.stored = {},
                                          !.signed = signed, !.count = count,
                                          !.fills = filling[f].fills + 1,
                                          !.result = IF signed = {} THEN {FALSE} ELSE {}]]
  /\ UNCHANGED <<cacheVars, chainVars>>

(* The transactions are made and the height is read: the bundles for the   *)
(* next blocks are on their way.                                           *)
SubmitFills(f) ==
  /\ filling[f].at = "signed"
  /\ \E fills \in filling[f].signed :
       filling' = [filling EXCEPT ![f] =
                     [filling[f] EXCEPT !.at = "submitting", !.signed = {},
                                        !.bundle = {BaseBundle(f, filling[f].orders, fills,
                                                               height + 1)},
                                        !.targets = (height + 1)..(height + filling[f].count)]]
  /\ UNCHANGED <<cacheVars, chainVars>>

(* Filling a transaction or reading the height fails.                      *)
ProviderFails(f) ==
  /\ filling[f].at = "signed"
  /\ filling' = [filling EXCEPT ![f] =
                   [filling[f] EXCEPT !.at = "got", !.signed = {}, !.result = {FALSE}]]
  /\ UNCHANGED <<cacheVars, chainVars>>

(* The cache gets one of the bundles.                                      *)
StoreBundle(f, target) ==
  /\ filling[f].at = "submitting"
  /\ target \in filling[f].targets \ filling[f].stored
  /\ bundles' = bundles \cup {ForTarget(b, target) : b \in filling[f].bundle}
  /\ filling' = [filling EXCEPT ![f] =
                   [filling[f] EXCEPT !.stored = filling[f].stored \cup {target}]]
  /\ UNCHANGED <<cached, listed, chainVars>>

(* Mutant of AllStored: one response is enough.                            *)
SomeStored(f) == filling[f].stored # {}

(* try_join_all: every bundle was answered for.                            *)
AllStored(f) == filling[f].stored = filling[f].targets

SubmittedFills(f) ==
  /\ filling[f].at = "submitting"
  /\ AllStored(f)
  /\ filling' = [filling EXCEPT ![f] = [filling[f] EXCEPT !.at = "got", !.result = {TRUE}]]
  /\ UNCHANGED <<cacheVars, chainVars>>

(* One of them fails, or its answer is lost, and so the whole: any of      *)
(* those that are not answered for may yet reach the cache.                *)
SubmissionFails(f) ==
  /\ filling[f].at = "submitting"
  /\ \E late \in SUBSET (filling[f].targets \ filling[f].stored) :
       bundles' = bundles \cup {ForTarget(b, t) : b \in filling[f].bundle, t \in late}
  /\ filling' = [filling EXCEPT ![f] =
                   [filling[f] EXCEPT !.at = "got", !.bundle = {}, !.targets = {},
                                      !.stored = {}, !.result = {FALSE}]]
  /\ UNCHANGED <<cached, listed, chainVars>>

-----------------------------------------------------------------------------
(* What a bundle does, external: its aggregates after its first n rollup   *)
(* transactions, the host's fill included, and the nonces it spends.       *)
OfKind(bundle, kind, n) ==
  Kept(bundle.txs, {i \in 1..n : bundle.txs[i].kind = kind})
PermitsOf(txs) == [i \in DOMAIN txs |-> txs[i].permit]
FillsUpTo(bundle, n) ==
  Aggregated(PermitsOf(bundle.hostTxs \o OfKind(bundle, "fill", n)))
OrdersUpTo(bundle, n) == Aggregated(PermitsOf(OfKind(bundle, "initiate", n)))
CoveredBundle(bundle) ==
  \A n \in DOMAIN bundle.txs :
    CheckRuTxEvents(EmptyMap, FillsUpTo(bundle, n), OrdersUpTo(bundle, n))

Spends(bundle) ==
  LET txs == bundle.hostTxs \o bundle.txs
  IN  [i \in DOMAIN txs |-> <<txs[i].permit.signedFor[1], txs[i].permit.owner,
                              txs[i].permit.nonce>>]

Executable(bundle) ==
  LET time == 12 * bundle.blockNumber
      txs == bundle.hostTxs \o bundle.txs
  IN  /\ bundle.blockNumber = height + 1
      /\ \A i, j \in DOMAIN txs : Spends(bundle)[i] = Spends(bundle)[j] => i = j
      /\ ToSet(Spends(bundle)) \cap spent = {}
      /\ \A tx \in ToSet(txs) :
           /\ tx.to = tx.permit.signedFor[2]
           /\ IF tx.kind = "fill" THEN ValidFill(tx.permit, time)
              ELSE ValidOrder(tx.permit, time)
      /\ CoveredBundle(bundle)

(* The fills of a filler, and the orders that its initiates take.          *)
PaidBy(bundle, f) ==
  LET fills == PermitsOf(bundle.hostTxs \o OfKind(bundle, "fill", Len(bundle.txs)))
  IN  Kept(fills, {i \in DOMAIN fills : fills[i].owner = f})
TakenBy(bundle, f) ==
  LET initiates == OfKind(bundle, "initiate", Len(bundle.txs))
  IN  PermitsOf(Kept(initiates, {i \in DOMAIN initiates : initiates[i].tokenRecipient = f}))

(* A builder puts a bundle of the cache in the next block.                 *)
IncludeBundle(bundle) ==
  /\ Executable(bundle)
  /\ spent' = spent \cup ToSet(Spends(bundle))
  /\ paid' = [f \in Filler |-> Absorb(paid[f], Aggregated(PaidBy(bundle, f)))]
  /\ taken' = [f \in Filler |-> taken[f] \o TakenBy(bundle, f)]
  /\ UNCHANGED <<height, cacheVars, filling>>

NewBlock ==
  /\ height < MaxHeight
  /\ height' = height + 1
  /\ UNCHANGED <<cacheVars, filling, spent, paid, taken>>

(* A filler may try any of its steps at any time.                          *)
FlowNext ==
  \/ \E i \in DOMAIN Orders : SendOrder(i)
  \/ \E i \in listed : ForgetOrder(i)
  \/ \E f \in Filler :
       \/ StartStream(f) \/ FetchPage(f) \/ StreamFails(f)
       \/ \E count \in TargetCounts : FillOrders(f, count)
       \/ SubmitFills(f) \/ ProviderFails(f)
       \/ \E target \in filling[f].targets : StoreBundle(f, target)
       \/ SubmittedFills(f) \/ SubmissionFails(f)
  \/ \E bundle \in bundles : IncludeBundle(bundle)
  \/ NewBlock

FlowSpec == FlowInit /\ [][FlowNext]_flowVars

-----------------------------------------------------------------------------
FlowTypeOK ==
  /\ height \in 0..MaxHeight
  /\ listed \subseteq DOMAIN cached
  /\ \A f \in Filler :
       /\ filling[f].at \in {"idle", "streaming", "got", "signed", "submitting"}
       /\ filling[f].fills \in 0..MaxFills[f]
       /\ filling[f].stored \subseteq filling[f].targets
  /\ paid \in [Filler -> SlotMap]

(* A stream that ends without an error has yielded every order once that   *)
(* the cache had all along and that the filler wants, although orders come *)
(* and go between the pages.                                               *)
StreamedAll ==
  \A f \in Filler :
    filling[f].complete =>
      \A i \in filling[f].before \cap listed :
        Wanted(f, cached[i]) =>
          Cardinality({j \in DOMAIN filling[f].orders :
                         filling[f].orders[j] = cached[i]}) = 1

(* What a filler submits.  Each bundle fills exactly what its orders ask,  *)
(* on every chain, in an order in which the market lets each of them pass; *)
(* and one that is told of success has a bundle in the cache for each of   *)
(* the blocks, the same but for the block.                                 *)
FillsPayOrders ==
  /\ \A b \in bundles :
       /\ CoveredBundle(b)
       /\ FillsUpTo(b, Len(b.txs)) = OrdersUpTo(b, Len(b.txs))
  /\ \A f \in Filler :
       filling[f].result = {TRUE} =>
         \A t \in filling[f].targets, b \in filling[f].bundle :
           ForTarget(b, t) \in bundles

(* However many bundles there are of an order, for several blocks, of      *)
(* repeated calls, or of fillers that race for it, it is initiated once;   *)
(* and a filler has paid exactly for the orders whose inputs it received.  *)
NothingPaidTwice ==
  /\ \A f, g \in Filler :
       \A i \in DOMAIN taken[f], j \in DOMAIN taken[g] :
         taken[f][i] = taken[g][j] => f = g /\ i = j
  /\ \A f \in Filler : paid[f] = Aggregated(taken[f])
=============================================================================
