---------------------------- MODULE MCSendBundle ----------------------------
(***************************************************************************)
(* Instances of SendBundle, of CallBundle over it, and of OrderFlow, which *)
(* share the market's assets: one on the host chain and one on the rollup, *)
(* and one on another chain that only an order asks for; one recipient.    *)
(* In each behaviour one of the three moves: blocks of items, bundles that *)
(* are called and then sent, or the flow of orders.                        *)
(*                                                                         *)
(* SendBundle: fills add up to less than MaxAmount, and no order is zero.  *)
(* CallBundle: a tip, a transaction the coinbase itself sends, an order,   *)
(* a fill, and one that fails.                                             *)
(* OrderFlow: an order on both chains, one on the rollup that another has  *)
(* the nonce of, and one on a chain without contract; a filler with the    *)
(* default options, and one with a later deadline and a fixed nonce.       *)
(***************************************************************************)
EXTENDS CallBundle, OrderFlow
LOCAL INSTANCE SequencesExt

CONSTANTS HostAsset, RollupAsset, OtherAsset, User, quick, patient

MCAsset == {HostAsset, RollupAsset, OtherAsset}
MCRecipient == {User}

onHost == <<HostAsset, User>>
onRollup == <<RollupAsset, User>>

Only(s) == [t \in {s} |-> 1]
Both == [t \in {onHost, onRollup} |-> 1]

OneHostFill == {Only(onHost)}

(* Nothing, an order on the host chain, a fill on the rollup, an order on  *)
(* both, and an order on the host next to a fill.                          *)
FillsAndOrders ==
  { NoOutput,
    [fills |-> EmptyMap, orders |-> Only(onHost)],
    [fills |-> Only(onRollup), orders |-> EmptyMap],
    [fills |-> EmptyMap, orders |-> Both],
    [fills |-> Only(onRollup), orders |-> Only(onHost)] }

Paying(ev, ok, price, pays) ==
  [ev |-> ev, ok |-> ok, gas |-> 1, price |-> price, pays |-> pays]

MCCallTxs ==
  { Paying(NoOutput, TRUE, 1, 2), Paying(NoOutput, TRUE, 0, 0 - 1),
    Paying([fills |-> EmptyMap, orders |-> Both], TRUE, 1, 1),
    Paying([fills |-> Only(onRollup), orders |-> EmptyMap], TRUE, 2, 1),
    Paying(NoOutput, FALSE, 1, 1) }

-----------------------------------------------------------------------------
MCChainOf == [a \in MCAsset |-> CASE a = HostAsset -> "host"
                                  [] a = RollupAsset -> "ru"
                                  [] a = OtherAsset -> "elsewhere"]

Wants(asset, amount) == [asset |-> asset, recipient |-> User, amount |-> amount]
Order(outputs, deadline, nonce) ==
  [owner |-> User, inputs |-> <<[asset |-> RollupAsset, amount |-> 1]>>,
   outputs |-> outputs, deadline |-> deadline, nonce |-> nonce]

MCOrders ==
  << Order(<<Wants(HostAsset, 1), Wants(RollupAsset, 1)>>, 24, {}),
     Order(<<Wants(RollupAsset, 1), Wants(RollupAsset, 1)>>, 12, {1}),
     Order(<<Wants(HostAsset, 1), Wants(OtherAsset, 1)>>, 0, {}) >>

MCFiller == {quick, patient}
MCOptions ==
  [f \in MCFiller |->
     IF f = quick THEN [deadlineOffset |-> {}, nonce |-> {}, serves |-> "ru"]
     ELSE [deadlineOffset |-> {24}, nonce |-> {7}, serves |-> "host"]]

(* The nonce that is fixed is used twice.                                  *)
MCMaxFills == [f \in MCFiller |-> IF f = quick THEN 1 ELSE 2]

-----------------------------------------------------------------------------
VARIABLE part   \* which of them moves

MCInit ==
  Init /\ CallInit /\ FlowInit /\ part \in {"bundles", "calls", "orders"}

(* The transactions are as the theorems about bundles assume.              *)
ASSUME OrdinaryTxs == PositiveOrders /\ FillsFit /\ CallsFit

Bundles(A) == part = "bundles" /\ A /\ UNCHANGED <<callVars, flowVars, part>>
Calls(A) == part = "calls" /\ A /\ UNCHANGED <<flowVars, part>>
Flow(A) == part = "orders" /\ A /\ UNCHANGED <<vars, callVars, part>>

(* Orders are sent in their turn, if at all.                               *)
SendInTurn(i) ==
  SendOrder(i) /\ \A j \in i..Len(Orders) : SignOrder(j) \notin ToSet(cached)

(* Fillers race with one fill each; one that fills again does so alone.    *)
StartInTurn(f) ==
  StartStream(f) /\ \A g \in Filler \ {f} : filling[g].fills <= 1
FillInTurn(f, count) ==
  /\ FillOrders(f, count)
  /\ filling[f].fills = 0 \/ \A g \in Filler \ {f} : filling[g].at = "idle"

MCNext ==
  \/ Bundles(Next)
  \/ Calls(CallNext)
  \/ \E i \in DOMAIN Orders : Flow(SendInTurn(i)) \/ (i \in listed /\ Flow(ForgetOrder(i)))
  \/ \E f \in Filler :
       \/ Flow(StartInTurn(f)) \/ Flow(FetchPage(f)) \/ Flow(StreamFails(f))
       \/ \E count \in TargetCounts : Flow(FillInTurn(f, count))
       \/ Flow(SubmitFills(f)) \/ Flow(ProviderFails(f))
       \/ \E t \in 1..(MaxHeight + 2) : Flow(StoreBundle(f, t))
       \/ Flow(SubmittedFills(f)) \/ Flow(SubmissionFails(f))
  \/ \E b \in bundles : Flow(IncludeBundle(b))
  \/ Flow(NewBlock)

MCSpec == MCInit /\ [][MCNext]_<<vars, callVars, flowVars, part>>

MCTypeOK == TypeOK /\ CallTypeOK /\ FlowTypeOK
=============================================================================
