----------------------------- MODULE CallBundle -----------------------------
(***************************************************************************)
(* Bundles that are called before they are sent: the driver of             *)
(* signet_callBundle (SignetBundleDriver, crates/bundle/src/call), which   *)
(* executes a bundle without judging its orders and reports what it found, *)
(* and the bundle driver that then judges the same transactions, with the  *)
(* same outcomes in the EVM.                                               *)
(*                                                                         *)
(* Calls follow each other on one EVM, each with a response of its own (a  *)
(* new driver, or one that was cleared); an EVM in which a call failed is  *)
(* given up.  Bundles that fail the checks before the first transaction    *)
(* are not begun.                                                          *)
(***************************************************************************)
EXTENDS SendBundle

CONSTANTS
  CallTxs,      \* [ev, ok, gas, price, pays]: aggregates, success, gas used,
                \* effective gas price, change of the coinbase's balance
  CoinbaseHas,  \* balance of the coinbase in a new EVM
  MaxBalance,   \* bound on its balance
  MaxBefore     \* bound on the transactions of the block at a call

ASSUME CallAssumption ==
  /\ CallTxs \subseteq [ev : [fills : SlotMap, orders : SlotMap], ok : BOOLEAN,
                        gas : Nat, price : Nat, pays : Int]
  /\ MaxBalance \in Nat /\ MaxBefore \in Nat /\ CoinbaseHas \in 0..MaxBalance

VARIABLES
  calling,   \* whether a call is "running", has been "called", or neither
  response,  \* SignetCallBundleResponse
  detector,  \* the aggregates the EVM's order detector would give
  coinbase,  \* its balance,
  initial    \* and the balance at the start of the bundle

callVars == <<calling, response, detector, coinbase, initial>>

NoResponse ==
  [results |-> <<>>, totalGas |-> 0, gasFees |-> 0, coinbaseDiff |-> 0,
   ethSent |-> 0, gasPrice |-> 0, fills |-> EmptyMap, orders |-> EmptyMap]

SatSub(a, b) == IF a < b THEN 0 ELSE a - b

-----------------------------------------------------------------------------
CallInit ==
  /\ calling = "no"
  /\ response = NoResponse
  /\ detector = NoOutput
  /\ coinbase = CoinbaseHas /\ initial = CoinbaseHas

BeginCall ==
  /\ stage = "idle" /\ calling # "running"
  /\ Len(block) <= MaxBefore
  /\ calling' = "running"
  /\ response' = NoResponse
  /\ initial' = coinbase
  /\ UNCHANGED <<detector, coinbase, vars>>

(* accumulate_tx.                                                          *)
TxResult(tx, diff) ==
  [tx |-> tx, gasFees |-> tx.price * tx.gas, coinbaseDiff |-> diff,
   ethSent |-> SatSub(diff, tx.price * tx.gas)]
Accumulate(result) ==
  [response EXCEPT !.totalGas = @ + result.tx.gas, !.gasFees = @ + result.gasFees,
                   !.results = Append(@, result)]

(* run_tx and accept_and_accumulate; the logs of a transaction that failed *)
(* are not in the detector.                                                *)
CallTx(tx) ==
  /\ calling = "running"
  /\ Len(response.results) < MaxTxs
  /\ coinbase + tx.pays \in 0..MaxBalance
  /\ coinbase' = coinbase + tx.pays
  /\ response' = Accumulate(TxResult(tx, SatSub(coinbase', coinbase)))
  /\ detector' = IF tx.ok THEN [fills  |-> Absorb(detector.fills, tx.ev.fills),
                                orders |-> Absorb(detector.orders, tx.ev.orders)]
                 ELSE detector
  /\ UNCHANGED <<calling, initial, vars>>

(* The EVM or its database fails, after any transaction.                   *)
CallFails ==
  /\ calling = "running"
  /\ calling' = "no"
  /\ response' = NoResponse
  /\ detector' = NoOutput
  /\ coinbase' = CoinbaseHas
  /\ UNCHANGED <<initial, vars>>

(* Mutant of Drained: the aggregates are read and not taken.               *)
Undrained == detector

(* take_aggregates, which clears the order detector.                       *)
Drained == NoOutput

(* The total results.                                                      *)
EndCall ==
  /\ calling = "running"
  /\ response.results # <<>>
  /\ LET diff == SatSub(coinbase, initial) IN
       response' = [response EXCEPT
                      !.coinbaseDiff = diff,
                      !.ethSent = SatSub(diff, response.gasFees),
                      !.gasPrice = IF response.totalGas = 0 THEN 0
                                   ELSE diff \div response.totalGas,
                      !.fills = detector.fills, !.orders = detector.orders]
  /\ detector' = Drained
  /\ calling' = "called"
  /\ UNCHANGED <<coinbase, initial, vars>>

-----------------------------------------------------------------------------
(* The next transaction that was called is run by the bundle driver.       *)
SendCalled(marked) ==
  /\ Len(run) < Len(response.results)
  /\ LET tx == response.results[Len(run) + 1].tx IN
       /\ RunRollupTx(IF tx.ok THEN tx.ev ELSE NoOutput, marked)
       /\ (run'[Len(run')].verdict = "failed") <=> ~tx.ok

EndCalled == Len(run) = Len(response.results) /\ EndBundle

Send(A) == calling = "called" /\ A /\ UNCHANGED callVars

CallNext ==
  \/ BeginCall
  \/ \E tx \in CallTxs : CallTx(tx)
  \/ CallFails
  \/ EndCall
  \/ Send(BeginBundle)
  \/ \E fills \in HostTxFills : Send(RunHostTx(fills))
  \/ Send(EndHostTxs)
  \/ \E marked \in BOOLEAN : Send(SendCalled(marked))
  \/ Send(EndCalled)
  \/ Send(Accept)
  \/ Send(Drop)

CallSpec == Init /\ CallInit /\ [][CallNext]_<<vars, callVars>>

-----------------------------------------------------------------------------
(* What is called may be sent, and the orders that the transactions of a   *)
(* bundle can place on a slot never reach U256::MAX: what the theorem      *)
(* about calls assumes of the transactions.                                *)
CallsFit ==
  \A tx \in CallTxs :
    /\ (IF tx.ok THEN tx.ev ELSE NoOutput) \in TxEvents
    /\ \A s \in Slot : Filled(tx.ev.orders, s) * MaxTxs < MaxAmount

CallTypeOK ==
  /\ calling \in {"no", "running", "called"}
  /\ {response.fills, response.orders} \subseteq SlotMap
  /\ detector \in [fills : SlotMap, orders : SlotMap]
  /\ coinbase \in 0..MaxBalance /\ initial \in 0..MaxBalance

(* The figures of results that are added up, and the sum of such a list.   *)
Total(values) == Sums(values)[Len(values)]

CoinbaseDiffs(results) == [i \in DOMAIN results |-> results[i].coinbaseDiff]
EthSents(results) == [i \in DOMAIN results |-> results[i].ethSent]

FillOf(result, s) ==
  IF result.tx.ok THEN Filled(result.tx.ev.fills, s) ELSE 0
OrderOf(result, s) ==
  IF result.tx.ok THEN Filled(result.tx.ev.orders, s) ELSE 0

FillsInto(s, results) == [i \in DOMAIN results |-> FillOf(results[i], s)]
OrdersFrom(s, results) == [i \in DOMAIN results |-> OrderOf(results[i], s)]

(* What a response reports.  Its totals promise the coinbase no more than  *)
(* its results do, whatever the coinbase itself spends in between; its     *)
(* aggregates are those of this bundle's successful transactions, and of   *)
(* no earlier bundle.  And they foretell what becomes of the bundle: what  *)
(* its orders ask for beyond its own fills, the bundle's host transactions *)
(* and the fill state must have, or it is not simulated with all of its    *)
(* transactions taken ("For the bundle to be valid, there must be fills",  *)
(* crates/bundle/src/call/ty.rs).                                          *)
CallReports ==
  calling = "called" =>
    /\ response.coinbaseDiff <= Total(CoinbaseDiffs(response.results))
    /\ response.ethSent <= Total(EthSents(response.results))
    /\ response.gasPrice * response.totalGas <= response.coinbaseDiff
    /\ \A s \in Slot :
         /\ Filled(response.fills, s) = Total(FillsInto(s, response.results))
         /\ Filled(response.orders, s) = Total(OrdersFrom(s, response.results))
         /\ (stage = "simulated" /\ \A i \in DOMAIN run : run[i].verdict # "dropped") =>
              Filled(response.orders, s) <= Filled(fillState, s)
                + Filled(hostRun.fills, s) + Filled(response.fills, s)
=============================================================================
