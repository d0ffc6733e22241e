----------------------------- MODULE SendBundle -----------------------------
(***************************************************************************)
(* Bundles and transactions from simulation to settlement.  The bundle     *)
(* driver (SignetEthBundleDriver, crates/bundle/src/send/driver.rs) and    *)
(* simulate_tx (crates/sim/src/env/sim_env.rs) judge an item's orders      *)
(* against the builder's fill state; the builder accepts the best item of  *)
(* a round, drops the others, and ingests all the item's transactions; the *)
(* block driver then executes the block, with all the fills of the host    *)
(* block in its context from the start.                                    *)
(*                                                                         *)
(* The simulations of a round share one fill state and only one of them is *)
(* accepted, so they are modelled one after another.  What the EVM makes   *)
(* of a transaction is chosen from the constants and the same in both      *)
(* executions.  Items that fail the stateless checks (empty, another       *)
(* block, another time) are never begun.                                   *)
(***************************************************************************)
EXTENDS Market, Integers, Sequences

CONSTANTS
  HostTxFills,   \* aggregates of the Filled events of a host transaction
  TxEvents,      \* [fills, orders] aggregates of a rollup transaction
  MaxHostTxs,    \* bound on the host transactions of a bundle
  MaxTxs,        \* bound on the transactions of a bundle
  MaxBlockTxs    \* bound on the transactions of the block

ASSUME BundleAssumption ==
  /\ HostTxFills \subseteq SlotMap
  /\ TxEvents \subseteq [fills : SlotMap, orders : SlotMap]
  /\ MaxHostTxs \in Nat /\ MaxTxs \in Nat /\ MaxBlockTxs \in Nat

VARIABLES
  stage,       \* what the builder, and then the node, is doing; it has
               \* panicked if accept_aggregates failed, against sim_round's
               \* expectation
  fillState,   \* fill_state of the builder's rollup environment
  output,      \* aggregates of the running item: DriverOutput, SimOutcome
  hostRun,     \* its host transactions: how many, and their fills
  run,         \* its rollup transactions that were run
  hostFills,   \* fills of the host transactions of the built block
  block,       \* transactions of the built block
  context,     \* working context of the driver that executes the block
  settled      \* verdicts of that driver, in the order of the block

itemVars == <<output, hostRun, run>>
blockVars == <<fillState, hostFills, block>>
nodeVars == <<context, settled>>
vars == <<stage, fillState, output, hostRun, run, hostFills, block, context,
          settled>>

Stage == {"idle", "host", "rollup", "simulated", "panicked", "settling"}

(* taken: its events count; dropped: the market refused it; failed: it     *)
(* reverted or halted, and only its gas and nonce count.                   *)
Verdict == {"taken", "dropped", "failed"}

NoOutput == [fills |-> EmptyMap, orders |-> EmptyMap]
NoHostTxs == [txs |-> 0, fills |-> EmptyMap]

-----------------------------------------------------------------------------
Init ==
  /\ stage = "idle"
  /\ fillState = EmptyMap
  /\ output = NoOutput
  /\ hostRun = NoHostTxs
  /\ run = <<>>
  /\ hostFills = EmptyMap
  /\ block = <<>>
  /\ context = EmptyMap
  /\ settled = <<>>

BeginBundle ==
  /\ stage = "idle"
  /\ Len(block) < MaxBlockTxs
  /\ stage' = "host"
  /\ output' = NoOutput
  /\ hostRun' = NoHostTxs
  /\ run' = <<>>
  /\ UNCHANGED <<blockVars, nodeVars>>

(* The item is dropped: a simulation error, a time limit, an outcome that  *)
(* scores less than another.                                               *)
Drop ==
  /\ stage \in {"host", "rollup", "simulated"}
  /\ stage' = "idle"
  /\ output' = NoOutput
  /\ hostRun' = NoHostTxs
  /\ run' = <<>>
  /\ UNCHANGED <<blockVars, nodeVars>>

(* A host transaction that succeeds; its fills go in the bundle's fills.   *)
(* One that reverts ends in Drop.                                          *)
RunHostTx(fills) ==
  /\ stage = "host"
  /\ hostRun.txs < MaxHostTxs
  /\ hostRun' = [txs |-> hostRun.txs + 1, fills |-> Absorb(hostRun.fills, fills)]
  /\ output' = [output EXCEPT !.fills = Absorb(@, fills)]
  /\ UNCHANGED <<stage, run, blockVars, nodeVars>>

EndHostTxs ==
  /\ stage = "host"
  /\ stage' = "rollup"
  /\ UNCHANGED <<itemVars, blockVars, nodeVars>>

Ran(ev, marked, verdict) ==
  run' = Append(run, [ev |-> ev, bundled |-> TRUE, marked |-> marked,
                      verdict |-> verdict])

(* Mutant of Candidate: the orders of the transaction are not added.       *)
FillsOnlyCandidate(ev) == [fills  |-> Absorb(output.fills, ev.fills),
                           orders |-> output.orders]

(* The bundle's aggregates with those of the transaction.                  *)
Candidate(ev) == [fills  |-> Absorb(output.fills, ev.fills),
                  orders |-> Absorb(output.orders, ev.orders)]

(* All of the bundle so far is checked against the builder's fill state.   *)
Covered(ev) == CheckRuTxEvents(fillState, Candidate(ev).fills, Candidate(ev).orders)

(* Mutant of AfterReject: the fills of the rejected transaction stay.      *)
FillsStay(ev) == [output EXCEPT !.fills = Absorb(@, ev.fills)]

(* reject: the candidates are dropped with the transaction's state.        *)
AfterReject(ev) == output

(* One rollup transaction of a bundle.  Orders that are not covered, and   *)
(* reverts, are tolerated only if the bundle marks the transaction.        *)
RunRollupTx(ev, marked) ==
  /\ stage = "rollup"
  /\ Len(run) < MaxTxs
  /\ \/ /\ Covered(ev)
        /\ Ran(ev, marked, "taken")
        /\ output' = Candidate(ev)
     \/ /\ ~Covered(ev) /\ marked
        /\ Ran(ev, marked, "dropped")
        /\ output' = AfterReject(ev)
     \/ /\ ev = NoOutput /\ marked
        /\ Ran(ev, marked, "failed")
        /\ UNCHANGED output
  /\ UNCHANGED <<stage, hostRun, blockVars, nodeVars>>

(* The end of simulate_bundle, which repeats the check.                    *)
EndBundle ==
  /\ stage = "rollup"
  /\ run # <<>>
  /\ CheckRuTxEvents(fillState, output.fills, output.orders)
  /\ stage' = "simulated"
  /\ UNCHANGED <<itemVars, blockVars, nodeVars>>

(* Mutant of TxCovered: the orders are not checked.                        *)
AlwaysCovered(ev) == TRUE

TxCovered(ev) == CheckRuTxEvents(fillState, ev.fills, ev.orders)

(* simulate_tx; a transaction that reverts has no events.                  *)
SimulateTx(ev) ==
  /\ stage = "idle"
  /\ Len(block) < MaxBlockTxs
  /\ TxCovered(ev)
  /\ stage' = "simulated"
  /\ output' = ev
  /\ hostRun' = NoHostTxs
  /\ run' = <<[ev |-> ev, bundled |-> FALSE, marked |-> FALSE, verdict |-> "taken"]>>
  /\ UNCHANGED <<blockVars, nodeVars>>

(* The item is the best of its round: accept_aggregates and ingest.  All   *)
(* its transactions enter the block, those that were dropped too.          *)
Accept ==
  /\ stage = "simulated"
  /\ \E result \in CheckedRemove(fillState, output.fills, output.orders) :
       /\ fillState' = result.ctx
       /\ stage' = IF result.ok THEN "idle" ELSE "panicked"
  /\ block' = block \o run
  /\ hostFills' = Absorb(hostFills, hostRun.fills)
  /\ output' = NoOutput
  /\ hostRun' = NoHostTxs
  /\ run' = <<>>
  /\ UNCHANGED nodeVars

-----------------------------------------------------------------------------
(* The built block is submitted, the host includes its transactions, and   *)
(* extraction fills the context with all the fills of the host block.      *)
Submit ==
  /\ stage = "idle"
  /\ block # <<>>
  /\ stage' = "settling"
  /\ context' = hostFills
  /\ UNCHANGED <<itemVars, blockVars, settled>>

(* execute_transaction and check_fills_and_accept of the block driver.     *)
Settle ==
  /\ stage = "settling"
  /\ Len(settled) < Len(block)
  /\ LET tx == block[Len(settled) + 1] IN
       \/ /\ tx.verdict = "failed"
          /\ settled' = Append(settled, "failed")
          /\ UNCHANGED context
       \/ /\ tx.verdict # "failed"
          /\ \E result \in CheckedRemove(context, tx.ev.fills, tx.ev.orders) :
               /\ context' = result.ctx
               /\ settled' = Append(settled, IF result.ok THEN "taken" ELSE "dropped")
  /\ UNCHANGED <<stage, itemVars, blockVars>>

Next ==
  \/ BeginBundle
  \/ Drop
  \/ \E fills \in HostTxFills : RunHostTx(fills)
  \/ EndHostTxs
  \/ \E ev \in TxEvents, marked \in BOOLEAN : RunRollupTx(ev, marked)
  \/ EndBundle
  \/ \E ev \in TxEvents : SimulateTx(ev)
  \/ Accept
  \/ Submit
  \/ Settle

Spec == Init /\ [][Next]_vars

-----------------------------------------------------------------------------
(* No order asks for nothing, and the fills that the host transactions and *)
(* the transactions of a block can put into a slot never reach U256::MAX:  *)
(* what the theorems about bundles assume of the transactions.             *)
PositiveOrders == \A ev \in TxEvents : \A s \in DOMAIN ev.orders : ev.orders[s] > 0

MaxFillers == (MaxHostTxs + 1) * (MaxBlockTxs + MaxTxs + 1)

FillsFit ==
  /\ 0 < MaxAmount
  /\ \A fills \in HostTxFills \cup {ev.fills : ev \in TxEvents} :
       \A s \in Slot : Filled(fills, s) * MaxFillers < MaxAmount

Tx == [ev : [fills : SlotMap, orders : SlotMap], bundled : BOOLEAN,
       marked : BOOLEAN, verdict : Verdict]

TypeOK ==
  /\ stage \in Stage
  /\ {fillState, hostFills, context} \subseteq SlotMap
  /\ output \in [fills : SlotMap, orders : SlotMap]
  /\ hostRun \in [txs : Nat, fills : SlotMap]
  /\ {run, block} \subseteq Seq(Tx)
  /\ settled \in Seq(Verdict)

(* accept_aggregates never fails on an accepted item: the expectation      *)
(* "checked during simulation" of sim_round is met by the prefix checks of *)
(* the bundle driver and the check of simulate_tx.  It needs orders that   *)
(* are not zero: a zero order without an entry passes the check and fails  *)
(* the removal, as in the run driver_zero_output.                          *)
CheckedDuringSimulation == stage # "panicked"

(* What a transaction puts into a slot, less what its orders take out.     *)
Gain(tx, s) ==
  IF tx.verdict = "taken" THEN Filled(tx.ev.fills, s) - Filled(tx.ev.orders, s) ELSE 0

(* The sums of the first so many values of a list.                         *)
Sums(values) ==
  LET sum[i \in 0..Len(values)] == IF i = 0 THEN 0 ELSE sum[i - 1] + values[i]
  IN  sum

(* What the first so many transactions of a list put into a slot.          *)
NetOf(txs, s) == Sums([i \in DOMAIN txs |-> Gain(txs[i], s)])

(* The builder's fill state is what the host transactions and the taken    *)
(* transactions of the block have filled and not ordered: a transaction    *)
(* that was dropped or failed inside an accepted bundle leaves nothing     *)
(* that a later item could spend, and takes nothing away from it.          *)
FillStateExact ==
  \A s \in Slot :
    Filled(fillState, s) = Filled(hostFills, s) + NetOf(block, s)[Len(block)]

(* If no transaction of the block was dropped in simulation the node comes *)
(* to the builder's verdict on every one, although it sees the fills of    *)
(* all the host transactions from the start, and ends with the builder's   *)
(* fill state.                                                             *)
BuilderAndNodeAgree ==
  (stage = "settling" /\ \A i \in DOMAIN block : block[i].verdict # "dropped") =>
    /\ \A i \in DOMAIN settled : settled[i] = block[i].verdict
    /\ Len(settled) = Len(block) =>
         \A s \in Slot : Filled(context, s) = Filled(fillState, s)

(* Bundles are atomic: "Txns must not be dropped by market rules, unless   *)
(* marked as droppable" (crates/test-utils/tests/bundle.rs).               *)
OnlyMarkedDropped ==
  \A i \in DOMAIN settled :
    (block[i].bundled /\ settled[i] = "dropped") => block[i].marked
=============================================================================
