---------------------------- MODULE SignetDriver ----------------------------
(***************************************************************************)
(* Execution of one rollup block by SignetDriver (crates/evm/src/driver.rs *)
(* and crates/evm/src/sys/driver.rs): the builder's transactions, then the *)
(* mints of the host's Enter and EnterToken events, then the Transact      *)
(* events, the clearing of the passage and the credit of the base fee.     *)
(*                                                                         *)
(* One action per transaction or event, one disjunct per outcome the code  *)
(* tells apart.  What the EVM does with a transaction (whether it is       *)
(* valid, the gas it uses, the Order and Filled events it emits) is chosen *)
(* from the constants.  The block's content is chosen item by item:        *)
(* extracts only says how many items of each sort there are.               *)
(***************************************************************************)
EXTENDS Market, Sequences

CONSTANTS
  HostFills,     \* possible aggregates of the host block's Filled events
  TxEvents,      \* [fills, orders] aggregates one transaction may emit
  Gas,           \* gas amounts and gas limits
  BaseFee,       \* base fee of the block
  MintGas,       \* MIN_TRANSACTION_GAS: the receipt gas of a native mint
  MaxItems,      \* bound on the items of each sort in a block
  UnusedGasMayBeUnpayable
                 \* whether an executed Transact can leave its sender unable
                 \* to pay for its unused gas (an assumption on the EVM)

ASSUME DriverAssumption ==
  /\ HostFills \subseteq SlotMap
  /\ TxEvents \subseteq [fills : SlotMap, orders : SlotMap]
  /\ Gas \subseteq Nat
  /\ BaseFee \in Nat
  /\ MintGas \in Nat
  /\ MaxItems \in Nat
  /\ UnusedGasMayBeUnpayable \in BOOLEAN

VARIABLES
  phase,          \* where run_txns is
  extracts,       \* how many items of each sort the block holds
  at,             \* how many of them have been taken
  context,        \* working_context: the AggregateFills of the block
  detector,       \* aggregate of the events held by the OrderDetector
  processed,      \* transactions of the block: sender, nonce and gas
  receipts,       \* cumulative gas of each receipt of the output
  payableGasUsed, \* payable_gas_used
  minterNonce,    \* nonce of MINTER_ADDRESS in the EVM state
  mintBase,       \* minter_nonce as read once by run_mints_inner
  passage,        \* whether the rollup passage holds a balance
  funded,         \* history: fills of the host and of accepted transactions
  settled,        \* history: outputs of accepted transactions' orders
  feesTaken,      \* history: base fee taken from senders
  feesCredited    \* history: base fee credited to its recipient

blockVars == <<processed, receipts>>
mintVars == <<minterNonce, mintBase>>
marketVars == <<context, detector>>
history == <<funded, settled, feesTaken, feesCredited>>
vars == <<phase, extracts, at, context, detector, processed, receipts,
          payableGasUsed, minterNonce, mintBase, passage, funded, settled,
          feesTaken, feesCredited>>

Sort == {"transaction", "enter", "enterToken", "transact"}
Phase == {"transactions", "mints", "transacts", "passage", "fees", "done",
          "failed"}
NoEvents == [fills |-> EmptyMap, orders |-> EmptyMap]

-----------------------------------------------------------------------------
(* The detector once the EVM has run a transaction that emits ev.          *)
Detected(ev) == [fills  |-> Absorb(detector.fills, ev.fills),
                 orders |-> Absorb(detector.orders, ev.orders)]

LastReceipt == IF receipts = <<>> THEN 0 ELSE receipts[Len(receipts)]

(* Mutant of Push: the receipt carries the transaction's own gas.          *)
PushOwnGas(sender, nonce, gas) ==
  /\ processed' = Append(processed, [sender |-> sender, nonce |-> nonce, gas |-> gas])
  /\ receipts' = Append(receipts, gas)

(* Push a transaction and its receipt: accept_tx, and the pushes of        *)
(* apply_sys_action_single.                                                *)
Push(sender, nonce, gas) ==
  /\ processed' = Append(processed, [sender |-> sender, nonce |-> nonce, gas |-> gas])
  /\ receipts' = Append(receipts, LastReceipt + gas)

Take(sort) == at' = [at EXCEPT ![sort] = @ + 1]

AddMap(total, m) == [s \in Slot |-> total[s] + Filled(m, s)]

(* take_aggregates clears the detector, then the market is asked.  gas is  *)
(* the gas of the receipt and fee the base fee the sender has been charged *)
(* in the state that is committed on acceptance.                           *)
CheckFillsAndAccept(ev, gas, fee, exits) ==
  /\ detector' = NoEvents
  /\ \E result \in CheckedRemove(context, Detected(ev).fills, Detected(ev).orders) :
       /\ context' = result.ctx
       /\ \/ /\ result.ok
             /\ Push("user", 0, gas)
             /\ payableGasUsed' = payableGasUsed + gas
             /\ passage' = (passage \/ exits)
             /\ funded' = AddMap(funded, ev.fills)
             /\ settled' = AddMap(settled, ev.orders)
             /\ feesTaken' = feesTaken + fee
          \/ /\ ~result.ok
             /\ UNCHANGED <<blockVars, payableGasUsed, passage, funded,
                            settled, feesTaken>>
  /\ UNCHANGED feesCredited

-----------------------------------------------------------------------------
Init ==
  /\ phase = "transactions"
  /\ extracts \in [Sort -> 0..MaxItems]
  /\ at = [s \in Sort |-> 0]
  /\ context \in HostFills
  /\ detector = NoEvents
  /\ processed = <<>>
  /\ receipts = <<>>
  /\ payableGasUsed = 0
  /\ minterNonce = 0
  /\ mintBase = 0
  /\ passage = FALSE
  /\ funded = [s \in Slot |-> Filled(context, s)]
  /\ settled = [s \in Slot |-> 0]
  /\ feesTaken = 0
  /\ feesCredited = 0

Pending(sort) == at[sort] < extracts[sort]

(* execute_all_transactions, one transaction: a blob transaction, one      *)
(* whose signer cannot be recovered or one the EVM refuses leaves no       *)
(* trace; any other is run and handed to the market.                       *)
ExecuteTransaction ==
  /\ phase = "transactions"
  /\ Pending("transaction")
  /\ Take("transaction")
  /\ \/ UNCHANGED <<marketVars, blockVars, payableGasUsed, passage, history>>
     \/ \E ev \in TxEvents, gas \in Gas, exits \in BOOLEAN :
          CheckFillsAndAccept(ev, gas, gas * BaseFee, exits)
  /\ UNCHANGED <<phase, extracts, mintVars>>

(* run_mints_inner reads the nonce of the minter once.                     *)
BeginMints ==
  /\ phase = "transactions"
  /\ ~Pending("transaction")
  /\ phase' = "mints"
  /\ mintBase' = minterNonce
  /\ UNCHANGED <<extracts, at, marketVars, blockVars, payableGasUsed,
                 minterNonce, passage, history>>

(* apply_unmetered_sys_transaction_inner for a MintToken: accept_tx is     *)
(* called without consulting the market, and the EVM bumps the nonce of    *)
(* the caller; a transaction error discards the mint.                      *)
MintToken(nonce) ==
  /\ \/ \E gas \in Gas :
          /\ Push("minter", nonce, gas)
          /\ minterNonce' = minterNonce + 1
     \/ UNCHANGED <<blockVars, minterNonce>>
  /\ UNCHANGED <<phase, extracts, marketVars, payableGasUsed, mintBase,
                 passage, history>>

MintEnter ==
  /\ phase = "mints"
  /\ Pending("enter")
  /\ Take("enter")
  /\ MintToken(mintBase + at["enter"])

(* Mutant of EnterTokenNonce: the Enter mints are not counted.             *)
NonceFromBase == mintBase + at["enterToken"]

EnterTokenNonce == mintBase + extracts["enter"] + at["enterToken"]

MintEnterToken ==
  /\ phase = "mints"
  /\ ~Pending("enter")
  /\ Pending("enterToken")
  /\ Take("enterToken")
  /\ MintToken(EnterTokenNonce)

(* A host USD token is minted as native asset by a SysAction, which raises *)
(* a balance without running the EVM and cannot be discarded.              *)
MintNative ==
  /\ phase = "mints"
  /\ ~Pending("enter")
  /\ Pending("enterToken")
  /\ Take("enterToken")
  /\ Push("minter", EnterTokenNonce, MintGas)
  /\ UNCHANGED <<phase, extracts, marketVars, payableGasUsed, mintVars,
                 passage, history>>

(* The nonce of the minter is written once all mints are done.             *)
FinishMints ==
  /\ phase = "mints"
  /\ ~Pending("enter")
  /\ ~Pending("enterToken")
  /\ phase' = "transacts"
  /\ minterNonce' = mintBase + extracts["enter"] + extracts["enterToken"]
  /\ UNCHANGED <<extracts, at, marketVars, blockVars, payableGasUsed,
                 mintBase, passage, history>>

(* Mutant of UnusedGasDebit: only the gas that was used is paid for.       *)
NoDebit(used, limit) == 0

UnusedGasDebit(used, limit) == (limit - used) * BaseFee

(* apply_metered_sys_transaction_single: the gas used is replaced by the   *)
(* gas limit and the sender pays for what it did not use.  A sender that   *)
(* cannot pay has the outcome rejected before take_aggregates is reached.  *)
ExecuteTransact ==
  /\ phase = "transacts"
  /\ Pending("transact")
  /\ Take("transact")
  /\ \/ UNCHANGED <<marketVars, blockVars, payableGasUsed, passage, history>>
     \/ \E ev \in TxEvents, used, limit \in Gas, exits \in BOOLEAN :
          /\ used <= limit
          /\ CheckFillsAndAccept(ev, limit,
               used * BaseFee + UnusedGasDebit(used, limit), exits)
     \/ \E ev \in TxEvents :
          /\ UnusedGasMayBeUnpayable
          /\ detector' = Detected(ev)
          /\ UNCHANGED <<context, blockVars, payableGasUsed, passage, history>>
  /\ UNCHANGED <<phase, extracts, mintVars>>

FinishTransacts ==
  /\ phase = "transacts"
  /\ ~Pending("transact")
  /\ phase' = "passage"
  /\ UNCHANGED <<extracts, at, marketVars, blockVars, payableGasUsed,
                 mintVars, passage, history>>

ClearRuPassageBalance ==
  /\ phase = "passage"
  /\ phase' = "fees"
  /\ passage' = FALSE
  /\ UNCHANGED <<extracts, at, marketVars, blockVars, payableGasUsed,
                 mintVars, history>>

CreditBaseFee ==
  /\ phase = "fees"
  /\ phase' = "done"
  /\ feesCredited' = payableGasUsed * BaseFee
  /\ UNCHANGED <<extracts, at, marketVars, blockVars, payableGasUsed,
                 mintVars, passage, funded, settled, feesTaken>>

(* A database error of the EVM ends run_txns with an error.                *)
DatabaseError ==
  /\ phase \notin {"done", "failed"}
  /\ phase' = "failed"
  /\ UNCHANGED <<extracts, at, marketVars, blockVars, payableGasUsed,
                 mintVars, passage, history>>

Next ==
  \/ ExecuteTransaction
  \/ BeginMints
  \/ MintEnter
  \/ MintEnterToken
  \/ MintNative
  \/ FinishMints
  \/ ExecuteTransact
  \/ FinishTransacts
  \/ ClearRuPassageBalance
  \/ CreditBaseFee
  \/ DatabaseError

Spec == Init /\ [][Next]_vars

-----------------------------------------------------------------------------
TypeOK ==
  /\ phase \in Phase
  /\ extracts \in [Sort -> Nat]
  /\ at \in [Sort -> Nat]
  /\ context \in SlotMap
  /\ detector \in [fills : SlotMap, orders : SlotMap]
  /\ processed \in Seq([sender : {"user", "minter"}, nonce : Nat, gas : Nat])
  /\ receipts \in Seq(Nat)
  /\ payableGasUsed \in Nat
  /\ minterNonce \in Nat
  /\ mintBase \in Nat
  /\ passage \in BOOLEAN
  /\ funded \in [Slot -> Nat]
  /\ settled \in [Slot -> Nat]
  /\ feesTaken \in Nat
  /\ feesCredited \in Nat

(* The conditional invariant of crates/evm/README.md: over the whole block *)
(* the orders of the accepted transactions never take more out of a slot   *)
(* than the host's fills and the accepted transactions' own fills put in.  *)
(* About check_fills_and_accept and its use by every payable path.         *)
OrdersCovered == \A s \in Slot : settled[s] <= funded[s]

(* What working_context still holds is backed by fills no accepted order   *)
(* has used: a later order can never be paid out of a fill that was spent, *)
(* or that belongs to a transaction which was discarded.                   *)
ContextBacked ==
  \A s \in Slot : Filled(context, s) + settled[s] <= funded[s]

(* An item of the block that is not accepted leaves nothing behind that a  *)
(* later one could see: neither fills, nor events, nor gas, nor a balance. *)
DiscardedLeavesNoTrace ==
  [][(at' # at /\ processed' = processed)
       => UNCHANGED <<context, detector, payableGasUsed, passage, feesTaken>>]_vars

(* Base fee is neither created nor lost: when the block is done the        *)
(* recipient has been credited exactly what the senders were charged, with *)
(* Transact events paying for their unused gas and mints paying nothing,   *)
(* and the passage has been emptied.                                       *)
FeesAndPassageSettled ==
  phase = "done" => feesCredited = feesTaken /\ ~passage

(* Each transaction of the block has its receipt, and the cumulative gas   *)
(* of the receipts grows by that transaction's gas, whichever of the three *)
(* paths (market, unmetered, system action) pushed it.                     *)
ReceiptsFollowTransactions ==
  /\ Len(receipts) = Len(processed)
  /\ \A i \in DOMAIN receipts :
       receipts[i] = processed[i].gas + (IF i = 1 THEN 0 ELSE receipts[i - 1])

(* No two mints of the block carry the same nonce, mints stay in order,    *)
(* and after the mints the minter's nonce lies above all of them, so that  *)
(* the next block cannot repeat one, even when mints were discarded or ran *)
(* without the EVM.                                                        *)
MinterNoncesFresh ==
  \A i \in DOMAIN processed : processed[i].sender = "minter" =>
    /\ \A j \in 1..(i - 1) :
         processed[j].sender = "minter" => processed[j].nonce < processed[i].nonce
    /\ phase \notin {"mints", "failed"} => processed[i].nonce < minterNonce
=============================================================================
