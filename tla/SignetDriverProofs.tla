------------------------- MODULE SignetDriverProofs -------------------------
(***************************************************************************)
(* Proofs about SignetDriver: its type invariant, and the conditional      *)
(* transaction invariant (OrdersCovered) with the strengthening that makes *)
(* it inductive.                                                           *)
(***************************************************************************)
EXTENDS SignetDriver, MarketProofs

LEMMA ProductType ==
  ASSUME NEW a \in Nat, NEW b \in Nat
  PROVE  a * b \in Nat
OBVIOUS

LEMMA NoEventsType ==
  /\ NoEvents \in [fills : SlotMap, orders : SlotMap]
  /\ NoEvents.fills = EmptyMap
  /\ NoEvents.orders = EmptyMap
BY EmptyMapFacts DEF NoEvents

LEMMA EventsType ==
  ASSUME NEW ev \in TxEvents
  PROVE  ev.fills \in SlotMap /\ ev.orders \in SlotMap
BY DriverAssumption

(* Adding a map of slots to a total gives a total.                         *)
LEMMA AddMapFacts ==
  ASSUME NEW t \in [Slot -> Nat], NEW m \in SlotMap
  PROVE  /\ AddMap(t, m) \in [Slot -> Nat]
         /\ \A s \in Slot : AddMap(t, m)[s] = t[s] + Filled(m, s)
<1>1. \A s \in Slot : t[s] + Filled(m, s) \in Nat
  BY FilledType DEF Amount
<1> QED
  BY <1>1 DEF AddMap

(* The detector holds maps of slots after a transaction.                   *)
LEMMA DetectedType ==
  ASSUME TypeOK, NEW ev \in TxEvents
  PROVE  /\ Detected(ev) \in [fills : SlotMap, orders : SlotMap]
         /\ Detected(ev).fills \in SlotMap
         /\ Detected(ev).orders \in SlotMap
<1>1. detector.fills \in SlotMap /\ detector.orders \in SlotMap
  BY DEF TypeOK
<1> QED
  BY <1>1, EventsType, AbsorbFacts DEF Detected

(* The parts of TypeOK a pushed transaction changes.                       *)
LEMMA PushType ==
  ASSUME TypeOK, NEW sender \in {"user", "minter"}, NEW nonce \in Nat,
         NEW gas \in Nat, Push(sender, nonce, gas)
  PROVE  /\ processed' \in Seq([sender : {"user", "minter"}, nonce : Nat, gas : Nat])
         /\ receipts' \in Seq(Nat)
<1>1. [sender |-> sender, nonce |-> nonce, gas |-> gas]
        \in [sender : {"user", "minter"}, nonce : Nat, gas : Nat]
  OBVIOUS
<1>2. LastReceipt \in Nat
  BY DEF TypeOK, LastReceipt
<1>3. LastReceipt + gas \in Nat
  BY <1>2
<1> QED
  BY <1>1, <1>3 DEF TypeOK, Push

(* The parts of TypeOK that check_fills_and_accept changes.                *)
LEMMA AcceptType ==
  ASSUME TypeOK, NEW ev \in TxEvents, NEW gas \in Nat, NEW fee \in Nat,
         NEW exits \in BOOLEAN, CheckFillsAndAccept(ev, gas, fee, exits)
  PROVE  /\ context' \in SlotMap
         /\ detector' \in [fills : SlotMap, orders : SlotMap]
         /\ processed' \in Seq([sender : {"user", "minter"}, nonce : Nat, gas : Nat])
         /\ receipts' \in Seq(Nat)
         /\ payableGasUsed' \in Nat
         /\ passage' \in BOOLEAN
         /\ funded' \in [Slot -> Nat]
         /\ settled' \in [Slot -> Nat]
         /\ feesTaken' \in Nat
         /\ feesCredited' \in Nat
<1>1. PICK r \in CheckedRemove(context, Detected(ev).fills, Detected(ev).orders) :
        /\ context' = r.ctx
        /\ \/ /\ r.ok
              /\ Push("user", 0, gas)
              /\ payableGasUsed' = payableGasUsed + gas
              /\ passage' = (passage \/ exits)
              /\ funded' = AddMap(funded, ev.fills)
              /\ settled' = AddMap(settled, ev.orders)
              /\ feesTaken' = feesTaken + fee
           \/ /\ ~r.ok
              /\ UNCHANGED <<blockVars, payableGasUsed, passage, funded,
                             settled, feesTaken>>
  BY DEF CheckFillsAndAccept
<1>2. context' \in SlotMap
  BY <1>1, DetectedType, CheckedRemoveType DEF TypeOK
<1>3. detector' \in [fills : SlotMap, orders : SlotMap]
  BY NoEventsType DEF CheckFillsAndAccept
<1>4. feesCredited' \in Nat
  BY DEF CheckFillsAndAccept, TypeOK
<1>5. CASE r.ok
  <2>1. /\ processed' \in Seq([sender : {"user", "minter"}, nonce : Nat, gas : Nat])
        /\ receipts' \in Seq(Nat)
    BY <1>1, <1>5, PushType
  <2>2. funded' \in [Slot -> Nat] /\ settled' \in [Slot -> Nat]
    <3>1. funded' = AddMap(funded, ev.fills) /\ settled' = AddMap(settled, ev.orders)
      BY <1>1, <1>5
    <3>2. funded \in [Slot -> Nat] /\ settled \in [Slot -> Nat]
      BY DEF TypeOK
    <3> QED
      BY <3>1, <3>2, EventsType, AddMapFacts
  <2>3. /\ payableGasUsed' \in Nat /\ feesTaken' \in Nat
        /\ passage' \in BOOLEAN
    BY <1>1, <1>5 DEF TypeOK
  <2> QED
    BY <1>2, <1>3, <1>4, <2>1, <2>2, <2>3
<1>6. CASE ~r.ok
  <2>1. UNCHANGED <<blockVars, payableGasUsed, passage, funded, settled, feesTaken>>
    BY <1>1, <1>6
  <2> QED
    BY <1>2, <1>3, <1>4, <2>1 DEF TypeOK, blockVars
<1> QED
  BY <1>5, <1>6

-----------------------------------------------------------------------------
LEMMA InitType == Init => TypeOK
<1> SUFFICES ASSUME Init PROVE TypeOK
  OBVIOUS
<1>1. context \in SlotMap
  BY DriverAssumption DEF Init
<1>2. funded \in [Slot -> Nat]
  BY <1>1, FilledType DEF Init, Amount
<1>3. extracts \in [Sort -> Nat]
  BY DriverAssumption DEF Init
<1>4. processed \in Seq([sender : {"user", "minter"}, nonce : Nat, gas : Nat])
      /\ receipts \in Seq(Nat)
  BY DEF Init
<1> QED
  BY <1>1, <1>2, <1>3, <1>4, NoEventsType DEF Init, TypeOK, Phase

(* Taking an item keeps the counts natural numbers.                        *)
LEMMA TakeType ==
  ASSUME TypeOK, NEW sort \in Sort, Take(sort)
  PROVE  at' \in [Sort -> Nat]
BY DEF TypeOK, Take

LEMMA ExecuteTransactionType == TypeOK /\ ExecuteTransaction => TypeOK'
<1> SUFFICES ASSUME TypeOK, ExecuteTransaction PROVE TypeOK'
  OBVIOUS
<1>1. at' \in [Sort -> Nat]
  BY TakeType DEF ExecuteTransaction, Sort
<1>2. CASE UNCHANGED <<marketVars, blockVars, payableGasUsed, passage, history>>
  BY <1>1, <1>2 DEF TypeOK, ExecuteTransaction, marketVars, blockVars, history, mintVars
<1>3. ASSUME NEW ev \in TxEvents, NEW gas \in Gas, NEW exits \in BOOLEAN,
             CheckFillsAndAccept(ev, gas, gas * BaseFee, exits)
      PROVE  TypeOK'
  <2>1. gas \in Nat /\ gas * BaseFee \in Nat
    BY DriverAssumption, ProductType
  <2>2. UNCHANGED <<phase, extracts, mintVars>>
    BY DEF ExecuteTransaction
  <2> QED
    BY <1>1, <1>3, <2>1, <2>2, AcceptType DEF TypeOK, mintVars
<1> QED
  BY <1>2, <1>3 DEF ExecuteTransaction

LEMMA ExecuteTransactType == TypeOK /\ ExecuteTransact => TypeOK'
<1> SUFFICES ASSUME TypeOK, ExecuteTransact PROVE TypeOK'
  OBVIOUS
<1>1. at' \in [Sort -> Nat]
  BY TakeType DEF ExecuteTransact, Sort
<1>2. UNCHANGED <<phase, extracts, mintVars>>
  BY DEF ExecuteTransact
<1>3. CASE UNCHANGED <<marketVars, blockVars, payableGasUsed, passage, history>>
  BY <1>1, <1>2, <1>3 DEF TypeOK, marketVars, blockVars, history, mintVars
<1>4. ASSUME NEW ev \in TxEvents, NEW used \in Gas, NEW limit \in Gas,
             NEW exits \in BOOLEAN, used <= limit,
             CheckFillsAndAccept(ev, limit,
               used * BaseFee + UnusedGasDebit(used, limit), exits)
      PROVE  TypeOK'
  <2>1. used \in Nat /\ limit \in Nat /\ limit - used \in Nat /\ BaseFee \in Nat
    BY <1>4, DriverAssumption
  <2>2. used * BaseFee \in Nat /\ UnusedGasDebit(used, limit) \in Nat
    BY <2>1, ProductType DEF UnusedGasDebit
  <2> DEFINE debit == used * BaseFee + UnusedGasDebit(used, limit)
  <2>3. debit \in Nat /\ CheckFillsAndAccept(ev, limit, debit, exits)
    BY <1>4, <2>2
  <2> HIDE DEF debit
  <2> QED
    BY <1>1, <1>2, <1>4, <2>1, <2>3, AcceptType, SMTT(30) DEF TypeOK, mintVars
<1>5. ASSUME NEW ev \in TxEvents, detector' = Detected(ev),
             UNCHANGED <<context, blockVars, payableGasUsed, passage, history>>
      PROVE  TypeOK'
  BY <1>1, <1>2, <1>5, DetectedType DEF TypeOK, blockVars, history, mintVars
<1> QED
  BY <1>3, <1>4, <1>5 DEF ExecuteTransact

LEMMA MintTokenType ==
  ASSUME TypeOK, at' \in [Sort -> Nat], NEW nonce \in Nat, MintToken(nonce)
  PROVE  TypeOK'
<1>1. UNCHANGED <<phase, extracts, marketVars, payableGasUsed, mintBase,
                  passage, history>>
  BY DEF MintToken
<1>2. ASSUME NEW gas \in Gas, Push("minter", nonce, gas), minterNonce' = minterNonce + 1
      PROVE  TypeOK'
  <2>1. gas \in Nat
    BY DriverAssumption
  <2> QED
    BY <1>1, <1>2, <2>1, PushType DEF TypeOK, marketVars, history
<1>3. CASE UNCHANGED <<blockVars, minterNonce>>
  <2>1. UNCHANGED <<context, detector, processed, receipts>>
    BY <1>1, <1>3 DEF marketVars, blockVars
  <2>2. UNCHANGED <<funded, settled, feesTaken, feesCredited>>
    BY <1>1 DEF history
  <2> QED
    BY <1>1, <1>3, <2>1, <2>2 DEF TypeOK
<1> QED
  BY <1>2, <1>3 DEF MintToken

LEMMA MintNoncesAreNat ==
  TypeOK => EnterTokenNonce \in Nat /\ mintBase + at["enter"] \in Nat
<1> SUFFICES ASSUME TypeOK
             PROVE  EnterTokenNonce \in Nat /\ mintBase + at["enter"] \in Nat
  OBVIOUS
<1>1. mintBase \in Nat /\ at \in [Sort -> Nat] /\ extracts \in [Sort -> Nat]
  BY DEF TypeOK
<1>2. at["enter"] \in Nat /\ at["enterToken"] \in Nat /\ extracts["enter"] \in Nat
  BY ONLY <1>1 DEF Sort
<1>3. mintBase + at["enter"] \in Nat
      /\ mintBase + extracts["enter"] + at["enterToken"] \in Nat
  BY ONLY <1>1, <1>2
<1> QED
  BY <1>3 DEF EnterTokenNonce

LEMMA MintsType == TypeOK /\ (MintEnter \/ MintEnterToken \/ MintNative) => TypeOK'
<1>1. TypeOK => EnterTokenNonce \in Nat /\ mintBase + at["enter"] \in Nat
  BY MintNoncesAreNat
<1>2. ASSUME TypeOK, MintEnter PROVE TypeOK'
  <2>1. at' \in [Sort -> Nat]
    BY <1>2, TakeType DEF MintEnter, Sort
  <2> QED
    BY <1>1, <1>2, <2>1, MintTokenType DEF MintEnter
<1>3. ASSUME TypeOK, MintEnterToken PROVE TypeOK'
  <2>1. at' \in [Sort -> Nat]
    BY <1>3, TakeType DEF MintEnterToken, Sort
  <2> QED
    BY <1>1, <1>3, <2>1, MintTokenType DEF MintEnterToken
<1>4. ASSUME TypeOK, MintNative PROVE TypeOK'
  <2>1. at' \in [Sort -> Nat]
    BY <1>4, TakeType DEF MintNative, Sort
  <2>2. /\ processed' \in Seq([sender : {"user", "minter"}, nonce : Nat, gas : Nat])
        /\ receipts' \in Seq(Nat)
    BY <1>1, <1>4, PushType, DriverAssumption DEF MintNative
  <2> QED
    BY <1>4, <2>1, <2>2 DEF TypeOK, MintNative, marketVars, mintVars, history
<1> QED
  BY <1>2, <1>3, <1>4

(* The actions that only move run_txns from one part to the next.          *)
LEMMA PhasesType ==
  TypeOK /\ (\/ BeginMints \/ FinishMints \/ FinishTransacts
             \/ ClearRuPassageBalance \/ CreditBaseFee \/ DatabaseError)
    => TypeOK'
<1> SUFFICES ASSUME TypeOK PROVE
      (\/ BeginMints \/ FinishMints \/ FinishTransacts
       \/ ClearRuPassageBalance \/ CreditBaseFee \/ DatabaseError) => TypeOK'
  OBVIOUS
<1> USE DEF TypeOK, Phase, marketVars, blockVars, mintVars, history
<1>1. BeginMints => TypeOK'
  BY DEF BeginMints
<1>2. FinishMints => TypeOK'
  <2>1. mintBase + extracts["enter"] + extracts["enterToken"] \in Nat
    BY DEF Sort
  <2> QED
    BY <2>1 DEF FinishMints
<1>3. FinishTransacts => TypeOK'
  BY DEF FinishTransacts
<1>4. ClearRuPassageBalance => TypeOK'
  BY DEF ClearRuPassageBalance
<1>5. CreditBaseFee => TypeOK'
  <2>1. payableGasUsed * BaseFee \in Nat
    BY DriverAssumption, ProductType
  <2> QED
    BY <2>1 DEF CreditBaseFee
<1>6. DatabaseError => TypeOK'
  BY DEF DatabaseError
<1> QED
  BY <1>1, <1>2, <1>3, <1>4, <1>5, <1>6

LEMMA NextType == TypeOK /\ [Next]_vars => TypeOK'
<1>1. TypeOK /\ UNCHANGED vars => TypeOK'
  BY DEF TypeOK, vars
<1> QED
  BY <1>1, ExecuteTransactionType, ExecuteTransactType, MintsType, PhasesType DEF Next

(* Every reachable state of the driver is well formed: in particular the   *)
(* working context never holds an amount outside U256, whatever is filled. *)
THEOREM TypeCorrect == Spec => []TypeOK
<1> QED
  BY InitType, NextType, PTL DEF Spec

-----------------------------------------------------------------------------
(* The two assumptions under which the market is atomic: no order has an   *)
(* output of amount zero, and an executed Transact can pay for its gas.    *)
PositiveOrders == \A ev \in TxEvents : \A s \in DOMAIN ev.orders : ev.orders[s] > 0

(* The inductive invariant: between two items the detector is empty, so    *)
(* the next item is judged by its own events alone, and the context holds  *)
(* no more than the fills no accepted order has used.                      *)
IInv == TypeOK /\ detector = NoEvents /\ ContextBacked

(* With an empty detector the events taken are the transaction's own.      *)
LEMMA DetectsOwnEvents ==
  ASSUME detector = NoEvents, NEW ev \in TxEvents
  PROVE  Detected(ev).fills = ev.fills /\ Detected(ev).orders = ev.orders
<1>1. Detected(ev) = [fills |-> Absorb(EmptyMap, ev.fills),
                      orders |-> Absorb(EmptyMap, ev.orders)]
  BY NoEventsType DEF Detected
<1> QED
  BY <1>1, EventsType, AbsorbIntoEmpty

(* check_fills_and_accept preserves the invariant.                         *)
LEMMA AcceptBacked ==
  ASSUME PositiveOrders, IInv, NEW ev \in TxEvents, NEW gas \in Nat,
         NEW fee \in Nat, NEW exits \in BOOLEAN,
         CheckFillsAndAccept(ev, gas, fee, exits)
  PROVE  detector' = NoEvents /\ ContextBacked'
<1>1. PICK r \in CheckedRemove(context, ev.fills, ev.orders) :
        /\ context' = r.ctx
        /\ \/ r.ok /\ funded' = AddMap(funded, ev.fills)
                   /\ settled' = AddMap(settled, ev.orders)
           \/ ~r.ok /\ funded' = funded /\ settled' = settled
  BY DetectsOwnEvents DEF CheckFillsAndAccept, IInv
<1>2. /\ context \in SlotMap /\ ev.fills \in SlotMap /\ ev.orders \in SlotMap
      /\ funded \in [Slot -> Nat] /\ settled \in [Slot -> Nat]
  BY EventsType DEF IInv, TypeOK
<1>3. /\ ~r.ok => r.ctx = context
      /\ r.ok => \A s \in Slot : Filled(r.ctx, s) + Filled(ev.orders, s)
                                   <= Filled(context, s) + Filled(ev.fills, s)
  BY <1>2, CheckedRemoveAtomic DEF PositiveOrders
<1>4. detector' = NoEvents
  BY DEF CheckFillsAndAccept
<1>5. CASE r.ok
  <2> SUFFICES ASSUME NEW s \in Slot
               PROVE  Filled(context', s) + settled'[s] <= funded'[s]
    BY <1>4 DEF ContextBacked, Filled
  <2>1. /\ funded'[s] = funded[s] + Filled(ev.fills, s)
        /\ settled'[s] = settled[s] + Filled(ev.orders, s)
    BY <1>1, <1>2, <1>5, AddMapFacts
  <2>2. Filled(context', s) + Filled(ev.orders, s)
          <= Filled(context, s) + Filled(ev.fills, s)
    BY <1>1, <1>3, <1>5
  <2>3. Filled(context, s) + settled[s] <= funded[s]
    BY DEF IInv, ContextBacked
  <2>4. context' \in SlotMap
    BY <1>1, <1>2, CheckedRemoveType
  <2>5. /\ Filled(context', s) \in Nat /\ Filled(context, s) \in Nat
        /\ Filled(ev.orders, s) \in Nat /\ Filled(ev.fills, s) \in Nat
    BY <1>2, <2>4, FilledType DEF Amount
  <2>6. funded[s] \in Nat /\ settled[s] \in Nat
    BY <1>2
  <2> QED
    BY <2>1, <2>2, <2>3, <2>5, <2>6
<1>6. CASE ~r.ok
  <2>1. context' = context /\ funded' = funded /\ settled' = settled
    BY <1>1, <1>3, <1>6
  <2> QED
    BY <1>4, <2>1 DEF IInv, ContextBacked, Filled
<1> QED
  BY <1>5, <1>6

LEMMA InitBacked == Init => IInv
<1> SUFFICES ASSUME Init PROVE IInv
  OBVIOUS
<1>1. TypeOK
  BY InitType
<1>2. ContextBacked
  <2> SUFFICES ASSUME NEW s \in Slot
               PROVE  Filled(context, s) + settled[s] <= funded[s]
    BY DEF ContextBacked
  <2>1. Filled(context, s) \in Nat
    BY <1>1, FilledType DEF TypeOK, Amount
  <2> QED
    BY <2>1 DEF Init
<1> QED
  BY <1>1, <1>2 DEF IInv, Init

LEMMA NextBacked ==
  ASSUME ~UnusedGasMayBeUnpayable, PositiveOrders
  PROVE  IInv /\ [Next]_vars => IInv'
<1> SUFFICES ASSUME IInv, [Next]_vars PROVE IInv'
  OBVIOUS
<1>1. TypeOK'
  BY NextType DEF IInv
<1>2. ASSUME UNCHANGED <<context, detector, funded, settled>>
      PROVE  IInv'
  BY <1>1, <1>2 DEF IInv, ContextBacked, Filled
<1>3. CASE ExecuteTransaction
  <2>1. CASE UNCHANGED <<marketVars, blockVars, payableGasUsed, passage, history>>
    BY <1>2, <2>1 DEF marketVars, history
  <2>2. ASSUME NEW ev \in TxEvents, NEW gas \in Gas, NEW exits \in BOOLEAN,
               CheckFillsAndAccept(ev, gas, gas * BaseFee, exits)
        PROVE  IInv'
    <3>1. gas \in Nat /\ gas * BaseFee \in Nat
      BY DriverAssumption, ProductType
    <3> QED
      BY <1>1, <2>2, <3>1, AcceptBacked DEF IInv
  <2> QED
    BY <1>3, <2>1, <2>2 DEF ExecuteTransaction
<1>4. CASE ExecuteTransact
  <2>1. CASE UNCHANGED <<marketVars, blockVars, payableGasUsed, passage, history>>
    BY <1>2, <2>1 DEF marketVars, history
  <2>2. ASSUME NEW ev \in TxEvents, NEW used \in Gas, NEW limit \in Gas,
               NEW exits \in BOOLEAN, used <= limit,
               CheckFillsAndAccept(ev, limit,
                 used * BaseFee + UnusedGasDebit(used, limit), exits)
        PROVE  IInv'
    <3>1. used \in Nat /\ limit \in Nat /\ limit - used \in Nat /\ BaseFee \in Nat
      BY <2>2, DriverAssumption
    <3>2. used * BaseFee \in Nat /\ UnusedGasDebit(used, limit) \in Nat
      BY <3>1, ProductType DEF UnusedGasDebit
    <3>3. used * BaseFee + UnusedGasDebit(used, limit) \in Nat
      BY <3>2
    <3> QED
      BY <1>1, <2>2, <3>1, <3>3, AcceptBacked DEF IInv
  <2> QED
    BY <1>4, <2>1, <2>2 DEF ExecuteTransact
<1>5. CASE BeginMints \/ FinishMints \/ FinishTransacts \/ ClearRuPassageBalance
             \/ CreditBaseFee \/ DatabaseError
  BY <1>2, <1>5 DEF BeginMints, FinishMints, FinishTransacts,
       ClearRuPassageBalance, CreditBaseFee, DatabaseError, marketVars, history
<1>6. CASE MintEnter \/ MintEnterToken \/ MintNative
  BY <1>2, <1>6 DEF MintEnter, MintEnterToken, MintNative, MintToken,
       marketVars, history
<1>7. CASE UNCHANGED vars
  BY <1>2, <1>7 DEF vars
<1> QED
  BY <1>3, <1>4, <1>5, <1>6, <1>7 DEF Next

LEMMA BackedCovers == IInv => OrdersCovered
<1> SUFFICES ASSUME IInv, NEW s \in Slot PROVE settled[s] <= funded[s]
  BY DEF OrdersCovered
<1>1. Filled(context, s) \in Nat
  BY FilledType DEF IInv, TypeOK, Amount
<1>2. Filled(context, s) + settled[s] <= funded[s]
  BY DEF IInv, ContextBacked
<1> QED
  BY <1>1, <1>2 DEF IInv, TypeOK

(* The conditional invariant holds for every block, any number of assets,  *)
(* recipients, transactions and events, when no output is of amount zero   *)
(* and a Transact can always pay for its unused gas.                       *)
THEOREM OrdersAreCovered ==
  ASSUME ~UnusedGasMayBeUnpayable, PositiveOrders
  PROVE  Spec => []OrdersCovered
<1>1. Spec => []IInv
  BY InitBacked, NextBacked, PTL DEF Spec
<1> QED
  BY <1>1, BackedCovers, PTL

(* Under the same assumptions nothing is left in the context, or between   *)
(* two items in the detector, that an accepted order has already used.     *)
THEOREM ContextIsBacked ==
  ASSUME ~UnusedGasMayBeUnpayable, PositiveOrders
  PROVE  Spec => []ContextBacked
<1>1. Spec => []IInv
  BY InitBacked, NextBacked, PTL DEF Spec
<1>2. IInv => ContextBacked
  BY DEF IInv
<1> QED
  BY <1>1, <1>2, PTL

(* Under the same assumptions an item that is not accepted leaves context, *)
(* detector, gas, passage and fees alone: the detector was empty, and the  *)
(* removal that fails is one that deducted nothing.                        *)
LEMMA RefusedLeavesContext ==
  ASSUME PositiveOrders, IInv, NEW ev \in TxEvents, NEW gas, NEW fee,
         NEW exits, CheckFillsAndAccept(ev, gas, fee, exits), processed' = processed
  PROVE  UNCHANGED <<context, detector, payableGasUsed, passage, feesTaken>>
<1>1. PICK r \in CheckedRemove(context, ev.fills, ev.orders) :
        /\ context' = r.ctx
        /\ \/ r.ok /\ Push("user", 0, gas)
           \/ ~r.ok /\ UNCHANGED <<payableGasUsed, passage, feesTaken>>
  BY DetectsOwnEvents DEF CheckFillsAndAccept, IInv
<1>2. ~Push("user", 0, gas)
  <2>1. Len(Append(processed, [sender |-> "user", nonce |-> 0, gas |-> gas]))
          # Len(processed)
    BY DEF IInv, TypeOK
  <2> QED
    BY <2>1 DEF Push
<1>3. /\ context \in SlotMap /\ ev.fills \in SlotMap /\ ev.orders \in SlotMap
      /\ \A s \in DOMAIN ev.orders : ev.orders[s] > 0
  BY EventsType DEF IInv, TypeOK, PositiveOrders
<1>4. r.ctx = context
  BY <1>1, <1>2, <1>3, CheckedRemoveAtomic
<1>5. detector' = detector
  BY DEF CheckFillsAndAccept, IInv
<1> QED
  BY <1>1, <1>2, <1>4, <1>5

LEMMA StepDiscards ==
  ASSUME ~UnusedGasMayBeUnpayable, PositiveOrders, IInv, Next,
         at' # at, processed' = processed
  PROVE  UNCHANGED <<context, detector, payableGasUsed, passage, feesTaken>>
<1>1. CASE ExecuteTransaction
  BY <1>1, RefusedLeavesContext DEF ExecuteTransaction, marketVars, history
<1>2. CASE ExecuteTransact
  BY <1>2, RefusedLeavesContext DEF ExecuteTransact, marketVars, history
<1>3. CASE MintEnter \/ MintEnterToken \/ MintNative
  BY <1>3 DEF MintEnter, MintEnterToken, MintNative, MintToken, marketVars, history
<1>4. CASE BeginMints \/ FinishMints \/ FinishTransacts \/ ClearRuPassageBalance
             \/ CreditBaseFee \/ DatabaseError
  BY <1>4 DEF BeginMints, FinishMints, FinishTransacts, ClearRuPassageBalance,
       CreditBaseFee, DatabaseError
<1> QED
  BY <1>1, <1>2, <1>3, <1>4 DEF Next

(* No item that is discarded leaves anything a later one could see: about  *)
(* reject and the order in which check_fills_and_accept takes, checks and  *)
(* commits.                                                                *)
THEOREM DiscardedAreForgotten ==
  ASSUME ~UnusedGasMayBeUnpayable, PositiveOrders
  PROVE  Spec => DiscardedLeavesNoTrace
<1>1. Spec => []IInv
  BY InitBacked, NextBacked, PTL DEF Spec
<1>2. ASSUME IInv, [Next]_vars
      PROVE  [(at' # at /\ processed' = processed)
                => UNCHANGED <<context, detector, payableGasUsed, passage,
                               feesTaken>>]_vars
  BY <1>2, StepDiscards
<1> QED
  BY <1>1, <1>2, PTL DEF Spec, DiscardedLeavesNoTrace

-----------------------------------------------------------------------------
(* Receipts and transactions grow together.                                *)
LEMMA PushFollows ==
  ASSUME TypeOK, ReceiptsFollowTransactions, NEW sender \in {"user", "minter"},
         NEW nonce \in Nat, NEW gas \in Nat, Push(sender, nonce, gas)
  PROVE  ReceiptsFollowTransactions'
<1> DEFINE n == Len(processed)
           tx == [sender |-> sender, nonce |-> nonce, gas |-> gas]
<1>1. /\ processed' = Append(processed, tx) /\ receipts' = Append(receipts, LastReceipt + gas)
      /\ n \in Nat /\ Len(receipts) = n
      /\ Len(processed') = n + 1 /\ Len(receipts') = n + 1
      /\ DOMAIN receipts' = 1..(n + 1)
      /\ \A i \in 1..n : receipts'[i] = receipts[i] /\ processed'[i] = processed[i]
      /\ receipts'[n + 1] = LastReceipt + gas
      /\ processed'[n + 1] = tx
  BY DEF Push, TypeOK, ReceiptsFollowTransactions
<1>2. LastReceipt = IF n = 0 THEN 0 ELSE receipts[n]
  BY <1>1 DEF LastReceipt, TypeOK
<1>3. LastReceipt \in Nat
  BY DEF LastReceipt, TypeOK
<1> HIDE DEF tx
<1>4. \A i \in 1..n :
        receipts[i] = processed[i].gas + (IF i = 1 THEN 0 ELSE receipts[i - 1])
  BY <1>1, SMTT(30) DEF ReceiptsFollowTransactions, TypeOK
<1>5. ASSUME NEW i \in 1..(n + 1)
      PROVE  receipts'[i] = processed'[i].gas + (IF i = 1 THEN 0 ELSE receipts'[i - 1])
  <2>1. CASE i \in 1..n
    <3>1. i = 1 \/ i - 1 \in 1..n
      BY <1>1, <2>1
    <3> QED
      BY <1>1, <1>4, <2>1, <3>1
  <2>2. CASE i = n + 1
    <3>1. tx.gas = gas
      BY DEF tx
    <3>2. LastReceipt = IF i = 1 THEN 0 ELSE receipts'[i - 1]
      BY <1>1, <1>2, <2>2
    <3> QED
      BY <1>1, <1>3, <2>2, <3>1, <3>2
  <2> QED
    BY <1>1, <2>1, <2>2
<1> QED
  BY <1>1, <1>5 DEF ReceiptsFollowTransactions

(* What every step does to the block: nothing, or one transaction and its  *)
(* receipt.                                                                *)
LEMMA StepPushes ==
  ASSUME TypeOK, [Next]_vars
  PROVE  \/ UNCHANGED blockVars
         \/ \E sender \in {"user", "minter"}, nonce \in Nat, gas \in Nat :
              Push(sender, nonce, gas)
<1>1. CASE ExecuteTransaction
  <2>1. CASE UNCHANGED blockVars
    BY <2>1
  <2>2. ASSUME NEW ev \in TxEvents, NEW gas \in Gas, NEW exits \in BOOLEAN,
               CheckFillsAndAccept(ev, gas, gas * BaseFee, exits)
        PROVE  UNCHANGED blockVars \/ Push("user", 0, gas)
    BY <2>2 DEF CheckFillsAndAccept
  <2> QED
    BY <1>1, <2>1, <2>2, DriverAssumption DEF ExecuteTransaction
<1>2. CASE ExecuteTransact
  <2>1. CASE UNCHANGED blockVars
    BY <2>1
  <2>2. ASSUME NEW ev \in TxEvents, NEW used \in Gas, NEW limit \in Gas, NEW exits \in BOOLEAN,
               CheckFillsAndAccept(ev, limit,
                 used * BaseFee + UnusedGasDebit(used, limit), exits)
        PROVE  UNCHANGED blockVars \/ Push("user", 0, limit)
    <3> DEFINE debit == used * BaseFee + UnusedGasDebit(used, limit)
    <3>1. CheckFillsAndAccept(ev, limit, debit, exits)
      BY <2>2
    <3> HIDE DEF debit
    <3> QED
      BY <3>1 DEF CheckFillsAndAccept
  <2> QED
    BY <1>2, <2>1, <2>2, DriverAssumption DEF ExecuteTransact
<1>3. CASE MintEnter \/ MintEnterToken \/ MintNative
  <2>1. mintBase + at["enter"] \in Nat /\ EnterTokenNonce \in Nat
    BY MintNoncesAreNat
  <2>2. ASSUME NEW nonce \in Nat, MintToken(nonce)
        PROVE  \/ UNCHANGED blockVars
               \/ \E gas \in Nat : Push("minter", nonce, gas)
    BY <2>2, DriverAssumption DEF MintToken
  <2>3. MintNative => Push("minter", EnterTokenNonce, MintGas)
    BY DEF MintNative
  <2> QED
    BY <1>3, <2>1, <2>2, <2>3, DriverAssumption DEF MintEnter, MintEnterToken
<1>4. CASE BeginMints \/ FinishMints \/ FinishTransacts \/ ClearRuPassageBalance
             \/ CreditBaseFee \/ DatabaseError
  BY <1>4 DEF BeginMints, FinishMints, FinishTransacts, ClearRuPassageBalance,
       CreditBaseFee, DatabaseError
<1>5. CASE UNCHANGED vars
  BY <1>5 DEF vars, blockVars
<1> QED
  BY <1>1, <1>2, <1>3, <1>4, <1>5 DEF Next

(* The receipts of the block follow its transactions, on all three paths   *)
(* that push one.                                                          *)
THEOREM ReceiptsAreCumulative == Spec => []ReceiptsFollowTransactions
<1>1. Init => ReceiptsFollowTransactions
  BY DEF Init, ReceiptsFollowTransactions
<1>2. TypeOK /\ ReceiptsFollowTransactions /\ [Next]_vars => ReceiptsFollowTransactions'
  <2> SUFFICES ASSUME TypeOK, ReceiptsFollowTransactions, [Next]_vars
               PROVE  ReceiptsFollowTransactions'
    OBVIOUS
  <2>1. CASE UNCHANGED blockVars
    BY <2>1 DEF ReceiptsFollowTransactions, blockVars
  <2>2. ASSUME NEW sender \in {"user", "minter"}, NEW nonce \in Nat, NEW gas \in Nat,
               Push(sender, nonce, gas)
        PROVE  ReceiptsFollowTransactions'
    BY <2>2, PushFollows
  <2> QED
    BY <2>1, <2>2, StepPushes
<1> QED
  BY <1>1, <1>2, TypeCorrect, PTL DEF Spec

-----------------------------------------------------------------------------
(* The books of the base fee while the block is executed: what was taken   *)
(* is the price of payable_gas_used.                                       *)
Books ==
  /\ feesTaken = payableGasUsed * BaseFee
  /\ phase \in {"fees", "done"} => ~passage
  /\ phase = "done" => feesCredited = feesTaken

LEMMA Distributes ==
  ASSUME NEW a \in Nat, NEW b \in Nat, NEW c \in Nat
  PROVE  (a + b) * c = a * c + b * c
OBVIOUS

(* Accepting an outcome keeps the books if the fee is that of its gas.     *)
LEMMA AcceptKeepsBooks ==
  ASSUME TypeOK, Books, phase \notin {"fees", "done"}, phase' = phase,
         NEW ev \in TxEvents, NEW gas \in Nat, NEW fee, NEW exits,
         fee = gas * BaseFee, CheckFillsAndAccept(ev, gas, fee, exits)
  PROVE  Books'
<1>1. (payableGasUsed + gas) * BaseFee = payableGasUsed * BaseFee + gas * BaseFee
  BY Distributes, DriverAssumption DEF TypeOK
<1>2. \/ payableGasUsed' = payableGasUsed + gas /\ feesTaken' = feesTaken + fee
      \/ UNCHANGED <<payableGasUsed, feesTaken>>
  BY DEF CheckFillsAndAccept
<1>3. feesTaken' = payableGasUsed' * BaseFee
  BY <1>1, <1>2 DEF Books
<1> QED
  BY <1>3 DEF Books

LEMMA NextKeepsBooks == TypeOK /\ Books /\ [Next]_vars => Books'
<1> SUFFICES ASSUME TypeOK, Books, [Next]_vars PROVE Books'
  OBVIOUS
<1>1. ASSUME UNCHANGED <<payableGasUsed, passage, feesTaken, feesCredited>>,
             phase' \in {phase, "failed"} \/ phase' \notin {"fees", "done"}
      PROVE  Books'
  BY <1>1 DEF Books
<1>2. CASE ExecuteTransaction
  <2>1. ASSUME NEW ev \in TxEvents, NEW gas \in Gas, NEW exits \in BOOLEAN,
               CheckFillsAndAccept(ev, gas, gas * BaseFee, exits)
        PROVE  Books'
    BY <1>2, <2>1, AcceptKeepsBooks, DriverAssumption DEF ExecuteTransaction
  <2> QED
    BY <1>1, <1>2, <2>1 DEF ExecuteTransaction, history
<1>3. CASE ExecuteTransact
  <2>1. ASSUME NEW ev \in TxEvents, NEW used \in Gas, NEW limit \in Gas,
               NEW exits \in BOOLEAN, used <= limit,
               CheckFillsAndAccept(ev, limit,
                 used * BaseFee + UnusedGasDebit(used, limit), exits)
        PROVE  Books'
    <3> DEFINE unused == limit - used
    <3>1. used \in Nat /\ limit \in Nat /\ unused \in Nat /\ BaseFee \in Nat
          /\ used + unused = limit
      BY <2>1, DriverAssumption
    <3> HIDE DEF unused
    <3>2. limit * BaseFee = used * BaseFee + unused * BaseFee
      BY <3>1, Distributes
    <3>3. used * BaseFee + UnusedGasDebit(used, limit) = limit * BaseFee
      BY <3>2 DEF UnusedGasDebit, unused
    <3> QED
      BY <1>3, <2>1, <3>1, <3>3, AcceptKeepsBooks DEF ExecuteTransact
  <2> QED
    BY <1>1, <1>3, <2>1 DEF ExecuteTransact, history
<1>4. CASE BeginMints \/ FinishMints \/ FinishTransacts \/ DatabaseError
  BY <1>1, <1>4 DEF BeginMints, FinishMints, FinishTransacts, DatabaseError, history
<1>5. CASE MintEnter \/ MintEnterToken \/ MintNative
  BY <1>1, <1>5 DEF MintEnter, MintEnterToken, MintNative, MintToken, history
<1>6. CASE ClearRuPassageBalance
  BY <1>6 DEF Books, ClearRuPassageBalance, history
<1>7. CASE CreditBaseFee
  BY <1>7 DEF Books, CreditBaseFee
<1>8. CASE UNCHANGED vars
  BY <1>1, <1>8 DEF vars
<1> QED
  BY <1>2, <1>3, <1>4, <1>5, <1>6, <1>7, <1>8 DEF Next

(* Base fee is neither created nor lost, whatever gas and base fee, and    *)
(* whether or not every Transact can pay for its unused gas.               *)
THEOREM FeesAreSettled == Spec => []FeesAndPassageSettled
<1>1. Init => Books
  BY DriverAssumption DEF Init, Books
<1>2. Books => FeesAndPassageSettled
  BY DEF Books, FeesAndPassageSettled
<1> QED
  BY <1>1, <1>2, NextKeepsBooks, TypeCorrect, PTL DEF Spec

-----------------------------------------------------------------------------
(* The nonces of the mints of the block rise, and lie below a bound.       *)
IsMint(i) == processed[i].sender = "minter"

MintsRise ==
  \A i \in DOMAIN processed : \A j \in 1..(i - 1) :
    IsMint(i) /\ IsMint(j) => processed[j].nonce < processed[i].nonce

MintsBelow(bound) ==
  \A i \in DOMAIN processed : IsMint(i) => processed[i].nonce < bound

(* How many mints run_mints_inner has counted so far.                      *)
Minted == at["enter"] + at["enterToken"]

(* The inductive invariant: while the mints run they lie below the next    *)
(* nonce to be given, which the Enter events reach before the EnterToken   *)
(* events start; afterwards they lie below the nonce that was written.     *)
NonceInv ==
  /\ TypeOK
  /\ MintsRise
  /\ phase = "transactions" =>
       /\ at["enter"] = 0 /\ at["enterToken"] = 0
       /\ MintsBelow(0)
  /\ phase = "mints" =>
       /\ MintsBelow(mintBase + Minted)
       /\ at["enter"] <= extracts["enter"] /\ at["enterToken"] <= extracts["enterToken"]
       /\ at["enterToken"] > 0 => at["enter"] = extracts["enter"]
  /\ phase \notin {"transactions", "mints", "failed"} => MintsBelow(minterNonce)

LEMMA NonceTypes ==
  ASSUME TypeOK, NEW i \in DOMAIN processed
  PROVE  processed[i].nonce \in Nat
<1> DEFINE Tx == [sender : {"user", "minter"}, nonce : Nat, gas : Nat]
<1>1. processed \in Seq(Tx)
  BY DEF TypeOK
<1>2. \A tx \in Tx : tx.nonce \in Nat
  OBVIOUS
<1> HIDE DEF Tx
<1>3. processed[i] \in Tx
  BY <1>1
<1> QED
  BY <1>2, <1>3

LEMMA NonceInvSuffices == NonceInv => MinterNoncesFresh
<1> SUFFICES ASSUME NonceInv PROVE MinterNoncesFresh
  OBVIOUS
<1>1. ASSUME NEW i \in DOMAIN processed, processed[i].sender = "minter",
             phase \notin {"mints", "failed"}
      PROVE  processed[i].nonce < minterNonce
  <2>1. processed[i].nonce \in Nat /\ minterNonce \in Nat
    BY NonceTypes DEF NonceInv, TypeOK
  <2>2. CASE phase = "transactions"
    BY <1>1, <2>1, <2>2 DEF NonceInv, MintsBelow, IsMint
  <2>3. CASE phase # "transactions"
    BY <1>1, <2>3 DEF NonceInv, MintsBelow, IsMint
  <2> QED
    BY <2>2, <2>3
<1> QED
  BY <1>1 DEF NonceInv, MintsRise, IsMint, MinterNoncesFresh

(* Pushing a transaction of a user changes nothing about the mints; pushing*)
(* a mint whose nonce is a bound of the others keeps them rising.          *)
LEMMA PushUser ==
  ASSUME TypeOK, MintsRise, NEW gas, Push("user", 0, gas)
  PROVE  /\ MintsRise'
         /\ \A bound \in Nat : MintsBelow(bound) => MintsBelow(bound)'
<1> DEFINE n == Len(processed)
<1>1. /\ n \in Nat /\ DOMAIN processed = 1..n /\ DOMAIN processed' = 1..(n + 1)
      /\ \A i \in 1..n : processed'[i] = processed[i]
      /\ processed'[n + 1].sender = "user"
  <2> DEFINE Tx == [sender : {"user", "minter"}, nonce : Nat, gas : Nat]
             pushed == [sender |-> "user", nonce |-> 0, gas |-> gas]
  <2>1. processed \in Seq(Tx) /\ processed' = Append(processed, pushed)
    BY DEF Push, TypeOK
  <2>2. pushed.sender = "user"
    OBVIOUS
  <2> HIDE DEF Tx, pushed
  <2> QED
    BY <2>1, <2>2
<1>2. \A i \in 1..(n + 1) : IsMint(i)' => i \in 1..n /\ IsMint(i)
  BY <1>1 DEF IsMint
<1> HIDE DEF n
<1>3. MintsRise'
  BY <1>1, <1>2 DEF MintsRise
<1>4. \A bound \in Nat : MintsBelow(bound) => MintsBelow(bound)'
  BY <1>1, <1>2 DEF MintsBelow
<1> QED
  BY <1>3, <1>4

LEMMA PushMint ==
  ASSUME TypeOK, MintsRise, NEW nonce \in Nat, MintsBelow(nonce), NEW gas \in Nat,
         Push("minter", nonce, gas)
  PROVE  MintsRise' /\ MintsBelow(nonce + 1)'
<1> DEFINE n == Len(processed)
<1>1. /\ n \in Nat /\ DOMAIN processed = 1..n /\ DOMAIN processed' = 1..(n + 1)
      /\ \A i \in 1..n : processed'[i] = processed[i] /\ processed[i].nonce \in Nat
      /\ processed'[n + 1].nonce = nonce
  <2> DEFINE Tx == [sender : {"user", "minter"}, nonce : Nat, gas : Nat]
             pushed == [sender |-> "minter", nonce |-> nonce, gas |-> gas]
  <2>1. processed \in Seq(Tx) /\ processed' = Append(processed, pushed)
    BY DEF Push, TypeOK
  <2>2. pushed.nonce = nonce
    OBVIOUS
  <2> HIDE DEF Tx, pushed
  <2> QED
    BY <2>1, <2>2, NonceTypes
<1>2. \A i \in 1..n : IsMint(i)' = IsMint(i)
  BY <1>1 DEF IsMint
<1> HIDE DEF n
<1>3. MintsRise'
  <2>1. ASSUME NEW i \in 1..(n + 1), NEW j \in 1..(i - 1), IsMint(i)', IsMint(j)'
        PROVE  processed'[j].nonce < processed'[i].nonce
    <3>1. j \in 1..n
      BY <1>1
    <3>2. CASE i \in 1..n
      BY <1>1, <1>2, <2>1, <3>1, <3>2 DEF MintsRise
    <3>3. CASE i = n + 1
      BY <1>1, <1>2, <2>1, <3>1, <3>3 DEF MintsBelow
    <3> QED
      BY <1>1, <3>2, <3>3
  <2> QED
    BY <1>1, <2>1 DEF MintsRise
<1>4. MintsBelow(nonce + 1)'
  BY <1>1, <1>2 DEF MintsBelow
<1> QED
  BY <1>3, <1>4

(* A bound can be raised, and is kept while the block is.                  *)
LEMMA RaiseBound ==
  ASSUME TypeOK, NEW a \in Nat, NEW b \in Nat, a <= b, MintsBelow(a)
  PROVE  MintsBelow(b)
BY NonceTypes DEF MintsBelow

LEMMA MintsUnchanged ==
  ASSUME processed' = processed
  PROVE  MintsRise' = MintsRise /\ \A bound : MintsBelow(bound)' = MintsBelow(bound)
BY DEF MintsRise, MintsBelow, IsMint

-----------------------------------------------------------------------------
(* A step outside the mints pushes nothing or a transaction of a user.     *)
LEMMA UserStep ==
  ASSUME NonceInv, ExecuteTransaction \/ ExecuteTransact
  PROVE  NonceInv'
<1>1. /\ UNCHANGED <<phase, extracts, mintVars>>
      /\ phase \in {"transactions", "transacts"}
      /\ at'["enter"] = at["enter"] /\ at'["enterToken"] = at["enterToken"]
  BY DEF ExecuteTransaction, ExecuteTransact, Take, NonceInv, TypeOK, Sort
<1>2. TypeOK'
  BY ExecuteTransactionType, ExecuteTransactType DEF NonceInv
<1>3. processed' = processed \/ \E gas : Push("user", 0, gas)
  <2>1. CASE ExecuteTransaction
    BY <2>1 DEF ExecuteTransaction, CheckFillsAndAccept, blockVars
  <2>2. CASE ExecuteTransact
    BY <2>2 DEF ExecuteTransact, CheckFillsAndAccept, blockVars
  <2> QED
    BY <2>1, <2>2
<1>4. /\ MintsRise'
      /\ \A bound \in Nat : MintsBelow(bound) => MintsBelow(bound)'
  BY <1>3, PushUser, MintsUnchanged DEF NonceInv
<1>5. minterNonce \in Nat /\ minterNonce' = minterNonce
  BY <1>1 DEF NonceInv, TypeOK, mintVars
<1> QED
  BY <1>1, <1>2, <1>4, <1>5 DEF NonceInv

(* A mint takes the next nonce, or is discarded and leaves a gap.          *)
LEMMA MintStep ==
  ASSUME NonceInv, MintEnter \/ MintEnterToken \/ MintNative
  PROVE  NonceInv'
<1>1. /\ phase = "mints" /\ UNCHANGED <<phase, extracts, mintBase>>
      /\ mintBase \in Nat /\ at \in [Sort -> Nat] /\ extracts \in [Sort -> Nat]
      /\ at["enter"] \in Nat /\ at["enterToken"] \in Nat
      /\ extracts["enter"] \in Nat /\ extracts["enterToken"] \in Nat
      /\ MintsBelow(mintBase + Minted) /\ MintsRise
      /\ at["enter"] <= extracts["enter"] /\ at["enterToken"] <= extracts["enterToken"]
  BY DEF NonceInv, TypeOK, MintEnter, MintEnterToken, MintNative, MintToken, mintVars, Sort
<1>2. TypeOK'
  BY MintsType DEF NonceInv
<1>3. mintBase + Minted \in Nat /\ Minted' = Minted + 1
  <2>1. mintBase + Minted \in Nat
    BY <1>1 DEF Minted
  <2>2. CASE MintEnter
    BY <1>1, <2>2 DEF MintEnter, Take, Minted, Sort
  <2>3. CASE MintEnterToken \/ MintNative
    BY <1>1, <2>3 DEF MintEnterToken, MintNative, Take, Minted, Sort
  <2> QED
    BY <2>1, <2>2, <2>3
<1>4. /\ at'["enter"] <= extracts["enter"] /\ at'["enterToken"] <= extracts["enterToken"]
      /\ at'["enterToken"] > 0 => at'["enter"] = extracts["enter"]
  <2>1. CASE MintEnter
    BY <1>1, <2>1 DEF NonceInv, MintEnter, Take, Sort, Pending
  <2>2. CASE MintEnterToken \/ MintNative
    BY <1>1, <2>2 DEF NonceInv, MintEnterToken, MintNative, Take, Sort, Pending
  <2> QED
    BY <2>1, <2>2
<1> PICK nonce \in Nat : nonce = mintBase + Minted
  BY <1>3
<1>5. processed' = processed \/ \E gas \in Nat : Push("minter", nonce, gas)
  <2>1. CASE MintEnter
    <3>1. at["enterToken"] = 0
      BY <1>1, <2>1 DEF NonceInv, MintEnter, Pending
    <3>2. mintBase + at["enter"] = nonce
      BY <1>1, <3>1 DEF Minted
    <3> QED
      BY <2>1, <3>2, DriverAssumption DEF MintEnter, MintToken, blockVars
  <2>2. CASE MintEnterToken \/ MintNative
    <3>1. at["enter"] = extracts["enter"]
      BY <1>1, <2>2 DEF MintEnterToken, MintNative, Pending
    <3>2. EnterTokenNonce = nonce
      BY <1>1, <3>1 DEF Minted, EnterTokenNonce
    <3> QED
      BY <2>2, <3>2, DriverAssumption DEF MintEnterToken, MintNative, MintToken, blockVars
  <2> QED
    BY <2>1, <2>2
<1>6. MintsRise' /\ MintsBelow(nonce + 1)'
  <2>1. CASE processed' = processed
    <3>1. MintsBelow(nonce + 1)
      BY <1>1, <1>3, RaiseBound DEF NonceInv
    <3> QED
      BY <1>1, <2>1, <3>1, MintsUnchanged DEF MintsBelow, IsMint
  <2>2. ASSUME NEW gas \in Nat, Push("minter", nonce, gas)
        PROVE  MintsRise' /\ MintsBelow(nonce + 1)'
    BY <1>1, <1>3, <2>2, PushMint DEF NonceInv
  <2> QED
    BY <1>5, <2>1, <2>2
<1>7. MintsBelow(mintBase + Minted)'
  <2>1. nonce + 1 = mintBase' + Minted'
    <3>1. Minted \in Nat
      BY <1>1 DEF Minted
    <3> QED
      BY <1>1, <1>3, <3>1
  <2>2. MintsBelow(nonce + 1)'
    BY <1>6
  <2> QED
    BY <2>1, <2>2 DEF MintsBelow, IsMint
<1> QED
  BY <1>1, <1>2, <1>4, <1>6, <1>7 DEF NonceInv

LEMMA PhaseStep ==
  ASSUME NonceInv,
         \/ BeginMints \/ FinishMints \/ FinishTransacts
         \/ ClearRuPassageBalance \/ CreditBaseFee \/ DatabaseError
  PROVE  NonceInv'
<1>1. TypeOK' /\ processed' = processed /\ UNCHANGED <<extracts, at>>
  BY PhasesType DEF NonceInv, BeginMints, FinishMints, FinishTransacts,
       ClearRuPassageBalance, CreditBaseFee, DatabaseError, blockVars
<1>2. MintsRise' /\ Minted' = Minted
  BY <1>1, MintsUnchanged DEF NonceInv, Minted
<1>3. \A bound : MintsBelow(bound)' = MintsBelow(bound)
  BY <1>1, MintsUnchanged
<1>4. /\ at["enter"] \in Nat /\ at["enterToken"] \in Nat /\ mintBase' \in Nat
      /\ extracts["enter"] \in Nat /\ extracts["enterToken"] \in Nat /\ mintBase \in Nat
  BY <1>1 DEF NonceInv, TypeOK, Sort
<1>5. CASE BeginMints
  <2>1. /\ phase = "transactions" /\ phase' = "mints"
        /\ at["enter"] = 0 /\ at["enterToken"] = 0 /\ MintsBelow(0)
    BY <1>5 DEF BeginMints, NonceInv
  <2>2. mintBase' + Minted' \in Nat
    BY <1>2, <1>4 DEF Minted
  <2>3. MintsBelow(mintBase' + Minted')
    BY <2>1, <2>2, RaiseBound DEF NonceInv
  <2>4. MintsBelow(mintBase + Minted)'
    BY <1>1, <2>3 DEF MintsBelow, IsMint
  <2> QED
    BY <1>1, <1>2, <1>4, <2>1, <2>4 DEF NonceInv
<1>6. CASE FinishMints
  <2>1. /\ phase = "mints" /\ phase' = "transacts" /\ MintsBelow(mintBase + Minted)
        /\ minterNonce' = mintBase + extracts["enter"] + extracts["enterToken"]
        /\ at["enter"] = extracts["enter"] /\ at["enterToken"] = extracts["enterToken"]
    BY <1>4, <1>6 DEF FinishMints, NonceInv, Pending
  <2>2. mintBase + Minted = minterNonce'
    BY <1>4, <2>1 DEF Minted
  <2>3. MintsBelow(minterNonce)'
    BY <1>1, <2>1, <2>2 DEF MintsBelow, IsMint
  <2> QED
    BY <1>1, <1>2, <2>1, <2>3 DEF NonceInv
<1>7. CASE FinishTransacts \/ ClearRuPassageBalance \/ CreditBaseFee
  <2>1. /\ phase \notin {"transactions", "mints", "failed"}
        /\ phase' \notin {"transactions", "mints", "failed"}
        /\ minterNonce' = minterNonce
    BY <1>7 DEF FinishTransacts, ClearRuPassageBalance, CreditBaseFee, mintVars
  <2>2. MintsBelow(minterNonce)'
    BY <1>1, <2>1 DEF NonceInv, MintsBelow, IsMint
  <2> QED
    BY <1>1, <1>2, <2>1, <2>2 DEF NonceInv
<1>8. CASE DatabaseError
  BY <1>1, <1>2, <1>8 DEF NonceInv, DatabaseError
<1> QED
  BY <1>5, <1>6, <1>7, <1>8

(* No two mints of a block carry the same nonce, and none carries one the  *)
(* next block could use, however many were discarded or ran without the    *)
(* EVM.                                                                    *)
THEOREM MinterNoncesAreFresh == Spec => []MinterNoncesFresh
<1>1. Init => NonceInv
  <2> SUFFICES ASSUME Init PROVE NonceInv
    OBVIOUS
  <2>1. TypeOK
    BY InitType
  <2> QED
    BY <2>1 DEF Init, NonceInv, MintsRise, MintsBelow, Sort
<1>2. NonceInv /\ [Next]_vars => NonceInv'
  <2> SUFFICES ASSUME NonceInv, [Next]_vars PROVE NonceInv'
    OBVIOUS
  <2>1. CASE UNCHANGED vars
    BY <2>1 DEF vars, NonceInv, TypeOK, MintsRise, MintsBelow, IsMint, Minted
  <2> QED
    BY <2>1, UserStep, MintStep, PhaseStep DEF Next
<1> QED
  BY <1>1, <1>2, NonceInvSuffices, PTL DEF Spec
=============================================================================
