------------------------------- MODULE Market -------------------------------
(***************************************************************************)
(* The order/fill market of crates/types/src/agg: AggregateFills and the   *)
(* outputs of AggregateOrders, as operators on maps of slots to amounts.   *)
(*                                                                         *)
(* A slot is an asset (a chain id and a token) together with a recipient.  *)
(* The nested HashMap<(u64, Address), HashMap<Address, U256>> becomes one  *)
(* partial function on slots: every entry of the inner map is created      *)
(* together with its outer key, so the outer key is present exactly when   *)
(* some slot of the asset is.  Which error a failing call returns is not   *)
(* modelled, only that it fails and what it leaves behind.                 *)
(***************************************************************************)
EXTENDS Naturals

CONSTANTS
  Asset,      \* (chain id, token) pairs
  Recipient,  \* addresses that receive outputs
  MaxAmount   \* U256::MAX

ASSUME MaxAmountAssumption == MaxAmount \in Nat

Slot == Asset \X Recipient
Amount == 0..MaxAmount

(* AggregateFills, and the outputs of AggregateOrders.                     *)
SlotMap == UNION {[S -> Amount] : S \in SUBSET Slot}
EmptyMap == [s \in {} |-> 0]

(* Mutant of SatAdd: an addition that is not capped.                       *)
UncappedAdd(a, b) == a + b

SatAdd(a, b) == IF a + b > MaxAmount THEN MaxAmount ELSE a + b

-----------------------------------------------------------------------------
(* AggregateFills::filled: an absent entry reads as zero.                  *)
Filled(ctx, s) == IF s \in DOMAIN ctx THEN ctx[s] ELSE 0

(* absorb: every entry of other is added, the missing ones are created     *)
(* (also those whose amount is zero).                                      *)
Absorb(ctx, other) ==
  [s \in DOMAIN ctx \cup DOMAIN other |->
     SatAdd(Filled(ctx, s), Filled(other, s))]

-----------------------------------------------------------------------------
(* CombinedContext::check_aggregate behind check_ru_tx_events: only the    *)
(* balances are compared; an asset or a recipient without an entry counts  *)
(* as zero.                                                                *)
CheckRuTxEvents(ctx, fills, orders) ==
  \A s \in DOMAIN orders :
    orders[s] <= SatAdd(Filled(ctx, s), Filled(fills, s))

(* The entries unchecked_remove_aggregate cannot deduct: the asset or the  *)
(* recipient has no entry, or checked_sub underflows.                      *)
Shortfall(ctx, orders) ==
  {s \in DOMAIN orders : s \notin DOMAIN ctx \/ ctx[s] < orders[s]}

(* Mutant of Deduct: an accepted order leaves the balance as it was.       *)
KeepSpent(ctx, orders, done) == ctx

Deduct(ctx, orders, done) ==
  [s \in DOMAIN ctx |-> IF s \in done THEN ctx[s] - orders[s] ELSE ctx[s]]

(* The sets of entries that unchecked_remove_aggregate may have deducted   *)
(* when it meets the first entry it cannot deduct.  The iteration order of *)
(* a HashMap is arbitrary, but the recipients of one asset come together.  *)
DeductedBeforeError(ctx, orders) ==
  {done \in SUBSET (DOMAIN orders \ Shortfall(ctx, orders)) :
     \E bad \in Shortfall(ctx, orders) :
       \A s \in DOMAIN orders \ done :
         s[1] # bad[1] => \A t \in done : t[1] # s[1]}

(* unchecked_remove_aggregate: the possible results, each with the context *)
(* it leaves.                                                              *)
UncheckedRemove(ctx, orders) ==
  IF Shortfall(ctx, orders) = {}
  THEN {[ok |-> TRUE, ctx |-> Deduct(ctx, orders, DOMAIN orders)]}
  ELSE {[ok |-> FALSE, ctx |-> Deduct(ctx, orders, done)] :
          done \in DeductedBeforeError(ctx, orders)}

(* Mutant of CheckedRemove: the fills are absorbed before the check.       *)
AbsorbFirst(ctx, fills, orders) ==
  IF CheckRuTxEvents(ctx, fills, orders)
  THEN UncheckedRemove(Absorb(ctx, fills), orders)
  ELSE {[ok |-> FALSE, ctx |-> Absorb(ctx, fills)]}

(* Mutant of CheckedRemove: the orders are deducted without the check.     *)
RemoveAnyway(ctx, fills, orders) ==
  {[ok |-> TRUE, ctx |-> Deduct(Absorb(ctx, fills), orders, DOMAIN orders)]}

(* checked_remove_ru_tx_events: check, absorb the fills, deduct the orders *)
CheckedRemove(ctx, fills, orders) ==
  IF CheckRuTxEvents(ctx, fills, orders)
  THEN UncheckedRemove(Absorb(ctx, fills), orders)
  ELSE {[ok |-> FALSE, ctx |-> ctx]}

=============================================================================
