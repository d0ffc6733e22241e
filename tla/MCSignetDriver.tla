--------------------------- MODULE MCSignetDriver ---------------------------
(***************************************************************************)
(* Instances of SignetDriver for TLC: two assets, one on the host chain    *)
(* and one on the rollup, one recipient, and the transactions that fill,   *)
(* order, over-order and self-fill.                                        *)
(***************************************************************************)
EXTENDS SignetDriver

CONSTANTS HostAsset, RollupAsset, User

MCAsset == {HostAsset, RollupAsset}
MCRecipient == {User}

onHost == <<HostAsset, User>>
onRollup == <<RollupAsset, User>>

Only(s, n) == [t \in {s} |-> n]
Both(m, n) == [t \in {onHost, onRollup} |-> IF t = onHost THEN m ELSE n]

MCHostFills == {EmptyMap, Only(onHost, 1), Only(onHost, 2)}
OneHostFill == {Only(onHost, 1)}

(* Orders of one unit on either chain or on both, of two units, and fills  *)
(* on the rollup with and without an order in the same transaction.        *)
PositiveEvents ==
  { NoEvents,
    [fills |-> EmptyMap, orders |-> Only(onHost, 1)],
    [fills |-> EmptyMap, orders |-> Only(onHost, 2)],
    [fills |-> Only(onRollup, 1), orders |-> EmptyMap],
    [fills |-> EmptyMap, orders |-> Both(1, 1)],
    [fills |-> Only(onRollup, 2), orders |-> Only(onRollup, 1)],
    [fills |-> Only(onRollup, 1), orders |-> Both(1, 2)] }

(* A zero-amount output next to a fill.                                    *)
ZeroEvents ==
  PositiveEvents \cup
  { [fills |-> Only(onRollup, 1), orders |-> Only(onHost, 0)],
    [fills |-> EmptyMap, orders |-> Only(onRollup, 1)] }

(* Enough for accounting: accepted once, and rejected with leftovers.       *)
FewEvents ==
  { [fills |-> EmptyMap, orders |-> Only(onHost, 1)],
    [fills |-> Only(onRollup, 1), orders |-> Only(onHost, 0)] }
=============================================================================
