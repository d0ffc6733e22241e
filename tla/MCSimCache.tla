----------------------------- MODULE MCSimCache -----------------------------
(***************************************************************************)
(* Instances of SimCache and Preflight, which gives the cache its verdicts *)
(* but shares no state with it: each behaviour has one of them move.       *)
(*                                                                         *)
(* SimCache: a bundle for the first tick, its replacement for the second   *)
(* one under the same UUID, and two transactions, each its own identifier. *)
(* Preflight: a transaction, one whose fee does not fit its word, and      *)
(* bundles of several signers, of one that comes twice, and that are not   *)
(* recovered.                                                              *)
(***************************************************************************)
EXTENDS SimCache, Preflight, TLC

CONSTANTS older, newer, tx1, tx2, uuid

MCItem == {older, newer, tx1, tx2}
MCBundle == {older, newer}
MCId == {uuid, tx1, tx2}
MCIdOf == [i \in MCItem |-> IF i \in MCBundle THEN uuid ELSE i]
MCFirst == [i \in MCItem |-> IF i = newer THEN 1 ELSE 0]
MCLast == MCFirst

transactions == Permutations({tx1, tx2})

-----------------------------------------------------------------------------
Signed(signer, nonce, maxFee) ==
  [signer |-> signer, nonce |-> nonce, maxFee |-> maxFee, gasLimit |-> 1,
   value |-> 1, recovers |-> TRUE]
Unsigned == [Signed("bob", 0, 0) EXCEPT !.recovers = FALSE]

Offer(kind, uuids, txs, hostTxs) ==
  [kind |-> kind, uuid |-> uuids, txs |-> txs, hostTxs |-> hostTxs]

MCOffers ==
  { Offer("tx", {}, <<Signed("alice", 0, 1)>>, <<>>),
    Offer("tx", {}, <<Signed("alice", 1, 4)>>, <<>>),
    Offer("bundle", {"b1"}, <<Signed("alice", 0, 0), Signed("alice", 1, 4)>>,
          <<Signed("bob", 0, 0)>>),
    Offer("bundle", {"b2"}, <<Signed("alice", 0, 1), Signed("bob", 1, 4)>>, <<>>),
    Offer("bundle", {"b3"}, <<Signed("bob", 1, 0), Signed("alice", 1, 0)>>,
          <<Signed("bob", 0, 0), Signed("bob", 0, 0)>>),
    Offer("bundle", {}, <<Signed("bob", 0, 0)>>, <<>>),
    Offer("bundle", {"b4"}, <<>>, <<Signed("bob", 0, 0)>>),
    Offer("bundle", {"b5"}, <<Signed("bob", 0, 0)>>, <<Unsigned>>) }

MCSigner == [ru |-> {"alice", "bob"}, host |-> {"bob"}]

-----------------------------------------------------------------------------
VARIABLE part   \* which of them moves

allVars == <<cacheVars, preflightVars, part>>

MCInit == CacheInit /\ PreflightInit /\ part \in {"cache", "preflight"}

Cache(A) == part = "cache" /\ A /\ UNCHANGED <<preflightVars, part>>
Judge(A) == part = "preflight" /\ A /\ UNCHANGED <<cacheVars, part>>

MCSpec == MCInit /\ [][Cache(CacheNext) \/ Judge(PreflightNext)]_allVars
=============================================================================
