------------------------------ MODULE Preflight ------------------------------
(***************************************************************************)
(* The verdict on an item before it is simulated (SimItem::check and       *)
(* check_bundle_tx_list, crates/sim/src/cache).  Nonces are read one       *)
(* account at a time, from what the build has committed or else from the   *)
(* chain (CachedAsyncSource, env/shared.rs), and the chain goes on between *)
(* two reads.  An item that is never valid is removed and disallowed.      *)
(*                                                                         *)
(* An offer is what a feed has: a transaction, or a bundle that is still   *)
(* encoded.  An Option is a set of at most one value.                      *)
(***************************************************************************)
EXTENDS Integers, Sequences, FiniteSets

CONSTANTS
  Offers,        \* [kind, uuid, txs, hostTxs]
  Signer,        \* the accounts of each chain: "ru" and "host"
  Balances,      \* balances an account may have
  MaxNonce,      \* bound on the nonces of the chains
  MaxVerdicts,   \* bound on the verdicts that are kept in mind
  FeeWord        \* what the 128 bits of a fee can hold, plus one

ASSUME PreflightAssumption ==
  /\ Balances \subseteq Nat /\ FeeWord \in Nat \ {0}
  /\ {MaxNonce, MaxVerdicts} \subseteq Nat

(* A transaction recovers to an account of its chain, and an offer that is *)
(* not a bundle is one transaction.                                        *)
TransactionOn(chain) ==
  [signer : Signer[chain], nonce : Nat, maxFee : Nat, gasLimit : Nat, value : Nat,
   recovers : BOOLEAN]

ASSUME OffersAssumption ==
  /\ Balances # {}
  /\ \A offer \in Offers :
       /\ offer.txs \in Seq(TransactionOn("ru"))
       /\ offer.hostTxs \in Seq(TransactionOn("host"))
       /\ offer.kind = "tx" => Len(offer.txs) = 1 /\ offer.hostTxs = <<>>

VARIABLES
  live,       \* the accounts of the chains: [nonce, balance]
  committed,  \* those the build has touched, in either environment
  check,      \* the check that is running, an Option
  verdicts    \* of this build: <<item, verdict, whether the chains have
              \* moved since the check began>>

preflightVars == <<live, committed, check, verdicts>>

Chains == {"ru", "host"}

-----------------------------------------------------------------------------
(* try_into_recovered and SimItem::try_from: every transaction must decode *)
(* and its signer be recovered, and a bundle has some and an identifier.   *)
ToSimItem(offer) ==
  IF /\ \A i \in DOMAIN offer.txs : offer.txs[i].recovers
     /\ \A i \in DOMAIN offer.hostTxs : offer.hostTxs[i].recovers
     /\ offer.kind = "bundle" => offer.txs # <<>> /\ offer.uuid # {}
  THEN {offer} ELSE {}

(* The balance of a TxRequirement: the fee is multiplied in 128 bits, the  *)
(* value added in 256.                                                     *)
Required(tx) == ((tx.maxFee * tx.gasLimit) % FeeWord) + tx.value

(* CachedAsyncSource::account_details.                                     *)
AccountDetails(chain, signer) ==
  IF signer \in DOMAIN committed[chain] THEN committed[chain][signer]
  ELSE live[chain][signer]

(* check_tx.                                                               *)
CheckTx(tx, account) ==
  CASE account.nonce > tx.nonce -> "never"
    [] account.nonce < tx.nonce -> "future"
    [] account.nonce = tx.nonce ->
         IF account.balance < Required(tx) THEN "future" ELSE "now"

Least(v, w) ==
  CASE "never" \in {v, w} -> "never"
    [] "never" \notin {v, w} /\ "future" \in {v, w} -> "future"
    [] {v, w} = {"now"} -> "now"

-----------------------------------------------------------------------------
Untouched == [chain \in Chains |-> <<>>]

PreflightInit ==
  /\ live = [chain \in Chains |->
               [s \in Signer[chain] |-> [nonce |-> 0, balance |-> CHOOSE b \in Balances : TRUE]]]
  /\ committed = Untouched
  /\ check = {}
  /\ verdicts = {}

(* The verdict that matters: an item that may be valid later is just left. *)
Judged(item, verdict, moved) ==
  verdicts' = IF verdict = "future" THEN verdicts
              ELSE verdicts \cup {<<item, verdict, moved>>}

MayCheck == check = {} /\ Cardinality(verdicts) < MaxVerdicts

(* A transaction needs one read.                                           *)
CheckSingle(offer) ==
  /\ MayCheck
  /\ \E item \in ToSimItem(offer) :
       /\ item.kind = "tx"
       /\ Judged(item, CheckTx(item.txs[1], AccountDetails("ru", item.txs[1].signer)), FALSE)
  /\ UNCHANGED <<live, committed, check>>

Reading(item, chain, rollup, moved) ==
  {[item |-> item, chain |-> chain, rollup |-> rollup, next |-> 1,
    nonces |-> <<>>, moved |-> moved]}

BeginCheck(offer) ==
  /\ MayCheck
  /\ \E item \in ToSimItem(offer) :
       item.kind = "bundle" /\ check' = Reading(item, "ru", "now", FALSE)
  /\ UNCHANGED <<live, committed, verdicts>>

ListOf(c) == IF c.chain = "ru" THEN c.item.txs ELSE c.item.hostTxs

(* The list of a chain is judged: the host's comes after the rollup's.     *)
EndList(c, verdict) ==
  IF c.chain = "ru"
  THEN /\ check' = Reading(c.item, "host", verdict, c.moved)
       /\ UNCHANGED verdicts
  ELSE /\ check' = {}
       /\ Judged(c.item, Least(c.rollup, verdict), c.moved)

(* Mutant of Following: the nonce is read once and not advanced.           *)
SameNonce(nonce) == nonce

(* What the next transaction of a signer must have.                        *)
Following(nonce) == nonce + 1

NextNonce(c, signer) ==
  IF signer \in DOMAIN c.nonces THEN c.nonces[signer]
  ELSE AccountDetails(c.chain, signer).nonce

Cached(nonces, signer, nonce) ==
  [s \in DOMAIN nonces \cup {signer} |->
     IF s = signer THEN Following(nonce) ELSE nonces[s]]

(* One transaction of a list; the balance is checked of the first only.    *)
CheckRequirement ==
  /\ \E c \in check :
       /\ c.next <= Len(ListOf(c))
       /\ LET tx == ListOf(c)[c.next]
              nonce == NextNonce(c, tx.signer)
          IN  IF c.next = 1 /\ Required(tx) > AccountDetails(c.chain, tx.signer).balance
              THEN EndList(c, "future")
              ELSE IF tx.nonce < nonce THEN EndList(c, "never")
              ELSE IF tx.nonce > nonce THEN EndList(c, "future")
              ELSE /\ check' = {[c EXCEPT !.next = @ + 1,
                                         !.nonces = Cached(@, tx.signer, nonce)]}
                   /\ UNCHANGED verdicts
  /\ UNCHANGED <<live, committed>>

EndRequirements ==
  /\ \E c \in check : c.next > Len(ListOf(c)) /\ EndList(c, "now")
  /\ UNCHANGED <<live, committed>>

(* A source fails, and with it the whole read.                             *)
SourceFails ==
  /\ check # {}
  /\ check' = {}
  /\ UNCHANGED <<live, committed, verdicts>>

-----------------------------------------------------------------------------
(* A block of a chain has a transaction of an account, or pays it.         *)
ChainMoves(chain, signer) ==
  /\ \E spent \in {0, 1}, balance \in Balances :
       /\ live[chain][signer].nonce + spent <= MaxNonce
       /\ live' = [live EXCEPT ![chain][signer] =
                     [nonce |-> @.nonce + spent, balance |-> balance]]
  /\ check' = {[c EXCEPT !.moved = TRUE] : c \in check}
  /\ verdicts' = {<<v[1], v[2], TRUE>> : v \in verdicts}
  /\ UNCHANGED committed

Nonces(txs, signer) == {txs[i].nonce : i \in {j \in DOMAIN txs : txs[j].signer = signer}}
SignersOf(txs) == {txs[i].signer : i \in DOMAIN txs}

(* The nonces of a list are in order for its accounts.                     *)
InOrder(txs, accounts) ==
  \A i \in DOMAIN txs :
    txs[i].nonce = accounts[txs[i].signer].nonce
                     + Cardinality({j \in 1..(i - 1) : txs[j].signer = txs[i].signer})

TxsOn(item, chain) == IF chain = "ru" THEN item.txs ELSE item.hostTxs

(* The environment's state, older than the chain where it has no changes.  *)
RanOn(item, chain) ==
  \E older \in [Signer[chain] -> 0..MaxNonce] :
    /\ \A s \in Signer[chain] : older[s] <= live[chain][s].nonce
    /\ InOrder(TxsOn(item, chain),
               [s \in Signer[chain] |-> IF s \in DOMAIN committed[chain]
                                 THEN committed[chain][s] ELSE [nonce |-> older[s]]])

(* An item that was valid is simulated, and its state is committed.        *)
CommitItem ==
  /\ check = {}
  /\ \E v \in verdicts, balance \in Balances :
       /\ v[2] = "now"
       /\ \A chain \in Chains : RanOn(v[1], chain)
       /\ committed' =
            [chain \in Chains |->
               LET txs == TxsOn(v[1], chain)
               IN  [s \in DOMAIN committed[chain] \cup SignersOf(txs) |->
                      IF s \in SignersOf(txs)
                      THEN [nonce |-> 1 + CHOOSE n \in Nonces(txs, s) :
                                            \A m \in Nonces(txs, s) : m <= n,
                            balance |-> balance]
                      ELSE committed[chain][s]]]
  /\ verdicts' = {v \in verdicts : v[2] = "never"}
  /\ UNCHANGED <<live, check>>

(* The next block is built on the chain.  What was judged in this build is *)
(* forgotten here, though the cache still disallows it.                    *)
NextBuild ==
  /\ check = {}
  /\ committed' = Untouched
  /\ verdicts' = {}
  /\ UNCHANGED <<live, check>>

PreflightNext ==
  \/ \E offer \in Offers : CheckSingle(offer) \/ BeginCheck(offer)
  \/ CheckRequirement \/ EndRequirements \/ SourceFails
  \/ \E chain \in Chains : \E s \in Signer[chain] : ChainMoves(chain, s)
  \/ CommitItem \/ NextBuild

PreflightSpec == PreflightInit /\ [][PreflightNext]_preflightVars

-----------------------------------------------------------------------------
RunsOn(item, accounts) == \A chain \in Chains : InOrder(TxsOn(item, chain), accounts[chain])

ToBuildOn == [chain \in Chains |-> [s \in Signer[chain] |-> AccountDetails(chain, s)]]

(* The first transaction can be paid for, if its fee fits its word.        *)
Payable(item, accounts) ==
  LET tx == item.txs[1] IN
  tx.maxFee * tx.gasLimit < FeeWord =>
    tx.maxFee * tx.gasLimit + tx.value <= accounts["ru"][tx.signer].balance

(* An item that was found never to be valid, and is disallowed for it, has *)
(* a nonce that is used up for good, on the chain or in the block that is  *)
(* being built, although its nonces were read at different times.  One     *)
(* that was found valid has its nonces in order on both chains, and can be *)
(* begun, as long as they have not moved.                                  *)
VerdictsHold ==
  \A v \in verdicts :
    /\ v[2] = "never" => ~RunsOn(v[1], live) \/ ~RunsOn(v[1], ToBuildOn)
    /\ v[2] = "now" /\ ~v[3] =>
         RunsOn(v[1], ToBuildOn) /\ Payable(v[1], ToBuildOn)
=============================================================================
