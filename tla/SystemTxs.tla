------------------------------ MODULE SystemTxs ------------------------------
(***************************************************************************)
(* System transactions (crates/evm/src/sys) and the magic signatures they  *)
(* carry (crates/types/src/magic_sig.rs): what the rollup executes for a   *)
(* deposit or a Transact that was extracted from the host chain, the log   *)
(* it leaves, and what a reader of the rollup's block can tell from the    *)
(* signature.  How the block driver runs them is SignetDriver's subject.   *)
(*                                                                         *)
(* A hash is the sequence of its bytes, the most significant first.  The   *)
(* fields of a signature's s value stand for the bytes they are written    *)
(* to.  Gas fits 64 bits and the fee 128: the host contract limits them.   *)
(***************************************************************************)
EXTENDS Extraction

CONSTANTS
  Base,            \* 10: a token of d decimals has Units(d) units
  NativeDecimals   \* ETH_DECIMALS, 18

-----------------------------------------------------------------------------
(* ExtractedEvent::magic_sig.  sender and aliased belong to a Transact.    *)
MagicSig(e, sender, aliased) ==
  [ty |-> e.event.kind, sender |-> sender, aliased |-> aliased,
   txid |-> e.tx.hash, eventIdx |-> e.logIndex]
EnterSig(e) == MagicSig(e, Minter, FALSE)
TransactSig(e, aliased) == MagicSig(e, e.event.sender, aliased)

(* write_into_s: byte 8 is the flag, byte 11 whether the sender is aliased *)
(* and the last twenty the sender; they stay zero but for a Transact.      *)
Zero == "zero"

(* Mutant of WriteIntoS: the byte that documentation calls reserved is     *)
(* left alone.                                                             *)
WriteFlagAndSender(sig) ==
  [flag |-> sig.ty, aliased |-> FALSE,
   sender |-> IF sig.ty = "transact" THEN sig.sender ELSE Zero]

WriteIntoS(sig) ==
  [flag |-> sig.ty,
   aliased |-> sig.ty = "transact" /\ sig.aliased,
   sender |-> IF sig.ty = "transact" THEN sig.sender ELSE Zero]

(* From<MagicSig> for Signature: the hash is read as a big-endian number.  *)
ToSignature(sig) ==
  [r |-> sig.txid, sentinel |-> TRUE, index |-> sig.eventIdx,
   info |-> WriteIntoS(sig)]

(* try_from_signature, an Option.  The hash is written out little-endian.  *)
ReadFromS(info) ==
  [ty |-> info.flag,
   sender |-> IF info.flag = "transact" THEN info.sender ELSE Minter,
   aliased |-> info.flag = "transact" /\ info.aliased]

FromSignature(s) ==
  IF ~s.sentinel \/ s.info.flag \notin {"enter", "enterToken", "transact"} THEN {}
  ELSE LET info == ReadFromS(s.info)
       IN  {[ty |-> info.ty, sender |-> info.sender, aliased |-> info.aliased,
             txid |-> Reverse(s.r), eventIdx |-> s.index]}

(* alias_address adds an offset; the result is nobody's own address.       *)
AliasAddress(address) == <<"alias", address>>

RollupSender(sig) ==
  IF sig.ty # "transact" THEN Minter
  ELSE IF sig.aliased THEN AliasAddress(sig.sender) ELSE sig.sender

-----------------------------------------------------------------------------
(* adjust_decimals.  The product wraps around, the quotient is rounded     *)
(* down, and a token that counts in whole units is taken as it is.         *)

(* U256::pow of ten, which fits a word.                                    *)
Units(decimals) ==
  LET units[n \in 0..decimals] == IF n = 0 THEN 1 ELSE Base * units[n - 1]
  IN  units[decimals]

(* Mutant of AdjustDecimals: the exponents are swapped.                    *)
AdjustOther(amount, decimals, target) ==
  IF decimals < target THEN amount \div Units(target - decimals)
  ELSE (amount * Units(decimals - target)) % Wide

AdjustDecimals(amount, decimals, target) ==
  IF target = 0 \/ decimals = 0 THEN amount
  ELSE IF decimals > target THEN amount \div Units(decimals - target)
  ELSE (amount * Units(target - decimals)) % Wide

(* MintNative, MintToken and TransactSysTx.                                *)
MintNative(e, decimals, nonce) ==
  [kind |-> "MintNative", chainId |-> RollupChainId(e.event), nonce |-> nonce,
   recipient |-> e.event.recipient, token |-> Native,
   amount |-> AdjustDecimals(e.event.amount, decimals, NativeDecimals),
   hostToken |-> e.event.token, magicSig |-> EnterSig(e)]

MintToken(token, hostToken, e, nonce) ==
  [kind |-> "MintToken", chainId |-> RollupChainId(e.event), nonce |-> nonce,
   recipient |-> e.event.recipient, token |-> token, amount |-> e.event.amount,
   hostToken |-> hostToken, magicSig |-> EnterSig(e)]

TransactSysTx(e, aliased) ==
  [kind |-> "TransactSysTx", chainId |-> RollupChainId(e.event),
   to |-> e.event.to, value |-> e.event.value, gas |-> e.event.gas,
   magicSig |-> TransactSig(e, aliased)]

(* evm_sender: who the EVM takes the sender to be.                         *)
EvmSender(t) ==
  IF t.kind = "TransactSysTx" THEN RollupSender(t.magicSig) ELSE Minter

(* make_transaction: what the rollup's block says was executed.  The call  *)
(* of a token mint is its input.                                           *)
MakeTransaction(t) ==
  CASE t.kind = "MintNative" ->
         [to |-> t.recipient, value |-> t.amount, input |-> <<>>,
          signature |-> ToSignature(t.magicSig)]
    [] t.kind = "MintToken" ->
         [to |-> t.token, value |-> 0, input |-> <<t.recipient, t.amount>>,
          signature |-> ToSignature(t.magicSig)]
    [] t.kind = "TransactSysTx" ->
         [to |-> t.to, value |-> t.value, input |-> <<>>,
          signature |-> ToSignature(t.magicSig)]

(* make_sys_log: the log that names the host log it stands for.            *)
MakeSysLog(t) ==
  [txHash |-> t.magicSig.txid, logIndex |-> t.magicSig.eventIdx,
   subject |-> IF t.kind = "TransactSysTx" THEN EvmSender(t) ELSE t.recipient,
   amount |-> IF t.kind = "TransactSysTx" THEN t.value ELSE t.amount]

-----------------------------------------------------------------------------
(* run_mints_inner: an entered token without a USD record needs an address *)
(* on the rollup, or the driver panics.                                    *)
MintPanics(sys, x) ==
  \E e \in ToSet(x.enterTokens) :
    /\ ~IsUsd(sys.host.tokens, e.event.token)
    /\ RollupAddressFromHost(sys, e.event.token) = {}

MintEntered(sys, e, nonce) ==
  IF IsUsd(sys.host.tokens, e.event.token)
  THEN LET record == CHOOSE r \in UsdRecordOf(sys.host.tokens, e.event.token) : TRUE
       IN  MintNative(e, record.decimals, nonce)
  ELSE LET token == CHOOSE a \in RollupAddressFromHost(sys, e.event.token) : TRUE
       IN  MintToken(token, e.event.token, e, nonce)

(* The mints, ETH first, with nonces counted from the minter's.            *)
Mints(sys, x, nonce) ==
  LET enters == [i \in DOMAIN x.enters |->
                   MintToken(sys.rollup.tokens.weth, Native, x.enters[i],
                             nonce + i - 1)]
      tokens == [i \in DOMAIN x.enterTokens |->
                   MintEntered(sys, x.enterTokens[i],
                               nonce + Len(x.enters) + i - 1)]
  IN  enters \o tokens

(* Mutant of Transacts: the accounts that are not to be aliased are.       *)
TransactsAliased(x, toAlias) ==
  [i \in DOMAIN x.transacts |->
     TransactSysTx(x.transacts[i], x.transacts[i].event.sender \notin toAlias)]

(* execute_all_transacts.                                                  *)
Transacts(x, toAlias) ==
  [i \in DOMAIN x.transacts |->
     TransactSysTx(x.transacts[i], x.transacts[i].event.sender \in toAlias)]
=============================================================================
