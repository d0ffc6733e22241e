---------------------------- MODULE RollupChain ----------------------------
(***************************************************************************)
(* The rollup that follows a host chain: every extract is executed on the  *)
(* block before it (SignetDriver's finish and finish_trevm), which gives a *)
(* sealed block and a journal; blocks of the host chain that are reverted  *)
(* take theirs with them.                                                  *)
(*                                                                         *)
(* Which transactions the market discards is SignetDriver's subject: here  *)
(* all are processed, in the order of run_txns, one unit of gas each.      *)
(***************************************************************************)
EXTENDS HostFeed, Headers

CONSTANT RuGenesis   \* [gasLimit, coinbase, alloc, config], the rollup's genesis

(* A genesis activates forks that there are, each at a block or a time.    *)
ASSUME GenesisAssumption ==
  LET config == RuGenesis.config
  IN  /\ \A f \in DOMAIN config.byBlock :
           f \in ToSet(Forks) /\ config.byBlock[f] \in Nat
      /\ \A f \in DOMAIN config.byTime :
           f \in ToSet(Forks) /\ config.byTime[f] \in Nat

VARIABLE rollup   \* the BlockResults of the rollup's blocks

rollupVars == <<feedVars, rollup>>

GenesisForks == ActiveHardforks(RuGenesis.config, 0, 0)

(* The parent of the first block: a header that is not validated.          *)
Genesis == GenesisHeader(RuGenesis, GenesisForks)

-----------------------------------------------------------------------------
(* What is processed and who is taken to have sent it.  A transaction of a *)
(* submitted block is known by its data, and so is its signer.             *)
UserTransaction(data) ==
  [to |-> "anyone", value |-> 0, input |-> <<>>,
   signature |-> [sentinel |-> FALSE, signer |-> data]]

Processed(x) ==
  FlattenSeq([i \in 1..Cardinality(x.submitted) |->
                LET txs == (CHOOSE s \in x.submitted : TRUE).event.blockDataHash
                IN  [j \in DOMAIN txs |-> UserTransaction(txs[j])]])
    \o [i \in DOMAIN Mints(Sys, x, 0) |-> MakeTransaction(Mints(Sys, x, 0)[i])]
    \o [i \in DOMAIN Transacts(x, ToAlias) |->
          MakeTransaction(Transacts(x, ToAlias)[i])]

Senders(x) ==
  FlattenSeq([i \in 1..Cardinality(x.submitted) |->
                (CHOOSE s \in x.submitted : TRUE).event.blockDataHash])
    \o [i \in DOMAIN Mints(Sys, x, 0) |-> EvmSender(Mints(Sys, x, 0)[i])]
    \o [i \in DOMAIN Transacts(x, ToAlias) |-> EvmSender(Transacts(x, ToAlias)[i])]

(* Mutant of FromHeader: what is not submitted is zero.                    *)
FromHeaderOrZero(x, parent, field, submitted) ==
  IF RuHeader(x) = {} THEN DefaultHeader[field]
  ELSE (CHOOSE h \in RuHeader(x) : TRUE)[submitted]

(* beneficiary and gas_limit are those of the submitted block, or else of  *)
(* the parent; base_fee follows the parent's, which may have none.         *)
FromHeader(x, parent, field, submitted) ==
  IF RuHeader(x) = {} THEN parent[field]
  ELSE (CHOOSE h \in RuHeader(x) : TRUE)[submitted]

BaseFee(parent) ==
  IF parent.baseFee = {} THEN InitialBaseFee
  ELSE (CHOOSE fee \in parent.baseFee : TRUE) + 1

(* The time of a host block: they are twelve seconds apart.                *)
HostTime(number) == 12 * number

BaseHeader(x, parent) ==
  [DefaultHeader EXCEPT
     !.parentHash = HashOf(parent), !.number = x.ruHeight,
     !.gasLimit = FromHeader(x, parent, "gasLimit", "gasLimit"),
     !.timestamp = HostTime(x.hostBlock.number),
     !.baseFee = {BaseFee(parent)},
     !.beneficiary = FromHeader(x, parent, "beneficiary", "rewardAddress"),
     !.gasUsed = Len(Processed(x))]

(* construct_header_v1 and construct_header_v2; empty where they panic.    *)
ConstructHeaderV1(x, parent) == HeaderV1(BaseHeader(x, parent))
ConstructHeaderV2(x, parent) ==
  HeaderV2([BaseHeader(x, parent) EXCEPT !.transactionsRoot = Processed(x),
                                         !.receiptsRoot = Processed(x)])

-----------------------------------------------------------------------------
(* SealedBlock::recover_unchecked, which panics if the lengths differ, and *)
(* recover, which refuses the signature of a system transaction, since its *)
(* s is high: an Option.                                                   *)
RecoverUnchecked(header, txs, senders) ==
  IF Len(txs) # Len(senders) THEN {}
  ELSE {[header |-> header,
         txs |-> [i \in DOMAIN txs |-> [tx |-> txs[i], signer |-> senders[i]]]]}

SendersOf(block) == [i \in DOMAIN block.txs |-> block.txs[i].signer]
Recover(block) ==
  IF \E t \in ToSet(block.txs) : t.tx.signature.sentinel THEN {}
  ELSE {[i \in DOMAIN block.txs |-> block.txs[i].tx.signature.signer]}

(* BlockResult, and the journal of it: JournalMeta, with the state of the  *)
(* block left out.                                                         *)
JournalMeta(hostHeight, prevJournalHash, header) ==
  [hostHeight |-> hostHeight, prevJournalHash |-> prevJournalHash,
   header |-> header]
MakeHostJournal(hostHeight, prevJournalHash, header) ==
  [meta |-> JournalMeta(hostHeight, prevJournalHash, header)]
JournalHash(journal) == HashOf(journal)

(* finish and finish_trevm: an Option, empty where they panic.             *)
Finish(x, parent, prevJournalHash) ==
  {[hostHeight |-> x.hostBlock.number, block |-> block,
    journal |-> MakeHostJournal(x.hostBlock.number, prevJournalHash, block.header)] :
     block \in UNION {RecoverUnchecked(h, Processed(x), Senders(x)) :
                        h \in ConstructHeaderV1(x, parent)}}

(* The block that is next on blocks, external: the node executes it; none  *)
(* if the minting of its deposits panics.                                  *)
ExecuteOn(blocks, x) ==
  LET parent == IF blocks = <<>> THEN Genesis ELSE Last(blocks).block.header
      prev == IF blocks = <<>> THEN <<>> ELSE JournalHash(Last(blocks).journal)
  IN  IF MintPanics(Sys, x) THEN blocks
      ELSE blocks \o SetToSeq(Finish(x, parent, prev))

ExecuteAll(blocks, xs) ==
  LET after[n \in 0..Len(xs)] ==
        IF n = 0 THEN blocks ELSE ExecuteOn(after[n - 1], xs[n])
  IN  after[Len(xs)]

RollupInit == FeedInit /\ rollup = <<>>

(* The blocks that are followed after what was kept are executed in order. *)
NotifyRollup ==
  /\ Notify
  /\ LET left == Len(rollup) - Len(notified'.undone)
     IN  rollup' = ExecuteAll(SubSeq(rollup, 1, left),
                              SubSeq(followed', left + 1, Len(followed')))

RollupNext ==
  \/ /\ \/ Enter \/ EnterToken \/ Transact \/ Fill \/ Ignored \/ OtherLog
        \/ SubmitBlock \/ CommitBlock
     /\ UNCHANGED rollup
  \/ NotifyRollup

RollupSpec == RollupInit /\ [][RollupNext]_rollupVars

-----------------------------------------------------------------------------
(* The last block submitted to the host chain up to a height, an Option.   *)
LastSubmitted(i) ==
  LET at == {j \in 2..i + 1 : canonical[j].ruBlock # {}}
  IN  IF at = {} THEN {} ELSE {BlockSubmitted(ru) : ru \in canonical[Max(at)].ruBlock}

(* After any reorganisation the rollup is one chain on its genesis, a      *)
(* block for every host block above the deployment; gas limit and          *)
(* beneficiary are those that were last submitted on this host chain, or   *)
(* the genesis's; and the journals of the blocks are linked as a           *)
(* JournalSet requires them to be.                                         *)
RollupLinked ==
  /\ Len(rollup) = Len(followed)
  /\ \A i \in DOMAIN rollup :
       LET b == rollup[i]
           header == b.block.header
       IN  /\ b.hostHeight = canonical[i + 1].number
           /\ header.number = i
           /\ header.parentHash = HashOf(IF i = 1 THEN Genesis
                                         ELSE rollup[i - 1].block.header)
           /\ b.journal.meta.prevJournalHash =
                IF i = 1 THEN <<>> ELSE JournalHash(rollup[i - 1].journal)
           /\ IF LastSubmitted(i) = {}
              THEN /\ header.gasLimit = RuGenesis.gasLimit
                   /\ header.beneficiary = RuGenesis.coinbase
              ELSE {[gasLimit |-> s.gasLimit, to |-> s.rewardAddress] :
                      s \in LastSubmitted(i)} =
                   {[gasLimit |-> header.gasLimit, to |-> header.beneficiary]}

(* What a reader of the rollup makes of its blocks: senders can be         *)
(* recovered from the signatures of a block without system transactions,   *)
(* and are those it was executed with, and a block with one is refused;    *)
(* the experimental header with roots cannot be made of an empty block;    *)
(* and the two ways to name the newest fork agree, and never go back.      *)
BlocksReadBack ==
  \A i \in DOMAIN rollup :
    LET block == rollup[i].block
        spec == SpecId(ActiveAtHeader(RuGenesis.config, block.header))
        before == IF i = 1 THEN Genesis ELSE rollup[i - 1].block.header
    IN  /\ IF \A e \in ToSet(canonical[i + 1].events) : e.kind = "filled"
           THEN Recover(block) = {SendersOf(block)}
           ELSE Recover(block) = {}
        /\ (ConstructHeaderV2(followed[i], before) = {}) = (block.txs = <<>>)
        /\ BitForSpecId(spec) = LatestHardfork(RuGenesis.config, block.header.number,
                                               block.header.timestamp)
        /\ SpecId(FromSpecId(spec)) = spec
        /\ ActiveAtHeader(RuGenesis.config, before) \ ToSet(Bpos)
             \subseteq FromSpecId(spec)
=============================================================================
