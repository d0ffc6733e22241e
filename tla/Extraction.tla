----------------------------- MODULE Extraction -----------------------------
(***************************************************************************)
(* Extraction (crates/extract): what a chain of host blocks says to the    *)
(* rollup.  A host block is [number, txs, receipts]; a transaction is      *)
(* [hash, blob], a receipt the sequence of its logs, and a log is the      *)
(* address that emitted it and its event.  An event of a kind the          *)
(* contracts' bindings do not decode has the kind "other".                 *)
(*                                                                         *)
(* Iterators are lazy in the code and read nothing but the chain, so they  *)
(* are sequences here.                                                     *)
(***************************************************************************)
EXTENDS SystemConstants, Lists

CONSTANTS
  Word,   \* 2^64: rollup chain ids are read from the low word
  Wide    \* 2^256: amounts are below Wide

NoFills == [slot \in {} |-> 0]

(* Zenith, Passage and Transactor events name a rollup; rollup_chain_id    *)
(* reads the low 64 bits of it.                                            *)
RollupChainId(event) == event.chain % Word
IsFor(event, kind, chainId) ==
  event.kind = kind /\ RollupChainId(event) = chainId

-----------------------------------------------------------------------------
(* Decoding, with the filter for one rollup: an Option of an event.        *)
DecodeZenith(event, chainId) ==
  IF IsFor(event, "submitted", chainId) THEN {event} ELSE {}

DecodeTransactor(event, chainId) ==
  IF IsFor(event, "transact", chainId) THEN {event} ELSE {}

DecodePassage(event, chainId) ==
  IF IsFor(event, "enter", chainId) \/ IsFor(event, "enterToken", chainId)
  THEN {event} ELSE {}

(* A fill keeps the outputs of the rollup, and is kept when there are none *)
DecodeOrders(event, chainId) ==
  IF event.kind = "filled"
  THEN {[event EXCEPT !.outputs =
           Kept(event.outputs, {i \in DOMAIN event.outputs :
                                  event.outputs[i].chain = chainId})]}
  ELSE {}

(* Mutant of ExtractLog: every log is a deposit, of whatever token.        *)
AnyDeposit(sys, log) == DecodePassage(log.event, sys.rollup.chainId)

ExtractLog(sys, log) ==
  LET id == sys.rollup.chainId
  IN  CASE log.address = sys.host.zenith -> DecodeZenith(log.event, id)
        [] log.address = sys.host.orders -> DecodeOrders(log.event, id)
        [] log.address = sys.host.transactor -> DecodeTransactor(log.event, id)
        [] log.address = sys.host.passage ->
             {e \in DecodePassage(log.event, id) :
                e.kind = "enterToken" => IsHostToken(sys, e.token)}
        [] OTHER -> {}

-----------------------------------------------------------------------------
(* The events of a receipt, each with the index of its log, from zero.     *)
ExtractReceipt(sys, tx, receipt) ==
  LET At(i) == {[tx |-> tx, logIndex |-> i - 1, event |-> e] :
                  e \in ExtractLog(sys, receipt[i])}
  IN  FlattenSeq([i \in 1..Len(receipt) |-> SetToSeq(At(i))])

(* Transactions and receipts are zipped: the longer of them is cut off.    *)
ExtractBlock(sys, block) ==
  FlattenSeq([i \in 1..Min({Len(block.txs), Len(block.receipts)}) |->
                ExtractReceipt(sys, block.txs[i], block.receipts[i])])

(* Mutant of IsExtracted: the block of the deployment is extracted too.    *)
FromDeployment(sys, block) == block.number >= sys.host.deployHeight

IsExtracted(sys, block) == block.number > sys.host.deployHeight

-----------------------------------------------------------------------------
(* AggregateFills::add_raw_fill and add_fill: the outputs are added, on    *)
(* one chain whatever chain they name, and the sums saturate.              *)
FilledIn(context, slot) == IF slot \in DOMAIN context THEN context[slot] ELSE 0
AddRawFill(context, slot, amount) ==
  [s \in DOMAIN context \cup {slot} |->
     IF s = slot THEN Min({FilledIn(context, s) + amount, Wide - 1})
                 ELSE context[s]]
AddFill(context, chainId, fill) ==
  LET Slot(o) == <<chainId, o.token, o.recipient>>
      added[n \in 0..Len(fill.outputs)] ==
        IF n = 0 THEN context
        ELSE AddRawFill(added[n - 1], Slot(fill.outputs[n]), fill.outputs[n].amount)
  IN  added[Len(fill.outputs)]

(* Extracts::new, ingest_event.  Of several submitted blocks the last wins *)
NewExtracts(sys, block, height) ==
  [hostChainId |-> sys.host.chainId, hostBlock |-> block,
   chainId |-> sys.rollup.chainId, ruHeight |-> height,
   submitted |-> {}, enters |-> <<>>, enterTokens |-> <<>>,
   transacts |-> <<>>, context |-> NoFills]

Is(e, kind) == e.event.kind = kind

IngestEvent(x, e) ==
  CASE Is(e, "enter") -> [x EXCEPT !.enters = Append(@, e)]
    [] Is(e, "enterToken") -> [x EXCEPT !.enterTokens = Append(@, e)]
    [] Is(e, "transact") -> [x EXCEPT !.transacts = Append(@, e)]
    [] Is(e, "submitted") -> [x EXCEPT !.submitted = {e}]
    [] Is(e, "filled") ->
         [x EXCEPT !.context = AddFill(@, x.hostChainId, e.event)]

(* The header of the submitted block, an Option: from_block_submitted      *)
(* takes the number of the host block it was found in.                     *)
RuHeader(x) ==
  {[hostBlockNumber |-> x.hostBlock.number, gasLimit |-> s.event.gasLimit,
    rewardAddress |-> s.event.rewardAddress,
    blockDataHash |-> s.event.blockDataHash] : s \in x.submitted}

Ingested(x, events) ==
  LET after[n \in 0..Len(events)] ==
        IF n = 0 THEN x ELSE IngestEvent(after[n - 1], events[n])
  IN  after[Len(events)]

(* Extractor::extract_signet on a sequence of blocks.  A block without an  *)
(* event still gives an Extracts.                                          *)
Extracted(sys, block) ==
  LET height == CHOOSE h \in ToRollupHeight(sys, block.number) : TRUE
  IN  Ingested(NewExtracts(sys, block, height), ExtractBlock(sys, block))

ExtractSignet(sys, blocks) ==
  LET above == Kept(blocks, {i \in DOMAIN blocks : IsExtracted(sys, blocks[i])})
  IN  [i \in DOMAIN above |-> Extracted(sys, above[i])]
=============================================================================
