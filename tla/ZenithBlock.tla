----------------------------- MODULE ZenithBlock -----------------------------
(***************************************************************************)
(* The data of a block, from the builder that encodes it (BuiltBlock,      *)
(* crates/sim/src/built.rs) to the nodes that read it from calldata or a   *)
(* blob (ZenithBlock, crates/zenith/src/block.rs).  Both keep the encoding *)
(* and its hash from the first time they are asked for until the           *)
(* transactions change.                                                    *)
(*                                                                         *)
(* Data is a list of items, or it is no RLP list; an item is a transaction *)
(* or cannot be decoded.  A hash is known by what it is of, and a header   *)
(* by its host block number and data hash.  An Option is a set of at most  *)
(* one value.                                                              *)
(***************************************************************************)
EXTENDS Naturals, Sequences

CONSTANTS
  Plain,         \* transactions that both encode and decode
  Blob,          \* transactions of EIP-4844, which only encode
  Foreign,       \* data that did not come from this builder
  MaxBlockTxs    \* bound on the transactions of a block

ASSUME DataAssumption == \A data \in Foreign : Len(data.items) \in Nat

VARIABLES
  built,       \* the builder's block
  published,   \* what of it was submitted, an Option
  held,        \* a reader's block, an Option
  other        \* a clone of it, or one that went through serde, an Option

dataVars == <<built, published, held, other>>

-----------------------------------------------------------------------------
Keccak(data) == [keccak |-> data]

(* encode_txns.                                                            *)
EncodeTxns(txs) == [list |-> TRUE, items |-> txs]

(* decode_2718, as what it adds to the list.                               *)
Decoded(tx) == IF tx \in Plain THEN <<tx>> ELSE <<>>

(* What can be decoded, of the first n and then of all of them.            *)
Decodable(txs) ==
  LET first[n \in 0..Len(txs)] ==
        IF n = 0 THEN <<>> ELSE first[n - 1] \o Decoded(txs[n])
  IN  first[Len(txs)]

(* decode_txns: what is no list is empty, and what is no transaction, or   *)
(* one with blobs, is left out.                                            *)
DecodeTxns(data) == IF data.list THEN Decodable(data.items) ELSE <<>>

Memoized(memo, value) == IF memo = {} THEN {value} ELSE memo

(* seal, of either block.                                                  *)
Seal(block) ==
  LET encoded == Memoized(block.encoded, EncodeTxns(block.txs))
  IN  [block EXCEPT !.encoded = encoded,
                    !.hash = UNION {Memoized(block.hash, Keccak(data)) : data \in encoded}]

(* Mutant of Unseal: the hash stays.                                       *)
UnsealEncoding(block) == [block EXCEPT !.encoded = {}]

(* unseal, of either block.                                                *)
Unseal(block) == [block EXCEPT !.encoded = {}, !.hash = {}]

NoHeader == [hostBlockNumber |-> 0, blockDataHash |-> Keccak(EncodeTxns(<<>>))]

New(header, txs) == [header |-> header, txs |-> txs, encoded |-> {}, hash |-> {}]

FromHeaderAndData(header, data) ==
  [header |-> header, txs |-> DecodeTxns(data), encoded |-> {data},
   hash |-> {Keccak(data)}]

(* Serialize and Deserialize: the encoding is skipped, the hash is kept.   *)
Reserialized(block) == [block EXCEPT !.encoded = {}]

(* PartialEq: by the hashes, if both are known.                            *)
SameBlock(a, b) ==
  IF a.hash # {} /\ b.hash # {} THEN a.hash = b.hash
  ELSE a.header = b.header /\ a.txs = b.txs

-----------------------------------------------------------------------------
DataInit ==
  /\ built = New(NoHeader, <<>>)
  /\ published = {} /\ held = {} /\ other = {}

(* BuiltBlock::ingest_tx and ingest_bundle.                                *)
Ingest(tx) ==
  /\ held = {}
  /\ Len(built.txs) < MaxBlockTxs
  /\ built' = [Unseal(built) EXCEPT !.txs = Append(@, tx)]
  /\ UNCHANGED <<published, held, other>>

(* contents_hash, encode_calldata and encode_blob, at any time.            *)
SealBuilt ==
  /\ held = {}
  /\ built' = Seal(built)
  /\ UNCHANGED <<published, held, other>>

(* The block is submitted with its hash, and a reader gets the data.       *)
Publish ==
  /\ held = {}
  /\ built' = Seal(built)
  /\ \E data \in built'.encoded, hash \in built'.hash :
       LET header == [hostBlockNumber |-> 1, blockDataHash |-> hash]
       IN  /\ published' = {[txs |-> built.txs, header |-> header, data |-> data]}
           /\ held' = {FromHeaderAndData(header, data)}
  /\ UNCHANGED other

(* A reader gets another block: from data, or from its transactions.       *)
ReadForeign(data) ==
  LET header == [hostBlockNumber |-> 1, blockDataHash |-> Keccak(data)]
  IN  /\ held = {} /\ built.txs = <<>>
      /\ held' \in {{FromHeaderAndData(header, data)},
                    {New(header, DecodeTxns(data))}}
      /\ UNCHANGED <<built, published, other>>

Copy ==
  /\ \E block \in held : other' \in {{block}, {Reserialized(block)}}
  /\ UNCHANGED <<built, published, held>>

(* push_transaction, transactions_mut and transactions_iter_mut.           *)
EditTransactions ==
  /\ \E block \in held :
       \/ \E tx \in Plain \cup Blob :
            /\ Len(block.txs) < MaxBlockTxs
            /\ held' = {[Unseal(block) EXCEPT !.txs = Append(@, tx)]}
       \/ \E i \in DOMAIN block.txs, tx \in Plain \cup Blob :
            held' = {[Unseal(block) EXCEPT !.txs[i] = tx]}
       \/ held' = {[Unseal(block) EXCEPT !.txs = <<>>]}
  /\ UNCHANGED <<built, published, other>>

(* header_mut: what is kept of the data stays.                             *)
EditHeader ==
  /\ \E block \in held : held' = {[block EXCEPT !.header.hostBlockNumber = 2]}
  /\ UNCHANGED <<built, published, other>>

(* encoded_txns and block_data_hash.                                       *)
SealHeld ==
  /\ \E block \in held : held' = {Seal(block)}
  /\ UNCHANGED <<built, published, other>>

DataNext ==
  \/ \E tx \in Plain \cup Blob : Ingest(tx)
  \/ SealBuilt \/ Publish
  \/ \E data \in Foreign : ReadForeign(data)
  \/ Copy \/ EditTransactions \/ EditHeader \/ SealHeld

DataSpec == DataInit /\ [][DataNext]_dataVars

-----------------------------------------------------------------------------
IsOf(data, block) == DecodeTxns(data) = Decodable(block.txs)

(* However often the parts of a block are asked for while it is built,     *)
(* what is published decodes to the built transactions, but those with     *)
(* blobs, and has the hash in the header.  What a reader keeps of the data *)
(* is of the transactions it holds, after any edits, copies and junk; and  *)
(* blocks that are equal hold the same transactions.                       *)
DataReadsBack ==
  /\ \A p \in published :
       /\ IsOf(p.data, p)
       /\ p.header.blockDataHash = Keccak(p.data)
  /\ \A block \in {built} \cup held \cup other :
       /\ \A data \in block.encoded : IsOf(data, block)
       /\ \A hash \in block.hash : IsOf(hash.keccak, block)
  /\ \A a \in held, b \in other :
       SameBlock(a, b) => Decodable(a.txs) = Decodable(b.txs)
=============================================================================
