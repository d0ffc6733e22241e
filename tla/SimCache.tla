------------------------------ MODULE SimCache ------------------------------
(***************************************************************************)
(* The simulation cache (crates/sim/src/cache/store.rs): transactions and  *)
(* bundles kept under a rank, written by the feeds and by the simulator    *)
(* through one lock, and read in three steps by read_best_valid: a copy    *)
(* under the read lock, an awaited check of one item after another, and    *)
(* the removal of what can never be valid under the write lock.            *)
(*                                                                         *)
(* An item is a bundle or a transaction; bundles with the same replacement *)
(* UUID have the same identifier.  The block number and the timestamp of   *)
(* clean are one clock here: a bundle is valid from its first to its last  *)
(* tick.  The order in which the LRU of disallowed items forgets is left   *)
(* open.                                                                   *)
(***************************************************************************)
EXTENDS Naturals, FiniteSets

CONSTANTS
  Item,               \* bundles and transactions
  Bundle,             \* those that are bundles
  Id,                 \* SimIdentifier: replacement UUIDs and hashes
  IdOf,               \* identifier of an item
  First, Last,        \* ticks between which a bundle is valid
  MaxRank,            \* bound on the total fee, the u128 rank
  MaxTime,            \* bound on the clock
  Capacity,           \* capacity of the cache
  DisallowedCapacity, \* capacity of the LRU of disallowed items (128)
  ReadLimit           \* n of read_best_valid

ASSUME CacheAssumption ==
  /\ Bundle \subseteq Item
  /\ IdOf \in [Item -> Id]
  /\ First \in [Item -> Nat] /\ Last \in [Item -> Nat]
  /\ MaxRank \in Nat /\ MaxTime \in Nat
  /\ Capacity \in Nat /\ DisallowedCapacity \in Nat /\ ReadLimit \in Nat

VARIABLES
  items,       \* CacheStore.items: from ranks to items
  seen,        \* CacheStore.seen: identifiers
  disallowed,  \* CacheStore.disallowed: identifiers
  adding,      \* a feed holds the write lock in add_txs or add_bundles
  reading,     \* "idle", or "checking" inside read_best_valid
  candidates,  \* copied entries that read has not checked yet
  valid,       \* ranks and items the read found valid
  never,       \* ranks of the items the read found never valid
  condemned,   \* history: identifiers found never valid
  newcomers    \* history: identifiers added since the read began

storeVars == <<items, seen, disallowed>>
readVars == <<reading, candidates, valid, never>>
history == <<condemned, newcomers>>
cacheVars == <<items, seen, disallowed, adding, reading, candidates, valid,
               never, condemned, newcomers>>

Rank == 0..MaxRank
Time == 0..MaxTime
Verdict == {"now", "future", "never"}
NoItems == [r \in {} |-> {}]

Ranks == DOMAIN items
IdsAt(ranks) == {IdOf[items[r]] : r \in ranks}
Without(ranks) == [r \in Ranks \ ranks |-> items[r]]

-----------------------------------------------------------------------------
(* disallowed.put of every identifier of ids.                              *)
Disallow(ids) ==
  LET all == disallowed \cup ids IN
  disallowed' \in {kept \in SUBSET all :
    /\ Cardinality(kept) <= DisallowedCapacity
    /\ Cardinality(all) <= DisallowedCapacity => kept = all
    /\ Cardinality(ids) <= DisallowedCapacity => ids \subseteq kept}

(* The rank an item is stored at: its fee, or the next one below that is   *)
(* free, or zero if there is none.                                         *)
FreeBelow(fee) == {r \in 0..fee : r \notin Ranks}

(* Mutant of FreeRank: the rank is raised until it is free.                *)
RaisedRank(fee) == CHOOSE r \in fee..(fee + Capacity) :
  r \notin Ranks /\ \A q \in fee..(r - 1) : q \in Ranks

FreeRank(fee) ==
  IF FreeBelow(fee) = {} THEN 0
  ELSE CHOOSE r \in FreeBelow(fee) : \A q \in FreeBelow(fee) : q <= r

(* pop_first, when the cache is at capacity.                               *)
Evicted == {r \in Ranks : Cardinality(Ranks) >= Capacity /\ \A q \in Ranks : r <= q}

(* Mutant of Refused: what was seen is not looked up.                      *)
RefusedIfDisallowed(item) == IdOf[item] \in disallowed

(* Mutant of Refused: what is disallowed is not looked up.                 *)
RefusedIfSeen(item) == IdOf[item] \in seen

(* add_inner drops an item that is disallowed, or seen already.            *)
Refused(item) == IdOf[item] \in disallowed \cup seen

(* add_inner: the rank is found before the eviction, and an item already   *)
(* at rank zero is overwritten.                                            *)
AddInner(item, fee) ==
  IF Refused(item)
  THEN UNCHANGED <<storeVars, newcomers>>
  ELSE /\ items' = [r \in (Ranks \ Evicted) \cup {FreeRank(fee)} |->
                      IF r = FreeRank(fee) THEN item ELSE items[r]]
       /\ seen' = (seen \cup {IdOf[item]}) \ IdsAt(Evicted)
       /\ newcomers' = newcomers \cup {IdOf[item]}
       /\ UNCHANGED disallowed

-----------------------------------------------------------------------------
CacheInit ==
  /\ items = NoItems
  /\ seen = {}
  /\ disallowed = {}
  /\ adding = FALSE
  /\ reading = "idle"
  /\ candidates = NoItems
  /\ valid = {}
  /\ never = {}
  /\ condemned = {}
  /\ newcomers = {}

Unlocked == ~adding

(* add_tx, add_bundle and the batches: the lock is taken, items are added  *)
(* one by one (those whose fee is the same at the current base fee contend *)
(* for ranks), and the lock is released.                                   *)
BeginAdd ==
  /\ Unlocked
  /\ adding' = TRUE
  /\ UNCHANGED <<storeVars, readVars, history>>

Add ==
  /\ adding
  /\ \E item \in Item, fee \in Rank : AddInner(item, fee)
  /\ UNCHANGED <<adding, readVars, condemned>>

EndAdd ==
  /\ adding
  /\ adding' = FALSE
  /\ UNCHANGED <<storeVars, readVars, history>>

(* remove: also takes the identifier out of seen; a rank without an item   *)
(* is ignored.                                                             *)
Remove(ranks) ==
  /\ items' = Without(ranks)
  /\ seen' = seen \ IdsAt(Ranks \cap ranks)

(* The public remove and remove_and_disallow.                              *)
RemoveRank(rank) ==
  /\ Unlocked
  /\ Remove({rank})
  /\ UNCHANGED <<disallowed, adding, readVars, history>>

RemoveAndDisallowRank(rank) ==
  /\ Unlocked
  /\ Remove({rank})
  /\ Disallow(IdsAt(Ranks \cap {rank}))
  /\ condemned' = condemned \cup IdsAt(Ranks \cap {rank})
  /\ UNCHANGED <<adding, readVars, newcomers>>

(* clean: the ranks above capacity go first, then the bundles that are not *)
(* valid at the tick; those whose last tick has passed are disallowed.     *)
Trimmed == {r \in Ranks : Cardinality({q \in Ranks : q > r}) >= Capacity}
NotNow(now) ==
  {r \in Ranks \ Trimmed :
     items[r] \in Bundle /\ ~(now \in First[items[r]]..Last[items[r]])}
Expired(now) == {r \in NotNow(now) : now > Last[items[r]]}

Clean(now) ==
  /\ Unlocked
  /\ Remove(Trimmed \cup NotNow(now))
  /\ Disallow(IdsAt(Trimmed \cup Expired(now)))
  /\ condemned' = condemned \cup IdsAt(Trimmed \cup Expired(now))
  /\ UNCHANGED <<adding, readVars, newcomers>>

(* clear: what is disallowed stays disallowed.                             *)
Clear ==
  /\ Unlocked
  /\ items' = NoItems
  /\ seen' = {}
  /\ UNCHANGED <<disallowed, adding, readVars, history>>

-----------------------------------------------------------------------------
(* read_best_valid: the copy of all the entries.                           *)
BeginRead ==
  /\ reading = "idle"
  /\ Unlocked
  /\ reading' = "checking"
  /\ candidates' = items
  /\ valid' = {}
  /\ never' = {}
  /\ newcomers' = {}
  /\ UNCHANGED <<storeVars, adding, condemned>>

Checking == reading = "checking" /\ DOMAIN candidates # {} /\ Cardinality(valid) < ReadLimit

(* Mutant of NeverAfter: items that are not valid yet are removed too.     *)
NotYetIsNever(rank, verdict) == IF verdict # "now" THEN never \cup {rank} ELSE never

NeverAfter(rank, verdict) == IF verdict = "never" THEN never \cup {rank} ELSE never

(* The awaited check of the best entry left.                               *)
CheckEntry(rank, verdict) ==
  /\ Checking
  /\ \A q \in DOMAIN candidates : q <= rank
  /\ candidates' = [r \in DOMAIN candidates \ {rank} |-> candidates[r]]
  /\ valid' = IF verdict = "now"
              THEN valid \cup {<<rank, candidates[rank]>>} ELSE valid
  /\ never' = NeverAfter(rank, verdict)
  /\ condemned' = IF verdict = "never"
                  THEN condemned \cup {IdOf[candidates[rank]]} ELSE condemned
  /\ UNCHANGED <<storeVars, adding, reading, newcomers>>

CheckBest == \E rank \in DOMAIN candidates, verdict \in Verdict : CheckEntry(rank, verdict)

(* A state source that fails ends the read, nothing is removed.            *)
ReadError ==
  /\ Checking
  /\ reading' = "idle"
  /\ candidates' = NoItems
  /\ valid' = {}
  /\ never' = {}
  /\ UNCHANGED <<storeVars, adding, history>>

(* The removal of the never-valid items, by the ranks they had when the    *)
(* entries were copied.                                                    *)
EndRead ==
  /\ reading = "checking"
  /\ ~Checking
  /\ Unlocked
  /\ Remove(never)
  /\ Disallow(IdsAt(Ranks \cap never))
  /\ reading' = "idle"
  /\ candidates' = NoItems
  /\ never' = {}
  /\ UNCHANGED <<adding, valid, history>>

(* What anyone but the simulator does to the cache.                        *)
FeedNext ==
  \/ BeginAdd
  \/ Add
  \/ EndAdd
  \/ \E now \in Time : Clean(now)
  \/ Clear

ReadNext == BeginRead \/ CheckBest \/ ReadError \/ EndRead

CacheNext ==
  \/ FeedNext
  \/ ReadNext
  \/ \E rank \in Rank : RemoveRank(rank) \/ RemoveAndDisallowRank(rank)

CacheSpec == CacheInit /\ [][CacheNext]_cacheVars

-----------------------------------------------------------------------------
Entries == UNION {[S -> Item] : S \in SUBSET Rank}

CacheTypeOK ==
  /\ items \in Entries
  /\ seen \subseteq Id
  /\ disallowed \subseteq Id
  /\ adding \in BOOLEAN
  /\ reading \in {"idle", "checking"}
  /\ candidates \in Entries
  /\ valid \subseteq Rank \X Item
  /\ never \subseteq Rank
  /\ condemned \subseteq Id
  /\ newcomers \subseteq Id

(* Two entries never hold versions of the same bundle or the same          *)
(* transaction twice, and every cached item is known as seen: what         *)
(* add_inner's duplicate check relies on after any mix of additions,       *)
(* evictions, overwritings and removals by rank.                           *)
ItemsAreDistinct ==
  /\ \A r \in Ranks : IdOf[items[r]] \in seen
  /\ \A q, r \in Ranks : IdOf[items[q]] = IdOf[items[r]] => q = r

(* As long as an identifier is disallowed no entry carries it, whichever   *)
(* way it came to be disallowed.                                           *)
DisallowedStayOut == IdsAt(Ranks) \cap disallowed = {}

(* read_best_valid and clean disallow no item that was in the cache before *)
(* the read began, unless that item itself was found never to be valid.    *)
DisallowedWasJudgedOrNew ==
  [][disallowed' \ disallowed \subseteq condemned' \cup newcomers]_cacheVars
=============================================================================
