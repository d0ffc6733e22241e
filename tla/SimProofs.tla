------------------------------ MODULE SimProofs ------------------------------
(***************************************************************************)
(* Proofs about crates/sim.                                                *)
(*                                                                         *)
(* The cache: no two entries share an identifier, every entry's is known   *)
(* as seen, none is disallowed, and a read disallows only what it judged   *)
(* or what came while it ran, for any items, ranks and capacity and any    *)
(* interleaving of feeds, reads and removals.                              *)
(*                                                                         *)
(* Block building: gas, what is included and how often, for any items,     *)
(* gas, scores and number of rounds, wherever the deadline falls.  What    *)
(* depends on the feeds says so.                                           *)
(*                                                                         *)
(* The verdicts on items: whatever the two chains do between the reads of  *)
(* a check, an item that is disallowed has a nonce that is used up for     *)
(* good, and one that is found valid has its nonces in order.              *)
(***************************************************************************)
EXTENDS SimRound, Preflight, FiniteSetTheorems, WellFoundedInduction, TLAPS

(* The least element of a set of naturals, from their well-foundedness.    *)
Less == OpToRel(<, Nat)

LEMMA LeastNatural ==
  ASSUME NEW T \in SUBSET Nat, T # {}
  PROVE  \E x \in T : \A y \in T : x <= y
<1>1. IsWellFoundedOn(Less, Nat)
  BY NatLessThanWellFounded DEF OpToRel, Less
<1>2. \A x, y \in Nat : y < x => <<y, x>> \in Less
  BY DEF OpToRel, Less
<1>3. PICK x \in T : \A y \in T : ~(<<y, x>> \in Less)
  BY <1>1, WFMin
<1>4. ASSUME NEW y \in T PROVE x <= y
  <2>1. x \in Nat /\ y \in Nat /\ ~(y < x)
    BY <1>2, <1>3
  <2> QED
    BY <2>1
<1> QED
  BY <1>4

LEMMA GreatestNatural ==
  ASSUME NEW T \in SUBSET Nat, T # {}, NEW bound \in Nat, \A x \in T : x <= bound
  PROVE  \E x \in T : \A y \in T : y <= x
<1> DEFINE gaps == {bound - x : x \in T}
<1>1. \A y \in T : y \in Nat /\ bound - y \in Nat
  OBVIOUS
<1>2. gaps \in SUBSET Nat /\ gaps # {}
  BY <1>1
<1>3. PICK gap \in gaps : \A other \in gaps : gap <= other
  BY <1>2, LeastNatural
<1>4. PICK x \in T : gap = bound - x
  OBVIOUS
<1>5. \A y \in T : bound - x <= bound - y
  BY <1>3, <1>4
<1> QED
  BY <1>1, <1>4, <1>5
-----------------------------------------------------------------------------
(* The cache.                                                              *)
IInv == ItemsAreDistinct /\ DisallowedStayOut

(* Removing ranks leaves the other entries as they were.                   *)
LEMMA RemoveEntries ==
  ASSUME NEW ranks, Remove(ranks)
  PROVE  /\ Ranks' = Ranks \ ranks
         /\ \A r \in Ranks' : items'[r] = items[r]
         /\ seen' = seen \ IdsAt(Ranks \cap ranks)
BY DEF Remove, Without, Ranks

(* The entries left after a removal are distinct, and do not carry an      *)
(* identifier that was removed.                                            *)
LEMMA RemoveDistinct ==
  ASSUME ItemsAreDistinct, NEW ranks, Remove(ranks)
  PROVE  /\ ItemsAreDistinct'
         /\ \A r \in Ranks' : IdOf[items'[r]] \notin IdsAt(Ranks \cap ranks)
         /\ IdsAt(Ranks)' \subseteq IdsAt(Ranks)
<1>1. /\ Ranks' = Ranks \ ranks
      /\ \A r \in Ranks' : items'[r] = items[r]
      /\ seen' = seen \ IdsAt(Ranks \cap ranks)
  BY RemoveEntries
<1>2. \A q, r \in Ranks : IdOf[items[q]] = IdOf[items[r]] => q = r
  BY DEF ItemsAreDistinct
<1>3. ASSUME NEW r \in Ranks'
      PROVE  IdOf[items'[r]] \notin IdsAt(Ranks \cap ranks)
  <2>1. r \in Ranks /\ r \notin ranks /\ items'[r] = items[r]
    BY <1>1
  <2> QED
    BY <1>2, <2>1 DEF IdsAt
<1>4. \A r \in Ranks' : IdOf[items'[r]] \in seen'
  BY <1>1, <1>3 DEF ItemsAreDistinct
<1>5. \A q, r \in Ranks' : IdOf[items'[q]] = IdOf[items'[r]] => q = r
  BY <1>1, <1>2
<1>6. ItemsAreDistinct'
  BY <1>4, <1>5 DEF ItemsAreDistinct
<1>7. IdsAt(Ranks)' \subseteq IdsAt(Ranks)
  BY <1>1 DEF IdsAt
<1> QED
  BY <1>3, <1>6, <1>7

(* The LRU holds no identifier that was not put into it.                   *)
LEMMA DisallowAdds ==
  ASSUME NEW ids, Disallow(ids)
  PROVE  disallowed' \subseteq disallowed \cup ids
BY DEF Disallow

(* A removal that disallows only identifiers it removes keeps the          *)
(* invariant, whatever it removes besides.                                 *)
LEMMA RemoveAndDisallow ==
  ASSUME IInv, NEW ranks, NEW out \in SUBSET ranks, Remove(ranks),
         disallowed' \subseteq disallowed \cup IdsAt(Ranks \cap out)
  PROVE  IInv'
<1>1. /\ ItemsAreDistinct'
      /\ \A r \in Ranks' : IdOf[items'[r]] \notin IdsAt(Ranks \cap ranks)
      /\ IdsAt(Ranks)' \subseteq IdsAt(Ranks)
  BY RemoveDistinct DEF IInv
<1>2. IdsAt(Ranks \cap out) \subseteq IdsAt(Ranks \cap ranks)
  BY DEF IdsAt
<1>3. ASSUME NEW r \in Ranks'
      PROVE  IdOf[items'[r]] \notin disallowed'
  <2>1. IdOf[items'[r]] \in IdsAt(Ranks)'
    BY DEF IdsAt
  <2>2. IdOf[items'[r]] \notin disallowed
    BY <1>1, <2>1 DEF IInv, DisallowedStayOut
  <2> QED
    BY <1>1, <1>2, <2>2
<1>4. DisallowedStayOut'
  BY <1>3 DEF DisallowedStayOut, IdsAt
<1> QED
  BY <1>1, <1>4 DEF IInv

(* Clearing the cache, and leaving it alone, keep the invariant.           *)
LEMMA ClearDistinct ==
  ASSUME IInv, items' = NoItems, UNCHANGED disallowed
  PROVE  IInv'
BY DEF IInv, ItemsAreDistinct, DisallowedStayOut, IdsAt, Ranks, NoItems

LEMMA StoreUnchanged ==
  ASSUME IInv, UNCHANGED storeVars
  PROVE  IInv'
BY DEF IInv, ItemsAreDistinct, DisallowedStayOut, IdsAt, Ranks, storeVars

(* add_inner keeps the invariant: the new identifier was not seen, so no   *)
(* entry carries it, and what is evicted or overwritten only leaves.       *)
LEMMA AddDistinct ==
  ASSUME IInv, NEW item, NEW fee, AddInner(item, fee)
  PROVE  IInv'
<1> DEFINE rank == FreeRank(fee)
           id == IdOf[item]
<1>1. CASE Refused(item)
  BY <1>1, StoreUnchanged DEF AddInner
<1>2. CASE ~Refused(item)
  <2>1. /\ items' = [r \in (Ranks \ Evicted) \cup {rank} |->
                       IF r = rank THEN item ELSE items[r]]
        /\ seen' = (seen \cup {id}) \ IdsAt(Evicted)
        /\ disallowed' = disallowed
        /\ id \notin seen /\ id \notin disallowed
    BY <1>2 DEF AddInner, Refused
  <2> HIDE DEF rank
  <2>2. /\ Ranks' = (Ranks \ Evicted) \cup {rank}
        /\ items'[rank] = item
        /\ \A r \in Ranks' \ {rank} : items'[r] = items[r] /\ r \in Ranks /\ r \notin Evicted
    BY <2>1 DEF Ranks
  <2>3. /\ \A r \in Ranks : IdOf[items[r]] \in seen
        /\ \A q, r \in Ranks : IdOf[items[q]] = IdOf[items[r]] => q = r
        /\ \A r \in Ranks : IdOf[items[r]] \notin disallowed
    BY DEF IInv, ItemsAreDistinct, DisallowedStayOut, IdsAt
  <2>4. Evicted \subseteq Ranks
    BY DEF Evicted
  <2>5. \A r \in Ranks : IdOf[items[r]] # id
    BY <2>1, <2>3
  <2>6. id \notin IdsAt(Evicted)
    BY <2>4, <2>5 DEF IdsAt
  <2>7. \A r \in Ranks' : IdOf[items'[r]] \in seen'
    <3>1. IdOf[items'[rank]] \in seen'
      BY <2>1, <2>2, <2>6
    <3>2. ASSUME NEW r \in Ranks' \ {rank}
          PROVE  IdOf[items'[r]] \in seen'
      <4>1. IdOf[items[r]] \in seen
        BY <2>2, <2>3
      <4>2. IdOf[items[r]] \notin IdsAt(Evicted)
        BY <2>2, <2>3, <2>4 DEF IdsAt
      <4> QED
        BY <2>1, <2>2, <4>1, <4>2
    <3> QED
      BY <3>1, <3>2
  <2>8. \A q, r \in Ranks' : IdOf[items'[q]] = IdOf[items'[r]] => q = r
    BY <2>2, <2>3, <2>5
  <2>9. \A r \in Ranks' : IdOf[items'[r]] \notin disallowed'
    BY <2>1, <2>2, <2>3
  <2> QED
    BY <2>7, <2>8, <2>9 DEF IInv, ItemsAreDistinct, DisallowedStayOut, IdsAt
<1> QED
  BY <1>1, <1>2

-----------------------------------------------------------------------------
LEMMA InitDistinct == CacheInit => IInv
BY DEF CacheInit, IInv, ItemsAreDistinct, DisallowedStayOut, IdsAt, Ranks, NoItems

LEMMA NextDistinct == IInv /\ [CacheNext]_cacheVars => IInv'
<1> SUFFICES ASSUME IInv, [CacheNext]_cacheVars PROVE IInv'
  OBVIOUS
<1>1. CASE BeginAdd \/ EndAdd \/ BeginRead \/ CheckBest \/ ReadError
  <2>1. UNCHANGED storeVars
    BY <1>1 DEF BeginAdd, EndAdd, BeginRead, CheckBest, CheckEntry, ReadError
  <2> QED
    BY <2>1, StoreUnchanged
<1>2. CASE Add
  BY <1>2, AddDistinct DEF Add
<1>3. ASSUME NEW now \in Time, Clean(now)
      PROVE  IInv'
  <2> DEFINE ranks == Trimmed \cup NotNow(now)
             out == Trimmed \cup Expired(now)
  <2>1. Remove(ranks) /\ Disallow(IdsAt(out))
    BY <1>3 DEF Clean
  <2>2. out \in SUBSET ranks /\ out \subseteq Ranks
    BY DEF Expired, NotNow, Trimmed
  <2>3. Ranks \cap out = out
    BY <2>2
  <2>4. disallowed' \subseteq disallowed \cup IdsAt(Ranks \cap out)
    BY <2>1, <2>3, DisallowAdds
  <2> HIDE DEF ranks, out
  <2> QED
    BY <2>1, <2>2, <2>4, RemoveAndDisallow
<1>4. CASE Clear
  BY <1>4, ClearDistinct DEF Clear
<1>5. CASE EndRead
  <2>1. Remove(never) /\ Disallow(IdsAt(Ranks \cap never))
    BY <1>5 DEF EndRead
  <2>2. disallowed' \subseteq disallowed \cup IdsAt(Ranks \cap never)
    BY <2>1, DisallowAdds
  <2> QED
    BY <2>1, <2>2, RemoveAndDisallow
<1>6. ASSUME NEW rank \in Rank, RemoveRank(rank)
      PROVE  IInv'
  <2>1. Remove({rank}) /\ disallowed' = disallowed
    BY <1>6 DEF RemoveRank
  <2> QED
    BY <2>1, RemoveAndDisallow
<1>7. ASSUME NEW rank \in Rank, RemoveAndDisallowRank(rank)
      PROVE  IInv'
  <2>1. Remove({rank}) /\ Disallow(IdsAt(Ranks \cap {rank}))
    BY <1>7 DEF RemoveAndDisallowRank
  <2>2. disallowed' \subseteq disallowed \cup IdsAt(Ranks \cap {rank})
    BY <2>1, DisallowAdds
  <2> QED
    BY <2>1, <2>2, RemoveAndDisallow
<1>8. CASE UNCHANGED cacheVars
  BY <1>8, StoreUnchanged DEF cacheVars, storeVars
<1> QED
  BY <1>1, <1>2, <1>3, <1>4, <1>5, <1>6, <1>7, <1>8
     DEF CacheNext, FeedNext, ReadNext

(* The cache never offers two versions of the same item.                   *)
THEOREM CachedItemsAreDistinct == CacheSpec => []ItemsAreDistinct
<1>1. CacheSpec => []IInv
  BY InitDistinct, NextDistinct, PTL DEF CacheSpec
<1>2. IInv => ItemsAreDistinct
  BY DEF IInv
<1> QED
  BY <1>1, <1>2, PTL

(* The cache never holds an item while its identifier is disallowed.       *)
THEOREM DisallowedItemsStayOut == CacheSpec => []DisallowedStayOut
<1>1. CacheSpec => []IInv
  BY InitDistinct, NextDistinct, PTL DEF CacheSpec
<1>2. IInv => DisallowedStayOut
  BY DEF IInv
<1> QED
  BY <1>1, <1>2, PTL

-----------------------------------------------------------------------------
(* The identifiers a read is about to disallow.  While it runs, an entry   *)
(* it has copied is still the one it copied or has been replaced by a      *)
(* newcomer; one it found never valid was judged or replaced.              *)
JudgedOrNew ==
  /\ \A r \in Ranks \cap DOMAIN candidates :
       items[r] = candidates[r] \/ IdOf[items[r]] \in newcomers
  /\ \A r \in Ranks \cap never : IdOf[items[r]] \in condemned \cup newcomers

(* Entries that only leave, judgements and newcomers that only come.       *)
LEMMA ShrinkKeepsJudged ==
  ASSUME JudgedOrNew, UNCHANGED readVars,
         Ranks' \subseteq Ranks, \A r \in Ranks' : items'[r] = items[r],
         condemned \subseteq condemned', newcomers \subseteq newcomers'
  PROVE  JudgedOrNew'
BY DEF JudgedOrNew, readVars

LEMMA ForgetKeepsJudged ==
  ASSUME candidates' = NoItems, never' = {}
  PROVE  JudgedOrNew'
BY DEF JudgedOrNew, NoItems

LEMMA AddKeepsJudged ==
  ASSUME JudgedOrNew, NEW item, NEW fee, AddInner(item, fee),
         UNCHANGED <<readVars, condemned>>
  PROVE  JudgedOrNew'
<1> DEFINE rank == FreeRank(fee)
<1>1. CASE Refused(item)
  BY <1>1, ShrinkKeepsJudged DEF AddInner, storeVars, Ranks
<1>2. CASE ~Refused(item)
  <2>1. /\ items' = [r \in (Ranks \ Evicted) \cup {rank} |->
                       IF r = rank THEN item ELSE items[r]]
        /\ newcomers' = newcomers \cup {IdOf[item]}
    BY <1>2 DEF AddInner
  <2> HIDE DEF rank
  <2>2. /\ items'[rank] = item
        /\ \A r \in Ranks' \ {rank} : items'[r] = items[r] /\ r \in Ranks
    BY <2>1 DEF Ranks
  <2> QED
    BY <2>1, <2>2 DEF JudgedOrNew, readVars
<1> QED
  BY <1>1, <1>2

LEMMA CheckKeepsJudged ==
  ASSUME JudgedOrNew, CheckBest
  PROVE  JudgedOrNew'
<1> PICK rank \in DOMAIN candidates, verdict \in Verdict : CheckEntry(rank, verdict)
  BY DEF CheckBest
<1>1. /\ items' = items /\ newcomers' = newcomers
      /\ candidates' = [r \in DOMAIN candidates \ {rank} |-> candidates[r]]
      /\ never' \subseteq never \cup {rank}
      /\ condemned \subseteq condemned'
      /\ rank \in never' => rank \in never \/ IdOf[candidates[rank]] \in condemned'
  BY DEF CheckEntry, NeverAfter, storeVars
<1>2. \A r \in Ranks' \cap DOMAIN candidates' :
        items'[r] = candidates'[r] \/ IdOf[items'[r]] \in newcomers'
  BY <1>1 DEF JudgedOrNew, Ranks
<1>3. \A r \in Ranks' \cap never' : IdOf[items'[r]] \in condemned' \cup newcomers'
  BY <1>1 DEF JudgedOrNew, Ranks
<1> QED
  BY <1>2, <1>3 DEF JudgedOrNew

LEMMA NextKeepsJudged == JudgedOrNew /\ [CacheNext]_cacheVars => JudgedOrNew'
<1> SUFFICES ASSUME JudgedOrNew, [CacheNext]_cacheVars PROVE JudgedOrNew'
  OBVIOUS
<1>1. CASE BeginAdd \/ EndAdd
  BY <1>1, ShrinkKeepsJudged DEF BeginAdd, EndAdd, storeVars, history, Ranks
<1>2. CASE Add
  BY <1>2, AddKeepsJudged DEF Add
<1>3. ASSUME NEW now \in Time, Clean(now)
      PROVE  JudgedOrNew'
  <2>1. /\ Remove(Trimmed \cup NotNow(now)) /\ UNCHANGED <<readVars, newcomers>>
        /\ condemned \subseteq condemned'
    BY <1>3 DEF Clean
  <2> QED
    BY <2>1, RemoveEntries, ShrinkKeepsJudged
<1>4. CASE Clear
  BY <1>4 DEF Clear, JudgedOrNew, NoItems, Ranks
<1>5. CASE BeginRead
  BY <1>5 DEF BeginRead, storeVars, JudgedOrNew
<1>6. CASE CheckBest
  BY <1>6, CheckKeepsJudged
<1>7. CASE ReadError \/ EndRead
  BY <1>7, ForgetKeepsJudged DEF ReadError, EndRead
<1>8. ASSUME NEW rank \in Rank, RemoveRank(rank) \/ RemoveAndDisallowRank(rank)
      PROVE  JudgedOrNew'
  <2>1. /\ Remove({rank}) /\ UNCHANGED <<readVars, newcomers>>
        /\ condemned \subseteq condemned'
    BY <1>8 DEF RemoveRank, RemoveAndDisallowRank, history
  <2> QED
    BY <2>1, RemoveEntries, ShrinkKeepsJudged
<1>9. CASE UNCHANGED cacheVars
  BY <1>9, ShrinkKeepsJudged DEF cacheVars, readVars, Ranks
<1> QED
  BY <1>1, <1>2, <1>3, <1>4, <1>5, <1>6, <1>7, <1>8, <1>9
     DEF CacheNext, FeedNext, ReadNext

(* What a step disallows was judged by it or before it, or came during the *)
(* read.                                                                   *)
LEMMA StepDisallowsJudged ==
  ASSUME JudgedOrNew, [CacheNext]_cacheVars
  PROVE  disallowed' \ disallowed \subseteq condemned' \cup newcomers
<1>1. CASE disallowed' = disallowed
  BY <1>1
<1>2. ASSUME NEW now \in Time, Clean(now)
      PROVE  disallowed' \ disallowed \subseteq condemned'
  BY <1>2, DisallowAdds DEF Clean
<1>3. ASSUME NEW rank \in Rank, RemoveAndDisallowRank(rank)
      PROVE  disallowed' \ disallowed \subseteq condemned'
  BY <1>3, DisallowAdds DEF RemoveAndDisallowRank
<1>4. CASE EndRead
  <2>1. disallowed' \subseteq disallowed \cup IdsAt(Ranks \cap never) /\ condemned' = condemned
    BY <1>4, DisallowAdds DEF EndRead, history
  <2>2. IdsAt(Ranks \cap never) \subseteq condemned \cup newcomers
    BY DEF JudgedOrNew, IdsAt
  <2> QED
    BY <2>1, <2>2
<1>5. CASE BeginAdd \/ Add \/ EndAdd \/ Clear \/ BeginRead \/ CheckBest \/ ReadError
             \/ \E rank \in Rank : RemoveRank(rank)
  BY <1>1, <1>5 DEF BeginAdd, Add, AddInner, EndAdd, Clear, BeginRead, CheckBest,
       CheckEntry, ReadError, RemoveRank, storeVars
<1>6. CASE UNCHANGED cacheVars
  BY <1>1, <1>6 DEF cacheVars
<1> QED
  BY <1>2, <1>3, <1>4, <1>5, <1>6 DEF CacheNext, FeedNext, ReadNext

(* A read that works on a copy of the cache, and disallows by rank, hits no*)
(* bystander: what it disallows it has judged, or it came after the copy.  *)
THEOREM OnlyJudgedAreDisallowed == CacheSpec => DisallowedWasJudgedOrNew
<1>1. CacheInit => JudgedOrNew
  BY DEF CacheInit, JudgedOrNew, NoItems
<1>2. JudgedOrNew /\ [CacheNext]_cacheVars
        => [disallowed' \ disallowed \subseteq condemned' \cup newcomers]_cacheVars
  BY StepDisallowsJudged
<1> QED
  BY <1>1, <1>2, NextKeepsJudged, PTL DEF CacheSpec, DisallowedWasJudgedOrNew

-----------------------------------------------------------------------------
(* The rank an item is stored at is its fee or below, and free unless it is*)
(* rank zero: the search for a lower rank never leaves the ranks.          *)
LEMMA FreeRankIsFree ==
  ASSUME NEW fee \in Rank
  PROVE  /\ FreeRank(fee) \in Rank /\ FreeRank(fee) <= fee
         /\ FreeRank(fee) \in Ranks => FreeRank(fee) = 0
<1>1. CASE FreeBelow(fee) = {}
  BY <1>1, CacheAssumption DEF FreeRank, Rank
<1>2. CASE FreeBelow(fee) # {}
  <2>1. /\ FreeBelow(fee) \in SUBSET Nat /\ fee \in Nat
        /\ \A r \in FreeBelow(fee) : r <= fee /\ r \in Rank /\ r \notin Ranks
    BY CacheAssumption DEF FreeBelow, Rank
  <2>2. \E r \in FreeBelow(fee) : \A q \in FreeBelow(fee) : q <= r
    BY <1>2, <2>1, GreatestNatural
  <2>3. FreeRank(fee) \in FreeBelow(fee)
    BY <1>2, <2>2 DEF FreeRank
  <2> QED
    BY <2>1, <2>3
<1> QED
  BY <1>1, <1>2

(* Entries are the functions from ranks to items.                          *)
LEMMA EntriesAreFunctions ==
  /\ \A f \in Entries : DOMAIN f \subseteq Rank /\ f \in [DOMAIN f -> Item]
  /\ \A ranks \in SUBSET Rank : [ranks -> Item] \subseteq Entries
  /\ NoItems \in Entries
<1>1. \A f \in Entries : DOMAIN f \subseteq Rank /\ f \in [DOMAIN f -> Item]
  BY DEF Entries
<1>2. \A ranks \in SUBSET Rank : [ranks -> Item] \subseteq Entries
  BY DEF Entries
<1>3. NoItems \in [{} -> Item]
  BY DEF NoItems
<1> QED
  BY <1>1, <1>2, <1>3

LEMMA RemoveType ==
  ASSUME CacheTypeOK, NEW ranks, Remove(ranks)
  PROVE  items' \in Entries /\ seen' \subseteq Id
<1>1. Ranks \subseteq Rank /\ items \in [Ranks -> Item]
  BY EntriesAreFunctions DEF CacheTypeOK, Ranks
<1>2. items' \in [Ranks \ ranks -> Item] /\ Ranks \ ranks \in SUBSET Rank
  BY <1>1 DEF Remove, Without
<1> QED
  BY <1>2, EntriesAreFunctions DEF Remove, CacheTypeOK

LEMMA IdsType ==
  ASSUME CacheTypeOK
  PROVE  \A ranks : IdsAt(Ranks \cap ranks) \subseteq Id
<1>1. items \in [Ranks -> Item]
  BY EntriesAreFunctions DEF CacheTypeOK, Ranks
<1> QED
  BY <1>1, CacheAssumption DEF IdsAt

LEMMA AddType ==
  ASSUME CacheTypeOK, NEW item \in Item, NEW fee \in Rank, AddInner(item, fee)
  PROVE  /\ items' \in Entries /\ seen' \subseteq Id
         /\ newcomers' \subseteq Id /\ disallowed' = disallowed
<1>1. CASE Refused(item)
  BY <1>1 DEF AddInner, CacheTypeOK, storeVars
<1>2. CASE ~Refused(item)
  <2> DEFINE ranks == (Ranks \ Evicted) \cup {FreeRank(fee)}
  <2>1. Ranks \subseteq Rank /\ items \in [Ranks -> Item] /\ FreeRank(fee) \in Rank
    BY EntriesAreFunctions, FreeRankIsFree DEF CacheTypeOK, Ranks
  <2>2. items' = [r \in ranks |-> IF r = FreeRank(fee) THEN item ELSE items[r]]
    BY <1>2 DEF AddInner
  <2>3. items' \in [ranks -> Item] /\ ranks \in SUBSET Rank
    BY <2>1, <2>2
  <2>4. items' \in Entries
    BY <2>3, EntriesAreFunctions
  <2> QED
    BY <1>2, <2>4, CacheAssumption DEF AddInner, CacheTypeOK
<1> QED
  BY <1>1, <1>2

(* The actions of the feeds and of the reads keep the types.               *)
LEMMA FeedType ==
  ASSUME CacheTypeOK, FeedNext
  PROVE  CacheTypeOK'
<1>1. CASE BeginAdd \/ EndAdd
  BY <1>1 DEF BeginAdd, EndAdd, CacheTypeOK, storeVars, readVars, history
<1>2. CASE Add
  BY <1>2, AddType DEF Add, CacheTypeOK, readVars
<1>3. ASSUME NEW now \in Time, Clean(now)
      PROVE  CacheTypeOK'
  <2> DEFINE out == Trimmed \cup Expired(now)
  <2>1. Ranks \cap out = out
    BY DEF Expired, NotNow, Trimmed
  <2>2. IdsAt(out) \subseteq Id
    BY <2>1, IdsType
  <2>3. items' \in Entries /\ seen' \subseteq Id
    BY <1>3, RemoveType DEF Clean
  <2>4. disallowed' \subseteq disallowed \cup IdsAt(out) /\ condemned' = condemned \cup IdsAt(out)
    BY <1>3, DisallowAdds DEF Clean
  <2> QED
    BY <1>3, <2>2, <2>3, <2>4 DEF Clean, CacheTypeOK, readVars
<1>4. CASE Clear
  BY <1>4, EntriesAreFunctions DEF Clear, CacheTypeOK, readVars, history
<1> QED
  BY <1>1, <1>2, <1>3, <1>4 DEF FeedNext

LEMMA CheckType ==
  ASSUME CacheTypeOK, NEW rank \in DOMAIN candidates, NEW verdict,
         CheckEntry(rank, verdict)
  PROVE  CacheTypeOK'
<1> DEFINE left == DOMAIN candidates \ {rank}
<1>1. DOMAIN candidates \subseteq Rank /\ candidates \in [DOMAIN candidates -> Item]
  BY EntriesAreFunctions DEF CacheTypeOK
<1>2. candidates' \in [left -> Item] /\ left \in SUBSET Rank
  BY <1>1 DEF CheckEntry
<1>3. candidates' \in Entries
  BY <1>2, EntriesAreFunctions
<1>4. candidates[rank] \in Item /\ rank \in Rank /\ IdOf[candidates[rank]] \in Id
  BY <1>1, CacheAssumption
<1>5. valid' \subseteq Rank \X Item
  BY <1>4 DEF CheckEntry, CacheTypeOK
<1>6. never' \subseteq Rank /\ condemned' \subseteq Id
  BY <1>4 DEF CheckEntry, NeverAfter, CacheTypeOK
<1> QED
  BY <1>3, <1>5, <1>6 DEF CheckEntry, CacheTypeOK, storeVars

LEMMA ReadType ==
  ASSUME CacheTypeOK, ReadNext
  PROVE  CacheTypeOK'
<1>1. CASE BeginRead
  BY <1>1 DEF BeginRead, CacheTypeOK, storeVars
<1>2. CASE CheckBest
  BY <1>2, CheckType DEF CheckBest
<1>3. CASE ReadError
  BY <1>3, EntriesAreFunctions DEF ReadError, CacheTypeOK, storeVars, history
<1>4. CASE EndRead
  <2>1. items' \in Entries /\ seen' \subseteq Id
    BY <1>4, RemoveType DEF EndRead
  <2>2. disallowed' \subseteq Id
    BY <1>4, DisallowAdds, IdsType DEF EndRead, CacheTypeOK
  <2> QED
    BY <1>4, <2>1, <2>2, EntriesAreFunctions DEF EndRead, CacheTypeOK, history
<1> QED
  BY <1>1, <1>2, <1>3, <1>4 DEF ReadNext

(* The cache stays a map from ranks to items: the search for a free rank,  *)
(* evictions and removals never leave the ranks.                           *)
THEOREM CacheTypeCorrect == CacheSpec => []CacheTypeOK
<1>1. CacheInit => CacheTypeOK
  BY EntriesAreFunctions DEF CacheInit, CacheTypeOK
<1>2. CacheTypeOK /\ [CacheNext]_cacheVars => CacheTypeOK'
  <2> SUFFICES ASSUME CacheTypeOK, [CacheNext]_cacheVars PROVE CacheTypeOK'
    OBVIOUS
  <2>1. ASSUME NEW rank \in Rank, RemoveRank(rank)
        PROVE  CacheTypeOK'
    BY <2>1, RemoveType DEF RemoveRank, CacheTypeOK, readVars, history
  <2>2. ASSUME NEW rank \in Rank, RemoveAndDisallowRank(rank)
        PROVE  CacheTypeOK'
    <3>1. items' \in Entries /\ seen' \subseteq Id
      BY <2>2, RemoveType DEF RemoveAndDisallowRank
    <3>2. disallowed' \subseteq Id /\ condemned' \subseteq Id
      BY <2>2, DisallowAdds, IdsType DEF RemoveAndDisallowRank, CacheTypeOK
    <3> QED
      BY <2>2, <3>1, <3>2 DEF RemoveAndDisallowRank, CacheTypeOK, readVars
  <2>3. CASE UNCHANGED cacheVars
    BY <2>3 DEF cacheVars, CacheTypeOK
  <2> QED
    BY <2>1, <2>2, <2>3, FeedType, ReadType DEF CacheNext
<1> QED
  BY <1>1, <1>2, PTL DEF CacheSpec

-----------------------------------------------------------------------------
(* Block building.                                                         *)
Outcome == [rank : Rank, item : Item, score : Score, gas : Gas]
Task == [running : SUBSET (Rank \X Item), sent : SUBSET Outcome,
         best : Outcome \cup {NoOutcome}, limit : 0..MaxGas, top : Score \cup {0}]
Included == [item : Item, simulated : Item, gas : Gas, score : Score]

Types ==
  /\ CacheTypeOK
  /\ stage \in {"outer", "reading", "simulating", "built", "panicked"}
  /\ tasks \in Seq(Task)
  /\ block \in Seq(Included)
  /\ gasUsed \in 0..MaxGas
  /\ applied \subseteq Item

(* A task's outcomes keep to its limit, and its top score is the best one's*)
(* or still on its way.                                                    *)
Sound(task) ==
  /\ \A outcome \in task.sent \cup {task.best} :
       outcome.gas <= task.limit /\ outcome.score <= task.top
  /\ \/ task.best.score = task.top
     \/ \E outcome \in task.sent : outcome.score = task.top

(* The task of the round is the last one and was given the gas that is     *)
(* still left.                                                             *)
TasksInv ==
  /\ \A t \in TaskIds : Sound(tasks[t])
  /\ stage = "simulating" => Current > 0 /\ tasks[Current].limit = GasAllowed

(* The items a round may still include.                                    *)
Outcomes(task) == task.sent \cup ({task.best} \ {NoOutcome})
Found(task) ==
  task.running \cup {<<outcome.rank, outcome.item>> : outcome \in Outcomes(task)}
Pursued ==
  CASE stage = "reading" -> valid
    [] stage = "simulating" -> Found(tasks[Current])
    [] OTHER -> {}

(* What was simulated for the block is what was applied, once each; and    *)
(* nothing applied is pursued.                                             *)
FreshInv ==
  /\ applied = {block[i].simulated : i \in DOMAIN block}
  /\ \A i, j \in DOMAIN block : block[i].simulated = block[j].simulated => i = j
  /\ \A entry \in Pursued : entry[2] \notin applied

(* Without writes of the feeds during a round, an entry that is copied or  *)
(* pursued and whose rank is still in use is the entry at that rank.       *)
CopyInv ==
  /\ \A entry \in Pursued : entry[1] \in Ranks => items[entry[1]] = entry[2]
  /\ stage = "reading" =>
       \A r \in Ranks \cap DOMAIN candidates : candidates[r] = items[r]
  /\ IncludedWasSimulated

-----------------------------------------------------------------------------
(* What the steps of the tasks and the end of a round do, with every type  *)
(* spelt out.                                                              *)
LEMMA TaskTypes ==
  ASSUME Types
  PROVE  /\ Current \in Nat /\ TaskIds = 1..Current
         /\ \A t \in TaskIds :
              /\ tasks[t] \in Task /\ tasks[t].limit \in Nat /\ tasks[t].top \in Nat
              /\ tasks[t].running \subseteq Rank \X Item
              /\ tasks[t].sent \subseteq Outcome
              /\ tasks[t].best \in Outcome \cup {NoOutcome}
         /\ \A outcome \in Outcome \cup {NoOutcome} :
              outcome.score \in Nat /\ outcome.gas \in Nat
<1>1. tasks \in Seq(Task)
  BY DEF Types
<1>2. \A task \in Task :
        /\ task.limit \in 0..MaxGas /\ task.top \in Score \cup {0}
        /\ task.running \subseteq Rank \X Item
        /\ task.sent \subseteq Outcome
        /\ task.best \in Outcome \cup {NoOutcome}
  BY DEF Task
<1>3. \A outcome \in Outcome \cup {NoOutcome} : outcome.score \in Nat /\ outcome.gas \in Nat
  <2>1. \A outcome \in Outcome : outcome.score \in Score /\ outcome.gas \in Gas
    BY DEF Outcome
  <2>2. \A outcome \in Outcome : outcome.score \in Nat /\ outcome.gas \in Nat
    BY <2>1, RoundAssumption
  <2>3. NoOutcome.score \in Nat /\ NoOutcome.gas \in Nat
    BY DEF NoOutcome
  <2> QED
    BY <2>2, <2>3
<1>4. \A limit \in 0..MaxGas : limit \in Nat
  BY RoundAssumption
<1>5. \A top \in Score \cup {0} : top \in Nat
  BY RoundAssumption
<1> HIDE DEF Task
<1>6. Current \in Nat /\ TaskIds = 1..Current /\ \A t \in TaskIds : tasks[t] \in Task
  BY <1>1 DEF Current, TaskIds
<1> QED
  BY <1>2, <1>3, <1>4, <1>5, <1>6

(* Only one task changes, its limit stays.                                 *)
Changes(t) ==
  /\ tasks' \in Seq(Task) /\ Current' = Current /\ TaskIds' = TaskIds
  /\ \A u \in TaskIds \ {t} : tasks'[u] = tasks[u]
  /\ tasks'[t].limit = tasks[t].limit

(* The store only loses entries.                                           *)
Shrinks == Ranks' \subseteq Ranks /\ \A r \in Ranks' : items'[r] = items[r]

LEMMA TaskUpdate ==
  ASSUME Types, NEW t \in TaskIds, NEW task \in Task, tasks' = [tasks EXCEPT ![t] = task],
         task.limit = tasks[t].limit
  PROVE  Changes(t) /\ tasks'[t] = task
<1>1. tasks \in Seq(Task)
  BY DEF Types
<1> HIDE DEF Task
<1>2. tasks' \in Seq(Task) /\ Len(tasks') = Len(tasks) /\ DOMAIN tasks' = DOMAIN tasks
  BY <1>1 DEF TaskIds
<1>3. \A u \in TaskIds \ {t} : tasks'[u] = tasks[u]
  BY DEF TaskIds
<1>4. tasks'[t] = task
  BY DEF TaskIds
<1> QED
  BY <1>2, <1>3, <1>4 DEF Changes, Current, TaskIds

LEMMA ThreadEffect ==
  ASSUME Types, NEW t \in TaskIds, NEW entry, ThreadEnds(t, entry)
  PROVE  /\ Changes(t) /\ entry \in tasks[t].running
         /\ tasks'[t].running = tasks[t].running \ {entry}
         /\ tasks'[t].best = tasks[t].best
         /\ \/ \E outcome \in Outcome :
                 /\ outcome.rank = entry[1] /\ outcome.item = entry[2]
                 /\ outcome.gas <= tasks[t].limit
                 /\ tasks'[t].sent = tasks[t].sent \cup {outcome}
                 /\ tasks'[t].top =
                      IF outcome.score > tasks[t].top THEN outcome.score ELSE tasks[t].top
                 /\ UNCHANGED storeVars
            \/ /\ tasks'[t].sent = tasks[t].sent /\ tasks'[t].top = tasks[t].top
               /\ Remove({entry[1]}) /\ UNCHANGED disallowed
<1>1. /\ tasks[t] \in Task /\ entry \in tasks[t].running
      /\ entry[1] \in Rank /\ entry[2] \in Item
  BY TaskTypes DEF ThreadEnds
<1> PICK score \in Score, gas \in Gas :
       LET outcome == [rank |-> entry[1], item |-> entry[2], score |-> score, gas |-> gas] IN
       IF Succeeds(tasks[t], outcome)
       THEN /\ tasks' = [tasks EXCEPT ![t].running = @ \ {entry},
                                      ![t].sent = @ \cup {outcome},
                                      ![t].top = IF score > @ THEN score ELSE @]
            /\ UNCHANGED storeVars
       ELSE /\ Unlocked
            /\ tasks' = [tasks EXCEPT ![t].running = @ \ {entry}]
            /\ Remove({entry[1]})
            /\ UNCHANGED disallowed
  BY DEF ThreadEnds
<1> DEFINE outcome == [rank |-> entry[1], item |-> entry[2], score |-> score, gas |-> gas]
           sent == [tasks[t] EXCEPT !.running = @ \ {entry}, !.sent = @ \cup {outcome},
                                    !.top = IF score > @ THEN score ELSE @]
           failed == [tasks[t] EXCEPT !.running = @ \ {entry}]
<1>2. /\ outcome \in Outcome /\ outcome.rank = entry[1] /\ outcome.item = entry[2]
      /\ outcome.score = score /\ outcome.gas = gas
  BY <1>1 DEF Outcome
<1>3. CASE Succeeds(tasks[t], outcome)
  <2>1. tasks' = [tasks EXCEPT ![t] = sent] /\ UNCHANGED storeVars
    BY <1>3, <1>1 DEF Task, TaskIds
  <2>2. gas <= tasks[t].limit
    BY <1>3 DEF Succeeds
  <2> HIDE DEF outcome
  <2>3. /\ sent.limit = tasks[t].limit /\ sent.best = tasks[t].best
        /\ sent.running = tasks[t].running \ {entry}
        /\ sent.sent = tasks[t].sent \cup {outcome}
        /\ sent.top = IF score > tasks[t].top THEN score ELSE tasks[t].top
    BY <1>1 DEF Task
  <2>4. sent \in Task
    BY <1>1, <1>2 DEF Task
  <2> HIDE DEF sent
  <2>5. Changes(t) /\ tasks'[t] = sent
    BY <2>1, <2>3, <2>4, TaskUpdate
  <2> QED
    BY <1>1, <1>2, <2>1, <2>2, <2>3, <2>5
<1>4. CASE ~Succeeds(tasks[t], outcome)
  <2>1. /\ tasks' = [tasks EXCEPT ![t] = failed]
        /\ Remove({entry[1]}) /\ UNCHANGED disallowed
    BY <1>4, <1>1 DEF Task, TaskIds
  <2>2. /\ failed.limit = tasks[t].limit /\ failed.best = tasks[t].best
        /\ failed.running = tasks[t].running \ {entry}
        /\ failed.sent = tasks[t].sent /\ failed.top = tasks[t].top
    BY <1>1 DEF Task
  <2>3. failed \in Task
    BY <1>1 DEF Task
  <2> HIDE DEF failed
  <2>4. Changes(t) /\ tasks'[t] = failed
    BY <2>1, <2>2, <2>3, TaskUpdate
  <2> QED
    BY <1>1, <2>1, <2>2, <2>4
<1> QED
  BY <1>3, <1>4

LEMMA ReceiveEffect ==
  ASSUME Types, NEW t \in TaskIds, Receive(t)
  PROVE  /\ Changes(t) /\ UNCHANGED storeVars
         /\ tasks'[t].running = tasks[t].running /\ tasks'[t].top = tasks[t].top
         /\ \E outcome \in tasks[t].sent :
              /\ tasks'[t].sent = tasks[t].sent \ {outcome}
              /\ tasks'[t].best = IF outcome.score > tasks[t].best.score
                                  THEN outcome ELSE tasks[t].best
<1> PICK outcome \in tasks[t].sent :
       tasks' = [tasks EXCEPT
         ![t].sent = @ \ {outcome},
         ![t].best = IF Better(outcome, @) THEN outcome ELSE @]
  BY DEF Receive
<1> DEFINE got == [tasks[t] EXCEPT !.sent = @ \ {outcome},
                                   !.best = IF Better(outcome, @) THEN outcome ELSE @]
<1>1. tasks[t] \in Task /\ outcome \in Outcome
  BY TaskTypes
<1>2. tasks' = [tasks EXCEPT ![t] = got]
  BY <1>1 DEF Task, TaskIds
<1>3. /\ got.limit = tasks[t].limit /\ got.running = tasks[t].running
      /\ got.top = tasks[t].top /\ got.sent = tasks[t].sent \ {outcome}
      /\ got.best = IF outcome.score > tasks[t].best.score THEN outcome ELSE tasks[t].best
  BY <1>1 DEF Task, Better
<1>4. got \in Task
  BY <1>1 DEF Task
<1> HIDE DEF got
<1>5. Changes(t) /\ tasks'[t] = got
  BY <1>2, <1>3, <1>4, TaskUpdate
<1> QED
  BY <1>3, <1>5 DEF Receive

LEMMA AcceptEffect ==
  ASSUME Types, Current > 0, Accept
  PROVE  LET best == tasks[Current].best IN
         /\ tasks' = tasks /\ Shrinks
         /\ \/ /\ UNCHANGED <<block, gasUsed, applied>>
               /\ \/ stage' \in {"outer", "built"}
                  \/ stage' = "panicked" /\ \E t \in TaskIds : ~Ended(t)
            \/ /\ stage' \in {"outer", "built"} /\ \A t \in TaskIds : Ended(t)
               /\ best # NoOutcome /\ best \in Outcome /\ best.rank \in Ranks
               /\ block' = Append(block, [item |-> items[best.rank], simulated |-> best.item,
                                          gas |-> best.gas, score |-> best.score])
               /\ gasUsed' = gasUsed + best.gas
               /\ applied' = applied \cup {best.item}
<1> DEFINE best == tasks[Current].best
<1>1. best \in Outcome \cup {NoOutcome} /\ tasks' = tasks
  BY TaskTypes DEF Accept
<1>4. After \in {"outer", "built"}
  BY DEF After
<1> HIDE DEF best
<1>2. CASE best = NoOutcome
  <2>1. /\ stage' = After /\ UNCHANGED <<storeVars, block, gasUsed, applied>>
    BY <1>2 DEF Accept, best
  <2> QED
    BY <1>1, <1>4, <2>1 DEF best, Shrinks, storeVars, Ranks
<1>3. CASE best # NoOutcome
  <2>1. /\ Remove(Taken(best))
        /\ \/ Taken(best) = {} /\ stage' = After /\ UNCHANGED <<block, gasUsed, applied>>
           \/ /\ \E t \in TaskIds : tasks[t].running # {} \/ tasks[t].sent # {}
              /\ stage' = "panicked" /\ UNCHANGED <<block, gasUsed, applied>>
           \/ /\ Taken(best) # {}
              /\ \A t \in TaskIds : tasks[t].running = {} /\ tasks[t].sent = {}
              /\ stage' = After
              /\ \E r \in Taken(best) :
                   block' = Append(block, [item |-> items[r], simulated |-> best.item,
                                           gas |-> best.gas, score |-> best.score])
              /\ gasUsed' = gasUsed + best.gas
              /\ applied' = Committed(best)
    BY <1>3 DEF Accept, best
  <2>2. Shrinks
    BY <2>1, RemoveEntries DEF Shrinks
  <2>3. \A r \in Taken(best) : r = best.rank /\ r \in Ranks
    BY DEF Taken
  <2> QED
    BY <1>1, <1>3, <1>4, <2>1, <2>2, <2>3 DEF best, Ended, Committed
<1> QED
  BY <1>2, <1>3

-----------------------------------------------------------------------------
(* The types.                                                              *)
LEMMA ShrinkType ==
  ASSUME CacheTypeOK, UNCHANGED <<adding, readVars, history, disallowed>>, NEW ranks,
         Remove(ranks)
  PROVE  CacheTypeOK'
BY RemoveType DEF CacheTypeOK, readVars, history

LEMMA StoreStaysType ==
  ASSUME CacheTypeOK, UNCHANGED <<adding, readVars, history, storeVars>>
  PROVE  CacheTypeOK'
BY DEF CacheTypeOK, readVars, history, storeVars

(* The gas an accepted outcome adds was still left.                        *)
LEMMA AcceptedGas ==
  ASSUME Types, TasksInv, stage = "simulating"
  PROVE  /\ Current > 0 /\ Current \in TaskIds
         /\ tasks[Current].best.gas \in Nat
         /\ gasUsed + tasks[Current].best.gas \in 0..MaxGas
<1>1. /\ Current > 0 /\ tasks[Current].limit = MaxGas - gasUsed
      /\ gasUsed \in 0..MaxGas
  BY DEF TasksInv, GasAllowed, Types
<1>2. Current \in TaskIds
  BY <1>1, TaskTypes
<1>3. tasks[Current].best.gas \in Nat /\ tasks[Current].best.gas <= tasks[Current].limit
  BY <1>2, TaskTypes DEF TasksInv, Sound
<1> QED
  BY <1>1, <1>2, <1>3, RoundAssumption

LEMMA AcceptType ==
  ASSUME Types, TasksInv, stage = "simulating", Accept
  PROVE  Types'
<1> DEFINE best == tasks[Current].best
           inc == [item |-> items[best.rank], simulated |-> best.item,
                   gas |-> best.gas, score |-> best.score]
<1>1. Current > 0 /\ gasUsed + best.gas \in 0..MaxGas
  BY AcceptedGas
<1>2. CacheTypeOK'
  <2>1. UNCHANGED <<adding, readVars, history>>
    BY DEF Accept
  <2>2. UNCHANGED storeVars \/ (Remove(Taken(best)) /\ UNCHANGED disallowed)
    BY DEF Accept
  <2> QED
    BY <2>1, <2>2, ShrinkType, StoreStaysType DEF Types
<1>3. /\ tasks' = tasks /\ stage' \in {"outer", "built", "panicked"}
      /\ \/ UNCHANGED <<block, gasUsed, applied>>
         \/ /\ best \in Outcome /\ best.rank \in Ranks
            /\ block' = Append(block, inc) /\ gasUsed' = gasUsed + best.gas
            /\ applied' = applied \cup {best.item}
  BY <1>1, AcceptEffect
<1>4. ASSUME best \in Outcome, best.rank \in Ranks
      PROVE  inc \in Included /\ best.item \in Item
  <2>1. items[best.rank] \in Item
    BY <1>4, EntriesAreFunctions DEF Types, CacheTypeOK, Ranks
  <2> HIDE DEF best
  <2> QED
    BY <1>4, <2>1 DEF Outcome, Included
<1> HIDE DEF best, inc
<1>5. block' \in Seq(Included) /\ gasUsed' \in 0..MaxGas /\ applied' \subseteq Item
  <2>1. CASE UNCHANGED <<block, gasUsed, applied>>
    BY <2>1 DEF Types
  <2>2. CASE ~UNCHANGED <<block, gasUsed, applied>>
    BY <1>1, <1>3, <1>4, <2>2, SMTT(30) DEF Types
  <2> QED
    BY <2>1, <2>2
<1> QED
  BY <1>2, <1>3, <1>5 DEF Types

LEMMA SpawnType ==
  ASSUME Types, Spawn
  PROVE  Types'
<1>1. CacheTypeOK'
  BY ReadType DEF Spawn, ReadNext, Types
<1>2. stage' \in {"outer", "simulating"}
  BY DEF Spawn
<1>3. tasks' \in Seq(Task)
  <2> DEFINE task == [running |-> valid, sent |-> {}, best |-> NoOutcome,
                      limit |-> GasAllowed, top |-> 0]
  <2>1. GasAllowed \in 0..MaxGas /\ valid \subseteq Rank \X Item
    BY RoundAssumption DEF Types, GasAllowed, CacheTypeOK
  <2>2. task \in Task
    BY <2>1 DEF Task
  <2> HIDE DEF task, Task
  <2>3. tasks' = tasks \/ tasks' = Append(tasks, task)
    BY DEF Spawn, task
  <2> QED
    BY <2>2, <2>3 DEF Types
<1> QED
  BY <1>1, <1>2, <1>3 DEF Spawn, Types

LEMMA NextTypes == Types /\ TasksInv /\ [Next]_vars => Types'
<1> SUFFICES ASSUME Types, TasksInv, [Next]_vars PROVE Types'
  OBVIOUS
<1>1. CASE Feed
  BY <1>1, FeedType DEF Feed, Types, buildVars
<1>2. CASE StartRound
  BY <1>2, ReadType DEF StartRound, ReadNext, Types
<1>3. CASE Preflight
  <2>1. CacheTypeOK'
    BY <1>3, CheckType, ReadType DEF Preflight, ReadNext, Types
  <2> QED
    BY <1>3, <2>1 DEF Preflight, Types
<1>4. CASE Spawn
  BY <1>4, SpawnType
<1>5. ASSUME NEW t \in TaskIds, NEW entry, ThreadEnds(t, entry)
      PROVE  Types'
  <2>1. UNCHANGED storeVars \/ (Remove({entry[1]}) /\ UNCHANGED disallowed)
    BY <1>5, ThreadEffect
  <2>2. UNCHANGED <<adding, readVars, history, stage, block, gasUsed, applied>>
    BY <1>5 DEF ThreadEnds
  <2>3. CacheTypeOK'
    BY <2>1, <2>2, ShrinkType, StoreStaysType DEF Types
  <2>4. tasks' \in Seq(Task)
    BY <1>5, ThreadEffect DEF Changes
  <2> QED
    BY <2>2, <2>3, <2>4 DEF Types
<1>6. ASSUME NEW t \in TaskIds, Receive(t)
      PROVE  Types'
  <2>1. UNCHANGED <<storeVars, adding, readVars, history, stage, block, gasUsed, applied>>
    BY <1>6 DEF Receive
  <2>2. CacheTypeOK'
    BY <2>1, StoreStaysType DEF Types
  <2>3. tasks' \in Seq(Task)
    BY <1>6, ReceiveEffect DEF Changes
  <2> QED
    BY <2>1, <2>2, <2>3 DEF Types
<1>7. CASE RoundDone \/ RoundTimeout
  BY <1>7, AcceptType DEF RoundDone, RoundTimeout
<1>8. CASE Deadline
  <2>1. CacheTypeOK'
    BY <1>8, EntriesAreFunctions DEF Deadline, Types, CacheTypeOK, storeVars, history
  <2> QED
    BY <1>8, <2>1 DEF Deadline, Types
<1>9. CASE UNCHANGED vars
  BY <1>9 DEF vars, Types, CacheTypeOK
<1> QED
  BY <1>1, <1>2, <1>3, <1>4, <1>5, <1>6, <1>7, <1>8, <1>9 DEF Next, Simulate

-----------------------------------------------------------------------------
(* A task stays sound when a thread ends and when it receives an outcome,  *)
(* in whatever order.                                                      *)
LEMMA ThreadSound ==
  ASSUME Types, NEW t \in TaskIds, NEW entry, ThreadEnds(t, entry), Sound(tasks[t])
  PROVE  Sound(tasks'[t])
<1>1. /\ tasks[t].top \in Nat /\ tasks[t].limit \in Nat
      /\ \A outcome \in tasks[t].sent \cup {tasks[t].best} :
           outcome.score \in Nat /\ outcome.gas \in Nat
  BY TaskTypes
<1>2. tasks'[t].best = tasks[t].best /\ tasks'[t].limit = tasks[t].limit
  BY ThreadEffect DEF Changes
<1>3. ASSUME NEW outcome \in Outcome, outcome.gas <= tasks[t].limit,
             tasks'[t].sent = tasks[t].sent \cup {outcome},
             tasks'[t].top =
               IF outcome.score > tasks[t].top THEN outcome.score ELSE tasks[t].top
      PROVE  Sound(tasks'[t])
  <2>1. outcome.score \in Nat
    BY TaskTypes
  <2>2. CASE outcome.score > tasks[t].top
    BY <1>1, <1>2, <1>3, <2>1, <2>2 DEF Sound
  <2>3. CASE ~(outcome.score > tasks[t].top)
    BY <1>1, <1>2, <1>3, <2>1, <2>3 DEF Sound
  <2> QED
    BY <2>2, <2>3
<1>4. CASE tasks'[t].sent = tasks[t].sent /\ tasks'[t].top = tasks[t].top
  BY <1>2, <1>4 DEF Sound
<1> QED
  BY <1>3, <1>4, ThreadEffect

LEMMA ReceiveSound ==
  ASSUME Types, NEW t \in TaskIds, Receive(t), Sound(tasks[t])
  PROVE  Sound(tasks'[t])
<1>1. /\ tasks[t].top \in Nat
      /\ \A outcome \in tasks[t].sent \cup {tasks[t].best} : outcome.score \in Nat
  BY TaskTypes
<1>2. /\ tasks'[t].limit = tasks[t].limit /\ tasks'[t].top = tasks[t].top
      /\ \E outcome \in tasks[t].sent :
           /\ tasks'[t].sent = tasks[t].sent \ {outcome}
           /\ tasks'[t].best = IF outcome.score > tasks[t].best.score
                               THEN outcome ELSE tasks[t].best
  BY ReceiveEffect DEF Changes
<1> PICK got \in tasks[t].sent :
       /\ tasks'[t].sent = tasks[t].sent \ {got}
       /\ tasks'[t].best = IF got.score > tasks[t].best.score THEN got ELSE tasks[t].best
  BY <1>2
<1>3. tasks'[t].sent \cup {tasks'[t].best} \subseteq tasks[t].sent \cup {tasks[t].best}
  OBVIOUS
<1>4. tasks'[t].best.score = tasks'[t].top
      \/ \E outcome \in tasks'[t].sent : outcome.score = tasks'[t].top
  <2>1. CASE tasks[t].best.score = tasks[t].top
    BY <1>1, <1>2, <2>1 DEF Sound
  <2>2. ASSUME NEW outcome \in tasks[t].sent, outcome.score = tasks[t].top
        PROVE  <1>4!1 \/ <1>4!2
    <3>1. CASE outcome = got
      BY <1>1, <1>2, <2>2, <3>1 DEF Sound
    <3>2. CASE outcome # got
      BY <1>2, <2>2, <3>2
    <3> QED
      BY <3>1, <3>2
  <2> QED
    BY <2>1, <2>2 DEF Sound
<1> QED
  BY <1>2, <1>3, <1>4 DEF Sound

LEMMA SpawnEffect ==
  ASSUME Types, Spawn
  PROVE  /\ stage = "reading" /\ UNCHANGED <<block, gasUsed, applied, valid>> /\ Shrinks
         /\ \/ stage' = "outer" /\ tasks' = tasks
            \/ /\ stage' = "simulating" /\ Current' = Current + 1 /\ TaskIds' = 1..(Current + 1)
               /\ \A t \in TaskIds : tasks'[t] = tasks[t]
               /\ tasks'[Current + 1] = [running |-> valid, sent |-> {}, best |-> NoOutcome,
                                         limit |-> GasAllowed, top |-> 0]
<1>1. Shrinks
  BY RemoveEntries DEF Spawn, EndRead, Shrinks
<1> DEFINE task == [running |-> valid, sent |-> {}, best |-> NoOutcome,
                    limit |-> GasAllowed, top |-> 0]
<1>2. \/ stage' = "outer" /\ tasks' = tasks
      \/ stage' = "simulating" /\ tasks' = Append(tasks, task)
  BY DEF Spawn
<1> HIDE DEF task
<1>3. tasks' = Append(tasks, task) =>
        /\ Current' = Current + 1 /\ TaskIds' = 1..(Current + 1)
        /\ \A t \in TaskIds : tasks'[t] = tasks[t]
        /\ tasks'[Current + 1] = task
  BY DEF Types, Current, TaskIds
<1> QED
  BY <1>1, <1>2, <1>3 DEF Spawn, EndRead, task

LEMMA NextTasks == Types /\ TasksInv /\ [Next]_vars => TasksInv'
<1> SUFFICES ASSUME Types, TasksInv, [Next]_vars PROVE TasksInv'
  OBVIOUS
<1>1. ASSUME tasks' = tasks, UNCHANGED <<stage, gasUsed>> \/ stage' # "simulating"
      PROVE  TasksInv'
  BY <1>1 DEF TasksInv, TaskIds, Current, GasAllowed
<1>2. CASE Feed \/ StartRound \/ Preflight \/ Deadline \/ UNCHANGED vars
  BY <1>1, <1>2 DEF Feed, StartRound, Preflight, Deadline, vars, buildVars
<1>3. CASE Spawn
  <2>1. CASE stage' = "outer" /\ tasks' = tasks
    BY <1>1, <2>1
  <2>2. CASE stage' # "outer"
    <3>1. /\ gasUsed' = gasUsed
          /\ Current' = Current + 1 /\ TaskIds' = 1..(Current + 1)
          /\ \A t \in TaskIds : tasks'[t] = tasks[t]
          /\ tasks'[Current + 1] = [running |-> valid, sent |-> {}, best |-> NoOutcome,
                                    limit |-> GasAllowed, top |-> 0]
      BY <1>3, <2>2, SpawnEffect
    <3>2. GasAllowed \in Nat /\ Current \in Nat /\ TaskIds = 1..Current
      BY TaskTypes, RoundAssumption DEF Types, GasAllowed
    <3>3. Sound(tasks'[Current + 1])
      BY <3>1, <3>2 DEF Sound, NoOutcome
    <3>4. GasAllowed' = GasAllowed
      BY <3>1 DEF GasAllowed
    <3>5. \A t \in TaskIds' : Sound(tasks'[t])
      BY <3>1, <3>2, <3>3 DEF TasksInv
    <3> QED
      BY <3>1, <3>2, <3>4, <3>5 DEF TasksInv
  <2> QED
    BY <1>3, <2>1, <2>2, SpawnEffect
<1>4. ASSUME NEW t \in TaskIds, Changes(t), Sound(tasks'[t]), UNCHANGED <<stage, gasUsed>>
      PROVE  TasksInv'
  <2>1. \A u \in TaskIds' : Sound(tasks'[u])
    BY <1>4 DEF TasksInv, Changes
  <2>2. stage = "simulating" => Current \in TaskIds /\ tasks'[Current].limit = tasks[Current].limit
    BY <1>4, TaskTypes DEF TasksInv, Changes
  <2> QED
    BY <1>4, <2>1, <2>2 DEF TasksInv, Changes, GasAllowed
<1>5. ASSUME NEW t \in TaskIds, NEW entry, ThreadEnds(t, entry)
      PROVE  TasksInv'
  BY <1>4, <1>5, ThreadEffect, ThreadSound DEF TasksInv, ThreadEnds
<1>6. ASSUME NEW t \in TaskIds, Receive(t)
      PROVE  TasksInv'
  BY <1>4, <1>6, ReceiveEffect, ReceiveSound DEF TasksInv, Receive
<1>7. CASE RoundDone \/ RoundTimeout
  <2>1. stage = "simulating" /\ Accept
    BY <1>7 DEF RoundDone, RoundTimeout
  <2>2. tasks' = tasks /\ stage' # "simulating"
    BY <2>1, AcceptedGas, AcceptEffect
  <2> QED
    BY <1>1, <2>2
<1> QED
  BY <1>2, <1>3, <1>5, <1>6, <1>7 DEF Next, Simulate

(* The invariant of every round, whatever the feeds and the deadline do.   *)
LEMMA RoundInvariant == Spec => [](Types /\ TasksInv)
<1>1. ASSUME Init
      PROVE  Types /\ TasksInv
  <2>1. CacheTypeOK
    BY <1>1, EntriesAreFunctions DEF Init, CacheInit, CacheTypeOK
  <2>2. tasks = <<>> /\ block = <<>> /\ stage = "outer" /\ gasUsed = 0 /\ applied = {}
    BY <1>1 DEF Init
  <2>3. Types
    BY <2>1, <2>2, RoundAssumption DEF Types
  <2> QED
    BY <2>2, <2>3 DEF TasksInv, TaskIds
<1> QED
  BY <1>1, NextTypes, NextTasks, PTL DEF Spec

(* The variables of the cache and of the builder have their types.         *)
THEOREM RoundTypeCorrect == Spec => []TypeOK
<1>1. Types => TypeOK
  <2> SUFFICES ASSUME Types PROVE TypeOK
    OBVIOUS
  <2>1. \A t \in TaskIds : tasks[t] \in Task
    BY TaskTypes
  <2>2. \A t \in TaskIds :
          /\ tasks[t].running \subseteq Rank \X Item
          /\ tasks[t].limit \in 0..MaxGas /\ tasks[t].top \in Score \cup {0}
    BY <2>1 DEF Task
  <2>3. gasUsed \in Nat
    BY RoundAssumption DEF Types
  <2> QED
    BY <2>2, <2>3 DEF Types, TypeOK
<1> QED
  BY <1>1, RoundInvariant, PTL

(* The block never exceeds its gas, although every simulation of a round   *)
(* may use all that is left, and whether or not feeds write the cache and  *)
(* rounds time out meanwhile.                                              *)
THEOREM GasStaysWithinLimit == Spec => []GasWithinLimit
<1>1. Types => GasWithinLimit
  BY RoundAssumption DEF Types, GasWithinLimit
<1> QED
  BY <1>1, RoundInvariant, PTL

-----------------------------------------------------------------------------
(* Only the end of a round touches the block and the environment.          *)
LEMMA BlockIsKept ==
  ASSUME [Next]_vars, ~(RoundDone \/ RoundTimeout)
  PROVE  UNCHANGED <<block, gasUsed, applied>>
BY DEF Next, Feed, buildVars, StartRound, Preflight, Spawn, Simulate, ThreadEnds, Receive,
     Deadline, vars

LEMMA EndOfRound ==
  ASSUME Types, TasksInv, RoundDone \/ RoundTimeout
  PROVE  /\ stage = "simulating" /\ Accept /\ Current > 0 /\ Current \in TaskIds
         /\ stage' \in {"outer", "built", "panicked"}
<1>1. stage = "simulating" /\ Accept
  BY DEF RoundDone, RoundTimeout
<1>2. Current > 0 /\ Current \in TaskIds
  BY <1>1, AcceptedGas
<1> QED
  BY <1>1, <1>2, AcceptEffect

LEMMA AppendIsLast ==
  ASSUME NEW S, NEW s \in Seq(S), NEW e
  PROVE  /\ Len(Append(s, e)) = Len(s) + 1 /\ Append(s, e)[Len(s) + 1] = e
         /\ DOMAIN Append(s, e) = DOMAIN s \cup {Len(s) + 1} /\ Len(s) + 1 \notin DOMAIN s
         /\ \A i \in DOMAIN s : Append(s, e)[i] = s[i]
OBVIOUS

(* When the environment is free for the best outcome of a round nothing is *)
(* on its way any more, so the best outcome is the one of the top score.   *)
LEMMA StepIncludesBest ==
  ASSUME Types, TasksInv, [Next]_vars, block' # block
  PROVE  block'[Len(block')].score = tasks[Current].top
<1> DEFINE best == tasks[Current].best
           inc == [item |-> items[best.rank], simulated |-> best.item,
                   gas |-> best.gas, score |-> best.score]
<1>1. RoundDone \/ RoundTimeout
  BY BlockIsKept
<1>2. Accept /\ Current > 0 /\ Current \in TaskIds
  BY <1>1, EndOfRound
<1>3. Ended(Current) /\ block' = Append(block, inc)
  BY <1>2, AcceptEffect
<1>4. inc.score = best.score
  OBVIOUS
<1>5. best.score = tasks[Current].top
  BY <1>2, <1>3 DEF Ended, TasksInv, Sound
<1> HIDE DEF best, inc
<1>6. block'[Len(block')] = inc
  BY <1>3, AppendIsLast DEF Types
<1> QED
  BY <1>4, <1>5, <1>6

(* The best candidate of a round goes in, in whatever order threads end    *)
(* and outcomes are received, and whatever the feeds do.                   *)
THEOREM BestGoesIn == Spec => BestIsIncluded
<1>1. Types /\ TasksInv /\ [Next]_vars
        => [block' # block => block'[Len(block')].score = tasks[Current].top]_vars
  BY StepIncludesBest
<1> QED
  BY <1>1, RoundInvariant, PTL DEF Spec, BestIsIncluded

-----------------------------------------------------------------------------
(* Whatever is pursued after a step was pursued before it, or is an entry  *)
(* of the read that was found valid, which nothing applied is.             *)
LEMMA PursuedStep ==
  ASSUME Types, TasksInv, [Next]_vars, NEW entry \in Pursued'
  PROVE  \/ entry \in Pursued
         \/ /\ stage = "reading" /\ UNCHANGED storeVars
            /\ \E rank \in DOMAIN candidates :
                 entry = <<rank, candidates[rank]>> /\ candidates[rank] \notin applied
<1>1. ASSUME stage' \notin {"reading", "simulating"}
      PROVE  FALSE
  BY <1>1 DEF Pursued
<1>2. CASE Feed \/ UNCHANGED vars
  <2>1. UNCHANGED <<stage, tasks, valid>>
    <3>1. FeedNext => valid' = valid
      BY DEF FeedNext, BeginAdd, Add, EndAdd, Clean, Clear, readVars
    <3> QED
      BY <1>2, <3>1 DEF Feed, buildVars, vars
  <2> QED
    BY <2>1 DEF Pursued, Found, Outcomes, Current
<1>3. CASE StartRound
  BY <1>3 DEF StartRound, BeginRead, Pursued
<1>4. CASE Preflight
  <2>1. ASSUME NEW rank \in DOMAIN candidates, NEW verdict \in Verdict,
               candidates[rank] \in applied => verdict # "now",
               CheckEntry(rank, verdict), UNCHANGED stage
        PROVE  \/ entry \in valid
               \/ /\ UNCHANGED storeVars
                  /\ entry = <<rank, candidates[rank]>> /\ candidates[rank] \notin applied
    BY <1>4, <2>1 DEF Preflight, CheckEntry, Pursued
  <2>2. stage = "reading"
    BY <1>4 DEF Preflight
  <2> QED
    BY <1>1, <1>4, <2>1, <2>2 DEF Preflight, Pursued
<1>5. CASE Spawn
  <2>1. /\ stage = "reading" /\ stage' = "simulating"
        /\ tasks'[Current'] = [running |-> valid, sent |-> {}, best |-> NoOutcome,
                               limit |-> GasAllowed, top |-> 0]
    BY <1>1, <1>5, SpawnEffect
  <2>2. Pursued' = Found(tasks'[Current'])
    BY <2>1 DEF Pursued, Current, Found, Outcomes
  <2>3. Pursued' = valid
    BY <2>1, <2>2 DEF Found, Outcomes
  <2> QED
    BY <2>1, <2>3 DEF Pursued
<1>6. ASSUME NEW t \in TaskIds, Changes(t), UNCHANGED <<stage, valid>>,
             Found(tasks'[t]) \subseteq Found(tasks[t])
      PROVE  entry \in Pursued
  <2>1. CASE stage = "simulating"
    <3>1. Current \in TaskIds /\ Current' = Current
      BY <1>6, <2>1, TaskTypes DEF TasksInv, Changes
    <3>2. entry \in Found(tasks'[Current])
      BY <1>6, <2>1, <3>1 DEF Pursued, Found, Outcomes
    <3>3. entry \in Found(tasks[Current])
      BY <1>6, <3>1, <3>2 DEF Changes
    <3> QED
      BY <2>1, <3>3 DEF Pursued
  <2>2. CASE stage # "simulating"
    BY <1>6, <2>2 DEF Pursued
  <2> QED
    BY <2>1, <2>2
<1>7. ASSUME NEW t \in TaskIds, NEW e, ThreadEnds(t, e)
      PROVE  entry \in Pursued
  <2>1. /\ Changes(t) /\ e \in tasks[t].running
        /\ tasks'[t].running = tasks[t].running \ {e} /\ tasks'[t].best = tasks[t].best
        /\ \/ tasks'[t].sent = tasks[t].sent
           \/ \E outcome \in Outcome :
                /\ outcome.rank = e[1] /\ outcome.item = e[2]
                /\ tasks'[t].sent = tasks[t].sent \cup {outcome}
    BY <1>7, ThreadEffect
  <2>2. e = <<e[1], e[2]>>
    BY <2>1, TaskTypes
  <2>3. Found(tasks'[t]) \subseteq Found(tasks[t])
    BY <2>1, <2>2 DEF Found, Outcomes
  <2> QED
    BY <1>6, <1>7, <2>1, <2>3 DEF ThreadEnds, readVars
<1>8. ASSUME NEW t \in TaskIds, Receive(t)
      PROVE  entry \in Pursued
  <2>1. /\ Changes(t) /\ tasks'[t].running = tasks[t].running
        /\ \E outcome \in tasks[t].sent :
             /\ tasks'[t].sent = tasks[t].sent \ {outcome}
             /\ tasks'[t].best = outcome \/ tasks'[t].best = tasks[t].best
    BY <1>8, ReceiveEffect
  <2>2. Outcomes(tasks'[t]) \subseteq Outcomes(tasks[t])
    BY <2>1 DEF Outcomes
  <2>3. Found(tasks'[t]) \subseteq Found(tasks[t])
    BY <2>1, <2>2 DEF Found
  <2> QED
    BY <1>6, <1>8, <2>1, <2>3 DEF Receive, readVars
<1>9. CASE RoundDone \/ RoundTimeout \/ Deadline
  BY <1>1, <1>9, EndOfRound DEF Deadline
<1> QED
  BY <1>2, <1>3, <1>4, <1>5, <1>7, <1>8, <1>9 DEF Next, Simulate

(* The items of a block are those that were simulated for it, and none of  *)
(* them was simulated for it twice.                                        *)
LEMMA NextFresh == Types /\ TasksInv /\ FreshInv /\ [Next]_vars => FreshInv'
<1> SUFFICES ASSUME Types, TasksInv, FreshInv, [Next]_vars PROVE FreshInv'
  OBVIOUS
<1>1. CASE UNCHANGED <<block, applied>>
  <2>1. \A entry \in Pursued' : entry[2] \notin applied
    BY PursuedStep DEF FreshInv
  <2> QED
    BY <1>1, <2>1 DEF FreshInv
<1>2. CASE ~UNCHANGED <<block, applied>>
  <2> DEFINE best == tasks[Current].best
             inc == [item |-> items[best.rank], simulated |-> best.item,
                     gas |-> best.gas, score |-> best.score]
  <2>1. RoundDone \/ RoundTimeout
    BY <1>2, BlockIsKept
  <2>2. stage = "simulating" /\ Accept /\ Current > 0 /\ stage' \in {"outer", "built", "panicked"}
    BY <2>1, EndOfRound
  <2>3. /\ best # NoOutcome /\ block' = Append(block, inc)
        /\ applied' = applied \cup {best.item}
    BY <1>2, <2>2, AcceptEffect
  <2>4. best.item \notin applied
    <3>1. <<best.rank, best.item>> \in Pursued
      BY <2>2, <2>3 DEF Pursued, Found, Outcomes
    <3> QED
      BY <3>1 DEF FreshInv
  <2>5. inc.simulated = best.item
    OBVIOUS
  <2> HIDE DEF best, inc
  <2>6. /\ DOMAIN block' = DOMAIN block \cup {Len(block) + 1} /\ Len(block) + 1 \notin DOMAIN block
        /\ block'[Len(block) + 1] = inc
        /\ \A i \in DOMAIN block : block'[i] = block[i]
    BY <2>3, AppendIsLast DEF Types
  <2>7. applied' = {block'[i].simulated : i \in DOMAIN block'}
    <3>1. applied = {block[i].simulated : i \in DOMAIN block}
      BY DEF FreshInv
    <3> QED
      BY <2>3, <2>5, <2>6, <3>1
  <2>8. \A i, j \in DOMAIN block' : block'[i].simulated = block'[j].simulated => i = j
    <3>1. \A i \in DOMAIN block : block[i].simulated # inc.simulated
      BY <2>4, <2>5 DEF FreshInv
    <3> QED
      BY <2>6, <3>1 DEF FreshInv
  <2>9. Pursued' = {}
    BY <2>2 DEF Pursued
  <2> QED
    BY <2>7, <2>8, <2>9 DEF FreshInv
<1> QED
  BY <1>1, <1>2

(* No item's state is applied to the environment twice in a block, however *)
(* often the feeds offer the item again: its nonces are used up.           *)
NothingSimulatedTwice ==
  \A i, j \in DOMAIN block : block[i].simulated = block[j].simulated => i = j

THEOREM ItemsAreAppliedOnce == Spec => []NothingSimulatedTwice
<1>1. Init => FreshInv
  BY DEF Init, FreshInv, Pursued
<1>2. FreshInv => NothingSimulatedTwice
  BY DEF FreshInv, NothingSimulatedTwice
<1> QED
  BY <1>1, <1>2, NextFresh, RoundInvariant, PTL DEF Spec

-----------------------------------------------------------------------------
(* In a round the store only loses entries, if the feeds do not write.     *)
LEMMA StoreShrinks ==
  ASSUME ~FeedsInRound, Types, TasksInv, [Next]_vars, stage # "outer"
  PROVE  Shrinks
<1>1. CASE UNCHANGED items
  BY <1>1 DEF Shrinks, Ranks
<1>2. CASE Preflight \/ Deadline \/ UNCHANGED vars
  BY <1>1, <1>2 DEF Preflight, CheckEntry, ReadError, Deadline, storeVars, vars
<1>3. CASE Spawn
  BY <1>3, SpawnEffect
<1>4. ASSUME NEW t \in TaskIds, NEW entry, ThreadEnds(t, entry)
      PROVE  Shrinks
  <2>1. UNCHANGED storeVars \/ Remove({entry[1]})
    BY <1>4, ThreadEffect
  <2> QED
    BY <1>1, <2>1, RemoveEntries DEF Shrinks, storeVars
<1>5. ASSUME NEW t \in TaskIds, Receive(t)
      PROVE  Shrinks
  BY <1>1, <1>5, ReceiveEffect DEF storeVars
<1>6. CASE RoundDone \/ RoundTimeout
  BY <1>6, EndOfRound, AcceptEffect
<1> QED
  BY <1>2, <1>3, <1>4, <1>5, <1>6 DEF Next, Simulate, Feed, StartRound

LEMMA NextCopies ==
  ASSUME ~FeedsInRound
  PROVE  Types /\ TasksInv /\ CopyInv /\ [Next]_vars => CopyInv'
<1> SUFFICES ASSUME Types, TasksInv, CopyInv, [Next]_vars PROVE CopyInv'
  OBVIOUS
<1>1. ASSUME NEW entry \in Pursued', entry[1] \in Ranks'
      PROVE  items'[entry[1]] = entry[2]
  <2>1. CASE entry \in Pursued
    <3>1. stage # "outer"
      BY <2>1 DEF Pursued
    <3> QED
      BY <1>1, <2>1, <3>1, StoreShrinks DEF Shrinks, CopyInv
  <2>2. CASE entry \notin Pursued
    <3>1. stage = "reading" /\ UNCHANGED storeVars
      BY <2>2, PursuedStep
    <3> PICK rank \in DOMAIN candidates : entry = <<rank, candidates[rank]>>
      BY <2>2, PursuedStep
    <3> QED
      BY <1>1, <3>1 DEF CopyInv, storeVars, Ranks
  <2> QED
    BY <2>1, <2>2
<1>2. ASSUME stage' = "reading"
      PROVE  \A r \in Ranks' \cap DOMAIN candidates' : candidates'[r] = items'[r]
  <2>1. CASE StartRound
    BY <2>1 DEF StartRound, BeginRead, storeVars, Ranks
  <2>2. CASE ~StartRound
    <3>1. stage = "reading"
      BY <1>2, <2>2, EndOfRound DEF Next, Feed, buildVars, Preflight, Spawn, Simulate,
           ThreadEnds, Receive, Deadline, vars
    <3>2. /\ DOMAIN candidates' \subseteq DOMAIN candidates
          /\ \A r \in DOMAIN candidates' : candidates'[r] = candidates[r]
      <4>1. Preflight => CheckBest
        BY <1>2 DEF Preflight, CheckBest
      <4>2. CheckBest => <3>2
        BY DEF CheckBest, CheckEntry
      <4> QED
        BY <1>2, <2>2, <3>1, <4>1, <4>2, EndOfRound
           DEF Next, Feed, Spawn, Simulate, ThreadEnds, Receive, Deadline, vars, readVars
    <3>3. Shrinks
      BY <3>1, StoreShrinks
    <3> QED
      BY <3>1, <3>2, <3>3 DEF CopyInv, Shrinks
  <2> QED
    BY <2>1, <2>2
<1>3. IncludedWasSimulated'
  <2>1. CASE UNCHANGED block
    BY <2>1 DEF CopyInv, IncludedWasSimulated
  <2>2. CASE ~UNCHANGED block
    <3> DEFINE best == tasks[Current].best
               inc == [item |-> items[best.rank], simulated |-> best.item,
                       gas |-> best.gas, score |-> best.score]
    <3>1. RoundDone \/ RoundTimeout
      BY <2>2, BlockIsKept
    <3>2. stage = "simulating" /\ Accept /\ Current > 0
      BY <3>1, EndOfRound
    <3>3. best # NoOutcome /\ best.rank \in Ranks /\ block' = Append(block, inc)
      BY <2>2, <3>2, AcceptEffect
    <3>4. items[best.rank] = best.item
      <4>1. <<best.rank, best.item>> \in Pursued
        BY <3>2, <3>3 DEF Pursued, Found, Outcomes
      <4> QED
        BY <3>3, <4>1 DEF CopyInv
    <3>5. inc.item = inc.simulated
      BY <3>4
    <3> HIDE DEF best, inc
    <3> QED
      BY <3>3, <3>5, AppendIsLast DEF CopyInv, IncludedWasSimulated, Types
  <2> QED
    BY <2>1, <2>2
<1> QED
  BY <1>1, <1>2, <1>3 DEF CopyInv

(* What goes into the block is what was simulated, by rank, as long as the *)
(* feeds leave the cache alone during a round.  Timeouts of rounds do not  *)
(* matter: the threads they leave behind only remove entries.              *)
THEOREM SimulatedItemsGoIn ==
  ASSUME ~FeedsInRound
  PROVE  Spec => []IncludedWasSimulated
<1>1. Init => CopyInv
  BY DEF Init, CopyInv, Pursued, IncludedWasSimulated
<1>2. CopyInv => IncludedWasSimulated
  BY DEF CopyInv
<1> QED
  BY <1>1, <1>2, NextCopies, RoundInvariant, PTL DEF Spec

(* No item is included twice, under the same condition.                    *)
THEOREM ItemsGoInOnce ==
  ASSUME ~FeedsInRound
  PROVE  Spec => []IncludedOnce
<1>1. IncludedWasSimulated /\ NothingSimulatedTwice => IncludedOnce
  BY DEF IncludedWasSimulated, NothingSimulatedTwice, IncludedOnce
<1> QED
  BY <1>1, SimulatedItemsGoIn, ItemsAreAppliedOnce, PTL

-----------------------------------------------------------------------------
(* The builder's own removals keep the cache as the feeds and reads do.    *)
LEMMA NextKeepsCache == Types /\ TasksInv /\ IInv /\ [Next]_vars => IInv'
<1> SUFFICES ASSUME Types, TasksInv, IInv, [Next]_vars PROVE IInv'
  OBVIOUS
<1>1. ASSUME NEW ranks, Remove(ranks), UNCHANGED disallowed
      PROVE  IInv'
  BY <1>1, RemoveAndDisallow
<1>2. CASE UNCHANGED storeVars
  BY <1>2, StoreUnchanged
<1>3. CASE Feed \/ StartRound \/ Preflight \/ Spawn
  <2>1. [CacheNext]_cacheVars
    BY <1>3 DEF Feed, StartRound, Preflight, Spawn, CacheNext, ReadNext, CheckBest
  <2> QED
    BY <2>1, NextDistinct
<1>4. ASSUME NEW t \in TaskIds, NEW entry, ThreadEnds(t, entry)
      PROVE  IInv'
  BY <1>1, <1>2, <1>4, ThreadEffect
<1>5. CASE RoundDone \/ RoundTimeout
  BY <1>1, <1>2, <1>5 DEF RoundDone, RoundTimeout, Accept
<1>6. CASE Deadline \/ UNCHANGED vars \/ \E t \in TaskIds : Receive(t)
  BY <1>2, <1>6 DEF Deadline, vars, Receive, storeVars
<1> QED
  BY <1>3, <1>4, <1>5, <1>6 DEF Next, Simulate

(* While blocks are built from the cache, no two entries share an          *)
(* identifier and none is disallowed.                                      *)
THEOREM BuildingKeepsTheCache == Spec => [](ItemsAreDistinct /\ DisallowedStayOut)
<1>1. Init => IInv
  BY InitDistinct DEF Init
<1>2. IInv => ItemsAreDistinct /\ DisallowedStayOut
  BY DEF IInv
<1> QED
  BY <1>1, <1>2, NextKeepsCache, RoundInvariant, PTL DEF Spec

-----------------------------------------------------------------------------

Account == [nonce : Nat, balance : Nat]
AccountsOn(chain) == [Signer[chain] -> Account]
AreAccounts(accounts) == \A chain \in Chains : accounts[chain] \in AccountsOn(chain)

JudgedAs == {"never", "future", "now"}

(* How often an account comes among the first so many of a list.           *)
Times(txs, s, n) == Cardinality({j \in 1..n : txs[j].signer = s})

(* A nonce of the list is used up, whatever becomes of the transactions    *)
(* before it.                                                              *)
UsedUpOn(txs, accounts) ==
  \E i \in DOMAIN txs :
    txs[i].nonce < accounts[txs[i].signer].nonce + Times(txs, txs[i].signer, i - 1)

(* One of the item's is, on the chain or in the block that is being built. *)
UsedUp(item, chains, build) ==
  \E chain \in Chains : \/ UsedUpOn(TxsOn(item, chain), chains[chain])
                        \/ UsedUpOn(TxsOn(item, chain), build[chain])

VerdictHolds(v, chains, build) ==
  /\ v[2] = "never" => UsedUp(v[1], chains, build)
  /\ v[2] = "now" /\ ~v[3] => RunsOn(v[1], build) /\ Payable(v[1], build)

(* The first so many transactions of a list are in order.                  *)
OrderedUpTo(txs, n, accounts) ==
  \A i \in 1..n :
    txs[i].nonce = accounts[txs[i].signer].nonce + Times(txs, txs[i].signer, i - 1)

(* The nonces that were cached after so many transactions of a list: the   *)
(* accounts' own can only have grown since they were read.                 *)
CachedHold(nonces, txs, n, accounts) ==
  /\ DOMAIN nonces = {txs[j].signer : j \in 1..n}
  /\ \A s \in DOMAIN nonces :
       nonces[s] \in Nat /\ nonces[s] <= accounts[s].nonce + Times(txs, s, n)

(* If they have not, the transactions are in order.                        *)
UpToDate(nonces, txs, n, accounts) ==
  /\ OrderedUpTo(txs, n, accounts)
  /\ \A s \in DOMAIN nonces : nonces[s] = accounts[s].nonce + Times(txs, s, n)

NonceAfter(nonces, s, accounts) ==
  IF s \in DOMAIN nonces THEN nonces[s] ELSE accounts[s].nonce

Caches == UNION {[S -> Nat] : S \in SUBSET (Signer["ru"] \cup Signer["host"])}
CheckRecord ==
  [item : Offers, chain : Chains, rollup : JudgedAs, next : Nat, nonces : Caches,
   moved : BOOLEAN]

CheckHolds(c, chains, build) ==
  /\ c \in CheckRecord /\ c.item.txs # <<>>
  /\ c.next # 0 /\ c.next <= Len(ListOf(c)) + 1
  /\ CachedHold(c.nonces, ListOf(c), c.next - 1, build[c.chain])
  /\ ~c.moved => UpToDate(c.nonces, ListOf(c), c.next - 1, build[c.chain])
  /\ c.chain = "ru" /\ c.next # 1 /\ ~c.moved => Payable(c.item, build)
  /\ c.chain = "host" =>
       /\ c.rollup = "never" => UsedUp(c.item, chains, build)
       /\ c.rollup = "now" /\ ~c.moved =>
            InOrder(c.item.txs, build["ru"]) /\ Payable(c.item, build)

PreflightTypeOK ==
  /\ DOMAIN live = Chains /\ AreAccounts(live)
  /\ DOMAIN committed = Chains
  /\ \A chain \in Chains :
       /\ DOMAIN committed[chain] \subseteq Signer[chain]
       /\ \A s \in DOMAIN committed[chain] : committed[chain][s] \in Account
  /\ verdicts \subseteq Offers \X {"never", "now"} \X BOOLEAN

(* The inductive invariant behind VerdictsHold.  A verdict is kept with    *)
(* the nonce that is used up, not with a list that happens to be out of    *)
(* order: an account's nonce may still come up to what a list asks for.    *)
PreflightInv ==
  /\ PreflightTypeOK
  /\ \A c \in check : CheckHolds(c, live, ToBuildOn)
  /\ \A v \in verdicts : VerdictHolds(v, live, ToBuildOn)
-----------------------------------------------------------------------------
LEMMA TimesFacts ==
  ASSUME NEW txs, NEW s, NEW n \in Nat
  PROVE  /\ Times(txs, s, n) \in Nat /\ Times(txs, s, n) <= n
         /\ Times(txs, s, n + 1) = IF txs[n + 1].signer = s THEN Times(txs, s, n) + 1
                                   ELSE Times(txs, s, n)
         /\ (\A j \in 1..n : txs[j].signer # s) => Times(txs, s, n) = 0
<1> DEFINE T == {j \in 1..n : txs[j].signer = s}
           U == {j \in 1..(n + 1) : txs[j].signer = s}
<1>1. IsFiniteSet(1..n) /\ Cardinality(1..n) = n
  BY FS_Interval
<1>2. IsFiniteSet(T) /\ Cardinality(T) <= n
  BY <1>1, FS_Subset
<1>3. Cardinality(T) \in Nat
  BY <1>2, FS_CardinalityType
<1>4. n + 1 \notin T /\ 1..(n + 1) = (1..n) \cup {n + 1}
  OBVIOUS
<1>5. CASE txs[n + 1].signer = s
  <2>1. U = T \cup {n + 1}
    BY <1>4, <1>5
  <2>2. Cardinality(U) = Cardinality(T) + 1
    BY <1>2, <1>4, <2>1, FS_AddElement
  <2> QED
    BY <1>2, <1>3, <1>5, <2>2, FS_EmptySet DEF Times
<1>6. CASE txs[n + 1].signer # s
  <2>1. U = T
    BY <1>4, <1>6
  <2> QED
    BY <1>2, <1>3, <1>6, <2>1, FS_EmptySet DEF Times
<1> QED
  BY <1>5, <1>6

LEMMA NoTimes ==
  ASSUME NEW txs, NEW s
  PROVE  Times(txs, s, 0) = 0
<1>1. \A j \in 1..0 : txs[j].signer # s
  OBVIOUS
<1> QED
  BY <1>1, TimesFacts

LEMMA ListType ==
  ASSUME NEW item \in Offers, NEW chain \in Chains
  PROVE  /\ TxsOn(item, chain) \in Seq(TransactionOn(chain))
         /\ Len(TxsOn(item, chain)) \in Nat
         /\ DOMAIN TxsOn(item, chain) = 1..Len(TxsOn(item, chain))
         /\ \A i \in 1..Len(TxsOn(item, chain)) :
              TxsOn(item, chain)[i] \in TransactionOn(chain)
<1>1. TxsOn(item, chain) \in Seq(TransactionOn(chain))
  BY OffersAssumption DEF TxsOn, Chains
<1> QED
  BY <1>1

LEMMA TransactionType ==
  ASSUME NEW chain, NEW tx \in TransactionOn(chain)
  PROVE  /\ tx.signer \in Signer[chain] /\ tx.nonce \in Nat
         /\ tx.maxFee \in Nat /\ tx.gasLimit \in Nat /\ tx.value \in Nat
BY DEF TransactionOn

(* A nonce that is used up keeps the list from being in order, for good.   *)
LEMMA UsedUpBreaks ==
  ASSUME NEW chain \in Chains, NEW item \in Offers, NEW accounts \in AccountsOn(chain),
         UsedUpOn(TxsOn(item, chain), accounts)
  PROVE  ~InOrder(TxsOn(item, chain), accounts)
<1> DEFINE txs == TxsOn(item, chain)
<1>1. PICK i \in DOMAIN txs :
        txs[i].nonce < accounts[txs[i].signer].nonce + Times(txs, txs[i].signer, i - 1)
  BY DEF UsedUpOn
<1>2. i \in 1..Len(txs) /\ txs[i] \in TransactionOn(chain) /\ i - 1 \in Nat
  BY <1>1, ListType
<1>3. txs[i].nonce \in Nat /\ accounts[txs[i].signer].nonce \in Nat
      /\ Times(txs, txs[i].signer, i - 1) \in Nat
  BY <1>2, TransactionType, TimesFacts DEF AccountsOn, Account
<1> HIDE DEF txs
<1> SUFFICES ASSUME InOrder(txs, accounts) PROVE FALSE
  BY DEF txs
<1>4. txs[i].nonce = accounts[txs[i].signer].nonce + Times(txs, txs[i].signer, i - 1)
  BY <1>1 DEF InOrder, Times
<1> QED
  BY <1>1, <1>3, <1>4

LEMMA UsedUpStays ==
  ASSUME NEW chain \in Chains, NEW item \in Offers,
         NEW a \in AccountsOn(chain), NEW b \in AccountsOn(chain),
         \A s \in Signer[chain] : a[s].nonce <= b[s].nonce,
         UsedUpOn(TxsOn(item, chain), a)
  PROVE  UsedUpOn(TxsOn(item, chain), b)
<1> DEFINE txs == TxsOn(item, chain)
<1>1. PICK i \in DOMAIN txs :
        txs[i].nonce < a[txs[i].signer].nonce + Times(txs, txs[i].signer, i - 1)
  BY DEF UsedUpOn
<1>2. i \in 1..Len(txs) /\ txs[i] \in TransactionOn(chain) /\ i - 1 \in Nat
  BY <1>1, ListType
<1>3. /\ txs[i].nonce \in Nat /\ txs[i].signer \in Signer[chain]
      /\ a[txs[i].signer].nonce \in Nat /\ b[txs[i].signer].nonce \in Nat
      /\ Times(txs, txs[i].signer, i - 1) \in Nat
  BY <1>2, TransactionType, TimesFacts DEF AccountsOn, Account
<1>4. txs[i].nonce < b[txs[i].signer].nonce + Times(txs, txs[i].signer, i - 1)
  BY <1>1, <1>3
<1> QED
  BY <1>4 DEF UsedUpOn

(* A transaction that is checked against the cached nonces.                *)
LEMMA CheckOne ==
  ASSUME NEW chain \in Chains, NEW item \in Offers, NEW accounts \in AccountsOn(chain),
         NEW n \in Nat, n + 1 <= Len(TxsOn(item, chain)),
         NEW nonces, CachedHold(nonces, TxsOn(item, chain), n, accounts)
  PROVE  LET tx == TxsOn(item, chain)[n + 1]
             nonce == NonceAfter(nonces, tx.signer, accounts)
             cached == Cached(nonces, tx.signer, nonce)
         IN  /\ nonce \in Nat /\ tx.nonce \in Nat
             /\ tx.nonce < nonce => UsedUpOn(TxsOn(item, chain), accounts)
             /\ CachedHold(cached, TxsOn(item, chain), n + 1, accounts)
             /\ cached \in [DOMAIN nonces \cup {tx.signer} -> Nat]
             /\ tx.nonce = nonce /\ UpToDate(nonces, TxsOn(item, chain), n, accounts) =>
                  UpToDate(cached, TxsOn(item, chain), n + 1, accounts)
<1> DEFINE txs == TxsOn(item, chain)
           tx == txs[n + 1]
           nonce == NonceAfter(nonces, tx.signer, accounts)
           cached == Cached(nonces, tx.signer, nonce)
           own == accounts[tx.signer].nonce
           up == UpToDate(nonces, txs, n, accounts)
<1>1. /\ n + 1 \in 1..Len(txs) /\ n + 1 \in DOMAIN txs /\ tx \in TransactionOn(chain)
      /\ (n + 1) - 1 = n /\ tx = txs[n + 1]
  BY ListType
<1>2. tx.signer \in Signer[chain] /\ tx.nonce \in Nat /\ own \in Nat
  BY <1>1, TransactionType DEF AccountsOn, Account
<1>3. nonce = IF tx.signer \in DOMAIN nonces THEN nonces[tx.signer] ELSE own
  BY DEF NonceAfter
<1>4. cached = [s \in DOMAIN nonces \cup {tx.signer} |->
                  IF s = tx.signer THEN nonce + 1 ELSE nonces[s]]
  BY DEF Cached, Following
<1>5. /\ DOMAIN nonces = {txs[j].signer : j \in 1..n}
      /\ \A s \in DOMAIN nonces :
           nonces[s] \in Nat /\ nonces[s] <= accounts[s].nonce + Times(txs, s, n)
      /\ up => \A s \in DOMAIN nonces : nonces[s] = accounts[s].nonce + Times(txs, s, n)
  BY DEF CachedHold, UpToDate
<1>6. up => OrderedUpTo(txs, n, accounts)
  BY DEF UpToDate
<1> HIDE DEF txs, tx, nonce, cached, own, up
<1>7. /\ \A s : Times(txs, s, n) \in Nat
      /\ \A s : Times(txs, s, n + 1) = IF txs[n + 1].signer = s THEN Times(txs, s, n) + 1
                                     ELSE Times(txs, s, n)
      /\ \A s : (\A j \in 1..n : txs[j].signer # s) => Times(txs, s, n) = 0
  BY ONLY n \in Nat, TimesFacts, SMTT(30)
<1> DEFINE t == Times(txs, tx.signer, n)
<1>8. nonce \in Nat /\ nonce <= own + t /\ (up => nonce = own + t) /\ t \in Nat
  <2>1. CASE tx.signer \in DOMAIN nonces
    BY <1>3, <1>5, <1>7, <2>1 DEF own
  <2>2. CASE tx.signer \notin DOMAIN nonces
    <3>1. t = 0
      BY <1>5, <1>7, <2>2
    <3> QED
      BY <1>2, <1>3, <2>2, <3>1
  <2> QED
    BY <2>1, <2>2
<1> HIDE DEF t
<1>9. Times(txs, tx.signer, n + 1) = t + 1
  BY <1>1, <1>7 DEF t
<1>10. ASSUME tx.nonce < nonce
       PROVE  UsedUpOn(txs, accounts)
  <2>1. tx.nonce < own + t
    BY <1>2, <1>8, <1>10
  <2> QED
    BY <1>1, <2>1 DEF UsedUpOn, own, t
<1>11. \A i \in 1..(n + 1) : i \in 1..n \/ i = n + 1
  OBVIOUS
<1>12. DOMAIN cached = {txs[j].signer : j \in 1..(n + 1)}
  <2>1. DOMAIN cached = DOMAIN nonces \cup {tx.signer}
    BY <1>4
  <2>2. n + 1 \in 1..(n + 1) /\ \A i \in 1..n : i \in 1..(n + 1)
    OBVIOUS
  <2> QED
    BY <1>1, <1>5, <1>11, <2>1, <2>2
<1>13. ASSUME NEW s \in DOMAIN cached
       PROVE  /\ cached[s] \in Nat
              /\ cached[s] <= accounts[s].nonce + Times(txs, s, n + 1)
              /\ up => cached[s] = accounts[s].nonce + Times(txs, s, n + 1)
  <2>1. CASE s = tx.signer
    <3>1. cached[s] = nonce + 1 /\ Times(txs, s, n + 1) = t + 1 /\ accounts[s].nonce = own
      BY <1>4, <1>9, <2>1 DEF own
    <3>2. nonce + 1 \in Nat /\ nonce + 1 <= own + (t + 1) /\ (up => nonce + 1 = own + (t + 1))
      BY <1>2, <1>8
    <3> QED
      BY <3>1, <3>2
  <2>2. CASE s # tx.signer
    <3>1. s \in DOMAIN nonces /\ cached[s] = nonces[s] /\ Times(txs, s, n + 1) = Times(txs, s, n)
      BY <1>1, <1>4, <1>7, <2>2
    <3> QED
      BY <1>5, <3>1
  <2> QED
    BY <2>1, <2>2
<1>14. CachedHold(cached, txs, n + 1, accounts)
  BY <1>12, <1>13 DEF CachedHold
<1>15. cached \in [DOMAIN nonces \cup {tx.signer} -> Nat]
  <2> DEFINE D == DOMAIN nonces \cup {tx.signer}
  <2>1. cached = [s \in D |-> cached[s]] /\ D = DOMAIN cached
    BY <1>4
  <2>2. \A s \in DOMAIN cached : cached[s] \in Nat
    BY <1>13
  <2> HIDE DEF D
  <2> QED
    BY <2>1, <2>2 DEF D
<1>16. ASSUME tx.nonce = nonce, up
       PROVE  UpToDate(cached, txs, n + 1, accounts)
  <2>1. txs[n + 1].nonce = accounts[txs[n + 1].signer].nonce
                             + Times(txs, txs[n + 1].signer, (n + 1) - 1)
    BY <1>1, <1>8, <1>16 DEF own, t
  <2>2. \A i \in 1..n :
          txs[i].nonce = accounts[txs[i].signer].nonce + Times(txs, txs[i].signer, i - 1)
    BY <1>6, <1>16 DEF OrderedUpTo
  <2>3. OrderedUpTo(txs, n + 1, accounts)
    BY <1>11, <2>1, <2>2 DEF OrderedUpTo
  <2> QED
    BY <1>13, <1>16, <2>3 DEF UpToDate
<1> QED
  BY <1>2, <1>8, <1>10, <1>14, <1>15, <1>16 DEF txs, tx, nonce, cached, up

(* A fee that fits its word is not cut off.                                *)
LEMMA FeeFits ==
  ASSUME NEW fee \in Nat, fee < FeeWord
  PROVE  fee % FeeWord = fee
BY PreflightAssumption

LEMMA CanBePaid ==
  ASSUME NEW item \in Offers, item.txs # <<>>, NEW accounts, AreAccounts(accounts),
         ~(Required(item.txs[1]) > accounts["ru"][item.txs[1].signer].balance)
  PROVE  Payable(item, accounts)
<1> DEFINE tx == item.txs[1]
           fee == tx.maxFee * tx.gasLimit
           has == accounts["ru"][tx.signer].balance
<1>1. "ru" \in Chains /\ TxsOn(item, "ru") = item.txs
  BY DEF Chains, TxsOn
<1>2. Len(item.txs) \in Nat /\ item.txs \in Seq(TransactionOn("ru"))
  BY <1>1, ListType
<1>3. 1 \in 1..Len(item.txs)
  BY <1>2
<1>4. tx \in TransactionOn("ru")
  BY <1>1, <1>3, ListType
<1>5. /\ tx.signer \in Signer["ru"] /\ fee \in Nat /\ tx.value \in Nat /\ has \in Nat
  <2>1. tx.signer \in Signer["ru"] /\ tx.maxFee \in Nat /\ tx.gasLimit \in Nat /\ tx.value \in Nat
    BY <1>4, TransactionType
  <2>2. accounts["ru"] \in AccountsOn("ru")
    BY <1>1 DEF AreAccounts
  <2> QED
    BY <2>1, <2>2, SMTT(30) DEF AccountsOn, Account
<1>6. ~((fee % FeeWord) + tx.value > has)
  BY DEF Required
<1> SUFFICES ASSUME fee < FeeWord PROVE fee + tx.value <= has
  BY DEF Payable
<1>7. fee % FeeWord = fee
  BY <1>5, FeeFits
<1> HIDE DEF fee, has
<1> QED
  BY <1>5, <1>6, <1>7

LEMMA BuildType == PreflightTypeOK => AreAccounts(ToBuildOn)
<1> SUFFICES ASSUME PreflightTypeOK, NEW chain \in Chains
             PROVE  ToBuildOn[chain] \in AccountsOn(chain)
  BY DEF AreAccounts
<1>1. ToBuildOn[chain] = [s \in Signer[chain] |-> AccountDetails(chain, s)]
  BY DEF ToBuildOn
<1>2. ASSUME NEW s \in Signer[chain]
      PROVE  AccountDetails(chain, s) \in Account
  BY DEF AccountDetails, PreflightTypeOK, AreAccounts, AccountsOn
<1> QED
  BY <1>1, <1>2 DEF AccountsOn

(* What holds of verdicts keeps VerdictsHold.                              *)
LEMMA VerdictMeans ==
  ASSUME PreflightInv
  PROVE  VerdictsHold
<1>1. AreAccounts(live) /\ AreAccounts(ToBuildOn)
  BY BuildType DEF PreflightInv, PreflightTypeOK
<1> SUFFICES ASSUME NEW v \in verdicts
             PROVE  /\ v[2] = "never" => ~RunsOn(v[1], live) \/ ~RunsOn(v[1], ToBuildOn)
                    /\ v[2] = "now" /\ ~v[3] =>
                         RunsOn(v[1], ToBuildOn) /\ Payable(v[1], ToBuildOn)
  BY DEF VerdictsHold
<1>2. VerdictHolds(v, live, ToBuildOn) /\ v[1] \in Offers
  BY DEF PreflightInv, PreflightTypeOK
<1>3. ASSUME UsedUp(v[1], live, ToBuildOn)
      PROVE  ~RunsOn(v[1], live) \/ ~RunsOn(v[1], ToBuildOn)
  <2>1. PICK chain \in Chains : \/ UsedUpOn(TxsOn(v[1], chain), live[chain])
                               \/ UsedUpOn(TxsOn(v[1], chain), ToBuildOn[chain])
    BY <1>3 DEF UsedUp
  <2>2. \/ ~InOrder(TxsOn(v[1], chain), live[chain])
        \/ ~InOrder(TxsOn(v[1], chain), ToBuildOn[chain])
    BY <1>1, <1>2, <2>1, UsedUpBreaks DEF AreAccounts
  <2> QED
    BY <2>2 DEF RunsOn
<1> QED
  BY <1>2, <1>3 DEF VerdictHolds
-----------------------------------------------------------------------------
(* The steps of a check.                                                   *)
LEMMA BuildStays == UNCHANGED <<live, committed>> => ToBuildOn' = ToBuildOn
BY DEF ToBuildOn, AccountDetails

(* A verdict that holds is kept, one for later is not.                     *)
LEMMA JudgedInv ==
  ASSUME PreflightInv, UNCHANGED <<live, committed>>,
         \A c \in check' : CheckHolds(c, live, ToBuildOn),
         NEW item \in Offers, NEW verdict \in JudgedAs, NEW moved \in BOOLEAN,
         Judged(item, verdict, moved),
         verdict = "never" => UsedUp(item, live, ToBuildOn),
         verdict = "now" /\ ~moved => RunsOn(item, ToBuildOn) /\ Payable(item, ToBuildOn)
  PROVE  PreflightInv'
<1>1. ToBuildOn' = ToBuildOn /\ live' = live /\ committed' = committed
  BY BuildStays
<1> DEFINE v == <<item, verdict, moved>>
<1>2. verdict # "future" => VerdictHolds(v, live, ToBuildOn)
                            /\ v \in Offers \X {"never", "now"} \X BOOLEAN
  BY DEF VerdictHolds, JudgedAs
<1>3. verdicts' \subseteq verdicts \cup (IF verdict = "future" THEN {} ELSE {v})
  BY DEF Judged
<1> HIDE DEF v
<1>4. \A w \in verdicts' : VerdictHolds(w, live, ToBuildOn)
  BY <1>2, <1>3 DEF PreflightInv
<1>5. verdicts' \subseteq Offers \X {"never", "now"} \X BOOLEAN
  BY <1>2, <1>3 DEF PreflightInv, PreflightTypeOK
<1> QED
  BY <1>1, <1>4, <1>5 DEF PreflightInv, PreflightTypeOK

(* A check begins to read the nonces of a list.                            *)
LEMMA NothingCached ==
  ASSUME NEW item \in Offers, item.txs # <<>>, NEW chain \in Chains,
         NEW rollup \in JudgedAs, NEW moved \in BOOLEAN, NEW chains, NEW build,
         chain = "host" => /\ rollup = "never" => UsedUp(item, chains, build)
                           /\ rollup = "now" /\ ~moved =>
                                InOrder(item.txs, build["ru"]) /\ Payable(item, build)
  PROVE  \A c \in Reading(item, chain, rollup, moved) : CheckHolds(c, chains, build)
<1> SUFFICES ASSUME NEW c \in Reading(item, chain, rollup, moved)
             PROVE  CheckHolds(c, chains, build)
  OBVIOUS
<1>1. c = [item |-> item, chain |-> chain, rollup |-> rollup, next |-> 1,
           nonces |-> <<>>, moved |-> moved]
  BY DEF Reading
<1>2. ListOf(c) = TxsOn(item, chain)
  BY <1>1 DEF ListOf, TxsOn
<1>3. Len(ListOf(c)) \in Nat
  BY <1>2, ListType
<1>4. DOMAIN <<>> = {} /\ 1..0 = {} /\ 1 - 1 = 0
  OBVIOUS
<1>5. <<>> \in Caches
  <2>1. <<>> \in [{} -> Nat]
    BY <1>4
  <2> QED
    BY <2>1 DEF Caches
<1>6. c \in CheckRecord
  BY <1>1, <1>5 DEF CheckRecord
<1>7. CachedHold(c.nonces, ListOf(c), c.next - 1, build[c.chain])
  BY <1>1, <1>4 DEF CachedHold
<1>8. UpToDate(c.nonces, ListOf(c), c.next - 1, build[c.chain])
  BY <1>1, <1>4 DEF UpToDate, OrderedUpTo
<1> QED
  BY <1>1, <1>3, <1>6, <1>7, <1>8 DEF CheckHolds

LEMMA EndListInv ==
  ASSUME PreflightInv, UNCHANGED <<live, committed>>,
         NEW c \in check, NEW verdict \in JudgedAs, EndList(c, verdict),
         verdict = "never" => UsedUp(c.item, live, ToBuildOn),
         verdict = "now" /\ ~c.moved =>
           /\ InOrder(ListOf(c), ToBuildOn[c.chain])
           /\ c.chain = "ru" => Payable(c.item, ToBuildOn)
  PROVE  PreflightInv'
<1>1. CheckHolds(c, live, ToBuildOn)
  BY DEF PreflightInv
<1>2. /\ c.item \in Offers /\ c.chain \in Chains /\ c.rollup \in JudgedAs
      /\ c.moved \in BOOLEAN /\ c.item.txs # <<>>
  BY <1>1 DEF CheckHolds, CheckRecord
<1>3. CASE c.chain = "ru"
  <2>1. check' = Reading(c.item, "host", verdict, c.moved) /\ verdicts' = verdicts
    BY <1>3 DEF EndList
  <2>2. ListOf(c) = c.item.txs /\ "host" \in Chains
    BY <1>3 DEF ListOf, Chains
  <2>3. \A d \in check' : CheckHolds(d, live, ToBuildOn)
    BY <1>2, <1>3, <2>1, <2>2, NothingCached
  <2> QED
    BY <2>1, <2>3, BuildStays DEF PreflightInv, PreflightTypeOK
<1>4. CASE c.chain # "ru"
  <2>1. c.chain = "host" /\ ListOf(c) = c.item.hostTxs
    BY <1>2, <1>4 DEF Chains, ListOf
  <2>2. check' = {} /\ Judged(c.item, Least(c.rollup, verdict), c.moved)
    BY <1>4 DEF EndList
  <2>3. /\ c.rollup = "never" => UsedUp(c.item, live, ToBuildOn)
        /\ c.rollup = "now" /\ ~c.moved =>
             InOrder(c.item.txs, ToBuildOn["ru"]) /\ Payable(c.item, ToBuildOn)
    BY <1>1, <2>1 DEF CheckHolds
  <2>4. /\ Least(c.rollup, verdict) \in JudgedAs
        /\ Least(c.rollup, verdict) = "never" => c.rollup = "never" \/ verdict = "never"
        /\ Least(c.rollup, verdict) = "now" => c.rollup = "now" /\ verdict = "now"
    BY <1>2 DEF Least, JudgedAs
  <2>5. ASSUME Least(c.rollup, verdict) = "now", ~c.moved
        PROVE  RunsOn(c.item, ToBuildOn) /\ Payable(c.item, ToBuildOn)
    <3>1. InOrder(c.item.hostTxs, ToBuildOn["host"])
      BY <2>1, <2>4, <2>5
    <3>2. InOrder(c.item.txs, ToBuildOn["ru"]) /\ Payable(c.item, ToBuildOn)
      BY <2>3, <2>4, <2>5
    <3> QED
      BY <3>1, <3>2 DEF RunsOn, TxsOn, Chains
  <2>6. \A d \in check' : CheckHolds(d, live, ToBuildOn)
    BY <2>2
  <2> QED
    BY <1>2, <2>2, <2>3, <2>4, <2>5, <2>6, JudgedInv
<1> QED
  BY <1>3, <1>4

LEMMA CheckSingleInv ==
  ASSUME PreflightInv, NEW offer \in Offers, CheckSingle(offer)
  PROVE  PreflightInv'
<1>1. PICK item \in ToSimItem(offer) :
        /\ item.kind = "tx"
        /\ Judged(item, CheckTx(item.txs[1], AccountDetails("ru", item.txs[1].signer)), FALSE)
  BY DEF CheckSingle
<1> DEFINE tx == item.txs[1]
           account == AccountDetails("ru", tx.signer)
           verdict == CheckTx(tx, account)
<1>2. UNCHANGED <<live, committed>> /\ check' = {}
  BY DEF CheckSingle, MayCheck
<1>3. item \in Offers /\ Len(item.txs) = 1 /\ item.hostTxs = <<>>
  BY <1>1, OffersAssumption DEF ToSimItem
<1>4. AreAccounts(ToBuildOn)
  BY BuildType DEF PreflightInv
<1>5. /\ "ru" \in Chains /\ TxsOn(item, "ru") = item.txs /\ TxsOn(item, "host") = <<>>
      /\ DOMAIN item.txs = 1..1 /\ item.txs # <<>> /\ tx \in TransactionOn("ru")
  <2>1. "ru" \in Chains /\ TxsOn(item, "ru") = item.txs /\ TxsOn(item, "host") = <<>>
    BY <1>3 DEF Chains, TxsOn
  <2>2. /\ item.txs \in Seq(TransactionOn("ru")) /\ DOMAIN item.txs = 1..1
        /\ 1 \in 1..1 /\ \A i \in 1..1 : item.txs[i] \in TransactionOn("ru")
    BY <1>3, <2>1, ListType
  <2> QED
    BY <1>3, <2>1, <2>2
<1>6. account = ToBuildOn["ru"][tx.signer] /\ account \in Account
      /\ tx.nonce \in Nat /\ account.nonce \in Nat
  <2>1. tx.signer \in Signer["ru"] /\ tx.nonce \in Nat
    BY <1>5, TransactionType
  <2>2. account = ToBuildOn["ru"][tx.signer]
    BY <1>5, <2>1 DEF ToBuildOn
  <2> QED
    BY <1>4, <1>5, <2>1, <2>2 DEF AreAccounts, AccountsOn, Account
<1>7. Times(item.txs, tx.signer, 0) = 0 /\ 1 - 1 = 0
  BY NoTimes
<1>8. verdict \in JudgedAs
  BY <1>6 DEF CheckTx, JudgedAs
<1>9. verdict = "never" => UsedUp(item, live, ToBuildOn)
  <2> SUFFICES ASSUME verdict = "never" PROVE UsedUpOn(item.txs, ToBuildOn["ru"])
    BY <1>5 DEF UsedUp
  <2>1. tx.nonce < account.nonce + 0
    BY <1>6 DEF CheckTx
  <2>2. 1 \in DOMAIN item.txs
    BY <1>5
  <2> QED
    BY <1>6, <1>7, <2>1, <2>2 DEF UsedUpOn
<1>10. ASSUME verdict = "now"
       PROVE  RunsOn(item, ToBuildOn) /\ Payable(item, ToBuildOn)
  <2>1. tx.nonce = account.nonce /\ ~(account.balance < Required(tx))
    BY <1>6, <1>10 DEF CheckTx
  <2>2. InOrder(item.txs, ToBuildOn["ru"])
    <3>1. tx.nonce = ToBuildOn["ru"][tx.signer].nonce + Times(item.txs, tx.signer, 1 - 1)
      BY <1>6, <1>7, <2>1
    <3>2. \A i \in DOMAIN item.txs : i = 1
      BY <1>5
    <3> QED
      BY <3>1, <3>2 DEF InOrder, Times
  <2>3. InOrder(<<>>, ToBuildOn["host"])
    BY DEF InOrder
  <2>4. Payable(item, ToBuildOn)
    <3>1. ~(Required(tx) > ToBuildOn["ru"][tx.signer].balance)
      BY <1>6, <2>1
    <3> QED
      BY <1>3, <1>4, <1>5, <3>1, CanBePaid
  <2> QED
    BY <1>5, <2>2, <2>3, <2>4 DEF RunsOn, Chains
<1>11. Judged(item, verdict, FALSE)
  BY <1>1
<1> HIDE DEF verdict
<1> QED
  BY <1>2, <1>3, <1>8, <1>9, <1>10, <1>11, JudgedInv

LEMMA BeginCheckInv ==
  ASSUME PreflightInv, NEW offer \in Offers, BeginCheck(offer)
  PROVE  PreflightInv'
<1>1. PICK item \in ToSimItem(offer) :
        item.kind = "bundle" /\ check' = Reading(item, "ru", "now", FALSE)
  BY DEF BeginCheck
<1>2. item \in Offers /\ item.txs # <<>>
  BY <1>1 DEF ToSimItem
<1>3. "ru" \in Chains /\ "now" \in JudgedAs
  BY DEF Chains, JudgedAs
<1>4. \A c \in check' : CheckHolds(c, live, ToBuildOn)
  BY <1>1, <1>2, <1>3, NothingCached
<1>5. UNCHANGED <<live, committed, verdicts>>
  BY DEF BeginCheck
<1> QED
  BY <1>4, <1>5, BuildStays DEF PreflightInv, PreflightTypeOK

LEMMA EndRequirementsInv ==
  ASSUME PreflightInv, EndRequirements
  PROVE  PreflightInv'
<1>1. PICK c \in check : c.next > Len(ListOf(c)) /\ EndList(c, "now")
  BY DEF EndRequirements
<1>2. CheckHolds(c, live, ToBuildOn)
  BY DEF PreflightInv
<1>3. /\ c.item \in Offers /\ c.chain \in Chains /\ ListOf(c) = TxsOn(c.item, c.chain)
      /\ c.next \in Nat /\ c.next <= Len(ListOf(c)) + 1 /\ c.item.txs # <<>>
  BY <1>2 DEF CheckHolds, CheckRecord, ListOf, TxsOn
<1>4. Len(ListOf(c)) \in Nat /\ DOMAIN ListOf(c) = 1..Len(ListOf(c))
  BY <1>3, ListType
<1>5. c.next - 1 = Len(ListOf(c))
  BY <1>1, <1>3, <1>4
<1>6. ASSUME ~c.moved
      PROVE  /\ InOrder(ListOf(c), ToBuildOn[c.chain])
             /\ c.chain = "ru" => Payable(c.item, ToBuildOn)
  <2>1. OrderedUpTo(ListOf(c), Len(ListOf(c)), ToBuildOn[c.chain])
    BY <1>2, <1>5, <1>6 DEF CheckHolds, UpToDate
  <2>2. InOrder(ListOf(c), ToBuildOn[c.chain])
    BY <1>4, <2>1 DEF InOrder, OrderedUpTo, Times
  <2>3. ASSUME c.chain = "ru" PROVE Payable(c.item, ToBuildOn)
    <3>1. ListOf(c) = c.item.txs /\ c.item.txs \in Seq(TransactionOn("ru"))
      BY <1>3, <2>3, ListType DEF ListOf, TxsOn
    <3>2. c.next # 1
      BY <1>3, <1>4, <1>5, <3>1
    <3> QED
      BY <1>2, <1>6, <2>3, <3>2 DEF CheckHolds
  <2> QED
    BY <2>2, <2>3
<1>7. "now" \in JudgedAs /\ UNCHANGED <<live, committed>>
  BY DEF JudgedAs, EndRequirements
<1> QED
  BY <1>1, <1>6, <1>7, EndListInv

LEMMA CheckRequirementInv ==
  ASSUME PreflightInv, CheckRequirement
  PROVE  PreflightInv'
<1>1. PICK c \in check :
        /\ c.next <= Len(ListOf(c))
        /\ LET tx == ListOf(c)[c.next]
               nonce == NextNonce(c, tx.signer)
           IN  IF c.next = 1 /\ Required(tx) > AccountDetails(c.chain, tx.signer).balance
               THEN EndList(c, "future")
               ELSE IF tx.nonce < nonce THEN EndList(c, "never")
               ELSE IF tx.nonce > nonce THEN EndList(c, "future")
               ELSE /\ check' = {[c EXCEPT !.next = @ + 1,
                                          !.nonces = Cached(@, tx.signer, nonce)]}
                    /\ UNCHANGED verdicts
  BY DEF CheckRequirement
<1>2. CheckHolds(c, live, ToBuildOn) /\ UNCHANGED <<live, committed>>
  BY DEF PreflightInv, CheckRequirement
<1>3. AreAccounts(ToBuildOn)
  BY BuildType DEF PreflightInv
<1> DEFINE n == c.next - 1
           txs == TxsOn(c.item, c.chain)
           tx == txs[n + 1]
           accounts == ToBuildOn[c.chain]
           nonce == NextNonce(c, tx.signer)
           cached == Cached(c.nonces, tx.signer, nonce)
<1>4. /\ c \in CheckRecord /\ c.item \in Offers /\ c.chain \in Chains /\ ListOf(c) = txs
      /\ c.next \in Nat /\ c.item.txs # <<>> /\ n \in Nat /\ n + 1 = c.next
      /\ c.moved \in BOOLEAN /\ n + 1 <= Len(txs) /\ c.nonces \in Caches
      /\ accounts \in AccountsOn(c.chain) /\ Len(txs) \in Nat
  <2>1. /\ c \in CheckRecord /\ c.item \in Offers /\ c.chain \in Chains /\ ListOf(c) = txs
        /\ c.next \in Nat /\ c.next # 0 /\ c.item.txs # <<>> /\ c.moved \in BOOLEAN
        /\ c.nonces \in Caches
    BY <1>2 DEF CheckHolds, CheckRecord, ListOf, TxsOn
  <2>2. n \in Nat /\ n + 1 = c.next
    BY <2>1
  <2> QED
    BY <1>1, <1>3, <2>1, <2>2, ListType DEF AreAccounts
<1>5. tx = ListOf(c)[c.next] /\ tx \in TransactionOn(c.chain) /\ tx.signer \in Signer[c.chain]
  <2>1. n + 1 \in 1..Len(txs)
    BY <1>4
  <2> QED
    BY <1>4, <2>1, ListType, TransactionType
<1>6. /\ AccountDetails(c.chain, tx.signer) = accounts[tx.signer]
      /\ nonce = NonceAfter(c.nonces, tx.signer, accounts)
  BY <1>4, <1>5 DEF ToBuildOn, NextNonce, NonceAfter
<1>7. /\ CachedHold(c.nonces, txs, n, accounts)
      /\ ~c.moved => UpToDate(c.nonces, txs, n, accounts)
  BY <1>2, <1>4 DEF CheckHolds
<1>8. IF c.next = 1 /\ Required(tx) > accounts[tx.signer].balance
      THEN EndList(c, "future")
      ELSE IF tx.nonce < nonce THEN EndList(c, "never")
      ELSE IF tx.nonce > nonce THEN EndList(c, "future")
      ELSE /\ check' = {[c EXCEPT !.next = @ + 1, !.nonces = cached]}
           /\ UNCHANGED verdicts
  BY <1>1, <1>5, <1>6
<1> HIDE DEF n, tx, txs, accounts, nonce, cached
<1>9. /\ nonce \in Nat /\ tx.nonce \in Nat
      /\ tx.nonce < nonce => UsedUpOn(txs, accounts)
      /\ CachedHold(cached, txs, n + 1, accounts)
      /\ cached \in [DOMAIN c.nonces \cup {tx.signer} -> Nat]
      /\ tx.nonce = nonce /\ UpToDate(c.nonces, txs, n, accounts) =>
           UpToDate(cached, txs, n + 1, accounts)
  BY <1>4, <1>6, <1>7, CheckOne DEF txs, tx, cached
<1>10. "future" \in JudgedAs /\ "never" \in JudgedAs
  BY DEF JudgedAs
<1>11. CASE EndList(c, "future")
  BY <1>2, <1>10, <1>11, EndListInv
<1>12. CASE tx.nonce < nonce /\ EndList(c, "never")
  <2>1. UsedUp(c.item, live, ToBuildOn)
    BY <1>4, <1>9, <1>12 DEF UsedUp, txs, accounts
  <2> QED
    BY <1>2, <1>10, <1>12, <2>1, EndListInv
<1>13. CASE /\ ~(c.next = 1 /\ Required(tx) > accounts[tx.signer].balance)
            /\ tx.nonce = nonce
            /\ check' = {[c EXCEPT !.next = @ + 1, !.nonces = cached]}
            /\ UNCHANGED verdicts
  <2> DEFINE d == [c EXCEPT !.next = @ + 1, !.nonces = cached]
  <2>1. /\ d.item = c.item /\ d.chain = c.chain /\ d.rollup = c.rollup /\ d.moved = c.moved
        /\ d.next = c.next + 1 /\ d.nonces = cached
    BY <1>4 DEF CheckRecord
  <2>2. cached \in Caches
    <3>1. /\ tx.signer \in Signer["ru"] \cup Signer["host"]
          /\ DOMAIN c.nonces \subseteq Signer["ru"] \cup Signer["host"]
      BY <1>4, <1>5 DEF Caches, Chains
    <3> QED
      BY <1>9, <1>13, <3>1 DEF Caches
  <2>3. d \in CheckRecord
    <3>1. c.next + 1 \in Nat
      BY <1>4
    <3> QED
      BY <1>4, <2>2, <3>1 DEF CheckRecord
  <2> HIDE DEF d
  <2>4. ListOf(d) = txs /\ d.next - 1 = n + 1
    BY <1>4, <2>1 DEF ListOf
  <2>5. c.chain = "ru" /\ ~c.moved => Payable(c.item, ToBuildOn)
    <3> SUFFICES ASSUME c.chain = "ru", ~c.moved PROVE Payable(c.item, ToBuildOn)
      OBVIOUS
    <3>1. CASE c.next = 1
      <4>1. tx = c.item.txs[1] /\ accounts = ToBuildOn["ru"]
        BY <1>4, <1>5, <3>1 DEF ListOf, accounts
      <4>2. ~(Required(c.item.txs[1]) > ToBuildOn["ru"][c.item.txs[1].signer].balance)
        BY <1>13, <3>1, <4>1
      <4> QED
        BY <1>3, <1>4, <4>2, CanBePaid
    <3>2. CASE c.next # 1
      BY <1>2, <3>2 DEF CheckHolds
    <3> QED
      BY <3>1, <3>2
  <2>6. CheckHolds(d, live, ToBuildOn)
    <3>1. d.next # 0 /\ d.next <= Len(ListOf(d)) + 1
      BY <1>4, <2>1, <2>4
    <3>2. /\ CachedHold(d.nonces, ListOf(d), d.next - 1, ToBuildOn[d.chain])
          /\ ~d.moved => UpToDate(d.nonces, ListOf(d), d.next - 1, ToBuildOn[d.chain])
      BY <1>7, <1>9, <1>13, <2>1, <2>4 DEF accounts
    <3> QED
      BY <1>2, <1>4, <2>1, <2>3, <2>5, <3>1, <3>2 DEF CheckHolds
  <2>7. check' = {d} /\ verdicts' = verdicts
    BY <1>13 DEF d
  <2> QED
    BY <1>2, <2>6, <2>7, BuildStays DEF PreflightInv, PreflightTypeOK
<1> QED
  BY <1>8, <1>9, <1>11, <1>12, <1>13
(* A read that fails leaves nothing, and a new build starts with nothing.  *)
LEMMA SourceFailsInv ==
  ASSUME PreflightInv, SourceFails
  PROVE  PreflightInv'
<1>1. check' = {} /\ UNCHANGED <<live, committed, verdicts>>
  BY DEF SourceFails
<1> QED
  BY <1>1, BuildStays DEF PreflightInv, PreflightTypeOK

LEMMA UntouchedType ==
  /\ DOMAIN Untouched = Chains
  /\ \A chain \in Chains : DOMAIN Untouched[chain] = {}
<1>1. DOMAIN <<>> = {}
  OBVIOUS
<1> QED
  BY <1>1 DEF Untouched

LEMMA NextBuildInv ==
  ASSUME PreflightInv, NextBuild
  PROVE  PreflightInv'
<1>1. check' = {} /\ verdicts' = {} /\ committed' = Untouched /\ live' = live
  BY DEF NextBuild
<1>2. PreflightTypeOK'
  BY <1>1, UntouchedType DEF PreflightInv, PreflightTypeOK
<1> QED
  BY <1>1, <1>2 DEF PreflightInv

LEMMA PreflightInitInv ==
  ASSUME PreflightInit
  PROVE  PreflightInv
<1> DEFINE first == [nonce |-> 0, balance |-> CHOOSE b \in Balances : TRUE]
<1>1. /\ live = [chain \in Chains |-> [s \in Signer[chain] |-> first]]
      /\ check = {} /\ verdicts = {} /\ committed = Untouched
  BY DEF PreflightInit
<1>2. first \in Account
  <2>1. (CHOOSE b \in Balances : TRUE) \in Balances
    BY OffersAssumption
  <2> QED
    BY <2>1, PreflightAssumption DEF Account
<1> HIDE DEF first
<1>3. DOMAIN live = Chains /\ AreAccounts(live)
  BY <1>1, <1>2 DEF AreAccounts, AccountsOn
<1>4. PreflightTypeOK
  BY <1>1, <1>3, UntouchedType DEF PreflightTypeOK
<1> QED
  BY <1>1, <1>4 DEF PreflightInv
-----------------------------------------------------------------------------
(* The chains move: their nonces only grow, so what is used up stays so,   *)
(* and the check that is running knows that they have moved.               *)
LEMMA StaysUsedUp ==
  ASSUME NEW item \in Offers, NEW chains, NEW build, NEW chains2, NEW build2,
         AreAccounts(chains), AreAccounts(build), AreAccounts(chains2), AreAccounts(build2),
         \A chain \in Chains : \A s \in Signer[chain] :
           /\ chains[chain][s].nonce <= chains2[chain][s].nonce
           /\ build[chain][s].nonce <= build2[chain][s].nonce,
         UsedUp(item, chains, build)
  PROVE  UsedUp(item, chains2, build2)
<1>1. PICK chain \in Chains : \/ UsedUpOn(TxsOn(item, chain), chains[chain])
                             \/ UsedUpOn(TxsOn(item, chain), build[chain])
  BY DEF UsedUp
<1>2. /\ chains[chain] \in AccountsOn(chain) /\ chains2[chain] \in AccountsOn(chain)
      /\ build[chain] \in AccountsOn(chain) /\ build2[chain] \in AccountsOn(chain)
  BY DEF AreAccounts
<1>3. \/ UsedUpOn(TxsOn(item, chain), chains2[chain])
      \/ UsedUpOn(TxsOn(item, chain), build2[chain])
  BY <1>1, <1>2, UsedUpStays
<1> QED
  BY <1>3 DEF UsedUp

LEMMA MovedStillHolds ==
  ASSUME NEW c, NEW chains, NEW build, NEW chains2, NEW build2,
         AreAccounts(chains), AreAccounts(build), AreAccounts(chains2), AreAccounts(build2),
         \A chain \in Chains : \A s \in Signer[chain] :
           /\ chains[chain][s].nonce <= chains2[chain][s].nonce
           /\ build[chain][s].nonce <= build2[chain][s].nonce,
         CheckHolds(c, chains, build)
  PROVE  CheckHolds([c EXCEPT !.moved = TRUE], chains2, build2)
<1> DEFINE d == [c EXCEPT !.moved = TRUE]
           txs == ListOf(c)
           n == c.next - 1
<1>1. c \in CheckRecord /\ c.item \in Offers /\ c.chain \in Chains /\ c.next \in Nat
  BY DEF CheckHolds, CheckRecord
<1>2. /\ d.item = c.item /\ d.chain = c.chain /\ d.rollup = c.rollup /\ d.moved
      /\ d.next = c.next /\ d.nonces = c.nonces /\ d \in CheckRecord
  BY <1>1 DEF CheckRecord
<1> HIDE DEF d
<1>3. ListOf(d) = txs /\ d.next - 1 = n /\ txs = TxsOn(c.item, c.chain)
  BY <1>1, <1>2 DEF ListOf, TxsOn
<1>4. c.next # 0 /\ c.next <= Len(txs) + 1 /\ n \in Nat /\ n <= Len(txs)
  BY <1>1, <1>3, ListType DEF CheckHolds
<1>5. CachedHold(c.nonces, txs, n, build[c.chain])
  BY DEF CheckHolds
<1> HIDE DEF n
<1>6. CachedHold(c.nonces, txs, n, build2[c.chain])
  <2>1. DOMAIN c.nonces = {txs[j].signer : j \in 1..n}
    BY <1>5 DEF CachedHold
  <2>2. ASSUME NEW s \in DOMAIN c.nonces
        PROVE  c.nonces[s] \in Nat /\ c.nonces[s] <= build2[c.chain][s].nonce + Times(txs, s, n)
    <3>1. c.nonces[s] \in Nat /\ c.nonces[s] <= build[c.chain][s].nonce + Times(txs, s, n)
      BY <1>5 DEF CachedHold
    <3>2. PICK j \in 1..n : s = txs[j].signer
      BY <2>1
    <3>3. j \in 1..Len(txs)
      BY <1>1, <1>3, <1>4, <3>2, ListType
    <3>4. s \in Signer[c.chain]
      BY <1>1, <1>3, <3>2, <3>3, ListType, TransactionType
    <3>5. /\ build[c.chain][s].nonce \in Nat /\ build2[c.chain][s].nonce \in Nat
          /\ build[c.chain][s].nonce <= build2[c.chain][s].nonce
      BY <1>1, <3>4 DEF AreAccounts, AccountsOn, Account
    <3>6. Times(txs, s, n) \in Nat
      BY <1>4, TimesFacts
    <3> QED
      BY <3>1, <3>5, <3>6
  <2> QED
    BY <2>1, <2>2 DEF CachedHold
<1>7. c.chain = "host" /\ c.rollup = "never" => UsedUp(c.item, chains2, build2)
  BY <1>1, StaysUsedUp DEF CheckHolds
<1>8. c.item.txs # <<>>
  BY DEF CheckHolds
<1> HIDE DEF txs
<1>9. CheckHolds(d, chains2, build2)
  BY <1>2, <1>3, <1>4, <1>6, <1>7, <1>8 DEF CheckHolds
<1> QED
  BY <1>9 DEF d

LEMMA ChainMovesInv ==
  ASSUME PreflightInv, NEW chain \in Chains, NEW signer \in Signer[chain],
         ChainMoves(chain, signer)
  PROVE  PreflightInv'
<1>1. PICK spent \in {0, 1}, balance \in Balances :
        live' = [live EXCEPT ![chain][signer] =
                   [nonce |-> @.nonce + spent, balance |-> balance]]
  BY DEF ChainMoves
<1>2. /\ check' = {[c EXCEPT !.moved = TRUE] : c \in check}
      /\ verdicts' = {<<v[1], v[2], TRUE>> : v \in verdicts}
      /\ committed' = committed
  BY DEF ChainMoves
<1>3. /\ PreflightTypeOK /\ DOMAIN live = Chains /\ AreAccounts(live)
      /\ AreAccounts(ToBuildOn)
  BY BuildType DEF PreflightInv, PreflightTypeOK
<1>4. ASSUME NEW other \in Chains
      PROVE  /\ live'[other] \in AccountsOn(other)
             /\ \A s \in Signer[other] : live[other][s].nonce <= live'[other][s].nonce
  <2>1. live[other] \in AccountsOn(other)
    BY <1>3 DEF AreAccounts
  <2>2. \A s \in Signer[other] : /\ live[other][s] \in Account
                                 /\ live[other][s].nonce \in Nat
                                 /\ live[other][s].nonce <= live[other][s].nonce
    BY <2>1 DEF AccountsOn, Account
  <2>3. CASE other # chain
    <3>1. live'[other] = live[other]
      BY <1>1, <1>3, <2>3
    <3> QED
      BY <2>1, <2>2, <3>1
  <2>4. CASE other = chain
    <3> DEFINE moved == [nonce |-> live[chain][signer].nonce + spent, balance |-> balance]
    <3>1. live'[chain] = [live[chain] EXCEPT ![signer] = moved]
      BY <1>1, <1>3
    <3>2. moved \in Account /\ live[chain][signer].nonce <= moved.nonce
      BY <2>2, <2>4, PreflightAssumption DEF Account
    <3> HIDE DEF moved
    <3>3. live'[chain] \in AccountsOn(chain)
      BY <2>1, <2>4, <3>1, <3>2 DEF AccountsOn
    <3>4. ASSUME NEW s \in Signer[chain]
          PROVE  live[chain][s].nonce <= live'[chain][s].nonce
      BY <2>1, <2>2, <2>4, <3>1, <3>2 DEF AccountsOn
    <3> QED
      BY <2>4, <3>3, <3>4
  <2> QED
    BY <2>3, <2>4
<1>5. DOMAIN live' = Chains /\ AreAccounts(live')
  BY <1>1, <1>3, <1>4 DEF AreAccounts
<1>6. verdicts' \subseteq Offers \X {"never", "now"} \X BOOLEAN
  <2> SUFFICES ASSUME NEW w \in verdicts'
               PROVE  w \in Offers \X {"never", "now"} \X BOOLEAN
    OBVIOUS
  <2>1. PICK v \in verdicts : w = <<v[1], v[2], TRUE>>
    BY <1>2
  <2>2. v \in Offers \X {"never", "now"} \X BOOLEAN
    BY <1>3 DEF PreflightTypeOK
  <2>3. v[1] \in Offers /\ v[2] \in {"never", "now"}
    BY <2>2
  <2> QED
    BY <2>1, <2>3
<1>7. PreflightTypeOK'
  BY <1>2, <1>3, <1>5, <1>6 DEF PreflightTypeOK, AreAccounts
<1>8. AreAccounts(ToBuildOn)'
  BY <1>7, BuildType, PTL
<1>9. ASSUME NEW other \in Chains, NEW s \in Signer[other]
      PROVE  ToBuildOn[other][s].nonce <= ToBuildOn'[other][s].nonce
  <2>1. /\ ToBuildOn[other][s] = IF s \in DOMAIN committed[other] THEN committed[other][s]
                                 ELSE live[other][s]
        /\ ToBuildOn'[other][s] = IF s \in DOMAIN committed[other] THEN committed[other][s]
                                  ELSE live'[other][s]
    BY <1>2 DEF ToBuildOn, AccountDetails
  <2>2. s \in DOMAIN committed[other] => committed[other][s].nonce \in Nat
    BY <1>3 DEF PreflightTypeOK, Account
  <2> QED
    BY <1>4, <2>1, <2>2
<1>10. ASSUME NEW c \in check'
       PROVE  CheckHolds(c, live', ToBuildOn')
  <2>1. PICK b \in check : c = [b EXCEPT !.moved = TRUE]
    BY <1>2
  <2>2. CheckHolds(b, live, ToBuildOn)
    BY DEF PreflightInv
  <2>3. AreAccounts(live') /\ AreAccounts(ToBuildOn')
    BY <1>5, <1>8 DEF AreAccounts
  <2> QED
    BY <1>3, <1>4, <1>9, <2>1, <2>2, <2>3, MovedStillHolds
<1>11. ASSUME NEW w \in verdicts'
       PROVE  VerdictHolds(w, live', ToBuildOn')
  <2>1. PICK v \in verdicts : w = <<v[1], v[2], TRUE>>
    BY <1>2
  <2>2. VerdictHolds(v, live, ToBuildOn) /\ v[1] \in Offers
    BY <1>3 DEF PreflightInv, PreflightTypeOK
  <2>3. AreAccounts(live') /\ AreAccounts(ToBuildOn')
    BY <1>5, <1>8 DEF AreAccounts
  <2>4. v[2] = "never" => UsedUp(v[1], live', ToBuildOn')
    BY <1>3, <1>4, <1>9, <2>2, <2>3, StaysUsedUp DEF VerdictHolds
  <2> QED
    BY <2>1, <2>4 DEF VerdictHolds
<1> QED
  BY <1>7, <1>10, <1>11 DEF PreflightInv
-----------------------------------------------------------------------------
(* An item goes in: its accounts' nonces come to just after its last one,  *)
(* so not below what the build had committed of them.                      *)
LEMMA NonceAdvances ==
  ASSUME NEW chain \in Chains, NEW item \in Offers, NEW accounts,
         InOrder(TxsOn(item, chain), accounts),
         NEW s \in SignersOf(TxsOn(item, chain)), accounts[s].nonce \in Nat
  PROVE  LET nonces == Nonces(TxsOn(item, chain), s)
             last == CHOOSE n \in nonces : \A m \in nonces : m <= n
         IN  last \in Nat /\ accounts[s].nonce <= 1 + last
<1> DEFINE txs == TxsOn(item, chain)
           nonces == Nonces(txs, s)
           last == CHOOSE n \in nonces : \A m \in nonces : m <= n
           mine == {j \in DOMAIN txs : txs[j].signer = s}
           own == accounts[s].nonce
<1>1. PICK i \in DOMAIN txs : txs[i].signer = s
  BY DEF SignersOf
<1>2. Len(txs) \in Nat /\ DOMAIN txs = 1..Len(txs)
      /\ own \in Nat /\ \A j \in DOMAIN txs : txs[j].nonce \in Nat
  BY ListType, TransactionType
<1>3. \A j \in mine : txs[j].nonce = own + Times(txs, s, j - 1)
  BY DEF InOrder, Times
<1>4. nonces = {txs[j].nonce : j \in mine} /\ i \in mine
  BY <1>1 DEF Nonces
<1>5. nonces \in SUBSET Nat /\ nonces # {} /\ txs[i].nonce \in nonces
  BY <1>2, <1>4
<1>6. \E n \in nonces : \A m \in nonces : m <= n
  <2> DEFINE low == txs[i].nonce
             t == Times(txs, s, i - 1)
             bound == low + Len(txs)
  <2>1. low \in Nat /\ low = own + t /\ i - 1 \in Nat
    BY <1>2, <1>3, <1>4
  <2>2. t \in Nat
    BY <2>1, TimesFacts
  <2>3. ASSUME NEW m \in nonces PROVE m <= bound
    <3>1. PICK j \in mine : m = txs[j].nonce
      BY <1>4
    <3> DEFINE u == Times(txs, s, j - 1)
    <3>2. m \in Nat /\ m = own + u /\ j - 1 \in Nat /\ j <= Len(txs)
      BY <1>2, <1>3, <3>1
    <3>3. u \in Nat /\ u <= j - 1
      BY <3>2, TimesFacts
    <3> HIDE DEF own, t, u, low
    <3>4. own + t = low /\ own + u = m
      BY <2>1, <3>2
    <3> QED
      BY <1>2, <2>1, <2>2, <3>2, <3>3, <3>4, SMTT(30)
  <2>4. bound \in Nat
    BY <1>2, <2>1
  <2> HIDE DEF bound, nonces
  <2> QED
    BY <1>5, <2>3, <2>4, GreatestNatural
<1>7. last \in nonces /\ \A m \in nonces : m <= last
  BY <1>6
<1> HIDE DEF nonces
<1>8. last \in Nat /\ txs[i].nonce <= last
  BY <1>5, <1>7
<1>9. own <= txs[i].nonce
  <2>1. i - 1 \in Nat
    BY <1>2
  <2>2. Times(txs, s, i - 1) \in Nat
    BY <2>1, TimesFacts
  <2> HIDE DEF own
  <2> QED
    BY <1>2, <1>3, <1>4, <2>2
<1>10. own <= 1 + last
  <2>1. txs[i].nonce \in Nat
    BY <1>2
  <2> HIDE DEF own, last
  <2> QED
    BY <1>2, <1>8, <1>9, <2>1
<1> QED
  BY <1>8, <1>10 DEF nonces

(* What is used up in the build stays so as its accounts are committed.    *)
LEMMA CommittedStaysUsedUp ==
  ASSUME PreflightTypeOK, NEW item \in Offers, NEW build2,
         \A chain \in Chains : \A s \in Signer[chain] :
           /\ build2[chain][s].nonce \in Nat
           /\ s \in DOMAIN committed[chain] =>
                ToBuildOn[chain][s].nonce <= build2[chain][s].nonce,
         UsedUp(item, live, ToBuildOn)
  PROVE  UsedUp(item, live, build2)
<1>1. PICK chain \in Chains : \/ UsedUpOn(TxsOn(item, chain), live[chain])
                             \/ UsedUpOn(TxsOn(item, chain), ToBuildOn[chain])
  BY DEF UsedUp
<1> DEFINE txs == TxsOn(item, chain)
<1>2. CASE UsedUpOn(txs, live[chain])
  BY <1>2 DEF UsedUp
<1>3. CASE UsedUpOn(txs, ToBuildOn[chain])
  <2>1. PICK i \in DOMAIN txs :
          txs[i].nonce
            < ToBuildOn[chain][txs[i].signer].nonce + Times(txs, txs[i].signer, i - 1)
    BY <1>3 DEF UsedUpOn
  <2> DEFINE s == txs[i].signer
  <2>2. i \in 1..Len(txs) /\ txs[i] \in TransactionOn(chain) /\ i - 1 \in Nat
    BY <2>1, ListType
  <2>3. s \in Signer[chain] /\ txs[i].nonce \in Nat
    BY <2>2, TransactionType
  <2>4. Times(txs, s, i - 1) \in Nat
    BY <2>2, TimesFacts
  <2>5. CASE s \in DOMAIN committed[chain]
    <3>1. ToBuildOn[chain][s].nonce \in Nat
      BY <2>3, BuildType DEF AreAccounts, AccountsOn, Account
    <3>2. ToBuildOn[chain][s].nonce <= build2[chain][s].nonce /\ build2[chain][s].nonce \in Nat
      BY <2>3, <2>5
    <3>3. txs[i].nonce < build2[chain][s].nonce + Times(txs, s, i - 1)
      BY <2>1, <2>3, <2>4, <3>1, <3>2
    <3> QED
      BY <2>1, <3>3 DEF UsedUp, UsedUpOn
  <2>6. CASE s \notin DOMAIN committed[chain]
    <3>1. ToBuildOn[chain][s] = live[chain][s]
      BY <2>3, <2>6 DEF ToBuildOn, AccountDetails
    <3>2. UsedUpOn(txs, live[chain])
      BY <2>1, <3>1 DEF UsedUpOn
    <3> QED
      BY <3>2 DEF UsedUp
  <2> QED
    BY <2>5, <2>6
<1> QED
  BY <1>1, <1>2, <1>3

LEMMA CommitItemInv ==
  ASSUME PreflightInv, CommitItem
  PROVE  PreflightInv'
<1> DEFINE last(txs, s) == CHOOSE n \in Nonces(txs, s) : \A m \in Nonces(txs, s) : m <= n
<1>1. PICK v \in verdicts, balance \in Balances :
        /\ \A chain \in Chains : RanOn(v[1], chain)
        /\ committed' =
             [chain \in Chains |->
                LET txs == TxsOn(v[1], chain)
                IN  [s \in DOMAIN committed[chain] \cup SignersOf(txs) |->
                       IF s \in SignersOf(txs)
                       THEN [nonce |-> 1 + last(txs, s), balance |-> balance]
                       ELSE committed[chain][s]]]
  BY DEF CommitItem
<1>2. /\ check = {} /\ check' = check /\ live' = live
      /\ verdicts' = {w \in verdicts : w[2] = "never"}
  BY DEF CommitItem
<1>3. PreflightTypeOK /\ v[1] \in Offers /\ balance \in Nat
  BY PreflightAssumption DEF PreflightInv, PreflightTypeOK
<1>4. ASSUME NEW chain \in Chains
      PROVE  /\ DOMAIN committed'[chain] =
                  DOMAIN committed[chain] \cup SignersOf(TxsOn(v[1], chain))
             /\ SignersOf(TxsOn(v[1], chain)) \subseteq Signer[chain]
             /\ \A s \in DOMAIN committed'[chain] :
                  /\ committed'[chain][s] \in Account
                  /\ s \in DOMAIN committed[chain] =>
                       committed[chain][s].nonce <= committed'[chain][s].nonce
  <2> DEFINE txs == TxsOn(v[1], chain)
  <2>1. committed'[chain] = [s \in DOMAIN committed[chain] \cup SignersOf(txs) |->
                               IF s \in SignersOf(txs)
                               THEN [nonce |-> 1 + last(txs, s), balance |-> balance]
                               ELSE committed[chain][s]]
    BY <1>1
  <2>2. \A s \in DOMAIN committed[chain] :
          committed[chain][s] \in Account /\ committed[chain][s].nonce \in Nat
    BY <1>3 DEF PreflightTypeOK, Account
  <2>3. SignersOf(txs) \subseteq Signer[chain]
    BY <1>3, ListType, TransactionType DEF SignersOf
  <2>4. PICK older \in [Signer[chain] -> 0..MaxNonce] :
          InOrder(txs, [s \in Signer[chain] |-> IF s \in DOMAIN committed[chain]
                                                THEN committed[chain][s]
                                                ELSE [nonce |-> older[s]]])
    BY <1>1 DEF RanOn
  <2> DEFINE accounts == [s \in Signer[chain] |-> IF s \in DOMAIN committed[chain]
                                                  THEN committed[chain][s]
                                                  ELSE [nonce |-> older[s]]]
  <2>5. InOrder(txs, accounts)
    BY <2>4
  <2>6. \A s \in SignersOf(txs) :
          /\ accounts[s].nonce \in Nat
          /\ s \in DOMAIN committed[chain] => accounts[s].nonce = committed[chain][s].nonce
    BY <2>2, <2>3, PreflightAssumption
  <2> HIDE DEF accounts
  <2>7. ASSUME NEW s \in SignersOf(txs)
        PROVE  last(txs, s) \in Nat /\ accounts[s].nonce <= 1 + last(txs, s)
    BY <1>3, <2>5, <2>6, NonceAdvances
  <2> HIDE DEF last, txs
  <2>8. ASSUME NEW s \in DOMAIN committed'[chain]
        PROVE  /\ committed'[chain][s] \in Account
               /\ s \in DOMAIN committed[chain] =>
                    committed[chain][s].nonce <= committed'[chain][s].nonce
    <3>1. CASE s \in SignersOf(txs)
      <4>1. committed'[chain][s] = [nonce |-> 1 + last(txs, s), balance |-> balance]
        BY <2>1, <3>1
      <4> QED
        BY <1>3, <2>2, <2>6, <2>7, <3>1, <4>1 DEF Account
    <3>2. CASE s \notin SignersOf(txs)
      <4>1. s \in DOMAIN committed[chain] /\ committed'[chain][s] = committed[chain][s]
        BY <2>1, <3>2
      <4> QED
        BY <2>2, <4>1
    <3> QED
      BY <3>1, <3>2
  <2>9. DOMAIN committed'[chain] = DOMAIN committed[chain] \cup SignersOf(txs)
    BY <2>1
  <2> QED
    BY <2>3, <2>8, <2>9 DEF txs
<1>5. DOMAIN committed' = Chains
  BY <1>1
<1> HIDE DEF last
<1>6. PreflightTypeOK'
  BY <1>2, <1>3, <1>4, <1>5 DEF PreflightTypeOK, AreAccounts
<1>7. ASSUME NEW chain \in Chains, NEW s \in Signer[chain]
      PROVE  /\ ToBuildOn'[chain][s].nonce \in Nat
             /\ s \in DOMAIN committed[chain] =>
                  ToBuildOn[chain][s].nonce <= ToBuildOn'[chain][s].nonce
  <2>1. /\ ToBuildOn[chain][s] = IF s \in DOMAIN committed[chain] THEN committed[chain][s]
                                 ELSE live[chain][s]
        /\ ToBuildOn'[chain][s] = IF s \in DOMAIN committed'[chain] THEN committed'[chain][s]
                                  ELSE live[chain][s]
    BY <1>2 DEF ToBuildOn, AccountDetails
  <2>2. live[chain][s].nonce \in Nat
    BY <1>3 DEF PreflightTypeOK, AreAccounts, AccountsOn, Account
  <2>3. s \in DOMAIN committed'[chain] => committed'[chain][s].nonce \in Nat
    BY <1>4 DEF Account
  <2> QED
    BY <1>4, <2>1, <2>2, <2>3
<1>8. ASSUME NEW w \in verdicts'
      PROVE  VerdictHolds(w, live, ToBuildOn')
  <2>1. w \in verdicts /\ w[2] = "never" /\ w[1] \in Offers
    BY <1>2, <1>3 DEF PreflightTypeOK
  <2>2. UsedUp(w[1], live, ToBuildOn)
    BY <2>1 DEF PreflightInv, VerdictHolds
  <2>3. UsedUp(w[1], live, ToBuildOn')
    BY <1>3, <1>7, <2>1, <2>2, CommittedStaysUsedUp
  <2> QED
    BY <2>1, <2>3 DEF VerdictHolds
<1> QED
  BY <1>2, <1>6, <1>8 DEF PreflightInv
-----------------------------------------------------------------------------
LEMMA PreflightStep ==
  ASSUME PreflightInv, [PreflightNext]_preflightVars
  PROVE  PreflightInv'
<1>1. CASE PreflightNext
  BY <1>1, CheckSingleInv, BeginCheckInv, CheckRequirementInv, EndRequirementsInv,
     SourceFailsInv, ChainMovesInv, CommitItemInv, NextBuildInv DEF PreflightNext
<1>2. CASE UNCHANGED preflightVars
  <2>1. UNCHANGED <<live, committed, check, verdicts>>
    BY <1>2 DEF preflightVars
  <2> QED
    BY <2>1, BuildStays DEF PreflightInv, PreflightTypeOK
<1> QED
  BY <1>1, <1>2

(* SimItem::check and check_bundle_tx_list, whose reads of a chain may be  *)
(* any number of blocks apart: an item that is disallowed as never valid   *)
(* has a nonce that is used up on a chain or in the block that is being    *)
(* built, and one that is found valid before the chains have moved has its *)
(* nonces in order and can pay for its first transaction.                  *)
THEOREM VerdictsAreRight == PreflightSpec => []VerdictsHold
<1>1. PreflightInit => PreflightInv
  BY PreflightInitInv
<1>2. PreflightInv /\ [PreflightNext]_preflightVars => PreflightInv'
  BY PreflightStep
<1>3. PreflightInv => VerdictsHold
  BY VerdictMeans
<1> QED
  BY <1>1, <1>2, <1>3, PTL DEF PreflightSpec
=============================================================================
