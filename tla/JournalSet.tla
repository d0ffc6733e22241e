----------------------------- MODULE JournalSet -----------------------------
(***************************************************************************)
(* JournalSet (crates/journal/src/set.rs): the journals of the latest      *)
(* rollup blocks as a deque that is appended to, overwritten from a height *)
(* on when the chain reorganises, and drained from both ends.              *)
(*                                                                         *)
(* A journal is its hash, which determines its height and the hash of the  *)
(* previous journal it was built on.  Neither is checked against anything  *)
(* but the set, so a journal may have any height and any previous hash.    *)
(***************************************************************************)
EXTENDS Integers, Sequences

CONSTANTS
  Journal,          \* journals, told apart by their hash
  Hash,             \* hashes: those of journals, and others
  HeightOf,         \* rollup_height of a journal
  PrevOf,           \* prev_journal_hash of a journal
  Width,            \* heights are below Width (2^64)
  OverflowChecks    \* whether the build panics on arithmetic overflow

ASSUME JournalAssumption ==
  /\ Width \in Nat
  /\ Journal \subseteq Hash
  /\ HeightOf \in [Journal -> Nat]
  /\ \A j \in Journal : HeightOf[j] + 1 < Width
  /\ PrevOf \in [Journal -> Hash]
  /\ OverflowChecks \in BOOLEAN

VARIABLES
  journals,       \* the deque
  latestHeight,   \* latest_height, an Option
  latestHash,     \* latest_hash, an Option
  panicked,       \* an operation overflowed
  popped          \* history: the journals handed out at the front

vars == <<journals, latestHeight, latestHash, panicked, popped>>

(* An Option is a set of at most one value.                                *)
None == {}
Some(x) == {x}

Size == Len(journals)
Back == journals[Size]
Earliest == HeightOf[journals[1]]

-----------------------------------------------------------------------------
Init ==
  /\ journals = <<>>
  /\ latestHeight = None
  /\ latestHash = None
  /\ panicked = FALSE
  /\ popped = <<>>

(* index_of, counted from one; zero stands for None.                       *)
IndexOf(height) ==
  IF Size = 0 \/ height < Earliest \/ \E top \in latestHeight : height > top
  THEN 0
  ELSE height - Earliest + 1

(* get_by_rollup_height: the journal at that height, as a set of one.      *)
ByHeight(height) ==
  {journals[i] : i \in {IndexOf(height)} \cap 1..Size}

(* append_inner on a deque that holds kept.                                *)
AppendInner(kept, j) ==
  /\ journals' = Append(kept, j)
  /\ latestHeight' = Some(HeightOf[j])
  /\ latestHash' = Some(j)

(* Mutant of HeightFits: any later height is accepted.                     *)
AnyLaterHeight(j) == \A top \in latestHeight : HeightOf[j] > top

(* check_last_height; the next height wraps around with the integer.       *)
HeightFits(j) == \A top \in latestHeight : HeightOf[j] = (top + 1) % Width

(* Mutant of PrevFits: an empty set takes any journal of the next height.  *)
PrevIfHeld(j) == Size > 0 => latestHash \subseteq {PrevOf[j]}

(* check_prev_hash.                                                        *)
PrevFits(j) == latestHash \subseteq {PrevOf[j]}

TryAppend(j) ==
  /\ HeightFits(j)
  /\ PrevFits(j)
  /\ AppendInner(journals, j)
  /\ UNCHANGED <<panicked, popped>>

(* Mutant of KeptBelow: the journal to be replaced is kept.                *)
KeptOneMore(height) == SubSeq(journals, 1, IndexOf(height))

(* What unwind_to leaves: the journals below the height.                   *)
KeptBelow(height) == SubSeq(journals, 1, IndexOf(height) - 1)

(* The height below, in pop_back: it overflows at zero; in a build without *)
(* the checks it wraps around, and the next height expected is zero again. *)
Overflows(j) == OverflowChecks /\ HeightOf[j] = 0

(* Mutant of HeightBelow: the height does not wrap around.                 *)
HeightUnwrapped(j) == HeightOf[j] - 1

HeightBelow(j) == (HeightOf[j] + Width - 1) % Width

(* append_overwrite: an identical journal is left alone, one that was      *)
(* built on another predecessor is refused, and unwind_to goes through     *)
(* pop_back.  The latest height and hash it leaves are overwritten.        *)
AppendOverwrite(j) ==
  /\ \E old \in ByHeight(HeightOf[j]) :
       /\ old # j
       /\ PrevOf[old] = PrevOf[j]
       /\ IF Overflows(old)
          THEN panicked' = TRUE /\ UNCHANGED <<journals, latestHeight, latestHash>>
          ELSE AppendInner(KeptBelow(HeightOf[j]), j) /\ UNCHANGED panicked
  /\ UNCHANGED popped

(* pop_front leaves the latest height and hash as they are.                *)
PopFront ==
  /\ Size > 0
  /\ journals' = Tail(journals)
  /\ popped' = Append(popped, journals[1])
  /\ UNCHANGED <<latestHeight, latestHash, panicked>>

PopBack ==
  /\ Size > 0
  /\ IF Overflows(Back)
     THEN panicked' = TRUE /\ UNCHANGED <<journals, latestHeight, latestHash>>
     ELSE /\ journals' = SubSeq(journals, 1, Size - 1)
          /\ latestHeight' = Some(HeightBelow(Back))
          /\ latestHash' = Some(PrevOf[Back])
          /\ UNCHANGED panicked
  /\ UNCHANGED popped

Next ==
  /\ ~panicked
  /\ \/ \E j \in Journal : TryAppend(j) \/ AppendOverwrite(j)
     \/ PopFront
     \/ PopBack

Spec == Init /\ [][Next]_vars

-----------------------------------------------------------------------------
TypeOK ==
  /\ journals \in Seq(Journal)
  /\ latestHeight \in {None} \cup {Some(h) : h \in 0..(Width - 1)}
  /\ latestHash \in {None} \cup {Some(h) : h \in Hash}
  /\ panicked \in BOOLEAN
  /\ popped \in Seq(Journal)

IsChain(s) ==
  \A i \in 1..Len(s) :
    /\ HeightOf[s[i]] = HeightOf[s[1]] + i - 1
    /\ i > 1 => PrevOf[s[i]] = s[i - 1]

(* The journals held form a chain, by height and by hash, that ends at the *)
(* recorded latest height and hash.                                        *)
Chained ==
  /\ IsChain(journals)
  /\ Size > 0 => latestHeight = Some(HeightOf[Back]) /\ latestHash = Some(Back)

(* Looking a height up by its distance from the earliest one finds exactly *)
(* the journal of that height, after any appends, overwrites and pops.     *)
LookupRight ==
  \A i \in 1..Size : ByHeight(HeightOf[journals[i]]) = {journals[i]}

(* The node follows one chain: what was handed out at the front is never   *)
(* replaced, and whatever comes next links to it, also when the set was    *)
(* drained in between.                                                     *)
ChainView == INSTANCE JournalChain WITH chain <- popped \o journals,
                                        consumed <- Len(popped)
FollowsChain == ChainView!Spec
=============================================================================
