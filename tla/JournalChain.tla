---------------------------- MODULE JournalChain ----------------------------
(***************************************************************************)
(* What a JournalSet (crates/journal/src/set.rs) promises to the node that *)
(* feeds from it: one chain of journals, of which a prefix has been handed *)
(* out and never changes, and the rest may be replaced by another branch.  *)
(***************************************************************************)
EXTENDS Naturals, Sequences

CONSTANTS
  Journal,    \* journals, told apart by their hash
  HeightOf,   \* rollup height of a journal
  PrevOf      \* hash of the previous journal, as the journal has it

VARIABLES
  chain,      \* the journals handed out and those still held
  consumed    \* how many have been handed out

Links(s, j) ==
  s # <<>> => /\ PrevOf[j] = s[Len(s)]
              /\ HeightOf[j] = HeightOf[s[Len(s)]] + 1

Init == chain = <<>> /\ consumed = 0

(* A journal that continues the chain, in place of those after keep.       *)
Extend(keep, j) ==
  /\ keep \in consumed..Len(chain)
  /\ Links(SubSeq(chain, 1, keep), j)
  /\ chain' = Append(SubSeq(chain, 1, keep), j)
  /\ UNCHANGED consumed

HandOut ==
  /\ consumed < Len(chain)
  /\ consumed' = consumed + 1
  /\ UNCHANGED chain

Retract ==
  /\ consumed < Len(chain)
  /\ chain' = SubSeq(chain, 1, Len(chain) - 1)
  /\ UNCHANGED consumed

Next ==
  \/ \E keep \in 0..Len(chain), j \in Journal : Extend(keep, j)
  \/ HandOut
  \/ Retract

Spec == Init /\ [][Next]_<<chain, consumed>>
=============================================================================
