------------------------------ MODULE CallTree ------------------------------
(***************************************************************************)
(* What an inspector of framed events promises: it follows the tree of     *)
(* calls of a transaction and keeps, in order, the events of exactly those *)
(* frames that were exited without a revert, they and all their callers.   *)
(* segments[1] holds the events outside any open frame, and each open      *)
(* frame has a segment of its own above it.                                *)
(***************************************************************************)
EXTENDS Naturals, Sequences

CONSTANT Event

VARIABLES
  segments,   \* events of the open frames
  result,     \* how the last frame to end has ended
  taken       \* the events of the last transaction

treeVars == <<segments, result, taken>>

Open == Len(segments) - 1
Callers == SubSeq(segments, 1, Open)

Init == segments = << <<>> >> /\ result = "none" /\ taken = <<>>

Enter == segments' = Append(segments, <<>>) /\ UNCHANGED <<result, taken>>

Emit == \E e \in Event :
  /\ segments' = [segments EXCEPT ![Len(segments)] = Append(@, e)]
  /\ UNCHANGED <<result, taken>>

(* The frame's events become events of its caller.                         *)
Return ==
  /\ Open > 0
  /\ segments' = [Callers EXCEPT ![Open] = @ \o segments[Len(segments)]]
  /\ result' = "ok"
  /\ UNCHANGED taken

(* The frame's events, and those it got from its callees, are gone.        *)
Revert ==
  /\ Open > 0
  /\ segments' = Callers
  /\ result' = "reverted"
  /\ UNCHANGED taken

Take ==
  /\ Open = 0
  /\ taken' = segments[1]
  /\ segments' = << <<>> >>
  /\ UNCHANGED result

Next == Enter \/ Emit \/ Return \/ Revert \/ Take

Spec == Init /\ [][Next]_treeVars
=============================================================================
