--------------------------- MODULE OrderDetector ----------------------------
(***************************************************************************)
(* OrderDetector (crates/evm/src/orders/inspector.rs) and Framed           *)
(* (framed.rs): the inspector that collects the Order and Filled events of *)
(* one transaction, driven by the hooks the EVM calls.  The EVM is outside *)
(* the repository: of it the model keeps the number of open call frames,   *)
(* the order of the hooks and whether a contract destroys itself.          *)
(***************************************************************************)
EXTENDS Naturals, Sequences

CONSTANTS
  FillsOnly,      \* fills_only: TRUE for the host's detector
  MaxDepth,       \* bound on the call frames open at a time
  MaxLogs         \* bound on the logs of a transaction

ASSUME DetectorAssumption ==
  /\ FillsOnly \in BOOLEAN
  /\ MaxDepth \in Nat
  /\ MaxLogs \in Nat

VARIABLES
  orders,     \* framed Order events
  filleds,    \* framed Filled events
  depth,      \* call frames open in the EVM
  result,     \* how the last frame to end has ended
  ending,     \* the top frame has destroyed itself and is about to end
  started,    \* the transaction has entered its first frame
  panicked,   \* a hook unwrapped the boundary of a frame that is not there
  logs,       \* logs the EVM has emitted, to name them apart
  taken       \* what the last take_aggregates returned

detectorVars == <<orders, filleds>>
evmVars == <<depth, result, ending, started, logs>>
inspectorVars == <<orders, filleds, depth, result, ending, started, panicked,
                   logs, taken>>

Event == 1..MaxLogs
EmptyFramed == [events |-> <<>>, boundaries |-> <<>>]

-----------------------------------------------------------------------------
(* The operations of Framed.  pop().unwrap() panics when HasFrame fails.   *)
HasFrame(f) == f.boundaries # <<>>
Frames(f) == Len(f.boundaries)

(* Mutant of EnterFrame: the boundary is off by one.                       *)
EnterOffByOne(f) ==
  [events |-> f.events, boundaries |-> Append(f.boundaries, Len(f.events) - 1)]

(* Mutant of EnterFrame: the frame takes the boundary of its caller.       *)
EnterAtCaller(f) ==
  [events |-> f.events,
   boundaries |-> Append(f.boundaries, IF HasFrame(f) THEN f.boundaries[Frames(f)] ELSE 0)]

EnterFrame(f) ==
  [events |-> f.events, boundaries |-> Append(f.boundaries, Len(f.events))]

ExitFrame(f) ==
  [events |-> f.events, boundaries |-> SubSeq(f.boundaries, 1, Frames(f) - 1)]

(* Mutant of RevertFrame: the events of the frame stay.                    *)
RevertKeepsEvents(f) == ExitFrame(f)

(* Mutant of RevertFrame: the boundary of the frame stays.                 *)
RevertKeepsFrame(f) ==
  [f EXCEPT !.events = SubSeq(@, 1, f.boundaries[Frames(f)])]

RevertFrame(f) ==
  [events     |-> SubSeq(f.events, 1, f.boundaries[Frames(f)]),
   boundaries |-> SubSeq(f.boundaries, 1, Frames(f) - 1)]

AddEvent(f, e) == [events |-> Append(f.events, e), boundaries |-> f.boundaries]

-----------------------------------------------------------------------------
DetectorInit ==
  /\ orders = EmptyFramed
  /\ filleds = EmptyFramed
  /\ depth = 0
  /\ result = "none"
  /\ ending = FALSE
  /\ started = FALSE
  /\ panicked = FALSE
  /\ logs = 0
  /\ taken = [orders |-> <<>>, filleds |-> <<>>]

(* Some code of the transaction is running in a frame.                     *)
Running == depth > 0 /\ ~ending /\ ~panicked

(* log: other stands for an event of another contract or of another type.  *)
Log(kind) ==
  /\ Running
  /\ logs < MaxLogs
  /\ logs' = logs + 1
  /\ filleds' = IF kind = "filled" THEN AddEvent(filleds, logs') ELSE filleds
  /\ orders' = IF kind = "order" /\ ~FillsOnly THEN AddEvent(orders, logs') ELSE orders
  /\ UNCHANGED <<depth, result, ending, started, panicked, taken>>

(* call and create: the first frame of a transaction, or a nested one.     *)
Call ==
  /\ Running \/ (~started /\ ~panicked)
  /\ depth < MaxDepth
  /\ depth' = depth + 1
  /\ started' = TRUE
  /\ orders' = EnterFrame(orders)
  /\ filleds' = EnterFrame(filleds)
  /\ UNCHANGED <<result, ending, panicked, logs, taken>>

(* A hook that pops a boundary, or panics if there is none.                *)
Pop(poppedOrders, poppedFilleds) ==
  IF HasFrame(orders) /\ HasFrame(filleds)
  THEN /\ orders' = poppedOrders
       /\ filleds' = poppedFilleds
       /\ UNCHANGED panicked
  ELSE /\ panicked' = TRUE
       /\ UNCHANGED detectorVars

(* call_end and create_end of a frame that succeeded.                      *)
CallEndOk ==
  /\ depth > 0 /\ ~panicked
  /\ Pop(ExitFrame(orders), ExitFrame(filleds))
  /\ depth' = depth - 1
  /\ result' = "ok"
  /\ ending' = FALSE
  /\ UNCHANGED <<started, logs, taken>>

(* call_end and create_end of a frame that reverted or halted.             *)
CallEndRevert ==
  /\ Running
  /\ Pop(RevertFrame(orders), RevertFrame(filleds))
  /\ depth' = depth - 1
  /\ result' = "reverted"
  /\ UNCHANGED <<ending, started, logs, taken>>

(* selfdestruct exits the frame; the EVM then ends it through call_end.    *)
SelfDestruct ==
  /\ Running
  /\ Pop(ExitFrame(orders), ExitFrame(filleds))
  /\ ending' = TRUE
  /\ UNCHANGED <<depth, result, started, logs, taken>>

(* take_aggregates, once the transaction is over: both logs are emptied,   *)
(* and the next transaction begins.                                        *)
TakeAggregates ==
  /\ started /\ depth = 0 /\ ~panicked
  /\ taken' = [orders |-> orders.events, filleds |-> filleds.events]
  /\ orders' = EmptyFramed
  /\ filleds' = EmptyFramed
  /\ started' = FALSE
  /\ UNCHANGED <<depth, result, ending, panicked, logs>>

DetectorNext ==
  \/ \E kind \in {"filled", "order", "other"} : Log(kind)
  \/ Call
  \/ CallEndOk
  \/ CallEndRevert
  \/ TakeAggregates

(* The detector on transactions in which no contract destroys itself.      *)
DetectorSpec == DetectorInit /\ [][DetectorNext]_inspectorVars

(* The detector on every transaction.                                      *)
FullDetectorSpec == DetectorInit /\ [][DetectorNext \/ SelfDestruct]_inspectorVars

-----------------------------------------------------------------------------
FramedType == [events : Seq(Event), boundaries : Seq(Nat)]

DetectorTypeOK ==
  /\ orders \in FramedType
  /\ filleds \in FramedType
  /\ depth \in Nat
  /\ result \in {"none", "ok", "reverted"}
  /\ ending \in BOOLEAN
  /\ started \in BOOLEAN
  /\ panicked \in BOOLEAN
  /\ logs \in 0..MaxLogs
  /\ taken \in [orders : Seq(Event), filleds : Seq(Event)]

(* There is one boundary for each open call frame, in both logs, and no    *)
(* boundary lies beyond the events or below an outer frame's: what makes   *)
(* every pop of call_end find the boundary of its own frame, so that no    *)
(* hook panics and a revert truncates at the right place.                  *)
WellFramed(f, open) ==
  /\ Frames(f) = open
  /\ \A i \in 1..Frames(f) : f.boundaries[i] <= Len(f.events)
  /\ \A i, j \in 1..Frames(f) : i <= j => f.boundaries[i] <= f.boundaries[j]

FramesMatchCalls == ~panicked /\ WellFramed(orders, depth) /\ WellFramed(filleds, depth)

(* is_complete: "True if all frames have been exited".                     *)
CompleteMeansExited == (Frames(orders) = 0 /\ ~ending /\ ~panicked) => depth = 0

(* The events of a framed log, cut at its boundaries.                      *)
Segments(f) ==
  [i \in 1..(Frames(f) + 1) |->
     SubSeq(f.events,
            IF i = 1 THEN 1 ELSE f.boundaries[i - 1] + 1,
            IF i > Frames(f) THEN Len(f.events) ELSE f.boundaries[i])]

OrderTree == INSTANCE CallTree WITH segments <- Segments(orders),
                                    taken <- taken.orders
FilledTree == INSTANCE CallTree WITH segments <- Segments(filleds),
                                     taken <- taken.filleds

(* The orders a transaction is held to, and the fills it is credited with, *)
(* are those of the frames that survived, in the order they were emitted,  *)
(* whatever the nesting of calls and reverts between the two kinds.        *)
EventsFollowCalls == OrderTree!Spec /\ FilledTree!Spec
=============================================================================
