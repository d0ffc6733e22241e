------------------------- MODULE MCInspectedDriver -------------------------
(***************************************************************************)
(* The driver of MCSignetDriver beside OrderDetector, the inspector its    *)
(* transactions run with.  SignetDriver takes the aggregates of a          *)
(* transaction as they are handed over (TxEvents) and OrderDetector shows  *)
(* how they come about: they share no state, and each behaviour has one of *)
(* them move.                                                              *)
(***************************************************************************)
EXTENDS MCSignetDriver, OrderDetector

VARIABLE part   \* which of them moves

(* The detector moves beside an empty block.                               *)
MCInit ==
  /\ Init /\ DetectorInit
  /\ \/ part = "driver"
     \/ /\ part = "detector"
        /\ extracts = [s \in Sort |-> 0] /\ context = EmptyMap

Driver(A) == part = "driver" /\ A /\ UNCHANGED <<inspectorVars, part>>
Detector(A) == part = "detector" /\ A /\ UNCHANGED <<vars, part>>

MCNext == Driver(Next) \/ Detector(DetectorNext)
MCSpec == MCInit /\ [][MCNext]_<<vars, inspectorVars, part>>
=============================================================================
