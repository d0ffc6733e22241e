----------------------------- MODULE MCSimRound -----------------------------
(***************************************************************************)
(* Instances of SimRound: a bundle, its replacement and a transaction.     *)
(***************************************************************************)
EXTENDS SimRound

CONSTANTS older, newer, tx, uuid

MCItem == {older, newer, tx}
MCBundle == {older, newer}
MCId == {uuid, tx}
MCIdOf == [i \in Item |-> IF i \in MCBundle THEN uuid ELSE i]
MCFirst == [i \in Item |-> 0]
MCLast == MCFirst
=============================================================================
