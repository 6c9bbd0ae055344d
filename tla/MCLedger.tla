------------------------------ MODULE MCLedger -------------------------------
(***************************************************************************)
(* Instances of Ledger for TLC.                                            *)
(***************************************************************************)
EXTENDS LedgerProperties, TLC

MCUserOfTopup == [t \in Topups |-> 1]
MCUserOfItem  == [i \in Items |-> IF i \in Users THEN i ELSE 1]
MCAdjustments == {-4}
MCFace  == [t \in Topups |-> 5]
MCPrice == [i \in Items |-> i]
\* Five per cent of five is a quarter, which is rounded down, of fifty per cent up.
MCTiers == { [minimum |-> 1, points |-> 500], [minimum |-> 4, points |-> 5000] }
=============================================================================
