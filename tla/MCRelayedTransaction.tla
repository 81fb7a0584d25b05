------------------------ MODULE MCRelayedTransaction ------------------------
(* Small amounts for RelayedTransaction and HistoryEntry. *)
EXTENDS HistoryEntry

MCAmounts == {1, 2}
MCSpendAmounts == 0..4
MCFeeUtxoAmounts == 1..9
=============================================================================
