------------------------------ MODULE MCFeeRelay ------------------------------
(* Small instances of FeeRelay for TLC. *)
EXTENDS FeeRelay, TLC

(* One utxo that can be split, and one that pays a single fee. *)
MCLedger == <<4, 2>>

(* One utxo that pays one fee: nothing is left to split. *)
MCLedgerExact == <<1>>

Symmetry == Permutations(Request)
=============================================================================
