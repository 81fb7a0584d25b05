--------------------------- MODULE MCAccountLease ---------------------------
(* A small instance of AccountLease for TLC. *)
EXTENDS AccountLease

MCAccounts == <<"a", "b">>
=============================================================================
