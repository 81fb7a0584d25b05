-------------------------------- MODULE MCClient --------------------------------
(* A small instance of Client for TLC. *)
EXTENDS Client

CONSTANTS alice, bob

Coin(n) == [owner |-> alice, amount |-> n, tx |-> 0]

(* Three of alice's utxos cover 4, and it takes all four to cover 5. *)
MCCoins == <<Coin(1), Coin(2), Coin(1), Coin(1)>>
=============================================================================
