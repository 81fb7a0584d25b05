-------------------------------- MODULE MCFlair --------------------------------
(* A small instance of Flair for TLC. *)
EXTENDS Flair

CONSTANTS a1, a2

F(name, lvl) == [name |-> name, lvl |-> lvl]

MCFlairs == {F("rock", 1), F("rock", 2), F("wave", 1)}

Paid(owner, flair) == [owner |-> owner, flair |-> flair, exact |-> TRUE]

(* The second address buys level 2 alone, and pays too little for level 1. *)
MCBurns ==
    {Paid(a1, F("rock", 1)), Paid(a1, F("rock", 2)),
     Paid(a1, F("wave", 1)), Paid(a2, F("wave", 1)), Paid(a2, F("rock", 2)),
     [owner |-> a2, flair |-> F("rock", 1), exact |-> FALSE]}
=============================================================================
