------------------------------ MODULE FeeLending ------------------------------
(***************************************************************************)
(* What the fee relayer promises about its utxos, apart from how: a utxo   *)
(* is free, lent to one request, or spent.  A request may give it back or  *)
(* spend it; spending creates utxos that are new; a spent utxo is never    *)
(* lent again.  FeeRelay implements this with a cache that lags behind the *)
(* chain and a list of pending utxos.                                      *)
(***************************************************************************)
CONSTANTS
    Request,
    Utxo,
    NoUtxo   \* a request to which nothing is lent

VARIABLES
    free,
    lent,    \* the utxo lent to each request
    spent

lendingVars == <<free, lent, spent>>

Init ==
    /\ free \in SUBSET Utxo
    /\ lent = [r \in Request |-> NoUtxo]
    /\ spent = {}

Lend(r) ==
    /\ lent[r] = NoUtxo
    /\ \E u \in free :
          /\ free' = free \ {u}
          /\ lent' = [lent EXCEPT ![r] = u]
    /\ UNCHANGED spent

GiveBack(r) ==
    /\ lent[r] # NoUtxo
    /\ free' = free \cup {lent[r]}
    /\ lent' = [lent EXCEPT ![r] = NoUtxo]
    /\ UNCHANGED spent

Spend(r) ==
    /\ lent[r] # NoUtxo
    /\ \E new \in SUBSET (Utxo \ (free \cup spent \cup {lent[s] : s \in Request})) :
          free' = free \cup new
    /\ lent' = [lent EXCEPT ![r] = NoUtxo]
    /\ spent' = spent \cup {lent[r]}

Next == \E r \in Request : Lend(r) \/ GiveBack(r) \/ Spend(r)

Spec == Init /\ [][Next]_lendingVars
=============================================================================
