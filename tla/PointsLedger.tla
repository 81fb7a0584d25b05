----------------------------- MODULE PointsLedger -----------------------------
(***************************************************************************)
(* The points of the users on the child chain, as the client sees them     *)
(* through the watcher.  Both are outside of the repository and modelled   *)
(* from how client/src uses them: account.get_utxos, account.get_balance   *)
(* and transaction.all answer from the transactions the watcher has        *)
(* indexed, a prefix of those the chain has accepted.                      *)
(*                                                                         *)
(* A transaction is named by its place in history, a utxo by its place in  *)
(* coins.  Utxos of other tokens and the relayer's fee are left out: the   *)
(* client filters them away before it does anything else.                  *)
(***************************************************************************)
EXTENDS Naturals, Sequences, FiniteSets, Functions

CONSTANTS
    Account,       \* the accounts of the user's wallet
    Outside,       \* any other owner: another user, the flair address
    InitialCoins,  \* the utxos there are in the beginning
    MaxHistory     \* bound: transactions the chain accepts

Owner == Account \cup {Outside}

ASSUME LedgerAssumption ==
    /\ Outside \notin Account
    /\ MaxHistory \in Nat
    /\ InitialCoins \in Seq([owner : Owner, amount : Nat \ {0}, tx : {0}])

VARIABLES
    coins,    \* every utxo ever made: its owner, its amount, its transaction
    history,  \* the accepted transactions: who sent them, what they spend
    indexed   \* how many of them the watcher reports

ledgerVars == <<coins, history, indexed>>

Tx == 1..MaxHistory

LedgerTypeOK ==
    /\ coins \in Seq([owner : Owner, amount : Nat \ {0}, tx : 0..MaxHistory])
    /\ history \in Seq([sender : Account, spent : SUBSET (DOMAIN coins)])
    /\ Len(history) <= MaxHistory
    /\ indexed \in 0..Len(history)

LedgerInit ==
    /\ coins = InitialCoins
    /\ history = <<>>
    /\ indexed = 0

(* The utxos of u after the first n transactions: account.get_utxos. *)
GetUtxos(u, n) ==
    {c \in DOMAIN coins :
       /\ coins[c].owner = u
       /\ coins[c].tx <= n
       /\ \A t \in 1..n : c \notin history[t].spent}

Amount(S) == SumFunction([c \in S |-> coins[c].amount])

(* transaction.all: the indexed transactions that have an input or an      *)
(* output of u.                                                            *)
Involves(u, t) ==
    \/ history[t].sender = u
    \/ \E c \in DOMAIN coins : coins[c].tx = t /\ coins[c].owner = u

(* The chain accepts a transaction of sender that pays amount to a         *)
(* recipient and the rest back.                                            *)
Accept(sender, S, amount, recipient) ==
    LET t == Len(history) + 1
        change == Amount(S) - amount
        Coin(owner, n) == [owner |-> owner, amount |-> n, tx |-> t]
    IN  /\ t <= MaxHistory
        /\ S # {} /\ S \subseteq GetUtxos(sender, Len(history))
        /\ amount > 0 /\ amount <= Amount(S)
        /\ history' = Append(history, [sender |-> sender, spent |-> S])
        /\ coins' = coins \o (<<Coin(recipient, amount)>>
                               \o IF change = 0 THEN <<>> ELSE <<Coin(sender, change)>>)
        /\ UNCHANGED indexed

(* The watcher indexes one more transaction. *)
Index ==
    /\ indexed < Len(history)
    /\ indexed' = indexed + 1
    /\ UNCHANGED <<coins, history>>
===============================================================================
