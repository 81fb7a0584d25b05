------------------------------ MODULE ChildChain ------------------------------
(***************************************************************************)
(* The services the fee relayer talks to: the child chain, which accepts   *)
(* transactions, and the watcher, which answers account.get_utxos in       *)
(* pages.  Neither is part of the repository; both are modelled from how   *)
(* fee-relayer/src uses them, for the one account the relayer pays from.   *)
(*                                                                         *)
(* A utxo of the fee payer is named by its position in ledger, the         *)
(* sequence of the amounts of all fee utxos ever created: like blknum,     *)
(* txindex and oindex in the code, a name is never used again.             *)
(***************************************************************************)
EXTENDS Naturals, Sequences, FiniteSets

CONSTANTS
    InitialLedger,  \* amounts of the utxos the relayer starts with
    Fees,           \* the values the child chain's fee can take
    MaxUtxo,        \* bound: utxos ever created for the fee payer
    PageLimit       \* limit sent with account.get_utxos (200 in the code)

ASSUME ChainAssumption ==
    /\ InitialLedger \in Seq(Nat)
    /\ Fees \subseteq Nat \ {0}
    /\ Fees # {}
    /\ MaxUtxo \in Nat
    /\ Len(InitialLedger) <= MaxUtxo
    /\ PageLimit \in Nat \ {0}

VARIABLES
    ledger,   \* amount of every utxo of the fee payer, in order of creation
    unspent,  \* the utxos the child chain would still accept as inputs
    watcher,  \* the utxos the watcher reports: it follows with a delay
    fee       \* the fee amount the child chain asks for (getFees)

chainVars == <<ledger, unspent, watcher, fee>>

Utxo == 1..MaxUtxo

ChainTypeOK ==
    /\ ledger \in Seq(Nat)
    /\ Len(ledger) <= MaxUtxo
    /\ unspent \subseteq DOMAIN ledger
    /\ watcher \subseteq DOMAIN ledger
    /\ fee \in Fees

ChainInit ==
    /\ ledger = InitialLedger
    /\ unspent = DOMAIN InitialLedger
    /\ watcher = DOMAIN InitialLedger
    /\ fee \in Fees

(* The chain accepts a transaction that spends u and pays change back to   *)
(* the fee payer in outputs of the given amounts.                          *)
Spend(u, change) ==
    /\ u \in unspent
    /\ Len(ledger) + Len(change) <= MaxUtxo
    /\ ledger' = ledger \o change
    /\ unspent' = (unspent \ {u})
                     \cup (Len(ledger) + 1 .. Len(ledger) + Len(change))
    /\ UNCHANGED <<watcher, fee>>

(* The watcher catches up with the chain. *)
WatcherSync ==
    /\ watcher # unspent
    /\ watcher' = unspent
    /\ UNCHANGED <<ledger, unspent, fee>>

(* The child chain's operator announces another fee. *)
ChangeFee ==
    /\ fee' \in Fees \ {fee}
    /\ UNCHANGED <<ledger, unspent, watcher>>

(* Page p, counted from 1, of what the watcher reports, oldest first. *)
Page(p) ==
    {u \in watcher :
        LET before == Cardinality({v \in watcher : v < u})
        IN  (p - 1) * PageLimit <= before /\ before < p * PageLimit}

(* The page is shorter than the limit, so no other page follows. *)
IsLastPage(p) == Cardinality(Page(p)) < PageLimit
=============================================================================
