----------------------------- MODULE HistoryEntry -----------------------------
(***************************************************************************)
(* What the user reads of a transaction (client/src/app/services/          *)
(* networkService.ts): the Pending entry that transfer or merge makes when *)
(* it submits, and the Confirmed one that getAllTransactions makes of the  *)
(* inputs and outputs when the watcher reports it.  And a merge as it is   *)
(* signed and sent, by getTypedData and buildSignedTransaction of          *)
(* omgService.ts.                                                          *)
(***************************************************************************)
EXTENDS RelayedTransaction

CONSTANT NotAvailable  \* 'N/A'

ASSUME NotAnAddress == NotAvailable \notin {User, Recipient, FeePayer}

(* The watcher lists no utxo of amount 0: the network makes none. *)
ASSUME NoEmptyUtxo == 0 \notin Amounts

Entry(direction, sender, recipient, amount) ==
    [direction |-> direction, sender |-> sender, recipient |-> recipient, amount |-> amount]

(* The entry of transfer. *)
PendingTransfer == Entry("outgoing", User, asked.to, asked.amount)

---------------------------------------------------------------------------
(* The user's points among the coins of a transaction, and other people's. *)
Matching(coins, user) == {i \in OfToken(coins, Points) : coins[i].owner = user}
Different(coins, user) == {i \in OfToken(coins, Points) : coins[i].owner # user}

FirstOwner(coins, places) ==
    IF places = {} THEN NotAvailable
    ELSE coins[CHOOSE i \in places : \A j \in places : i <= j].owner

IsMerge(t, user) ==
    /\ Matching(t.inputs, user) = DOMAIN t.inputs
    /\ Matching(t.outputs, user) = DOMAIN t.outputs
    /\ Len(t.inputs) > Len(t.outputs)

(* A bug: all outputs in points count, the change included. *)
OutgoingWithChange(t, user) ==
    Entry("outgoing", user, FirstOwner(t.outputs, Different(t.outputs, user)),
          TotalAt(t.outputs, OfToken(t.outputs, Points)))

Outgoing(t, user) ==
    Entry("outgoing", user, FirstOwner(t.outputs, Different(t.outputs, user)),
          TotalAt(t.outputs, Different(t.outputs, user)))

Incoming(t, user) ==
    Entry("incoming", FirstOwner(t.inputs, Different(t.inputs, user)), user,
          TotalAt(t.outputs, Matching(t.outputs, user)))

(* The entry of a transaction that has some points, for one of its users. *)
Confirmed(t, user) ==
    IF IsMerge(t, user) THEN Entry("merge", user, user, TotalAmount(AmountsOf(t.outputs)))
    ELSE IF Matching(t.inputs, user) # {} THEN Outgoing(t, user)
    ELSE Incoming(t, user)

---------------------------------------------------------------------------
MAX_INPUTS == 4

(* Merge: what the first of the user's utxos make in one output. *)
UtxosToMerge == [i \in DOMAIN SpendUtxos \cap 1..MAX_INPUTS |-> SpendUtxos[i]]

MergedAmount == TotalAmount(AmountsOf(UtxosToMerge))

MergeBody ==
    [inputs  |-> UtxosToMerge,
     outputs |-> <<Coin(User, Points, MergedAmount)>>]

PendingMerge == Entry("merge", User, User, MergedAmount)

(* The null coin has block number and amount 0. *)
NullCoin == Coin(NotAvailable, NotAvailable, 0)

(* A bug: the last coin is taken for padding. *)
PadShort(coins, n) == [i \in 1..n |-> IF i < Len(coins) THEN coins[i] ELSE NullCoin]

Pad(coins, n) == [i \in 1..n |-> IF i <= Len(coins) THEN coins[i] ELSE NullCoin]

(* getTypedData: four inputs and four outputs, whatever there are. *)
TypedData(body) ==
    [inputs |-> Pad(body.inputs, MAX_INPUTS), outputs |-> Pad(body.outputs, MAX_OUTPUTS)]

(* toArray takes the padding away again, one of the four after the other. *)
AddInput(input) == IF input # NullCoin THEN <<input>> ELSE <<>>
AddOutput(output) == IF output.amount > 0 THEN <<output>> ELSE <<>>

ToArray(message) ==
    [inputs  |-> AddInput(message.inputs[1]) \o AddInput(message.inputs[2])
                    \o AddInput(message.inputs[3]) \o AddInput(message.inputs[4]),
     outputs |-> AddOutput(message.outputs[1]) \o AddOutput(message.outputs[2])
                    \o AddOutput(message.outputs[3]) \o AddOutput(message.outputs[4])]

---------------------------------------------------------------------------
(***************************************************************************)
(* The entry that is guessed from inputs and outputs tells the transfer    *)
(* that was made, to both sides, in spite of change, of the relayer's fee  *)
(* utxo and of its change, and none looks like a merge.  The exception is  *)
(* a transfer to oneself: it is listed as nothing sent to nobody.          *)
(***************************************************************************)
EntryTellsTheTransfer ==
    stage = "accepted" /\ asked.amount > 0 =>
       /\ Confirmed(tx, User) =
             IF asked.to # User THEN PendingTransfer
             ELSE Entry("outgoing", User, NotAvailable, 0)
       /\ asked.to # User =>
             Confirmed(tx, asked.to) = Entry("incoming", User, asked.to, asked.amount)

(***************************************************************************)
(* What is signed and sent as a merge is what was asked for: the null      *)
(* inputs and outputs of the typed data go in and come out again, and no   *)
(* coin of the user with them.  It is listed as the merge it was, but for  *)
(* one of a single utxo, which the modal does not forbid.                  *)
(***************************************************************************)
MergeIsWhatItSays ==
    asked.amounts # <<>> =>
       /\ ToArray(TypedData(MergeBody)) = MergeBody
       /\ Confirmed(MergeBody, User) =
             IF Len(asked.amounts) > 1 THEN PendingMerge
             ELSE Entry("outgoing", User, NotAvailable, 0)
=============================================================================
