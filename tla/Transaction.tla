----------------------------- MODULE Transaction -----------------------------
(***************************************************************************)
(* The relayed transaction (fee-relayer/src/transaction.js and the         *)
(* validate function of fee-relayer/src/relay-tx.js).  A relayed           *)
(* transaction spends the user's utxos of the spendable token and one fee  *)
(* utxo of the relayer; it pays the recipient, returns the user's change   *)
(* and returns the fee change to the relayer, split into several outputs   *)
(* when the relayer is short of fee utxos.                                 *)
(*                                                                         *)
(* Only pure operators: no state.  Amounts are natural numbers (the code   *)
(* uses arbitrary-precision BN), a token or an address is any value.       *)
(* Metadata, signatures and the typed-data encoding are left out.          *)
(***************************************************************************)
EXTENDS Naturals, Sequences, FiniteSets, Functions

MAX_OUTPUTS == 4

(* An input or an output: who owns it, in which token, how much. *)
Coin(owner, token, amount) ==
    [owner |-> owner, token |-> token, amount |-> amount]

(* transaction.totalAmount over a sequence of amounts. *)
TotalAmount(amounts) == SumFunction(amounts)

AmountsOf(coins) == [i \in DOMAIN coins |-> coins[i].amount]

(* A bug: the remainder of the division is lost. *)
SplitAmountEqually(amount, numParts) ==
    [i \in 1..numParts |-> amount \div numParts]

(* Equal parts, the last one taking the remainder of the division. *)
SplitAmount(amount, numParts) ==
    LET a == amount \div numParts
    IN  [i \in 1..numParts |->
            IF i < numParts THEN a ELSE amount - a * (numParts - 1)]

(* A bug: the user's change output is not counted. *)
FeeChangeForgetsSpendChange(changeAmount, feeAmount, numNonFeeOutputs, splitFeeOutput) ==
    IF changeAmount = 0
    THEN <<>>
    ELSE IF splitFeeOutput /\ changeAmount >= feeAmount * (MAX_OUTPUTS - 1)
    THEN SplitAmount(changeAmount, MAX_OUTPUTS - 1)
    ELSE <<changeAmount>>

(* A bug: the whole change, not each part of it, must pay a fee. *)
FeeChangeInDust(changeAmount, feeAmount, numNonFeeOutputs, splitFeeOutput) ==
    IF changeAmount = 0
    THEN <<>>
    ELSE IF splitFeeOutput /\ changeAmount >= feeAmount
    THEN SplitAmount(changeAmount, MAX_OUTPUTS - numNonFeeOutputs)
    ELSE <<changeAmount>>

(***************************************************************************)
(* The amounts of the outputs that return the fee change.  The number of   *)
(* parts is what is left of MAX_OUTPUTS, and a split is made only when     *)
(* every part can pay a fee of its own.                                    *)
(***************************************************************************)
FeeChangeAmounts(changeAmount, feeAmount, numNonFeeOutputs, splitFeeOutput) ==
    LET maxNumFeeOutputs == MAX_OUTPUTS - numNonFeeOutputs
    IN  IF changeAmount = 0
        THEN <<>>
        ELSE IF splitFeeOutput /\ changeAmount >= feeAmount * maxNumFeeOutputs
        THEN SplitAmount(changeAmount, maxNumFeeOutputs)
        ELSE <<changeAmount>>

(* The conditions under which transaction.create does not throw. *)
CanCreate(spendUtxos, spendAmount, feeUtxos, feeAmount) ==
    /\ spendUtxos # <<>>
    /\ feeUtxos # <<>>
    /\ TotalAmount(AmountsOf(spendUtxos)) >= spendAmount
    /\ TotalAmount(AmountsOf(feeUtxos)) >= feeAmount

(***************************************************************************)
(* transaction.create: the payment, the spend change if there is any, then *)
(* the fee change.                                                         *)
(***************************************************************************)
Create(from, to, spendUtxos, spendAmount, spendToken, feeUtxos, feeAmount, feeOwner, splitFeeOutput) ==
    LET spendChange == TotalAmount(AmountsOf(spendUtxos)) - spendAmount
        feeChange   == TotalAmount(AmountsOf(feeUtxos)) - feeAmount
        numNonFee   == IF spendChange > 0 THEN 2 ELSE 1
        payment     == <<Coin(to, spendToken, spendAmount)>>
        change      == IF spendChange > 0
                       THEN <<Coin(from, spendToken, spendChange)>>
                       ELSE <<>>
        parts       == FeeChangeAmounts(feeChange, feeAmount, numNonFee,
                                        splitFeeOutput)
        feeOutputs  == [i \in DOMAIN parts |->
                           Coin(feeOwner, feeUtxos[1].token, parts[i])]
    IN  [inputs  |-> spendUtxos \o feeUtxos,
         outputs |-> payment \o change \o feeOutputs]

(* The amounts of the coins at some places of a sequence, summed. *)
TotalAt(coins, places) == SumFunctionOnSet(AmountsOf(coins), places)

(* The places of the coins of a token. *)
OfToken(coins, token) == {i \in DOMAIN coins : coins[i].token = token}

(* A bug: a transaction that pays more than the fee passes too. *)
ValidateAtLeastFee(tx, numSigs, spendableTokens, feeCurrency, feeAmount) ==
    TotalAt(tx.inputs, OfToken(tx.inputs, feeCurrency))
       >= TotalAt(tx.outputs, OfToken(tx.outputs, feeCurrency)) + feeAmount

(***************************************************************************)
(* relayTx.validate does not throw.  numSigs is the number of signatures   *)
(* the client sent; the fee payer is the owner of the first fee input.     *)
(***************************************************************************)
Validate(tx, numSigs, spendableTokens, feeCurrency, feeAmount) ==
    LET spendInputs == UNION {OfToken(tx.inputs, token) : token \in spendableTokens}
        feeInputs   == OfToken(tx.inputs, feeCurrency)
    IN  /\ Len(tx.inputs) >= 2
        /\ tx.outputs # <<>>
        /\ spendInputs # {}
        /\ Cardinality(spendInputs) = numSigs
        /\ feeInputs # {}
        /\ LET first    == CHOOSE i \in feeInputs : \A j \in feeInputs : i <= j
               feePayer == tx.inputs[first].owner
               back     == {i \in OfToken(tx.outputs, feeCurrency) :
                               tx.outputs[i].owner = feePayer}
           IN  TotalAt(tx.inputs, feeInputs) = TotalAt(tx.outputs, back) + feeAmount
=============================================================================
