------------------------- MODULE RelayedTransaction -------------------------
(***************************************************************************)
(* The life of one relayed transaction, with its contents: the relayer     *)
(* builds it (fee-relayer/src/relay-tx.js create), the user signs it       *)
(* (client/src/app/services/networkService.ts transfer), the fee may       *)
(* change meanwhile, and the relayer validates it before it adds its own   *)
(* signature (submit-relayed-tx).  FeeRelay has the many requests and the  *)
(* pool; here is one request and every amount.                             *)
(***************************************************************************)
EXTENDS Transaction

CONSTANTS
    User, Recipient, FeePayer,  \* addresses
    Points, FeeToken,           \* spendableToken and feeToken
    Amounts,                    \* bound: amounts of a utxo of the user
    MaxInputs,                  \* bound: utxos of the user in a transaction
    SpendAmounts,               \* bound: amounts the user may send
    FeeUtxoAmounts,             \* bound: amounts of a fee utxo
    Fees                        \* bound: values of the child chain's fee

ASSUME TransactionAssumption ==
    /\ Cardinality({User, Recipient, FeePayer}) = 3
    /\ Points # FeeToken
    /\ Amounts \subseteq Nat
    /\ MaxInputs \in Nat
    /\ SpendAmounts \subseteq Nat
    /\ FeeUtxoAmounts \subseteq Nat
    /\ Fees \subseteq Nat \ {0}

VARIABLES
    stage,   \* "asked", "failed", "built", "accepted" or "refused"
    asked,   \* the body of create-relayed-tx and the fee utxo found for it
    quote,   \* the fee amount read by the create handler
    fee,     \* the fee amount the child chain asks for now
    tx

txVars == <<stage, asked, quote, fee, tx>>

NoTx == [inputs |-> <<>>, outputs |-> <<>>]

Requests ==
    [amounts : UNION {[1..n -> Amounts] : n \in 0..MaxInputs},
     amount  : SpendAmounts,
     to      : {User, Recipient, FeePayer},
     feeUtxo : FeeUtxoAmounts,
     split   : BOOLEAN]

(* getFeeUtxo found a utxo that pays the fee (UtxoManager's ValidUtxos).   *)
(* Whether needMoreUtxos holds depends on the pool.                        *)
Init ==
    /\ stage = "asked"
    /\ fee \in Fees
    /\ quote = fee
    /\ asked \in {a \in Requests : a.feeUtxo >= fee}
    /\ tx = NoTx

SpendUtxos == [i \in DOMAIN asked.amounts |-> Coin(User, Points, asked.amounts[i])]

FeeUtxos == <<Coin(FeePayer, FeeToken, asked.feeUtxo)>>

(* relayTx.create: transaction.create throws ... *)
CreateThrows ==
    /\ stage = "asked"
    /\ ~CanCreate(SpendUtxos, asked.amount, FeeUtxos, quote)
    /\ stage' = "failed"
    /\ UNCHANGED <<asked, quote, fee, tx>>

(* A bug: the transaction is built and the request not answered. *)
CreateTxUnanswered ==
    /\ stage = "asked"
    /\ CanCreate(SpendUtxos, asked.amount, FeeUtxos, quote)
    /\ tx' = Create(User, asked.to, SpendUtxos, asked.amount, Points,
                    FeeUtxos, quote, FeePayer, asked.split)
    /\ UNCHANGED <<stage, asked, quote, fee>>

(* ... or builds the transaction. *)
CreateTx ==
    /\ stage = "asked"
    /\ CanCreate(SpendUtxos, asked.amount, FeeUtxos, quote)
    /\ tx' = Create(User, asked.to, SpendUtxos, asked.amount, Points,
                    FeeUtxos, quote, FeePayer, asked.split)
    /\ stage' = "built"
    /\ UNCHANGED <<asked, quote, fee>>

ChangeFee ==
    /\ stage = "built"
    /\ fee' \in Fees \ {fee}
    /\ UNCHANGED <<stage, asked, quote, tx>>

(* The client sends one signature for each input it owns. *)
NumSigs == Cardinality({i \in DOMAIN tx.inputs : tx.inputs[i].owner = User})

Submit ==
    /\ stage = "built"
    /\ stage' = IF Validate(tx, NumSigs, {Points}, FeeToken, fee)
                THEN "accepted"
                ELSE "refused"
    /\ UNCHANGED <<asked, quote, fee, tx>>

Next == CreateThrows \/ CreateTx \/ ChangeFee \/ Submit

Spec == Init /\ [][Next]_txVars

---------------------------------------------------------------------------
Total(coins, owner, token) ==
    TotalAt(coins, {i \in OfToken(coins, token) : coins[i].owner = owner})

If(condition, amount) == IF condition THEN amount ELSE 0

(***************************************************************************)
(* transaction.js adds the outputs up from four totals and a division.     *)
(* Whatever the change and its split, no unit of any token is created or   *)
(* lost but for the fee: the user pays exactly the amount, the recipient   *)
(* gets exactly the amount, and the relayer pays exactly the fee.          *)
(***************************************************************************)
ExactlyPaid ==
    tx # NoTx =>
       \A owner \in {User, Recipient, FeePayer}, token \in {Points, FeeToken} :
          Total(tx.inputs, owner, token)
             + If(owner = asked.to /\ token = Points, asked.amount)
          = Total(tx.outputs, owner, token)
             + If(owner = User /\ token = Points, asked.amount)
             + If(owner = FeePayer /\ token = FeeToken, quote)

(***************************************************************************)
(* The child chain refuses a transaction of more than MAX_OUTPUTS outputs. *)
(* The split of the fee change fills the transaction to that limit and     *)
(* must leave room for the user's change.                                  *)
(***************************************************************************)
FitsInTransaction == Len(tx.outputs) <= MAX_OUTPUTS

(***************************************************************************)
(* A split multiplies the fee utxos: each part can pay the fee of another  *)
(* transaction.  A part that cannot would be dust that still counts as one *)
(* of the desired utxos.                                                   *)
(***************************************************************************)
SplitPartsPayFee ==
    LET feeOutputs == {i \in DOMAIN tx.outputs : tx.outputs[i].token = FeeToken}
    IN  Cardinality(feeOutputs) > 1 =>
           \A i \in feeOutputs : tx.outputs[i].amount >= quote

(***************************************************************************)
(* validate recomputes the fee from the transaction it is handed, and      *)
(* knows nothing of how it was built.  It lets a transaction that create   *)
(* built pass exactly when the fee is still the one it was built for.      *)
(***************************************************************************)
AcceptedForQuotedFee ==
    /\ stage = "accepted" => fee = quote
    /\ stage = "refused"  => fee # quote

RelayedTxTypeOK ==
    /\ stage \in {"asked", "failed", "built", "accepted", "refused"}
    /\ asked \in Requests
    /\ quote \in Fees
    /\ fee \in Fees
    /\ stage \in {"asked", "failed"} <=> tx = NoTx
=============================================================================
