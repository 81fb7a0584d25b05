---------------------- MODULE RelayedTransaction_proofs ----------------------
(***************************************************************************)
(* Proofs about a relayed transaction and what is read of it, for all      *)
(* amounts, fees and addresses and any number of inputs.  The invariant    *)
(* says of which shape a transaction is once it is built; what it is worth *)
(* to whom, whether it is accepted and how it is listed follow from that.  *)
(***************************************************************************)
EXTENDS HistoryEntry, Sums

---------------------------------------------------------------------------
(* A split has as many parts as asked for. *)
LEMMA SplitLength ==
    ASSUME NEW amount, NEW n \in {2, 3}
    PROVE  /\ SplitAmount(amount, n) = [i \in 1..n |-> SplitAmount(amount, n)[i]]
           /\ DOMAIN SplitAmount(amount, n) = 1..n
           /\ Len(SplitAmount(amount, n)) = n
<1>1. CASE n = 2
  BY <1>1 DEF SplitAmount
<1>2. CASE n = 3
  BY <1>2 DEF SplitAmount
<1>3. QED
  BY <1>1, <1>2

(* The parts of a split add up to what was split: the last one takes the   *)
(* remainder of the division.                                              *)
THEOREM SplitLosesNothing ==
    ASSUME NEW amount \in Nat
    PROVE  /\ LET p == SplitAmount(amount, 2) IN p[1] + p[2] = amount
           /\ LET p == SplitAmount(amount, 3) IN p[1] + p[2] + p[3] = amount
<1>1. LET p == SplitAmount(amount, 2) IN p[1] + p[2] = amount
  BY DEF SplitAmount
<1>2. LET p == SplitAmount(amount, 3) IN p[1] + p[2] + p[3] = amount
  BY DEF SplitAmount
<1>3. QED
  BY <1>1, <1>2

(* A split of enough change leaves no part too small to pay a fee. *)
LEMMA SplitPays ==
    ASSUME NEW amount \in Nat, NEW feeAmount \in Nat, NEW n \in {2, 3},
           amount >= feeAmount * n
    PROVE  \A i \in 1..n : SplitAmount(amount, n)[i] >= feeAmount
<1>1. CASE n = 2
  <2>1. amount >= 2 * feeAmount
    BY <1>1
  <2>2. amount \div 2 >= feeAmount /\ amount - (amount \div 2) >= feeAmount
    BY <2>1
  <2>3. QED
    BY <1>1, <2>2 DEF SplitAmount
<1>2. CASE n = 3
  <2>1. amount >= 3 * feeAmount
    BY <1>2
  <2>2. amount \div 3 >= feeAmount /\ amount - (amount \div 3) * 2 >= feeAmount
    BY <2>1
  <2>3. QED
    BY <1>2, <2>2 DEF SplitAmount
<1>3. QED
  BY <1>1, <1>2

---------------------------------------------------------------------------
(* The shape of a transaction *)

NumSpent == Len(asked.amounts)
Given    == TotalAmount(asked.amounts)
NonFee   == IF Given > asked.amount THEN 2 ELSE 1
Back(t)  == Len(t.outputs) - NonFee
Parts(t) == [i \in 1..Back(t) |-> t.outputs[i + NonFee].amount]

Coins == [owner : {User, Recipient, FeePayer}, token : {Points, FeeToken}, amount : Nat]

(***************************************************************************)
(* What create makes of a request: the user's utxos and the fee utxo in,   *)
(* the payment, the change if there is any and the parts of the fee change *)
(* out.                                                                    *)
(***************************************************************************)
InputsAre(t) ==
    /\ t.inputs \in Seq(Coins)
    /\ NumSpent > 0
    /\ Len(t.inputs) = NumSpent + 1
    /\ \A i \in 1..NumSpent : t.inputs[i] = Coin(User, Points, asked.amounts[i])
    /\ t.inputs[NumSpent + 1] = Coin(FeePayer, FeeToken, asked.feeUtxo)

OutputsAre(t) ==
    /\ t.outputs \in Seq(Coins)
    /\ Given >= asked.amount
    /\ Back(t) \in 0..(MAX_OUTPUTS - NonFee)
    /\ t.outputs[1] = Coin(asked.to, Points, asked.amount)
    /\ NonFee = 2 => t.outputs[2] = Coin(User, Points, Given - asked.amount)
    /\ \A i \in 1..Back(t) : t.outputs[i + NonFee] = Coin(FeePayer, FeeToken, Parts(t)[i])

FeeChangeIs(t) ==
    /\ asked.feeUtxo = TotalAmount(Parts(t)) + quote
    /\ Back(t) > 1 => \A i \in 1..Back(t) : Parts(t)[i] >= quote

IsBuilt(t) == InputsAre(t) /\ OutputsAre(t) /\ FeeChangeIs(t)

ShapeInv ==
    /\ RelayedTxTypeOK
    /\ asked.feeUtxo >= quote
    /\ tx # NoTx => IsBuilt(tx)

(* What a request is made of. *)
LEMMA RequestFacts ==
    ASSUME asked \in Requests
    PROVE  /\ NumSpent \in Nat
           /\ asked.amounts \in [1..NumSpent -> Nat]
           /\ Given \in Nat
           /\ asked.amount \in Nat /\ asked.feeUtxo \in Nat
           /\ asked.to \in {User, Recipient, FeePayer} /\ asked.split \in BOOLEAN
<1>1. /\ asked.amounts \in UNION {[1..n -> Amounts] : n \in 0..MaxInputs}
      /\ asked.amount \in Nat /\ asked.feeUtxo \in Nat
      /\ asked.to \in {User, Recipient, FeePayer} /\ asked.split \in BOOLEAN
  BY TransactionAssumption DEF Requests
<1>2. PICK n \in Nat : asked.amounts \in [1..n -> Amounts]
  BY <1>1, TransactionAssumption
<1>3. asked.amounts \in [1..n -> Nat]
  BY <1>2, TransactionAssumption
<1>4. Len(asked.amounts) = n
  BY <1>2
<1>5. Given \in Nat
  <2>1. IsFiniteSet(1..n) /\ \A i \in 1..n : asked.amounts[i] \in Nat
    BY <1>3, FS_Interval
  <2>2. DOMAIN asked.amounts = 1..n
    BY <1>3
  <2>3. QED
    BY <2>1, <2>2, SumNat DEF Given, TotalAmount, SumFunction
<1>6. QED
  BY <1>1, <1>3, <1>4, <1>5 DEF NumSpent

(* What the inputs of a request are worth. *)
LEMMA InputTotals ==
    ASSUME asked \in Requests
    PROVE  /\ TotalAmount(AmountsOf(SpendUtxos)) = Given
           /\ TotalAmount(AmountsOf(FeeUtxos)) = asked.feeUtxo
<1>1. AmountsOf(SpendUtxos) = asked.amounts
  BY RequestFacts DEF AmountsOf, SpendUtxos, Coin
<1>2. DOMAIN AmountsOf(FeeUtxos) = {1} /\ AmountsOf(FeeUtxos)[1] = asked.feeUtxo
  BY DEF AmountsOf, FeeUtxos, Coin
<1>3. asked.feeUtxo \in Int
  BY RequestFacts
<1>4. TotalAmount(AmountsOf(FeeUtxos)) = asked.feeUtxo
  BY <1>2, <1>3, SumOne DEF TotalAmount, SumFunction
<1>5. QED
  BY <1>1, <1>4 DEF Given

(* The fee change is returned in full, in no more outputs than there is    *)
(* room for, and several of them pay a fee each.                           *)
THEOREM FeeChangeParts ==
    ASSUME NEW change \in Nat, NEW feeAmount \in Nat \ {0}, NEW n \in {1, 2},
           NEW split \in BOOLEAN
    PROVE  LET parts == FeeChangeAmounts(change, feeAmount, n, split)
           IN  \E k \in 0..(MAX_OUTPUTS - n) :
                  /\ parts \in [1..k -> Nat]
                  /\ TotalAmount(parts) = change
                  /\ k > 1 => \A i \in 1..k : parts[i] >= feeAmount
<1> DEFINE parts == FeeChangeAmounts(change, feeAmount, n, split)
           max   == MAX_OUTPUTS - n
           Good(k) == /\ parts \in [1..k -> Nat]
                      /\ TotalAmount(parts) = change
                      /\ k > 1 => \A i \in 1..k : parts[i] >= feeAmount
<1>1. max \in {2, 3}
  BY DEF MAX_OUTPUTS
<1> HIDE DEF max
<1>2. \/ change = 0 /\ parts = <<>>
      \/ parts = <<change>>
      \/ change >= feeAmount * max /\ parts = SplitAmount(change, max)
  BY DEF FeeChangeAmounts, max
<1>3. CASE change = 0 /\ parts = <<>>
  <2>1. DOMAIN parts = {} /\ parts \in [1..0 -> Nat]
    <3>1. 1..0 = {} /\ <<>> \in [{} -> Nat] /\ DOMAIN <<>> = {}
      OBVIOUS
    <3> HIDE DEF parts
    <3>2. QED
      BY <1>3, <3>1
  <2>2. TotalAmount(parts) = 0
    BY <2>1, SumEmpty DEF TotalAmount, SumFunction
  <2>3. Good(0)
    BY <1>3, <2>1, <2>2
  <2>4. QED
    BY <1>1, <2>3 DEF max
<1>4. CASE parts = <<change>>
  <2>1. DOMAIN parts = {1} /\ parts[1] = change /\ parts \in [1..1 -> Nat]
    BY <1>4
  <2>2. TotalAmount(parts) = change
    BY <2>1, SumOne DEF TotalAmount, SumFunction
  <2> HIDE DEF parts
  <2>3. Good(1)
    BY <2>1, <2>2
  <2>4. QED
    BY <1>1, <2>3 DEF max, parts
<1>5. CASE change >= feeAmount * max /\ parts = SplitAmount(change, max)
  <2>1. DOMAIN parts = 1..max /\ parts = [i \in 1..max |-> parts[i]]
    BY <1>1, <1>5, SplitLength
  <2>2. \A i \in 1..max : parts[i] \in Int /\ parts[i] >= feeAmount
    <3>1. \A i \in 1..max : parts[i] \in Int
      BY <1>1, <1>5 DEF SplitAmount
    <3>2. \A i \in 1..max : parts[i] >= feeAmount
      BY <1>1, <1>5, SplitPays
    <3>3. QED
      BY <3>1, <3>2
  <2>3. TotalAmount(parts) = change
    <3>1. CASE max = 2
      <4>1. parts[1] + parts[2] = change /\ parts[1] \in Int /\ parts[2] \in Int
        BY <1>5, <2>2, <3>1, SplitLosesNothing
      <4>2. SumFunctionOnSet(parts, 1..2) = parts[1] + parts[2]
        BY <4>1, SumUpTo
      <4>3. QED
        BY <2>1, <3>1, <4>1, <4>2 DEF TotalAmount, SumFunction
    <3>2. CASE max = 3
      <4>1. /\ parts[1] + parts[2] + parts[3] = change
            /\ parts[1] \in Int /\ parts[2] \in Int /\ parts[3] \in Int
        BY <1>5, <2>2, <3>2, SplitLosesNothing
      <4>2. SumFunctionOnSet(parts, 1..3) = parts[1] + parts[2] + parts[3]
        BY <4>1, SumUpTo
      <4>3. QED
        BY <2>1, <3>2, <4>1, <4>2 DEF TotalAmount, SumFunction
    <3>3. QED
      BY <1>1, <3>1, <3>2
  <2> HIDE DEF parts
  <2>4. \A i \in 1..max : parts[i] \in Nat
    BY <2>2
  <2>5. Good(max)
    BY <2>1, <2>2, <2>3, <2>4
  <2>6. QED
    BY <1>1, <2>5 DEF max, parts
<1>6. QED
  BY <1>2, <1>3, <1>4, <1>5

(* The three parties are three. *)
LEMMA Parties == User # Recipient /\ User # FeePayer /\ Recipient # FeePayer
<1>1. ASSUME NEW a, NEW b, NEW S, S = {a, b} PROVE Cardinality(S) # 3
  <2>1. {a} \cup {b} = S /\ IsFiniteSet({a}) /\ Cardinality({a}) = 1
    BY <1>1, FS_Singleton
  <2>2. Cardinality({a} \cup {b}) \in {1, 2}
    BY <2>1, FS_AddElement
  <2>3. QED
    BY <2>1, <2>2
<1>2. CASE User = Recipient
  <2>1. {User, Recipient, FeePayer} = {User, FeePayer}
    BY <1>2
  <2>2. QED
    BY <1>1, <2>1, TransactionAssumption
<1>3. CASE User = FeePayer \/ Recipient = FeePayer
  <2>1. {User, Recipient, FeePayer} = {User, Recipient}
    BY <1>3
  <2>2. QED
    BY <1>1, <2>1, TransactionAssumption
<1>4. QED
  BY <1>2, <1>3

---------------------------------------------------------------------------
(* What create builds *)

Built == Create(User, asked.to, SpendUtxos, asked.amount, Points,
                FeeUtxos, quote, FeePayer, asked.split)

LEMMA BuiltInputs ==
    ASSUME asked \in Requests, CanCreate(SpendUtxos, asked.amount, FeeUtxos, quote)
    PROVE  InputsAre(Built)
<1>1. Built.inputs = SpendUtxos \o FeeUtxos
  BY DEF Built, Create
<1>2. SpendUtxos \in [1..NumSpent -> Coins] /\ NumSpent \in Nat
  BY RequestFacts DEF SpendUtxos, Coin, Coins
<1>3. NumSpent > 0
  <2>1. CASE NumSpent = 0
    <3>1. SpendUtxos = <<>>
      BY <1>2, <2>1
    <3>2. QED
      BY <3>1 DEF CanCreate
  <2>2. QED
    BY <1>2, <2>1
<1>4. FeeUtxos \in Seq(Coins) /\ Len(FeeUtxos) = 1 /\ FeeUtxos[1] = Coin(FeePayer, FeeToken, asked.feeUtxo)
  BY RequestFacts DEF FeeUtxos, Coin, Coins
<1>5. \A i \in 1..NumSpent : SpendUtxos[i] = Coin(User, Points, asked.amounts[i])
  BY RequestFacts DEF SpendUtxos
<1> HIDE DEF NumSpent, Coin
<1>6. SpendUtxos \in Seq(Coins) /\ Len(SpendUtxos) = NumSpent
  BY <1>2
<1>7. /\ SpendUtxos \o FeeUtxos \in Seq(Coins)
      /\ Len(SpendUtxos \o FeeUtxos) = NumSpent + 1
      /\ \A i \in 1..NumSpent : (SpendUtxos \o FeeUtxos)[i] = SpendUtxos[i]
      /\ (SpendUtxos \o FeeUtxos)[NumSpent + 1] = FeeUtxos[1]
  <2>1. 1 + NumSpent = NumSpent + 1 /\ 1 \in 1..1
    BY <1>2
  <2>2. SpendUtxos \o FeeUtxos \in Seq(Coins)
    BY <1>4, <1>6, ConcatFacts
  <2>3. Len(SpendUtxos \o FeeUtxos) = NumSpent + 1
    <3>1. Len(SpendUtxos \o FeeUtxos) = Len(SpendUtxos) + Len(FeeUtxos)
      BY <1>4, <1>6, ConcatFacts
    <3> HIDE DEF FeeUtxos, SpendUtxos
    <3>2. QED
      BY <1>2, <1>4, <1>6, <3>1
  <2>4. \A i \in 1..NumSpent : (SpendUtxos \o FeeUtxos)[i] = SpendUtxos[i]
    BY <1>4, <1>6, ConcatFacts
  <2>5. (SpendUtxos \o FeeUtxos)[1 + Len(SpendUtxos)] = FeeUtxos[1]
    BY <1>4, <1>6, <2>1, ConcatFacts
  <2>6. QED
    BY <1>6, <2>1, <2>2, <2>3, <2>4, <2>5
<1>8. QED
  BY <1>1, <1>3, <1>4, <1>5, <1>7 DEF InputsAre

LEMMA BuiltOutputs ==
    ASSUME asked \in Requests, quote \in Nat \ {0},
           CanCreate(SpendUtxos, asked.amount, FeeUtxos, quote)
    PROVE  OutputsAre(Built) /\ FeeChangeIs(Built)
<1> DEFINE change     == asked.feeUtxo - quote
           parts      == FeeChangeAmounts(change, quote, NonFee, asked.split)
           payment    == <<Coin(asked.to, Points, asked.amount)>>
           userChange == IF Given > asked.amount
                         THEN <<Coin(User, Points, Given - asked.amount)>>
                         ELSE <<>>
           feeOutputs == [i \in DOMAIN parts |-> Coin(FeePayer, FeeToken, parts[i])]
<1>1. /\ Given \in Nat /\ asked.amount \in Nat /\ Given >= asked.amount
      /\ change \in Nat /\ asked.feeUtxo = change + quote
      /\ asked.to \in {User, Recipient, FeePayer} /\ asked.split \in BOOLEAN
  BY RequestFacts, InputTotals DEF CanCreate
<1>2. NonFee \in {1, 2}
  BY DEF NonFee
<1>3. PICK k \in 0..(MAX_OUTPUTS - NonFee) :
         /\ parts \in [1..k -> Nat]
         /\ TotalAmount(parts) = change
         /\ k > 1 => \A i \in 1..k : parts[i] >= quote
  BY <1>1, <1>2, FeeChangeParts
<1>4. k \in 0..3
  BY <1>2, <1>3 DEF MAX_OUTPUTS
<1>5. Built.outputs = payment \o userChange \o feeOutputs
  <2>1. Given - asked.amount > 0 <=> Given > asked.amount
    BY <1>1
  <2>2. FeeUtxos[1].token = FeeToken
    BY DEF FeeUtxos, Coin
  <2>3. QED
    BY <2>1, <2>2, InputTotals DEF Built, Create, NonFee
<1>6. /\ payment \in Seq(Coins) /\ Len(payment) = 1
      /\ payment[1] = Coin(asked.to, Points, asked.amount)
  BY <1>1 DEF Coin, Coins
<1>7. /\ userChange \in Seq(Coins) /\ Len(userChange) = NonFee - 1
      /\ NonFee = 2 => userChange[1] = Coin(User, Points, Given - asked.amount)
  <2>1. CASE Given > asked.amount
    <3>1. userChange = <<Coin(User, Points, Given - asked.amount)>> /\ NonFee = 2
      BY <2>1 DEF NonFee
    <3>2. Coin(User, Points, Given - asked.amount) \in Coins
      BY <1>1, <2>1 DEF Coin, Coins
    <3> HIDE DEF userChange
    <3>3. QED
      BY <3>1, <3>2
  <2>2. CASE ~(Given > asked.amount)
    BY <2>2 DEF NonFee
  <2>3. QED
    BY <2>1, <2>2
<1>8. /\ feeOutputs \in Seq(Coins) /\ Len(feeOutputs) = k
      /\ \A i \in 1..k : feeOutputs[i] = Coin(FeePayer, FeeToken, parts[i])
  <2>1. DOMAIN parts = 1..k
    BY <1>3
  <2>2. feeOutputs \in [1..k -> Coins]
    BY <1>3, <2>1 DEF Coin, Coins
  <2>3. \A i \in 1..k : feeOutputs[i] = Coin(FeePayer, FeeToken, parts[i])
    BY <2>1
  <2> HIDE DEF feeOutputs, Coins
  <2>4. QED
    BY <1>3, <2>2, <2>3
<1> HIDE DEF payment, userChange, feeOutputs, parts, change, Coins, NonFee
<1>9. /\ payment \o userChange \in Seq(Coins)
      /\ Len(payment \o userChange) = NonFee
      /\ (payment \o userChange)[1] = payment[1]
      /\ NonFee = 2 => (payment \o userChange)[2] = userChange[1]
  <2>1. 1 + (NonFee - 1) = NonFee
    BY <1>2
  <2>2. QED
    BY <1>2, <1>6, <1>7, <2>1, ConcatFacts
<1>10. /\ Built.outputs \in Seq(Coins)
       /\ Len(Built.outputs) = NonFee + k
       /\ Built.outputs[1] = payment[1]
       /\ NonFee = 2 => Built.outputs[2] = userChange[1]
       /\ \A i \in 1..k : Built.outputs[i + NonFee] = feeOutputs[i]
  BY <1>2, <1>4, <1>5, <1>8, <1>9
<1>11. Back(Built) = k
  BY <1>2, <1>4, <1>10 DEF Back
<1>12. Parts(Built) = parts
  BY <1>3, <1>8, <1>10, <1>11 DEF Parts, Coin
<1>13. OutputsAre(Built)
  BY <1>1, <1>2, <1>3, <1>4, <1>6, <1>7, <1>8, <1>10, <1>11, <1>12 DEF OutputsAre
<1>14. FeeChangeIs(Built)
  BY <1>1, <1>3, <1>11, <1>12 DEF FeeChangeIs
<1>15. QED
  BY <1>13, <1>14

LEMMA BuiltIsTx == ASSUME NEW t, OutputsAre(t) PROVE t # NoTx
<1>1. NonFee \in {1, 2}
  BY DEF NonFee
<1>2. Len(t.outputs) \in Nat /\ Len(t.outputs) - NonFee >= 0
  BY <1>1 DEF OutputsAre, Back, MAX_OUTPUTS
<1>3. Len(t.outputs) # 0
  BY <1>1, <1>2
<1>4. QED
  BY <1>3 DEF NoTx

(* A step that leaves request and quote alone leaves the shape alone. *)
LEMMA BuiltPrimed ==
    ASSUME asked' = asked, quote' = quote
    PROVE  IsBuilt(tx)' <=> IsBuilt(tx')
  BY DEF IsBuilt, InputsAre, OutputsAre, FeeChangeIs, Back, Parts, NonFee, Given, NumSpent

(***************************************************************************)
(* A transaction that was built has the shape create gives it, from then   *)
(* on to the end: the request and the quote it was built for are still     *)
(* there when it is validated.                                             *)
(***************************************************************************)
THEOREM ShapeInvariant == Spec => []ShapeInv
<1>1. Init => ShapeInv
  BY TransactionAssumption DEF Init, ShapeInv, RelayedTxTypeOK
<1>2. ShapeInv /\ [Next]_txVars => ShapeInv'
  <2> SUFFICES ASSUME ShapeInv, [Next]_txVars PROVE ShapeInv'
    OBVIOUS
  <2> USE DEF ShapeInv, RelayedTxTypeOK
  <2>1. CASE CreateThrows
    BY <2>1, BuiltPrimed DEF CreateThrows
  <2>2. CASE CreateTx
    <3>1. /\ stage' = "built" /\ tx' = Built
          /\ asked' = asked /\ quote' = quote /\ fee' = fee
          /\ CanCreate(SpendUtxos, asked.amount, FeeUtxos, quote)
      BY <2>2 DEF CreateTx, Built
    <3>2. quote \in Nat \ {0}
      BY TransactionAssumption
    <3>3. IsBuilt(tx')
      BY <3>1, <3>2, BuiltInputs, BuiltOutputs DEF IsBuilt
    <3>4. IsBuilt(tx)' /\ tx' # NoTx
      BY <3>1, <3>3, BuiltPrimed, BuiltIsTx DEF IsBuilt
    <3>5. QED
      BY <3>1, <3>4
  <2>3. CASE ChangeFee
    BY <2>3, BuiltPrimed DEF ChangeFee
  <2>4. CASE Submit
    BY <2>4, BuiltPrimed DEF Submit
  <2>5. CASE UNCHANGED txVars
    BY <2>5, BuiltPrimed DEF txVars
  <2>6. QED
    BY <2>1, <2>2, <2>3, <2>4, <2>5 DEF Next
<1>3. QED
  BY <1>1, <1>2, PTL DEF Spec

(* Request, quote, fee and stage are of their types, and there is a        *)
(* transaction exactly from the moment when it was built.                  *)
THEOREM RelayedTxTypesOK == Spec => []RelayedTxTypeOK
<1>1. ShapeInv => RelayedTxTypeOK
  BY DEF ShapeInv
<1>2. QED
  BY <1>1, ShapeInvariant, PTL

(* Fee-change outputs are the only outputs in the fee token. *)
LEMMA FeeOutputPlaces ==
    ASSUME NEW t, OutputsAre(t)
    PROVE  /\ DOMAIN t.outputs = 1..(NonFee + Back(t))
           /\ OfToken(t.outputs, FeeToken) = {i + NonFee : i \in 1..Back(t)}
           /\ \A i \in 1..Back(t) : t.outputs[i + NonFee].amount = Parts(t)[i]
           /\ NonFee \in {1, 2} /\ Back(t) \in Nat
<1>1. NonFee \in {1, 2} /\ Back(t) \in Nat
  BY DEF NonFee, OutputsAre, MAX_OUTPUTS
<1>2. Len(t.outputs) = NonFee + Back(t) /\ DOMAIN t.outputs = 1..Len(t.outputs)
  BY <1>1 DEF OutputsAre, Back
<1>3. ASSUME NEW i \in 1..(NonFee + Back(t)) PROVE
         t.outputs[i].token = FeeToken <=> i \in {j + NonFee : j \in 1..Back(t)}
  <2>1. CASE i <= NonFee
    <3>1. i \notin {j + NonFee : j \in 1..Back(t)}
      BY <1>1, <2>1
    <3>2. t.outputs[i].token = Points
      BY <1>1, <2>1 DEF OutputsAre, Coin
    <3>3. QED
      BY <3>1, <3>2, TransactionAssumption
  <2>2. CASE i > NonFee
    <3>1. PICK j \in 1..Back(t) : i = j + NonFee
      <4>1. i - NonFee \in 1..Back(t) /\ i = (i - NonFee) + NonFee
        BY <1>1, <2>2
      <4>2. QED
        BY <4>1
    <3>2. t.outputs[j + NonFee] = Coin(FeePayer, FeeToken, Parts(t)[j])
      BY DEF OutputsAre
    <3>3. t.outputs[i].token = FeeToken
      BY <3>1, <3>2 DEF Coin
    <3>4. QED
      BY <3>1, <3>3
  <2>3. QED
    BY <1>1, <2>1, <2>2
<1>4. \A i \in 1..Back(t) : i + NonFee \in 1..(NonFee + Back(t))
  BY <1>1
<1>5. OfToken(t.outputs, FeeToken) = {i + NonFee : i \in 1..Back(t)}
  BY <1>2, <1>3, <1>4 DEF OfToken
<1>6. \A i \in 1..Back(t) : t.outputs[i + NonFee].amount = Parts(t)[i]
  BY DEF Parts
<1>7. QED
  BY <1>1, <1>2, <1>5, <1>6

(* Whatever the user asks for and however the fee change is split, the     *)
(* transaction has no more outputs than the child chain accepts.           *)
THEOREM TransactionFits == Spec => []FitsInTransaction
<1>1. ASSUME ShapeInv PROVE FitsInTransaction
  <2>1. CASE tx = NoTx
    BY <2>1 DEF NoTx, FitsInTransaction, MAX_OUTPUTS
  <2>2. CASE tx # NoTx
    <3>1. OutputsAre(tx) /\ NonFee \in {1, 2}
      BY <1>1, <2>2 DEF ShapeInv, IsBuilt, NonFee
    <3>2. QED
      BY <3>1 DEF OutputsAre, Back, MAX_OUTPUTS, FitsInTransaction
  <2>3. QED
    BY <2>1, <2>2
<1>2. QED
  BY <1>1, ShapeInvariant, PTL

(* Several fee-change outputs of one transaction each pay a fee.           *)
THEOREM PartsPayFee == Spec => []SplitPartsPayFee
<1>1. ASSUME ShapeInv PROVE SplitPartsPayFee
  <2> DEFINE places == {i \in DOMAIN tx.outputs : tx.outputs[i].token = FeeToken}
  <2> SUFFICES ASSUME Cardinality(places) > 1 PROVE \A i \in places : tx.outputs[i].amount >= quote
    BY DEF SplitPartsPayFee
  <2>1. CASE tx = NoTx
    BY <2>1 DEF NoTx
  <2>2. CASE tx # NoTx
    <3>1. OutputsAre(tx) /\ FeeChangeIs(tx)
      BY <1>1, <2>2 DEF ShapeInv, IsBuilt
    <3>2. /\ places = {i + NonFee : i \in 1..Back(tx)}
          /\ \A i \in 1..Back(tx) : tx.outputs[i + NonFee].amount = Parts(tx)[i]
          /\ Back(tx) \in Nat /\ NonFee \in {1, 2}
      BY <3>1, FeeOutputPlaces DEF OfToken
    <3>3. Back(tx) > 1
      <4>1. CASE Back(tx) = 0
        <5>1. places = {}
          <6>1. 1..Back(tx) = {}
            BY <4>1
          <6>2. QED
            BY <3>2, <6>1
        <5>2. Cardinality(places) = 0
          <6> HIDE DEF places
          <6>1. QED
            BY <5>1, FS_EmptySet
        <5>3. QED
          BY <5>2
      <4>2. CASE Back(tx) = 1
        <5>1. places = {1 + NonFee}
          <6>1. 1..Back(tx) = {1}
            BY <4>2
          <6>2. QED
            BY <3>2, <6>1
        <5>2. Cardinality(places) = 1
          <6> HIDE DEF places
          <6>1. QED
            BY <5>1, FS_Singleton
        <5>3. QED
          BY <5>2
      <4>3. QED
        BY <3>2, <4>1, <4>2
    <3>4. \A i \in 1..Back(tx) : Parts(tx)[i] >= quote
      BY <3>1, <3>3 DEF FeeChangeIs
    <3> HIDE DEF places
    <3>5. QED
      BY <3>2, <3>4
  <2>3. QED
    BY <2>1, <2>2
<1>2. QED
  BY <1>1, ShapeInvariant, PTL

---------------------------------------------------------------------------
(* What everybody pays and gets *)

LEMMA NoPlaces == ASSUME NEW coins PROVE TotalAt(coins, {}) = 0
  BY SumEmpty DEF TotalAt

LEMMA InputPlaces ==
    ASSUME asked \in Requests, NEW t, InputsAre(t)
    PROVE  /\ NumSpent \in Nat \ {0}
           /\ DOMAIN t.inputs = 1..(NumSpent + 1)
           /\ Len(t.inputs) = NumSpent + 1
           /\ OfToken(t.inputs, Points) = 1..NumSpent
           /\ OfToken(t.inputs, FeeToken) = {NumSpent + 1}
           /\ \A i \in 1..NumSpent : t.inputs[i].owner = User
           /\ t.inputs[NumSpent + 1].owner = FeePayer
           /\ TotalAt(t.inputs, 1..NumSpent) = Given
           /\ TotalAt(t.inputs, {NumSpent + 1}) = asked.feeUtxo
<1>1. /\ NumSpent \in Nat \ {0} /\ Len(t.inputs) = NumSpent + 1
      /\ \A i \in 1..NumSpent : t.inputs[i] = Coin(User, Points, asked.amounts[i])
      /\ t.inputs[NumSpent + 1] = Coin(FeePayer, FeeToken, asked.feeUtxo)
      /\ t.inputs \in Seq(Coins)
  BY RequestFacts DEF InputsAre
<1>2. DOMAIN t.inputs = 1..(NumSpent + 1)
  BY <1>1
<1>3. /\ \A i \in 1..NumSpent : /\ t.inputs[i].owner = User
                                /\ t.inputs[i].token = Points
                                /\ t.inputs[i].amount = asked.amounts[i]
      /\ t.inputs[NumSpent + 1].owner = FeePayer
      /\ t.inputs[NumSpent + 1].token = FeeToken
      /\ t.inputs[NumSpent + 1].amount = asked.feeUtxo
  <2>1. ASSUME NEW i \in 1..NumSpent
        PROVE  /\ t.inputs[i].owner = User
               /\ t.inputs[i].token = Points
               /\ t.inputs[i].amount = asked.amounts[i]
    <3>1. t.inputs[i] = Coin(User, Points, asked.amounts[i])
      BY <1>1
    <3>2. QED
      BY <3>1 DEF Coin
  <2>2. QED
    BY <1>1, <2>1 DEF Coin
<1> HIDE DEF NumSpent
<1>4. \A i : i \in 1..(NumSpent + 1) <=> i \in 1..NumSpent \/ i = NumSpent + 1
  BY <1>1
<1>5. OfToken(t.inputs, Points) = 1..NumSpent /\ OfToken(t.inputs, FeeToken) = {NumSpent + 1}
  BY <1>2, <1>3, <1>4, TransactionAssumption DEF OfToken
<1>6. /\ \A i \in 1..NumSpent : AmountsOf(t.inputs)[i] = asked.amounts[i]
      /\ AmountsOf(t.inputs)[NumSpent + 1] = asked.feeUtxo
  BY <1>2, <1>3, <1>4 DEF AmountsOf
<1>7. TotalAt(t.inputs, 1..NumSpent) = Given
  <2>1. DOMAIN asked.amounts = 1..NumSpent
    BY RequestFacts
  <2>2. IsFiniteSet(1..NumSpent)
    BY <1>1, FS_Interval
  <2>3. SumFunctionOnSet(AmountsOf(t.inputs), 1..NumSpent)
          = SumFunctionOnSet(asked.amounts, 1..NumSpent)
    BY <1>6, <2>2, SumSame
  <2>4. QED
    BY <2>1, <2>3 DEF TotalAt, Given, TotalAmount, SumFunction
<1>8. TotalAt(t.inputs, {NumSpent + 1}) = asked.feeUtxo
  <2>1. AmountsOf(t.inputs)[NumSpent + 1] \in Int
    BY <1>6, RequestFacts
  <2>2. SumFunctionOnSet(AmountsOf(t.inputs), {NumSpent + 1}) = AmountsOf(t.inputs)[NumSpent + 1]
    BY <2>1, SumOne
  <2>3. QED
    BY <1>6, <2>2 DEF TotalAt
<1>9. QED
  BY <1>1, <1>2, <1>3, <1>5, <1>7, <1>8

LEMMA OutputPlaces ==
    ASSUME asked \in Requests, quote \in Nat, asked.feeUtxo >= quote,
           NEW t, OutputsAre(t), FeeChangeIs(t)
    PROVE  /\ NonFee \in {1, 2} /\ (NonFee = 2 <=> Given > asked.amount)
           /\ OfToken(t.outputs, Points) = 1..NonFee
           /\ t.outputs[1].owner = asked.to
           /\ AmountsOf(t.outputs)[1] = asked.amount
           /\ NonFee = 2 => /\ t.outputs[2].owner = User
                            /\ AmountsOf(t.outputs)[2] = Given - asked.amount
           /\ \A i \in OfToken(t.outputs, FeeToken) : t.outputs[i].owner = FeePayer
           /\ TotalAt(t.outputs, OfToken(t.outputs, FeeToken)) = asked.feeUtxo - quote
<1>1. /\ DOMAIN t.outputs = 1..(NonFee + Back(t))
      /\ OfToken(t.outputs, FeeToken) = {i + NonFee : i \in 1..Back(t)}
      /\ \A i \in 1..Back(t) : t.outputs[i + NonFee].amount = Parts(t)[i]
      /\ NonFee \in {1, 2} /\ Back(t) \in Nat
  BY FeeOutputPlaces
<1>2. /\ t.outputs[1] = Coin(asked.to, Points, asked.amount)
      /\ NonFee = 2 => t.outputs[2] = Coin(User, Points, Given - asked.amount)
      /\ \A i \in 1..Back(t) : t.outputs[i + NonFee] = Coin(FeePayer, FeeToken, Parts(t)[i])
  BY DEF OutputsAre
<1>3. NonFee = 2 <=> Given > asked.amount
  BY DEF NonFee
<1> HIDE DEF NonFee
<1>4. /\ t.outputs[1].owner = asked.to
      /\ t.outputs[1].token = Points
      /\ t.outputs[1].amount = asked.amount
      /\ NonFee = 2 => /\ t.outputs[2].owner = User
                       /\ t.outputs[2].token = Points
                       /\ t.outputs[2].amount = Given - asked.amount
      /\ \A i \in 1..Back(t) : /\ t.outputs[i + NonFee].owner = FeePayer
                              /\ t.outputs[i + NonFee].token = FeeToken
  <2>1. ASSUME NEW i \in 1..Back(t)
        PROVE  t.outputs[i + NonFee].owner = FeePayer /\ t.outputs[i + NonFee].token = FeeToken
    <3>1. t.outputs[i + NonFee] = Coin(FeePayer, FeeToken, Parts(t)[i])
      BY <1>2
    <3>2. QED
      BY <3>1 DEF Coin
  <2>2. QED
    BY <1>2, <2>1 DEF Coin
<1>5. /\ 1 \in DOMAIN t.outputs
      /\ NonFee = 2 => 2 \in DOMAIN t.outputs
      /\ \A i \in 1..Back(t) : i + NonFee \in DOMAIN t.outputs
  BY <1>1
<1>6. /\ AmountsOf(t.outputs)[1] = asked.amount
      /\ NonFee = 2 => AmountsOf(t.outputs)[2] = Given - asked.amount
      /\ \A i \in 1..Back(t) : AmountsOf(t.outputs)[i + NonFee] = Parts(t)[i]
  BY <1>1, <1>4, <1>5 DEF AmountsOf
<1>7. OfToken(t.outputs, Points) = 1..NonFee
  <2>1. \A i \in 1..NonFee : i \in DOMAIN t.outputs /\ t.outputs[i].token = Points
    BY <1>1, <1>4
  <2>2. \A i \in DOMAIN t.outputs : i \notin 1..NonFee => i \in OfToken(t.outputs, FeeToken)
    <3>1. \A i \in 1..(NonFee + Back(t)) :
             i \notin 1..NonFee => i - NonFee \in 1..Back(t) /\ i = (i - NonFee) + NonFee
      BY <1>1
    <3>2. QED
      BY <1>1, <3>1
  <2>3. \A i \in OfToken(t.outputs, FeeToken) : t.outputs[i].token # Points
    BY TransactionAssumption DEF OfToken
  <2>4. QED
    BY <2>1, <2>2, <2>3 DEF OfToken
<1>8. TotalAt(t.outputs, OfToken(t.outputs, FeeToken)) = asked.feeUtxo - quote
  <2>1. \A i \in 1..Back(t) : Parts(t)[i] \in Int
    <3>1. \A i \in 1..Back(t) : t.outputs[i + NonFee] \in Coins
      BY <1>5 DEF OutputsAre
    <3>2. QED
      BY <1>1, <3>1 DEF Coins
  <2>2. 1..Back(t) \in SUBSET Nat /\ IsFiniteSet(1..Back(t)) /\ NonFee \in Nat
    <3>1. IsFiniteSet(1..Back(t))
      BY <1>1, FS_Interval
    <3>2. QED
      BY <1>1, <3>1
  <2>3. SumFunctionOnSet(AmountsOf(t.outputs), {i + NonFee : i \in 1..Back(t)})
          = SumFunctionOnSet(Parts(t), 1..Back(t))
    BY <1>6, <2>1, <2>2, SumShift
  <2>4. DOMAIN Parts(t) = 1..Back(t)
    BY DEF Parts
  <2>5. asked.feeUtxo = SumFunctionOnSet(Parts(t), 1..Back(t)) + quote
    BY <2>4 DEF FeeChangeIs, TotalAmount, SumFunction
  <2>6. SumFunctionOnSet(Parts(t), 1..Back(t)) \in Int
    BY <2>1, <2>2, SumInt
  <2>7. QED
    BY <1>1, <2>3, <2>5, <2>6 DEF TotalAt
<1>9. \A i \in OfToken(t.outputs, FeeToken) : t.outputs[i].owner = FeePayer
  BY <1>1, <1>4
<1>10. QED
  BY <1>1, <1>3, <1>4, <1>6, <1>7, <1>8, <1>9

LEMMA InputTotalsOf ==
    ASSUME asked \in Requests, NEW t, InputsAre(t), NEW owner \in {User, Recipient, FeePayer}
    PROVE  /\ Total(t.inputs, owner, Points) = If(owner = User, Given)
           /\ Total(t.inputs, owner, FeeToken) = If(owner = FeePayer, asked.feeUtxo)
<1> DEFINE P(token) == {i \in OfToken(t.inputs, token) : t.inputs[i].owner = owner}
<1>1. P(Points) = IF owner = User THEN 1..NumSpent ELSE {}
  BY InputPlaces
<1>2. P(FeeToken) = IF owner = FeePayer THEN {NumSpent + 1} ELSE {}
  BY InputPlaces
<1>3. Total(t.inputs, owner, Points) = TotalAt(t.inputs, P(Points))
  BY DEF Total
<1>4. Total(t.inputs, owner, FeeToken) = TotalAt(t.inputs, P(FeeToken))
  BY DEF Total
<1> HIDE DEF P
<1>5. /\ TotalAt(t.inputs, 1..NumSpent) = Given
      /\ TotalAt(t.inputs, {NumSpent + 1}) = asked.feeUtxo
      /\ TotalAt(t.inputs, {}) = 0
  BY InputPlaces, NoPlaces
<1>6. Total(t.inputs, owner, Points) = If(owner = User, Given)
  BY <1>1, <1>3, <1>5 DEF If
<1>7. Total(t.inputs, owner, FeeToken) = If(owner = FeePayer, asked.feeUtxo)
  BY <1>2, <1>4, <1>5 DEF If
<1>8. QED
  BY <1>6, <1>7

LEMMA OutputTotalsOf ==
    ASSUME asked \in Requests, quote \in Nat, asked.feeUtxo >= quote,
           NEW t, OutputsAre(t), FeeChangeIs(t), NEW owner \in {User, Recipient, FeePayer}
    PROVE  /\ Total(t.outputs, owner, Points)
                = If(owner = asked.to, asked.amount) + If(owner = User, Given - asked.amount)
           /\ Total(t.outputs, owner, FeeToken) = If(owner = FeePayer, asked.feeUtxo - quote)
<1> DEFINE P(token) == {i \in OfToken(t.outputs, token) : t.outputs[i].owner = owner}
           change   == Given - asked.amount
<1>1. /\ asked.amount \in Nat /\ change \in Nat /\ Given \in Nat
      /\ asked.feeUtxo \in Nat /\ Given >= asked.amount
  BY RequestFacts DEF OutputsAre
<1>2. /\ NonFee \in {1, 2} /\ (NonFee = 2 <=> Given > asked.amount)
      /\ OfToken(t.outputs, Points) = 1..NonFee
      /\ t.outputs[1].owner = asked.to
      /\ AmountsOf(t.outputs)[1] = asked.amount
      /\ NonFee = 2 => t.outputs[2].owner = User /\ AmountsOf(t.outputs)[2] = change
  BY OutputPlaces
<1>3. Total(t.outputs, owner, Points)
        = If(owner = asked.to, asked.amount) + If(owner = User, change)
  <2>1. Total(t.outputs, owner, Points) = SumFunctionOnSet(AmountsOf(t.outputs), P(Points))
    BY DEF Total, TotalAt
  <2>2. /\ SumFunctionOnSet(AmountsOf(t.outputs), {}) = 0
        /\ SumFunctionOnSet(AmountsOf(t.outputs), {1}) = asked.amount
    <3>1. AmountsOf(t.outputs)[1] \in Int
      BY <1>1, <1>2
    <3>2. QED
      BY <1>2, <3>1, SumEmpty, SumOne
  <2>3. CASE NonFee = 1
    <3>1. P(Points) = IF owner = asked.to THEN {1} ELSE {}
      BY <1>2, <2>3
    <3>2. change = 0
      BY <1>1, <1>2, <2>3
    <3> HIDE DEF P, change
    <3>3. QED
      BY <1>1, <2>1, <2>2, <3>1, <3>2 DEF If
  <2>4. CASE NonFee = 2
    <3>1. P(Points) = (IF owner = asked.to THEN {1} ELSE {})
                         \cup (IF owner = User THEN {2} ELSE {})
      BY <1>2, <2>4
    <3>2. /\ SumFunctionOnSet(AmountsOf(t.outputs), {2}) = change
          /\ SumFunctionOnSet(AmountsOf(t.outputs), {1, 2}) = asked.amount + change
      <4>1. AmountsOf(t.outputs)[1] \in Int /\ AmountsOf(t.outputs)[2] \in Int
        BY <1>1, <1>2, <2>4
      <4>2. SumFunctionOnSet(AmountsOf(t.outputs), {2}) = AmountsOf(t.outputs)[2]
        BY <4>1, SumOne
      <4>3. SumFunctionOnSet(AmountsOf(t.outputs), {1, 2})
              = AmountsOf(t.outputs)[1] + AmountsOf(t.outputs)[2]
        <5>1. 1..2 = {1, 2}
          OBVIOUS
        <5>2. SumFunctionOnSet(AmountsOf(t.outputs), 1..2)
                = AmountsOf(t.outputs)[1] + AmountsOf(t.outputs)[2]
          BY <4>1, SumUpTo
        <5>3. QED
          BY <5>1, <5>2
      <4> HIDE DEF change
      <4>4. QED
        BY <1>2, <2>4, <4>2, <4>3
    <3> HIDE DEF P, change
    <3>3. P(Points) = IF owner = asked.to THEN IF owner = User THEN {1, 2} ELSE {1}
                      ELSE IF owner = User THEN {2} ELSE {}
      BY <3>1
    <3>4. QED
      BY <1>1, <2>1, <2>2, <3>2, <3>3 DEF If
  <2>5. QED
    BY <1>2, <2>3, <2>4
<1>4. Total(t.outputs, owner, FeeToken) = If(owner = FeePayer, asked.feeUtxo - quote)
  <2>1. P(FeeToken) = IF owner = FeePayer THEN OfToken(t.outputs, FeeToken) ELSE {}
    BY OutputPlaces
  <2>2. Total(t.outputs, owner, FeeToken) = TotalAt(t.outputs, P(FeeToken))
    BY DEF Total
  <2> HIDE DEF P
  <2>3. TotalAt(t.outputs, OfToken(t.outputs, FeeToken)) = asked.feeUtxo - quote
    BY OutputPlaces
  <2>4. QED
    BY <2>1, <2>2, <2>3, NoPlaces DEF If
<1>5. QED
  BY <1>3, <1>4

(* Nothing is created or lost but for the fee: everybody has after the     *)
(* transaction what he had before it, but for the amount that was sent and *)
(* the fee that was quoted.                                                *)
THEOREM NothingLost == Spec => []ExactlyPaid
<1>1. ASSUME ShapeInv PROVE ExactlyPaid
  <2> SUFFICES ASSUME tx # NoTx,
                      NEW owner \in {User, Recipient, FeePayer},
                      NEW token \in {Points, FeeToken}
               PROVE  Total(tx.inputs, owner, token)
                         + If(owner = asked.to /\ token = Points, asked.amount)
                      = Total(tx.outputs, owner, token)
                         + If(owner = User /\ token = Points, asked.amount)
                         + If(owner = FeePayer /\ token = FeeToken, quote)
    BY DEF ExactlyPaid
  <2>1. /\ asked \in Requests /\ quote \in Nat /\ asked.feeUtxo >= quote
        /\ InputsAre(tx) /\ OutputsAre(tx) /\ FeeChangeIs(tx)
    BY <1>1, TransactionAssumption DEF ShapeInv, RelayedTxTypeOK, IsBuilt
  <2>2. Given \in Nat /\ asked.amount \in Nat /\ asked.feeUtxo \in Nat
    BY <2>1, RequestFacts
  <2>3. CASE token = Points
    <3>1. Total(tx.inputs, owner, token) = If(owner = User, Given)
      BY <2>1, <2>3, InputTotalsOf
    <3>2. Total(tx.outputs, owner, token)
            = If(owner = asked.to, asked.amount) + If(owner = User, Given - asked.amount)
      BY <2>1, <2>3, OutputTotalsOf
    <3>3. token # FeeToken
      BY <2>3, TransactionAssumption
    <3>4. QED
      BY <2>2, <2>3, <3>1, <3>2, <3>3 DEF If
  <2>4. CASE token = FeeToken
    <3>1. Total(tx.inputs, owner, token) = If(owner = FeePayer, asked.feeUtxo)
      BY <2>1, <2>4, InputTotalsOf
    <3>2. Total(tx.outputs, owner, token) = If(owner = FeePayer, asked.feeUtxo - quote)
      BY <2>1, <2>4, OutputTotalsOf
    <3>3. token # Points
      BY <2>4, TransactionAssumption
    <3>4. QED
      BY <2>1, <2>2, <2>4, <3>1, <3>2, <3>3 DEF If
  <2>5. QED
    BY <2>3, <2>4
<1>2. QED
  BY <1>1, ShapeInvariant, PTL

---------------------------------------------------------------------------
(* What validate makes of it *)

LEMMA ValidatesQuote ==
    ASSUME asked \in Requests, quote \in Nat, asked.feeUtxo >= quote, fee \in Nat, IsBuilt(tx)
    PROVE  Validate(tx, NumSigs, {Points}, FeeToken, fee) <=> fee = quote
<1> DEFINE spend == UNION {OfToken(tx.inputs, token) : token \in {Points}}
           fees  == OfToken(tx.inputs, FeeToken)
           first == CHOOSE i \in fees : \A j \in fees : i <= j
           back  == {i \in OfToken(tx.outputs, FeeToken) :
                       tx.outputs[i].owner = tx.inputs[first].owner}
<1>1. InputsAre(tx) /\ OutputsAre(tx) /\ FeeChangeIs(tx)
  BY DEF IsBuilt
<1>2. /\ NumSpent \in Nat \ {0}
      /\ DOMAIN tx.inputs = 1..(NumSpent + 1)
      /\ Len(tx.inputs) = NumSpent + 1
      /\ OfToken(tx.inputs, Points) = 1..NumSpent
      /\ fees = {NumSpent + 1}
      /\ \A i \in 1..NumSpent : tx.inputs[i].owner = User
      /\ tx.inputs[NumSpent + 1].owner = FeePayer
      /\ TotalAt(tx.inputs, {NumSpent + 1}) = asked.feeUtxo
  BY <1>1, InputPlaces
<1>3. tx.outputs # <<>>
  BY <1>1, BuiltIsTx DEF OutputsAre, Back, NonFee
<1>4. spend = 1..NumSpent /\ spend # {}
  <2>1. spend = OfToken(tx.inputs, Points)
    OBVIOUS
  <2>2. QED
    BY <1>2, <2>1
<1>5. Cardinality(spend) = NumSigs
  <2>1. {i \in DOMAIN tx.inputs : tx.inputs[i].owner = User} = 1..NumSpent
    BY <1>2, Parties
  <2>2. QED
    BY <1>4, <2>1 DEF NumSigs
<1>6. first = NumSpent + 1
  BY <1>2
<1>7. back = OfToken(tx.outputs, FeeToken)
  <2>1. \A i \in OfToken(tx.outputs, FeeToken) : tx.outputs[i].owner = FeePayer
    BY <1>1, OutputPlaces
  <2>2. QED
    BY <1>2, <1>6, <2>1
<1>8. TotalAt(tx.outputs, OfToken(tx.outputs, FeeToken)) = asked.feeUtxo - quote
  BY <1>1, OutputPlaces
<1>9. Validate(tx, NumSigs, {Points}, FeeToken, fee)
        <=> /\ Len(tx.inputs) >= 2
            /\ tx.outputs # <<>>
            /\ spend # {}
            /\ Cardinality(spend) = NumSigs
            /\ fees # {}
            /\ TotalAt(tx.inputs, fees) = TotalAt(tx.outputs, back) + fee
  BY DEF Validate
<1> HIDE DEF spend, fees, first, back, NumSpent
<1>10. asked.feeUtxo \in Nat
  BY RequestFacts
<1>11. Len(tx.inputs) >= 2 /\ fees # {}
  BY <1>2
<1>12. TotalAt(tx.inputs, fees) = TotalAt(tx.outputs, back) + fee <=> fee = quote
  BY <1>2, <1>7, <1>8, <1>10
<1>13. QED
  BY <1>3, <1>4, <1>5, <1>9, <1>11, <1>12

(* A transaction is accepted when the fee is still the one it was built    *)
(* for, and refused when it is not.                                        *)
THEOREM AcceptedForQuote == Spec => []AcceptedForQuotedFee
<1>1. Init => AcceptedForQuotedFee
  BY DEF Init, AcceptedForQuotedFee
<1>2. ShapeInv /\ AcceptedForQuotedFee /\ [Next]_txVars => AcceptedForQuotedFee'
  <2> SUFFICES ASSUME ShapeInv, AcceptedForQuotedFee, [Next]_txVars PROVE AcceptedForQuotedFee'
    OBVIOUS
  <2>1. CASE Submit
    <3>1. /\ asked \in Requests /\ quote \in Nat /\ asked.feeUtxo >= quote /\ fee \in Nat
          /\ IsBuilt(tx)
      BY <2>1, TransactionAssumption DEF ShapeInv, RelayedTxTypeOK, Submit
    <3>2. Validate(tx, NumSigs, {Points}, FeeToken, fee) <=> fee = quote
      BY <3>1, ValidatesQuote
    <3>3. QED
      BY <2>1, <3>2 DEF Submit, AcceptedForQuotedFee
  <2>2. CASE CreateThrows \/ CreateTx \/ ChangeFee
    BY <2>2 DEF CreateThrows, CreateTx, ChangeFee, AcceptedForQuotedFee
  <2>3. CASE UNCHANGED txVars
    BY <2>3 DEF txVars, AcceptedForQuotedFee
  <2>4. QED
    BY <2>1, <2>2, <2>3 DEF Next
<1>3. QED
  BY <1>1, <1>2, ShapeInvariant, PTL DEF Spec

---------------------------------------------------------------------------
(* What the user reads of it *)

LEMMA ReadPlaces ==
    ASSUME asked \in Requests, quote \in Nat, asked.feeUtxo >= quote, IsBuilt(tx),
           NEW user \in {User, Recipient, FeePayer}
    PROVE  /\ ~IsMerge(tx, user)
           /\ Matching(tx.inputs, user) = IF user = User THEN 1..NumSpent ELSE {}
           /\ Different(tx.inputs, user) = IF user = User THEN {} ELSE 1..NumSpent
           /\ asked.to # User =>
                 /\ Different(tx.outputs, User) = {1}
                 /\ Matching(tx.outputs, asked.to) = {1}
           /\ asked.to = User => Different(tx.outputs, User) = {}
           /\ FirstOwner(tx.outputs, {1}) = asked.to
           /\ FirstOwner(tx.inputs, 1..NumSpent) = User
           /\ 1 \in 1..NumSpent
           /\ TotalAt(tx.outputs, {1}) = asked.amount
<1>1. InputsAre(tx) /\ OutputsAre(tx) /\ FeeChangeIs(tx)
  BY DEF IsBuilt
<1>2. /\ NumSpent \in Nat \ {0}
      /\ DOMAIN tx.inputs = 1..(NumSpent + 1)
      /\ OfToken(tx.inputs, Points) = 1..NumSpent
      /\ \A i \in 1..NumSpent : tx.inputs[i].owner = User
  BY <1>1, InputPlaces
<1>3. /\ NonFee \in {1, 2}
      /\ OfToken(tx.outputs, Points) = 1..NonFee
      /\ tx.outputs[1].owner = asked.to
      /\ AmountsOf(tx.outputs)[1] = asked.amount
      /\ NonFee = 2 => tx.outputs[2].owner = User
  BY <1>1, OutputPlaces
<1> HIDE DEF NumSpent, NonFee
<1>4. /\ Matching(tx.inputs, user) = IF user = User THEN 1..NumSpent ELSE {}
      /\ Different(tx.inputs, user) = IF user = User THEN {} ELSE 1..NumSpent
  BY <1>2 DEF Matching, Different
<1>5. ~IsMerge(tx, user)
  <2>1. NumSpent + 1 \in DOMAIN tx.inputs /\ NumSpent + 1 \notin Matching(tx.inputs, user)
    BY <1>2, <1>4
  <2>2. QED
    BY <2>1 DEF IsMerge
<1>6. asked.to # User => Different(tx.outputs, User) = {1} /\ Matching(tx.outputs, asked.to) = {1}
  BY <1>3 DEF Matching, Different
<1>7. asked.to = User => Different(tx.outputs, User) = {}
  BY <1>3 DEF Different
<1>8. FirstOwner(tx.outputs, {1}) = asked.to
  <2>1. (CHOOSE i \in {1} : \A j \in {1} : i <= j) = 1
    OBVIOUS
  <2>2. QED
    BY <1>3, <2>1 DEF FirstOwner
<1>9. FirstOwner(tx.inputs, 1..NumSpent) = User
  <2> DEFINE first == CHOOSE i \in 1..NumSpent : \A j \in 1..NumSpent : i <= j
  <2>1. 1 \in 1..NumSpent /\ \A j \in 1..NumSpent : 1 <= j
    BY <1>2
  <2>2. first \in 1..NumSpent
    BY <2>1
  <2>3. FirstOwner(tx.inputs, 1..NumSpent) = tx.inputs[first].owner
    BY <2>1 DEF FirstOwner
  <2> HIDE DEF first
  <2>4. QED
    BY <1>2, <2>2, <2>3
<1>10. TotalAt(tx.outputs, {1}) = asked.amount
  <2>1. AmountsOf(tx.outputs)[1] \in Int
    BY <1>3, RequestFacts
  <2>2. QED
    BY <1>3, <2>1, SumOne DEF TotalAt
<1>11. QED
  BY <1>2, <1>4, <1>5, <1>6, <1>7, <1>8, <1>9, <1>10

(* The entry that is guessed from inputs and outputs tells both sides the  *)
(* transfer that was made, whatever came with it.                          *)
THEOREM EntryTells == Spec => []EntryTellsTheTransfer
<1>1. ASSUME ShapeInv PROVE EntryTellsTheTransfer
  <2> SUFFICES ASSUME stage = "accepted"
               PROVE  /\ Confirmed(tx, User) =
                            IF asked.to # User THEN PendingTransfer
                            ELSE Entry("outgoing", User, NotAvailable, 0)
                      /\ asked.to # User =>
                            Confirmed(tx, asked.to) =
                               Entry("incoming", User, asked.to, asked.amount)
    BY DEF EntryTellsTheTransfer
  <2>1. /\ asked \in Requests /\ quote \in Nat /\ asked.feeUtxo >= quote
        /\ IsBuilt(tx) /\ asked.to \in {User, Recipient, FeePayer}
    BY <1>1, TransactionAssumption, RequestFacts DEF ShapeInv, RelayedTxTypeOK
  <2>2. Confirmed(tx, User) = Outgoing(tx, User)
    <3>1. ~IsMerge(tx, User) /\ Matching(tx.inputs, User) # {}
      BY <2>1, ReadPlaces
    <3>2. QED
      BY <3>1 DEF Confirmed
  <2>3. CASE asked.to = User
    <3>1. Different(tx.outputs, User) = {}
      BY <2>1, <2>3, ReadPlaces
    <3>2. QED
      BY <2>2, <2>3, <3>1, NoPlaces DEF Outgoing, FirstOwner
  <2>4. CASE asked.to # User
    <3>1. /\ Different(tx.outputs, User) = {1}
          /\ FirstOwner(tx.outputs, {1}) = asked.to
          /\ TotalAt(tx.outputs, {1}) = asked.amount
      BY <2>1, <2>4, ReadPlaces
    <3>2. Confirmed(tx, User) = PendingTransfer
      BY <2>2, <3>1 DEF Outgoing, PendingTransfer
    <3>3. /\ ~IsMerge(tx, asked.to)
          /\ Matching(tx.inputs, asked.to) = {}
          /\ Different(tx.inputs, asked.to) = 1..NumSpent
      BY <2>1, <2>4, ReadPlaces
    <3>4. FirstOwner(tx.inputs, 1..NumSpent) = User /\ Matching(tx.outputs, asked.to) = {1}
      BY <2>1, <2>4, ReadPlaces
    <3>5. Confirmed(tx, asked.to) = Entry("incoming", User, asked.to, asked.amount)
      BY <3>1, <3>3, <3>4 DEF Confirmed, Incoming
    <3>6. QED
      BY <2>4, <3>2, <3>5
  <2>5. QED
    BY <2>3, <2>4
<1>2. QED
  BY <1>1, ShapeInvariant, PTL
---------------------------------------------------------------------------
(* Merge *)

(* Four sequences of at most one coin, one after the other. *)
LEMMA FourInARow ==
    ASSUME NEW a, NEW b, NEW c, NEW d
    PROVE  /\ <<a>> \o <<>> \o <<>> \o <<>> = <<a>>
           /\ <<a>> \o <<b>> \o <<>> \o <<>> = <<a, b>>
           /\ <<a>> \o <<b>> \o <<c>> \o <<>> = <<a, b, c>>
           /\ <<a>> \o <<b>> \o <<c>> \o <<d>> = <<a, b, c, d>>
<1> DEFINE S == {a, b, c, d}
           two == <<a>> \o <<b>>
           three == <<a, b>> \o <<c>>
           four == <<a, b, c>> \o <<d>>
<1>1. /\ <<a>> \in Seq(S) /\ <<b>> \in Seq(S) /\ <<c>> \in Seq(S) /\ <<d>> \in Seq(S)
      /\ <<a, b>> \in Seq(S) /\ <<a, b, c>> \in Seq(S)
  OBVIOUS
<1>2. two = <<a, b>>
  <2>1. two \in Seq(S) /\ Len(two) = 2 /\ two[1] = a /\ two[1 + 1] = b
    BY <1>1, ConcatFacts
  <2> HIDE DEF two
  <2>2. two = <<two[1], two[2]>>
    BY <2>1
  <2>3. QED
    BY <2>1, <2>2
<1>3. three = <<a, b, c>>
  <2>1. three \in Seq(S) /\ Len(three) = 3 /\ three[1] = a /\ three[2] = b /\ three[1 + 2] = c
    BY <1>1, ConcatFacts
  <2> HIDE DEF three
  <2>2. three = <<three[1], three[2], three[3]>>
    BY <2>1
  <2>3. QED
    BY <2>1, <2>2
<1>4. four = <<a, b, c, d>>
  <2>1. /\ four \in Seq(S) /\ Len(four) = 4
        /\ four[1] = a /\ four[2] = b /\ four[3] = c /\ four[1 + 3] = d
    BY <1>1, ConcatFacts
  <2> HIDE DEF four
  <2>2. four = <<four[1], four[2], four[3], four[4]>>
    BY <2>1
  <2>3. QED
    BY <2>1, <2>2
<1>5. <<a>> \o <<>> = <<a>> /\ <<a, b>> \o <<>> = <<a, b>> /\ <<a, b, c>> \o <<>> = <<a, b, c>>
  OBVIOUS
<1>6. QED
  BY <1>2, <1>3, <1>4, <1>5

(* The beginning of a sequence, written out. *)
LEMMA FirstCoins ==
    ASSUME NEW c
    PROVE  /\ [i \in 1..1 |-> c[i]] = <<c[1]>>
           /\ [i \in 1..2 |-> c[i]] = <<c[1], c[2]>>
           /\ [i \in 1..3 |-> c[i]] = <<c[1], c[2], c[3]>>
           /\ [i \in 1..4 |-> c[i]] = <<c[1], c[2], c[3], c[4]>>
  OBVIOUS

(* What the padding puts in, reading the null inputs away takes out. *)
LEMMA PaddingComesOut ==
    ASSUME NEW m \in 1..4, NEW c, \A i \in 1..m : c[i] # NullCoin
    PROVE  LET coins == [i \in 1..m |-> c[i]]
               p == Pad(coins, MAX_INPUTS)
           IN  AddInput(p[1]) \o AddInput(p[2]) \o AddInput(p[3]) \o AddInput(p[4]) = coins
<1> DEFINE coins == [i \in 1..m |-> c[i]]
           p == Pad(coins, MAX_INPUTS)
<1> SUFFICES AddInput(p[1]) \o AddInput(p[2]) \o AddInput(p[3]) \o AddInput(p[4]) = coins
  OBVIOUS
<1>1. Len(coins) = m /\ \A i \in 1..m : coins[i] = c[i]
  OBVIOUS
<1> HIDE DEF coins
<1>2. /\ \A i \in 1..4 : i <= m => AddInput(p[i]) = <<c[i]>>
      /\ \A i \in 1..4 : i > m => AddInput(p[i]) = <<>>
  BY <1>1 DEF Pad, MAX_INPUTS, AddInput
<1> HIDE DEF p
<1>3. CASE m = 1
  <2>1. coins = <<c[1]>>
    BY <1>3, FirstCoins DEF coins
  <2>2. /\ AddInput(p[1]) = <<c[1]>> /\ AddInput(p[2]) = <<>>
        /\ AddInput(p[3]) = <<>> /\ AddInput(p[4]) = <<>>
    BY <1>2, <1>3
  <2>3. QED
    BY <2>1, <2>2, FourInARow
<1>4. CASE m = 2
  <2>1. coins = <<c[1], c[2]>>
    BY <1>4, FirstCoins DEF coins
  <2>2. /\ AddInput(p[1]) = <<c[1]>> /\ AddInput(p[2]) = <<c[2]>>
        /\ AddInput(p[3]) = <<>> /\ AddInput(p[4]) = <<>>
    BY <1>2, <1>4
  <2>3. QED
    BY <2>1, <2>2, FourInARow
<1>5. CASE m = 3
  <2>1. coins = <<c[1], c[2], c[3]>>
    BY <1>5, FirstCoins DEF coins
  <2>2. /\ AddInput(p[1]) = <<c[1]>> /\ AddInput(p[2]) = <<c[2]>>
        /\ AddInput(p[3]) = <<c[3]>> /\ AddInput(p[4]) = <<>>
    BY <1>2, <1>5
  <2>3. QED
    BY <2>1, <2>2, FourInARow
<1>6. CASE m = 4
  <2>1. coins = <<c[1], c[2], c[3], c[4]>>
    BY <1>6, FirstCoins DEF coins
  <2>2. /\ AddInput(p[1]) = <<c[1]>> /\ AddInput(p[2]) = <<c[2]>>
        /\ AddInput(p[3]) = <<c[3]>> /\ AddInput(p[4]) = <<c[4]>>
    BY <1>2, <1>6
  <2>3. QED
    BY <2>1, <2>2, FourInARow
<1>7. QED
  BY <1>3, <1>4, <1>5, <1>6

(* The utxos that are merged are the first four at most, and worth something. *)
LEMMA MergedFacts ==
    ASSUME asked \in Requests, asked.amounts # <<>>
    PROVE  \E m \in 1..4 :
              /\ UtxosToMerge = [i \in 1..m |-> Coin(User, Points, asked.amounts[i])]
              /\ \A i \in 1..m : asked.amounts[i] \in Nat \ {0}
              /\ MergedAmount \in Nat \ {0}
              /\ m > 1 <=> Len(asked.amounts) > 1
<1> DEFINE n == Len(asked.amounts)
           m == IF n <= 4 THEN n ELSE 4
           f == AmountsOf(UtxosToMerge)
<1>1. n \in Nat \ {0} /\ asked.amounts \in [1..n -> Nat \ {0}]
  <2>1. PICK k \in Nat : asked.amounts \in [1..k -> Amounts]
    BY TransactionAssumption DEF Requests
  <2>2. Amounts \subseteq Nat \ {0}
    BY TransactionAssumption, NoEmptyUtxo
  <2>3. asked.amounts \in [1..k -> Nat \ {0}]
    BY <2>1, <2>2
  <2>4. n = k
    BY <2>3
  <2>5. k # 0
    BY <2>3
  <2>6. QED
    BY <2>3, <2>4, <2>5
<1> HIDE DEF n
<1>2. m \in 1..4 /\ m <= n /\ 1..m = (1..n) \cap (1..4) /\ (m > 1 <=> n > 1)
  BY <1>1
<1>3. DOMAIN SpendUtxos = 1..n
  BY <1>1 DEF SpendUtxos
<1>4. \A i \in 1..m : i \in 1..n /\ asked.amounts[i] \in Nat \ {0}
  BY <1>1, <1>2
<1> HIDE DEF m
<1>5. UtxosToMerge = [i \in 1..m |-> Coin(User, Points, asked.amounts[i])]
  BY <1>1, <1>2, <1>3 DEF UtxosToMerge, SpendUtxos, MAX_INPUTS
<1>6. DOMAIN f = 1..m /\ \A i \in 1..m : f[i] = asked.amounts[i]
  BY <1>5 DEF AmountsOf, Coin
<1> HIDE DEF f
<1>7. SumFunctionOnSet(f, 1..m) \in Nat \ {0}
  <2> DEFINE I == 1..m
             J == I \ {1}
  <2>1. IsFiniteSet(I)
    BY <1>2, FS_Interval
  <2>2. IsFiniteSet(J)
    BY <2>1, FS_Subset
  <2>3. 1 \in I /\ \A i \in I : f[i] \in Nat \ {0}
    BY <1>2, <1>4, <1>6
  <2> HIDE DEF I
  <2>4. SumFunctionOnSet(f, I) = f[1] + SumFunctionOnSet(f, J)
    BY <2>1, <2>3, SumRemove
  <2>5. SumFunctionOnSet(f, J) \in Nat
    BY <2>2, <2>3, SumNat
  <2>6. QED
    BY <2>3, <2>4, <2>5 DEF I
<1>8. MergedAmount = SumFunctionOnSet(f, 1..m)
  BY <1>6 DEF MergedAmount, TotalAmount, SumFunction, f
<1>9. QED
  BY <1>2, <1>4, <1>5, <1>7, <1>8 DEF n

(* What a merge sends is what it was asked for, and it is listed as what it *)
(* was.                                                                     *)
LEMMA MergeTold ==
    ASSUME asked \in Requests, asked.amounts # <<>>
    PROVE  /\ ToArray(TypedData(MergeBody)) = MergeBody
           /\ Confirmed(MergeBody, User) =
                 IF Len(asked.amounts) > 1 THEN PendingMerge
                 ELSE Entry("outgoing", User, NotAvailable, 0)
<1>1. PICK m \in 1..4 :
         /\ UtxosToMerge = [i \in 1..m |-> Coin(User, Points, asked.amounts[i])]
         /\ \A i \in 1..m : asked.amounts[i] \in Nat \ {0}
         /\ MergedAmount \in Nat \ {0}
         /\ m > 1 <=> Len(asked.amounts) > 1
  BY MergedFacts
<1> DEFINE ins == UtxosToMerge
           out == Coin(User, Points, MergedAmount)
<1>2. /\ DOMAIN ins = 1..m /\ Len(ins) = m
      /\ \A i \in 1..m : ins[i].owner = User /\ ins[i].token = Points /\ ins[i].amount # 0
  BY <1>1 DEF Coin
<1>3. out.owner = User /\ out.token = Points /\ out.amount = MergedAmount /\ out.amount > 0
  BY <1>1 DEF Coin
<1>4. MergeBody.inputs = ins /\ MergeBody.outputs = <<out>>
  BY DEF MergeBody
<1>5. ToArray(TypedData(MergeBody)) = MergeBody
  <2> DEFINE p == Pad(ins, MAX_INPUTS)
             q == Pad(<<out>>, MAX_OUTPUTS)
  <2>1. AddInput(p[1]) \o AddInput(p[2]) \o AddInput(p[3]) \o AddInput(p[4]) = ins
    <3>1. NullCoin.amount = 0
      BY DEF NullCoin, Coin
    <3>2. [i \in 1..m |-> ins[i]] = ins /\ \A i \in 1..m : ins[i] # NullCoin
      BY <1>1, <1>2, <3>1
    <3> HIDE DEF ins
    <3> DEFINE s == [i \in 1..m |-> ins[i]]
    <3>3. LET o == Pad(s, MAX_INPUTS)
          IN  AddInput(o[1]) \o AddInput(o[2]) \o AddInput(o[3]) \o AddInput(o[4]) = s
      BY <3>2, PaddingComesOut
    <3>4. s = ins
      BY <3>2
    <3> HIDE DEF s
    <3>5. QED
      BY <3>3, <3>4
  <2>2. AddOutput(q[1]) \o AddOutput(q[2]) \o AddOutput(q[3]) \o AddOutput(q[4]) = <<out>>
    <3>1. q[1] = out /\ q[2] = NullCoin /\ q[3] = NullCoin /\ q[4] = NullCoin
      BY DEF Pad, MAX_OUTPUTS
    <3>2. AddOutput(NullCoin) = <<>>
      BY DEF AddOutput, NullCoin, Coin
    <3>3. AddOutput(out) = <<out>>
      BY <1>3 DEF AddOutput
    <3> HIDE DEF q, out
    <3>4. QED
      BY <3>1, <3>2, <3>3, FourInARow
  <2>3. TypedData(MergeBody).inputs = p /\ TypedData(MergeBody).outputs = q
    BY <1>4 DEF TypedData
  <2> HIDE DEF p, q
  <2>4. ToArray(TypedData(MergeBody)) = [inputs |-> ins, outputs |-> <<out>>]
    BY <2>1, <2>2, <2>3 DEF ToArray
  <2>5. QED
    BY <2>4 DEF MergeBody
<1>6. /\ Matching(MergeBody.inputs, User) = DOMAIN MergeBody.inputs
      /\ Matching(MergeBody.outputs, User) = DOMAIN MergeBody.outputs
      /\ Different(MergeBody.outputs, User) = {}
      /\ Matching(MergeBody.inputs, User) # {}
      /\ Len(MergeBody.inputs) = m /\ Len(MergeBody.outputs) = 1
  <2>1. DOMAIN <<out>> = {1} /\ <<out>>[1] = out /\ Len(<<out>>) = 1
    OBVIOUS
  <2> HIDE DEF ins, out
  <2>2. QED
    BY <1>2, <1>3, <1>4, <2>1 DEF Matching, Different, OfToken
<1>7. CASE m > 1
  <2>1. IsMerge(MergeBody, User)
    BY <1>6, <1>7 DEF IsMerge
  <2>2. TotalAmount(AmountsOf(MergeBody.outputs)) = MergedAmount
    <3> DEFINE f == AmountsOf(<<out>>)
    <3>1. DOMAIN f = {1} /\ f[1] = MergedAmount /\ f[1] \in Int
      BY <1>1, <1>3 DEF AmountsOf
    <3> HIDE DEF f
    <3>2. SumFunctionOnSet(f, {1}) = MergedAmount
      BY <3>1, SumOne
    <3>3. QED
      BY <1>4, <3>1, <3>2 DEF TotalAmount, SumFunction, f
  <2>3. QED
    BY <1>1, <1>5, <1>7, <2>1, <2>2 DEF Confirmed, PendingMerge
<1>8. CASE ~(m > 1)
  <2>1. ~IsMerge(MergeBody, User)
    BY <1>6, <1>8 DEF IsMerge
  <2>2. Confirmed(MergeBody, User) = Entry("outgoing", User, NotAvailable, 0)
    BY <1>6, <2>1, NoPlaces DEF Confirmed, Outgoing, FirstOwner
  <2>3. QED
    BY <1>1, <1>5, <1>8, <2>2
<1>9. QED
  BY <1>7, <1>8

(* A merge that is signed and sent is the one that was asked for, and the   *)
(* history lists it as such, whatever utxos the user has: the null inputs   *)
(* and outputs getTypedData pads with are the only ones toArray drops.      *)
THEOREM MergeSaysWhatItIs == Spec => []MergeIsWhatItSays
<1>1. ShapeInv => MergeIsWhatItSays
  BY MergeTold DEF ShapeInv, RelayedTxTypeOK, MergeIsWhatItSays
<1>2. QED
  BY <1>1, ShapeInvariant, PTL
=============================================================================
