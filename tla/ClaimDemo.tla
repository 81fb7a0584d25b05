------------------------------ MODULE ClaimDemo ------------------------------
(***************************************************************************)
(* The claim script: the Distributor mints KARMA and community points,     *)
(* deposits them and ETH for the fees on the OMG network, gives KARMA to   *)
(* Alice and points to the SubReddit server, and the two swap them in one  *)
(* transaction whose fee the Distributor pays.                             *)
(*                                                                         *)
(* A run is a process that creates the accounts of Alice and the server;   *)
(* all runs share the Distributor.  Nothing keeps a second run from being  *)
(* started while one is on its way or after one has died anywhere.         *)
(***************************************************************************)
EXTENDS Naturals, Sequences, FiniteSets, SequencesExt

CONSTANTS
    Run,        \* bound: runs of the script
    Points,     \* what is minted, deposited, given and claimed ('100')
    EthDeposit, \* what is deposited for fees ('0.01')
    Fee         \* the fee in ETH

ASSUME ClaimAssumption ==
    /\ Run \subseteq Nat \ {0}
    /\ Points \in Nat \ {0}
    /\ EthDeposit \in Nat \ {0}
    /\ Fee \in Nat \ {0}

VARIABLES
    step,       \* of each run, its position in the script
    outcome,    \* of each run, how it stands or has ended
    balance,    \* of each run, the balance it read before a transfer
    feeUtxo,    \* of each run, the fee utxos it found in claimCommunityPoints
    body,       \* of each run, the transaction it is about to submit
    wallet,     \* of the Distributor, on the root chain
    allowance,  \* of the vault of the network
    deposits,   \* deposits that the network has not credited yet
    chain,      \* the child chain: its unspent utxos
    news,       \* transactions the watcher has not seen yet
    seen        \* the watcher: the utxos it believes unspent

scriptVars == <<step, outcome, balance, feeUtxo, body>>
rootVars == <<wallet, allowance, deposits>>
chainVars == <<chain, news, seen>>
vars == <<scriptVars, rootVars, chainVars>>

Erc20 == {"KARMA", "RCP"}
Token == Erc20 \cup {"ETH"}

Distributor == <<"Distributor", 0>>
Alice(r) == <<"Alice", r>>
SubRedditServer(r) == <<"SubRedditServer", r>>

Op(op, token) == [op |-> op, token |-> token]

(* Each transfer is three operations, and so is the claim after its first, *)
(* which waits for the swap like for a transfer of RCP.                    *)
Script ==
    <<Op("mint", "KARMA"), Op("mint", "RCP"), Op("deposit", "ETH"),
      Op("approve", "KARMA"), Op("approve", "RCP"), Op("deposit", "KARMA"), Op("deposit", "RCP"),
      Op("create", "KARMA"), Op("submit", "KARMA"), Op("wait", "KARMA"),
      Op("create", "RCP"), Op("submit", "RCP"), Op("wait", "RCP"),
      Op("fee", "ETH"), Op("swap", "RCP"), Op("submit", "RCP"), Op("wait", "RCP")>>

(* claimCommunityPoints begins with the fee. *)
InClaim(r) == step[r] >= 14

Recipient(r) ==
    IF Script[step[r]].token = "KARMA" \/ InClaim(r) THEN Alice(r) ELSE SubRedditServer(r)

NoBody == [inputs |-> <<>>, signers |-> <<>>, outputs |-> {}]

Init ==
    /\ step = [r \in Run |-> 1]
    /\ outcome = [r \in Run |-> "running"]
    /\ balance = [r \in Run |-> 0]
    /\ feeUtxo = [r \in Run |-> {}]
    /\ body = [r \in Run |-> NoBody]
    /\ wallet = [t \in Erc20 |-> 0]
    /\ allowance = [t \in Erc20 |-> 0]
    /\ deposits = [t \in Token |-> 0]
    /\ chain = {} /\ news = <<>> /\ seen = {}

At(r, op) == outcome[r] = "running" /\ Script[step[r]].op = op

Proceed(r) ==
    /\ step' = [step EXCEPT ![r] = @ + 1]
    /\ outcome' = [outcome EXCEPT ![r] = IF step[r] = Len(Script) THEN "done" ELSE @]

(* An await rejects or a line throws, and nobody catches it. *)
Throw(r, error) ==
    /\ outcome' = [outcome EXCEPT ![r] = error]
    /\ UNCHANGED <<step, balance, feeUtxo, body>>

---------------------------------------------------------------------------
(* The root chain: each call waits until it is mined, deposits for twelve  *)
(* blocks, which is no promise of when the network credits them.           *)

CallMint(r) ==
    /\ At(r, "mint")
    /\ Proceed(r)
    /\ wallet' = [wallet EXCEPT ![Script[step[r]].token] = @ + Points]
    /\ UNCHANGED <<balance, feeUtxo, body, allowance, deposits, chainVars>>

ApproveErc20(r) ==
    /\ At(r, "approve")
    /\ Proceed(r)
    /\ allowance' = [allowance EXCEPT ![Script[step[r]].token] = Points]
    /\ UNCHANGED <<balance, feeUtxo, body, wallet, deposits, chainVars>>

DepositEth(r) ==
    /\ At(r, "deposit") /\ Script[step[r]].token = "ETH"
    /\ Proceed(r)
    /\ deposits' = [deposits EXCEPT !["ETH"] = @ + 1]
    /\ UNCHANGED <<balance, feeUtxo, body, wallet, allowance, chainVars>>

(* Another run may have used the allowance. *)
DepositErc20(r) ==
    /\ At(r, "deposit") /\ Script[step[r]].token \in Erc20
    /\ LET t == Script[step[r]].token
       IN  \/ /\ wallet[t] >= Points /\ allowance[t] >= Points
              /\ Proceed(r)
              /\ wallet' = [wallet EXCEPT ![t] = @ - Points]
              /\ allowance' = [allowance EXCEPT ![t] = @ - Points]
              /\ deposits' = [deposits EXCEPT ![t] = @ + 1]
              /\ UNCHANGED <<balance, feeUtxo, body>>
           \/ /\ wallet[t] < Points \/ allowance[t] < Points
              /\ Throw(r, "reverted")
              /\ UNCHANGED rootVars
    /\ UNCHANGED chainVars

---------------------------------------------------------------------------
(* The watcher *)

Of(utxos, owner, token) == {u \in utxos : u.owner = owner /\ u.token = token}
Total(utxos) == SumFunction([u \in utxos |-> u.amount])
GetBalance(owner, token) == Total(Of(seen, owner, token))

GetUsableUtxos(owner, token, amount, filterEqual) ==
    {u \in Of(seen, owner, token) : IF filterEqual THEN u.amount = amount ELSE u.amount >= amount}

Output(owner, token, amount) == [owner |-> owner, token |-> token, amount |-> amount]
Change(owner, token, amount) == IF amount > 0 THEN {Output(owner, token, amount)} ELSE {}

(* createTransaction chooses some utxos of the sender that suffice. *)
Covers(utxos, amount) ==
    Total(utxos) >= amount /\ \A u \in utxos : Total(utxos \ {u}) < amount

CreateTransaction(r, sender, recipient, token) ==
    \E points \in SUBSET Of(seen, sender, token), eth \in SUBSET Of(seen, sender, "ETH") :
       /\ Covers(points, Points) /\ Covers(eth, Fee)
       /\ LET inputs == SetToSeq(points \cup eth)
          IN  body' = [body EXCEPT ![r] =
                 [inputs |-> inputs, signers |-> [i \in DOMAIN inputs |-> sender],
                  outputs |-> {Output(recipient, token, Points)}
                                 \cup Change(sender, token, Total(points) - Points)
                                 \cup Change(sender, "ETH", Total(eth) - Fee)]]

(* The first half of transfer, after getBalance. *)
Create(r) ==
    /\ At(r, "create")
    /\ LET t == Script[step[r]].token
       IN  \/ /\ CreateTransaction(r, Distributor, Recipient(r), t)
              /\ balance' = [balance EXCEPT ![r] = GetBalance(Recipient(r), t)]
              /\ Proceed(r)
              /\ UNCHANGED feeUtxo
           \/ /\ GetBalance(Distributor, t) < Points \/ GetBalance(Distributor, "ETH") < Fee
              /\ Throw(r, "insufficientFunds")
    /\ UNCHANGED <<rootVars, chainVars>>

---------------------------------------------------------------------------
(* The swap *)

GetFeeAmount == Fee
GetExchangeRate == 1

(* claimCommunityPoints reads the fee utxos first. *)
FeeUtxos(r) ==
    /\ At(r, "fee")
    /\ feeUtxo' = [feeUtxo EXCEPT ![r] = GetUsableUtxos(Distributor, "ETH", GetFeeAmount, FALSE)]
    /\ balance' = [balance EXCEPT ![r] = GetBalance(Alice(r), "RCP")]
    /\ Proceed(r)
    /\ UNCHANGED <<body, rootVars, chainVars>>

(* A bug: an output for the change even if there is none. *)
ChangeOfNothing(utxo) == {Output(Distributor, utxo.token, utxo.amount - GetFeeAmount)}

FeeChange(utxo) ==
    IF utxo.amount > GetFeeAmount
    THEN {Output(Distributor, utxo.token, utxo.amount - GetFeeAmount)}
    ELSE {}

(* A bug: both outputs are Alice's. *)
BothToAlice(r, aliceUtxo, bobUtxo, utxo) ==
    [inputs |-> <<aliceUtxo, bobUtxo, utxo>>,
     signers |-> <<Alice(r), SubRedditServer(r), Distributor>>,
     outputs |-> {Output(Alice(r), aliceUtxo.token, aliceUtxo.amount),
                  Output(Alice(r), bobUtxo.token, bobUtxo.amount)} \cup FeeChange(utxo)]

CreateTransactionBody(r, aliceUtxo, bobUtxo, utxo) ==
    [inputs |-> <<aliceUtxo, bobUtxo, utxo>>,
     signers |-> <<Alice(r), SubRedditServer(r), Distributor>>,
     outputs |-> {Output(SubRedditServer(r), aliceUtxo.token, aliceUtxo.amount),
                  Output(Alice(r), bobUtxo.token, bobUtxo.amount)} \cup FeeChange(utxo)]

(* It takes the first utxo of each list, in the watcher's order. *)
Swap(r) ==
    /\ At(r, "swap")
    /\ LET redeemable == GetUsableUtxos(Alice(r), "KARMA", Points, TRUE)
           claimable == GetUsableUtxos(SubRedditServer(r), "RCP", Points \div GetExchangeRate, TRUE)
       IN  \/ /\ redeemable = {} \/ claimable = {}
              /\ Throw(r, "TypeError")
           \/ /\ redeemable # {} /\ claimable # {} /\ feeUtxo[r] = {}
              /\ Throw(r, "No fee UTXO provided")
           \/ \E a \in redeemable, b \in claimable, f \in feeUtxo[r] :
                 /\ body' = [body EXCEPT ![r] = CreateTransactionBody(r, a, b, f)]
                 /\ Proceed(r)
                 /\ feeUtxo' = [feeUtxo EXCEPT ![r] = {}]
                 /\ UNCHANGED balance
    /\ UNCHANGED <<rootVars, chainVars>>

---------------------------------------------------------------------------
(* Transactions *)

Inputs(tx) == {tx.inputs[i] : i \in DOMAIN tx.inputs}

(* The child chain takes a transaction that its owners signed, that pays   *)
(* the fee and nothing else, and whose inputs are unspent.                 *)
WellFormed(tx) ==
    /\ \A i \in DOMAIN tx.inputs : tx.inputs[i].owner = tx.signers[i]
    /\ \A o \in tx.outputs : o.amount > 0
    /\ \A t \in Token :
          Total({u \in Inputs(tx) : u.token = t})
             = Total({o \in tx.outputs : o.token = t}) + (IF t = "ETH" THEN Fee ELSE 0)

(* A new utxo is known by a number that no other one on its way has. *)
Known ==
    chain \cup seen \cup (UNION {news[i].outputs : i \in DOMAIN news})
       \cup (UNION {feeUtxo[r] \cup Inputs(body[r]) : r \in Run})

Utxo(o, n) == [owner |-> o.owner, token |-> o.token, amount |-> o.amount, id |-> n]

NewUtxos(outputs) ==
    {Utxo(o, CHOOSE n \in 1..(Cardinality(Known) + 1) : Utxo(o, n) \notin Known) : o \in outputs}

Accept(inputs, outputs) ==
    LET created == NewUtxos(outputs)
    IN  /\ chain' = (chain \ inputs) \cup created
        /\ news' = Append(news, [inputs |-> inputs, outputs |-> created])
        /\ UNCHANGED seen

(* A bug: the refusal is logged, and the script goes on. *)
SwallowsRefusal(r) ==
    /\ At(r, "submit")
    /\ IF WellFormed(body[r]) /\ Inputs(body[r]) \subseteq chain
       THEN Accept(Inputs(body[r]), body[r].outputs)
       ELSE UNCHANGED chainVars
    /\ body' = [body EXCEPT ![r] = NoBody]
    /\ Proceed(r)
    /\ UNCHANGED <<balance, feeUtxo, rootVars>>

Submit(r) ==
    /\ At(r, "submit")
    /\ LET tx == body[r]
       IN  \/ /\ WellFormed(tx) /\ Inputs(tx) \subseteq chain
              /\ Accept(Inputs(tx), tx.outputs)
              /\ body' = [body EXCEPT ![r] = NoBody]
              /\ Proceed(r)
              /\ UNCHANGED <<balance, feeUtxo>>
           \/ /\ ~(WellFormed(tx) /\ Inputs(tx) \subseteq chain)
              /\ Throw(r, "refused")
              /\ UNCHANGED chainVars
    /\ UNCHANGED rootVars

(* A bug: the script does not wait for the watcher. *)
WaitsForNothing(r) ==
    /\ At(r, "wait")
    /\ Proceed(r)
    /\ balance' = [balance EXCEPT ![r] = 0]
    /\ UNCHANGED <<feeUtxo, body, rootVars, chainVars>>

WaitForTransfer(r) ==
    /\ At(r, "wait")
    /\ GetBalance(Recipient(r), Script[step[r]].token) = balance[r] + Points
    /\ Proceed(r)
    /\ balance' = [balance EXCEPT ![r] = 0]
    /\ UNCHANGED <<feeUtxo, body, rootVars, chainVars>>

(* Any call may fail, and the process may be killed anywhere. *)
Fails(r) ==
    /\ outcome[r] = "running"
    /\ outcome' = [outcome EXCEPT ![r] = "failed"]
    /\ feeUtxo' = [feeUtxo EXCEPT ![r] = {}]
    /\ body' = [body EXCEPT ![r] = NoBody]
    /\ balance' = [balance EXCEPT ![r] = 0]
    /\ UNCHANGED <<step, rootVars, chainVars>>

---------------------------------------------------------------------------
(* The network *)

CreditDeposit(t) ==
    /\ deposits[t] > 0
    /\ deposits' = [deposits EXCEPT ![t] = @ - 1]
    /\ Accept({}, {Output(Distributor, t, IF t = "ETH" THEN EthDeposit ELSE Points)})
    /\ UNCHANGED <<scriptVars, wallet, allowance>>

WatcherSees ==
    /\ news # <<>>
    /\ seen' = (seen \ Head(news).inputs) \cup Head(news).outputs
    /\ news' = Tail(news)
    /\ UNCHANGED <<scriptVars, rootVars, chain>>

RunStep(r) ==
    \/ CallMint(r) \/ ApproveErc20(r) \/ DepositEth(r) \/ DepositErc20(r)
    \/ Create(r) \/ FeeUtxos(r) \/ Swap(r) \/ Submit(r) \/ WaitForTransfer(r)

Next ==
    \/ \E r \in Run : RunStep(r) \/ Fails(r)
    \/ \E t \in Token : CreditDeposit(t)
    \/ WatcherSees

(* Calls return, the network credits and the watcher catches up. *)
Fairness ==
    /\ \A r \in Run : WF_vars(RunStep(r))
    /\ \A t \in Token : WF_vars(CreditDeposit(t))
    /\ WF_vars(WatcherSees)

Spec == Init /\ [][Next]_vars /\ Fairness

---------------------------------------------------------------------------
Owner == {Distributor} \cup {Alice(r) : r \in Run} \cup {SubRedditServer(r) : r \in Run}

IsUtxo(u) == u.owner \in Owner /\ u.token \in Token /\ u.amount \in Nat \ {0} /\ u.id \in Nat

Outcome ==
    {"running", "done", "failed", "reverted", "insufficientFunds", "TypeError",
     "No fee UTXO provided", "refused"}

ClaimTypeOK ==
    /\ step \in [Run -> 1..(Len(Script) + 1)]
    /\ outcome \in [Run -> Outcome]
    /\ balance \in [Run -> Nat]
    /\ \A r \in Run : outcome[r] = "done" <=> step[r] = Len(Script) + 1
    /\ wallet \in [Erc20 -> Nat] /\ allowance \in [Erc20 -> 0..Points]
    /\ deposits \in [Token -> Nat]
    /\ \A u \in Known : IsUtxo(u)
    /\ DOMAIN body = Run /\ DOMAIN feeUtxo = Run

(***************************************************************************)
(* The waits suffice: when a run builds the swap, the watcher knows a utxo *)
(* of Alice and one of the server of exactly the amount, so that the       *)
(* script does not run into an undefined utxo.                             *)
(***************************************************************************)
ClaimFindsItsUtxos == \A r \in Run : outcome[r] # "TypeError"

ClaimInv == ClaimTypeOK /\ ClaimFindsItsUtxos

(***************************************************************************)
(* A transaction is refused for one reason only: another run has spent a   *)
(* utxo of the Distributor that the watcher still offered.  What is signed *)
(* pays exactly the fee, and nobody but the run itself can spend the       *)
(* points that are swapped.                                                *)
(***************************************************************************)
OnlyContestedUtxosRefused ==
    \A r \in Run :
       At(r, "submit") =>
          /\ WellFormed(body[r])
          /\ \A u \in Inputs(body[r]) \ chain : u.owner = Distributor

(***************************************************************************)
(* The swap is done when the script says so, and not half: Alice has the   *)
(* points and the server the KARMA; before the swap is on the chain it is  *)
(* the other way round.                                                    *)
(***************************************************************************)
Owns(owner, token) == Total(Of(chain, owner, token))

Swapped(r) == Owns(Alice(r), "RCP") = Points

ClaimIsAtomic ==
    \A r \in Run :
       /\ outcome[r] = "done" => Swapped(r)
       /\ Swapped(r) <=> Owns(SubRedditServer(r), "KARMA") = Points
       /\ At(r, "swap") =>
             Owns(Alice(r), "KARMA") = Points /\ Owns(SubRedditServer(r), "RCP") = Points
       /\ Swapped(r) => Owns(Alice(r), "KARMA") = 0 /\ Owns(SubRedditServer(r), "RCP") = 0

(* Every run ends, well or badly: it does not wait for a balance forever.  *)
RunEnds == \A r \in Run : <>(outcome[r] # "running")
=============================================================================
