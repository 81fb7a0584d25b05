--------------------------- MODULE ClaimDemo_proofs ---------------------------
(***************************************************************************)
(* What the claim script of ClaimDemo guarantees, for any number of runs   *)
(* that share the Distributor, fail anywhere and see what the watcher      *)
(* shows them.                                                             *)
(*                                                                         *)
(* ScriptsInv is inductive.  It says by the position of a run what its     *)
(* Alice and its server have, among all utxos that are known anywhere: on  *)
(* the chain, at the watcher, on their way to it, and in the memory of the *)
(* runs.  What they were given stays unspent until the swap because        *)
(* nothing else that is signed has an input of theirs, and the wait before *)
(* it has shown it to the run.                                             *)
(***************************************************************************)
EXTENDS ClaimDemo, Sums

---------------------------------------------------------------------------
(* What is known of a run *)

Utxos == [owner : Owner, token : Token, amount : Nat \ {0}, id : Nat]
Outputs == [owner : Owner, token : Token, amount : Nat \ {0}]

Mine(r) == {Alice(r), SubRedditServer(r)}

(* The utxos that transactions spend of which the watcher has not heard. *)
SpentUnseen == UNION {news[i].inputs : i \in DOMAIN news}

(* The utxo that a run gives away by its operation n: there is none before, *)
(* then one that stays unspent until the swap, and is seen after the wait.  *)
GivenOK(s, known, unspent, atWatcher, owner, token, n) ==
    /\ s <= n => Of(known, owner, token) = {}
    /\ s \in (n + 1)..16 =>
          \E u \in unspent : u.amount = Points /\ Of(known, owner, token) = {u}
    /\ s \in (n + 2)..16 => Of(known, owner, token) \subseteq atWatcher

(* What the parties of run r have when it is at s of the script: nothing is *)
(* swapped up to the submission at 16, and all is after it.                 *)
CoinsOK(r, s, known, unspent, atWatcher, spentUnseen) ==
    /\ GivenOK(s, known, unspent, atWatcher, Alice(r), "KARMA", 9)
    /\ GivenOK(s, known, unspent, atWatcher, SubRedditServer(r), "RCP", 12)
    /\ s <= 16 =>
          /\ Of(known, Alice(r), "RCP") = {} /\ Of(known, SubRedditServer(r), "KARMA") = {}
          /\ \A u \in spentUnseen : u.owner \notin Mine(r)
    /\ s > 16 =>
          /\ Of(unspent, Alice(r), "KARMA") = {} /\ Of(unspent, SubRedditServer(r), "RCP") = {}
          /\ \E u \in unspent : u.amount = Points /\ Of(unspent, Alice(r), "RCP") = {u}
          /\ \E u \in unspent : u.amount = Points /\ Of(unspent, SubRedditServer(r), "KARMA") = {u}

(* Transactions that give Points to owner, all at the Distributor's expense. *)
TransferOK(tx, owner, token) ==
    /\ \A u \in Inputs(tx) : u.owner = Distributor
    /\ tx.outputs \in SUBSET Outputs /\ IsFiniteSet(tx.outputs)
    /\ Output(owner, token, Points) \in tx.outputs
    /\ \A o \in tx.outputs : o # Output(owner, token, Points) => o.owner = Distributor
    /\ WellFormed(tx)

SwapOK(r, tx) ==
    \E a, b, f \in Inputs(tx) :
       /\ tx = CreateTransactionBody(r, a, b, f)
       /\ a.owner = Alice(r) /\ a.token = "KARMA" /\ a.amount = Points
       /\ b.owner = SubRedditServer(r) /\ b.token = "RCP" /\ b.amount = Points
       /\ f.owner = Distributor /\ f.token = "ETH" /\ f.amount >= Fee

BodyOK(r, s, out, tx) ==
    /\ tx # NoBody => \/ s = 9 /\ TransferOK(tx, Alice(r), "KARMA")
                      \/ s = 12 /\ TransferOK(tx, SubRedditServer(r), "RCP")
                      \/ s = 16 /\ SwapOK(r, tx)
    /\ out = "running" /\ s \in {9, 12, 16} => tx # NoBody

FeesOK(utxos) ==
    \A u \in utxos : u.owner = Distributor /\ u.token = "ETH" /\ u.amount >= Fee

ScriptInv ==
    /\ step \in [Run -> 1..18] /\ outcome \in [Run -> Outcome]
    /\ \A r \in Run : outcome[r] = "done" <=> step[r] = 18
    /\ ClaimFindsItsUtxos
    /\ balance = [r \in Run |-> 0]
    /\ DOMAIN body = Run /\ DOMAIN feeUtxo = Run
    /\ \A r \in Run : BodyOK(r, step[r], outcome[r], body[r]) /\ FeesOK(feeUtxo[r])

RootInv ==
    /\ wallet \in [Erc20 -> Nat] /\ allowance \in [Erc20 -> 0..Points]
    /\ deposits \in [Token -> Nat]

ChainInv ==
    /\ IsFiniteSet(Known) /\ Known \subseteq Utxos
    /\ news \in Seq([inputs : SUBSET Utxos, outputs : SUBSET Utxos])

CoinsInv == \A r \in Run : CoinsOK(r, step[r], Known, chain, seen, SpentUnseen)

ScriptsInv == ScriptInv /\ RootInv /\ ChainInv /\ CoinsInv

---------------------------------------------------------------------------

(* The script, position by position. *)
LEMMA Steps ==
    /\ Len(Script) = 17
    /\ Script[1] = Op("mint", "KARMA") /\ Script[2] = Op("mint", "RCP")
    /\ Script[3] = Op("deposit", "ETH")
    /\ Script[4] = Op("approve", "KARMA") /\ Script[5] = Op("approve", "RCP")
    /\ Script[6] = Op("deposit", "KARMA") /\ Script[7] = Op("deposit", "RCP")
    /\ Script[8] = Op("create", "KARMA") /\ Script[9] = Op("submit", "KARMA")
    /\ Script[10] = Op("wait", "KARMA")
    /\ Script[11] = Op("create", "RCP") /\ Script[12] = Op("submit", "RCP")
    /\ Script[13] = Op("wait", "RCP")
    /\ Script[14] = Op("fee", "ETH") /\ Script[15] = Op("swap", "RCP")
    /\ Script[16] = Op("submit", "RCP") /\ Script[17] = Op("wait", "RCP")
  BY DEF Script

(* At(r, op), operation by operation. *)
LEMMA AtSteps ==
    ASSUME NEW r, step[r] \in 1..17
    PROVE  LET s == step[r]
               t == Script[step[r]].token
               o == Script[step[r]].op
           IN  /\ o = "mint" => s \in {1, 2} /\ t \in Erc20
               /\ o = "deposit" => s \in {3, 6, 7} /\ t \in Token
               /\ o = "approve" => s \in {4, 5} /\ t \in Erc20
               /\ o = "create" =>
                     \/ s = 8 /\ t = "KARMA" /\ Recipient(r) = Alice(r)
                     \/ s = 11 /\ t = "RCP" /\ Recipient(r) = SubRedditServer(r)
               /\ o = "fee" => s = 14
               /\ o = "swap" => s = 15
               /\ o = "submit" => s \in {9, 12, 16}
               /\ o = "wait" =>
                     \/ s = 10 /\ t = "KARMA" /\ Recipient(r) = Alice(r)
                     \/ s = 13 /\ t = "RCP" /\ Recipient(r) = SubRedditServer(r)
                     \/ s = 17
               /\ s \in {9, 12, 16} => o = "submit"
<1>1. step[r] \in {1, 2, 3, 4, 5, 6, 7, 8, 9, 10, 11, 12, 13, 14, 15, 16, 17}
  OBVIOUS
<1>2. QED
  BY <1>1, Steps DEF Op, Erc20, Token, Recipient, InClaim

(* No two roles of the script, and no two runs, share an account. *)
LEMMA Parties ==
    ASSUME NEW r, NEW q
    PROVE  /\ Alice(r) # Distributor /\ SubRedditServer(r) # Distributor
           /\ Alice(r) # SubRedditServer(q)
           /\ r # q => Alice(r) # Alice(q) /\ SubRedditServer(r) # SubRedditServer(q)
  BY DEF Alice, SubRedditServer, Distributor

(* A set put in order: every element once. *)
LEMMA SetToSeqFacts ==
    ASSUME NEW S, IsFiniteSet(S)
    PROVE  /\ SetToSeq(S) \in [1..Cardinality(S) -> S]
           /\ Cardinality(S) \in Nat
           /\ {SetToSeq(S)[i] : i \in DOMAIN SetToSeq(S)} = S
<1> DEFINE n == Cardinality(S)
           g == SetToSeq(S)
<1>1. n \in Nat /\ ExistsBijection(1..n, S)
  BY FS_CardinalityType
<1>2. PICK f \in Bijection(1..n, S) : TRUE
  BY <1>1 DEF ExistsBijection
<1>3. f \in [1..n -> S] /\ IsInjective(f)
  BY <1>2 DEF Bijection, Injection, Surjection, IsInjective
<1>4. g \in [1..n -> S] /\ IsInjective(g)
  BY <1>3 DEF SetToSeq
<1>5. g \in Injection(1..n, S)
  BY <1>4 DEF IsInjective, Injection
<1>6. Cardinality(1..n) = n
  BY <1>1, FS_Interval
<1>7. g \in Surjection(1..n, S)
  <2> HIDE DEF g
  <2>1. QED
    BY <1>5, <1>6, FS_Injection
<1>8. {g[i] : i \in DOMAIN g} = S
  BY <1>4, <1>7 DEF Surjection
<1>9. QED
  BY <1>1, <1>4, <1>8
---------------------------------------------------------------------------
(* Amounts *)

(* No utxos are worth nothing, *)
LEMMA TotalEmpty == Total({}) = 0
<1>1. DOMAIN [u \in {} |-> u.amount] = {}
  OBVIOUS
<1>2. QED
  BY <1>1, SumEmpty DEF Total, SumFunction

(* one is worth its amount, *)
LEMMA TotalOne ==
    ASSUME NEW u, u.amount \in Nat
    PROVE  Total({u}) = u.amount
<1> DEFINE f == [v \in {u} |-> v.amount]
<1>1. DOMAIN f = {u} /\ f[u] = u.amount
  OBVIOUS
<1>2. SumFunctionOnSet(f, {u}) = f[u]
  <2> HIDE DEF f
  <2>1. f[u] \in Int
    BY <1>1
  <2>2. QED
    BY <2>1, SumOne
<1>3. QED
  BY <1>1, <1>2 DEF Total, SumFunction

(* some are worth a natural number, *)
LEMMA TotalNat ==
    ASSUME NEW S, IsFiniteSet(S), \A u \in S : u.amount \in Nat
    PROVE  Total(S) \in Nat
<1> DEFINE f == [v \in S |-> v.amount]
<1>1. DOMAIN f = S /\ \A u \in S : f[u] \in Nat
  OBVIOUS
<1>2. SumFunctionOnSet(f, S) \in Nat
  <2> HIDE DEF f
  <2>1. QED
    BY <1>1, SumNat
<1>3. QED
  BY <1>1, <1>2 DEF Total, SumFunction

(* and two sets that share none are worth the sum. *)
LEMMA TotalBoth ==
    ASSUME NEW S, IsFiniteSet(S), NEW T, IsFiniteSet(T), S \cap T = {},
           \A u \in S \cup T : u.amount \in Nat
    PROVE  Total(S \cup T) = Total(S) + Total(T)
<1> DEFINE f == [v \in S \cup T |-> v.amount]
           g == [v \in S |-> v.amount]
           h == [v \in T |-> v.amount]
<1>1. /\ DOMAIN f = S \cup T /\ DOMAIN g = S /\ DOMAIN h = T
      /\ \A u \in S \cup T : f[u] \in Int
      /\ \A u \in S : f[u] = g[u]
      /\ \A u \in T : f[u] = h[u]
  OBVIOUS
<1>2. /\ SumFunctionOnSet(f, S \cup T) = SumFunctionOnSet(f, S) + SumFunctionOnSet(f, T)
      /\ SumFunctionOnSet(f, S) = SumFunctionOnSet(g, S)
      /\ SumFunctionOnSet(f, T) = SumFunctionOnSet(h, T)
  <2> HIDE DEF f, g, h
  <2>1. SumFunctionOnSet(f, S \cup T) = SumFunctionOnSet(f, S) + SumFunctionOnSet(f, T)
    BY <1>1, SumUnion
  <2>2. QED
    BY <1>1, <2>1, SumSame
<1>3. QED
  BY <1>1, <1>2 DEF Total, SumFunction

(* An output for the change is worth the change. *)
LEMMA TotalChange ==
    ASSUME NEW owner, NEW token, NEW amount \in Nat
    PROVE  /\ Total(Change(owner, token, amount)) = amount
           /\ IsFiniteSet(Change(owner, token, amount))
           /\ \A o \in Change(owner, token, amount) :
                 o = Output(owner, token, amount) /\ amount > 0
<1>1. CASE amount > 0
  <2>1. Output(owner, token, amount).amount = amount
    BY DEF Output
  <2>2. Total({Output(owner, token, amount)}) = amount
    BY <2>1, TotalOne
  <2>3. QED
    BY <1>1, <2>2, FS_Singleton DEF Change
<1>2. CASE ~(amount > 0)
  BY <1>2, TotalEmpty, FS_EmptySet DEF Change
<1>3. QED
  BY <1>1, <1>2
---------------------------------------------------------------------------
(* Transactions *)

Selected(points, eth) == SetToSeq(points \cup eth)

TransferOf(owner, token, points, eth) ==
    [inputs |-> Selected(points, eth),
     signers |-> [i \in DOMAIN Selected(points, eth) |-> Distributor],
     outputs |-> {Output(owner, token, Points)}
                    \cup Change(Distributor, token, Total(points) - Points)
                    \cup Change(Distributor, "ETH", Total(eth) - Fee)]

(* A transfer that createTransaction builds is worth what it spends. *)
LEMMA TransferBuilt ==
    ASSUME NEW owner \in Owner, owner # Distributor, NEW token \in Erc20,
           NEW points, NEW eth, IsFiniteSet(points), IsFiniteSet(eth),
           points \subseteq Of(Utxos, Distributor, token),
           eth \subseteq Of(Utxos, Distributor, "ETH"),
           Total(points) >= Points, Total(eth) >= Fee
    PROVE  /\ TransferOK(TransferOf(owner, token, points, eth), owner, token)
           /\ Inputs(TransferOf(owner, token, points, eth)) = points \cup eth
<1> DEFINE tx == TransferOf(owner, token, points, eth)
           given == Output(owner, token, Points)
           C == Change(Distributor, token, Total(points) - Points)
           E == Change(Distributor, "ETH", Total(eth) - Fee)
<1>1. /\ token \in Token /\ "ETH" \in Token /\ token # "ETH" /\ Distributor \in Owner
      /\ Points \in Nat \ {0} /\ Fee \in Nat \ {0}
  BY ClaimAssumption DEF Token, Erc20, Owner
<1>2. /\ \A u \in points : u.owner = Distributor /\ u.token = token /\ u.amount \in Nat
      /\ \A u \in eth : u.owner = Distributor /\ u.token = "ETH" /\ u.amount \in Nat
  BY DEF Of, Utxos
<1>3. Total(points) \in Nat /\ Total(eth) \in Nat
  BY <1>2, TotalNat
<1>4. /\ Total(points) - Points \in Nat /\ Total(eth) - Fee \in Nat
  BY <1>1, <1>3
<1>5. /\ Total(C) = Total(points) - Points /\ IsFiniteSet(C)
      /\ \A o \in C : o = Output(Distributor, token, Total(points) - Points) /\ Total(points) - Points > 0
  BY <1>4, TotalChange
<1>6. /\ Total(E) = Total(eth) - Fee /\ IsFiniteSet(E)
      /\ \A o \in E : o = Output(Distributor, "ETH", Total(eth) - Fee) /\ Total(eth) - Fee > 0
  BY <1>4, TotalChange
<1>7. IsFiniteSet(points \cup eth)
  BY FS_Union
<1>8. /\ tx.outputs = {given} \cup C \cup E
      /\ tx.inputs = Selected(points, eth)
      /\ tx.signers = [i \in DOMAIN Selected(points, eth) |-> Distributor]
  BY DEF TransferOf
<1>9. Inputs(tx) = points \cup eth
  <2> DEFINE S == points \cup eth
  <2>1. {SetToSeq(S)[i] : i \in DOMAIN SetToSeq(S)} = S
    <3>1. IsFiniteSet(S)
      BY <1>7
    <3> HIDE DEF S
    <3>2. QED
      BY <3>1, SetToSeqFacts
  <2>2. QED
    BY <1>8, <2>1 DEF Inputs, Selected
<1>10. given.owner = owner /\ given.token = token /\ given.amount = Points /\ given \in Outputs
  BY <1>1 DEF Output, Outputs
<1>11. /\ \A o \in C : o \in Outputs /\ o.owner = Distributor /\ o.token = token /\ o.amount \in Nat
       /\ \A o \in E : o \in Outputs /\ o.owner = Distributor /\ o.token = "ETH" /\ o.amount \in Nat
  BY <1>1, <1>4, <1>5, <1>6 DEF Output, Outputs
<1> HIDE DEF given, C, E
<1>12. WellFormed(tx)
  <2> DEFINE In(t) == {u \in Inputs(tx) : u.token = t}
             Out(t) == {o \in tx.outputs : o.token = t}
  <2>1. ASSUME NEW i \in DOMAIN tx.inputs PROVE tx.inputs[i].owner = tx.signers[i]
    <3>1. tx.inputs[i] \in Inputs(tx) /\ tx.signers[i] = Distributor
      BY <1>8 DEF Inputs
    <3>2. QED
      BY <1>2, <1>9, <3>1
  <2>2. \A o \in tx.outputs : o.amount > 0
    BY <1>1, <1>8, <1>10, <1>11 DEF Outputs
  <2>3. ASSUME NEW t \in Token
        PROVE  Total(In(t)) = Total(Out(t)) + (IF t = "ETH" THEN Fee ELSE 0)
    <3>1. CASE t = token
      <4>1. In(t) = points
        BY <1>1, <1>2, <1>9, <3>1
      <4>2. Out(t) = {given} \cup C
        BY <1>1, <1>8, <1>10, <1>11, <3>1
      <4>3. Total({given}) = Points /\ IsFiniteSet({given})
        BY <1>1, <1>10, TotalOne, FS_Singleton
      <4>4. {given} \cap C = {}
        BY <1>10, <1>11
      <4>5. Total({given} \cup C) = Total({given}) + Total(C)
        BY <1>1, <1>5, <1>10, <1>11, <4>3, <4>4, TotalBoth
      <4> HIDE DEF In, Out
      <4>6. QED
        BY <1>1, <1>3, <1>5, <3>1, <4>1, <4>2, <4>3, <4>5
    <3>2. CASE t = "ETH"
      <4>1. In(t) = eth
        BY <1>1, <1>2, <1>9, <3>2
      <4>2. Out(t) = E
        BY <1>1, <1>8, <1>10, <1>11, <3>2
      <4> HIDE DEF In, Out
      <4>3. QED
        BY <1>1, <1>3, <1>6, <3>2, <4>1, <4>2
    <3>3. CASE t # token /\ t # "ETH"
      <4>1. In(t) = {} /\ Out(t) = {}
        BY <1>2, <1>8, <1>9, <1>10, <1>11, <3>3
      <4> HIDE DEF In, Out
      <4>2. QED
        BY <3>3, <4>1, TotalEmpty
    <3>4. QED
      BY <3>1, <3>2, <3>3
  <2>4. QED
    BY <2>1, <2>2, <2>3 DEF WellFormed
<1>13. IsFiniteSet(tx.outputs)
  <2>1. IsFiniteSet({given})
    BY FS_Singleton
  <2>2. IsFiniteSet({given} \cup C)
    BY <1>5, <2>1, FS_Union
  <2>3. IsFiniteSet({given} \cup C \cup E)
    BY <1>6, <2>2, FS_Union
  <2>4. QED
    BY <1>8, <2>3
<1>14. /\ tx.outputs \subseteq Outputs /\ given \in tx.outputs
       /\ \A o \in tx.outputs : o # given => o.owner = Distributor
  BY <1>8, <1>10, <1>11
<1>15. \A u \in Inputs(tx) : u.owner = Distributor
  BY <1>2, <1>9
<1>16. QED
  BY <1>9, <1>12, <1>13, <1>14, <1>15 DEF TransferOK, given
(* The swap that createTransactionBody builds is worth what it spends, and  *)
(* gives Alice the points and the server the KARMA.                         *)
LEMMA SwapBuilt ==
    ASSUME NEW r \in Run, NEW tx, SwapOK(r, tx), Inputs(tx) \subseteq Utxos
    PROVE  /\ WellFormed(tx) /\ tx.outputs \subseteq Outputs /\ IsFiniteSet(tx.outputs)
           /\ Output(Alice(r), "RCP", Points) \in tx.outputs
           /\ Output(SubRedditServer(r), "KARMA", Points) \in tx.outputs
           /\ \A o \in tx.outputs : \/ o = Output(Alice(r), "RCP", Points)
                                    \/ o = Output(SubRedditServer(r), "KARMA", Points)
                                    \/ o.owner = Distributor
           /\ \E a, b \in Inputs(tx) :
                 /\ a.owner = Alice(r) /\ a.token = "KARMA"
                 /\ b.owner = SubRedditServer(r) /\ b.token = "RCP"
                 /\ \A u \in Inputs(tx) : u = a \/ u = b \/ u.owner = Distributor
<1>1. PICK a \in Inputs(tx), b \in Inputs(tx), f \in Inputs(tx) :
          /\ tx = CreateTransactionBody(r, a, b, f)
          /\ a.owner = Alice(r) /\ a.token = "KARMA" /\ a.amount = Points
          /\ b.owner = SubRedditServer(r) /\ b.token = "RCP" /\ b.amount = Points
          /\ f.owner = Distributor /\ f.token = "ETH" /\ f.amount >= Fee
  BY DEF SwapOK
<1> DEFINE karma == Output(SubRedditServer(r), "KARMA", Points)
           rcp == Output(Alice(r), "RCP", Points)
           C == Change(Distributor, "ETH", f.amount - Fee)
<1>2. /\ Points \in Nat \ {0} /\ Fee \in Nat \ {0} /\ f.amount \in Nat
      /\ f.amount - Fee \in Nat
      /\ {"KARMA", "RCP", "ETH"} = Token
      /\ {Distributor, Alice(r), SubRedditServer(r)} \subseteq Owner
  BY <1>1, ClaimAssumption DEF Utxos, Token, Erc20, Owner
<1>3. /\ Total(C) = f.amount - Fee /\ IsFiniteSet(C)
      /\ \A o \in C : o = Output(Distributor, "ETH", f.amount - Fee) /\ f.amount - Fee > 0
  BY <1>2, TotalChange
<1>4. C = FeeChange(f)
  BY <1>1, <1>2 DEF Change, FeeChange, GetFeeAmount
<1>5. /\ tx.inputs = <<a, b, f>>
      /\ tx.signers = <<Alice(r), SubRedditServer(r), Distributor>>
      /\ tx.outputs = {karma, rcp} \cup C
  BY <1>1, <1>4 DEF CreateTransactionBody
<1>6. Inputs(tx) = {a, b, f}
  BY <1>5 DEF Inputs
<1>7. /\ karma.owner = SubRedditServer(r) /\ karma.token = "KARMA" /\ karma.amount = Points
      /\ rcp.owner = Alice(r) /\ rcp.token = "RCP" /\ rcp.amount = Points
      /\ karma \in Outputs /\ rcp \in Outputs
  BY <1>2 DEF Output, Outputs
<1>8. \A o \in C : o \in Outputs /\ o.owner = Distributor /\ o.token = "ETH"
  BY <1>2, <1>3 DEF Output, Outputs
<1> HIDE DEF karma, rcp, C
<1>9. WellFormed(tx)
  <2> DEFINE In(t) == {u \in Inputs(tx) : u.token = t}
             Out(t) == {o \in tx.outputs : o.token = t}
  <2>1. \A i \in DOMAIN tx.inputs : tx.inputs[i].owner = tx.signers[i]
    BY <1>1, <1>5
  <2>2. \A o \in tx.outputs : o.amount > 0
    BY <1>2, <1>5, <1>7, <1>8 DEF Outputs
  <2>3. ASSUME NEW t \in Token
        PROVE  Total(In(t)) = Total(Out(t)) + (IF t = "ETH" THEN Fee ELSE 0)
    <3>1. CASE t = "KARMA"
      <4>1. In(t) = {a} /\ Out(t) = {karma}
        BY <1>1, <1>5, <1>6, <1>7, <1>8, <3>1
      <4>2. Total({a}) = Points /\ Total({karma}) = Points
        BY <1>1, <1>2, <1>7, TotalOne
      <4> HIDE DEF In, Out
      <4>3. Points = Points + 0 /\ t # "ETH"
        BY <1>2, <3>1
      <4>4. QED
        BY <4>1, <4>2, <4>3
    <3>2. CASE t = "RCP"
      <4>1. In(t) = {b} /\ Out(t) = {rcp}
        BY <1>1, <1>5, <1>6, <1>7, <1>8, <3>2
      <4>2. Total({b}) = Points /\ Total({rcp}) = Points
        BY <1>1, <1>2, <1>7, TotalOne
      <4> HIDE DEF In, Out
      <4>3. Points = Points + 0 /\ t # "ETH"
        BY <1>2, <3>2
      <4>4. QED
        BY <4>1, <4>2, <4>3
    <3>3. CASE t = "ETH"
      <4>1. In(t) = {f} /\ Out(t) = C
        BY <1>1, <1>5, <1>6, <1>7, <1>8, <3>3
      <4>2. Total({f}) = f.amount
        BY <1>2, TotalOne
      <4> HIDE DEF In, Out
      <4>3. QED
        BY <1>2, <1>3, <3>3, <4>1, <4>2
    <3>4. QED
      BY <1>2, <3>1, <3>2, <3>3
  <2>4. QED
    BY <2>1, <2>2, <2>3 DEF WellFormed
<1>10. IsFiniteSet(tx.outputs)
  <2>1. IsFiniteSet({karma}) /\ IsFiniteSet({rcp})
    BY FS_Singleton
  <2>2. IsFiniteSet({karma} \cup {rcp})
    BY <2>1, FS_Union
  <2>3. IsFiniteSet({karma} \cup {rcp} \cup C)
    BY <1>3, <2>2, FS_Union
  <2>4. tx.outputs = {karma} \cup {rcp} \cup C
    BY <1>5
  <2>5. QED
    BY <2>3, <2>4
<1>11. /\ tx.outputs \subseteq Outputs /\ rcp \in tx.outputs /\ karma \in tx.outputs
       /\ \A o \in tx.outputs : o = rcp \/ o = karma \/ o.owner = Distributor
  BY <1>5, <1>7, <1>8
<1>12. \A u \in Inputs(tx) : u = a \/ u = b \/ u.owner = Distributor
  BY <1>1, <1>6
<1>13. QED
  BY <1>1, <1>9, <1>10, <1>11, <1>12 DEF rcp, karma
---------------------------------------------------------------------------
(* New utxos *)

(* One of the first numbers is free: each utxo that is known takes one. *)
LEMMA FreeNumber ==
    ASSUME IsFiniteSet(Known), NEW o
    PROVE  LET n == CHOOSE n \in 1..(Cardinality(Known) + 1) : Utxo(o, n) \notin Known
           IN  n \in Nat /\ Utxo(o, n) \notin Known
<1> DEFINE N == 1..(Cardinality(Known) + 1)
           f == [n \in N |-> Utxo(o, n)]
<1>1. Cardinality(Known) \in Nat
  BY FS_CardinalityType
<1>2. Cardinality(N) = Cardinality(Known) + 1 /\ IsFiniteSet(N)
  BY <1>1, FS_Interval
<1>3. \E n \in N : Utxo(o, n) \notin Known
  <2> SUFFICES ASSUME \A n \in N : Utxo(o, n) \in Known PROVE FALSE
    OBVIOUS
  <2>1. f \in [N -> Known]
    OBVIOUS
  <2>2. \A m, n \in N : f[m] = f[n] => m = n
    BY DEF Utxo
  <2>3. f \in Injection(N, Known)
    BY <2>1, <2>2 DEF Injection, IsInjective
  <2> HIDE DEF f, N
  <2>4. Cardinality(N) <= Cardinality(Known)
    BY <1>2, <2>3, FS_Injection
  <2>5. QED
    BY <1>1, <1>2, <2>4
<1>4. QED
  BY <1>1, <1>3
(* Each output becomes a utxo of its own, which was not known before. *)
LEMMA NewOnes ==
    ASSUME IsFiniteSet(Known), NEW outputs \in SUBSET Outputs, IsFiniteSet(outputs)
    PROVE  /\ IsFiniteSet(NewUtxos(outputs)) /\ NewUtxos(outputs) \subseteq Utxos
           /\ \A u \in NewUtxos(outputs) : \E o \in outputs :
                 u.owner = o.owner /\ u.token = o.token /\ u.amount = o.amount
           /\ \A o \in outputs :
                 (\A p \in outputs : p.owner = o.owner /\ p.token = o.token => p = o) =>
                    \E u \in NewUtxos(outputs) :
                       u.amount = o.amount /\ Of(NewUtxos(outputs), o.owner, o.token) = {u}
<1> DEFINE id(o) == CHOOSE n \in 1..(Cardinality(Known) + 1) : Utxo(o, n) \notin Known
           f == [o \in outputs |-> Utxo(o, id(o))]
<1>1. \A o \in outputs : id(o) \in Nat
  BY FreeNumber
<1>2. NewUtxos(outputs) = {Utxo(o, id(o)) : o \in outputs}
  BY DEF NewUtxos
<1> HIDE DEF id
<1>3. f \in Surjection(outputs, NewUtxos(outputs))
  BY <1>2 DEF Surjection
<1>4. IsFiniteSet(NewUtxos(outputs))
  BY <1>3, FS_Surjection
<1>5. \A o \in outputs : /\ Utxo(o, id(o)) \in NewUtxos(outputs) /\ Utxo(o, id(o)) \in Utxos
                         /\ Utxo(o, id(o)).owner = o.owner /\ Utxo(o, id(o)).token = o.token
                         /\ Utxo(o, id(o)).amount = o.amount
  BY <1>1, <1>2 DEF Utxo, Outputs, Utxos
<1>6. \A u \in NewUtxos(outputs) : \E o \in outputs : u = Utxo(o, id(o))
  BY <1>2
<1>7. ASSUME NEW o \in outputs,
             \A p \in outputs : p.owner = o.owner /\ p.token = o.token => p = o
      PROVE  Of(NewUtxos(outputs), o.owner, o.token) = {Utxo(o, id(o))}
  BY <1>5, <1>6, <1>7 DEF Of
<1>8. QED
  BY <1>4, <1>5, <1>6, <1>7
---------------------------------------------------------------------------
(* The coins of a run *)

(* What other steps do leaves the coins of a run as they are: none is spent, *)
(* none is added, and what the watcher has seen it does not forget.          *)
LEMMA CoinsKept ==
    ASSUME NEW r, NEW s \in 1..18, NEW s2 \in 1..18,
           s2 = s \/ (s2 = s + 1 /\ s \notin {9, 10, 12, 13, 16}),
           NEW known, NEW unspent, NEW atWatcher, NEW spentUnseen,
           NEW known2, NEW unspent2, NEW atWatcher2, NEW spentUnseen2,
           unspent2 \subseteq known2,
           CoinsOK(r, s, known, unspent, atWatcher, spentUnseen),
           \A u : u.owner \in Mine(r) =>
              /\ u \in unspent2 <=> u \in unspent
              /\ u \in known2 => u \in known
              /\ s <= 16 /\ u \in atWatcher => u \in atWatcher2
              /\ u \in spentUnseen2 => u \in spentUnseen
    PROVE  CoinsOK(r, s2, known2, unspent2, atWatcher2, spentUnseen2)
<1>1. ASSUME NEW owner \in Mine(r), NEW token, NEW n \in {9, 12},
             GivenOK(s, known, unspent, atWatcher, owner, token, n)
      PROVE  GivenOK(s2, known2, unspent2, atWatcher2, owner, token, n)
  <2>1. Of(known2, owner, token) \subseteq Of(known, owner, token)
    BY DEF Of
  <2>2. s2 <= n => Of(known2, owner, token) = {}
    BY <1>1, <2>1 DEF GivenOK
  <2>3. ASSUME s2 \in (n + 1)..16
        PROVE  \E u \in unspent2 : u.amount = Points /\ Of(known2, owner, token) = {u}
    <3>1. PICK u \in unspent : u.amount = Points /\ Of(known, owner, token) = {u}
      BY <1>1, <2>3 DEF GivenOK
    <3>2. u.owner = owner /\ u.token = token
      BY <3>1 DEF Of
    <3>3. u \in unspent2 /\ u \in Of(known2, owner, token)
      BY <3>2 DEF Of
    <3>4. QED
      BY <2>1, <3>1, <3>3
  <2>4. ASSUME s2 \in (n + 2)..16 PROVE Of(known2, owner, token) \subseteq atWatcher2
    <3>1. s \in (n + 2)..16 /\ Of(known, owner, token) \subseteq atWatcher
      BY <1>1, <2>4 DEF GivenOK
    <3>2. QED
      BY <2>1, <3>1 DEF Of
  <2>5. QED
    BY <2>2, <2>3, <2>4 DEF GivenOK
<1>2. ASSUME s2 <= 16
      PROVE  /\ Of(known2, Alice(r), "RCP") = {} /\ Of(known2, SubRedditServer(r), "KARMA") = {}
             /\ \A u \in spentUnseen2 : u.owner \notin Mine(r)
  <2>1. /\ Of(known, Alice(r), "RCP") = {} /\ Of(known, SubRedditServer(r), "KARMA") = {}
        /\ \A u \in spentUnseen : u.owner \notin Mine(r)
    BY <1>2 DEF CoinsOK
  <2>2. QED
    BY <2>1 DEF Of, Mine
<1>3. ASSUME NEW owner \in Mine(r), NEW token
      PROVE  Of(unspent2, owner, token) = Of(unspent, owner, token)
  BY DEF Of
<1>4. ASSUME s2 > 16
      PROVE  /\ Of(unspent2, Alice(r), "KARMA") = {} /\ Of(unspent2, SubRedditServer(r), "RCP") = {}
             /\ \E u \in unspent2 : u.amount = Points /\ Of(unspent2, Alice(r), "RCP") = {u}
             /\ \E u \in unspent2 :
                   u.amount = Points /\ Of(unspent2, SubRedditServer(r), "KARMA") = {u}
  <2>1. s > 16
    BY <1>4
  <2>2. /\ Of(unspent, Alice(r), "KARMA") = {} /\ Of(unspent, SubRedditServer(r), "RCP") = {}
        /\ \E u \in unspent : u.amount = Points /\ Of(unspent, Alice(r), "RCP") = {u}
        /\ \E u \in unspent : u.amount = Points /\ Of(unspent, SubRedditServer(r), "KARMA") = {u}
    BY <2>1 DEF CoinsOK
  <2>3. Alice(r) \in Mine(r) /\ SubRedditServer(r) \in Mine(r)
    BY DEF Mine
  <2>4. /\ Of(unspent2, Alice(r), "KARMA") = {} /\ Of(unspent2, SubRedditServer(r), "RCP") = {}
        /\ Of(unspent2, Alice(r), "RCP") = Of(unspent, Alice(r), "RCP")
        /\ Of(unspent2, SubRedditServer(r), "KARMA") = Of(unspent, SubRedditServer(r), "KARMA")
    BY <1>3, <2>2, <2>3
  <2>5. \A owner, token, u : Of(unspent2, owner, token) = {u} => u \in unspent2
    BY DEF Of
  <2>6. QED
    BY <2>2, <2>3, <2>4, <2>5
<1>5. QED
  BY <1>1, <1>2, <1>4 DEF CoinsOK, Mine
---------------------------------------------------------------------------
(* What a step changes *)

(* A run at an operation is in the middle of the script; *)
LEMMA AtRun ==
    ASSUME ScriptInv, NEW r \in Run, outcome[r] = "running"
    PROVE  step[r] \in 1..17
  BY DEF ScriptInv

(* proceeding, it is one further, and done after the last operation.       *)
LEMMA Proceeds ==
    ASSUME ScriptInv, NEW r \in Run, outcome[r] = "running", Proceed(r)
    PROVE  /\ step' \in [Run -> 1..18] /\ outcome' \in [Run -> Outcome]
           /\ step'[r] = step[r] + 1
           /\ outcome'[r] = "done" <=> step'[r] = 18
           /\ outcome'[r] \in {"running", "done"}
           /\ \A q \in Run \ {r} : step'[q] = step[q] /\ outcome'[q] = outcome[q]
<1>1. step[r] \in 1..17 /\ step[r] + 1 \in 1..18 /\ Len(Script) = 17
  BY AtRun, Steps
<1>2. step \in [Run -> 1..18] /\ outcome \in [Run -> Outcome] /\ "done" \in Outcome
  BY DEF ScriptInv, Outcome
<1>3. /\ step' = [step EXCEPT ![r] = step[r] + 1]
      /\ outcome' = [outcome EXCEPT ![r] = IF step[r] = 17 THEN "done" ELSE outcome[r]]
  BY <1>1 DEF Proceed
<1>4. (IF step[r] = 17 THEN "done" ELSE outcome[r]) \in Outcome
  BY <1>2
<1>5. step' \in [Run -> 1..18] /\ outcome' \in [Run -> Outcome]
  BY <1>1, <1>2, <1>3, <1>4
<1>6. step'[r] = step[r] + 1 /\ outcome'[r] = IF step[r] = 17 THEN "done" ELSE "running"
  BY <1>2, <1>3
<1>7. \A q \in Run \ {r} : step'[q] = step[q] /\ outcome'[q] = outcome[q]
  BY <1>2, <1>3
<1>8. QED
  BY <1>1, <1>5, <1>6, <1>7

(* What is known of the runs lasts if it does for the one that steps. *)
LEMMA ScriptChanges ==
    ASSUME ScriptInv, NEW r \in Run,
           step' \in [Run -> 1..18], outcome' \in [Run -> Outcome],
           outcome'[r] = "done" <=> step'[r] = 18, outcome'[r] # "TypeError",
           balance' = balance, DOMAIN body' = Run, DOMAIN feeUtxo' = Run,
           BodyOK(r, step'[r], outcome'[r], body'[r]), FeesOK(feeUtxo'[r]),
           \A q \in Run \ {r} : /\ step'[q] = step[q] /\ outcome'[q] = outcome[q]
                                /\ body'[q] = body[q] /\ feeUtxo'[q] = feeUtxo[q]
    PROVE  ScriptInv'
<1>1. ASSUME NEW q \in Run
      PROVE  /\ outcome'[q] = "done" <=> step'[q] = 18
             /\ outcome'[q] # "TypeError"
             /\ BodyOK(q, step'[q], outcome'[q], body'[q]) /\ FeesOK(feeUtxo'[q])
  <2>1. CASE q = r
    BY <2>1
  <2>2. CASE q # r
    <3>1. /\ step'[q] = step[q] /\ outcome'[q] = outcome[q]
          /\ body'[q] = body[q] /\ feeUtxo'[q] = feeUtxo[q]
      BY <2>2
    <3>2. QED
      BY <3>1 DEF ScriptInv, ClaimFindsItsUtxos
  <2>3. QED
    BY <2>1, <2>2
<1>2. QED
  BY <1>1 DEF ScriptInv, ClaimFindsItsUtxos

(* An error ends a run and changes nothing else. *)
LEMMA Throws ==
    ASSUME ScriptInv, NEW r \in Run, outcome[r] = "running",
           NEW error \in Outcome \ {"running", "done", "TypeError"}, Throw(r, error)
    PROVE  ScriptInv'
<1>1. step[r] \in 1..17
  BY AtRun
<1>2. /\ outcome' \in [Run -> Outcome] /\ outcome'[r] = error
      /\ \A q \in Run \ {r} : outcome'[q] = outcome[q]
      /\ UNCHANGED <<step, balance, feeUtxo, body>>
  BY DEF ScriptInv, Throw
<1>3. BodyOK(r, step'[r], outcome'[r], body'[r]) /\ FeesOK(feeUtxo'[r])
  BY <1>2 DEF ScriptInv, BodyOK
<1>4. step' \in [Run -> 1..18] /\ DOMAIN body' = Run /\ DOMAIN feeUtxo' = Run
  BY <1>2 DEF ScriptInv
<1>5. QED
  BY <1>1, <1>2, <1>3, <1>4, ScriptChanges

(* Every utxo that is somewhere is known, *)
LEMMA KnownParts ==
    /\ chain \subseteq Known /\ seen \subseteq Known
    /\ \A i \in DOMAIN news : news[i].outputs \subseteq Known
    /\ \A r \in Run : feeUtxo[r] \subseteq Known /\ Inputs(body[r]) \subseteq Known
  BY DEF Known

(* and no other one is. *)
LEMMA KnownNext ==
    ASSUME NEW K, chain' \subseteq K, seen' \subseteq K,
           \A i \in DOMAIN news' : news'[i].outputs \subseteq K,
           \A r \in Run : feeUtxo'[r] \subseteq K /\ Inputs(body'[r]) \subseteq K
    PROVE  Known' \subseteq K
  BY DEF Known, Inputs

(* A step that leaves the chain and the watcher alone. *)
LEMMA Quiet ==
    ASSUME ScriptsInv, step' \in [Run -> 1..18], UNCHANGED chainVars,
           \A r \in Run : feeUtxo'[r] \subseteq Known /\ Inputs(body'[r]) \subseteq Known
    PROVE  /\ ChainInv' /\ Known' \subseteq Known
           /\ \A r \in Run :
                 step'[r] = step[r] \/ (step'[r] = step[r] + 1 /\ step[r] \notin {9, 10, 12, 13, 16})
                    => CoinsOK(r, step'[r], Known', chain', seen', SpentUnseen')
<1>1. chain' = chain /\ seen' = seen /\ news' = news
  BY DEF chainVars
<1>2. Known' \subseteq Known
  BY <1>1, KnownParts, KnownNext
<1>3. IsFiniteSet(Known')
  BY <1>2, FS_Subset DEF ScriptsInv, ChainInv
<1>4. ChainInv'
  BY <1>1, <1>2, <1>3 DEF ScriptsInv, ChainInv
<1>5. SpentUnseen' = SpentUnseen
  BY <1>1 DEF SpentUnseen
<1>6. chain' \subseteq Known'
  BY DEF Known
<1>7. ASSUME NEW r \in Run,
             step'[r] = step[r] \/ (step'[r] = step[r] + 1 /\ step[r] \notin {9, 10, 12, 13, 16})
      PROVE  CoinsOK(r, step'[r], Known', chain', seen', SpentUnseen')
  <2>1. CoinsOK(r, step[r], Known, chain, seen, SpentUnseen)
    BY DEF ScriptsInv, CoinsInv
  <2>2. step[r] \in 1..18 /\ step'[r] \in 1..18
    BY DEF ScriptsInv, ScriptInv
  <2>3. \A u : u.owner \in Mine(r) =>
           /\ u \in chain' <=> u \in chain
           /\ u \in Known' => u \in Known
           /\ step[r] <= 16 /\ u \in seen => u \in seen'
           /\ u \in SpentUnseen' => u \in SpentUnseen
    BY <1>1, <1>2, <1>5
  <2>4. QED
    BY <1>6, <1>7, <2>1, <2>2, <2>3, CoinsKept
<1>8. QED
  BY <1>2, <1>4, <1>7

(* A transaction that the child chain takes. *)
LEMMA Accepts ==
    ASSUME ChainInv, NEW ins \in SUBSET Utxos, NEW outs \in SUBSET Outputs, IsFiniteSet(outs),
           Accept(ins, outs),
           \A r \in Run : feeUtxo'[r] \subseteq Known /\ Inputs(body'[r]) \subseteq Known
    PROVE  /\ ChainInv' /\ Known' \subseteq Known \cup NewUtxos(outs)
           /\ chain' = (chain \ ins) \cup NewUtxos(outs) /\ chain' \subseteq Known'
           /\ seen' = seen /\ SpentUnseen' \subseteq SpentUnseen \cup ins
<1> DEFINE New == NewUtxos(outs)
           item == [inputs |-> ins, outputs |-> New]
           Item == [inputs : SUBSET Utxos, outputs : SUBSET Utxos]
<1>1. New \subseteq Utxos /\ IsFiniteSet(New)
  BY NewOnes DEF ChainInv
<1>2. chain' = (chain \ ins) \cup New /\ news' = Append(news, item) /\ seen' = seen
  BY DEF Accept
<1>3. item \in Item /\ item.inputs = ins /\ item.outputs = New
  BY <1>1
<1>4. news \in Seq(Item)
  BY DEF ChainInv
<1> HIDE DEF item, New
<1>5. /\ news' \in Seq(Item)
      /\ DOMAIN news' = DOMAIN news \cup {Len(news) + 1}
      /\ \A i \in DOMAIN news : news'[i] = news[i]
      /\ news'[Len(news) + 1] = item
  <2> HIDE DEF Item
  <2>1. QED
    BY <1>2, <1>3, <1>4
<1>6. \A i \in DOMAIN news' : news'[i].outputs \subseteq Known \cup New
  BY <1>3, <1>5, KnownParts
<1>7. \A i \in DOMAIN news' : news'[i].inputs \subseteq SpentUnseen \cup ins
  BY <1>3, <1>5 DEF SpentUnseen
<1>8. SpentUnseen' \subseteq SpentUnseen \cup ins
  BY <1>7 DEF SpentUnseen
<1>9. Known' \subseteq Known \cup New
  <2>1. chain' \subseteq Known \cup New /\ seen' \subseteq Known \cup New
    BY <1>2, KnownParts
  <2>2. \A r \in Run : feeUtxo'[r] \subseteq Known \cup New /\ Inputs(body'[r]) \subseteq Known \cup New
    OBVIOUS
  <2>3. QED
    BY <1>6, <2>1, <2>2, KnownNext
<1>10. IsFiniteSet(Known') /\ Known' \subseteq Utxos
  <2>1. IsFiniteSet(Known \cup New)
    BY <1>1, FS_Union DEF ChainInv
  <2>2. IsFiniteSet(Known')
    BY <1>9, <2>1, FS_Subset
  <2>3. QED
    BY <1>1, <1>9, <2>2 DEF ChainInv
<1>11. ChainInv'
  BY <1>5, <1>10 DEF ChainInv
<1>12. chain' \subseteq Known'
  BY DEF Known
<1>13. QED
  BY <1>2, <1>8, <1>9, <1>11, <1>12 DEF New
---------------------------------------------------------------------------
(* The steps of a run *)

(* A run that has nothing to submit goes on. *)
LEMMA GoesOn ==
    ASSUME ScriptInv, NEW r \in Run, outcome[r] = "running", Proceed(r),
           step[r] \notin {8, 9, 11, 12, 15, 16}, UNCHANGED <<balance, feeUtxo, body>>
    PROVE  ScriptInv'
<1>1. step[r] \in 1..17
  BY AtRun
<1>2. BodyOK(r, step[r], outcome[r], body[r]) /\ FeesOK(feeUtxo[r])
  BY DEF ScriptInv
<1>3. body[r] = NoBody
  BY <1>1, <1>2 DEF BodyOK
<1>4. step'[r] = step[r] + 1
  BY Proceeds
<1>5. step'[r] \notin {9, 12, 16}
  BY <1>1, <1>4
<1>6. BodyOK(r, step'[r], outcome'[r], body'[r]) /\ FeesOK(feeUtxo'[r])
  BY <1>2, <1>3, <1>5 DEF BodyOK
<1>7. DOMAIN body' = Run /\ DOMAIN feeUtxo' = Run
  BY DEF ScriptInv
<1>8. outcome'[r] # "TypeError"
  BY Proceeds
<1>9. QED
  BY <1>6, <1>7, <1>8, Proceeds, ScriptChanges

(* Mints, approvals and deposits; the deposit may revert, as the wallet or *)
(* the allowance may be another run's work.                                *)
LEMMA RootStep ==
    ASSUME ScriptsInv, NEW r \in Run,
           CallMint(r) \/ ApproveErc20(r) \/ DepositEth(r) \/ DepositErc20(r)
    PROVE  ScriptsInv'
<1> DEFINE s == step[r]
           t == Script[step[r]].token
<1>1. /\ outcome[r] = "running" /\ step[r] \in 1..17 /\ ScriptInv /\ RootInv
      /\ Script[step[r]].op \in {"mint", "approve", "deposit"}
  BY AtRun DEF CallMint, ApproveErc20, DepositEth, DepositErc20, At, ScriptsInv
<1>2. step[r] \in 1..7 /\ t \in Token /\ (Script[step[r]].op \in {"mint", "approve"} => t \in Erc20)
  BY <1>1, AtSteps DEF Token
<1>3. UNCHANGED chainVars /\ UNCHANGED <<balance, feeUtxo, body>>
  BY DEF CallMint, ApproveErc20, DepositEth, DepositErc20, Throw
<1>4. ScriptInv'
  <2>1. CASE Proceed(r)
    BY <1>1, <1>2, <1>3, <2>1, GoesOn
  <2>2. CASE Throw(r, "reverted")
    <3>1. "reverted" \in Outcome \ {"running", "done", "TypeError"}
      BY DEF Outcome
    <3>2. QED
      BY <1>1, <2>2, <3>1, Throws
  <2>3. QED
    BY <2>1, <2>2 DEF CallMint, ApproveErc20, DepositEth, DepositErc20
<1>5. RootInv'
  <2>1. /\ wallet \in [Erc20 -> Nat] /\ allowance \in [Erc20 -> 0..Points]
        /\ deposits \in [Token -> Nat] /\ Points \in Nat \ {0} /\ "ETH" \in Token
    BY <1>1, ClaimAssumption DEF RootInv, Token
  <2>2. CASE CallMint(r)
    <3>1. t \in Erc20
      BY <1>2, <2>2 DEF CallMint, At
    <3>2. wallet[t] + Points \in Nat
      BY <2>1, <3>1
    <3>3. wallet' = [wallet EXCEPT ![t] = wallet[t] + Points] /\ UNCHANGED <<allowance, deposits>>
      BY <2>2 DEF CallMint
    <3>4. QED
      BY <2>1, <3>1, <3>2, <3>3 DEF RootInv
  <2>3. CASE ApproveErc20(r)
    <3>1. Points \in 0..Points
      BY <2>1
    <3>2. QED
      BY <2>1, <2>3, <3>1 DEF ApproveErc20, RootInv
  <2>4. CASE DepositEth(r)
    <3>1. deposits["ETH"] + 1 \in Nat
      BY <2>1
    <3>2. QED
      BY <2>1, <2>4, <3>1 DEF DepositEth, RootInv
  <2>5. CASE DepositErc20(r)
    <3>1. CASE UNCHANGED rootVars
      BY <2>1, <3>1 DEF rootVars, RootInv
    <3>2. CASE /\ wallet[t] >= Points /\ allowance[t] >= Points
               /\ wallet' = [wallet EXCEPT ![t] = wallet[t] - Points]
               /\ allowance' = [allowance EXCEPT ![t] = allowance[t] - Points]
               /\ deposits' = [deposits EXCEPT ![t] = deposits[t] + 1]
      <4>1. t \in Erc20
        BY <2>5 DEF DepositErc20
      <4>2. /\ wallet[t] - Points \in Nat /\ allowance[t] - Points \in 0..Points
            /\ deposits[t] + 1 \in Nat
        BY <1>2, <2>1, <3>2, <4>1
      <4>3. /\ wallet' \in [Erc20 -> Nat] /\ allowance' \in [Erc20 -> 0..Points]
            /\ deposits' \in [Token -> Nat]
        BY <2>1, <3>2, <4>1, <4>2
      <4>4. QED
        BY <4>3 DEF RootInv
    <3>3. QED
      BY <2>5, <3>1, <3>2 DEF DepositErc20
  <2>6. QED
    BY <2>2, <2>3, <2>4, <2>5
<1>6. \A q \in Run : step'[q] = step[q] \/ (step'[q] = step[q] + 1 /\ step[q] \notin {9, 10, 12, 13, 16})
  <2>1. CASE Proceed(r)
    BY <1>1, <1>2, <2>1, Proceeds
  <2>2. CASE UNCHANGED step
    BY <2>2
  <2>3. QED
    BY <2>1, <2>2 DEF CallMint, ApproveErc20, DepositEth, DepositErc20, Throw
<1>7. step' \in [Run -> 1..18]
  BY <1>4 DEF ScriptInv
<1>8. \A q \in Run : feeUtxo'[q] \subseteq Known /\ Inputs(body'[q]) \subseteq Known
  BY <1>3, KnownParts
<1>9. ChainInv' /\ CoinsInv'
  BY <1>3, <1>6, <1>7, <1>8, Quiet DEF CoinsInv
<1>10. QED
  BY <1>4, <1>5, <1>9 DEF ScriptsInv

(* What only script steps other than waits change. *)
LEMMA ScriptStep ==
    ASSUME ScriptsInv, ScriptInv', NEW r \in Run,
           step'[r] = step[r] \/ (step'[r] = step[r] + 1 /\ step[r] \notin {9, 10, 12, 13, 16}),
           \A q \in Run \ {r} : /\ step'[q] = step[q]
                                /\ body'[q] = body[q] /\ feeUtxo'[q] = feeUtxo[q],
           feeUtxo'[r] \subseteq Known, Inputs(body'[r]) \subseteq Known,
           UNCHANGED <<rootVars, chainVars>>
    PROVE  ScriptsInv'
<1>1. \A q \in Run : step'[q] = step[q] \/ (step'[q] = step[q] + 1 /\ step[q] \notin {9, 10, 12, 13, 16})
  OBVIOUS
<1>2. \A q \in Run : feeUtxo'[q] \subseteq Known /\ Inputs(body'[q]) \subseteq Known
  BY KnownParts
<1>3. step' \in [Run -> 1..18]
  BY DEF ScriptInv
<1>4. ChainInv' /\ CoinsInv'
  BY <1>1, <1>2, <1>3, Quiet DEF CoinsInv
<1>5. RootInv'
  BY DEF ScriptsInv, RootInv, rootVars
<1>6. QED
  BY <1>4, <1>5 DEF ScriptsInv

(* A run that throws leaves the network alone. *)
LEMMA ThrowStep ==
    ASSUME ScriptsInv, NEW r \in Run, outcome[r] = "running",
           NEW error \in Outcome \ {"running", "done", "TypeError"}, Throw(r, error),
           UNCHANGED <<rootVars, chainVars>>
    PROVE  ScriptsInv'
<1>1. ScriptInv'
  BY Throws DEF ScriptsInv
<1>2. UNCHANGED <<step, body, feeUtxo>>
  BY DEF Throw
<1>3. feeUtxo'[r] \subseteq Known /\ Inputs(body'[r]) \subseteq Known
  BY <1>2, KnownParts
<1>4. QED
  BY <1>1, <1>2, <1>3, ScriptStep

(* The recipient of a transfer has nothing of the token yet, *)
LEMMA NothingYet ==
    ASSUME ScriptsInv, NEW r \in Run
    PROVE  /\ step[r] = 8 => GetBalance(Alice(r), "KARMA") = 0
           /\ step[r] = 11 => GetBalance(SubRedditServer(r), "RCP") = 0
           /\ step[r] = 14 => GetBalance(Alice(r), "RCP") = 0
<1>1. CoinsOK(r, step[r], Known, chain, seen, SpentUnseen)
  BY DEF ScriptsInv, CoinsInv
<1>2. \A owner, token : Of(Known, owner, token) = {} => GetBalance(owner, token) = 0
  <2> SUFFICES ASSUME NEW owner, NEW token, Of(Known, owner, token) = {}
               PROVE  GetBalance(owner, token) = 0
    OBVIOUS
  <2>1. Of(seen, owner, token) = {}
    BY KnownParts DEF Of
  <2>2. QED
    BY <2>1, TotalEmpty DEF GetBalance
<1>3. /\ step[r] = 8 => Of(Known, Alice(r), "KARMA") = {}
      /\ step[r] = 11 => Of(Known, SubRedditServer(r), "RCP") = {}
      /\ step[r] = 14 => Of(Known, Alice(r), "RCP") = {}
  BY <1>1 DEF CoinsOK, GivenOK
<1>4. QED
  BY <1>2, <1>3

(* A step that reads a balance of nothing leaves the balances as they are. *)
LEMMA BalanceKept ==
    ASSUME ScriptInv, NEW r \in Run, balance' = [balance EXCEPT ![r] = 0]
    PROVE  balance' = balance
  BY DEF ScriptInv

(* A transfer is built out of what the watcher offers of the Distributor's. *)
LEMMA CreateStep ==
    ASSUME ScriptsInv, NEW r \in Run, Create(r)
    PROVE  ScriptsInv'
<1> DEFINE t == Script[step[r]].token
           owner == Recipient(r)
<1>1. outcome[r] = "running" /\ step[r] \in 1..17 /\ ScriptInv /\ Script[step[r]].op = "create"
  BY AtRun DEF Create, At, ScriptsInv
<1>2. \/ step[r] = 8 /\ t = "KARMA" /\ owner = Alice(r)
      \/ step[r] = 11 /\ t = "RCP" /\ owner = SubRedditServer(r)
  BY <1>1, AtSteps
<1>3. UNCHANGED <<rootVars, chainVars>>
  BY DEF Create
<1>4. CASE Throw(r, "insufficientFunds")
  <2>1. "insufficientFunds" \in Outcome \ {"running", "done", "TypeError"}
    BY DEF Outcome
  <2>2. QED
    BY <1>1, <1>3, <1>4, <2>1, ThrowStep
<1>5. CASE /\ CreateTransaction(r, Distributor, owner, t)
           /\ balance' = [balance EXCEPT ![r] = GetBalance(owner, t)]
           /\ Proceed(r) /\ UNCHANGED feeUtxo
  <2>1. PICK points \in SUBSET Of(seen, Distributor, t), eth \in SUBSET Of(seen, Distributor, "ETH") :
           /\ Covers(points, Points) /\ Covers(eth, Fee)
           /\ body' = [body EXCEPT ![r] = TransferOf(owner, t, points, eth)]
    BY <1>5 DEF CreateTransaction, TransferOf, Selected
  <2> DEFINE tx == TransferOf(owner, t, points, eth)
  <2>2. points \subseteq Known /\ eth \subseteq Known /\ Known \subseteq Utxos /\ IsFiniteSet(Known)
    BY KnownParts DEF Of, ScriptsInv, ChainInv
  <2>3. IsFiniteSet(points) /\ IsFiniteSet(eth)
    BY <2>2, FS_Subset
  <2>4. /\ points \subseteq Of(Utxos, Distributor, t) /\ eth \subseteq Of(Utxos, Distributor, "ETH")
        /\ Total(points) >= Points /\ Total(eth) >= Fee
    BY <2>1, <2>2 DEF Of, Covers
  <2>5. owner \in Owner /\ owner # Distributor /\ t \in Erc20
    BY <1>2, Parties DEF Owner, Erc20
  <2>6. TransferOK(tx, owner, t) /\ Inputs(tx) = points \cup eth
    BY <2>3, <2>4, <2>5, TransferBuilt
  <2>7. tx # NoBody
    BY <2>6 DEF TransferOK, NoBody
  <2>8. /\ body'[r] = tx /\ DOMAIN body' = Run
        /\ \A q \in Run \ {r} : body'[q] = body[q]
    <3>1. DOMAIN body = Run
      BY <1>1 DEF ScriptInv
    <3> HIDE DEF tx
    <3>2. QED
      BY <2>1, <3>1 DEF tx
  <2>9. balance' = balance
    BY <1>1, <1>2, <1>5, NothingYet, BalanceKept
  <2>10. step'[r] = step[r] + 1 /\ outcome'[r] # "TypeError"
    BY <1>1, <1>5, Proceeds
  <2> HIDE DEF tx
  <2>11. BodyOK(r, step'[r], outcome'[r], body'[r])
    BY <1>2, <2>6, <2>7, <2>8, <2>10 DEF BodyOK
  <2>12. FeesOK(feeUtxo'[r]) /\ DOMAIN feeUtxo' = Run
    BY <1>1, <1>5 DEF ScriptInv
  <2>13. ScriptInv'
    BY <1>1, <1>5, <2>8, <2>9, <2>10, <2>11, <2>12, Proceeds, ScriptChanges
  <2>14. feeUtxo'[r] \subseteq Known /\ Inputs(body'[r]) \subseteq Known
    BY <1>5, <2>2, <2>6, <2>8, KnownParts
  <2>15. step[r] \notin {9, 10, 12, 13, 16}
    BY <1>2
  <2>16. \A q \in Run \ {r} : /\ step'[q] = step[q]
                              /\ body'[q] = body[q] /\ feeUtxo'[q] = feeUtxo[q]
    BY <1>1, <1>5, <2>8, Proceeds
  <2>17. QED
    BY <1>3, <2>10, <2>13, <2>14, <2>15, <2>16, ScriptStep
<1>6. QED
  BY <1>4, <1>5 DEF Create

(* The fee utxos that a run keeps are the Distributor's, large enough. *)
LEMMA FeeUtxosStep ==
    ASSUME ScriptsInv, NEW r \in Run, FeeUtxos(r)
    PROVE  ScriptsInv'
<1>1. outcome[r] = "running" /\ step[r] \in 1..17 /\ ScriptInv /\ Script[step[r]].op = "fee"
  BY AtRun DEF FeeUtxos, At, ScriptsInv
<1>2. step[r] = 14
  BY <1>1, AtSteps
<1> DEFINE found == GetUsableUtxos(Distributor, "ETH", GetFeeAmount, FALSE)
<1>3. /\ feeUtxo' = [feeUtxo EXCEPT ![r] = found] /\ Proceed(r) /\ UNCHANGED <<body, rootVars, chainVars>>
      /\ balance' = [balance EXCEPT ![r] = GetBalance(Alice(r), "RCP")]
  BY DEF FeeUtxos
<1>4. FeesOK(found) /\ found \subseteq Known
  BY KnownParts DEF FeesOK, GetUsableUtxos, GetFeeAmount, Of
<1> HIDE DEF found
<1>5. /\ feeUtxo'[r] = found /\ DOMAIN feeUtxo' = Run
      /\ \A q \in Run \ {r} : feeUtxo'[q] = feeUtxo[q]
  BY <1>1, <1>3 DEF ScriptInv
<1>6. balance' = balance
  BY <1>1, <1>2, <1>3, NothingYet, BalanceKept
<1>7. /\ step'[r] = step[r] + 1 /\ outcome'[r] # "TypeError"
      /\ \A q \in Run \ {r} : step'[q] = step[q] /\ outcome'[q] = outcome[q]
  BY <1>1, <1>3, Proceeds
<1>8. body'[r] = NoBody /\ DOMAIN body' = Run
  BY <1>1, <1>2, <1>3 DEF ScriptInv, BodyOK
<1>9. BodyOK(r, step'[r], outcome'[r], body'[r])
  BY <1>2, <1>7, <1>8 DEF BodyOK
<1>10. ScriptInv'
  BY <1>1, <1>3, <1>4, <1>5, <1>6, <1>7, <1>8, <1>9, Proceeds, ScriptChanges
<1>11. feeUtxo'[r] \subseteq Known /\ Inputs(body'[r]) \subseteq Known
  BY <1>3, <1>4, <1>5, KnownParts
<1>12. QED
  BY <1>2, <1>3, <1>5, <1>7, <1>10, <1>11, ScriptStep

(* The utxo that a run gave away and waited for, as it finds it for the swap. *)
LEMMA FindsGiven ==
    ASSUME ScriptsInv, NEW r \in Run, step[r] = 15
    PROVE  /\ GetUsableUtxos(Alice(r), "KARMA", Points, TRUE) # {}
           /\ GetUsableUtxos(SubRedditServer(r), "RCP", Points, TRUE) # {}
<1>1. CoinsOK(r, step[r], Known, chain, seen, SpentUnseen)
  BY DEF ScriptsInv, CoinsInv
<1>2. ASSUME NEW owner, NEW token, NEW n \in {9, 12},
             GivenOK(15, Known, chain, seen, owner, token, n)
      PROVE  GetUsableUtxos(owner, token, Points, TRUE) # {}
  <2>1. 15 \in (n + 1)..16 /\ 15 \in (n + 2)..16
    OBVIOUS
  <2>2. PICK u \in chain : u.amount = Points /\ Of(Known, owner, token) = {u}
    BY <1>2, <2>1 DEF GivenOK
  <2>3. Of(Known, owner, token) \subseteq seen
    BY <1>2, <2>1 DEF GivenOK
  <2>4. u \in seen /\ u.owner = owner /\ u.token = token
    BY <2>2, <2>3 DEF Of
  <2>5. u \in GetUsableUtxos(owner, token, Points, TRUE)
    BY <2>2, <2>4 DEF GetUsableUtxos, Of
  <2>6. QED
    BY <2>5
<1>3. QED
  BY <1>1, <1>2 DEF CoinsOK

(* The swap finds its utxos: no undefined one is read. *)
LEMMA SwapStep ==
    ASSUME ScriptsInv, NEW r \in Run, Swap(r)
    PROVE  ScriptsInv'
<1> DEFINE redeemable == GetUsableUtxos(Alice(r), "KARMA", Points, TRUE)
           claimable == GetUsableUtxos(SubRedditServer(r), "RCP", Points, TRUE)
<1>1. outcome[r] = "running" /\ step[r] \in 1..17 /\ ScriptInv /\ Script[step[r]].op = "swap"
  BY AtRun DEF Swap, At, ScriptsInv
<1>2. step[r] = 15
  BY <1>1, AtSteps
<1>3. UNCHANGED <<rootVars, chainVars>>
  BY DEF Swap
<1>4. Points \div GetExchangeRate = Points
  BY ClaimAssumption DEF GetExchangeRate
<1>5. redeemable # {} /\ claimable # {}
  BY <1>2, FindsGiven
<1>6. CASE Throw(r, "No fee UTXO provided")
  <2>1. "No fee UTXO provided" \in Outcome \ {"running", "done", "TypeError"}
    BY DEF Outcome
  <2>2. QED
    BY <1>1, <1>3, <1>6, <2>1, ThrowStep
<1>7. ASSUME NEW a \in redeemable, NEW b \in claimable, NEW f \in feeUtxo[r],
             body' = [body EXCEPT ![r] = CreateTransactionBody(r, a, b, f)],
             Proceed(r), feeUtxo' = [feeUtxo EXCEPT ![r] = {}], UNCHANGED balance
      PROVE  ScriptsInv'
  <2> DEFINE tx == CreateTransactionBody(r, a, b, f)
  <2>1. /\ a.owner = Alice(r) /\ a.token = "KARMA" /\ a.amount = Points /\ a \in seen
        /\ b.owner = SubRedditServer(r) /\ b.token = "RCP" /\ b.amount = Points /\ b \in seen
    BY DEF GetUsableUtxos, Of
  <2>2. f.owner = Distributor /\ f.token = "ETH" /\ f.amount >= Fee
    BY <1>1 DEF ScriptInv, FeesOK
  <2>3. tx.inputs = <<a, b, f>>
    BY DEF CreateTransactionBody
  <2>4. Inputs(tx) = {a, b, f}
    BY <2>3 DEF Inputs
  <2>5. SwapOK(r, tx)
    BY <2>1, <2>2, <2>4 DEF SwapOK
  <2>6. tx # NoBody
    BY <2>3 DEF NoBody
  <2>7. DOMAIN body = Run /\ DOMAIN feeUtxo = Run
    BY <1>1 DEF ScriptInv
  <2>8. Inputs(tx) \subseteq Known
    BY <2>1, <2>4, KnownParts
  <2>9. /\ body'[r] = tx /\ DOMAIN body' = Run
        /\ \A q \in Run \ {r} : body'[q] = body[q]
    <3> HIDE DEF tx
    <3>1. body' = [body EXCEPT ![r] = tx]
      BY <1>7 DEF tx
    <3>2. QED
      BY <2>7, <3>1
  <2> HIDE DEF tx
  <2>10. /\ feeUtxo'[r] = {} /\ DOMAIN feeUtxo' = Run
         /\ \A q \in Run \ {r} : feeUtxo'[q] = feeUtxo[q]
    BY <1>7, <2>7
  <2>11. /\ step'[r] = step[r] + 1 /\ outcome'[r] # "TypeError"
         /\ \A q \in Run \ {r} : step'[q] = step[q]
    BY <1>1, <1>7, Proceeds
  <2>12. BodyOK(r, step'[r], outcome'[r], body'[r]) /\ FeesOK(feeUtxo'[r])
    BY <1>2, <2>5, <2>6, <2>9, <2>10, <2>11 DEF BodyOK, FeesOK
  <2>13. ScriptInv'
    BY <1>1, <1>7, <2>9, <2>10, <2>11, <2>12, Proceeds, ScriptChanges
  <2>14. feeUtxo'[r] \subseteq Known /\ Inputs(body'[r]) \subseteq Known
    BY <2>8, <2>9, <2>10
  <2>15. QED
    BY <1>2, <1>3, <2>9, <2>10, <2>11, <2>13, <2>14, ScriptStep
<1>8. QED
  BY <1>4, <1>5, <1>6, <1>7 DEF Swap

(* A failure forgets what the run had in memory, and nothing on the chain. *)
LEMMA FailsStep ==
    ASSUME ScriptsInv, NEW r \in Run, Fails(r)
    PROVE  ScriptsInv'
<1>1. outcome[r] = "running" /\ step[r] \in 1..17 /\ ScriptInv
  BY AtRun DEF Fails, ScriptsInv
<1>2. /\ outcome' = [outcome EXCEPT ![r] = "failed"] /\ feeUtxo' = [feeUtxo EXCEPT ![r] = {}]
      /\ body' = [body EXCEPT ![r] = NoBody] /\ balance' = [balance EXCEPT ![r] = 0]
      /\ UNCHANGED step /\ UNCHANGED <<rootVars, chainVars>>
  BY DEF Fails
<1>3. /\ step \in [Run -> 1..18] /\ outcome \in [Run -> Outcome] /\ "failed" \in Outcome
      /\ DOMAIN body = Run /\ DOMAIN feeUtxo = Run
  BY <1>1 DEF ScriptInv, Outcome
<1>4. /\ outcome' \in [Run -> Outcome] /\ outcome'[r] = "failed"
      /\ \A q \in Run \ {r} : outcome'[q] = outcome[q]
  BY <1>2, <1>3
<1>5. /\ body'[r] = NoBody /\ DOMAIN body' = Run /\ feeUtxo'[r] = {} /\ DOMAIN feeUtxo' = Run
      /\ \A q \in Run \ {r} : body'[q] = body[q] /\ feeUtxo'[q] = feeUtxo[q]
  BY <1>2, <1>3
<1>6. BodyOK(r, step'[r], outcome'[r], body'[r]) /\ FeesOK(feeUtxo'[r])
  BY <1>4, <1>5 DEF BodyOK, FeesOK
<1>7. balance' = balance
  BY <1>1, <1>2, BalanceKept
<1>8. ScriptInv'
  BY <1>1, <1>2, <1>3, <1>4, <1>5, <1>6, <1>7, ScriptChanges
<1>9. feeUtxo'[r] \subseteq Known /\ Inputs(body'[r]) \subseteq Known
  BY <1>5 DEF Inputs, NoBody
<1>10. QED
  BY <1>2, <1>5, <1>8, <1>9, ScriptStep

(* A wait that is over has seen the utxo that the transfer gave. *)
LEMMA WaitStep ==
    ASSUME ScriptsInv, NEW r \in Run, WaitForTransfer(r)
    PROVE  ScriptsInv'
<1> DEFINE t == Script[step[r]].token
           owner == Recipient(r)
<1>1. outcome[r] = "running" /\ step[r] \in 1..17 /\ ScriptInv /\ Script[step[r]].op = "wait"
  BY AtRun DEF WaitForTransfer, At, ScriptsInv
<1>2. \/ step[r] = 10 /\ t = "KARMA" /\ owner = Alice(r)
      \/ step[r] = 13 /\ t = "RCP" /\ owner = SubRedditServer(r)
      \/ step[r] = 17
  BY <1>1, AtSteps
<1>3. /\ Proceed(r) /\ balance' = [balance EXCEPT ![r] = 0]
      /\ UNCHANGED <<feeUtxo, body, rootVars, chainVars>>
      /\ GetBalance(owner, t) = balance[r] + Points
  BY DEF WaitForTransfer
<1>4. balance' = balance /\ balance[r] = 0
  BY <1>1, <1>3, BalanceKept DEF ScriptInv
<1>5. ScriptInv'
  BY <1>1, <1>2, <1>3, <1>4, GoesOn
<1>6. /\ step'[r] = step[r] + 1 /\ step' \in [Run -> 1..18]
      /\ \A q \in Run \ {r} : step'[q] = step[q]
  BY <1>1, <1>3, Proceeds
<1>7. Known' = Known /\ chain' = chain /\ seen' = seen /\ SpentUnseen' = SpentUnseen
  BY <1>3 DEF Known, SpentUnseen, chainVars
<1>8. \A q \in Run : feeUtxo'[q] \subseteq Known /\ Inputs(body'[q]) \subseteq Known
  BY <1>3, KnownParts
<1>9. /\ ChainInv'
      /\ \A q \in Run \ {r} : CoinsOK(q, step'[q], Known', chain', seen', SpentUnseen')
  BY <1>3, <1>6, <1>8, Quiet
<1>10. CoinsOK(r, step[r], Known, chain, seen, SpentUnseen)
  BY DEF ScriptsInv, CoinsInv
<1>11. ASSUME NEW n \in {9, 12}, step[r] = n + 1, GetBalance(owner, t) # 0,
              GivenOK(step[r], Known, chain, seen, owner, t, n)
       PROVE  GivenOK(step[r] + 1, Known, chain, seen, owner, t, n)
  <2>1. step[r] \in (n + 1)..16
    BY <1>11
  <2>2. PICK u \in chain : u.amount = Points /\ Of(Known, owner, t) = {u}
    BY <1>11, <2>1 DEF GivenOK
  <2>3. Of(seen, owner, t) # {}
    BY <1>11, TotalEmpty DEF GetBalance
  <2>4. Of(seen, owner, t) \subseteq Of(Known, owner, t) /\ Of(seen, owner, t) \subseteq seen
    BY KnownParts DEF Of
  <2>5. Of(Known, owner, t) \subseteq seen
    BY <2>2, <2>3, <2>4
  <2>6. QED
    BY <1>11, <2>2, <2>5 DEF GivenOK
<1>12. GetBalance(owner, t) # 0
  BY <1>3, <1>4, ClaimAssumption
<1>13. CoinsOK(r, step[r] + 1, Known, chain, seen, SpentUnseen)
  <2>1. CASE step[r] = 10
    <3>1. GivenOK(11, Known, chain, seen, Alice(r), "KARMA", 9)
      BY <1>2, <1>10, <1>11, <1>12, <2>1 DEF CoinsOK
    <3>2. GivenOK(11, Known, chain, seen, SubRedditServer(r), "RCP", 12)
      BY <1>10, <2>1 DEF CoinsOK, GivenOK
    <3>3. QED
      BY <1>10, <2>1, <3>1, <3>2 DEF CoinsOK
  <2>2. CASE step[r] = 13
    <3>1. GivenOK(14, Known, chain, seen, SubRedditServer(r), "RCP", 12)
      BY <1>2, <1>10, <1>11, <1>12, <2>2 DEF CoinsOK
    <3>2. GivenOK(14, Known, chain, seen, Alice(r), "KARMA", 9)
      BY <1>10, <2>2 DEF CoinsOK, GivenOK
    <3>3. QED
      BY <1>10, <2>2, <3>1, <3>2 DEF CoinsOK
  <2>3. CASE step[r] = 17
    BY <1>10, <2>3 DEF CoinsOK, GivenOK
  <2>4. QED
    BY <1>2, <2>1, <2>2, <2>3
<1>14. CoinsOK(r, step'[r], Known', chain', seen', SpentUnseen')
  BY <1>6, <1>7, <1>13
<1>15. CoinsInv'
  BY <1>9, <1>14 DEF CoinsInv
<1>16. RootInv'
  BY <1>3 DEF ScriptsInv, RootInv, rootVars
<1>17. QED
  BY <1>5, <1>9, <1>15, <1>16 DEF ScriptsInv
---------------------------------------------------------------------------
(* Transactions and the network *)

(* A transaction on the chain leaves the coins of the runs that have no part *)
(* in it as they are.                                                        *)
LEMMA OthersKept ==
    ASSUME ScriptsInv, NEW q \in Run, NEW ins, NEW new,
           Known' \subseteq Known \cup new, chain' = (chain \ ins) \cup new,
           chain' \subseteq Known', seen' = seen, SpentUnseen' \subseteq SpentUnseen \cup ins,
           \A u \in ins \cup new : u.owner \notin Mine(q), step'[q] = step[q]
    PROVE  CoinsOK(q, step'[q], Known', chain', seen', SpentUnseen')
<1>1. CoinsOK(q, step[q], Known, chain, seen, SpentUnseen) /\ step[q] \in 1..18
  BY DEF ScriptsInv, CoinsInv, ScriptInv
<1>2. \A u : u.owner \in Mine(q) =>
         /\ u \in chain' <=> u \in chain
         /\ u \in Known' => u \in Known
         /\ step[q] <= 16 /\ u \in seen => u \in seen'
         /\ u \in SpentUnseen' => u \in SpentUnseen
  OBVIOUS
<1>3. QED
  BY <1>1, <1>2, CoinsKept

(* A transfer gives the run the one utxo of the token that it has. *)
LEMMA TransferTaken ==
    ASSUME ScriptsInv, NEW r \in Run, NEW ins, NEW new,
           Known' \subseteq Known \cup new, chain' = (chain \ ins) \cup new,
           chain' \subseteq Known', seen' = seen, SpentUnseen' \subseteq SpentUnseen \cup ins,
           \A u \in ins : u.owner = Distributor,
           \/ step[r] = 9 /\ step'[r] = 10
              /\ (\E u \in new : u.amount = Points /\ Of(new, Alice(r), "KARMA") = {u})
              /\ \A u \in new : u.owner \in Mine(r) => u.owner = Alice(r) /\ u.token = "KARMA"
           \/ step[r] = 12 /\ step'[r] = 13
              /\ (\E u \in new : u.amount = Points /\ Of(new, SubRedditServer(r), "RCP") = {u})
              /\ \A u \in new : u.owner \in Mine(r) => u.owner = SubRedditServer(r) /\ u.token = "RCP"
    PROVE  CoinsOK(r, step'[r], Known', chain', seen', SpentUnseen')
<1>1. CoinsOK(r, step[r], Known, chain, seen, SpentUnseen)
  BY DEF ScriptsInv, CoinsInv
<1>2. Mine(r) = {Alice(r), SubRedditServer(r)} /\ Distributor \notin Mine(r) /\ Alice(r) # SubRedditServer(r)
  BY Parties DEF Mine
<1>3. /\ Of(Known, Alice(r), "RCP") = {} /\ Of(Known, SubRedditServer(r), "KARMA") = {}
      /\ \A u \in SpentUnseen : u.owner \notin Mine(r)
  BY <1>1 DEF CoinsOK
<1>4. \A u \in SpentUnseen' : u.owner \notin Mine(r)
  BY <1>2, <1>3
<1>5. Of(Known', Alice(r), "RCP") = {} /\ Of(Known', SubRedditServer(r), "KARMA") = {}
  BY <1>2, <1>3 DEF Of
<1>6. ASSUME NEW owner \in Mine(r), NEW token, Of(Known, owner, token) = {},
             \E u \in new : u.amount = Points /\ Of(new, owner, token) = {u}
      PROVE  \E u \in chain' : u.amount = Points /\ Of(Known', owner, token) = {u}
  <2>1. PICK u \in new : u.amount = Points /\ Of(new, owner, token) = {u}
    BY <1>6
  <2>2. u \in chain' /\ u \in Known' /\ u.owner = owner /\ u.token = token
    BY <2>1 DEF Of
  <2>3. Of(Known', owner, token) \subseteq {u}
    BY <1>6, <2>1 DEF Of
  <2>4. u \in Of(Known', owner, token)
    BY <2>2 DEF Of
  <2>5. QED
    BY <2>1, <2>2, <2>3, <2>4
<1>7. CASE /\ step[r] = 9 /\ step'[r] = 10
           /\ \E u \in new : u.amount = Points /\ Of(new, Alice(r), "KARMA") = {u}
           /\ \A u \in new : u.owner \in Mine(r) => u.owner = Alice(r) /\ u.token = "KARMA"
  <2>1. Of(Known, Alice(r), "KARMA") = {} /\ Of(Known, SubRedditServer(r), "RCP") = {}
    BY <1>1, <1>7 DEF CoinsOK, GivenOK
  <2>2. \E u \in chain' : u.amount = Points /\ Of(Known', Alice(r), "KARMA") = {u}
    BY <1>2, <1>6, <1>7, <2>1
  <2>3. GivenOK(10, Known', chain', seen', Alice(r), "KARMA", 9)
    BY <2>2 DEF GivenOK
  <2>4. Of(Known', SubRedditServer(r), "RCP") = {}
    BY <1>2, <1>7, <2>1 DEF Of
  <2>5. GivenOK(10, Known', chain', seen', SubRedditServer(r), "RCP", 12)
    BY <2>4 DEF GivenOK
  <2>6. QED
    BY <1>4, <1>5, <1>7, <2>3, <2>5 DEF CoinsOK
<1>8. CASE /\ step[r] = 12 /\ step'[r] = 13
           /\ \E u \in new : u.amount = Points /\ Of(new, SubRedditServer(r), "RCP") = {u}
           /\ \A u \in new : u.owner \in Mine(r) => u.owner = SubRedditServer(r) /\ u.token = "RCP"
  <2>1. /\ Of(Known, SubRedditServer(r), "RCP") = {} /\ Of(Known, Alice(r), "KARMA") \subseteq seen
        /\ \E u \in chain : u.amount = Points /\ Of(Known, Alice(r), "KARMA") = {u}
    BY <1>1, <1>8 DEF CoinsOK, GivenOK
  <2>2. \E u \in chain' : u.amount = Points /\ Of(Known', SubRedditServer(r), "RCP") = {u}
    BY <1>2, <1>6, <1>8, <2>1
  <2>3. GivenOK(13, Known', chain', seen', SubRedditServer(r), "RCP", 12)
    BY <2>2 DEF GivenOK
  <2>4. PICK u \in chain : u.amount = Points /\ Of(Known, Alice(r), "KARMA") = {u}
    BY <2>1
  <2>5. u.owner = Alice(r) /\ u.token = "KARMA" /\ u \in seen
    BY <2>1, <2>4 DEF Of
  <2>6. u \in chain' /\ u \in Known' /\ u \in seen'
    BY <1>2, <2>5
  <2>7. Of(Known', Alice(r), "KARMA") = {u}
    <3>1. Of(Known', Alice(r), "KARMA") \subseteq {u}
      BY <1>2, <1>8, <2>4 DEF Of
    <3>2. u \in Of(Known', Alice(r), "KARMA")
      BY <2>5, <2>6 DEF Of
    <3>3. QED
      BY <3>1, <3>2
  <2>8. GivenOK(13, Known', chain', seen', Alice(r), "KARMA", 9)
    BY <2>4, <2>6, <2>7 DEF GivenOK
  <2>9. QED
    BY <1>4, <1>5, <1>8, <2>3, <2>8 DEF CoinsOK
<1>9. QED
  BY <1>7, <1>8

(* The swap takes what each side gave away and gives it to the other. *)
LEMMA SwapTaken ==
    ASSUME ScriptsInv, NEW r \in Run, NEW ins, NEW new,
           chain' = (chain \ ins) \cup new, ins \subseteq chain, step[r] = 16, step'[r] = 17,
           \E u \in ins : u.owner = Alice(r) /\ u.token = "KARMA",
           \E u \in ins : u.owner = SubRedditServer(r) /\ u.token = "RCP",
           \E u \in new : u.amount = Points /\ Of(new, Alice(r), "RCP") = {u},
           \E u \in new : u.amount = Points /\ Of(new, SubRedditServer(r), "KARMA") = {u},
           \A u \in new : \/ u.owner = Alice(r) /\ u.token = "RCP"
                          \/ u.owner = SubRedditServer(r) /\ u.token = "KARMA"
                          \/ u.owner = Distributor
    PROVE  CoinsOK(r, step'[r], Known', chain', seen', SpentUnseen')
<1>1. CoinsOK(r, step[r], Known, chain, seen, SpentUnseen)
  BY DEF ScriptsInv, CoinsInv
<1>2. /\ \E u \in chain : u.amount = Points /\ Of(Known, Alice(r), "KARMA") = {u}
      /\ \E u \in chain : u.amount = Points /\ Of(Known, SubRedditServer(r), "RCP") = {u}
      /\ Of(Known, Alice(r), "RCP") = {} /\ Of(Known, SubRedditServer(r), "KARMA") = {}
  BY <1>1 DEF CoinsOK, GivenOK
<1>3. /\ Distributor \notin {Alice(r), SubRedditServer(r)} /\ Alice(r) # SubRedditServer(r)
      /\ chain \subseteq Known
  BY Parties, KnownParts
<1>4. Of(chain', Alice(r), "KARMA") = {}
  <2>1. \A u \in new : ~(u.owner = Alice(r) /\ u.token = "KARMA")
    BY <1>3
  <2>2. PICK u : Of(Known, Alice(r), "KARMA") = {u}
    BY <1>2
  <2>3. Of(chain, Alice(r), "KARMA") \subseteq ins
    BY <1>3, <2>2 DEF Of
  <2>4. QED
    BY <2>1, <2>3 DEF Of
<1>5. Of(chain', SubRedditServer(r), "RCP") = {}
  <2>1. \A u \in new : ~(u.owner = SubRedditServer(r) /\ u.token = "RCP")
    BY <1>3
  <2>2. PICK u : Of(Known, SubRedditServer(r), "RCP") = {u}
    BY <1>2
  <2>3. Of(chain, SubRedditServer(r), "RCP") \subseteq ins
    BY <1>3, <2>2 DEF Of
  <2>4. QED
    BY <2>1, <2>3 DEF Of
<1>6. ASSUME NEW owner, NEW token, Of(Known, owner, token) = {}
      PROVE  Of(chain', owner, token) = Of(new, owner, token)
  BY <1>3, <1>6 DEF Of
<1>7. /\ Of(chain', Alice(r), "RCP") = Of(new, Alice(r), "RCP")
      /\ Of(chain', SubRedditServer(r), "KARMA") = Of(new, SubRedditServer(r), "KARMA")
  BY <1>2, <1>6
<1>8. /\ \E u \in chain' : u.amount = Points /\ Of(chain', Alice(r), "RCP") = {u}
      /\ \E u \in chain' : u.amount = Points /\ Of(chain', SubRedditServer(r), "KARMA") = {u}
  BY <1>7
<1>9. QED
  BY <1>4, <1>5, <1>8 DEF CoinsOK, GivenOK

(* What a run submits: from whom, to whom. *)
LEMMA Submitted ==
    ASSUME ScriptsInv, NEW r \in Run, At(r, "submit")
    PROVE  /\ step[r] \in {9, 12, 16}
           /\ WellFormed(body[r])
           /\ body[r].outputs \in SUBSET Outputs /\ IsFiniteSet(body[r].outputs)
           /\ \A o \in Inputs(body[r]) \cup body[r].outputs : o.owner \in Mine(r) \cup {Distributor}
           /\ step[r] = 9 => TransferOK(body[r], Alice(r), "KARMA")
           /\ step[r] = 12 => TransferOK(body[r], SubRedditServer(r), "RCP")
           /\ step[r] = 16 => SwapOK(r, body[r])
<1>1. outcome[r] = "running" /\ step[r] \in 1..17 /\ ScriptInv /\ Script[step[r]].op = "submit"
  BY AtRun DEF At, ScriptsInv
<1>2. step[r] \in {9, 12, 16}
  BY <1>1, AtSteps
<1>3. BodyOK(r, step[r], outcome[r], body[r])
  BY <1>1 DEF ScriptInv
<1>4. body[r] # NoBody
  BY <1>1, <1>2, <1>3 DEF BodyOK
<1>5. \/ step[r] = 9 /\ TransferOK(body[r], Alice(r), "KARMA")
      \/ step[r] = 12 /\ TransferOK(body[r], SubRedditServer(r), "RCP")
      \/ step[r] = 16 /\ SwapOK(r, body[r])
  BY <1>3, <1>4 DEF BodyOK
<1>6. ASSUME NEW owner \in Mine(r), NEW token, TransferOK(body[r], owner, token)
      PROVE  /\ WellFormed(body[r])
             /\ body[r].outputs \in SUBSET Outputs /\ IsFiniteSet(body[r].outputs)
             /\ \A o \in Inputs(body[r]) \cup body[r].outputs : o.owner \in Mine(r) \cup {Distributor}
  BY <1>6 DEF TransferOK, Output
<1>7. ASSUME SwapOK(r, body[r])
      PROVE  /\ WellFormed(body[r])
             /\ body[r].outputs \in SUBSET Outputs /\ IsFiniteSet(body[r].outputs)
             /\ \A o \in Inputs(body[r]) \cup body[r].outputs : o.owner \in Mine(r) \cup {Distributor}
  <2>1. Inputs(body[r]) \subseteq Utxos
    BY KnownParts DEF ScriptsInv, ChainInv
  <2>2. /\ Output(Alice(r), "RCP", Points).owner \in Mine(r)
        /\ Output(SubRedditServer(r), "KARMA", Points).owner \in Mine(r)
    BY DEF Output, Mine
  <2>3. \A o \in body[r].outputs : o.owner \in Mine(r) \cup {Distributor}
    BY <1>7, <2>1, <2>2, SwapBuilt
  <2>4. \A u \in Inputs(body[r]) : u.owner \in Mine(r) \cup {Distributor}
    <3>1. PICK a, b \in Inputs(body[r]) :
             /\ a.owner = Alice(r) /\ b.owner = SubRedditServer(r)
             /\ \A u \in Inputs(body[r]) : u = a \/ u = b \/ u.owner = Distributor
      BY <1>7, <2>1, SwapBuilt
    <3>2. QED
      BY <3>1 DEF Mine
  <2>5. QED
    BY <1>7, <2>1, <2>3, <2>4, SwapBuilt
<1>8. QED
  BY <1>2, <1>5, <1>6, <1>7 DEF Mine

(* A submission is refused, or the chain takes it whole. *)
LEMMA SubmitStep ==
    ASSUME ScriptsInv, NEW r \in Run, Submit(r)
    PROVE  ScriptsInv'
<1> DEFINE tx == body[r]
           ins == Inputs(body[r])
           new == NewUtxos(body[r].outputs)
<1>1. At(r, "submit") /\ outcome[r] = "running" /\ step[r] \in 1..17 /\ ScriptInv /\ ChainInv
  BY AtRun DEF Submit, At, ScriptsInv
<1>2. UNCHANGED rootVars
  BY DEF Submit
<1>3. CASE Throw(r, "refused") /\ UNCHANGED chainVars
  <2>1. "refused" \in Outcome \ {"running", "done", "TypeError"}
    BY DEF Outcome
  <2>2. QED
    BY <1>1, <1>2, <1>3, <2>1, ThrowStep
<1>4. CASE /\ Inputs(tx) \subseteq chain /\ Accept(ins, tx.outputs)
           /\ body' = [body EXCEPT ![r] = NoBody] /\ Proceed(r) /\ UNCHANGED <<balance, feeUtxo>>
  <2>1. /\ step[r] \in {9, 12, 16}
        /\ tx.outputs \in SUBSET Outputs /\ IsFiniteSet(tx.outputs)
        /\ \A o \in ins \cup tx.outputs : o.owner \in Mine(r) \cup {Distributor}
    BY <1>1, Submitted
  <2>2. ins \in SUBSET Utxos /\ ins \subseteq chain
    BY <1>1, <1>4, KnownParts DEF ChainInv
  <2>3. /\ body'[r] = NoBody /\ DOMAIN body' = Run /\ DOMAIN feeUtxo' = Run
        /\ \A q \in Run \ {r} : body'[q] = body[q]
    BY <1>1, <1>4 DEF ScriptInv
  <2>4. \A q \in Run : feeUtxo'[q] \subseteq Known /\ Inputs(body'[q]) \subseteq Known
    <3>1. Inputs(NoBody) = {}
      BY DEF Inputs, NoBody
    <3>2. QED
      BY <1>4, <2>3, <3>1, KnownParts
  <2>5. /\ step'[r] = step[r] + 1 /\ outcome'[r] # "TypeError"
        /\ \A q \in Run \ {r} : step'[q] = step[q]
    BY <1>1, <1>4, Proceeds
  <2>6. ScriptInv'
    <3>1. step'[r] \notin {9, 12, 16}
      BY <2>1, <2>5
    <3>2. BodyOK(r, step'[r], outcome'[r], body'[r])
      BY <2>3, <3>1 DEF BodyOK
    <3>3. FeesOK(feeUtxo'[r])
      BY <1>1, <1>4 DEF ScriptInv
    <3>4. QED
      BY <1>1, <1>4, <2>3, <2>5, <3>2, <3>3, Proceeds, ScriptChanges
  <2>7. RootInv'
    BY <1>2 DEF ScriptsInv, RootInv, rootVars
  <2>8. /\ ChainInv' /\ Known' \subseteq Known \cup new
        /\ chain' = (chain \ ins) \cup new /\ chain' \subseteq Known'
        /\ seen' = seen /\ SpentUnseen' \subseteq SpentUnseen \cup ins
    BY <1>1, <1>4, <2>1, <2>2, <2>4, Accepts
  <2>9. /\ \A u \in new : \E o \in tx.outputs :
              u.owner = o.owner /\ u.token = o.token /\ u.amount = o.amount
        /\ \A o \in tx.outputs :
              (\A p \in tx.outputs : p.owner = o.owner /\ p.token = o.token => p = o) =>
                 \E u \in new : u.amount = o.amount /\ Of(new, o.owner, o.token) = {u}
    BY <1>1, <2>1, NewOnes DEF ChainInv
  <2>10. /\ Alice(r) # Distributor /\ SubRedditServer(r) # Distributor
         /\ Alice(r) # SubRedditServer(r) /\ Mine(r) = {Alice(r), SubRedditServer(r)}
    BY Parties DEF Mine
  <2> HIDE DEF ins, new, tx
  <2>11. ASSUME NEW q \in Run \ {r}
         PROVE  CoinsOK(q, step'[q], Known', chain', seen', SpentUnseen')
    <3>1. Mine(q) \cap (Mine(r) \cup {Distributor}) = {}
      BY Parties DEF Mine
    <3>2. \A u \in ins \cup new : u.owner \notin Mine(q)
      BY <2>1, <2>9, <3>1
    <3>3. QED
      BY <2>5, <2>8, <3>2, OthersKept
  <2>12. ASSUME NEW owner \in Mine(r), NEW token, TransferOK(tx, owner, token)
         PROVE  /\ \A u \in ins : u.owner = Distributor
                /\ \E u \in new : u.amount = Points /\ Of(new, owner, token) = {u}
                /\ \A u \in new : u.owner \in Mine(r) => u.owner = owner /\ u.token = token
    <3> DEFINE given == Output(owner, token, Points)
    <3>1. given.owner = owner /\ given.token = token /\ given.amount = Points
      BY DEF Output
    <3>2. /\ given \in tx.outputs
          /\ \A o \in tx.outputs : o # given => o.owner = Distributor
          /\ \A u \in ins : u.owner = Distributor
      BY <2>12 DEF TransferOK, ins, tx
    <3> HIDE DEF given
    <3>3. \A p \in tx.outputs : p.owner = given.owner /\ p.token = given.token => p = given
      BY <2>10, <3>1, <3>2
    <3>4. \E u \in new : u.amount = given.amount /\ Of(new, given.owner, given.token) = {u}
      BY <2>9, <3>2, <3>3
    <3>5. \A u \in new : u.owner \in Mine(r) => u.owner = owner /\ u.token = token
      BY <2>9, <2>10, <3>1, <3>2
    <3>6. QED
      BY <3>1, <3>2, <3>4, <3>5
  <2>13. CoinsOK(r, step'[r], Known', chain', seen', SpentUnseen')
    <3>1. CASE step[r] = 9
      <4>1. TransferOK(tx, Alice(r), "KARMA")
        BY <1>1, <3>1, Submitted DEF tx
      <4>2. /\ \A u \in ins : u.owner = Distributor
            /\ \E u \in new : u.amount = Points /\ Of(new, Alice(r), "KARMA") = {u}
            /\ \A u \in new : u.owner \in Mine(r) => u.owner = Alice(r) /\ u.token = "KARMA"
        BY <2>10, <2>12, <4>1
      <4>3. step'[r] = 10
        BY <2>5, <3>1
      <4>4. QED
        BY <2>8, <3>1, <4>2, <4>3, TransferTaken
    <3>2. CASE step[r] = 12
      <4>1. TransferOK(tx, SubRedditServer(r), "RCP")
        BY <1>1, <3>2, Submitted DEF tx
      <4>2. /\ \A u \in ins : u.owner = Distributor
            /\ \E u \in new : u.amount = Points /\ Of(new, SubRedditServer(r), "RCP") = {u}
            /\ \A u \in new : u.owner \in Mine(r) => u.owner = SubRedditServer(r) /\ u.token = "RCP"
        BY <2>10, <2>12, <4>1
      <4>3. step'[r] = 13
        BY <2>5, <3>2
      <4>4. QED
        BY <2>8, <3>2, <4>2, <4>3, TransferTaken
    <3>3. CASE step[r] = 16
      <4> DEFINE rcp == Output(Alice(r), "RCP", Points)
                 karma == Output(SubRedditServer(r), "KARMA", Points)
      <4>1. SwapOK(r, tx) /\ Inputs(tx) \subseteq Utxos
        BY <1>1, <2>2, <3>3, Submitted DEF tx, ins
      <4>2. /\ rcp \in tx.outputs /\ karma \in tx.outputs
            /\ \A o \in tx.outputs : o = rcp \/ o = karma \/ o.owner = Distributor
        BY <4>1, SwapBuilt
      <4>3. /\ \E u \in ins : u.owner = Alice(r) /\ u.token = "KARMA"
            /\ \E u \in ins : u.owner = SubRedditServer(r) /\ u.token = "RCP"
        BY <4>1, SwapBuilt DEF ins, tx
      <4>4. /\ rcp.owner = Alice(r) /\ rcp.token = "RCP" /\ rcp.amount = Points
            /\ karma.owner = SubRedditServer(r) /\ karma.token = "KARMA" /\ karma.amount = Points
        BY DEF Output
      <4> HIDE DEF rcp, karma
      <4>5. /\ \A p \in tx.outputs : p.owner = rcp.owner /\ p.token = rcp.token => p = rcp
            /\ \A p \in tx.outputs : p.owner = karma.owner /\ p.token = karma.token => p = karma
        BY <2>10, <4>2, <4>4
      <4>6. /\ \E u \in new : u.amount = Points /\ Of(new, Alice(r), "RCP") = {u}
            /\ \E u \in new : u.amount = Points /\ Of(new, SubRedditServer(r), "KARMA") = {u}
        <5>1. /\ \E u \in new : u.amount = rcp.amount /\ Of(new, rcp.owner, rcp.token) = {u}
              /\ \E u \in new : u.amount = karma.amount /\ Of(new, karma.owner, karma.token) = {u}
          BY <2>9, <4>2, <4>5
        <5>2. QED
          BY <4>4, <5>1
      <4>7. \A u \in new : \/ u.owner = Alice(r) /\ u.token = "RCP"
                           \/ u.owner = SubRedditServer(r) /\ u.token = "KARMA"
                           \/ u.owner = Distributor
        BY <2>9, <4>2, <4>4
      <4>8. step'[r] = 17
        BY <2>5, <3>3
      <4>9. QED
        BY <2>2, <2>8, <3>3, <4>3, <4>6, <4>7, <4>8, SwapTaken
    <3>4. QED
      BY <2>1, <3>1, <3>2, <3>3
  <2>14. CoinsInv'
    BY <2>11, <2>13 DEF CoinsInv
  <2>15. QED
    BY <2>6, <2>7, <2>8, <2>14 DEF ScriptsInv
<1>5. QED
  BY <1>3, <1>4 DEF Submit

(* A deposit is credited to the Distributor, who is no party of the swap. *)
LEMMA CreditStep ==
    ASSUME ScriptsInv, NEW t \in Token, CreditDeposit(t)
    PROVE  ScriptsInv'
<1> DEFINE amount == IF t = "ETH" THEN EthDeposit ELSE Points
           outs == {Output(Distributor, t, amount)}
           new == NewUtxos(outs)
<1>1. /\ deposits[t] > 0 /\ deposits' = [deposits EXCEPT ![t] = deposits[t] - 1]
      /\ Accept({}, outs) /\ UNCHANGED <<scriptVars, wallet, allowance>>
  BY DEF CreditDeposit
<1>2. /\ step' = step /\ outcome' = outcome /\ balance' = balance
      /\ feeUtxo' = feeUtxo /\ body' = body
  BY <1>1 DEF scriptVars
<1>3. amount \in Nat \ {0} /\ Distributor \in Owner
  BY ClaimAssumption DEF Owner
<1> HIDE DEF amount
<1>4. outs \in SUBSET Outputs /\ IsFiniteSet(outs) /\ \A o \in outs : o.owner = Distributor
  <2>1. Output(Distributor, t, amount) \in Outputs /\ Output(Distributor, t, amount).owner = Distributor
    BY <1>3 DEF Output, Outputs
  <2>2. QED
    BY <2>1, FS_Singleton
<1> HIDE DEF outs
<1>5. ScriptInv'
  BY <1>2 DEF ScriptsInv, ScriptInv, ClaimFindsItsUtxos
<1>6. RootInv'
  <2>1. deposits \in [Token -> Nat]
    BY DEF ScriptsInv, RootInv
  <2>2. deposits[t] - 1 \in Nat
    BY <1>1, <2>1
  <2>3. QED
    BY <1>1, <2>1, <2>2 DEF ScriptsInv, RootInv
<1>7. \A q \in Run : feeUtxo'[q] \subseteq Known /\ Inputs(body'[q]) \subseteq Known
  BY <1>2, KnownParts
<1>8. /\ ChainInv' /\ Known' \subseteq Known \cup new
      /\ chain' = (chain \ {}) \cup new /\ chain' \subseteq Known'
      /\ seen' = seen /\ SpentUnseen' \subseteq SpentUnseen \cup {}
  BY <1>1, <1>4, <1>7, Accepts DEF ScriptsInv
<1>9. \A u \in new : u.owner = Distributor
  <2>1. \A u \in new : \E o \in outs : u.owner = o.owner
    BY <1>4, NewOnes DEF ScriptsInv, ChainInv
  <2>2. QED
    BY <1>4, <2>1
<1> HIDE DEF new
<1>10. ASSUME NEW q \in Run PROVE CoinsOK(q, step'[q], Known', chain', seen', SpentUnseen')
  <2>1. \A u \in {} \cup new : u.owner \notin Mine(q)
    BY <1>9, Parties DEF Mine
  <2>2. QED
    BY <1>2, <1>8, <2>1, OthersKept
<1>11. QED
  BY <1>5, <1>6, <1>8, <1>10 DEF ScriptsInv, CoinsInv

(* What the watcher hears of takes no utxo of a run away before its swap. *)
LEMMA WatcherStep ==
    ASSUME ScriptsInv, WatcherSees
    PROVE  ScriptsInv'
<1> DEFINE Item == [inputs : SUBSET Utxos, outputs : SUBSET Utxos]
<1>1. /\ news # <<>> /\ seen' = (seen \ Head(news).inputs) \cup Head(news).outputs
      /\ news' = Tail(news) /\ chain' = chain
      /\ step' = step /\ outcome' = outcome /\ balance' = balance
      /\ feeUtxo' = feeUtxo /\ body' = body
      /\ wallet' = wallet /\ allowance' = allowance /\ deposits' = deposits
  BY DEF WatcherSees, scriptVars, rootVars
<1>2. news \in Seq(Item)
  BY DEF ScriptsInv, ChainInv
<1> HIDE DEF Item
<1>3. /\ 1 \in DOMAIN news /\ Head(news) = news[1] /\ news' \in Seq(Item)
      /\ \A i \in DOMAIN news' : i + 1 \in DOMAIN news /\ news'[i] = news[i + 1]
  BY <1>1, <1>2
<1>4. Known' \subseteq Known
  <2>1. seen' \subseteq Known
    BY <1>1, <1>3, KnownParts
  <2>2. \A i \in DOMAIN news' : news'[i].outputs \subseteq Known
    BY <1>3, KnownParts
  <2>3. chain' \subseteq Known
    BY <1>1, KnownParts
  <2>4. \A r \in Run : feeUtxo'[r] \subseteq Known /\ Inputs(body'[r]) \subseteq Known
    BY <1>1, KnownParts
  <2>5. QED
    BY <2>1, <2>2, <2>3, <2>4, KnownNext
<1>5. SpentUnseen' \subseteq SpentUnseen /\ Head(news).inputs \subseteq SpentUnseen
  BY <1>3 DEF SpentUnseen
<1>6. ChainInv'
  <2>1. IsFiniteSet(Known')
    BY <1>4, FS_Subset DEF ScriptsInv, ChainInv
  <2>2. QED
    BY <1>3, <1>4, <2>1 DEF ScriptsInv, ChainInv, Item
<1>7. ScriptInv'
  BY <1>1 DEF ScriptsInv, ScriptInv, ClaimFindsItsUtxos
<1>8. RootInv'
  BY <1>1 DEF ScriptsInv, RootInv
<1>9. chain' \subseteq Known'
  BY DEF Known
<1>10. ASSUME NEW r \in Run PROVE CoinsOK(r, step'[r], Known', chain', seen', SpentUnseen')
  <2>1. CoinsOK(r, step[r], Known, chain, seen, SpentUnseen) /\ step[r] \in 1..18 /\ step'[r] = step[r]
    BY <1>1 DEF ScriptsInv, CoinsInv, ScriptInv
  <2>2. step[r] <= 16 => \A u \in SpentUnseen : u.owner \notin Mine(r)
    BY <2>1 DEF CoinsOK
  <2>3. \A u : u.owner \in Mine(r) =>
           /\ u \in chain' <=> u \in chain
           /\ u \in Known' => u \in Known
           /\ step[r] <= 16 /\ u \in seen => u \in seen'
           /\ u \in SpentUnseen' => u \in SpentUnseen
    BY <1>1, <1>4, <1>5, <2>2
  <2>4. QED
    BY <1>9, <2>1, <2>3, CoinsKept
<1>11. QED
  BY <1>6, <1>7, <1>8, <1>10 DEF ScriptsInv, CoinsInv

(* At first nothing is minted and nobody has anything. *)
LEMMA StartsOK == Init => ScriptsInv
<1> SUFFICES ASSUME Init PROVE ScriptsInv
  OBVIOUS
<1>1. \A r \in Run : step[r] = 1 /\ outcome[r] = "running" /\ body[r] = NoBody /\ feeUtxo[r] = {}
  BY DEF Init
<1>2. ScriptInv
  <2>1. \A r \in Run : BodyOK(r, step[r], outcome[r], body[r]) /\ FeesOK(feeUtxo[r])
    BY <1>1 DEF BodyOK, FeesOK
  <2>2. QED
    BY <1>1, <2>1 DEF Init, ScriptInv, ClaimFindsItsUtxos, Outcome
<1>3. RootInv
  BY ClaimAssumption DEF Init, RootInv
<1>4. Known = {} /\ SpentUnseen = {}
  BY <1>1 DEF Init, Known, SpentUnseen, Inputs, NoBody
<1>5. ChainInv
  BY <1>4, FS_EmptySet DEF Init, ChainInv
<1>6. CoinsInv
  BY <1>1, <1>4 DEF CoinsInv, CoinsOK, GivenOK, Of
<1>7. QED
  BY <1>2, <1>3, <1>5, <1>6 DEF ScriptsInv

(* Every step keeps the inductive invariant. *)
LEMMA ScriptsStep ==
    ASSUME ScriptsInv, [Next]_vars
    PROVE  ScriptsInv'
<1>1. CASE UNCHANGED vars
  <2>1. UNCHANGED <<step, outcome, balance, feeUtxo, body, wallet, allowance, deposits, chain, news, seen>>
    BY <1>1 DEF vars, scriptVars, rootVars, chainVars
  <2>2. Known' = Known /\ SpentUnseen' = SpentUnseen
    BY <2>1 DEF Known, SpentUnseen
  <2>3. ScriptInv' /\ RootInv'
    BY <2>1 DEF ScriptsInv, ScriptInv, RootInv, ClaimFindsItsUtxos
  <2>4. ChainInv' /\ CoinsInv'
    BY <2>1, <2>2 DEF ScriptsInv, ChainInv, CoinsInv
  <2>5. QED
    BY <2>3, <2>4 DEF ScriptsInv
<1>2. ASSUME NEW r \in Run, RunStep(r) PROVE ScriptsInv'
  BY <1>2, RootStep, CreateStep, FeeUtxosStep, SwapStep, SubmitStep, WaitStep DEF RunStep
<1>3. QED
  BY <1>1, <1>2, FailsStep, CreditStep, WatcherStep DEF Next
---------------------------------------------------------------------------
(* The theorems *)

(* At every position of the script, each party of each run has exactly what *)
(* the script has given it so far, whatever other runs and failures do.     *)
THEOREM ClaimInvariant == Spec => []ScriptsInv
<1>1. ScriptsInv /\ [Next]_vars => ScriptsInv'
  BY ScriptsStep
<1>2. QED
  BY <1>1, StartsOK, PTL DEF Spec

(* The state is what its types say, and no run meets an undefined utxo: the *)
(* waits of the script suffice.                                             *)
THEOREM ClaimHolds == Spec => []ClaimInv
<1>1. ScriptsInv => ClaimInv
  <2> SUFFICES ASSUME ScriptsInv PROVE ClaimInv
    OBVIOUS
  <2>1. ScriptInv /\ RootInv /\ Known \subseteq Utxos
    BY DEF ScriptsInv, ChainInv
  <2>2. Len(Script) = 17
    BY Steps
  <2>3. \A u \in Known : IsUtxo(u)
    BY <2>1 DEF Utxos, IsUtxo
  <2>4. balance \in [Run -> Nat]
    BY <2>1 DEF ScriptInv
  <2>5. QED
    BY <2>1, <2>2, <2>3, <2>4 DEF ScriptInv, RootInv, ClaimTypeOK, ClaimInv
<1>2. QED
  BY <1>1, ClaimInvariant, PTL

(* A transaction that is refused lacks a utxo of the Distributor and none   *)
(* of the run's own: only another run can have taken it.                    *)
THEOREM OnlyContestedRefused == Spec => []OnlyContestedUtxosRefused
<1>1. ScriptsInv => OnlyContestedUtxosRefused
  <2> SUFFICES ASSUME ScriptsInv, NEW r \in Run, At(r, "submit")
               PROVE  /\ WellFormed(body[r])
                      /\ \A u \in Inputs(body[r]) \ chain : u.owner = Distributor
    BY DEF OnlyContestedUtxosRefused
  <2>1. step[r] \in {9, 12, 16} /\ WellFormed(body[r])
    BY Submitted
  <2>2. ASSUME step[r] = 16, NEW u \in Inputs(body[r]) \ chain
        PROVE  u.owner = Distributor
    <3>1. SwapOK(r, body[r]) /\ Inputs(body[r]) \subseteq Known /\ Known \subseteq Utxos
      BY <2>2, Submitted, KnownParts DEF ScriptsInv, ChainInv
    <3>2. PICK a, b \in Inputs(body[r]) :
             /\ a.owner = Alice(r) /\ a.token = "KARMA"
             /\ b.owner = SubRedditServer(r) /\ b.token = "RCP"
             /\ \A v \in Inputs(body[r]) : v = a \/ v = b \/ v.owner = Distributor
      BY <3>1, SwapBuilt
    <3>3. CoinsOK(r, 16, Known, chain, seen, SpentUnseen)
      BY <2>2 DEF ScriptsInv, CoinsInv
    <3>4. /\ \E v \in chain : Of(Known, Alice(r), "KARMA") = {v}
          /\ \E v \in chain : Of(Known, SubRedditServer(r), "RCP") = {v}
      BY <3>3 DEF CoinsOK, GivenOK
    <3>5. a \in Of(Known, Alice(r), "KARMA") /\ b \in Of(Known, SubRedditServer(r), "RCP")
      BY <3>1, <3>2 DEF Of
    <3>6. a \in chain /\ b \in chain
      BY <3>4, <3>5
    <3>7. QED
      BY <2>2, <3>2, <3>6
  <2>3. ASSUME step[r] \in {9, 12}, NEW u \in Inputs(body[r]) \ chain
        PROVE  u.owner = Distributor
    BY <2>3, Submitted DEF TransferOK
  <2>4. QED
    BY <2>1, <2>2, <2>3
<1>2. QED
  BY <1>1, ClaimInvariant, PTL

(* The claim happens whole or not at all: Alice has the points exactly if   *)
(* the server has the KARMA, and a run is done only when they have.         *)
THEOREM ClaimAtomic == Spec => []ClaimIsAtomic
<1>1. ScriptsInv => ClaimIsAtomic
  <2> SUFFICES ASSUME ScriptsInv, NEW r \in Run
               PROVE  /\ outcome[r] = "done" => Swapped(r)
                      /\ Swapped(r) <=> Owns(SubRedditServer(r), "KARMA") = Points
                      /\ At(r, "swap") =>
                            /\ Owns(Alice(r), "KARMA") = Points
                            /\ Owns(SubRedditServer(r), "RCP") = Points
                      /\ Swapped(r) => /\ Owns(Alice(r), "KARMA") = 0
                                       /\ Owns(SubRedditServer(r), "RCP") = 0
    BY DEF ClaimIsAtomic
  <2>1. CoinsOK(r, step[r], Known, chain, seen, SpentUnseen) /\ ScriptInv /\ Points \in Nat \ {0}
    BY ClaimAssumption DEF ScriptsInv, CoinsInv
  <2>2. step[r] \in 1..18 /\ (outcome[r] = "done" <=> step[r] = 18)
    BY <2>1 DEF ScriptInv
  <2>3. ASSUME NEW owner, NEW token, Of(chain, owner, token) = {}
        PROVE  Owns(owner, token) = 0
    BY <2>3, TotalEmpty DEF Owns
  <2>4. ASSUME NEW owner, NEW token, NEW u, u.amount = Points, Of(chain, owner, token) = {u}
        PROVE  Owns(owner, token) = Points
    BY <2>1, <2>4, TotalOne DEF Owns
  <2>5. CASE step[r] > 16
    <3>1. Owns(Alice(r), "KARMA") = 0 /\ Owns(SubRedditServer(r), "RCP") = 0
      BY <2>1, <2>3, <2>5 DEF CoinsOK
    <3>2. Owns(Alice(r), "RCP") = Points /\ Owns(SubRedditServer(r), "KARMA") = Points
      BY <2>1, <2>4, <2>5 DEF CoinsOK
    <3>3. ~At(r, "swap")
      BY <2>2, <2>5, AtRun, AtSteps, <2>1 DEF At
    <3>4. QED
      BY <3>1, <3>2, <3>3 DEF Swapped
  <2>6. CASE step[r] <= 16
    <3>1. Of(chain, Alice(r), "RCP") = {} /\ Of(chain, SubRedditServer(r), "KARMA") = {}
      BY <2>1, <2>6, KnownParts DEF CoinsOK, Of
    <3>2. Owns(Alice(r), "RCP") = 0 /\ Owns(SubRedditServer(r), "KARMA") = 0
      BY <2>3, <3>1
    <3>3. ASSUME At(r, "swap")
          PROVE  Owns(Alice(r), "KARMA") = Points /\ Owns(SubRedditServer(r), "RCP") = Points
      <4>1. step[r] = 15
        BY <2>1, <3>3, AtRun, AtSteps DEF At
      <4>2. ASSUME NEW owner, NEW token, NEW n \in {9, 12},
                   GivenOK(15, Known, chain, seen, owner, token, n)
            PROVE  Owns(owner, token) = Points
        <5>1. PICK u \in chain : u.amount = Points /\ Of(Known, owner, token) = {u}
          BY <4>2 DEF GivenOK
        <5>2. Of(chain, owner, token) = {u}
          BY <5>1, KnownParts DEF Of
        <5>3. QED
          BY <2>4, <5>1, <5>2
      <4>3. QED
        BY <2>1, <4>1, <4>2 DEF CoinsOK
    <3>4. QED
      BY <2>1, <2>2, <2>6, <3>2, <3>3 DEF Swapped
  <2>7. QED
    BY <2>2, <2>5, <2>6
<1>2. QED
  BY <1>1, ClaimInvariant, PTL
=============================================================================
