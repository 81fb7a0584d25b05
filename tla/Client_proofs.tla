----------------------------- MODULE Client_proofs -----------------------------
(***************************************************************************)
(* Proofs about the client, for any number of accounts, forms and polls,   *)
(* any utxos and any history.  The invariant says what each form and each  *)
(* poll knows while it waits; it holds because the ledger only grows: what *)
(* was read of it stays true of the transactions it had then.              *)
(***************************************************************************)
EXTENDS Client, Sums

---------------------------------------------------------------------------
(* The ledger *)

(* Transactions and utxos are added at the end and never changed. *)
Extends(cs, h, cs2, h2) ==
    /\ Len(h) <= Len(h2)
    /\ \A t \in 1..Len(h) : h2[t] = h[t]
    /\ DOMAIN cs \subseteq DOMAIN cs2
    /\ \A c \in DOMAIN cs : cs2[c] = cs[c]
    /\ \A c \in DOMAIN cs2 : c \notin DOMAIN cs => cs2[c].tx > Len(h)

LedgerGrows ==
    /\ Extends(coins, history, coins', history')
    /\ indexed <= indexed'

LedgerInv ==
    /\ LedgerTypeOK
    /\ \A c \in DOMAIN coins : coins[c].tx <= Len(history)

LEMMA SeqOfMore ==
    ASSUME NEW S, NEW T, S \subseteq T, NEW s \in Seq(S)
    PROVE  s \in Seq(T)
  OBVIOUS

Coins == [owner : Owner, amount : Nat \ {0}, tx : 0..MaxHistory]

LEMMA CoinFacts ==
    ASSUME NEW cs \in Seq(Coins)
    PROVE  /\ DOMAIN cs = 1..Len(cs) /\ Len(cs) \in Nat
           /\ \A c \in DOMAIN cs : cs[c].amount \in Nat \ {0} /\ cs[c].tx \in Nat
<1>1. DOMAIN cs = 1..Len(cs) /\ Len(cs) \in Nat /\ \A c \in DOMAIN cs : cs[c] \in Coins
  OBVIOUS
<1>2. \A c \in Coins : c.amount \in Nat \ {0} /\ c.tx \in Nat
  BY DEF Coins
<1>3. QED
  BY <1>1, <1>2

LEMMA AmountIsNat ==
    ASSUME LedgerTypeOK, NEW S, S \subseteq DOMAIN coins
    PROVE  /\ IsFiniteSet(S)
           /\ Amount(S) = SumFunctionOnSet([c \in S |-> coins[c].amount], S)
           /\ Amount(S) \in Nat
<1>1. coins \in Seq(Coins)
  BY DEF LedgerTypeOK, Coins
<1>2. /\ DOMAIN coins = 1..Len(coins) /\ Len(coins) \in Nat
      /\ \A c \in DOMAIN coins : coins[c].amount \in Nat
  BY <1>1, CoinFacts
<1>3. IsFiniteSet(1..Len(coins))
  BY <1>2, FS_Interval
<1>4. IsFiniteSet(S)
  BY <1>2, <1>3, FS_Subset
<1>5. Amount(S) = SumFunctionOnSet([c \in S |-> coins[c].amount], S)
  BY DEF Amount, SumFunction
<1>6. \A c \in S : [d \in S |-> coins[d].amount][c] \in Nat
  BY <1>2
<1>7. Amount(S) \in Nat
  BY <1>4, <1>5, <1>6, SumNat
<1>8. QED
  BY <1>4, <1>5, <1>7

LEMMA IndexGrows ==
    ASSUME LedgerInv, Index
    PROVE  LedgerInv' /\ LedgerGrows
  BY DEF LedgerInv, LedgerTypeOK, Index, LedgerGrows, Extends

LEMMA UnchangedGrows ==
    ASSUME LedgerInv, UNCHANGED ledgerVars
    PROVE  LedgerInv' /\ LedgerGrows
  BY DEF LedgerInv, LedgerTypeOK, ledgerVars, LedgerGrows, Extends

(* An accepted transaction is the next one, and its outputs are new. *)
LEMMA AcceptGrows ==
    ASSUME LedgerInv, NEW sender \in Account, NEW S, NEW amount \in Nat,
           NEW recipient \in Owner, Accept(sender, S, amount, recipient)
    PROVE  /\ LedgerInv' /\ LedgerGrows
           /\ Len(history') = Len(history) + 1
           /\ history'[Len(history) + 1].sender = sender
<1> DEFINE t == Len(history) + 1
           Coin(owner, n) == [owner |-> owner, amount |-> n, tx |-> t]
           change == Amount(S) - amount
           paid == <<Coin(recipient, amount)>>
           back == IF change = 0 THEN <<>> ELSE <<Coin(sender, change)>>
           Txs == [sender : Account, spent : SUBSET (DOMAIN coins)]
<1>1. /\ coins \in Seq(Coins) /\ Len(coins) \in Nat
      /\ history \in Seq(Txs) /\ Len(history) \in Nat
      /\ Len(history) <= MaxHistory /\ MaxHistory \in Nat
      /\ indexed \in 0..Len(history)
  BY LedgerAssumption DEF LedgerInv, LedgerTypeOK, Coins
<1>2. /\ t <= MaxHistory /\ amount > 0 /\ amount <= Amount(S)
      /\ S \subseteq GetUtxos(sender, Len(history))
      /\ history' = Append(history, [sender |-> sender, spent |-> S])
      /\ coins' = coins \o (paid \o back)
      /\ indexed' = indexed
  BY DEF Accept
<1>3. S \subseteq DOMAIN coins
  BY <1>2 DEF GetUtxos
<1>4. change \in Nat /\ t \in 0..MaxHistory
  <2>1. Amount(S) \in Nat
    BY <1>3, AmountIsNat DEF LedgerInv
  <2>2. QED
    BY <1>1, <1>2, <2>1
<1>5. sender \in Owner
  BY DEF Owner
<1>6. paid \in Seq(Coins) /\ back \in Seq(Coins)
  <2>1. Coin(recipient, amount) \in Coins
    BY <1>2, <1>4 DEF Coins
  <2>2. change # 0 => Coin(sender, change) \in Coins
    BY <1>4, <1>5 DEF Coins
  <2> HIDE DEF Coin, change
  <2>3. QED
    BY <2>1, <2>2
<1>7. /\ \A i \in 1..Len(paid) : paid[i].tx = t
      /\ \A i \in 1..Len(back) : back[i].tx = t
  <2>1. Len(paid) = 1 /\ paid[1].tx = t
    OBVIOUS
  <2>2. CASE change = 0
    <3>1. Len(back) = 0
      BY <2>2
    <3> HIDE DEF back
    <3>2. QED
      BY <2>1, <3>1
  <2>3. CASE change # 0
    <3>1. Len(back) = 1 /\ back[1].tx = t
      BY <2>3
    <3> HIDE DEF back, paid
    <3>2. QED
      BY <2>1, <3>1
  <2>4. QED
    BY <2>2, <2>3
<1>8. Append(history, [sender |-> sender, spent |-> S]) \in Seq(Txs)
  BY <1>1, <1>3
<1> HIDE DEF paid, back, Txs
<1> DEFINE more == paid \o back
<1>9. /\ more \in Seq(Coins) /\ Len(more) \in Nat
      /\ \A i \in 1..Len(more) : more[i].tx = t
  <2>1. /\ more \in Seq(Coins) /\ Len(more) = Len(paid) + Len(back)
        /\ \A i \in 1..Len(more) :
              more[i] = IF i <= Len(paid) THEN paid[i] ELSE back[i - Len(paid)]
    BY <1>6
  <2>2. \A i \in 1..Len(more) : more[i].tx = t
    BY <1>6, <1>7, <2>1
  <2> HIDE DEF more
  <2>3. QED
    BY <2>1, <2>2
<1>10. coins' = coins \o more
  BY <1>2 DEF more
<1> HIDE DEF more
<1>11. /\ coins' \in Seq(Coins) /\ Len(coins') = Len(coins) + Len(more)
       /\ \A c \in 1..Len(coins) : coins'[c] = coins[c]
       /\ \A c \in 1..Len(coins') : c \notin 1..Len(coins) => coins'[c].tx = t
  <2>1. /\ coins' \in Seq(Coins) /\ Len(coins') = Len(coins) + Len(more)
        /\ \A c \in 1..Len(coins') :
              coins'[c] = IF c <= Len(coins) THEN coins[c] ELSE more[c - Len(coins)]
    BY <1>1, <1>9, <1>10
  <2>2. \A c \in 1..Len(coins) : c \in 1..Len(coins') /\ c <= Len(coins)
    BY <1>1, <1>9, <2>1
  <2>3. \A c \in 1..Len(coins') :
           c \notin 1..Len(coins) => c - Len(coins) \in 1..Len(more) /\ ~(c <= Len(coins))
    BY <1>1, <1>9, <2>1
  <2> HIDE DEF t
  <2>4. QED
    BY <1>9, <2>1, <2>2, <2>3
<1>12. /\ Len(history') = t
       /\ \A s \in 1..Len(history) : history'[s] = history[s]
       /\ history'[t].sender = sender
       /\ history' \in Seq(Txs)
  BY <1>1, <1>2, <1>8
<1>13. /\ DOMAIN coins = 1..Len(coins) /\ DOMAIN coins' = 1..Len(coins')
       /\ DOMAIN coins \subseteq DOMAIN coins'
  BY <1>1, <1>9, <1>11
<1>14. LedgerGrows
  <2>1. t > Len(history) /\ Len(history) <= t /\ indexed <= indexed
    BY <1>1
  <2> HIDE DEF t
  <2>2. \A c \in DOMAIN coins' : c \notin DOMAIN coins => coins'[c].tx > Len(history)
    BY <1>11, <1>13, <2>1
  <2>3. QED
    BY <1>2, <1>11, <1>12, <1>13, <2>1, <2>2 DEF LedgerGrows, Extends
<1>15. LedgerTypeOK'
  <2>1. history' \in Seq([sender : Account, spent : SUBSET (DOMAIN coins')])
    <3>1. Txs \subseteq [sender : Account, spent : SUBSET (DOMAIN coins')]
      BY <1>13 DEF Txs
    <3>2. QED
      BY <1>12, <3>1, SeqOfMore
  <2>2. QED
    BY <1>1, <1>2, <1>11, <1>12, <2>1 DEF LedgerTypeOK, Coins
<1>16. \A c \in DOMAIN coins' : coins'[c].tx <= Len(history')
  <2>1. \A c \in DOMAIN coins : coins[c].tx <= Len(history) /\ coins[c].tx \in Nat
    <3>1. \A c \in DOMAIN coins : coins[c].tx \in Nat
      BY <1>1, CoinFacts
    <3>2. QED
      BY <3>1 DEF LedgerInv
  <2>2. QED
    BY <1>1, <1>11, <1>12, <1>13, <2>1
<1>17. QED
  BY <1>12, <1>14, <1>15, <1>16 DEF LedgerInv
(***************************************************************************)
(* What the first n transactions made of the accounts stays what it was:   *)
(* who took part in them, and the utxos and the balance they left.         *)
(***************************************************************************)
THEOREM PastStays ==
    ASSUME LedgerInv, LedgerInv', LedgerGrows
    PROVE  /\ \A u : \A t \in 1..Len(history) : Involves(u, t) => Involves(u, t)'
           /\ \A u : \A n \in 0..Len(history) :
                 /\ GetUtxos(u, n)' = GetUtxos(u, n)
                 /\ Amount(GetUtxos(u, n))' = Amount(GetUtxos(u, n))
<1>1. /\ Len(history) \in Nat
      /\ \A t \in 1..Len(history) : history'[t] = history[t]
      /\ DOMAIN coins \subseteq DOMAIN coins'
      /\ \A c \in DOMAIN coins : coins'[c] = coins[c]
      /\ \A c \in DOMAIN coins' : c \notin DOMAIN coins => coins'[c].tx > Len(history)
      /\ \A c \in DOMAIN coins' : coins'[c].tx \in Nat
  <2>1. \A c \in DOMAIN coins' : coins'[c].tx \in Nat
    <3>1. coins' \in Seq(Coins)
      BY DEF LedgerInv, LedgerTypeOK, Coins
    <3>2. QED
      BY <3>1, CoinFacts
  <2>2. QED
    BY <2>1 DEF LedgerInv, LedgerTypeOK, LedgerGrows, Extends
<1>2. ASSUME NEW u, NEW t \in 1..Len(history), Involves(u, t) PROVE Involves(u, t)'
  BY <1>1, <1>2 DEF Involves
<1>3. ASSUME NEW u, NEW n \in 0..Len(history)
      PROVE  /\ GetUtxos(u, n)' = GetUtxos(u, n)
             /\ Amount(GetUtxos(u, n))' = Amount(GetUtxos(u, n))
  <2>1. \A c \in DOMAIN coins' : c \notin DOMAIN coins => ~(coins'[c].tx <= n)
    BY <1>1
  <2>2. GetUtxos(u, n)' = GetUtxos(u, n)
    BY <1>1, <2>1 DEF GetUtxos
  <2>3. \A c \in GetUtxos(u, n) : coins'[c].amount = coins[c].amount
    BY <1>1 DEF GetUtxos
  <2>4. [c \in GetUtxos(u, n)' |-> coins'[c].amount] = [c \in GetUtxos(u, n) |-> coins[c].amount]
    BY <2>2, <2>3
  <2>5. QED
    BY <2>2, <2>4 DEF Amount
<1>4. QED
  BY <1>2, <1>3

---------------------------------------------------------------------------
(* The invariant *)

FormRecord ==
    [stage     : {"idle", "clicked", "listing", "selected", "ready", "submitted",
                  "modal", "merging", "listing merge"},
     back      : {"idle", "modal"},
     amount    : Nat,
     recipient : Owner \cup {NoAccount},
     account   : Account \cup {NoAccount},
     utxos     : SUBSET Nat,
     tx        : Nat]

(* What a form knows: cs and h are the utxos and transactions there are.   *)
FormOK(x, cs, h) ==
    /\ x \in FormRecord
    /\ x.utxos \subseteq DOMAIN cs
    /\ x.stage \in {"clicked", "listing", "selected"} => x.back = "idle"
    /\ x.stage \in {"clicked", "listing", "selected", "ready"} => x.recipient \in Owner
    /\ x.stage \in {"listing", "ready", "submitted", "listing merge"} => x.account \in Account
    /\ x.stage = "submitted" => x.tx \in 1..Len(h) /\ h[x.tx].sender = x.account

FormsInv ==
    /\ form = [f \in Form |-> form[f]]
    /\ \A f \in Form : FormOK(form[f], coins, history)

SessionPollOK(x) ==
    /\ x \in [stage : {"idle", "account"}, account : Account \cup {NoAccount}]
    /\ x.stage = "account" => x.account \in Account

(* What a history poll knows: i transactions are indexed. *)
HistoryPollOK(x, i) ==
    \/ x \in [stage : {"idle"}, account : {NoAccount}]
    \/ x \in [stage : {"asked"}, account : Account]
    \/ x \in [stage : {"answered"}, account : Account, n : 0..i]

PollsInv ==
    /\ sessionPoll = [p \in SessionPoll |-> sessionPoll[p]]
    /\ \A p \in SessionPoll : SessionPollOK(sessionPoll[p])
    /\ historyPoll = [p \in HistoryPoll |-> historyPoll[p]]
    /\ \A p \in HistoryPoll : HistoryPollOK(historyPoll[p], indexed)

StoreInv ==
    /\ session \in [account : Account \cup {NoAccount}, balance : Nat]
    /\ transaction \in [Account -> [Tx -> Status]]
    /\ StoreIsSound

ClientInv ==
    /\ LedgerInv
    /\ wallet \in Account
    /\ StoreInv
    /\ FormsInv
    /\ PollsInv
    /\ SessionIsCoherent

---------------------------------------------------------------------------
(* Steps *)

FormAction(f) ==
    \/ \E amount \in Amounts, recipient \in Recipients : HandleTransfer(f, amount, recipient)
    \/ HandleMerge(f) \/ CloseModal(f)
    \/ GetActiveAccount(f) \/ GetSpendableUtxos(f) \/ Merge(f)
    \/ SubmitTransaction(f) \/ Created(f) \/ FormFails(f)

SessionAction(p) ==
    GetSession(p) \/ GetPointBalance(p) \/ NoPointBalance(p) \/ SessionFails(p)

HistoryAction(p) ==
    GetAllTransactions(p) \/ GetTransactions(p) \/ GotTransactions(p) \/ HistoryFails(p)

LEMMA NextActions ==
    Next <=> \/ \E f \in Form : FormAction(f)
             \/ \E p \in SessionPoll : SessionAction(p)
             \/ \E p \in HistoryPoll : HistoryAction(p)
             \/ Environment
  BY DEF Next, FormAction, SessionAction, HistoryAction

(* Only a form submits, and only the watcher indexes. *)
LEMMA LedgerStep ==
    ASSUME ClientInv, [Next]_vars
    PROVE  LedgerInv' /\ LedgerGrows
<1>1. ASSUME NEW f \in Form, FormAction(f) PROVE LedgerInv' /\ LedgerGrows
  <2>1. CASE SubmitTransaction(f)
    <3>1. FormOK(form[f], coins, history) /\ form[f].stage = "ready"
      BY <2>1 DEF ClientInv, FormsInv, SubmitTransaction
    <3>2. form[f].account \in Account /\ form[f].recipient \in Owner /\ form[f].amount \in Nat
      BY <3>1 DEF FormOK, FormRecord
    <3>3. Accept(form[f].account, form[f].utxos, form[f].amount, form[f].recipient)
      BY <2>1 DEF SubmitTransaction
    <3>4. QED
      BY <3>2, <3>3, AcceptGrows DEF ClientInv
  <2>2. CASE UNCHANGED ledgerVars
    BY <2>2, UnchangedGrows DEF ClientInv
  <2>3. QED
    BY <1>1, <2>1, <2>2 DEF FormAction, Step, HandleTransfer, HandleMerge, CloseModal,
          GetActiveAccount, GetSpendableUtxos, Merge, Created, FormFails
<1>2. ASSUME NEW p \in SessionPoll, SessionAction(p) PROVE UNCHANGED ledgerVars
  BY <1>2 DEF SessionAction, SessionStep, GetSession, GetPointBalance, NoPointBalance, SessionFails
<1>3. ASSUME NEW p \in HistoryPoll, HistoryAction(p) PROVE UNCHANGED ledgerVars
  BY <1>3 DEF HistoryAction, HistoryStep, GetAllTransactions, GetTransactions, GotTransactions, HistoryFails
<1>4. ASSUME Environment PROVE Index \/ UNCHANGED ledgerVars
  BY <1>4 DEF Environment, SwitchAccount
<1>5. QED
  BY <1>1, <1>2, <1>3, <1>4, NextActions, IndexGrows, UnchangedGrows DEF ClientInv, vars

LEMMA FormKept ==
    ASSUME NEW x, NEW cs, NEW h, NEW cs2, NEW h2, Len(h) \in Nat, Len(h2) \in Nat,
           Extends(cs, h, cs2, h2), FormOK(x, cs, h)
    PROVE  FormOK(x, cs2, h2)
<1>1. x.stage = "submitted" => x.tx \in 1..Len(h2) /\ h2[x.tx].sender = x.account
  BY DEF FormOK, Extends
<1>2. x.utxos \subseteq DOMAIN cs2
  BY DEF FormOK, Extends
<1>3. QED
  BY <1>1, <1>2 DEF FormOK

(* What a form has read stays true, and what it goes on with is good.      *)
LEMMA FormsChange ==
    ASSUME LedgerInv, LedgerInv', LedgerGrows, FormsInv, NEW f \in Form,
           form' = [form EXCEPT ![f] = form'[f]], FormOK(form'[f], coins', history')
    PROVE  FormsInv'
<1>1. \A g \in Form : FormOK(form[g], coins', history')
  <2>1. Len(history) \in Nat /\ Len(history') \in Nat /\ Extends(coins, history, coins', history')
    BY DEF LedgerInv, LedgerTypeOK, LedgerGrows
  <2>2. QED
    BY <2>1, FormKept DEF FormsInv
<1>2. QED
  BY <1>1 DEF FormsInv

LEMMA FormsUnchanged ==
    ASSUME LedgerInv, LedgerInv', LedgerGrows, FormsInv, form' = form
    PROVE  FormsInv'
<1>1. Len(history) \in Nat /\ Len(history') \in Nat /\ Extends(coins, history, coins', history')
  BY DEF LedgerInv, LedgerTypeOK, LedgerGrows
<1>2. QED
  BY <1>1, FormKept DEF FormsInv

LEMMA BlankOK ==
    ASSUME NEW cs, NEW h
    PROVE  FormOK(Blank, cs, h) /\ FormOK(Modal, cs, h)
  BY DEF FormOK, FormRecord, Blank, Modal

LEMMA FormsStep ==
    ASSUME ClientInv, LedgerInv', LedgerGrows, NEW f \in Form, FormAction(f)
    PROVE  FormsInv'
<1> DEFINE x == form[f]
<1>1. /\ FormOK(x, coins, history) /\ wallet \in Account
      /\ form = [g \in Form |-> form[g]]
      /\ LedgerTypeOK /\ DOMAIN coins = 1..Len(coins) /\ Len(coins) \in Nat
  <2>1. coins \in Seq(Coins)
    BY DEF ClientInv, LedgerInv, LedgerTypeOK, Coins
  <2>2. QED
    BY <2>1, CoinFacts DEF ClientInv, FormsInv, LedgerInv
<1>2. ASSUME NEW v, FormOK(v, coins, history), Step(f, v) PROVE FormsInv'
  <2>1. form'[f] = v /\ form' = [form EXCEPT ![f] = form'[f]] /\ coins' = coins /\ history' = history
    BY <1>1, <1>2 DEF Step, ledgerVars
  <2>2. QED
    BY <1>2, <2>1, FormsChange DEF ClientInv
<1>3. ASSUME NEW amount \in Amounts, NEW recipient \in Recipients, HandleTransfer(f, amount, recipient)
      PROVE  FormsInv'
  <2> DEFINE v == [Blank EXCEPT !.stage = "clicked", !.amount = amount, !.recipient = recipient]
  <2>1. amount \in Nat /\ recipient \in Owner
    BY ClientAssumption
  <2>2. FormOK(v, coins, history)
    BY <2>1 DEF FormOK, FormRecord, Blank
  <2>3. Step(f, v)
    BY <1>3 DEF HandleTransfer
  <2>4. QED
    BY <1>2, <2>2, <2>3
<1>4. ASSUME HandleMerge(f) PROVE FormsInv'
  <2> DEFINE v == [Modal EXCEPT !.stage = "merging"]
  <2>1. FormOK(v, coins, history)
    BY DEF FormOK, FormRecord, Modal, Blank
  <2>2. Step(f, v)
    BY <1>4 DEF HandleMerge
  <2>3. QED
    BY <1>2, <2>1, <2>2
<1>5. ASSUME CloseModal(f) PROVE FormsInv'
  BY <1>2, <1>5, BlankOK DEF CloseModal
<1>6. ASSUME GetActiveAccount(f) PROVE FormsInv'
  <2> DEFINE v(stage) == [x EXCEPT !.stage = stage, !.account = wallet]
  <2>1. \/ x.stage = "clicked" /\ Step(f, v("listing"))
        \/ x.stage = "selected" /\ Step(f, v("ready"))
        \/ x.stage = "merging" /\ Step(f, v("listing merge"))
    <3>1. PICK step \in {<<"clicked", "listing">>, <<"selected", "ready">>,
                         <<"merging", "listing merge">>} :
             x.stage = step[1] /\ Step(f, v(step[2]))
      BY <1>6 DEF GetActiveAccount
    <3> HIDE DEF v, x
    <3>2. CASE step = <<"clicked", "listing">>
      BY <3>1, <3>2
    <3>3. CASE step = <<"selected", "ready">>
      BY <3>1, <3>3
    <3>4. CASE step = <<"merging", "listing merge">>
      BY <3>1, <3>4
    <3>5. QED
      BY <3>2, <3>3, <3>4
  <2>2. CASE x.stage = "clicked" /\ Step(f, v("listing"))
    <3>1. FormOK(v("listing"), coins, history)
      BY <1>1, <2>2 DEF FormOK, FormRecord
    <3>2. QED
      BY <1>2, <2>2, <3>1
  <2>3. CASE x.stage = "selected" /\ Step(f, v("ready"))
    <3>1. FormOK(v("ready"), coins, history)
      BY <1>1, <2>3 DEF FormOK, FormRecord
    <3>2. QED
      BY <1>2, <2>3, <3>1
  <2>4. CASE x.stage = "merging" /\ Step(f, v("listing merge"))
    <3>1. FormOK(v("listing merge"), coins, history)
      BY <1>1, <2>4 DEF FormOK, FormRecord
    <3>2. QED
      BY <1>2, <2>4, <3>1
  <2>5. QED
    BY <2>1, <2>2, <2>3, <2>4
<1>7. ASSUME GetSpendableUtxos(f) PROVE FormsInv'
  <2> DEFINE S == GetUtxos(x.account, indexed)
             v == [x EXCEPT !.stage = "selected", !.utxos = SpendableUtxos(S)]
  <2>1. SpendableUtxos(S) \subseteq DOMAIN coins /\ SpendableUtxos(S) \in SUBSET Nat
    BY <1>1 DEF SpendableUtxos, Largest, GetUtxos
  <2>2. x.stage = "listing" /\ (Step(f, Modal) \/ Step(f, v))
    BY <1>7 DEF GetSpendableUtxos
  <2> HIDE DEF S
  <2>3. FormOK(v, coins, history)
    BY <1>1, <2>1, <2>2 DEF FormOK, FormRecord
  <2>4. QED
    BY <1>2, <2>2, <2>3, BlankOK
<1>8. ASSUME Merge(f) PROVE FormsInv'
  <2> DEFINE S == Largest(GetUtxos(x.account, indexed), MaxMerge)
             v == [x EXCEPT !.stage = "ready", !.utxos = S, !.amount = Amount(S),
                            !.recipient = x.account]
  <2>1. S \subseteq DOMAIN coins /\ S \in SUBSET Nat
    BY <1>1 DEF Largest, GetUtxos
  <2>2. x.stage = "listing merge" /\ Step(f, v)
    BY <1>8 DEF Merge
  <2> HIDE DEF S
  <2>3. Amount(S) \in Nat
    BY <1>1, <2>1, AmountIsNat
  <2>4. FormOK(v, coins, history)
    BY <1>1, <2>1, <2>2, <2>3 DEF FormOK, FormRecord, Owner
  <2>5. QED
    BY <1>2, <2>2, <2>4
<1>9. ASSUME SubmitTransaction(f) PROVE FormsInv'
  <2> DEFINE t == Len(history) + 1
             v == [Blank EXCEPT !.stage = "submitted", !.back = x.back,
                                !.account = x.account, !.tx = t]
  <2>1. /\ x.stage = "ready" /\ form' = [form EXCEPT ![f] = v]
        /\ Accept(x.account, x.utxos, x.amount, x.recipient)
    BY <1>9 DEF SubmitTransaction
  <2>2. x.account \in Account /\ x.recipient \in Owner /\ x.amount \in Nat /\ x.back \in {"idle", "modal"}
    BY <1>1, <2>1 DEF FormOK, FormRecord
  <2>3. /\ Len(history') = Len(history) + 1
        /\ history'[Len(history) + 1].sender = x.account
        /\ Len(history) \in Nat
    BY <2>1, <2>2, AcceptGrows DEF ClientInv, LedgerInv, LedgerTypeOK
  <2>4. FormOK(v, coins', history')
    <3>1. t \in Nat /\ t \in 1..Len(history')
      BY <2>3
    <3> HIDE DEF t
    <3>2. v \in FormRecord
      BY <2>2, <3>1 DEF FormRecord, Blank
    <3>3. /\ v.stage = "submitted" /\ v.tx = t /\ v.account = x.account /\ v.utxos = {}
      BY DEF Blank
    <3>4. history'[t].sender = x.account
      BY <2>3 DEF t
    <3>5. QED
      BY <2>2, <3>1, <3>2, <3>3, <3>4 DEF FormOK
  <2>5. form'[f] = v /\ form' = [form EXCEPT ![f] = form'[f]]
    BY <1>1, <2>1
  <2>6. QED
    BY <2>4, <2>5, FormsChange DEF ClientInv
<1>10. ASSUME Created(f) PROVE FormsInv'
  <2>1. form'[f] = Blank /\ form' = [form EXCEPT ![f] = form'[f]]
    BY <1>1, <1>10 DEF Created
  <2>2. QED
    BY <2>1, BlankOK, FormsChange DEF ClientInv
<1>11. ASSUME FormFails(f) PROVE FormsInv'
  BY <1>2, <1>11, BlankOK DEF FormFails
<1>12. QED
  BY <1>3, <1>4, <1>5, <1>6, <1>7, <1>8, <1>9, <1>10, <1>11 DEF FormAction

(***************************************************************************)
(* The polls                                                               *)
(***************************************************************************)
LEMMA HistoryPollKept ==
    ASSUME NEW x, NEW i \in Nat, NEW j \in Nat, i <= j, HistoryPollOK(x, i)
    PROVE  HistoryPollOK(x, j)
  BY DEF HistoryPollOK

LEMMA IndexedFacts ==
    ASSUME LedgerInv, LedgerInv', LedgerGrows
    PROVE  indexed \in Nat /\ indexed' \in Nat /\ indexed <= indexed'
  BY DEF LedgerInv, LedgerTypeOK, LedgerGrows

LEMMA PollsKept ==
    ASSUME LedgerInv, LedgerInv', LedgerGrows, PollsInv, UNCHANGED <<sessionPoll, historyPoll>>
    PROVE  PollsInv'
  BY IndexedFacts, HistoryPollKept DEF PollsInv

LEMMA SessionPollChange ==
    ASSUME PollsInv, NEW p \in SessionPoll, NEW x, SessionPollOK(x), SessionStep(p, x)
    PROVE  PollsInv'
  BY DEF PollsInv, SessionStep, ledgerVars

LEMMA HistoryPollChange ==
    ASSUME PollsInv, NEW p \in HistoryPoll, NEW x, HistoryPollOK(x, indexed), HistoryStep(p, x)
    PROVE  PollsInv'
  BY DEF PollsInv, HistoryStep, ledgerVars

LEMMA PollsStep ==
    ASSUME ClientInv, LedgerInv', LedgerGrows, [Next]_vars
    PROVE  PollsInv'
<1>1. /\ LedgerInv /\ PollsInv /\ wallet \in Account /\ indexed \in Nat
      /\ session.account \in Account \cup {NoAccount}
  BY DEF ClientInv, LedgerInv, LedgerTypeOK, StoreInv
<1>2. ASSUME NEW p \in SessionPoll, SessionAction(p) PROVE PollsInv'
  <2>1. SessionPollOK(Idle) /\ SessionPollOK([stage |-> "account", account |-> wallet])
    BY <1>1 DEF SessionPollOK, Idle
  <2>2. SessionStep(p, Idle) \/ SessionStep(p, [stage |-> "account", account |-> wallet])
    BY <1>2 DEF SessionAction, GetSession, GetPointBalance, NoPointBalance, SessionFails
  <2>3. QED
    BY <1>1, <2>1, <2>2, SessionPollChange
<1>3. ASSUME NEW p \in HistoryPoll, HistoryAction(p) PROVE PollsInv'
  <2>1. HistoryPollOK(Idle, indexed)
    BY DEF HistoryPollOK, Idle
  <2>2. CASE HistoryStep(p, Idle)
    BY <1>1, <2>1, <2>2, HistoryPollChange
  <2>3. CASE GetAllTransactions(p)
    <3>1. HistoryPollOK([stage |-> "asked", account |-> session.account], indexed)
      BY <1>1, <2>3 DEF GetAllTransactions, HistoryPollOK
    <3>2. HistoryStep(p, [stage |-> "asked", account |-> session.account])
      BY <2>3 DEF GetAllTransactions
    <3>3. QED
      BY <1>1, <3>1, <3>2, HistoryPollChange
  <2>4. CASE GetTransactions(p)
    <3> DEFINE x == [stage |-> "answered", account |-> historyPoll[p].account, n |-> indexed]
    <3>1. historyPoll[p].stage = "asked" /\ HistoryStep(p, x)
      BY <2>4 DEF GetTransactions
    <3>2. HistoryPollOK(historyPoll[p], indexed)
      BY <1>1 DEF PollsInv
    <3>3. historyPoll[p].account \in Account
      BY <3>1, <3>2 DEF HistoryPollOK
    <3>4. HistoryPollOK(x, indexed)
      BY <1>1, <3>3 DEF HistoryPollOK
    <3>5. QED
      BY <1>1, <3>1, <3>4, HistoryPollChange
  <2>5. QED
    BY <1>3, <2>2, <2>3, <2>4 DEF HistoryAction, GotTransactions, HistoryFails
<1>4. ASSUME NEW f \in Form, FormAction(f) PROVE UNCHANGED <<sessionPoll, historyPoll>>
  BY <1>4 DEF FormAction, Step, HandleTransfer, HandleMerge, CloseModal, GetActiveAccount,
        GetSpendableUtxos, Merge, SubmitTransaction, Created, FormFails
<1>5. ASSUME Environment PROVE UNCHANGED <<sessionPoll, historyPoll>>
  BY <1>5 DEF Environment, SwitchAccount, clientVars
<1>6. ASSUME UNCHANGED vars PROVE UNCHANGED <<sessionPoll, historyPoll>>
  BY <1>6 DEF vars, clientVars
<1>7. QED
  BY <1>1, <1>2, <1>3, <1>4, <1>5, <1>6, PollsKept, NextActions

---------------------------------------------------------------------------
(* The store *)

(* What the store says of one transaction of u. *)
StatusOK(u, t, status) ==
    status # "unknown" =>
       /\ t <= Len(history) /\ Involves(u, t)
       /\ status = "Confirmed" => t <= indexed
       /\ status = "Pending" => history[t].sender = u

LEMMA StatusKept ==
    ASSUME LedgerInv, LedgerInv', LedgerGrows
    PROVE  \A u \in Account, t \in Tx, status \in Status :
              StatusOK(u, t, status) => StatusOK(u, t, status)'
<1>1. ASSUME NEW u \in Account, NEW t \in Tx, NEW status \in Status, StatusOK(u, t, status),
             status # "unknown"
      PROVE  StatusOK(u, t, status)'
  <2>1. /\ Len(history) \in Nat /\ Len(history') \in Nat /\ t \in Nat /\ t >= 1
        /\ Len(history) <= Len(history') /\ \A n \in 1..Len(history) : history'[n] = history[n]
    BY LedgerAssumption DEF LedgerInv, LedgerTypeOK, LedgerGrows, Extends, Tx
  <2>2. t \in 1..Len(history) /\ Involves(u, t)
    BY <1>1, <2>1 DEF StatusOK
  <2>3. Involves(u, t)'
    BY <2>2, PastStays
  <2>4. history'[t] = history[t]
    BY <2>1, <2>2
  <2>5. status = "Confirmed" => t <= indexed'
    BY <1>1, <2>1, IndexedFacts DEF StatusOK
  <2>6. QED
    BY <1>1, <2>1, <2>2, <2>3, <2>4, <2>5 DEF StatusOK
<1>2. QED
  BY <1>1 DEF StatusOK

(* Each entry stays as it was, or is true of the transactions there are.   *)
LEMMA StoreChange ==
    ASSUME LedgerInv, LedgerInv', LedgerGrows, StoreIsSound,
           transaction' \in [Account -> [Tx -> Status]],
           \A u \in Account, t \in Tx, status \in Status :
              transaction'[u][t] = status =>
                 transaction[u][t] = status \/ StatusOK(u, t, status)'
    PROVE  StoreIsSound'
<1>1. \A u \in Account, t \in Tx, status \in Status :
         transaction[u][t] = status => StatusOK(u, t, status)
  BY DEF StoreIsSound, StatusOK
<1>2. \A u \in Account, t \in Tx, status \in Status :
         transaction'[u][t] = status => StatusOK(u, t, status)'
  BY <1>1, StatusKept
<1>3. (\A u \in Account, t \in Tx : StatusOK(u, t, transaction[u][t]))'
  BY <1>2 DEF StatusOK
<1>4. QED
  BY <1>3 DEF StoreIsSound, StatusOK

LEMMA CreatedSound ==
    ASSUME ClientInv, LedgerInv', LedgerGrows, NEW f \in Form, Created(f)
    PROVE  transaction' \in [Account -> [Tx -> Status]] /\ StoreIsSound'
<1>1. /\ LedgerInv /\ StoreIsSound /\ transaction \in [Account -> [Tx -> Status]]
      /\ FormOK(form[f], coins, history)
      /\ Len(history) \in Nat /\ history' = history /\ coins' = coins
  BY DEF ClientInv, StoreInv, FormsInv, LedgerInv, LedgerTypeOK, Created, ledgerVars
<1>2. PICK u \in Account, t \in 1..Len(history) :
         /\ history[t].sender = u
         /\ transaction' = [transaction EXCEPT ![u][t] = "Pending"]
  BY <1>1 DEF Created, FormOK
<1>3. t \in Tx
  BY <1>1, <1>2, LedgerAssumption DEF LedgerInv, LedgerTypeOK, Tx
<1>4. transaction' \in [Account -> [Tx -> Status]]
  BY <1>1, <1>2, <1>3 DEF Status
<1>5. transaction'[u][t] = "Pending"
  BY <1>1, <1>2, <1>3
<1>6. \A v \in Account, s \in Tx :
         (v = u /\ s = t) \/ transaction'[v][s] = transaction[v][s]
  BY <1>1, <1>2, <1>3
<1>7. StatusOK(u, t, "Pending")'
  BY <1>1, <1>2 DEF StatusOK, Involves
<1>8. \A v \in Account, s \in Tx, status \in Status :
         transaction'[v][s] = status =>
            transaction[v][s] = status \/ StatusOK(v, s, status)'
  BY <1>5, <1>6, <1>7
<1>9. QED
  BY <1>1, <1>4, <1>8, StoreChange

LEMMA GotTransactionsSound ==
    ASSUME ClientInv, LedgerInv', LedgerGrows, NEW p \in HistoryPoll, GotTransactions(p)
    PROVE  transaction' \in [Account -> [Tx -> Status]] /\ StoreIsSound'
<1>1. /\ LedgerInv /\ StoreIsSound /\ transaction \in [Account -> [Tx -> Status]]
      /\ HistoryPollOK(historyPoll[p], indexed) /\ historyPoll[p].stage = "answered"
      /\ history' = history /\ coins' = coins /\ indexed' = indexed
  BY DEF ClientInv, StoreInv, PollsInv, GotTransactions, HistoryStep, ledgerVars
<1>2. historyPoll[p].account \in Account /\ historyPoll[p].n \in 0..indexed
  BY <1>1 DEF HistoryPollOK
<1>3. PICK u \in Account, n \in 0..indexed :
         transaction' = [transaction EXCEPT ![u] =
              [t \in Tx |-> IF t \in Page(u, n) THEN "Confirmed" ELSE @[t]]]
  BY <1>2 DEF GotTransactions
<1> DEFINE page == {t \in Tx : t \in Page(u, n)}
<1>4. transaction' = [transaction EXCEPT ![u] =
              [t \in Tx |-> IF t \in page THEN "Confirmed" ELSE @[t]]]
  BY <1>1, <1>3
<1>5. ASSUME NEW t \in page PROVE StatusOK(u, t, "Confirmed")'
  <2>1. t \in 1..n /\ Involves(u, t) /\ indexed \in 0..Len(history) /\ Len(history) \in Nat
    BY <1>1 DEF Page, LedgerInv, LedgerTypeOK
  <2>2. t \in 1..Len(history) /\ t <= indexed
    BY <1>3, <2>1
  <2>3. QED
    BY <1>1, <2>1, <2>2 DEF StatusOK, Involves
<1> HIDE DEF page
<1>6. /\ transaction' \in [Account -> [Tx -> Status]]
      /\ \A v \in Account, t \in Tx :
            \/ transaction'[v][t] = transaction[v][t]
            \/ v = u /\ t \in page /\ transaction'[v][t] = "Confirmed"
  BY <1>1, <1>3, <1>4 DEF Status
<1>7. \A v \in Account, t \in Tx, status \in Status :
         transaction'[v][t] = status =>
            transaction[v][t] = status \/ StatusOK(v, t, status)'
  BY <1>5, <1>6
<1>8. QED
  BY <1>1, <1>6, <1>7, StoreChange

LEMMA StoreStep ==
    ASSUME ClientInv, LedgerInv', LedgerGrows, [Next]_vars
    PROVE  transaction' \in [Account -> [Tx -> Status]] /\ StoreIsSound'
<1>1. LedgerInv /\ StoreIsSound /\ transaction \in [Account -> [Tx -> Status]]
  BY DEF ClientInv, StoreInv
<1>2. ASSUME transaction' = transaction
      PROVE  transaction' \in [Account -> [Tx -> Status]] /\ StoreIsSound'
  <2>1. \A u \in Account, t \in Tx, status \in Status :
           transaction'[u][t] = status => transaction[u][t] = status
    BY <1>2
  <2>2. QED
    BY <1>1, <1>2, <2>1, StoreChange
<1>3. ASSUME NEW f \in Form, FormAction(f) PROVE Created(f) \/ transaction' = transaction
  BY <1>3 DEF FormAction, Step, HandleTransfer, HandleMerge, CloseModal, GetActiveAccount,
        GetSpendableUtxos, Merge, SubmitTransaction, FormFails, storeVars
<1>4. ASSUME NEW p \in SessionPoll, SessionAction(p) PROVE transaction' = transaction
  BY <1>4 DEF SessionAction, SessionStep, GetSession, GetPointBalance, NoPointBalance, SessionFails
<1>5. ASSUME NEW p \in HistoryPoll, HistoryAction(p) PROVE GotTransactions(p) \/ transaction' = transaction
  BY <1>5 DEF HistoryAction, GetAllTransactions, GetTransactions, HistoryFails
<1>6. ASSUME Environment \/ UNCHANGED vars PROVE transaction' = transaction
  BY <1>6 DEF Environment, SwitchAccount, storeVars, clientVars, vars
<1>7. QED
  BY <1>2, <1>3, <1>4, <1>5, <1>6, CreatedSound, GotTransactionsSound, NextActions

---------------------------------------------------------------------------
(* The session *)

(* b is a balance that u had, or 0. *)
WasBalance(u, b) ==
    b # 0 => \E n \in 0..indexed : b = Amount(GetUtxos(u, n))

LEMMA WasBalanceKept ==
    ASSUME LedgerInv, LedgerInv', LedgerGrows
    PROVE  \A u, b : WasBalance(u, b) => WasBalance(u, b)'
<1>1. ASSUME NEW u, NEW b, b # 0, WasBalance(u, b) PROVE WasBalance(u, b)'
  <2>1. PICK n \in 0..indexed : b = Amount(GetUtxos(u, n))
    BY <1>1 DEF WasBalance
  <2>2. n \in 0..Len(history) /\ n \in 0..indexed'
    BY <2>1, IndexedFacts DEF LedgerInv, LedgerTypeOK
  <2>3. Amount(GetUtxos(u, n))' = Amount(GetUtxos(u, n))
    BY <2>2, PastStays
  <2>4. QED
    BY <2>1, <2>2, <2>3 DEF WasBalance
<1>2. QED
  BY <1>1 DEF WasBalance

LEMMA SessionStays ==
    ASSUME ClientInv, LedgerInv', LedgerGrows, session' = session
    PROVE  session' \in [account : Account \cup {NoAccount}, balance : Nat] /\ SessionIsCoherent'
<1>1. /\ session \in [account : Account \cup {NoAccount}, balance : Nat]
      /\ WasBalance(session.account, session.balance)
  BY DEF ClientInv, StoreInv, SessionIsCoherent, WasBalance
<1>2. PICK u, b : u = session.account /\ b = session.balance /\ WasBalance(u, b)
  BY <1>1
<1>3. WasBalance(u, b)'
  BY <1>2, WasBalanceKept DEF ClientInv
<1>4. SessionIsCoherent'
  BY <1>2, <1>3 DEF WasBalance, SessionIsCoherent, Amount, GetUtxos
<1>5. QED
  BY <1>1, <1>4

LEMMA SessionChanges ==
    ASSUME ClientInv, [Next]_vars, LedgerInv', LedgerGrows
    PROVE  session' \in [account : Account \cup {NoAccount}, balance : Nat] /\ SessionIsCoherent'
<1>1. ASSUME NEW f \in Form, FormAction(f) PROVE session' = session
  BY <1>1 DEF FormAction, Step, HandleTransfer, HandleMerge, CloseModal, GetActiveAccount,
        GetSpendableUtxos, Merge, SubmitTransaction, Created, FormFails, storeVars
<1>2. ASSUME NEW p \in HistoryPoll, HistoryAction(p) PROVE session' = session
  BY <1>2 DEF HistoryAction, HistoryStep, GetAllTransactions, GetTransactions, GotTransactions,
        HistoryFails
<1>3. ASSUME Environment \/ UNCHANGED vars PROVE session' = session
  BY <1>3 DEF Environment, SwitchAccount, storeVars, clientVars, vars
<1>4. ASSUME NEW p \in SessionPoll, SessionAction(p)
      PROVE  session' \in [account : Account \cup {NoAccount}, balance : Nat] /\ SessionIsCoherent'
  <2>1. /\ LedgerTypeOK /\ SessionPollOK(sessionPoll[p]) /\ indexed \in Nat
        /\ coins' = coins /\ history' = history /\ indexed' = indexed
    BY <1>4 DEF ClientInv, LedgerInv, LedgerTypeOK, PollsInv, SessionAction, SessionStep,
          GetSession, GetPointBalance, NoPointBalance, SessionFails, ledgerVars
  <2>2. CASE GetPointBalance(p)
    <3>1. PICK u \in Account : u = sessionPoll[p].account
      BY <2>1, <2>2 DEF GetPointBalance, SessionPollOK
    <3>2. session' = [account |-> u, balance |-> Amount(GetUtxos(u, indexed))]
      BY <2>2, <3>1 DEF GetPointBalance
    <3>3. GetUtxos(u, indexed) \subseteq DOMAIN coins
      BY DEF GetUtxos
    <3>4. Amount(GetUtxos(u, indexed)) \in Nat
      BY <2>1, <3>3, AmountIsNat
    <3>5. indexed \in 0..indexed'
      BY <2>1
    <3>6. session'.account = u /\ session'.balance = Amount(GetUtxos(u, indexed))
      BY <3>2
    <3>7. SessionIsCoherent'
      BY <2>1, <3>5, <3>6 DEF SessionIsCoherent, Amount, GetUtxos
    <3>8. QED
      BY <3>2, <3>4, <3>7
  <2>3. CASE NoPointBalance(p)
    <3>1. session' = [account |-> sessionPoll[p].account, balance |-> 0]
          /\ sessionPoll[p].account \in Account
      BY <2>1, <2>3 DEF NoPointBalance, SessionPollOK
    <3>2. QED
      BY <3>1 DEF SessionIsCoherent
  <2>4. CASE session' = session
    BY <2>4, SessionStays
  <2>5. QED
    BY <1>4, <2>2, <2>3, <2>4 DEF SessionAction, GetSession, SessionFails
<1>5. QED
  BY <1>1, <1>2, <1>3, <1>4, SessionStays, NextActions

---------------------------------------------------------------------------
(* The invariant holds *)

LEMMA WalletStep ==
    ASSUME ClientInv, [Next]_vars
    PROVE  wallet' \in Account
<1>1. ASSUME NEW f \in Form, FormAction(f) PROVE wallet' = wallet
  BY <1>1 DEF FormAction, Step, HandleTransfer, HandleMerge, CloseModal, GetActiveAccount,
        GetSpendableUtxos, Merge, SubmitTransaction, Created, FormFails
<1>2. ASSUME NEW p \in SessionPoll, SessionAction(p) PROVE wallet' = wallet
  BY <1>2 DEF SessionAction, SessionStep, GetSession, GetPointBalance, NoPointBalance, SessionFails
<1>3. ASSUME NEW p \in HistoryPoll, HistoryAction(p) PROVE wallet' = wallet
  BY <1>3 DEF HistoryAction, HistoryStep, GetAllTransactions, GetTransactions, GotTransactions,
        HistoryFails
<1>4. ASSUME Environment \/ UNCHANGED vars PROVE wallet' = wallet \/ wallet' \in Account
  BY <1>4 DEF Environment, SwitchAccount, clientVars, vars
<1>5. QED
  BY <1>1, <1>2, <1>3, <1>4, NextActions DEF ClientInv

LEMMA FormsStay ==
    ASSUME ClientInv, [Next]_vars, LedgerInv', LedgerGrows
    PROVE  FormsInv'
<1>1. ASSUME NEW p \in SessionPoll, SessionAction(p) PROVE form' = form
  BY <1>1 DEF SessionAction, SessionStep, GetSession, GetPointBalance, NoPointBalance, SessionFails
<1>2. ASSUME NEW p \in HistoryPoll, HistoryAction(p) PROVE form' = form
  BY <1>2 DEF HistoryAction, HistoryStep, GetAllTransactions, GetTransactions, GotTransactions,
        HistoryFails
<1>3. ASSUME Environment \/ UNCHANGED vars PROVE form' = form
  BY <1>3 DEF Environment, SwitchAccount, clientVars, vars
<1>4. QED
  BY <1>1, <1>2, <1>3, FormsStep, FormsUnchanged, NextActions DEF ClientInv

LEMMA ClientInit ==
    ASSUME Init
    PROVE  ClientInv
<1>1. coins \in Seq([owner : Owner, amount : Nat \ {0}, tx : {0}]) /\ coins = InitialCoins
      /\ history = <<>> /\ indexed = 0
  BY LedgerAssumption DEF Init, LedgerInit
<1>2. LedgerInv
  <2> DEFINE First == [owner : Owner, amount : Nat \ {0}, tx : {0}]
             All == [owner : Owner, amount : Nat \ {0}, tx : 0..MaxHistory]
             Txs == [sender : Account, spent : SUBSET (DOMAIN coins)]
  <2>1. First \subseteq All /\ MaxHistory \in Nat
    BY LedgerAssumption
  <2>2. coins \in Seq(All)
    <3> HIDE DEF First, All
    <3>1. coins \in Seq(First)
      BY <1>1 DEF First
    <3>2. QED
      BY <2>1, <3>1, SeqOfMore
  <2>3. history \in Seq(Txs) /\ Len(history) = 0
    <3> HIDE DEF Txs
    <3>1. QED
      BY <1>1
  <2>4. \A c \in First : c.tx = 0
    OBVIOUS
  <2>5. \A c \in DOMAIN coins : coins[c].tx <= Len(history)
    <3> HIDE DEF First
    <3>1. coins \in Seq(First)
      BY <1>1 DEF First
    <3>2. \A c \in DOMAIN coins : coins[c] \in First
      BY <3>1
    <3>3. QED
      BY <2>3, <2>4, <3>2
  <2>6. QED
    BY <1>1, <2>1, <2>2, <2>3, <2>5 DEF LedgerInv, LedgerTypeOK
<1>3. StoreInv /\ SessionIsCoherent
  BY DEF Init, StoreInv, StoreIsSound, SessionIsCoherent, Status
<1>4. FormsInv
  BY BlankOK DEF Init, FormsInv
<1>5. PollsInv
  BY DEF Init, PollsInv, SessionPollOK, HistoryPollOK, Idle
<1>6. wallet \in Account
  BY DEF Init
<1>7. QED
  BY <1>2, <1>3, <1>4, <1>5, <1>6 DEF ClientInv

(***************************************************************************)
(* At any time each form, each poll and the store know what they should.   *)
(***************************************************************************)
THEOREM ClientInvariant == Spec => []ClientInv
<1>1. Init => ClientInv
  BY ClientInit
<1>2. ClientInv /\ [Next]_vars => ClientInv'
  <2> SUFFICES ASSUME ClientInv, [Next]_vars PROVE ClientInv'
    OBVIOUS
  <2>1. LedgerInv' /\ LedgerGrows
    BY LedgerStep
  <2>2. FormsInv' /\ PollsInv' /\ wallet' \in Account
    BY <2>1, FormsStay, PollsStep, WalletStep
  <2>3. StoreInv' /\ SessionIsCoherent'
    BY <2>1, StoreStep, SessionChanges DEF StoreInv
  <2>4. QED
    BY <2>1, <2>2, <2>3 DEF ClientInv
<1>3. QED
  BY <1>1, <1>2, PTL DEF Spec

(***************************************************************************)
(* The client's variables keep their types: no form or poll goes on with   *)
(* an account, a utxo or a transaction that does not exist.                *)
(***************************************************************************)
THEOREM ClientTypesOK == Spec => []ClientTypeOK
<1>1. ClientInv => ClientTypeOK
  BY DEF ClientInv, LedgerInv, StoreInv, FormsInv, FormOK, FormRecord, PollsInv, SessionPollOK,
        HistoryPollOK, ClientTypeOK
<1>2. QED
  BY <1>1, ClientInvariant, PTL

(***************************************************************************)
(* The store files each transaction under an account it is about, and says *)
(* Confirmed or Pending only of what the watcher or the chain has          *)
(* (transactionReducer.ts), whatever the polls and the forms are doing.    *)
(***************************************************************************)
THEOREM StoreSound == Spec => []StoreIsSound
<1>1. ClientInv => StoreIsSound
  BY DEF ClientInv, StoreInv
<1>2. QED
  BY <1>1, ClientInvariant, PTL

(***************************************************************************)
(* The balance in the session is one that the session's account had, even  *)
(* if the wallet switched between the two questions of the poll.           *)
(***************************************************************************)
THEOREM SessionCoherent == Spec => []SessionIsCoherent
<1>1. ClientInv => SessionIsCoherent
  BY DEF ClientInv
<1>2. QED
  BY <1>1, ClientInvariant, PTL

---------------------------------------------------------------------------
(***************************************************************************)
(* The largest utxos                                                       *)
(***************************************************************************)

(* In a finite set some member has none before it. *)
LEMMA SomeFirst ==
    ASSUME NEW S, IsFiniteSet(S), S # {}, NEW R,
           \A c \in S : <<c, c>> \notin R,
           \A c, d, e \in S : <<c, d>> \in R /\ <<d, e>> \in R => <<c, e>> \in R
    PROVE  \E m \in S : \A d \in S : <<d, m>> \notin R
<1> DEFINE Pred(c) == {d \in S : <<d, c>> \in R}
           T == {Cardinality(Pred(c)) : c \in S}
<1>1. \A c \in S : IsFiniteSet(Pred(c)) /\ Cardinality(Pred(c)) \in Nat
  BY FS_Subset, FS_CardinalityType
<1>2. PICK n \in T : \A i \in T : ~(i < n)
  <2> HIDE DEF Pred
  <2>1. T \in SUBSET Nat /\ T # {}
    BY <1>1
  <2> HIDE DEF T
  <2>2. QED
    BY <2>1, LeastNumber
<1>3. PICK m \in S : n = Cardinality(Pred(m))
  BY <1>2
<1>4. ASSUME NEW d \in S, <<d, m>> \in R PROVE FALSE
  <2>1. Pred(d) \subseteq Pred(m) /\ d \in Pred(m) /\ d \notin Pred(d)
    BY <1>4
  <2>2. Cardinality(Pred(d)) <= Cardinality(Pred(m)) /\ Cardinality(Pred(d)) # Cardinality(Pred(m))
    <3>1. Pred(d) \in SUBSET Pred(m) /\ Pred(d) # Pred(m)
      BY <2>1
    <3>2. IsFiniteSet(Pred(m))
      BY <1>1
    <3> HIDE DEF Pred
    <3>3. QED
      BY <3>1, <3>2, FS_Subset
  <2> HIDE DEF Pred
  <2>3. Cardinality(Pred(d)) \in T /\ Cardinality(Pred(d)) \in Nat /\ n \in Nat
    BY <1>1, <1>3
  <2> HIDE DEF T
  <2>4. QED
    BY <1>2, <1>3, <2>2, <2>3
<1>5. QED
  BY <1>4

LEMMA BeforeIsOrder ==
    ASSUME LedgerTypeOK
    PROVE  /\ \A c \in DOMAIN coins : ~Before(c, c)
           /\ \A c, d \in DOMAIN coins : c = d \/ Before(c, d) \/ Before(d, c)
           /\ \A c, d, e \in DOMAIN coins : Before(c, d) /\ Before(d, e) => Before(c, e)
           /\ \A c, d \in DOMAIN coins : Before(c, d) => coins[d].amount <= coins[c].amount
<1>1. coins \in Seq(Coins)
  BY DEF LedgerTypeOK, Coins
<1>2. /\ DOMAIN coins = 1..Len(coins) /\ Len(coins) \in Nat
      /\ \A c \in DOMAIN coins : coins[c].amount \in Nat
  BY <1>1, CoinFacts
<1>3. QED
  BY <1>2 DEF Before

(***************************************************************************)
(* Largest has the first k of the list: none outside of it is worth more,  *)
(* and there are k of them unless that is all.                             *)
(***************************************************************************)
LEMMA LargestFacts ==
    ASSUME LedgerTypeOK, NEW S, S \subseteq DOMAIN coins, NEW k \in Nat
    PROVE  /\ IsFiniteSet(S) /\ Largest(S, k) \subseteq S
           /\ \A c \in S \ Largest(S, k), d \in Largest(S, k) : coins[c].amount <= coins[d].amount
           /\ Cardinality(Largest(S, k)) <= k
           /\ S # Largest(S, k) => Cardinality(Largest(S, k)) = k
<1> DEFINE L == Largest(S, k)
           Pred(c) == {d \in S : Before(d, c)}
<1>1. IsFiniteSet(S) /\ L \subseteq S /\ IsFiniteSet(L) /\ Cardinality(L) \in Nat
  <2>1. L \subseteq S
    BY DEF Largest
  <2> HIDE DEF L
  <2>2. QED
    BY <2>1, AmountIsNat, FS_Subset, FS_CardinalityType
<1>2. \A c \in S : /\ IsFiniteSet(Pred(c)) /\ Cardinality(Pred(c)) \in Nat
                   /\ c \in L <=> Cardinality(Pred(c)) < k
  <2>1. \A c \in S : IsFiniteSet(Pred(c)) /\ Cardinality(Pred(c)) \in Nat
    BY <1>1, FS_Subset, FS_CardinalityType
  <2>2. QED
    BY <2>1 DEF Largest
<1>3. \A c, d \in S : c # d => Before(c, d) \/ Before(d, c)
  BY BeforeIsOrder
<1>4. \A c, d, e \in S : Before(c, d) /\ Before(d, e) => Before(c, e)
  BY BeforeIsOrder
<1>5. \A c \in S : ~Before(c, c)
  BY BeforeIsOrder
<1> HIDE DEF L
<1>6. ASSUME NEW c \in S \ L, NEW d \in L PROVE Before(d, c)
  <2> SUFFICES ASSUME ~Before(d, c) PROVE FALSE
    OBVIOUS
  <2>1. Before(c, d)
    BY <1>1, <1>3, <1>6
  <2>2. Pred(c) \in SUBSET Pred(d)
    BY <1>1, <1>4, <1>6, <2>1
  <2>3. /\ IsFiniteSet(Pred(d)) /\ Cardinality(Pred(d)) \in Nat /\ Cardinality(Pred(d)) < k
        /\ Cardinality(Pred(c)) \in Nat /\ ~(Cardinality(Pred(c)) < k)
    BY <1>1, <1>2, <1>6
  <2> HIDE DEF Pred
  <2>4. Cardinality(Pred(c)) <= Cardinality(Pred(d))
    BY <2>2, <2>3, FS_Subset
  <2>5. QED
    BY <2>3, <2>4
<1>7. \A c \in S \ L, d \in L : coins[c].amount <= coins[d].amount
  BY <1>1, <1>6, BeforeIsOrder
<1> DEFINE R == {e \in S \X S : Before(e[1], e[2])}
           Rev == {e \in S \X S : Before(e[2], e[1])}
<1>8. \A c, d \in S : (<<c, d>> \in R <=> Before(c, d)) /\ (<<c, d>> \in Rev <=> Before(d, c))
  OBVIOUS
<1> HIDE DEF R, Rev
<1>9. Cardinality(L) <= k
  <2>1. CASE L = {}
    BY <1>1, <2>1, FS_EmptySet
  <2>2. CASE L # {}
    <3>1. PICK m \in L : \A d \in L : <<d, m>> \notin Rev
      <4>1. /\ \A c \in L : <<c, c>> \notin Rev
            /\ \A c, d, e \in L : <<c, d>> \in Rev /\ <<d, e>> \in Rev => <<c, e>> \in Rev
        BY <1>1, <1>4, <1>5, <1>8
      <4>2. QED
        BY <1>1, <2>2, <4>1, SomeFirst
    <3>2. L \ {m} \in SUBSET Pred(m)
      BY <1>1, <1>3, <1>8, <3>1
    <3>3. IsFiniteSet(Pred(m)) /\ Cardinality(Pred(m)) \in Nat /\ Cardinality(Pred(m)) < k
      BY <1>1, <1>2
    <3> HIDE DEF Pred
    <3>4. Cardinality(L \ {m}) <= Cardinality(Pred(m))
      BY <3>2, <3>3, FS_Subset
    <3>5. Cardinality(L \ {m}) = Cardinality(L) - 1
      BY <1>1, FS_RemoveElement
    <3>6. QED
      BY <1>1, <3>3, <3>4, <3>5
  <2>3. QED
    BY <2>1, <2>2
<1>10. ASSUME S # L PROVE Cardinality(L) = k
  <2>1. PICK m \in S \ L : \A d \in S \ L : <<d, m>> \notin R
    <3>1. /\ \A c \in S \ L : <<c, c>> \notin R
          /\ \A c, d, e \in S \ L : <<c, d>> \in R /\ <<d, e>> \in R => <<c, e>> \in R
      BY <1>4, <1>5, <1>8
    <3>2. IsFiniteSet(S \ L) /\ S \ L # {}
      BY <1>1, <1>10, FS_Subset
    <3>3. QED
      BY <3>1, <3>2, SomeFirst
  <2>2. Pred(m) \in SUBSET L
    BY <1>8, <2>1
  <2>3. Cardinality(Pred(m)) \in Nat /\ ~(Cardinality(Pred(m)) < k)
    BY <1>2, <2>1
  <2> HIDE DEF Pred
  <2>4. Cardinality(Pred(m)) <= Cardinality(L)
    BY <1>1, <2>2, FS_Subset
  <2>5. QED
    BY <1>1, <1>9, <2>3, <2>4
<1>11. QED
  BY <1>1, <1>7, <1>9, <1>10 DEF L

(***************************************************************************)
(* No k utxos are worth more than the k largest (getSpendableUtxos and     *)
(* merge, networkService.ts, take them from the sorted list).              *)
(***************************************************************************)
THEOREM LargestIsMost ==
    ASSUME LedgerTypeOK, NEW S, S \subseteq DOMAIN coins, NEW k \in Nat,
           NEW T \in SUBSET S, Cardinality(T) <= k
    PROVE  Amount(T) <= Amount(Largest(S, k))
<1> DEFINE L == Largest(S, k)
           f == [c \in S |-> coins[c].amount]
           A == T \ L
           B == L \ T
           C == T \cap L
<1>1. /\ IsFiniteSet(S) /\ L \subseteq S /\ Cardinality(L) <= k
      /\ S # L => Cardinality(L) = k
      /\ \A c \in S \ L, d \in L : coins[c].amount <= coins[d].amount
  BY LargestFacts
<1> HIDE DEF L
<1>2. \A c \in S : f[c] \in Nat
  <2>1. coins \in Seq(Coins)
    BY DEF LedgerTypeOK, Coins
  <2>2. QED
    BY <2>1, CoinFacts
<1>3. /\ A \in SUBSET S /\ B \in SUBSET S /\ C \in SUBSET S
      /\ T = A \cup C /\ L = B \cup C /\ A \cap C = {} /\ B \cap C = {}
      /\ \A a \in A, b \in B : f[a] <= f[b]
      /\ S = L => A = {}
  BY <1>1
<1>4. \A X \in SUBSET S : /\ IsFiniteSet(X) /\ Cardinality(X) \in Nat
                          /\ Amount(X) = SumFunctionOnSet(f, X)
                          /\ SumFunctionOnSet(f, X) \in Nat
  <2> SUFFICES ASSUME NEW X \in SUBSET S
               PROVE  /\ IsFiniteSet(X) /\ Cardinality(X) \in Nat
                      /\ Amount(X) = SumFunctionOnSet(f, X)
                      /\ SumFunctionOnSet(f, X) \in Nat
    OBVIOUS
  <2>1. IsFiniteSet(X) /\ Cardinality(X) \in Nat
    BY <1>1, FS_Subset, FS_CardinalityType
  <2>2. Amount(X) = SumFunctionOnSet([c \in X |-> coins[c].amount], X)
    BY AmountIsNat
  <2>3. \A c \in X : [d \in X |-> coins[d].amount][c] = f[c] /\ f[c] \in Nat
    BY <1>2
  <2> HIDE DEF f
  <2>4. QED
    BY <2>1, <2>2, <2>3, SumSame, SumNat
<1> HIDE DEF A, B, C, f
<1>5. Cardinality(A) <= Cardinality(B)
  <2>1. /\ Cardinality(T) = Cardinality(A) + Cardinality(C)
        /\ Cardinality(L) = Cardinality(B) + Cardinality(C)
    <3>1. Cardinality(A \cup C) = Cardinality(A) + Cardinality(C) - Cardinality(A \cap C)
      BY <1>3, <1>4, FS_Union
    <3>2. Cardinality(B \cup C) = Cardinality(B) + Cardinality(C) - Cardinality(B \cap C)
      BY <1>3, <1>4, FS_Union
    <3>3. Cardinality(A \cap C) = 0 /\ Cardinality(B \cap C) = 0
      BY <1>3, FS_EmptySet
    <3>4. QED
      BY <1>3, <1>4, <3>1, <3>2, <3>3
  <2>2. CASE S = L
    BY <1>3, <1>4, <2>2, FS_EmptySet
  <2>3. CASE S # L
    BY <1>1, <1>3, <1>4, <2>1, <2>3
  <2>4. QED
    BY <2>2, <2>3
<1>6. SumFunctionOnSet(f, A) <= SumFunctionOnSet(f, B)
  BY <1>1, <1>2, <1>3, <1>5, SumExchange
<1>7. /\ SumFunctionOnSet(f, T) = SumFunctionOnSet(f, A) + SumFunctionOnSet(f, C)
      /\ SumFunctionOnSet(f, L) = SumFunctionOnSet(f, B) + SumFunctionOnSet(f, C)
  <2>1. \A c \in S : f[c] \in Int
    BY <1>2
  <2>2. SumFunctionOnSet(f, A \cup C) = SumFunctionOnSet(f, A) + SumFunctionOnSet(f, C)
    BY <1>3, <1>4, <2>1, SumUnion
  <2>3. SumFunctionOnSet(f, B \cup C) = SumFunctionOnSet(f, B) + SumFunctionOnSet(f, C)
    BY <1>3, <1>4, <2>1, SumUnion
  <2>4. QED
    BY <1>3, <2>2, <2>3
<1>8. QED
  BY <1>1, <1>3, <1>4, <1>6, <1>7 DEF L

(***************************************************************************)
(* The modal that asks the user to merge appears only when no three utxos  *)
(* cover the amount; when some do, those chosen for the transfer do.       *)
(***************************************************************************)
THEOREM MergesOnlyIfNeeded == Spec => MergeOnlyIfNeeded
<1> DEFINE Needed(f) ==
       form[f].stage = "listing" /\ form'[f].stage # "idle" =>
          LET S == GetUtxos(form[f].account, indexed)
              chosen == form'[f].utxos
          IN  /\ form'[f].stage = "modal" => ~Covers(S, form[f].amount)
              /\ form'[f].stage = "selected" /\ Covers(S, form[f].amount) =>
                    chosen \subseteq S /\ Covers(chosen, form[f].amount)
<1>1. ASSUME ClientInv, [Next]_vars, NEW f \in Form PROVE Needed(f)
  <2> SUFFICES ASSUME form[f].stage = "listing" PROVE Needed(f)
    OBVIOUS
  <2>1. /\ form = [g \in Form |-> form[g]] /\ LedgerTypeOK
        /\ FormOK(form[f], coins, history)
    BY <1>1 DEF ClientInv, FormsInv, LedgerInv
  <2>2. CASE form'[f] = form[f]
    BY <2>2
  <2>3. CASE GetSpendableUtxos(f)
    <3> DEFINE S == GetUtxos(form[f].account, indexed)
               L == Largest(S, MaxInputs)
    <3>1. S \subseteq DOMAIN coins /\ MaxInputs \in Nat /\ form[f].amount \in Nat
      BY <2>1 DEF GetUtxos, MaxInputs, FormOK, FormRecord
    <3>2. /\ form' = [form EXCEPT ![f] = form'[f]]
          /\ \/ NoMoreInputs(S, form[f].amount) /\ form'[f] = Modal
             \/ form'[f].utxos = L /\ form'[f].stage = "selected"
      <4>1. FormOK(form[f], coins, history) /\ form[f] \in FormRecord
        BY <2>1 DEF FormOK
      <4>2. QED
        BY <2>1, <2>3, <4>1 DEF GetSpendableUtxos, Step, SpendableUtxos, FormRecord
    <3> HIDE DEF S
    <3>3. L \subseteq S /\ Cardinality(L) <= MaxInputs
      BY <2>1, <3>1, LargestFacts
    <3>4. \A T \in SUBSET S : Cardinality(T) <= MaxInputs => Amount(T) <= Amount(L)
      BY <2>1, <3>1, LargestIsMost
    <3>5. \A T \in SUBSET S : Amount(T) \in Nat
      BY <2>1, <3>1, AmountIsNat
    <3>6. NoMoreInputs(S, form[f].amount) => Amount(L) < form[f].amount
      BY DEF NoMoreInputs
    <3>7. Modal.stage = "modal"
      BY DEF Modal, Blank
    <3> HIDE DEF L
    <3>8. NoMoreInputs(S, form[f].amount) => ~Covers(S, form[f].amount)
      BY <3>1, <3>3, <3>4, <3>5, <3>6 DEF Covers
    <3>9. Covers(S, form[f].amount) => Covers(L, form[f].amount)
      BY <3>1, <3>3, <3>4, <3>5 DEF Covers
    <3>10. QED
      BY <3>2, <3>3, <3>7, <3>8, <3>9 DEF S
  <2>4. CASE FormFails(f)
    <3>1. form[f].back = "idle"
      BY <2>1 DEF FormOK
    <3>2. form'[f] = Blank
      BY <2>1, <2>4, <3>1 DEF FormFails, Step
    <3>3. QED
      BY <3>2 DEF Blank
  <2>5. ASSUME NEW g \in Form, FormAction(g)
        PROVE  form'[f] = form[f] \/ GetSpendableUtxos(f) \/ FormFails(f)
    <3>1. ASSUME g # f PROVE form'[f] = form[f]
      BY <2>1, <2>5, <3>1 DEF FormAction, Step, HandleTransfer, HandleMerge, CloseModal,
            GetActiveAccount, GetSpendableUtxos, Merge, SubmitTransaction, Created, FormFails
    <3>2. ASSUME g = f PROVE GetSpendableUtxos(f) \/ FormFails(f)
      <4>1. ASSUME GetActiveAccount(f) PROVE FALSE
        <5>1. PICK step \in {<<"clicked", "listing">>, <<"selected", "ready">>,
                             <<"merging", "listing merge">>} : step[1] = "listing"
          BY <4>1 DEF GetActiveAccount
        <5>2. CASE step = <<"clicked", "listing">>
          BY <5>1, <5>2
        <5>3. CASE step = <<"selected", "ready">>
          BY <5>1, <5>3
        <5>4. CASE step = <<"merging", "listing merge">>
          BY <5>1, <5>4
        <5>5. QED
          BY <5>2, <5>3, <5>4
      <4>2. QED
        BY <2>5, <3>2, <4>1 DEF FormAction, HandleTransfer, HandleMerge, CloseModal,
              Merge, SubmitTransaction, Created
    <3>3. QED
      BY <3>1, <3>2
  <2>6. ASSUME NEW p \in SessionPoll, SessionAction(p) PROVE form' = form
    BY <2>6 DEF SessionAction, SessionStep, GetSession, GetPointBalance, NoPointBalance, SessionFails
  <2>7. ASSUME NEW p \in HistoryPoll, HistoryAction(p) PROVE form' = form
    BY <2>7 DEF HistoryAction, HistoryStep, GetAllTransactions, GetTransactions, GotTransactions,
          HistoryFails
  <2>8. ASSUME Environment \/ UNCHANGED vars PROVE form' = form
    BY <2>8 DEF Environment, SwitchAccount, clientVars, vars
  <2>9. form'[f] = form[f] \/ GetSpendableUtxos(f) \/ FormFails(f)
    BY <1>1, <2>5, <2>6, <2>7, <2>8, NextActions
  <2> HIDE DEF Needed
  <2>10. QED
    BY <2>2, <2>3, <2>4, <2>9
<1>2. ClientInv /\ [Next]_vars => \A f \in Form : Needed(f)
  BY <1>1
<1>3. QED
  BY <1>2, ClientInvariant, PTL DEF Spec, MergeOnlyIfNeeded

=============================================================================
