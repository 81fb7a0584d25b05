-------------------------------- MODULE Client --------------------------------
(***************************************************************************)
(* The extension of one user: the store in its background page (session    *)
(* and transactions), the polls that fill it every 15 seconds, and the     *)
(* transfers, flair purchases and merges its forms make.  Everything       *)
(* asynchronous interleaves: a form and a poll go on with what they read   *)
(* before an await, while the user switches to another account of the      *)
(* wallet, other forms are used, and the watcher lags.                     *)
(*                                                                         *)
(* A form is a transfer of Home, a purchase of Merch or a merge of their   *)
(* MergeModal.  Merch forgets a purchase under way when the user changes   *)
(* the tab and comes back, so there may be several.  Closing the popup is  *)
(* a failure of all that is under way; the store survives it.              *)
(*                                                                         *)
(* The view's replica of the store is taken to be up to date.  There is    *)
(* one subreddit, and one popup.                                           *)
(***************************************************************************)
EXTENDS PointsLedger

CONSTANTS
    NoAccount,    \* '' and null: no session yet
    Form,
    SessionPoll,  \* bound: session polls at a time
    HistoryPoll,  \* bound: history polls at a time
    Recipients,   \* bound: whom the user may choose
    Amounts,      \* bound: what the user may enter, or a flair may cost
    PageLimit,    \* transactions on a page (200); only one page is used
    MaxSwitches   \* bound: switches of the wallet's account

MaxInputs == 3  \* one input is left for the relayer's fee
MaxMerge == 4

ASSUME ClientAssumption ==
    /\ NoAccount \notin Account
    /\ Recipients \subseteq Owner
    /\ Amounts \subseteq Nat \ {0}
    /\ PageLimit \in Nat \ {0}
    /\ MaxSwitches \in Nat

VARIABLES
    wallet,       \* the active account of the wallet
    switches,
    session,      \* store.session
    transaction,  \* store.transaction: of each account, the status of each tx
    form,         \* where each form is, and what it has read
    sessionPoll,
    historyPoll

storeVars == <<session, transaction>>
clientVars == <<wallet, switches, session, transaction, form, sessionPoll, historyPoll>>
vars == <<ledgerVars, clientVars>>

Status == {"unknown", "Pending", "Confirmed"}

Idle == [stage |-> "idle", account |-> NoAccount]

(* What a form or its modal has read; back is where it is after a failure. *)
Blank ==
    [stage |-> "idle", back |-> "idle", amount |-> 0, recipient |-> NoAccount,
     account |-> NoAccount, utxos |-> {}, tx |-> 0]

Modal == [Blank EXCEPT !.stage = "modal", !.back = "modal"]

ClientTypeOK ==
    /\ LedgerTypeOK
    /\ wallet \in Account
    /\ session.account \in Account \cup {NoAccount}
    /\ session.balance \in Nat
    /\ transaction \in [Account -> [Tx -> Status]]
    /\ \A f \in Form : form[f].stage \in
          {"idle", "clicked", "listing", "selected", "ready", "submitted",
           "modal", "merging", "listing merge"}
    /\ \A f \in Form : form[f].utxos \subseteq DOMAIN coins
    /\ \A p \in SessionPoll : sessionPoll[p].stage \in {"idle", "account"}
    /\ \A p \in HistoryPoll :
          /\ historyPoll[p].stage \in {"idle", "asked", "answered"}
          /\ historyPoll[p].stage # "idle" => historyPoll[p].account \in Account

Init ==
    /\ LedgerInit
    /\ wallet \in Account
    /\ switches = 0
    /\ session = [account |-> NoAccount, balance |-> 0]
    /\ transaction = [u \in Account |-> [t \in Tx |-> "unknown"]]
    /\ form = [f \in Form |-> Blank]
    /\ sessionPoll = [p \in SessionPoll |-> Idle]
    /\ historyPoll = [p \in HistoryPoll |-> Idle]

---------------------------------------------------------------------------
(* Choosing utxos *)

(* The order of the lists: by amount, largest first. *)
Before(c, d) ==
    \/ coins[c].amount > coins[d].amount
    \/ coins[c].amount = coins[d].amount /\ c < d

(* A bug: the list is sorted the other way. *)
Smallest(S, k) == {c \in S : Cardinality({d \in S : Before(c, d)}) < k}

(* The first k of the sorted list. *)
Largest(S, k) == {c \in S : Cardinality({d \in S : Before(d, c)}) < k}

(***************************************************************************)
(* getSpendableUtxos: inputs are added until they cover the amount, and    *)
(* then up to three.  It throws when three do not cover it and there are   *)
(* more; when there are no more, it returns what there is.                 *)
(***************************************************************************)
NoMoreInputs(S, amount) ==
    Cardinality(S) > MaxInputs /\ Amount(Largest(S, MaxInputs)) < amount

SpendableUtxos(S) == Largest(S, MaxInputs)

---------------------------------------------------------------------------
(* Forms *)

(* selectIsPendingTransaction *)
IsPendingTransaction ==
    /\ session.account # NoAccount
    /\ \E t \in Tx : transaction[session.account][t] = "Pending"

Step(f, value) ==
    /\ form' = [form EXCEPT ![f] = value]
    /\ UNCHANGED <<ledgerVars, storeVars, wallet, switches, sessionPoll, historyPoll>>

(* The user clicks TRANSFER, which disableTransfer and loading may forbid; *)
(* Merch has a flair's price for the amount and Outside for the recipient. *)
HandleTransfer(f, amount, recipient) ==
    /\ form[f].stage = "idle"
    /\ ~IsPendingTransaction
    /\ recipient # session.account
    /\ session.account # NoAccount => amount <= session.balance
    /\ Step(f, [Blank EXCEPT !.stage = "clicked", !.amount = amount, !.recipient = recipient])

(* MERGE in the modal, enabled whatever is pending. *)
HandleMerge(f) ==
    /\ form[f].stage = "modal"
    /\ Step(f, [Modal EXCEPT !.stage = "merging"])

CloseModal(f) ==
    /\ form[f].stage = "modal"
    /\ Step(f, Blank)

(* getSpendableUtxos and merge ask for the active account, and transfer    *)
(* asks once more.                                                         *)
GetActiveAccount(f) ==
    \E step \in {<<"clicked", "listing">>, <<"selected", "ready">>, <<"merging", "listing merge">>} :
       /\ form[f].stage = step[1]
       /\ Step(f, [form[f] EXCEPT !.stage = step[2], !.account = wallet])

(* The reply of the watcher decides between the transfer and the modal; it *)
(* depends on nothing else, so reading it is part of the step that makes   *)
(* it.                                                                     *)
GetSpendableUtxos(f) ==
    /\ form[f].stage = "listing"
    /\ LET S == GetUtxos(form[f].account, indexed)
       IN  IF NoMoreInputs(S, form[f].amount)
           THEN Step(f, Modal)
           ELSE Step(f, [form[f] EXCEPT !.stage = "selected", !.utxos = SpendableUtxos(S)])

(* merge: the four largest in one transaction to oneself. *)
Merge(f) ==
    /\ form[f].stage = "listing merge"
    /\ LET S == Largest(GetUtxos(form[f].account, indexed), MaxMerge)
       IN  Step(f, [form[f] EXCEPT !.stage = "ready", !.utxos = S, !.amount = Amount(S),
                                   !.recipient = form[f].account])

(***************************************************************************)
(* Create, sign and submit, by way of the relayer or, for a merge, of the  *)
(* watcher, up to the moment when the chain accepts the transaction.  It   *)
(* does when all inputs are unspent and their owner has signed.            *)
(***************************************************************************)
SubmitTransaction(f) ==
    /\ form[f].stage = "ready"
    /\ Accept(form[f].account, form[f].utxos, form[f].amount, form[f].recipient)
    /\ form' = [form EXCEPT ![f] =
          [Blank EXCEPT !.stage = "submitted", !.back = form[f].back,
                        !.account = form[f].account, !.tx = Len(history) + 1]]
    /\ UNCHANGED <<storeVars, wallet, switches, sessionPoll, historyPoll>>

(* TRANSACTION/CREATE/SUCCESS *)
Created(f) ==
    /\ form[f].stage = "submitted"
    /\ transaction' = [transaction EXCEPT ![form[f].account][form[f].tx] = "Pending"]
    /\ form' = [form EXCEPT ![f] = Blank]
    /\ UNCHANGED <<ledgerVars, session, wallet, switches, sessionPoll, historyPoll>>

(* TRANSACTION/CREATE/ERROR: a call fails, the user does not sign (and the *)
(* relayer is told), the chain refuses the transaction, or the reply to    *)
(* the submission is lost.                                                 *)
FormFails(f) ==
    /\ form[f].stage \notin {"idle", "modal"}
    /\ Step(f, IF form[f].back = "modal" THEN Modal ELSE Blank)

---------------------------------------------------------------------------
(* Polls *)

SessionStep(p, value) ==
    /\ sessionPoll' = [sessionPoll EXCEPT ![p] = value]
    /\ UNCHANGED <<ledgerVars, transaction, wallet, switches, form, historyPoll>>

(* getSession: the active account, *)
GetSession(p) ==
    /\ sessionPoll[p].stage = "idle"
    /\ SessionStep(p, [stage |-> "account", account |-> wallet])
    /\ UNCHANGED session

(* A bug: the balance is that of the account in the store. *)
BalanceOfSession(p) ==
    /\ sessionPoll[p].stage = "account"
    /\ session' = [account |-> sessionPoll[p].account,
                   balance |-> Amount(GetUtxos(session.account, indexed))]
    /\ SessionStep(p, Idle)

(* A bug: a poll changes the balance alone. *)
BalanceAlone(p) ==
    /\ sessionPoll[p].stage = "account"
    /\ session' = [account |-> IF session.account = NoAccount THEN sessionPoll[p].account
                                                              ELSE session.account,
                   balance |-> Amount(GetUtxos(sessionPoll[p].account, indexed))]
    /\ SessionStep(p, Idle)

(* its balance, or '0' when the call fails: SESSION/GET/SUCCESS. *)
GetPointBalance(p) ==
    /\ sessionPoll[p].stage = "account"
    /\ LET u == sessionPoll[p].account
       IN  session' = [account |-> u, balance |-> Amount(GetUtxos(u, indexed))]
    /\ SessionStep(p, Idle)

NoPointBalance(p) ==
    /\ sessionPoll[p].stage = "account"
    /\ session' = [account |-> sessionPoll[p].account, balance |-> 0]
    /\ SessionStep(p, Idle)

HistoryStep(p, value) ==
    /\ historyPoll' = [historyPoll EXCEPT ![p] = value]
    /\ UNCHANGED <<ledgerVars, session, wallet, switches, form, sessionPoll>>

(* A bug: the poll does not wait for a session. *)
AskWithoutSession(p) ==
    /\ historyPoll[p].stage = "idle"
    /\ HistoryStep(p, [stage |-> "asked", account |-> session.account])
    /\ UNCHANGED transaction

(* getAllTransactions of the session's account.  Without a session it      *)
(* returns null, on which the reducer throws: the store stays as it is.    *)
GetAllTransactions(p) ==
    /\ historyPoll[p].stage = "idle"
    /\ session.account # NoAccount
    /\ HistoryStep(p, [stage |-> "asked", account |-> session.account])
    /\ UNCHANGED transaction

(* The watcher answers with what it has indexed. *)
GetTransactions(p) ==
    /\ historyPoll[p].stage = "asked"
    /\ HistoryStep(p, [stage |-> "answered", account |-> historyPoll[p].account, n |-> indexed])
    /\ UNCHANGED transaction

(* The newest transactions of u among the first n.  A full page makes      *)
(* getTransactions ask for the next one, but it returns without waiting.   *)
Page(u, n) ==
    {t \in 1..n : Involves(u, t) /\ Cardinality({s \in t+1..n : Involves(u, s)}) < PageLimit}

(* A bug: what the store has wins over what the watcher says. *)
KeepsStored(p) ==
    /\ historyPoll[p].stage = "answered"
    /\ LET u == historyPoll[p].account
           page == Page(u, historyPoll[p].n)
       IN  transaction' = [transaction EXCEPT ![u] =
              [t \in Tx |-> IF t \in page /\ @[t] = "unknown" THEN "Confirmed" ELSE @[t]]]
    /\ HistoryStep(p, Idle)

(* A bug: transactions are filed under the account the session has now. *)
FilesUnderSession(p) ==
    /\ historyPoll[p].stage = "answered"
    /\ LET page == Page(historyPoll[p].account, historyPoll[p].n)
       IN  transaction' = [transaction EXCEPT ![session.account] =
              [t \in Tx |-> IF t \in page THEN "Confirmed" ELSE @[t]]]
    /\ HistoryStep(p, Idle)

(* TRANSACTION/GETALL/SUCCESS *)
GotTransactions(p) ==
    /\ historyPoll[p].stage = "answered"
    /\ LET u == historyPoll[p].account
           page == Page(u, historyPoll[p].n)
       IN  transaction' = [transaction EXCEPT ![u] =
              [t \in Tx |-> IF t \in page THEN "Confirmed" ELSE @[t]]]
    /\ HistoryStep(p, Idle)

(* The wallet or the watcher does not answer: the action ends in ERROR. *)
SessionFails(p) ==
    /\ sessionPoll[p].stage = "account"
    /\ SessionStep(p, Idle)
    /\ UNCHANGED session

HistoryFails(p) ==
    /\ historyPoll[p].stage = "asked"
    /\ HistoryStep(p, Idle)
    /\ UNCHANGED transaction

---------------------------------------------------------------------------
(* The user takes another account of the wallet. *)
SwitchAccount(u) ==
    /\ switches < MaxSwitches
    /\ u # wallet
    /\ wallet' = u
    /\ switches' = switches + 1
    /\ UNCHANGED <<ledgerVars, storeVars, form, sessionPoll, historyPoll>>

Environment ==
    \/ \E u \in Account : SwitchAccount(u)
    \/ Index /\ UNCHANGED clientVars

Next ==
    \/ \E f \in Form :
          \/ \E amount \in Amounts, recipient \in Recipients : HandleTransfer(f, amount, recipient)
          \/ HandleMerge(f) \/ CloseModal(f)
          \/ GetActiveAccount(f) \/ GetSpendableUtxos(f) \/ Merge(f)
          \/ SubmitTransaction(f) \/ Created(f) \/ FormFails(f)
    \/ \E p \in SessionPoll :
          \/ GetSession(p) \/ GetPointBalance(p) \/ NoPointBalance(p)
          \/ SessionFails(p)
    \/ \E p \in HistoryPoll :
          \/ GetAllTransactions(p) \/ GetTransactions(p)
          \/ GotTransactions(p) \/ HistoryFails(p)
    \/ Environment

(* The popup stays open and polls, the wallet and the watcher do not fail  *)
(* forever, and the watcher follows the chain.                             *)
Fairness ==
    /\ WF_vars(Index /\ UNCHANGED clientVars)
    /\ \A p \in SessionPoll :
          WF_vars(GetSession(p)) /\ SF_vars(GetPointBalance(p))
    /\ \A p \in HistoryPoll :
          WF_vars(GetAllTransactions(p)) /\ SF_vars(GetTransactions(p)) /\ WF_vars(GotTransactions(p))

Spec == Init /\ [][Next]_vars /\ Fairness

---------------------------------------------------------------------------
(***************************************************************************)
(* The store files a transaction under the account it is about, whichever  *)
(* account is active when the answer arrives, has it as Confirmed only     *)
(* when the watcher has indexed it, and as Pending only when the chain has *)
(* accepted it from that account.                                          *)
(***************************************************************************)
StoreIsSound ==
    \A u \in Account, t \in Tx :
       transaction[u][t] # "unknown" =>
          /\ t <= Len(history) /\ Involves(u, t)
          /\ transaction[u][t] = "Confirmed" => t <= indexed
          /\ transaction[u][t] = "Pending" => history[t].sender = u

(***************************************************************************)
(* Account and balance of the session belong together: the balance is one  *)
(* that this account had, or the 0 of a failed call, although the wallet   *)
(* may switch between the two questions.                                   *)
(***************************************************************************)
SessionIsCoherent ==
    session.balance # 0 =>
       \E n \in 0..indexed : session.balance = Amount(GetUtxos(session.account, n))

(***************************************************************************)
(* MergeModal says "You currently don't have enough large value UTXOs to   *)
(* cover this amount with less than 4 UTXOs": it appears only when no      *)
(* three utxos of the account do, and when some do, those chosen do.       *)
(***************************************************************************)
Covers(S, amount) ==
    \E T \in SUBSET S : Cardinality(T) <= MaxInputs /\ Amount(T) >= amount

MergeOnlyIfNeeded ==
    [][\A f \in Form :
          form[f].stage = "listing" /\ form'[f].stage # "idle" =>
             LET S == GetUtxos(form[f].account, indexed)
                 chosen == form'[f].utxos
             IN  /\ form'[f].stage = "modal" => ~Covers(S, form[f].amount)
                 /\ form'[f].stage = "selected" /\ Covers(S, form[f].amount) =>
                       chosen \subseteq S /\ Covers(chosen, form[f].amount)]_vars

(***************************************************************************)
(* As long as the popup polls, no transaction of the user's account stays  *)
(* Pending forever, which would forbid every further transfer: not even    *)
(* when the watcher's answer overtakes that of the submission, and the     *)
(* store goes from Confirmed to Pending.                                   *)
(***************************************************************************)
PendingSettles ==
    <>[](\A t \in Tx :
           session.account # NoAccount => transaction[session.account][t] # "Pending")

(***************************************************************************)
(* Once the user keeps to an account the session has it, and again and     *)
(* again its balance, whatever older polls write.                          *)
(***************************************************************************)
SessionFollows ==
    /\ <>[](session.account = wallet)
    /\ []<>(session.balance = Amount(GetUtxos(wallet, Len(history))))
=============================================================================
