------------------------------- MODULE FeeRelay -------------------------------
(***************************************************************************)
(* The fee relayer at work: create-relayed-tx, submit-relayed-tx and       *)
(* cancel-relayed-tx requests (fee-relayer/src/app.js, relay-tx.js) over   *)
(* the pool of fee utxos, with the clients, the child chain and the        *)
(* watcher as its environment.  It begins when the routes are open and     *)
(* ends, if ever, when the process exits.                                  *)
(*                                                                         *)
(* A client that got a transaction submits it, cancels it when the user    *)
(* does not sign, or goes away: client/src/app/services/networkService.ts  *)
(* cancels only when signing fails.                                        *)
(***************************************************************************)
EXTENDS UtxoManager, Transaction

VARIABLES
    status,   \* where each request is
    quote,    \* feeInfo.amount its create handler read
    utxo,     \* the fee utxo reserved for it, 0 if none was
    change,   \* amounts of the fee-change outputs of its transaction
    process   \* the Node process: "up", "stopping" (in onExit) or "down"

requestVars == <<status, quote, utxo, change>>
vars == <<chainVars, managerVars, requestVars, process>>

Status ==
    {"idle", "creating",     \* not yet sent; waiting for the utxo cache
     "starved", "errored",   \* answered: no utxo left; the fetch failed
     "spoiled",              \* answered: transaction.create threw
     "reserved",             \* the client holds an unsigned transaction
     "abandoned",            \* and never comes back
     "cancelled",            \* and has cancelled it
     "invalid",              \* and saw it refused by validate
     "submitted",            \* it was sent to the child chain
     "accepted",             \* which spent the fee utxo
     "refused"}              \* the submission failed

TypeOK ==
    /\ ChainTypeOK
    /\ ManagerTypeOK
    /\ status \in [Request -> Status]
    /\ quote \in [Request -> Nat]
    /\ utxo \in [Request -> Nat]
    /\ change \in [Request -> Seq(Nat)]
    /\ process \in {"up", "stopping", "down"}

Init ==
    /\ ChainInit
    /\ ManagerInit
    /\ status = [r \in Request |-> "idle"]
    /\ quote = [r \in Request |-> 0]
    /\ utxo = [r \in Request |-> 0]
    /\ change = [r \in Request |-> <<>>]
    /\ process = "up"

Running == process # "down"

(* A new event reaches the handlers only when no continuation is left. *)
NextEvent == Running /\ Drained

---------------------------------------------------------------------------
(* create-relayed-tx *)

(* getFeeUtxo finds no utxo and throws; the handler answers with an error. *)
TurnAway(r, pending) ==
    /\ pendingUtxos' = pending
    /\ status' = [status EXCEPT ![r] = "starved"]
    /\ UNCHANGED <<utxo, change>>

(***************************************************************************)
(* getFeeUtxo marks u pending and transaction.create builds the            *)
(* transaction.  It throws when the client's inputs do not cover the       *)
(* amount: then the client is left with an error and no transaction, and   *)
(* the utxo stays pending.                                                 *)
(***************************************************************************)
Reserve(r, u, feeAmount, cached, pending) ==
    /\ pendingUtxos' = pending \cup {u}
    /\ utxo' = [utxo EXCEPT ![r] = u]
    /\ \/ /\ status' = [status EXCEPT ![r] = "spoiled"]
          /\ UNCHANGED change
       \/ \E numNonFeeOutputs \in {1, 2} :
             /\ status' = [status EXCEPT ![r] = "reserved"]
             /\ change' = [change EXCEPT ![r] =
                   FeeChangeAmounts(ledger[u] - feeAmount, feeAmount,
                      numNonFeeOutputs, NeedMoreUtxos(cached))]

(***************************************************************************)
(* What request r does once getUtxos has given it the list cached: refresh *)
(* the pool if it runs low and take the highest utxo that pays the fee.    *)
(* The mutex is in state m and the pending utxos are pending when it       *)
(* begins.                                                                 *)
(***************************************************************************)
GetFeeUtxo(r, feeAmount, cached, pending, m) ==
    LET valid == ValidUtxos(cached, pending, feeAmount)
    IN  /\ Refresh(r, m, Cardinality(valid))
        /\ \/ valid = {} /\ TurnAway(r, pending)
           \/ \E u \in Highest(valid) : Reserve(r, u, feeAmount, cached, pending)

(* getFees fails: the request is answered before it reaches the pool. *)
CreateFails(r) ==
    /\ NextEvent
    /\ status[r] = "idle"
    /\ status' = [status EXCEPT ![r] = "errored"]
    /\ UNCHANGED <<chainVars, managerVars, quote, utxo, change, process>>

(* The cache need not be refreshed: the request is answered in one turn. *)
CreateFromCache(r) ==
    /\ NextEvent
    /\ status[r] = "idle"
    /\ ~shouldRefreshUtxoCache
    /\ quote' = [quote EXCEPT ![r] = fee]
    /\ GetFeeUtxo(r, fee, cachedUtxos, pendingUtxos, mutex)
    /\ UNCHANGED <<chainVars, cachedUtxos, fetch, process>>

(* It must be: the request waits for the mutex. *)
CreateAndWait(r) ==
    /\ NextEvent
    /\ status[r] = "idle"
    /\ shouldRefreshUtxoCache
    /\ quote' = [quote EXCEPT ![r] = fee]
    /\ status' = [status EXCEPT ![r] = "creating"]
    /\ mutex' = Acquire(mutex, <<r, "create">>)
    /\ UNCHANGED <<chainVars, cachedUtxos, pendingUtxos, shouldRefreshUtxoCache,
                   fetch, utxo, change, process>>

(* A task that has the mutex asks the watcher for the utxos ... *)
Ask(t) ==
    /\ Running
    /\ StartFetch(t)
    /\ UNCHANGED <<chainVars, requestVars, process>>

(* ... or finds that the task before it has just done so. *)
PassThrough(t) ==
    /\ Running
    /\ Granted(t)
    /\ ~shouldRefreshUtxoCache
    /\ \/ /\ t[2] = "create"
          /\ GetFeeUtxo(t[1], quote[t[1]], cachedUtxos, pendingUtxos,
                        Release(mutex))
       \/ /\ t[2] = "refresh"
          /\ mutex' = Release(mutex)
          /\ UNCHANGED <<pendingUtxos, shouldRefreshUtxoCache, status, utxo, change>>
    /\ UNCHANGED <<chainVars, cachedUtxos, fetch, quote, process>>

Serve(t) ==
    /\ Running
    /\ ServePage(t)
    /\ UNCHANGED <<chainVars, requestVars, process>>

AskNext(t) ==
    /\ Running
    /\ NextPage(t)
    /\ UNCHANGED <<chainVars, requestVars, process>>

(* The reply is complete: the cache is replaced, the utxos that are gone   *)
(* from it stop being pending, the mutex goes to the next task, and the    *)
(* request that asked goes on.                                             *)
Refreshed(t) ==
    /\ Running
    /\ Install(t)
    /\ \/ /\ t[2] = "create"
          /\ GetFeeUtxo(t[1], quote[t[1]], fetch[t].got, CleanPending(fetch[t].got),
                        Release(mutex))
       \/ /\ t[2] = "refresh"
          /\ pendingUtxos' = CleanPending(fetch[t].got)
          /\ mutex' = Release(mutex)
          /\ UNCHANGED <<shouldRefreshUtxoCache, status, utxo, change>>
    /\ UNCHANGED <<chainVars, quote, process>>

(* A bug: the failure is swallowed, and the request gets no answer. *)
RefreshFailsSilently(t) ==
    /\ Running
    /\ FailFetch(t)
    /\ UNCHANGED <<chainVars, requestVars, process>>

(* The call fails.  A request answers its client with the error; nobody    *)
(* awaits the promise of refresh, so its rejection is unhandled and app.js *)
(* shuts the process down.                                                 *)
RefreshFails(t) ==
    /\ Running
    /\ FailFetch(t)
    /\ \/ /\ t[2] = "create"
          /\ status' = [status EXCEPT ![t[1]] = "errored"]
          /\ UNCHANGED process
       \/ /\ t[2] = "refresh"
          /\ process' = "stopping"
          /\ UNCHANGED status
    /\ UNCHANGED <<chainVars, quote, utxo, change>>

(* onExit has released the account: process.exit(). *)
Exit ==
    /\ process = "stopping"
    /\ process' = "down"
    /\ UNCHANGED <<chainVars, managerVars, requestVars>>

---------------------------------------------------------------------------
(* submit-relayed-tx and cancel-relayed-tx *)

(* relayTx.validate on the fee side: what the fee payer puts in and does   *)
(* not get back is exactly the fee asked for now.                          *)
PaysFee(r) == ledger[utxo[r]] = TotalAmount(change[r]) + fee

Submit(r) ==
    /\ NextEvent
    /\ status[r] = "reserved"
    /\ status' = [status EXCEPT ![r] = IF PaysFee(r) THEN "submitted" ELSE "invalid"]
    /\ UNCHANGED <<chainVars, managerVars, quote, utxo, change, process>>

Cancel(r) ==
    /\ NextEvent
    /\ status[r] = "reserved"
    /\ CancelPending(utxo[r])
    /\ status' = [status EXCEPT ![r] = "cancelled"]
    /\ UNCHANGED <<chainVars, cachedUtxos, shouldRefreshUtxoCache, mutex, fetch,
                   quote, utxo, change, process>>

Abandon(r) ==
    /\ status[r] = "reserved"
    /\ status' = [status EXCEPT ![r] = "abandoned"]
    /\ UNCHANGED <<chainVars, managerVars, quote, utxo, change, process>>

---------------------------------------------------------------------------
(* The environment *)

ChainAccepts(r) ==
    /\ status[r] = "submitted"
    /\ Spend(utxo[r], change[r])
    /\ status' = [status EXCEPT ![r] = "accepted"]
    /\ UNCHANGED <<managerVars, quote, utxo, change, process>>

(* getFees, the signer or the chain fails the submission; no handler gives *)
(* the fee utxo back.                                                      *)
SubmitFails(r) ==
    /\ status[r] \in {"reserved", "submitted"}
    /\ status' = [status EXCEPT ![r] = "refused"]
    /\ UNCHANGED <<chainVars, managerVars, quote, utxo, change, process>>

Environment ==
    /\ WatcherSync \/ ChangeFee
    /\ UNCHANGED <<managerVars, requestVars, process>>

Next ==
    \/ \E r \in Request :
          \/ CreateFails(r) \/ CreateFromCache(r) \/ CreateAndWait(r)
          \/ Submit(r) \/ Cancel(r) \/ Abandon(r)
          \/ ChainAccepts(r) \/ SubmitFails(r)
    \/ \E t \in Task :
          \/ Ask(t) \/ PassThrough(t) \/ Serve(t) \/ AskNext(t)
          \/ Refreshed(t) \/ RefreshFails(t)
    \/ Exit
    \/ Environment

(* A continuation whose promise is resolved runs, and the watcher answers  *)
(* or the call fails.                                                      *)
Fairness ==
    \A t \in Task :
       /\ WF_vars(Ask(t) \/ PassThrough(t))
       /\ WF_vars(Serve(t) \/ RefreshFails(t))
       /\ WF_vars(AskNext(t) \/ Refreshed(t))

Spec == Init /\ [][Next]_vars /\ Fairness

---------------------------------------------------------------------------
(* Safety *)

(* The fee utxo of r is taken and not yet spent or given back. *)
Holds(r) ==
    status[r] \in {"reserved", "abandoned", "invalid", "submitted", "refused", "spoiled"}

(***************************************************************************)
(* utxo-manager.js marks a utxo pending so that no other request uses it:  *)
(* no two requests ever hold the same fee utxo, whatever fetch is in       *)
(* flight when they arrive.                                                *)
(***************************************************************************)
NoDoubleReservation ==
    \A r, s \in Request : r # s /\ Holds(r) /\ Holds(s) => utxo[r] # utxo[s]

(***************************************************************************)
(* A reply of the watcher is installed some time after it was made, and    *)
(* the watcher itself lags.  Yet what getValidUtxos can offer, the cached  *)
(* utxos that are not pending, was never spent: no client gets a           *)
(* transaction that the chain must refuse for its fee input.               *)
(***************************************************************************)
OffersOnlyUnspent == cachedUtxos \ pendingUtxos \subseteq unspent

(***************************************************************************)
(* cleanPending drops a pending utxo because it is not in the new list;    *)
(* the comment there says such a utxo "has already been spent".            *)
(* cancelPending is the only other way out.                                *)
(***************************************************************************)
Released ==
    \A u \in pendingUtxos \ pendingUtxos' :
       \/ u \notin unspent
       \/ \E r \in Request : utxo[r] = u /\ Holds(r) /\ status'[r] = "cancelled"

ReleasedOnlySpentOrCancelled == [][Released]_vars

(***************************************************************************)
(* The flag is raised outside the mutex and lowered inside it.  It is      *)
(* never left up with nobody to act on it: a task has the mutex and has    *)
(* still to look at the flag, or waits for it.                             *)
(***************************************************************************)
RefreshNotLost ==
    shouldRefreshUtxoCache => mutex.queue # <<>> \/ \E t \in Task : Granted(t)

(***************************************************************************)
(* A request is turned away for lack of utxos only when the pool is        *)
(* already being refreshed, or the refresh starts with this very answer.   *)
(***************************************************************************)
StarvedStartsRefresh ==
    [][\A r \in Request :
         status[r] # "starved" /\ status'[r] = "starved"
            => \/ shouldRefreshUtxoCache'
               \/ \E t \in Task : fetch'[t].stage # "idle"]_vars

(***************************************************************************)
(* A transaction built by create is refused by validate only when the fee  *)
(* changed in between, however its change was split.                       *)
(***************************************************************************)
InvalidOnlyForNewFee ==
    [][\A r \in Request :
         status[r] # "invalid" /\ status'[r] = "invalid" => fee # quote[r]]_vars

(***************************************************************************)
(* All in one: the relayer lends each utxo to one request at a time.  A    *)
(* utxo is lent while a request holds it, and free when it is unspent and  *)
(* not held, whatever the cache says.                                      *)
(***************************************************************************)
Lending == INSTANCE FeeLending WITH
    NoUtxo <- 0,
    free   <- unspent \ {utxo[r] : r \in {s \in Request : Holds(s)}},
    lent   <- [r \in Request |-> IF Holds(r) THEN utxo[r] ELSE 0],
    spent  <- DOMAIN ledger \ unspent

ImplementsLending == Lending!Spec

(***************************************************************************)
(* .env.template says of the desired number of fee utxos: "The server can  *)
(* serve this number of concurrent requests".  So with that many unspent   *)
(* utxos that pay the fee, a request is turned away only when as many      *)
(* requests are in progress.  The code does not keep this promise: the     *)
(* utxos of failed requests stay pending.                                  *)
(***************************************************************************)
InProgress == {r \in Request : status[r] \in {"creating", "reserved", "submitted"}}

TurnedAwayTooEarly ==
    /\ \E r \in Request : status[r] # "starved" /\ status'[r] = "starved"
    /\ Cardinality({u \in unspent : ledger[u] >= fee}) >= DESIRED
    /\ Cardinality(InProgress) < DESIRED

ServesDesired == [][~TurnedAwayTooEarly]_vars

---------------------------------------------------------------------------
(* Liveness *)

(* Every create request is answered unless the process exits first. *)
CreateAnswered ==
    \A r \in Request : status[r] = "creating" ~> (status[r] # "creating" \/ ~Running)
---------------------------------------------------------------------------
(* Why it is safe: the inductive invariant *)

(* One page holds every utxo.  Otherwise a reply is put together from      *)
(* pages of different moments, and what follows does not hold.             *)
SinglePage == MaxUtxo < PageLimit

(* The mutex serialises the fetches. *)
FetchHoldsMutex == \A t \in Task : fetch[t].stage # "idle" => mutex.holder = t

(* A reply is one page. *)
WholeReply ==
    \A t \in Task :
       /\ fetch[t].stage = "asked" => fetch[t].page = 1 /\ fetch[t].got = {}
       /\ fetch[t].stage = "served" => fetch[t].last

(* A utxo held by a request is unspent, pending and in the cache. *)
HeldIsPending ==
    \A r \in Request :
       Holds(r) => utxo[r] \in cachedUtxos \cap pendingUtxos \cap unspent

(* A pending utxo is in the cache as long as it is unspent. *)
PendingIsCached == pendingUtxos \cap unspent \subseteq cachedUtxos

(* The watcher lags: it still reports a spent utxo only while that utxo is *)
(* pending, and it has seen all the cache has.                             *)
WatcherLag ==
    /\ watcher \ pendingUtxos \subseteq unspent
    /\ cachedUtxos \cap unspent \subseteq watcher

(* A reply lags too.  It has every unspent utxo of the cache it replaces;  *)
(* the watcher has moved on only to newer ones.                            *)
ReplyLag ==
    \A t \in Task : fetch[t].stage = "served" =>
       LET got == fetch[t].got
       IN  /\ got \ pendingUtxos \subseteq unspent
           /\ cachedUtxos \cap unspent \subseteq got
           /\ got \cap unspent \subseteq watcher
           /\ watcher \ got \subseteq unspent

IInv ==
    /\ TypeOK
    /\ FetchHoldsMutex
    /\ WholeReply
    /\ HeldIsPending
    /\ PendingIsCached
    /\ WatcherLag
    /\ ReplyLag
    /\ OffersOnlyUnspent
    /\ NoDoubleReservation

(* The create task of a request is in the mutex, at most once, only while  *)
(* the request waits: it goes on at most once.                             *)
CreateQueued ==
    \A r \in Request :
       LET t == <<r, "create">>
           at == {i \in DOMAIN mutex.queue : mutex.queue[i] = t}
       IN  /\ mutex.holder = t => status[r] = "creating" /\ at = {}
           /\ at # {} => status[r] = "creating"
           /\ \A i, j \in at : i = j
=============================================================================
