----------------------------- MODULE UtxoManager -----------------------------
(***************************************************************************)
(* The pool of fee utxos of the relayer (fee-relayer/src/utxo-manager.js): *)
(* the module state of that file and one operator per function.  FeeRelay  *)
(* composes them with the requests that call them.                         *)
(*                                                                         *)
(* The functions are asynchronous and run on one JavaScript thread.  An    *)
(* action is everything that runs between two replies from the network:    *)
(* the continuations that wait only for promises already resolved (the     *)
(* filter of getValidUtxos, the push of getFeeUtxo) run before the event   *)
(* loop takes the next reply, in an order the README derives.              *)
(*                                                                         *)
(* A task is a call of getUtxos that may wait: a request calls it for its  *)
(* own utxo ("create"), and refresh calls it again without awaiting        *)
(* ("refresh").                                                            *)
(***************************************************************************)
EXTENDS ChildChain

CONSTANTS
    Request,   \* the create-relayed-tx requests
    DESIRED,   \* FEE_RELAYER_DESIRED_NUM_UTXOS
    Free,      \* no task holds the mutex
    TokenLowerCase  \* bound: whether OMG_FEE_TOKEN may be in lower case

Task == Request \X {"create", "refresh"}

ASSUME ManagerAssumption ==
    /\ DESIRED \in Nat
    /\ Free \notin Task
    /\ TokenLowerCase \subseteq BOOLEAN

VARIABLES
    cachedUtxos,            \* currentNumUtxos is always its length
    pendingUtxos,           \* reserved by a request
    shouldRefreshUtxoCache,
    mutex,                  \* cacheMutex: its holder and its FIFO of waiters
    fetch                   \* the account.get_utxos calls in flight

managerVars ==
    <<cachedUtxos, pendingUtxos, shouldRefreshUtxoCache, mutex, fetch>>

(* No call, a call the watcher has not answered, or a reply not yet read.  *)
NoFetch == [stage |-> "idle", page |-> 1, got |-> {}, last |-> FALSE]

Asked(page, got) == [stage |-> "asked", page |-> page, got |-> got, last |-> FALSE]

Served(page, got, last) ==
    [stage |-> "served", page |-> page, got |-> got, last |-> last]

Fetch == [stage : {"idle", "asked", "served"},
          page  : Nat \ {0},
          got   : SUBSET Utxo,
          last  : BOOLEAN]

ManagerTypeOK ==
    /\ cachedUtxos \subseteq DOMAIN ledger
    /\ pendingUtxos \subseteq DOMAIN ledger
    /\ shouldRefreshUtxoCache \in BOOLEAN
    /\ mutex \in [holder : Task \cup {Free}, queue : Seq(Task)]
    /\ fetch \in [Task -> Fetch]
    /\ \A t \in Task : fetch[t].got \subseteq DOMAIN ledger

(* initCache has fetched the utxos; app.js only then opens its routes.  It *)
(* selects them by the configured token as it is written: when that is not *)
(* in lower case, as the watcher's answer is, it finds none.               *)
ManagerInit ==
    /\ \E lower \in TokenLowerCase :
          cachedUtxos = IF lower THEN watcher ELSE {}
    /\ pendingUtxos = {}
    /\ shouldRefreshUtxoCache = FALSE
    /\ mutex = [holder |-> Free, queue |-> <<>>]
    /\ fetch = [t \in Task |-> NoFetch]

---------------------------------------------------------------------------
(* cacheMutex.acquire() and release() of async-mutex: first come, first    *)
(* served.                                                                 *)

(* A bug: acquire does not wait. *)
AcquireAtOnce(m, t) == [m EXCEPT !.holder = t]

Acquire(m, t) ==
    IF m.holder = Free
    THEN [m EXCEPT !.holder = t]
    ELSE [m EXCEPT !.queue = Append(@, t)]

Release(m) ==
    IF m.queue = <<>>
    THEN [m EXCEPT !.holder = Free]
    ELSE [holder |-> Head(m.queue), queue |-> Tail(m.queue)]

(* t was given the mutex and has not yet run: it runs before any reply.    *)
Granted(t) == mutex.holder = t /\ fetch[t].stage = "idle"

Drained == \A t \in Task : ~Granted(t)

---------------------------------------------------------------------------
(* A bug: the pending utxos are not filtered out. *)
ValidUtxosWithPending(cached, pending, feeAmount) ==
    {u \in cached : ledger[u] >= feeAmount}

(* The filter of getValidUtxos. *)
ValidUtxos(cached, pending, feeAmount) ==
    {u \in cached : u \notin pending /\ ledger[u] >= feeAmount}

(* The first utxo of a list sorted by falling amount.  Equal amounts leave *)
(* the choice to the order of the list, which is not modelled.             *)
Highest(valid) == {u \in valid : \A v \in valid : ledger[v] <= ledger[u]}

(* A bug: a refresh forgets what is pending. *)
CleanPendingAll(utxos) == {}

CleanPending(utxos) == pendingUtxos \cap utxos

CancelPending(u) == pendingUtxos' = pendingUtxos \ {u}

NeedMoreUtxos(cached) == Cardinality(cached) < DESIRED

(* A bug: refresh raises the flag and leaves the fetch to the next request. *)
RefreshFlagOnly(r, m, numValid) ==
    /\ shouldRefreshUtxoCache' = (shouldRefreshUtxoCache \/ 2 * numValid < DESIRED)
    /\ mutex' = m

(* A bug: refresh is not called on the way to the error. *)
RefreshUnlessEmpty(r, m, numValid) ==
    LET flag == shouldRefreshUtxoCache \/ (numValid > 0 /\ 2 * numValid < DESIRED)
    IN  /\ shouldRefreshUtxoCache' = flag
        /\ mutex' = IF flag THEN Acquire(m, <<r, "refresh">>) ELSE m

(* refresh, called by request r with the mutex in state m. *)
Refresh(r, m, numValid) ==
    LET flag == shouldRefreshUtxoCache \/ 2 * numValid < DESIRED
    IN  /\ shouldRefreshUtxoCache' = flag
        /\ mutex' = IF flag THEN Acquire(m, <<r, "refresh">>) ELSE m

---------------------------------------------------------------------------
(* getUtxos and getAllFeeUtxos. *)

(* t runs with the mutex and still finds the cache to be refreshed. *)
StartFetch(t) ==
    /\ Granted(t)
    /\ shouldRefreshUtxoCache
    /\ shouldRefreshUtxoCache' = FALSE
    /\ fetch' = [fetch EXCEPT ![t] = Asked(1, {})]
    /\ UNCHANGED <<cachedUtxos, pendingUtxos, mutex>>

(* A bug: an answer without success ends the list instead of throwing. *)
ServePageOrGiveUp(t) ==
    /\ fetch[t].stage = "asked"
    /\ \E page \in {Page(fetch[t].page), {}} :
          fetch' = [fetch EXCEPT ![t] =
             Served(fetch[t].page, fetch[t].got \cup page, IsLastPage(fetch[t].page))]
    /\ UNCHANGED <<cachedUtxos, pendingUtxos, shouldRefreshUtxoCache, mutex>>

(* The watcher answers with a page of what it knows at this moment. *)
ServePage(t) ==
    /\ fetch[t].stage = "asked"
    /\ fetch' = [fetch EXCEPT ![t] =
          Served(fetch[t].page, fetch[t].got \cup Page(fetch[t].page),
                 IsLastPage(fetch[t].page))]
    /\ UNCHANGED <<cachedUtxos, pendingUtxos, shouldRefreshUtxoCache, mutex>>

(* The page was full: ask for the next one. *)
NextPage(t) ==
    /\ fetch[t].stage = "served"
    /\ ~fetch[t].last
    /\ fetch' = [fetch EXCEPT ![t] = Asked(fetch[t].page + 1, fetch[t].got)]
    /\ UNCHANGED <<cachedUtxos, pendingUtxos, shouldRefreshUtxoCache, mutex>>

(* The reply is complete and t installs it.  The mutex and the pending     *)
(* utxos change further in what follows in the same turn.                  *)
Install(t) ==
    /\ fetch[t].stage = "served"
    /\ fetch[t].last
    /\ cachedUtxos' = fetch[t].got
    /\ fetch' = [fetch EXCEPT ![t] = NoFetch]

(* The call fails: the cache stays as it is, the flag stays down, and the  *)
(* finally block releases the mutex.                                       *)
FailFetch(t) ==
    /\ fetch[t].stage = "asked"
    /\ fetch' = [fetch EXCEPT ![t] = NoFetch]
    /\ mutex' = Release(mutex)
    /\ UNCHANGED <<cachedUtxos, pendingUtxos, shouldRefreshUtxoCache>>
=============================================================================
