---------------------------- MODULE FeeRelay_proofs ----------------------------
(***************************************************************************)
(* Proofs about the pool of fee utxos, for every set of requests, every    *)
(* initial ledger, every set of fees and every bound; at the end that the  *)
(* relayer implements FeeLending.                                          *)
(***************************************************************************)
EXTENDS FeeRelay, FiniteSetTheorems, Sums

---------------------------------------------------------------------------
(* Lemmas about the operators *)

(* The parts of a split are amounts. *)
LEMMA SplitAmountType ==
    ASSUME NEW amount \in Nat, NEW n \in {2, 3}
    PROVE  SplitAmount(amount, n) \in Seq(Nat)
<1>1. CASE n = 2
  BY <1>1 DEF SplitAmount
<1>2. CASE n = 3
  BY <1>2 DEF SplitAmount
<1>3. QED
  BY <1>1, <1>2

(* So are the amounts of the fee change. *)
LEMMA FeeChangeType ==
    ASSUME NEW amount \in Nat, NEW feeAmount \in Nat, NEW n \in {1, 2},
           NEW split \in BOOLEAN
    PROVE  FeeChangeAmounts(amount, feeAmount, n, split) \in Seq(Nat)
<1>1. MAX_OUTPUTS - n \in {2, 3}
  BY DEF MAX_OUTPUTS
<1>2. SplitAmount(amount, MAX_OUTPUTS - n) \in Seq(Nat)
  BY <1>1, SplitAmountType
<1>3. QED
  BY <1>2 DEF FeeChangeAmounts

(* The mutex stays a holder and a queue of tasks. *)
Mutex == [holder : Task \cup {Free}, queue : Seq(Task)]

LEMMA AcquireType ==
    ASSUME NEW m \in Mutex, NEW t \in Task
    PROVE  Acquire(m, t) \in Mutex
  BY DEF Acquire, Mutex

LEMMA ReleaseType ==
    ASSUME NEW m \in Mutex
    PROVE  Release(m) \in Mutex
  BY DEF Release, Mutex

(* A task that asks for the mutex never takes it from its holder. *)
LEMMA AcquireHolder ==
    ASSUME NEW m \in Mutex, NEW t \in Task, m.holder \in Task
    PROVE  Acquire(m, t).holder = m.holder
  BY ManagerAssumption DEF Acquire, Mutex

(* When one page holds every utxo, the first page is all the watcher knows *)
(* and it is the last one.                                                 *)
LEMMA PageIsAll ==
    ASSUME SinglePage, TypeOK
    PROVE  Page(1) = watcher /\ IsLastPage(1)
<1>1. DOMAIN ledger \subseteq 1..MaxUtxo
  BY ChainAssumption DEF TypeOK, ChainTypeOK
<1>2. ASSUME NEW S, S \subseteq watcher
      PROVE  Cardinality(S) \in Nat /\ Cardinality(S) < PageLimit
  <2>1. S \subseteq 1..MaxUtxo
    BY <1>1, <1>2 DEF TypeOK, ChainTypeOK
  <2>2. IsFiniteSet(1..MaxUtxo) /\ Cardinality(1..MaxUtxo) = MaxUtxo
    BY FS_Interval, ChainAssumption
  <2>3. IsFiniteSet(S) /\ Cardinality(S) <= MaxUtxo
    BY <2>1, <2>2, FS_Subset
  <2>4. Cardinality(S) \in Nat
    BY <2>3, FS_CardinalityType
  <2>5. QED
    BY <2>3, <2>4, ChainAssumption DEF SinglePage
<1>3. ASSUME NEW u \in watcher
      PROVE  u \in Page(1)
  <2> DEFINE before == Cardinality({v \in watcher : v < u})
  <2>1. before \in Nat /\ before < PageLimit
    BY <1>2
  <2>2. (1 - 1) * PageLimit <= before /\ before < 1 * PageLimit
    BY <2>1, ChainAssumption
  <2>3. QED
    BY <2>2 DEF Page
<1>4. Page(1) = watcher
  BY <1>3 DEF Page
<1>5. QED
  BY <1>2, <1>4 DEF IsLastPage
---------------------------------------------------------------------------
(* What a request does with the list of utxos it got *)

LEMMA GetFeeUtxoType ==
    ASSUME TypeOK, NEW r \in Request, NEW feeAmount \in Nat,
           NEW cached \in SUBSET DOMAIN ledger,
           NEW pending \in SUBSET DOMAIN ledger,
           NEW m \in Mutex,
           GetFeeUtxo(r, feeAmount, cached, pending, m)
    PROVE  /\ shouldRefreshUtxoCache' \in BOOLEAN
           /\ mutex' \in Mutex
           /\ pendingUtxos' \subseteq DOMAIN ledger
           /\ status' \in [Request -> Status]
           /\ utxo' \in [Request -> Nat]
           /\ change' \in [Request -> Seq(Nat)]
<1> DEFINE valid == ValidUtxos(cached, pending, feeAmount)
<1> USE DEF TypeOK, ChainTypeOK, ManagerTypeOK
<1>1. /\ shouldRefreshUtxoCache' \in BOOLEAN
      /\ mutex' \in Mutex
  <2>1. <<r, "refresh">> \in Task
    BY DEF Task
  <2>2. Acquire(m, <<r, "refresh">>) \in Mutex
    BY <2>1, AcquireType
  <2>3. Refresh(r, m, Cardinality(valid))
    BY DEF GetFeeUtxo
  <2>4. QED
    BY <2>2, <2>3 DEF Refresh
<1>2. CASE TurnAway(r, pending)
  BY <1>1, <1>2 DEF TurnAway, Status
<1>3. ASSUME NEW u \in Highest(valid), Reserve(r, u, feeAmount, cached, pending)
      PROVE  /\ pendingUtxos' \subseteq DOMAIN ledger
             /\ status' \in [Request -> Status]
             /\ utxo' \in [Request -> Nat]
             /\ change' \in [Request -> Seq(Nat)]
  <2>1. u \in DOMAIN ledger /\ ledger[u] \in Nat /\ ledger[u] >= feeAmount
    BY DEF Highest, ValidUtxos
  <2>2. ledger[u] - feeAmount \in Nat
    BY <2>1
  <2>3. NeedMoreUtxos(cached) \in BOOLEAN
    BY DEF NeedMoreUtxos
  <2>4. ASSUME NEW n \in {1, 2},
               change' = [change EXCEPT ![r] =
                   FeeChangeAmounts(ledger[u] - feeAmount, feeAmount, n,
                      NeedMoreUtxos(cached))]
        PROVE  change' \in [Request -> Seq(Nat)]
    BY <2>2, <2>3, <2>4, FeeChangeType
  <2>5. change' \in [Request -> Seq(Nat)]
    BY <1>3, <2>4 DEF Reserve
  <2>6. status' \in [Request -> Status]
    BY <1>3 DEF Reserve, Status
  <2>7. u \in Nat
    BY <2>1
  <2>8. utxo' \in [Request -> Nat]
    BY <1>3, <2>7 DEF Reserve
  <2>9. pendingUtxos' \subseteq DOMAIN ledger
    BY <1>3, <2>1 DEF Reserve
  <2>10. QED
    BY <2>5, <2>6, <2>8, <2>9
<1>4. QED
  BY <1>1, <1>2, <1>3 DEF GetFeeUtxo

---------------------------------------------------------------------------
(* Type correctness *)

LEMMA InitType == Init => TypeOK
<1> SUFFICES ASSUME Init PROVE TypeOK
  OBVIOUS
<1> USE ChainAssumption, ManagerAssumption DEF Init, ChainInit, ManagerInit
<1>1. ChainTypeOK
  BY DEF ChainTypeOK
<1>2. NoFetch \in Fetch
  BY DEF NoFetch, Fetch
<1>3. fetch \in [Task -> Fetch] /\ \A t \in Task : fetch[t].got \subseteq DOMAIN ledger
  <2>1. NoFetch.got = {}
    BY DEF NoFetch
  <2>2. QED
    BY <1>2, <2>1
<1>4. mutex \in [holder : Task \cup {Free}, queue : Seq(Task)]
  OBVIOUS
<1>5. ManagerTypeOK
  BY <1>3, <1>4 DEF ManagerTypeOK
<1>6. QED
  BY <1>1, <1>5 DEF TypeOK, Status

(* Every step keeps the type of every variable. *)
LEMMA NextType == TypeOK /\ [Next]_vars => TypeOK'
<1> SUFFICES ASSUME TypeOK, [Next]_vars PROVE TypeOK'
  OBVIOUS
<1> USE DEF TypeOK, ChainTypeOK, ManagerTypeOK
<1>1. CASE UNCHANGED vars
  BY <1>1 DEF vars, chainVars, managerVars, requestVars
<1>2. ASSUME NEW r \in Request, CreateFromCache(r)
      PROVE  TypeOK'
  <2>1. fee \in Nat /\ mutex \in Mutex
    BY ChainAssumption DEF Mutex
  <2>2. GetFeeUtxo(r, fee, cachedUtxos, pendingUtxos, mutex)
    BY <1>2 DEF CreateFromCache
  <2>3. quote' \in [Request -> Nat]
    BY <1>2, <2>1 DEF CreateFromCache
  <2>4. UNCHANGED <<chainVars, cachedUtxos, fetch, process>>
    BY <1>2 DEF CreateFromCache
  <2>5. QED
    BY <2>1, <2>2, <2>3, <2>4, GetFeeUtxoType DEF chainVars, Mutex
<1>3. ASSUME NEW r \in Request, CreateAndWait(r)
      PROVE  TypeOK'
  <2>1. fee \in Nat /\ mutex \in Mutex /\ <<r, "create">> \in Task
    BY ChainAssumption DEF Mutex, Task
  <2>2. mutex' \in Mutex
    BY <1>3, <2>1, AcquireType DEF CreateAndWait
  <2>3. QED
    BY <1>3, <2>1, <2>2 DEF CreateAndWait, chainVars, Mutex, Status
<1>4. ASSUME NEW r \in Request,
             CreateFails(r) \/ Submit(r) \/ Cancel(r) \/ Abandon(r) \/ SubmitFails(r)
      PROVE  TypeOK'
  <2>1. CASE Submit(r)
    BY <2>1 DEF Submit, chainVars, managerVars, Status
  <2>2. CASE Cancel(r)
    BY <2>2 DEF Cancel, CancelPending, chainVars, Status
  <2>3. CASE Abandon(r)
    BY <2>3 DEF Abandon, chainVars, managerVars, Status
  <2>4. CASE SubmitFails(r)
    BY <2>4 DEF SubmitFails, chainVars, managerVars, Status
  <2>5. CASE CreateFails(r)
    BY <2>5 DEF CreateFails, chainVars, managerVars, Status
  <2>6. QED
    BY <1>4, <2>1, <2>2, <2>3, <2>4, <2>5
<1>5. ASSUME NEW r \in Request, ChainAccepts(r)
      PROVE  TypeOK'
  <2>1. Spend(utxo[r], change[r])
    BY <1>5 DEF ChainAccepts
  <2>2. change[r] \in Seq(Nat)
    OBVIOUS
  <2>3. /\ ledger' \in Seq(Nat)
        /\ Len(ledger') = Len(ledger) + Len(change[r])
        /\ DOMAIN ledger \subseteq DOMAIN ledger'
    BY <2>1, <2>2 DEF Spend
  <2>4. unspent' \subseteq DOMAIN ledger'
    BY <2>1, <2>2, <2>3 DEF Spend
  <2>5. ChainTypeOK'
    BY <2>1, <2>3, <2>4 DEF Spend
  <2>6. UNCHANGED managerVars
    BY <1>5 DEF ChainAccepts
  <2>7. ManagerTypeOK'
    BY <2>3, <2>6 DEF managerVars
  <2>8. status' \in [Request -> Status]
    BY <1>5 DEF ChainAccepts, Status
  <2>9. UNCHANGED <<quote, utxo, change, process>>
    BY <1>5 DEF ChainAccepts
  <2>10. QED
    BY <2>5, <2>7, <2>8, <2>9
<1>6. ASSUME NEW t \in Task, Ask(t) \/ Serve(t) \/ AskNext(t)
      PROVE  TypeOK'
  <2>1. UNCHANGED <<chainVars, requestVars, process, cachedUtxos, pendingUtxos, mutex>>
    BY <1>6 DEF Ask, Serve, AskNext, StartFetch, ServePage, NextPage
  <2>2. fetch[t] \in Fetch
    OBVIOUS
  <2>3. CASE Ask(t)
    <3>1. fetch' = [fetch EXCEPT ![t] = Asked(1, {})]
      BY <2>3 DEF Ask, StartFetch
    <3>2. Asked(1, {}) \in Fetch
      BY DEF Asked, Fetch
    <3>3. shouldRefreshUtxoCache' \in BOOLEAN
      BY <2>3 DEF Ask, StartFetch
    <3>4. \A s \in Task : fetch'[s].got \subseteq DOMAIN ledger
      BY <3>1 DEF Asked
    <3>5. QED
      BY <2>1, <3>1, <3>2, <3>3, <3>4 DEF chainVars, requestVars
  <2>4. CASE Serve(t)
    <3> DEFINE reply == Served(fetch[t].page, fetch[t].got \cup Page(fetch[t].page),
                               IsLastPage(fetch[t].page))
    <3>1. fetch' = [fetch EXCEPT ![t] = reply]
      BY <2>4 DEF Serve, ServePage
    <3>2. Page(fetch[t].page) \subseteq DOMAIN ledger
      BY DEF Page
    <3>3. fetch[t].got \cup Page(fetch[t].page) \subseteq DOMAIN ledger
      BY <3>2
    <3>4. DOMAIN ledger \subseteq Utxo
      BY ChainAssumption DEF Utxo
    <3>5. reply \in Fetch
      BY <2>2, <3>3, <3>4 DEF Fetch, IsLastPage, Served
    <3>6. reply.got = fetch[t].got \cup Page(fetch[t].page)
      BY DEF Served
    <3> HIDE DEF reply
    <3>7. \A s \in Task : fetch'[s].got \subseteq DOMAIN ledger
      BY <3>1, <3>3, <3>6
    <3>8. fetch' \in [Task -> Fetch]
      BY <3>1, <3>5
    <3>9. UNCHANGED shouldRefreshUtxoCache
      BY <2>4 DEF Serve, ServePage
    <3>10. QED
      BY <2>1, <3>7, <3>8, <3>9 DEF chainVars, requestVars
  <2>5. CASE AskNext(t)
    <3> DEFINE next == Asked(fetch[t].page + 1, fetch[t].got)
    <3>1. fetch' = [fetch EXCEPT ![t] = next] /\ UNCHANGED shouldRefreshUtxoCache
      BY <2>5 DEF AskNext, NextPage
    <3>2. next \in Fetch /\ next.got = fetch[t].got
      BY <2>2 DEF Fetch, Asked
    <3> HIDE DEF next
    <3>3. \A s \in Task : fetch'[s].got \subseteq DOMAIN ledger
      BY <3>1, <3>2
    <3>4. QED
      BY <2>1, <3>1, <3>2, <3>3 DEF chainVars, requestVars
  <2>6. QED
    BY <1>6, <2>3, <2>4, <2>5
<1>7. ASSUME NEW t \in Task, PassThrough(t)
      PROVE  TypeOK'
  <2>1. t[1] \in Request /\ mutex \in Mutex
    BY DEF Task, Mutex
  <2>2. Release(mutex) \in Mutex
    BY <2>1, ReleaseType
  <2>3. UNCHANGED <<chainVars, cachedUtxos, fetch, quote, process>>
    BY <1>7 DEF PassThrough
  <2>4. CASE GetFeeUtxo(t[1], quote[t[1]], cachedUtxos, pendingUtxos, Release(mutex))
    <3>1. quote[t[1]] \in Nat
      BY <2>1
    <3>2. QED
      BY <2>1, <2>2, <2>3, <2>4, <3>1, GetFeeUtxoType DEF chainVars, Mutex
  <2>5. CASE /\ mutex' = Release(mutex)
             /\ UNCHANGED <<pendingUtxos, shouldRefreshUtxoCache, status, utxo, change>>
    BY <2>2, <2>3, <2>5 DEF chainVars, Mutex
  <2>6. QED
    BY <1>7, <2>4, <2>5 DEF PassThrough
<1>8. ASSUME NEW t \in Task, Refreshed(t)
      PROVE  TypeOK'
  <2>1. t[1] \in Request /\ mutex \in Mutex
    BY DEF Task, Mutex
  <2>2. Release(mutex) \in Mutex
    BY <2>1, ReleaseType
  <2>3. cachedUtxos' = fetch[t].got /\ fetch' = [fetch EXCEPT ![t] = NoFetch]
    BY <1>8 DEF Refreshed, Install
  <2>4. cachedUtxos' \subseteq DOMAIN ledger
    BY <2>3
  <2>5. NoFetch \in Fetch /\ NoFetch.got = {}
    BY DEF NoFetch, Fetch
  <2>6. fetch' \in [Task -> Fetch] /\ \A s \in Task : fetch'[s].got \subseteq DOMAIN ledger
    BY <2>3, <2>5
  <2>7. UNCHANGED <<chainVars, quote, process>>
    BY <1>8 DEF Refreshed
  <2>8. CleanPending(fetch[t].got) \subseteq DOMAIN ledger
    BY DEF CleanPending
  <2>9. CASE GetFeeUtxo(t[1], quote[t[1]], fetch[t].got, CleanPending(fetch[t].got),
                        Release(mutex))
    <3>1. quote[t[1]] \in Nat /\ fetch[t].got \in SUBSET DOMAIN ledger
      BY <2>1
    <3>2. QED
      BY <2>1, <2>2, <2>4, <2>6, <2>7, <2>8, <2>9, <3>1, GetFeeUtxoType
         DEF chainVars, Mutex
  <2>10. CASE /\ pendingUtxos' = CleanPending(fetch[t].got)
              /\ mutex' = Release(mutex)
              /\ UNCHANGED <<shouldRefreshUtxoCache, status, utxo, change>>
    BY <2>2, <2>4, <2>6, <2>7, <2>8, <2>10 DEF chainVars, Mutex
  <2>11. QED
    BY <1>8, <2>9, <2>10 DEF Refreshed
<1>9. ASSUME NEW t \in Task, RefreshFails(t)
      PROVE  TypeOK'
  <2>1. t[1] \in Request /\ mutex \in Mutex
    BY DEF Task, Mutex
  <2>2. mutex' \in Mutex
    BY <1>9, <2>1, ReleaseType DEF RefreshFails, FailFetch
  <2>3. NoFetch \in Fetch /\ NoFetch.got = {}
    BY DEF NoFetch, Fetch
  <2>4. fetch' \in [Task -> Fetch] /\ \A s \in Task : fetch'[s].got \subseteq DOMAIN ledger
    BY <1>9, <2>3 DEF RefreshFails, FailFetch
  <2>5. status' \in [Request -> Status] /\ process' \in {"up", "stopping", "down"}
    BY <1>9, <2>1 DEF RefreshFails, Status
  <2>6. QED
    BY <1>9, <2>2, <2>4, <2>5 DEF RefreshFails, FailFetch, chainVars, Mutex
<1>10. CASE Exit
  BY <1>10 DEF Exit, chainVars, managerVars, requestVars
<1>11. CASE Environment
  BY <1>11 DEF Environment, WatcherSync, ChangeFee, managerVars, requestVars
<1>12. QED
  BY <1>1, <1>2, <1>3, <1>4, <1>5, <1>6, <1>7, <1>8, <1>9, <1>10, <1>11 DEF Next

(* Every variable of the relayer and of its environment keeps its type,    *)
(* with any limit on the pages of the watcher.                             *)
THEOREM TypeCorrect == Spec => []TypeOK
  BY InitType, NextType, PTL DEF Spec

---------------------------------------------------------------------------
(* The inductive invariant *)

(* A request that goes on with a list of utxos, whose offers are unspent   *)
(* and in which every held utxo is pending, takes a utxo nobody holds.     *)
LEMMA GetFeeUtxoHeld ==
    ASSUME TypeOK, NEW r \in Request, NEW feeAmount, NEW cached, NEW pending, NEW m,
           GetFeeUtxo(r, feeAmount, cached, pending, m),
           cachedUtxos' = cached, unspent' = unspent,
           cached \ pending \subseteq unspent,
           \A s \in Request : Holds(s) => utxo[s] \in cached \cap pending \cap unspent,
           NoDoubleReservation
    PROVE  /\ pending \subseteq pendingUtxos'
           /\ pendingUtxos' \subseteq pending \cup cached
           /\ HeldIsPending'
           /\ NoDoubleReservation'
<1> DEFINE valid == ValidUtxos(cached, pending, feeAmount)
<1> USE DEF TypeOK
<1>1. CASE TurnAway(r, pending)
  <2>1. \A s \in Request : Holds(s)' => Holds(s) /\ utxo'[s] = utxo[s]
    BY <1>1 DEF TurnAway, Holds
  <2>2. pendingUtxos' = pending
    BY <1>1 DEF TurnAway
  <2>3. QED
    BY <2>1, <2>2 DEF HeldIsPending, NoDoubleReservation
<1>2. ASSUME NEW u \in Highest(valid), Reserve(r, u, feeAmount, cached, pending)
      PROVE  /\ pending \subseteq pendingUtxos'
             /\ pendingUtxos' \subseteq pending \cup cached
             /\ HeldIsPending'
             /\ NoDoubleReservation'
  <2>1. u \in cached \ pending
    BY DEF Highest, ValidUtxos
  <2>2. pendingUtxos' = pending \cup {u} /\ utxo' = [utxo EXCEPT ![r] = u]
    BY <1>2 DEF Reserve
  <2>3. \A s \in Request \ {r} : Holds(s)' => Holds(s) /\ utxo'[s] = utxo[s]
    BY <1>2 DEF Reserve, Holds
  <2>4. utxo'[r] = u
    BY <2>2
  <2>5. HeldIsPending'
    BY <2>1, <2>2, <2>3, <2>4 DEF HeldIsPending
  <2>6. \A s \in Request \ {r} : Holds(s)' => utxo'[s] # u
    BY <2>1, <2>3
  <2>7. NoDoubleReservation'
    BY <2>3, <2>4, <2>6 DEF NoDoubleReservation
  <2>8. QED
    BY <2>1, <2>2, <2>5, <2>7
<1>3. QED
  BY <1>1, <1>2 DEF GetFeeUtxo

(* refresh leaves the mutex with its holder, if it has one. *)
LEMMA GetFeeUtxoHolder ==
    ASSUME NEW r \in Request, NEW feeAmount, NEW cached, NEW pending,
           NEW m \in Mutex, m.holder \in Task,
           GetFeeUtxo(r, feeAmount, cached, pending, m)
    PROVE  mutex'.holder = m.holder
<1>1. <<r, "refresh">> \in Task
  BY DEF Task
<1>2. Acquire(m, <<r, "refresh">>).holder = m.holder
  BY <1>1, AcquireHolder
<1>3. QED
  BY <1>2 DEF GetFeeUtxo, Refresh

LEMMA InitIInv == Init => IInv
<1> SUFFICES ASSUME Init PROVE IInv
  OBVIOUS
<1>1. TypeOK
  BY InitType
<1>2. \A t \in Task : fetch[t].stage = "idle"
  BY DEF Init, ManagerInit, NoFetch
<1>3. \A r \in Request : ~Holds(r)
  BY DEF Init, Holds
<1>4. watcher = unspent /\ cachedUtxos \subseteq unspent /\ pendingUtxos = {}
  BY DEF Init, ChainInit, ManagerInit
<1>5. QED
  BY <1>1, <1>2, <1>3, <1>4
     DEF IInv, FetchHoldsMutex, WholeReply, HeldIsPending, PendingIsCached, WatcherLag,
         ReplyLag, OffersOnlyUnspent, NoDoubleReservation

(* Steps of the requests that leave the pool, the chain and the watcher    *)
(* alone, and begin to hold no utxo.                                       *)
LEMMA QuietStep ==
    ASSUME IInv, TypeOK', UNCHANGED <<chainVars, managerVars, utxo>>,
           \A r \in Request : Holds(r)' => Holds(r)
    PROVE  IInv'
  BY DEF IInv, FetchHoldsMutex, WholeReply, HeldIsPending, PendingIsCached, WatcherLag,
         ReplyLag, OffersOnlyUnspent, NoDoubleReservation, chainVars, managerVars

(* With no reply in flight after the step, the fetch invariants are empty. *)
LEMMA NoFetchInFlight ==
    ASSUME \A t \in Task : fetch'[t].stage = "idle"
    PROVE  FetchHoldsMutex' /\ WholeReply' /\ ReplyLag'
  BY DEF FetchHoldsMutex, WholeReply, ReplyLag

(***************************************************************************)
(* Every step keeps the invariant.  The steps that matter: a request takes *)
(* a utxo (CreateFromCache, PassThrough, Refreshed), the watcher answers   *)
(* (Serve), its reply replaces the cache (Refreshed) and the chain spends  *)
(* a utxo (ChainAccepts), which is pending and in every reply in flight.   *)
(***************************************************************************)
LEMMA NextIInv == SinglePage /\ IInv /\ [Next]_vars => IInv'
<1> SUFFICES ASSUME SinglePage, IInv, [Next]_vars PROVE IInv'
  OBVIOUS
<1>t. TypeOK /\ TypeOK'
  BY NextType DEF IInv
<1>1. CASE UNCHANGED vars
  <2>1. \A r \in Request : Holds(r)' => Holds(r)
    BY <1>1 DEF vars, requestVars, Holds
  <2>2. QED
    BY <1>1, <1>t, <2>1, QuietStep DEF vars, requestVars
<1>2. ASSUME NEW r \in Request, CreateFromCache(r)
      PROVE  IInv'
  <2>1. /\ GetFeeUtxo(r, fee, cachedUtxos, pendingUtxos, mutex)
        /\ UNCHANGED <<chainVars, cachedUtxos, fetch>>
    BY <1>2 DEF CreateFromCache
  <2>2. /\ pendingUtxos \subseteq pendingUtxos'
        /\ pendingUtxos' \subseteq pendingUtxos \cup cachedUtxos
        /\ HeldIsPending' /\ NoDoubleReservation'
    BY <1>t, <2>1, GetFeeUtxoHeld DEF IInv, OffersOnlyUnspent, HeldIsPending, chainVars
  <2>3. FetchHoldsMutex'
    <3>1. SUFFICES ASSUME NEW t \in Task, fetch'[t].stage # "idle"
                   PROVE  mutex'.holder = t
      BY DEF FetchHoldsMutex
    <3>2. mutex.holder = t
      BY <2>1, <3>1 DEF IInv, FetchHoldsMutex
    <3>3. mutex \in Mutex
      BY <1>t DEF TypeOK, ManagerTypeOK, Mutex
    <3>4. QED
      BY <2>1, <3>2, <3>3, GetFeeUtxoHolder
  <2>4. OffersOnlyUnspent' /\ PendingIsCached' /\ WatcherLag' /\ ReplyLag' /\ WholeReply'
    BY <2>1, <2>2
       DEF IInv, OffersOnlyUnspent, PendingIsCached, WatcherLag, ReplyLag, WholeReply, chainVars
  <2>5. QED
    BY <1>t, <2>2, <2>3, <2>4 DEF IInv
<1>3. ASSUME NEW r \in Request, CreateAndWait(r)
      PROVE  IInv'
  <2>1. /\ mutex' = Acquire(mutex, <<r, "create">>)
        /\ UNCHANGED <<chainVars, cachedUtxos, pendingUtxos, fetch, utxo>>
    BY <1>3 DEF CreateAndWait
  <2>2. FetchHoldsMutex'
    <3>1. SUFFICES ASSUME NEW t \in Task, fetch'[t].stage # "idle"
                   PROVE  mutex'.holder = t
      BY DEF FetchHoldsMutex
    <3>2. mutex.holder = t
      BY <2>1, <3>1 DEF IInv, FetchHoldsMutex
    <3>3. mutex \in Mutex /\ <<r, "create">> \in Task
      BY <1>t DEF TypeOK, ManagerTypeOK, Mutex, Task
    <3>4. QED
      BY <2>1, <3>2, <3>3, AcquireHolder
  <2>3. \A s \in Request : Holds(s)' => Holds(s)
    BY <1>3, <1>t DEF CreateAndWait, Holds, TypeOK
  <2>4. HeldIsPending' /\ NoDoubleReservation'
    BY <2>1, <2>3 DEF IInv, HeldIsPending, NoDoubleReservation, chainVars
  <2>5. OffersOnlyUnspent' /\ PendingIsCached' /\ WatcherLag' /\ ReplyLag' /\ WholeReply'
    BY <2>1 DEF IInv, OffersOnlyUnspent, PendingIsCached, WatcherLag, ReplyLag, WholeReply,
                chainVars
  <2>6. QED
    BY <1>t, <2>2, <2>4, <2>5 DEF IInv
<1>4. ASSUME NEW r \in Request, CreateFails(r) \/ Submit(r) \/ Abandon(r) \/ SubmitFails(r)
      PROVE  IInv'
  <2>1. UNCHANGED <<chainVars, managerVars, utxo>>
    BY <1>4 DEF CreateFails, Submit, Abandon, SubmitFails
  <2>2. \A s \in Request : Holds(s)' => Holds(s)
    BY <1>4, <1>t DEF CreateFails, Submit, Abandon, SubmitFails, Holds, TypeOK
  <2>3. QED
    BY <1>t, <2>1, <2>2, QuietStep
<1>5. ASSUME NEW r \in Request, Cancel(r)
      PROVE  IInv'
  <2>1. /\ status[r] = "reserved"
        /\ pendingUtxos' = pendingUtxos \ {utxo[r]}
        /\ status' = [status EXCEPT ![r] = "cancelled"]
        /\ UNCHANGED <<chainVars, cachedUtxos, mutex, fetch, utxo>>
    BY <1>5 DEF Cancel, CancelPending
  <2>2. utxo[r] \in unspent /\ Holds(r)
    BY <2>1 DEF IInv, HeldIsPending, Holds
  <2>3. \A s \in Request : Holds(s)' => Holds(s) /\ s # r
    BY <2>1, <1>t DEF Holds, TypeOK
  <2>4. \A s \in Request : Holds(s)' => utxo[s] # utxo[r]
    BY <2>2, <2>3 DEF IInv, NoDoubleReservation
  <2>5. HeldIsPending' /\ NoDoubleReservation'
    BY <2>1, <2>3, <2>4 DEF IInv, HeldIsPending, NoDoubleReservation, chainVars
  <2>6. OffersOnlyUnspent' /\ PendingIsCached' /\ WatcherLag' /\ ReplyLag'
    BY <2>1, <2>2
       DEF IInv, OffersOnlyUnspent, PendingIsCached, WatcherLag, ReplyLag, chainVars
  <2>7. FetchHoldsMutex' /\ WholeReply'
    BY <2>1 DEF IInv, FetchHoldsMutex, WholeReply
  <2>8. QED
    BY <1>t, <2>5, <2>6, <2>7 DEF IInv
<1>6. ASSUME NEW r \in Request, ChainAccepts(r)
      PROVE  IInv'
  <2> DEFINE u == utxo[r]
             new == Len(ledger) + 1 .. Len(ledger) + Len(change[r])
  <2>1. /\ status[r] = "submitted"
        /\ status' = [status EXCEPT ![r] = "accepted"]
        /\ unspent' = (unspent \ {u}) \cup new
        /\ UNCHANGED <<watcher, managerVars, utxo>>
    BY <1>6 DEF ChainAccepts, Spend
  <2>2. new \cap DOMAIN ledger = {}
    BY <1>t DEF TypeOK, ChainTypeOK
  <2>3. Holds(r) /\ u \in cachedUtxos \cap pendingUtxos \cap unspent
    BY <2>1 DEF IInv, HeldIsPending, Holds
  <2>4. \A s \in Request : Holds(s)' => Holds(s) /\ s # r
    BY <2>1, <1>t DEF Holds, TypeOK
  <2>5. \A s \in Request : Holds(s)' => utxo[s] # u
    BY <2>3, <2>4 DEF IInv, NoDoubleReservation
  <2>6. HeldIsPending' /\ NoDoubleReservation'
    BY <2>1, <2>4, <2>5 DEF IInv, HeldIsPending, NoDoubleReservation, managerVars
  <2>7. cachedUtxos \cap new = {}
    BY <2>2, <1>t DEF TypeOK, ManagerTypeOK
  <2>8. OffersOnlyUnspent' /\ WatcherLag'
    BY <2>1, <2>3, <2>7 DEF IInv, OffersOnlyUnspent, WatcherLag, managerVars
  <2>p. PendingIsCached'
    <3>1. pendingUtxos \cap new = {}
      BY <2>2, <1>t DEF TypeOK, ManagerTypeOK
    <3>2. QED
      BY <2>1, <3>1 DEF IInv, PendingIsCached, managerVars
  <2>9. ReplyLag'
    <3>1. SUFFICES ASSUME NEW t \in Task, fetch[t].stage = "served"
                   PROVE  LET got == fetch[t].got
                          IN  /\ got \ pendingUtxos \subseteq unspent'
                              /\ cachedUtxos \cap unspent' \subseteq got
                              /\ got \cap unspent' \subseteq watcher
                              /\ watcher \ got \subseteq unspent'
      BY <2>1 DEF ReplyLag, managerVars
    <3> DEFINE got == fetch[t].got
    <3>2. got \cap new = {}
      BY <2>2, <1>t DEF TypeOK, ManagerTypeOK
    <3>3. /\ got \ pendingUtxos \subseteq unspent
          /\ cachedUtxos \cap unspent \subseteq got
          /\ got \cap unspent \subseteq watcher
          /\ watcher \ got \subseteq unspent
      BY <3>1 DEF IInv, ReplyLag
    <3>4. QED
      BY <2>1, <2>3, <2>7, <3>2, <3>3
  <2>10. FetchHoldsMutex' /\ WholeReply'
    BY <2>1 DEF IInv, FetchHoldsMutex, WholeReply, managerVars
  <2>11. QED
    BY <1>t, <2>6, <2>8, <2>p, <2>9, <2>10 DEF IInv
<1>7. ASSUME NEW t \in Task, Ask(t)
      PROVE  IInv'
  <2>1. /\ mutex.holder = t
        /\ fetch' = [fetch EXCEPT ![t] = Asked(1, {})]
        /\ UNCHANGED <<chainVars, requestVars, cachedUtxos, pendingUtxos, mutex>>
    BY <1>7 DEF Ask, StartFetch, Granted
  <2>2. \A s \in Task : s # t => fetch'[s] = fetch[s]
    BY <2>1, <1>t DEF TypeOK, ManagerTypeOK
  <2>3. fetch'[t] = Asked(1, {})
    BY <2>1, <1>t DEF TypeOK, ManagerTypeOK
  <2>4. FetchHoldsMutex' /\ WholeReply'
    BY <2>1, <2>2, <2>3 DEF IInv, FetchHoldsMutex, WholeReply, Asked
  <2>5. ReplyLag'
    BY <2>1, <2>2, <2>3 DEF IInv, ReplyLag, Asked, chainVars
  <2>6. /\ HeldIsPending' /\ NoDoubleReservation' /\ OffersOnlyUnspent'
        /\ PendingIsCached' /\ WatcherLag'
    BY <2>1 DEF IInv, HeldIsPending, NoDoubleReservation, OffersOnlyUnspent,
                PendingIsCached, WatcherLag, Holds, chainVars, requestVars
  <2>7. QED
    BY <1>t, <2>4, <2>5, <2>6 DEF IInv
<1>8. ASSUME NEW t \in Task, Serve(t)
      PROVE  IInv'
  <2>1. /\ fetch[t].stage = "asked"
        /\ fetch' = [fetch EXCEPT ![t] =
               Served(fetch[t].page, fetch[t].got \cup Page(fetch[t].page),
                      IsLastPage(fetch[t].page))]
        /\ UNCHANGED <<chainVars, requestVars, cachedUtxos, pendingUtxos, mutex>>
    BY <1>8 DEF Serve, ServePage
  <2>2. fetch[t].page = 1 /\ fetch[t].got = {}
    BY <2>1 DEF IInv, WholeReply
  <2>3. Page(1) = watcher /\ IsLastPage(1)
    BY <1>t, PageIsAll
  <2>4. fetch' = [fetch EXCEPT ![t] = Served(1, watcher, IsLastPage(1))]
    BY <2>1, <2>2, <2>3
  <2>5. fetch'[t] = Served(1, watcher, IsLastPage(1))
    BY <2>4, <1>t DEF TypeOK, ManagerTypeOK
  <2>6. \A s \in Task : s # t => fetch'[s] = fetch[s]
    BY <2>1, <1>t DEF TypeOK, ManagerTypeOK
  <2>7. FetchHoldsMutex' /\ WholeReply'
    BY <2>1, <2>3, <2>5, <2>6 DEF IInv, FetchHoldsMutex, WholeReply, Served
  <2>8. ReplyLag'
    BY <2>1, <2>5, <2>6 DEF IInv, ReplyLag, WatcherLag, Served, chainVars
  <2>9. /\ HeldIsPending' /\ NoDoubleReservation' /\ OffersOnlyUnspent'
        /\ PendingIsCached' /\ WatcherLag'
    BY <2>1 DEF IInv, HeldIsPending, NoDoubleReservation, OffersOnlyUnspent,
                PendingIsCached, WatcherLag, Holds, chainVars, requestVars
  <2>10. QED
    BY <1>t, <2>7, <2>8, <2>9 DEF IInv
<1>9. ASSUME NEW t \in Task, AskNext(t)
      PROVE  IInv'
  BY <1>9 DEF AskNext, NextPage, IInv, WholeReply
<1>10. ASSUME NEW t \in Task, PassThrough(t)
       PROVE  IInv'
  <2>1. UNCHANGED <<chainVars, cachedUtxos, fetch>> /\ Granted(t)
    BY <1>10 DEF PassThrough
  <2>2. \A s \in Task : fetch'[s].stage = "idle"
    BY <2>1 DEF IInv, FetchHoldsMutex, Granted
  <2>3. CASE GetFeeUtxo(t[1], quote[t[1]], cachedUtxos, pendingUtxos, Release(mutex))
    <3>1. t[1] \in Request
      BY DEF Task
    <3>2. /\ pendingUtxos \subseteq pendingUtxos'
          /\ pendingUtxos' \subseteq pendingUtxos \cup cachedUtxos
          /\ HeldIsPending' /\ NoDoubleReservation'
      BY <1>t, <2>1, <2>3, <3>1, GetFeeUtxoHeld
         DEF IInv, OffersOnlyUnspent, HeldIsPending, chainVars
    <3>3. OffersOnlyUnspent' /\ PendingIsCached' /\ WatcherLag'
      BY <2>1, <3>2 DEF IInv, OffersOnlyUnspent, PendingIsCached, WatcherLag, chainVars
    <3>4. QED
      BY <1>t, <2>2, <3>2, <3>3, NoFetchInFlight DEF IInv
  <2>4. CASE UNCHANGED <<pendingUtxos, shouldRefreshUtxoCache, status, utxo, change>>
    <3>1. /\ HeldIsPending' /\ NoDoubleReservation' /\ OffersOnlyUnspent'
          /\ PendingIsCached' /\ WatcherLag'
      BY <2>1, <2>4 DEF IInv, HeldIsPending, NoDoubleReservation, OffersOnlyUnspent,
                        PendingIsCached, WatcherLag, Holds, chainVars
    <3>2. QED
      BY <1>t, <2>2, <3>1, NoFetchInFlight DEF IInv
  <2>5. QED
    BY <1>10, <2>3, <2>4 DEF PassThrough
<1>11. ASSUME NEW t \in Task, Refreshed(t)
       PROVE  IInv'
  <2> DEFINE got == fetch[t].got
             clean == CleanPending(got)
  <2>1. /\ fetch[t].stage = "served"
        /\ cachedUtxos' = got
        /\ fetch' = [fetch EXCEPT ![t] = NoFetch]
        /\ UNCHANGED chainVars
    BY <1>11 DEF Refreshed, Install
  <2>2. \A s \in Task : fetch'[s].stage = "idle"
    <3>1. \A s \in Task : s # t => fetch[s].stage = "idle"
      BY <2>1 DEF IInv, FetchHoldsMutex
    <3>2. QED
      BY <2>1, <3>1, <1>t DEF TypeOK, ManagerTypeOK, NoFetch
  <2>3. /\ got \ pendingUtxos \subseteq unspent
        /\ cachedUtxos \cap unspent \subseteq got
        /\ got \cap unspent \subseteq watcher
        /\ watcher \ got \subseteq unspent
    BY <2>1 DEF IInv, ReplyLag
  <2>4. got \ clean \subseteq unspent
    BY <2>3 DEF CleanPending
  <2>5. \A s \in Request : Holds(s) => utxo[s] \in got \cap clean \cap unspent
    BY <2>3 DEF IInv, HeldIsPending, CleanPending
  <2>6. watcher \ clean \subseteq unspent
    BY <2>3 DEF IInv, WatcherLag, CleanPending
  <2>c. clean \subseteq got
    BY DEF CleanPending
  <2> HIDE DEF clean
  <2>7. ASSUME clean \subseteq pendingUtxos', pendingUtxos' \subseteq clean \cup got,
               HeldIsPending', NoDoubleReservation'
        PROVE  IInv'
    <3>1. OffersOnlyUnspent'
      BY <2>1, <2>4, <2>7 DEF OffersOnlyUnspent, chainVars
    <3>2. WatcherLag'
      BY <2>1, <2>3, <2>6, <2>7 DEF WatcherLag, chainVars
    <3>3. PendingIsCached'
      BY <2>1, <2>7, <2>c DEF PendingIsCached
    <3>4. QED
      BY <1>t, <2>2, <2>7, <3>1, <3>2, <3>3, NoFetchInFlight DEF IInv
  <2>8. CASE GetFeeUtxo(t[1], quote[t[1]], got, clean, Release(mutex))
    <3>1. t[1] \in Request
      BY DEF Task
    <3>2. unspent' = unspent /\ NoDoubleReservation
      BY <2>1 DEF chainVars, IInv
    <3>3. /\ clean \subseteq pendingUtxos' /\ pendingUtxos' \subseteq clean \cup got
          /\ HeldIsPending' /\ NoDoubleReservation'
      BY <1>t, <2>1, <2>4, <2>5, <2>8, <3>1, <3>2, GetFeeUtxoHeld
    <3>4. QED
      BY <2>7, <3>3
  <2>9. CASE pendingUtxos' = clean /\ UNCHANGED <<status, utxo>>
    <3>1. HeldIsPending' /\ NoDoubleReservation'
      BY <2>1, <2>5, <2>9 DEF IInv, HeldIsPending, NoDoubleReservation, Holds, chainVars
    <3>2. QED
      BY <2>7, <2>9, <3>1
  <2>10. QED
    BY <1>11, <2>8, <2>9 DEF Refreshed, clean
<1>12. ASSUME NEW t \in Task, RefreshFails(t)
       PROVE  IInv'
  <2>1. /\ fetch[t].stage = "asked"
        /\ fetch' = [fetch EXCEPT ![t] = NoFetch]
        /\ UNCHANGED <<chainVars, cachedUtxos, pendingUtxos, utxo>>
    BY <1>12 DEF RefreshFails, FailFetch
  <2>2. \A s \in Task : fetch'[s].stage = "idle"
    <3>1. \A s \in Task : s # t => fetch[s].stage = "idle"
      BY <2>1 DEF IInv, FetchHoldsMutex
    <3>2. QED
      BY <2>1, <3>1, <1>t DEF TypeOK, ManagerTypeOK, NoFetch
  <2>3. \A s \in Request : Holds(s)' => Holds(s)
    <3>1. status' = status \/ status' = [status EXCEPT ![t[1]] = "errored"]
      BY <1>12 DEF RefreshFails
    <3>2. QED
      BY <3>1, <1>t DEF Holds, TypeOK
  <2>4. /\ HeldIsPending' /\ NoDoubleReservation' /\ OffersOnlyUnspent'
        /\ PendingIsCached' /\ WatcherLag'
    BY <2>1, <2>3 DEF IInv, HeldIsPending, NoDoubleReservation, OffersOnlyUnspent,
                      PendingIsCached, WatcherLag, chainVars
  <2>5. QED
    BY <1>t, <2>2, <2>4, NoFetchInFlight DEF IInv
<1>13. CASE Exit
  <2>1. \A r \in Request : Holds(r)' => Holds(r)
    BY <1>13 DEF Exit, requestVars, Holds
  <2>2. QED
    BY <1>13, <1>t, <2>1, QuietStep DEF Exit, requestVars
<1>14. CASE Environment
  <2>1. UNCHANGED <<managerVars, requestVars>> /\ unspent' = unspent
    BY <1>14 DEF Environment, WatcherSync, ChangeFee
  <2>2. watcher' = watcher \/ watcher' = unspent
    BY <1>14 DEF Environment, WatcherSync, ChangeFee
  <2>3. /\ HeldIsPending' /\ NoDoubleReservation' /\ OffersOnlyUnspent'
        /\ PendingIsCached'
    BY <2>1 DEF IInv, HeldIsPending, NoDoubleReservation, OffersOnlyUnspent,
                PendingIsCached, Holds, managerVars, requestVars
  <2>4. WatcherLag' /\ ReplyLag'
    BY <2>1, <2>2 DEF IInv, WatcherLag, ReplyLag, managerVars
  <2>5. FetchHoldsMutex' /\ WholeReply'
    BY <2>1 DEF IInv, FetchHoldsMutex, WholeReply, managerVars
  <2>6. QED
    BY <1>t, <2>3, <2>4, <2>5 DEF IInv
<1>15. QED
  BY <1>1, <1>2, <1>3, <1>4, <1>5, <1>6, <1>7, <1>8, <1>9, <1>10, <1>11, <1>12,
     <1>13, <1>14 DEF Next

---------------------------------------------------------------------------
(* The theorems *)

(* As long as the fee payer's utxos fit in one page of the watcher, what   *)
(* is reserved, cached, in a reply, known to the watcher and unspent on    *)
(* the chain fits together.                                                *)
THEOREM PoolInvariant ==
    ASSUME SinglePage
    PROVE  Spec => []IInv
  BY InitIInv, NextIInv, PTL DEF Spec

(* As long as the fee payer's utxos fit in one page of the watcher, no two *)
(* requests ever hold the same fee utxo.                                   *)
THEOREM NeverReservedTwice ==
    ASSUME SinglePage
    PROVE  Spec => []NoDoubleReservation
<1>1. IInv => NoDoubleReservation
  BY DEF IInv
<1>2. QED
  BY <1>1, InitIInv, NextIInv, PTL DEF Spec

(* And what the pool can offer is never a utxo already spent.              *)
THEOREM NeverOffersSpent ==
    ASSUME SinglePage
    PROVE  Spec => []OffersOnlyUnspent
<1>1. IInv => OffersOnlyUnspent
  BY DEF IInv
<1>2. QED
  BY <1>1, InitIInv, NextIInv, PTL DEF Spec

---------------------------------------------------------------------------
(* A pending utxo leaves the list for a reason *)

(* GetFeeUtxo only adds to the pending utxos it begins with. *)
LEMMA GetFeeUtxoKeepsPending ==
    ASSUME NEW r \in Request, NEW feeAmount, NEW cached, NEW pending, NEW m,
           GetFeeUtxo(r, feeAmount, cached, pending, m)
    PROVE  pending \subseteq pendingUtxos'
  BY DEF GetFeeUtxo, TurnAway, Reserve

LEMMA NextReleased == SinglePage /\ IInv /\ [Next]_vars => [Released]_vars
<1> SUFFICES ASSUME SinglePage, IInv, Next PROVE Released
  OBVIOUS
<1>1. ASSUME pendingUtxos \subseteq pendingUtxos'
      PROVE  Released
  BY <1>1 DEF Released
<1>2. ASSUME NEW r \in Request, CreateFromCache(r)
      PROVE  Released
  BY <1>1, <1>2, GetFeeUtxoKeepsPending DEF CreateFromCache
<1>3. ASSUME NEW r \in Request,
             \/ CreateFails(r) \/ CreateAndWait(r) \/ Submit(r) \/ Abandon(r)
             \/ ChainAccepts(r) \/ SubmitFails(r)
      PROVE  Released
  BY <1>1, <1>3 DEF CreateFails, CreateAndWait, Submit, Abandon, ChainAccepts, SubmitFails,
                    managerVars
<1>4. ASSUME NEW r \in Request, Cancel(r)
      PROVE  Released
  <2>1. status \in [Request -> Status]
    BY DEF IInv, TypeOK
  <2>2. Holds(r) /\ status'[r] = "cancelled"
    BY <1>4, <2>1 DEF Cancel, Holds
  <2>3. pendingUtxos' = pendingUtxos \ {utxo[r]}
    BY <1>4 DEF Cancel, CancelPending
  <2>4. QED
    BY <2>2, <2>3 DEF Released
<1>5. ASSUME NEW t \in Task, Ask(t) \/ Serve(t) \/ AskNext(t) \/ RefreshFails(t)
      PROVE  Released
  BY <1>1, <1>5 DEF Ask, StartFetch, Serve, ServePage, AskNext, NextPage,
                    RefreshFails, FailFetch
<1>6. ASSUME NEW t \in Task, PassThrough(t)
      PROVE  Released
  <2>1. t[1] \in Request
    BY DEF Task
  <2>2. pendingUtxos \subseteq pendingUtxos'
    BY <1>6, <2>1, GetFeeUtxoKeepsPending DEF PassThrough
  <2>3. QED
    BY <1>1, <2>2
<1>7. ASSUME NEW t \in Task, Refreshed(t)
      PROVE  Released
  <2>1. t[1] \in Request
    BY DEF Task
  <2>2. CleanPending(fetch[t].got) \subseteq pendingUtxos'
    BY <1>7, <2>1, GetFeeUtxoKeepsPending DEF Refreshed
  <2>3. cachedUtxos \cap unspent \subseteq fetch[t].got
    BY <1>7 DEF Refreshed, Install, IInv, ReplyLag
  <2>4. pendingUtxos \cap unspent \subseteq CleanPending(fetch[t].got)
    BY <2>3 DEF IInv, PendingIsCached, CleanPending
  <2>5. QED
    BY <2>2, <2>4 DEF Released
<1>8. CASE Exit \/ Environment
  BY <1>1, <1>8 DEF Exit, Environment, managerVars
<1>9. QED
  BY <1>2, <1>3, <1>4, <1>5, <1>6, <1>7, <1>8 DEF Next

(* The claim of cleanPending: as long as the utxos fit in one page, what   *)
(* it drops has been spent.                                                *)
THEOREM PendingReleasedForAReason ==
    ASSUME SinglePage
    PROVE  Spec => ReleasedOnlySpentOrCancelled
  BY InitIInv, NextIInv, NextReleased, PTL DEF Spec, ReleasedOnlySpentOrCancelled

---------------------------------------------------------------------------
(* No refresh is lost *)

(* After acquire a task waits, or the mutex was free and the task has it. *)
LEMMA AcquireWaits ==
    ASSUME NEW m \in Mutex, NEW t \in Task
    PROVE  \/ Acquire(m, t).queue # <<>>
           \/ m.holder = Free /\ Acquire(m, t).holder = t
  BY DEF Acquire, Mutex

(* refresh raises the flag only together with a call of getUtxos. *)
LEMMA GetFeeUtxoWaits ==
    ASSUME TypeOK, NEW r \in Request, NEW feeAmount, NEW cached, NEW pending,
           NEW m \in Mutex,
           GetFeeUtxo(r, feeAmount, cached, pending, m),
           m.holder = Free => \A t \in Task : fetch'[t].stage = "idle"
    PROVE  RefreshNotLost'
<1> DEFINE t == <<r, "refresh">>
<1>1. t \in Task
  BY DEF Task
<1>2. ASSUME shouldRefreshUtxoCache'
      PROVE  mutex' = Acquire(m, t)
  BY <1>2 DEF GetFeeUtxo, Refresh
<1> HIDE DEF t
<1>3. QED
  BY <1>1, <1>2, AcquireWaits DEF RefreshNotLost, Granted

(* When the holder of the mutex releases it and nothing is fetched, the    *)
(* first task of the queue has the mutex and has still to run.             *)
LEMMA ReleaseWaits ==
    ASSUME NEW m \in Mutex, m.queue # <<>>, mutex' = Release(m),
           \A t \in Task : fetch'[t].stage = "idle"
    PROVE  RefreshNotLost'
<1>1. Head(m.queue) \in Task
  BY DEF Mutex
<1>2. mutex'.holder = Head(m.queue)
  BY DEF Release
<1>3. QED
  BY <1>1, <1>2 DEF RefreshNotLost, Granted

MutexInv == TypeOK /\ FetchHoldsMutex /\ RefreshNotLost

(* With any page limit: the steps that touch the mutex keep the flag, the  *)
(* mutex and the fetches in agreement.                                     *)
LEMMA NextMutexInv == MutexInv /\ [Next]_vars => MutexInv'
<1> SUFFICES ASSUME MutexInv, [Next]_vars PROVE MutexInv'
  OBVIOUS
<1> USE DEF MutexInv
<1>t. TypeOK /\ TypeOK'
  BY NextType
<1>m. mutex \in Mutex /\ fetch \in [Task -> Fetch]
  BY <1>t DEF TypeOK, ManagerTypeOK, Mutex
<1>f. ASSUME mutex.holder = Free
      PROVE  \A t \in Task : fetch[t].stage = "idle"
  BY <1>f, ManagerAssumption DEF FetchHoldsMutex
<1>q. ASSUME UNCHANGED <<mutex, fetch, shouldRefreshUtxoCache>>
      PROVE  MutexInv'
  BY <1>q, <1>t DEF FetchHoldsMutex, RefreshNotLost, Granted
<1>1. CASE UNCHANGED vars
  BY <1>1, <1>q DEF vars, managerVars
<1>2. ASSUME NEW r \in Request, CreateFromCache(r)
      PROVE  MutexInv'
  <2>1. /\ GetFeeUtxo(r, fee, cachedUtxos, pendingUtxos, mutex)
        /\ UNCHANGED fetch
    BY <1>2 DEF CreateFromCache
  <2>2. RefreshNotLost'
    BY <1>t, <1>m, <1>f, <2>1, GetFeeUtxoWaits
  <2>3. FetchHoldsMutex'
    BY <1>m, <2>1, GetFeeUtxoHolder DEF FetchHoldsMutex
  <2>4. QED
    BY <1>t, <2>2, <2>3
<1>3. ASSUME NEW r \in Request, CreateAndWait(r)
      PROVE  MutexInv'
  <2>1. mutex' = Acquire(mutex, <<r, "create">>) /\ UNCHANGED fetch
    BY <1>3 DEF CreateAndWait
  <2>2. <<r, "create">> \in Task
    BY DEF Task
  <2>3. RefreshNotLost'
    BY <1>m, <1>f, <2>1, <2>2, AcquireWaits DEF RefreshNotLost, Granted
  <2>4. FetchHoldsMutex'
    BY <1>m, <2>1, <2>2, AcquireHolder DEF FetchHoldsMutex
  <2>5. QED
    BY <1>t, <2>3, <2>4
<1>4. ASSUME NEW r \in Request,
             \/ CreateFails(r) \/ Submit(r) \/ Cancel(r) \/ Abandon(r)
             \/ ChainAccepts(r) \/ SubmitFails(r)
      PROVE  MutexInv'
  BY <1>4, <1>q DEF CreateFails, Submit, Cancel, Abandon, ChainAccepts, SubmitFails,
                    managerVars
<1>5. ASSUME NEW t \in Task, Ask(t)
      PROVE  MutexInv'
  <2>1. /\ mutex.holder = t
        /\ fetch' = [fetch EXCEPT ![t] = Asked(1, {})]
        /\ UNCHANGED mutex
        /\ ~shouldRefreshUtxoCache'
    BY <1>5 DEF Ask, StartFetch, Granted
  <2>2. FetchHoldsMutex'
    BY <1>m, <2>1 DEF FetchHoldsMutex
  <2>3. QED
    BY <1>t, <2>1, <2>2 DEF RefreshNotLost
<1>6. ASSUME NEW t \in Task, Serve(t) \/ AskNext(t)
      PROVE  MutexInv'
  <2>1. /\ fetch[t].stage # "idle"
        /\ \A s \in Task : s # t => fetch'[s] = fetch[s]
        /\ UNCHANGED <<mutex, shouldRefreshUtxoCache>>
    BY <1>m, <1>6 DEF Serve, ServePage, AskNext, NextPage
  <2>2. FetchHoldsMutex'
    BY <2>1 DEF FetchHoldsMutex
  <2>3. \A s \in Task : Granted(s) => Granted(s)'
    BY <2>1 DEF Granted
  <2>4. QED
    BY <1>t, <2>1, <2>2, <2>3 DEF RefreshNotLost
<1>7. ASSUME NEW t \in Task, PassThrough(t)
      PROVE  MutexInv'
  <2>1. t[1] \in Request
    BY DEF Task
  <2>2. \A s \in Task : fetch'[s].stage = "idle"
    BY <1>7 DEF PassThrough, Granted, FetchHoldsMutex
  <2>3. FetchHoldsMutex'
    BY <2>2 DEF FetchHoldsMutex
  <2>4. CASE GetFeeUtxo(t[1], quote[t[1]], cachedUtxos, pendingUtxos, Release(mutex))
    BY <1>t, <1>m, <2>1, <2>2, <2>3, <2>4, ReleaseType, GetFeeUtxoWaits
  <2>5. CASE UNCHANGED shouldRefreshUtxoCache
    BY <1>7, <1>t, <2>3, <2>5 DEF PassThrough, RefreshNotLost
  <2>6. QED
    BY <1>7, <2>4, <2>5 DEF PassThrough
<1>8. ASSUME NEW t \in Task, fetch[t].stage # "idle",
             fetch' = [fetch EXCEPT ![t] = NoFetch]
      PROVE  /\ \A s \in Task : fetch'[s].stage = "idle"
             /\ shouldRefreshUtxoCache => mutex.queue # <<>>
  <2>1. mutex.holder = t
    BY <1>8 DEF FetchHoldsMutex
  <2>2. \A s \in Task : s # t => fetch[s].stage = "idle"
    BY <2>1 DEF FetchHoldsMutex
  <2>3. \A s \in Task : ~Granted(s)
    BY <1>8, <2>1 DEF Granted
  <2>4. QED
    BY <1>m, <1>8, <2>2, <2>3 DEF RefreshNotLost, NoFetch
<1>9. ASSUME NEW t \in Task, Refreshed(t)
      PROVE  MutexInv'
  <2>1. t[1] \in Request
    BY DEF Task
  <2>2. /\ \A s \in Task : fetch'[s].stage = "idle"
        /\ shouldRefreshUtxoCache => mutex.queue # <<>>
    BY <1>8, <1>9 DEF Refreshed, Install
  <2>3. FetchHoldsMutex'
    BY <2>2 DEF FetchHoldsMutex
  <2>4. CASE GetFeeUtxo(t[1], quote[t[1]], fetch[t].got, CleanPending(fetch[t].got),
                        Release(mutex))
    BY <1>t, <1>m, <2>1, <2>2, <2>3, <2>4, ReleaseType, GetFeeUtxoWaits
  <2>5. CASE mutex' = Release(mutex) /\ UNCHANGED shouldRefreshUtxoCache
    <3>1. CASE shouldRefreshUtxoCache
      BY <1>t, <1>m, <2>2, <2>3, <2>5, <3>1, ReleaseWaits
    <3>2. CASE ~shouldRefreshUtxoCache
      BY <1>t, <2>3, <2>5, <3>2 DEF RefreshNotLost
    <3>3. QED
      BY <3>1, <3>2
  <2>6. QED
    BY <1>9, <2>4, <2>5 DEF Refreshed
<1>10. ASSUME NEW t \in Task, RefreshFails(t)
       PROVE  MutexInv'
  <2>1. /\ mutex' = Release(mutex) /\ UNCHANGED shouldRefreshUtxoCache
        /\ fetch[t].stage # "idle" /\ fetch' = [fetch EXCEPT ![t] = NoFetch]
    BY <1>10 DEF RefreshFails, FailFetch
  <2>2. /\ \A s \in Task : fetch'[s].stage = "idle"
        /\ shouldRefreshUtxoCache => mutex.queue # <<>>
    BY <1>8, <2>1
  <2>3. FetchHoldsMutex'
    BY <2>2 DEF FetchHoldsMutex
  <2>4. CASE shouldRefreshUtxoCache
    BY <1>t, <1>m, <2>1, <2>2, <2>3, <2>4, ReleaseWaits
  <2>5. CASE ~shouldRefreshUtxoCache
    BY <1>t, <2>1, <2>3, <2>5 DEF RefreshNotLost
  <2>6. QED
    BY <2>4, <2>5
<1>11. CASE Exit \/ Environment
  BY <1>11, <1>q DEF Exit, Environment, managerVars
<1>12. QED
  BY <1>1, <1>2, <1>3, <1>4, <1>5, <1>6, <1>7, <1>9, <1>10, <1>11 DEF Next

(* Whenever the flag is up, somebody is there to act on it, however many   *)
(* requests, refreshes and failed fetches came before.                     *)
THEOREM RefreshNeverLost == Spec => []RefreshNotLost
<1>1. Init => MutexInv
  <2> SUFFICES ASSUME Init PROVE MutexInv
    OBVIOUS
  <2>1. \A t \in Task : fetch[t].stage = "idle"
    BY DEF Init, ManagerInit, NoFetch
  <2>2. ~shouldRefreshUtxoCache
    BY DEF Init, ManagerInit
  <2>3. QED
    BY <2>1, <2>2, InitType DEF MutexInv, FetchHoldsMutex, RefreshNotLost
<1>2. MutexInv => RefreshNotLost
  BY DEF MutexInv
<1>3. QED
  BY <1>1, <1>2, NextMutexInv, PTL DEF Spec

---------------------------------------------------------------------------
(* A request without a utxo, and a fee that changes *)

(* Request r is served with a list of utxos, for the fee it has read. *)
IsServed(r) ==
    /\ \E q, cached, pending, m :
          /\ q \in Nat /\ cached \in SUBSET DOMAIN ledger
          /\ quote'[r] = q /\ GetFeeUtxo(r, q, cached, pending, m)
    /\ ledger' = ledger

(* What a step may do to a request: only GetFeeUtxo turns it away or gives *)
(* it a transaction, and only Submit has it refused by validate.           *)
LEMMA RequestStep ==
    ASSUME TypeOK, Next, NEW r \in Request
    PROVE  \/ IsServed(r)
           \/ Submit(r)
           \/ /\ utxo'[r] = utxo[r] /\ change'[r] = change[r]
              /\ status'[r] \in {"starved", "invalid", "reserved"} =>
                    status'[r] = status[r] /\ quote'[r] = quote[r]
<1> USE DEF TypeOK, ChainTypeOK, ManagerTypeOK
<1> DEFINE Same == /\ utxo'[r] = utxo[r] /\ change'[r] = change[r]
                   /\ status'[r] \in {"starved", "invalid", "reserved"} =>
                         status'[r] = status[r] /\ quote'[r] = quote[r]
<1>1. ASSUME NEW s \in Request, CreateFromCache(s) PROVE IsServed(r) \/ Same
  <2>1. fee \in Nat
    BY ChainAssumption
  <2>2. CASE s = r
    BY <1>1, <2>1, <2>2 DEF CreateFromCache, chainVars, IsServed
  <2>3. CASE s # r
    BY <1>1, <2>3 DEF CreateFromCache, GetFeeUtxo, TurnAway, Reserve
  <2>4. QED
    BY <2>2, <2>3
<1>2. ASSUME NEW t \in Task, PassThrough(t) PROVE IsServed(r) \/ Same
  <2>1. t[1] \in Request /\ quote[t[1]] \in Nat
    BY DEF Task
  <2>2. UNCHANGED <<status, utxo, change, quote>> \/ IsServed(t[1])
    BY <1>2, <2>1 DEF PassThrough, chainVars, IsServed
  <2>3. CASE t[1] # r
    BY <1>2, <2>1, <2>3 DEF PassThrough, GetFeeUtxo, TurnAway, Reserve
  <2>4. QED
    BY <2>2, <2>3
<1>3. ASSUME NEW t \in Task, Refreshed(t) PROVE IsServed(r) \/ Same
  <2>1. t[1] \in Request /\ quote[t[1]] \in Nat /\ fetch[t].got \in SUBSET DOMAIN ledger
    BY DEF Task
  <2>2. UNCHANGED <<status, utxo, change, quote>> \/ IsServed(t[1])
    BY <1>3, <2>1 DEF Refreshed, chainVars, IsServed
  <2>3. CASE t[1] # r
    BY <1>3, <2>1, <2>3 DEF Refreshed, GetFeeUtxo, TurnAway, Reserve
  <2>4. QED
    BY <2>2, <2>3
<1>4. ASSUME NEW s \in Request, Submit(s) PROVE Submit(r) \/ Same
  BY <1>4 DEF Submit
<1>5. ASSUME NEW s \in Request,
             \/ CreateFails(s) \/ CreateAndWait(s) \/ Cancel(s) \/ Abandon(s)
             \/ ChainAccepts(s) \/ SubmitFails(s)
      PROVE  Same
  BY <1>5 DEF CreateFails, CreateAndWait, Cancel, Abandon, ChainAccepts, SubmitFails
<1>6. ASSUME NEW t \in Task, Ask(t) \/ Serve(t) \/ AskNext(t) \/ RefreshFails(t) PROVE Same
  <2>1. t[1] \in Request
    BY DEF Task
  <2>2. QED
    BY <1>6, <2>1 DEF Ask, Serve, AskNext, RefreshFails, requestVars
<1>7. ASSUME Exit \/ Environment PROVE Same
  BY <1>7 DEF Exit, Environment, requestVars
<1> HIDE DEF Same
<1>8. IsServed(r) \/ Submit(r) \/ Same
  BY <1>1, <1>2, <1>3, <1>4, <1>5, <1>6, <1>7 DEF Next
<1>9. QED
  BY <1>8 DEF Same

(***************************************************************************)
(* getFeeUtxo calls refresh before it throws for lack of utxos             *)
(* (utxo-manager.js), so that whoever is turned away has it under way.     *)
(* A pool that is to hold no utxos is never refreshed: DESIRED must not    *)
(* be 0.                                                                   *)
(***************************************************************************)
THEOREM StarvedHasRefresh ==
    ASSUME DESIRED > 0
    PROVE  Spec => StarvedStartsRefresh
<1> DEFINE Starved(r) ==
       status[r] # "starved" /\ status'[r] = "starved"
          => \/ shouldRefreshUtxoCache'
             \/ \E t \in Task : fetch'[t].stage # "idle"
<1>1. ASSUME TypeOK, Next, NEW r \in Request, status[r] # "starved", status'[r] = "starved"
      PROVE  shouldRefreshUtxoCache'
  <2>1. PICK q, cached, pending, m :
           /\ q \in Nat /\ cached \in SUBSET DOMAIN ledger
           /\ GetFeeUtxo(r, q, cached, pending, m)
    BY <1>1, RequestStep DEF Submit, IsServed, TypeOK
  <2>2. ValidUtxos(cached, pending, q) = {}
    BY <1>1, <2>1 DEF GetFeeUtxo, Reserve, TypeOK
  <2>3. Refresh(r, m, Cardinality({}))
    BY <2>1, <2>2 DEF GetFeeUtxo
  <2>4. 2 * Cardinality({}) < DESIRED
    BY FS_EmptySet, ManagerAssumption
  <2>5. QED
    BY <2>3, <2>4 DEF Refresh
<1>2. TypeOK /\ [Next]_vars => \A r \in Request : Starved(r)
  BY <1>1 DEF vars, requestVars
<1>3. QED
  BY <1>2, TypeCorrect, PTL DEF Spec, StarvedStartsRefresh

(* The parts of a split add up to what was split. *)
LEMMA SplitTotal ==
    ASSUME NEW amount \in Nat, NEW n \in {2, 3}
    PROVE  TotalAmount(SplitAmount(amount, n)) = amount
<1> DEFINE parts == SplitAmount(amount, n)
<1>1. CASE n = 2
  <2>1. parts[1] \in Int /\ parts[2] \in Int /\ parts[1] + parts[2] = amount
    BY <1>1 DEF SplitAmount
  <2>2. SumFunctionOnSet(parts, 1..2) = parts[1] + parts[2]
    BY <2>1, SumUpTo
  <2>3. DOMAIN parts = 1..2
    BY <1>1 DEF SplitAmount
  <2>4. QED
    BY <2>1, <2>2, <2>3 DEF TotalAmount, SumFunction
<1>2. CASE n = 3
  <2>1. /\ parts[1] \in Int /\ parts[2] \in Int /\ parts[3] \in Int
        /\ parts[1] + parts[2] + parts[3] = amount
    BY <1>2 DEF SplitAmount
  <2>2. SumFunctionOnSet(parts, 1..3) = parts[1] + parts[2] + parts[3]
    BY <2>1, SumUpTo
  <2>3. DOMAIN parts = 1..3
    BY <1>2 DEF SplitAmount
  <2>4. QED
    BY <2>1, <2>2, <2>3 DEF TotalAmount, SumFunction
<1>3. QED
  BY <1>1, <1>2

LEMMA FeeChangeTotal ==
    ASSUME NEW amount \in Nat, NEW feeAmount \in Nat, NEW n \in {1, 2}, NEW split \in BOOLEAN
    PROVE  TotalAmount(FeeChangeAmounts(amount, feeAmount, n, split)) = amount
<1>1. TotalAmount(<<>>) = 0
  BY SumEmpty DEF TotalAmount, SumFunction
<1>2. TotalAmount(<<amount>>) = amount
  <2>1. <<amount>>[1] = amount /\ DOMAIN <<amount>> = 1..1
    OBVIOUS
  <2>2. SumFunctionOnSet(<<amount>>, 1..1) = amount
    BY <2>1, SumUpTo
  <2>3. QED
    BY <2>1, <2>2 DEF TotalAmount, SumFunction
<1>3. MAX_OUTPUTS - n \in {2, 3}
  BY DEF MAX_OUTPUTS
<1>4. TotalAmount(SplitAmount(amount, MAX_OUTPUTS - n)) = amount
  BY <1>3, SplitTotal
<1>5. QED
  BY <1>1, <1>2, <1>4 DEF FeeChangeAmounts

(* The client holds a transaction that pays the fee it was made for. *)
PaysQuote ==
    \A r \in Request : status[r] = "reserved" =>
       utxo[r] \in DOMAIN ledger /\ ledger[utxo[r]] = TotalAmount(change[r]) + quote[r]

LEMMA ReservePaysQuote ==
    ASSUME TypeOK, NEW r \in Request, NEW q \in Nat, NEW cached \in SUBSET DOMAIN ledger,
           NEW pending, NEW m, GetFeeUtxo(r, q, cached, pending, m), status'[r] = "reserved"
    PROVE  utxo'[r] \in DOMAIN ledger /\ ledger[utxo'[r]] = TotalAmount(change'[r]) + q
<1> USE DEF TypeOK, ChainTypeOK
<1>1. PICK u \in Highest(ValidUtxos(cached, pending, q)) : Reserve(r, u, q, cached, pending)
  BY DEF GetFeeUtxo, TurnAway
<1>2. u \in DOMAIN ledger /\ ledger[u] \in Nat /\ ledger[u] >= q /\ utxo'[r] = u
  BY <1>1 DEF Highest, ValidUtxos, Reserve
<1>3. PICK n \in {1, 2} :
         change'[r] = FeeChangeAmounts(ledger[u] - q, q, n, NeedMoreUtxos(cached))
  BY <1>1 DEF Reserve
<1>4. TotalAmount(change'[r]) = ledger[u] - q
  <2>1. ledger[u] - q \in Nat /\ NeedMoreUtxos(cached) \in BOOLEAN
    BY <1>2 DEF NeedMoreUtxos
  <2>2. QED
    BY <1>3, <2>1, FeeChangeTotal
<1>5. QED
  BY <1>2, <1>4

(* Transactions and utxos only come to the ledger. *)
LEMMA LedgerKept ==
    ASSUME TypeOK, [Next]_vars
    PROVE  \A u \in DOMAIN ledger : u \in DOMAIN ledger' /\ ledger'[u] = ledger[u]
<1>1. ASSUME NEW r \in Request, ChainAccepts(r)
      PROVE  \A u \in DOMAIN ledger : u \in DOMAIN ledger' /\ ledger'[u] = ledger[u]
  <2>1. ledger \in Seq(Nat) /\ change[r] \in Seq(Nat) /\ ledger' = ledger \o change[r]
    BY <1>1 DEF ChainAccepts, Spend, TypeOK, ChainTypeOK
  <2>2. QED
    BY <2>1
<1>2. ledger' = ledger \/ \E r \in Request : ChainAccepts(r)
  BY DEF Next, CreateFails, CreateFromCache, CreateAndWait, Submit, Cancel, Abandon,
         SubmitFails, Ask, PassThrough, Serve, AskNext, Refreshed, RefreshFails, Exit,
         Environment, WatcherSync, ChangeFee, chainVars, vars
<1>3. QED
  BY <1>1, <1>2

LEMMA NextPaysQuote ==
    ASSUME TypeOK, PaysQuote, [Next]_vars
    PROVE  PaysQuote'
<1> SUFFICES ASSUME NEW r \in Request, status'[r] = "reserved"
             PROVE  /\ utxo'[r] \in DOMAIN ledger'
                    /\ ledger'[utxo'[r]] = TotalAmount(change'[r]) + quote'[r]
  BY DEF PaysQuote
<1>1. CASE IsServed(r)
  <2>1. PICK q, cached, pending, m :
           /\ q \in Nat /\ cached \in SUBSET DOMAIN ledger
           /\ quote'[r] = q /\ GetFeeUtxo(r, q, cached, pending, m)
           /\ ledger' = ledger
    BY <1>1 DEF IsServed
  <2>2. QED
    BY <2>1, ReservePaysQuote
<1>2. CASE Submit(r)
  BY <1>2 DEF Submit, TypeOK
<1>3. CASE /\ utxo'[r] = utxo[r] /\ change'[r] = change[r]
           /\ status'[r] = status[r] /\ quote'[r] = quote[r]
  BY <1>3, LedgerKept DEF PaysQuote
<1>4. QED
  BY <1>1, <1>2, <1>3, RequestStep DEF vars, requestVars

(***************************************************************************)
(* What create builds, however it splits the change, is what validate      *)
(* (relay-tx.js) asks for; it refuses it only if the fee has changed since *)
(* create read it.                                                         *)
(***************************************************************************)
THEOREM RefusedOnlyForNewFee == Spec => InvalidOnlyForNewFee
<1> DEFINE Refused(r) ==
       status[r] # "invalid" /\ status'[r] = "invalid" => fee # quote[r]
<1>1. ASSUME TypeOK, PaysQuote, Next, NEW r \in Request,
             status[r] # "invalid", status'[r] = "invalid"
      PROVE  fee # quote[r]
  <2>1. ~IsServed(r)
    BY <1>1 DEF IsServed, GetFeeUtxo, TurnAway, Reserve, TypeOK
  <2>2. Submit(r)
    BY <1>1, <2>1, RequestStep
  <2>3. ~PaysFee(r) /\ status[r] = "reserved"
    BY <1>1, <2>2 DEF Submit, TypeOK
  <2>4. ledger[utxo[r]] = TotalAmount(change[r]) + quote[r]
    BY <1>1, <2>3 DEF PaysQuote
  <2>5. QED
    BY <2>3, <2>4 DEF PaysFee
<1>2. TypeOK /\ PaysQuote /\ [Next]_vars => \A r \in Request : Refused(r)
  BY <1>1 DEF vars, requestVars
<1>3. Init => PaysQuote
  BY DEF Init, PaysQuote
<1>4. TypeOK /\ PaysQuote /\ [Next]_vars => PaysQuote'
  BY NextPaysQuote
<1>5. QED
  BY <1>2, <1>3, <1>4, TypeCorrect, PTL DEF Spec, InvalidOnlyForNewFee

---------------------------------------------------------------------------
(***************************************************************************)
(* The fee relayer implements FeeLending: every step lends a free utxo,    *)
(* takes one back, spends one, or changes nothing of it.                   *)
(***************************************************************************)

(* A request goes on at most once *)

(* What CreateQueued asks of a mutex and a status for request r. *)
QueuedOnce(m, st, r) ==
    LET t  == <<r, "create">>
        at == {i \in DOMAIN m.queue : m.queue[i] = t}
    IN  /\ m.holder = t => st = "creating" /\ at = {}
        /\ at # {} => st = "creating"
        /\ \A i, j \in at : i = j

(* The task is neither the holder nor in the queue. *)
NotQueued(m, r) ==
    /\ m.holder # <<r, "create">>
    /\ \A i \in DOMAIN m.queue : m.queue[i] # <<r, "create">>

(* refresh adds a task of its own, never a create task. *)
LEMMA AcquireRefresh ==
    ASSUME NEW m \in Mutex, NEW r \in Request, NEW s \in Request, NEW st,
           QueuedOnce(m, st, s)
    PROVE  QueuedOnce(Acquire(m, <<r, "refresh">>), st, s)
<1> DEFINE t == <<s, "create">>
           b == <<r, "refresh">>
<1>1. t # b
  OBVIOUS
<1>2. CASE m.holder = Free
  BY <1>1, <1>2 DEF QueuedOnce, Acquire, Mutex
<1>3. CASE m.holder # Free
  <2>1. Acquire(m, b).holder = m.holder
    BY <1>3 DEF Acquire, Mutex
  <2>2. Acquire(m, b).queue = Append(m.queue, b)
    BY <1>3 DEF Acquire, Mutex
  <2>3. m.queue \in Seq(Task) /\ b \in Task
    BY DEF Mutex, Task
  <2>4. \A i \in DOMAIN Append(m.queue, b) :
           Append(m.queue, b)[i] = t => i \in DOMAIN m.queue /\ m.queue[i] = t
    BY <1>1, <2>3
  <2>5. {i \in DOMAIN Append(m.queue, b) : Append(m.queue, b)[i] = t}
           \subseteq {i \in DOMAIN m.queue : m.queue[i] = t}
    BY <2>4
  <2>6. QED
    BY <2>1, <2>2, <2>5 DEF QueuedOnce
<1>4. QED
  BY <1>2, <1>3

(* A create task joins the mutex it was not in. *)
LEMMA AcquireCreate ==
    ASSUME NEW m \in Mutex, NEW r \in Request, NotQueued(m, r)
    PROVE  QueuedOnce(Acquire(m, <<r, "create">>), "creating", r)
<1> DEFINE t == <<r, "create">>
<1>1. m.queue \in Seq(Task) /\ t \in Task
  BY DEF Mutex, Task
<1>2. CASE m.holder = Free
  BY <1>2 DEF QueuedOnce, NotQueued, Acquire, Mutex
<1>3. CASE m.holder # Free
  <2>1. Acquire(m, t).holder = m.holder
    BY <1>3 DEF Acquire, Mutex
  <2>2. Acquire(m, t).queue = Append(m.queue, t)
    BY <1>3 DEF Acquire, Mutex
  <2>3. \A i \in DOMAIN Append(m.queue, t) :
           Append(m.queue, t)[i] = t => i = Len(m.queue) + 1
    BY <1>1 DEF NotQueued
  <2>4. QED
    BY <2>1, <2>2, <2>3 DEF QueuedOnce, NotQueued
<1>4. QED
  BY <1>2, <1>3

(* Another request's create task changes nothing for s. *)
LEMMA AcquireOther ==
    ASSUME NEW m \in Mutex, NEW r \in Request, NEW s \in Request, s # r, NEW st,
           QueuedOnce(m, st, s)
    PROVE  QueuedOnce(Acquire(m, <<r, "create">>), st, s)
<1> DEFINE t == <<s, "create">>
           b == <<r, "create">>
<1>1. t # b
  OBVIOUS
<1>2. CASE m.holder = Free
  BY <1>1, <1>2 DEF QueuedOnce, Acquire, Mutex
<1>3. CASE m.holder # Free
  <2>1. Acquire(m, b).holder = m.holder
    BY <1>3 DEF Acquire, Mutex
  <2>2. Acquire(m, b).queue = Append(m.queue, b)
    BY <1>3 DEF Acquire, Mutex
  <2>3. m.queue \in Seq(Task) /\ b \in Task
    BY DEF Mutex, Task
  <2>4. \A i \in DOMAIN Append(m.queue, b) :
           Append(m.queue, b)[i] = t => i \in DOMAIN m.queue /\ m.queue[i] = t
    BY <1>1, <2>3
  <2>5. {i \in DOMAIN Append(m.queue, b) : Append(m.queue, b)[i] = t}
           \subseteq {i \in DOMAIN m.queue : m.queue[i] = t}
    BY <2>4
  <2>6. QED
    BY <2>1, <2>2, <2>5 DEF QueuedOnce
<1>4. QED
  BY <1>2, <1>3

(* The holder leaves and the queue moves up by one. *)
LEMMA ReleaseQueued ==
    ASSUME NEW m \in Mutex, NEW s \in Request, NEW st,
           QueuedOnce(m, st, s)
    PROVE  QueuedOnce(Release(m), st, s)
<1> DEFINE t == <<s, "create">>
<1>1. t \in Task /\ m.queue \in Seq(Task)
  BY DEF Mutex, Task
<1>2. CASE m.queue = <<>>
  BY <1>1, <1>2, ManagerAssumption DEF QueuedOnce, Release, Mutex
<1>3. CASE m.queue # <<>>
  <2>1. Release(m).holder = m.queue[1]
    BY <1>1, <1>3 DEF Release
  <2>2. Release(m).queue = Tail(m.queue)
    BY <1>3 DEF Release
  <2>3. \A i \in DOMAIN Tail(m.queue) :
           i + 1 \in DOMAIN m.queue /\ Tail(m.queue)[i] = m.queue[i + 1]
    BY <1>1, <1>3
  <2>4. 1 \in DOMAIN m.queue
    BY <1>1, <1>3
  <2>5. \A i \in DOMAIN Tail(m.queue) : i \in Nat /\ i # 0
    BY <1>1, <1>3
  <2>6. \A i \in DOMAIN Tail(m.queue) : Tail(m.queue)[i] = t
           => /\ i + 1 \in {k \in DOMAIN m.queue : m.queue[k] = t}
              /\ i + 1 # 1
    BY <2>3, <2>5
  <2>7. QED
    BY <2>1, <2>2, <2>4, <2>5, <2>6 DEF QueuedOnce
<1>4. QED
  BY <1>2, <1>3

(* A holder that leaves is not in the mutex any more. *)
LEMMA ReleaseHolder ==
    ASSUME NEW m \in Mutex, NEW r \in Request, NEW st, QueuedOnce(m, st, r),
           m.holder = <<r, "create">>
    PROVE  NotQueued(Release(m), r)
<1>1. <<r, "create">> \in Task /\ m.queue \in Seq(Task)
  BY DEF Mutex, Task
<1>2. \A i \in DOMAIN m.queue : m.queue[i] # <<r, "create">>
  BY DEF QueuedOnce
<1>3. CASE m.queue = <<>>
  BY <1>1, <1>3, ManagerAssumption DEF NotQueued, Release, Mutex
<1>4. CASE m.queue # <<>>
  BY <1>1, <1>2, <1>4 DEF NotQueued, Release
<1>5. QED
  BY <1>3, <1>4

(* Out of the mutex, the status of the request does not matter. *)
LEMMA NotQueuedOnce ==
    ASSUME NEW m, NEW r \in Request, NEW st, NotQueued(m, r)
    PROVE  QueuedOnce(m, st, r)
  BY DEF NotQueued, QueuedOnce

(* A request that is not waiting is not in the mutex. *)
LEMMA NotWaiting ==
    ASSUME NEW m, NEW r \in Request, NEW st, QueuedOnce(m, st, r), st # "creating"
    PROVE  NotQueued(m, r)
  BY DEF NotQueued, QueuedOnce

(* A request that goes on is not in the mutex and is not put back. *)
LEMMA GetFeeUtxoQueued ==
    ASSUME NEW r \in Request, NEW feeAmount, NEW cached, NEW pending,
           NEW m \in Mutex,
           GetFeeUtxo(r, feeAmount, cached, pending, m),
           status \in [Request -> Status],
           NotQueued(m, r),
           \A s \in Request : QueuedOnce(m, status[s], s)
    PROVE  CreateQueued'
<1>1. \A s \in Request : s # r => status'[s] = status[s]
  BY DEF GetFeeUtxo, TurnAway, Reserve
<1>2. ASSUME NEW s \in Request
      PROVE  QueuedOnce(m, status'[s], s)
  BY <1>1, NotQueuedOnce
<1>3. mutex' = m \/ mutex' = Acquire(m, <<r, "refresh">>)
  BY DEF GetFeeUtxo, Refresh
<1>4. ASSUME NEW s \in Request
      PROVE  QueuedOnce(mutex', status'[s], s)
  BY <1>2, <1>3, AcquireRefresh
<1>5. QED
  BY <1>4 DEF CreateQueued, QueuedOnce

(* Every step keeps a waiting request in the mutex at most once. *)
LEMMA NextCreateQueued ==
    TypeOK /\ FetchHoldsMutex /\ CreateQueued /\ [Next]_vars => CreateQueued'
<1> SUFFICES ASSUME TypeOK, FetchHoldsMutex, CreateQueued, [Next]_vars
             PROVE  CreateQueued'
  OBVIOUS
<1>m. mutex \in Mutex /\ status \in [Request -> Status]
  BY DEF TypeOK, ManagerTypeOK, Mutex
<1>q. \A s \in Request : QueuedOnce(mutex, status[s], s)
  BY DEF CreateQueued, QueuedOnce
<1>g. ASSUME \A s \in Request : QueuedOnce(mutex', status'[s], s)
      PROVE  CreateQueued'
  BY <1>g DEF CreateQueued, QueuedOnce
<1>1. CASE UNCHANGED <<mutex, status>>
  BY <1>1 DEF CreateQueued
<1>2. ASSUME NEW r \in Request, CreateFromCache(r)
      PROVE  CreateQueued'
  <2>1. NotQueued(mutex, r)
    BY <1>q, <1>2, NotWaiting DEF CreateFromCache
  <2>2. GetFeeUtxo(r, fee, cachedUtxos, pendingUtxos, mutex)
    BY <1>2 DEF CreateFromCache
  <2>3. QED
    BY <1>m, <1>q, <2>1, <2>2, GetFeeUtxoQueued
<1>3. ASSUME NEW r \in Request, CreateAndWait(r)
      PROVE  CreateQueued'
  <2>1. /\ status[r] = "idle"
        /\ mutex' = Acquire(mutex, <<r, "create">>)
        /\ status' = [status EXCEPT ![r] = "creating"]
    BY <1>3 DEF CreateAndWait
  <2>2. NotQueued(mutex, r)
    BY <1>q, <2>1, NotWaiting
  <2>3. QueuedOnce(mutex', status'[r], r)
    BY <1>m, <2>1, <2>2, AcquireCreate
  <2>4. ASSUME NEW s \in Request, s # r
        PROVE  QueuedOnce(mutex', status'[s], s)
    BY <1>m, <1>q, <2>1, <2>4, AcquireOther
  <2>5. QED
    BY <1>g, <2>3, <2>4
<1>4. ASSUME NEW r \in Request,
             \/ CreateFails(r) \/ Submit(r) \/ Cancel(r) \/ Abandon(r)
             \/ ChainAccepts(r) \/ SubmitFails(r)
      PROVE  CreateQueued'
  <2>1. /\ status[r] # "creating" /\ UNCHANGED mutex
        /\ \A s \in Request : s # r => status'[s] = status[s]
    BY <1>m, <1>4 DEF CreateFails, Submit, Cancel, Abandon, ChainAccepts, SubmitFails,
                managerVars
  <2>2. QueuedOnce(mutex', status'[r], r)
    BY <1>q, <2>1, NotWaiting, NotQueuedOnce
  <2>3. QED
    BY <1>g, <1>q, <2>1, <2>2
<1>5. ASSUME NEW t \in Task, Ask(t) \/ Serve(t) \/ AskNext(t)
      PROVE  CreateQueued'
  BY <1>1, <1>5 DEF Ask, StartFetch, Serve, ServePage, AskNext, NextPage, requestVars
<1>6. \A s \in Request : QueuedOnce(Release(mutex), status[s], s)
  BY <1>m, <1>q, ReleaseQueued
<1>7. ASSUME NEW t \in Task, mutex.holder = t, t[2] = "create"
      PROVE  NotQueued(Release(mutex), t[1])
  <2>1. t[1] \in Request /\ t = <<t[1], "create">>
    BY <1>7 DEF Task
  <2>2. QED
    BY <1>m, <1>q, <1>7, <2>1, ReleaseHolder
<1>8. ASSUME NEW t \in Task, mutex.holder = t, NEW cached, NEW pending,
             \/ t[2] = "create"
                /\ GetFeeUtxo(t[1], quote[t[1]], cached, pending, Release(mutex))
             \/ mutex' = Release(mutex) /\ UNCHANGED status
      PROVE  CreateQueued'
  <2>1. t[1] \in Request /\ Release(mutex) \in Mutex
    BY <1>m, ReleaseType DEF Task
  <2>2. CASE /\ t[2] = "create"
             /\ GetFeeUtxo(t[1], quote[t[1]], cached, pending, Release(mutex))
    BY <1>m, <1>6, <1>7, <1>8, <2>1, <2>2, GetFeeUtxoQueued
  <2>3. CASE mutex' = Release(mutex) /\ UNCHANGED status
    BY <1>g, <1>6, <2>3
  <2>4. QED
    BY <1>8, <2>2, <2>3
<1>9. ASSUME NEW t \in Task, PassThrough(t)
      PROVE  CreateQueued'
  BY <1>8, <1>9 DEF PassThrough, Granted
<1>10. ASSUME NEW t \in Task, Refreshed(t)
       PROVE  CreateQueued'
  <2>1. mutex.holder = t
    BY <1>10 DEF Refreshed, Install, FetchHoldsMutex
  <2>2. QED
    BY <1>8, <1>10, <2>1 DEF Refreshed
<1>11. ASSUME NEW t \in Task, RefreshFails(t)
       PROVE  CreateQueued'
  <2>1. mutex' = Release(mutex) /\ mutex.holder = t
    BY <1>11 DEF RefreshFails, FailFetch, FetchHoldsMutex
  <2>2. CASE t[2] = "create" /\ status' = [status EXCEPT ![t[1]] = "errored"]
    <3>1. NotQueued(Release(mutex), t[1]) /\ t[1] \in Request
      BY <1>7, <2>1, <2>2 DEF Task
    <3>2. QueuedOnce(mutex', status'[t[1]], t[1])
      BY <2>1, <3>1, NotQueuedOnce
    <3>3. \A s \in Request : s # t[1] => status'[s] = status[s]
      BY <1>m, <2>2
    <3>4. QED
      BY <1>g, <1>6, <2>1, <3>2, <3>3
  <2>3. CASE UNCHANGED status
    BY <1>g, <1>6, <2>1, <2>3
  <2>4. QED
    BY <1>11, <2>2, <2>3 DEF RefreshFails
<1>12. CASE Exit \/ Environment \/ UNCHANGED vars
  BY <1>1, <1>12 DEF Exit, Environment, managerVars, requestVars, vars
<1>13. QED
  BY <1>2, <1>3, <1>4, <1>5, <1>9, <1>10, <1>11, <1>12 DEF Next

---------------------------------------------------------------------------
(* Every step is a step of FeeLending *)

(* The utxos held by some request. *)
HeldUtxos == {utxo[r] : r \in {s \in Request : Holds(s)}}

(* A held utxo is one of the ledger. *)
LEMMA HeldInLedger ==
    ASSUME IInv, NEW r \in Request, Holds(r)
    PROVE  utxo[r] \in DOMAIN ledger /\ utxo[r] \in Utxo /\ utxo[r] # 0
<1>1. utxo[r] \in DOMAIN ledger
  BY DEF IInv, HeldIsPending, TypeOK, ChainTypeOK
<1>2. DOMAIN ledger \subseteq 1..MaxUtxo
  BY ChainAssumption DEF IInv, TypeOK, ChainTypeOK
<1>3. QED
  BY <1>1, <1>2, ChainAssumption DEF Utxo

(* Nothing is held, spent or made. *)
LEMMA StutterStep ==
    ASSUME UNCHANGED <<ledger, unspent>>,
           \A r \in Request : Holds(r)' <=> Holds(r),
           \A r \in Request : Holds(r) => utxo'[r] = utxo[r]
    PROVE  UNCHANGED Lending!lendingVars
<1>1. HeldUtxos' = HeldUtxos
  BY DEF HeldUtxos
<1>2. (unspent \ HeldUtxos)' = unspent \ HeldUtxos
  BY <1>1
<1>3. [r \in Request |-> IF Holds(r) THEN utxo[r] ELSE 0]'
         = [r \in Request |-> IF Holds(r) THEN utxo[r] ELSE 0]
  OBVIOUS
<1>4. QED
  BY <1>2, <1>3 DEF Lending!lendingVars, HeldUtxos

(* A request comes to hold a utxo: it is lent one that was free. *)
LEMMA LendStep ==
    ASSUME IInv, IInv', NEW r \in Request,
           UNCHANGED <<ledger, unspent>>,
           ~Holds(r), Holds(r)',
           \A s \in Request : s # r => (Holds(s)' <=> Holds(s)),
           \A s \in Request : s # r => utxo'[s] = utxo[s]
    PROVE  Lending!Lend(r)
<1> DEFINE u == utxo'[r]
           lentNow == [s \in Request |-> IF Holds(s) THEN utxo[s] ELSE 0]
<1>1. u \in unspent
  BY DEF IInv, HeldIsPending
<1>2. \A s \in Request : Holds(s) => utxo[s] # u
  BY DEF IInv, NoDoubleReservation
<1>3. HeldUtxos' = HeldUtxos \cup {u}
  BY DEF HeldUtxos
<1>4. u \in unspent \ HeldUtxos
  BY <1>1, <1>2 DEF HeldUtxos
<1>5. (unspent \ HeldUtxos)' = (unspent \ HeldUtxos) \ {u}
  BY <1>3
<1>6. lentNow' = [lentNow EXCEPT ![r] = u]
  OBVIOUS
<1>7. lentNow[r] = 0
  OBVIOUS
<1>8. (DOMAIN ledger \ unspent)' = DOMAIN ledger \ unspent
  OBVIOUS
<1>9. QED
  BY <1>4, <1>5, <1>6, <1>7, <1>8 DEF Lending!Lend, HeldUtxos

(* A request lets go of its utxo, which is unspent: it is given back. *)
LEMMA GiveBackStep ==
    ASSUME IInv, NEW r \in Request,
           UNCHANGED <<ledger, unspent, utxo>>,
           Holds(r), ~Holds(r)',
           \A s \in Request : s # r => (Holds(s)' <=> Holds(s))
    PROVE  Lending!GiveBack(r)
<1> DEFINE lentNow == [s \in Request |-> IF Holds(s) THEN utxo[s] ELSE 0]
<1>1. utxo[r] \in unspent /\ utxo[r] # 0
  BY HeldInLedger DEF IInv, HeldIsPending
<1>2. \A s \in Request : s # r /\ Holds(s) => utxo[s] # utxo[r]
  BY DEF IInv, NoDoubleReservation
<1>3. HeldUtxos' = HeldUtxos \ {utxo[r]}
  BY <1>2 DEF HeldUtxos
<1>4. (unspent \ HeldUtxos)' = (unspent \ HeldUtxos) \cup {lentNow[r]}
  BY <1>1, <1>3 DEF HeldUtxos
<1>5. lentNow' = [lentNow EXCEPT ![r] = 0]
  OBVIOUS
<1>6. lentNow[r] # 0
  BY <1>1
<1>7. (DOMAIN ledger \ unspent)' = DOMAIN ledger \ unspent
  OBVIOUS
<1>8. QED
  BY <1>4, <1>5, <1>6, <1>7 DEF Lending!GiveBack, HeldUtxos

(* The chain spends the utxo of a request; its change is new. *)
LEMMA SpendStep ==
    ASSUME IInv, NEW r \in Request, Spend(utxo[r], change[r]),
           UNCHANGED <<utxo, change>>,
           Holds(r), ~Holds(r)',
           \A s \in Request : s # r => (Holds(s)' <=> Holds(s))
    PROVE  Lending!Spend(r)
<1> DEFINE lentNow == [s \in Request |-> IF Holds(s) THEN utxo[s] ELSE 0]
           new     == Len(ledger) + 1 .. Len(ledger) + Len(change[r])
<1>t. /\ ledger \in Seq(Nat) /\ change[r] \in Seq(Nat)
      /\ unspent \subseteq DOMAIN ledger /\ DOMAIN ledger = 1..Len(ledger)
  BY DEF IInv, TypeOK, ChainTypeOK
<1>1. /\ utxo[r] \in unspent /\ utxo[r] # 0
      /\ Len(ledger) + Len(change[r]) <= MaxUtxo
      /\ ledger' = ledger \o change[r]
      /\ unspent' = (unspent \ {utxo[r]}) \cup new
  BY HeldInLedger DEF Spend
<1>2. DOMAIN ledger' = DOMAIN ledger \cup new
  BY <1>t, <1>1
<1>3. \A s \in Request : s # r /\ Holds(s) => utxo[s] # utxo[r]
  BY DEF IInv, NoDoubleReservation
<1>4. HeldUtxos' = HeldUtxos \ {utxo[r]}
  BY <1>3 DEF HeldUtxos
<1>5. HeldUtxos \subseteq DOMAIN ledger
  BY HeldInLedger DEF HeldUtxos
<1>6. new \cap (DOMAIN ledger \cup {0}) = {}
  BY <1>t
<1>7. new \subseteq Utxo
  <2>1. Len(ledger) \in Nat /\ Len(change[r]) \in Nat
    BY <1>t
  <2>2. QED
    BY <1>1, <2>1, ChainAssumption DEF Utxo
<1>8. utxo[r] \in HeldUtxos
  BY DEF HeldUtxos
<1> HIDE DEF new
<1>9. (unspent \ HeldUtxos)' = (unspent \ HeldUtxos) \cup new
  <2>1. unspent' \ HeldUtxos' = ((unspent \ {utxo[r]}) \cup new) \ (HeldUtxos \ {utxo[r]})
    BY <1>1, <1>4
  <2>2. utxo[r] \in DOMAIN ledger /\ new \cap HeldUtxos = {}
    BY <1>5, <1>6, <1>8
  <2>3. QED
    BY <1>6, <1>8, <2>1, <2>2
<1>10. {lentNow[s] : s \in Request} \subseteq DOMAIN ledger \cup {0}
  BY HeldInLedger
<1>11. new \in SUBSET (Utxo \ ((unspent \ HeldUtxos) \cup (DOMAIN ledger \ unspent)
                                 \cup {lentNow[s] : s \in Request}))
  BY <1>t, <1>6, <1>7, <1>10
<1>12. lentNow' = [lentNow EXCEPT ![r] = 0] /\ lentNow[r] = utxo[r]
  OBVIOUS
<1>13. (DOMAIN ledger \ unspent)' = (DOMAIN ledger \ unspent) \cup {utxo[r]}
  <2>1. (DOMAIN ledger \ unspent)'
           = (DOMAIN ledger \cup new) \ ((unspent \ {utxo[r]}) \cup new)
    BY <1>1, <1>2
  <2>2. utxo[r] \in DOMAIN ledger /\ utxo[r] \notin new
    BY <1>5, <1>6, <1>8
  <2>3. QED
    BY <1>6, <2>1, <2>2
<1>14. lentNow[r] # 0
  BY <1>1
<1> HIDE DEF lentNow
<1>15. QED
  BY <1>9, <1>11, <1>12, <1>13, <1>14 DEF Lending!Spend, HeldUtxos, lentNow

(* What GetFeeUtxo does for request r, it lends it a utxo or nothing. *)
LEMMA GetFeeUtxoLends ==
    ASSUME IInv, IInv', NEW r \in Request, NEW feeAmount, NEW cached, NEW pending, NEW m,
           GetFeeUtxo(r, feeAmount, cached, pending, m),
           status[r] \in {"idle", "creating"},
           UNCHANGED chainVars
    PROVE  [Lending!Next]_(Lending!lendingVars)
<1>t. status \in [Request -> Status] /\ utxo \in [Request -> Nat]
  BY DEF IInv, TypeOK
<1>1. UNCHANGED <<ledger, unspent>> /\ ~Holds(r)
  BY DEF chainVars, Holds
<1>2. CASE TurnAway(r, pending)
  <2>1. status' = [status EXCEPT ![r] = "starved"] /\ UNCHANGED utxo
    BY <1>2 DEF TurnAway
  <2>2. \A s \in Request : Holds(s)' <=> Holds(s)
    BY <1>t, <1>1, <2>1 DEF Holds
  <2>3. QED
    BY <1>1, <2>1, <2>2, StutterStep
<1>3. ASSUME NEW u, Reserve(r, u, feeAmount, cached, pending)
      PROVE  Lending!Lend(r)
  <2>1. /\ utxo' = [utxo EXCEPT ![r] = u]
        /\ \/ status' = [status EXCEPT ![r] = "spoiled"]
           \/ status' = [status EXCEPT ![r] = "reserved"]
    BY <1>3 DEF Reserve
  <2>2. \A s \in Request : s # r => status'[s] = status[s] /\ utxo'[s] = utxo[s]
    BY <1>t, <2>1
  <2>3. status'[r] \in {"spoiled", "reserved"}
    BY <1>t, <2>1
  <2>4. Holds(r)' /\ \A s \in Request : s # r => (Holds(s)' <=> Holds(s))
    BY <2>2, <2>3 DEF Holds
  <2>5. QED
    BY <1>1, <2>2, <2>4, LendStep
<1>4. QED
  BY <1>2, <1>3 DEF GetFeeUtxo, Lending!Next

(* The initial states are FeeLending's. *)
LEMMA InitLending == Init => Lending!Init
<1> SUFFICES ASSUME Init PROVE Lending!Init
  OBVIOUS
<1>1. \A r \in Request : ~Holds(r)
  BY DEF Init, Holds
<1>2. unspent = DOMAIN ledger /\ unspent \subseteq Utxo
  <2>1. Len(InitialLedger) \in Nat /\ DOMAIN InitialLedger = 1..Len(InitialLedger)
    BY ChainAssumption
  <2>2. QED
    BY <2>1, ChainAssumption DEF Init, ChainInit, Utxo
<1>3. QED
  BY <1>1, <1>2 DEF Lending!Init

LEMMA NextLending ==
    IInv /\ IInv' /\ CreateQueued /\ [Next]_vars => [Lending!Next]_(Lending!lendingVars)
<1> SUFFICES ASSUME IInv, IInv', CreateQueued, [Next]_vars
             PROVE  [Lending!Next]_(Lending!lendingVars)
  OBVIOUS
<1>t. status \in [Request -> Status] /\ utxo \in [Request -> Nat]
  BY DEF IInv, TypeOK
<1>1. ASSUME UNCHANGED <<ledger, unspent, utxo, status>>
      PROVE  UNCHANGED Lending!lendingVars
  BY <1>1, StutterStep DEF Holds
<1>2. ASSUME NEW r \in Request, UNCHANGED <<ledger, unspent, utxo>>,
             NEW st, status' = [status EXCEPT ![r] = st],
             st \in {"errored", "creating"}, status[r] \in {"idle", "creating"}
      PROVE  UNCHANGED Lending!lendingVars
  <2>1. \A s \in Request : Holds(s)' <=> Holds(s)
    BY <1>t, <1>2 DEF Holds
  <2>2. QED
    BY <1>2, <2>1, StutterStep
<1>3. ASSUME NEW r \in Request, Submit(r) \/ Abandon(r) \/ SubmitFails(r)
      PROVE  UNCHANGED Lending!lendingVars
  <2>1. UNCHANGED <<ledger, unspent, utxo>>
    BY <1>3 DEF Submit, Abandon, SubmitFails, chainVars
  <2>2. /\ \A s \in Request : s # r => status'[s] = status[s]
        /\ status[r] \in {"reserved", "submitted"}
        /\ status'[r] \in {"submitted", "invalid", "abandoned", "refused"}
    BY <1>t, <1>3 DEF Submit, Abandon, SubmitFails
  <2>3. \A s \in Request : Holds(s)' <=> Holds(s)
    BY <2>2 DEF Holds
  <2>4. QED
    BY <2>1, <2>3, StutterStep
<1>4. ASSUME NEW r \in Request, Cancel(r)
      PROVE  Lending!GiveBack(r)
  <2>1. UNCHANGED <<ledger, unspent, utxo>>
    BY <1>4 DEF Cancel, chainVars
  <2>2. /\ \A s \in Request : s # r => status'[s] = status[s]
        /\ status[r] = "reserved" /\ status'[r] = "cancelled"
    BY <1>t, <1>4 DEF Cancel
  <2>3. /\ Holds(r) /\ ~Holds(r)'
        /\ \A s \in Request : s # r => (Holds(s)' <=> Holds(s))
    BY <2>2 DEF Holds
  <2>4. QED
    BY <2>1, <2>3, GiveBackStep
<1>5. ASSUME NEW r \in Request, ChainAccepts(r)
      PROVE  Lending!Spend(r)
  <2>1. Spend(utxo[r], change[r]) /\ UNCHANGED <<utxo, change>>
    BY <1>5 DEF ChainAccepts
  <2>2. /\ \A s \in Request : s # r => status'[s] = status[s]
        /\ status[r] = "submitted" /\ status'[r] = "accepted"
    BY <1>t, <1>5 DEF ChainAccepts
  <2>3. /\ Holds(r) /\ ~Holds(r)'
        /\ \A s \in Request : s # r => (Holds(s)' <=> Holds(s))
    BY <2>2 DEF Holds
  <2>4. QED
    BY <2>1, <2>3, SpendStep
<1>6. ASSUME NEW r \in Request, CreateFromCache(r)
      PROVE  [Lending!Next]_(Lending!lendingVars)
  <2>1. /\ status[r] = "idle" /\ UNCHANGED chainVars
        /\ GetFeeUtxo(r, fee, cachedUtxos, pendingUtxos, mutex)
    BY <1>6 DEF CreateFromCache
  <2>2. QED
    BY <2>1, GetFeeUtxoLends
<1>7. ASSUME NEW r \in Request, CreateFails(r) \/ CreateAndWait(r)
      PROVE  UNCHANGED Lending!lendingVars
  BY <1>2, <1>7 DEF CreateFails, CreateAndWait, chainVars
<1>8. ASSUME NEW t \in Task, mutex.holder = t, t[2] = "create"
      PROVE  t[1] \in Request /\ status[t[1]] = "creating"
  <2>1. t[1] \in Request /\ t = <<t[1], "create">>
    BY <1>8 DEF Task
  <2>2. QED
    BY <1>8, <2>1 DEF CreateQueued
<1>9. ASSUME NEW t \in Task, PassThrough(t)
      PROVE  [Lending!Next]_(Lending!lendingVars)
  <2>1. mutex.holder = t /\ UNCHANGED chainVars
    BY <1>9 DEF PassThrough, Granted
  <2>2. CASE /\ t[2] = "create"
             /\ GetFeeUtxo(t[1], quote[t[1]], cachedUtxos, pendingUtxos, Release(mutex))
    BY <1>8, <2>1, <2>2, GetFeeUtxoLends
  <2>3. CASE UNCHANGED <<status, utxo>>
    BY <1>1, <2>1, <2>3 DEF chainVars
  <2>4. QED
    BY <1>9, <2>2, <2>3 DEF PassThrough
<1>10. ASSUME NEW t \in Task, Refreshed(t)
       PROVE  [Lending!Next]_(Lending!lendingVars)
  <2>1. mutex.holder = t /\ UNCHANGED chainVars
    BY <1>10 DEF Refreshed, Install, IInv, FetchHoldsMutex
  <2>2. CASE /\ t[2] = "create"
             /\ GetFeeUtxo(t[1], quote[t[1]], fetch[t].got,
                           CleanPending(fetch[t].got), Release(mutex))
    BY <1>8, <2>1, <2>2, GetFeeUtxoLends
  <2>3. CASE UNCHANGED <<status, utxo>>
    BY <1>1, <2>1, <2>3 DEF chainVars
  <2>4. QED
    BY <1>10, <2>2, <2>3 DEF Refreshed
<1>11. ASSUME NEW t \in Task, RefreshFails(t)
       PROVE  UNCHANGED Lending!lendingVars
  <2>1. mutex.holder = t /\ UNCHANGED <<ledger, unspent, utxo>>
    BY <1>11 DEF RefreshFails, FailFetch, IInv, FetchHoldsMutex, chainVars
  <2>2. CASE t[2] = "create" /\ status' = [status EXCEPT ![t[1]] = "errored"]
    BY <1>2, <1>8, <2>1, <2>2
  <2>3. CASE UNCHANGED status
    BY <1>1, <2>1, <2>3
  <2>4. QED
    BY <1>11, <2>2, <2>3 DEF RefreshFails
<1>12. ASSUME NEW t \in Task, Ask(t) \/ Serve(t) \/ AskNext(t)
       PROVE  UNCHANGED Lending!lendingVars
  BY <1>1, <1>12 DEF Ask, Serve, AskNext, requestVars, chainVars
<1>13. CASE Exit \/ Environment \/ UNCHANGED vars
  BY <1>1, <1>13 DEF Exit, Environment, WatcherSync, ChangeFee, requestVars,
                     chainVars, vars
<1>14. QED
  BY <1>3, <1>4, <1>5, <1>6, <1>7, <1>9, <1>10, <1>11, <1>12, <1>13
  DEF Next, Lending!Next

(* The pool, with its lagging cache and its list of pending utxos, lends   *)
(* every utxo as FeeLending promises: to one request at a time, and never  *)
(* again once it is spent.                                                 *)
THEOREM RelayImplementsLending ==
    ASSUME SinglePage
    PROVE  Spec => ImplementsLending
<1>1. Init => CreateQueued
  <2> SUFFICES ASSUME Init PROVE CreateQueued
    OBVIOUS
  <2>1. mutex.queue = <<>> /\ \A r \in Request : mutex.holder # <<r, "create">>
    BY ManagerAssumption DEF Init, ManagerInit, Task
  <2>2. QED
    BY <2>1 DEF CreateQueued
<1>2. IInv /\ CreateQueued /\ [Next]_vars => CreateQueued'
  BY NextCreateQueued DEF IInv
<1>3. QED
  BY <1>1, <1>2, InitIInv, NextIInv, InitLending, NextLending, PTL
  DEF Spec, ImplementsLending, Lending!Spec
=============================================================================
