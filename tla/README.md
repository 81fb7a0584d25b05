# Verification of community-points

TLA+ modules for the parts of this repository that carry its logic, the TLC runs that check
them on small instances, and theorems that TLAPS proves for every value of the constants.
`PROJECT.json` maps each definition to the lines it models; this file explains the whole.

Paths are relative to the repository, which `PROJECT.json` calls `src/`.

## 1. The system

Community points of a subreddit live as ERC20 tokens on the OMG network, a plasma child chain.
Users send them with a Chrome extension; they need no ETH, because a *fee relayer* adds a fee
input of its own to their transactions. A Solidity contract mints points in rounds, and a
periodic job turns purchases (burned points) into user flairs on Reddit.

| Component | State it keeps | Operations |
|---|---|---|
| **fee-relayer: utxo pool** (`fee-relayer/src/utxo-manager.js`) | `cachedUtxos`, `pendingUtxos`, `shouldRefreshUtxoCache`, `cacheMutex`, calls in flight | `getFeeUtxo`, `getValidUtxos`, `getUtxos`, `refresh`, `initCache`, `cancelPending`, `cleanPending`, `needMoreUtxos`, `getAllFeeUtxos` |
| **fee-relayer: handlers** (`app.js`, `relay-tx.js`) | nothing beyond the pool; a request's progress is in its continuation | create, submit and cancel of a relayed transaction; shutdown on signals and unhandled rejections |
| **fee-relayer: transactions** (`transaction.js`, `relay-tx.js` validate) | none | `create`, `splitAmount`, `totalAmount`, `validate` |
| **fee-relayer: account lease** (`db.js`, `account-selector.js`) | the table `fee_accounts(account, in_use)`, an interval timer in each process | `storeAccounts`, `reserveAccount`, `renewReservation`, `releaseAccount`, `findAvailableAccount`, `onExit` |
| **client: store and forms** (`client/src`) | redux store in the background page: session, transactions, balances, loading and error flags | boot in `Main`, poll session and history, `transfer`, `merge`, `getSpendableUtxos`, what an entry of the history says |
| **client: wallet bridge** (`messageService.ts`, `contentscript`, `bridge`) | a listener for each call that waits; messages on their way | send a message to the active tab, hand it to the wallet, send the answer to all popups; open and close a popup |
| **contracts** (`contracts/contracts`, `contracts/migrations`) | round number and per-round data, token balances, owners | `initRound`, `advanceToNextRound`, `mint`, the migration scripts |
| **flair** (`flair/src`) | none of its own; the flairs on Reddit | the scheduled job: read burn transactions, match them to users, set flairs |
| **claim-demo** (`claim-demo`) | the position of a run in its script; one Distributor for all runs | mint, approve, deposit, transfer, wait for the watcher, swap KARMA for points in one transaction |

How they interact. The client posts to the relayer over HTTP: *create-relayed-tx* returns an
unsigned transaction that spends the user's points and one fee utxo of the relayer;
*submit-relayed-tx* brings the user's signatures, the relayer checks the transaction, adds its
own signature and submits it to the child chain; *cancel-relayed-tx* gives the fee utxo back.
Several instances of the relayer share the fee payer accounts through a PostgreSQL table.
The relayer learns its utxos from the watcher, a service that follows the child chain with a
delay and answers in pages. Inside the extension, the page, the content script and the
background exchange messages that are matched by their type. The flair job and the client's
history read the watcher as well. The contracts stand alone: the subreddit owner calls them.
The claim script stands alone too: it plays all parts of a claim of points itself.

What is hard here:

* **Interleaving on one thread.** The pool is a set of module variables shared by all requests.
  Nothing locks them; safety rests on which continuations run before which replies (section 4).
* **Stale data.** The watcher lags behind the chain, a reply lags behind the watcher, and the
  cache lags behind the reply. A spent utxo must not be offered, a reserved one not released.
* **Failure.** A fetch nobody awaits fails; `transaction.create` throws after a reservation; a
  client disappears; an instance dies with its account reserved.
* **Time.** The account lease is held by a timer in a process whose queries may be late.
* **Boundaries.** Pool empty; the page limit; the split of the fee change into the last free outputs.
* **Messages without identity.** A popup asks the wallet through the tab that is active, and takes the first
  answer of the right type for its own. Tabs are changed, reloaded and closed meanwhile.
* **A store behind the world.** The extension decides from a copy of session and history that polls
  refresh; the user switches accounts, and answers overtake each other.

`PROJECT.json` lists every such hazard at its line, with the properties that would catch it.

## 2. The modules

| Module | Models |
|---|---|
| `ChildChain` | the child chain and the watcher, for the account the relayer pays from: utxos in order of creation, what is unspent, what the watcher reports, the fee; the pages of `account.get_utxos` |
| `UtxoManager` | `utxo-manager.js`: its five variables and one operator per function |
| `Transaction` | `transaction.js` and `validate`, as pure operators |
| `FeeRelay` | create, submit and cancel requests over `UtxoManager` and `Transaction`, with clients that go away, chain, watcher, failing calls and the shutdown of the process |
| `FeeLending` | abstract specification: a utxo is free, lent to one request, or spent |
| `RelayedTransaction` | one transaction with its contents, from the client's request to `validate` |
| `HistoryEntry` | what the client's history says of such a transaction and of a merge, and the typed data of a merge |
| `AccountLease` | the table of accounts and the instances that reserve, renew, release and die, in discrete time |
| `Distribution` | the contracts that mint points, and the script that deploys them, interrupted and repeated |
| `Flair` | the scheduled flair job: overlapping and failing runs, users who buy and change address |
| `PointsLedger` | the points of the users on the child chain, and how much of it the watcher reports |
| `Client` | the extension of one user over `PointsLedger`: session and transactions in its store, the polls that fill them, transfers, purchases and merges, accounts that are switched |
| `WalletBridge` | popups in several tabs that boot, poll and sign: their calls through the active tab, its content script and the wallet, and the subreddit they share in the store |
| `ClaimDemo` | runs of the claim script with one Distributor, over the root chain, the child chain and a watcher that lags |
| `MCFeeRelay`, `MCRelayedTransaction`, `MCAccountLease`, `MCDistribution`, `MCFlair`, `MCClient`, `MCWalletBridge`, `MCClaimDemo` | small instances |
| `FeeRelay_proofs`, `RelayedTransaction_proofs`, `AccountLease_proofs`, `MintAndFlair_proofs`, `Client_proofs`, `WalletBridge_proofs`, `ClaimDemo_proofs` | the theorems; `MintAndFlair_proofs` has those of `Distribution` and of `Flair` |
| `Sums` | lemmas about sums over finite sets and the places of a concatenation, for the theorems about amounts |

`FeeRelay` EXTENDS `UtxoManager` (which EXTENDS `ChildChain`) and `Transaction`, and implements
`FeeLending` through the instance `Lending`. `RelayedTransaction` uses the same `Transaction`
operators, so the split whose amounts `FeeRelay` puts on the chain is the one whose outputs
`RelayedTransaction` adds up. `HistoryEntry` EXTENDS `RelayedTransaction`: what the relayer builds is
what the client's history has to make sense of.

### State and actions

`UtxoManager` keeps the names of the source. `currentNumUtxos` is not a variable: it is assigned
together with `cachedUtxos` and is always its length. `pendingUtxos` is a set; the code's array
could hold a utxo twice only if it were reserved twice, which `NoDoubleReservation` excludes.
A utxo is its index in the ledger, as the code compares `blknum`, `txindex` and `oindex`.

A *task* is a call of `getUtxos` that may have to wait: `<<r, "create">>` is the one request r
awaits, `<<r, "refresh">>` the one that `refresh` starts and nobody awaits. `fetch[t]` follows its
calls to the watcher, page by page.

| Code | Action of `FeeRelay` |
|---|---|
| create handler: `getFeeInfo` fails | `CreateFails` |
| create handler, `getUtxos` with the flag down, `getValidUtxos`, `refresh`, `getFeeUtxo`, `transaction.create` | `CreateFromCache` |
| create handler, flag up: `cacheMutex.acquire()` | `CreateAndWait` |
| mutex obtained, flag still up: request page 1 | `Ask` |
| mutex obtained, flag down by now: go on with the cache | `PassThrough` |
| the watcher makes a page; the reply is read; more pages | `Serve`, `AskNext` |
| last page read: install, `cleanPending`, release, go on | `Refreshed` |
| the call fails: `finally`, error to the client, or unhandled rejection | `RefreshFails`, `Exit` |
| submit handler with `validate` | `Submit`, then `ChainAccepts` or `SubmitFails` |
| cancel handler | `Cancel` |
| the client never comes back | `Abandon` |

`Reserve` contains the two outcomes of `transaction.create` after the reservation: a transaction,
or an exception (`"spoiled"`), which the handler reports without giving the utxo back.

`AccountLease` follows an instance through `stage`: the query it has sent, the answer on its way,
serving. A query or an answer is separate from the process (`alive`), because what a dying
process has sent may still be executed (or not: `Drop`). Only the *age* of a row matters. A second
signal runs `shutdown` again, as `removeListener` is given the wrong function; the variable `twice`
remembers that this has happened, because the exclusion of instances ends there.

`Distribution` has an action per transaction of the migration script and one per external method,
with any caller; a call that reverts is one that is not enabled. `truffle migrate` starts an
interrupted migration from its beginning, so `Interrupt` leads back to `Deploy`, which takes a new
Distribution; the token, of an earlier migration, stays. `currentRound` is the length of `rounds[d]`.

A run of `Flair` is `GetAllBurned`, `GetUserMap` (with the updates that follow at once) and
`SetFlairs`; between them users buy, post addresses, and other runs write. A flair `:rock-2:` is the
record of its name and level; `filterLevel` and the identical loop of `shouldUpdateFlair` are `TopLevel`:
the level of each name that is reached from 1 without a gap. Whether a burn has the price of a
flair is part of the burn (`exact`).

A form of `Client` goes through `stage`: *clicked* (waiting for the active account), *listing* (for its
utxos), *selected* (for the account once more, which `transfer` reads again), *ready* (create, sign and
submit), *submitted* (accepted; the answer is on its way); `modal`, `merging` and `listing merge` are
those of the MergeModal. `Largest(S, k)` is the beginning of the sorted list: the loop of
`getSpendableUtxos` stops after three inputs at the latest and fills up to three, so what it returns is
`Largest(S, 3)`, or it throws. The two polls are actions of their own, with the delays between their
calls. The view's replica of the store is taken to be up to date; there is one popup and one subreddit.
Closing the popup is the failure of what is under way in it.

A call of `WalletBridge` has a *caller*, the listener of `messageService.send`, and a *message*, which is on
one leg of its way (*query*, *page*, *wallet*, *reply*) or gone (*lost*, *done*). The two live apart: an answer
resolves every caller of its type, and its own message may go on without a caller. The phases of a
popup are the effects of `Main` in their order, and then the view. Polls remember the subreddit they read
first, because `SESSION/GET/SUCCESS` writes it back. `undisturbed` is a history variable: popups that
were alone since they were opened, in a tab that stayed active until they had their subreddit.

A run of `ClaimDemo` is a position in `Script`, the list of its awaited operations; each is one action,
and between two of them everything else may happen. `transfer` is *create* (the utxos the library chooses from
what the watcher knows), *submit* and *wait*; `claimCommunityPoints` is *fee* and *swap* instead of *create*.
A rejected call is not caught anywhere, so each error is an `outcome` that ends the run. A run has its own
Alice and server, whose keys it creates; a second run may start at any time.

## 3. Runs

| Run | Instance | Shows |
|---|---|---|
| `pool_safety` | 3 requests, utxos of 4 and 2, a fee that moves between 1 and 2, up to 6 utxos, one page | `IInv` (inductive invariant), `NoDoubleReservation`, `OffersOnlyUnspent`, `RefreshNotLost`, `ReleasedOnlySpentOrCancelled`, `StarvedStartsRefresh`, `ImplementsLending`, `InvalidOnlyForNewFee` |
| `pool_liveness` | 4 requests, 1 utxo, pages of 1 | `CreateAnswered` |
| `pool_paged` | 3 requests, pages of 2 | **violated:** `ReleasedOnlySpentOrCancelled` |
| `pool_promise` | 3 requests, desired number 2 | **violated:** `ServesDesired` |
| `transaction` | every request of up to 5 inputs of 1 or 2, amounts 0..4, fee utxo 1..9, fees 1..3 | `ExactlyPaid`, `FitsInTransaction`, `SplitPartsPayFee`, `AcceptedForQuotedFee`, `RelayedTxTypeOK`, `EntryTellsTheTransfer`, `MergeIsWhatItSays` |
| `lease` | 2 instances, 2 accounts, lease 2, expiry 5, delays up to 1, repeated shutdowns | `LeaseInv` (inductive invariant), `OneInstancePerAccount`, `LeaseNeverLapses`, `AccountComesBack` |
| `distribution` | 3 Distributions, 4 rounds, decay 10 of 100, burned points 0, 7 or 100, any caller | `DistInv` (inductive invariant), `OneDistributionRuns`, `MintsWhatItRecords` |
| `flair` | 1 user with 2 addresses, 2 runs at a time, 6 burns of 3 flairs | `FlairTypeOK`, `ShownIsEarned`, `PurchasesShown` |
| `flair_keeps` | as `flair`, with one run at a time | **violated:** `KeepsExistingFlairs` |
| `client` | accounts alice, with utxos of 1, 2, 1 and 1, and bob; amounts 4 and 5 to bob or out; 2 transactions; one form, one poll of each kind | `ClientTypeOK`, `StoreIsSound`, `SessionIsCoherent`, `MergeOnlyIfNeeded`, `PendingSettles`, `SessionFollows` |
| `bridge` | pages on two subreddits and a tab elsewhere, 2 calls at a time, a wallet or none | `BridgeInv` (inductive invariant), `HomeShowsItsSubReddit`, `BootEnds`, `CallAnswered` |
| `claim` | 2 runs of the script, an ETH deposit of 3 at a fee of 1 | `ClaimInv`, `OnlyContestedUtxosRefused`, `ClaimIsAtomic`, `RunEnds` |

Bounds, and why they are enough:

* *Requests.* For safety three: one holds the mutex, one waits in the queue or reserves from the old cache
  while the fetch runs, one more is turned away; each may start a refresh, so up to six tasks meet at the
  mutex. For liveness, with one utxo, four and up to eight tasks.
* *Ledger.* 4 is split (3 parts of change at fee 1), 2 is not; six utxos allow the spends of three requests with
  their change. `MaxUtxo` is a bound of the model: at the bound the chain accepts no more.
* *`TokenLowerCase`.* Both values in the passing runs: with a token in mixed case the pool starts
  empty (the watcher's answer is in lower case) and fills with the first refresh.
* *`PageLimit`.* Larger than `MaxUtxo` for safety (the code's limit is 200), smaller for
  `pool_liveness` and `pool_paged`, where a list takes two requests.
* *Transaction amounts.* With fees 1..3 and two or three free outputs the split boundary lies
  between 2 and 9, inside the range of the change. Three inputs are the most the client spends.
  A merge of two or three is padded to four, one of five is cut to four.
* *Lease.* `Lease + 3 * MaxDelay = Expiry` exactly: the tightest case the assumption allows. Two instances:
  the invariant is a conjunction over pairs, and the theorem is for any number.
* *`Distribution`.* Two Distributions would do for `OneDistributionRuns`; the third lets the script
  be interrupted twice. Burned points of 100 exceed the initial supply of 20, so that a mix-up of base supply
  and available points overflows `MaxUint`, 200, within four rounds.
* *`Flair`.* Users do not interact, so one is enough; of two runs, one is late. The burns hold a
  level bought without the one below, and one that was not paid in full.
* *`Client`.* Three of alice's utxos cover 4 and it takes all four to cover 5, so one amount leads to a
  transfer and the other to the modal. Two transactions let a merge be followed by a transfer, and a
  lost reply by a second transfer the store does not know of, which is also what a second form would
  send. One switch of accounts may fall between any two steps. `PageLimit` is larger than the
  history: 200 in the code, where only the first page is ever used.
* *`WalletBridge`.* Two calls are the least for an answer that resolves two; one page on each of two
  subreddits, and a tab without a content script, where messages are lost. A call is reserved for every popup
  that boots (`Spare`), so that the bound does not stop it.
* *`ClaimDemo`.* Points are indivisible in the script, so one stands for a hundred. An ETH deposit of 3
  pays for the three transactions of one run and no more: a second run finds change of the first, or its own
  deposit. Two runs may be simultaneous or one after the other has died.
* Symmetry over requests or instances is used only where no liveness property is checked.
* `CHECK_DEADLOCK FALSE`: requests are finite, and all may have been answered.

### Where code and documentation differ

* **`pool_paged`.** `cleanPending` drops what the new list lacks; the comment says such utxos "have
  already been spent". With more than one page this is not so: a utxo spent between two pages
  shifts the second page by one place, an unspent utxo is in neither, and its reservation goes.
* **`pool_promise`.** `.env.template` says of the desired number of utxos "The server can serve
  this number of concurrent requests". Two requests whose `transaction.create` throws leave two
  utxos pending for good, and a third is turned away although none is in progress.
* **`flair_keeps`.** A comment says "keep existing flairs". A user who has level 2 of a flair and posts
  another address loses it with the next update, because the current flairs pass `filterLevel` together
  with the purchases of the new address, and without level 1 among these level 2 is dropped. `index.js` prices
  only flairs of level 1; levels are what `filterLevel` and its tests are about.

Each of these runs checks the one property and stops at its counterexample.

## 4. Why one action is one turn of the event loop

JavaScript runs a callback and then every continuation whose promise is resolved before it takes
the next reply from the network. In `getFeeUtxo`, the list is filtered one promise step after
`getUtxos` returns, and the chosen utxo is pushed to `pendingUtxos` a step after that; both wait
for nothing but resolved promises. What may come in between is another continuation of the same
turn: the next task at the mutex. The task that leaves the mutex filters and pushes before the
next one, resumed by the release, has gone through `getUtxos` and its own filter. So filter and push
are atomic, and an action of `FeeRelay` does both. The refresh of the leaving request, however,
raises the flag *before* the next task looks at it again, so that task may fetch once more; that
order is kept (`Refresh`, then `Release`). `Granted(t)` says that t has been given the mutex
and has not run; `Drained` that no such task exists. New requests wait for `Drained`,
because they come with a new event.

Clients, the chain, the watcher and replies are separate actions and interleave freely.

## 5. Fairness

`FeeRelay`: a task that can run runs; a call to the watcher is answered or fails; a reply is
read. No fairness for clients, the chain, the watcher's progress or the exit. `CreateAnswered`
thus rests on nothing but the event loop and the HTTP client's error or answer.
`AccountLease`: time passes and what is under way at an instance goes on; nobody is obliged to
start, stop or crash.
`Flair`: the cron schedule starts runs again and again (weak fairness of `GetAllBurned`); a run's other calls
succeed if they are tried again and again (strong fairness, as a failure disables them for a moment).
Without it Reddit may fail forever and nothing is ever shown. Users have no fairness.
`Client`: the popup stays open and polls (weak fairness of `GetSession`, `GetAllTransactions`, and of reading
an answer), wallet and watcher do not fail forever (strong fairness of the calls a failure may disable),
the watcher follows the chain. Forms and users have no fairness.
`WalletBridge`: callbacks run, messages that are not lost arrive, the wallet answers what needs no user.
Prompts (*ENABLE*, *SIGN*) may stay open forever, and the properties except the calls behind them, as they
except lost messages: the code has no timeout. The config service answers or fails.
`ClaimDemo`: what is awaited returns or throws, deposits are credited at some time, the watcher follows the chain.
That a `wait` ends is not assumed but shown (`RunEnds`): the balance waited for is that of an
account only this run pays.

## 6. Theorems

All are in the `*_proofs` modules, checked to the last leaf by tlapm.

**The pool.** `TypeCorrect`; `PoolInvariant`, `NeverReservedTwice`, `NeverOffersSpent` and
`PendingReleasedForAReason` assume `SinglePage` (all utxos of the account fit in one page, so a
list is one moment's view). They rest on the inductive invariant `IInv`:
`NoDoubleReservation` alone is not inductive. A held utxo could leave `pendingUtxos` when a
list without it is installed, so the invariant must say that every list in flight contains every
unspent utxo of the cache it will replace (`ReplyLag`), that the watcher has seen all the cache
has (`WatcherLag`), and that only one list is in flight (`FetchHoldsMutex`). The other half, that a
list holds a spent utxo only while it is pending, gives `OffersOnlyUnspent`.
`RefreshNeverLost` needs no assumption on pages, and neither do two results about single requests.
`StarvedHasRefresh`: whoever is turned away for lack of utxos leaves a refresh behind, if `DESIRED > 0`; the
code takes any number from the environment, and a pool that is to hold none is never refreshed.
`RefusedOnlyForNewFee`: a request carries a transaction that pays its quote (`PaysQuote`: the
parts of the fee change add up, and the ledger never changes an entry), so `validate` finds another
amount only after the fee has moved.

**The refinement.** `RelayImplementsLending`: under `SinglePage`, `Spec => Lending!Spec`, with
*free* the unspent utxos no request holds, *lent* what each request holds, *spent* the rest of the
ledger. Each step of `FeeRelay` is a `Lend`, a `GiveBack`, a `Spend` or a stutter. A resumed task
must be that of a request still waiting (`CreateQueued`), or it would lend a second time.

**The transaction.** `RelayedTxTypesOK`, `TransactionFits`, `PartsPayFee`, `NothingLost`, `AcceptedForQuote` and `EntryTells`, for any
amounts, fees and number of inputs. That the properties follow from what `create` returns is no
induction; that they hold to the end is. `ShapeInv` says of the transaction in hand what its inputs and
outputs are, in which places, *for the request and the quote that are still there*; it has the types and that
the fee utxo covers the quote. Totals of an owner are sums over the places of his tokens: each set of
places is computed and its sum unfolded, and the inputs, which may be any number, are moved by one place
(`SumShift`) behind the fee utxo. `SplitLosesNothing` and `FeeChangeParts` are about the split
alone: its parts add up, in two or three, the only ones there are, and each can pay a fee.
`MergeSaysWhatItIs` is about the merge of the same utxos: the first four of them, any number, and their sum. Each of
the four places of the typed data is a coin or null, and `toArray` keeps the coins because none looks null: no utxo
is worth 0 (`NoEmptyUtxo`; the network makes none), so neither is a sum of them.

**The client.** `ClientTypesOK`, `StoreSound`, `SessionCoherent` and `MergesOnlyIfNeeded`, for any number of accounts, forms and
polls, any ledger. What a form or a poll has read is old when it uses it, so `StoreIsSound` is not inductive:
`ClientInv` says what each knows at each stage: a history poll holds a length of history the watcher has
reached, a submitted form a transaction of its own account that the chain has. The balance of the session is one of the
past, and neither need be the present. All this survives because the ledger only grows: `PastStays` shows that who took part in
the first transactions, the utxos they left and their sum never change, whatever comes after.
`MergesOnlyIfNeeded` also rests on `LargestIsMost`: no k utxos are worth more than the k largest, by
exchanging those that are not common to both.

**The flairs.** `FlairTypesOK` and `OnlyEarnedIsShown`. `FlairInv` extends `ShownIsEarned` to the runs under way:
the burns a run holds were made, and each update it is going to set was earned by its user. Purchases and posted
addresses are never taken back, so it survives a run that lags; and `filterLevel` keeps a level only with those
below it, of the current flairs and the purchases together, both of which are earned.

**Sums.** A sum over a set is the library's fold, a `CHOOSE` of a recursive function, for which the provers have no
induction. `Sums` proves that the function exists and is unique from a smallest counterexample (`<` on the
naturals has no endless descent), and from that the sum of the empty set, of one more element, of a
union, monotonicity and the exchange above.

**The lease.** `LeaseInvariant`, `AccountsNotShared` and `LeaseHeld`: for any number of instances and accounts, if
`Lease + 3 * MaxDelay <= Expiry`, and until a process shuts down twice. `LeaseInv` bounds the age of a row by
how long its instance has waited for the answer, the timer and the renewal; the buffer of the
code (3 seconds) covers delays of up to one second.

**The distribution.** `DistInvHolds`, `OnlyOneDistributionRuns`, `NeverStuck`, `SupplyIsRecorded`, for any decay of at most 100
percent, any number of rounds and Distributions. `DistInv` ties the two contracts together: a Distribution with
rounds is the token's owner. A Distribution that was deployed but did not get the token cannot mint,
so its `initRound` reverts; and what a Distribution owns it never gives back. With the bound on base supplies
the product in `advanceToNextRound` is at most that of the first round.

**The bridge.** `NobodyWaitsInVain` and `OwnSubReddit`, for any tabs, subreddits and number of calls. A popup that
nothing disturbs shows its own subreddit only because nothing that may still be written is another's: closed
popups leave no callers (`CallersAreOpen`), a poll that goes on to the balance has read a subreddit
(`PollsKnowTheirs`), and the callers of an undisturbed popup have kept its own. `BridgeInv` has these parts;
that no listener waits for a message that is done (`NoCallForgotten`) is inductive with the types alone.

**The claim.** `ClaimInvariant`, `ClaimHolds`, `OnlyContestedRefused` and `ClaimAtomic`, for any number of runs, any deposit
and fee, and any interleaving with the watcher and the credits. None of the three properties is inductive: that
only a contested utxo is refused depends on which utxos the run's own accounts have, and that on every operation
before. `ScriptsInv` says of each run, by its position in `Script`, what its Alice and its server have been given and
what of it is unspent, among all utxos *known* anywhere: on the chain, at the watcher, on their way to it and in
the memory of the runs. So a lag of the watcher changes nothing in it. The waits make the next position true: the balance waited
for is that of an account only this run pays, so when it is reached the watcher has what the next operation
spends. What was given stays until the swap because nothing else that is signed has an input of these accounts. A new
utxo differs from every known one, as among one number more than there are known utxos one is free (`FreeNumber`).

Only model-checked:

* the liveness properties (`CreateAnswered`, `AccountComesBack`, `PurchasesShown`, `PendingSettles`, `SessionFollows`,
  `BootEnds`, `CallAnswered`, `RunEnds`): they need fairness and `ENABLED`.

Every invariant and every action property of a passing run has its theorem, and so has the refinement.

## 7. Not modelled

* Restarts of the relayer with requests under way: pending utxos live in memory, so after a restart the pool offers
  utxos of transactions clients still hold, and none of the pool's properties survives; a cancellation from before
  the restart names a utxo by position and releases whoever has it now. More than one
  fee payer account, utxos of other tokens on a page.
* The relayer serves until the release of its account is *answered*; `OneInstancePerAccount` counts it
  until the release is sent. After a second shutdown in one process (`twice`) the exclusion fails: the second
  release resets the row of the account's next owner.
* Karma (recorded by the contract, never used), ownership transfers the deployer makes by hand, and the
  token's transfers and allowances, which are the library's.
* How addresses are found in comments and flair names in metadata; richtext of a flair without emoji.
* In `WalletBridge`: which account or signature an answer carries. A popup may get the one meant for another;
  the chain refuses a transaction that is signed by the wrong account. Windows (there is one), what the HTTP transport does.
* In `ClaimDemo`: a fee that changes during a run, gas and ETH on the root chain, what the watcher returns when no
  single transaction suffices (an *intermediate* merge, which `transfer` would submit as if it were the transfer):
  with the utxos a run has, one always suffices.
* In the client: the map of user addresses, loading flags and error texts, notifications, a locked wallet; two popups, except in `WalletBridge`.
  With two, an answer to `getSession` writes back the subreddit it read before its awaits, which is why
  `HomeShowsItsSubReddit` is about a popup that was alone.
* A history longer than a page: the transactions after the newest 200 are asked for and dropped.
* Signatures, typed data, metadata, HTTP details, logging, Sentry.
* Styles, layout, build files, generated JSON.

## 8. Plan

Done: the modules of section 2. Next, in this order.

1. A module at the level of promise steps that implements the atomic step of section 4.
2. `FeeRelay` without `SinglePage`: what remains of the invariant, and its proof.
3. Theorems on the release of a lease.
4. The map of user addresses and the choice of flairs in `Merch`.
