----------------------------- MODULE AccountLease -----------------------------
(***************************************************************************)
(* Several instances of the fee relayer share the fee payer accounts       *)
(* through a database table (fee-relayer/src/db.js, account-selector.js    *)
(* and the start and the shutdown of app.js).  An instance reserves an     *)
(* account by writing the time into its row, renews the reservation        *)
(* periodically and resets the row when it exits.  Two instances with the  *)
(* same account would hand out the same fee utxos, each from a cache of    *)
(* its own.                                                                *)
(*                                                                         *)
(* Time is discrete.  Only differences matter, so the row of an account is *)
(* modelled by its age, the time since in_use.  The queries of an instance *)
(* go over one connection and are executed in the order they were sent.    *)
(***************************************************************************)
EXTENDS Naturals, Sequences

CONSTANTS
    Instance,
    Accounts,         \* signer.getAccounts(), in order
    Lease,            \* accountLease: the period of the renewals
    Expiry,           \* an account may be taken when its age exceeds this
    MaxDelay          \* bound: time a query or its answer takes

(***************************************************************************)
(* db.js makes Expiry from accountLease + leaseBuffer: the sum 13 by       *)
(* default, but the string "103" when DB_ACCOUNT_LEASE_SECONDS is set to   *)
(* 10.  The buffer must cover three delays: the answer of the reservation, *)
(* which starts the interval, the query of the first renewal and, when     *)
(* that fails, the query of the release.                                   *)
(***************************************************************************)
ASSUME LeaseAssumption ==
    /\ Accounts # <<>>
    /\ Len(Accounts) \in Nat
    /\ Lease \in Nat /\ Expiry \in Nat /\ MaxDelay \in Nat
    /\ MaxDelay < Lease
    /\ Lease + 3 * MaxDelay <= Expiry

VARIABLES
    age,        \* of the row of each account; Expiry + 1 stands for any
                \* greater age, and for 'epoch'
    stage,      \* where each instance is
    alive,      \* its process runs
    account,    \* the account it asks for or uses, an index of Accounts
    wait,       \* age of the query or answer it waits for
    timer,      \* time since the interval was set or last fired
    renewing,   \* a renewal was sent and is not executed
    again,      \* a second release was sent
    twice       \* history: shutdown has run twice in some process

leaseVars == <<age, stage, alive, account, wait, timer, renewing, again, twice>>

Stage ==
    {"off",
     "reserving",   \* reserveAccount's query is sent
     "yes", "no",   \* and answered; the answer is on its way
     "serving",     \* the instance serves its clients from its account
     "releasing",   \* onExit has sent releaseAccount's query
     "released"}    \* which is answered; the answer is on its way

Account == 1..Len(Accounts)
Epoch == Expiry + 1

LeaseTypeOK ==
    /\ age \in [Account -> 0..Epoch]
    /\ stage \in [Instance -> Stage]
    /\ alive \in [Instance -> BOOLEAN]
    /\ account \in [Instance -> Account]
    /\ wait \in [Instance -> 0..MaxDelay]
    /\ timer \in [Instance -> 0..Lease]
    /\ renewing \in [Instance -> BOOLEAN]
    /\ again \in [Instance -> BOOLEAN]
    /\ twice \in BOOLEAN

Init ==
    /\ age = [a \in Account |-> Epoch]
    /\ stage = [i \in Instance |-> "off"]
    /\ alive = [i \in Instance |-> FALSE]
    /\ account = [i \in Instance |-> 1]
    /\ wait = [i \in Instance |-> 0]
    /\ timer = [i \in Instance |-> 0]
    /\ renewing = [i \in Instance |-> FALSE]
    /\ again = [i \in Instance |-> FALSE]
    /\ twice = FALSE

(* Instance i goes on to stage s, and waits there from now. *)
Goto(i, s) ==
    /\ stage' = [stage EXCEPT ![i] = s]
    /\ wait' = [wait EXCEPT ![i] = 0]

(* The answer goes to a process, if it still runs. *)
Answer(i, s) == Goto(i, IF alive[i] THEN s ELSE "off")

---------------------------------------------------------------------------
(* Starting *)

(* A bug: the rows that exist are reset. *)
StoreAccountsReset == age' = [a \in Account |-> Epoch]

(* setAccounts: rows are inserted, and those that exist left as they are.  *)
StoreAccounts == UNCHANGED age

(* The process starts, stores the accounts and asks for the first one. *)
Start(i) ==
    /\ stage[i] = "off" /\ ~renewing[i] /\ ~again[i]
    /\ StoreAccounts
    /\ alive' = [alive EXCEPT ![i] = TRUE]
    /\ account' = [account EXCEPT ![i] = 1]
    /\ Goto(i, "reserving")
    /\ UNCHANGED <<timer, renewing, again, twice>>

(* A bug: no buffer on top of the lease. *)
FreeAfterLease(a) == age[a] >= Lease

(* The where clause of reserveAccount. *)
Reservable(a) == age[a] > Expiry

(* A bug: the row is updated whether or not it was free. *)
ReserveAccountAnyway(i) ==
    /\ stage[i] = "reserving"
    /\ age' = [age EXCEPT ![account[i]] = 0]
    /\ Answer(i, IF Reservable(account[i]) THEN "yes" ELSE "no")
    /\ UNCHANGED <<alive, account, timer, renewing, again, twice>>

(* The database executes reserveAccount: one atomic update. *)
ReserveAccount(i) ==
    /\ stage[i] = "reserving"
    /\ \/ /\ Reservable(account[i])
          /\ age' = [age EXCEPT ![account[i]] = 0]
          /\ Answer(i, "yes")
       \/ /\ ~Reservable(account[i])
          /\ UNCHANGED age
          /\ Answer(i, "no")
    /\ UNCHANGED <<alive, account, timer, renewing, again, twice>>

(* The account is this instance's: set the interval, open the routes. *)
GetAccount(i) ==
    /\ stage[i] = "yes"
    /\ Goto(i, "serving")
    /\ timer' = [timer EXCEPT ![i] = 0]
    /\ UNCHANGED <<age, alive, account, renewing, again, twice>>

(* It is not: try the next one ... *)
TryNextAccount(i) ==
    /\ stage[i] = "no"
    /\ account[i] < Len(Accounts)
    /\ account' = [account EXCEPT ![i] = @ + 1]
    /\ Goto(i, "reserving")
    /\ UNCHANGED <<age, alive, timer, renewing, again, twice>>

(* ... or give up: findAvailableAccount throws and the process exits. *)
NoAvailableAccount(i) ==
    /\ stage[i] = "no"
    /\ account[i] = Len(Accounts)
    /\ Goto(i, "off")
    /\ alive' = [alive EXCEPT ![i] = FALSE]
    /\ UNCHANGED <<age, account, timer, renewing, again, twice>>

---------------------------------------------------------------------------
(* Renewing *)

(* The callback of setInterval sends a renewal and does not wait for it. *)
FireInterval(i) ==
    /\ stage[i] = "serving"
    /\ timer[i] = Lease
    /\ renewing' = [renewing EXCEPT ![i] = TRUE]
    /\ timer' = [timer EXCEPT ![i] = 0]
    /\ UNCHANGED <<age, stage, alive, account, wait, again, twice>>

(* A bug: the renewal has the where clause of the reservation. *)
RenewIfReservable(i) ==
    /\ renewing[i]
    /\ age' = IF Reservable(account[i]) THEN [age EXCEPT ![account[i]] = 0] ELSE age
    /\ renewing' = [renewing EXCEPT ![i] = FALSE]
    /\ UNCHANGED <<stage, alive, account, wait, timer, again, twice>>

(* The database executes the renewal, whoever has the account by now. *)
RenewReservation(i) ==
    /\ renewing[i]
    /\ age' = [age EXCEPT ![account[i]] = 0]
    /\ renewing' = [renewing EXCEPT ![i] = FALSE]
    /\ UNCHANGED <<stage, alive, account, wait, timer, again, twice>>

(* The renewal is rejected.  Nobody handles that: shutdown is called, for  *)
(* the second time if the instance is already exiting.                     *)
RenewalFails(i) ==
    /\ renewing[i] /\ alive[i]
    /\ renewing' = [renewing EXCEPT ![i] = FALSE]
    /\ \/ /\ stage[i] = "serving"
          /\ Goto(i, "releasing")
          /\ UNCHANGED <<again, twice>>
       \/ /\ stage[i] = "releasing"
          /\ again' = [again EXCEPT ![i] = TRUE]
          /\ twice' = TRUE
          /\ UNCHANGED <<stage, wait>>
    /\ UNCHANGED <<age, alive, account, timer>>

---------------------------------------------------------------------------
(* Exiting *)

(* shutdown, with an account: clear the interval and release the account.  *)
(* The process goes on serving its clients until the answer comes.         *)
Shutdown(i) ==
    /\ alive[i] /\ stage[i] = "serving"
    /\ Goto(i, "releasing")
    /\ UNCHANGED <<age, alive, account, timer, renewing, again, twice>>

(* shutdown before getAccount has returned: the process exits at once, and *)
(* leaves its query behind.                                                *)
ShutdownEarly(i) ==
    /\ alive[i] /\ stage[i] \in {"reserving", "yes", "no"}
    /\ alive' = [alive EXCEPT ![i] = FALSE]
    /\ IF stage[i] = "reserving"
       THEN UNCHANGED <<stage, wait>>
       ELSE Goto(i, "off")
    /\ UNCHANGED <<age, account, timer, renewing, again, twice>>

(* A second signal: removeListener removed nothing, shutdown runs again.   *)
ShutdownAgain(i) ==
    /\ alive[i] /\ stage[i] = "releasing"
    /\ again' = [again EXCEPT ![i] = TRUE]
    /\ twice' = TRUE
    /\ UNCHANGED <<age, stage, alive, account, wait, timer, renewing>>

(* The database executes releaseAccount. *)
ReleaseAccount(i) ==
    /\ stage[i] = "releasing" /\ ~renewing[i]
    /\ age' = [age EXCEPT ![account[i]] = Epoch]
    /\ Answer(i, "released")
    /\ UNCHANGED <<alive, account, timer, renewing, again, twice>>

(* It executes the second one, sent when the first was answered. *)
ReleaseAgain(i) ==
    /\ again[i] /\ stage[i] \in {"released", "off"}
    /\ age' = [age EXCEPT ![account[i]] = Epoch]
    /\ again' = [again EXCEPT ![i] = FALSE]
    /\ UNCHANGED <<stage, alive, account, wait, timer, renewing, twice>>

(* The release was answered, or it failed and onExit caught the error.     *)
Exit(i) ==
    /\ alive[i] /\ stage[i] \in {"releasing", "released"}
    /\ Goto(i, "off")
    /\ alive' = [alive EXCEPT ![i] = FALSE]
    /\ UNCHANGED <<age, account, timer, renewing, again, twice>>

(* The process dies; what it has sent may still be executed. *)
Crash(i) ==
    /\ alive[i]
    /\ alive' = [alive EXCEPT ![i] = FALSE]
    /\ IF stage[i] \in {"reserving", "releasing"}
       THEN UNCHANGED <<stage, wait>>
       ELSE Goto(i, "off")
    /\ UNCHANGED <<age, account, timer, renewing, again, twice>>

(* Or it is not: the connection is gone. *)
Drop(i) ==
    /\ ~alive[i]
    /\ stage[i] # "off" \/ renewing[i] \/ again[i]
    /\ Goto(i, "off")
    /\ renewing' = [renewing EXCEPT ![i] = FALSE]
    /\ again' = [again EXCEPT ![i] = FALSE]
    /\ UNCHANGED <<age, alive, account, timer, twice>>

---------------------------------------------------------------------------
(* Time *)

Waiting(i) == stage[i] \notin {"off", "serving"}

(* The interval counts, and so does the delay of the renewal it has sent.  *)
Timing(i) == stage[i] = "serving" \/ renewing[i]

(***************************************************************************)
(* One unit of time passes, unless something is due: a query or an answer  *)
(* takes at most MaxDelay, and the interval fires every Lease.             *)
(***************************************************************************)
Tick ==
    /\ \A i \in Instance :
          /\ Waiting(i) => wait[i] < MaxDelay
          /\ stage[i] = "serving" => timer[i] < Lease
          /\ renewing[i] => timer[i] < MaxDelay
    /\ age' = [a \in Account |-> IF age[a] = Epoch THEN Epoch ELSE age[a] + 1]
    /\ wait' = [i \in Instance |-> IF Waiting(i) THEN wait[i] + 1 ELSE 0]
    /\ timer' = [i \in Instance |-> IF Timing(i) THEN timer[i] + 1 ELSE 0]
    /\ UNCHANGED <<stage, alive, account, renewing, again, twice>>

(* What the database, the network and the event loop do for instance i. *)
Proceed(i) ==
    \/ ReserveAccount(i) \/ GetAccount(i) \/ TryNextAccount(i) \/ NoAvailableAccount(i)
    \/ FireInterval(i) \/ RenewReservation(i) \/ RenewalFails(i)
    \/ ReleaseAccount(i) \/ ReleaseAgain(i) \/ Exit(i) \/ Drop(i)

Next ==
    \/ \E i \in Instance :
          \/ Start(i) \/ Proceed(i)
          \/ Shutdown(i) \/ ShutdownEarly(i) \/ ShutdownAgain(i) \/ Crash(i)
    \/ Tick

Spec ==
    /\ Init /\ [][Next]_leaseVars
    /\ WF_leaseVars(Tick)
    /\ \A i \in Instance : WF_leaseVars(Proceed(i))

---------------------------------------------------------------------------
(* Properties *)

(***************************************************************************)
(* Two instances never serve clients from one account, whatever restarts,  *)
(* crashes, failed renewals and queries that outlive their process, as     *)
(* long as shutdown has not run twice in a process: its second release may *)
(* reset a row that is another's by then.                                  *)
(***************************************************************************)
OneInstancePerAccount ==
    ~twice =>
       \A i, j \in Instance :
          i # j /\ stage[i] = "serving" /\ stage[j] = "serving" => account[i] # account[j]

(***************************************************************************)
(* The lease of a serving instance never lapses: between the reservation,  *)
(* its late answer, the interval and the late renewal, nobody else finds   *)
(* its row free, and nobody else resets it, but for a second shutdown.     *)
(***************************************************************************)
LeaseNeverLapses ==
    ~twice => \A i \in Instance : stage[i] = "serving" => ~Reservable(account[i])

(***************************************************************************)
(* An account does not stay reserved for nobody: again and again it can be *)
(* taken, or it is being served from.  This holds without any release, as  *)
(* crashed instances show.                                                 *)
(***************************************************************************)
AccountComesBack ==
    \A a \in Account :
       []<>(Reservable(a) \/ \E i \in Instance : stage[i] = "serving" /\ account[i] = a)

---------------------------------------------------------------------------
(* The inductive invariant *)

(* The row of its account was last written by i, and i may write it again. *)
Owns(i) ==
    stage[i] \in {"yes", "serving", "releasing"} \/ renewing[i]

(* How old the row can be: the reservation is at most MaxDelay older than  *)
(* the interval, and a renewal is executed within MaxDelay.                *)
FreshEnough(i) ==
    /\ stage[i] = "yes" => age[account[i]] <= wait[i]
    /\ stage[i] = "serving" /\ ~renewing[i] => age[account[i]] <= timer[i] + MaxDelay
    /\ renewing[i] => /\ timer[i] <= MaxDelay
                      /\ age[account[i]] <= Lease + MaxDelay + timer[i]
    /\ stage[i] = "releasing" /\ ~renewing[i] => age[account[i]] <= Lease + 2 * MaxDelay + wait[i]

LeaseInv ==
    /\ LeaseTypeOK
    /\ ~twice =>
          /\ \A i \in Instance :
                /\ FreshEnough(i)
                /\ renewing[i] => stage[i] \in {"serving", "releasing", "released", "off"}
                /\ stage[i] \in {"yes", "no", "serving", "released"} => alive[i]
                /\ ~again[i]
          /\ \A i, j \in Instance : i # j /\ Owns(i) /\ Owns(j) => account[i] # account[j]
=============================================================================
