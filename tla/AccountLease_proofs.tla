------------------------- MODULE AccountLease_proofs -------------------------
(***************************************************************************)
(* An account serves one instance at a time: for any number of instances   *)
(* and accounts and any lease, as long as the delays are within the buffer *)
(* and no process has shut down twice.                                     *)
(***************************************************************************)
EXTENDS AccountLease, TLAPS

---------------------------------------------------------------------------
LEMMA Bounds ==
    /\ Lease \in Nat /\ Expiry \in Nat /\ MaxDelay \in Nat
    /\ MaxDelay < Lease
    /\ Lease + 3 * MaxDelay <= Expiry
  BY LeaseAssumption

(* The type invariant *)

LEMMA LeaseInitType == Init => LeaseTypeOK
<1>1. 1 \in Account
  BY LeaseAssumption DEF Account
<1>2. Epoch \in 0..Epoch /\ 0 \in 0..MaxDelay /\ 0 \in 0..Lease
  BY LeaseAssumption DEF Epoch
<1>3. QED
  BY <1>1, <1>2 DEF Init, LeaseTypeOK, Stage

LEMMA LeaseNextType == LeaseTypeOK /\ [Next]_leaseVars => LeaseTypeOK'
<1> SUFFICES ASSUME LeaseTypeOK, [Next]_leaseVars PROVE LeaseTypeOK'
  OBVIOUS
<1> USE DEF LeaseTypeOK
<1>0. 0 \in 0..Epoch /\ Epoch \in 0..Epoch /\ 0 \in 0..MaxDelay /\ 0 \in 0..Lease
  BY LeaseAssumption DEF Epoch
<1>g. ASSUME NEW i \in Instance, NEW s \in Stage, Goto(i, s)
      PROVE  stage' \in [Instance -> Stage] /\ wait' \in [Instance -> 0..MaxDelay]
  BY <1>0, <1>g DEF Goto
<1>1. CASE UNCHANGED leaseVars
  BY <1>1 DEF leaseVars
<1>2. ASSUME NEW i \in Instance, Start(i)
      PROVE  LeaseTypeOK'
  <2>1. 1 \in Account /\ "reserving" \in Stage
    BY LeaseAssumption DEF Account, Stage
  <2>2. stage' \in [Instance -> Stage] /\ wait' \in [Instance -> 0..MaxDelay]
    BY <1>2, <1>g, <2>1 DEF Start
  <2>3. QED
    BY <1>2, <2>1, <2>2 DEF Start, StoreAccounts
<1>3. ASSUME NEW i \in Instance, ReserveAccount(i)
      PROVE  LeaseTypeOK'
  <2>1. {"yes", "no", "off"} \subseteq Stage
    BY DEF Stage
  <2>2. stage' \in [Instance -> Stage] /\ wait' \in [Instance -> 0..MaxDelay]
    BY <1>3, <1>g, <2>1 DEF ReserveAccount, Answer
  <2>3. age' \in [Account -> 0..Epoch]
    BY <1>0, <1>3 DEF ReserveAccount
  <2>4. QED
    BY <1>3, <2>2, <2>3 DEF ReserveAccount
<1>4. ASSUME NEW i \in Instance, GetAccount(i)
      PROVE  LeaseTypeOK'
  <2>1. stage' \in [Instance -> Stage] /\ wait' \in [Instance -> 0..MaxDelay]
    BY <1>4, <1>g DEF GetAccount, Stage
  <2>2. QED
    BY <1>0, <1>4, <2>1 DEF GetAccount
<1>5. ASSUME NEW i \in Instance, TryNextAccount(i)
      PROVE  LeaseTypeOK'
  <2>1. stage' \in [Instance -> Stage] /\ wait' \in [Instance -> 0..MaxDelay]
    BY <1>5, <1>g DEF TryNextAccount, Stage
  <2>2. account[i] + 1 \in Account
    BY <1>5, LeaseAssumption DEF TryNextAccount, Account
  <2>3. QED
    BY <1>5, <2>1, <2>2 DEF TryNextAccount
<1>6. ASSUME NEW i \in Instance, NoAvailableAccount(i) \/ Exit(i)
      PROVE  LeaseTypeOK'
  <2>1. stage' \in [Instance -> Stage] /\ wait' \in [Instance -> 0..MaxDelay]
    BY <1>6, <1>g DEF NoAvailableAccount, Exit, Stage
  <2>2. QED
    BY <1>6, <2>1 DEF NoAvailableAccount, Exit
<1>7. ASSUME NEW i \in Instance, FireInterval(i) \/ ShutdownAgain(i)
      PROVE  LeaseTypeOK'
  BY <1>0, <1>7 DEF FireInterval, ShutdownAgain
<1>8. ASSUME NEW i \in Instance, RenewReservation(i) \/ ReleaseAgain(i)
      PROVE  LeaseTypeOK'
  <2>1. age' \in [Account -> 0..Epoch]
    BY <1>0, <1>8 DEF RenewReservation, ReleaseAgain
  <2>2. renewing' \in [Instance -> BOOLEAN] /\ again' \in [Instance -> BOOLEAN]
    BY <1>8 DEF RenewReservation, ReleaseAgain
  <2>3. QED
    BY <1>8, <2>1, <2>2 DEF RenewReservation, ReleaseAgain
<1>9. ASSUME NEW i \in Instance, RenewalFails(i) \/ Shutdown(i)
      PROVE  LeaseTypeOK'
  <2>1. stage' \in [Instance -> Stage] /\ wait' \in [Instance -> 0..MaxDelay]
    BY <1>9, <1>g DEF RenewalFails, Shutdown, Stage
  <2>2. QED
    BY <1>9, <2>1, LeaseAssumption DEF RenewalFails, Shutdown
<1>10. ASSUME NEW i \in Instance, ShutdownEarly(i) \/ Crash(i) \/ Drop(i)
       PROVE  LeaseTypeOK'
  <2>1. stage' \in [Instance -> Stage] /\ wait' \in [Instance -> 0..MaxDelay]
    BY <1>10, <1>g DEF ShutdownEarly, Crash, Drop, Stage
  <2>2. QED
    BY <1>10, <2>1 DEF ShutdownEarly, Crash, Drop
<1>11. ASSUME NEW i \in Instance, ReleaseAccount(i)
       PROVE  LeaseTypeOK'
  <2>1. {"released", "off"} \subseteq Stage
    BY DEF Stage
  <2>2. stage' \in [Instance -> Stage] /\ wait' \in [Instance -> 0..MaxDelay]
    BY <1>11, <1>g, <2>1 DEF ReleaseAccount, Answer
  <2>3. QED
    BY <1>0, <1>11, <2>2 DEF ReleaseAccount
<1>12. CASE Tick
  <2>1. ASSUME NEW a \in Account, age[a] # Epoch
        PROVE  age[a] + 1 \in 0..Epoch
    <3>1. age[a] \in 0..Epoch
      OBVIOUS
    <3>2. Epoch \in Nat
      BY Bounds DEF Epoch
    <3>3. QED
      BY <2>1, <3>1, <3>2
  <2>2. age' \in [Account -> 0..Epoch]
    BY <1>0, <1>12, <2>1 DEF Tick
  <2>3. \A i \in Instance : Waiting(i) => wait[i] + 1 \in 0..MaxDelay
    BY <1>12, LeaseAssumption DEF Tick
  <2>4. wait' \in [Instance -> 0..MaxDelay]
    BY <1>0, <1>12, <2>3 DEF Tick
  <2>5. \A i \in Instance : Timing(i) => timer[i] + 1 \in 0..Lease
    BY <1>12, LeaseAssumption DEF Tick, Timing
  <2>6. timer' \in [Instance -> 0..Lease]
    BY <1>0, <1>12, <2>5 DEF Tick
  <2>7. QED
    BY <1>12, <2>2, <2>4, <2>6 DEF Tick
<1>13. QED
  BY <1>1, <1>2, <1>3, <1>4, <1>5, <1>6, <1>7, <1>8, <1>9, <1>10, <1>11, <1>12
  DEF Next, Proceed

(* Every variable keeps its type: no age, wait or timer leaves its bounds. *)
THEOREM LeaseTypeCorrect == Spec => []LeaseTypeOK
  BY LeaseInitType, LeaseNextType, PTL DEF Spec

---------------------------------------------------------------------------
(* The inductive invariant *)

(* What LeaseInv says of one instance. *)
InstanceInv(i) ==
    /\ FreshEnough(i)
    /\ renewing[i] => stage[i] \in {"serving", "releasing", "released", "off"}
    /\ stage[i] \in {"yes", "no", "serving", "released"} => alive[i]
    /\ ~again[i]

(* The row of an owner is never free. *)
LEMMA OwnerNotReservable ==
    ASSUME LeaseInv, ~twice, NEW i \in Instance, Owns(i)
    PROVE  ~Reservable(account[i])
<1>1. /\ wait[i] \in 0..MaxDelay /\ timer[i] \in 0..Lease
      /\ age[account[i]] \in 0..Epoch
  BY DEF LeaseInv, LeaseTypeOK
<1>2. \/ age[account[i]] <= wait[i]
      \/ age[account[i]] <= timer[i] + MaxDelay
      \/ timer[i] <= MaxDelay /\ age[account[i]] <= Lease + MaxDelay + timer[i]
      \/ age[account[i]] <= Lease + 2 * MaxDelay + wait[i]
  BY DEF LeaseInv, FreshEnough, Owns
<1>3. age[account[i]] <= Lease + 3 * MaxDelay
  <2> DEFINE n == age[account[i]]
             w == wait[i]
             t == timer[i]
  <2>1. n \in Nat /\ w \in Nat /\ t \in Nat /\ w <= MaxDelay /\ t <= Lease
    BY <1>1, Bounds DEF Epoch
  <2>2. \/ n <= w
        \/ n <= t + MaxDelay
        \/ t <= MaxDelay /\ n <= Lease + MaxDelay + t
        \/ n <= Lease + 2 * MaxDelay + w
    BY <1>2
  <2> HIDE DEF n, w, t
  <2>3. n <= Lease + 3 * MaxDelay
    BY <2>1, <2>2, Bounds
  <2>4. QED
    BY <2>3 DEF n
<1>4. age[account[i]] \in Nat
  BY <1>1, Bounds DEF Epoch
<1>5. QED
  BY <1>3, <1>4, Bounds DEF Reservable

(* What other instances do does not matter to j, as long as the row of its *)
(* account stays as it is.                                                 *)
LEMMA OtherInstance ==
    ASSUME NEW j \in Instance, InstanceInv(j),
           stage'[j] = stage[j], alive'[j] = alive[j], account'[j] = account[j],
           wait'[j] = wait[j], timer'[j] = timer[j], renewing'[j] = renewing[j],
           again'[j] = again[j],
           Owns(j) => age'[account[j]] = age[account[j]]
    PROVE  InstanceInv(j)'
  BY DEF InstanceInv, FreshEnough, Owns

(* Instance i acts: it keeps its own part, and takes no account.           *)
LEMMA OwnStep ==
    ASSUME LeaseInv, LeaseTypeOK', ~twice, NEW i \in Instance,
           \A j \in Instance : j # i =>
              /\ stage'[j] = stage[j] /\ alive'[j] = alive[j] /\ account'[j] = account[j]
              /\ wait'[j] = wait[j] /\ timer'[j] = timer[j]
              /\ renewing'[j] = renewing[j] /\ again'[j] = again[j],
           \A a \in Account : a # account[i] => age'[a] = age[a],
           age'[account[i]] = age[account[i]] \/ Owns(i) \/ Reservable(account[i]),
           InstanceInv(i)',
           Owns(i)' => /\ Owns(i) \/ Reservable(account[i])
                       /\ account'[i] = account[i]
    PROVE  LeaseInv'
<1>1. ASSUME NEW j \in Instance, j # i, Owns(j)
      PROVE  /\ Owns(i) \/ Reservable(account[i]) => account[i] # account[j]
             /\ age'[account[j]] = age[account[j]]
  <2>1. ~Reservable(account[j])
    BY <1>1, OwnerNotReservable
  <2>2. Owns(i) \/ Reservable(account[i]) => account[i] # account[j]
    BY <1>1, <2>1 DEF LeaseInv
  <2>3. account[j] \in Account
    BY DEF LeaseInv, LeaseTypeOK
  <2>4. QED
    BY <2>2, <2>3
<1>2. ASSUME NEW j \in Instance
      PROVE  InstanceInv(j)'
  <2>1. InstanceInv(j)
    BY DEF LeaseInv, InstanceInv
  <2>2. QED
    BY <1>1, <2>1, OtherInstance
<1>3. \A j \in Instance : j # i => (Owns(j)' <=> Owns(j))
  BY DEF Owns
<1>4. ASSUME NEW j \in Instance, NEW k \in Instance, j # k, Owns(j)', Owns(k)'
      PROVE  account'[j] # account'[k]
  <2>1. CASE j # i /\ k # i
    BY <1>3, <1>4, <2>1 DEF LeaseInv
  <2>2. CASE j = i \/ k = i
    BY <1>1, <1>3, <1>4, <2>2
  <2>3. QED
    BY <2>1, <2>2
<1>5. QED
  BY <1>2, <1>4 DEF LeaseInv, InstanceInv

LEMMA LeaseInitInv == Init => LeaseInv
  BY LeaseInitType DEF Init, LeaseInv, FreshEnough, Owns

(***************************************************************************)
(* Every step keeps the invariant.  ReserveAccount takes a row that no     *)
(* owner has, because an owner's row is too fresh; the other steps of i    *)
(* write only the row that i owns.                                         *)
(***************************************************************************)
LEMMA LeaseNextInv == LeaseInv /\ [Next]_leaseVars => LeaseInv'
<1> SUFFICES ASSUME LeaseInv, [Next]_leaseVars PROVE LeaseInv'
  OBVIOUS
<1>t. LeaseTypeOK /\ LeaseTypeOK'
  BY LeaseNextType DEF LeaseInv
<1>s. twice => twice'
  BY DEF Next, Proceed, leaseVars, Start, ReserveAccount, GetAccount, TryNextAccount,
     NoAvailableAccount, FireInterval, RenewReservation, RenewalFails, Shutdown,
     ShutdownEarly, ShutdownAgain, ReleaseAccount, ReleaseAgain, Exit, Crash, Drop, Tick
<1>u. CASE twice'
  BY <1>t, <1>u DEF LeaseInv
<1>v. CASE ~twice'
<2>n. ~twice
  BY <1>s, <1>v
<2>i. \A i \in Instance : InstanceInv(i) /\ ~again[i]
  BY <2>n DEF LeaseInv, InstanceInv
<2>b. \A i \in Instance :
         /\ wait[i] \in Nat /\ wait[i] <= MaxDelay
         /\ timer[i] \in Nat /\ timer[i] <= Lease
         /\ age[account[i]] \in Nat
         /\ account[i] \in Account
  BY <1>t, Bounds DEF LeaseTypeOK, Epoch
<2> USE DEF LeaseTypeOK
<2>1. CASE UNCHANGED leaseVars
  BY <2>1, <2>n DEF leaseVars, LeaseInv, FreshEnough, Owns
<2>2. ASSUME NEW i \in Instance, Start(i)
      PROVE  LeaseInv'
  <3>1. InstanceInv(i)' /\ ~Owns(i)'
    BY <1>t, <2>i, <2>2 DEF Start, Goto, InstanceInv, FreshEnough, Owns
  <3>2. QED
    BY <1>t, <2>2, <3>1, <2>n, OwnStep DEF Start, StoreAccounts, Goto
<2>3. ASSUME NEW i \in Instance, ReserveAccount(i)
      PROVE  LeaseInv'
  <3>1. CASE Reservable(account[i])
    <4>1. /\ age' = [age EXCEPT ![account[i]] = 0]
          /\ Answer(i, "yes")
          /\ UNCHANGED <<alive, account, timer, renewing, again>>
      BY <2>3, <3>1 DEF ReserveAccount
    <4>2. age'[account'[i]] = 0 /\ wait'[i] = 0
      BY <1>t, <2>b, <4>1 DEF Answer, Goto
    <4>3. stage[i] = "reserving" /\ ~renewing[i]
      BY <2>i, <2>3 DEF ReserveAccount, InstanceInv
    <4>4. InstanceInv(i)'
      BY <1>t, <2>i, <4>1, <4>2, <4>3 DEF Answer, Goto, InstanceInv, FreshEnough
    <4>5. QED
      BY <1>t, <3>1, <4>1, <4>4, <2>n, OwnStep DEF Answer, Goto
  <3>2. CASE ~Reservable(account[i])
    <4>1. /\ Answer(i, "no")
          /\ UNCHANGED <<age, alive, account, timer, renewing, again>>
      BY <2>3, <3>2 DEF ReserveAccount
    <4>2. stage[i] = "reserving" /\ ~renewing[i]
      BY <2>i, <2>3 DEF ReserveAccount, InstanceInv
    <4>3. InstanceInv(i)' /\ ~Owns(i)'
      BY <1>t, <2>i, <4>1, <4>2 DEF Answer, Goto, InstanceInv, FreshEnough, Owns
    <4>4. QED
      BY <1>t, <4>1, <4>3, <2>n, OwnStep DEF Answer, Goto
  <3>3. QED
    BY <3>1, <3>2
<2>4. ASSUME NEW i \in Instance, GetAccount(i)
      PROVE  LeaseInv'
  <3>1. /\ stage[i] = "yes" /\ ~renewing[i]
        /\ timer'[i] = 0 /\ age[account[i]] <= MaxDelay
    BY <1>t, <2>i, <2>b, <2>4, Bounds DEF GetAccount, InstanceInv, FreshEnough
  <3>2. InstanceInv(i)'
    BY <1>t, <2>i, <2>b, <2>4, <3>1, Bounds DEF GetAccount, Goto, InstanceInv, FreshEnough
  <3>3. QED
    BY <1>t, <2>4, <3>2, <2>n, OwnStep DEF GetAccount, Goto, Owns
<2>5. ASSUME NEW i \in Instance, TryNextAccount(i)
      PROVE  LeaseInv'
  <3>1. ~renewing[i]
    BY <2>i, <2>5 DEF TryNextAccount, InstanceInv
  <3>2. InstanceInv(i)' /\ ~Owns(i)'
    BY <1>t, <2>i, <2>5, <3>1 DEF TryNextAccount, Goto, InstanceInv, FreshEnough, Owns
  <3>3. QED
    BY <1>t, <2>5, <3>2, <2>n, OwnStep DEF TryNextAccount, Goto
<2>6. ASSUME NEW i \in Instance, NoAvailableAccount(i) \/ Exit(i)
      PROVE  LeaseInv'
  <3>1. InstanceInv(i)'
    BY <1>t, <2>i, <2>6 DEF NoAvailableAccount, Exit, Goto, InstanceInv, FreshEnough
  <3>2. Owns(i)' => Owns(i)
    BY <1>t, <2>6 DEF NoAvailableAccount, Exit, Goto, Owns
  <3>3. QED
    BY <1>t, <2>6, <3>1, <3>2, <2>n, OwnStep DEF NoAvailableAccount, Exit, Goto
<2>7. ASSUME NEW i \in Instance, FireInterval(i)
      PROVE  LeaseInv'
  <3>1. /\ stage[i] = "serving" /\ timer[i] = Lease /\ timer'[i] = 0
        /\ renewing'[i]
        /\ UNCHANGED <<age, stage, alive, account, wait, again>>
    BY <1>t, <2>7 DEF FireInterval
  <3>2. ~renewing[i]
    BY <2>i, <3>1, Bounds DEF InstanceInv, FreshEnough
  <3>3. age[account[i]] <= Lease + MaxDelay
    BY <2>i, <3>1, <3>2 DEF InstanceInv, FreshEnough
  <3>4. InstanceInv(i)'
    BY <1>t, <2>i, <2>b, <3>1, <3>3, Bounds DEF InstanceInv, FreshEnough
  <3>5. QED
    BY <1>t, <2>7, <3>1, <3>4, <2>n, OwnStep DEF FireInterval, Owns
<2>8. ASSUME NEW i \in Instance, RenewReservation(i)
      PROVE  LeaseInv'
  <3>1. age'[account'[i]] = 0 /\ Owns(i) /\ ~renewing'[i]
    BY <1>t, <2>b, <2>8 DEF RenewReservation, Owns
  <3>2. InstanceInv(i)'
    BY <1>t, <2>i, <2>b, <2>8, <3>1, Bounds DEF RenewReservation, InstanceInv, FreshEnough
  <3>3. QED
    BY <1>t, <2>8, <3>1, <3>2, <2>n, OwnStep DEF RenewReservation
<2>9. ASSUME NEW i \in Instance, RenewalFails(i)
      PROVE  LeaseInv'
  <3>1. /\ Owns(i) /\ ~renewing'[i]
        /\ timer[i] <= MaxDelay /\ age[account[i]] <= Lease + MaxDelay + timer[i]
    BY <1>t, <2>i, <2>9 DEF RenewalFails, InstanceInv, FreshEnough, Owns
  <3>2. age[account[i]] <= Lease + 2 * MaxDelay + wait'[i] /\ wait'[i] \in Nat
    BY <1>t, <2>b, <2>9, <3>1, Bounds DEF RenewalFails
  <3>3. stage'[i] = "releasing" /\ UNCHANGED <<age, alive, account, timer>> /\ ~again'[i]
    BY <1>t, <1>v, <2>i, <2>9 DEF RenewalFails, Goto
  <3>4. InstanceInv(i)'
    BY <1>t, <2>i, <3>1, <3>2, <3>3 DEF InstanceInv, FreshEnough
  <3>5. QED
    BY <1>t, <2>9, <3>1, <3>4, <2>n, OwnStep DEF RenewalFails, Goto
<2>10. ASSUME NEW i \in Instance, Shutdown(i)
       PROVE  LeaseInv'
  <3>1. /\ Owns(i) /\ wait'[i] = 0
        /\ UNCHANGED <<age, alive, account, timer, renewing, again>>
    BY <1>t, <2>10 DEF Shutdown, Goto, Owns
  <3>2. ~renewing[i] => age[account[i]] <= Lease + 2 * MaxDelay + wait'[i]
    BY <2>i, <2>b, <2>10, <3>1, Bounds DEF Shutdown, InstanceInv, FreshEnough
  <3>3. InstanceInv(i)'
    BY <1>t, <2>i, <2>10, <3>1, <3>2 DEF Shutdown, Goto, InstanceInv, FreshEnough
  <3>4. QED
    BY <1>t, <2>10, <3>1, <3>3, <2>n, OwnStep DEF Shutdown, Goto
<2>11. ASSUME NEW i \in Instance, ShutdownEarly(i) \/ Crash(i)
       PROVE  LeaseInv'
  <3>1. InstanceInv(i)'
    BY <1>t, <2>i, <2>11 DEF ShutdownEarly, Crash, Goto, InstanceInv, FreshEnough
  <3>2. Owns(i)' => Owns(i)
    BY <1>t, <2>11 DEF ShutdownEarly, Crash, Goto, Owns
  <3>3. QED
    BY <1>t, <2>11, <3>1, <3>2, <2>n, OwnStep DEF ShutdownEarly, Crash, Goto
<2>12. ASSUME NEW i \in Instance, ReleaseAccount(i)
       PROVE  LeaseInv'
  <3>1. InstanceInv(i)' /\ Owns(i)
    BY <1>t, <2>i, <2>12 DEF ReleaseAccount, Answer, Goto, InstanceInv, FreshEnough, Owns
  <3>2. ~Owns(i)'
    BY <1>t, <2>12 DEF ReleaseAccount, Answer, Goto, Owns
  <3>3. QED
    BY <1>t, <2>12, <3>1, <3>2, <2>n, OwnStep DEF ReleaseAccount, Answer, Goto
<2>13. ASSUME NEW i \in Instance, Drop(i)
       PROVE  LeaseInv'
  <3>1. InstanceInv(i)' /\ ~Owns(i)'
    BY <1>t, <2>i, <2>13 DEF Drop, Goto, InstanceInv, FreshEnough, Owns
  <3>2. QED
    BY <1>t, <2>13, <3>1, <2>n, OwnStep DEF Drop, Goto
<2>14. CASE Tick
  <3>1. ASSUME NEW i \in Instance, Owns(i)
        PROVE  age'[account'[i]] = age[account[i]] + 1
    <4>1. ~Reservable(account[i])
      BY <3>1, <2>n, OwnerNotReservable
    <4>2. age[account[i]] # Epoch
      BY <2>b, <4>1, Bounds DEF Reservable, Epoch
    <4>3. QED
      BY <2>b, <2>14, <4>2 DEF Tick
  <3>2. ASSUME NEW i \in Instance
        PROVE  InstanceInv(i)'
    <4>1. /\ stage[i] = "yes" => wait'[i] = wait[i] + 1
          /\ stage[i] = "releasing" => wait'[i] = wait[i] + 1
          /\ stage[i] = "serving" \/ renewing[i] => timer'[i] = timer[i] + 1
          /\ renewing[i] => timer[i] < MaxDelay
      BY <2>14 DEF Tick, Waiting, Timing
    <4>2. UNCHANGED <<stage, alive, account, renewing, again>>
      BY <2>14 DEF Tick
    <4>3. Owns(i)' <=> Owns(i)
      BY <4>2 DEF Owns
    <4>4. stage[i] = "yes" => age'[account'[i]] <= wait'[i]
      BY <2>i, <2>b, <3>1, <4>1 DEF Owns, InstanceInv, FreshEnough
    <4>5. stage[i] = "serving" /\ ~renewing[i] => age'[account'[i]] <= timer'[i] + MaxDelay
      BY <2>i, <2>b, <3>1, <4>1, Bounds DEF Owns, InstanceInv, FreshEnough
    <4>6. renewing[i] => /\ timer'[i] <= MaxDelay
                         /\ age'[account'[i]] <= Lease + MaxDelay + timer'[i]
      BY <2>i, <2>b, <3>1, <4>1, Bounds DEF Owns, InstanceInv, FreshEnough
    <4>7. stage[i] = "releasing" /\ ~renewing[i]
             => age'[account'[i]] <= Lease + 2 * MaxDelay + wait'[i]
      BY <2>i, <2>b, <3>1, <4>1, Bounds DEF Owns, InstanceInv, FreshEnough
    <4>8. QED
      BY <2>i, <4>2, <4>4, <4>5, <4>6, <4>7 DEF InstanceInv, FreshEnough
  <3>3. UNCHANGED <<stage, account, renewing>>
    BY <2>14 DEF Tick
  <3>4. QED
    BY <1>t, <2>n, <3>2, <3>3 DEF LeaseInv, InstanceInv, Owns
<2>15. ASSUME NEW i \in Instance, ShutdownAgain(i) \/ ReleaseAgain(i)
       PROVE  FALSE
  BY <1>v, <2>i, <2>15 DEF ShutdownAgain, ReleaseAgain
<2>16. QED
  BY <2>1, <2>2, <2>3, <2>4, <2>5, <2>6, <2>7, <2>8, <2>9, <2>10, <2>11, <2>12,
     <2>13, <2>14, <2>15
  DEF Next, Proceed
<1>w. QED
  BY <1>u, <1>v

(* The row of an owner is fresh enough, and no two own one, until a process *)
(* shuts down for the second time.                                          *)
THEOREM LeaseInvariant == Spec => []LeaseInv
  BY LeaseInitInv, LeaseNextInv, PTL DEF Spec

(* Until then an account serves one instance at a time. *)
THEOREM AccountsNotShared == Spec => []OneInstancePerAccount
<1>1. LeaseInv => OneInstancePerAccount
  BY DEF LeaseInv, OneInstancePerAccount, Owns
<1>2. QED
  BY <1>1, LeaseInitInv, LeaseNextInv, PTL DEF Spec

(* And an instance that serves clients still has its lease. *)
THEOREM LeaseHeld == Spec => []LeaseNeverLapses
<1>1. LeaseInv => LeaseNeverLapses
  BY OwnerNotReservable DEF LeaseNeverLapses, Owns
<1>2. QED
  BY <1>1, LeaseInitInv, LeaseNextInv, PTL DEF Spec
=============================================================================
