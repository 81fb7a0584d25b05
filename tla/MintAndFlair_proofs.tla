-------------------------- MODULE MintAndFlair_proofs --------------------------
(***************************************************************************)
(* Proofs about the two ends of a point's life: the contracts that mint    *)
(* it (Distribution) and the job that shows what it was burned for         *)
(* (Flair).  The two share nothing; each part stands alone.                *)
(***************************************************************************)
EXTENDS Distribution, Flair, TLAPS

---------------------------------------------------------------------------
(***************************************************************************)
(* Distribution: rounds run only in the Distribution that owns the token,  *)
(* and a base supply only shrinks, both by induction on the steps, for any *)
(* number of Distributions, rounds and points.                             *)
(***************************************************************************)

(* The decay of a round (advanceToNextRound): a percentage of the base     *)
(* supply, rounded down, leaves a base supply that is not larger.          *)
LEMMA DecayShrinks ==
    ASSUME NEW base \in Nat
    PROVE  /\ NextBase(base) \in Nat
           /\ NextBase(base) <= base
<1>1. DecayPercent \in Nat /\ DecayPercent <= 100
  BY DistributionAssumption DEF PERCENT_PRECISION
<1> DEFINE p == base * DecayPercent
           q == p \div 100
<1>2. p \in Nat /\ p <= 100 * base
  BY <1>1
<1>3. q \in Nat /\ 100 * q <= p
  <2> HIDE DEF p
  <2> QED  BY <1>2
<1>4. q <= base
  <2> HIDE DEF p, q
  <2> QED  BY <1>2, <1>3
<1>5. NextBase(base) = base - q
  BY DEF NextBase, PERCENT_PRECISION
<1> HIDE DEF q
<1> QED  BY <1>3, <1>4, <1>5

(* distribute appends one record, whatever the round. *)
LEMMA DistributeKeeps ==
    ASSUME DistInv, NEW d \in Dist, pointOwner' = pointOwner,
           NEW base \in Nat, base <= InitialDistribution,
           NEW available \in Nat,
           Distribute(d, base, available)
    PROVE  /\ totalSupply' \in 0..MaxUint
           /\ rounds' \in [Dist -> Seq(Data)]
           /\ \A e \in Dist :
                 /\ rounds'[e] # <<>> => pointOwner' = e
                 /\ \A n \in DOMAIN rounds'[e] : rounds'[e][n].baseSupply <= InitialDistribution
           /\ d = pointOwner
           /\ Recorded(d)
           /\ \A e \in Dist : e # d => rounds'[e] = rounds[e]
<1> DEFINE new == [baseSupply |-> base, availablePoints |-> available]
<1>1. /\ d = pointOwner
      /\ totalSupply + available <= MaxUint
      /\ totalSupply' = totalSupply + available
      /\ rounds' = [rounds EXCEPT ![d] = Append(rounds[d], new)]
  BY DEF Distribute, Mint
<1>2. /\ rounds \in [Dist -> Seq(Data)]
      /\ rounds[d] \in Seq(Data)
      /\ totalSupply \in 0..MaxUint
      /\ MaxUint \in Nat
  BY DistributionAssumption DEF DistInv, DistTypeOK
<1>3. new \in Data
  BY DEF Data
<1>4. /\ rounds'[d] = Append(rounds[d], new)
      /\ \A e \in Dist : e # d => rounds'[e] = rounds[e]
      /\ rounds' \in [Dist -> Seq(Data)]
  <2> HIDE DEF new
  <2>1. Append(rounds[d], new) \in Seq(Data)
    BY <1>2, <1>3
  <2> QED  BY <1>1, <1>2, <2>1
<1>5. /\ Len(rounds'[d]) = Len(rounds[d]) + 1
      /\ rounds'[d][Len(rounds'[d])] = new
      /\ \A n \in DOMAIN rounds'[d] : rounds'[d][n] = new \/ (n \in DOMAIN rounds[d] /\ rounds'[d][n] = rounds[d][n])
  <2> HIDE DEF new
  <2> QED  BY <1>2, <1>3, <1>4
<1>6. totalSupply' \in 0..MaxUint
  BY <1>1, <1>2
<1>7. ASSUME NEW e \in Dist
      PROVE  /\ rounds'[e] # <<>> => pointOwner' = e
             /\ \A n \in DOMAIN rounds'[e] : rounds'[e][n].baseSupply <= InitialDistribution
  <2>1. CASE e = d
    BY <2>1, <1>1, <1>5 DEF DistInv
  <2>2. CASE e # d
    BY <2>2, <1>4 DEF DistInv
  <2> QED  BY <2>1, <2>2
<1>8. Recorded(d)
  BY <1>1, <1>5 DEF Recorded
<1> QED  BY <1>1, <1>4, <1>6, <1>7, <1>8

(* The base supply of the last round is not larger than the initial one. *)
LEMMA LastBaseBound ==
    ASSUME DistInv, NEW d \in Dist, rounds[d] # <<>>
    PROVE  LastBase(d) \in Nat /\ LastBase(d) <= InitialDistribution
<1> DEFINE n == Len(rounds[d])
<1>1. rounds[d] \in Seq(Data)
  BY DEF DistInv, DistTypeOK
<1>2. n \in DOMAIN rounds[d]
  BY <1>1
<1>3. rounds[d][n] \in Data
  BY <1>1, <1>2
<1>4. rounds[d][n].baseSupply <= InitialDistribution
  BY <1>2 DEF DistInv
<1>5. rounds[d][n].baseSupply \in Nat
  BY <1>3 DEF Data
<1> QED  BY <1>4, <1>5 DEF LastBase

(* A round is a call of distribute with a base supply that is not larger   *)
(* than the initial one: of initRound ...                                  *)
LEMMA InitRoundDistributes ==
    ASSUME NEW d \in Dist, NEW caller, InitRound(d, caller)
    PROVE  \E base, available \in Nat :
              base <= InitialDistribution /\ Distribute(d, base, available)
BY DistributionAssumption DEF InitRound

(* ... and of advanceToNextRound. *)
LEMMA AdvanceDistributes ==
    ASSUME DistInv, NEW d \in Dist, NEW caller, NEW burnedPoints \in BurnedPoints,
           AdvanceToNextRound(d, caller, burnedPoints)
    PROVE  \E base, available \in Nat :
              base <= InitialDistribution /\ Distribute(d, base, available)
<1> DEFINE last == LastBase(d)
<1>1. last \in Nat /\ last <= InitialDistribution
  BY LastBaseBound DEF AdvanceToNextRound
<1>2. NextBase(last) \in Nat /\ NextBase(last) <= InitialDistribution
  <2>1. NextBase(last) \in Nat /\ NextBase(last) <= last
    BY <1>1, DecayShrinks
  <2> HIDE DEF last
  <2> QED  BY <1>1, <2>1, DistributionAssumption
<1>3. burnedPoints \in Nat /\ burnedPoints \div 2 \in Nat
  BY DistributionAssumption
<1>4. NextBase(last) + burnedPoints \div 2 \in Nat
  BY <1>2, <1>3
<1>5. Distribute(d, NextBase(last), NextBase(last) + burnedPoints \div 2)
  BY DEF AdvanceToNextRound, LastBase
<1> QED  BY <1>2, <1>4, <1>5

(* What one call of a Distribution does. *)
LEMMA CallDistributes ==
    ASSUME DistInv, NEW d \in Dist, NEW caller \in Account, CallDistribution(d, caller)
    PROVE  /\ \E base, available \in Nat :
                 base <= InitialDistribution /\ Distribute(d, base, available)
           /\ UNCHANGED <<pointOwner, distOwner, script>>
BY InitRoundDistributes, AdvanceDistributes DEF CallDistribution

LEMMA InitInv == DistInit => DistInv
<1> SUFFICES ASSUME DistInit PROVE DistInv
  OBVIOUS
<1>1. DistTypeOK
  BY DistributionAssumption DEF DistInit, DistTypeOK, Stage
<1>2. \A d \in Dist : rounds[d] = <<>>
  BY DEF DistInit
<1> QED  BY <1>1, <1>2 DEF DistInv

LEMMA NextInv == DistInv /\ [DistNext]_distVars => DistInv'
<1> SUFFICES ASSUME DistInv, [DistNext]_distVars PROVE DistInv'
  OBVIOUS
<1> USE DEF DistInv
<1>1. CASE Deploy
  BY <1>1 DEF Deploy, DistTypeOK, Stage
<1>2. CASE TransferOwnership
  <2>1. /\ pointOwner = Deployer /\ pointOwner' \in Dist
        /\ UNCHANGED <<totalSupply, distOwner, rounds>>
        /\ script' \in [stage : Stage, dist : Dist]
    BY <1>2 DEF TransferOwnership, Go, DistTypeOK, Stage
  <2>2. \A d \in Dist : rounds[d] = <<>>
    BY <2>1, DistributionAssumption DEF Account
  <2> QED  BY <2>1, <2>2 DEF DistTypeOK
<1>3. CASE StartRounds
  <2>1. script.dist \in Dist
    BY DEF DistTypeOK
  <2>2. /\ UNCHANGED <<pointOwner, distOwner>>
        /\ script' \in [stage : Stage, dist : Dist]
        /\ InitRound(script.dist, Deployer)
    BY <1>3 DEF StartRounds, Go, DistTypeOK, Stage
  <2>3. PICK base \in Nat, available \in Nat :
           base <= InitialDistribution /\ Distribute(script.dist, base, available)
    BY <2>1, <2>2, InitRoundDistributes
  <2> QED  BY <2>1, <2>2, <2>3, DistributeKeeps DEF DistTypeOK
<1>4. CASE RenounceOwnership
  BY <1>4 DEF RenounceOwnership, Go, DistTypeOK, Stage
<1>5. CASE Interrupt
  BY <1>5 DEF Interrupt, Go, DistTypeOK, Stage
<1>6. ASSUME NEW caller \in Account, CallMint(caller) PROVE DistInv'
  <2>1. PICK amount \in Minted : Mint(caller, amount)
    BY <1>6 DEF CallMint
  <2>2. totalSupply' \in 0..MaxUint
    BY <2>1, DistributionAssumption DEF Mint, DistTypeOK
  <2> QED  BY <1>6, <2>2 DEF CallMint, DistTypeOK
<1>7. ASSUME NEW caller \in Account, NEW d \in Dist, CallDistribution(d, caller)
      PROVE  DistInv'
  <2>1. UNCHANGED <<pointOwner, distOwner, script>>
    BY <1>7 DEF CallDistribution
  <2>2. PICK base \in Nat, available \in Nat :
           base <= InitialDistribution /\ Distribute(d, base, available)
    BY <1>7, CallDistributes
  <2> QED  BY <2>1, <2>2, DistributeKeeps DEF DistTypeOK
<1>8. CASE UNCHANGED distVars
  BY <1>8 DEF distVars, DistTypeOK
<1> QED  BY <1>1, <1>2, <1>3, <1>4, <1>5, <1>6, <1>7, <1>8 DEF DistNext

(***************************************************************************)
(* A round is recorded only where the token is, and with a base supply     *)
(* that is not larger than the initial one.                                *)
(***************************************************************************)
THEOREM DistInvHolds == DistSpec => []DistInv
BY InitInv, NextInv, PTL DEF DistSpec

(***************************************************************************)
(* However the migration is interrupted and repeated, rounds run in at     *)
(* most one Distribution, the owner of the token.                          *)
(***************************************************************************)
THEOREM OnlyOneDistributionRuns == DistSpec => []OneDistributionRuns
<1>1. DistInv => OneDistributionRuns
  BY DEF DistInv, OneDistributionRuns
<1> QED  BY <1>1, DistInvHolds, PTL

(***************************************************************************)
(* The product in advanceToNextRound does not overflow in any round, if it *)
(* does not in the first: no Distribution is stuck for good.               *)
(***************************************************************************)
THEOREM NeverStuck == DistSpec => []NextRoundComputable
<1>1. ASSUME DistInv PROVE NextRoundComputable
  <2> SUFFICES ASSUME NEW d \in Dist, rounds[d] # <<>>
               PROVE  LastBase(d) * DecayPercent <= MaxUint
    BY DEF NextRoundComputable
  <2>1. LastBase(d) \in Nat /\ LastBase(d) <= InitialDistribution
    BY <1>1, LastBaseBound
  <2>2. /\ DecayPercent \in Nat /\ InitialDistribution \in Nat /\ MaxUint \in Nat
        /\ InitialDistribution * DecayPercent <= MaxUint
    BY DistributionAssumption DEF PERCENT_PRECISION
  <2>3. LastBase(d) * DecayPercent <= InitialDistribution * DecayPercent
    BY <2>1, <2>2
  <2> QED  BY <2>1, <2>2, <2>3
<1> QED  BY <1>1, DistInvHolds, PTL

(***************************************************************************)
(* Once a Distribution owns the token, points are minted only by recording *)
(* a round, and as many as the round has available.                        *)
(***************************************************************************)
THEOREM SupplyIsRecorded == DistSpec => MintsWhatItRecords
<1> DEFINE Step ==
       /\ totalSupply' # totalSupply /\ pointOwner \in Dist => Recorded(pointOwner)
       /\ \A d \in Dist : rounds'[d] # rounds[d] => d = pointOwner /\ Recorded(d)
<1>1. ASSUME DistInv, [DistNext]_distVars PROVE Step \/ UNCHANGED distVars
  <2>1. CASE Deploy \/ TransferOwnership \/ RenounceOwnership \/ Interrupt
    BY <2>1 DEF Deploy, TransferOwnership, RenounceOwnership, Interrupt
  <2>2. CASE StartRounds
    <3>1. script.dist \in Dist /\ UNCHANGED pointOwner /\ InitRound(script.dist, Deployer)
      BY <1>1, <2>2 DEF StartRounds, DistInv, DistTypeOK
    <3>2. PICK base \in Nat, available \in Nat :
             base <= InitialDistribution /\ Distribute(script.dist, base, available)
      BY <3>1, InitRoundDistributes
    <3> QED  BY <1>1, <3>1, <3>2, DistributeKeeps
  <2>3. ASSUME NEW caller \in Account, CallMint(caller) PROVE Step
    BY <2>3, DistributionAssumption DEF CallMint, Mint
  <2>4. ASSUME NEW caller \in Account, NEW d \in Dist, CallDistribution(d, caller)
        PROVE  Step
    <3>1. UNCHANGED pointOwner
      BY <2>4 DEF CallDistribution
    <3>2. PICK base \in Nat, available \in Nat :
             base <= InitialDistribution /\ Distribute(d, base, available)
      BY <1>1, <2>4, CallDistributes
    <3> QED  BY <1>1, <3>1, <3>2, DistributeKeeps
  <2> QED  BY <1>1, <2>1, <2>2, <2>3, <2>4 DEF DistNext
<1>2. DistInv /\ [DistNext]_distVars => [Step]_distVars
  BY <1>1
<1> QED  BY <1>2, DistInvHolds, PTL DEF DistSpec, MintsWhatItRecords

---------------------------------------------------------------------------
(***************************************************************************)
(* Flair, for any users, addresses, flairs and burn transactions, any      *)
(* number of overlapping runs and of posts.  What a run has read may be    *)
(* old, but purchases and posted addresses are never taken back: what was  *)
(* earned once stays earned.                                               *)
(***************************************************************************)

(* Level f and all below it were bought by addresses of u. *)
Earned(u, f) == \A l \in 1..f.lvl : [f EXCEPT !.lvl = l] \in EverBought(u)

AllEarned(u, flairs) == flairs \subseteq Flairs /\ \A f \in flairs : Earned(u, f)

(* What a run knows while it waits for one of its calls. *)
RunOK(x) ==
    \/ x = Idle
    \/ x.stage = "burned" /\ x.txs \subseteq burned
    \/ /\ x.stage = "built" /\ DOMAIN x.updates \subseteq User
       /\ \A u \in DOMAIN x.updates : AllEarned(u, x.updates[u])

FlairInv ==
    /\ burned \subseteq Burns
    /\ posts \in [User -> Seq(Address)]
    /\ shown \in [User -> SUBSET Flairs]
    /\ ShownIsEarned
    /\ run = [j \in Run |-> run[j]]
    /\ \A j \in Run : RunOK(run[j])

---------------------------------------------------------------------------
(* Nothing that was bought or posted is taken back. *)
Grows ==
    /\ burned \subseteq burned'
    /\ \A u \in User : /\ DOMAIN posts[u] \subseteq DOMAIN posts'[u]
                       /\ \A i \in DOMAIN posts[u] : posts'[u][i] = posts[u][i]

LEMMA Purchases ==
    ASSUME NEW address, NEW txs, NEW more, txs \subseteq more
    PROVE  PurchasedBy(address, txs) \subseteq PurchasedBy(address, more)
  BY DEF PurchasedBy

LEMMA EarnedStays ==
    ASSUME Grows
    PROVE  \A u \in User : \A flairs : AllEarned(u, flairs) => AllEarned(u, flairs)'
<1>1. ASSUME NEW u \in User, NEW f, f \in EverBought(u) PROVE f \in EverBought(u)'
  <2>1. PICK i \in DOMAIN posts[u] : f \in PurchasedBy(posts[u][i], burned)
    BY <1>1 DEF EverBought
  <2>2. i \in DOMAIN posts'[u] /\ posts'[u][i] = posts[u][i] /\ burned \subseteq burned'
    BY DEF Grows
  <2>3. f \in PurchasedBy(posts'[u][i], burned')
    BY <2>1, <2>2, Purchases
  <2>4. QED
    BY <2>2, <2>3 DEF EverBought
<1>2. QED
  BY <1>1 DEF AllEarned, Earned

LEMMA StepGrows ==
    ASSUME FlairInv, [FlairNext]_flairVars
    PROVE  Grows /\ burned' \subseteq Burns /\ posts' \in [User -> Seq(Address)]
<1>1. ASSUME NEW tx \in Burns, Buy(tx)
      PROVE  Grows /\ burned' \subseteq Burns /\ posts' \in [User -> Seq(Address)]
  BY <1>1 DEF FlairInv, Buy, Grows
<1>2. ASSUME NEW u \in User, NEW address \in Address, PostAddress(u, address)
      PROVE  Grows /\ burned' \subseteq Burns /\ posts' \in [User -> Seq(Address)]
  <2>1. /\ posts[u] \in Seq(Address) /\ posts'[u] = Append(posts[u], address)
        /\ \A v \in User : v # u => posts'[v] = posts[v]
        /\ posts' \in [User -> Seq(Address)] /\ burned' = burned
    BY <1>2 DEF FlairInv, PostAddress
  <2>2. /\ DOMAIN posts[u] \subseteq DOMAIN posts'[u]
        /\ \A i \in DOMAIN posts[u] : posts'[u][i] = posts[u][i]
    BY <2>1
  <2>3. QED
    BY <2>1, <2>2 DEF FlairInv, Grows
<1>3. ASSUME UNCHANGED <<burned, posts>>
      PROVE  Grows /\ burned' \subseteq Burns /\ posts' \in [User -> Seq(Address)]
  BY <1>3 DEF FlairInv, Grows
<1>4. QED
  BY <1>1, <1>2, <1>3 DEF FlairNext, GetAllBurned, GetUserMap, SetFlairs, Fail, flairVars

(***************************************************************************)
(* The flairs a run is going to set are earned, by addresses the user has  *)
(* now or had before: either they were bought with the newest one, or they *)
(* are shown, and what is shown was earned.                                *)
(***************************************************************************)
LEMMA BuildEarned ==
    ASSUME FlairInv, NEW txs \in SUBSET burned, NEW u \in User, posts[u] # <<>>
    PROVE  AllEarned(u, TopLevel(PurchasedBy(NewestAddress(u), txs) \cup shown[u]))
<1> DEFINE bought == PurchasedBy(NewestAddress(u), txs)
<1>1. bought \subseteq EverBought(u)
  <2>1. posts[u] \in Seq(Address) /\ Len(posts[u]) \in DOMAIN posts[u]
    BY DEF FlairInv
  <2>2. bought \subseteq PurchasedBy(posts[u][Len(posts[u])], burned)
    BY Purchases DEF NewestAddress
  <2>3. QED
    BY <2>1, <2>2 DEF EverBought
<1>2. shown[u] \subseteq Flairs /\ bought \subseteq Flairs
  BY DEF FlairInv, PurchasedBy
<1>3. ASSUME NEW g \in shown[u] PROVE g \in EverBought(u)
  <2>1. g \in [name : STRING, lvl : Nat \ {0}]
    BY <1>2, FlairAssumption
  <2>2. g.lvl \in 1..g.lvl /\ [g EXCEPT !.lvl = g.lvl] = g
    BY <2>1
  <2>3. [g EXCEPT !.lvl = g.lvl] \in EverBought(u)
    BY <2>2 DEF FlairInv, ShownIsEarned
  <2>4. QED
    BY <2>2, <2>3
<1> HIDE DEF bought
<1>4. QED
  BY <1>1, <1>2, <1>3 DEF TopLevel, AllEarned, Earned, bought

---------------------------------------------------------------------------
(* The invariant *)

(* What a run has read stays good. *)
LEMMA RunStays ==
    ASSUME Grows
    PROVE  \A x : RunOK(x) => RunOK(x)'
<1>1. ASSUME NEW x, RunOK(x) PROVE RunOK(x)'
  <2>1. CASE x = Idle
    BY <2>1 DEF RunOK
  <2>2. CASE x.stage = "burned" /\ x.txs \subseteq burned
    BY <2>2 DEF RunOK, Grows
  <2>3. CASE /\ x.stage = "built" /\ DOMAIN x.updates \subseteq User
             /\ \A u \in DOMAIN x.updates : AllEarned(u, x.updates[u])
    <3>1. \A u \in DOMAIN x.updates : AllEarned(u, x.updates[u])'
      BY <2>3, EarnedStays DEF AllEarned
    <3>2. QED
      BY <2>3, <3>1 DEF RunOK
  <2>4. QED
    BY <1>1, <2>1, <2>2, <2>3 DEF RunOK
<1>2. QED
  BY <1>1

LEMMA RunsStay ==
    ASSUME FlairInv, Grows, run' = run
    PROVE  run' = [j \in Run |-> run'[j]] /\ (\A j \in Run : RunOK(run[j]))'
<1>1. \A j \in Run : \A x : x = run'[j] => RunOK(x)'
  BY RunStays DEF FlairInv
<1>2. QED
  BY <1>1 DEF FlairInv, RunOK

LEMMA RunChange ==
    ASSUME FlairInv, Grows, NEW j \in Run, NEW x, RunOK(x)', run' = [run EXCEPT ![j] = x]
    PROVE  run' = [i \in Run |-> run'[i]] /\ (\A i \in Run : RunOK(run[i]))'
<1>1. \A i \in Run : \A y : y = run'[i] => RunOK(y)'
  BY RunStays DEF FlairInv
<1>2. QED
  BY <1>1 DEF FlairInv, RunOK

(* GetUserMap builds from a run's purchases updates that were earned. *)
LEMMA UpdatesEarned ==
    ASSUME FlairInv, NEW txs \in SUBSET burned
    PROVE  /\ DOMAIN BuildMultipleUserFlairs(txs) \subseteq User
           /\ \A u \in DOMAIN BuildMultipleUserFlairs(txs) :
                 AllEarned(u, BuildMultipleUserFlairs(txs)[u])
  BY BuildEarned DEF BuildMultipleUserFlairs

LEMMA RunsStep ==
    ASSUME FlairInv, Grows, [FlairNext]_flairVars
    PROVE  run' = [j \in Run |-> run'[j]] /\ (\A j \in Run : RunOK(run[j]))'
<1>1. \A j \in Run : RunOK(run[j])
  BY DEF FlairInv
<1>2. RunOK(Idle)'
  BY DEF RunOK
<1>3. ASSUME NEW j \in Run, GetAllBurned(j)
      PROVE  run' = [i \in Run |-> run'[i]] /\ (\A i \in Run : RunOK(run[i]))'
  <2>1. PICK x : x = [stage |-> "burned", txs |-> burned] /\ run' = [run EXCEPT ![j] = x]
    BY <1>3 DEF GetAllBurned
  <2>2. RunOK(x)
    BY <2>1 DEF RunOK
  <2>3. QED
    BY <2>1, <2>2, RunStays, RunChange
<1>4. ASSUME NEW j \in Run, GetUserMap(j)
      PROVE  run' = [i \in Run |-> run'[i]] /\ (\A i \in Run : RunOK(run[i]))'
  <2>1. run[j].txs \in SUBSET burned
    BY <1>1, <1>4 DEF GetUserMap, RunOK, Idle
  <2> DEFINE updates == BuildMultipleUserFlairs(run[j].txs)
  <2>2. /\ DOMAIN updates \subseteq User
        /\ \A u \in DOMAIN updates : AllEarned(u, updates[u])
    BY <2>1, UpdatesEarned
  <2>3. run' = [run EXCEPT ![j] = IF DOMAIN updates = {} THEN Idle
                                  ELSE [stage |-> "built", updates |-> updates]]
    BY <1>4 DEF GetUserMap
  <2> HIDE DEF updates
  <2>4. PICK x : RunOK(x) /\ run' = [run EXCEPT ![j] = x]
    <3>1. RunOK([stage |-> "built", updates |-> updates]) /\ RunOK(Idle)
      BY <2>2 DEF RunOK
    <3>2. QED
      BY <2>3, <3>1
  <2>5. QED
    BY <2>4, RunStays, RunChange
<1>5. ASSUME NEW j \in Run, SetFlairs(j) \/ Fail(j)
      PROVE  run' = [i \in Run |-> run'[i]] /\ (\A i \in Run : RunOK(run[i]))'
  BY <1>2, <1>5, RunChange DEF SetFlairs, Fail
<1>6. ASSUME NEW tx \in Burns, Buy(tx) PROVE run' = run
  BY <1>6 DEF Buy
<1>7. ASSUME NEW u \in User, NEW address \in Address, PostAddress(u, address) PROVE run' = run
  BY <1>7 DEF PostAddress
<1>8. QED
  BY <1>3, <1>4, <1>5, <1>6, <1>7, RunsStay DEF FlairNext, flairVars

(* Shown are the flairs there were, or those that a run has built. *)
LEMMA ShownStep ==
    ASSUME FlairInv, Grows, [FlairNext]_flairVars
    PROVE  shown' \in [User -> SUBSET Flairs] /\ ShownIsEarned'
<1>1. /\ shown \in [User -> SUBSET Flairs]
      /\ \A u \in User : AllEarned(u, shown[u])
  BY DEF FlairInv, ShownIsEarned, AllEarned, Earned
<1>2. \/ shown' = shown
      \/ \E j \in Run : SetFlairs(j)
  BY DEF FlairNext, Buy, PostAddress, GetAllBurned, GetUserMap, Fail, flairVars
<1>3. shown' \in [User -> SUBSET Flairs] /\ \A u \in User : AllEarned(u, shown'[u])
  <2>1. CASE shown' = shown
    BY <1>1, <2>1
  <2>2. ASSUME NEW j \in Run, SetFlairs(j)
        PROVE  shown' \in [User -> SUBSET Flairs] /\ \A u \in User : AllEarned(u, shown'[u])
    <3>1. \A u \in DOMAIN run[j].updates : AllEarned(u, run[j].updates[u])
      BY <2>2 DEF FlairInv, RunOK, SetFlairs, Idle
    <3>2. shown' = [u \in User |->
              IF u \in DOMAIN run[j].updates THEN run[j].updates[u] ELSE shown[u]]
      BY <2>2 DEF SetFlairs
    <3>3. QED
      BY <1>1, <3>1, <3>2 DEF AllEarned
  <2>3. QED
    BY <1>2, <2>1, <2>2
<1>4. \A u \in User : \A flairs : flairs = shown'[u] => AllEarned(u, flairs)'
  BY <1>3, EarnedStays
<1>5. ShownIsEarned'
  BY <1>4 DEF ShownIsEarned, AllEarned, Earned
<1>6. QED
  BY <1>3, <1>5

(***************************************************************************)
(* However runs overlap, each knows only purchases that were made, and     *)
(* what it is going to set was earned by the users it sets it for.         *)
(***************************************************************************)
THEOREM FlairInvariant == FlairSpec => []FlairInv
<1>1. FlairInit => FlairInv
  BY DEF FlairInit, FlairInv, ShownIsEarned, RunOK
<1>2. FlairInv /\ [FlairNext]_flairVars => FlairInv'
  BY StepGrows, RunsStep, ShownStep DEF FlairInv
<1>3. QED
  BY <1>1, <1>2, PTL DEF FlairSpec

(***************************************************************************)
(* The job's variables keep their types: only flairs on sale are shown.    *)
(***************************************************************************)
THEOREM FlairTypesOK == FlairSpec => []FlairTypeOK
<1>1. FlairInv => FlairTypeOK
  BY DEF FlairInv, FlairTypeOK, RunOK, Idle
<1>2. QED
  BY <1>1, FlairInvariant, PTL

(***************************************************************************)
(* No level of a flair is shown that was not paid for, together with all   *)
(* levels below it, by addresses of the user (shouldUpdateFlair and        *)
(* filterLevel, flair/src/flair.js).                                       *)
(***************************************************************************)
THEOREM OnlyEarnedIsShown == FlairSpec => []ShownIsEarned
<1>1. FlairInv => ShownIsEarned
  BY DEF FlairInv
<1>2. QED
  BY <1>1, FlairInvariant, PTL
=============================================================================
