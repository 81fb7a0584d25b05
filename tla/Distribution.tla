----------------------------- MODULE Distribution -----------------------------
(***************************************************************************)
(* The contracts that mint the community points (contracts/contracts) and  *)
(* the script that deploys them (contracts/migrations/5_...).  A           *)
(* Distribution owns the SubredditPoint token; round by round it mints     *)
(* points to the owner of the subreddit, from a base supply that decays    *)
(* and from half of the points burned.                                     *)
(*                                                                         *)
(* The script is a sequence of transactions.  It may stop between any two  *)
(* of them, and `truffle migrate` then runs it again from its beginning,   *)
(* with a new Distribution and the same token.  Contract calls are atomic: *)
(* one that reverts changes nothing.                                       *)
(*                                                                         *)
(* The karma of a round is left out: it is recorded and never used.  So    *)
(* are transfers of ownership that the deployer makes by hand; the script  *)
(* makes the only ones the repository knows.                               *)
(***************************************************************************)
EXTENDS Integers, Sequences

CONSTANTS
    Dist,                  \* the Distribution contracts ever deployed
    Deployer,
    SubredditOwner,
    Stranger,
    Nobody,                \* the zero address
    DecayPercent,          \* SUPPLY_DECAY_PERCENTAGE
    InitialDistribution,
    BurnedPoints,          \* bound: what the owner may pass as burned points
    Minted,                \* bound: what a caller may try to mint
    MaxRound,              \* bound: rounds of a Distribution
    MaxUint                \* 2^256 - 1

PERCENT_PRECISION == 100

Account == {Deployer, SubredditOwner, Stranger}

(***************************************************************************)
(* SafeMath reverts on overflow and when a subtraction falls below zero.   *)
(* The assumption on the constants of the script is what keeps it from     *)
(* reverting in every round.                                               *)
(***************************************************************************)
ASSUME DistributionAssumption ==
    /\ Account \cap Dist = {}
    /\ Nobody \notin Account \cup Dist
    /\ Deployer # SubredditOwner
    /\ DecayPercent \in 0..PERCENT_PRECISION
    /\ InitialDistribution \in Nat
    /\ BurnedPoints \subseteq Nat
    /\ Minted \subseteq Nat
    /\ MaxRound \in Nat
    /\ MaxUint \in Nat
    /\ InitialDistribution * DecayPercent <= MaxUint

VARIABLES
    pointOwner,   \* owner of the SubredditPoint token: who may mint
    totalSupply,  \* of the token
    distOwner,    \* owner of each Distribution
    rounds,       \* distributionRounds; currentRound is its length
    script        \* where the migration is, and its Distribution

distVars == <<pointOwner, totalSupply, distOwner, rounds, script>>

Data == [baseSupply : Nat, availablePoints : Nat]

Stage == {"start", "deployed", "transferred", "started", "completed"}

DistTypeOK ==
    /\ pointOwner \in {Deployer} \cup Dist
    /\ totalSupply \in 0..MaxUint
    /\ distOwner \in [Dist -> {Nobody, Deployer}]
    /\ rounds \in [Dist -> Seq(Data)]
    /\ script \in [stage : Stage, dist : Dist]

(* The token is deployed (migration 4); no Distribution is. *)
DistInit ==
    /\ pointOwner = Deployer
    /\ totalSupply = 0
    /\ distOwner = [d \in Dist |-> Nobody]
    /\ rounds = [d \in Dist |-> <<>>]
    /\ script \in [stage : {"start"}, dist : Dist]

---------------------------------------------------------------------------
(* The contracts.  An operator holds when the call does not revert.        *)

(* A bug: a Distribution mints without the token being its own. *)
MintByAny(caller, amount) ==
    /\ caller # SubredditOwner
    /\ totalSupply + amount <= MaxUint
    /\ totalSupply' = totalSupply + amount

(* OwnerMintableERC20.mint, called by caller. *)
Mint(caller, amount) ==
    /\ caller = pointOwner
    /\ totalSupply + amount <= MaxUint
    /\ totalSupply' = totalSupply + amount

(* A bug: the burned points are not minted. *)
DistributeBase(d, baseSupply, availablePoints) ==
    /\ Mint(d, baseSupply)
    /\ rounds' = [rounds EXCEPT ![d] = Append(@,
          [baseSupply |-> baseSupply, availablePoints |-> availablePoints])]

(* distribute. *)
Distribute(d, baseSupply, availablePoints) ==
    /\ Mint(d, availablePoints)
    /\ rounds' = [rounds EXCEPT ![d] = Append(@,
          [baseSupply |-> baseSupply, availablePoints |-> availablePoints])]

InitRound(d, caller) ==
    /\ caller = distOwner[d]
    /\ rounds[d] = <<>>
    /\ Distribute(d, InitialDistribution, InitialDistribution)

(* The base supply of the round after one with base supply base. *)
NextBase(base) == base - (base * DecayPercent) \div PERCENT_PRECISION

(* A bug: the burned points stay in the base supply. *)
AdvanceWithBurned(d, caller, burned) ==
    /\ caller = SubredditOwner
    /\ rounds[d] # <<>>
    /\ LET base == rounds[d][Len(rounds[d])].availablePoints
       IN  Distribute(d, NextBase(base), NextBase(base) + burned \div 2)

AdvanceToNextRound(d, caller, burned) ==
    /\ caller = SubredditOwner
    /\ rounds[d] # <<>>
    /\ LET base == rounds[d][Len(rounds[d])].baseSupply
       IN  /\ base * DecayPercent <= MaxUint
           /\ NextBase(base) >= 0
           /\ NextBase(base) + burned \div 2 <= MaxUint
           /\ Distribute(d, NextBase(base), NextBase(base) + burned \div 2)

---------------------------------------------------------------------------
(* The migration script *)

Go(stage) == script' = [script EXCEPT !.stage = stage]

(* It deploys a Distribution, which the deployer owns. *)
Deploy ==
    /\ script.stage = "start"
    /\ \E d \in Dist :
          /\ d # pointOwner /\ distOwner[d] = Nobody /\ rounds[d] = <<>>
          /\ distOwner' = [distOwner EXCEPT ![d] = Deployer]
          /\ script' = [stage |-> "deployed", dist |-> d]
    /\ UNCHANGED <<pointOwner, totalSupply, rounds>>

(* It hands the token to the Distribution, if the deployer still has it. *)
TransferOwnership ==
    /\ script.stage = "deployed"
    /\ pointOwner = Deployer
    /\ pointOwner' = script.dist
    /\ Go("transferred")
    /\ UNCHANGED <<totalSupply, distOwner, rounds>>

StartRounds ==
    /\ script.stage = "transferred"
    /\ InitRound(script.dist, Deployer)
    /\ Go("started")
    /\ UNCHANGED <<pointOwner, distOwner>>

RenounceOwnership ==
    /\ script.stage = "started"
    /\ distOwner' = [distOwner EXCEPT ![script.dist] = Nobody]
    /\ Go("completed")
    /\ UNCHANGED <<pointOwner, totalSupply, rounds>>

(* A transaction reverts or the script is interrupted: it is run again. *)
Interrupt ==
    /\ script.stage # "completed"
    /\ Go("start")
    /\ UNCHANGED <<pointOwner, totalSupply, distOwner, rounds>>

(* Between two runs of the script, and after it, the deployer may call the *)
(* contracts by hand, as anybody else.                                     *)
MayCall(caller) == caller = Deployer => script.stage \in {"start", "completed"}

CallDistribution(d, caller) ==
    /\ MayCall(caller)
    /\ Len(rounds[d]) < MaxRound
    /\ \/ InitRound(d, caller)
       \/ \E burned \in BurnedPoints : AdvanceToNextRound(d, caller, burned)
    /\ UNCHANGED <<pointOwner, distOwner, script>>

CallMint(caller) ==
    /\ MayCall(caller)
    /\ \E amount \in Minted : Mint(caller, amount)
    /\ UNCHANGED <<pointOwner, distOwner, rounds, script>>

DistNext ==
    \/ Deploy \/ TransferOwnership \/ StartRounds \/ RenounceOwnership \/ Interrupt
    \/ \E caller \in Account :
          \/ CallMint(caller)
          \/ \E d \in Dist : CallDistribution(d, caller)

DistSpec == DistInit /\ [][DistNext]_distVars

---------------------------------------------------------------------------
LastBase(d) == rounds[d][Len(rounds[d])].baseSupply

(***************************************************************************)
(* However often the script is interrupted and run again, rounds run in    *)
(* one Distribution only, the one that owns the token: two would each mint *)
(* a supply of their own.                                                  *)
(***************************************************************************)
OneDistributionRuns ==
    \A d, e \in Dist : rounds[d] # <<>> /\ rounds[e] # <<>> => d = e

(***************************************************************************)
(* Distribution.sol says it "would mint the subreddit token accordingly":  *)
(* once it owns the token, the supply grows only in a step that records a  *)
(* round, and by exactly the points recorded as available; no call of the  *)
(* owner, the deployer or a stranger mints anything else.                  *)
(***************************************************************************)
Recorded(d) ==
    /\ Len(rounds'[d]) = Len(rounds[d]) + 1
    /\ totalSupply' = totalSupply + rounds'[d][Len(rounds'[d])].availablePoints

MintsWhatItRecords ==
    [][/\ totalSupply' # totalSupply /\ pointOwner \in Dist => Recorded(pointOwner)
       /\ \A d \in Dist : rounds'[d] # rounds[d] => d = pointOwner /\ Recorded(d)]_distVars

(***************************************************************************)
(* The multiplication of advanceToNextRound never overflows, whatever was  *)
(* burned in the rounds before: a round that reverted there would revert   *)
(* forever, as it does not depend on the arguments.                        *)
(***************************************************************************)
NextRoundComputable ==
    \A d \in Dist : rounds[d] # <<>> => LastBase(d) * DecayPercent <= MaxUint

(* Rounds have run only where the token is, and a base supply has only     *)
(* shrunk.                                                                 *)
DistInv ==
    /\ DistTypeOK
    /\ \A d \in Dist :
          /\ rounds[d] # <<>> => pointOwner = d
          /\ \A n \in DOMAIN rounds[d] : rounds[d][n].baseSupply <= InitialDistribution
=============================================================================
