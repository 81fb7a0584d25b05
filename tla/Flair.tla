--------------------------------- MODULE Flair ---------------------------------
(***************************************************************************)
(* The job that turns purchases into flairs (flair/src).  Every quarter of *)
(* an hour a run reads all burn transactions from the watcher, then the    *)
(* thread in which users post their addresses, together with the flairs    *)
(* they have, and sets the flairs of the users who lack one they bought.   *)
(* The scheduler does not wait for a run to end: runs overlap.  A run that *)
(* fails in any of its calls is forgotten, and the next one starts afresh. *)
(*                                                                         *)
(* A flair ":rock-2:" is the level 2 of "rock", and ":rock:" its level 1.  *)
(***************************************************************************)
EXTENDS Naturals, Sequences

CONSTANTS
    User,
    Address,
    Flairs,    \* the flairs on sale, as [name, lvl]
    Burns,     \* bound: the burn transactions there may be
    Run,       \* bound: runs at a time
    MaxPosts   \* bound: addresses a user posts

(* Who burned points, for which flair, and whether it was the exact price. *)
Burn == [owner : Address, flair : Flairs, exact : BOOLEAN]

ASSUME FlairAssumption ==
    /\ Burns \subseteq Burn
    /\ Flairs \subseteq [name : STRING, lvl : Nat \ {0}]
    /\ MaxPosts \in Nat

VARIABLES
    burned,   \* burn transactions, as the watcher reports them
    posts,    \* the addresses each user has posted, oldest first
    shown,    \* the flairs Reddit shows for each user
    run       \* the runs of the job

flairVars == <<burned, posts, shown, run>>

Idle == [stage |-> "idle"]

FlairTypeOK ==
    /\ burned \subseteq Burns
    /\ posts \in [User -> Seq(Address)]
    /\ shown \in [User -> SUBSET Flairs]
    /\ \A j \in Run : run[j].stage \in {"idle", "burned", "built"}

FlairInit ==
    /\ burned = {}
    /\ posts = [u \in User |-> <<>>]
    /\ shown = [u \in User |-> {}]
    /\ run = [j \in Run |-> Idle]

---------------------------------------------------------------------------
(* util.validPurchase *)
ValidPurchase(tx, flair) == tx.flair = flair /\ tx.exact

(* flairGetter, for all flairs: those that an address has bought. *)
PurchasedBy(address, txs) ==
    {f \in Flairs : \E tx \in txs : tx.owner = address /\ ValidPurchase(tx, f)}

(* A bug: the highest level, bought in order or not. *)
HighestLevel(flairs) ==
    {f \in flairs : \A g \in flairs : g.name = f.name => g.lvl <= f.lvl}

(* A bug: the level after the one that was reached. *)
NextLevel(flairs) ==
    {[f EXCEPT !.lvl = f.lvl + 1] :
       f \in {g \in flairs : \A l \in 1..g.lvl : [g EXCEPT !.lvl = l] \in flairs}}

(***************************************************************************)
(* filterLevel, and the first part of shouldUpdateFlair: of each name the  *)
(* level reached from level 1 without a gap.                               *)
(***************************************************************************)
TopLevel(flairs) ==
    {f \in flairs :
       /\ \A l \in 1..f.lvl : [f EXCEPT !.lvl = l] \in flairs
       /\ [f EXCEPT !.lvl = f.lvl + 1] \notin flairs}

(* A bug: one flair that is shown stands for all that were bought. *)
ShouldUpdateIfNoneShown(purchased, current) ==
    TopLevel(purchased) # {} /\ TopLevel(purchased) \cap current = {}

ShouldUpdateFlair(purchased, current) == TopLevel(purchased) \ current # {}

(* The address in the newest comment of a user. *)
NewestAddress(u) == posts[u][Len(posts[u])]

(***************************************************************************)
(* buildMultipleUserFlairs: the new flairs of the users to be updated.     *)
(* The users are those who have posted an address.                         *)
(***************************************************************************)
BuildMultipleUserFlairs(txs) ==
    LET Bought(u) == PurchasedBy(NewestAddress(u), txs)
        users == {u \in User : posts[u] # <<>> /\ ShouldUpdateFlair(Bought(u), shown[u])}
    IN  [u \in users |-> TopLevel(Bought(u) \cup shown[u])]

---------------------------------------------------------------------------
(* Users *)

Buy(tx) ==
    /\ tx \notin burned
    /\ burned' = burned \cup {tx}
    /\ UNCHANGED <<posts, shown, run>>

PostAddress(u, address) ==
    /\ Len(posts[u]) < MaxPosts
    /\ posts' = [posts EXCEPT ![u] = Append(@, address)]
    /\ UNCHANGED <<burned, shown, run>>

---------------------------------------------------------------------------
(* A run of the job *)

(* getAllBurned: the pages are read until one is empty. *)
GetAllBurned(j) ==
    /\ run[j].stage = "idle"
    /\ run' = [run EXCEPT ![j] = [stage |-> "burned", txs |-> burned]]
    /\ UNCHANGED <<burned, posts, shown>>

(* getUserMap, and what follows at once: the updates are built. *)
GetUserMap(j) ==
    /\ run[j].stage = "burned"
    /\ LET updates == BuildMultipleUserFlairs(run[j].txs)
       IN  run' = [run EXCEPT ![j] =
              IF DOMAIN updates = {}
              THEN Idle
              ELSE [stage |-> "built", updates |-> updates]]
    /\ UNCHANGED <<burned, posts, shown>>

(* setFlairs: Reddit replaces the flairs of the users in the list. *)
SetFlairs(j) ==
    /\ run[j].stage = "built"
    /\ shown' = [u \in User |->
          IF u \in DOMAIN run[j].updates THEN run[j].updates[u] ELSE shown[u]]
    /\ run' = [run EXCEPT ![j] = Idle]
    /\ UNCHANGED <<burned, posts>>

(* One of the calls fails. *)
Fail(j) ==
    /\ run[j].stage # "idle"
    /\ run' = [run EXCEPT ![j] = Idle]
    /\ UNCHANGED <<burned, posts, shown>>

FlairNext ==
    \/ \E tx \in Burns : Buy(tx)
    \/ \E u \in User, address \in Address : PostAddress(u, address)
    \/ \E j \in Run : GetAllBurned(j) \/ GetUserMap(j) \/ SetFlairs(j) \/ Fail(j)

(* The scheduler starts a run again and again, and its calls do not fail   *)
(* forever.                                                                *)
Fairness ==
    \A j \in Run :
       /\ WF_flairVars(GetAllBurned(j))
       /\ SF_flairVars(GetUserMap(j))
       /\ SF_flairVars(SetFlairs(j))

FlairSpec == FlairInit /\ [][FlairNext]_flairVars /\ Fairness

---------------------------------------------------------------------------
(* The addresses a user has posted so far, and what was bought with them. *)
EverBought(u) ==
    UNION {PurchasedBy(posts[u][i], burned) : i \in DOMAIN posts[u]}

(***************************************************************************)
(* A test says a user is not allowed "to skip a flair level".  So a level  *)
(* is shown only when it and all below it were paid for in full by         *)
(* addresses of that user, however runs overlap and addresses change.      *)
(***************************************************************************)
ShownIsEarned ==
    \A u \in User : \A f \in shown[u] :
       \A l \in 1..f.lvl : [f EXCEPT !.lvl = l] \in EverBought(u)

(***************************************************************************)
(* Once no more is bought or posted, what a user's newest address has      *)
(* bought is shown and stays so, at its level or a higher one: no run that *)
(* read older data sets it back for good.                                  *)
(***************************************************************************)
IsShown(u) ==
    posts[u] # <<>> =>
       \A f \in TopLevel(PurchasedBy(NewestAddress(u), burned)) :
          \E g \in shown[u] : g.name = f.name /\ g.lvl >= f.lvl

PurchasesShown == <>[](\A u \in User : IsShown(u))

(***************************************************************************)
(* The comment in buildMultipleUserFlairs says "keep existing flairs": an  *)
(* update takes no flair away but for a higher level of the same.  The     *)
(* code does not: an existing flair above level 1 is kept only together    *)
(* with the purchases of the levels below.                                 *)
(***************************************************************************)
KeepsExistingFlairs ==
    [][\A u \in User : \A f \in shown[u] :
          \E g \in shown'[u] : g.name = f.name /\ g.lvl >= f.lvl]_flairVars
=============================================================================
