----------------------------- MODULE WalletBridge -----------------------------
(***************************************************************************)
(* How the popups of the extension talk to the wallet, and how they boot.  *)
(*                                                                         *)
(* A popup is an iframe in a reddit page; there may be one in each such    *)
(* tab, and all share the store of the background page.  A call for the    *)
(* wallet goes to the content script of the tab that is active a moment    *)
(* later, from there to the bridge in that page, which asks the wallet.    *)
(* The answer goes to every popup.  It carries no identity: whoever waits  *)
(* for an answer of its type takes it, and stops listening.                *)
(***************************************************************************)
EXTENDS Naturals, FiniteSets

CONSTANTS
    Tab,
    Page,         \* the tabs on reddit.com: they have a content script
    Call,         \* bound: calls that are waited for or under way
    Community,    \* of each tab, the subreddit of the config it is on
    NoCommunity,
    Providers     \* bound: what the wallet may inject into the pages

ASSUME BridgeAssumption ==
    /\ Page \subseteq Tab
    /\ \A t \in Tab \ Page : Community[t] = NoCommunity
    /\ Call \subseteq Nat
    /\ Providers \subseteq {"none", "web3", "ethereum"}

VARIABLES
    active,       \* the active tab
    phase,        \* of each page, how far its popup is: what Main does or shows
    subReddit,    \* store.session.subReddit
    call,
    provider,     \* what the wallet injects into the pages
    undisturbed   \* history: popups that were alone since they were opened,
                  \* in a tab that stayed active until they had its subreddit

worldVars == <<active, provider>>
vars == <<worldVars, phase, subReddit, call, undisturbed>>

BootType == {"EXISTS", "ENABLE", "NETWORK"}
Type == BootType \cup {"ACCOUNT", "SIGN"}
Loading == {"config", "subReddit"} \cup BootType
View == {"HOME", "INVALID_COMMUNITY", "NO_PROVIDER", "WRONG_NETWORK", "ERROR"}
Answer == {"ok", "no", "error"}

(***************************************************************************)
(* A call has a caller, until it has its answer or its popup is closed:    *)
(* what it waits for (the answer, or then the balance of the account it    *)
(* got) and, for a poll of the session, the subreddit it has read first.   *)
(* And it has a message, which is on one leg of its way or gone.           *)
(***************************************************************************)
Nobody == [stage |-> "gone"]
Callers == [stage : {"waiting", "balance"}, popup : Page, kept : {Community[t] : t \in Tab} \cup {NoCommunity}]

Legs ==
    [leg : {"query", "lost", "done"}]
       \cup [leg : {"page", "wallet"}, at : Page] \cup [leg : {"reply"}, answer : Answer]

NoCall == [type |-> "EXISTS", caller |-> Nobody, message |-> [leg |-> "done"]]

(* A call without a caller and a message is forgotten. *)
Tidy(m) == IF m.caller = Nobody /\ m.message.leg \in {"done", "lost"} THEN NoCall ELSE m

Leg(c) == call[c].message.leg
CalledBy(c, p) == call[c].caller # Nobody /\ call[c].caller.popup = p
Waits(c) == call[c].caller.stage = "waiting"
Free == {c \in Call : call[c] = NoCall}
Sent(p) == \E c \in Call : Waits(c) /\ CalledBy(c, p) /\ call[c].type = phase[p]

(* Bound: every popup that boots finds a free call. *)
Spare == Cardinality(Free) > Cardinality({p \in Page : phase[p] \in Loading /\ ~Sent(p)})

Init ==
    /\ active \in Tab
    /\ phase = [p \in Page |-> "closed"]
    /\ subReddit = NoCommunity
    /\ call = [c \in Call |-> NoCall]
    /\ provider \in Providers
    /\ undisturbed = {}

---------------------------------------------------------------------------
(* The message of a call *)

(* messageService.send *)
Send(p, type, kept) ==
    \E c \in Free :
       /\ \A d \in Free : c <= d
       /\ call' = [call EXCEPT ![c] =
          [type |-> type, caller |-> [stage |-> "waiting", popup |-> p, kept |-> kept],
           message |-> [leg |-> "query"]]]

Move(c, message) ==
    /\ call' = [call EXCEPT ![c] = Tidy([@ EXCEPT !.message = message])]
    /\ UNCHANGED <<worldVars, phase, subReddit, undisturbed>>

(* chrome.tabs.query calls back: the message goes to the tab active now. *)
Query(c) ==
    /\ Leg(c) = "query"
    /\ Move(c, IF active \in Page THEN [leg |-> "page", at |-> active] ELSE [leg |-> "lost"])

Reply(c, answer) == Move(c, [leg |-> "reply", answer |-> answer])

(***************************************************************************)
(* The content script hands the message on to the bridge.  EXISTS is       *)
(* answered at once, and ENABLE where the wallet knows no such thing;      *)
(* without a wallet the others run into a TypeError.                       *)
(***************************************************************************)
Bridge(c) ==
    /\ Leg(c) = "page"
    /\ IF call[c].type = "EXISTS" THEN Reply(c, IF provider = "none" THEN "no" ELSE "ok")
       ELSE IF call[c].type = "ENABLE" /\ provider # "ethereum" THEN Reply(c, "ok")
       ELSE IF provider = "none" THEN Reply(c, "error")
       ELSE Move(c, [leg |-> "wallet", at |-> call[c].message.at])

(* A bug: what the wallet throws is not answered. *)
ThrowsInBridge(c) ==
    /\ Leg(c) = "wallet"
    /\ \/ Move(c, [leg |-> "done"])
       \/ Reply(c, "ok")
       \/ call[c].type = "NETWORK" /\ Reply(c, "no")

(* The wallet answers, in any order, or fails, or the user refuses; it may *)
(* be on another network than config.network.                              *)
WalletAnswers(c) ==
    /\ Leg(c) = "wallet"
    /\ \/ Reply(c, "error")
       \/ Reply(c, "ok")
       \/ call[c].type = "NETWORK" /\ Reply(c, "no")

---------------------------------------------------------------------------
(* The answer *)

(* A bug: no error handler, so that the popup stays as it is. *)
WithoutErrorHandler(phase0, next, fails) == IF fails THEN phase0 ELSE next

WithErrorHandler(phase0, next, fails) == IF fails THEN "ERROR" ELSE next

(* What Main does with an answer: the next call, or a view. *)
Boot(type, answer) ==
    LET next == CASE type = "EXISTS"  -> IF answer = "no" THEN "NO_PROVIDER" ELSE "ENABLE"
                  [] type = "ENABLE"  -> "NETWORK"
                  [] type = "NETWORK" -> IF answer = "no" THEN "WRONG_NETWORK" ELSE "HOME"
    IN  WithErrorHandler(type, next, answer = "error")

Settled(c) == {d \in Call : Waits(d) /\ call[d].type = call[c].type}

(* A bug: the listener is removed before its call is rejected. *)
NeverRejected(m, answer) ==
    IF answer = "error" THEN m.caller
    ELSE IF m.caller.kept # NoCommunity
    THEN [m.caller EXCEPT !.stage = "balance"]
    ELSE Nobody

(* getSession goes on with the balance of the account. *)
After(m, answer) ==
    IF m.caller.kept # NoCommunity /\ answer = "ok"
    THEN [m.caller EXCEPT !.stage = "balance"]
    ELSE Nobody

(***************************************************************************)
(* The content script sends the answer to all popups.  All calls of its    *)
(* type are resolved or rejected with it, and their listeners removed;     *)
(* when their own answers arrive nobody listens any more, or somebody new. *)
(***************************************************************************)
Deliver(c) ==
    /\ Leg(c) = "reply"
    /\ LET answer == call[c].message.answer
       IN  /\ call' = [d \in Call |->
                  Tidy([call[d] EXCEPT !.caller = IF d \in Settled(c) THEN After(call[d], answer) ELSE @,
                                       !.message = IF d = c THEN [leg |-> "done"] ELSE @])]
           /\ phase' = [p \in Page |->
                  IF call[c].type = phase[p] /\ Sent(p) THEN Boot(phase[p], answer) ELSE phase[p]]
    /\ UNCHANGED <<worldVars, subReddit, undisturbed>>

---------------------------------------------------------------------------
(* Main, and what Home asks for *)

SetPhase(p, value) ==
    /\ phase' = [phase EXCEPT ![p] = value]
    /\ UNCHANGED <<worldVars, undisturbed>>

(* The config of the subreddits comes, or it does not. *)
FetchConfig(p) ==
    /\ phase[p] = "config"
    /\ \E fails \in BOOLEAN : SetPhase(p, WithErrorHandler("config", "subReddit", fails))
    /\ UNCHANGED <<subReddit, call>>

(* It looks at the active tab, which need not be that of the popup. *)
GetCurrentSubReddit == Community[active]

CheckCurrentPage(p) ==
    /\ phase[p] = "subReddit"
    /\ IF GetCurrentSubReddit = NoCommunity
       THEN SetPhase(p, "INVALID_COMMUNITY") /\ UNCHANGED subReddit
       ELSE SetPhase(p, "EXISTS") /\ subReddit' = GetCurrentSubReddit
    /\ UNCHANGED call

AskWallet(p) ==
    /\ phase[p] \in BootType
    /\ ~Sent(p)
    /\ Send(p, phase[p], NoCommunity)
    /\ UNCHANGED <<worldVars, phase, subReddit, undisturbed>>

(* Home polls while the active tab is on a subreddit of the config. *)
OnValidSubreddit == Community[active] # NoCommunity

PollSession(p) ==
    /\ phase[p] = "HOME"
    /\ OnValidSubreddit
    /\ Spare
    /\ Send(p, "ACCOUNT", subReddit)
    /\ UNCHANGED <<worldVars, phase, subReddit, undisturbed>>

(* A form asks for the account or a signature. *)
FormAsks(p) ==
    /\ phase[p] = "HOME"
    /\ Spare
    /\ \E type \in {"ACCOUNT", "SIGN"} : Send(p, type, NoCommunity)
    /\ UNCHANGED <<worldVars, phase, subReddit, undisturbed>>

(* SESSION/GET/SUCCESS writes back the subreddit that was read first. *)
GotSession(c) ==
    /\ call[c].caller.stage = "balance"
    /\ subReddit' = call[c].caller.kept
    /\ call' = [call EXCEPT ![c] = Tidy([@ EXCEPT !.caller = Nobody])]
    /\ UNCHANGED <<worldVars, phase, undisturbed>>

---------------------------------------------------------------------------
(* The user *)

(* A click on the page action or in the context menu is for the active tab. *)
Clicked(p) == active = p

(* injectApp does nothing when there is a popup already. *)
InjectApp(p) ==
    /\ Clicked(p)
    /\ phase[p] = "closed"
    /\ Spare
    /\ phase' = [phase EXCEPT ![p] = "config"]
    /\ undisturbed' = IF \A q \in Page : phase[q] = "closed" THEN {p} ELSE {}
    /\ UNCHANGED <<worldVars, subReddit, call>>

(* A bug: the popup is hidden and its polls go on. *)
Hide(p) ==
    /\ phase[p] # "closed"
    /\ phase' = [phase EXCEPT ![p] = "closed"]
    /\ UNCHANGED <<worldVars, subReddit, call, undisturbed>>

(* The close button removes the iframe, and with it all listeners.         *)
Close(p) ==
    /\ phase[p] # "closed"
    /\ phase' = [phase EXCEPT ![p] = "closed"]
    /\ call' = [c \in Call |->
          IF CalledBy(c, p) THEN Tidy([call[c] EXCEPT !.caller = Nobody]) ELSE call[c]]
    /\ UNCHANGED <<worldVars, subReddit, undisturbed>>

(* The page is loaded again: the messages in it are lost as well. *)
Reload(p) ==
    /\ phase' = [phase EXCEPT ![p] = "closed"]
    /\ call' = [c \in Call |->
          Tidy([call[c] EXCEPT
             !.caller = IF CalledBy(c, p) THEN Nobody ELSE @,
             !.message = IF @.leg \in {"page", "wallet"} /\ @.at = p THEN [leg |-> "lost"] ELSE @])]
    /\ UNCHANGED <<worldVars, subReddit, undisturbed>>

ActivateTab(t) ==
    /\ active' = t
    /\ undisturbed' = {p \in undisturbed : phase[p] \notin {"config", "subReddit"}}
    /\ UNCHANGED <<provider, phase, subReddit, call>>

Next ==
    \/ \E c \in Call : Query(c) \/ Bridge(c) \/ WalletAnswers(c) \/ Deliver(c) \/ GotSession(c)
    \/ \E p \in Page :
          \/ FetchConfig(p) \/ CheckCurrentPage(p) \/ AskWallet(p)
          \/ PollSession(p) \/ FormAsks(p)
          \/ InjectApp(p) \/ Close(p) \/ Reload(p)
    \/ \E t \in Tab : ActivateTab(t)

(* Callbacks run and messages arrive; the wallet answers what it can       *)
(* answer without the user, who may leave a prompt open forever.           *)
AsksUser(c) == Leg(c) = "wallet" /\ call[c].type \in {"ENABLE", "SIGN"}

Fairness ==
    /\ \A c \in Call :
          /\ WF_vars(Query(c)) /\ WF_vars(Bridge(c)) /\ WF_vars(Deliver(c))
          /\ WF_vars(~AsksUser(c) /\ WalletAnswers(c))
          /\ WF_vars(GotSession(c))
    /\ \A p \in Page : WF_vars(FetchConfig(p)) /\ WF_vars(CheckCurrentPage(p)) /\ WF_vars(AskWallet(p))

Spec == Init /\ [][Next]_vars /\ Fairness

---------------------------------------------------------------------------
BridgeTypeOK ==
    /\ active \in Tab
    /\ phase \in [Page -> {"closed"} \cup Loading \cup View]
    /\ subReddit \in {Community[t] : t \in Tab} \cup {NoCommunity}
    /\ call \in [Call -> [type : Type, caller : Callers \cup {Nobody}, message : Legs]]
    /\ undisturbed \subseteq Page

(***************************************************************************)
(* Nobody waits for nothing: as long as a popup listens for an answer its  *)
(* own message is under way or was lost (sent to a tab without a content   *)
(* script, or the page was loaded again).  The bridge answers every        *)
(* message, failures included, and the answer of another call, which the   *)
(* listener takes for its own, leaves no listener behind.                  *)
(***************************************************************************)
NoCallForgotten == \A c \in Call : Waits(c) => Leg(c) # "done"

(***************************************************************************)
(* The inductive invariant.  Only popups past the check of their page have *)
(* calls; an undisturbed one is alone, in the active tab until it has the  *)
(* subreddit, and all that may still be written is this subreddit.         *)
(***************************************************************************)
NothingAsked == {"closed", "config", "subReddit"}

CallersAreOpen ==
    \A c \in Call, p \in Page : CalledBy(c, p) => phase[p] \notin NothingAsked

PollsKnowTheirs ==
    \A c \in Call : call[c].caller.stage = "balance" => call[c].caller.kept # NoCommunity

Alone(p) == phase[p] # "closed" => \A q \in Page \ {p} : phase[q] = "closed"

InItsTab(p) == phase[p] \in {"config", "subReddit"} => active = p

HasItsSubReddit(p) ==
    phase[p] \in BootType \cup {"HOME"} =>
       /\ subReddit = Community[p]
       /\ \A c \in Call : CalledBy(c, p) => call[c].caller.kept \in {NoCommunity, Community[p]}

BridgeInv ==
    /\ BridgeTypeOK
    /\ NoCallForgotten
    /\ CallersAreOpen
    /\ PollsKnowTheirs
    /\ \A p \in undisturbed : Alone(p) /\ InItsTab(p) /\ HasItsSubReddit(p)

(***************************************************************************)
(* The store has one subreddit for all popups, and polls write back what   *)
(* they read before they waited.  A popup that was alone since it was      *)
(* opened, in a tab that stayed active until it had found its subreddit,   *)
(* shows the points of this subreddit, whatever older popups had asked.    *)
(***************************************************************************)
HomeShowsItsSubReddit ==
    \A p \in undisturbed : phase[p] = "HOME" => subReddit = Community[p]

(***************************************************************************)
(* A popup does not stay at LOADING, unless the user ignores the wallet's  *)
(* prompt or a message went to a tab that could not receive it.            *)
(***************************************************************************)
Lost(c) == Waits(c) /\ Leg(c) = "lost"

BootEnds ==
    \A p \in Page :
       []<>(phase[p] \in Loading =>
               \E c \in Call : AsksUser(c) \/ (Lost(c) /\ CalledBy(c, p)))

(* Every call is answered under the same conditions. *)
CallAnswered ==
    \A c \in Call : []<>(call[c].caller # Nobody => Lost(c) \/ AsksUser(c))
=============================================================================
