------------------------- MODULE WalletBridge_proofs -------------------------
(***************************************************************************)
(* For any tabs, pages, subreddits and number of calls: no popup listens   *)
(* for an answer that cannot come any more, and a popup that nothing has   *)
(* disturbed shows the points of its own subreddit.                        *)
(***************************************************************************)
EXTENDS WalletBridge, TLAPS

Kept == {Community[t] : t \in Tab} \cup {NoCommunity}

CallRecord == [type : Type, caller : Callers \cup {Nobody}, message : Legs]

---------------------------------------------------------------------------
(* Calls *)

LEMMA NoCallIsCall == NoCall \in CallRecord /\ NoCall.caller = Nobody
<1>1. "EXISTS" \in Type /\ [leg |-> "done"] \in Legs
  BY DEF Type, BootType, Legs
<1>2. QED
  BY <1>1 DEF NoCall, CallRecord

(* Forgetting a call changes nothing for those who wait. *)
LEMMA TidyCall ==
    ASSUME NEW m \in CallRecord
    PROVE  /\ Tidy(m) \in CallRecord
           /\ Tidy(m).caller = m.caller
           /\ m.caller # Nobody => Tidy(m) = m
  BY NoCallIsCall DEF Tidy

LEMMA CallerStages ==
    ASSUME NEW k \in Callers \cup {Nobody}
    PROVE  /\ k.stage \in {"waiting", "balance", "gone"}
           /\ k = Nobody <=> k.stage = "gone"
           /\ k # Nobody => k \in Callers /\ k.popup \in Page /\ k.kept \in Kept
  BY DEF Callers, Nobody, Kept

LEMMA AfterCaller ==
    ASSUME NEW m \in CallRecord, NEW answer, m.caller # Nobody
    PROVE  /\ After(m, answer) \in Callers \cup {Nobody}
           /\ After(m, answer) # Nobody =>
                 /\ After(m, answer).popup = m.caller.popup
                 /\ After(m, answer).kept = m.caller.kept
                 /\ After(m, answer).stage = "balance"
                 /\ m.caller.kept # NoCommunity
  BY DEF After, CallRecord, Callers, Nobody

---------------------------------------------------------------------------
(* A step changes each call in one of a few ways. *)

(* What the invariant says of one call, given the phases of the popups. *)
CallInv(m, ph) ==
    /\ m \in CallRecord
    /\ m.caller.stage = "waiting" => m.message.leg # "done"
    /\ m.caller # Nobody => ph[m.caller.popup] \notin NothingAsked
    /\ m.caller.stage = "balance" => m.caller.kept # NoCommunity

LEMMA InvOfCalls ==
    BridgeInv => \A c \in Call : CallInv(call[c], phase)
  BY CallerStages DEF BridgeInv, BridgeTypeOK, CallInv, CallRecord, NoCallForgotten, Waits, Leg,
     CallersAreOpen, CalledBy, PollsKnowTheirs

LEMMA Assemble ==
    ASSUME BridgeInv,
           active' \in Tab, phase' \in [Page -> {"closed"} \cup Loading \cup View],
           subReddit' \in Kept, undisturbed' \subseteq Page,
           call' \in [Call -> CallRecord],
           \A c \in Call : CallInv(call'[c], phase'),
           \A p \in undisturbed' : Alone(p)' /\ InItsTab(p)' /\ HasItsSubReddit(p)'
    PROVE  BridgeInv'
<1>1. BridgeTypeOK'
  BY DEF BridgeTypeOK, Kept, CallRecord
<1>2. NoCallForgotten' /\ PollsKnowTheirs'
  BY CallerStages DEF NoCallForgotten, PollsKnowTheirs, Waits, Leg, CallInv
<1>3. CallersAreOpen'
  BY DEF CallersAreOpen, CalledBy, CallInv
<1>4. QED
  BY <1>1, <1>2, <1>3 DEF BridgeInv

(* The popups stay as they are, and nobody new asks. *)
LEMMA NobodyNew ==
    ASSUME BridgeInv,
           active' = active, phase' = phase, subReddit' = subReddit, undisturbed' = undisturbed,
           call' \in [Call -> CallRecord],
           \A c \in Call : CallInv(call'[c], phase),
           \A c \in Call : call'[c].caller # Nobody =>
              /\ call[c].caller # Nobody
              /\ call'[c].caller.popup = call[c].caller.popup
              /\ call'[c].caller.kept = call[c].caller.kept
    PROVE  BridgeInv'
<1>1. ASSUME NEW p \in undisturbed'
      PROVE  Alone(p)' /\ InItsTab(p)' /\ HasItsSubReddit(p)'
  <2>1. Alone(p) /\ InItsTab(p) /\ HasItsSubReddit(p)
    BY <1>1 DEF BridgeInv
  <2>2. Alone(p)' /\ InItsTab(p)'
    BY <2>1 DEF Alone, InItsTab
  <2>3. \A c \in Call : CalledBy(c, p)' => CalledBy(c, p) /\ call'[c].caller.kept = call[c].caller.kept
    BY DEF CalledBy
  <2>4. HasItsSubReddit(p)'
    BY <2>1, <2>3 DEF HasItsSubReddit
  <2>5. QED
    BY <2>2, <2>4
<1>2. QED
  BY <1>1, Assemble DEF BridgeInv, BridgeTypeOK, Kept

---------------------------------------------------------------------------
(* Messages *)

LEMMA MoveStep ==
    ASSUME BridgeInv, NEW c \in Call, NEW message \in Legs, message.leg # "done", Move(c, message)
    PROVE  BridgeInv'
<1> DEFINE m == [call[c] EXCEPT !.message = message]
<1>1. call \in [Call -> CallRecord] /\ CallInv(call[c], phase)
  BY InvOfCalls DEF BridgeInv, BridgeTypeOK, CallRecord
<1>2. m \in CallRecord /\ m.caller = call[c].caller /\ m.message = message
  BY <1>1 DEF CallRecord
<1>3. call' = [call EXCEPT ![c] = Tidy(m)] /\ UNCHANGED <<active, phase, subReddit, undisturbed>>
  BY DEF Move, worldVars
<1>4. CallInv(m, phase)
  BY <1>1, <1>2 DEF CallInv
<1> HIDE DEF m
<1>5. Tidy(m) \in CallRecord /\ Tidy(m).caller = call[c].caller
  BY <1>2, TidyCall
<1>6. CallInv(Tidy(m), phase)
  BY <1>4, <1>2, TidyCall, CallerStages, NoCallIsCall DEF CallInv, CallRecord, Nobody
<1>7. call' \in [Call -> CallRecord]
  BY <1>1, <1>3, <1>5
<1>8. \A d \in Call : call'[d].caller = call[d].caller /\ CallInv(call'[d], phase)
  BY <1>1, <1>3, <1>5, <1>6, InvOfCalls
<1>9. QED
  BY <1>3, <1>7, <1>8, NobodyNew

LEMMA MessageSteps ==
    ASSUME BridgeInv, NEW c \in Call, Query(c) \/ Bridge(c) \/ WalletAnswers(c)
    PROVE  BridgeInv'
<1>1. \A answer \in Answer : [leg |-> "reply", answer |-> answer] \in Legs
  BY DEF Legs
<1>2. \A answer \in Answer : Reply(c, answer) => BridgeInv'
  BY <1>1, MoveStep DEF Reply
<1>3. ASSUME Query(c) PROVE BridgeInv'
  <2>1. [leg |-> "lost"] \in Legs /\ (active \in Page => [leg |-> "page", at |-> active] \in Legs)
    BY DEF Legs
  <2>2. QED
    BY <1>3, <2>1, MoveStep DEF Query
<1>4. ASSUME Bridge(c) PROVE BridgeInv'
  <2>1. call[c].message \in Legs /\ call[c].message.leg = "page"
    BY <1>4 DEF Bridge, Leg, BridgeInv, BridgeTypeOK
  <2>2. [leg |-> "wallet", at |-> call[c].message.at] \in Legs
    BY <2>1 DEF Legs
  <2>3. QED
    BY <1>2, <1>4, <2>2, MoveStep DEF Bridge, Answer
<1>5. ASSUME WalletAnswers(c) PROVE BridgeInv'
  BY <1>2, <1>5 DEF WalletAnswers, Answer
<1>6. QED
  BY <1>3, <1>4, <1>5

LEMMA GotSessionStep ==
    ASSUME BridgeInv, NEW c \in Call, GotSession(c)
    PROVE  BridgeInv'
<1> DEFINE m == [call[c] EXCEPT !.caller = Nobody]
<1>1. call \in [Call -> CallRecord] /\ CallInv(call[c], phase)
  BY InvOfCalls DEF BridgeInv, BridgeTypeOK, CallRecord
<1>2. m \in CallRecord /\ m.caller = Nobody
  BY <1>1 DEF CallRecord
<1>3. /\ call[c].caller.stage = "balance" /\ subReddit' = call[c].caller.kept
      /\ call' = [call EXCEPT ![c] = Tidy(m)] /\ UNCHANGED <<active, phase, undisturbed>>
  BY <1>1 DEF GotSession, worldVars
<1> HIDE DEF m
<1>4. Tidy(m) \in CallRecord /\ Tidy(m).caller = Nobody
  BY <1>2, TidyCall
<1>5. CallInv(Tidy(m), phase)
  BY <1>4 DEF CallInv, Nobody
<1>6. call' \in [Call -> CallRecord] /\ \A d \in Call : CallInv(call'[d], phase')
  BY <1>1, <1>3, <1>4, <1>5, InvOfCalls
<1>7. call[c].caller \in Callers /\ call[c].caller # Nobody /\ call[c].caller.popup \in Page
      /\ call[c].caller.kept \in Kept /\ call[c].caller.kept # NoCommunity
  BY <1>1, <1>3, CallerStages DEF CallInv, CallRecord, Nobody
<1>8. ASSUME NEW p \in undisturbed'
      PROVE  Alone(p)' /\ InItsTab(p)' /\ HasItsSubReddit(p)'
  <2>1. p \in Page /\ Alone(p) /\ InItsTab(p) /\ HasItsSubReddit(p)
    BY <1>3, <1>8 DEF BridgeInv, BridgeTypeOK
  <2>2. Alone(p)' /\ InItsTab(p)'
    BY <1>3, <2>1 DEF Alone, InItsTab
  <2>3. \A d \in Call : CalledBy(d, p)' => CalledBy(d, p) /\ call'[d].caller = call[d].caller
    BY <1>1, <1>3, <1>4 DEF CalledBy
  <2>4. ASSUME phase[p] \in BootType \cup {"HOME"}
        PROVE  subReddit' = Community[p]
    <3>1. phase[p] # "closed" /\ phase[call[c].caller.popup] # "closed"
      BY <1>1, <1>7, <2>4 DEF CallInv, NothingAsked, BootType
    <3>2. call[c].caller.popup = p
      BY <1>7, <2>1, <3>1 DEF Alone
    <3>3. call[c].caller.kept \in {NoCommunity, Community[p]}
      BY <1>7, <2>1, <2>4, <3>2 DEF HasItsSubReddit, CalledBy
    <3>4. QED
      BY <1>3, <1>7, <3>3
  <2>5. HasItsSubReddit(p)'
    BY <1>3, <2>1, <2>3, <2>4 DEF HasItsSubReddit
  <2>6. QED
    BY <2>2, <2>5
<1>9. QED
  BY <1>3, <1>6, <1>7, <1>8, Assemble DEF BridgeInv, BridgeTypeOK

---------------------------------------------------------------------------
(* The answer *)

LEMMA BootPhase ==
    ASSUME NEW type \in BootType, NEW answer
    PROVE  Boot(type, answer) \in (BootType \cup View) \ NothingAsked
  BY DEF Boot, WithErrorHandler, BootType, View, NothingAsked

LEMMA DeliverPhases ==
    ASSUME BridgeInv, NEW c \in Call, Deliver(c), NEW p \in Page
    PROVE  \/ phase'[p] = phase[p]
           \/ phase[p] \in BootType /\ phase'[p] \in (BootType \cup View) \ NothingAsked
<1>1. phase[p] \in {"closed"} \cup Loading \cup View /\ call[c].type \in Type
  BY DEF BridgeInv, BridgeTypeOK
<1>2. phase'[p] = IF call[c].type = phase[p] /\ Sent(p) THEN Boot(phase[p], call[c].message.answer) ELSE phase[p]
  BY DEF Deliver
<1>3. call[c].type = phase[p] => phase[p] \in BootType
  BY <1>1 DEF Type, BootType, Loading, View
<1>4. QED
  BY <1>2, <1>3, BootPhase

LEMMA DeliverStep ==
    ASSUME BridgeInv, NEW c \in Call, Deliver(c)
    PROVE  BridgeInv'
<1> DEFINE answer == call[c].message.answer
           m(d) == [call[d] EXCEPT !.caller = IF d \in Settled(c) THEN After(call[d], answer) ELSE @,
                                   !.message = IF d = c THEN [leg |-> "done"] ELSE @]
<1>1. call' = [d \in Call |-> Tidy(m(d))] /\ UNCHANGED <<active, subReddit, undisturbed>>
  BY DEF Deliver, worldVars
<1>2. phase \in [Page -> {"closed"} \cup Loading \cup View]
  BY DEF BridgeInv, BridgeTypeOK
<1>3. phase' \in [Page -> {"closed"} \cup Loading \cup View]
  <2>1. DOMAIN phase' = Page /\ phase' = [p \in Page |-> phase'[p]]
    BY DEF Deliver
  <2>2. \A p \in Page : phase'[p] \in {"closed"} \cup Loading \cup View
    BY <1>2, DeliverPhases DEF Loading
  <2>3. QED
    BY <2>1, <2>2
<1>4. ASSUME NEW d \in Call
      PROVE  /\ m(d) \in CallRecord
             /\ m(d).caller = IF d \in Settled(c) THEN After(call[d], answer) ELSE call[d].caller
             /\ m(d).message = IF d = c THEN [leg |-> "done"] ELSE call[d].message
             /\ d \in Settled(c) <=> (Waits(d) /\ call[d].type = call[c].type)
             /\ d \in Settled(c) => call[d].caller # Nobody
             /\ CallInv(call[d], phase)
  <2>1. call[d] \in CallRecord /\ CallInv(call[d], phase)
    BY InvOfCalls DEF BridgeInv, BridgeTypeOK, CallRecord
  <2>2. d \in Settled(c) <=> (Waits(d) /\ call[d].type = call[c].type)
    BY DEF Settled
  <2>3. d \in Settled(c) => call[d].caller # Nobody
    BY <2>2 DEF Waits, Nobody
  <2>4. d \in Settled(c) => After(call[d], answer) \in Callers \cup {Nobody}
    BY <2>1, <2>3, AfterCaller
  <2>5. [leg |-> "done"] \in Legs
    BY DEF Legs
  <2>6. QED
    BY <2>1, <2>2, <2>3, <2>4, <2>5 DEF CallRecord
<1> HIDE DEF m
<1>5. ASSUME NEW d \in Call, m(d).caller # Nobody
      PROVE  /\ call[d].caller # Nobody
             /\ m(d).caller.popup = call[d].caller.popup
             /\ m(d).caller.kept = call[d].caller.kept
             /\ m(d).caller.stage = "balance" => m(d).caller.kept # NoCommunity
             /\ m(d).caller.stage = "waiting" => ~(d \in Settled(c))
  BY <1>4, <1>5, AfterCaller DEF CallInv
<1>6. ASSUME NEW d \in Call
      PROVE  call'[d] \in CallRecord /\ call'[d].caller = m(d).caller /\ CallInv(call'[d], phase')
  <2>1. call'[d] = Tidy(m(d)) /\ Tidy(m(d)) \in CallRecord /\ Tidy(m(d)).caller = m(d).caller
    BY <1>1, <1>4, TidyCall
  <2>2. CASE m(d).caller = Nobody
    BY <2>1, <2>2 DEF CallInv, Nobody
  <2>3. CASE m(d).caller # Nobody
    <3>1. call'[d] = m(d)
      BY <2>1, <2>3, <1>4, TidyCall
    <3>2. m(d).caller.stage = "waiting" => m(d).message.leg # "done"
      <4>1. SUFFICES ASSUME m(d).caller.stage = "waiting" PROVE m(d).message.leg # "done"
        OBVIOUS
      <4>2. d \notin Settled(c) /\ Waits(d)
        BY <4>1, <2>3, <1>4, <1>5 DEF Waits
      <4>3. d # c
        BY <4>2, <1>4
      <4>4. QED
        BY <4>2, <4>3, <1>4 DEF CallInv, Waits
    <3>3. phase'[m(d).caller.popup] \notin NothingAsked
      <4>1. call[d].caller # Nobody /\ m(d).caller.popup = call[d].caller.popup
        BY <2>3, <1>5
      <4>2. call[d].caller.popup \in Page /\ phase[call[d].caller.popup] \notin NothingAsked
        BY <4>1, <1>4, CallerStages DEF CallInv, CallRecord
      <4>3. QED
        BY <4>1, <4>2, DeliverPhases
    <3>4. m(d).caller.stage = "balance" => m(d).caller.kept # NoCommunity
      BY <2>3, <1>5
    <3>5. QED
      BY <2>1, <3>1, <3>2, <3>3, <3>4 DEF CallInv
  <2>4. QED
    BY <2>2, <2>3
<1>7. call' \in [Call -> CallRecord]
  BY <1>1, <1>6
<1>8. ASSUME NEW p \in undisturbed'
      PROVE  Alone(p)' /\ InItsTab(p)' /\ HasItsSubReddit(p)'
  <2>1. p \in Page /\ Alone(p) /\ InItsTab(p) /\ HasItsSubReddit(p)
    BY <1>1, <1>8 DEF BridgeInv, BridgeTypeOK
  <2>2. Alone(p)'
    <3>1. \A q \in Page : phase'[q] = "closed" <=> phase[q] = "closed"
      BY DeliverPhases DEF NothingAsked, BootType
    <3>2. QED
      BY <2>1, <3>1 DEF Alone
  <2>3. InItsTab(p)'
    BY <1>1, <2>1, DeliverPhases DEF InItsTab, NothingAsked
  <2>4. phase'[p] \in BootType \cup {"HOME"} => phase[p] \in BootType \cup {"HOME"}
    BY <2>1, DeliverPhases
  <2>5. \A d \in Call : CalledBy(d, p)' => CalledBy(d, p) /\ call'[d].caller.kept = call[d].caller.kept
    BY <1>5, <1>6 DEF CalledBy
  <2>6. HasItsSubReddit(p)'
    BY <1>1, <2>1, <2>4, <2>5 DEF HasItsSubReddit
  <2>7. QED
    BY <2>2, <2>3, <2>6
<1>9. QED
  BY <1>1, <1>3, <1>6, <1>7, <1>8, Assemble DEF BridgeInv, BridgeTypeOK, Kept

---------------------------------------------------------------------------
(* Main and Home *)

(* A popup moves on, before it has asked anything; all else stays. *)
LEMMA BeforeAsking ==
    ASSUME BridgeInv, NEW p \in Page, phase[p] \in {"config", "subReddit"},
           NEW value \in {"subReddit", "INVALID_COMMUNITY", "EXISTS", "ERROR"},
           phase' = [phase EXCEPT ![p] = value], UNCHANGED <<active, call, undisturbed>>,
           value = "subReddit" \/ value \in View => subReddit' = subReddit,
           value = "EXISTS" => subReddit' = Community[active],
           value = "subReddit" => phase[p] = "config"
    PROVE  BridgeInv'
<1>1. /\ active \in Tab /\ phase \in [Page -> {"closed"} \cup Loading \cup View]
      /\ call \in [Call -> CallRecord] /\ subReddit \in Kept /\ undisturbed \subseteq Page
  BY DEF BridgeInv, BridgeTypeOK, CallRecord, Kept
<1>2. phase' \in [Page -> {"closed"} \cup Loading \cup View] /\ subReddit' \in Kept
  BY <1>1 DEF Loading, BootType, View, Kept
<1>3. \A c \in Call : ~CalledBy(c, p) /\ CallInv(call[c], phase)
  BY InvOfCalls DEF BridgeInv, CallersAreOpen, NothingAsked
<1>4. \A c \in Call : CallInv(call'[c], phase')
  BY <1>1, <1>3, CallerStages DEF CallInv, CalledBy, CallRecord
<1>5. ASSUME NEW q \in undisturbed'
      PROVE  Alone(q)' /\ InItsTab(q)' /\ HasItsSubReddit(q)'
  <2>1. q \in Page /\ Alone(q) /\ InItsTab(q) /\ HasItsSubReddit(q)
    BY <1>5 DEF BridgeInv, BridgeTypeOK
  <2>2. Alone(q)'
    BY <1>1, <2>1 DEF Alone
  <2>3. InItsTab(q)'
    BY <1>1, <2>1 DEF InItsTab
  <2>4. HasItsSubReddit(q)'
    <3>1. CASE q = p
      <4>1. phase[p] \in {"config", "subReddit"} => active = p
        BY <2>1, <3>1 DEF InItsTab
      <4>2. \A c \in Call : ~CalledBy(c, q)'
        BY <1>3, <3>1 DEF CalledBy
      <4>3. phase'[q] \in BootType \cup {"HOME"} => value = "EXISTS"
        BY <1>1, <3>1 DEF BootType, View
      <4>4. QED
        BY <4>1, <4>2, <4>3, <3>1 DEF HasItsSubReddit
    <3>2. CASE q # p
      <4>1. phase'[q] = "closed"
        BY <1>1, <2>1, <3>2 DEF Alone
      <4>2. QED
        BY <4>1 DEF HasItsSubReddit, BootType
    <3>3. QED
      BY <3>1, <3>2
  <2>5. QED
    BY <2>2, <2>3, <2>4
<1>6. QED
  BY <1>1, <1>2, <1>4, <1>5, Assemble

LEMMA MainSteps ==
    ASSUME BridgeInv, NEW p \in Page, FetchConfig(p) \/ CheckCurrentPage(p)
    PROVE  BridgeInv'
<1>1. CASE FetchConfig(p)
  <2>1. PICK fails \in BOOLEAN : SetPhase(p, WithErrorHandler("config", "subReddit", fails))
    BY <1>1 DEF FetchConfig
  <2>2. WithErrorHandler("config", "subReddit", fails) \in {"subReddit", "ERROR"}
    BY DEF WithErrorHandler
  <2>3. QED
    BY <1>1, <2>1, <2>2, BeforeAsking DEF FetchConfig, SetPhase, worldVars
<1>2. CASE CheckCurrentPage(p)
  BY <1>2, BeforeAsking DEF CheckCurrentPage, SetPhase, worldVars, GetCurrentSubReddit, View
<1>3. QED
  BY <1>1, <1>2

(* The popup is on its subreddit, or asks without keeping one. *)
LEMMA SendStep ==
    ASSUME BridgeInv, NEW p \in Page, phase[p] \notin NothingAsked, NEW type \in Type,
           NEW kept \in {NoCommunity, subReddit}, kept # NoCommunity => phase[p] = "HOME",
           Send(p, type, kept), UNCHANGED <<worldVars, phase, subReddit, undisturbed>>
    PROVE  BridgeInv'
<1> DEFINE caller == [stage |-> "waiting", popup |-> p, kept |-> kept]
           m == [type |-> type, caller |-> caller, message |-> [leg |-> "query"]]
<1>1. PICK c \in Call : call' = [call EXCEPT ![c] = m]
  BY DEF Send, Free
<1>2. /\ active \in Tab /\ phase \in [Page -> {"closed"} \cup Loading \cup View]
      /\ call \in [Call -> CallRecord] /\ subReddit \in Kept /\ undisturbed \subseteq Page
  BY DEF BridgeInv, BridgeTypeOK, CallRecord, Kept
<1>3. kept \in Kept
  BY <1>2 DEF Kept
<1>4. caller \in Callers
  BY <1>3 DEF Callers, Kept
<1>5. m \in CallRecord
  BY <1>4 DEF CallRecord, Legs
<1>6. CallInv(m, phase)
  BY <1>5 DEF CallInv
<1>7. m.caller = caller /\ caller.popup = p /\ caller.kept = kept
  OBVIOUS
<1> HIDE DEF m, caller
<1>8. call' \in [Call -> CallRecord] /\ \A d \in Call : CallInv(call'[d], phase')
  BY <1>1, <1>2, <1>5, <1>6, InvOfCalls
<1>9. ASSUME NEW q \in undisturbed'
      PROVE  Alone(q)' /\ InItsTab(q)' /\ HasItsSubReddit(q)'
  <2>1. q \in Page /\ Alone(q) /\ InItsTab(q) /\ HasItsSubReddit(q)
    BY <1>9 DEF BridgeInv, BridgeTypeOK
  <2>2. Alone(q)' /\ InItsTab(q)'
    BY <2>1 DEF Alone, InItsTab, worldVars
  <2>3. ASSUME phase[q] \in BootType \cup {"HOME"}, NEW d \in Call, CalledBy(d, q)'
        PROVE  call'[d].caller.kept \in {NoCommunity, Community[q]}
    <3>1. subReddit = Community[q] /\ (CalledBy(d, q) => call[d].caller.kept \in {NoCommunity, Community[q]})
      BY <2>1, <2>3 DEF HasItsSubReddit
    <3>2. CASE d = c
      BY <1>1, <1>2, <1>7, <3>1, <3>2
    <3>3. CASE d # c
      BY <1>1, <1>2, <2>3, <3>1, <3>3 DEF CalledBy
    <3>4. QED
      BY <3>2, <3>3
  <2>4. HasItsSubReddit(q)'
    BY <2>1, <2>3 DEF HasItsSubReddit
  <2>5. QED
    BY <2>2, <2>4
<1>10. QED
  BY <1>2, <1>8, <1>9, Assemble DEF worldVars

LEMMA AskingSteps ==
    ASSUME BridgeInv, NEW p \in Page, AskWallet(p) \/ PollSession(p) \/ FormAsks(p)
    PROVE  BridgeInv'
<1>1. CASE AskWallet(p)
  <2>1. phase[p] \notin NothingAsked /\ phase[p] \in Type
    BY <1>1 DEF AskWallet, NothingAsked, BootType, Type
  <2>2. QED
    BY <1>1, <2>1, SendStep DEF AskWallet
<1>2. CASE PollSession(p)
  <2>1. phase[p] = "HOME" /\ phase[p] \notin NothingAsked /\ "ACCOUNT" \in Type
    BY <1>2 DEF PollSession, NothingAsked, Type
  <2>2. QED
    BY <1>2, <2>1, SendStep DEF PollSession
<1>3. CASE FormAsks(p)
  <2>1. phase[p] = "HOME" /\ phase[p] \notin NothingAsked /\ {"ACCOUNT", "SIGN"} \subseteq Type
    BY <1>3 DEF FormAsks, NothingAsked, Type
  <2>2. QED
    BY <1>3, <2>1, SendStep DEF FormAsks
<1>4. QED
  BY <1>1, <1>2, <1>3

---------------------------------------------------------------------------
(* The user *)

(* Popups are closed or opened, and callers lost with them. *)
LEMMA UserChanges ==
    ASSUME BridgeInv, active' \in Tab, phase' \in [Page -> {"closed"} \cup Loading \cup View],
           subReddit' = subReddit, undisturbed' \subseteq Page,
           call' \in [Call -> CallRecord],
           \A c \in Call : CallInv(call'[c], phase'),
           \A c \in Call : call'[c].caller \in {Nobody, call[c].caller},
           \A p \in undisturbed' : p \in undisturbed \/ phase'[p] = "config",
           \A p \in undisturbed' : phase'[p] \in {"closed", "config", phase[p]},
           \A p \in undisturbed' : Alone(p)',
           \A p \in undisturbed' : phase'[p] \in {"config", "subReddit"} => active' = p
    PROVE  BridgeInv'
<1>1. ASSUME NEW p \in undisturbed'
      PROVE  Alone(p)' /\ InItsTab(p)' /\ HasItsSubReddit(p)'
  <2>1. p \in Page
    BY <1>1
  <2>2. p \in undisturbed => Alone(p) /\ InItsTab(p) /\ HasItsSubReddit(p)
    BY DEF BridgeInv
  <2>3. Alone(p)'
    BY <1>1
  <2>4. InItsTab(p)'
    BY <1>1 DEF InItsTab
  <2>5. ASSUME phase'[p] \in BootType \cup {"HOME"}
        PROVE  p \in undisturbed /\ phase[p] = phase'[p]
    BY <1>1, <2>5 DEF BootType
  <2>6. \A c \in Call : CalledBy(c, p)' => CalledBy(c, p) /\ call'[c].caller = call[c].caller
    BY DEF CalledBy
  <2>7. HasItsSubReddit(p)'
    BY <2>2, <2>5, <2>6 DEF HasItsSubReddit
  <2>8. QED
    BY <2>3, <2>4, <2>7
<1>2. QED
  BY <1>1, Assemble DEF BridgeInv, BridgeTypeOK, Kept

LEMMA InjectAppStep ==
    ASSUME BridgeInv, NEW p \in Page, InjectApp(p)
    PROVE  BridgeInv'
<1>1. /\ active \in Tab /\ phase \in [Page -> {"closed"} \cup Loading \cup View]
      /\ call \in [Call -> CallRecord] /\ undisturbed \subseteq Page
  BY DEF BridgeInv, BridgeTypeOK, CallRecord
<1>2. /\ active = p /\ phase[p] = "closed" /\ phase' = [phase EXCEPT ![p] = "config"]
      /\ undisturbed' = IF \A q \in Page : phase[q] = "closed" THEN {p} ELSE {}
      /\ UNCHANGED <<active, subReddit, call>>
  BY DEF InjectApp, Clicked, worldVars
<1>3. phase' \in [Page -> {"closed"} \cup Loading \cup View]
  BY <1>1, <1>2 DEF Loading
<1>4. \A c \in Call : CallInv(call'[c], phase')
  <2>1. \A c \in Call : CallInv(call[c], phase) /\ ~CalledBy(c, p)
    BY <1>2, InvOfCalls DEF BridgeInv, CallersAreOpen, NothingAsked
  <2>2. QED
    BY <1>1, <1>2, <2>1, CallerStages DEF CallInv, CalledBy, CallRecord
<1>5. \A q \in undisturbed' : q = p /\ phase'[p] = "config" /\ Alone(p)'
  BY <1>1, <1>2 DEF Alone
<1>6. QED
  BY <1>1, <1>2, <1>3, <1>4, <1>5, UserChanges

LEMMA LeavesStep ==
    ASSUME BridgeInv, NEW p \in Page, phase' = [phase EXCEPT ![p] = "closed"],
           UNCHANGED <<active, subReddit, undisturbed>>,
           call' = [c \in Call |-> call'[c]],
           \A c \in Call : CallInv(call'[c], phase),
           \A c \in Call : call'[c].caller \in {Nobody, call[c].caller},
           \A c \in Call : CalledBy(c, p) => call'[c].caller = Nobody
    PROVE  BridgeInv'
<1>1. /\ active \in Tab /\ phase \in [Page -> {"closed"} \cup Loading \cup View]
      /\ call \in [Call -> CallRecord] /\ undisturbed \subseteq Page
  BY DEF BridgeInv, BridgeTypeOK, CallRecord
<1>2. phase' \in [Page -> {"closed"} \cup Loading \cup View]
  BY <1>1
<1>3. call' \in [Call -> CallRecord]
  BY DEF CallInv
<1>4. \A c \in Call : CallInv(call'[c], phase')
  BY <1>1, <1>3, CallerStages DEF CallInv, CalledBy, CallRecord
<1>5. \A q \in Page : phase'[q] \in {"closed", phase[q]}
  BY <1>1
<1>6. \A q \in undisturbed' : Alone(q) /\ InItsTab(q)
  BY DEF BridgeInv
<1>7. \A q \in undisturbed' : Alone(q)'
  BY <1>1, <1>5, <1>6 DEF Alone
<1>8. QED
  BY <1>1, <1>2, <1>3, <1>4, <1>5, <1>6, <1>7, UserChanges DEF InItsTab

LEMMA CloseStep ==
    ASSUME BridgeInv, NEW p \in Page, Close(p)
    PROVE  BridgeInv'
<1> DEFINE without(c) == [call[c] EXCEPT !.caller = Nobody]
           m(c) == IF CalledBy(c, p) THEN Tidy(without(c)) ELSE call[c]
<1>1. \A c \in Call : CallInv(call[c], phase) /\ call[c] \in CallRecord
  BY InvOfCalls DEF BridgeInv, BridgeTypeOK, CallRecord
<1>2. \A c \in Call : without(c) \in CallRecord /\ without(c).caller = Nobody
  BY <1>1 DEF CallRecord
<1>3. /\ phase' = [phase EXCEPT ![p] = "closed"] /\ call' = [c \in Call |-> m(c)]
      /\ UNCHANGED <<active, subReddit, undisturbed>>
  BY DEF Close, worldVars
<1> HIDE DEF without
<1>4. \A c \in Call : Tidy(without(c)) \in CallRecord /\ Tidy(without(c)).caller = Nobody
  BY <1>2, TidyCall
<1>5. \A c \in Call : CallInv(m(c), phase) /\ m(c).caller \in {Nobody, call[c].caller}
                      /\ (CalledBy(c, p) => m(c).caller = Nobody)
  BY <1>1, <1>4 DEF CallInv, Nobody
<1>6. \A c \in Call : call'[c] = m(c)
  BY <1>3
<1> HIDE DEF m
<1>7. QED
  BY <1>3, <1>5, <1>6, LeavesStep

LEMMA ReloadStep ==
    ASSUME BridgeInv, NEW p \in Page, Reload(p)
    PROVE  BridgeInv'
<1> DEFINE n(c) == [call[c] EXCEPT
                      !.caller = IF CalledBy(c, p) THEN Nobody ELSE @,
                      !.message = IF @.leg \in {"page", "wallet"} /\ @.at = p THEN [leg |-> "lost"] ELSE @]
           m(c) == Tidy(n(c))
<1>1. \A c \in Call : CallInv(call[c], phase) /\ call[c] \in CallRecord
  BY InvOfCalls DEF BridgeInv, BridgeTypeOK, CallRecord
<1>2. /\ phase' = [phase EXCEPT ![p] = "closed"] /\ call' = [c \in Call |-> m(c)]
      /\ UNCHANGED <<active, subReddit, undisturbed>>
  BY DEF Reload, worldVars
<1>3. ASSUME NEW c \in Call
      PROVE  /\ n(c) \in CallRecord /\ CallInv(n(c), phase)
             /\ n(c).caller = IF CalledBy(c, p) THEN Nobody ELSE call[c].caller
             /\ n(c).message.leg = "done" => call[c].message.leg = "done"
  <2>1. [leg |-> "lost"] \in Legs
    BY DEF Legs
  <2>2. n(c) \in CallRecord
    BY <1>1, <2>1 DEF CallRecord
  <2>3. n(c).caller = IF CalledBy(c, p) THEN Nobody ELSE call[c].caller
    BY <1>1 DEF CallRecord
  <2>4. n(c).message.leg = "done" => call[c].message.leg = "done"
    BY <1>1 DEF CallRecord
  <2>5. QED
    BY <1>1, <2>2, <2>3, <2>4 DEF CallInv, Nobody
<1> HIDE DEF n
<1>4. ASSUME NEW c \in Call
      PROVE  /\ CallInv(m(c), phase) /\ m(c).caller \in {Nobody, call[c].caller}
             /\ CalledBy(c, p) => m(c).caller = Nobody
  <2>1. m(c) \in CallRecord /\ m(c).caller = n(c).caller /\ (n(c).caller # Nobody => m(c) = n(c))
    BY <1>3, TidyCall
  <2>2. CallInv(m(c), phase)
    BY <1>3, <2>1 DEF CallInv, Nobody
  <2>3. QED
    BY <1>3, <2>1, <2>2
<1>5. \A c \in Call : call'[c] = m(c)
  BY <1>2
<1> HIDE DEF m
<1>6. QED
  BY <1>2, <1>4, <1>5, LeavesStep

LEMMA ActivateTabStep ==
    ASSUME BridgeInv, NEW t \in Tab, ActivateTab(t)
    PROVE  BridgeInv'
<1>1. /\ active' = t /\ undisturbed' = {p \in undisturbed : phase[p] \notin {"config", "subReddit"}}
      /\ UNCHANGED <<phase, subReddit, call>>
  BY DEF ActivateTab
<1>2. /\ phase \in [Page -> {"closed"} \cup Loading \cup View]
      /\ call \in [Call -> CallRecord] /\ undisturbed \subseteq Page
  BY DEF BridgeInv, BridgeTypeOK, CallRecord
<1>3. \A c \in Call : CallInv(call'[c], phase')
  BY <1>1, InvOfCalls
<1>4. \A p \in undisturbed' : Alone(p)'
  BY <1>1 DEF BridgeInv, Alone
<1>5. QED
  BY <1>1, <1>2, <1>3, <1>4, UserChanges

---------------------------------------------------------------------------

LEMMA BridgeInvInit == Init => BridgeInv
<1> SUFFICES ASSUME Init PROVE BridgeInv
  OBVIOUS
<1>1. \A c \in Call : call[c] = NoCall /\ call[c] \in CallRecord /\ call[c].caller = Nobody
  BY NoCallIsCall DEF Init
<1>2. \A c \in Call : call[c].caller.stage = "gone"
  BY <1>1 DEF Nobody
<1>3. BridgeTypeOK
  BY <1>1 DEF Init, BridgeTypeOK, CallRecord
<1>4. NoCallForgotten /\ CallersAreOpen /\ PollsKnowTheirs
  BY <1>1, <1>2 DEF NoCallForgotten, Waits, CallersAreOpen, CalledBy, PollsKnowTheirs
<1>5. QED
  BY <1>3, <1>4 DEF BridgeInv, Init

LEMMA BridgeInvStep == BridgeInv /\ [Next]_vars => BridgeInv'
<1> SUFFICES ASSUME BridgeInv, [Next]_vars PROVE BridgeInv'
  OBVIOUS
<1>1. ASSUME NEW c \in Call, Query(c) \/ Bridge(c) \/ WalletAnswers(c)
      PROVE  BridgeInv'
  BY <1>1, MessageSteps
<1>2. ASSUME NEW c \in Call, Deliver(c)
      PROVE  BridgeInv'
  BY <1>2, DeliverStep
<1>3. ASSUME NEW c \in Call, GotSession(c)
      PROVE  BridgeInv'
  BY <1>3, GotSessionStep
<1>4. ASSUME NEW p \in Page, FetchConfig(p) \/ CheckCurrentPage(p)
      PROVE  BridgeInv'
  BY <1>4, MainSteps
<1>5. ASSUME NEW p \in Page, AskWallet(p) \/ PollSession(p) \/ FormAsks(p)
      PROVE  BridgeInv'
  BY <1>5, AskingSteps
<1>6. ASSUME NEW p \in Page, InjectApp(p) \/ Close(p) \/ Reload(p)
      PROVE  BridgeInv'
  BY <1>6, InjectAppStep, CloseStep, ReloadStep
<1>7. ASSUME NEW t \in Tab, ActivateTab(t)
      PROVE  BridgeInv'
  BY <1>7, ActivateTabStep
<1>8. CASE UNCHANGED vars
  BY <1>8 DEF vars, worldVars, BridgeInv, BridgeTypeOK, NoCallForgotten, Waits, Leg, CallersAreOpen,
     CalledBy, PollsKnowTheirs, Alone, InItsTab, HasItsSubReddit
<1>9. QED
  BY <1>1, <1>2, <1>3, <1>4, <1>5, <1>6, <1>7, <1>8 DEF Next

(***************************************************************************)
(* No popup listens for an answer that is not under way and not lost: the  *)
(* bridge answers every message, and an answer that somebody else takes    *)
(* leaves no listener behind.                                              *)
(***************************************************************************)
THEOREM NobodyWaitsInVain == Spec => []BridgeInv
<1>1. Init => BridgeInv
  BY BridgeInvInit
<1>2. BridgeInv /\ [Next]_vars => BridgeInv'
  BY BridgeInvStep
<1>3. QED
  BY <1>1, <1>2, PTL DEF Spec

(***************************************************************************)
(* An undisturbed popup shows the points of its own subreddit, although    *)
(* the store is shared and polls write back what they have read before.    *)
(***************************************************************************)
THEOREM OwnSubReddit == Spec => []HomeShowsItsSubReddit
<1>1. BridgeInv => HomeShowsItsSubReddit
  BY DEF BridgeInv, HomeShowsItsSubReddit, HasItsSubReddit
<1>2. QED
  BY <1>1, NobodyWaitsInVain, PTL
=============================================================================
