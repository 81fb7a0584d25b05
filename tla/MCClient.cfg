SPECIFICATION Spec
CONSTANTS
    alice = alice
    bob = bob
    Account = {alice, bob}
    Outside = Outside
    NoAccount = NoAccount
    InitialCoins <- MCCoins
    MaxHistory = 2
    Form = {f1}
    SessionPoll = {s1}
    HistoryPoll = {h1}
    Recipients = {bob, Outside}
    Amounts = {4, 5}
    PageLimit = 3
    MaxSwitches = 1
INVARIANTS
    ClientTypeOK
    StoreIsSound
    SessionIsCoherent
PROPERTIES
    MergeOnlyIfNeeded
    PendingSettles
    SessionFollows
CHECK_DEADLOCK FALSE
