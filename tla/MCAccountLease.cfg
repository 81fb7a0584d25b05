SPECIFICATION Spec
CONSTANTS
    i1 = i1
    i2 = i2
    Instance = {i1, i2}
    Accounts <- MCAccounts
    Lease = 2
    Expiry = 5
    MaxDelay = 1
INVARIANTS
    LeaseInv
    OneInstancePerAccount
    LeaseNeverLapses
PROPERTIES
    AccountComesBack
CHECK_DEADLOCK FALSE
