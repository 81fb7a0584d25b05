SPECIFICATION Spec
CONSTANTS
    Run <- MCRun
    Points = 1
    EthDeposit = 3
    Fee = 1
INVARIANTS
    ClaimInv
    OnlyContestedUtxosRefused
    ClaimIsAtomic
CHECK_DEADLOCK FALSE
PROPERTY
    RunEnds
