SPECIFICATION DistSpec
CONSTANTS
    d1 = d1
    d2 = d2
    d3 = d3
    Dist = {d1, d2, d3}
    Deployer = Deployer
    SubredditOwner = SubredditOwner
    Stranger = Stranger
    Nobody = Nobody
    DecayPercent = 10
    InitialDistribution = 20
    BurnedPoints = {0, 7, 100}
    Minted = {0, 5}
    MaxRound = 4
    MaxUint = 200
INVARIANTS
    DistInv
    OneDistributionRuns
PROPERTIES
    MintsWhatItRecords
SYMMETRY Symmetry
CHECK_DEADLOCK FALSE
