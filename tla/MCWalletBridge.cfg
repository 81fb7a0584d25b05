SPECIFICATION Spec
CONSTANTS
    page1 = page1
    page2 = page2
    elsewhere = elsewhere
    points = points
    bricks = bricks
    NoCommunity = NoCommunity
    Tab <- MCTab
    Page <- MCPage
    Community <- MCCommunity
    Call = {1, 2}
    Providers = {"none", "ethereum"}
INVARIANTS
    BridgeInv
    HomeShowsItsSubReddit
PROPERTIES
    BootEnds
    CallAnswered
