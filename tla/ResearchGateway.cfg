SPECIFICATION FairSpec
CONSTANTS
    Calls = {c1, c2}
    Lanes <- Tools
    Width = 2
    MaxBars = 2
    Huge = 1000000
INVARIANTS GatewayInv MeaningIsKept
PROPERTIES EveryCallIsAnswered
