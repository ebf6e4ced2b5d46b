SPECIFICATION RemovalSpec
CONSTANTS
    All = 3
    MaxLoads = 3
    None = None
INVARIANTS CrankFirst EachLoadSpinsOnce LedOffWhenOut
PROPERTIES ExitReturns EveryPressServed
