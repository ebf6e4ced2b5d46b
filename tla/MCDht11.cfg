SPECIFICATION FairSpec
CONSTANTS
    Proc = {p1, p2}
    Width = 1
    Readings <- SomeReadings
    Retries = 2
    ReadLens = {2}
    MaxSlips = 1
    MaxOpens = 2
INVARIANTS PinRestored ReadingIsRight RetryIsInVain ReadsOwnReading
PROPERTIES OpenReturns
