SPECIFICATION FairSpec
CONSTANTS
    Proc = {p1, p2}
    Thread = {t1, t2}
    NoProc = NoProc
    MaxOpens = 3
    ReadLens = {1, 3}
INVARIANTS ReadsOwnMessage
PROPERTIES ImplementsExclusiveFile CloseFreesDevice
