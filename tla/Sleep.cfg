SPECIFICATION FairSpec
CONSTANTS
    Proc = {p1, p2, p3}
    NoProc = NoProc
    MESSAGE_LENGTH = 3
    InputLens = {2, 5}
    BufLens = {13}
    Tgkilled = {p1, p2}
    Killed = {p1}
INVARIANTS TypeOK NoLostWakeup
PROPERTIES EofFollowsData ImplementsExclusiveFile FreeFileIsTaken SignalInterrupts
