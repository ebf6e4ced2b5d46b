SPECIFICATION FairSpec
CONSTANTS
    Proc = {p1, p2}
    NoProc = NoProc
    MESSAGE_LENGTH = 3
    InputLens = {}
    BufLens = {}
    Tgkilled = {}
    Killed = {p1}
PROPERTIES AnySignalInterrupts
