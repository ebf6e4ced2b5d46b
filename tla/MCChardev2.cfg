SPECIFICATION FairSpec
CONSTANTS
    Client = {c1, c2}
    Raw = {r1}
    BUF_LEN = 2
    GET_LEN = 3
    Strings <- Messages
    ReadLens = {2}
    Offsets = {3}
    Params = {3}
INVARIANTS OneProcessAtATime LatestMessage NeverPastTheEnd
PROPERTIES DeviceFreed
