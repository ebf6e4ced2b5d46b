SPECIFICATION Spec
CONSTANTS
    Reader = {r1}
    Lens = {2, 3}
    ETH_HLEN = 1
    MaxPackets = 3
INVARIANTS StatsAreConsistent CountersAddUp
