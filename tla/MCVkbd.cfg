SPECIFICATION VkbdFairSpec
CONSTANTS
    Writer = {w1, w2}
    Reader = {r1}
    Numbers <- SomeNumbers
    LONG_MIN <- Smallest
    UINTS = 16
    KEY_MAX = 3
    VINPUT_MAX_LEN = 5
    Counts = {2, 6}
INVARIANTS KeyboardAgrees ReadsLastEntry
PROPERTIES ReadingEnds
