SPECIFICATION Spec
CONSTANTS
    Mod = {A, B, C}
    Proc = {p1}
    Cpu = {cpu0, cpu1}
    sys_openat = sys_openat
    None = None
SYMMETRY SyscallStealSymmetry
INVARIANTS TableSound NobodyInRemovedText WriteProtection NoEndlessCall
CHECK_DEADLOCK FALSE
