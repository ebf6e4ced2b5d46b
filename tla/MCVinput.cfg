SPECIFICATION Spec
CONSTANTS
    Thread = {t1, t2, t3}
    File = {f1, f2}
    Obj = {o1, o2}
    Type = {T1, T2}
    VINPUT_MINORS = 2
    None = None
    AllocFails = TRUE
SYMMETRY VinputSymmetry
CONSTRAINT OneCareless
INVARIANTS RegistrySound NoDanglingPointer AllOfTypeUnregistered
PROPERTIES IdsLostOnlyWithoutInput
