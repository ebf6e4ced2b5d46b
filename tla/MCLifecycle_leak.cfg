SPECIFICATION LCSpec
CONSTANTS
    None = None
    Table <- DriverTable
    Driver = {"intrpt_array"}
    Leaking = {}
    Exposed = {}
INVARIANTS NothingLeft
