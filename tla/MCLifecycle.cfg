SPECIFICATION LCSpec
CONSTANTS
    None = None
    Table <- DriverTable
    Driver <- AllDrivers
    Leaking <- NotUnwound
    Exposed <- EarlyPublished
INVARIANTS NothingLeft ReleasesHeld HandlersFindResources ModulePinned
