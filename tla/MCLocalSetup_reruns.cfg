SPECIFICATION Spec
CONSTANTS
    Surfaces <- MCSurfaces
    Newest <- MCNewest
    Edited <- MCEdited
    MaxMints = 2
    MaxRuns = 4
    MaxEdits = 3
INVARIANTS
    SecretIsShared
    EverySurfaceBoots
CHECK_DEADLOCK FALSE
