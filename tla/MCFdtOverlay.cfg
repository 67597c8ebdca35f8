SPECIFICATION Spec
CONSTANTS
    Bases <- MCBases
    Overlays <- MCOverlays
    Good <- MCGood
    MaxApply = 2
CHECK_DEADLOCK FALSE
INVARIANTS
    AllOrNothing
    ReferencesFollow
    RejectedOnlyIfBad
