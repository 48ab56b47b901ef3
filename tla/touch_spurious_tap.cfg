CONSTANTS
    Ids <- MCIds
    Points <- MCFewPoints
    MaxFingers = 1
    MaxFrames = 4
    MaxCrowded = 4
    Slop = 16
    MaxPanStep = 72
    OnButton <- MCOnButton
SPECIFICATION Spec
CHECK_DEADLOCK FALSE
PROPERTY TapIsShortPress
