CONSTANTS
    Ids <- MCIds
    Points <- MCPoints
    MaxFingers = 2
    MaxFrames = 7
    MaxCrowded = 4
    Slop = 16
    MaxPanStep = 72
    OnButton <- MCOnButton
SPECIFICATION Spec
CHECK_DEADLOCK FALSE
INVARIANTS TypeOK PanelIsSeen PanFollowsFinger SelectionIsArmedOnce
PROPERTIES EventsAlternate LoneTapIsShortPress
