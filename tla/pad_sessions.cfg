CONSTANTS
    Mapped <- MCTwoMapped
    KeyOf <- MCTwoKeyOf
    Directions <- MCDirections
    MaxX = 14
    MaxY = 14
    Start <- MCStart
    Touches <- MCTouches
    Speed = 9
SPECIFICATION Spec
INVARIANTS NothingIsStuck MaskIsHeld
PROPERTIES StickAlternates OnlyButtonsEndDrags StickKeepsDrag
