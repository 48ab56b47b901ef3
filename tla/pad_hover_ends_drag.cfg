CONSTANTS
    Mapped <- MCTwoMapped
    KeyOf <- MCTwoKeyOf
    Directions <- MCDirections
    MaxX = 14
    MaxY = 14
    Start <- MCStart
    Touches <- MCTouches
    Speed = 9
SPECIFICATION Spec
PROPERTY HeldButtonKeepsDrag
