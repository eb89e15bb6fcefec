SPECIFICATION Spec
CONSTANTS
    A = A
    B = B
    C = C
    Urls <- MCThree
    Widths <- MCResized
    MaxCell = 1
    MaxGrid = 3
    MaxDrag = 2
    OverEdge = FALSE
    MaxLate = 1
SYMMETRY MCSymmetry
INVARIANTS
    TypeOK
    MapsAgree
    EveryFileHasAPlace
    SavedWhenIdle
    SavedLayoutRestores
PROPERTIES
    OthersStay
    FittingIconsStay
