SPECIFICATION Spec
CONSTANTS
    A = A
    B = B
    C = C
    Urls <- MCThree
    Widths <- MCWidths
    MaxCell = 2
    MaxGrid = 7
    MaxDrag = 2
    OverEdge = TRUE
    MaxLate = 0
SYMMETRY MCSymmetry
INVARIANTS
    MapsAgree
