SPECIFICATION Spec
CONSTANTS
    A = A
    B = B
    C = C
    Urls <- MCTwo
    Widths <- MCWidths
    MaxCell = 2
    MaxGrid = 7
    MaxDrag = 2
    OverEdge = FALSE
    MaxLate = 0
SYMMETRY MCTwoSymmetry
PROPERTIES
    WaitingPositionsKept
