CONSTANTS
    Request = {r1, r2}
    Name = {n1, n2}
    Visitor = {v1}
    MaxGrid = 2
    MaxCoworkings = 1
    MaxWrites = 3
    Grid <- LayoutGrids
    Position <- LayoutPositions
SPECIFICATION PlansSpec
INVARIANTS SchemeIsDrawn
