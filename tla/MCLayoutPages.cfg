CONSTANTS
    Request = {r1, r2}
    Name = {n1, n2}
    Visitor = {v1}
    MaxGrid = 2
    MaxCoworkings = 2
    MaxWrites = 3
    Grid <- LayoutGrids
    Position <- LayoutPositions
SYMMETRY LayoutSymmetry
SPECIFICATION PlansSpec
INVARIANTS LayoutTypeOK NoOrphans OutsideIsRace CellsDistinct EmptyCellAccepts
PROPERTIES LostPlanIsRace
