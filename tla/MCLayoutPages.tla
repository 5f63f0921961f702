--------------------------- MODULE MCLayoutPages ---------------------------
EXTENDS LayoutPages, TLC

\* One cell, a second one below it, and a size too large for the forms.
LayoutGrids == {[cols |-> 1, rows |-> 1], [cols |-> 1, rows |-> 2], [cols |-> 3, rows |-> 1]}

\* The cells of the grids, one no accepted grid has and one none has.
LayoutPositions == {[x |-> 1, y |-> 1], [x |-> 1, y |-> 2], [x |-> 2, y |-> 1], [x |-> 0, y |-> 1]}

LayoutSymmetry == Permutations(Name) \cup Permutations(Request)
=============================================================================
