SPECIFICATION Spec
CONSTANTS
    Size = 4
    Radii = {0, 1, 2, 3}
    Boxes <- MCBoxes
CHECK_DEADLOCK FALSE
INVARIANTS Mutual SeedIsSurface GridMeetsNeighbours
