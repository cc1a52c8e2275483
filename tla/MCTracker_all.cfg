SPECIFICATION Spec
CONSTANTS
    t1 = t1
    t2 = t2
    NoPath = NoPath
    Below <- MCBelow
    Moved <- MCMoved
    Paths <- MCPaths
    Tasks <- MCTasks
SYMMETRY TaskSymmetry
CONSTRAINT Bounds
 
PROPERTIES NothingForgotten
