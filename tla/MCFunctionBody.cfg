SPECIFICATION FairSpec
CONSTANTS
    Shapes <- MCShapes
    MaxFunctions = 2
    MaxOps = 5
    MaxArgs = 1
    MaxOperands = 1
INVARIANTS MapIsScope OperandsSurvive FunctionComplete
PROPERTY ReadingEnds
