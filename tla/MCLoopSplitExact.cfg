SPECIFICATION Spec
CONSTANTS
    Width = 3
    Loops <- MCLoops
    SplitThreshold = 1
    NoHint = NoHint
    NoSplit = NoSplit
INVARIANT CopiesWellFormed
PROPERTY PreservesLoop
