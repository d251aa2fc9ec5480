SPECIFICATION Spec
CONSTANTS
    Width = 3
    Loops <- UncarriedLoops
    SplitThreshold = 1
    NoHint = NoHint
    NoSplit = NoSplit
INVARIANT SplitVerifies
