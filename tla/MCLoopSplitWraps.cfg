SPECIFICATION Spec
CONSTANTS
    Width = 3
    Loops <- WrappingLoops
    SplitThreshold = 1
    NoHint = NoHint
    NoSplit = NoSplit
INVARIANT ConditionFlips
