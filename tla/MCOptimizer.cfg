CONSTANTS
    Fuel = 2
    Roundings = {"rn", "rz"}
    Inputs <- MCInputs
    Worlds <- MCWorlds
    Jobs <- MCJobs
SPECIFICATION Spec
INVARIANTS MeaningKept StaysVerified OnePassSuffices OutputsAreTheResult
PROPERTY Settles
CHECK_DEADLOCK FALSE
