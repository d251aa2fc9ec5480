SPECIFICATION PipelineSpec
CONSTANTS
    null = null
    Null = null
    Codes <- MCCodes
    NewNames = {"r", "f"}
    MaxRenames = 2
    Scoped <- MCScoped
    Unscoped <- MCUnscoped
    Reserved <- MCReserved
    Unsupported <- MCUnsupported
    UnknownLoc <- Unknown
    DiIndex <- MCDiIndex
    MaxFunctions = 3
    MaxOps = 6
INVARIANTS LocationsSurvive ScopesSurvive VerifierAccepts PositionsSurvive
PROPERTY WritesVerifiedCode
