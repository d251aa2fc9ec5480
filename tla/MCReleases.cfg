CONSTANTS
    Latest = 4
    Unified = 3
    Default = "none"
    FallbackValue = "fallback"
    TypeDecls <- MCTypeDecls
    Types <- MCTypes
    Cases <- MCCases
    AttrDecls <- MCAttrDecls
    Values <- MCValues
    OpDecls <- MCOpDecls
    Signatures <- MCSignatures
    Instances <- MCInstances
SPECIFICATION Spec
CHECK_DEADLOCK FALSE
INVARIANTS EveryReleaseAgrees RefusalIsForeseen AnalysisIsTight
