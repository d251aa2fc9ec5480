CONSTANTS
    Latest = 4
    Unified = 3
    Default = "none"
    FallbackValue = "fallback"
    TypeDecls <- GlobalTypeDecls
    Types <- GlobalTypes
    Cases <- MCCases
    AttrDecls <- MCAttrDecls
    Values <- GlobalValues
    OpDecls <- GlobalOpDecls
    Signatures <- GlobalSignatures
    Instances <- GlobalInstances
SPECIFICATION Spec
CHECK_DEADLOCK FALSE
INVARIANTS AnalysisSupports
