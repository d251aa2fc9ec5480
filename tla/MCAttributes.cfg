CONSTANTS
    Payload = 2
    WordBits = 7
    Int32Bytes = 2
    Int64Bytes = 4
    Types <- MCTypes
    NewValues = {5}
    Jobs <- MCJobs
SPECIFICATION Spec
CHECK_DEADLOCK FALSE
INVARIANTS
    AttributesSurvive
    PoolsAgree
    AcceptedIsLegal
