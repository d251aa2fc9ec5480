SPECIFICATION FairSpec
CONSTANTS
    scope = scope
    loc = loc
    Size = 3
    Base = 1
    ReservedKind = loc
    Kind <- MCKind
    Tables <- MCTables
INVARIANTS MarksAreCalls AcceptsBuildable AnswersAgree CacheClosed
PROPERTY RequestsReturn
