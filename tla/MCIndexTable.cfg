SPECIFICATION FairSpec
CONSTANTS
    file = file
    unit = unit
    subprogram = subprogram
    block = block
    loc = loc
    callSite = callSite
    twice = twice
    unknown = unknown
    Item <- MCItem
    Deps <- MCDeps
    Fields <- MCFields
    Rank <- MCRank
    Reserved <- MCReserved
    Base = 1
INVARIANTS IndexIsPosition DependencyOrder AnswerResolves EntryResolves
PROPERTIES FrozenOnceCounted CallsReturn SectionFinishes ImplementsLog
