CONSTANTS
    Requests <- MCRequests
    Contents <- MCContents
    LocalResponses <- MCLocalResponses
    Dispatched <- MCDispatched
    Programs <- MCPrograms
    NFilters = 2
    MaxPairs = 7
    Answers <- MCAnswers
    Retriable = {503}
    MaxTries = 2
    NextTries = 0
    ConfTimeout = 2
    Forbidden = {"f"}
SPECIFICATION Spec
INVARIANTS
    LengthsAgree
    
    TryAsSelected
PROPERTIES
    WritesOneHeader
