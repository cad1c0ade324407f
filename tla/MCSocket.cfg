SPECIFICATION Spec
CONSTANTS
    Responses <- MCResponses
    Resolvers = {"literal", "nginx", "lua"}
    Tls = {TRUE, FALSE}
    RequestLen = 2
    BufferSize = 2
    LargeSize = 3
    LargeNum = 2
INVARIANTS
    WholeBody
    AnsweredOnce
    AlwaysArmed
PROPERTIES
    CallEnds
