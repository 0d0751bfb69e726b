SPECIFICATION AnswersSpec
CONSTANTS
    Bar = "|"
    Markup = "u003c"
    MinLength = 2
    Documents <- MCDocuments
    Corpora <- MCCorpora
    Requests <- MCRequests
    MaxTouched = 2
    Dimensions = {"topics", "proof"}
    Topics = "topics"
    MaxRows = 2
    AuditBodies <- MCAuditBodies
    PlanBodies <- MCPlanBodies
INVARIANTS
    FoundIsOnThePage
    
    OneReading
    GapsAreExact
    AssertionsSurvive
    PlanInventsNoDemand
