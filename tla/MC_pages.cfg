\* Every page list, with failures at any await, attempts on two runs and a
\* change of model between them.
CONSTANTS
    Tokens <- MCTokens
    Joined <- MCJoined
    Marks <- MCMarks
    Clean <- MCClean
    Breadcrumbs <- MCBreadcrumbs
    ParentSize = 5
    ParentOverlap = 2
    ChildSize = 3
    ChildOverlap = 1
    StubMaxWords = 2
    Runs = {r1, r2}
    PageLists <- MCPageLists
    Models = {m1, m2}
    Width <- MCWidth
    BatchSize = 3
    MaxTokens = 8
    MaxAttempts = 2
    MaxFaults = 2
    MaxDeploys = 1
SPECIFICATION Spec
SYMMETRY MCSymmetry
INVARIANT VectorsMatch
INVARIANT OnePageOwnsText
INVARIANT CountersAddUp
 
INVARIANT BatchesFit
INVARIANT QuarantineIsExact
\* The attempts are used up.
CHECK_DEADLOCK FALSE
