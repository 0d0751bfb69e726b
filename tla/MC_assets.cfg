SPECIFICATION Spec
SYMMETRY MCSymmetry
CONSTANTS
    Tokens <- MCTokens
    Joined <- MCJoined
    Marks = {}
    Clean <- MCClean
    Breadcrumbs = {}
    ParentSize = 4
    ParentOverlap = 1
    ChildSize = 3
    ChildOverlap = 1
    StubMaxWords = 1
    Revisions <- MCRevisions
    Manifests <- MCManifests
    Runtimes <- MCRuntimes
    SampleTexts <- MCSampleTexts
    Tasks = {t1, t2}
    MaxRequests = 4
    TopK = 3
INVARIANTS  IndexedIsFound DeletedIsGone 
\* The requests are used up.
CHECK_DEADLOCK FALSE
