SPECIFICATION Spec
CONSTANTS
    Runs <- MCRuns
    Pages <- MCPages
    RunOf <- MCRunOf
    Corpora <- MCCorpora
    Commands <- MCCommands
    MaxScripts = 3
    MaxPosts = 1
INVARIANTS RejectsStayGone 
PROPERTIES ChildrenGoFirst
\* The scripts and the posts are used up.
CHECK_DEADLOCK FALSE
