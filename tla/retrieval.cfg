SPECIFICATION RetrievalSpec
CONSTANTS
    Checks <- MCChecks
    Tasks <- MCRetrievalTasks
    MaxTasks = 1
    SourceLists <- MCSourceLists
    Queries <- MCQueries
    Texts <- MCTexts
    Score <- MCScore
    CodeIn <- MCCodeIn
    Disclosing = {"prose"}
    Families <- MCFamilies
    Allowed = {"CC-BY"}
    NoLicense = ""
    K = 2
INVARIANTS
    GoalMetIsEarned
    VerifiedIsSafe
    MissedSolutionsWereCut
    HitsAreTheBest
    ContextIsFit
PROPERTY EveryRequestEnds
\* The bound MaxTasks ends every behaviour.
CHECK_DEADLOCK FALSE
