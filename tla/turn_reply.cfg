SPECIFICATION Spec
CONSTANTS
    foundations = foundations
    regression = regression
    grouping = grouping
    linear = linear
    dropMissing = dropMissing
    answer = answer
    hint = hint
    typo = typo
    Concepts <- MCConcepts
    Exercises <- MCExercises
    Misconceptions <- MCMisconceptions
    OwnConcept <- MCOwnConcept
    MisconceptionOf <- MCMisconceptionOf
    Relevant <- MCRelevant
    None = None
    Absent = Absent
    Snippets <- MCSnippets
    Solving = {answer}
    Broken = {typo}
    TauEscalate = 55
    TauAbstain = 35
    Requests <- ReplyRequests
    PlannerReads <- ReplyReads
    Drafts <- ReplyDrafts
    Evals <- ReplyEvals
    MaxRefine = 1
    MaxEscalate = 2
    MaxRetry = 2
    DistressRouting = TRUE
    DistressTrace = TRUE
    RejectedTypes = {}
    MayFail = TRUE
    MaxTurns = 1
INVARIANTS
    NoSolutionReachesPeer
    OracleIsNeverGoverned
    LeakIsAccountedFor
    AbstentionIsFlagged
    ShownExampleIsVerified
    AbstentionFollowsEscalation
PROPERTIES
    EveryTurnEnds
\* The bound MaxTurns ends every behaviour.
CHECK_DEADLOCK FALSE
