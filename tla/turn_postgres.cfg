SPECIFICATION Spec
CONSTANTS
    foundations = foundations
    regression = regression
    grouping = grouping
    linear = linear
    dropMissing = dropMissing
    answer = answer
    hint = hint
    typo = typo
    Concepts <- MCConcepts
    Exercises <- MCExercises
    Misconceptions <- MCMisconceptions
    OwnConcept <- MCOwnConcept
    MisconceptionOf <- MCMisconceptionOf
    Relevant <- MCRelevant
    None = None
    Absent = Absent
    Snippets <- MCSnippets
    Solving = {answer}
    Broken = {typo}
    TauEscalate = 55
    TauAbstain = 35
    Requests <- GoalRequests
    PlannerReads <- GoalReads
    Drafts <- GoalDrafts
    Evals <- GoalEvals
    MaxRefine = 0
    MaxEscalate = 0
    MaxRetry = 0
    DistressRouting = FALSE
    DistressTrace = FALSE
    RejectedTypes = {"goal_alignment_check", "reflection_recorded"}
    MayFail = FALSE
    MaxTurns = 1
INVARIANTS
    NoTurnFails
\* The bound MaxTurns ends every behaviour.
CHECK_DEADLOCK FALSE
