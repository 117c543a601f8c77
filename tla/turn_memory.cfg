SPECIFICATION SessionSpec
CONSTANTS
    foundations = foundations
    regression = regression
    grouping = grouping
    linear = linear
    dropMissing = dropMissing
    answer = answer
    hint = hint
    typo = typo
    Concepts <- MCConcepts
    Exercises <- MCExercises
    Misconceptions <- MCMisconceptions
    OwnConcept <- MCOwnConcept
    MisconceptionOf <- MCMisconceptionOf
    Relevant <- MCRelevant
    None = None
    Absent = Absent
    Snippets <- MCSnippets
    Solving = {answer}
    Broken = {typo}
    TauEscalate = 55
    TauAbstain = 35
    Requests <- MemoryRequests
    PlannerReads <- MemoryReads
    Drafts <- MemoryDrafts
    Evals <- MemoryEvals
    MaxRefine = 0
    MaxEscalate = 0
    MaxRetry = 0
    DistressRouting = TRUE
    DistressTrace = TRUE
    RejectedTypes = {}
    MayFail = TRUE
    MaxTurns = 2
    steady = steady
    harsh = harsh
    crisis = crisis
    direct = direct
    Words <- MCWords
    Crisis = {crisis}
    Detectors <- MCDetectors
    Vocabulary <- MCVocabulary
    Overlays <- MCOverlays
INVARIANTS
    TraceMatchesMemory
    HarmIsNeverHonored
    DistressLeavesNoWords
    AlignmentIsOfHonoredGoals
PROPERTIES
    ImplementsLearnerModel
\* The bound MaxTurns ends every behaviour.
CHECK_DEADLOCK FALSE
