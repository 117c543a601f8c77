SPECIFICATION StudySpec
CONSTANTS
    foundations = foundations
    regression = regression
    grouping = grouping
    linear = linear
    filtering = filtering
    resetIndex = resetIndex
    dropMissing = dropMissing
    Concepts <- MCConcepts
    Exercises <- MCExercises
    Misconceptions <- MCMisconceptions
    OwnConcept <- MCOwnConcept
    MisconceptionOf <- MCMisconceptionOf
    Relevant <- MCRelevant
    None = None
    Absent = Absent
    Topics = {topic}
    MaxTurns = 4
INVARIANTS
    TwoSolvesFirm
    ContrastIsComplete
PROPERTIES
    FirmStays
    OwnExerciseKeepsGrasp
    ReviewIsSpaced
\* The bound MaxTurns ends every behaviour.
CHECK_DEADLOCK FALSE
