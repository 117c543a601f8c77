SPECIFICATION Spec
CONSTANTS
    Checks <- MCChecks
    Tasks <- NanTasks
    MaxTasks = 1
INVARIANT GoalMetIsEarned
\* The bound MaxTasks ends every behaviour.
CHECK_DEADLOCK FALSE
