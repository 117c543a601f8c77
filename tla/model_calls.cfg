SPECIFICATION Spec
CONSTANTS
    w1 = w1
    w2 = w2
    Workers = {w1, w2}
    Absent = Absent
    Tokens <- MCTokens
    MaxRounds = 2
    MaxTurns = 2
INVARIANTS
    UsageIsTheTurnsOwn
    UsageIsBilled
PROPERTIES
    EveryCallEnds
\* The bound MaxTurns ends every behaviour.
CHECK_DEADLOCK FALSE
