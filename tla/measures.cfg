SPECIFICATION Spec
CONSTANTS
    None = None
    Events <- MCEvents
    Window = 2
    Bins = 2
    NaN = NaN
    PosInf = PosInf
    NegInf = NegInf
    Unmeasured = 3
    Grain = 3
    Certain = 4
    MaxEvents = 5
INVARIANTS
    OutcomeIsProgress
    ProcessMeasuresAreRight
    EceIsBracketed
PROPERTIES
    MeasuresSettle
\* The bound MaxEvents ends every behaviour.
CHECK_DEADLOCK FALSE
