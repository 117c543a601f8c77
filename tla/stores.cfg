SPECIFICATION StoresSpec
CONSTANTS
    t1 = t1
    t2 = t2
    Threads = {t1, t2}
    Requests <- MCRequests
    RejectedTypes = {"reflection_recorded"}
    MayFault = TRUE
    MaxRequests = 3
    Absent = Absent
INVARIANTS
    NoneRefused
PROPERTIES
    UndisturbedCommitsAreLocal
    CommitsLand
    ImplementsRecord
    TimelyWorkIsLocal
    EphemeralKeepsRecord
\* The bound MaxRequests ends every behaviour.
CHECK_DEADLOCK FALSE
