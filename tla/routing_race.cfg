SPECIFICATION Spec
CONSTANTS
    ana = ana
    ben = ben
    north = north
    south = south
    t1 = t1
    t2 = t2
    t3 = t3
    Pids = {ana, ben}
    Codes = {ana, ben}
    Workers = {north}
    Threads = {t1, t2}
    Host <- OneWorker
    Kinds = {"serve"}
    None = None
    MayFault = FALSE
    MaxRequests = 2
    MaxRestarts = 0
INVARIANTS
    SessionHasOneStore
\* The bound MaxRequests ends every behaviour.
CHECK_DEADLOCK FALSE
