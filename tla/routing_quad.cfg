SPECIFICATION Spec
CONSTANTS
    ana = ana
    ben = ben
    north = north
    south = south
    t1 = t1
    t2 = t2
    t3 = t3
    Pids = {ana, ben}
    Codes = {ana, ben}
    Workers = {north}
    Threads = {t1, t2}
    Host <- OneWorker
    Kinds = {"quad"}
    None = None
    MayFault = FALSE
    MaxRequests = 2
    MaxRestarts = 0
INVARIANTS
    QuadLearnersCanReturn
\* The bound MaxRequests ends every behaviour.
CHECK_DEADLOCK FALSE
