SPECIFICATION Spec
CONSTANTS
    j1 = j1
    j2 = j2
    j3 = j3
    Jobs <- MCJobs
    Workers = {w1, w2}
    Shutters = {s1}
    BufferSize = 1
    Parent <- MCParent
    External = External
    NoJob = NoJob
\* Once the jobs are spent and the pool is closed, nothing is left to do.
CHECK_DEADLOCK FALSE
INVARIANT DispatchReturns
