SPECIFICATION Spec
CONSTANTS
    j1 = j1
    j2 = j2
    j3 = j3
    r1 = r1
    c1 = c1
    c2 = c2
    Jobs <- MCJobs
    Requests = {r1}
    Caller <- MCCaller
    Workers = {w1, w2}
    BufferSize = 1
    Callbacks = {c1, c2}
    Main = Main
    External = External
    NoJob = NoJob
\* The process ends.
CHECK_DEADLOCK FALSE
CONSTRAINT MCBound
INVARIANTS
    HandlersUndisturbed
    ClosedDbUseExplained
    UnservedJobsExplained
    ListenersServed
