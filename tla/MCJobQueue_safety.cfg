SPECIFICATION Spec
CONSTANTS
    j1 = j1
    j2 = j2
    w1 = w1
    py = py
    q1 = q1
    q2 = q2
    NoMsg = NoMsg
    Jobs = {j1, j2}
    Malformed = {}
    Workers = {w1, py}
    PyWorkers = {py}
    Queues = {q1}
    QueueOf <- OneQueue
    Polls <- PollOne
    Registry <- KnowSplit
    Retry <- AllTwoTries
    MaxStops = 1
    MaxDbErrors = 1
    MaxOverruns = 1
INVARIANTS LeaseIsExclusive AttemptsAreFailures RetriesFollowSchedule DeadLetterJustified
PROPERTY LostOnlyInHandoff
