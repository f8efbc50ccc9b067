SPECIFICATION FairSpec
CONSTANTS
    j1 = j1
    j2 = j2
    w1 = w1
    py = py
    q1 = q1
    q2 = q2
    NoMsg = NoMsg
    Jobs = {j1}
    Malformed = {j1}
    Workers = {py}
    PyWorkers = {py}
    Queues = {q1}
    QueueOf <- OneQueue
    Polls <- PollOne
    Registry <- KnowAll
    Retry <- AllTwoTries
    MaxStops = 0
    MaxDbErrors = 0
    MaxOverruns = 0
PROPERTY MalformedIsArchived
