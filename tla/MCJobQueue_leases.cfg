SPECIFICATION FairSpec
CONSTANTS
    j1 = j1
    j2 = j2
    w1 = w1
    py = py
    q1 = q1
    q2 = q2
    NoMsg = NoMsg
    Jobs = {j1, j2}
    Malformed = {j2}
    Workers = {w1, py}
    PyWorkers = {py}
    Queues = {q1, q2}
    QueueOf <- TwoQueues
    Polls <- SharedPolls
    Registry <- KnowAll
    Retry <- AllTwoTries
    MaxStops = 1
    MaxDbErrors = 1
    MaxOverruns = 0
PROPERTIES LeaseProtocol EventuallySettled DrainEnds
