----------------------------- MODULE MCJobQueue -----------------------------
(* Small instances of JobQueue for TLC. *)
EXTENDS JobQueue, TLC

CONSTANTS j1, j2, w1, py, q1, q2

\* Two attempts make both ends of the catch branch reachable.
TwoTries == [maxAttempts |-> 2, schedule |-> <<30, 120>>]
AllTwoTries == [j \in Jobs |-> TwoTries]

OneQueue == [j \in Jobs |-> q1]
PollOne == [w \in Workers |-> <<q1>>]
KnowAll == [w \in Workers |-> Jobs]

\* A Node worker owns two queues and shares the first with a Python worker.
TwoQueues == (j1 :> q1) @@ (j2 :> q2)
SharedPolls == (w1 :> <<q1, q2>>) @@ (py :> <<q1>>)

\* The Python worker knows a job that the Node worker does not.
KnowSplit == (w1 :> {j1}) @@ (py :> {j1, j2})

=============================================================================
