--------------------------- MODULE JobQueue_proofs ---------------------------
(***************************************************************************)
(* Theorems about JobQueue, for every set of jobs, workers and queues, every *)
(* retry policy and every bound on the faults.                              *)
(***************************************************************************)
EXTENDS JobQueue, TLAPS

\* The steps of a worker, in three groups: those that leave the queue tables
\* alone but for a lease, those that settle a message, those of its process.
LoopStep(w) == Poll(w) \/ ReadRow(w) \/ ReadEmpty(w) \/ ReadFails(w)
               \/ HandlerReturns(w) \/ HandlerThrows(w)

StatementStep(w) == \/ Acknowledge(w) \/ AcknowledgeFails(w) \/ Bury(w) \/ BuryFails(w)
                    \/ DeleteForRetry(w) \/ DeleteForRetryFails(w)
                    \/ Resend(w) \/ ResendFails(w)

ProcessStep(w) == \/ LoopExit(w) \/ Restart(w) \/ Sigterm(w)
                  \/ GraceExpires(w) \/ Crash(w)

-----------------------------------------------------------------------------
(* Facts about the operators of pgmq.                                       *)

\* A backoff is a number of seconds: scheduleSeconds holds numbers.
LEMMA BackoffType ==
    ASSUME NEW j \in Jobs, NEW a \in Nat
    PROVE  Backoff(j, a) \in Nat
<1>1. Retry[j].schedule \in Seq(Nat)
  BY JobQueueAssumption
<1>2. QED
  BY <1>1 DEF Backoff

\* pgmq.send keeps the tables well-typed.
LEMMA SendType ==
    ASSUME TypeOK, NEW j \in Jobs, NEW a \in Nat, NEW t \in Seq(Nat),
           NEW d \in BOOLEAN, Send(j, a, t, d)
    PROVE  /\ queue' \in SUBSET Message
           /\ hidden' \subseteq queue'
           /\ archive' \in SUBSET [msg : Message, why : Reason]
           /\ nextId' \in Nat
<1> DEFINE m == [id |-> nextId, job |-> j, attempt |-> a, waits |-> t]
<1>1. m \in Message
  BY DEF TypeOK, Message
<1>2. queue' = queue \cup {m} /\ hidden' \subseteq hidden \cup {m}
  BY DEF Send
<1>3. QED
  BY <1>1, <1>2 DEF Send, TypeOK

\* pgmq.delete and pgmq.archive keep the tables well-typed.
LEMMA DeleteType ==
    ASSUME TypeOK, NEW m, Delete(m)
    PROVE  /\ queue' \in SUBSET Message
           /\ hidden' \subseteq queue'
           /\ archive' \in SUBSET [msg : Message, why : Reason]
           /\ nextId' \in Nat
BY DEF Delete, TypeOK

LEMMA ArchiveType ==
    ASSUME TypeOK, NEW m, NEW why \in Reason, Archive(m, why)
    PROVE  /\ queue' \in SUBSET Message
           /\ hidden' \subseteq queue'
           /\ archive' \in SUBSET [msg : Message, why : Reason]
           /\ nextId' \in Nat
<1>1. m \in queue => [msg |-> m, why |-> why] \in [msg : Message, why : Reason]
  BY DEF TypeOK
<1>2. QED
  BY <1>1 DEF Archive, TypeOK

LEMMA NoMsgIsNoMessage == NoMsg \notin Message
BY JobQueueAssumption DEF Message

\* A worker in a busy state holds a message.
LEMMA BusyHolds ==
    ASSUME TypeOK, NEW w \in Workers, pc[w] \in Busy
    PROVE  held[w] \in Message /\ held[w].job \in Jobs /\ held[w].attempt \in Nat
           /\ held[w].waits \in Seq(Nat)
BY DEF TypeOK, Message

\* The catch branch keeps the worker busy on the message it held.
LEMMA AttemptFailedType ==
    ASSUME TypeOK, NEW w \in Workers, pc[w] \in Busy, AttemptFailed(w)
    PROVE  /\ fails' \in [Jobs -> Nat]
           /\ pc' \in [Workers -> PC]
           /\ held' \in [Workers -> Message \cup {NoMsg}]
           /\ \A v \in Workers : (pc'[v] \in Busy) <=> (held'[v] # NoMsg)
<1> DEFINE j == held[w].job
<1>1. j \in Jobs
  BY BusyHolds
<1>2. fails' = [fails EXCEPT ![j] = fails[j] + 1] /\ held' = held
  BY DEF AttemptFailed
<1>3. PICK label \in {"burying", "retrying"} : pc' = [pc EXCEPT ![w] = label]
  BY DEF AttemptFailed, Goto
<1>4. fails' \in [Jobs -> Nat]
  BY <1>1, <1>2 DEF TypeOK
<1>5. QED
  BY <1>2, <1>3, <1>4 DEF TypeOK, PC, Busy

-----------------------------------------------------------------------------
(* Type correctness.                                                        *)

LEMMA LoopStepType ==
    ASSUME TypeOK, NEW w \in Workers, LoopStep(w)
    PROVE  TypeOK'
<1> USE JobQueueAssumption DEF TypeOK, PC, Busy
<1>1. CASE Poll(w)
  BY <1>1 DEF Poll, Goto, pgmqVars, faultVars
<1>2. CASE ReadRow(w)
  BY <1>2, NoMsgIsNoMessage DEF ReadRow, Goto, NextQueue, Dispatch, Oldest, Visible, faultVars
<1>3. CASE ReadEmpty(w)
  BY <1>3 DEF ReadEmpty, Goto, NextQueue, pgmqVars, faultVars
<1>4. CASE ReadFails(w)
  BY <1>4 DEF ReadFails, Goto, NextQueue, DbError, AfterDbError, Oldest, Visible
<1>5. CASE HandlerReturns(w)
  BY <1>5, BusyHolds DEF HandlerReturns, Goto, pgmqVars, faultVars
<1>6. CASE HandlerThrows(w)
  <2>1. pc[w] \in Busy /\ AttemptFailed(w)
    BY <1>6 DEF HandlerThrows
  <2>2. UNCHANGED <<pgmqVars, enqueued, cursor, draining, done, faultVars>>
    BY <1>6 DEF HandlerThrows
  <2>3. QED
    BY <2>1, <2>2, AttemptFailedType DEF pgmqVars, faultVars
<1>7. QED
  BY <1>1, <1>2, <1>3, <1>4, <1>5, <1>6, LoopStep(w) DEF LoopStep

\* Leaving a message: the worker ends the handling of what it held.
LEMMA DropType ==
    ASSUME TypeOK, NEW w \in Workers, NEW label \in {"idle", "stopped"}, Drop(w, label)
    PROVE  /\ pc' \in [Workers -> PC]
           /\ held' \in [Workers -> Message \cup {NoMsg}]
           /\ \A v \in Workers : (pc'[v] \in Busy) <=> (held'[v] # NoMsg)
BY DEF TypeOK, PC, Busy, Drop, Goto

LEMMA StatementStepType ==
    ASSUME TypeOK, NEW w \in Workers, StatementStep(w)
    PROVE  TypeOK'
<1> DEFINE Tables == /\ queue' \in SUBSET Message
                     /\ hidden' \subseteq queue'
                     /\ archive' \in SUBSET [msg : Message, why : Reason]
                     /\ nextId' \in Nat
<1> DEFINE Loop == /\ pc' \in [Workers -> PC]
                   /\ held' \in [Workers -> Message \cup {NoMsg}]
                   /\ \A v \in Workers : (pc'[v] \in Busy) <=> (held'[v] # NoMsg)
<1> DEFINE Rest == /\ fails' \in [Jobs -> Nat]
                   /\ UNCHANGED <<enqueued, cursor, draining, done, stops, overruns>>
                   /\ dbErrors' \in 0 .. MaxDbErrors
<1>1. Tables /\ Loop /\ Rest => TypeOK'
  BY DEF TypeOK
<1>2. pc[w] \in Busy
  BY DEF StatementStep, Acknowledge, AcknowledgeFails, Bury, BuryFails, DeleteForRetry,
         DeleteForRetryFails, Resend, ResendFails, Busy, PC
<1>3. UNCHANGED pgmqVars => Tables
  BY DEF pgmqVars, TypeOK
<1>4. Delete(held[w]) => Tables
  BY DeleteType
<1>5. Archive(held[w], WhyBuried(w)) => Tables
  BY ArchiveType DEF WhyBuried, Reason
<1>6. ASSUME SendRetry(w) PROVE Tables
  <2> DEFINE j == held[w].job
             a == held[w].attempt + 1
             t == Append(held[w].waits, Backoff(j, a))
             d == Backoff(j, a) > 0
  <2>1. j \in Jobs /\ held[w].attempt \in Nat /\ held[w].waits \in Seq(Nat)
    BY <1>2, BusyHolds
  <2>2. a \in Nat
    BY <2>1
  <2>3. Backoff(j, a) \in Nat
    BY <2>1, <2>2, BackoffType
  <2>4. t \in Seq(Nat) /\ d \in BOOLEAN
    BY <2>1, <2>3
  <2>5. Send(j, a, t, d)
    BY <1>6 DEF SendRetry
  <2> HIDE DEF j, a, t, d
  <2>6. QED
    BY <2>1, <2>2, <2>4, <2>5, SendType
<1>7. UNCHANGED faultVars => UNCHANGED <<stops, overruns>> /\ dbErrors' \in 0 .. MaxDbErrors
  BY DEF faultVars, TypeOK
<1>8. DbError => UNCHANGED <<stops, overruns>> /\ dbErrors' \in 0 .. MaxDbErrors
  BY JobQueueAssumption DEF DbError, TypeOK
<1>9. fails' = fails => fails' \in [Jobs -> Nat]
  BY DEF TypeOK
<1>10. AfterDbError(w) \in {"idle", "stopped"}
  BY DEF AfterDbError
<1> HIDE DEF Tables, Loop
<1>11. CASE Acknowledge(w)
  BY <1>1, <1>4, <1>7, <1>9, <1>11, DropType DEF Acknowledge, Loop
<1>12. CASE AcknowledgeFails(w)
  BY <1>1, <1>2, <1>3, <1>4, <1>8, <1>12, AttemptFailedType DEF AcknowledgeFails, Loop
<1>13. CASE Bury(w)
  BY <1>1, <1>5, <1>7, <1>9, <1>13, DropType DEF Bury, Loop
<1>14. CASE BuryFails(w)
  BY <1>1, <1>3, <1>5, <1>8, <1>9, <1>10, <1>14, DropType DEF BuryFails, Loop
<1>15. CASE DeleteForRetry(w)
  <2>1. Loop
    BY <1>15 DEF Loop, DeleteForRetry, Goto, TypeOK, PC, Busy
  <2>2. QED
    BY <2>1, <1>1, <1>4, <1>7, <1>9, <1>15 DEF DeleteForRetry
<1>16. CASE DeleteForRetryFails(w)
  BY <1>1, <1>3, <1>4, <1>8, <1>9, <1>10, <1>16, DropType DEF DeleteForRetryFails, Loop
<1>17. CASE Resend(w)
  BY <1>1, <1>6, <1>7, <1>9, <1>17, DropType DEF Resend, Loop
<1>18. CASE ResendFails(w)
  BY <1>1, <1>3, <1>6, <1>8, <1>9, <1>10, <1>18, DropType DEF ResendFails, Loop
<1>19. QED
  BY <1>11, <1>12, <1>13, <1>14, <1>15, <1>16, <1>17, <1>18 DEF StatementStep

LEMMA ProcessStepType ==
    ASSUME TypeOK, NEW w \in Workers, ProcessStep(w)
    PROVE  TypeOK'
<1> USE JobQueueAssumption DEF TypeOK, PC, Busy, pgmqVars, faultVars, Goto, Drop
<1>1. CASE LoopExit(w)
  BY <1>1 DEF LoopExit
<1>2. CASE Restart(w)
  <2>1. Len(Polls[w]) \in Nat /\ Len(Polls[w]) >= 1
    BY <1>2
  <2>2. QED
    BY <1>2, <2>1 DEF Restart
<1>3. CASE Sigterm(w)
  BY <1>3 DEF Sigterm
<1>4. CASE GraceExpires(w)
  BY <1>4 DEF GraceExpires
<1>5. CASE Crash(w)
  BY <1>5 DEF Crash
<1>6. QED
  BY <1>1, <1>2, <1>3, <1>4, <1>5 DEF ProcessStep

LEMMA EnvironmentStepType ==
    ASSUME TypeOK,
           \/ \E j \in Jobs : Enqueue(j)
           \/ \E m \in hidden : BecomeVisible(m)
    PROVE  TypeOK'
<1>1. ASSUME NEW j \in Jobs, Enqueue(j)
      PROVE  TypeOK'
  <2>1. PICK d \in BOOLEAN : Send(j, 0, <<>>, d)
    BY <1>1 DEF Enqueue
  <2>2. /\ queue' \in SUBSET Message
        /\ hidden' \subseteq queue'
        /\ archive' \in SUBSET [msg : Message, why : Reason]
        /\ nextId' \in Nat
    <3>1. 0 \in Nat /\ <<>> \in Seq(Nat)
      OBVIOUS
    <3>2. QED
      BY <2>1, <3>1, SendType
  <2>3. QED
    BY <1>1, <2>2 DEF Enqueue, TypeOK, workerVars, faultVars
<1>2. ASSUME NEW m \in hidden, BecomeVisible(m)
      PROVE  TypeOK'
  BY <1>2, JobQueueAssumption DEF BecomeVisible, TypeOK, workerVars
<1>3. QED
  BY <1>1, <1>2

\* What one step of the specification can be.
LEMMA NextCases ==
    ASSUME Next
    PROVE  \/ \E j \in Jobs : Enqueue(j)
           \/ \E m \in hidden : BecomeVisible(m)
           \/ \E w \in Workers : LoopStep(w) \/ StatementStep(w) \/ ProcessStep(w)
BY DEF Next, Advance, Fault, LoopStep, StatementStep, ProcessStep

\* The state is always well-typed: in particular a worker holds a message
\* exactly while handleMessage runs, and polls only a queue of its own list.
THEOREM TypeCorrect == Spec => []TypeOK
<1>1. Init => TypeOK
  <2>1. \A w \in Workers : Polls[w] \in Seq(Queues) /\ Polls[w] # <<>>
    BY JobQueueAssumption
  <2>2. \A w \in Workers : 1 \in 1 .. Len(Polls[w])
    BY <2>1
  <2>3. QED
    BY <2>2, JobQueueAssumption DEF Init, TypeOK, PC, Busy
<1>2. TypeOK /\ [Next]_vars => TypeOK'
  <2>1. ASSUME TypeOK, Next PROVE TypeOK'
    BY <2>1, NextCases, EnvironmentStepType, LoopStepType, StatementStepType, ProcessStepType
  <2>2. ASSUME TypeOK, UNCHANGED vars PROVE TypeOK'
    BY <2>2 DEF vars, pgmqVars, workerVars, faultVars, TypeOK
  <2>3. QED
    BY <2>1, <2>2
<1>3. QED
  BY <1>1, <1>2, PTL DEF Spec

-----------------------------------------------------------------------------
(* Attempts, dead letters and lost jobs: the inductive invariant.           *)

\* The attempt a message carries is one that has failed, and not the last.
Counted(m) == /\ m.job \in enqueued
              /\ m.attempt <= fails[m.job]
              /\ m.attempt < Retry[m.job].maxAttempts

\* What a worker knows of its message at each await of handleMessage.
Handling(w) ==
    LET m == held[w]
        max == Retry[m.job].maxAttempts
    IN  pc[w] \in Busy =>
          /\ Counted(m)
          /\ \E i \in DOMAIN Polls[w] : Polls[w][i] = QueueOf[m.job]
          /\ pc[w] = "acking" => m.job \in done
          /\ pc[w] \in {"retrying", "resending"} =>
                m.attempt < fails[m.job] /\ m.attempt + 1 < max
          /\ pc[w] = "burying" => \/ m.job \in Malformed
                                  \/ m.job \notin Registry[w]
                                  \/ fails[m.job] >= max

HandlingInv ==
    /\ \A m \in queue : Counted(m)
    /\ \A w \in Workers : Handling(w)
    /\ DeadLetterJustified

\* The histories never shrink.
Monotone == /\ enqueued \subseteq enqueued'
            /\ done \subseteq done'
            /\ \A j \in Jobs : fails[j] <= fails'[j]

\* A worker's step leaves the other workers where they are.
OthersStay(w) == \A v \in Workers \ {w} : pc'[v] = pc[v] /\ held'[v] = held[v]

LEMMA WorkerStepLocal ==
    ASSUME TypeOK, NEW w \in Workers, LoopStep(w) \/ StatementStep(w) \/ ProcessStep(w)
    PROVE  OthersStay(w) /\ enqueued' = enqueued
<1> USE DEF TypeOK, OthersStay, Goto, Drop
<1>1. CASE LoopStep(w)
  BY <1>1 DEF LoopStep, Poll, ReadRow, ReadEmpty, ReadFails, HandlerReturns,
     HandlerThrows, AttemptFailed
<1>2. CASE StatementStep(w)
  BY <1>2 DEF StatementStep, Acknowledge, AcknowledgeFails, AttemptFailed, Bury, BuryFails,
     DeleteForRetry, DeleteForRetryFails, Resend, ResendFails
<1>3. CASE ProcessStep(w)
  BY <1>3 DEF ProcessStep, LoopExit, Restart, Sigterm, GraceExpires, Crash
<1>4. QED
  BY <1>1, <1>2, <1>3

\* The catch branch adds one to the failures of the job in hand.
LEMMA AttemptFailedCounts ==
    ASSUME TypeOK, NEW w \in Workers, pc[w] \in Busy, AttemptFailed(w)
    PROVE  /\ \A j \in Jobs : fails[j] <= fails'[j]
           /\ fails'[held[w].job] = fails[held[w].job] + 1
           /\ held' = held
           /\ \/ /\ pc'[w] = "burying"
                 /\ held[w].attempt + 1 >= Retry[held[w].job].maxAttempts
              \/ /\ pc'[w] = "retrying"
                 /\ held[w].attempt + 1 < Retry[held[w].job].maxAttempts
<1> DEFINE j == held[w].job
           last == held[w].attempt + 1 >= Retry[j].maxAttempts
<1>1. j \in Jobs /\ held[w].attempt \in Nat /\ Retry[j].maxAttempts \in Nat
  BY BusyHolds, JobQueueAssumption
<1>2. fails' = [fails EXCEPT ![j] = fails[j] + 1] /\ held' = held
  BY DEF AttemptFailed
<1>3. pc' = [pc EXCEPT ![w] = IF last THEN "burying" ELSE "retrying"]
  BY DEF AttemptFailed, Goto
<1>4. pc'[w] = IF last THEN "burying" ELSE "retrying"
  BY <1>3 DEF TypeOK
<1>5. /\ \A k \in Jobs : fails[k] <= fails'[k]
      /\ fails'[j] = fails[j] + 1
  BY <1>1, <1>2 DEF TypeOK
<1>6. ~last => held[w].attempt + 1 < Retry[j].maxAttempts
  BY <1>1
<1>7. QED
  BY <1>2, <1>4, <1>5, <1>6

LEMMA WorkerStepMonotone ==
    ASSUME TypeOK, NEW w \in Workers, LoopStep(w) \/ StatementStep(w) \/ ProcessStep(w)
    PROVE  Monotone
<1>1. \A j \in Jobs : fails[j] \in Nat
  BY DEF TypeOK
<1>2. CASE HandlerThrows(w) \/ AcknowledgeFails(w)
  <2>1. pc[w] \in Busy /\ AttemptFailed(w) /\ done' = done /\ enqueued' = enqueued
    BY <1>2 DEF HandlerThrows, AcknowledgeFails, Busy, PC
  <2>2. QED
    BY <2>1, AttemptFailedCounts DEF Monotone
<1>3. CASE ~(HandlerThrows(w) \/ AcknowledgeFails(w))
  <2>1. fails' = fails /\ done \subseteq done' /\ enqueued' = enqueued
    BY <1>3 DEF LoopStep, StatementStep, ProcessStep, Poll, ReadRow, ReadEmpty, ReadFails,
       HandlerReturns, Acknowledge, Bury, BuryFails, DeleteForRetry, DeleteForRetryFails,
       Resend, ResendFails, LoopExit, Restart, Sigterm, GraceExpires, Crash
  <2>2. QED
    BY <1>1, <2>1 DEF Monotone
<1>4. QED
  BY <1>2, <1>3

\* A message once counted stays counted, and so does what a worker that does
\* not move knows of its message.
LEMMA CountedStays ==
    ASSUME TypeOK, TypeOK', Monotone, NEW m \in Message, Counted(m)
    PROVE  Counted(m)'
BY DEF Counted, Monotone, TypeOK, Message

LEMMA HandlingStays ==
    ASSUME TypeOK, TypeOK', Monotone, NEW v \in Workers, Handling(v),
           pc'[v] = pc[v], held'[v] = held[v]
    PROVE  Handling(v)'
<1>1. CASE pc[v] \in Busy
  <2>1. held[v] \in Message /\ held[v].job \in Jobs /\ held[v].attempt \in Nat
    BY <1>1, BusyHolds
  <2>2. Counted(held[v])'
    <3>1. PICK n \in Message : n = held[v]
      BY <2>1
    <3>2. Counted(n)'
      BY <1>1, <3>1, CountedStays DEF Handling
    <3>3. QED
      BY <3>1, <3>2
  <2>3. /\ fails[held[v].job] <= fails'[held[v].job]
        /\ fails[held[v].job] \in Nat /\ fails'[held[v].job] \in Nat
        /\ Retry[held[v].job].maxAttempts \in Nat
    BY <2>1, JobQueueAssumption DEF Monotone, TypeOK
  <2>4. QED
    BY <1>1, <2>1, <2>2, <2>3 DEF Handling, Monotone, Counted
<1>2. CASE pc[v] \notin Busy
  BY <1>2 DEF Handling
<1>3. QED
  BY <1>1, <1>2

\* The archive keeps its justification when nothing is added to it.
LEMMA JustifiedStays ==
    ASSUME TypeOK, TypeOK', Monotone, DeadLetterJustified, archive' = archive
    PROVE  DeadLetterJustified'
<1>1. \A a \in archive : /\ a.msg.job \in Jobs
                         /\ fails[a.msg.job] <= fails'[a.msg.job]
                         /\ fails[a.msg.job] \in Nat /\ fails'[a.msg.job] \in Nat
                         /\ Retry[a.msg.job].maxAttempts \in Nat
  BY JobQueueAssumption DEF TypeOK, Message, Monotone
<1>2. QED
  BY <1>1 DEF DeadLetterJustified

\* After a failed attempt the worker is entitled to what it does next.
LEMMA AttemptFailedHandling ==
    ASSUME TypeOK, TypeOK', Monotone, NEW w \in Workers, pc[w] \in Busy,
           Handling(w), AttemptFailed(w)
    PROVE  Handling(w)'
<1> DEFINE m == held[w]
           max == Retry[m.job].maxAttempts
<1>1. /\ m \in Message /\ m.job \in Jobs /\ m.attempt \in Nat /\ max \in Nat
      /\ fails[m.job] \in Nat
  BY BusyHolds, JobQueueAssumption DEF TypeOK
<1>2. Counted(m) /\ \E i \in DOMAIN Polls[w] : Polls[w][i] = QueueOf[m.job]
  BY DEF Handling
<1>3. Counted(m)'
  <2>1. PICK n \in Message : n = held[w]
    BY <1>1
  <2>2. Counted(n)'
    BY <1>2, <2>1, CountedStays
  <2>3. QED
    BY <2>1, <2>2, AttemptFailedCounts
<1>4. held' = held /\ fails'[m.job] = fails[m.job] + 1
      /\ \/ pc'[w] = "burying" /\ m.attempt + 1 >= max
         \/ pc'[w] = "retrying" /\ m.attempt + 1 < max
  BY AttemptFailedCounts
<1>5. m.attempt < fails'[m.job]
  BY <1>1, <1>2, <1>4 DEF Counted
<1>6. pc'[w] = "burying" => fails'[m.job] >= max
  BY <1>1, <1>4, <1>5
<1>7. QED
  BY <1>2, <1>3, <1>4, <1>5, <1>6 DEF Handling, Counted

LEMMA LoopStepHandling ==
    ASSUME TypeOK, TypeOK', HandlingInv, NEW w \in Workers, LoopStep(w)
    PROVE  HandlingInv'
<1>1. Monotone /\ OthersStay(w)
  BY WorkerStepMonotone, WorkerStepLocal
<1>2. queue' = queue /\ archive' = archive
  BY DEF LoopStep, Poll, ReadRow, ReadEmpty, ReadFails, HandlerReturns, HandlerThrows, pgmqVars
<1>3. \A m \in queue' : Counted(m)'
  BY <1>1, <1>2, CountedStays DEF HandlingInv, TypeOK
<1>4. \A v \in Workers \ {w} : Handling(v)'
  BY <1>1, HandlingStays DEF OthersStay, HandlingInv
<1>5. DeadLetterJustified'
  BY <1>1, <1>2, JustifiedStays DEF HandlingInv
<1>6. Handling(w)'
  <2>1. CASE Poll(w) \/ ReadEmpty(w) \/ ReadFails(w)
    <3>1. pc'[w] \in {"idle", "reading", "stopped"}
      BY <2>1 DEF Poll, ReadEmpty, ReadFails, Goto, AfterDbError, TypeOK
    <3>2. QED
      BY <3>1 DEF Handling, Busy
  <2>2. CASE ReadRow(w)
    <3>1. PICK m \in queue :
            /\ Oldest(QueueName(w), m)
            /\ Goto(w, Dispatch(w, m))
            /\ held' = [held EXCEPT ![w] = IF Dispatch(w, m) = "stopped" THEN NoMsg ELSE m]
      BY <2>2 DEF ReadRow
    <3>2. pc'[w] = Dispatch(w, m)
      BY <3>1 DEF Goto, TypeOK
    <3>3. CASE Dispatch(w, m) = "stopped"
      BY <3>2, <3>3 DEF Handling, Busy
    <3>4. CASE Dispatch(w, m) # "stopped"
      <4>1. held'[w] = m
        BY <3>1, <3>4 DEF TypeOK
      <4>2. QueueOf[m.job] = Polls[w][cursor[w]] /\ cursor[w] \in DOMAIN Polls[w]
        BY <3>1, JobQueueAssumption DEF Oldest, Visible, QueueName, TypeOK
      <4>3. Counted(m)'
        BY <1>2, <1>3
      <4>4. pc'[w] \in {"running", "burying"}
            /\ (pc'[w] = "burying" => m.job \in Malformed \/ m.job \notin Registry[w])
        BY <3>2, <3>4 DEF Dispatch
      <4>5. QED
        BY <4>1, <4>2, <4>3, <4>4 DEF Handling, Counted
    <3>5. QED
      BY <3>3, <3>4
  <2>3. CASE HandlerReturns(w)
    <3>1. /\ pc[w] = "running" /\ pc'[w] = "acking" /\ held' = held
          /\ done' = done \cup {held[w].job}
      BY <2>3 DEF HandlerReturns, Goto, TypeOK
    <3>2. pc[w] \in Busy
      BY <3>1 DEF Busy, PC
    <3>3. held[w] \in Message /\ Counted(held[w])
      BY <3>2, BusyHolds DEF HandlingInv, Handling
    <3>4. Counted(held[w])'
      <4>1. PICK n \in Message : n = held[w]
        BY <3>3
      <4>2. Counted(n)'
        BY <1>1, <3>3, <4>1, CountedStays
      <4>3. QED
        BY <3>1, <4>1, <4>2
    <3>5. QED
      BY <3>1, <3>2, <3>4 DEF HandlingInv, Handling, Counted
  <2>4. CASE HandlerThrows(w)
    <3>1. pc[w] \in Busy /\ AttemptFailed(w)
      BY <2>4 DEF HandlerThrows, Busy, PC
    <3>2. held[w] \in Message /\ held[w].job \in Jobs /\ held[w].attempt \in Nat
          /\ Counted(held[w])
      BY <3>1, BusyHolds DEF HandlingInv, Handling
    <3>3. QED
      BY <3>1, <3>2, <1>1, AttemptFailedHandling DEF HandlingInv
  <2>5. QED
    BY <2>1, <2>2, <2>3, <2>4 DEF LoopStep
<1>7. QED
  BY <1>3, <1>4, <1>5, <1>6 DEF HandlingInv

\* What the statements do to the queue: nothing new but a counted retry.
LEMMA SendRetryCounted ==
    ASSUME TypeOK, TypeOK', Monotone, NEW w \in Workers, Handling(w),
           pc[w] = "resending", SendRetry(w), \A m \in queue : Counted(m)
    PROVE  \A m \in queue' : Counted(m)'
<1> DEFINE h == held[w]
           n == [id |-> nextId, job |-> h.job, attempt |-> h.attempt + 1,
                 waits |-> Append(h.waits, Backoff(h.job, h.attempt + 1))]
<1>1. queue' = queue \cup {n}
  BY DEF SendRetry, Send
<1>2. pc[w] \in Busy
  BY DEF Busy, PC
<1>3. /\ h.job \in Jobs /\ h.attempt \in Nat
      /\ fails[h.job] \in Nat /\ fails'[h.job] \in Nat /\ fails[h.job] <= fails'[h.job]
  BY <1>2, BusyHolds DEF TypeOK, Monotone
<1>4. h.job \in enqueued /\ h.attempt < fails[h.job]
      /\ h.attempt + 1 < Retry[h.job].maxAttempts
  BY <1>2 DEF Handling, Counted
<1>5. /\ n.job \in enqueued' /\ n.attempt <= fails'[n.job]
      /\ n.attempt < Retry[n.job].maxAttempts
  BY <1>3, <1>4 DEF Monotone
<1>6. TAKE m \in queue'
<1>7. CASE m \in queue
  <2>1. m \in Message
    BY <1>7 DEF TypeOK
  <2>2. QED
    BY <1>7, <2>1, CountedStays
<1>8. CASE m = n
  BY <1>5, <1>8 DEF Counted
<1>9. QED
  BY <1>1, <1>7, <1>8

LEMMA StatementStepHandling ==
    ASSUME TypeOK, TypeOK', HandlingInv, NEW w \in Workers, StatementStep(w)
    PROVE  HandlingInv'
<1>1. Monotone /\ OthersStay(w)
  BY WorkerStepMonotone, WorkerStepLocal
<1>2. pc[w] \in Busy
  BY DEF StatementStep, Acknowledge, AcknowledgeFails, Bury, BuryFails, DeleteForRetry,
         DeleteForRetryFails, Resend, ResendFails, Busy, PC
<1>3. held[w] \in Message /\ held[w].job \in Jobs /\ Handling(w)
  BY <1>2, BusyHolds DEF HandlingInv
<1>4. queue' \subseteq queue => \A m \in queue' : Counted(m)'
  BY <1>1, CountedStays DEF HandlingInv, TypeOK
<1>5. \A m \in queue' : Counted(m)'
  <2>1. CASE pc[w] = "resending" /\ SendRetry(w)
    BY <2>1, <1>1, <1>3, SendRetryCounted DEF HandlingInv
  <2>2. CASE ~(pc[w] = "resending" /\ SendRetry(w))
    <3>1. queue' \subseteq queue
      BY <2>2 DEF StatementStep, Acknowledge, AcknowledgeFails, Bury, BuryFails,
         DeleteForRetry, DeleteForRetryFails, Resend, ResendFails, Delete, Archive, pgmqVars
    <3>2. QED
      BY <3>1, <1>4
  <2>3. QED
    BY <2>1, <2>2
<1>6. \A v \in Workers \ {w} : Handling(v)'
  BY <1>1, HandlingStays DEF OthersStay, HandlingInv
<1>7. Handling(w)'
  <2>1. CASE AcknowledgeFails(w)
    BY <2>1, <1>1, <1>2, <1>3, AttemptFailedHandling DEF AcknowledgeFails
  <2>2. CASE DeleteForRetry(w)
    <3>1. pc[w] = "retrying" /\ pc'[w] = "resending" /\ held' = held /\ fails' = fails
      BY <2>2 DEF DeleteForRetry, Goto, TypeOK
    <3>2. Counted(held[w])'
      BY <1>2, <1>3, <2>2, <3>1 DEF Handling, Counted, DeleteForRetry
    <3>3. QED
      BY <1>2, <1>3, <3>1, <3>2 DEF Handling, Counted
  <2>3. CASE ~AcknowledgeFails(w) /\ ~DeleteForRetry(w)
    <3>1. pc'[w] \in {"idle", "stopped"}
      BY <2>3 DEF StatementStep, Acknowledge, Bury, BuryFails, DeleteForRetryFails,
         Resend, ResendFails, Drop, Goto, AfterDbError, TypeOK
    <3>2. QED
      BY <3>1 DEF Handling, Busy
  <2>4. QED
    BY <2>1, <2>2, <2>3
<1>8. DeadLetterJustified'
  <2>1. CASE archive' = archive
    BY <2>1, <1>1, JustifiedStays DEF HandlingInv
  <2>2. CASE archive' # archive
    <3>1. pc[w] = "burying" /\ fails' = fails
          /\ archive' = archive \cup {[msg |-> held[w], why |-> WhyBuried(w)]}
      BY <2>2 DEF StatementStep, Acknowledge, AcknowledgeFails, Bury, BuryFails,
         DeleteForRetry, DeleteForRetryFails, Resend, ResendFails, Delete, Archive,
         SendRetry, Send, pgmqVars
    <3>2. /\ \E i \in DOMAIN Polls[w] : Polls[w][i] = QueueOf[held[w].job]
          /\ \/ held[w].job \in Malformed
             \/ held[w].job \notin Registry[w]
             \/ fails[held[w].job] >= Retry[held[w].job].maxAttempts
      BY <3>1, <1>2, <1>3 DEF Handling
    <3>3. QED
      BY <3>1, <3>2 DEF DeadLetterJustified, WhyBuried, HandlingInv
  <2>3. QED
    BY <2>1, <2>2
<1>9. QED
  BY <1>5, <1>6, <1>7, <1>8 DEF HandlingInv

LEMMA ProcessStepHandling ==
    ASSUME TypeOK, TypeOK', HandlingInv, NEW w \in Workers, ProcessStep(w)
    PROVE  HandlingInv'
<1>1. Monotone /\ OthersStay(w)
  BY WorkerStepMonotone, WorkerStepLocal
<1>2. queue' = queue /\ archive' = archive
  BY DEF ProcessStep, LoopExit, Restart, Sigterm, GraceExpires, Crash, pgmqVars
<1>3. \A m \in queue' : Counted(m)'
  BY <1>1, <1>2, CountedStays DEF HandlingInv, TypeOK
<1>4. \A v \in Workers \ {w} : Handling(v)'
  BY <1>1, HandlingStays DEF OthersStay, HandlingInv
<1>5. DeadLetterJustified'
  BY <1>1, <1>2, JustifiedStays DEF HandlingInv
<1>6. Handling(w)'
  <2>1. CASE Sigterm(w)
    BY <2>1, <1>1, HandlingStays DEF Sigterm, HandlingInv
  <2>2. CASE ~Sigterm(w)
    <3>1. pc'[w] \in {"idle", "stopped"}
      BY <2>2 DEF ProcessStep, LoopExit, Restart, GraceExpires, Crash, Drop, Goto, TypeOK
    <3>2. QED
      BY <3>1 DEF Handling, Busy
  <2>3. QED
    BY <2>1, <2>2
<1>7. QED
  BY <1>3, <1>4, <1>5, <1>6 DEF HandlingInv

LEMMA EnvironmentStepHandling ==
    ASSUME TypeOK, TypeOK', HandlingInv,
           \/ \E j \in Jobs : Enqueue(j)
           \/ \E m \in hidden : BecomeVisible(m)
    PROVE  HandlingInv'
<1>1. UNCHANGED <<workerVars, fails, done, archive>>
  BY DEF Enqueue, BecomeVisible, Send
<1>2. Monotone
  <2>1. \A j \in Jobs : fails[j] \in Nat
    BY DEF TypeOK
  <2>2. QED
    BY <1>1, <2>1 DEF Monotone, Enqueue, BecomeVisible
<1>3. \A v \in Workers : Handling(v)'
  BY <1>1, <1>2, HandlingStays DEF HandlingInv, workerVars
<1>4. DeadLetterJustified'
  BY <1>1, <1>2, JustifiedStays DEF HandlingInv
<1>5. \A m \in queue' : Counted(m)'
  <2>1. \A m \in queue : Counted(m)'
    BY <1>2, CountedStays DEF HandlingInv, TypeOK
  <2>2. ASSUME NEW j \in Jobs, Enqueue(j), NEW m \in queue', m \notin queue
        PROVE  Counted(m)'
    <3>1. m.job = j /\ m.attempt = 0 /\ j \in enqueued'
      BY <2>2 DEF Enqueue, Send
    <3>2. fails'[j] \in Nat /\ Retry[j].maxAttempts \in Nat \ {0}
      BY JobQueueAssumption DEF TypeOK
    <3>3. QED
      BY <3>1, <3>2 DEF Counted
  <2>3. ASSUME NEW m \in hidden, BecomeVisible(m)
        PROVE  queue' = queue
    BY <2>3 DEF BecomeVisible
  <2>4. QED
    BY <2>1, <2>2, <2>3
<1>6. QED
  BY <1>3, <1>4, <1>5 DEF HandlingInv

LEMMA HandlingInvariant == Spec => []HandlingInv
<1>1. Init => HandlingInv
  BY DEF Init, HandlingInv, Handling, Busy, DeadLetterJustified
<1>2. TypeOK /\ TypeOK' /\ HandlingInv /\ [Next]_vars => HandlingInv'
  <2>1. ASSUME TypeOK, TypeOK', HandlingInv, Next PROVE HandlingInv'
    BY <2>1, NextCases, EnvironmentStepHandling, LoopStepHandling,
       StatementStepHandling, ProcessStepHandling
  <2>2. ASSUME HandlingInv, UNCHANGED vars PROVE HandlingInv'
    BY <2>2 DEF vars, pgmqVars, workerVars, faultVars, HandlingInv, Handling, Counted,
       DeadLetterJustified
  <2>3. QED
    BY <2>1, <2>2
<1>3. QED
  BY <1>1, <1>2, TypeCorrect, PTL DEF Spec

\* However often a message is delivered again, it never carries an attempt that
\* has not failed, nor as many as its policy allows (runWorker.ts:107, 124-129).
THEOREM AttemptsCounted == Spec => []AttemptsAreFailures
<1>1. TypeOK /\ HandlingInv => AttemptsAreFailures
  BY DEF TypeOK, HandlingInv, Handling, Counted, AttemptsAreFailures, Live
<1>2. QED
  BY <1>1, TypeCorrect, HandlingInvariant, PTL

\* Nothing well-formed reaches the dead-letter archive by accident: a worker of
\* its queue does not know the job, or it failed as often as its policy allows.
THEOREM DeadLettersJustified == Spec => []DeadLetterJustified
<1>1. HandlingInv => DeadLetterJustified
  BY DEF HandlingInv
<1>2. QED
  BY <1>1, HandlingInvariant, PTL

-----------------------------------------------------------------------------
(* The delays of a message follow the schedule.                             *)

\* One message that follows its schedule; RetriesFollowSchedule says it of all.
Scheduled(m) ==
    LET s == Retry[m.job].schedule IN
    /\ Len(m.waits) = m.attempt
    /\ \A i \in 1 .. m.attempt : i <= Len(s) => m.waits[i] = s[i]

\* The message a failed one is replaced by.
NextTry(m) == [id |-> nextId, job |-> m.job, attempt |-> m.attempt + 1,
               waits |-> Append(m.waits, Backoff(m.job, m.attempt + 1))]

LEMMA NextTryScheduled ==
    ASSUME NEW m \in Message, Scheduled(m)
    PROVE  Scheduled(NextTry(m))
<1> DEFINE s == Retry[m.job].schedule
           n == m.attempt + 1
           b == Backoff(m.job, n)
           ws == Append(m.waits, b)
<1>1. /\ m.job \in Jobs /\ m.attempt \in Nat /\ m.waits \in Seq(Nat)
      /\ n \in Nat /\ s \in Seq(Nat)
  BY JobQueueAssumption DEF Message
<1>2. b \in Nat
  BY <1>1, BackoffType
<1>3. n <= Len(s) => b = s[n]
  <2>1. n <= Len(s) => n \in DOMAIN s /\ s # <<>>
    BY <1>1
  <2>2. QED
    BY <2>1 DEF Backoff
<1>4. Len(m.waits) = m.attempt /\ \A i \in 1 .. m.attempt : i <= Len(s) => m.waits[i] = s[i]
  BY DEF Scheduled
<1> HIDE DEF b
<1>5. Len(ws) = n /\ ws[n] = b /\ \A i \in 1 .. m.attempt : ws[i] = m.waits[i]
  BY <1>1, <1>2, <1>4
<1>6. \A i \in 1 .. n : i <= Len(s) => ws[i] = s[i]
  BY <1>1, <1>3, <1>4, <1>5
<1>7. /\ NextTry(m).job = m.job /\ NextTry(m).attempt = n /\ NextTry(m).waits = ws
  BY DEF NextTry, b
<1> HIDE DEF n, s, ws
<1>8. Scheduled(NextTry(m)) <=> Len(ws) = n /\ \A i \in 1 .. n : i <= Len(s) => ws[i] = s[i]
  BY <1>7 DEF Scheduled, s
<1>9. QED
  BY <1>5, <1>6, <1>8 DEF n, s, ws

\* Where the messages of the next state come from: they were there, a producer
\* has sent them, or a worker has sent the next try of the message it holds.
LEMMA LiveFrom ==
    ASSUME TypeOK, Next, NEW m \in Live'
    PROVE  \/ m \in Live
           \/ m.attempt = 0 /\ m.waits = <<>>
           \/ \E w \in Workers : pc[w] \in Busy /\ m = NextTry(held[w])
<1>1. CASE \E j \in Jobs : Enqueue(j)
  <2>1. PICK j \in Jobs, d \in BOOLEAN : Send(j, 0, <<>>, d) /\ held' = held
    BY <1>1 DEF Enqueue, workerVars
  <2>2. queue' = queue \cup {[id |-> nextId, job |-> j, attempt |-> 0, waits |-> <<>>]}
    BY <2>1 DEF Send
  <2>3. QED
    BY <2>1, <2>2 DEF Live
<1>2. CASE \E n \in hidden : BecomeVisible(n)
  BY <1>2 DEF BecomeVisible, Live, workerVars
<1>3. ASSUME NEW w \in Workers, LoopStep(w) \/ StatementStep(w) \/ ProcessStep(w)
      PROVE  \/ m \in Live
             \/ pc[w] \in Busy /\ m = NextTry(held[w])
  <2>1. \A v \in Workers \ {w} : held'[v] = held[v]
    BY <1>3, WorkerStepLocal DEF OthersStay
  <2>2. held'[w] \in queue \cup {held[w], NoMsg}
    BY <1>3 DEF LoopStep, StatementStep, ProcessStep, Poll, ReadRow, ReadEmpty, ReadFails,
       HandlerReturns, HandlerThrows, AttemptFailed, Acknowledge, AcknowledgeFails, Bury,
       BuryFails, DeleteForRetry, DeleteForRetryFails, Resend, ResendFails, LoopExit,
       Restart, Sigterm, GraceExpires, Crash, Drop, Goto, TypeOK, Oldest, Visible
  <2>3. \/ queue' \subseteq queue
        \/ pc[w] = "resending" /\ queue' = queue \cup {NextTry(held[w])}
    <3>1. SendRetry(w) => queue' = queue \cup {NextTry(held[w])}
      BY DEF SendRetry, Send, NextTry
    <3> HIDE DEF SendRetry
    <3>2. QED
      BY <1>3, <3>1 DEF LoopStep, StatementStep, ProcessStep, Poll, ReadRow, ReadEmpty,
         ReadFails, HandlerReturns, HandlerThrows, Acknowledge, AcknowledgeFails, Bury,
         BuryFails, DeleteForRetry, DeleteForRetryFails, Resend, ResendFails, LoopExit,
         Restart, Sigterm, GraceExpires, Crash, Delete, Archive, pgmqVars
  <2>4. QED
    BY <2>1, <2>2, <2>3 DEF Live, Busy, PC
<1>4. QED
  BY <1>1, <1>2, <1>3, NextCases

LEMMA LiveTyped == TypeOK => /\ \A m \in Live : m \in Message
                             /\ \A w \in Workers : pc[w] \in Busy => held[w] \in Live
BY DEF TypeOK, Live

\* Every message has been delayed by the entries of its schedule in their order
\* (defineJob.ts:4; runWorker.ts:128; main.py's min(attempt - 1, ...)).
THEOREM RetriesScheduled == Spec => []RetriesFollowSchedule
<1> DEFINE Inv == \A m \in Live : Scheduled(m)
<1>1. Init => Inv
  BY DEF Init, Live
<1>2. TypeOK /\ Inv /\ [Next]_vars => Inv'
  <2>1. ASSUME TypeOK, Inv, Next PROVE Inv'
    <3>1. ASSUME NEW m \in Live' PROVE Scheduled(m)
      <4>1. CASE m \in Live
        BY <2>1, <4>1
      <4>2. CASE m.attempt = 0 /\ m.waits = <<>>
        BY <4>2 DEF Scheduled
      <4>3. ASSUME NEW w \in Workers, pc[w] \in Busy, m = NextTry(held[w])
            PROVE  Scheduled(m)
        <5>1. held[w] \in Message /\ Scheduled(held[w])
          BY <2>1, <4>3, LiveTyped
        <5>2. QED
          BY <4>3, <5>1, NextTryScheduled
      <4>4. QED
        BY <2>1, <4>1, <4>2, <4>3, LiveFrom
    <3>2. QED
      BY <3>1
  <2>2. ASSUME Inv, UNCHANGED vars PROVE Inv'
    BY <2>2 DEF vars, pgmqVars, workerVars, Live
  <2>3. QED
    BY <2>1, <2>2
<1>3. Inv => RetriesFollowSchedule
  BY DEF RetriesFollowSchedule, Scheduled
<1>4. QED
  BY <1>1, <1>2, <1>3, TypeCorrect, PTL DEF Spec

-----------------------------------------------------------------------------
(* Lost jobs.                                                               *)

\* A job can only disappear while a worker replaces its failed message by the
\* next one: everywhere else the visibility timeout brings it back.
THEOREM JobsLostOnlyInHandoff == Spec => LostOnlyInHandoff
<1>1. TypeOK /\ HandlingInv /\ [Next]_vars => [LossIsHandoff]_vars
  <2> SUFFICES ASSUME TypeOK, HandlingInv, Next, NEW j \in Jobs,
                      Accounted(j), ~Accounted(j)'
               PROVE  \E w \in Workers : /\ pc[w] \in {"retrying", "resending"}
                                         /\ held[w].job = j
                                         /\ pc'[w] \in {"idle", "stopped"}
    BY DEF LossIsHandoff
  <2>1. ASSUME \/ \E k \in Jobs : Enqueue(k)
               \/ \E m \in hidden : BecomeVisible(m)
        PROVE  Accounted(j)'
    BY <2>1 DEF Enqueue, Send, BecomeVisible, workerVars, Accounted, Queued, InHandoff, Archived
  <2>2. PICK w \in Workers : LoopStep(w) \/ StatementStep(w) \/ ProcessStep(w)
    BY <2>1, NextCases
  <2>3. OthersStay(w) /\ done \subseteq done' /\ archive \subseteq archive'
    <3>1. Monotone /\ OthersStay(w)
      BY <2>2, WorkerStepMonotone, WorkerStepLocal
    <3>2. archive \subseteq archive'
      BY <2>2 DEF LoopStep, StatementStep, ProcessStep, Poll, ReadRow, ReadEmpty, ReadFails,
         HandlerReturns, HandlerThrows, Acknowledge, AcknowledgeFails, Bury, BuryFails,
         DeleteForRetry, DeleteForRetryFails, Resend, ResendFails, LoopExit, Restart,
         Sigterm, GraceExpires, Crash, Delete, Archive, SendRetry, Send, pgmqVars
    <3>3. QED
      BY <3>1, <3>2 DEF Monotone
  <2>4. j \notin done /\ ~Archived(j)
    BY <2>3 DEF Accounted, Archived
  <2>5. \A v \in Workers \ {w} : ~(pc[v] = "resending" /\ held[v].job = j)
    BY <2>3 DEF OthersStay, Accounted, InHandoff
  <2>6. CASE LoopStep(w)
    <3>1. queue' = queue /\ pc[w] # "resending"
      BY <2>6 DEF LoopStep, Poll, ReadRow, ReadEmpty, ReadFails, HandlerReturns,
         HandlerThrows, pgmqVars
    <3>2. QED
      BY <3>1, <2>4, <2>5 DEF Accounted, Queued, InHandoff
  <2>7. CASE StatementStep(w)
    <3>1. pc[w] \in Busy
      BY <2>7 DEF StatementStep, Acknowledge, AcknowledgeFails, Bury, BuryFails,
         DeleteForRetry, DeleteForRetryFails, Resend, ResendFails, Busy, PC
    <3>2. held[w] \in Message /\ Handling(w)
      BY <3>1, BusyHolds DEF HandlingInv
    <3>3. queue \ {held[w]} \subseteq queue'
      BY <2>7 DEF StatementStep, Acknowledge, AcknowledgeFails, Bury, BuryFails,
         DeleteForRetry, DeleteForRetryFails, Resend, ResendFails, Delete, Archive,
         SendRetry, Send, pgmqVars
    <3>4. held[w].job = j
      BY <3>3, <2>4, <2>5 DEF Accounted, Queued, InHandoff
    <3>5. pc[w] # "acking"
      BY <3>1, <3>2, <3>4, <2>4 DEF Handling
    <3>6. pc[w] # "burying"
      <4>1. ASSUME pc[w] = "burying" PROVE UNCHANGED queue \/ Archive(held[w], WhyBuried(w))
        BY <4>1, <2>7 DEF StatementStep, Acknowledge, AcknowledgeFails, Bury, BuryFails,
           DeleteForRetry, DeleteForRetryFails, Resend, ResendFails, pgmqVars
      <4>2. ASSUME Archive(held[w], WhyBuried(w)), held[w] \in queue PROVE FALSE
        <5>1. [msg |-> held[w], why |-> WhyBuried(w)] \in archive'
          BY <4>2 DEF Archive
        <5>2. QED
          BY <5>1, <3>4 DEF Accounted, Archived
      <4>3. ASSUME UNCHANGED queue, pc[w] = "burying" PROVE FALSE
        BY <4>3, <2>4, <2>5 DEF Accounted, Queued, InHandoff
      <4>4. Archive(held[w], WhyBuried(w)) /\ held[w] \notin queue => UNCHANGED queue
        BY DEF Archive
      <4>5. QED
        BY <4>1, <4>2, <4>3, <4>4
    <3>7. ~DeleteForRetry(w)
      <4>1. DeleteForRetry(w) => pc'[w] = "resending" /\ held'[w] = held[w]
        BY DEF DeleteForRetry, Goto, TypeOK
      <4>2. QED
        BY <4>1, <3>4 DEF Accounted, InHandoff
    <3>8. /\ pc[w] \in {"retrying", "resending"}
          /\ pc'[w] \in {"idle", "stopped"}
      BY <2>7, <3>5, <3>6, <3>7 DEF StatementStep, Acknowledge, AcknowledgeFails, Bury,
         BuryFails, DeleteForRetryFails, Resend, ResendFails, Drop, Goto, AfterDbError, TypeOK
    <3>9. QED
      BY <3>4, <3>8
  <2>8. CASE ProcessStep(w)
    <3>1. queue' = queue
      BY <2>8 DEF ProcessStep, LoopExit, Restart, Sigterm, GraceExpires, Crash, pgmqVars
    <3>2. pc[w] = "resending" /\ held[w].job = j /\ ~(pc'[w] = "resending" /\ held'[w].job = j)
      BY <3>1, <2>4, <2>5 DEF Accounted, Queued, InHandoff
    <3>3. pc'[w] = "stopped"
      BY <3>2, <2>8 DEF ProcessStep, LoopExit, Restart, Sigterm, GraceExpires, Crash, Drop,
         Goto, TypeOK
    <3>4. QED
      BY <3>2, <3>3
  <2>9. QED
    BY <2>2, <2>6, <2>7, <2>8
<1>2. QED
  BY <1>1, TypeCorrect, HandlingInvariant, PTL DEF Spec, LostOnlyInHandoff

-----------------------------------------------------------------------------
(* The lease as a lock.                                                     *)

\* While no lease has run out under a live handler: a job is in the hands of one
\* worker and has one message; and what a worker holds is leased, or is deleted.
ExclusiveInv ==
    overruns = 0 =>
        /\ \A v, w \in Workers :
             v # w /\ pc[v] \in Busy /\ pc[w] \in Busy => held[v].job # held[w].job
        /\ \A m, n \in queue : m.job = n.job => m = n
        /\ \A w \in Workers : pc[w] \in Busy =>
             \A n \in queue : n.job = held[w].job =>
                n = held[w] /\ n \in hidden /\ pc[w] # "resending"

LEMMA LoopStepExclusive ==
    ASSUME TypeOK, ExclusiveInv, NEW w \in Workers, LoopStep(w)
    PROVE  ExclusiveInv'
<1>1. OthersStay(w)
  BY WorkerStepLocal
<1>2. queue' = queue /\ hidden \subseteq hidden' /\ overruns' = overruns
  BY DEF LoopStep, Poll, ReadRow, ReadEmpty, ReadFails, HandlerReturns, HandlerThrows,
         DbError, pgmqVars, faultVars
<1>3. CASE ReadRow(w)
  <2>1. PICK m \in queue : /\ Oldest(QueueName(w), m)
                           /\ hidden' = hidden \cup {m}
                           /\ Goto(w, Dispatch(w, m))
                           /\ held' = [held EXCEPT ![w] = IF Dispatch(w, m) = "stopped"
                                                          THEN NoMsg ELSE m]
    BY <1>3 DEF ReadRow
  <2>2. pc'[w] = Dispatch(w, m) /\ m \notin hidden /\ m \in hidden'
    BY <2>1 DEF Goto, TypeOK, Oldest, Visible
  <2>3. pc'[w] \in Busy => held'[w] = m /\ pc'[w] # "resending"
    BY <2>1, <2>2 DEF TypeOK, Busy, Dispatch
  <2>4. overruns = 0 => \A v \in Workers : pc[v] \in Busy => held[v].job # m.job
    BY <2>2 DEF ExclusiveInv
  <2>5. QED
    BY <1>1, <1>2, <2>2, <2>3, <2>4 DEF ExclusiveInv, OthersStay
<1>4. CASE ~ReadRow(w)
  <2>1. held' = held /\ (pc'[w] \in Busy => pc[w] \in Busy /\ pc'[w] # "resending")
    BY <1>4 DEF LoopStep, Poll, ReadEmpty, ReadFails, HandlerReturns, HandlerThrows,
       AttemptFailed, AfterDbError, Goto, TypeOK, Busy, PC
  <2>2. QED
    BY <1>1, <1>2, <2>1 DEF ExclusiveInv, OthersStay
<1>5. QED
  BY <1>3, <1>4

LEMMA StatementStepExclusive ==
    ASSUME TypeOK, ExclusiveInv, NEW w \in Workers, StatementStep(w)
    PROVE  ExclusiveInv'
<1>1. OthersStay(w)
  BY WorkerStepLocal
<1>2. overruns' = overruns
  BY DEF StatementStep, Acknowledge, AcknowledgeFails, Bury, BuryFails, DeleteForRetry,
         DeleteForRetryFails, Resend, ResendFails, DbError, faultVars
<1>3. pc[w] \in Busy
  BY DEF StatementStep, Acknowledge, AcknowledgeFails, Bury, BuryFails, DeleteForRetry,
         DeleteForRetryFails, Resend, ResendFails, Busy, PC
<1>4. pc'[w] \in Busy => held'[w] = held[w]
  BY DEF StatementStep, Acknowledge, AcknowledgeFails, Bury, BuryFails, DeleteForRetry,
         DeleteForRetryFails, Resend, ResendFails, AttemptFailed, AfterDbError, Drop, Goto,
         TypeOK, Busy
<1>5. pc'[w] = "resending" => held[w] \notin queue'
  BY DEF StatementStep, Acknowledge, AcknowledgeFails, Bury, BuryFails, DeleteForRetry,
         DeleteForRetryFails, Resend, ResendFails, AttemptFailed, AfterDbError, Drop, Goto,
         TypeOK, Delete
<1>6. CASE pc[w] = "resending" /\ SendRetry(w)
  <2> DEFINE h == held[w]
             n == [id |-> nextId, job |-> h.job, attempt |-> h.attempt + 1,
                   waits |-> Append(h.waits, Backoff(h.job, h.attempt + 1))]
  <2>1. queue' = queue \cup {n} /\ hidden \subseteq hidden' /\ n.job = h.job
    BY <1>6 DEF SendRetry, Send
  <2>2. overruns = 0 => \A m \in queue : m.job # h.job
    BY <1>3, <1>6 DEF ExclusiveInv
  <2>3. overruns = 0 => \A v \in Workers \ {w} : pc[v] \in Busy => held[v].job # h.job
    BY <1>3 DEF ExclusiveInv
  <2>4. pc'[w] \notin Busy
    BY <1>6 DEF StatementStep, Acknowledge, AcknowledgeFails, Bury, BuryFails,
       DeleteForRetry, DeleteForRetryFails, Resend, ResendFails, AfterDbError, Drop, Goto,
       TypeOK, Busy
  <2> HIDE DEF n, h
  <2>5. QED
    BY <1>1, <1>2, <2>1, <2>2, <2>3, <2>4 DEF ExclusiveInv, OthersStay
<1>7. CASE ~(pc[w] = "resending" /\ SendRetry(w))
  <2>1. queue' \subseteq queue /\ hidden \cap queue' \subseteq hidden'
    BY <1>7 DEF StatementStep, Acknowledge, AcknowledgeFails, Bury, BuryFails,
       DeleteForRetry, DeleteForRetryFails, Resend, ResendFails, Delete, Archive, pgmqVars
  <2>2. QED
    BY <1>1, <1>2, <1>3, <1>4, <1>5, <2>1 DEF ExclusiveInv, OthersStay
<1>8. QED
  BY <1>6, <1>7

LEMMA ProcessStepExclusive ==
    ASSUME TypeOK, ExclusiveInv, NEW w \in Workers, ProcessStep(w)
    PROVE  ExclusiveInv'
<1>1. OthersStay(w)
  BY WorkerStepLocal
<1>2. UNCHANGED <<queue, hidden, overruns>>
  BY DEF ProcessStep, LoopExit, Restart, Sigterm, GraceExpires, Crash, pgmqVars, faultVars
<1>3. pc'[w] \in Busy => pc'[w] = pc[w] /\ held'[w] = held[w]
  BY DEF ProcessStep, LoopExit, Restart, Sigterm, GraceExpires, Crash, Drop, Goto, TypeOK, Busy
<1>4. QED
  BY <1>1, <1>2, <1>3 DEF ExclusiveInv, OthersStay

LEMMA EnvironmentStepExclusive ==
    ASSUME TypeOK, HandlingInv, ExclusiveInv,
           \/ \E j \in Jobs : Enqueue(j)
           \/ \E m \in hidden : BecomeVisible(m)
    PROVE  ExclusiveInv'
<1>1. ASSUME NEW j \in Jobs, Enqueue(j)
      PROVE  ExclusiveInv'
  <2>1. PICK n : queue' = queue \cup {n} /\ n.job = j /\ hidden \subseteq hidden'
    <3>1. PICK d \in BOOLEAN : Send(j, 0, <<>>, d)
      BY <1>1 DEF Enqueue
    <3> DEFINE m == [id |-> nextId, job |-> j, attempt |-> 0, waits |-> <<>>]
    <3>2. queue' = queue \cup {m} /\ m.job = j /\ hidden \subseteq hidden'
      BY <3>1 DEF Send
    <3> HIDE DEF m
    <3>3. QED
      BY <3>2
  <2>2. \A m \in queue : m.job # j
    BY <1>1 DEF Enqueue, HandlingInv, Counted
  <2>3. \A v \in Workers : pc[v] \in Busy => held[v].job # j
    BY <1>1 DEF Enqueue, HandlingInv, Handling, Counted
  <2>4. UNCHANGED <<pc, held, overruns>>
    BY <1>1 DEF Enqueue, workerVars, faultVars
  <2>5. QED
    BY <2>1, <2>2, <2>3, <2>4 DEF ExclusiveInv
<1>2. ASSUME NEW m \in hidden, BecomeVisible(m)
      PROVE  ExclusiveInv'
  <2>1. queue' = queue /\ hidden' = hidden \ {m} /\ pc' = pc /\ held' = held
    BY <1>2 DEF BecomeVisible, workerVars
  <2>2. overruns' = 0 => overruns = 0 /\ \A w \in Workers : held[w] # m
    BY <1>2 DEF BecomeVisible, TypeOK
  <2>3. QED
    BY <2>1, <2>2 DEF ExclusiveInv
<1>3. QED
  BY <1>1, <1>2

LEMMA ExclusiveInvariant == Spec => []ExclusiveInv
<1>1. Init => ExclusiveInv
  BY DEF Init, ExclusiveInv, Busy
<1>2. TypeOK /\ HandlingInv /\ ExclusiveInv /\ [Next]_vars => ExclusiveInv'
  <2>1. ASSUME TypeOK, HandlingInv, ExclusiveInv, Next PROVE ExclusiveInv'
    BY <2>1, NextCases, EnvironmentStepExclusive, LoopStepExclusive,
       StatementStepExclusive, ProcessStepExclusive
  <2>2. ASSUME ExclusiveInv, UNCHANGED vars PROVE ExclusiveInv'
    BY <2>2 DEF vars, pgmqVars, workerVars, faultVars, ExclusiveInv
  <2>3. QED
    BY <2>1, <2>2
<1>3. QED
  BY <1>1, <1>2, TypeCorrect, HandlingInvariant, PTL DEF Spec

\* As long as every handler ends within its lease, the lease is a lock on the job
\* and neither crash, drain, database error nor retry ever makes a second copy.
THEOREM LeasesExclusive == Spec => []LeaseIsExclusive
<1>1. TypeOK /\ ExclusiveInv => LeaseIsExclusive
  <2>1. ASSUME TypeOK, NEW w \in Workers, pc[w] = "resending" PROVE pc[w] \in Busy
    BY <2>1 DEF Busy, PC
  <2>2. QED
    BY <2>1 DEF TypeOK, ExclusiveInv, LeaseIsExclusive, InHandoff, Queued
<1>2. QED
  BY <1>1, TypeCorrect, ExclusiveInvariant, PTL

-----------------------------------------------------------------------------
(* The refinement of JobLease.                                              *)

\* Until the acknowledgement was sent, what a worker has on lease is still in
\* the queue; later the message may have been deleted without an answer.
StillQueued == \A w \in Workers : pc[w] \in {"running", "acking"} => held[w] \in queue

\* What holds while no lease runs out under a live handler.
LeasedInv == /\ TypeOK
             /\ HandlingInv
             /\ ExclusiveInv
             /\ overruns = 0
             /\ StillQueued

\* Some worker has a message of the job in its hands.
Holding(w, j) == pc[w] \in Busy /\ held[w].job = j

LEMMA StillQueuedByWorker ==
    ASSUME LeasedInv, TypeOK', NEW w \in Workers,
           LoopStep(w) \/ StatementStep(w) \/ ProcessStep(w)
    PROVE  StillQueued'
<1>1. OthersStay(w)
  BY WorkerStepLocal DEF LeasedInv
<1>2. \A v \in Workers \ {w} : pc[v] \in {"running", "acking"} => held[v] \in queue'
  <2>1. ASSUME NEW v \in Workers \ {w}, pc[v] \in {"running", "acking"}
        PROVE  held[v] \in queue /\ (pc[w] \in Busy => held[v] # held[w])
    BY <2>1 DEF LeasedInv, StillQueued, ExclusiveInv, Busy, PC
  <2>2. \A n \in queue : n \in queue' \/ (pc[w] \in Busy /\ n = held[w])
    <3>1. CASE LoopStep(w)
      BY <3>1 DEF LoopStep, Poll, ReadRow, ReadEmpty, ReadFails, HandlerReturns,
         HandlerThrows, pgmqVars
    <3>2. CASE StatementStep(w)
      BY <3>2 DEF StatementStep, Acknowledge, AcknowledgeFails, Bury, BuryFails,
         DeleteForRetry, DeleteForRetryFails, Resend, ResendFails, Delete, Archive,
         SendRetry, Send, pgmqVars, Busy, PC
    <3>3. CASE ProcessStep(w)
      BY <3>3 DEF ProcessStep, LoopExit, Restart, Sigterm, GraceExpires, Crash, pgmqVars
    <3>4. QED
      BY <3>1, <3>2, <3>3
  <2>3. QED
    BY <2>1, <2>2
<1>3. pc'[w] \in {"running", "acking"} => held'[w] \in queue'
  <2>1. CASE ReadRow(w)
    BY <2>1 DEF ReadRow, Dispatch, Goto, LeasedInv, TypeOK
  <2>2. CASE HandlerReturns(w)
    BY <2>2 DEF HandlerReturns, Goto, LeasedInv, TypeOK, StillQueued, pgmqVars
  <2>3. CASE Sigterm(w)
    BY <2>3 DEF Sigterm, LeasedInv, StillQueued, pgmqVars
  <2>4. CASE ~(ReadRow(w) \/ HandlerReturns(w) \/ Sigterm(w))
    BY <2>4 DEF LoopStep, StatementStep, ProcessStep, Poll, ReadEmpty, ReadFails,
       HandlerThrows, Acknowledge, AcknowledgeFails, Bury, BuryFails, DeleteForRetry,
       DeleteForRetryFails, Resend, ResendFails, LoopExit, Restart, GraceExpires, Crash,
       AttemptFailed, AfterDbError, Drop, Goto, LeasedInv, TypeOK
  <2>5. QED
    BY <2>1, <2>2, <2>3, <2>4
<1>4. QED
  BY <1>1, <1>2, <1>3 DEF StillQueued, OthersStay

\* As long as no lease runs out under a live handler, what a worker has on
\* lease stays in the queue.
LEMMA LeasedInvariant == Spec /\ [](overruns = 0) => []LeasedInv
<1>1. Init => StillQueued
  BY DEF Init, StillQueued
<1>2. LeasedInv /\ TypeOK' /\ [Next]_vars => StillQueued'
  <2>1. ASSUME LeasedInv, TypeOK', \/ \E j \in Jobs : Enqueue(j)
                                   \/ \E m \in hidden : BecomeVisible(m)
        PROVE  StillQueued'
    BY <2>1 DEF Enqueue, Send, BecomeVisible, workerVars, LeasedInv, StillQueued
  <2>2. ASSUME LeasedInv, UNCHANGED vars PROVE StillQueued'
    BY <2>2 DEF vars, pgmqVars, workerVars, LeasedInv, StillQueued
  <2>3. QED
    BY <2>1, <2>2, NextCases, StillQueuedByWorker
<1>3. LeasedInv <=> TypeOK /\ HandlingInv /\ ExclusiveInv /\ overruns = 0 /\ StillQueued
  BY DEF LeasedInv
<1>4. Spec => []ExclusiveInv
  BY ExclusiveInvariant
<1>5. QED
  BY <1>1, <1>2, <1>3, <1>4, TypeCorrect, HandlingInvariant, PTL DEF Spec

\* The phase and the attempt of a job that a worker has in its hands.
HeldPhase(w, j) ==
    /\ held[w] \in queue => PhaseOf(j) = "leased" /\ TriesOf(j) = held[w].attempt
    /\ held[w] \notin queue /\ pc[w] \in {"retrying", "resending"} =>
          PhaseOf(j) = "handoff" /\ TriesOf(j) = held[w].attempt
    /\ held[w] \notin queue /\ pc[w] \notin {"retrying", "resending"} =>
          /\ PhaseOf(j) = IF j \in done \/ Archived(j) THEN "settled" ELSE "lost"
          /\ TriesOf(j) = 0

\* And of one that none has.
FreePhase(j) ==
    /\ \A m \in queue : m.job = j => PhaseOf(j) = "queued" /\ TriesOf(j) = m.attempt
    /\ ~ Queued(j) =>
          /\ PhaseOf(j) = IF j \notin enqueued THEN "none"
                          ELSE IF j \in done \/ Archived(j) THEN "settled" ELSE "lost"
          /\ TriesOf(j) = 0

Phases == \A j \in Jobs :
    /\ \A w \in Workers : Holding(w, j) => HeldPhase(w, j)
    /\ (\A w \in Workers : ~ Holding(w, j)) => FreePhase(j)

\* A job in hand is leased, in the hand-off, or has left.
LEMMA HeldPhases ==
    ASSUME LeasedInv, NEW w \in Workers, NEW j \in Jobs, Holding(w, j)
    PROVE  HeldPhase(w, j)
<1> DEFINE ms == {m \in queue : m.job = j} \cup {held[v] : v \in Handing(j)}
<1>1. /\ held[w] \in Message /\ held[w].job = j /\ pc[w] \in Busy
      /\ j \in enqueued
      /\ TypeOK /\ ExclusiveInv /\ overruns = 0
  BY BusyHolds DEF LeasedInv, HandlingInv, Handling, Counted, Holding
<1>2. \A v \in Workers : held[v] \in queue /\ held[v].job = j => v = w
  BY <1>1, NoMsgIsNoMessage DEF TypeOK, ExclusiveInv
<1>3. \A v \in Handing(j) : v = w /\ held[w] \notin queue /\ pc[w] \in {"retrying", "resending"}
  BY <1>1 DEF Handing, ExclusiveInv, Busy, PC
<1>4. \A n \in queue : n.job = j => n = held[w]
  BY <1>1 DEF ExclusiveInv
<1>5. TriesOf(j) = IF ms = {} THEN 0 ELSE (CHOOSE m \in ms : TRUE).attempt
  BY DEF TriesOf
<1>6. CASE held[w] \in queue
  <2>1. ms = {held[w]}
    BY <1>1, <1>3, <1>4, <1>6
  <2>2. TriesOf(j) = held[w].attempt
    BY <1>5, <2>1
  <2>3. PhaseOf(j) = "leased"
    BY <1>1, <1>6 DEF PhaseOf, Queued
  <2>4. QED
    BY <1>6, <2>2, <2>3 DEF HeldPhase
<1>7. CASE held[w] \notin queue
  <2>1. ~ Queued(j)
    BY <1>4, <1>7 DEF Queued
  <2>2. CASE pc[w] \in {"retrying", "resending"}
    <3>1. Handing(j) = {w}
      BY <1>1, <1>3, <1>7, <2>2 DEF Handing
    <3>2. ms = {held[w]}
      BY <3>1, <2>1 DEF Queued
    <3>3. QED
      BY <1>1, <1>5, <1>7, <2>1, <2>2, <3>1, <3>2 DEF HeldPhase, PhaseOf
  <2>3. CASE pc[w] \notin {"retrying", "resending"}
    <3>1. Handing(j) = {}
      BY <1>3, <2>3
    <3>2. ms = {}
      BY <3>1, <2>1 DEF Queued
    <3>3. QED
      BY <1>1, <1>5, <1>7, <2>1, <2>3, <3>1, <3>2 DEF HeldPhase, PhaseOf
  <2>4. QED
    BY <2>2, <2>3
<1>8. QED
  BY <1>6, <1>7

\* A job in no hand waits, has left, or was never sent.
LEMMA FreePhases ==
    ASSUME LeasedInv, NEW j \in Jobs, \A w \in Workers : ~ Holding(w, j)
    PROVE  FreePhase(j)
<1> DEFINE ms == {m \in queue : m.job = j} \cup {held[v] : v \in Handing(j)}
<1>1. TypeOK /\ ExclusiveInv /\ overruns = 0 /\ \A m \in queue : m.job \in enqueued
  BY DEF LeasedInv, HandlingInv, Counted
<1>2. Handing(j) = {}
  BY DEF Handing, Holding, Busy, PC
<1>3. \A w \in Workers : ~ (held[w] \in queue /\ held[w].job = j)
  BY <1>1, NoMsgIsNoMessage DEF Holding, TypeOK
<1>4. TriesOf(j) = IF ms = {} THEN 0 ELSE (CHOOSE m \in ms : TRUE).attempt
  BY DEF TriesOf
<1>5. ASSUME NEW m \in queue, m.job = j
      PROVE  PhaseOf(j) = "queued" /\ TriesOf(j) = m.attempt
  <2>1. ms = {m}
    BY <1>1, <1>2, <1>5 DEF ExclusiveInv
  <2>2. QED
    BY <1>1, <1>3, <1>4, <1>5, <2>1 DEF PhaseOf, Queued
<1>6. ASSUME ~ Queued(j)
      PROVE  /\ PhaseOf(j) = IF j \notin enqueued THEN "none"
                             ELSE IF j \in done \/ Archived(j) THEN "settled" ELSE "lost"
             /\ TriesOf(j) = 0
  <2>1. ms = {}
    BY <1>2, <1>6 DEF Queued
  <2>2. QED
    BY <1>2, <1>4, <1>6, <2>1 DEF PhaseOf
<1>7. QED
  BY <1>5, <1>6 DEF FreePhase

\* In every state the phase and the attempts of a job are these.
LEMMA PhasesKnown == LeasedInv => Phases
BY HeldPhases, FreePhases DEF Phases

\* In the next state too.
LEMMA PhasesKnownNext == LeasedInv' => Phases'
BY PhasesKnown, PTL

-----------------------------------------------------------------------------
\* A job the step is not about.
Stays(j) == PhaseOf(j)' = PhaseOf(j) /\ TriesOf(j)' = TriesOf(j)

\* A job that neither the step nor the stepping worker touches stays.
LEMMA StaysWhere ==
    ASSUME TypeOK, TypeOK', NEW w \in Workers, OthersStay(w), NEW j \in Jobs,
           ~ Holding(w, j), ~ Holding(w, j)',
           \A m : m.job = j => (m \in queue' <=> m \in queue),
           j \in enqueued' <=> j \in enqueued,
           j \in done' <=> j \in done,
           Archived(j)' <=> Archived(j)
    PROVE  Stays(j)
<1>1. {m \in queue' : m.job = j} = {m \in queue : m.job = j}
  OBVIOUS
<1>2. Queued(j)' <=> Queued(j)
  BY DEF Queued
<1>3. /\ held[w] \in queue => held[w].job # j
      /\ held'[w] \in queue' => held'[w].job # j
  BY NoMsgIsNoMessage DEF Holding, TypeOK
<1>4. /\ pc[w] \in {"retrying", "resending"} => held[w].job # j
      /\ pc'[w] \in {"retrying", "resending"} => held'[w].job # j
  BY DEF Holding, Busy, PC
<1>5. Handing(j)' = Handing(j)
  BY <1>4 DEF OthersStay, Handing
<1>6. \A v \in Handing(j) : held'[v] = held[v]
  BY <1>4 DEF OthersStay, Handing
<1>7. (\E v \in Workers : held[v] \in queue /\ held[v].job = j)'
      <=> (\E v \in Workers : held[v] \in queue /\ held[v].job = j)
  BY <1>3 DEF OthersStay
<1>8. PhaseOf(j)' = PhaseOf(j)
  BY <1>2, <1>5, <1>7 DEF PhaseOf
<1>9. {held'[v] : v \in Handing(j)} = {held[v] : v \in Handing(j)}
  BY <1>6
<1>10. TriesOf(j)' = TriesOf(j)
  <2> DEFINE First(S) == IF S = {} THEN 0 ELSE (CHOOSE m \in S : TRUE).attempt
  <2>1. TriesOf(j) = First({m \in queue : m.job = j} \cup {held[v] : v \in Handing(j)})
    BY DEF TriesOf
  <2>2. TriesOf(j)' = First({m \in queue' : m.job = j} \cup {held'[v] : v \in Handing(j)'})
    BY DEF TriesOf
  <2> HIDE DEF First
  <2>3. QED
    BY <1>1, <1>5, <1>9, <2>1, <2>2
<1>11. QED
  BY <1>8, <1>10 DEF Stays

\* The moves of JobLease, on the phase and the attempts of one job.
JobMoves(j) ==
    \/ Stays(j)
    \/ /\ PhaseOf(j) \in {"none", "leased"} /\ PhaseOf(j)' = "queued"
       /\ TriesOf(j)' = TriesOf(j)
    \/ /\ PhaseOf(j) = "queued" /\ PhaseOf(j)' = "leased"
       /\ TriesOf(j)' = TriesOf(j)
    \/ /\ PhaseOf(j) = "leased" /\ PhaseOf(j)' = "handoff"
       /\ TriesOf(j) + 1 < Retry[j].maxAttempts
       /\ TriesOf(j)' = TriesOf(j)
    \/ /\ PhaseOf(j) = "handoff" /\ PhaseOf(j)' = "queued"
       /\ TriesOf(j)' = TriesOf(j) + 1
    \/ /\ PhaseOf(j) \in {"leased", "handoff"} /\ PhaseOf(j)' \in {"settled", "lost"}
       /\ TriesOf(j)' = 0

OthersStayInPlace(j) == \A k \in Jobs \ {j} : Stays(k)

\* A step of a worker touches no job but the one of the message it works on.
LEMMA OneJobMoves ==
    ASSUME TypeOK, TypeOK', NEW w \in Workers, OthersStay(w), NEW j \in Jobs,
           pc[w] \in Busy => held[w].job = j,
           pc'[w] \in Busy => held'[w].job = j,
           \A m : m.job # j => (m \in queue' <=> m \in queue),
           enqueued' = enqueued,
           \A k : k # j => (k \in done' <=> k \in done),
           \A a : a.msg.job # j => (a \in archive' <=> a \in archive)
    PROVE  OthersStayInPlace(j)
<1> SUFFICES ASSUME NEW k \in Jobs \ {j} PROVE Stays(k)
  BY DEF OthersStayInPlace
<1>1. ~ Holding(w, k) /\ ~ Holding(w, k)'
  BY DEF Holding
<1>2. Archived(k)' <=> Archived(k)
  BY DEF Archived
<1>3. QED
  BY <1>1, <1>2, StaysWhere

\* The job of a message a worker lets go of is in nobody else's hands.
LEMMA FreedPhase ==
    ASSUME LeasedInv, Phases', NEW w \in Workers, OthersStay(w), NEW j \in Jobs,
           Holding(w, j), pc'[w] \notin Busy
    PROVE  FreePhase(j)'
<1>1. \A v \in Workers : ~ Holding(v, j)'
  BY DEF Holding, OthersStay, LeasedInv, ExclusiveInv
<1>2. QED
  BY <1>1 DEF Phases

\* A failed attempt alone moves nothing: the message stays on lease.
LEMMA AttemptMoves ==
    ASSUME LeasedInv, LeasedInv', Phases, Phases', NEW w \in Workers, OthersStay(w),
           NEW j \in Jobs, Holding(w, j), AttemptFailed(w),
           held[w] \in queue, queue' = queue
    PROVE  JobMoves(j)
<1>1. held' = held /\ pc'[w] \in Busy
  BY AttemptFailedCounts DEF Holding, LeasedInv, Busy, PC
<1>2. Holding(w, j)'
  BY <1>1 DEF Holding
<1>3. HeldPhase(w, j) /\ HeldPhase(w, j)'
  BY <1>2 DEF Phases
<1>4. QED
  BY <1>1, <1>3 DEF HeldPhase, JobMoves, Stays

\* A statement moves the job of the message it is about as JobLease says.
LEMMA StatementMoves ==
    ASSUME LeasedInv, LeasedInv', Phases, Phases', NEW w \in Workers, OthersStay(w),
           enqueued' = enqueued, NEW j \in Jobs, Holding(w, j), StatementStep(w)
    PROVE  JobMoves(j) /\ OthersStayInPlace(j)
<1> DEFINE m == held[w]
<1>1. /\ m \in Message /\ m.job = j /\ m.attempt \in Nat
      /\ pc[w] \in Busy /\ pc'[w] \in PC /\ pc \in [Workers -> PC]
      /\ held \in [Workers -> Message \cup {NoMsg}]
      /\ Handling(w) /\ j \in enqueued /\ j \in enqueued'
      /\ TypeOK /\ TypeOK'
  BY BusyHolds DEF Holding, LeasedInv, HandlingInv, Handling, Counted, TypeOK
<1>2. \A n \in queue : n.job = j => n = m
  BY <1>1 DEF LeasedInv, ExclusiveInv
<1>3. /\ m \in queue => PhaseOf(j) = "leased" /\ TriesOf(j) = m.attempt
      /\ m \notin queue /\ pc[w] \in {"retrying", "resending"} =>
            PhaseOf(j) = "handoff" /\ TriesOf(j) = m.attempt
      /\ m \notin queue /\ pc[w] \notin {"retrying", "resending"} =>
            PhaseOf(j) = (IF j \in done \/ Archived(j) THEN "settled" ELSE "lost")
            /\ TriesOf(j) = 0
  BY DEF Phases, HeldPhase
<1>4. ASSUME pc'[w] \notin Busy, ~ Queued(j)'
      PROVE  /\ PhaseOf(j)' = IF j \in done' \/ Archived(j)' THEN "settled" ELSE "lost"
             /\ TriesOf(j)' = 0
  BY <1>1, <1>4, FreedPhase DEF FreePhase
<1>5. ASSUME pc'[w] \notin Busy, NEW n \in queue', n.job = j
      PROVE  PhaseOf(j)' = "queued" /\ TriesOf(j)' = n.attempt
  BY <1>5, FreedPhase DEF FreePhase
<1>6. ASSUME Delete(m)
      PROVE  ~ Queued(j)' /\ m \notin queue' /\ archive' = archive
             /\ \A n : n.job # j => (n \in queue' <=> n \in queue)
  BY <1>1, <1>2, <1>6 DEF Delete, Queued
<1>7. ASSUME NEW why, Archive(m, why)
      PROVE  /\ ~ Queued(j)'
             /\ m \in queue => Archived(j)'
             /\ m \notin queue => archive' = archive
             /\ \A n : n.job # j => (n \in queue' <=> n \in queue)
             /\ \A a : a.msg.job # j => (a \in archive' <=> a \in archive)
  <2> DEFINE r == [msg |-> m, why |-> why]
  <2>1. /\ archive' = IF m \in queue THEN archive \cup {r} ELSE archive
        /\ queue' = queue \ {m}
    BY <1>7 DEF Archive
  <2>2. r.msg = m
    OBVIOUS
  <2> HIDE DEF r
  <2>3. m \in queue => Archived(j)'
    BY <1>1, <2>1, <2>2 DEF Archived
  <2>4. \A a : a.msg.job # j => (a \in archive' <=> a \in archive)
    BY <1>1, <2>1, <2>2
  <2>5. QED
    BY <1>1, <1>2, <2>1, <2>3, <2>4 DEF Queued
<1>8. m \notin queue => ~ Queued(j)
  BY <1>2 DEF Queued
<1>9. ASSUME SendRetry(w)
      PROVE  /\ \E n \in queue' : n.job = j /\ n.attempt = m.attempt + 1
             /\ archive' = archive
             /\ \A n : n.job # j => (n \in queue' <=> n \in queue)
  <2> DEFINE r == [id |-> nextId, job |-> m.job, attempt |-> m.attempt + 1,
                   waits |-> Append(m.waits, Backoff(m.job, m.attempt + 1))]
  <2>1. queue' = queue \cup {r} /\ archive' = archive
    BY <1>9 DEF SendRetry, Send
  <2>2. r.job = m.job /\ r.attempt = m.attempt + 1
    OBVIOUS
  <2> HIDE DEF r
  <2>3. QED
    BY <1>1, <2>1, <2>2
<1>10. ASSUME NEW label \in {"idle", "stopped"}, Drop(w, label)
       PROVE  pc'[w] \notin Busy
  BY <1>1, <1>10 DEF Drop, Goto, Busy
<1>11. AfterDbError(w) \in {"idle", "stopped"}
  BY DEF AfterDbError
<1>12. ASSUME pc'[w] \in Busy => held'[w] = m,
              \A n : n.job # j => (n \in queue' <=> n \in queue),
              done' = done,
              \A a : a.msg.job # j => (a \in archive' <=> a \in archive)
       PROVE  OthersStayInPlace(j)
  BY <1>1, <1>12, OneJobMoves
<1>13. CASE Acknowledge(w)
  <2>1. m \in queue /\ j \in done /\ done' = done
    BY <1>1, <1>13 DEF Acknowledge, Handling, LeasedInv, StillQueued
  <2>2. Delete(m) /\ pc'[w] \notin Busy
    BY <1>10, <1>13 DEF Acknowledge
  <2>3. QED
    BY <1>3, <1>4, <1>6, <1>12, <2>1, <2>2 DEF JobMoves
<1>14. CASE AcknowledgeFails(w)
  <2>1. m \in queue /\ j \in done /\ done' = done /\ AttemptFailed(w)
    BY <1>1, <1>14 DEF AcknowledgeFails, Handling, LeasedInv, StillQueued
  <2>2. /\ held' = held
        /\ \/ pc'[w] = "burying"
           \/ pc'[w] = "retrying" /\ m.attempt + 1 < Retry[j].maxAttempts
    BY <1>1, <2>1, AttemptFailedCounts
  <2>3. CASE UNCHANGED pgmqVars
    BY <1>12, <2>1, <2>2, <2>3, AttemptMoves DEF pgmqVars
  <2>4. CASE Delete(m)
    <3>1. HeldPhase(w, j)'
      BY <1>1, <2>2 DEF Phases, Holding, Busy, PC
    <3>2. JobMoves(j)
      BY <1>3, <1>6, <2>1, <2>2, <2>4, <3>1 DEF HeldPhase, JobMoves
    <3>3. QED
      BY <1>6, <1>12, <2>1, <2>2, <2>4, <3>2
  <2>5. QED
    BY <1>14, <2>3, <2>4 DEF AcknowledgeFails
<1>15. CASE Bury(w) \/ BuryFails(w)
  <2>1. pc'[w] \notin Busy /\ done' = done /\ pc[w] = "burying"
    BY <1>10, <1>11, <1>15 DEF Bury, BuryFails
  <2>2. CASE UNCHANGED pgmqVars
    <3>1. queue' = queue /\ archive' = archive
      BY <2>2 DEF pgmqVars
    <3>2. CASE m \in queue
      BY <1>1, <1>3, <1>5, <1>12, <2>1, <3>1, <3>2 DEF JobMoves
    <3>3. CASE m \notin queue
      <4>1. ~ Queued(j)' /\ (Archived(j)' <=> Archived(j))
        BY <1>8, <3>1, <3>3 DEF Queued, Archived
      <4>2. QED
        BY <1>3, <1>4, <1>12, <2>1, <3>1, <3>3, <4>1 DEF JobMoves, Stays
    <3>4. QED
      BY <3>2, <3>3
  <2>3. CASE Archive(m, WhyBuried(w))
    <3>1. CASE m \in queue
      BY <1>3, <1>4, <1>7, <1>12, <2>1, <2>3, <3>1 DEF JobMoves
    <3>2. CASE m \notin queue
      <4>1. ~ Queued(j)' /\ (Archived(j)' <=> Archived(j))
        BY <1>7, <2>3, <3>2 DEF Archived
      <4>2. QED
        BY <1>3, <1>4, <1>7, <1>12, <2>1, <2>3, <3>2, <4>1 DEF JobMoves, Stays
    <3>3. QED
      BY <3>1, <3>2
  <2>4. QED
    BY <1>15, <2>2, <2>3 DEF Bury, BuryFails
<1>16. CASE DeleteForRetry(w)
  <2>1. /\ Delete(m) /\ held' = held /\ pc'[w] = "resending" /\ pc[w] = "retrying"
        /\ done' = done /\ m.attempt + 1 < Retry[j].maxAttempts
    BY <1>1, <1>16 DEF DeleteForRetry, Goto, Handling
  <2>2. HeldPhase(w, j)'
    BY <1>1, <2>1 DEF Phases, Holding, Busy, PC
  <2>3. JobMoves(j)
    BY <1>3, <1>6, <2>1, <2>2 DEF HeldPhase, JobMoves, Stays
  <2>4. QED
    BY <1>6, <1>12, <2>1, <2>3
<1>17. CASE DeleteForRetryFails(w)
  <2>1. pc'[w] \notin Busy /\ done' = done /\ pc[w] = "retrying"
    BY <1>10, <1>11, <1>17 DEF DeleteForRetryFails
  <2>2. CASE UNCHANGED pgmqVars
    <3>1. queue' = queue /\ archive' = archive
      BY <2>2 DEF pgmqVars
    <3>2. CASE m \in queue
      BY <1>1, <1>3, <1>5, <1>12, <2>1, <3>1, <3>2 DEF JobMoves
    <3>3. CASE m \notin queue
      <4>1. ~ Queued(j)'
        BY <1>8, <3>1, <3>3 DEF Queued
      <4>2. QED
        BY <1>3, <1>4, <1>12, <2>1, <3>1, <3>3, <4>1 DEF JobMoves
    <3>4. QED
      BY <3>2, <3>3
  <2>3. CASE Delete(m)
    BY <1>3, <1>4, <1>6, <1>12, <2>1, <2>3 DEF JobMoves
  <2>4. QED
    BY <1>17, <2>2, <2>3 DEF DeleteForRetryFails
<1>18. CASE Resend(w) \/ ResendFails(w)
  <2>1. pc'[w] \notin Busy /\ done' = done /\ pc[w] = "resending"
    BY <1>10, <1>11, <1>18 DEF Resend, ResendFails
  <2>2. m \notin queue
    BY <1>1, <2>1 DEF LeasedInv, ExclusiveInv, InHandoff, Queued
  <2>3. CASE UNCHANGED pgmqVars
    <3>1. queue' = queue /\ archive' = archive /\ ~ Queued(j)'
      BY <1>8, <2>2, <2>3 DEF pgmqVars, Queued
    <3>2. QED
      BY <1>3, <1>4, <1>12, <2>1, <2>2, <3>1 DEF JobMoves
  <2>4. CASE SendRetry(w)
    <3>1. PICK n \in queue' : n.job = j /\ n.attempt = m.attempt + 1
      BY <1>9, <2>4
    <3>2. PhaseOf(j)' = "queued" /\ TriesOf(j)' = m.attempt + 1
      BY <1>5, <2>1, <3>1
    <3>3. QED
      BY <1>3, <1>9, <1>12, <2>1, <2>2, <2>4, <3>2 DEF JobMoves
  <2>5. QED
    BY <1>18, <2>3, <2>4 DEF Resend, ResendFails
<1>19. QED
  BY <1>13, <1>14, <1>15, <1>16, <1>17, <1>18 DEF StatementStep

\* A step of the whole system: nothing moves, or one job does.
OneMoves == \/ \A j \in Jobs : Stays(j)
            \/ \E j \in Jobs : JobMoves(j) /\ OthersStayInPlace(j)

\* So does one the producers do not touch.
LEMMA StaysUnmoved ==
    ASSUME pc' = pc, held' = held, NEW j \in Jobs,
           \A m : m.job = j => (m \in queue' <=> m \in queue),
           j \in enqueued' <=> j \in enqueued, done' = done, archive' = archive
    PROVE  Stays(j)
<1>1. {m \in queue' : m.job = j} = {m \in queue : m.job = j}
  OBVIOUS
<1>2. (Queued(j)' <=> Queued(j)) /\ (Archived(j)' <=> Archived(j))
  BY DEF Queued, Archived
<1>3. Handing(j)' = Handing(j)
  BY DEF Handing
<1>4. PhaseOf(j)' = PhaseOf(j)
  BY <1>2, <1>3 DEF PhaseOf
<1>5. TriesOf(j)' = TriesOf(j)
  <2> DEFINE First(S) == IF S = {} THEN 0 ELSE (CHOOSE m \in S : TRUE).attempt
  <2>1. TriesOf(j) = First({m \in queue : m.job = j} \cup {held[v] : v \in Handing(j)})
    BY DEF TriesOf
  <2>2. TriesOf(j)' = First({m \in queue' : m.job = j} \cup {held'[v] : v \in Handing(j)'})
    BY DEF TriesOf
  <2> HIDE DEF First
  <2>3. QED
    BY <1>1, <1>3, <2>1, <2>2
<1>6. QED
  BY <1>4, <1>5 DEF Stays

\* A producer sends a job; the passing of a visibility time moves none.
LEMMA EnvironmentMoves ==
    ASSUME LeasedInv, LeasedInv', Phases, Phases',
           \/ \E j \in Jobs : Enqueue(j)
           \/ \E m \in hidden : BecomeVisible(m)
           \/ UNCHANGED vars
    PROVE  OneMoves
<1>1. ASSUME UNCHANGED <<queue, archive, enqueued, done, pc, held>>
      PROVE  OneMoves
  BY <1>1, StaysUnmoved DEF OneMoves
<1>2. ASSUME NEW j \in Jobs, Enqueue(j)
      PROVE  OneMoves
  <2>1. PICK d \in BOOLEAN : Send(j, 0, <<>>, d)
    BY <1>2 DEF Enqueue
  <2> DEFINE r == [id |-> nextId, job |-> j, attempt |-> 0, waits |-> <<>>]
  <2>2. /\ queue' = queue \cup {r} /\ archive' = archive /\ done' = done
        /\ pc' = pc /\ held' = held
        /\ j \notin enqueued /\ enqueued' = enqueued \cup {j}
    BY <1>2, <2>1 DEF Enqueue, Send, workerVars
  <2>3. r.job = j /\ r.attempt = 0
    OBVIOUS
  <2> HIDE DEF r
  <2>4. /\ ~ Queued(j)
        /\ \A w \in Workers : ~ Holding(w, j) /\ ~ Holding(w, j)'
    BY <2>2 DEF LeasedInv, HandlingInv, Handling, Counted, Queued, Holding
  <2>5. PhaseOf(j) = "none" /\ TriesOf(j) = 0
    BY <2>2, <2>4 DEF Phases, FreePhase
  <2>6. PhaseOf(j)' = "queued" /\ TriesOf(j)' = 0
    BY <2>2, <2>3, <2>4 DEF Phases, FreePhase
  <2>7. OthersStayInPlace(j)
    BY <2>2, <2>3, StaysUnmoved DEF OthersStayInPlace
  <2>8. QED
    BY <2>5, <2>6, <2>7 DEF OneMoves, JobMoves
<1>3. QED
  BY <1>1, <1>2 DEF BecomeVisible, vars, pgmqVars, workerVars

\* A worker that has no message before or after its step.
LEMMA IdleMoves ==
    ASSUME TypeOK, TypeOK', NEW w \in Workers, OthersStay(w),
           pc[w] \notin Busy, pc'[w] \notin Busy,
           UNCHANGED <<queue, archive, enqueued, done>>
    PROVE  OneMoves
<1>1. ASSUME NEW j \in Jobs PROVE Stays(j)
  <2>1. ~ Holding(w, j) /\ ~ Holding(w, j)' /\ (Archived(j)' <=> Archived(j))
    BY DEF Holding, Archived
  <2>2. QED
    BY <2>1, StaysWhere
<1>2. QED
  BY <1>1 DEF OneMoves

\* Only a read moves a job, from the queue to the lease.
LEMMA LoopMoves ==
    ASSUME LeasedInv, LeasedInv', Phases, Phases', NEW w \in Workers, OthersStay(w),
           enqueued' = enqueued, LoopStep(w)
    PROVE  OneMoves
<1>1. /\ TypeOK /\ TypeOK' /\ pc \in [Workers -> PC]
      /\ held \in [Workers -> Message \cup {NoMsg}]
      /\ queue \in SUBSET Message
  BY DEF LeasedInv, TypeOK
<1>2. CASE Poll(w) \/ ReadEmpty(w) \/ ReadFails(w)
  <2>1. /\ pc[w] \notin Busy /\ pc'[w] \notin Busy
        /\ UNCHANGED <<queue, archive, enqueued, done>>
    BY <1>1, <1>2 DEF Poll, ReadEmpty, ReadFails, Goto, AfterDbError, pgmqVars, Busy
  <2>2. QED
    BY <1>1, <2>1, IdleMoves
<1>3. CASE ReadRow(w)
  <2>1. PICK m \in queue : /\ m \notin hidden
                           /\ Goto(w, Dispatch(w, m))
                           /\ held' = [held EXCEPT ![w] = IF Dispatch(w, m) = "stopped"
                                                          THEN NoMsg ELSE m]
    BY <1>3 DEF ReadRow, Oldest, Visible
  <2>2. pc[w] \notin Busy /\ UNCHANGED <<queue, archive, enqueued, done>>
    BY <1>3 DEF ReadRow, Busy
  <2>3. CASE Dispatch(w, m) = "stopped"
    BY <1>1, <2>1, <2>2, <2>3, IdleMoves DEF Goto, Busy
  <2>4. CASE Dispatch(w, m) # "stopped"
    <3>1. /\ pc'[w] = Dispatch(w, m) /\ held'[w] = m
          /\ Dispatch(w, m) \in {"running", "burying"}
          /\ pc'[w] \in Busy
      BY <1>1, <2>1, <2>4 DEF Goto, Dispatch, Busy, PC
    <3>2. m.job \in Jobs
      BY <1>1 DEF Message
    <3>3. \A v \in Workers : ~ Holding(v, m.job)
      BY <2>1 DEF Holding, LeasedInv, ExclusiveInv
    <3>4. PhaseOf(m.job) = "queued" /\ TriesOf(m.job) = m.attempt
      BY <3>2, <3>3 DEF Phases, FreePhase
    <3>5. PICK j \in Jobs : j = m.job
      BY <3>2
    <3>6. PhaseOf(j)' = "leased" /\ TriesOf(j)' = m.attempt
      BY <2>2, <3>1, <3>5 DEF Phases, HeldPhase, Holding
    <3>7. OthersStayInPlace(j)
      BY <1>1, <2>2, <3>1, <3>5, OneJobMoves
    <3>8. QED
      BY <3>4, <3>5, <3>6, <3>7 DEF OneMoves, JobMoves
  <2>5. QED
    BY <2>3, <2>4
<1>4. CASE HandlerReturns(w) \/ HandlerThrows(w)
  <2>1. PICK j \in Jobs : j = held[w].job
    BY <1>1, <1>4, BusyHolds DEF HandlerReturns, HandlerThrows, Busy, PC
  <2>2. /\ held[w] \in queue /\ Holding(w, j) /\ pc[w] = "running"
        /\ queue' = queue /\ archive' = archive
        /\ done' \in {done, done \cup {j}}
    BY <1>4, <2>1 DEF LeasedInv, StillQueued, HandlerReturns, HandlerThrows, pgmqVars,
       Holding, Busy, PC
  <2>3. held' = held /\ pc'[w] \in Busy /\ Holding(w, j)'
    BY <1>1, <1>4, <2>1, <2>2 DEF HandlerReturns, HandlerThrows, AttemptFailed, Goto,
       Holding, Busy, PC
  <2>4. Stays(j)
    BY <2>2, <2>3 DEF Phases, HeldPhase, Stays
  <2>5. OthersStayInPlace(j)
    BY <1>1, <2>1, <2>2, <2>3, OneJobMoves
  <2>6. QED
    BY <2>4, <2>5 DEF OneMoves, JobMoves
<1>5. QED
  BY <1>2, <1>3, <1>4 DEF LoopStep

\* A process that ends gives its message back, or breaks off the hand-off.
LEMMA ProcessMoves ==
    ASSUME LeasedInv, LeasedInv', Phases, Phases', NEW w \in Workers, OthersStay(w),
           enqueued' = enqueued, ProcessStep(w)
    PROVE  OneMoves
<1>1. /\ TypeOK /\ TypeOK' /\ pc \in [Workers -> PC]
      /\ UNCHANGED <<queue, archive, enqueued, done>>
  BY DEF LeasedInv, TypeOK, ProcessStep, LoopExit, Restart, Sigterm, GraceExpires, Crash,
         pgmqVars
<1>2. CASE Sigterm(w)
  BY <1>1, <1>2, StaysUnmoved DEF Sigterm, OneMoves
<1>3. CASE LoopExit(w) \/ Restart(w)
  BY <1>1, <1>3, IdleMoves DEF LoopExit, Restart, Goto, Busy
<1>4. CASE GraceExpires(w) \/ Crash(w)
  <2>1. pc'[w] \notin Busy
    BY <1>1, <1>4 DEF GraceExpires, Crash, Drop, Goto, Busy
  <2>2. CASE pc[w] \notin Busy
    BY <1>1, <2>1, <2>2, IdleMoves
  <2>3. CASE pc[w] \in Busy
    <3>1. PICK j \in Jobs : j = held[w].job
      BY <1>1, <2>3, BusyHolds
    <3>2. Holding(w, j)
      BY <2>3, <3>1 DEF Holding
    <3>3. FreePhase(j)' /\ HeldPhase(w, j)
      BY <2>1, <3>2, FreedPhase DEF Phases
    <3>4. OthersStayInPlace(j)
      BY <1>1, <2>1, <3>1, OneJobMoves
    <3>5. JobMoves(j)
      <4>1. CASE held[w] \in queue
        BY <1>1, <3>1, <3>3, <4>1 DEF FreePhase, HeldPhase, JobMoves
      <4>2. CASE held[w] \notin queue
        <5>1. ~ Queued(j) /\ ~ Queued(j)' /\ (Archived(j)' <=> Archived(j))
          BY <1>1, <2>3, <3>1, <4>2 DEF LeasedInv, ExclusiveInv, Queued, Archived
        <5>2. j \in enqueued
          BY <2>3, <3>1 DEF LeasedInv, HandlingInv, Handling, Counted
        <5>3. QED
          BY <1>1, <3>3, <4>2, <5>1, <5>2 DEF FreePhase, HeldPhase, JobMoves, Stays
      <4>3. QED
        BY <4>1, <4>2
    <3>6. QED
      BY <3>4, <3>5 DEF OneMoves
  <2>4. QED
    BY <2>2, <2>3
<1>5. QED
  BY <1>2, <1>3, <1>4 DEF ProcessStep

\* Every step moves at most one job, as JobLease allows.
LEMMA StepMoves ==
    ASSUME LeasedInv, LeasedInv', [Next]_vars
    PROVE  OneMoves
<1>1. Phases /\ Phases'
  BY PhasesKnown, PhasesKnownNext
<1>2. ASSUME NEW w \in Workers, LoopStep(w) \/ StatementStep(w) \/ ProcessStep(w)
      PROVE  OneMoves
  <2>1. OthersStay(w) /\ enqueued' = enqueued
    BY <1>2, WorkerStepLocal DEF LeasedInv
  <2>2. CASE StatementStep(w)
    <3>1. pc[w] \in Busy
      BY <2>2 DEF StatementStep, Acknowledge, AcknowledgeFails, Bury, BuryFails,
         DeleteForRetry, DeleteForRetryFails, Resend, ResendFails, Busy, PC
    <3>2. PICK j \in Jobs : j = held[w].job
      BY <3>1, BusyHolds DEF LeasedInv
    <3>3. QED
      BY <1>1, <2>1, <2>2, <3>1, <3>2, StatementMoves DEF OneMoves, Holding
  <2>3. QED
    BY <1>1, <1>2, <2>1, <2>2, LoopMoves, ProcessMoves
<1>3. QED
  BY <1>1, <1>2, NextCases, EnvironmentMoves

-----------------------------------------------------------------------------
\* A move of one job is a move of JobLease.
LEMMA MoveImplements ==
    ASSUME NEW j \in Jobs, JobMoves(j), OthersStayInPlace(j)
    PROVE  [Lease!Next]_(Lease!vars)
<1> DEFINE phase == [k \in Jobs |-> PhaseOf(k)]
           tries == [k \in Jobs |-> TriesOf(k)]
<1>1. /\ phase[j] = PhaseOf(j) /\ tries[j] = TriesOf(j)
      /\ phase' = [phase EXCEPT ![j] = PhaseOf(j)']
      /\ tries' = [tries EXCEPT ![j] = TriesOf(j)']
  BY DEF OthersStayInPlace, Stays
<1>2. TriesOf(j)' = TriesOf(j) => tries' = tries
  BY <1>1
<1>3. Stays(j) => phase' = phase /\ tries' = tries
  BY <1>1 DEF Stays
<1>4. [k \in Jobs |-> Retry[k].maxAttempts][j] = Retry[j].maxAttempts
  OBVIOUS
<1> HIDE DEF phase, tries
<1>5. QED
  BY <1>1, <1>2, <1>3, <1>4 DEF JobMoves, Lease!Next, Lease!Accept, Lease!Lease, Lease!Release,
     Lease!HandOff, Lease!Requeue, Lease!Leave, Lease!Move, Lease!vars, phase, tries

\* Every step is a step of JobLease or a stutter.
LEMMA StepImplements == LeasedInv /\ LeasedInv' /\ [Next]_vars
    => [Lease!Next]_(Lease!vars)
BY StepMoves, MoveImplements DEF OneMoves, Stays, Lease!vars

\* Nothing has been sent at the start.
LEMMA InitImplements == Init => Lease!Init
<1> SUFFICES ASSUME Init, NEW j \in Jobs
             PROVE  PhaseOf(j) = "none" /\ TriesOf(j) = 0
  BY DEF Lease!Init
<1>1. Handing(j) = {} /\ {m \in queue : m.job = j} = {}
  BY DEF Init, Handing
<1>2. {m \in queue : m.job = j} \cup {held[w] : w \in Handing(j)} = {}
  BY <1>1
<1>3. QED
  BY <1>2 DEF Init, PhaseOf, TriesOf

\* As long as no lease runs out under a live handler, the pgmq tables and the
\* worker loops implement JobLease: a job is in one place at a time, and crashes,
\* drains and failed statements only ever give it back or break off a hand-off.
THEOREM LeaseImplemented == Spec /\ [](overruns = 0) => LeaseProtocol
BY LeasedInvariant, StepImplements, InitImplements, PTL DEF Spec, LeaseProtocol, Lease!Spec

=============================================================================
