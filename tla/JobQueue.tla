------------------------------ MODULE JobQueue ------------------------------
(***************************************************************************)
(* Background jobs: producers that enqueue, the pgmq queues that hold the   *)
(* messages, and the worker processes that lease, run, acknowledge, retry   *)
(* and dead-letter them.                                                    *)
(*                                                                         *)
(* The Node worker is packages/jobs (runWorker.ts), the Python worker is    *)
(* services/worker-py (main.py).  Every SQL statement a worker awaits is    *)
(* one atomic action; the code between two awaits is folded into the        *)
(* action that ends at the second one.  pgmq itself is external: its read,  *)
(* delete, archive and send are modelled from how the workers call them.    *)
(***************************************************************************)
EXTENDS Naturals, Sequences, FiniteSets

CONSTANTS
    Jobs,         \* one element per call of enqueue (or raw pgmq.send)
    Malformed,    \* the jobs whose message has no usable envelope
    Workers,      \* worker processes
    PyWorkers,    \* the workers that run services/worker-py
    Queues,       \* pgmq queue names
    QueueOf,      \* the queue of a job: JobDefinition.queue
    Polls,        \* Polls[w]: the list of queues w polls (options.queues)
    Registry,     \* Registry[w]: the jobs whose name w's registry knows
    Retry,        \* Retry[j]: the RetryPolicy in force, job.retry ?? retry
    MaxStops,     \* bound: SIGTERMs and crashes in a behaviour
    MaxDbErrors,  \* bound: failed SQL statements in a behaviour
    MaxOverruns,  \* bound: leases that expire under a live handler
    NoMsg         \* held by a worker that has no message

ASSUME JobQueueAssumption ==
    /\ Malformed \subseteq Jobs
    /\ PyWorkers \subseteq Workers
    /\ QueueOf \in [Jobs -> Queues]
    /\ Polls \in [Workers -> Seq(Queues) \ {<<>>}]
    /\ Registry \in [Workers -> SUBSET Jobs]
    /\ Retry \in [Jobs -> [maxAttempts : Nat \ {0}, schedule : Seq(Nat)]]
    /\ MaxStops \in Nat
    /\ MaxDbErrors \in Nat
    /\ MaxOverruns \in Nat
    /\ NoMsg \notin [id : Nat, job : Jobs, attempt : Nat, waits : Seq(Nat)]

VARIABLES
    queue,      \* the messages in the pgmq queue tables
    hidden,     \* those whose visibility time lies in the future
    archive,    \* the archive tables (DLQ): [msg, why]
    nextId,     \* the next msg_id
    enqueued,   \* the jobs a producer has sent
    pc,         \* where each worker's loop is
    held,       \* the row a worker's handleMessage works on
    cursor,     \* position of the worker in its list of queues
    draining,   \* the worker has seen SIGTERM
    done,       \* observed: jobs whose handler has returned normally
    fails,      \* observed: failed attempts of a job
    stops, dbErrors, overruns   \* how much of each fault bound is used

pgmqVars   == <<queue, hidden, archive, nextId>>
workerVars == <<pc, held, cursor, draining>>
faultVars  == <<stops, dbErrors, overruns>>
vars == <<pgmqVars, enqueued, workerVars, done, fails, faultVars>>

Message == [id : Nat, job : Jobs, attempt : Nat, waits : Seq(Nat)]
Reason  == {"malformed", "unknown", "exhausted"}
PC == {"idle",       \* top of the queue loop
       "reading",    \* awaiting pgmq.read
       "running",    \* awaiting the handler
       "acking",     \* handler returned, awaiting pgmq.delete
       "burying",    \* awaiting pgmq.archive
       "retrying",   \* attempt failed, awaiting pgmq.delete
       "resending",  \* old message deleted, awaiting pgmq.send
       "stopped"}    \* the process is gone

Busy == PC \ {"idle", "reading", "stopped"}

TypeOK ==
    /\ queue \in SUBSET Message
    /\ hidden \subseteq queue
    /\ archive \in SUBSET [msg : Message, why : Reason]
    /\ nextId \in Nat
    /\ enqueued \in SUBSET Jobs
    /\ pc \in [Workers -> PC]
    /\ held \in [Workers -> Message \cup {NoMsg}]
    /\ \A w \in Workers : (pc[w] \in Busy) <=> (held[w] # NoMsg)
    /\ cursor \in [Workers -> Nat]
    /\ \A w \in Workers : cursor[w] \in 1 .. Len(Polls[w])
    /\ draining \in [Workers -> BOOLEAN]
    /\ done \in SUBSET Jobs
    /\ fails \in [Jobs -> Nat]
    /\ stops \in 0 .. MaxStops
    /\ dbErrors \in 0 .. MaxDbErrors
    /\ overruns \in 0 .. MaxOverruns

Init ==
    /\ queue = {}
    /\ hidden = {}
    /\ archive = {}
    /\ nextId = 1
    /\ enqueued = {}
    /\ pc = [w \in Workers |-> "idle"]
    /\ held = [w \in Workers |-> NoMsg]
    /\ cursor = [w \in Workers |-> 1]
    /\ draining = [w \in Workers |-> FALSE]
    /\ done = {}
    /\ fails = [j \in Jobs |-> 0]
    /\ stops = 0
    /\ dbErrors = 0
    /\ overruns = 0

-----------------------------------------------------------------------------
(* pgmq, external.  A message is immutable; its visibility is membership    *)
(* in hidden.  pgmq.delete and pgmq.archive of a missing row do nothing.    *)

QueueName(w) == Polls[w][cursor[w]]

\* Deviation: a read that ignores the visibility time.
VisibleLeased(q) == {m \in queue : QueueOf[m.job] = q}

Visible(q) == {m \in queue \ hidden : QueueOf[m.job] = q}

\* pgmq.read(q, vt, 1): the visible message with the smallest msg_id.
Oldest(q, m) ==
    /\ m \in Visible(q)
    /\ \A n \in Visible(q) : m.id <= n.id

\* pgmq.send: a fresh msg_id; with a delay the message starts hidden.
Send(j, attempt, waits, delayed) ==
    LET m == [id |-> nextId, job |-> j, attempt |-> attempt, waits |-> waits]
    IN  /\ queue' = queue \cup {m}
        /\ hidden' = IF delayed THEN hidden \cup {m} ELSE hidden
        /\ nextId' = nextId + 1
        /\ UNCHANGED archive

Delete(m) ==
    /\ queue' = queue \ {m}
    /\ hidden' = hidden \ {m}
    /\ UNCHANGED <<archive, nextId>>

Archive(m, why) ==
    /\ archive' = IF m \in queue
                  THEN archive \cup {[msg |-> m, why |-> why]} ELSE archive
    /\ queue' = queue \ {m}
    /\ hidden' = hidden \ {m}
    /\ UNCHANGED nextId

\* vt passes now: a delayed message becomes due, or a lease runs out.  When a
\* live worker still works on the message this is an overrun, which is bounded.
BecomeVisible(m) ==
    /\ m \in hidden
    /\ hidden' = hidden \ {m}
    /\ IF \E w \in Workers : held[w] = m
       THEN overruns < MaxOverruns /\ overruns' = overruns + 1
       ELSE UNCHANGED overruns
    /\ UNCHANGED <<queue, archive, nextId, enqueued, workerVars, done, fails,
                   stops, dbErrors>>

-----------------------------------------------------------------------------
(* Producers.                                                               *)

\* enqueue(): attempt 0, optionally with delaySeconds.
Enqueue(j) ==
    /\ j \notin enqueued
    /\ enqueued' = enqueued \cup {j}
    /\ \E delayed \in BOOLEAN : Send(j, 0, <<>>, delayed)
    /\ UNCHANGED <<workerVars, done, fails, faultVars>>

-----------------------------------------------------------------------------
(* The worker loop.                                                         *)

Goto(w, label) == pc' = [pc EXCEPT ![w] = label]

Drop(w, label) ==
    /\ Goto(w, label)
    /\ held' = [held EXCEPT ![w] = NoMsg]

NextQueue(w) ==
    cursor' = [cursor EXCEPT ![w] = IF @ = Len(Polls[w]) THEN 1 ELSE @ + 1]

\* Where an escaping database error leaves the process: the Node loop catches
\* it and goes on, the Python process dies of it.
AfterDbError(w) == IF w \in PyWorkers THEN "stopped" ELSE "idle"

DbError ==
    /\ dbErrors < MaxDbErrors
    /\ dbErrors' = dbErrors + 1
    /\ UNCHANGED <<stops, overruns>>

\* Deviation: the drain flag is not looked at between two reads.
PollDraining(w) ==
    /\ pc[w] = "idle"
    /\ Goto(w, "reading")
    /\ UNCHANGED <<pgmqVars, enqueued, held, cursor, draining, done, fails, faultVars>>

\* `while (!draining)` / `if (draining) break`, then pgmq.read is issued.
Poll(w) ==
    /\ pc[w] = "idle"
    /\ ~draining[w]
    /\ Goto(w, "reading")
    /\ UNCHANGED <<pgmqVars, enqueued, held, cursor, draining, done, fails, faultVars>>

\* What handleMessage / _process does with a row before its first await.
Dispatch(w, m) ==
    IF m.job \in Malformed
    THEN IF w \in PyWorkers THEN "stopped" ELSE "burying"
    ELSE IF m.job \in Registry[w] THEN "running" ELSE "burying"

\* Deviation: pgmq.pop in place of pgmq.read.
PopRow(w) ==
    /\ pc[w] = "reading"
    /\ \E m \in queue :
        /\ Oldest(QueueName(w), m)
        /\ queue' = queue \ {m}
        /\ Goto(w, Dispatch(w, m))
        /\ held' = [held EXCEPT ![w] = IF Dispatch(w, m) = "stopped" THEN NoMsg ELSE m]
    /\ NextQueue(w)
    /\ UNCHANGED <<hidden, archive, nextId, enqueued, draining, done, fails, faultVars>>

\* pgmq.read returns a row.  The message is leased; the drain flag is not
\* looked at again before the row is handled.
ReadRow(w) ==
    /\ pc[w] = "reading"
    /\ \E m \in queue :
        /\ Oldest(QueueName(w), m)
        /\ hidden' = hidden \cup {m}
        /\ Goto(w, Dispatch(w, m))
        /\ held' = [held EXCEPT ![w] = IF Dispatch(w, m) = "stopped" THEN NoMsg ELSE m]
    /\ NextQueue(w)
    /\ UNCHANGED <<queue, archive, nextId, enqueued, draining, done, fails, faultVars>>

ReadEmpty(w) ==
    /\ pc[w] = "reading"
    /\ Visible(QueueName(w)) = {}
    /\ Goto(w, "idle")
    /\ NextQueue(w)
    /\ UNCHANGED <<pgmqVars, enqueued, held, draining, done, fails, faultVars>>

\* pgmq.read throws; the lease may have been taken before the reply was lost.
ReadFails(w) ==
    /\ pc[w] = "reading"
    /\ DbError
    /\ \/ UNCHANGED hidden
       \/ \E m \in queue : Oldest(QueueName(w), m) /\ hidden' = hidden \cup {m}
    /\ Goto(w, AfterDbError(w))
    /\ NextQueue(w)
    /\ UNCHANGED <<queue, archive, nextId, enqueued, held, draining, done, fails>>

-----------------------------------------------------------------------------
(* handleMessage / _process, between two awaits at a time.                  *)

\* Deviation: the schedule is read one entry too far on.
BackoffFromZero(j, attempt) ==
    LET s == Retry[j].schedule
    IN  IF s = <<>> THEN 0
        ELSE IF attempt + 1 \in DOMAIN s THEN s[attempt + 1] ELSE s[Len(s)]

\* scheduleSeconds[attempt - 1] ?? the last entry ?? 0
Backoff(j, attempt) ==
    LET s == Retry[j].schedule
    IN  IF s = <<>> THEN 0
        ELSE IF attempt \in DOMAIN s THEN s[attempt] ELSE s[Len(s)]

\* Deviations: one attempt too many, one attempt too few.
AttemptFailedLate(w) ==
    LET m == held[w] IN
    /\ fails' = [fails EXCEPT ![m.job] = @ + 1]
    /\ Goto(w, IF m.attempt + 1 > Retry[m.job].maxAttempts THEN "burying" ELSE "retrying")
    /\ UNCHANGED held

AttemptFailedEarly(w) ==
    LET m == held[w] IN
    /\ fails' = [fails EXCEPT ![m.job] = @ + 1]
    /\ Goto(w, IF m.attempt + 2 >= Retry[m.job].maxAttempts THEN "burying" ELSE "retrying")
    /\ UNCHANGED held

\* The catch branch: the attempt is counted, then dead-letter or retry.
AttemptFailed(w) ==
    LET m == held[w] IN
    /\ fails' = [fails EXCEPT ![m.job] = @ + 1]
    /\ Goto(w, IF m.attempt + 1 >= Retry[m.job].maxAttempts THEN "burying" ELSE "retrying")
    /\ UNCHANGED held

HandlerReturns(w) ==
    /\ pc[w] = "running"
    /\ done' = done \cup {held[w].job}
    /\ Goto(w, "acking")
    /\ UNCHANGED <<pgmqVars, enqueued, held, cursor, draining, fails, faultVars>>

\* The payload does not parse or the handler throws.
HandlerThrows(w) ==
    /\ pc[w] = "running"
    /\ AttemptFailed(w)
    /\ UNCHANGED <<pgmqVars, enqueued, cursor, draining, done, faultVars>>

\* Deviation: the delete of a finished message does not find its row.
AcknowledgeWithoutDelete(w) ==
    /\ pc[w] = "acking"
    /\ Drop(w, "idle")
    /\ UNCHANGED <<pgmqVars, enqueued, cursor, draining, done, fails, faultVars>>

Acknowledge(w) ==
    /\ pc[w] = "acking"
    /\ Delete(held[w])
    /\ Drop(w, "idle")
    /\ UNCHANGED <<enqueued, cursor, draining, done, fails, faultVars>>

\* The delete after a successful handler throws inside the same try: the
\* catch branch treats it as a failed attempt, whether or not it committed.
AcknowledgeFails(w) ==
    /\ pc[w] = "acking"
    /\ DbError
    /\ UNCHANGED pgmqVars \/ Delete(held[w])
    /\ AttemptFailed(w)
    /\ UNCHANGED <<enqueued, cursor, draining, done>>

\* Which of the three pgmq.archive calls of handleMessage this is.
WhyBuried(w) ==
    IF held[w].job \in Malformed THEN "malformed"
    ELSE IF held[w].job \in Registry[w] THEN "exhausted" ELSE "unknown"

Bury(w) ==
    /\ pc[w] = "burying"
    /\ Archive(held[w], WhyBuried(w))
    /\ Drop(w, "idle")
    /\ UNCHANGED <<enqueued, cursor, draining, done, fails, faultVars>>

\* No retry of the statement: the error escapes handleMessage.
BuryFails(w) ==
    /\ pc[w] = "burying"
    /\ DbError
    /\ UNCHANGED pgmqVars \/ Archive(held[w], WhyBuried(w))
    /\ Drop(w, AfterDbError(w))
    /\ UNCHANGED <<enqueued, cursor, draining, done, fails>>

\* A retry is two statements outside any transaction: delete, then send.
\* Deviation: the failed message is left in the queue.
KeepForRetry(w) ==
    /\ pc[w] = "retrying"
    /\ Goto(w, "resending")
    /\ UNCHANGED <<pgmqVars, enqueued, held, cursor, draining, done, fails, faultVars>>

DeleteForRetry(w) ==
    /\ pc[w] = "retrying"
    /\ Delete(held[w])
    /\ Goto(w, "resending")
    /\ UNCHANGED <<enqueued, held, cursor, draining, done, fails, faultVars>>

DeleteForRetryFails(w) ==
    /\ pc[w] = "retrying"
    /\ DbError
    /\ UNCHANGED pgmqVars \/ Delete(held[w])
    /\ Drop(w, AfterDbError(w))
    /\ UNCHANGED <<enqueued, cursor, draining, done, fails>>

\* nextEnvelope carries attempt; the backoff is the visibility delay, and waits
\* (not in the envelope) remembers the delays of the tries before.
SendRetry(w) ==
    LET m == held[w]
        a == m.attempt + 1
    IN  Send(m.job, a, Append(m.waits, Backoff(m.job, a)), Backoff(m.job, a) > 0)

Resend(w) ==
    /\ pc[w] = "resending"
    /\ SendRetry(w)
    /\ Drop(w, "idle")
    /\ UNCHANGED <<enqueued, cursor, draining, done, fails, faultVars>>

ResendFails(w) ==
    /\ pc[w] = "resending"
    /\ DbError
    /\ UNCHANGED pgmqVars \/ SendRetry(w)
    /\ Drop(w, AfterDbError(w))
    /\ UNCHANGED <<enqueued, cursor, draining, done, fails>>

-----------------------------------------------------------------------------
(* Process life cycle.                                                      *)

\* SIGTERM or SIGINT; shutdown() is idempotent.
Sigterm(w) ==
    /\ pc[w] # "stopped"
    /\ ~draining[w]
    /\ stops < MaxStops
    /\ stops' = stops + 1
    /\ draining' = [draining EXCEPT ![w] = TRUE]
    /\ UNCHANGED <<pgmqVars, enqueued, pc, held, cursor, done, fails, dbErrors, overruns>>

\* The loop sees the flag, ends, and the process exits.
LoopExit(w) ==
    /\ pc[w] = "idle"
    /\ draining[w]
    /\ Goto(w, "stopped")
    /\ UNCHANGED <<pgmqVars, enqueued, held, cursor, draining, done, fails, faultVars>>

\* shutdown() waits for the loop no longer than the grace period, then
\* process.exit.  The Python worker has no such bound: its wait comes after the
\* loop has ended, on an event that is already set.
GraceExpires(w) ==
    /\ w \notin PyWorkers
    /\ draining[w]
    /\ pc[w] \notin {"idle", "stopped"}
    /\ Drop(w, "stopped")
    /\ UNCHANGED <<pgmqVars, enqueued, cursor, draining, done, fails, faultVars>>

\* SIGKILL, out of memory, a lost host.
Crash(w) ==
    /\ pc[w] # "stopped"
    /\ stops < MaxStops
    /\ stops' = stops + 1
    /\ Drop(w, "stopped")
    /\ UNCHANGED <<pgmqVars, enqueued, cursor, draining, done, fails, dbErrors, overruns>>

\* The platform starts the process again.
Restart(w) ==
    /\ pc[w] = "stopped"
    /\ Goto(w, "idle")
    /\ cursor' = [cursor EXCEPT ![w] = 1]
    /\ draining' = [draining EXCEPT ![w] = FALSE]
    /\ UNCHANGED <<pgmqVars, enqueued, held, done, fails, faultVars>>

-----------------------------------------------------------------------------
\* What a running worker does next when nothing goes wrong in the database.
Advance(w) ==
    \/ Poll(w) \/ ReadRow(w) \/ ReadEmpty(w)
    \/ HandlerReturns(w) \/ HandlerThrows(w)
    \/ Acknowledge(w) \/ Bury(w) \/ DeleteForRetry(w) \/ Resend(w)
    \/ LoopExit(w) \/ Restart(w)

Fault(w) ==
    \/ ReadFails(w) \/ AcknowledgeFails(w) \/ BuryFails(w)
    \/ DeleteForRetryFails(w) \/ ResendFails(w)
    \/ Sigterm(w) \/ GraceExpires(w) \/ Crash(w)

Next ==
    \/ \E j \in Jobs : Enqueue(j)
    \/ \E m \in hidden : BecomeVisible(m)
    \/ \E w \in Workers : Advance(w) \/ Fault(w)

Spec == Init /\ [][Next]_vars

\* Fairness: time passes, so a delay or an abandoned lease runs out; a worker
\* keeps executing its loop, every statement is answered and every handler
\* ends; the platform restarts a stopped process.  Nothing makes a producer
\* send, a handler succeed, a fault happen, or a live lease run out.
LeaseRunsOut == \E m \in hidden : /\ \A w \in Workers : held[w] # m
                                  /\ BecomeVisible(m)

FairSpec ==
    /\ Spec
    /\ WF_vars(LeaseRunsOut)
    /\ \A w \in Workers : WF_vars(Advance(w))

-----------------------------------------------------------------------------
(* Properties.                                                              *)

Archived(j) == \E a \in archive : a.msg.job = j

\* A worker has deleted the failed message and has not sent the next one.
InHandoff(j) == \E w \in Workers : pc[w] = "resending" /\ held[w].job = j

Queued(j) == \E m \in queue : m.job = j

\* A job somebody can still find: in a queue, in the hands of a worker about to
\* re-send it, in the archive, or run to its end.
Accounted(j) == Queued(j) \/ InHandoff(j) \/ Archived(j) \/ j \in done

\* A job can only disappear in the retry hand-off: no crash, drain, lost reply
\* or expired lease at any other point of the loop makes a job unaccounted for.
\* (handleMessage, runWorker.ts:116-133; the visibility timeout as safety net.)
LossIsHandoff ==
    \A j \in Jobs :
        Accounted(j) /\ ~Accounted(j)'
        => \E w \in Workers : /\ pc[w] \in {"retrying", "resending"}
                              /\ held[w].job = j
                              /\ pc'[w] \in {"idle", "stopped"}

LostOnlyInHandoff == [][LossIsHandoff]_vars

\* As long as no handler outlives its lease, no two workers ever work on the
\* same job and a job has at most one message, whatever crashes, SIGTERMs and
\* database errors happen: the lease is a lock and the retry never duplicates.
LeaseIsExclusive ==
    overruns = 0 =>
        /\ \A v, w \in Workers :
             v # w /\ held[v] # NoMsg /\ held[w] # NoMsg => held[v].job # held[w].job
        /\ \A m, n \in queue : m.job = n.job => m = n
        /\ \A j \in Jobs : InHandoff(j) => ~Queued(j)

\* The messages that are in a queue or in the hands of a worker.
Live == queue \cup {held[w] : w \in {v \in Workers : held[v] # NoMsg}}

\* The attempt an envelope carries is backed by that many failures, and never
\* reaches the policy's maximum, however often the message is delivered again:
\* "read_ct counts deliveries; we trust envelope attempt" (runWorker.ts:107).
\* The code's comment is what holds; docs/architecture/05-jobs.md:23 says the
\* opposite: "Attempt count read from pgmq's read_ct", which a delivery raises.
AttemptsAreFailures ==
    \A m \in Live : /\ m.attempt <= fails[m.job]
                    /\ m.attempt < Retry[m.job].maxAttempts

\* "Attempt N waits DEFAULT_BACKOFF[N - 1] before re-running" (defineJob.ts:4):
\* a message at its n-th retry has been delayed by the first n entries of the
\* schedule, in their order and each once, whichever workers made its tries and
\* however often a crash or an expired lease had it delivered again.
RetriesFollowSchedule ==
    \A m \in Live : LET s == Retry[m.job].schedule IN
        /\ Len(m.waits) = m.attempt
        /\ \A i \in 1 .. m.attempt : i <= Len(s) => m.waits[i] = s[i]

\* The archive holds a well-formed job only when a worker polling its queue does
\* not know it, or when it has failed as often as its policy allows.
DeadLetterJustified ==
    \A a \in archive : LET j == a.msg.job IN
        /\ a.why = "malformed" => j \in Malformed
        /\ a.why = "unknown" => \E w \in Workers :
                /\ j \notin Registry[w]
                /\ \E i \in DOMAIN Polls[w] : Polls[w][i] = QueueOf[j]
        /\ a.why = "exhausted" => fails[j] >= Retry[j].maxAttempts

\* Every job that was sent eventually leaves the queue for good.
EventuallySettled ==
    \A j \in Jobs : j \in enqueued ~> [](~Queued(j) /\ ~InHandoff(j))

\* A worker told to drain is gone, even though its handlers and reads go on.
DrainEnds == \A w \in Workers : draining[w] ~> pc[w] = "stopped"

\* The one message of a job: in a queue, or held by a worker that has deleted it.
Handing(j) == {w \in Workers : /\ pc[w] \in {"retrying", "resending"}
                               /\ held[w].job = j
                               /\ held[w] \notin queue}

PhaseOf(j) ==
    IF j \notin enqueued THEN "none"
    ELSE IF Queued(j)
         THEN IF \E w \in Workers : held[w] \in queue /\ held[w].job = j
              THEN "leased" ELSE "queued"
    ELSE IF Handing(j) # {} THEN "handoff"
    ELSE IF j \in done \/ Archived(j) THEN "settled" ELSE "lost"

TriesOf(j) ==
    LET ms == {m \in queue : m.job = j} \cup {held[w] : w \in Handing(j)}
    IN  IF ms = {} THEN 0 ELSE (CHOOSE m \in ms : TRUE).attempt

Lease == INSTANCE JobLease WITH
            MaxTries <- [j \in Jobs |-> Retry[j].maxAttempts],
            phase <- [j \in Jobs |-> PhaseOf(j)],
            tries <- [j \in Jobs |-> TriesOf(j)]

\* While no lease runs out under a live handler, the queue and the workers
\* together implement the single-place job of JobLease, through every crash,
\* drain and database error.
LeaseProtocol == Lease!Spec

-----------------------------------------------------------------------------
(* What the documentation says, and the code does not do.                   *)

\* "Mirrors services/worker-node -- same retry curve, same envelope"
\* (main.py:3): an envelope that does not parse ends in the archive.
MalformedIsArchived == \A j \in Malformed : j \in enqueued ~> Archived(j)

=============================================================================
