------------------------------ MODULE JobLease ------------------------------
(***************************************************************************)
(* What the job machinery promises about one job while no handler outlives  *)
(* its lease: at any time the job is in one place.  It waits in the queue,  *)
(* one worker has it on lease, or the worker that failed it is handing it   *)
(* back; it leaves by being settled (run or dead-lettered), and it can be   *)
(* lost only between a lease and the queue.  A lease may be given back any  *)
(* number of times; an attempt is counted only by the hand-off.             *)
(***************************************************************************)
EXTENDS Naturals

CONSTANTS Jobs, MaxTries

VARIABLES phase, tries

vars == <<phase, tries>>

Phase == {"none", "queued", "leased", "handoff", "settled", "lost"}

Init == /\ phase = [j \in Jobs |-> "none"]
        /\ tries = [j \in Jobs |-> 0]

Move(j, from, to) == phase[j] \in from /\ phase' = [phase EXCEPT ![j] = to]

Accept(j) == Move(j, {"none"}, "queued") /\ UNCHANGED tries

Lease(j) == Move(j, {"queued"}, "leased") /\ UNCHANGED tries

\* A crash, a drain or a database error: the visibility timeout gives it back.
Release(j) == Move(j, {"leased"}, "queued") /\ UNCHANGED tries

HandOff(j) == /\ Move(j, {"leased"}, "handoff")
              /\ tries[j] + 1 < MaxTries[j]
              /\ UNCHANGED tries

Requeue(j) == /\ Move(j, {"handoff"}, "queued")
              /\ tries' = [tries EXCEPT ![j] = @ + 1]

\* A hand-off that breaks off settles a job that had already run to its end.
Leave(j) == /\ \/ Move(j, {"leased", "handoff"}, "settled")
               \/ Move(j, {"leased", "handoff"}, "lost")
            /\ tries' = [tries EXCEPT ![j] = 0]

Next == \E j \in Jobs : \/ Accept(j) \/ Lease(j) \/ Release(j)
                        \/ HandOff(j) \/ Requeue(j) \/ Leave(j)

Spec == Init /\ [][Next]_vars
=============================================================================
