---------------------------- MODULE JobLifecycle ----------------------------
(***************************************************************************)
(* What the job queue promises about one job, whoever runs it: a job is    *)
(* submitted once, is cancelled only while it is queued, is tried at most  *)
(* MaxAttempts times by workers, and once it has ended it stays ended; the *)
(* outcome of a job that ran may still be turned into FAILED when its      *)
(* final event cannot be recorded.                                         *)
(***************************************************************************)
EXTENDS Naturals

CONSTANTS Jobs, MaxAttempts

VARIABLES status, attempts

lifecycle == <<status, attempts>>

Ended == {"COMPLETED", "FAILED", "BLOCKED"}

LifecycleInit ==
    /\ status = [j \in Jobs |-> "ABSENT"]
    /\ attempts = [j \in Jobs |-> 0]

Become(j, from, to) ==
    /\ status[j] = from
    /\ status' = [status EXCEPT ![j] = to]

Submit(j) == Become(j, "ABSENT", "QUEUED") /\ UNCHANGED attempts
Cancel(j) == Become(j, "QUEUED", "CANCELLED") /\ UNCHANGED attempts

\* The operator runs the job inside a request: no attempt is counted.
RunNow(j) == Become(j, "QUEUED", "RUNNING") /\ UNCHANGED attempts

\* A worker leases the job, which counts as one attempt.
Lease(j) ==
    /\ attempts[j] < MaxAttempts[j]
    /\ Become(j, "QUEUED", "RUNNING")
    /\ attempts' = [attempts EXCEPT ![j] = @ + 1]

Requeue(j) ==
    /\ attempts[j] < MaxAttempts[j]
    /\ Become(j, "RUNNING", "QUEUED")
    /\ UNCHANGED attempts

End(j, s) == Become(j, "RUNNING", s) /\ UNCHANGED attempts

MarkFailed(j) == (\E s \in Ended : Become(j, s, "FAILED")) /\ UNCHANGED attempts

LifecycleNext ==
    \E j \in Jobs :
        \/ Submit(j) \/ Cancel(j) \/ RunNow(j) \/ Lease(j) \/ Requeue(j)
        \/ \E s \in Ended : End(j, s)
        \/ MarkFailed(j)

LifecycleSpec == LifecycleInit /\ [][LifecycleNext]_lifecycle
=============================================================================
