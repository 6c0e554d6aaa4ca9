------------------------------ MODULE Scheduler ------------------------------
(***************************************************************************)
(* The operator-run job queue: the scheduler_jobs table, the API server    *)
(* that creates, cancels and runs jobs inside a request, and the one-shot  *)
(* worker processes (make scheduler-worker-once, make                      *)
(* scheduler-recover-stale) that lease jobs and recover expired leases.    *)
(*                                                                         *)
(* The API server and every worker are separate operating-system processes *)
(* that share one database, so the unit of atomicity is one committed      *)
(* statement: an operation is the sequence of its reads and writes, and    *)
(* the program state of a process is pc.  What a process keeps in memory   *)
(* between two statements (the row it read) is mem.                        *)
(***************************************************************************)
EXTENDS Naturals, FiniteSets

CONSTANTS
    Jobs,         \* job ids, numbered by their rank in list_pending's ORDER BY
    Api,          \* the API server process
    Workers,      \* the one-shot worker processes
    Owner,        \* the lease_owner each worker passes (--lease-owner, or its pid)
    None,         \* SQL NULL: no lease owner, and no current job
    MaxAttempts,  \* the max_attempts column of each job
    BatchLimit,   \* bounded_max: jobs listed, leased or recovered by one run
    ApiOps,       \* the API operations the operator uses
    OneAtATime,   \* TRUE: the operator starts an operation only when none runs
    MaxFaults     \* bound on crashes and failed statements

Procs == {Api} \union Workers
Owners == {Owner[w] : w \in Workers}

Terminal == {"COMPLETED", "FAILED", "CANCELLED", "BLOCKED"}
Outcome == {"COMPLETED", "FAILED", "BLOCKED"}
Status == {"ABSENT", "QUEUED", "RUNNING"} \union Terminal

(***************************************************************************)
(* A row, as far as control flow depends on it.  lease is lease_expires_at *)
(* compared with the clock: NULL, in the future, or in the past.           *)
(***************************************************************************)
Row == [status : Status, attempts : Nat, lease : {"none", "live", "expired"},
        owner : Owners \union {None}]

NoRow == [status |-> "ABSENT", attempts |-> 0, lease |-> "none", owner |-> None]

EventType == {"JOB_CREATED", "JOB_CANCELLED", "JOB_LEASED", "JOB_HEARTBEAT", "JOB_STARTED",
              "JOB_COMPLETED", "JOB_FAILED", "JOB_BLOCKED", "JOB_RELEASED",
              "JOB_STALE_RECOVERED"}

ApiPc == {"create_event", "cancel_save", "cancel_event",
          "run", "run_save", "run_event"}
WorkerPc == {"recover", "recover_event", "lease", "lease_write",
             "work", "heartbeat", "started", "release"}
FinishPc == {"execute", "finish_event", "fail_save", "fail_event"}
\* Where a process has a current job.
InIteration == (ApiPc \union WorkerPc \union FinishPc) \ {"run", "recover", "lease", "work"}
Pc == {"idle"} \union ApiPc \union WorkerPc \union FinishPc

ASSUME JobsAssumption == Jobs \subseteq Nat
ASSUME ProcsAssumption == Api \notin Workers
ASSUME AttemptsAssumption == MaxAttempts \in [Jobs -> Nat \ {0}]
ASSUME LimitAssumption == BatchLimit \in Nat \ {0}
ASSUME FaultsAssumption == MaxFaults \in Nat
ASSUME OwnersAssumption == None \notin Owners
ASSUME OpsAssumption == ApiOps \subseteq {"cancel", "run"} /\ OneAtATime \in BOOLEAN

VARIABLES
    jobs,      \* the table scheduler_jobs
    due,       \* scheduled_for IS NULL OR scheduled_for <= now
    events,    \* the event types in scheduler_job_events, per job
    pc,        \* the next statement of each process
    recoverOnly, \* whether the run stops after recovery (--recover-only)
    todo,      \* the jobs left in the loop a process is in
    held,      \* leased_jobs: the jobs a worker leased in this run and has not run
    cur,       \* the job of the iteration a process is in
    mem,       \* the row images a process holds in memory
    faults     \* crashes and failed statements so far

table == <<jobs, due, events>>
local == <<pc, recoverOnly, todo, held, cur, mem>>
vars == <<jobs, due, events, pc, recoverOnly, todo, held, cur, mem, faults>>

TypeOK ==
    /\ jobs \in [Jobs -> Row]
    /\ due \in [Jobs -> BOOLEAN]
    /\ events \in [Jobs -> SUBSET EventType]
    /\ pc \in [Procs -> Pc]
    /\ recoverOnly \in [Workers -> BOOLEAN]
    /\ todo \in [Procs -> SUBSET Jobs]
    /\ held \in [Workers -> SUBSET Jobs]
    /\ cur \in [Procs -> Jobs \union {None}]
    /\ \A p \in Procs : pc[p] \in InIteration => cur[p] \in Jobs
    /\ mem \in [Procs -> [Jobs -> Row]]
    /\ faults \in 0..MaxFaults

Init ==
    /\ jobs = [j \in Jobs |-> NoRow]
    /\ due \in [Jobs -> BOOLEAN]
    /\ events = [j \in Jobs |-> {}]
    /\ pc = [p \in Procs |-> "idle"]
    /\ recoverOnly = [w \in Workers |-> FALSE]
    /\ todo = [p \in Procs |-> {}]
    /\ held = [w \in Workers |-> {}]
    /\ cur = [p \in Procs |-> None]
    /\ mem = [p \in Procs |-> [j \in Jobs |-> NoRow]]
    /\ faults = 0

-----------------------------------------------------------------------------
(***************************************************************************)
(* Queries and row images.                                                 *)
(***************************************************************************)
First(j, S) == j \in S /\ \A k \in S : j <= k
FirstN(S, n) == {j \in S : Cardinality({k \in S : k < j}) < n}

\* SELECT ... WHERE status = 'QUEUED' AND due ORDER BY ... LIMIT bounded_max
Pending == FirstN({j \in Jobs : jobs[j].status = "QUEUED" /\ due[j]}, BatchLimit)

\* WHERE status = 'RUNNING' AND lease_expires_at IS NOT NULL AND lease_expires_at <= now
StaleRunning == {j \in Jobs : jobs[j].status = "RUNNING" /\ jobs[j].lease = "expired"}

\* Below the limit a job may be tried again; the variant tries once too often.
AttemptsLeftInclusive(j, row) == row.attempts <= MaxAttempts[j]
AttemptsLeft(j, row) == row.attempts < MaxAttempts[j]

\* job | {"status": s, ...}, the lease columns left as they are
WithStatus(row, s) == [row EXCEPT !.status = s]
\* job | {"status": s, "lease_owner": None, "lease_expires_at": None, ...}
Cleared(row, s) == [row EXCEPT !.status = s, !.lease = "none", !.owner = None]

\* SchedulerJobRepository.save: an upsert of the whole row from memory
Save(j, row) == jobs' = [jobs EXCEPT ![j] = row]

AppendEvents(j, types) == events' = [events EXCEPT ![j] = @ \union types]

Goto(p, l) == pc' = [pc EXCEPT ![p] = l]
Load(p, j, row) == mem' = [mem EXCEPT ![p][j] = row]
SetCur(p, j) == cur' = [cur EXCEPT ![p] = j]

CanStart(p) ==
    /\ pc[p] = "idle"
    /\ OneAtATime => \A q \in Procs : pc[q] = "idle"

-----------------------------------------------------------------------------
(***************************************************************************)
(* The API server: create_job, cancel, run_job, run_pending.               *)
(***************************************************************************)
CreateSave(j) ==
    /\ CanStart(Api)
    /\ jobs[j].status = "ABSENT"
    /\ Save(j, WithStatus(NoRow, "QUEUED"))
    /\ Goto(Api, "create_event")
    /\ SetCur(Api, j)
    /\ UNCHANGED <<due, events, recoverOnly, todo, held, mem, faults>>

\* The last statement of an API operation: its event.
CreateEvent ==
    /\ pc[Api] = "create_event"
    /\ AppendEvents(cur[Api], {"JOB_CREATED"})
    /\ Goto(Api, "idle")
    /\ SetCur(Api, None)
    /\ UNCHANGED <<jobs, due, recoverOnly, todo, held, mem, faults>>

\* The variant cancels a job in any status.
CancelGetAny(j) ==
    /\ "cancel" \in ApiOps
    /\ CanStart(Api)
    /\ jobs[j].status # "ABSENT"
    /\ Load(Api, j, jobs[j])
    /\ SetCur(Api, j)
    /\ Goto(Api, "cancel_save")
    /\ UNCHANGED <<table, recoverOnly, todo, held, faults>>

\* A job that is absent or not queued is answered without changing the table.
CancelGet(j) ==
    /\ "cancel" \in ApiOps
    /\ CanStart(Api)
    /\ jobs[j].status = "QUEUED"
    /\ Load(Api, j, jobs[j])
    /\ SetCur(Api, j)
    /\ Goto(Api, "cancel_save")
    /\ UNCHANGED <<table, recoverOnly, todo, held, faults>>

CancelSave ==
    /\ pc[Api] = "cancel_save"
    /\ LET j == cur[Api] IN
        /\ Save(j, WithStatus(mem[Api][j], "CANCELLED"))
        /\ Load(Api, j, NoRow)
    /\ Goto(Api, "cancel_event")
    /\ UNCHANGED <<due, events, recoverOnly, todo, held, cur, faults>>

CancelEvent ==
    /\ pc[Api] = "cancel_event"
    /\ AppendEvents(cur[Api], {"JOB_CANCELLED"})
    /\ Goto(Api, "idle")
    /\ SetCur(Api, None)
    /\ UNCHANGED <<jobs, due, recoverOnly, todo, held, mem, faults>>

\* run_job names one job, due or not; run_pending lists the due jobs first.
RunStart(S) ==
    /\ "run" \in ApiOps
    /\ CanStart(Api)
    /\ S # {}
    /\ todo' = [todo EXCEPT ![Api] = S]
    /\ Goto(Api, "run")
    /\ UNCHANGED <<table, recoverOnly, held, cur, mem, faults>>

RunJob(j) == RunStart({j})
RunPending == RunStart(Pending)

\* run_job reads the row again; one that is no longer queued is skipped.
RunGet(j) ==
    /\ pc[Api] = "run"
    /\ First(j, todo[Api])
    /\ todo' = [todo EXCEPT ![Api] = @ \ {j}]
    /\ \/ /\ jobs[j].status # "QUEUED"
          /\ UNCHANGED <<pc, cur, mem>>
       \/ /\ jobs[j].status = "QUEUED"
          /\ Load(Api, j, jobs[j])
          /\ SetCur(Api, j)
          /\ Goto(Api, "run_save")
    /\ UNCHANGED <<table, recoverOnly, held, faults>>

RunSave ==
    /\ pc[Api] = "run_save"
    /\ LET j == cur[Api]
           running == Cleared(mem[Api][j], "RUNNING")
       IN  Save(j, running) /\ Load(Api, j, running)
    /\ Goto(Api, "run_event")
    /\ UNCHANGED <<due, events, recoverOnly, todo, held, cur, faults>>

RunEvent ==
    /\ pc[Api] = "run_event"
    /\ AppendEvents(cur[Api], {"JOB_STARTED"})
    /\ Goto(Api, "execute")
    /\ UNCHANGED <<jobs, due, recoverOnly, todo, held, cur, mem, faults>>

RunDone ==
    /\ pc[Api] = "run"
    /\ todo[Api] = {}
    /\ Goto(Api, "idle")
    /\ UNCHANGED <<table, recoverOnly, todo, held, cur, mem, faults>>

-----------------------------------------------------------------------------
(***************************************************************************)
(* The worker: run_worker_once and recover_stale_leases.                   *)
(***************************************************************************)
\* list_stale_running keeps the rows it read; LIMIT bounded_max of them.
WorkerStart(w, only) ==
    /\ CanStart(w)
    /\ \E S \in SUBSET StaleRunning :
        /\ \/ S = StaleRunning /\ Cardinality(S) <= BatchLimit
           \/ Cardinality(S) = BatchLimit
        /\ todo' = [todo EXCEPT ![w] = S]
        /\ mem' = [mem EXCEPT ![w] = [j \in Jobs |-> IF j \in S THEN jobs[j] ELSE NoRow]]
    /\ recoverOnly' = [recoverOnly EXCEPT ![w] = only]
    /\ Goto(w, "recover")
    /\ UNCHANGED <<table, held, cur, faults>>

\* The row saved is the image list_stale_running read, not the current row.
RecoverSave(w, j) ==
    /\ pc[w] = "recover"
    /\ j \in todo[w]
    /\ Save(j, Cleared(mem[w][j], IF AttemptsLeft(j, mem[w][j]) THEN "QUEUED" ELSE "FAILED"))
    /\ Load(w, j, NoRow)
    /\ SetCur(w, j)
    /\ todo' = [todo EXCEPT ![w] = @ \ {j}]
    /\ Goto(w, "recover_event")
    /\ UNCHANGED <<due, events, recoverOnly, held, faults>>

RecoverEvent(w) ==
    /\ pc[w] = "recover_event"
    /\ AppendEvents(cur[w], {"JOB_STALE_RECOVERED"})
    /\ Goto(w, "recover")
    /\ SetCur(w, None)
    /\ UNCHANGED <<jobs, due, recoverOnly, todo, held, mem, faults>>

\* --recover-only ends here; otherwise lease_next lists the due queued jobs.
RecoverDone(w) ==
    /\ pc[w] = "recover"
    /\ todo[w] = {}
    /\ \/ recoverOnly[w] /\ Goto(w, "idle") /\ UNCHANGED todo
       \/ /\ ~recoverOnly[w]
          /\ todo' = [todo EXCEPT ![w] = Pending]
          /\ Goto(w, "lease")
    /\ recoverOnly' = [recoverOnly EXCEPT ![w] = FALSE]
    /\ UNCHANGED <<table, held, cur, mem, faults>>

\* The guard of SchedulerJobRepository.lease, on the row it selects.
Leasable(j) ==
    /\ jobs[j].status = "QUEUED"
    /\ due[j]
    /\ AttemptsLeft(j, jobs[j])

LeaseRead(w, j) ==
    /\ pc[w] = "lease"
    /\ First(j, todo[w])
    /\ todo' = [todo EXCEPT ![w] = @ \ {j}]
    /\ \/ ~Leasable(j) /\ UNCHANGED <<pc, cur, mem>>
       \/ /\ Leasable(j)
          /\ Load(w, j, jobs[j])
          /\ SetCur(w, j)
          /\ Goto(w, "lease_write")
    /\ UNCHANGED <<table, recoverOnly, held, faults>>

\* The variant counts the attempt in SQL: SET attempt_count = attempt_count + 1.
LeasedRowInSql(w, j) == [status |-> "RUNNING", attempts |-> jobs[j].attempts + 1,
                         lease |-> "live", owner |-> Owner[w]]
\* The variant leaves lease_expires_at NULL.
LeasedRowNoExpiry(w, j) == [status |-> "RUNNING", attempts |-> mem[w][j].attempts + 1,
                            lease |-> "none", owner |-> Owner[w]]
LeasedRow(w, j) == [status |-> "RUNNING", attempts |-> mem[w][j].attempts + 1,
                    lease |-> "live", owner |-> Owner[w]]

\* The UPDATE names the job id only, and counts the attempt from the row read.
LeaseWrite(w) ==
    /\ pc[w] = "lease_write"
    /\ LET j == cur[w]
           leased == LeasedRow(w, j)
       IN  /\ Save(j, leased)
           /\ Load(w, j, leased)
           /\ held' = [held EXCEPT ![w] = @ \union {j}]
    /\ Goto(w, "lease")
    /\ SetCur(w, None)
    /\ UNCHANGED <<due, events, recoverOnly, todo, faults>>

LeaseDone(w) ==
    /\ pc[w] = "lease"
    /\ todo[w] = {}
    /\ Goto(w, "work")
    /\ UNCHANGED <<table, recoverOnly, todo, held, cur, mem, faults>>

HoldsLease(w, j) == jobs[j].status = "RUNNING" /\ jobs[j].owner = Owner[w]

\* JOB_LEASED, then the SELECT of heartbeat.  When the lease is lost heartbeat
\* returns None and the worker goes on with the row it leased.
WorkNext(w, j) ==
    /\ pc[w] = "work"
    /\ First(j, held[w])
    /\ AppendEvents(j, {"JOB_LEASED"})
    /\ SetCur(w, j)
    /\ held' = [held EXCEPT ![w] = @ \ {j}]
    /\ Goto(w, IF HoldsLease(w, j) THEN "heartbeat" ELSE "started")
    /\ UNCHANGED <<jobs, due, recoverOnly, todo, mem, faults>>

HeartbeatWrite(w) ==
    /\ pc[w] = "heartbeat"
    /\ LET j == cur[w]
           row == [jobs[j] EXCEPT !.lease = "live"]
       IN  Save(j, row) /\ Load(w, j, row)
    /\ Goto(w, "started")
    /\ UNCHANGED <<due, events, recoverOnly, todo, held, cur, faults>>

Started(w) ==
    /\ pc[w] = "started"
    /\ AppendEvents(cur[w], {"JOB_HEARTBEAT", "JOB_STARTED"})
    /\ Goto(w, "execute")
    /\ UNCHANGED <<jobs, due, recoverOnly, todo, held, cur, mem, faults>>

Release(w) ==
    /\ pc[w] = "release"
    /\ AppendEvents(cur[w], {"JOB_RELEASED"})
    /\ Goto(w, "work")
    /\ SetCur(w, None)
    /\ UNCHANGED <<jobs, due, recoverOnly, todo, held, mem, faults>>

WorkDone(w) ==
    /\ pc[w] = "work"
    /\ held[w] = {}
    /\ Goto(w, "idle")
    /\ UNCHANGED <<table, recoverOnly, todo, held, cur, mem, faults>>

-----------------------------------------------------------------------------
(***************************************************************************)
(* _finish_running_job, in whichever process runs the job.                 *)
(***************************************************************************)
\* The variant reports a blocked job as failed.
EventOfBlockedFailed(s) == IF s = "COMPLETED" THEN "JOB_COMPLETED" ELSE "JOB_FAILED"
EventOf(s) == CASE s = "COMPLETED" -> "JOB_COMPLETED"
                [] s = "BLOCKED"   -> "JOB_BLOCKED"
                [] OTHER           -> "JOB_FAILED"

\* The variant forgets the current job before JOB_RELEASED.
FinishedForgets(p) ==
    Goto(p, IF p = Api THEN "run" ELSE "release") /\ SetCur(p, None)
\* The iteration ends: the worker appends JOB_RELEASED, run_pending goes on.
Finished(p) ==
    IF p = Api THEN Goto(p, "run") /\ SetCur(p, None)
               ELSE Goto(p, "release") /\ UNCHANGED cur

\* _execute ends with a result or an exception; the in-memory row is saved.
\* The image kept is the row saved, whose status names the event to append;
\* the row of the exception path differs from it in no other modelled column.
FinishSave(p, s) ==
    /\ pc[p] = "execute"
    /\ LET j == cur[p]
           completed == Cleared(mem[p][j], s)
       IN  Save(j, completed) /\ Load(p, j, completed)
    /\ Goto(p, "finish_event")
    /\ UNCHANGED <<due, events, recoverOnly, todo, held, cur, faults>>

FinishEvent(p) ==
    /\ pc[p] = "finish_event"
    /\ AppendEvents(cur[p], {EventOf(mem[p][cur[p]].status)})
    /\ Load(p, cur[p], NoRow)
    /\ Finished(p)
    /\ UNCHANGED <<jobs, due, recoverOnly, todo, held, faults>>

\* The event's INSERT raises inside the try block: its handler marks the job failed.
FinishEventFails(p) ==
    /\ pc[p] = "finish_event"
    /\ faults < MaxFaults
    /\ faults' = faults + 1
    /\ Goto(p, "fail_save")
    /\ UNCHANGED <<table, recoverOnly, todo, held, cur, mem>>

FailSave(p) ==
    /\ pc[p] = "fail_save"
    /\ Save(cur[p], Cleared(mem[p][cur[p]], "FAILED"))
    /\ Load(p, cur[p], NoRow)
    /\ Goto(p, "fail_event")
    /\ UNCHANGED <<due, events, recoverOnly, todo, held, cur, faults>>

FailEvent(p) ==
    /\ pc[p] = "fail_event"
    /\ AppendEvents(cur[p], {"JOB_FAILED"})
    /\ Finished(p)
    /\ UNCHANGED <<jobs, due, recoverOnly, todo, held, mem, faults>>

-----------------------------------------------------------------------------
(***************************************************************************)
(* The environment: time and crashes.                                      *)
(***************************************************************************)
LeaseExpires(j) ==
    /\ jobs[j].lease = "live"
    /\ jobs' = [jobs EXCEPT ![j].lease = "expired"]
    /\ UNCHANGED <<due, events, local, faults>>

BecomesDue(j) ==
    /\ ~due[j]
    /\ due' = [due EXCEPT ![j] = TRUE]
    /\ UNCHANGED <<jobs, events, local, faults>>

\* A process dies, or an exception outside _finish_running_job's try ends its run.
Crash(p) ==
    /\ pc[p] # "idle"
    /\ faults < MaxFaults
    /\ faults' = faults + 1
    /\ Goto(p, "idle")
    /\ todo' = [todo EXCEPT ![p] = {}]
    /\ IF p = Api THEN UNCHANGED <<held, recoverOnly>>
       ELSE /\ held' = [held EXCEPT ![p] = {}]
            /\ recoverOnly' = [recoverOnly EXCEPT ![p] = FALSE]
    /\ SetCur(p, None)
    /\ mem' = [mem EXCEPT ![p] = [j \in Jobs |-> NoRow]]
    /\ UNCHANGED table

Finish(p) ==
    \/ \E s \in Outcome : FinishSave(p, s)
    \/ FinishEvent(p) \/ FailSave(p) \/ FailEvent(p)

\* What a process does once an operation has started, until it ends.
ApiStep ==
    \/ CreateEvent
    \/ CancelSave \/ CancelEvent
    \/ \E j \in Jobs : RunGet(j)
    \/ RunSave \/ RunEvent \/ RunDone
    \/ Finish(Api)

WorkerStep(w) ==
    \/ \E j \in Jobs : RecoverSave(w, j) \/ LeaseRead(w, j) \/ WorkNext(w, j)
    \/ RecoverEvent(w) \/ RecoverDone(w)
    \/ LeaseWrite(w) \/ LeaseDone(w)
    \/ HeartbeatWrite(w) \/ Started(w) \/ Release(w) \/ WorkDone(w)
    \/ Finish(w)

ApiStart == \E j \in Jobs : CreateSave(j) \/ CancelGet(j) \/ RunJob(j)

Environment ==
    \/ \E j \in Jobs : LeaseExpires(j) \/ BecomesDue(j)
    \/ \E p \in Procs : Crash(p) \/ FinishEventFails(p)

Next ==
    \/ ApiStart \/ RunPending \/ ApiStep
    \/ \E w \in Workers : WorkerStep(w) \/ \E only \in BOOLEAN : WorkerStart(w, only)
    \/ Environment

Spec == Init /\ [][Next]_vars

(***************************************************************************)
(* A process that has started an operation goes on unless it crashes; the  *)
(* operator keeps invoking the worker; clocks advance.                     *)
(***************************************************************************)
Fairness ==
    /\ WF_vars(ApiStep)
    /\ \A w \in Workers : WF_vars(WorkerStep(w))
    /\ SF_vars(\E w \in Workers : WorkerStart(w, FALSE))
    /\ \A j \in Jobs : WF_vars(LeaseExpires(j)) /\ WF_vars(BecomesDue(j))

FairSpec == Spec /\ Fairness

-----------------------------------------------------------------------------
(***************************************************************************)
(* Properties.                                                             *)
(***************************************************************************)
Lifecycle == INSTANCE JobLifecycle
    WITH status <- [j \in Jobs |-> jobs[j].status],
         attempts <- [j \in Jobs |-> jobs[j].attempts]

\* When the operator runs one command at a time the queue keeps the lifecycle
\* of every job, through crashes, expired leases and recovery.
ImplementsLifecycle == Lifecycle!LifecycleSpec

\* Whatever the interleaving, no row is charged more attempts than its
\* max_attempts: recovery requeues only below the limit, and a lease never
\* starts at it, from any row image a process may still hold.
AttemptsBounded ==
    /\ \A j \in Jobs : jobs[j].attempts <= MaxAttempts[j]
    /\ \A p \in Procs, j \in Jobs : mem[p][j].attempts <= MaxAttempts[j]

\* A queued job can always be leased once it is due.  list_pending filters on
\* status only and cuts at LIMIT, while lease refuses exhausted jobs: a queued
\* job without attempts left would occupy a place of every batch for ever.
QueuedIsLeasable ==
    \A j \in Jobs : jobs[j].status = "QUEUED" => jobs[j].attempts < MaxAttempts[j]

\* The inductive strengthening: a process about to write a lease read a row
\* with an attempt left, whatever the table has become since.
AttemptsInv ==
    /\ AttemptsBounded
    /\ QueuedIsLeasable
    /\ \A w \in Workers : pc[w] = "lease_write" => AttemptsLeft(cur[w], mem[w][cur[w]])

Settling(j) ==
    \E p \in Procs : cur[p] = j /\ pc[p] \in {"cancel_event", "recover_event",
                                     "finish_event", "fail_save", "fail_event"}

\* The audit trail: each finished job whose final event is missing is paid for
\* by a crash or a failed statement.
HasFinalEvent(j) ==
    LET s == jobs[j].status IN
    \/ s = "CANCELLED" /\ "JOB_CANCELLED" \in events[j]
    \/ s = "COMPLETED" /\ "JOB_COMPLETED" \in events[j]
    \/ s = "BLOCKED" /\ "JOB_BLOCKED" \in events[j]
    \/ s = "FAILED" /\ events[j] \cap {"JOB_FAILED", "JOB_STALE_RECOVERED"} # {}

AuditTrail ==
    Cardinality({j \in Jobs : /\ jobs[j].status \in Terminal
                              /\ ~HasFinalEvent(j)
                              /\ ~Settling(j)}) <= faults

\* A row without a lease is not a worker's: a lease or an owner is left only on
\* a running job, so recovery finds every job a dead worker left.
LeaseMeansRunning ==
    \A j \in Jobs : /\ jobs[j].lease # "none" => jobs[j].status = "RUNNING"
                    /\ (jobs[j].lease # "none") = (jobs[j].owner # None)

\* A job started by run_job holds no lease, so that no recovery will ever list
\* it: when the server dies before the job ends, the row stays RUNNING.
Abandoned(j) ==
    /\ jobs[j].status = "RUNNING" /\ jobs[j].lease = "none" /\ jobs[j].owner = None
    /\ faults > 0
    /\ \A p \in Procs : cur[p] # j

\* Every queued job ends, and the only way not to end is to be abandoned by a
\* server that died inside run_job: no place in a batch is held for ever, and
\* every job a worker leaves behind is recovered.
JobsEnd ==
    \A j \in Jobs : (jobs[j].status = "QUEUED") ~> (jobs[j].status \in Terminal \/ Abandoned(j))
=============================================================================
