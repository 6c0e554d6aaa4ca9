---------------------------- MODULE SchedulerProofs ----------------------------
(***************************************************************************)
(* Proofs, for every set of jobs and workers, every batch limit and number *)
(* of faults: under every interleaving, the type invariant, the two        *)
(* invariants that bound attempts and the audit trail; under a serial      *)
(* operator, that leases are left on running jobs only and that the queue  *)
(* implements the life of a job, JobLifecycle.                             *)
(***************************************************************************)
EXTENDS Scheduler, FiniteSetTheorems, TLAPS

-----------------------------------------------------------------------------
(***************************************************************************)
(* Row images and the helpers that move them.                              *)
(***************************************************************************)
LEMMA NoRowType == NoRow \in Row
  BY DEF NoRow, Row, Status

LEMMA ClearedType ==
  ASSUME NEW row \in Row, NEW s \in Status
  PROVE  Cleared(row, s) \in Row /\ Cleared(row, s).attempts = row.attempts
                                 /\ Cleared(row, s).status = s
  BY DEF Cleared, Row

LEMMA StatusType ==
  ASSUME NEW row \in Row, NEW s \in Status
  PROVE  /\ WithStatus(row, s) \in Row
         /\ WithStatus(row, s).attempts = row.attempts
         /\ WithStatus(row, s).status = s
  BY DEF WithStatus, Row

LEMMA LeaseType ==
  ASSUME NEW row \in Row, NEW l \in {"none", "live", "expired"}
  PROVE  /\ [row EXCEPT !.lease = l] \in Row
         /\ [row EXCEPT !.lease = l].attempts = row.attempts
         /\ [row EXCEPT !.lease = l].status = row.status
  BY DEF Row

LEMMA LeasedRowType ==
  ASSUME TypeOK, NEW w \in Workers, NEW j \in Jobs
  PROVE  /\ LeasedRow(w, j) \in Row
         /\ LeasedRow(w, j).attempts = mem[w][j].attempts + 1
         /\ LeasedRow(w, j).status = "RUNNING"
  BY DEF LeasedRow, Row, Status, Owners, TypeOK, Procs

LEMMA SaveType ==
  ASSUME TypeOK, NEW j \in Jobs, NEW row \in Row, Save(j, row)
  PROVE  /\ jobs' \in [Jobs -> Row]
         /\ jobs'[j] = row
         /\ \A k \in Jobs \ {j} : jobs'[k] = jobs[k]
  BY DEF Save, TypeOK

LEMMA LoadType ==
  ASSUME TypeOK, NEW p \in Procs, NEW j \in Jobs, NEW row \in Row, Load(p, j, row)
  PROVE  /\ mem' \in [Procs -> [Jobs -> Row]]
         /\ mem'[p][j] = row
         /\ \A q \in Procs, k \in Jobs : q # p \/ k # j => mem'[q][k] = mem[q][k]
  BY DEF Load, TypeOK

LEMMA RowType ==
  ASSUME TypeOK, NEW j \in Jobs
  PROVE  /\ jobs[j] \in Row /\ jobs[j].attempts \in Nat
         /\ \A p \in Procs : mem[p][j] \in Row /\ mem[p][j].attempts \in Nat
  BY DEF TypeOK, Row

LEMMA EventOfType == \A s \in Status : EventOf(s) \in EventType
  BY DEF EventOf, EventType

-----------------------------------------------------------------------------
(***************************************************************************)
(* Type correctness: one step per action.                                  *)
(***************************************************************************)
LEMMA InitTypeOK == Init => TypeOK
  BY FaultsAssumption, NoRowType
  DEF Init, TypeOK, Procs, Pc, ApiPc, WorkerPc, FinishPc, InIteration, EventType

LEMMA StepTypeOK == TypeOK /\ [Next]_vars => TypeOK'
<1> SUFFICES ASSUME TypeOK, [Next]_vars
             PROVE  TypeOK'
  OBVIOUS
<1> USE ProcsAssumption, FaultsAssumption
<1>1. ASSUME NEW j \in Jobs, CreateSave(j)
      PROVE  TypeOK'
  <2> DEFINE k == j
  <2>1. k \in Jobs
    BY <1>1 DEF CreateSave, TypeOK, Procs, Pc, ApiPc, WorkerPc, FinishPc, InIteration
  <2>2. jobs' \in [Jobs -> Row]
    <3>1. WithStatus(NoRow, "QUEUED") \in Row
      BY <2>1, RowType, NoRowType, StatusType DEF Status, Terminal, Outcome, Procs
    <3>2. Save(k, WithStatus(NoRow, "QUEUED"))
      BY <1>1 DEF CreateSave
    <3> QED
      BY <2>1, <3>1, <3>2, SaveType
  <2> QED
    BY <1>1, <2>1, <2>2 DEF CreateSave, TypeOK, Procs, Pc, ApiPc, WorkerPc, FinishPc, InIteration,
       SetCur, Goto, AppendEvents, table, local, EventType
<1>2. ASSUME CreateEvent
      PROVE  TypeOK'
  BY <1>2 DEF CreateEvent, TypeOK, Procs, Pc, ApiPc, WorkerPc, FinishPc, InIteration,
     SetCur, Goto, AppendEvents, table, local, EventType
<1>3. ASSUME NEW j \in Jobs, CancelGet(j)
      PROVE  TypeOK'
  BY <1>3, RowType, LoadType DEF CancelGet, TypeOK, Procs, Pc, ApiPc, WorkerPc, FinishPc, InIteration,
     SetCur, Goto, AppendEvents, table, local, EventType
<1>4. ASSUME CancelSave
      PROVE  TypeOK'
  <2> DEFINE k == cur[Api]
  <2>1. k \in Jobs
    BY <1>4 DEF CancelSave, TypeOK, Procs, Pc, ApiPc, WorkerPc, FinishPc, InIteration
  <2>2. jobs' \in [Jobs -> Row]
    <3>1. WithStatus(mem[Api][k], "CANCELLED") \in Row
      BY <2>1, RowType, NoRowType, StatusType DEF Status, Terminal, Outcome, Procs
    <3>2. Save(k, WithStatus(mem[Api][k], "CANCELLED"))
      BY <1>4 DEF CancelSave
    <3> QED
      BY <2>1, <3>1, <3>2, SaveType
  <2>3. mem' \in [Procs -> [Jobs -> Row]]
    <3>1. NoRow \in Row
      BY <2>1, RowType, NoRowType, StatusType DEF Status, Terminal, Outcome, Procs
    <3>2. Load(Api, k, NoRow)
      BY <1>4 DEF CancelSave
    <3> QED
      BY <2>1, <3>1, <3>2, LoadType DEF Procs
  <2> QED
    BY <1>4, <2>1, <2>2, <2>3 DEF CancelSave, TypeOK, Procs, Pc, ApiPc, WorkerPc, FinishPc, InIteration,
       SetCur, Goto, AppendEvents, table, local, EventType
<1>5. ASSUME CancelEvent
      PROVE  TypeOK'
  BY <1>5 DEF CancelEvent, TypeOK, Procs, Pc, ApiPc, WorkerPc, FinishPc, InIteration,
     SetCur, Goto, AppendEvents, table, local, EventType
<1>6. ASSUME NEW j \in Jobs, RunJob(j)
      PROVE  TypeOK'
  BY <1>6 DEF RunJob, RunStart, TypeOK, Procs, Pc, ApiPc, WorkerPc, FinishPc, InIteration,
     SetCur, Goto, AppendEvents, table, local, EventType
<1>7. ASSUME RunPending
      PROVE  TypeOK'
  BY <1>7, SMTT(30) DEF RunPending, RunStart, Pending, FirstN, TypeOK, Procs, Pc, ApiPc, WorkerPc, FinishPc, InIteration,
     SetCur, Goto, AppendEvents, table, local, EventType
<1>8. ASSUME NEW j \in Jobs, RunGet(j)
      PROVE  TypeOK'
  BY <1>8, RowType, LoadType, SMTT(30) DEF RunGet, TypeOK, Procs, Pc, ApiPc, WorkerPc, FinishPc, InIteration,
     SetCur, Goto, AppendEvents, table, local, EventType
<1>9. ASSUME RunSave
      PROVE  TypeOK'
  <2> DEFINE k == cur[Api]
  <2>1. k \in Jobs
    BY <1>9 DEF RunSave, TypeOK, Procs, Pc, ApiPc, WorkerPc, FinishPc, InIteration
  <2>2. jobs' \in [Jobs -> Row]
    <3>1. Cleared(mem[Api][k], "RUNNING") \in Row
      BY <2>1, RowType, ClearedType DEF Status, Terminal, Outcome, Procs
    <3>2. Save(k, Cleared(mem[Api][k], "RUNNING"))
      BY <1>9 DEF RunSave
    <3> QED
      BY <2>1, <3>1, <3>2, SaveType
  <2>3. mem' \in [Procs -> [Jobs -> Row]]
    <3>1. Cleared(mem[Api][k], "RUNNING") \in Row
      BY <2>1, RowType, ClearedType DEF Status, Terminal, Outcome, Procs
    <3>2. Load(Api, k, Cleared(mem[Api][k], "RUNNING"))
      BY <1>9 DEF RunSave
    <3> QED
      BY <2>1, <3>1, <3>2, LoadType DEF Procs
  <2> QED
    BY <1>9, <2>1, <2>2, <2>3 DEF RunSave, TypeOK, Procs, Pc, ApiPc, WorkerPc, FinishPc, InIteration,
       SetCur, Goto, AppendEvents, table, local, EventType
<1>10. ASSUME RunEvent
      PROVE  TypeOK'
  BY <1>10 DEF RunEvent, TypeOK, Procs, Pc, ApiPc, WorkerPc, FinishPc, InIteration,
     SetCur, Goto, AppendEvents, table, local, EventType
<1>11. ASSUME RunDone
      PROVE  TypeOK'
  BY <1>11 DEF RunDone, TypeOK, Procs, Pc, ApiPc, WorkerPc, FinishPc, InIteration,
     SetCur, Goto, AppendEvents, table, local, EventType
<1>12. ASSUME NEW w \in Workers, NEW only \in BOOLEAN, WorkerStart(w, only)
      PROVE  TypeOK'
  BY <1>12, RowType, NoRowType DEF WorkerStart, StaleRunning, TypeOK, Procs, Pc, ApiPc, WorkerPc, FinishPc, InIteration,
     SetCur, Goto, AppendEvents, table, local, EventType
<1>13. ASSUME NEW w \in Workers, NEW j \in Jobs, RecoverSave(w, j)
      PROVE  TypeOK'
  <2> DEFINE k == j
  <2>1. k \in Jobs
    BY <1>13 DEF RecoverSave, TypeOK, Procs, Pc, ApiPc, WorkerPc, FinishPc, InIteration
  <2>2. jobs' \in [Jobs -> Row]
    <3>1. Cleared(mem[w][k], IF AttemptsLeft(k, mem[w][k]) THEN "QUEUED" ELSE "FAILED") \in Row
      BY <2>1, RowType, NoRowType, ClearedType DEF Status, Terminal, Outcome, Procs
    <3>2. Save(k, Cleared(mem[w][k], IF AttemptsLeft(k, mem[w][k]) THEN "QUEUED" ELSE "FAILED"))
      BY <1>13 DEF RecoverSave
    <3> QED
      BY <2>1, <3>1, <3>2, SaveType
  <2>3. mem' \in [Procs -> [Jobs -> Row]]
    <3>1. NoRow \in Row
      BY <2>1, RowType, NoRowType, ClearedType DEF Status, Terminal, Outcome, Procs
    <3>2. Load(w, k, NoRow)
      BY <1>13 DEF RecoverSave
    <3> QED
      BY <2>1, <3>1, <3>2, LoadType DEF Procs
  <2> QED
    BY <1>13, <2>1, <2>2, <2>3 DEF RecoverSave, TypeOK, Procs, Pc, ApiPc, WorkerPc, FinishPc, InIteration,
       SetCur, Goto, AppendEvents, table, local, EventType
<1>14. ASSUME NEW w \in Workers, RecoverEvent(w)
      PROVE  TypeOK'
  BY <1>14 DEF RecoverEvent, TypeOK, Procs, Pc, ApiPc, WorkerPc, FinishPc, InIteration,
     SetCur, Goto, AppendEvents, table, local, EventType
<1>15. ASSUME NEW w \in Workers, RecoverDone(w)
      PROVE  TypeOK'
  <2>1. Pending \subseteq Jobs
    BY DEF Pending, FirstN
  <2>2. CASE recoverOnly[w]
    BY <1>15, <2>2, ZenonT(40) DEF RecoverDone, TypeOK, Procs, Pc, ApiPc, WorkerPc, FinishPc, InIteration,
       SetCur, Goto, AppendEvents, table, local, EventType
  <2>3. CASE ~recoverOnly[w]
    BY <1>15, <2>1, <2>3 DEF RecoverDone, TypeOK, Procs, Pc, ApiPc, WorkerPc, FinishPc, InIteration,
       SetCur, Goto, AppendEvents, table, local, EventType
  <2> QED
    BY <2>2, <2>3
<1>16. ASSUME NEW w \in Workers, NEW j \in Jobs, LeaseRead(w, j)
      PROVE  TypeOK'
  <2>1. CASE ~Leasable(j)
    BY <1>16, <2>1 DEF LeaseRead, TypeOK, Procs, Pc, ApiPc, WorkerPc, FinishPc, InIteration,
       SetCur, Goto, AppendEvents, table, local, EventType
  <2>2. CASE Leasable(j)
    <3>0. Load(w, j, jobs[j])
      BY <1>16, <2>2 DEF LeaseRead
    <3>1. mem' \in [Procs -> [Jobs -> Row]]
      <4>1. w \in Procs /\ jobs[j] \in Row
        BY RowType DEF Procs
      <4> QED
        BY <3>0, <4>1, LoadType
    <3>2. /\ pc' = [pc EXCEPT ![w] = "lease_write"]
          /\ cur' = [cur EXCEPT ![w] = j]
          /\ todo' = [todo EXCEPT ![w] = @ \ {j}]
          /\ UNCHANGED <<jobs, due, events, recoverOnly, held, faults>>
      BY <1>16, <2>2 DEF LeaseRead, Goto, SetCur, table
    <3> QED
      BY <3>1, <3>2 DEF TypeOK, Procs, Pc, ApiPc, WorkerPc, FinishPc, InIteration
  <2> QED
    BY <2>1, <2>2
<1>17. ASSUME NEW w \in Workers, LeaseWrite(w)
      PROVE  TypeOK'
  <2> DEFINE k == cur[w]
  <2>1. k \in Jobs
    BY <1>17 DEF LeaseWrite, TypeOK, Procs, Pc, ApiPc, WorkerPc, FinishPc, InIteration
  <2>2. jobs' \in [Jobs -> Row]
    <3>1. LeasedRow(w, k) \in Row
      BY <2>1, RowType, LeasedRowType DEF Status, Terminal, Outcome, Procs
    <3>2. Save(k, LeasedRow(w, k))
      BY <1>17 DEF LeaseWrite
    <3> QED
      BY <2>1, <3>1, <3>2, SaveType
  <2>3. mem' \in [Procs -> [Jobs -> Row]]
    <3>1. LeasedRow(w, k) \in Row
      BY <2>1, RowType, LeasedRowType DEF Status, Terminal, Outcome, Procs
    <3>2. Load(w, k, LeasedRow(w, k))
      BY <1>17 DEF LeaseWrite
    <3> QED
      BY <2>1, <3>1, <3>2, LoadType DEF Procs
  <2> QED
    BY <1>17, <2>1, <2>2, <2>3 DEF LeaseWrite, TypeOK, Procs, Pc, ApiPc, WorkerPc, FinishPc, InIteration,
       SetCur, Goto, AppendEvents, table, local, EventType
<1>18. ASSUME NEW w \in Workers, LeaseDone(w)
      PROVE  TypeOK'
  BY <1>18 DEF LeaseDone, TypeOK, Procs, Pc, ApiPc, WorkerPc, FinishPc, InIteration,
     SetCur, Goto, AppendEvents, table, local, EventType
<1>19. ASSUME NEW w \in Workers, NEW j \in Jobs, WorkNext(w, j)
      PROVE  TypeOK'
  BY <1>19 DEF WorkNext, TypeOK, Procs, Pc, ApiPc, WorkerPc, FinishPc, InIteration,
     SetCur, Goto, AppendEvents, table, local, EventType
<1>20. ASSUME NEW w \in Workers, HeartbeatWrite(w)
      PROVE  TypeOK'
  <2> DEFINE k == cur[w]
  <2>1. k \in Jobs
    BY <1>20 DEF HeartbeatWrite, TypeOK, Procs, Pc, ApiPc, WorkerPc, FinishPc, InIteration
  <2>2. jobs' \in [Jobs -> Row]
    <3>1. [jobs[k] EXCEPT !.lease = "live"] \in Row
      BY <2>1, RowType, LeaseType DEF Status, Terminal, Outcome, Procs
    <3>2. Save(k, [jobs[k] EXCEPT !.lease = "live"])
      BY <1>20 DEF HeartbeatWrite
    <3> QED
      BY <2>1, <3>1, <3>2, SaveType
  <2>3. mem' \in [Procs -> [Jobs -> Row]]
    <3>1. [jobs[k] EXCEPT !.lease = "live"] \in Row
      BY <2>1, RowType, LeaseType DEF Status, Terminal, Outcome, Procs
    <3>2. Load(w, k, [jobs[k] EXCEPT !.lease = "live"])
      BY <1>20 DEF HeartbeatWrite
    <3> QED
      BY <2>1, <3>1, <3>2, LoadType DEF Procs
  <2> QED
    BY <1>20, <2>1, <2>2, <2>3 DEF HeartbeatWrite, TypeOK, Procs, Pc, ApiPc, WorkerPc, FinishPc, InIteration,
       SetCur, Goto, AppendEvents, table, local, EventType
<1>21. ASSUME NEW w \in Workers, Started(w)
      PROVE  TypeOK'
  BY <1>21 DEF Started, TypeOK, Procs, Pc, ApiPc, WorkerPc, FinishPc, InIteration,
     SetCur, Goto, AppendEvents, table, local, EventType
<1>22. ASSUME NEW w \in Workers, Release(w)
      PROVE  TypeOK'
  BY <1>22 DEF Release, TypeOK, Procs, Pc, ApiPc, WorkerPc, FinishPc, InIteration,
     SetCur, Goto, AppendEvents, table, local, EventType
<1>23. ASSUME NEW w \in Workers, WorkDone(w)
      PROVE  TypeOK'
  BY <1>23 DEF WorkDone, TypeOK, Procs, Pc, ApiPc, WorkerPc, FinishPc, InIteration,
     SetCur, Goto, AppendEvents, table, local, EventType
<1>24. ASSUME NEW p \in Procs, NEW s \in Outcome, FinishSave(p, s)
      PROVE  TypeOK'
  <2> DEFINE k == cur[p]
  <2>1. k \in Jobs
    BY <1>24 DEF FinishSave, TypeOK, Procs, Pc, ApiPc, WorkerPc, FinishPc, InIteration
  <2>2. jobs' \in [Jobs -> Row]
    <3>1. Cleared(mem[p][k], s) \in Row
      BY <2>1, RowType, ClearedType DEF Status, Terminal, Outcome, Procs
    <3>2. Save(k, Cleared(mem[p][k], s))
      BY <1>24 DEF FinishSave
    <3> QED
      BY <2>1, <3>1, <3>2, SaveType
  <2>3. mem' \in [Procs -> [Jobs -> Row]]
    <3>1. Cleared(mem[p][k], s) \in Row
      BY <2>1, RowType, ClearedType DEF Status, Terminal, Outcome, Procs
    <3>2. Load(p, k, Cleared(mem[p][k], s))
      BY <1>24 DEF FinishSave
    <3> QED
      BY <2>1, <3>1, <3>2, LoadType DEF Procs
  <2> QED
    BY <1>24, <2>1, <2>2, <2>3 DEF FinishSave, TypeOK, Procs, Pc, ApiPc, WorkerPc, FinishPc, InIteration,
       SetCur, Goto, AppendEvents, table, local, EventType
<1>25. ASSUME NEW p \in Procs, FinishEvent(p)
      PROVE  TypeOK'
  <2>1. cur[p] \in Jobs
    BY <1>25 DEF FinishEvent, TypeOK, Procs, Pc, ApiPc, WorkerPc, FinishPc, InIteration
  <2>2. mem' \in [Procs -> [Jobs -> Row]]
    BY <1>25, <2>1, NoRowType, LoadType DEF FinishEvent
  <2>3. mem[p][cur[p]].status \in Status
    BY <2>1, RowType DEF Row
  <2>4. events' \in [Jobs -> SUBSET EventType]
    BY <1>25, <2>1, <2>3, EventOfType DEF FinishEvent, AppendEvents, TypeOK
  <2> QED
    BY <1>25, <2>1, <2>2, <2>4, ZenonT(40) DEF FinishEvent, Finished, TypeOK, Procs, Pc, ApiPc, WorkerPc, FinishPc, InIteration,
       SetCur, Goto
<1>26. ASSUME NEW p \in Procs, FinishEventFails(p)
      PROVE  TypeOK'
  BY <1>26 DEF FinishEventFails, TypeOK, Procs, Pc, ApiPc, WorkerPc, FinishPc, InIteration,
     SetCur, Goto, AppendEvents, table, local, EventType
<1>27. ASSUME NEW p \in Procs, FailSave(p)
      PROVE  TypeOK'
  <2> DEFINE k == cur[p]
  <2>1. k \in Jobs
    BY <1>27 DEF FailSave, TypeOK, Procs, Pc, ApiPc, WorkerPc, FinishPc, InIteration
  <2>2. jobs' \in [Jobs -> Row]
    <3>1. Cleared(mem[p][k], "FAILED") \in Row
      BY <2>1, RowType, NoRowType, ClearedType DEF Status, Terminal, Outcome, Procs
    <3>2. Save(k, Cleared(mem[p][k], "FAILED"))
      BY <1>27 DEF FailSave
    <3> QED
      BY <2>1, <3>1, <3>2, SaveType
  <2>3. mem' \in [Procs -> [Jobs -> Row]]
    <3>1. NoRow \in Row
      BY <2>1, RowType, NoRowType, ClearedType DEF Status, Terminal, Outcome, Procs
    <3>2. Load(p, k, NoRow)
      BY <1>27 DEF FailSave
    <3> QED
      BY <2>1, <3>1, <3>2, LoadType DEF Procs
  <2> QED
    BY <1>27, <2>1, <2>2, <2>3 DEF FailSave, TypeOK, Procs, Pc, ApiPc, WorkerPc, FinishPc, InIteration,
       SetCur, Goto, AppendEvents, table, local, EventType
<1>28. ASSUME NEW p \in Procs, FailEvent(p)
      PROVE  TypeOK'
  BY <1>28, ZenonT(40) DEF FailEvent, Finished, TypeOK, Procs, Pc, ApiPc, WorkerPc, FinishPc, InIteration,
     SetCur, Goto, AppendEvents, table, local, EventType
<1>29. ASSUME NEW j \in Jobs, LeaseExpires(j)
      PROVE  TypeOK'
  BY <1>29, RowType, LeaseType DEF LeaseExpires, TypeOK, Procs, Pc, ApiPc, WorkerPc, FinishPc, InIteration,
     SetCur, Goto, AppendEvents, table, local, EventType
<1>30. ASSUME NEW j \in Jobs, BecomesDue(j)
      PROVE  TypeOK'
  BY <1>30 DEF BecomesDue, TypeOK, Procs, Pc, ApiPc, WorkerPc, FinishPc, InIteration,
     SetCur, Goto, AppendEvents, table, local, EventType
<1>31. ASSUME NEW p \in Procs, Crash(p)
      PROVE  TypeOK'
  <2>1. /\ mem' \in [Procs -> [Jobs -> Row]]
        /\ todo' \in [Procs -> SUBSET Jobs]
        /\ faults' \in 0..MaxFaults
    BY <1>31, NoRowType DEF Crash, TypeOK
  <2>2. held' \in [Workers -> SUBSET Jobs] /\ recoverOnly' \in [Workers -> BOOLEAN]
    <3>1. CASE p = Api
      BY <1>31, <3>1 DEF Crash, TypeOK
    <3>2. CASE p # Api
      BY <1>31, <3>2 DEF Crash, TypeOK
    <3> QED
      BY <3>1, <3>2
  <2> QED
    BY <1>31, <2>1, <2>2 DEF Crash, TypeOK, Procs, Pc, ApiPc, WorkerPc, FinishPc, InIteration,
       SetCur, Goto, table
<1>32. CASE UNCHANGED vars
  BY <1>32 DEF vars, TypeOK
<1> QED
  BY <1>1, <1>2, <1>3, <1>4, <1>5, <1>6, <1>7, <1>8, <1>9, <1>10, <1>11, <1>12, <1>13, <1>14, <1>15, <1>16, <1>17, <1>18, <1>19, <1>20, <1>21, <1>22, <1>23, <1>24, <1>25, <1>26, <1>27, <1>28, <1>29, <1>30, <1>31, <1>32
  DEF Next, ApiStart, ApiStep, WorkerStep, Finish, Environment, Procs

-----------------------------------------------------------------------------
(***************************************************************************)
(* Attempts.  AttemptsInv in its three parts: what the table holds, what   *)
(* the processes hold in memory, and what a worker about to lease read.    *)
(***************************************************************************)
TableBounded ==
    \A j \in Jobs : /\ jobs[j].attempts <= MaxAttempts[j]
                    /\ jobs[j].status = "QUEUED" => AttemptsLeft(j, jobs[j])
MemoryBounded ==
    \A p \in Procs, j \in Jobs : mem[p][j].attempts <= MaxAttempts[j]
LeaseBounded ==
    \A w \in Workers : pc[w] = "lease_write" => AttemptsLeft(cur[w], mem[w][cur[w]])

LEMMA AttemptsParts ==
  /\ AttemptsInv <=> TableBounded /\ MemoryBounded /\ LeaseBounded
  /\ AttemptsInv' <=> TableBounded' /\ MemoryBounded' /\ LeaseBounded'
  BY DEF AttemptsInv, AttemptsBounded, QueuedIsLeasable, AttemptsLeft,
         TableBounded, MemoryBounded, LeaseBounded

LEMMA NoRowAttempts ==
  /\ NoRow.attempts = 0 /\ NoRow.status = "ABSENT"
  /\ \A j \in Jobs : MaxAttempts[j] \in Nat /\ 0 < MaxAttempts[j]
  BY AttemptsAssumption DEF NoRow

LEMMA SaveBounded ==
  ASSUME TypeOK, TableBounded, NEW j \in Jobs, NEW row \in Row, Save(j, row),
         row.attempts <= MaxAttempts[j],
         row.status = "QUEUED" => AttemptsLeft(j, row)
  PROVE  TableBounded'
  BY SaveType DEF TableBounded, AttemptsLeft

LEMMA LoadBounded ==
  ASSUME TypeOK, MemoryBounded, NEW p \in Procs, NEW j \in Jobs, NEW row \in Row,
         Load(p, j, row), row.attempts <= MaxAttempts[j]
  PROVE  MemoryBounded'
  <1> SUFFICES ASSUME NEW q \in Procs, NEW k \in Jobs
               PROVE  mem'[q][k].attempts <= MaxAttempts[k]
    BY DEF MemoryBounded
  <1>1. CASE q = p /\ k = j
    BY <1>1, LoadType
  <1>2. CASE q # p \/ k # j
    BY <1>2, LoadType DEF MemoryBounded
  <1> QED
    BY <1>1, <1>2

\* A step of p that does not take it to lease_write leaves the others' reads alone.
LEMMA LeaseBoundedElsewhere ==
  ASSUME TypeOK, LeaseBounded, NEW p \in Procs,
         \A q \in Procs \ {p} : pc'[q] = pc[q] /\ cur'[q] = cur[q] /\ mem'[q] = mem[q],
         pc'[p] # "lease_write"
  PROVE  LeaseBounded'
  BY DEF LeaseBounded, AttemptsLeft, Procs

LEMMA InitAttempts == Init => AttemptsInv
  BY NoRowAttempts
  DEF Init, AttemptsInv, AttemptsBounded, QueuedIsLeasable, Procs

LEMMA StepAttempts == TypeOK /\ AttemptsInv /\ [Next]_vars => AttemptsInv'
<1> SUFFICES ASSUME TypeOK, TableBounded, MemoryBounded, LeaseBounded, [Next]_vars
             PROVE  TableBounded' /\ MemoryBounded' /\ LeaseBounded'
  BY AttemptsParts
<1> USE ProcsAssumption
<1>1. ASSUME NEW j \in Jobs, CreateSave(j)
      PROVE  TableBounded' /\ MemoryBounded' /\ LeaseBounded'
  <2> DEFINE k == j
  <2>1. k \in Jobs /\ Api \in Procs
    BY <1>1 DEF CreateSave, TypeOK, Procs, Pc, ApiPc, WorkerPc, FinishPc, InIteration
  <2>2. MaxAttempts[k] \in Nat \ {0}
    BY <2>1, AttemptsAssumption
  <2>3. TableBounded'
    <3> DEFINE row == WithStatus(NoRow, "QUEUED")
    <3>1. /\ row \in Row /\ row.attempts <= MaxAttempts[k]
          /\ row.status = "QUEUED" => AttemptsLeft(k, row)
      BY <1>1, <2>1, <2>2, RowType, NoRowType, NoRowAttempts, StatusType
      DEF CreateSave, TableBounded, MemoryBounded, LeaseBounded, AttemptsLeft, Status, Terminal, Outcome, Procs
    <3>2. Save(k, row)
      BY <1>1 DEF CreateSave
    <3> HIDE DEF row
    <3> QED
      BY <2>1, <3>1, <3>2, SaveBounded
  <2>4. MemoryBounded'
    BY <1>1 DEF CreateSave, MemoryBounded
  <2>5. LeaseBounded'
    BY <1>1, <2>1, LeaseBoundedElsewhere DEF CreateSave, Goto, SetCur, Load, TypeOK, Procs
  <2> QED
    BY <2>3, <2>4, <2>5
<1>2. ASSUME CreateEvent
      PROVE  TableBounded' /\ MemoryBounded' /\ LeaseBounded'
  <2>1. TableBounded' /\ MemoryBounded'
    BY <1>2 DEF CreateEvent, TableBounded, MemoryBounded, AttemptsLeft, table
  <2>2. LeaseBounded'
    BY <1>2, LeaseBoundedElsewhere DEF CreateEvent, Goto, SetCur, TypeOK, Procs, table
  <2> QED
    BY <2>1, <2>2
<1>3. ASSUME NEW j \in Jobs, CancelGet(j)
      PROVE  TableBounded' /\ MemoryBounded' /\ LeaseBounded'
  <2> DEFINE k == j
  <2>1. k \in Jobs /\ Api \in Procs
    BY <1>3 DEF CancelGet, TypeOK, Procs, Pc, ApiPc, WorkerPc, FinishPc, InIteration
  <2>2. MaxAttempts[k] \in Nat \ {0}
    BY <2>1, AttemptsAssumption
  <2>3. TableBounded'
    BY <1>3 DEF CancelGet, TableBounded, AttemptsLeft, table
  <2>4. MemoryBounded'
    <3> DEFINE row == jobs[j]
    <3>1. row \in Row /\ row.attempts <= MaxAttempts[k]
      BY <1>3, <2>1, <2>2, RowType, RowType
      DEF CancelGet, TableBounded, MemoryBounded, LeaseBounded, AttemptsLeft, Status, Terminal, Outcome, Procs
    <3>2. Load(Api, k, row)
      BY <1>3 DEF CancelGet
    <3> HIDE DEF row
    <3> QED
      BY <2>1, <3>1, <3>2, LoadBounded
  <2>5. LeaseBounded'
    BY <1>3, <2>1, LeaseBoundedElsewhere DEF CancelGet, Goto, SetCur, Load, TypeOK, Procs
  <2> QED
    BY <2>3, <2>4, <2>5
<1>4. ASSUME CancelSave
      PROVE  TableBounded' /\ MemoryBounded' /\ LeaseBounded'
  <2> DEFINE k == cur[Api]
  <2>1. k \in Jobs /\ Api \in Procs
    BY <1>4 DEF CancelSave, TypeOK, Procs, Pc, ApiPc, WorkerPc, FinishPc, InIteration
  <2>2. MaxAttempts[k] \in Nat \ {0}
    BY <2>1, AttemptsAssumption
  <2>3. TableBounded'
    <3> DEFINE row == WithStatus(mem[Api][k], "CANCELLED")
    <3>1. /\ row \in Row /\ row.attempts <= MaxAttempts[k]
          /\ row.status = "QUEUED" => AttemptsLeft(k, row)
      BY <1>4, <2>1, <2>2, RowType, NoRowType, NoRowAttempts, StatusType
      DEF CancelSave, TableBounded, MemoryBounded, LeaseBounded, AttemptsLeft, Status, Terminal, Outcome, Procs
    <3>2. Save(k, row)
      BY <1>4 DEF CancelSave
    <3> HIDE DEF row
    <3> QED
      BY <2>1, <3>1, <3>2, SaveBounded
  <2>4. MemoryBounded'
    <3> DEFINE row == NoRow
    <3>1. row \in Row /\ row.attempts <= MaxAttempts[k]
      BY <1>4, <2>1, <2>2, RowType, NoRowType, NoRowAttempts, StatusType
      DEF CancelSave, TableBounded, MemoryBounded, LeaseBounded, AttemptsLeft, Status, Terminal, Outcome, Procs
    <3>2. Load(Api, k, row)
      BY <1>4 DEF CancelSave
    <3> HIDE DEF row
    <3> QED
      BY <2>1, <3>1, <3>2, LoadBounded
  <2>5. LeaseBounded'
    BY <1>4, <2>1, LeaseBoundedElsewhere DEF CancelSave, Goto, SetCur, Load, TypeOK, Procs
  <2> QED
    BY <2>3, <2>4, <2>5
<1>5. ASSUME CancelEvent
      PROVE  TableBounded' /\ MemoryBounded' /\ LeaseBounded'
  <2>1. TableBounded' /\ MemoryBounded'
    BY <1>5 DEF CancelEvent, TableBounded, MemoryBounded, AttemptsLeft, table
  <2>2. LeaseBounded'
    BY <1>5, LeaseBoundedElsewhere DEF CancelEvent, Goto, SetCur, TypeOK, Procs, table
  <2> QED
    BY <2>1, <2>2
<1>6. ASSUME NEW j \in Jobs, RunJob(j)
      PROVE  TableBounded' /\ MemoryBounded' /\ LeaseBounded'
  <2>1. TableBounded' /\ MemoryBounded'
    BY <1>6 DEF RunJob, RunStart, TableBounded, MemoryBounded, AttemptsLeft, table
  <2>2. LeaseBounded'
    BY <1>6, LeaseBoundedElsewhere DEF RunJob, RunStart, Goto, SetCur, TypeOK, Procs, table
  <2> QED
    BY <2>1, <2>2
<1>7. ASSUME RunPending
      PROVE  TableBounded' /\ MemoryBounded' /\ LeaseBounded'
  <2>1. TableBounded' /\ MemoryBounded'
    BY <1>7 DEF RunPending, RunStart, TableBounded, MemoryBounded, AttemptsLeft, table
  <2>2. LeaseBounded'
    BY <1>7, LeaseBoundedElsewhere DEF RunPending, RunStart, Goto, SetCur, TypeOK, Procs, table
  <2> QED
    BY <2>1, <2>2
<1>8. ASSUME NEW j \in Jobs, RunGet(j)
      PROVE  TableBounded' /\ MemoryBounded' /\ LeaseBounded'
  <2>1. CASE jobs[j].status # "QUEUED"
    BY <1>8, <2>1 DEF RunGet, TableBounded, MemoryBounded, LeaseBounded, AttemptsLeft, table
  <2>2. CASE jobs[j].status = "QUEUED"
    <3>1. Load(Api, j, jobs[j]) /\ SetCur(Api, j) /\ Goto(Api, "run_save")
          /\ UNCHANGED <<jobs>>
      BY <1>8, <2>2 DEF RunGet, table
    <3>2. TableBounded'
      BY <3>1 DEF TableBounded, AttemptsLeft
    <3>3. MemoryBounded'
      <4>1. jobs[j] \in Row /\ jobs[j].attempts <= MaxAttempts[j] /\ Api \in Procs
        BY RowType DEF TableBounded, Procs
      <4> QED
        BY <3>1, <4>1, LoadBounded
    <3>4. LeaseBounded'
      BY <3>1, LeaseBoundedElsewhere DEF Load, SetCur, Goto, TypeOK, Procs
    <3> QED
      BY <3>2, <3>3, <3>4
  <2> QED
    BY <2>1, <2>2
<1>9. ASSUME RunSave
      PROVE  TableBounded' /\ MemoryBounded' /\ LeaseBounded'
  <2> DEFINE k == cur[Api]
  <2>1. k \in Jobs /\ Api \in Procs
    BY <1>9 DEF RunSave, TypeOK, Procs, Pc, ApiPc, WorkerPc, FinishPc, InIteration
  <2>2. MaxAttempts[k] \in Nat \ {0}
    BY <2>1, AttemptsAssumption
  <2>3. TableBounded'
    <3> DEFINE row == Cleared(mem[Api][k], "RUNNING")
    <3>1. /\ row \in Row /\ row.attempts <= MaxAttempts[k]
          /\ row.status = "QUEUED" => AttemptsLeft(k, row)
      BY <1>9, <2>1, <2>2, RowType, ClearedType
      DEF RunSave, TableBounded, MemoryBounded, LeaseBounded, AttemptsLeft, Status, Terminal, Outcome, Procs
    <3>2. Save(k, row)
      BY <1>9 DEF RunSave
    <3> HIDE DEF row
    <3> QED
      BY <2>1, <3>1, <3>2, SaveBounded
  <2>4. MemoryBounded'
    <3> DEFINE row == Cleared(mem[Api][k], "RUNNING")
    <3>1. row \in Row /\ row.attempts <= MaxAttempts[k]
      BY <1>9, <2>1, <2>2, RowType, ClearedType
      DEF RunSave, TableBounded, MemoryBounded, LeaseBounded, AttemptsLeft, Status, Terminal, Outcome, Procs
    <3>2. Load(Api, k, row)
      BY <1>9 DEF RunSave
    <3> HIDE DEF row
    <3> QED
      BY <2>1, <3>1, <3>2, LoadBounded
  <2>5. LeaseBounded'
    BY <1>9, <2>1, LeaseBoundedElsewhere DEF RunSave, Goto, SetCur, Load, TypeOK, Procs
  <2> QED
    BY <2>3, <2>4, <2>5
<1>10. ASSUME RunEvent
      PROVE  TableBounded' /\ MemoryBounded' /\ LeaseBounded'
  <2>1. TableBounded' /\ MemoryBounded'
    BY <1>10 DEF RunEvent, TableBounded, MemoryBounded, AttemptsLeft, table
  <2>2. LeaseBounded'
    BY <1>10, LeaseBoundedElsewhere DEF RunEvent, Goto, SetCur, TypeOK, Procs, table
  <2> QED
    BY <2>1, <2>2
<1>11. ASSUME RunDone
      PROVE  TableBounded' /\ MemoryBounded' /\ LeaseBounded'
  <2>1. TableBounded' /\ MemoryBounded'
    BY <1>11 DEF RunDone, TableBounded, MemoryBounded, AttemptsLeft, table
  <2>2. LeaseBounded'
    BY <1>11, LeaseBoundedElsewhere DEF RunDone, Goto, SetCur, TypeOK, Procs, table
  <2> QED
    BY <2>1, <2>2
<1>12. ASSUME NEW w \in Workers, NEW only \in BOOLEAN, WorkerStart(w, only)
      PROVE  TableBounded' /\ MemoryBounded' /\ LeaseBounded'
  <2>1. TableBounded'
    BY <1>12 DEF WorkerStart, TableBounded, AttemptsLeft, table
  <2>2. MemoryBounded'
    BY <1>12, NoRowAttempts, AttemptsAssumption
    DEF WorkerStart, StaleRunning, MemoryBounded, TableBounded, TypeOK
  <2>3. LeaseBounded'
    BY <1>12, LeaseBoundedElsewhere DEF WorkerStart, Goto, TypeOK, Procs
  <2> QED
    BY <2>1, <2>2, <2>3
<1>13. ASSUME NEW w \in Workers, NEW j \in Jobs, RecoverSave(w, j)
      PROVE  TableBounded' /\ MemoryBounded' /\ LeaseBounded'
  <2> DEFINE k == j
  <2>1. k \in Jobs /\ w \in Procs
    BY <1>13 DEF RecoverSave, TypeOK, Procs, Pc, ApiPc, WorkerPc, FinishPc, InIteration
  <2>2. MaxAttempts[k] \in Nat \ {0}
    BY <2>1, AttemptsAssumption
  <2>3. TableBounded'
    <3> DEFINE row == Cleared(mem[w][k], IF AttemptsLeft(k, mem[w][k]) THEN "QUEUED" ELSE "FAILED")
    <3>1. /\ row \in Row /\ row.attempts <= MaxAttempts[k]
          /\ row.status = "QUEUED" => AttemptsLeft(k, row)
      BY <1>13, <2>1, <2>2, RowType, NoRowType, NoRowAttempts, ClearedType
      DEF RecoverSave, TableBounded, MemoryBounded, LeaseBounded, AttemptsLeft, Status, Terminal, Outcome, Procs
    <3>2. Save(k, row)
      BY <1>13 DEF RecoverSave
    <3> HIDE DEF row
    <3> QED
      BY <2>1, <3>1, <3>2, SaveBounded
  <2>4. MemoryBounded'
    <3> DEFINE row == NoRow
    <3>1. row \in Row /\ row.attempts <= MaxAttempts[k]
      BY <1>13, <2>1, <2>2, RowType, NoRowType, NoRowAttempts, ClearedType
      DEF RecoverSave, TableBounded, MemoryBounded, LeaseBounded, AttemptsLeft, Status, Terminal, Outcome, Procs
    <3>2. Load(w, k, row)
      BY <1>13 DEF RecoverSave
    <3> HIDE DEF row
    <3> QED
      BY <2>1, <3>1, <3>2, LoadBounded
  <2>5. LeaseBounded'
    BY <1>13, <2>1, LeaseBoundedElsewhere DEF RecoverSave, Goto, SetCur, Load, TypeOK, Procs
  <2> QED
    BY <2>3, <2>4, <2>5
<1>14. ASSUME NEW w \in Workers, RecoverEvent(w)
      PROVE  TableBounded' /\ MemoryBounded' /\ LeaseBounded'
  <2>1. TableBounded' /\ MemoryBounded'
    BY <1>14 DEF RecoverEvent, TableBounded, MemoryBounded, AttemptsLeft, table
  <2>2. LeaseBounded'
    BY <1>14, LeaseBoundedElsewhere DEF RecoverEvent, Goto, SetCur, TypeOK, Procs, table
  <2> QED
    BY <2>1, <2>2
<1>15. ASSUME NEW w \in Workers, RecoverDone(w)
      PROVE  TableBounded' /\ MemoryBounded' /\ LeaseBounded'
  <2>1. TableBounded' /\ MemoryBounded'
    BY <1>15 DEF RecoverDone, TableBounded, MemoryBounded, AttemptsLeft, table
  <2>2. LeaseBounded'
    BY <1>15, LeaseBoundedElsewhere DEF RecoverDone, Goto, SetCur, TypeOK, Procs, table
  <2> QED
    BY <2>1, <2>2
<1>16. ASSUME NEW w \in Workers, NEW j \in Jobs, LeaseRead(w, j)
      PROVE  TableBounded' /\ MemoryBounded' /\ LeaseBounded'
  <2>1. CASE ~Leasable(j)
    BY <1>16, <2>1 DEF LeaseRead, TableBounded, MemoryBounded, LeaseBounded, AttemptsLeft, table
  <2>2. CASE Leasable(j)
    <3>1. Load(w, j, jobs[j]) /\ SetCur(w, j) /\ Goto(w, "lease_write")
          /\ UNCHANGED <<jobs>>
      BY <1>16, <2>2 DEF LeaseRead, table
    <3>2. w \in Procs /\ jobs[j] \in Row /\ jobs[j].attempts <= MaxAttempts[j]
      BY RowType DEF TableBounded, Procs
    <3>3. TableBounded'
      BY <3>1 DEF TableBounded, AttemptsLeft
    <3>4. MemoryBounded'
      BY <3>1, <3>2, LoadBounded
    <3>5. LeaseBounded'
      <4> SUFFICES ASSUME NEW v \in Workers, pc'[v] = "lease_write"
                   PROVE  AttemptsLeft(cur'[v], mem'[v][cur'[v]])
        BY DEF LeaseBounded, AttemptsLeft
      <4>1. CASE v = w
        <5>1. cur'[v] = j
          BY <3>1, <4>1, <3>2 DEF SetCur, TypeOK
        <5>2. mem'[v][j] = jobs[j]
          BY <3>1, <3>2, <4>1, LoadType
        <5> QED
          BY <2>2, <5>1, <5>2 DEF Leasable, AttemptsLeft
      <4>2. CASE v # w
        BY <3>1, <3>2, <4>2 DEF LeaseBounded, AttemptsLeft, Load, SetCur, Goto, TypeOK, Procs
      <4> QED
        BY <4>1, <4>2
    <3> QED
      BY <3>3, <3>4, <3>5
  <2> QED
    BY <2>1, <2>2
<1>17. ASSUME NEW w \in Workers, LeaseWrite(w)
      PROVE  TableBounded' /\ MemoryBounded' /\ LeaseBounded'
  <2> DEFINE k == cur[w]
  <2>1. k \in Jobs /\ w \in Procs
    BY <1>17 DEF LeaseWrite, TypeOK, Procs, Pc, ApiPc, WorkerPc, FinishPc, InIteration
  <2>2. MaxAttempts[k] \in Nat \ {0}
    BY <2>1, AttemptsAssumption
  <2>3. TableBounded'
    <3> DEFINE row == LeasedRow(w, k)
    <3>1. /\ row \in Row /\ row.attempts <= MaxAttempts[k]
          /\ row.status = "QUEUED" => AttemptsLeft(k, row)
      BY <1>17, <2>1, <2>2, RowType, LeasedRowType
      DEF LeaseWrite, TableBounded, MemoryBounded, LeaseBounded, AttemptsLeft, Status, Terminal, Outcome, Procs
    <3>2. Save(k, row)
      BY <1>17 DEF LeaseWrite
    <3> HIDE DEF row
    <3> QED
      BY <2>1, <3>1, <3>2, SaveBounded
  <2>4. MemoryBounded'
    <3> DEFINE row == LeasedRow(w, k)
    <3>1. row \in Row /\ row.attempts <= MaxAttempts[k]
      BY <1>17, <2>1, <2>2, RowType, LeasedRowType
      DEF LeaseWrite, TableBounded, MemoryBounded, LeaseBounded, AttemptsLeft, Status, Terminal, Outcome, Procs
    <3>2. Load(w, k, row)
      BY <1>17 DEF LeaseWrite
    <3> HIDE DEF row
    <3> QED
      BY <2>1, <3>1, <3>2, LoadBounded
  <2>5. LeaseBounded'
    BY <1>17, <2>1, LeaseBoundedElsewhere DEF LeaseWrite, Goto, SetCur, Load, TypeOK, Procs
  <2> QED
    BY <2>3, <2>4, <2>5
<1>18. ASSUME NEW w \in Workers, LeaseDone(w)
      PROVE  TableBounded' /\ MemoryBounded' /\ LeaseBounded'
  <2>1. TableBounded' /\ MemoryBounded'
    BY <1>18 DEF LeaseDone, TableBounded, MemoryBounded, AttemptsLeft, table
  <2>2. LeaseBounded'
    BY <1>18, LeaseBoundedElsewhere DEF LeaseDone, Goto, SetCur, TypeOK, Procs, table
  <2> QED
    BY <2>1, <2>2
<1>19. ASSUME NEW w \in Workers, NEW j \in Jobs, WorkNext(w, j)
      PROVE  TableBounded' /\ MemoryBounded' /\ LeaseBounded'
  <2>1. TableBounded' /\ MemoryBounded'
    BY <1>19 DEF WorkNext, TableBounded, MemoryBounded, AttemptsLeft, table
  <2>2. LeaseBounded'
    BY <1>19, LeaseBoundedElsewhere DEF WorkNext, Goto, SetCur, TypeOK, Procs, table
  <2> QED
    BY <2>1, <2>2
<1>20. ASSUME NEW w \in Workers, HeartbeatWrite(w)
      PROVE  TableBounded' /\ MemoryBounded' /\ LeaseBounded'
  <2> DEFINE k == cur[w]
  <2>1. k \in Jobs /\ w \in Procs
    BY <1>20 DEF HeartbeatWrite, TypeOK, Procs, Pc, ApiPc, WorkerPc, FinishPc, InIteration
  <2>2. MaxAttempts[k] \in Nat \ {0}
    BY <2>1, AttemptsAssumption
  <2>3. TableBounded'
    <3> DEFINE row == [jobs[k] EXCEPT !.lease = "live"]
    <3>1. /\ row \in Row /\ row.attempts <= MaxAttempts[k]
          /\ row.status = "QUEUED" => AttemptsLeft(k, row)
      BY <1>20, <2>1, <2>2, RowType, LeaseType
      DEF HeartbeatWrite, TableBounded, MemoryBounded, LeaseBounded, AttemptsLeft, Status, Terminal, Outcome, Procs
    <3>2. Save(k, row)
      BY <1>20 DEF HeartbeatWrite
    <3> HIDE DEF row
    <3> QED
      BY <2>1, <3>1, <3>2, SaveBounded
  <2>4. MemoryBounded'
    <3> DEFINE row == [jobs[k] EXCEPT !.lease = "live"]
    <3>1. row \in Row /\ row.attempts <= MaxAttempts[k]
      BY <1>20, <2>1, <2>2, RowType, LeaseType
      DEF HeartbeatWrite, TableBounded, MemoryBounded, LeaseBounded, AttemptsLeft, Status, Terminal, Outcome, Procs
    <3>2. Load(w, k, row)
      BY <1>20 DEF HeartbeatWrite
    <3> HIDE DEF row
    <3> QED
      BY <2>1, <3>1, <3>2, LoadBounded
  <2>5. LeaseBounded'
    BY <1>20, <2>1, LeaseBoundedElsewhere DEF HeartbeatWrite, Goto, SetCur, Load, TypeOK, Procs
  <2> QED
    BY <2>3, <2>4, <2>5
<1>21. ASSUME NEW w \in Workers, Started(w)
      PROVE  TableBounded' /\ MemoryBounded' /\ LeaseBounded'
  <2>1. TableBounded' /\ MemoryBounded'
    BY <1>21 DEF Started, TableBounded, MemoryBounded, AttemptsLeft, table
  <2>2. LeaseBounded'
    BY <1>21, LeaseBoundedElsewhere DEF Started, Goto, SetCur, TypeOK, Procs, table
  <2> QED
    BY <2>1, <2>2
<1>22. ASSUME NEW w \in Workers, Release(w)
      PROVE  TableBounded' /\ MemoryBounded' /\ LeaseBounded'
  <2>1. TableBounded' /\ MemoryBounded'
    BY <1>22 DEF Release, TableBounded, MemoryBounded, AttemptsLeft, table
  <2>2. LeaseBounded'
    BY <1>22, LeaseBoundedElsewhere DEF Release, Goto, SetCur, TypeOK, Procs, table
  <2> QED
    BY <2>1, <2>2
<1>23. ASSUME NEW w \in Workers, WorkDone(w)
      PROVE  TableBounded' /\ MemoryBounded' /\ LeaseBounded'
  <2>1. TableBounded' /\ MemoryBounded'
    BY <1>23 DEF WorkDone, TableBounded, MemoryBounded, AttemptsLeft, table
  <2>2. LeaseBounded'
    BY <1>23, LeaseBoundedElsewhere DEF WorkDone, Goto, SetCur, TypeOK, Procs, table
  <2> QED
    BY <2>1, <2>2
<1>24. ASSUME NEW p \in Procs, NEW s \in Outcome, FinishSave(p, s)
      PROVE  TableBounded' /\ MemoryBounded' /\ LeaseBounded'
  <2> DEFINE k == cur[p]
  <2>1. k \in Jobs /\ p \in Procs
    BY <1>24 DEF FinishSave, TypeOK, Procs, Pc, ApiPc, WorkerPc, FinishPc, InIteration
  <2>2. MaxAttempts[k] \in Nat \ {0}
    BY <2>1, AttemptsAssumption
  <2>3. TableBounded'
    <3> DEFINE row == Cleared(mem[p][k], s)
    <3>1. /\ row \in Row /\ row.attempts <= MaxAttempts[k]
          /\ row.status = "QUEUED" => AttemptsLeft(k, row)
      BY <1>24, <2>1, <2>2, RowType, ClearedType
      DEF FinishSave, TableBounded, MemoryBounded, LeaseBounded, AttemptsLeft, Status, Terminal, Outcome, Procs
    <3>2. Save(k, row)
      BY <1>24 DEF FinishSave
    <3> HIDE DEF row
    <3> QED
      BY <2>1, <3>1, <3>2, SaveBounded
  <2>4. MemoryBounded'
    <3> DEFINE row == Cleared(mem[p][k], s)
    <3>1. row \in Row /\ row.attempts <= MaxAttempts[k]
      BY <1>24, <2>1, <2>2, RowType, ClearedType
      DEF FinishSave, TableBounded, MemoryBounded, LeaseBounded, AttemptsLeft, Status, Terminal, Outcome, Procs
    <3>2. Load(p, k, row)
      BY <1>24 DEF FinishSave
    <3> HIDE DEF row
    <3> QED
      BY <2>1, <3>1, <3>2, LoadBounded
  <2>5. LeaseBounded'
    BY <1>24, <2>1, LeaseBoundedElsewhere DEF FinishSave, Goto, SetCur, Load, TypeOK, Procs
  <2> QED
    BY <2>3, <2>4, <2>5
<1>25. ASSUME NEW p \in Procs, FinishEvent(p)
      PROVE  TableBounded' /\ MemoryBounded' /\ LeaseBounded'
  <2> DEFINE k == cur[p]
  <2>1. k \in Jobs /\ p \in Procs
    BY <1>25 DEF FinishEvent, TypeOK, Procs, Pc, ApiPc, WorkerPc, FinishPc, InIteration
  <2>2. MaxAttempts[k] \in Nat \ {0}
    BY <2>1, AttemptsAssumption
  <2>3. TableBounded'
    BY <1>25 DEF FinishEvent, TableBounded, AttemptsLeft, table
  <2>4. MemoryBounded'
    <3> DEFINE row == NoRow
    <3>1. row \in Row /\ row.attempts <= MaxAttempts[k]
      BY <1>25, <2>1, <2>2, RowType, NoRowType, NoRowAttempts
      DEF FinishEvent, TableBounded, MemoryBounded, LeaseBounded, AttemptsLeft, Status, Terminal, Outcome, Procs
    <3>2. Load(p, k, row)
      BY <1>25 DEF FinishEvent, Finished
    <3> HIDE DEF row
    <3> QED
      BY <2>1, <3>1, <3>2, LoadBounded
  <2>5. LeaseBounded'
    BY <1>25, <2>1, LeaseBoundedElsewhere DEF FinishEvent, Finished, Goto, SetCur, Load, TypeOK, Procs
  <2> QED
    BY <2>3, <2>4, <2>5
<1>26. ASSUME NEW p \in Procs, FinishEventFails(p)
      PROVE  TableBounded' /\ MemoryBounded' /\ LeaseBounded'
  <2>1. TableBounded' /\ MemoryBounded'
    BY <1>26 DEF FinishEventFails, TableBounded, MemoryBounded, AttemptsLeft, table
  <2>2. LeaseBounded'
    BY <1>26, LeaseBoundedElsewhere DEF FinishEventFails, Goto, SetCur, TypeOK, Procs, table
  <2> QED
    BY <2>1, <2>2
<1>27. ASSUME NEW p \in Procs, FailSave(p)
      PROVE  TableBounded' /\ MemoryBounded' /\ LeaseBounded'
  <2> DEFINE k == cur[p]
  <2>1. k \in Jobs /\ p \in Procs
    BY <1>27 DEF FailSave, TypeOK, Procs, Pc, ApiPc, WorkerPc, FinishPc, InIteration
  <2>2. MaxAttempts[k] \in Nat \ {0}
    BY <2>1, AttemptsAssumption
  <2>3. TableBounded'
    <3> DEFINE row == Cleared(mem[p][k], "FAILED")
    <3>1. /\ row \in Row /\ row.attempts <= MaxAttempts[k]
          /\ row.status = "QUEUED" => AttemptsLeft(k, row)
      BY <1>27, <2>1, <2>2, RowType, NoRowType, NoRowAttempts, ClearedType
      DEF FailSave, TableBounded, MemoryBounded, LeaseBounded, AttemptsLeft, Status, Terminal, Outcome, Procs
    <3>2. Save(k, row)
      BY <1>27 DEF FailSave
    <3> HIDE DEF row
    <3> QED
      BY <2>1, <3>1, <3>2, SaveBounded
  <2>4. MemoryBounded'
    <3> DEFINE row == NoRow
    <3>1. row \in Row /\ row.attempts <= MaxAttempts[k]
      BY <1>27, <2>1, <2>2, RowType, NoRowType, NoRowAttempts, ClearedType
      DEF FailSave, TableBounded, MemoryBounded, LeaseBounded, AttemptsLeft, Status, Terminal, Outcome, Procs
    <3>2. Load(p, k, row)
      BY <1>27 DEF FailSave
    <3> HIDE DEF row
    <3> QED
      BY <2>1, <3>1, <3>2, LoadBounded
  <2>5. LeaseBounded'
    BY <1>27, <2>1, LeaseBoundedElsewhere DEF FailSave, Goto, SetCur, Load, TypeOK, Procs
  <2> QED
    BY <2>3, <2>4, <2>5
<1>28. ASSUME NEW p \in Procs, FailEvent(p)
      PROVE  TableBounded' /\ MemoryBounded' /\ LeaseBounded'
  <2>1. TableBounded' /\ MemoryBounded'
    BY <1>28 DEF FailEvent, Finished, TableBounded, MemoryBounded, AttemptsLeft, table
  <2>2. LeaseBounded'
    BY <1>28, LeaseBoundedElsewhere DEF FailEvent, Finished, Goto, SetCur, TypeOK, Procs, table
  <2> QED
    BY <2>1, <2>2
<1>29. ASSUME NEW j \in Jobs, LeaseExpires(j)
      PROVE  TableBounded' /\ MemoryBounded' /\ LeaseBounded'
  <2>1. /\ [jobs[j] EXCEPT !.lease = "expired"] \in Row
        /\ Save(j, [jobs[j] EXCEPT !.lease = "expired"])
    BY <1>29, RowType, LeaseType DEF LeaseExpires, Save
  <2>2. TableBounded'
    BY <2>1, RowType, LeaseType, SaveBounded DEF TableBounded, AttemptsLeft
  <2> QED
    BY <1>29, <2>2 DEF LeaseExpires, MemoryBounded, LeaseBounded, AttemptsLeft, local
<1>30. ASSUME NEW j \in Jobs, BecomesDue(j)
      PROVE  TableBounded' /\ MemoryBounded' /\ LeaseBounded'
  BY <1>30 DEF BecomesDue, TableBounded, MemoryBounded, LeaseBounded, AttemptsLeft, local
<1>31. ASSUME NEW p \in Procs, Crash(p)
      PROVE  TableBounded' /\ MemoryBounded' /\ LeaseBounded'
  <2>1. TableBounded'
    BY <1>31 DEF Crash, TableBounded, AttemptsLeft, table
  <2>2. MemoryBounded'
    BY <1>31, NoRowAttempts, AttemptsAssumption DEF Crash, MemoryBounded, TypeOK
  <2>3. LeaseBounded'
    BY <1>31, LeaseBoundedElsewhere DEF Crash, Goto, SetCur, TypeOK, Procs
  <2> QED
    BY <2>1, <2>2, <2>3
<1>32. CASE UNCHANGED vars
  BY <1>32 DEF vars, TableBounded, MemoryBounded, LeaseBounded, AttemptsLeft
<1> QED
  BY <1>1, <1>2, <1>3, <1>4, <1>5, <1>6, <1>7, <1>8, <1>9, <1>10, <1>11, <1>12, <1>13, <1>14, <1>15, <1>16, <1>17, <1>18, <1>19, <1>20, <1>21, <1>22, <1>23, <1>24, <1>25, <1>26, <1>27, <1>28, <1>29, <1>30, <1>31, <1>32
  DEF Next, ApiStart, ApiStep, WorkerStep, Finish, Environment, Procs

-----------------------------------------------------------------------------
\* Every reachable state is well typed, whatever the processes interleave.
THEOREM TypeCorrect == Spec => []TypeOK
<1>1. Init => TypeOK
  BY InitTypeOK
<1>2. TypeOK /\ [Next]_vars => TypeOK'
  BY StepTypeOK
<1> QED
  BY <1>1, <1>2, PTL DEF Spec

\* The inductive invariant about attempts.
THEOREM AttemptsInvariant == Spec => []AttemptsInv
<1>1. Init => AttemptsInv
  BY InitAttempts
<1>2. TypeOK /\ AttemptsInv /\ [Next]_vars => AttemptsInv'
  BY StepAttempts
<1> QED
  BY <1>1, <1>2, TypeCorrect, PTL DEF Spec

\* No interleaving of leases, recoveries and stale saves charges a job more
\* attempts than its max_attempts.
THEOREM AttemptsAreBounded == Spec => []AttemptsBounded
<1>1. AttemptsInv => AttemptsBounded
  BY DEF AttemptsInv
<1> QED
  BY <1>1, AttemptsInvariant, PTL

\* No queued job is ever without an attempt left, so that none holds a place of
\* every batch for ever.
THEOREM QueuedJobsAreLeasable == Spec => []QueuedIsLeasable
<1>1. AttemptsInv => QueuedIsLeasable
  BY DEF AttemptsInv
<1> QED
  BY <1>1, AttemptsInvariant, PTL

-----------------------------------------------------------------------------
(***************************************************************************)
(* The serial operator.  When an operation is started only while none runs *)
(* (OneAtATime), every process that writes a row still knows the row: the  *)
(* image it read is what the table holds, up to the environment's expiry   *)
(* of its lease.  That is what keeps the table's rows sound and every      *)
(* write a step of the life JobLifecycle promises; with two operations at  *)
(* once neither holds, since no write checks the row it replaces.          *)
(***************************************************************************)
\* The image a process holds of the row of its iteration, and that row.
Image(p) == mem[p][cur[p]]
Written(p) == jobs[cur[p]]

\* One operation at a time.
OneBusy == \A p, q \in Procs : pc[p] # "idle" /\ pc[q] # "idle" => p = q

\* What a process that is alone knows of the row it is about to write.
KnowsQueued(p) ==
    pc[p] \in {"cancel_save", "run_save", "lease_write"} => Written(p) = Image(p) /\ Written(p).status = "QUEUED"
KnowsRunning(p) ==
    pc[p] \in {"run_event", "started", "execute"} =>
        Written(p).status = "RUNNING" /\ Written(p).attempts = Image(p).attempts
KnowsFinished(p) ==
    pc[p] \in {"finish_event", "fail_save"} =>
        Written(p).status \in Outcome /\ Written(p).attempts = Image(p).attempts
KnowsHeartbeat(w) == pc[w] = "heartbeat" => Written(w).status = "RUNNING" /\ Written(w).owner = Owner[w]
KnowsStale(w) ==
    pc[w] \in {"recover", "recover_event"} =>
        \A j \in todo[w] : /\ jobs[j] = mem[w][j] /\ jobs[j].status = "RUNNING"
                           /\ jobs[j].lease = "expired"
KnowsHeld(w) ==
    /\ pc[w] \in {"idle", "recover", "recover_event"} => held[w] = {}
    /\ pc[w] \in {"heartbeat", "started", "execute", "finish_event", "fail_save"} => cur[w] \notin held[w]
    /\ \A j \in held[w] : /\ jobs[j].status = "RUNNING" /\ jobs[j].owner = Owner[w]
                          /\ jobs[j].attempts = mem[w][j].attempts

\* A row that is sound: a lease and an owner come together, and only on a running job.
RowSound(row) ==
    /\ row.status = "ABSENT" => row.attempts = 0
    /\ row.lease # "none" => row.status = "RUNNING"
    /\ row.lease # "none" <=> row.owner # None
RowsSound == \A j \in Jobs : RowSound(jobs[j])
\* The inductive invariant.
Serial ==
    /\ OneBusy /\ RowsSound
    /\ \A p \in Procs : KnowsQueued(p) /\ KnowsRunning(p) /\ KnowsFinished(p)
    /\ \A w \in Workers : KnowsHeartbeat(w) /\ KnowsStale(w) /\ KnowsHeld(w)

\* Every other process is idle, so that a step of p keeps what they know.
Alone(p) == \A q \in Procs \ {p} : pc[q] = "idle" /\ (q \in Workers => held[q] = {})

\* All that p knows.
KnowsP(p) ==
    /\ KnowsQueued(p) /\ KnowsRunning(p) /\ KnowsFinished(p)
    /\ p \in Workers => KnowsHeartbeat(p) /\ KnowsStale(p) /\ KnowsHeld(p)

\* A step that the life of a job allows, or that does not touch it.
LifecycleStep == Lifecycle!LifecycleNext \/ UNCHANGED Lifecycle!lifecycle

\* The types of the local variables.
LEMMA Shapes ==
  ASSUME TypeOK
  PROVE  /\ pc \in [Procs -> Pc] /\ todo \in [Procs -> SUBSET Jobs] /\ held \in [Workers -> SUBSET Jobs]
         /\ cur \in [Procs -> Jobs \union {None}] /\ mem \in [Procs -> [Jobs -> Row]]
         /\ jobs \in [Jobs -> Row] /\ Workers \subseteq Procs /\ Api \in Procs
         /\ Api \notin Workers
         /\ \A p \in Procs : p # Api => p \in Workers
         /\ \A p \in Procs : pc[p] \in InIteration => cur[p] \in Jobs
  BY ProcsAssumption DEF TypeOK, Procs

\* What the row helpers do to a lease, and that they keep a row sound.
LEMMA RowFields ==
  ASSUME NEW row \in Row, NEW s \in Status \ {"ABSENT"}
  PROVE  /\ Cleared(row, s).lease = "none" /\ Cleared(row, s).owner = None
         /\ WithStatus(row, s).lease = row.lease /\ WithStatus(row, s).owner = row.owner
  BY DEF Cleared, WithStatus, Row

LEMMA ClearedSound ==
  ASSUME NEW row \in Row, NEW s \in Status \ {"ABSENT"}
  PROVE  Cleared(row, s) \in Row /\ RowSound(Cleared(row, s)) /\ Cleared(row, s).status = s
         /\ Cleared(row, s).attempts = row.attempts
  BY RowFields, ClearedType DEF RowSound

LEMMA NoRowSound ==
  ASSUME NEW row \in Row, NEW s \in Status \ {"ABSENT"}, RowSound(row), row.status # "RUNNING"
  PROVE  WithStatus(row, s) \in Row /\ RowSound(WithStatus(row, s)) /\ WithStatus(row, s).status = s
         /\ WithStatus(row, s).attempts = row.attempts
  BY RowFields, StatusType DEF RowSound

LEMMA LeaseSet ==
  ASSUME NEW row \in Row, NEW l \in {"live", "expired"}, RowSound(row), row.status = "RUNNING", row.owner # None
  PROVE  /\ [row EXCEPT !.lease = l] \in Row /\ RowSound([row EXCEPT !.lease = l])
         /\ [row EXCEPT !.lease = l].attempts = row.attempts
         /\ [row EXCEPT !.lease = l].status = row.status /\ [row EXCEPT !.lease = l].owner = row.owner
  BY DEF Row, RowSound

LEMMA LeasedSound ==
  ASSUME TypeOK, NEW w \in Workers, NEW j \in Jobs
  PROVE  LeasedRow(w, j) \in Row /\ RowSound(LeasedRow(w, j)) /\ LeasedRow(w, j).owner = Owner[w]
<1>1. Owner[w] \in Owners /\ Owner[w] # None
  BY OwnersAssumption DEF Owners
<1> QED
  BY <1>1, LeasedRowType DEF LeasedRow, RowSound

\* A sound row keeps the table sound.
LEMMA SaveSound ==
  ASSUME TypeOK, RowsSound, NEW j \in Jobs, NEW row \in Row, Save(j, row), RowSound(row)
  PROVE  RowsSound'
  BY SaveType DEF RowsSound

\* One row changes as one action of the life of a job allows.
Lived(j, row) ==
    \/ row.status = jobs[j].status /\ row.attempts = jobs[j].attempts
    \/ /\ row.attempts = jobs[j].attempts
       /\ \/ jobs[j].status = "ABSENT" /\ row.status = "QUEUED"
          \/ jobs[j].status = "QUEUED" /\ row.status \in {"CANCELLED", "RUNNING"}
          \/ jobs[j].status = "RUNNING" /\ row.status \in Outcome
          \/ jobs[j].status \in Outcome /\ row.status = "FAILED"
          \/ jobs[j].status = "RUNNING" /\ row.status = "QUEUED" /\ jobs[j].attempts < MaxAttempts[j]
    \/ /\ jobs[j].attempts < MaxAttempts[j] /\ row.attempts = jobs[j].attempts + 1
       /\ jobs[j].status = "QUEUED" /\ row.status = "RUNNING"

\* A row saved as the life of its job allows is a step of that life.
LEMMA SaveLives ==
  ASSUME TypeOK, NEW j \in Jobs, NEW row \in Row, Save(j, row), Lived(j, row)
  PROVE  LifecycleStep
<1> DEFINE st == [k \in Jobs |-> jobs[k].status]  at == [k \in Jobs |-> jobs[k].attempts]
           st1 == [k \in Jobs |-> jobs'[k].status]  at1 == [k \in Jobs |-> jobs'[k].attempts]
<1>1. jobs'[j] = row /\ \A k \in Jobs \ {j} : jobs'[k] = jobs[k]
  BY SaveType
<1>2. st1 = [st EXCEPT ![j] = row.status] /\ at1 = [at EXCEPT ![j] = row.attempts]
      /\ st[j] = jobs[j].status /\ at[j] = jobs[j].attempts
  BY <1>1
<1>3. row.attempts = jobs[j].attempts => at1 = at
  BY <1>1
<1>4. row.status = jobs[j].status => st1 = st
  BY <1>1
<1> HIDE DEF st, at, st1, at1
<1>5. LifecycleStep <=> \/ st1 = st /\ at1 = at
                \/ \E k \in Jobs :
                     \/ /\ at1 = at
                        /\ \/ st[k] = "ABSENT" /\ st1 = [st EXCEPT ![k] = "QUEUED"]
                           \/ st[k] = "QUEUED" /\ st1 = [st EXCEPT ![k] = "CANCELLED"]
                           \/ st[k] = "QUEUED" /\ st1 = [st EXCEPT ![k] = "RUNNING"]
                           \/ at[k] < MaxAttempts[k] /\ st[k] = "RUNNING" /\ st1 = [st EXCEPT ![k] = "QUEUED"]
                           \/ \E s \in Outcome : st[k] = "RUNNING" /\ st1 = [st EXCEPT ![k] = s]
                           \/ \E s \in Outcome : st[k] = s /\ st1 = [st EXCEPT ![k] = "FAILED"]
                     \/ /\ at[k] < MaxAttempts[k] /\ st[k] = "QUEUED" /\ st1 = [st EXCEPT ![k] = "RUNNING"]
                        /\ at1 = [at EXCEPT ![k] = @ + 1]
  BY DEF LifecycleStep, st, at, st1, at1, Lifecycle!LifecycleNext, Lifecycle!lifecycle, Lifecycle!Submit, Lifecycle!Cancel,
         Lifecycle!RunNow, Lifecycle!Lease, Lifecycle!Requeue, Lifecycle!End, Lifecycle!MarkFailed,
         Lifecycle!Become, Lifecycle!Ended, Outcome
<1> QED
  BY <1>2, <1>3, <1>4, <1>5 DEF Lived

\* A step that writes no row.
LEMMA JobsKept ==
  ASSUME RowsSound, UNCHANGED jobs
  PROVE  RowsSound' /\ LifecycleStep
  BY DEF RowsSound, LifecycleStep, Lifecycle!lifecycle

\* A busy process is alone, and so is one that starts.
LEMMA BusyAlone ==
  ASSUME TypeOK, Serial, NEW p \in Procs, pc[p] # "idle"
  PROVE  Alone(p)
  BY DEF Serial, OneBusy, Alone, KnowsHeld

LEMMA StartAlone ==
  ASSUME TypeOK, Serial, OneAtATime, NEW p \in Procs, CanStart(p)
  PROVE  Alone(p) /\ pc[p] = "idle" /\ (p \in Workers => held[p] = {})
  BY DEF Serial, Alone, CanStart, KnowsHeld

\* A step of a process that is alone only has to keep what that process knows.
LEMMA SerialKept ==
  ASSUME TypeOK, Serial, NEW p \in Procs, Alone(p),
         \A q \in Procs \ {p} : pc'[q] = pc[q], \A q \in Workers \ {p} : held'[q] = held[q],
         RowsSound', KnowsP(p)'
  PROVE  Serial'
<1>1. \A q \in Procs \ {p} : pc'[q] = "idle" /\ (q \in Workers => held'[q] = {})
  BY DEF Alone
<1>2. OneBusy'
  BY <1>1 DEF OneBusy
<1>3. \A q \in Procs : KnowsQueued(q)' /\ KnowsRunning(q)' /\ KnowsFinished(q)'
  BY <1>1 DEF KnowsP, KnowsQueued, KnowsRunning, KnowsFinished
<1>4. \A q \in Workers : KnowsHeartbeat(q)' /\ KnowsStale(q)' /\ KnowsHeld(q)'
  BY <1>1, Shapes DEF KnowsP, KnowsHeartbeat, KnowsStale, KnowsHeld
<1> QED
  BY <1>2, <1>3, <1>4 DEF Serial

\* One case for each action of Next.
LEMMA StepSerial == OneAtATime /\ TypeOK /\ AttemptsInv /\ Serial /\ [Next]_vars => Serial' /\ LifecycleStep
<1> SUFFICES ASSUME OneAtATime, TypeOK, AttemptsInv, Serial, [Next]_vars
             PROVE  Serial' /\ LifecycleStep
  OBVIOUS
<1> USE Shapes
<1>1. ASSUME NEW j \in Jobs, CreateSave(j)
      PROVE  Serial' /\ LifecycleStep
  <2> DEFINE k == j  row == WithStatus(NoRow, "QUEUED")
  <2>1. Alone(Api) /\ (Api \in Workers => held[Api] = {}) /\ k \in Jobs
    BY <1>1, StartAlone DEF CreateSave, InIteration, ApiPc, WorkerPc, FinishPc
  <2>2. Save(k, row)
    BY <1>1 DEF CreateSave
  <2>3. row \in Row /\ RowSound(row) /\ Lived(k, row)
    <3>1. NoRow \in Row /\ RowSound(NoRow) /\ NoRow.status = "ABSENT" /\ NoRow.attempts = 0
      BY NoRowType DEF NoRow, RowSound
    <3>2. jobs[j].attempts = 0 /\ jobs[j].status = "ABSENT"
      BY <1>1 DEF CreateSave, Serial, RowsSound, RowSound
    <3> QED
      BY <3>1, <3>2, NoRowSound DEF Status, Lived
  <2>4. RowsSound' /\ LifecycleStep
    BY <2>1, <2>2, <2>3, SaveSound, SaveLives DEF Serial
  <2>5. jobs'[k] = row /\ \A j1 \in Jobs \ {k} : jobs'[j1] = jobs[j1]
    BY <2>1, <2>2, <2>3, SaveType
  <2>6. KnowsP(Api)'
    BY <1>1, <2>1, <2>3, <2>5 DEF CreateSave, Serial, Goto, SetCur, Load,
       KnowsP, KnowsQueued, KnowsRunning, KnowsFinished, KnowsHeartbeat, KnowsStale, KnowsHeld, Image, Written,
       InIteration, ApiPc, WorkerPc, FinishPc
  <2>7. /\ \A q \in Procs \ {Api} : pc'[q] = pc[q]
        /\ \A q \in Workers \ {Api} : held'[q] = held[q]
    BY <1>1 DEF CreateSave, Goto
  <2> QED
    BY <2>1, <2>4, <2>6, <2>7, SerialKept
<1>2. ASSUME CreateEvent
      PROVE  Serial' /\ LifecycleStep
  <2>1. Alone(Api)
    BY <1>2, BusyAlone DEF CreateEvent
  <2>2. RowsSound' /\ LifecycleStep
    BY <1>2, JobsKept DEF CreateEvent, Serial, table
  <2>3. KnowsP(Api)'
    BY <1>2, <2>1 DEF CreateEvent, Serial, table, Goto, SetCur, Load,
       KnowsP, KnowsQueued, KnowsRunning, KnowsFinished, KnowsHeartbeat, KnowsStale, KnowsHeld, Image, Written,
       InIteration, ApiPc, WorkerPc, FinishPc
  <2>4. /\ \A q \in Procs \ {Api} : pc'[q] = pc[q]
        /\ \A q \in Workers \ {Api} : held'[q] = held[q]
    BY <1>2 DEF CreateEvent, Goto
  <2> QED
    BY <2>1, <2>2, <2>3, <2>4, SerialKept
<1>3. ASSUME NEW j \in Jobs, CancelGet(j)
      PROVE  Serial' /\ LifecycleStep
  <2>1. Alone(Api) /\ (Api \in Workers => held[Api] = {})
    BY <1>3, StartAlone DEF CancelGet
  <2>2. RowsSound' /\ LifecycleStep
    BY <1>3, JobsKept DEF CancelGet, Serial, table
  <2>3. KnowsP(Api)'
    BY <1>3, <2>1 DEF CancelGet, Serial, table, Goto, SetCur, Load,
       KnowsP, KnowsQueued, KnowsRunning, KnowsFinished, KnowsHeartbeat, KnowsStale, KnowsHeld, Image, Written,
       InIteration, ApiPc, WorkerPc, FinishPc
  <2>4. /\ \A q \in Procs \ {Api} : pc'[q] = pc[q]
        /\ \A q \in Workers \ {Api} : held'[q] = held[q]
    BY <1>3 DEF CancelGet, Goto
  <2> QED
    BY <2>1, <2>2, <2>3, <2>4, SerialKept
<1>4. ASSUME CancelSave
      PROVE  Serial' /\ LifecycleStep
  <2> DEFINE k == cur[Api]  row == WithStatus(mem[Api][k], "CANCELLED")
  <2>1. Alone(Api) /\ k \in Jobs
    BY <1>4, BusyAlone DEF CancelSave, InIteration, ApiPc, WorkerPc, FinishPc
  <2>2. Save(k, row)
    BY <1>4 DEF CancelSave
  <2>3. row \in Row /\ RowSound(row) /\ Lived(k, row)
    <3>1. jobs[k] = mem[Api][k] /\ jobs[k].status = "QUEUED" /\ jobs[k] \in Row /\ RowSound(jobs[k])
      BY <1>4, <2>1 DEF CancelSave, Serial, RowsSound, KnowsQueued, Written, Image
    <3> QED
      BY <3>1, NoRowSound DEF Status, Terminal, Lived
  <2>4. RowsSound' /\ LifecycleStep
    BY <2>1, <2>2, <2>3, SaveSound, SaveLives DEF Serial
  <2>5. jobs'[k] = row /\ \A j1 \in Jobs \ {k} : jobs'[j1] = jobs[j1]
    BY <2>1, <2>2, <2>3, SaveType
  <2>6. KnowsP(Api)'
    BY <1>4, <2>1, <2>3, <2>5 DEF CancelSave, Serial, Goto, SetCur, Load,
       KnowsP, KnowsQueued, KnowsRunning, KnowsFinished, KnowsHeartbeat, KnowsStale, KnowsHeld, Image, Written,
       InIteration, ApiPc, WorkerPc, FinishPc
  <2>7. /\ \A q \in Procs \ {Api} : pc'[q] = pc[q]
        /\ \A q \in Workers \ {Api} : held'[q] = held[q]
    BY <1>4 DEF CancelSave, Goto
  <2> QED
    BY <2>1, <2>4, <2>6, <2>7, SerialKept
<1>5. ASSUME CancelEvent
      PROVE  Serial' /\ LifecycleStep
  <2>1. Alone(Api)
    BY <1>5, BusyAlone DEF CancelEvent
  <2>2. RowsSound' /\ LifecycleStep
    BY <1>5, JobsKept DEF CancelEvent, Serial, table
  <2>3. KnowsP(Api)'
    BY <1>5, <2>1 DEF CancelEvent, Serial, table, Goto, SetCur, Load,
       KnowsP, KnowsQueued, KnowsRunning, KnowsFinished, KnowsHeartbeat, KnowsStale, KnowsHeld, Image, Written,
       InIteration, ApiPc, WorkerPc, FinishPc
  <2>4. /\ \A q \in Procs \ {Api} : pc'[q] = pc[q]
        /\ \A q \in Workers \ {Api} : held'[q] = held[q]
    BY <1>5 DEF CancelEvent, Goto
  <2> QED
    BY <2>1, <2>2, <2>3, <2>4, SerialKept
<1>6. ASSUME NEW j \in Jobs, RunJob(j)
      PROVE  Serial' /\ LifecycleStep
  <2>1. Alone(Api) /\ (Api \in Workers => held[Api] = {})
    BY <1>6, StartAlone DEF RunJob, RunStart
  <2>2. RowsSound' /\ LifecycleStep
    BY <1>6, JobsKept DEF RunJob, RunStart, Serial, table
  <2>3. KnowsP(Api)'
    BY <1>6, <2>1 DEF RunJob, RunStart, Serial, table, Goto, SetCur, Load,
       KnowsP, KnowsQueued, KnowsRunning, KnowsFinished, KnowsHeartbeat, KnowsStale, KnowsHeld, Image, Written,
       InIteration, ApiPc, WorkerPc, FinishPc
  <2>4. /\ \A q \in Procs \ {Api} : pc'[q] = pc[q]
        /\ \A q \in Workers \ {Api} : held'[q] = held[q]
    BY <1>6 DEF RunJob, RunStart, Goto
  <2> QED
    BY <2>1, <2>2, <2>3, <2>4, SerialKept
<1>7. ASSUME RunPending
      PROVE  Serial' /\ LifecycleStep
  <2>1. Alone(Api) /\ (Api \in Workers => held[Api] = {})
    BY <1>7, StartAlone DEF RunPending, RunStart
  <2>2. RowsSound' /\ LifecycleStep
    BY <1>7, JobsKept DEF RunPending, RunStart, Serial, table
  <2>3. KnowsP(Api)'
    BY <1>7, <2>1 DEF RunPending, RunStart, Serial, table, Goto, SetCur, Load,
       KnowsP, KnowsQueued, KnowsRunning, KnowsFinished, KnowsHeartbeat, KnowsStale, KnowsHeld, Image, Written,
       InIteration, ApiPc, WorkerPc, FinishPc
  <2>4. /\ \A q \in Procs \ {Api} : pc'[q] = pc[q]
        /\ \A q \in Workers \ {Api} : held'[q] = held[q]
    BY <1>7 DEF RunPending, RunStart, Goto
  <2> QED
    BY <2>1, <2>2, <2>3, <2>4, SerialKept
<1>8. ASSUME NEW j \in Jobs, RunGet(j)
      PROVE  Serial' /\ LifecycleStep
  <2>1. Alone(Api)
    BY <1>8, BusyAlone DEF RunGet
  <2>2. RowsSound' /\ LifecycleStep
    BY <1>8, JobsKept DEF RunGet, Serial, table
  <2>3. KnowsP(Api)'
    BY <1>8, <2>1 DEF RunGet, Serial, table, Goto, SetCur, Load,
       KnowsP, KnowsQueued, KnowsRunning, KnowsFinished, KnowsHeartbeat, KnowsStale, KnowsHeld, Image, Written,
       InIteration, ApiPc, WorkerPc, FinishPc
  <2>4. /\ \A q \in Procs \ {Api} : pc'[q] = pc[q]
        /\ \A q \in Workers \ {Api} : held'[q] = held[q]
    BY <1>8 DEF RunGet, Goto
  <2> QED
    BY <2>1, <2>2, <2>3, <2>4, SerialKept
<1>9. ASSUME RunSave
      PROVE  Serial' /\ LifecycleStep
  <2> DEFINE k == cur[Api]  row == Cleared(mem[Api][k], "RUNNING")
  <2>1. Alone(Api) /\ k \in Jobs
    BY <1>9, BusyAlone DEF RunSave, InIteration, ApiPc, WorkerPc, FinishPc
  <2>2. Save(k, row)
    BY <1>9 DEF RunSave
  <2>3. row \in Row /\ RowSound(row) /\ Lived(k, row)
    <3>1. jobs[k] = mem[Api][k] /\ jobs[k].status = "QUEUED" /\ jobs[k] \in Row
      BY <1>9, <2>1 DEF RunSave, Serial, KnowsQueued, Written, Image
    <3> QED
      BY <3>1, ClearedSound DEF Status, Lived
  <2>4. RowsSound' /\ LifecycleStep
    BY <2>1, <2>2, <2>3, SaveSound, SaveLives DEF Serial
  <2>5. jobs'[k] = row /\ \A j1 \in Jobs \ {k} : jobs'[j1] = jobs[j1]
    BY <2>1, <2>2, <2>3, SaveType
  <2>8. Load(Api, k, row)
    BY <1>9 DEF RunSave
  <2>9. mem'[Api][k] = row /\ row.status = "RUNNING" /\ \A j1 \in Jobs \ {k} : mem'[Api][j1] = mem[Api][j1]
    BY <2>1, <2>3, <2>8, LoadType, ClearedSound DEF Status, Terminal, Outcome
  <2> HIDE DEF row
  <2>6. KnowsP(Api)'
    BY <1>9, <2>1, <2>3, <2>5, <2>8, <2>9 DEF RunSave, Serial, Goto, SetCur, Load,
       KnowsP, KnowsQueued, KnowsRunning, KnowsFinished, KnowsHeartbeat, KnowsStale, KnowsHeld, Image, Written,
       InIteration, ApiPc, WorkerPc, FinishPc
  <2>7. /\ \A q \in Procs \ {Api} : pc'[q] = pc[q]
        /\ \A q \in Workers \ {Api} : held'[q] = held[q]
    BY <1>9 DEF RunSave, Goto
  <2> QED
    BY <2>1, <2>4, <2>6, <2>7, SerialKept
<1>10. ASSUME RunEvent
      PROVE  Serial' /\ LifecycleStep
  <2>1. Alone(Api)
    BY <1>10, BusyAlone DEF RunEvent
  <2>2. RowsSound' /\ LifecycleStep
    BY <1>10, JobsKept DEF RunEvent, Serial, table
  <2>3. KnowsP(Api)'
    BY <1>10, <2>1 DEF RunEvent, Serial, table, Goto, SetCur, Load,
       KnowsP, KnowsQueued, KnowsRunning, KnowsFinished, KnowsHeartbeat, KnowsStale, KnowsHeld, Image, Written,
       InIteration, ApiPc, WorkerPc, FinishPc
  <2>4. /\ \A q \in Procs \ {Api} : pc'[q] = pc[q]
        /\ \A q \in Workers \ {Api} : held'[q] = held[q]
    BY <1>10 DEF RunEvent, Goto
  <2> QED
    BY <2>1, <2>2, <2>3, <2>4, SerialKept
<1>11. ASSUME RunDone
      PROVE  Serial' /\ LifecycleStep
  <2>1. Alone(Api)
    BY <1>11, BusyAlone DEF RunDone
  <2>2. RowsSound' /\ LifecycleStep
    BY <1>11, JobsKept DEF RunDone, Serial, table
  <2>3. KnowsP(Api)'
    BY <1>11, <2>1 DEF RunDone, Serial, table, Goto, SetCur, Load,
       KnowsP, KnowsQueued, KnowsRunning, KnowsFinished, KnowsHeartbeat, KnowsStale, KnowsHeld, Image, Written,
       InIteration, ApiPc, WorkerPc, FinishPc
  <2>4. /\ \A q \in Procs \ {Api} : pc'[q] = pc[q]
        /\ \A q \in Workers \ {Api} : held'[q] = held[q]
    BY <1>11 DEF RunDone, Goto
  <2> QED
    BY <2>1, <2>2, <2>3, <2>4, SerialKept
<1>12. ASSUME NEW w \in Workers, NEW only \in BOOLEAN, WorkerStart(w, only)
      PROVE  Serial' /\ LifecycleStep
  <2>1. Alone(w) /\ (w \in Workers => held[w] = {})
    BY <1>12, StartAlone DEF WorkerStart, StaleRunning
  <2>2. RowsSound' /\ LifecycleStep
    BY <1>12, JobsKept DEF WorkerStart, StaleRunning, Serial, table
  <2>3. KnowsP(w)'
    BY <1>12, <2>1 DEF WorkerStart, StaleRunning, Serial, table, Goto, SetCur, Load,
       KnowsP, KnowsQueued, KnowsRunning, KnowsFinished, KnowsHeartbeat, KnowsStale, KnowsHeld, Image, Written,
       InIteration, ApiPc, WorkerPc, FinishPc
  <2>4. /\ \A q \in Procs \ {w} : pc'[q] = pc[q]
        /\ \A q \in Workers \ {w} : held'[q] = held[q]
    BY <1>12 DEF WorkerStart, StaleRunning, Goto
  <2> QED
    BY <2>1, <2>2, <2>3, <2>4, SerialKept
<1>13. ASSUME NEW w \in Workers, NEW j \in Jobs, RecoverSave(w, j)
      PROVE  Serial' /\ LifecycleStep
  <2> DEFINE k == j  row == Cleared(mem[w][j], IF AttemptsLeft(j, mem[w][j]) THEN "QUEUED" ELSE "FAILED")
  <2>1. Alone(w) /\ k \in Jobs
    BY <1>13, BusyAlone DEF RecoverSave, InIteration, ApiPc, WorkerPc, FinishPc
  <2>2. Save(k, row)
    BY <1>13 DEF RecoverSave
  <2>3. row \in Row /\ RowSound(row) /\ Lived(k, row)
    <3>1. jobs[k] = mem[w][k] /\ jobs[k].status = "RUNNING" /\ jobs[k] \in Row
      BY <1>13, <2>1 DEF RecoverSave, Serial, KnowsStale
    <3> QED
      BY <3>1, ClearedSound, SMTT(30) DEF Status, Terminal, Outcome, Lived, AttemptsLeft
  <2>4. RowsSound' /\ LifecycleStep
    BY <2>1, <2>2, <2>3, SaveSound, SaveLives DEF Serial
  <2>5. jobs'[k] = row /\ \A j1 \in Jobs \ {k} : jobs'[j1] = jobs[j1]
    BY <2>1, <2>2, <2>3, SaveType
  <2>6. KnowsP(w)'
    BY <1>13, <2>1, <2>3, <2>5, SMTT(30) DEF RecoverSave, Serial, Goto, SetCur, Load,
       KnowsP, KnowsQueued, KnowsRunning, KnowsFinished, KnowsHeartbeat, KnowsStale, KnowsHeld, Image, Written,
       InIteration, ApiPc, WorkerPc, FinishPc
  <2>7. /\ \A q \in Procs \ {w} : pc'[q] = pc[q]
        /\ \A q \in Workers \ {w} : held'[q] = held[q]
    BY <1>13 DEF RecoverSave, Goto
  <2> QED
    BY <2>1, <2>4, <2>6, <2>7, SerialKept
<1>14. ASSUME NEW w \in Workers, RecoverEvent(w)
      PROVE  Serial' /\ LifecycleStep
  <2>1. Alone(w)
    BY <1>14, BusyAlone DEF RecoverEvent
  <2>2. RowsSound' /\ LifecycleStep
    BY <1>14, JobsKept DEF RecoverEvent, Serial, table
  <2>3. KnowsP(w)'
    BY <1>14, <2>1 DEF RecoverEvent, Serial, table, Goto, SetCur, Load,
       KnowsP, KnowsQueued, KnowsRunning, KnowsFinished, KnowsHeartbeat, KnowsStale, KnowsHeld, Image, Written,
       InIteration, ApiPc, WorkerPc, FinishPc
  <2>4. /\ \A q \in Procs \ {w} : pc'[q] = pc[q]
        /\ \A q \in Workers \ {w} : held'[q] = held[q]
    BY <1>14 DEF RecoverEvent, Goto
  <2> QED
    BY <2>1, <2>2, <2>3, <2>4, SerialKept
<1>15. ASSUME NEW w \in Workers, RecoverDone(w)
      PROVE  Serial' /\ LifecycleStep
  <2>1. Alone(w)
    BY <1>15, BusyAlone DEF RecoverDone
  <2>2. RowsSound' /\ LifecycleStep
    BY <1>15, JobsKept DEF RecoverDone, Serial, table
  <2>3. KnowsP(w)'
    BY <1>15, <2>1 DEF RecoverDone, Serial, table, Goto, SetCur, Load,
       KnowsP, KnowsQueued, KnowsRunning, KnowsFinished, KnowsHeartbeat, KnowsStale, KnowsHeld, Image, Written,
       InIteration, ApiPc, WorkerPc, FinishPc
  <2>4. /\ \A q \in Procs \ {w} : pc'[q] = pc[q]
        /\ \A q \in Workers \ {w} : held'[q] = held[q]
    BY <1>15 DEF RecoverDone, Goto
  <2> QED
    BY <2>1, <2>2, <2>3, <2>4, SerialKept
<1>16. ASSUME NEW w \in Workers, NEW j \in Jobs, LeaseRead(w, j)
      PROVE  Serial' /\ LifecycleStep
  <2>1. Alone(w)
    BY <1>16, BusyAlone DEF LeaseRead, Leasable
  <2>2. RowsSound' /\ LifecycleStep
    BY <1>16, JobsKept DEF LeaseRead, Leasable, Serial, table
  <2>3. KnowsP(w)'
    <3>1. /\ held[w] = held'[w] /\ jobs' = jobs /\ pc[w] = "lease" /\ w \in Procs
          /\ \A k \in held[w] : jobs[k].status = "RUNNING" /\ jobs[k].owner = Owner[w]
                                /\ jobs[k].attempts = mem[w][k].attempts
      BY <1>16 DEF LeaseRead, Serial, KnowsHeld, table
    <3>2. CASE UNCHANGED <<pc, cur, mem>>
      BY <3>1, <3>2 DEF KnowsP, KnowsQueued, KnowsRunning, KnowsFinished, KnowsHeartbeat, KnowsStale, KnowsHeld
    <3>3. CASE Leasable(j) /\ Load(w, j, jobs[j]) /\ SetCur(w, j) /\ Goto(w, "lease_write")
      <4>1. pc'[w] = "lease_write" /\ cur'[w] = j
        BY <3>1, <3>3 DEF SetCur, Goto
      <4>2. mem'[w][j] = jobs[j] /\ \A k \in Jobs \ {j} : mem'[w][k] = mem[w][k]
        BY <3>1, <3>3, LoadType
      <4>3. jobs[j].status = "QUEUED" /\ j \notin held[w]
        BY <3>1, <3>3 DEF Leasable
      <4>4. KnowsQueued(w)' /\ KnowsHeld(w)'
        BY <3>1, <4>1, <4>2, <4>3 DEF KnowsQueued, KnowsHeld, Written, Image
      <4> QED
        BY <4>1, <4>4 DEF KnowsP, KnowsRunning, KnowsFinished, KnowsHeartbeat, KnowsStale
    <3> QED
      BY <1>16, <3>2, <3>3 DEF LeaseRead
  <2>4. /\ \A q \in Procs \ {w} : pc'[q] = pc[q]
        /\ \A q \in Workers \ {w} : held'[q] = held[q]
    BY <1>16 DEF LeaseRead, Leasable, Goto
  <2> QED
    BY <2>1, <2>2, <2>3, <2>4, SerialKept
<1>17. ASSUME NEW w \in Workers, LeaseWrite(w)
      PROVE  Serial' /\ LifecycleStep
  <2> DEFINE k == cur[w]  row == LeasedRow(w, k)
  <2>1. Alone(w) /\ k \in Jobs
    BY <1>17, BusyAlone DEF LeaseWrite, InIteration, ApiPc, WorkerPc, FinishPc
  <2>2. Save(k, row)
    BY <1>17 DEF LeaseWrite
  <2>3. row \in Row /\ RowSound(row) /\ Lived(k, row)
    <3>1. jobs[k] = mem[w][k] /\ jobs[k].status = "QUEUED" /\ jobs[k] \in Row
      BY <1>17, <2>1 DEF LeaseWrite, Serial, KnowsQueued, Written, Image
    <3>2. jobs[k].attempts < MaxAttempts[k]
      BY <1>17, <3>1 DEF LeaseWrite, AttemptsInv, AttemptsLeft
    <3> QED
      BY <2>1, <3>1, <3>2, LeasedRowType, LeasedSound DEF Lived
  <2>4. RowsSound' /\ LifecycleStep
    BY <2>1, <2>2, <2>3, SaveSound, SaveLives DEF Serial
  <2>5. jobs'[k] = row /\ \A j1 \in Jobs \ {k} : jobs'[j1] = jobs[j1]
    BY <2>1, <2>2, <2>3, SaveType
  <2>6. KnowsP(w)'
    BY <1>17, <2>1, <2>3, <2>5, LeasedRowType, LeasedSound DEF LeaseWrite, Serial, Goto, SetCur, Load,
       KnowsP, KnowsQueued, KnowsRunning, KnowsFinished, KnowsHeartbeat, KnowsStale, KnowsHeld, Image, Written,
       InIteration, ApiPc, WorkerPc, FinishPc
  <2>7. /\ \A q \in Procs \ {w} : pc'[q] = pc[q]
        /\ \A q \in Workers \ {w} : held'[q] = held[q]
    BY <1>17 DEF LeaseWrite, Goto
  <2> QED
    BY <2>1, <2>4, <2>6, <2>7, SerialKept
<1>18. ASSUME NEW w \in Workers, LeaseDone(w)
      PROVE  Serial' /\ LifecycleStep
  <2>1. Alone(w)
    BY <1>18, BusyAlone DEF LeaseDone
  <2>2. RowsSound' /\ LifecycleStep
    BY <1>18, JobsKept DEF LeaseDone, Serial, table
  <2>3. KnowsP(w)'
    BY <1>18, <2>1 DEF LeaseDone, Serial, table, Goto, SetCur, Load,
       KnowsP, KnowsQueued, KnowsRunning, KnowsFinished, KnowsHeartbeat, KnowsStale, KnowsHeld, Image, Written,
       InIteration, ApiPc, WorkerPc, FinishPc
  <2>4. /\ \A q \in Procs \ {w} : pc'[q] = pc[q]
        /\ \A q \in Workers \ {w} : held'[q] = held[q]
    BY <1>18 DEF LeaseDone, Goto
  <2> QED
    BY <2>1, <2>2, <2>3, <2>4, SerialKept
<1>19. ASSUME NEW w \in Workers, NEW j \in Jobs, WorkNext(w, j)
      PROVE  Serial' /\ LifecycleStep
  <2>1. Alone(w)
    BY <1>19, BusyAlone DEF WorkNext, HoldsLease
  <2>2. RowsSound' /\ LifecycleStep
    BY <1>19, JobsKept DEF WorkNext, HoldsLease, Serial, table
  <2>3. KnowsP(w)'
    <3>1. /\ held'[w] = held[w] \ {j} /\ jobs' = jobs /\ mem' = mem /\ j \in held[w] /\ w \in Procs
          /\ cur'[w] = j
          /\ \A k \in held[w] : jobs[k].status = "RUNNING" /\ jobs[k].owner = Owner[w]
                                /\ jobs[k].attempts = mem[w][k].attempts
      BY <1>19 DEF WorkNext, First, Serial, KnowsHeld, SetCur
    <3>2. pc'[w] = "heartbeat"
      BY <1>19, <3>1 DEF WorkNext, HoldsLease, Goto
    <3> QED
      BY <3>1, <3>2 DEF KnowsP, KnowsQueued, KnowsRunning, KnowsFinished, KnowsHeartbeat, KnowsStale, KnowsHeld,
                        Written
  <2>4. /\ \A q \in Procs \ {w} : pc'[q] = pc[q]
        /\ \A q \in Workers \ {w} : held'[q] = held[q]
    BY <1>19 DEF WorkNext, HoldsLease, Goto
  <2> QED
    BY <2>1, <2>2, <2>3, <2>4, SerialKept
<1>20. ASSUME NEW w \in Workers, HeartbeatWrite(w)
      PROVE  Serial' /\ LifecycleStep
  <2> DEFINE k == cur[w]  row == [jobs[k] EXCEPT !.lease = "live"]
  <2>1. Alone(w) /\ k \in Jobs
    BY <1>20, BusyAlone DEF HeartbeatWrite, InIteration, ApiPc, WorkerPc, FinishPc
  <2>2. Save(k, row)
    BY <1>20 DEF HeartbeatWrite
  <2>3. row \in Row /\ RowSound(row) /\ Lived(k, row)
    <3>1. jobs[k].status = "RUNNING" /\ jobs[k].owner = Owner[w] /\ Owner[w] # None /\ jobs[k] \in Row
      BY <1>20, <2>1, OwnersAssumption DEF HeartbeatWrite, Serial, KnowsHeartbeat, Written, Owners
    <3> QED
      BY <2>1, <3>1, LeaseSet DEF Lived, Serial, RowsSound
  <2>4. RowsSound' /\ LifecycleStep
    BY <2>1, <2>2, <2>3, SaveSound, SaveLives DEF Serial
  <2>5. jobs'[k] = row /\ \A j1 \in Jobs \ {k} : jobs'[j1] = jobs[j1]
    BY <2>1, <2>2, <2>3, SaveType
  <2>6. KnowsP(w)'
    BY <1>20, <2>1, <2>3, <2>5 DEF HeartbeatWrite, Serial, Goto, SetCur, Load,
       KnowsP, KnowsQueued, KnowsRunning, KnowsFinished, KnowsHeartbeat, KnowsStale, KnowsHeld, Image, Written,
       InIteration, ApiPc, WorkerPc, FinishPc
  <2>7. /\ \A q \in Procs \ {w} : pc'[q] = pc[q]
        /\ \A q \in Workers \ {w} : held'[q] = held[q]
    BY <1>20 DEF HeartbeatWrite, Goto
  <2> QED
    BY <2>1, <2>4, <2>6, <2>7, SerialKept
<1>21. ASSUME NEW w \in Workers, Started(w)
      PROVE  Serial' /\ LifecycleStep
  <2>1. Alone(w)
    BY <1>21, BusyAlone DEF Started
  <2>2. RowsSound' /\ LifecycleStep
    BY <1>21, JobsKept DEF Started, Serial, table
  <2>3. KnowsP(w)'
    BY <1>21, <2>1 DEF Started, Serial, table, Goto, SetCur, Load,
       KnowsP, KnowsQueued, KnowsRunning, KnowsFinished, KnowsHeartbeat, KnowsStale, KnowsHeld, Image, Written,
       InIteration, ApiPc, WorkerPc, FinishPc
  <2>4. /\ \A q \in Procs \ {w} : pc'[q] = pc[q]
        /\ \A q \in Workers \ {w} : held'[q] = held[q]
    BY <1>21 DEF Started, Goto
  <2> QED
    BY <2>1, <2>2, <2>3, <2>4, SerialKept
<1>22. ASSUME NEW w \in Workers, Release(w)
      PROVE  Serial' /\ LifecycleStep
  <2>1. Alone(w)
    BY <1>22, BusyAlone DEF Release
  <2>2. RowsSound' /\ LifecycleStep
    BY <1>22, JobsKept DEF Release, Serial, table
  <2>3. KnowsP(w)'
    BY <1>22, <2>1 DEF Release, Serial, table, Goto, SetCur, Load,
       KnowsP, KnowsQueued, KnowsRunning, KnowsFinished, KnowsHeartbeat, KnowsStale, KnowsHeld, Image, Written,
       InIteration, ApiPc, WorkerPc, FinishPc
  <2>4. /\ \A q \in Procs \ {w} : pc'[q] = pc[q]
        /\ \A q \in Workers \ {w} : held'[q] = held[q]
    BY <1>22 DEF Release, Goto
  <2> QED
    BY <2>1, <2>2, <2>3, <2>4, SerialKept
<1>23. ASSUME NEW w \in Workers, WorkDone(w)
      PROVE  Serial' /\ LifecycleStep
  <2>1. Alone(w)
    BY <1>23, BusyAlone DEF WorkDone
  <2>2. RowsSound' /\ LifecycleStep
    BY <1>23, JobsKept DEF WorkDone, Serial, table
  <2>3. KnowsP(w)'
    BY <1>23, <2>1 DEF WorkDone, Serial, table, Goto, SetCur, Load,
       KnowsP, KnowsQueued, KnowsRunning, KnowsFinished, KnowsHeartbeat, KnowsStale, KnowsHeld, Image, Written,
       InIteration, ApiPc, WorkerPc, FinishPc
  <2>4. /\ \A q \in Procs \ {w} : pc'[q] = pc[q]
        /\ \A q \in Workers \ {w} : held'[q] = held[q]
    BY <1>23 DEF WorkDone, Goto
  <2> QED
    BY <2>1, <2>2, <2>3, <2>4, SerialKept
<1>24. ASSUME NEW p \in Procs, NEW s \in Outcome, FinishSave(p, s)
      PROVE  Serial' /\ LifecycleStep
  <2> DEFINE k == cur[p]  row == Cleared(mem[p][k], s)
  <2>1. Alone(p) /\ k \in Jobs
    BY <1>24, BusyAlone DEF FinishSave, InIteration, ApiPc, WorkerPc, FinishPc
  <2>2. Save(k, row)
    BY <1>24 DEF FinishSave
  <2>3. row \in Row /\ RowSound(row) /\ Lived(k, row)
    <3>1. jobs[k].attempts = mem[p][k].attempts /\ jobs[k].status = "RUNNING" /\ mem[p][k] \in Row
      BY <1>24, <2>1 DEF FinishSave, Serial, KnowsRunning, Written, Image
    <3> QED
      BY <3>1, ClearedSound DEF Status, Terminal, Outcome, Lived
  <2>4. RowsSound' /\ LifecycleStep
    BY <2>1, <2>2, <2>3, SaveSound, SaveLives DEF Serial
  <2>5. jobs'[k] = row /\ \A j1 \in Jobs \ {k} : jobs'[j1] = jobs[j1]
    BY <2>1, <2>2, <2>3, SaveType
  <2>8. Load(p, k, row)
    BY <1>24 DEF FinishSave
  <2>9. mem'[p][k] = row /\ row.status = s /\ \A j1 \in Jobs \ {k} : mem'[p][j1] = mem[p][j1]
    BY <2>1, <2>3, <2>8, LoadType, ClearedSound DEF Status, Terminal, Outcome
  <2> HIDE DEF row
  <2>6. KnowsP(p)'
    BY <1>24, <2>1, <2>3, <2>5, <2>8, <2>9 DEF FinishSave, Serial, Goto, SetCur, Load,
       KnowsP, KnowsQueued, KnowsRunning, KnowsFinished, KnowsHeartbeat, KnowsStale, KnowsHeld, Image, Written,
       InIteration, ApiPc, WorkerPc, FinishPc
  <2>7. /\ \A q \in Procs \ {p} : pc'[q] = pc[q]
        /\ \A q \in Workers \ {p} : held'[q] = held[q]
    BY <1>24 DEF FinishSave, Goto
  <2> QED
    BY <2>1, <2>4, <2>6, <2>7, SerialKept
<1>25. ASSUME NEW p \in Procs, FinishEvent(p)
      PROVE  Serial' /\ LifecycleStep
  <2>1. Alone(p)
    BY <1>25, BusyAlone DEF FinishEvent, Finished
  <2>2. RowsSound' /\ LifecycleStep
    BY <1>25, JobsKept DEF FinishEvent, Finished, Serial, table
  <2>3. KnowsP(p)'
    BY <1>25, <2>1 DEF FinishEvent, Finished, Serial, table, Goto, SetCur, Load,
       KnowsP, KnowsQueued, KnowsRunning, KnowsFinished, KnowsHeartbeat, KnowsStale, KnowsHeld, Image, Written,
       InIteration, ApiPc, WorkerPc, FinishPc
  <2>4. /\ \A q \in Procs \ {p} : pc'[q] = pc[q]
        /\ \A q \in Workers \ {p} : held'[q] = held[q]
    BY <1>25 DEF FinishEvent, Finished, Goto
  <2> QED
    BY <2>1, <2>2, <2>3, <2>4, SerialKept
<1>26. ASSUME NEW p \in Procs, FinishEventFails(p)
      PROVE  Serial' /\ LifecycleStep
  <2>1. Alone(p)
    BY <1>26, BusyAlone DEF FinishEventFails
  <2>2. RowsSound' /\ LifecycleStep
    BY <1>26, JobsKept DEF FinishEventFails, Serial, table
  <2>3. KnowsP(p)'
    BY <1>26, <2>1 DEF FinishEventFails, Serial, table, Goto, SetCur, Load,
       KnowsP, KnowsQueued, KnowsRunning, KnowsFinished, KnowsHeartbeat, KnowsStale, KnowsHeld, Image, Written,
       InIteration, ApiPc, WorkerPc, FinishPc
  <2>4. /\ \A q \in Procs \ {p} : pc'[q] = pc[q]
        /\ \A q \in Workers \ {p} : held'[q] = held[q]
    BY <1>26 DEF FinishEventFails, Goto
  <2> QED
    BY <2>1, <2>2, <2>3, <2>4, SerialKept
<1>27. ASSUME NEW p \in Procs, FailSave(p)
      PROVE  Serial' /\ LifecycleStep
  <2> DEFINE k == cur[p]  row == Cleared(mem[p][k], "FAILED")
  <2>1. Alone(p) /\ k \in Jobs
    BY <1>27, BusyAlone DEF FailSave, InIteration, ApiPc, WorkerPc, FinishPc
  <2>2. Save(k, row)
    BY <1>27 DEF FailSave
  <2>3. row \in Row /\ RowSound(row) /\ Lived(k, row)
    <3>1. jobs[k].attempts = mem[p][k].attempts /\ jobs[k].status \in Outcome /\ mem[p][k] \in Row
      BY <1>27, <2>1 DEF FailSave, Serial, KnowsFinished, Written, Image
    <3> QED
      BY <3>1, ClearedSound DEF Status, Terminal, Outcome, Lived
  <2>4. RowsSound' /\ LifecycleStep
    BY <2>1, <2>2, <2>3, SaveSound, SaveLives DEF Serial
  <2>5. jobs'[k] = row /\ \A j1 \in Jobs \ {k} : jobs'[j1] = jobs[j1]
    BY <2>1, <2>2, <2>3, SaveType
  <2>6. KnowsP(p)'
    BY <1>27, <2>1, <2>3, <2>5 DEF FailSave, Serial, Goto, SetCur, Load,
       KnowsP, KnowsQueued, KnowsRunning, KnowsFinished, KnowsHeartbeat, KnowsStale, KnowsHeld, Image, Written,
       InIteration, ApiPc, WorkerPc, FinishPc
  <2>7. /\ \A q \in Procs \ {p} : pc'[q] = pc[q]
        /\ \A q \in Workers \ {p} : held'[q] = held[q]
    BY <1>27 DEF FailSave, Goto
  <2> QED
    BY <2>1, <2>4, <2>6, <2>7, SerialKept
<1>28. ASSUME NEW p \in Procs, FailEvent(p)
      PROVE  Serial' /\ LifecycleStep
  <2>1. Alone(p)
    BY <1>28, BusyAlone DEF FailEvent, Finished
  <2>2. RowsSound' /\ LifecycleStep
    BY <1>28, JobsKept DEF FailEvent, Finished, Serial, table
  <2>3. KnowsP(p)'
    BY <1>28, <2>1 DEF FailEvent, Finished, Serial, table, Goto, SetCur, Load,
       KnowsP, KnowsQueued, KnowsRunning, KnowsFinished, KnowsHeartbeat, KnowsStale, KnowsHeld, Image, Written,
       InIteration, ApiPc, WorkerPc, FinishPc
  <2>4. /\ \A q \in Procs \ {p} : pc'[q] = pc[q]
        /\ \A q \in Workers \ {p} : held'[q] = held[q]
    BY <1>28 DEF FailEvent, Finished, Goto
  <2> QED
    BY <2>1, <2>2, <2>3, <2>4, SerialKept
<1>29. ASSUME NEW j \in Jobs, LeaseExpires(j)
      PROVE  Serial' /\ LifecycleStep
  <2> DEFINE row == [jobs[j] EXCEPT !.lease = "expired"]
  <2>1. /\ jobs[j].lease = "live" /\ jobs[j] \in Row /\ RowSound(jobs[j])
        /\ jobs[j].status = "RUNNING" /\ jobs[j].owner # None
    BY <1>29 DEF LeaseExpires, Serial, RowsSound, RowSound
  <2>2. /\ row \in Row /\ RowSound(row) /\ row.attempts = jobs[j].attempts
        /\ row.status = jobs[j].status /\ row.owner = jobs[j].owner
    BY <2>1, LeaseSet
  <2>3. Save(j, row)
    BY <1>29, <2>1 DEF LeaseExpires, Save
  <2>4. RowsSound' /\ LifecycleStep
    BY <2>2, <2>3, SaveSound, SaveLives DEF Serial, Lived
  <2>5. jobs'[j] = row /\ \A k \in Jobs \ {j} : jobs'[k] = jobs[k]
    BY <2>2, <2>3, SaveType
  <2>6. /\ \A k \in Jobs : /\ jobs'[k].status = jobs[k].status /\ jobs'[k].attempts = jobs[k].attempts
                           /\ jobs'[k].owner = jobs[k].owner
        /\ \A k \in Jobs : jobs[k].lease # "live" => jobs'[k] = jobs[k]
    BY <2>1, <2>2, <2>5
  <2>7. \A k \in Jobs : jobs[k].status = "QUEUED" => jobs'[k] = jobs[k]
    BY <2>1, <2>5
  <2>8. UNCHANGED local
    BY <1>29 DEF LeaseExpires
  <2>9. \A p \in Procs : KnowsQueued(p)' /\ KnowsRunning(p)' /\ KnowsFinished(p)'
    <3>1. SUFFICES ASSUME NEW p \in Procs
                   PROVE  KnowsQueued(p)' /\ KnowsRunning(p)' /\ KnowsFinished(p)'
      OBVIOUS
    <3>2. pc'[p] = pc[p] /\ Image(p)' = Image(p) /\ cur'[p] = cur[p]
      BY <2>8 DEF local, Image
    <3>3. pc[p] \in InIteration => cur[p] \in Jobs
      OBVIOUS
    <3>4. KnowsQueued(p)'
      BY <2>7, <3>2, <3>3 DEF Serial, KnowsQueued, Written, InIteration, ApiPc, WorkerPc, FinishPc
    <3>5. KnowsRunning(p)'
      BY <2>6, <3>2, <3>3 DEF Serial, KnowsRunning, Written, InIteration, ApiPc, WorkerPc, FinishPc
    <3>6. KnowsFinished(p)'
      BY <2>6, <3>2, <3>3 DEF Serial, KnowsFinished, Written, InIteration, ApiPc, WorkerPc, FinishPc
    <3> QED
      BY <3>4, <3>5, <3>6
  <2>10. \A w \in Workers : KnowsHeartbeat(w)' /\ KnowsStale(w)' /\ KnowsHeld(w)'
    <3>1. SUFFICES ASSUME NEW w \in Workers
                   PROVE  KnowsHeartbeat(w)' /\ KnowsStale(w)' /\ KnowsHeld(w)'
      OBVIOUS
    <3>2. /\ w \in Procs /\ pc'[w] = pc[w] /\ cur'[w] = cur[w] /\ mem'[w] = mem[w]
          /\ todo'[w] = todo[w] /\ held'[w] = held[w]
      BY <2>8, Shapes DEF local
    <3>3. /\ pc[w] \in InIteration => cur[w] \in Jobs
          /\ todo[w] \subseteq Jobs /\ held[w] \subseteq Jobs
      BY <3>2, Shapes
    <3>4. KnowsHeartbeat(w) /\ KnowsStale(w) /\ KnowsHeld(w)
      BY DEF Serial
    <3>5. KnowsHeartbeat(w)'
      BY <2>6, <3>2, <3>3, <3>4 DEF KnowsHeartbeat, Written, InIteration, ApiPc, WorkerPc, FinishPc
    <3>6. KnowsStale(w)'
      <4>1. \A k \in todo[w] : jobs[k].lease = "expired" => jobs'[k] = jobs[k]
        BY <2>6, <3>3
      <4> QED
        BY <3>2, <3>4, <4>1 DEF KnowsStale
    <3>7. KnowsHeld(w)'
      <4>1. \A k \in held[w] : /\ jobs'[k].status = jobs[k].status /\ jobs'[k].attempts = jobs[k].attempts
                               /\ jobs'[k].owner = jobs[k].owner
        BY <2>6, <3>3
      <4> QED
        BY <3>2, <3>4, <4>1 DEF KnowsHeld
    <3> QED
      BY <3>5, <3>6, <3>7
  <2> QED
    BY <2>4, <2>8, <2>9, <2>10 DEF Serial, OneBusy, local
<1>30. ASSUME NEW j \in Jobs, BecomesDue(j)
      PROVE  Serial' /\ LifecycleStep
  BY <1>30, JobsKept DEF BecomesDue, local, Serial, OneBusy, KnowsQueued, KnowsRunning, KnowsFinished,
     KnowsHeartbeat, KnowsStale, KnowsHeld, Written, Image
<1>31. ASSUME NEW p \in Procs, Crash(p)
      PROVE  Serial' /\ LifecycleStep
  <2>1. Alone(p)
    BY <1>31, BusyAlone DEF Crash
  <2>2. RowsSound' /\ LifecycleStep
    BY <1>31, JobsKept DEF Crash, Serial, table
  <2>3. pc'[p] = "idle" /\ (p \in Workers => held'[p] = {})
    BY <1>31 DEF Crash, Goto
  <2>4. /\ \A q \in Procs \ {p} : pc'[q] = pc[q]
        /\ \A q \in Workers \ {p} : held'[q] = held[q]
    BY <1>31 DEF Crash, Goto
  <2>5. KnowsP(p)'
    BY <2>3 DEF KnowsP, KnowsQueued, KnowsRunning, KnowsFinished, KnowsHeartbeat, KnowsStale, KnowsHeld
  <2> QED
    BY <2>1, <2>2, <2>4, <2>5, SerialKept
<1>32. CASE UNCHANGED vars
  BY <1>32, JobsKept DEF vars, Serial, OneBusy, KnowsQueued, KnowsRunning, KnowsFinished,
     KnowsHeartbeat, KnowsStale, KnowsHeld, Written, Image
<1> QED
  BY <1>1, <1>2, <1>3, <1>4, <1>5, <1>6, <1>7, <1>8, <1>9, <1>10, <1>11, <1>12, <1>13, <1>14, <1>15, <1>16, <1>17, <1>18, <1>19, <1>20, <1>21, <1>22, <1>23, <1>24, <1>25, <1>26, <1>27, <1>28, <1>29, <1>30, <1>31, <1>32
  DEF Next, ApiStart, ApiStep, WorkerStep, Finish, Environment, Procs

\* Nothing runs, holds or is known at the start.
LEMMA InitSerial == Init => Serial /\ Lifecycle!LifecycleInit
<1>1. SUFFICES ASSUME Init
               PROVE  Serial /\ Lifecycle!LifecycleInit
  OBVIOUS
<1>2. \A j \in Jobs : RowSound(jobs[j]) /\ jobs[j].status = "ABSENT" /\ jobs[j].attempts = 0
  BY <1>1 DEF Init, NoRow, RowSound
<1>3. Lifecycle!LifecycleInit
  BY <1>1, <1>2 DEF Lifecycle!LifecycleInit
<1>4. \A p \in Procs : pc[p] = "idle" /\ (p \in Workers => held[p] = {})
  BY <1>1 DEF Init
<1>5. \A p \in Procs : KnowsP(p)
  BY <1>4 DEF KnowsP, KnowsQueued, KnowsRunning, KnowsFinished, KnowsHeartbeat, KnowsStale, KnowsHeld
<1> QED
  BY <1>2, <1>3, <1>4, <1>5 DEF Serial, RowsSound, OneBusy, KnowsP, Procs

-----------------------------------------------------------------------------
\* When the operator starts an operation only while none runs, a process that
\* writes a row still knows what the row is: the image it read is the row.
THEOREM SerialInvariant == OneAtATime /\ Spec => []Serial
<1>1. SUFFICES ASSUME OneAtATime
               PROVE  Spec => []Serial
  OBVIOUS
<1>2. TypeOK /\ AttemptsInv /\ Serial /\ [Next]_vars => Serial'
  BY <1>1, StepSerial
<1> QED
  BY <1>2, InitSerial, TypeCorrect, AttemptsInvariant, PTL DEF Spec

\* Then a lease or an owner is left only on a running job, which a later
\* recovery therefore finds.
THEOREM LeaseMeansRunningHolds == OneAtATime /\ Spec => []LeaseMeansRunning
<1>1. Serial => LeaseMeansRunning
  BY DEF Serial, RowsSound, RowSound, LeaseMeansRunning
<1> QED
  BY <1>1, SerialInvariant, PTL

\* Then every statement of every operation, crash and failed event moves at
\* most one job, along the life the queue promises: no attempt without a lease,
\* no way back from an ended job but to FAILED.
THEOREM LifecycleImplemented == OneAtATime /\ Spec => ImplementsLifecycle
<1>1. SUFFICES ASSUME OneAtATime
               PROVE  Spec => Lifecycle!LifecycleSpec
  BY DEF ImplementsLifecycle
<1>2. TypeOK /\ AttemptsInv /\ Serial /\ [Next]_vars => [Lifecycle!LifecycleNext]_Lifecycle!lifecycle
  BY <1>1, StepSerial DEF LifecycleStep
<1>3. Spec => []Serial
  BY <1>1, SerialInvariant, PTL
<1> QED
  BY <1>2, <1>3, InitSerial, TypeCorrect, AttemptsInvariant, PTL DEF Spec, Lifecycle!LifecycleSpec

-----------------------------------------------------------------------------
(***************************************************************************)
(* The audit trail, under every interleaving: whoever saved the status a   *)
(* finished job now has is still about to append its event, has appended   *)
(* it, or has died.                                                        *)
(***************************************************************************)
\* Process p will append the event of the status job j has now.
Accounts(p, j) ==
    /\ cur[p] = j
    /\ \/ pc[p] = "cancel_event" /\ jobs[j].status = "CANCELLED"
       \/ pc[p] \in {"recover_event", "fail_event"} /\ jobs[j].status = "FAILED"
       \/ pc[p] = "finish_event" /\ jobs[j].status = mem[p][j].status
       \/ pc[p] = "fail_save"

Settled(j) ==
    \/ jobs[j].status \notin Terminal
    \/ HasFinalEvent(j)
    \/ \E p \in Procs : Accounts(p, j)

Owed == {j \in Jobs : ~Settled(j)}

\* What is saved before finish_event is an outcome.
SavedOutcome == \A p \in Procs : pc[p] = "finish_event" => mem[p][cur[p]].status \in Outcome

\* The inductive invariant.
AuditInv == SavedOutcome /\ IsFiniteSet(Owed) /\ Cardinality(Owed) <= faults

-----------------------------------------------------------------------------
(***************************************************************************)
(* What a step of one process does to the trail, by its shape.             *)
(***************************************************************************)
\* Where a process owes an event.
AccountPc == {"cancel_event", "recover_event", "fail_event", "finish_event", "fail_save"}

\* The other processes are where they were, with what they hold.
Apart(p) == \A q \in Procs \ {p} : pc'[q] = pc[q] /\ cur'[q] = cur[q] /\ mem'[q] = mem[q]

\* Every job that was settled is, and nothing was paid for it.
Kept == SavedOutcome' /\ UNCHANGED faults /\ \A k \in Jobs : Settled(k) => Settled(k)'

\* A step of a process that owes no event, and saves no row.
Calm(p) ==
    /\ Apart(p) /\ UNCHANGED <<jobs, faults>>
    /\ pc[p] \notin AccountPc /\ pc'[p] # "finish_event"
    /\ \A k \in Jobs : events[k] \subseteq events'[k]

\* The outcome saved is kept with the process that keeps it.
LEMMA SavedOutcomeKept ==
  ASSUME SavedOutcome, NEW p \in Procs, Apart(p),
         pc'[p] = "finish_event" => mem'[p][cur'[p]].status \in Outcome
  PROVE  SavedOutcome'
  BY DEF SavedOutcome, Apart

\* A job whose status stays is settled as long as p does not drop what it owes.
LEMMA SettledKept ==
  ASSUME NEW k \in Jobs, Settled(k), NEW p \in Procs, Apart(p),
         jobs'[k].status = jobs[k].status, events[k] \subseteq events'[k],
         Accounts(p, k) => Accounts(p, k)' \/ HasFinalEvent(k)'
  PROVE  Settled(k)'
<1>1. CASE jobs[k].status \notin Terminal
  BY <1>1 DEF Settled
<1>2. CASE HasFinalEvent(k)
  BY <1>2 DEF Settled, HasFinalEvent
<1>3. ASSUME NEW q \in Procs, Accounts(q, k)
      PROVE  Settled(k)'
  <2>1. CASE q = p
    BY <1>3, <2>1 DEF Settled
  <2>2. CASE q # p
    BY <1>3, <2>2 DEF Settled, Accounts, Apart
  <2> QED
    BY <2>1, <2>2
<1> QED
  BY <1>1, <1>2, <1>3 DEF Settled

\* A calm step drops nothing.
LEMMA CalmKeeps ==
  ASSUME SavedOutcome, NEW p \in Procs, Calm(p)
  PROVE  Kept
<1>1. SavedOutcome'
  BY SavedOutcomeKept DEF Calm
<1>2. \A k \in Jobs : ~Accounts(p, k)
  BY DEF Calm, Accounts, AccountPc
<1> QED
  BY <1>1, <1>2, SettledKept DEF Calm, Kept

\* A process appends the event it owes: the job of its iteration has a final
\* event if its status is the one the event is about.
LEMMA AppendKeeps ==
  ASSUME TypeOK, SavedOutcome, NEW p \in Procs, Apart(p), UNCHANGED <<jobs, faults>>,
         NEW j \in Jobs, cur[p] = j,
         NEW T \in SUBSET EventType, AppendEvents(j, T), pc'[p] # "finish_event",
         Accounts(p, j) /\ T \subseteq events'[j] => HasFinalEvent(j)'
  PROVE  Kept
<1>1. SavedOutcome'
  BY SavedOutcomeKept
<1>2. (\A k \in Jobs : events[k] \subseteq events'[k]) /\ T \subseteq events'[j]
  BY DEF AppendEvents, TypeOK
<1>3. \A k \in Jobs : Accounts(p, k) => k = j
  BY DEF Accounts
<1>4. \A k \in Jobs : Accounts(p, k) => HasFinalEvent(k)'
  BY <1>2, <1>3
<1> QED
  BY <1>1, <1>2, <1>4, SettledKept DEF Kept

\* A process saves a row: one of a status that needs no event, or of one whose
\* event it now owes.
LEMMA SaveKeeps ==
  ASSUME TypeOK, SavedOutcome, NEW p \in Procs, Apart(p), UNCHANGED <<events, faults>>,
         NEW j \in Jobs, NEW row \in Row, Save(j, row),
         row.status \notin Terminal \/ Accounts(p, j)',
         \A k \in Jobs \ {j} : ~Accounts(p, k),
         pc'[p] = "finish_event" => mem'[p][cur'[p]].status \in Outcome
  PROVE  Kept
<1>1. SavedOutcome'
  BY SavedOutcomeKept
<1>2. jobs'[j] = row /\ \A k \in Jobs \ {j} : jobs'[k] = jobs[k]
  BY SaveType
<1>3. Settled(j)'
  BY <1>2 DEF Settled
<1>4. ASSUME NEW k \in Jobs \ {j}, Settled(k)
      PROVE  Settled(k)'
  BY <1>2, <1>4, SettledKept
<1> QED
  BY <1>1, <1>3, <1>4 DEF Kept

\* A step that saves the statuses as they are and moves no process.
LEMMA EnvironmentKeeps ==
  ASSUME SavedOutcome, UNCHANGED <<pc, cur, mem, events, faults>>,
         \A k \in Jobs : jobs'[k].status = jobs[k].status
  PROVE  Kept
  BY DEF Kept, SavedOutcome, Settled, HasFinalEvent, Accounts

-----------------------------------------------------------------------------
(***************************************************************************)
(* The inductive step: every action but a crash and a failed event keeps   *)
(* what is settled.                                                        *)
(***************************************************************************)
\* One case for each action of Next.
LEMMA StepKept ==
  ASSUME TypeOK, SavedOutcome, [Next]_vars
  PROVE  Kept \/ \E p \in Procs : Crash(p) \/ FinishEventFails(p)
<1> USE Shapes
<1>1. ASSUME NEW j \in Jobs, CreateSave(j)
      PROVE  Kept
  <2>0. PICK k \in Jobs : k = j
    BY <1>1 DEF CreateSave, InIteration, ApiPc, WorkerPc, FinishPc
  <2> DEFINE row == WithStatus(NoRow, "QUEUED")
  <2>1. Save(k, row)
    BY <1>1, <2>0 DEF CreateSave
  <2>2. row \in Row /\ row.status = "QUEUED"
    BY NoRowType, StatusType DEF Status
  <2>3. Apart(Api) /\ UNCHANGED <<events, faults>>
    BY <1>1 DEF CreateSave, Goto, SetCur, Load, Apart
  <2>4. \A j1 \in Jobs \ {k} : ~Accounts(Api, j1)
    BY <1>1, <2>0 DEF CreateSave, Accounts, CanStart
  <2>5. row.status \notin Terminal /\ pc'[Api] # "finish_event"
    BY <1>1, <2>2 DEF CreateSave, Goto, Terminal
  <2> HIDE DEF row
  <2> QED
    BY <2>1, <2>2, <2>3, <2>4, <2>5, SaveKeeps
<1>2. ASSUME CreateEvent
      PROVE  Kept
  <2>1. Apart(Api)
    BY <1>2 DEF CreateEvent, Goto, SetCur, Load, Apart, table
  <2>2. \A k \in Jobs : events[k] \subseteq events'[k]
    BY <1>2 DEF CreateEvent, AppendEvents, table, TypeOK
  <2>3. pc[Api] \notin AccountPc /\ pc'[Api] # "finish_event" /\ UNCHANGED <<jobs, faults>>
    BY <1>2 DEF CreateEvent, Goto, CanStart, AccountPc, table
  <2> QED
    BY <2>1, <2>2, <2>3, CalmKeeps DEF Calm
<1>3. ASSUME NEW j \in Jobs, CancelGet(j)
      PROVE  Kept
  <2>1. Apart(Api)
    BY <1>3 DEF CancelGet, Goto, SetCur, Load, Apart, table
  <2>2. \A k \in Jobs : events[k] \subseteq events'[k]
    BY <1>3 DEF CancelGet, AppendEvents, table, TypeOK
  <2>3. pc[Api] \notin AccountPc /\ pc'[Api] # "finish_event" /\ UNCHANGED <<jobs, faults>>
    BY <1>3 DEF CancelGet, Goto, CanStart, AccountPc, table
  <2> QED
    BY <2>1, <2>2, <2>3, CalmKeeps DEF Calm
<1>4. ASSUME CancelSave
      PROVE  Kept
  <2>0. PICK k \in Jobs : k = cur[Api]
    BY <1>4 DEF CancelSave, InIteration, ApiPc, WorkerPc, FinishPc
  <2> DEFINE row == WithStatus(mem[Api][k], "CANCELLED")
  <2>1. Save(k, row)
    BY <1>4, <2>0 DEF CancelSave
  <2>2. row \in Row /\ row.status = "CANCELLED"
    BY <2>1, StatusType DEF Status, Terminal
  <2>3. Apart(Api) /\ UNCHANGED <<events, faults>>
    BY <1>4 DEF CancelSave, Goto, SetCur, Load, Apart
  <2>4. \A j1 \in Jobs \ {k} : ~Accounts(Api, j1)
    BY <1>4, <2>0 DEF CancelSave, Accounts, CanStart
  <2>5. Accounts(Api, k)' /\ pc'[Api] # "finish_event"
    BY <1>4, <2>0, <2>1, <2>2, SaveType DEF CancelSave, Goto, SetCur, Accounts
  <2> HIDE DEF row
  <2> QED
    BY <2>1, <2>2, <2>3, <2>4, <2>5, SaveKeeps
<1>5. ASSUME CancelEvent
      PROVE  Kept
  <2>0. PICK k \in Jobs : cur[Api] = k
    BY <1>5 DEF CancelEvent, InIteration, ApiPc, WorkerPc, FinishPc
  <2> DEFINE T == {"JOB_CANCELLED"}
  <2>1. Apart(Api) /\ UNCHANGED <<jobs, faults>>
    BY <1>5 DEF CancelEvent, Goto, SetCur, Load, Apart
  <2>2. pc'[Api] # "finish_event" /\ AppendEvents(k, T)
    BY <1>5, <2>0 DEF CancelEvent, Goto
  <2>3. T \in SUBSET EventType
    BY DEF EventType
  <2>4. Accounts(Api, k) /\ T \subseteq events'[k] => HasFinalEvent(k)'
    BY <1>5, <2>0, <2>1 DEF CancelEvent, Accounts, HasFinalEvent
  <2> HIDE DEF T
  <2> QED
    BY <2>0, <2>1, <2>2, <2>3, <2>4, AppendKeeps
<1>6. ASSUME NEW j \in Jobs, RunJob(j)
      PROVE  Kept
  <2>1. Apart(Api)
    BY <1>6 DEF RunJob, RunStart, Goto, SetCur, Load, Apart, table
  <2>2. \A k \in Jobs : events[k] \subseteq events'[k]
    BY <1>6 DEF RunJob, RunStart, AppendEvents, table, TypeOK
  <2>3. pc[Api] \notin AccountPc /\ pc'[Api] # "finish_event" /\ UNCHANGED <<jobs, faults>>
    BY <1>6 DEF RunJob, RunStart, Goto, CanStart, AccountPc, table
  <2> QED
    BY <2>1, <2>2, <2>3, CalmKeeps DEF Calm
<1>7. ASSUME RunPending
      PROVE  Kept
  <2>1. Apart(Api)
    BY <1>7 DEF RunPending, RunStart, Goto, SetCur, Load, Apart, table
  <2>2. \A k \in Jobs : events[k] \subseteq events'[k]
    BY <1>7 DEF RunPending, RunStart, AppendEvents, table, TypeOK
  <2>3. pc[Api] \notin AccountPc /\ pc'[Api] # "finish_event" /\ UNCHANGED <<jobs, faults>>
    BY <1>7 DEF RunPending, RunStart, Goto, CanStart, AccountPc, table
  <2> QED
    BY <2>1, <2>2, <2>3, CalmKeeps DEF Calm
<1>8. ASSUME NEW j \in Jobs, RunGet(j)
      PROVE  Kept
  <2>1. Apart(Api)
    BY <1>8 DEF RunGet, Goto, SetCur, Load, Apart, table
  <2>2. \A k \in Jobs : events[k] \subseteq events'[k]
    BY <1>8 DEF RunGet, AppendEvents, table, TypeOK
  <2>3. pc[Api] \notin AccountPc /\ pc'[Api] # "finish_event" /\ UNCHANGED <<jobs, faults>>
    BY <1>8 DEF RunGet, Goto, CanStart, AccountPc, table
  <2> QED
    BY <2>1, <2>2, <2>3, CalmKeeps DEF Calm
<1>9. ASSUME RunSave
      PROVE  Kept
  <2>0. PICK k \in Jobs : k = cur[Api]
    BY <1>9 DEF RunSave, InIteration, ApiPc, WorkerPc, FinishPc
  <2> DEFINE row == Cleared(mem[Api][k], "RUNNING")
  <2>1. Save(k, row)
    BY <1>9, <2>0 DEF RunSave
  <2>2. row \in Row /\ row.status = "RUNNING"
    BY <2>1, ClearedType DEF Status
  <2>3. Apart(Api) /\ UNCHANGED <<events, faults>>
    BY <1>9 DEF RunSave, Goto, SetCur, Load, Apart
  <2>4. \A j1 \in Jobs \ {k} : ~Accounts(Api, j1)
    BY <1>9, <2>0 DEF RunSave, Accounts, CanStart
  <2>5. row.status \notin Terminal /\ pc'[Api] # "finish_event"
    BY <1>9, <2>2 DEF RunSave, Goto, Terminal
  <2> HIDE DEF row
  <2> QED
    BY <2>1, <2>2, <2>3, <2>4, <2>5, SaveKeeps
<1>10. ASSUME RunEvent
      PROVE  Kept
  <2>1. Apart(Api)
    BY <1>10 DEF RunEvent, Goto, SetCur, Load, Apart, table
  <2>2. \A k \in Jobs : events[k] \subseteq events'[k]
    BY <1>10 DEF RunEvent, AppendEvents, table, TypeOK
  <2>3. pc[Api] \notin AccountPc /\ pc'[Api] # "finish_event" /\ UNCHANGED <<jobs, faults>>
    BY <1>10 DEF RunEvent, Goto, CanStart, AccountPc, table
  <2> QED
    BY <2>1, <2>2, <2>3, CalmKeeps DEF Calm
<1>11. ASSUME RunDone
      PROVE  Kept
  <2>1. Apart(Api)
    BY <1>11 DEF RunDone, Goto, SetCur, Load, Apart, table
  <2>2. \A k \in Jobs : events[k] \subseteq events'[k]
    BY <1>11 DEF RunDone, AppendEvents, table, TypeOK
  <2>3. pc[Api] \notin AccountPc /\ pc'[Api] # "finish_event" /\ UNCHANGED <<jobs, faults>>
    BY <1>11 DEF RunDone, Goto, CanStart, AccountPc, table
  <2> QED
    BY <2>1, <2>2, <2>3, CalmKeeps DEF Calm
<1>12. ASSUME NEW w \in Workers, NEW only \in BOOLEAN, WorkerStart(w, only)
      PROVE  Kept
  <2>1. Apart(w)
    BY <1>12 DEF WorkerStart, Goto, SetCur, Load, Apart, table
  <2>2. \A k \in Jobs : events[k] \subseteq events'[k]
    BY <1>12 DEF WorkerStart, AppendEvents, table, TypeOK
  <2>3. pc[w] \notin AccountPc /\ pc'[w] # "finish_event" /\ UNCHANGED <<jobs, faults>>
    BY <1>12 DEF WorkerStart, Goto, CanStart, AccountPc, table
  <2> QED
    BY <2>1, <2>2, <2>3, CalmKeeps DEF Calm
<1>13. ASSUME NEW w \in Workers, NEW j \in Jobs, RecoverSave(w, j)
      PROVE  Kept
  <2>0. PICK k \in Jobs : k = j
    BY <1>13 DEF RecoverSave, InIteration, ApiPc, WorkerPc, FinishPc
  <2> DEFINE row == Cleared(mem[w][j], IF AttemptsLeft(j, mem[w][j]) THEN "QUEUED" ELSE "FAILED")
  <2>1. Save(k, row)
    BY <1>13, <2>0 DEF RecoverSave
  <2>2. row \in Row /\ row.status \in {"QUEUED", "FAILED"}
    BY <2>1, ClearedType DEF Status, Terminal
  <2>3. Apart(w) /\ UNCHANGED <<events, faults>>
    BY <1>13 DEF RecoverSave, Goto, SetCur, Load, Apart
  <2>4. \A j1 \in Jobs \ {k} : ~Accounts(w, j1)
    BY <1>13, <2>0 DEF RecoverSave, Accounts, CanStart
  <2>5. (row.status \notin Terminal \/ Accounts(w, k)') /\ pc'[w] # "finish_event"
    BY <1>13, <2>0, <2>1, <2>2, SaveType DEF RecoverSave, Goto, SetCur, Accounts, Terminal
  <2> HIDE DEF row
  <2> QED
    BY <2>1, <2>2, <2>3, <2>4, <2>5, SaveKeeps
<1>14. ASSUME NEW w \in Workers, RecoverEvent(w)
      PROVE  Kept
  <2>0. PICK k \in Jobs : cur[w] = k
    BY <1>14 DEF RecoverEvent, InIteration, ApiPc, WorkerPc, FinishPc
  <2> DEFINE T == {"JOB_STALE_RECOVERED"}
  <2>1. Apart(w) /\ UNCHANGED <<jobs, faults>>
    BY <1>14 DEF RecoverEvent, Goto, SetCur, Load, Apart
  <2>2. pc'[w] # "finish_event" /\ AppendEvents(k, T)
    BY <1>14, <2>0 DEF RecoverEvent, Goto
  <2>3. T \in SUBSET EventType
    BY DEF EventType
  <2>4. Accounts(w, k) /\ T \subseteq events'[k] => HasFinalEvent(k)'
    BY <1>14, <2>0, <2>1 DEF RecoverEvent, Accounts, HasFinalEvent
  <2> HIDE DEF T
  <2> QED
    BY <2>0, <2>1, <2>2, <2>3, <2>4, AppendKeeps
<1>15. ASSUME NEW w \in Workers, RecoverDone(w)
      PROVE  Kept
  <2>1. Apart(w)
    BY <1>15 DEF RecoverDone, Goto, SetCur, Load, Apart, table
  <2>2. \A k \in Jobs : events[k] \subseteq events'[k]
    BY <1>15 DEF RecoverDone, AppendEvents, table, TypeOK
  <2>3. pc[w] \notin AccountPc /\ pc'[w] # "finish_event" /\ UNCHANGED <<jobs, faults>>
    BY <1>15 DEF RecoverDone, Goto, CanStart, AccountPc, table
  <2> QED
    BY <2>1, <2>2, <2>3, CalmKeeps DEF Calm
<1>16. ASSUME NEW w \in Workers, NEW j \in Jobs, LeaseRead(w, j)
      PROVE  Kept
  <2>1. Apart(w)
    BY <1>16 DEF LeaseRead, Goto, SetCur, Load, Apart, table
  <2>2. \A k \in Jobs : events[k] \subseteq events'[k]
    BY <1>16 DEF LeaseRead, AppendEvents, table, TypeOK
  <2>3. pc[w] \notin AccountPc /\ pc'[w] # "finish_event" /\ UNCHANGED <<jobs, faults>>
    BY <1>16 DEF LeaseRead, Goto, CanStart, AccountPc, table
  <2> QED
    BY <2>1, <2>2, <2>3, CalmKeeps DEF Calm
<1>17. ASSUME NEW w \in Workers, LeaseWrite(w)
      PROVE  Kept
  <2>0. PICK k \in Jobs : k = cur[w]
    BY <1>17 DEF LeaseWrite, InIteration, ApiPc, WorkerPc, FinishPc
  <2> DEFINE row == LeasedRow(w, k)
  <2>1. Save(k, row)
    BY <1>17, <2>0 DEF LeaseWrite
  <2>2. row \in Row /\ row.status = "RUNNING"
    BY <2>1, LeasedRowType
  <2>3. Apart(w) /\ UNCHANGED <<events, faults>>
    BY <1>17 DEF LeaseWrite, Goto, SetCur, Load, Apart
  <2>4. \A j1 \in Jobs \ {k} : ~Accounts(w, j1)
    BY <1>17, <2>0 DEF LeaseWrite, Accounts, CanStart
  <2>5. row.status \notin Terminal /\ pc'[w] # "finish_event"
    BY <1>17, <2>2 DEF LeaseWrite, Goto, Terminal
  <2> HIDE DEF row
  <2> QED
    BY <2>1, <2>2, <2>3, <2>4, <2>5, SaveKeeps
<1>18. ASSUME NEW w \in Workers, LeaseDone(w)
      PROVE  Kept
  <2>1. Apart(w)
    BY <1>18 DEF LeaseDone, Goto, SetCur, Load, Apart, table
  <2>2. \A k \in Jobs : events[k] \subseteq events'[k]
    BY <1>18 DEF LeaseDone, AppendEvents, table, TypeOK
  <2>3. pc[w] \notin AccountPc /\ pc'[w] # "finish_event" /\ UNCHANGED <<jobs, faults>>
    BY <1>18 DEF LeaseDone, Goto, CanStart, AccountPc, table
  <2> QED
    BY <2>1, <2>2, <2>3, CalmKeeps DEF Calm
<1>19. ASSUME NEW w \in Workers, NEW j \in Jobs, WorkNext(w, j)
      PROVE  Kept
  <2>1. Apart(w)
    BY <1>19 DEF WorkNext, Goto, SetCur, Load, Apart, table
  <2>2. \A k \in Jobs : events[k] \subseteq events'[k]
    BY <1>19 DEF WorkNext, AppendEvents, table, TypeOK
  <2>3. pc[w] \notin AccountPc /\ pc'[w] # "finish_event" /\ UNCHANGED <<jobs, faults>>
    BY <1>19 DEF WorkNext, Goto, CanStart, AccountPc, table
  <2> QED
    BY <2>1, <2>2, <2>3, CalmKeeps DEF Calm
<1>20. ASSUME NEW w \in Workers, HeartbeatWrite(w)
      PROVE  Kept
  <2> DEFINE k == cur[w]  row == [jobs[k] EXCEPT !.lease = "live"]
  <2>1. k \in Jobs /\ Save(k, row)
    BY <1>20 DEF HeartbeatWrite, InIteration, ApiPc, WorkerPc, FinishPc
  <2>2. row \in Row /\ row.status = jobs[k].status
    BY <2>1, LeaseType
  <2>3. \A i \in Jobs : jobs'[i].status = jobs[i].status
    BY <2>1, <2>2, SaveType
  <2>4. Apart(w) /\ UNCHANGED <<events, faults>> /\ pc'[w] # "finish_event"
    BY <1>20 DEF HeartbeatWrite, Goto, Load, Apart
  <2>5. \A i \in Jobs : ~Accounts(w, i)
    BY <1>20 DEF HeartbeatWrite, Accounts
  <2>6. SavedOutcome'
    BY <2>4, SavedOutcomeKept
  <2> QED
    BY <2>3, <2>4, <2>5, <2>6, SettledKept DEF Kept
<1>21. ASSUME NEW w \in Workers, Started(w)
      PROVE  Kept
  <2>1. Apart(w)
    BY <1>21 DEF Started, Goto, SetCur, Load, Apart, table
  <2>2. \A k \in Jobs : events[k] \subseteq events'[k]
    BY <1>21 DEF Started, AppendEvents, table, TypeOK
  <2>3. pc[w] \notin AccountPc /\ pc'[w] # "finish_event" /\ UNCHANGED <<jobs, faults>>
    BY <1>21 DEF Started, Goto, CanStart, AccountPc, table
  <2> QED
    BY <2>1, <2>2, <2>3, CalmKeeps DEF Calm
<1>22. ASSUME NEW w \in Workers, Release(w)
      PROVE  Kept
  <2>1. Apart(w)
    BY <1>22 DEF Release, Goto, SetCur, Load, Apart, table
  <2>2. \A k \in Jobs : events[k] \subseteq events'[k]
    BY <1>22 DEF Release, AppendEvents, table, TypeOK
  <2>3. pc[w] \notin AccountPc /\ pc'[w] # "finish_event" /\ UNCHANGED <<jobs, faults>>
    BY <1>22 DEF Release, Goto, CanStart, AccountPc, table
  <2> QED
    BY <2>1, <2>2, <2>3, CalmKeeps DEF Calm
<1>23. ASSUME NEW w \in Workers, WorkDone(w)
      PROVE  Kept
  <2>1. Apart(w)
    BY <1>23 DEF WorkDone, Goto, SetCur, Load, Apart, table
  <2>2. \A k \in Jobs : events[k] \subseteq events'[k]
    BY <1>23 DEF WorkDone, AppendEvents, table, TypeOK
  <2>3. pc[w] \notin AccountPc /\ pc'[w] # "finish_event" /\ UNCHANGED <<jobs, faults>>
    BY <1>23 DEF WorkDone, Goto, CanStart, AccountPc, table
  <2> QED
    BY <2>1, <2>2, <2>3, CalmKeeps DEF Calm
<1>24. ASSUME NEW p \in Procs, NEW s \in Outcome, FinishSave(p, s)
      PROVE  Kept
  <2>0. PICK k \in Jobs : k = cur[p]
    BY <1>24 DEF FinishSave, InIteration, ApiPc, WorkerPc, FinishPc
  <2> DEFINE row == Cleared(mem[p][k], s)
  <2>1. Save(k, row)
    BY <1>24, <2>0 DEF FinishSave
  <2>2. row \in Row /\ row.status = s
    BY <2>1, ClearedType DEF Status, Terminal, Outcome
  <2>3. Apart(p) /\ UNCHANGED <<events, faults>>
    BY <1>24 DEF FinishSave, Goto, SetCur, Load, Apart
  <2>4. \A j1 \in Jobs \ {k} : ~Accounts(p, j1)
    BY <1>24, <2>0 DEF FinishSave, Accounts, CanStart
  <2>5. Accounts(p, k)' /\ mem'[p][cur'[p]].status \in Outcome
    <3>1. Load(p, k, row)
      BY <1>24, <2>0 DEF FinishSave
    <3>2. mem'[p][k] = row /\ jobs'[k] = row
      BY <2>1, <2>2, <3>1, LoadType, SaveType
    <3>3. pc'[p] = "finish_event" /\ cur'[p] = k
      BY <1>24, <2>0 DEF FinishSave, Goto
    <3> QED
      BY <2>2, <3>2, <3>3 DEF Accounts
  <2> HIDE DEF row
  <2> QED
    BY <2>1, <2>2, <2>3, <2>4, <2>5, SaveKeeps
<1>25. ASSUME NEW p \in Procs, FinishEvent(p)
      PROVE  Kept
  <2>0. PICK k \in Jobs : cur[p] = k
    BY <1>25 DEF FinishEvent, InIteration, ApiPc, WorkerPc, FinishPc
  <2> DEFINE T == {EventOf(mem[p][cur[p]].status)}
  <2>1. Apart(p) /\ UNCHANGED <<jobs, faults>>
    BY <1>25 DEF FinishEvent, Finished, Goto, SetCur, Load, Apart
  <2>2. pc'[p] # "finish_event" /\ AppendEvents(k, T)
    BY <1>25, <2>0 DEF FinishEvent, Finished, Goto
  <2>3. T \in SUBSET EventType
    BY DEF EventType, EventOf
  <2>4. Accounts(p, k) /\ T \subseteq events'[k] => HasFinalEvent(k)'
    <3>1. jobs'[k].status = jobs[k].status /\ pc[p] = "finish_event"
      BY <1>25, <2>1 DEF FinishEvent
    <3>2. mem[p][k].status \in Outcome
      BY <2>0, <3>1 DEF SavedOutcome
    <3> QED
      BY <2>0, <3>1, <3>2 DEF Accounts, HasFinalEvent, EventOf, Outcome
  <2> HIDE DEF T
  <2> QED
    BY <2>0, <2>1, <2>2, <2>3, <2>4, AppendKeeps
<1>26. ASSUME NEW p \in Procs, FailSave(p)
      PROVE  Kept
  <2>0. PICK k \in Jobs : k = cur[p]
    BY <1>26 DEF FailSave, InIteration, ApiPc, WorkerPc, FinishPc
  <2> DEFINE row == Cleared(mem[p][k], "FAILED")
  <2>1. Save(k, row)
    BY <1>26, <2>0 DEF FailSave
  <2>2. row \in Row /\ row.status = "FAILED"
    BY <2>1, ClearedType DEF Status, Terminal
  <2>3. Apart(p) /\ UNCHANGED <<events, faults>>
    BY <1>26 DEF FailSave, Goto, SetCur, Load, Apart
  <2>4. \A j1 \in Jobs \ {k} : ~Accounts(p, j1)
    BY <1>26, <2>0 DEF FailSave, Accounts, CanStart
  <2>5. Accounts(p, k)' /\ pc'[p] # "finish_event"
    BY <1>26, <2>0, <2>1, <2>2, SaveType DEF FailSave, Goto, SetCur, Accounts
  <2> HIDE DEF row
  <2> QED
    BY <2>1, <2>2, <2>3, <2>4, <2>5, SaveKeeps
<1>27. ASSUME NEW p \in Procs, FailEvent(p)
      PROVE  Kept
  <2>0. PICK k \in Jobs : cur[p] = k
    BY <1>27 DEF FailEvent, InIteration, ApiPc, WorkerPc, FinishPc
  <2> DEFINE T == {"JOB_FAILED"}
  <2>1. Apart(p) /\ UNCHANGED <<jobs, faults>>
    BY <1>27 DEF FailEvent, Finished, Goto, SetCur, Load, Apart
  <2>2. pc'[p] # "finish_event" /\ AppendEvents(k, T)
    BY <1>27, <2>0 DEF FailEvent, Finished, Goto
  <2>3. T \in SUBSET EventType
    BY DEF EventType
  <2>4. Accounts(p, k) /\ T \subseteq events'[k] => HasFinalEvent(k)'
    BY <1>27, <2>0, <2>1 DEF FailEvent, Accounts, HasFinalEvent
  <2> HIDE DEF T
  <2> QED
    BY <2>0, <2>1, <2>2, <2>3, <2>4, AppendKeeps
<1>28. ASSUME NEW j \in Jobs, LeaseExpires(j)
      PROVE  Kept
  <2>1. \A k \in Jobs : jobs'[k].status = jobs[k].status
    BY <1>28, LeaseType DEF LeaseExpires
  <2> QED
    BY <1>28, <2>1, EnvironmentKeeps DEF LeaseExpires, local
<1>29. ASSUME NEW j \in Jobs, BecomesDue(j)
      PROVE  Kept
  BY <1>29, EnvironmentKeeps DEF BecomesDue, local
<1>30. CASE UNCHANGED vars
  <2>1. Kept
    BY <1>30, EnvironmentKeeps DEF vars
  <2> QED
    BY <2>1
<1> QED
  BY <1>1, <1>2, <1>3, <1>4, <1>5, <1>6, <1>7, <1>8, <1>9, <1>10, <1>11, <1>12, <1>13, <1>14, <1>15, <1>16, <1>17, <1>18, <1>19, <1>20, <1>21, <1>22, <1>23, <1>24, <1>25, <1>26, <1>27, <1>28, <1>29, <1>30
  DEF Next, ApiStart, ApiStep, WorkerStep, Finish, Environment, Procs

\* What is owed stays finite, and is paid for.
LEMMA StepAudit == TypeOK /\ AuditInv /\ [Next]_vars => AuditInv'
<1> SUFFICES ASSUME TypeOK, AuditInv, [Next]_vars
             PROVE  AuditInv'
  OBVIOUS
<1>a. SavedOutcome /\ IsFiniteSet(Owed) /\ Cardinality(Owed) <= faults /\ faults \in Nat
      /\ Cardinality(Owed) \in Nat
  BY FaultsAssumption, FS_CardinalityType DEF AuditInv, TypeOK
<1>1. CASE Kept
  <2>1. Owed' \subseteq Owed
    BY <1>1 DEF Kept, Owed
  <2>2. IsFiniteSet(Owed') /\ Cardinality(Owed') <= Cardinality(Owed) /\ Cardinality(Owed') \in Nat
    BY <1>a, <2>1, FS_Subset, FS_CardinalityType
  <2> QED
    BY <1>1, <1>a, <2>2 DEF Kept, AuditInv
<1>2. ASSUME NEW p \in Procs, Crash(p)
      PROVE  AuditInv'
  <2>1. Apart(p) /\ UNCHANGED <<jobs, events>> /\ faults' = faults + 1 /\ pc'[p] = "idle"
    BY <1>2, Shapes DEF Crash, Goto, SetCur, Apart, table
  <2>2. SavedOutcome'
    BY <1>a, <2>1, SavedOutcomeKept
  <2>3. ASSUME NEW k \in Jobs \ {cur[p]}, Settled(k)
        PROVE  Settled(k)'
    BY <2>1, <2>3, SettledKept DEF Accounts
  <2>4. Owed' \subseteq Owed \union {cur[p]}
    BY <2>3 DEF Owed
  <2>5. /\ IsFiniteSet(Owed \union {cur[p]})
        /\ \/ Cardinality(Owed \union {cur[p]}) = Cardinality(Owed)
           \/ Cardinality(Owed \union {cur[p]}) = Cardinality(Owed) + 1
    BY <1>a, FS_AddElement
  <2>6. /\ IsFiniteSet(Owed') /\ Cardinality(Owed') \in Nat
        /\ Cardinality(Owed') <= Cardinality(Owed \union {cur[p]})
    BY <2>4, <2>5, FS_Subset, FS_CardinalityType
  <2> QED
    BY <1>a, <2>1, <2>2, <2>5, <2>6 DEF AuditInv
<1>3. ASSUME NEW p \in Procs, FinishEventFails(p)
      PROVE  AuditInv'
  <2>1. /\ Apart(p) /\ UNCHANGED <<jobs, events, cur, mem>> /\ faults' = faults + 1
        /\ pc'[p] = "fail_save"
    BY <1>3, Shapes DEF FinishEventFails, Goto, Apart, table
  <2>2. SavedOutcome'
    BY <1>a, <2>1, SavedOutcomeKept
  <2>3. ASSUME NEW k \in Jobs, Settled(k)
        PROVE  Settled(k)'
    BY <2>1, <2>3, SettledKept DEF Accounts
  <2>4. Owed' \subseteq Owed
    BY <2>3 DEF Owed
  <2>5. IsFiniteSet(Owed') /\ Cardinality(Owed') <= Cardinality(Owed) /\ Cardinality(Owed') \in Nat
    BY <1>a, <2>4, FS_Subset, FS_CardinalityType
  <2> QED
    BY <1>a, <2>1, <2>2, <2>5 DEF AuditInv
<1> QED
  BY <1>a, <1>1, <1>2, <1>3, StepKept

\* No job is finished at the start.
LEMMA InitAudit == Init => AuditInv
<1> SUFFICES ASSUME Init
             PROVE  AuditInv
  OBVIOUS
<1>1. \A j \in Jobs : Settled(j)
  BY DEF Init, NoRow, Settled, Terminal
<1>2. Owed = {} /\ faults = 0 /\ SavedOutcome
  BY <1>1 DEF Owed, Init, SavedOutcome
<1> QED
  BY <1>2, FS_EmptySet DEF AuditInv

-----------------------------------------------------------------------------
\* The inductive invariant of the audit trail.
THEOREM AuditInvariant == Spec => []AuditInv
<1>1. TypeOK /\ AuditInv /\ [Next]_vars => AuditInv'
  BY StepAudit
<1> QED
  BY <1>1, InitAudit, TypeCorrect, PTL DEF Spec

\* Whatever the processes interleave, each finished job whose final event is
\* missing, and which nobody is about to record, is paid for by a fault.
THEOREM AuditTrailHolds == Spec => []AuditTrail
<1>1. TypeOK /\ AuditInv => AuditTrail
  <2> SUFFICES ASSUME TypeOK, AuditInv
               PROVE  AuditTrail
    OBVIOUS
  <2> DEFINE S == {j \in Jobs : /\ jobs[j].status \in Terminal
                                /\ ~HasFinalEvent(j)
                                /\ ~Settling(j)}
  <2>1. S \subseteq Owed
    BY DEF Owed, Settled, Accounts, Settling
  <2>2. /\ IsFiniteSet(Owed) /\ Cardinality(Owed) <= faults /\ faults \in Nat
        /\ Cardinality(Owed) \in Nat
    BY FaultsAssumption, FS_CardinalityType DEF AuditInv, TypeOK
  <2>3. Cardinality(S) <= Cardinality(Owed) /\ Cardinality(S) \in Nat
    BY <2>1, <2>2, FS_Subset, FS_CardinalityType
  <2> HIDE DEF S
  <2>4. Cardinality(S) <= faults
    BY <2>2, <2>3
  <2> QED
    BY <2>4 DEF S, AuditTrail
<1> QED
  BY <1>1, TypeCorrect, AuditInvariant, PTL

=============================================================================
