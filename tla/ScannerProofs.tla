----------------------------- MODULE ScannerProofs -----------------------------
(***************************************************************************)
(* What the live scanner keeps for every set of symbols, models, stop      *)
(* requests and subscribers, every queue size and number of runs, signals  *)
(* and faults: what the rows of the runs say, whose model a signal tells,  *)
(* and the order in which a subscriber gets signals.                       *)
(*                                                                         *)
(* Control is what the interleavings of start, stop and the tasks keep; it *)
(* stands on its own.  That a signal tells its run, and the order of the   *)
(* stream, follow from it: a task that still persists signals is the task  *)
(* of the run the state names, and it writes to the newest queue.          *)
(***************************************************************************)
EXTENDS Scanner, TLAPS

-----------------------------------------------------------------------------
(* The invariant of start, stop and the tasks. *)

\* The run of the state is the run of its task, its queue is the newest one, and there
\* are both once a run was started.
Current ==
    /\ scanner.task = scanner.run /\ scanner.queue = Len(queue)
    /\ scanner.run # None => Len(queue) # 0 /\ row[scanner.run].status # "none"

\* Runs are numbered without gaps.
RunsInOrder == \E k \in 0..MaxRuns : \A r \in Runs : row[r].status # "none" <=> r <= k

\* A run has a row once it has a task, and both name the same model; a task that was not
\* started was not cancelled.
RowsAndTasks ==
    \A r \in Runs : /\ row[r].status = "none" <=> task[r].at = "none"
                    /\ row[r].model = task[r].model
                    /\ task[r].at = "none" => ~task[r].cancel

\* A task nobody cancelled is the one of the state, which says that it runs.
LiveIsCurrent == \A r \in Runs : Live(r) /\ ~task[r].cancel => scanner.run = r /\ scanner.running

\* A cancelled task is waited for.
CancelAwaited == \A r \in Runs : Live(r) /\ task[r].cancel => ~Quiet(r)

\* A stop waits for the task of the current run, or a start came in between.
StopsAwait ==
    \A h \in Stops : stops[h] # None =>
        /\ scanner.run # None /\ task[stops[h]].at # "none"
        /\ stops[h] = scanner.run \/ {stops[h], scanner.run} \subseteq excused

\* Only an error that could not be recorded kills a task.
FailedExcused == \A r \in Runs : task[r].at = "failed" => r \in excused

\* A subscriber waits on a queue that was made.
ClientsWait == \A c \in Clients : client[c].on <= Len(queue)

Control ==
    /\ Current /\ RunsInOrder /\ RowsAndTasks /\ LiveIsCurrent /\ CancelAwaited
    /\ StopsAwait /\ FailedExcused /\ RunRowsExplained /\ ClientsWait

-----------------------------------------------------------------------------
(* The parts of the type invariant, to disturb one at a time. *)

ScannerRow == [running : BOOLEAN, run : 0..MaxRuns, task : 0..MaxRuns, queue : Nat]
RunRow == [status : {"none", "running", "stopped", "error"}, model : Models]
ClientRow == [on : Nat, got : Seq(1..MaxSignals)]
EnvRow == [key : BOOLEAN, faults : 0..MaxFaults]
SignalsType == signals \in Seq(Signal) /\ Len(signals) <= MaxSignals
QueueType == queue \in Seq(Seq(1..MaxSignals)) /\ \A q \in DOMAIN queue : Len(queue[q]) <= QueueSize
TaskRow ==
    [at : Done \union Waiting \union {"none"}, model : Models, todo : SUBSET Symbols, cancel : BOOLEAN]

LEMMA BoundsType == QueueSize \in Nat /\ MaxRuns \in Nat /\ MaxSignals \in Nat /\ MaxFaults \in Nat /\ MaxRuns >= 1
  BY BoundsAssumption

LEMMA HeadTailSeq ==
  ASSUME NEW S, NEW q \in Seq(S), q # <<>>
  PROVE  /\ Head(q) \in S /\ Tail(q) \in Seq(S) /\ Len(q) \in Nat \ {0} /\ Len(Tail(q)) = Len(q) - 1
         /\ Head(q) = q[1] /\ \A i \in 1..Len(Tail(q)) : Tail(q)[i] = q[i + 1]
<1>1. Len(q) \in Nat \ {0} /\ Len(Tail(q)) = Len(q) - 1 /\ Head(q) = q[1]
  OBVIOUS
<1>2. \A i \in 1..Len(Tail(q)) : Tail(q)[i] = q[i + 1]
  BY <1>1
<1> QED
  BY <1>1, <1>2

LEMMA TypeParts ==
  ASSUME TypeOK
  PROVE  /\ scanner \in ScannerRow /\ task \in [Runs -> TaskRow] /\ stops \in [Stops -> 0..MaxRuns]
         /\ row \in [Runs -> RunRow] /\ SignalsType /\ QueueType /\ client \in [Clients -> ClientRow]
         /\ context \subseteq Symbols /\ stored \subseteq Symbols /\ env \in EnvRow
         /\ excused \subseteq Runs
  BY DEF TypeOK, ScannerRow, TaskRow, RunRow, SignalsType, QueueType, ClientRow, EnvRow

LEMMA TypePartsNext ==
  ASSUME /\ (scanner \in ScannerRow)' /\ (task \in [Runs -> TaskRow])' /\ (stops \in [Stops -> 0..MaxRuns])'
         /\ (row \in [Runs -> RunRow])' /\ SignalsType' /\ QueueType' /\ (client \in [Clients -> ClientRow])'
         /\ (context \subseteq Symbols)' /\ (stored \subseteq Symbols)' /\ (env \in EnvRow)'
         /\ (excused \subseteq Runs)'
  PROVE  TypeOK'
  BY DEF TypeOK, ScannerRow, TaskRow, RunRow, SignalsType, QueueType, ClientRow, EnvRow

LEMMA FaultType == ASSUME env \in EnvRow, Fault \/ NoFault PROVE env' \in EnvRow
  BY BoundsType DEF EnvRow, Fault, NoFault

LEMMA InitTypeOK == Init => TypeOK
  BY BoundsType, ModelsAssumption DEF Init, TypeOK, Fresh, AnyModel, Runs, None, Waiting, Done


-----------------------------------------------------------------------------
\* The first run without a row is the next number.
LEMMA NextRunIsNew ==
  ASSUME RunsInOrder, CanRun
  PROVE  /\ NextRun \in Runs /\ row[NextRun].status = "none"
         /\ \A r \in Runs : row[r].status # "none" <=> r <= NextRun - 1
<1>1. PICK k \in 0..MaxRuns : \A r \in Runs : row[r].status # "none" <=> r <= k
  BY DEF RunsInOrder
<1>2. PICK r \in Runs : row[r].status = "none"
  BY DEF CanRun
<1>3. k + 1 \in Runs /\ row[k + 1].status = "none"
  BY <1>1, <1>2, BoundsType DEF Runs
<1>4. \A s \in 1..(k + 1 - 1) : row[s].status # "none"
  BY <1>1, BoundsType DEF Runs
<1>5. NextRun \in Runs /\ row[NextRun].status = "none"
      /\ \A s \in 1..(NextRun - 1) : row[s].status # "none"
  BY <1>3, <1>4 DEF NextRun
<1>6. NextRun = k + 1
  BY <1>1, <1>3, <1>5, BoundsType DEF Runs
<1> QED
  BY <1>1, <1>5, <1>6, BoundsType DEF Runs

\* start, or a subscriber without a queue, makes an empty queue after the others.
LEMMA QueueAppended ==
  ASSUME TypeOK, queue' = Append(queue, <<>>)
  PROVE  /\ queue' \in Seq(Seq(1..MaxSignals)) /\ queue' # <<>>
         /\ Len(queue') = Len(queue) + 1 /\ queue'[Len(queue) + 1] = <<>>
         /\ \A q \in 1..Len(queue) : queue'[q] = queue[q]
         /\ \A q \in DOMAIN queue' : Len(queue'[q]) <= QueueSize
<1>1. <<>> \in Seq(1..MaxSignals) /\ Len(<<>>) <= QueueSize
  BY BoundsType
<1>2. queue \in Seq(Seq(1..MaxSignals))
  BY DEF TypeOK
<1>3. queue' \in Seq(Seq(1..MaxSignals)) /\ Len(queue') = Len(queue) + 1
  BY <1>1, <1>2
<1>4. queue'[Len(queue) + 1] = <<>> /\ \A q \in 1..Len(queue) : queue'[q] = queue[q]
  BY <1>1, <1>2
<1>5. \A q \in DOMAIN queue' : Len(queue'[q]) <= QueueSize
  BY <1>1, <1>2, <1>3, <1>4 DEF TypeOK
<1> QED
  BY <1>3, <1>4, <1>5

\* The signal that task r persists of symbol s.
Recorded(r, s) == [run |-> scanner.run, model |-> task[r].model, symbol |-> s]

\* A signal of a task that was not cancelled: one more signal, at most one more in the newest queue.
LEMMA EmitEffect ==
  ASSUME TypeOK, Current, LiveIsCurrent, NEW r \in Runs, Live(r), ~task[r].cancel,
         NEW s \in task[r].todo, Emit(r, s)
  PROVE  /\ signals \in Seq(Signal) /\ signals' \in Seq(Signal)
         /\ Len(signals') = Len(signals) + 1 /\ Len(signals') <= MaxSignals
         /\ signals'[Len(signals')] = Recorded(r, s)
         /\ \A i \in DOMAIN signals : signals'[i] = signals[i]
         /\ queue' \in Seq(Seq(1..MaxSignals)) /\ Len(queue') = Len(queue) /\ Len(queue) \in Nat \ {0}
         /\ \A q \in 1..(Len(queue) - 1) : queue'[q] = queue[q]
         /\ \/ queue'[Len(queue)] = queue[Len(queue)]
            \/ queue'[Len(queue)] = Append(queue[Len(queue)], Len(signals'))
         /\ \A q \in DOMAIN queue' : Len(queue'[q]) <= QueueSize
<1> DEFINE n == Len(queue)
<1>1. scanner.run = r /\ r # None
  BY BoundsType DEF LiveIsCurrent, Runs, None
<1>2. queue # <<>> /\ scanner.queue = n
  BY <1>1 DEF Current
<1>3. queue \in Seq(Seq(1..MaxSignals)) /\ signals \in Seq(Signal) /\ n \in Nat \ {0}
  BY <1>2 DEF TypeOK
<1>4. Recorded(r, s) \in Signal
  BY <1>1 DEF Recorded, Signal, TypeOK
<1>5. signals' = Append(signals, Recorded(r, s)) /\ Len(signals) < MaxSignals
  BY DEF Emit, Persisted, Recorded
<1>6. /\ signals' \in Seq(Signal) /\ Len(signals') = Len(signals) + 1 /\ Len(signals') <= MaxSignals
      /\ signals'[Len(signals')] = Recorded(r, s)
      /\ \A i \in DOMAIN signals : signals'[i] = signals[i]
  BY <1>3, <1>4, <1>5, BoundsType
<1>7. Len(signals) + 1 \in 1..MaxSignals
  BY <1>3, <1>5, BoundsType
<1>8. CASE ~Room
  <2>1. queue' = queue
    BY <1>8 DEF Emit
  <2> QED
    BY <1>3, <1>6, <2>1 DEF TypeOK
<1>9. CASE Room
  <2> DEFINE q1 == Append(queue[n], Len(signals) + 1)
  <2>1. queue' = [queue EXCEPT ![n] = q1] /\ Len(queue[n]) < QueueSize
    BY <1>9, <1>2 DEF Emit, Room
  <2>2. n \in DOMAIN queue /\ queue[n] \in Seq(1..MaxSignals)
    BY <1>3
  <2>3. q1 \in Seq(1..MaxSignals) /\ Len(q1) <= QueueSize
    BY <1>7, <2>1, <2>2, BoundsType
  <2> HIDE DEF q1
  <2>4. queue' \in Seq(Seq(1..MaxSignals)) /\ Len(queue') = n
    BY <1>3, <2>1, <2>2, <2>3
  <2>8. DOMAIN queue = 1..n /\ DOMAIN queue' = 1..n
    BY <1>3, <2>4
  <2>5. queue'[n] = q1 /\ \A q \in DOMAIN queue : q # n => queue'[q] = queue[q]
    BY <1>3, <2>1, <2>2
  <2>6. \A q \in DOMAIN queue' : Len(queue'[q]) <= QueueSize
    <3>1. \A q \in DOMAIN queue : Len(queue[q]) <= QueueSize
      BY DEF TypeOK
    <3> QED
      BY <2>3, <2>5, <2>8, <3>1
  <2>7. queue'[n] = Append(queue[n], Len(signals'))
    BY <1>6, <2>5 DEF q1
  <2> QED
    <3>1. n \in Nat \ {0} /\ \A q \in 1..(n - 1) : q \in 1..n /\ q # n
      BY <1>3
    <3>2. \A q \in 1..(n - 1) : queue'[q] = queue[q]
      BY <2>5, <2>8, <3>1
    <3> HIDE DEF n
    <3> QED
      BY <1>3, <1>6, <2>4, <2>6, <2>7, <3>1, <3>2 DEF n
<1> QED
  BY <1>8, <1>9

-----------------------------------------------------------------------------
(* Type correctness, one step per action. *)

LEMMA StartTypeOK == TypeOK /\ Control /\ Start => TypeOK'
<1> SUFFICES ASSUME TypeOK, Control, Start
             PROVE  TypeOK'
  OBVIOUS
<1>1. NextRun \in Runs
  BY NextRunIsNew DEF Start, Starting, Control
<1>2. queue' = Append(queue, <<>>)
  BY DEF Start, Starting
<1>3. scanner.run = None => ~Overtakes
  BY DEF Control, StopsAwait, Overtakes
<1>4. PICK m \in Models :
        /\ scanner' = [running |-> TRUE, run |-> NextRun, task |-> NextRun, queue |-> Len(queue) + 1]
        /\ row' = NewRow(NextRun, m)
        /\ task' = [task EXCEPT ![NextRun].at = "new", ![NextRun].model = m]
        /\ excused' = IF Overtakes THEN excused \union {NextRun, scanner.run} ELSE excused
  BY DEF Start
<1>5. row' \in [Runs -> [status : {"none", "running", "stopped", "error"}, model : Models]]
  BY <1>1, <1>4 DEF TypeOK, NewRow
<1>6. task' \in [Runs -> TaskRow]
  <2>1. task \in [Runs -> TaskRow] /\ task[NextRun] \in TaskRow
    BY <1>1 DEF TypeOK, TaskRow
  <2>2. task' = [task EXCEPT ![NextRun] = [@ EXCEPT !.at = "new", !.model = m]]
    BY <1>1, <1>4, <2>1 DEF TaskRow
  <2> QED
    BY <1>1, <1>4, <2>1 DEF Waiting, TaskRow
<1>7. scanner' \in [running : BOOLEAN, run : 0..MaxRuns, task : 0..MaxRuns, queue : Nat]
  BY <1>1, <1>4, BoundsType DEF TypeOK, Runs
<1>8. excused' \subseteq Runs
  BY <1>1, <1>3, <1>4, BoundsType DEF TypeOK, Runs, None
<1> QED
  BY <1>2, <1>5, <1>6, <1>7, <1>8, QueueAppended DEF TypeOK, Start, NoFault, TaskRow

LEMMA TaskMoved ==
  ASSUME TypeOK, NEW r \in Runs, NEW a \in Done \union Waiting, NEW todo \in SUBSET Symbols,
         task' = [task EXCEPT ![r].at = a, ![r].todo = todo]
  PROVE  /\ task' \in [Runs -> TaskRow]
         /\ task'[r].at = a /\ task'[r].model = task[r].model /\ task'[r].cancel = task[r].cancel
         /\ \A s \in Runs \ {r} : task'[s] = task[s]
<1>1. task \in [Runs -> TaskRow] /\ task[r] \in TaskRow
  BY DEF TypeOK, TaskRow
<1>2. task'[r] = [task[r] EXCEPT !.at = a, !.todo = todo] /\ \A s \in Runs \ {r} : task'[s] = task[s]
  BY <1>1
<1>3. task'[r] \in TaskRow
  BY <1>1, <1>2 DEF TaskRow
<1>4. task' \in [Runs -> TaskRow]
  BY <1>1, <1>3
<1>5. task'[r].at = a
  BY <1>1, <1>2 DEF TaskRow
<1>6. task'[r].model = task[r].model
  BY <1>1, <1>2 DEF TaskRow
<1>7. task'[r].cancel = task[r].cancel
  BY <1>1, <1>2 DEF TaskRow
<1> QED
  BY <1>2, <1>4, <1>5, <1>6, <1>7

LEMMA GoesMoves ==
  ASSUME TypeOK, NEW r \in Runs, NEW a \in Done \union Waiting, Goes(r, a)
  PROVE  /\ task' \in [Runs -> TaskRow]
         /\ task'[r].at = a /\ task'[r].model = task[r].model /\ task'[r].cancel = task[r].cancel
         /\ \A s \in Runs \ {r} : task'[s] = task[s]
<1>1. {} \in SUBSET Symbols
  OBVIOUS
<1> QED
  BY <1>1, TaskMoved DEF Goes

\* What a scored signal leaves of its task.
LEMMA EmitMoves ==
  ASSUME TypeOK, NEW r \in Runs, NEW s \in task[r].todo, Emit(r, s)
  PROVE  \E a \in Waiting, todo \in SUBSET Symbols : task' = [task EXCEPT ![r].at = a, ![r].todo = todo]
<1>1. task[r].todo \ {s} \in SUBSET Symbols
  BY DEF TypeOK
<1> QED
  BY <1>1 DEF Emit, Waiting

\* The UPDATE that ends a run changes the status of its row and nothing else.
LEMMA FinishRowType ==
  ASSUME TypeOK, NEW r \in 0..MaxRuns, NEW status \in {"stopped", "error"}, FinishRow(r, status)
  PROVE  /\ row' \in [Runs -> [status : {"none", "running", "stopped", "error"}, model : Models]]
         /\ \A s \in Runs : row'[s].model = row[s].model
         /\ \A s \in Runs \ {r} : row'[s] = row[s]
         /\ r # None => r \in Runs /\ row'[r].status = status
<1>1. r # None => r \in Runs
  BY BoundsType DEF Runs, None
<1>2. row \in [Runs -> RunRow]
  BY TypeParts
<1>3. CASE r = None
  BY <1>2, <1>3 DEF FinishRow, RunRow
<1>4. CASE r # None
  <2>1. row' = [row EXCEPT ![r].status = status] /\ r \in Runs /\ row[r] \in RunRow
    BY <1>1, <1>2, <1>4 DEF FinishRow
  <2>2. [row[r] EXCEPT !.status = status] \in RunRow
    BY <2>1 DEF RunRow
  <2>3. \A s \in Runs : row'[s] = IF s = r THEN [row[r] EXCEPT !.status = status] ELSE row[s]
    BY <1>2, <2>1
  <2>4. row' \in [Runs -> RunRow]
    BY <1>2, <2>1, <2>2
  <2>5. row'[r].status = status /\ row'[r].model = row[r].model
    BY <2>1, <2>3 DEF RunRow
  <2> QED
    BY <2>1, <2>3, <2>4, <2>5 DEF RunRow
<1> QED
  BY <1>3, <1>4

LEMMA FinishingType ==
  ASSUME TypeOK, Control, NEW t \in 0..MaxRuns, Finishing(t)
  PROVE  row' \in [Runs -> RunRow] /\ env' \in EnvRow /\ excused' \subseteq Runs
<1>1. scanner.run \in 0..MaxRuns /\ (scanner.run # None => scanner.run \in Runs)
  BY TypeParts, BoundsType DEF ScannerRow, Runs, None
<1> QED
  BY <1>1, TypeParts, FaultType, FinishRowType DEF Finishing, RunRow

\* A subscriber takes the head of its queue and leaves the other queues alone.
LEMMA ReceiveEffect ==
  ASSUME TypeOK, Current, NEW c \in Clients, Receive(c), client[c].on <= Len(queue)
  PROVE  LET q == client[c].on IN
         /\ q \in DOMAIN queue /\ queue[q] # <<>>
         /\ QueueType' /\ DOMAIN queue' = DOMAIN queue /\ Len(queue') = Len(queue)
         /\ queue'[q] = Tail(queue[q]) /\ \A p \in DOMAIN queue \ {q} : queue'[p] = queue[p]
         /\ client' \in [Clients -> ClientRow]
         /\ client'[c] = [on |-> 0, got |-> Append(client[c].got, Head(queue[q]))]
         /\ \A d \in Clients \ {c} : client'[d] = client[d]
<1> DEFINE q == client[c].on
<1>1. q \in Nat \ {0} /\ queue[q] # <<>> /\ client[c].got \in Seq(1..MaxSignals)
  BY TypeParts DEF Receive, ClientRow
<1>2. q \in DOMAIN queue /\ queue[q] \in Seq(1..MaxSignals) /\ queue \in Seq(Seq(1..MaxSignals))
  BY <1>1, TypeParts DEF QueueType
<1>3. /\ Tail(queue[q]) \in Seq(1..MaxSignals) /\ Len(Tail(queue[q])) <= QueueSize
      /\ Head(queue[q]) \in 1..MaxSignals
  <2> DEFINE s == queue[q]
  <2>1. s \in Seq(1..MaxSignals) /\ s # <<>>
    BY <1>1, <1>2
  <2>2. Len(s) <= QueueSize
    BY <1>2, TypeParts DEF QueueType
  <2> HIDE DEF s
  <2>3. /\ Head(s) \in 1..MaxSignals /\ Tail(s) \in Seq(1..MaxSignals)
        /\ Len(s) \in Nat \ {0} /\ Len(Tail(s)) = Len(s) - 1
    BY <2>1, HeadTailSeq
  <2>4. Len(Tail(s)) <= QueueSize
    BY <2>2, <2>3, BoundsType
  <2> QED
    BY <2>3, <2>4 DEF s
<1>4. queue' = [queue EXCEPT ![q] = Tail(queue[q])]
  BY DEF Receive
<1>5. /\ DOMAIN queue' = DOMAIN queue /\ queue'[q] = Tail(queue[q])
      /\ \A p \in DOMAIN queue \ {q} : queue'[p] = queue[p]
  BY <1>2, <1>4
<1>6. queue' \in Seq(Seq(1..MaxSignals)) /\ Len(queue') = Len(queue)
  BY <1>2, <1>3, <1>4
<1>7. \A p \in DOMAIN queue : Len(queue[p]) <= QueueSize
  BY TypeParts DEF QueueType
<1>8. \A p \in DOMAIN queue' : Len(queue'[p]) <= QueueSize
  BY <1>3, <1>5, <1>7
<1>9. QueueType'
  BY <1>6, <1>8 DEF QueueType
<1>10. /\ client'[c] = [on |-> 0, got |-> Append(client[c].got, Head(queue[q]))]
       /\ \A d \in Clients \ {c} : client'[d] = client[d]
       /\ client' = [client EXCEPT ![c] = client'[c]]
  BY TypeParts DEF Receive
<1>11. client'[c] \in ClientRow
  BY <1>1, <1>3, <1>10 DEF ClientRow
<1>12. client' \in [Clients -> ClientRow]
  BY <1>10, <1>11, TypeParts
<1> HIDE DEF q
<1>13. /\ q \in DOMAIN queue /\ queue[q] # <<>>
       /\ QueueType' /\ DOMAIN queue' = DOMAIN queue /\ Len(queue') = Len(queue)
       /\ queue'[q] = Tail(queue[q]) /\ \A p \in DOMAIN queue \ {q} : queue'[p] = queue[p]
       /\ client' \in [Clients -> ClientRow]
       /\ client'[c] = [on |-> 0, got |-> Append(client[c].got, Head(queue[q]))]
       /\ \A d \in Clients \ {c} : client'[d] = client[d]
  BY <1>1, <1>2, <1>5, <1>6, <1>9, <1>10, <1>12
<1> QED
  BY <1>13 DEF q

LEMMA ScannerStopped ==
  ASSUME scanner \in ScannerRow, NEW b \in BOOLEAN, scanner' = [scanner EXCEPT !.running = b]
  PROVE  /\ scanner' \in ScannerRow /\ scanner'.running = b /\ scanner'.run = scanner.run
         /\ scanner'.task = scanner.task /\ scanner'.queue = scanner.queue
  BY DEF ScannerRow

LEMMA StepTypeOK == TypeOK /\ Control /\ [Next]_vars => TypeOK'
<1> SUFFICES ASSUME TypeOK, Control, [Next]_vars
             PROVE  TypeOK'
  OBVIOUS
<1> USE TypeParts, TypePartsNext
<1>1. CASE Start
  BY <1>1, StartTypeOK
<1>2. CASE StartFails
  <2>1. QueueType'
    BY <1>2, QueueAppended DEF StartFails, Starting, QueueType
  <2>2. scanner' \in ScannerRow
    <3>1. Len(queue) + 1 \in Nat
      BY DEF QueueType
    <3> QED
      BY <1>2, <3>1 DEF StartFails, ScannerRow
  <2> QED
    BY <1>2, <2>1, <2>2, FaultType DEF StartFails, SignalsType
<1>3. CASE Crash
  <2>1. scanner' \in ScannerRow
    BY <1>3, BoundsType DEF Crash, Fresh, ScannerRow, None
  <2>2. task' \in [Runs -> TaskRow]
    <3>1. \A r \in Runs : [task[r] EXCEPT !.at = "gone"] \in TaskRow
      BY DEF TaskRow, Done
    <3> QED
      BY <1>3, <3>1 DEF Crash
  <2>3. QueueType'
    BY <1>3 DEF Crash, QueueType
  <2>4. client' \in [Clients -> ClientRow]
    BY <1>3 DEF Crash, ClientRow
  <2>5. stops' \in [Stops -> 0..MaxRuns]
    BY <1>3, BoundsType DEF Crash, None
  <2>6. excused' \subseteq Runs /\ context' \subseteq Symbols
    BY <1>3 DEF Crash
  <2> QED
    BY <1>3, <2>1, <2>2, <2>3, <2>4, <2>5, <2>6, FaultType DEF Crash, SignalsType
<1>4. ASSUME NEW h \in Stops, StopWaits(h)
      PROVE  TypeOK'
  <2>1. scanner.task \in Runs /\ scanner.task \in 0..MaxRuns
    BY <1>4, BoundsType DEF StopWaits, Busy, None, Runs, ScannerRow
  <2>2. scanner' \in ScannerRow
    BY <1>4, ScannerStopped DEF StopWaits
  <2>3. task' \in [Runs -> TaskRow]
    <3>1. [task[scanner.task] EXCEPT !.cancel = TRUE] \in TaskRow
      BY <2>1 DEF TaskRow
    <3> QED
      BY <1>4, <2>1, <3>1 DEF StopWaits
  <2>4. stops' \in [Stops -> 0..MaxRuns]
    BY <1>4, <2>1 DEF StopWaits
  <2> QED
    BY <1>4, <2>2, <2>3, <2>4 DEF StopWaits, SignalsType, QueueType
<1>5. ASSUME NEW h \in Stops, StopAtOnce(h)
      PROVE  TypeOK'
  <2>1. scanner' \in ScannerRow
    BY <1>5, ScannerStopped DEF StopAtOnce
  <2>2. row' \in [Runs -> RunRow] /\ env' \in EnvRow /\ excused' \subseteq Runs
    <3>1. scanner.task \in 0..MaxRuns
      BY DEF ScannerRow
    <3> QED
      BY <1>5, <3>1, FinishingType DEF StopAtOnce
  <2> QED
    BY <1>5, <2>1, <2>2 DEF StopAtOnce, SignalsType, QueueType
<1>6. ASSUME NEW h \in Stops, StopResumes(h)
      PROVE  TypeOK'
  <2>1. stops' \in [Stops -> 0..MaxRuns]
    BY <1>6, BoundsType DEF StopResumes, None
  <2>2. row' \in [Runs -> RunRow] /\ env' \in EnvRow /\ excused' \subseteq Runs
    BY <1>6, FinishingType DEF StopResumes
  <2> QED
    BY <1>6, <2>1, <2>2 DEF StopResumes, SignalsType, QueueType
<1>7. ASSUME NEW r \in Runs, TaskStep(r)
      PROVE  TypeOK'
  <2>1. CASE Cancelled(r)
    BY <2>1, GoesMoves DEF Cancelled, Done, Unasked, SignalsType, QueueType
  <2>2. CASE NoKey(r)
    <3>1. task' \in [Runs -> TaskRow]
      BY <2>2, GoesMoves DEF NoKey, Done
    <3>2. scanner' \in ScannerRow /\ scanner.run \in 0..MaxRuns
      BY <2>2, ScannerStopped DEF NoKey, ScannerRow
    <3>3. row' \in [Runs -> RunRow] /\ env' \in EnvRow /\ excused' \subseteq Runs
      BY <2>2, <3>2, FaultType, FinishRowType DEF NoKey, RunRow
    <3> QED
      BY <2>2, <3>1, <3>2, <3>3 DEF NoKey, Unasked, SignalsType, QueueType
  <2>3. CASE Poll(r)
    <3>1. task' \in [Runs -> TaskRow]
      BY <2>3, GoesMoves DEF Poll, Done, Waiting
    <3> QED
      BY <2>3, <3>1 DEF Poll, Unasked, SignalsType, QueueType
  <2>4. CASE QuotesArrive(r)
    <3>1. task' \in [Runs -> TaskRow]
      BY <2>4, TaskMoved DEF QuotesArrive, Done, Waiting
    <3> QED
      BY <2>4, <3>1, FaultType DEF QuotesArrive, Unasked, SignalsType, QueueType
  <2>5. CASE ScoreKnown(r)
    <3>1. PICK s \in task[r].todo :
            s \in context \union stored /\ context' = context \union {s} /\ Emit(r, s)
      BY <2>5 DEF ScoreKnown
    <3>2. task' \in [Runs -> TaskRow] /\ s \in Symbols
      BY <3>1, TaskMoved, EmitMoves DEF TaskRow
    <3>3. SignalsType' /\ QueueType'
      BY <2>5, <3>1, EmitEffect DEF ScoreKnown, At, Live, Waiting, Control, SignalsType, QueueType
    <3> QED
      BY <2>5, <3>1, <3>2, <3>3, FaultType DEF ScoreKnown, Unasked
  <2>6. CASE ScoreUnknown(r)
    <3>1. [task[r] EXCEPT !.at = "hydrate"] \in TaskRow
      BY DEF TaskRow, Waiting
    <3> QED
      BY <2>6, <3>1 DEF ScoreUnknown, Unasked, SignalsType, QueueType
  <2>7. CASE Hydrated(r)
    <3>1. PICK s \in task[r].todo, enough \in BOOLEAN :
            /\ context' = IF enough THEN context \union {s} ELSE context
            /\ stored' = IF enough THEN stored \union {s} ELSE stored
            /\ Emit(r, s)
      BY <2>7 DEF Hydrated
    <3>2. task' \in [Runs -> TaskRow] /\ s \in Symbols
      BY <3>1, TaskMoved, EmitMoves DEF TaskRow
    <3>3. SignalsType' /\ QueueType'
      BY <2>7, <3>1, EmitEffect DEF Hydrated, At, Live, Waiting, Control, SignalsType, QueueType
    <3>4. context' \subseteq Symbols /\ stored' \subseteq Symbols
      BY <3>1, <3>2
    <3> QED
      BY <2>7, <3>2, <3>3, <3>4, FaultType DEF Hydrated, Unasked
  <2>8. CASE StepFails(r)
    <3>1. task' \in [Runs -> TaskRow]
      BY <2>8, GoesMoves DEF StepFails, Error, Done, Waiting
    <3> QED
      BY <2>8, <3>1, FaultType DEF StepFails, Error, Unasked, SignalsType, QueueType
  <2> QED
    BY <1>7, <2>1, <2>2, <2>3, <2>4, <2>5, <2>6, <2>7, <2>8 DEF TaskStep
<1>8. ASSUME NEW c \in Clients, Subscribe(c)
      PROVE  TypeOK'
  <2>1. QueueType' /\ scanner' \in ScannerRow
    <3>1. CASE scanner.queue # 0
      BY <1>8, <3>1 DEF Subscribe, QueueType
    <3>2. CASE scanner.queue = 0
      <4>1. queue' = Append(queue, <<>>) /\ scanner' = [scanner EXCEPT !.queue = Len(queue) + 1]
        BY <1>8, <3>2 DEF Subscribe
      <4>2. Len(queue) + 1 \in Nat
        BY DEF QueueType
      <4>3. scanner' \in ScannerRow
        BY <4>1, <4>2 DEF ScannerRow
      <4> QED
        BY <4>1, <4>3, QueueAppended DEF QueueType
    <3> QED
      BY <3>1, <3>2
  <2>2. client' \in [Clients -> ClientRow]
    BY <1>8, <2>1 DEF Subscribe, ScannerRow, ClientRow
  <2> QED
    BY <1>8, <2>1, <2>2 DEF Subscribe, SignalsType
<1>9. ASSUME NEW c \in Clients, Receive(c)
      PROVE  TypeOK'
  BY <1>9, ReceiveEffect DEF Receive, SignalsType, Control, ClientsWait
<1>10. CASE UNCHANGED vars
  BY <1>10 DEF vars, SignalsType, QueueType
<1> QED
  BY <1>1, <1>2, <1>3, <1>4, <1>5, <1>6, <1>7, <1>8, <1>9, <1>10 DEF Next

-----------------------------------------------------------------------------
(* Control, one lemma per action or kind of action. *)

LEMMA CurrentType ==
  ASSUME TypeOK
  PROVE  /\ scanner.run \in 0..MaxRuns /\ (scanner.run # None => scanner.run \in Runs)
         /\ Len(queue) \in Nat /\ scanner.running \in BOOLEAN
         /\ \A h \in Stops : stops[h] \in 0..MaxRuns /\ (stops[h] # None => stops[h] \in Runs)
         /\ None \notin Runs
  BY TypeParts, BoundsType DEF ScannerRow, QueueType, Runs, None

\* A task that was not cancelled goes from one await to another.
LEMMA WaitingMoves ==
  ASSUME TypeOK, Control, NEW r \in Runs, Live(r), ~task[r].cancel,
         Live(r)', task'[r].model = task[r].model, task'[r].cancel = task[r].cancel,
         \A s \in Runs \ {r} : task'[s] = task[s],
         UNCHANGED <<scanner, row, stops, client, excused>>, Len(queue') = Len(queue)
  PROVE  Control'
<1>1. Current' /\ RunsInOrder' /\ ClientsWait'
  BY DEF Control, Current, RunsInOrder, ClientsWait
<1>2. RowsAndTasks'
  BY DEF Control, RowsAndTasks, Live, Waiting
<1>3. LiveIsCurrent'
  BY DEF Control, LiveIsCurrent, Live
<1>4. CancelAwaited'
  BY DEF Control, CancelAwaited, Live, Quiet
<1>5. StopsAwait'
  BY CurrentType DEF Control, StopsAwait, Live, Waiting
<1>6. FailedExcused'
  BY DEF Control, FailedExcused, Live, Waiting
<1>7. RunRowsExplained'
  BY DEF Control, RunRowsExplained, Live, Quiet
<1> QED
  BY <1>1, <1>2, <1>3, <1>4, <1>5, <1>6, <1>7 DEF Control

LEMMA StartControl == TypeOK /\ Control /\ Start => Control'
<1> SUFFICES ASSUME TypeOK, Control, Start
             PROVE  Control'
  OBVIOUS
<1> DEFINE r == NextRun
<1>1. /\ r \in Runs /\ row[r].status = "none"
      /\ \A s \in Runs : row[s].status # "none" <=> s <= r - 1
  BY NextRunIsNew DEF Start, Starting, Control
<1>2. PICK m \in Models :
        /\ scanner' = [running |-> TRUE, run |-> r, task |-> r, queue |-> Len(queue) + 1]
        /\ row' = [row EXCEPT ![r] = [status |-> "running", model |-> m]]
        /\ task' = [task EXCEPT ![r].at = "new", ![r].model = m]
        /\ excused' = IF Overtakes THEN excused \union {r, scanner.run} ELSE excused
  BY DEF Start, NewRow
<1>3. ~scanner.running /\ queue' = Append(queue, <<>>)
      /\ UNCHANGED <<stops, signals, client, context, stored>>
  BY DEF Start, Starting
<1> HIDE DEF r
<1>4. /\ row'[r].status = "running" /\ row'[r].model = m
      /\ \A s \in Runs \ {r} : row'[s] = row[s]
  BY <1>1, <1>2, TypeParts DEF RunRow
<1>5. task[r].at = "none" /\ ~task[r].cancel
  BY <1>1 DEF Control, RowsAndTasks
<1>6. /\ task'[r].at = "new" /\ task'[r].model = m /\ task'[r].cancel = task[r].cancel
      /\ \A s \in Runs \ {r} : task'[s] = task[s]
  <2>1. task \in [Runs -> TaskRow] /\ task[r] \in TaskRow
    BY <1>1, TypeParts
  <2>2. task'[r] = [task[r] EXCEPT !.at = "new", !.model = m] /\ \A s \in Runs \ {r} : task'[s] = task[s]
    BY <1>1, <1>2, <2>1
  <2>3. task'[r].at = "new"
    BY <2>1, <2>2 DEF TaskRow
  <2>4. task'[r].model = m
    BY <2>1, <2>2 DEF TaskRow
  <2>5. task'[r].cancel = task[r].cancel
    BY <2>1, <2>2 DEF TaskRow
  <2> QED
    BY <2>2, <2>3, <2>4, <2>5
<1>7. \A h \in Stops : stops[h] # r
  BY <1>1, <1>5, CurrentType DEF Control, StopsAwait
<1>8. Current'
  BY <1>2, <1>3, <1>4, QueueAppended, CurrentType DEF Current
<1>9. RunsInOrder'
  <2>1. \A s \in Runs : row'[s].status # "none" <=> s <= r
    BY <1>1, <1>4, BoundsType DEF Runs
  <2> QED
    BY <1>1, <2>1, BoundsType DEF RunsInOrder, Runs
<1>10. RowsAndTasks'
  BY <1>4, <1>5, <1>6 DEF Control, RowsAndTasks
<1>11. LiveIsCurrent'
  BY <1>2, <1>3, <1>6 DEF Control, LiveIsCurrent, Live
<1>12. CancelAwaited'
  BY <1>3, <1>5, <1>6 DEF Control, CancelAwaited, Live, Quiet
<1>13. StopsAwait'
  <2>1. SUFFICES ASSUME NEW h \in Stops, stops[h] # None
                 PROVE  /\ scanner'.run # None /\ task'[stops[h]].at # "none"
                        /\ {stops[h], scanner'.run} \subseteq excused'
    BY <1>3 DEF StopsAwait
  <2>2. excused' = excused \union {r, scanner.run}
    BY <1>2, <2>1 DEF Overtakes
  <2>3. /\ task[stops[h]].at # "none" /\ stops[h] \in Runs \ {r}
        /\ stops[h] = scanner.run \/ stops[h] \in excused
    BY <1>7, <2>1, CurrentType DEF Control, StopsAwait
  <2> QED
    BY <1>1, <1>2, <1>6, <2>2, <2>3, CurrentType
<1>14. FailedExcused'
  BY <1>2, <1>6 DEF Control, FailedExcused
<1>15. RunRowsExplained'
  BY <1>2, <1>3, <1>4, <1>6, ZenonT(40) DEF Control, RunRowsExplained, Live, Quiet, Waiting
<1>16. ClientsWait'
  BY <1>3, QueueAppended, CurrentType, TypeParts DEF Control, ClientsWait, ClientRow
<1> QED
  BY <1>8, <1>9, <1>10, <1>11, <1>12, <1>13, <1>14, <1>15, <1>16 DEF Control

\* The task of the current run is cancelled, and is awaited from now on.
LEMMA StopWaitsControl ==
  ASSUME TypeOK, Control, NEW h \in Stops, StopWaits(h)
  PROVE  Control'
<1> DEFINE t == scanner.task
<1>1. t = scanner.run /\ t \in Runs /\ Live(t)
  BY CurrentType DEF StopWaits, Busy, Control, Current
<1>2. /\ scanner'.running = FALSE /\ scanner'.run = scanner.run
      /\ scanner'.task = scanner.task /\ scanner'.queue = scanner.queue
  BY ScannerStopped, TypeParts DEF StopWaits
<1>3. /\ task'[t].at = task[t].at /\ task'[t].model = task[t].model /\ task'[t].cancel
      /\ \A s \in Runs \ {t} : task'[s] = task[s]
  <2>1. task \in [Runs -> TaskRow] /\ task[t] \in TaskRow
    BY <1>1, TypeParts
  <2>2. task'[t] = [task[t] EXCEPT !.cancel = TRUE] /\ \A s \in Runs \ {t} : task'[s] = task[s]
    BY <1>1, <2>1 DEF StopWaits
  <2> QED
    BY <2>1, <2>2 DEF TaskRow
<1>4. stops[h] = None /\ stops'[h] = t /\ \A g \in Stops \ {h} : stops'[g] = stops[g]
  BY TypeParts DEF StopWaits
<1>5. UNCHANGED <<row, signals, queue, client, excused>>
  BY DEF StopWaits
<1> HIDE DEF t
<1>6. Current' /\ RunsInOrder' /\ ClientsWait'
  BY <1>2, <1>5 DEF Control, Current, RunsInOrder, ClientsWait
<1>7. RowsAndTasks'
  BY <1>1, <1>3, <1>5 DEF Control, RowsAndTasks, Live, Waiting
<1>8. LiveIsCurrent'
  BY <1>1, <1>2, <1>3 DEF Control, LiveIsCurrent, Live
<1>9. \A s \in Runs : Quiet(s)' => Quiet(s) /\ s # t
  BY <1>4, CurrentType DEF Quiet
<1>10. CancelAwaited'
  BY <1>3, <1>9 DEF Control, CancelAwaited, Live
<1>11. StopsAwait'
  <2>1. \A s \in Runs : task'[s].at = task[s].at
    BY <1>1, <1>3
  <2> QED
    BY <1>1, <1>2, <1>4, <1>5, <2>1, CurrentType DEF Control, StopsAwait, Live, Waiting
<1>12. FailedExcused'
  BY <1>1, <1>3, <1>5 DEF Control, FailedExcused
<1>13. RunRowsExplained'
  BY <1>3, <1>5, <1>9 DEF Control, RunRowsExplained, Live
<1> QED
  BY <1>6, <1>7, <1>8, <1>10, <1>11, <1>12, <1>13 DEF Control

\* What a stop does once its task has ended: a run that lives on is excused already.
LEMMA FinishingEffect ==
  ASSUME TypeOK, Control, NEW t \in 0..MaxRuns, Finishing(t),
         scanner.run # None => ~Live(scanner.run) \/ scanner.run \in excused
  PROVE  /\ \A s \in Runs : row'[s].model = row[s].model
         /\ \A s \in Runs : row'[s].status = "none" <=> row[s].status = "none"
         /\ excused \subseteq excused'
         /\ \A s \in Runs : Quiet(s) /\ s \notin excused' => (row'[s].status = "running" <=> Live(s))
         /\ t # None /\ t = scanner.run /\ t \notin excused' => row'[t].status # "running"
<1>1. CASE t # None /\ task[t].at = "failed"
  <2>1. t \in Runs /\ t \in excused
    BY <1>1, BoundsType DEF Control, FailedExcused, Runs, None
  <2> QED
    BY <1>1, <2>1 DEF Finishing, Control, RunRowsExplained
<1>2. CASE FinishRow(scanner.run, "stopped") /\ UNCHANGED excused
  <2>1. scanner.run # None => row[scanner.run].status # "none"
    BY DEF Control, Current
  <2> QED
    BY <1>2, <2>1, FinishRowType, CurrentType DEF Control, RunRowsExplained
<1>3. CASE scanner.run # None /\ UNCHANGED row /\ excused' = excused \union {scanner.run}
  BY <1>3, CurrentType DEF Control, RunRowsExplained
<1> QED
  BY <1>1, <1>2, <1>3 DEF Finishing

LEMMA StopAtOnceControl ==
  ASSUME TypeOK, Control, NEW h \in Stops, StopAtOnce(h)
  PROVE  Control'
<1>1. /\ scanner'.running = FALSE /\ scanner'.run = scanner.run
      /\ scanner'.task = scanner.task /\ scanner'.queue = scanner.queue
  BY ScannerStopped, TypeParts DEF StopAtOnce
<1>2. scanner.run # None => ~Live(scanner.run)
  BY DEF StopAtOnce, Busy, Control, Current
<1>3. /\ \A s \in Runs : row'[s].model = row[s].model
      /\ \A s \in Runs : row'[s].status = "none" <=> row[s].status = "none"
      /\ excused \subseteq excused'
      /\ \A s \in Runs : Quiet(s) /\ s \notin excused' => (row'[s].status = "running" <=> Live(s))
  BY <1>2, FinishingEffect, CurrentType DEF StopAtOnce, Control, Current
<1>4. UNCHANGED <<task, stops, signals, queue, client>>
  BY DEF StopAtOnce
<1>5. Current' /\ ClientsWait'
  BY <1>1, <1>3, <1>4, CurrentType DEF Control, Current, ClientsWait
<1>6. RunsInOrder' /\ RowsAndTasks'
  BY <1>3, <1>4 DEF Control, RunsInOrder, RowsAndTasks
<1>7. LiveIsCurrent'
  BY <1>1, <1>2, <1>4, CurrentType DEF Control, LiveIsCurrent, Live
<1>8. CancelAwaited'
  BY <1>4 DEF Control, CancelAwaited, Live, Quiet
<1>9. StopsAwait'
  BY <1>1, <1>3, <1>4 DEF Control, StopsAwait
<1>10. FailedExcused'
  BY <1>3, <1>4 DEF Control, FailedExcused
<1>11. RunRowsExplained'
  BY <1>3, <1>4 DEF RunRowsExplained, Live, Quiet
<1> QED
  BY <1>5, <1>6, <1>7, <1>8, <1>9, <1>10, <1>11 DEF Control

\* The task the stop waited for has ended: no stop vouches for its row any more.
LEMMA StopResumesControl ==
  ASSUME TypeOK, Control, NEW h \in Stops, StopResumes(h)
  PROVE  Control'
<1> DEFINE t == stops[h]
<1>1. t \in Runs /\ t # None /\ ~Live(t)
  BY CurrentType DEF StopResumes, Live, Done, Waiting
<1>2. scanner.run # None /\ (t = scanner.run \/ {t, scanner.run} \subseteq excused)
  BY <1>1 DEF Control, StopsAwait
<1>3. /\ \A s \in Runs : row'[s].model = row[s].model
      /\ \A s \in Runs : row'[s].status = "none" <=> row[s].status = "none"
      /\ excused \subseteq excused'
      /\ \A s \in Runs : Quiet(s) /\ s \notin excused' => (row'[s].status = "running" <=> Live(s))
      /\ t = scanner.run /\ t \notin excused' => row'[t].status # "running"
  <2>1. t \in 0..MaxRuns /\ Finishing(t)
    BY CurrentType DEF StopResumes
  <2>2. ~Live(scanner.run) \/ scanner.run \in excused
    BY <1>1, <1>2
  <2> QED
    BY <1>1, <2>1, <2>2, FinishingEffect
<1>4. /\ UNCHANGED <<scanner, task, signals, queue, client>>
      /\ stops'[h] = None /\ \A g \in Stops \ {h} : stops'[g] = stops[g]
  BY TypeParts DEF StopResumes
<1> HIDE DEF t
<1>5. Current' /\ ClientsWait'
  BY <1>3, <1>4, CurrentType DEF Control, Current, ClientsWait
<1>6. RunsInOrder' /\ RowsAndTasks'
  BY <1>3, <1>4 DEF Control, RunsInOrder, RowsAndTasks
<1>7. LiveIsCurrent'
  BY <1>4 DEF Control, LiveIsCurrent, Live
<1>8. \A s \in Runs : s # t /\ Quiet(s)' => Quiet(s)
  BY <1>4 DEF Quiet, t
<1>9. CancelAwaited'
  BY <1>1, <1>4, <1>8 DEF Control, CancelAwaited, Live
<1>10. StopsAwait'
  BY <1>3, <1>4 DEF Control, StopsAwait
<1>11. FailedExcused'
  BY <1>3, <1>4 DEF Control, FailedExcused
<1>12. RunRowsExplained'
  <2>1. SUFFICES ASSUME NEW s \in Runs, Quiet(s)', s \notin excused'
                 PROVE  row'[s].status = "running" <=> Live(s)
    BY <1>4 DEF RunRowsExplained, Live
  <2>2. CASE s = t
    BY <1>1, <1>2, <1>3, <2>1, <2>2
  <2>3. CASE s # t
    BY <1>3, <1>8, <2>1, <2>3
  <2> QED
    BY <2>2, <2>3
<1> QED
  BY <1>5, <1>6, <1>7, <1>9, <1>10, <1>11, <1>12 DEF Control

\* The task ends of its cancellation, and a stop that will finish its row waits for it.
LEMMA CancelledControl ==
  ASSUME TypeOK, Control, NEW r \in Runs, Cancelled(r)
  PROVE  Control'
<1>1. Live(r) /\ task[r].cancel /\ ~Quiet(r)
  BY DEF Cancelled, Control, CancelAwaited
<1>2. /\ task'[r].at = "cancelled" /\ task'[r].model = task[r].model /\ task'[r].cancel = task[r].cancel
      /\ \A s \in Runs \ {r} : task'[s] = task[s]
  BY GoesMoves DEF Cancelled, Done
<1>3. UNCHANGED <<scanner, stops, row, signals, queue, client, excused>>
  BY DEF Cancelled, Unasked
<1>4. Current' /\ RunsInOrder' /\ ClientsWait'
  BY <1>3 DEF Control, Current, RunsInOrder, ClientsWait
<1>5. RowsAndTasks'
  BY <1>1, <1>2, <1>3 DEF Control, RowsAndTasks, Live, Waiting
<1>6. LiveIsCurrent' /\ CancelAwaited'
  BY <1>2, <1>3 DEF Control, LiveIsCurrent, CancelAwaited, Live, Quiet, Waiting
<1>7. StopsAwait'
  BY <1>2, <1>3, CurrentType DEF Control, StopsAwait
<1>8. FailedExcused'
  BY <1>2, <1>3 DEF Control, FailedExcused
<1>9. RunRowsExplained'
  BY <1>1, <1>2, <1>3 DEF Control, RunRowsExplained, Live, Quiet
<1> QED
  BY <1>4, <1>5, <1>6, <1>7, <1>8, <1>9 DEF Control

\* A task that was not cancelled ends: its row no longer says "running", or it is excused.
LEMMA EndedControl ==
  ASSUME TypeOK, Control, NEW r \in Runs, Live(r), ~task[r].cancel,
         task'[r].at \in {"ended", "failed"}, task'[r].model = task[r].model,
         \A s \in Runs \ {r} : task'[s] = task[s],
         scanner'.run = scanner.run, scanner'.task = scanner.task, scanner'.queue = scanner.queue,
         UNCHANGED <<stops, queue, client>>, excused \subseteq excused',
         \A s \in Runs \ {r} : row'[s] = row[s],
         row'[r].model = row[r].model, row'[r].status # "none",
         row'[r].status # "running" \/ r \in excused', task'[r].at = "failed" => r \in excused'
  PROVE  Control'
<1>1. scanner.run = r /\ row[r].status # "none"
  BY DEF Control, LiveIsCurrent, RowsAndTasks, Live, Waiting
<1>2. Current' /\ ClientsWait'
  BY <1>1 DEF Control, Current, ClientsWait
<1>3. RunsInOrder'
  BY <1>1 DEF Control, RunsInOrder
<1>4. RowsAndTasks'
  BY <1>1 DEF Control, RowsAndTasks
<1>5. LiveIsCurrent'
  BY <1>1 DEF Control, LiveIsCurrent, Live, Waiting
<1>6. CancelAwaited'
  BY DEF Control, CancelAwaited, Live, Quiet, Waiting
<1>7. StopsAwait'
  BY CurrentType DEF Control, StopsAwait
<1>8. FailedExcused'
  BY DEF Control, FailedExcused
<1>9. RunRowsExplained'
  BY DEF Control, RunRowsExplained, Live, Quiet, Waiting
<1> QED
  BY <1>2, <1>3, <1>4, <1>5, <1>6, <1>7, <1>8, <1>9 DEF Control

LEMMA NoKeyControl ==
  ASSUME TypeOK, Control, NEW r \in Runs, NoKey(r)
  PROVE  Control'
<1>1. Live(r) /\ ~task[r].cancel /\ scanner.run = r /\ r # None
  BY CurrentType DEF NoKey, At, Live, Waiting, Control, LiveIsCurrent
<1>2. row[r].status # "none"
  BY <1>1 DEF Control, RowsAndTasks, Live, Waiting
<1>3. /\ scanner'.run = scanner.run /\ scanner'.task = scanner.task /\ scanner'.queue = scanner.queue
      /\ UNCHANGED <<stops, queue, client>>
  BY ScannerStopped, TypeParts DEF NoKey, Unasked
<1>4. CASE FinishRow(r, "error") /\ Goes(r, "ended") /\ UNCHANGED excused
  <2>1. /\ task'[r].at = "ended" /\ task'[r].model = task[r].model
        /\ \A s \in Runs \ {r} : task'[s] = task[s]
    BY <1>4, GoesMoves DEF Done
  <2>2. /\ \A s \in Runs \ {r} : row'[s] = row[s]
        /\ row'[r].model = row[r].model /\ row'[r].status = "error"
    BY <1>1, <1>4, CurrentType, FinishRowType
  <2> QED
    BY <1>1, <1>3, <1>4, <2>1, <2>2, EndedControl
<1>5. CASE Goes(r, "failed") /\ UNCHANGED row /\ excused' = excused \union {r}
  <2>1. /\ task'[r].at = "failed" /\ task'[r].model = task[r].model
        /\ \A s \in Runs \ {r} : task'[s] = task[s]
    BY <1>5, GoesMoves DEF Done
  <2> QED
    BY <1>1, <1>2, <1>3, <1>5, <2>1, EndedControl
<1> QED
  BY <1>1, <1>4, <1>5 DEF NoKey

LEMMA PollControl ==
  ASSUME TypeOK, Control, NEW r \in Runs, Poll(r)
  PROVE  Control'
<1>1. Live(r) /\ ~task[r].cancel /\ scanner.running
  BY DEF Poll, At, Live, Waiting, Control, LiveIsCurrent
<1>2. Goes(r, "quotes") /\ "quotes" \in Waiting
  BY <1>1 DEF Poll, Waiting
<1>3. UNCHANGED <<scanner, stops, row, queue, client, excused>>
  BY DEF Poll, Unasked
<1> QED
  BY <1>1, <1>2, <1>3, GoesMoves, WaitingMoves DEF Live

LEMMA StepFailsControl ==
  ASSUME TypeOK, Control, NEW r \in Runs, StepFails(r)
  PROVE  Control'
<1>1. Live(r) /\ ~task[r].cancel /\ row[r].status # "none"
  BY DEF StepFails, At, Live, Waiting, Control, RowsAndTasks
<1>2. UNCHANGED <<scanner, stops, row, queue, client>>
  BY DEF StepFails, Error, Unasked
<1>3. CASE Goes(r, "sleep") /\ UNCHANGED excused
  <2>1. "sleep" \in Waiting
    BY DEF Waiting
  <2> QED
    BY <1>1, <1>2, <1>3, <2>1, GoesMoves, WaitingMoves DEF Live
<1>4. CASE Goes(r, "failed") /\ excused' = excused \union {r}
  <2>1. /\ task'[r].at = "failed" /\ task'[r].model = task[r].model
        /\ \A s \in Runs \ {r} : task'[s] = task[s]
    BY <1>4, GoesMoves DEF Done
  <2> QED
    BY <1>1, <1>2, <1>4, <2>1, EndedControl
<1> QED
  BY <1>3, <1>4 DEF StepFails, Error

LEMMA EmitControl ==
  ASSUME TypeOK, Control, NEW r \in Runs, Live(r), ~task[r].cancel, NEW s \in task[r].todo, Emit(r, s),
         UNCHANGED <<scanner, stops, row, client, excused>>
  PROVE  Control'
<1>1. PICK a \in Waiting, todo \in SUBSET Symbols : task' = [task EXCEPT ![r].at = a, ![r].todo = todo]
  BY EmitMoves
<1>2. Len(queue') = Len(queue)
  BY EmitEffect DEF Control
<1> QED
  <2>1. /\ task'[r].at \in Waiting /\ task'[r].model = task[r].model /\ task'[r].cancel = task[r].cancel
        /\ \A q \in Runs \ {r} : task'[q] = task[q]
    BY <1>1, TaskMoved
  <2> QED
    BY <1>2, <2>1, WaitingMoves DEF Live

LEMMA ScanControl ==
  ASSUME TypeOK, Control, NEW r \in Runs,
         QuotesArrive(r) \/ ScoreKnown(r) \/ ScoreUnknown(r) \/ Hydrated(r)
  PROVE  Control'
<1>1. Live(r) /\ ~task[r].cancel
  BY DEF QuotesArrive, ScoreKnown, ScoreUnknown, Hydrated, At, Live, Waiting
<1>2. CASE QuotesArrive(r)
  <2>1. PICK todo \in SUBSET Symbols :
          task' = [task EXCEPT ![r].at = IF todo = {} THEN "sleep" ELSE "score", ![r].todo = todo]
    BY <1>2 DEF QuotesArrive
  <2>2. (IF todo = {} THEN "sleep" ELSE "score") \in Waiting
    BY DEF Waiting
  <2> QED
    <3>1. /\ task'[r].at \in Waiting /\ task'[r].model = task[r].model /\ task'[r].cancel = task[r].cancel
          /\ \A s \in Runs \ {r} : task'[s] = task[s]
      BY <2>1, <2>2, TaskMoved
    <3> QED
      BY <1>1, <1>2, <3>1, WaitingMoves DEF QuotesArrive, Unasked, Live
<1>3. CASE ScoreKnown(r) \/ Hydrated(r)
  <2>1. PICK s \in task[r].todo : Emit(r, s)
    BY <1>3 DEF ScoreKnown, Hydrated
  <2>2. UNCHANGED <<scanner, stops, row, client, excused>>
    BY <1>3 DEF ScoreKnown, Hydrated, Unasked
  <2> QED
    BY <1>1, <2>1, <2>2, EmitControl
<1>4. CASE ScoreUnknown(r)
  <2>1. /\ task'[r].at = "hydrate" /\ task'[r].model = task[r].model /\ task'[r].cancel = task[r].cancel
        /\ \A s \in Runs \ {r} : task'[s] = task[s]
    <3>1. task' = [task EXCEPT ![r].at = "hydrate", ![r].todo = task[r].todo]
      BY <1>4, TypeParts DEF ScoreUnknown, TaskRow
    <3>2. task[r].todo \in SUBSET Symbols /\ "hydrate" \in Waiting
      BY TypeParts DEF TaskRow, Waiting
    <3> QED
      BY <3>1, <3>2, TaskMoved
  <2> QED
    BY <1>1, <1>4, <2>1, WaitingMoves DEF ScoreUnknown, Unasked, Live, Waiting
<1> QED
  BY <1>2, <1>3, <1>4

LEMMA StepControl == TypeOK /\ Control /\ [Next]_vars => Control'
<1> SUFFICES ASSUME TypeOK, Control, [Next]_vars
             PROVE  Control'
  OBVIOUS
<1>1. CASE Start
  BY <1>1, StartControl
<1>2. CASE StartFails
  <2>1. /\ scanner' = [scanner EXCEPT !.running = TRUE, !.queue = Len(queue) + 1]
        /\ queue' = Append(queue, <<>>) /\ ~scanner.running
        /\ UNCHANGED <<task, stops, row, signals, client, excused>>
    BY <1>2 DEF StartFails, Starting
  <2>2. scanner'.run = scanner.run /\ scanner'.task = scanner.task /\ scanner'.queue = Len(queue) + 1
    BY <2>1, TypeParts DEF ScannerRow
  <2>3. Current'
    BY <2>1, <2>2, QueueAppended, CurrentType DEF Control, Current
  <2>4. LiveIsCurrent'
    BY <2>1 DEF Control, LiveIsCurrent, Live
  <2>5. ClientsWait'
    BY <2>1, QueueAppended, CurrentType, TypeParts DEF Control, ClientsWait, ClientRow
  <2>6. StopsAwait'
    BY <2>1, <2>2 DEF Control, StopsAwait
  <2> QED
    BY <2>1, <2>3, <2>4, <2>5, <2>6
    DEF Control, RunsInOrder, RowsAndTasks, CancelAwaited, FailedExcused, RunRowsExplained, Live, Quiet
<1>3. CASE Crash
  <2>1. /\ scanner' = Fresh /\ queue' = <<>> /\ excused' = excused \union {r \in Runs : row[r].status = "running"}
        /\ stops' = [h \in Stops |-> None] /\ UNCHANGED row
        /\ client' = [c \in Clients |-> [client[c] EXCEPT !.on = 0]]
    BY <1>3 DEF Crash
  <2>2. \A r \in Runs : IF Live(r) THEN task'[r] = [task[r] EXCEPT !.at = "gone"] ELSE task'[r] = task[r]
    BY <1>3 DEF Crash
  <2>3. \A r \in Runs : /\ task'[r].at = IF Live(r) THEN "gone" ELSE task[r].at
                        /\ task'[r].model = task[r].model /\ task'[r].cancel = task[r].cancel
    BY <2>2, TypeParts DEF TaskRow
  <2>4. \A r \in Runs : ~Live(r)'
    BY <2>3 DEF Live, Waiting
  <2>5. Current' /\ ClientsWait'
    BY <2>1, TypeParts DEF Current, Fresh, ClientsWait, ClientRow, None
  <2>6. RunsInOrder' /\ RowsAndTasks'
    BY <2>1, <2>3 DEF Control, RunsInOrder, RowsAndTasks, Live, Waiting
  <2>7. LiveIsCurrent' /\ CancelAwaited'
    BY <2>4 DEF LiveIsCurrent, CancelAwaited
  <2>8. StopsAwait'
    BY <2>1 DEF StopsAwait
  <2>9. FailedExcused'
    BY <2>1, <2>3 DEF Control, FailedExcused
  <2>10. RunRowsExplained'
    BY <2>1, <2>4 DEF RunRowsExplained
  <2> QED
    BY <2>5, <2>6, <2>7, <2>8, <2>9, <2>10 DEF Control
<1>4. ASSUME NEW h \in Stops, StopWaits(h) \/ StopAtOnce(h) \/ StopResumes(h)
      PROVE  Control'
  BY <1>4, StopWaitsControl, StopAtOnceControl, StopResumesControl
<1>5. ASSUME NEW r \in Runs, TaskStep(r)
      PROVE  Control'
  BY <1>5, CancelledControl, NoKeyControl, PollControl, ScanControl, StepFailsControl DEF TaskStep
<1>6. ASSUME NEW c \in Clients, Subscribe(c)
      PROVE  Control'
  <2>1. /\ UNCHANGED <<task, stops, row, excused>>
        /\ client' = [client EXCEPT ![c].on = scanner'.queue]
    BY <1>6 DEF Subscribe
  <2>2. /\ scanner'.run = scanner.run /\ scanner'.task = scanner.task /\ scanner'.running = scanner.running
        /\ scanner'.queue = Len(queue') /\ Len(queue') \in Nat /\ Len(queue) <= Len(queue')
    <3>1. CASE scanner.queue # 0
      BY <1>6, <3>1, CurrentType DEF Subscribe, Control, Current
    <3>2. CASE scanner.queue = 0
      <4>1. queue' = Append(queue, <<>>) /\ scanner' = [scanner EXCEPT !.queue = Len(queue) + 1]
        BY <1>6, <3>2 DEF Subscribe
      <4>2. /\ scanner'.run = scanner.run /\ scanner'.task = scanner.task
            /\ scanner'.queue = Len(queue) + 1
        BY <4>1, TypeParts DEF ScannerRow
      <4>3. scanner'.running = scanner.running
        BY <4>1, TypeParts DEF ScannerRow
      <4> QED
        BY <4>1, <4>2, <4>3, QueueAppended, CurrentType
    <3> QED
      BY <3>1, <3>2
  <2>3. Current'
    BY <2>1, <2>2, CurrentType DEF Control, Current
  <2>4. LiveIsCurrent' /\ StopsAwait'
    BY <2>1, <2>2 DEF Control, LiveIsCurrent, StopsAwait, Live
  <2>5. ClientsWait'
    BY <2>1, <2>2, CurrentType, TypeParts DEF Control, ClientsWait, ClientRow
  <2> QED
    BY <2>1, <2>3, <2>4, <2>5
    DEF Control, RunsInOrder, RowsAndTasks, CancelAwaited, FailedExcused, RunRowsExplained, Live, Quiet
<1>7. ASSUME NEW c \in Clients, Receive(c)
      PROVE  Control'
  <2>1. UNCHANGED <<scanner, task, stops, row, excused>>
    BY <1>7 DEF Receive
  <2>2. /\ Len(queue') = Len(queue) /\ client'[c].on = 0
        /\ \A d \in Clients \ {c} : client'[d] = client[d]
    <3>1. Current /\ client[c].on <= Len(queue)
      BY DEF Control, ClientsWait
    <3>2. /\ Len(queue') = Len(queue) /\ \A d \in Clients \ {c} : client'[d] = client[d]
          /\ client'[c] = [on |-> 0, got |-> Append(client[c].got, Head(queue[client[c].on]))]
      BY <1>7, <3>1, ReceiveEffect
    <3> QED
      BY <3>2
  <2>3. Current' /\ ClientsWait'
    BY <2>1, <2>2, CurrentType DEF Control, Current, ClientsWait
  <2> QED
    BY <2>1, <2>3 DEF Control, RunsInOrder, RowsAndTasks, LiveIsCurrent, CancelAwaited, StopsAwait,
                      FailedExcused, RunRowsExplained, Live, Quiet
<1>8. CASE UNCHANGED vars
  BY <1>8 DEF vars, Control, Current, ClientsWait, RunsInOrder, RowsAndTasks, LiveIsCurrent, CancelAwaited,
              StopsAwait, FailedExcused, RunRowsExplained, Live, Quiet
<1> QED
  BY <1>1, <1>2, <1>3, <1>4, <1>5, <1>6, <1>7, <1>8 DEF Next

-----------------------------------------------------------------------------
(* Signals and the rows of their runs. *)

\* A signal names a run that was started.
SignalsHaveRows == \A i \in DOMAIN signals : row[signals[i].run].status # "none"

\* A row of a run is never removed, and never names another model.
RowsKept ==
    \A r \in Runs : row[r].status # "none" => row'[r].status # "none" /\ row'[r].model = row[r].model

LEMMA StepRowsKept == TypeOK /\ Control /\ [Next]_vars => RowsKept
<1> SUFFICES ASSUME TypeOK, Control, [Next]_vars
             PROVE  RowsKept
  OBVIOUS
<1>1. ASSUME NEW r \in 0..MaxRuns, NEW status \in {"stopped", "error"}, FinishRow(r, status)
      PROVE  RowsKept
  <2>1. /\ \A s \in Runs : row'[s].model = row[s].model
        /\ \A s \in Runs \ {r} : row'[s] = row[s]
        /\ r # None => r \in Runs /\ row'[r].status = status
    BY <1>1, FinishRowType
  <2>2. status # "none"
    OBVIOUS
  <2> QED
    BY <2>1, <2>2, CurrentType DEF RowsKept
<1>2. CASE UNCHANGED row
  BY <1>2 DEF RowsKept
<1>3. CASE Start
  <2>1. NextRun \in Runs /\ row[NextRun].status = "none"
    BY <1>3, NextRunIsNew DEF Start, Starting, Control
  <2>2. \A s \in Runs \ {NextRun} : row'[s] = row[s]
    BY <1>3, <2>1, TypeParts DEF Start, NewRow
  <2> QED
    BY <2>1, <2>2 DEF RowsKept
<1>4. ASSUME NEW t \in 0..MaxRuns, Finishing(t)
      PROVE  RowsKept
  BY <1>1, <1>2, <1>4, CurrentType DEF Finishing
<1>5. ASSUME NEW h \in Stops, StopWaits(h) \/ StopAtOnce(h) \/ StopResumes(h)
      PROVE  RowsKept
  <2>1. scanner.task \in 0..MaxRuns /\ stops[h] \in 0..MaxRuns
    BY CurrentType DEF Control, Current
  <2> QED
    BY <1>2, <1>4, <1>5, <2>1 DEF StopWaits, StopAtOnce, StopResumes
<1>6. ASSUME NEW r \in Runs, TaskStep(r)
      PROVE  RowsKept
  <2>1. CASE NoKey(r)
    BY <1>1, <1>2, <2>1, CurrentType DEF NoKey
  <2> QED
    BY <1>2, <1>6, <2>1 DEF TaskStep, Cancelled, Poll, QuotesArrive, ScoreKnown, ScoreUnknown, Hydrated,
                            StepFails, Error
<1>7. ASSUME NEW c \in Clients, Subscribe(c) \/ Receive(c)
      PROVE  RowsKept
  BY <1>2, <1>7 DEF Subscribe, Receive
<1> QED
  BY <1>2, <1>3, <1>5, <1>6, <1>7 DEF Next, StartFails, Crash, vars

\* The step persists no signal, or it is a live, uncancelled task that persists one.
LEMMA SignalsGrow ==
  ASSUME TypeOK, Control, [Next]_vars
  PROVE  \/ UNCHANGED signals
         \/ \E r \in Runs : \E s \in task[r].todo :
              /\ Live(r) /\ ~task[r].cancel /\ Emit(r, s) /\ UNCHANGED <<scanner, row, client>>
<1>1. ASSUME NEW r \in Runs, ScoreKnown(r) \/ Hydrated(r)
      PROVE  \E s \in task[r].todo :
               Live(r) /\ ~task[r].cancel /\ Emit(r, s) /\ UNCHANGED <<scanner, row, client>>
  <2>1. Live(r) /\ ~task[r].cancel
    BY <1>1 DEF ScoreKnown, Hydrated, At, Live, Waiting
  <2>2. PICK s \in task[r].todo : Emit(r, s)
    BY <1>1 DEF ScoreKnown, Hydrated
  <2> QED
    BY <1>1, <2>1, <2>2 DEF ScoreKnown, Hydrated, Unasked
<1>2. ASSUME NEW r \in Runs, TaskStep(r), ~ScoreKnown(r), ~Hydrated(r)
      PROVE  UNCHANGED signals
  BY <1>2 DEF TaskStep, Cancelled, NoKey, Poll, QuotesArrive, ScoreUnknown, StepFails, Error
<1>3. ASSUME NEW h \in Stops, StopWaits(h) \/ StopAtOnce(h) \/ StopResumes(h)
      PROVE  UNCHANGED signals
  BY <1>3 DEF StopWaits, StopAtOnce, StopResumes
<1>4. ASSUME NEW c \in Clients, Subscribe(c) \/ Receive(c)
      PROVE  UNCHANGED signals
  BY <1>4 DEF Subscribe, Receive
<1>5. CASE Start \/ StartFails \/ Crash \/ UNCHANGED vars
  BY <1>5 DEF Start, StartFails, Crash, vars
<1> QED
  BY <1>1, <1>2, <1>3, <1>4, <1>5 DEF Next

LEMMA StepSignals ==
  TypeOK /\ Control /\ SignalsHaveRows /\ SignalsTellRun /\ [Next]_vars => SignalsHaveRows' /\ SignalsTellRun'
<1> SUFFICES ASSUME TypeOK, Control, SignalsHaveRows, SignalsTellRun, [Next]_vars
             PROVE  SignalsHaveRows' /\ SignalsTellRun'
  OBVIOUS
<1>1. RowsKept
  BY StepRowsKept
<1>2. \A i \in DOMAIN signals : signals[i].run \in Runs
  <2>1. \A i \in DOMAIN signals : signals[i] \in Signal
    BY TypeParts DEF SignalsType
  <2>2. \A x \in Signal : x.run \in Runs
    BY DEF Signal
  <2> QED
    BY <2>1, <2>2
<1>3. CASE UNCHANGED signals
  BY <1>1, <1>2, <1>3 DEF RowsKept, SignalsHaveRows, SignalsTellRun
<1>4. ASSUME NEW r \in Runs, NEW s \in task[r].todo, Live(r), ~task[r].cancel, Emit(r, s), UNCHANGED <<scanner, row, client>>
      PROVE  SignalsHaveRows' /\ SignalsTellRun'
  <2>1. scanner.run = r /\ row[r].model = task[r].model /\ row[r].status # "none"
    BY <1>4 DEF Control, LiveIsCurrent, RowsAndTasks, Live, Waiting
  <2>2. /\ signals \in Seq(Signal) /\ signals' \in Seq(Signal) /\ Len(signals') = Len(signals) + 1
        /\ signals'[Len(signals')] = Recorded(r, s)
        /\ \A i \in DOMAIN signals : signals'[i] = signals[i]
    BY <1>4, EmitEffect DEF Control
  <2>3. \A i \in DOMAIN signals' : i \in DOMAIN signals \/ i = Len(signals')
    BY <2>2
  <2>4. Recorded(r, s).run = r /\ Recorded(r, s).model = task[r].model
    BY <2>1 DEF Recorded
  <2>5. SignalsHaveRows'
    BY <1>4, <2>1, <2>2, <2>3, <2>4 DEF SignalsHaveRows
  <2>6. SignalsTellRun'
    BY <1>4, <2>1, <2>2, <2>3, <2>4 DEF SignalsTellRun
  <2> QED
    BY <2>5, <2>6
<1> QED
  BY <1>3, <1>4, SignalsGrow

-----------------------------------------------------------------------------
(* Order on sequences of signal numbers. *)

Ascending(s) == \A i, j \in DOMAIN s : i < j => s[i] < s[j]
Before(s, t) == \A i \in DOMAIN s, j \in DOMAIN t : s[i] < t[j]
AtMost(s, n) == \A i \in DOMAIN s : s[i] <= n

LEMMA AppendAtMost ==
  ASSUME NEW s \in Seq(Nat), NEW n \in Nat, NEW e \in Nat, AtMost(s, n), n < e
  PROVE  Append(s, e) \in Seq(Nat) /\ AtMost(Append(s, e), e) /\ (Ascending(s) => Ascending(Append(s, e)))
<1>1. /\ Append(s, e) \in Seq(Nat) /\ DOMAIN Append(s, e) = 1..(Len(s) + 1) /\ DOMAIN s = 1..Len(s)
      /\ Append(s, e)[Len(s) + 1] = e /\ \A i \in 1..Len(s) : Append(s, e)[i] = s[i] /\ s[i] \in Nat
  OBVIOUS
<1> DEFINE a == Append(s, e)
<1> HIDE DEF a
<1>2. AtMost(a, e)
  BY <1>1 DEF AtMost, a
<1>3. Ascending(s) => Ascending(a)
  BY <1>1 DEF AtMost, Ascending, a
<1> QED
  BY <1>1, <1>2, <1>3 DEF a

LEMMA AppendBefore ==
  ASSUME NEW s \in Seq(Nat), NEW t \in Seq(Nat), NEW e \in Nat, Before(s, t)
  PROVE  /\ (\A j \in DOMAIN t : e < t[j]) => Before(Append(s, e), t)
         /\ (\A i \in DOMAIN s : s[i] < e) => Before(s, Append(t, e))
<1>1. /\ DOMAIN Append(s, e) = 1..(Len(s) + 1) /\ DOMAIN s = 1..Len(s) /\ Len(s) \in Nat
      /\ Append(s, e)[Len(s) + 1] = e /\ \A i \in 1..Len(s) : Append(s, e)[i] = s[i]
  OBVIOUS
<1>2. /\ DOMAIN Append(t, e) = 1..(Len(t) + 1) /\ DOMAIN t = 1..Len(t) /\ Len(t) \in Nat
      /\ Append(t, e)[Len(t) + 1] = e /\ \A i \in 1..Len(t) : Append(t, e)[i] = t[i]
  OBVIOUS
<1> DEFINE a == Append(s, e)  b == Append(t, e)
<1> HIDE DEF a, b
<1>3. ASSUME \A j \in DOMAIN t : e < t[j]
      PROVE  Before(a, t)
  BY <1>1, <1>3 DEF Before, a
<1>4. ASSUME \A i \in DOMAIN s : s[i] < e
      PROVE  Before(s, b)
  BY <1>2, <1>4 DEF Before, b
<1> QED
  BY <1>3, <1>4 DEF a, b

LEMMA TailBefore ==
  ASSUME NEW s \in Seq(Nat), s # <<>>, Ascending(s)
  PROVE  /\ Ascending(Tail(s)) /\ \A j \in DOMAIN Tail(s) : Head(s) < Tail(s)[j]
         /\ \A n \in Nat : AtMost(s, n) => AtMost(Tail(s), n) /\ Head(s) <= n
         /\ \A t \in Seq(Nat) : Before(s, t) => Before(Tail(s), t) /\ \A j \in DOMAIN t : Head(s) < t[j]
         /\ \A t \in Seq(Nat) : Before(t, s) => Before(t, Tail(s)) /\ \A j \in DOMAIN t : t[j] < Head(s)
<1>1. /\ Head(s) \in Nat /\ Tail(s) \in Seq(Nat) /\ Len(s) \in Nat \ {0} /\ Len(Tail(s)) = Len(s) - 1
      /\ Head(s) = s[1] /\ \A i \in 1..Len(Tail(s)) : Tail(s)[i] = s[i + 1]
  BY HeadTailSeq
<1>2. DOMAIN s = 1..Len(s) /\ DOMAIN Tail(s) = 1..Len(Tail(s))
  BY <1>1
<1> DEFINE h == Head(s)  u == Tail(s)
<1> HIDE DEF h, u
<1>3. \A i \in DOMAIN u : u[i] = s[i + 1] /\ i + 1 \in DOMAIN s /\ 1 < i + 1
  BY <1>1, <1>2 DEF u
<1>4. 1 \in DOMAIN s /\ h = s[1]
  BY <1>1, <1>2 DEF h
<1>5. DOMAIN u \subseteq Nat
  BY <1>2 DEF u
<1>6. Ascending(u)
  BY <1>3, <1>5 DEF Ascending
<1>7. \A j \in DOMAIN u : h < u[j]
  BY <1>3, <1>4, <1>5 DEF Ascending
<1>8. \A n \in Nat : AtMost(s, n) => AtMost(u, n) /\ h <= n
  BY <1>3, <1>4 DEF AtMost
<1>9. \A t \in Seq(Nat) : Before(s, t) => Before(u, t) /\ \A j \in DOMAIN t : h < t[j]
  BY <1>3, <1>4 DEF Before
<1>10. \A t \in Seq(Nat) : Before(t, s) => Before(t, u) /\ \A j \in DOMAIN t : t[j] < h
  BY <1>3, <1>4 DEF Before
<1> QED
  BY <1>6, <1>7, <1>8, <1>9, <1>10 DEF h, u

-----------------------------------------------------------------------------
(* The stream. *)

\* The first queue that subscriber c may receive from next.
NextQueue(c) == IF client[c].on = 0 THEN Len(queue) ELSE client[c].on

\* Queues hold persisted signals in order, and a queue only later ones than those made before it.
QueuesOrdered ==
    \A q \in DOMAIN queue :
        /\ Ascending(queue[q]) /\ AtMost(queue[q], Len(signals))
        /\ \A p \in DOMAIN queue : q < p => Before(queue[q], queue[p])

\* What a subscriber got is in order and comes before all that it can still get.
ClientsBehind ==
    \A c \in Clients :
        /\ Ascending(client[c].got) /\ AtMost(client[c].got, Len(signals))
        /\ \A q \in DOMAIN queue : NextQueue(c) <= q => Before(client[c].got, queue[q])

Stream == QueuesOrdered /\ ClientsBehind

LEMMA StreamTypes ==
  ASSUME TypeOK
  PROVE  /\ \A q \in DOMAIN queue : queue[q] \in Seq(Nat) /\ q \in Nat
         /\ \A c \in Clients : client[c].got \in Seq(Nat) /\ client[c].on \in Nat
         /\ DOMAIN queue = 1..Len(queue) /\ Len(queue) \in Nat /\ Len(signals) \in Nat
<1>1. \A s \in Seq(1..MaxSignals) : s \in Seq(Nat)
  BY BoundsType
<1>2. queue \in Seq(Seq(1..MaxSignals))
  BY TypeParts DEF QueueType
<1>3. \A c \in Clients : client[c].got \in Seq(1..MaxSignals) /\ client[c].on \in Nat
  BY TypeParts DEF ClientRow
<1>4. Len(signals) \in Nat
  BY TypeParts DEF SignalsType
<1> QED
  BY <1>1, <1>2, <1>3, <1>4

\* A new queue is empty, and nobody went past it.
LEMMA QueueAppendedStream ==
  ASSUME TypeOK, Control, Stream, queue' = Append(queue, <<>>), UNCHANGED signals,
         \A c \in Clients : client'[c].got = client[c].got,
         \A c \in Clients : client'[c].on = client[c].on \/ client'[c].on = Len(queue) + 1
  PROVE  Stream'
<1>1. /\ DOMAIN queue' = 1..(Len(queue) + 1) /\ Len(queue') = Len(queue) + 1
      /\ queue'[Len(queue) + 1] = <<>> /\ \A q \in DOMAIN queue : queue'[q] = queue[q]
      /\ DOMAIN queue = 1..Len(queue) /\ Len(queue) \in Nat
  BY QueueAppended, StreamTypes
<1>2. \A s : Before(s, <<>>) /\ AtMost(<<>>, Len(signals)) /\ Ascending(<<>>)
  BY DEF Before, AtMost, Ascending
<1>3. QueuesOrdered'
  BY <1>1, <1>2 DEF Stream, QueuesOrdered
<1>4. ClientsBehind'
  <2>1. SUFFICES ASSUME NEW c \in Clients, NEW q \in DOMAIN queue', NextQueue(c)' <= q
                 PROVE  Before(client'[c].got, queue'[q])
    BY DEF Stream, ClientsBehind
  <2>2. CASE q = Len(queue) + 1
    BY <1>1, <1>2, <2>2
  <2>3. CASE q # Len(queue) + 1
    <3>1. q \in DOMAIN queue /\ q <= Len(queue)
      BY <1>1, <2>1, <2>3
    <3>2. client'[c].on = client[c].on /\ NextQueue(c) <= q
      BY <1>1, <2>1, <3>1, StreamTypes DEF NextQueue
    <3> QED
      BY <1>1, <3>1, <3>2 DEF Stream, ClientsBehind
  <2> QED
    BY <2>2, <2>3
<1> QED
  BY <1>3, <1>4 DEF Stream

\* The newest signal has the largest number and goes to the newest queue.
LEMMA EmitStream ==
  ASSUME TypeOK, Control, Stream, NEW r \in Runs, NEW s \in task[r].todo,
         Live(r), ~task[r].cancel, Emit(r, s), UNCHANGED client
  PROVE  Stream'
<1> DEFINE n == Len(queue)  e == Len(signals')
<1>1. /\ e = Len(signals) + 1 /\ DOMAIN queue = 1..n /\ DOMAIN queue' = 1..n /\ n \in Nat \ {0}
      /\ e \in Nat /\ Len(queue') = n
      /\ \A q \in 1..(n - 1) : queue'[q] = queue[q]
      /\ queue'[n] = queue[n] \/ queue'[n] = Append(queue[n], e)
  <2>1. Current /\ LiveIsCurrent
    BY DEF Control
  <2>2. /\ e = Len(signals) + 1 /\ n \in Nat \ {0} /\ Len(queue') = n
        /\ \A q \in 1..(n - 1) : queue'[q] = queue[q]
        /\ queue'[n] = queue[n] \/ queue'[n] = Append(queue[n], e)
    BY <2>1, EmitEffect
  <2>3. queue' \in Seq(Seq(1..MaxSignals))
    BY <2>1, EmitEffect
  <2>4. DOMAIN queue' = 1..Len(queue')
    BY <2>3
  <2>5. DOMAIN queue = 1..n /\ Len(signals) \in Nat
    BY StreamTypes
  <2> QED
    BY <2>2, <2>4, <2>5
<1> HIDE DEF n, e
<1>2. \A q \in 1..n : queue[q] \in Seq(Nat) /\ Ascending(queue[q]) /\ AtMost(queue[q], Len(signals))
  BY <1>1, StreamTypes DEF Stream, QueuesOrdered
<1>3. \A q \in 1..n : AtMost(queue[q], e) /\ \A i \in DOMAIN queue[q] : queue[q][i] < e
  <2>1. SUFFICES ASSUME NEW q \in 1..n, NEW i \in DOMAIN queue[q]
                 PROVE  queue[q][i] <= e /\ queue[q][i] < e
    BY DEF AtMost
  <2>2. queue[q][i] <= Len(signals) /\ queue[q][i] \in Nat
    BY <1>2 DEF AtMost
  <2> QED
    BY <1>1, <2>2, StreamTypes
<1>4. \A c \in Clients : AtMost(client[c].got, e) /\ \A i \in DOMAIN client[c].got : client[c].got[i] < e
  <2>1. SUFFICES ASSUME NEW c \in Clients, NEW i \in DOMAIN client[c].got
                 PROVE  client[c].got[i] <= e /\ client[c].got[i] < e
    BY DEF AtMost
  <2>2. client[c].got[i] <= Len(signals) /\ client[c].got[i] \in Nat
    BY StreamTypes DEF Stream, ClientsBehind, AtMost
  <2> QED
    BY <1>1, <2>2, StreamTypes
<1>5. Ascending(queue'[n]) /\ AtMost(queue'[n], e)
  <2>1. n \in 1..n /\ Len(signals) < e /\ Len(signals) \in Nat
    BY <1>1, StreamTypes
  <2>2. Ascending(Append(queue[n], e)) /\ AtMost(Append(queue[n], e), e)
    BY <1>1, <1>2, <2>1, AppendAtMost
  <2> QED
    BY <1>1, <1>2, <1>3, <2>1, <2>2
<1>6. ASSUME NEW t \in Seq(Nat), Before(t, queue[n]), \A i \in DOMAIN t : t[i] < e
      PROVE  Before(t, queue'[n])
  <2>1. queue[n] \in Seq(Nat)
    BY <1>1, <1>2
  <2> QED
    BY <1>1, <1>6, <2>1, AppendBefore
<1>7. QueuesOrdered'
  <2>1. SUFFICES ASSUME NEW q \in 1..n
                 PROVE  /\ Ascending(queue'[q]) /\ AtMost(queue'[q], e)
                        /\ \A p \in 1..n : q < p => Before(queue'[q], queue'[p])
    BY <1>1 DEF QueuesOrdered, e
  <2>2. CASE q = n
    BY <1>1, <1>5, <2>2
  <2>3. CASE q # n
    <3>1. q \in 1..(n - 1) /\ queue'[q] = queue[q]
      BY <1>1, <2>3
    <3>2. \A p \in 1..n : q < p => Before(queue[q], queue[p])
      BY <1>1 DEF Stream, QueuesOrdered
    <3>3. Before(queue[q], queue'[n])
      <4>1. n \in 1..n /\ q < n /\ queue[q] \in Seq(Nat) /\ \A i \in DOMAIN queue[q] : queue[q][i] < e
        BY <1>1, <1>2, <1>3, <3>1
      <4>2. Before(queue[q], queue[n])
        BY <3>2, <4>1
      <4> QED
        BY <1>6, <4>1, <4>2
    <3>4. \A p \in 1..n : q < p => Before(queue[q], queue'[p])
      BY <1>1, <3>2, <3>3
    <3> QED
      BY <1>2, <1>3, <3>1, <3>4
  <2> QED
    BY <2>2, <2>3
<1>8. ClientsBehind'
  <2>1. SUFFICES ASSUME NEW c \in Clients
                 PROVE  /\ Ascending(client[c].got) /\ AtMost(client[c].got, e)
                        /\ \A q \in 1..n : NextQueue(c)' <= q => Before(client[c].got, queue'[q])
    BY <1>1 DEF ClientsBehind, e
  <2>2. NextQueue(c)' = NextQueue(c)
    BY <1>1 DEF NextQueue, n
  <2>3. \A q \in 1..n : NextQueue(c) <= q => Before(client[c].got, queue[q])
    BY <1>1 DEF Stream, ClientsBehind
  <2>4. NextQueue(c) <= n => Before(client[c].got, queue'[n])
    <3>1. SUFFICES ASSUME NextQueue(c) <= n
                   PROVE  Before(client[c].got, queue'[n])
      OBVIOUS
    <3>2. n \in 1..n /\ client[c].got \in Seq(Nat)
      BY <1>1, StreamTypes
    <3>3. Before(client[c].got, queue[n])
      BY <2>3, <3>1, <3>2
    <3> QED
      BY <1>4, <1>6, <3>2, <3>3
  <2>5. \A q \in 1..n : NextQueue(c) <= q => Before(client[c].got, queue'[q])
    BY <1>1, <2>3, <2>4
  <2> QED
    BY <1>4, <2>2, <2>5 DEF Stream, ClientsBehind
<1> QED
  BY <1>7, <1>8 DEF Stream

\* The head of a queue comes before its tail, and before the queues made later.
LEMMA ReceiveStream ==
  ASSUME TypeOK, Control, Stream, NEW c \in Clients, Receive(c)
  PROVE  Stream'
<1> DEFINE k == client[c].on  hd == Head(queue[k])
<1>1. /\ k \in DOMAIN queue /\ queue[k] # <<>> /\ k # 0
      /\ DOMAIN queue' = DOMAIN queue /\ Len(queue') = Len(queue)
      /\ queue'[k] = Tail(queue[k]) /\ \A p \in DOMAIN queue \ {k} : queue'[p] = queue[p]
      /\ client'[c] = [on |-> 0, got |-> Append(client[c].got, hd)]
      /\ \A d \in Clients \ {c} : client'[d] = client[d]
  <2>1. Current /\ client[c].on <= Len(queue)
    BY DEF Control, ClientsWait
  <2> QED
    BY <2>1, ReceiveEffect DEF Receive
<1>2. client'[c].on = 0 /\ client'[c].got = Append(client[c].got, hd)
  BY <1>1
<1>3. UNCHANGED signals
  BY DEF Receive
<1>4. queue[k] \in Seq(Nat) /\ Ascending(queue[k]) /\ AtMost(queue[k], Len(signals)) /\ hd \in Nat
  <2>1. queue[k] \in Seq(Nat) /\ Ascending(queue[k]) /\ AtMost(queue[k], Len(signals))
    BY <1>1, StreamTypes DEF Stream, QueuesOrdered
  <2> QED
    BY <1>1, <2>1, HeadTailSeq
<1>5. /\ Ascending(queue'[k]) /\ AtMost(queue'[k], Len(signals)) /\ hd <= Len(signals)
      /\ \A j \in DOMAIN queue'[k] : hd < queue'[k][j]
      /\ \A t \in Seq(Nat) : Before(queue[k], t) => Before(queue'[k], t) /\ \A j \in DOMAIN t : hd < t[j]
      /\ \A t \in Seq(Nat) : Before(t, queue[k]) => Before(t, queue'[k]) /\ \A j \in DOMAIN t : t[j] < hd
  BY <1>1, <1>4, TailBefore, StreamTypes
<1> HIDE DEF k, hd
<1>6. \A q \in DOMAIN queue : queue[q] \in Seq(Nat) /\ q \in Nat /\ Len(queue) \in Nat /\ q <= Len(queue)
  BY StreamTypes
<1>7. queue'[k] \in Seq(Nat)
  BY <1>1, <1>4, HeadTailSeq
<1>8. QueuesOrdered'
  <2>1. SUFFICES ASSUME NEW q \in DOMAIN queue, NEW p \in DOMAIN queue
                 PROVE  /\ Ascending(queue'[q]) /\ AtMost(queue'[q], Len(signals))
                        /\ q < p => Before(queue'[q], queue'[p])
    BY <1>1, <1>3 DEF QueuesOrdered
  <2>2. Ascending(queue'[q]) /\ AtMost(queue'[q], Len(signals))
    BY <1>1, <1>5 DEF Stream, QueuesOrdered
  <2>3. ASSUME q < p PROVE Before(queue'[q], queue'[p])
    <3>1. Before(queue[q], queue[p])
      BY <2>3 DEF Stream, QueuesOrdered
    <3>2. p # q
      BY <1>6, <2>3
    <3> QED
      <4>1. CASE q = k
        <5>1. Before(queue'[k], queue[p]) /\ queue'[p] = queue[p]
          BY <1>1, <1>5, <1>6, <3>1, <3>2, <4>1
        <5> QED
          BY <4>1, <5>1
      <4>2. CASE p = k
        <5>1. Before(queue[q], queue'[k]) /\ queue'[q] = queue[q]
          BY <1>1, <1>5, <1>6, <3>1, <3>2, <4>2
        <5> QED
          BY <4>2, <5>1
      <4>3. CASE q # k /\ p # k
        BY <1>1, <3>1, <4>3
      <4> QED
        BY <4>1, <4>2, <4>3
  <2> QED
    BY <2>2, <2>3
<1>9. ASSUME NEW d \in Clients, NEW q \in DOMAIN queue, Before(client[d].got, queue[q])
      PROVE  Before(client[d].got, queue'[q])
  BY <1>1, <1>5, <1>9, StreamTypes
<1>10. ClientsBehind'
  <2>1. SUFFICES ASSUME NEW d \in Clients
                 PROVE  /\ Ascending(client'[d].got) /\ AtMost(client'[d].got, Len(signals))
                        /\ \A q \in DOMAIN queue : NextQueue(d)' <= q => Before(client'[d].got, queue'[q])
    BY <1>1, <1>3 DEF ClientsBehind
  <2>2. CASE d # c
    <3>1. client'[d] = client[d] /\ NextQueue(d)' = NextQueue(d)
      BY <1>1, <2>2 DEF NextQueue
    <3> QED
      BY <1>9, <3>1 DEF Stream, ClientsBehind
  <2>3. CASE d = c
    <3> DEFINE g == client[c].got
    <3>1. g \in Seq(Nat) /\ Ascending(g) /\ AtMost(g, Len(signals))
      BY StreamTypes DEF Stream, ClientsBehind
    <3>2. \A q \in DOMAIN queue : k <= q => Before(g, queue[q])
      BY <1>1 DEF Stream, ClientsBehind, NextQueue, k
    <3> HIDE DEF g
    <3>3. \A i \in DOMAIN g : g[i] < hd
      <4>1. k <= k
        BY <1>1, <1>6
      <4>2. Before(g, queue[k])
        BY <1>1, <3>2, <4>1
      <4> QED
        BY <1>5, <3>1, <4>2
    <3>4. Ascending(Append(g, hd)) /\ AtMost(Append(g, hd), hd) /\ Append(g, hd) \in Seq(Nat)
      <4>1. CASE hd = 0
        <5>1. ASSUME NEW i \in DOMAIN g PROVE FALSE
          <6>1. g[i] \in Nat
            BY <3>1
          <6>2. g[i] < 0
            BY <3>3, <4>1
          <6> QED
            BY <6>1, <6>2
        <5>2. g = <<>>
          BY <3>1, <5>1
        <5> QED
          BY <1>4, <5>2 DEF Ascending, AtMost
      <4>2. CASE hd # 0
        <5>1. hd - 1 \in Nat /\ hd - 1 < hd
          BY <1>4, <4>2
        <5>2. AtMost(g, hd - 1)
          <6>1. \A i \in DOMAIN g : g[i] \in Nat
            BY <3>1
          <6> QED
            BY <1>4, <3>3, <6>1 DEF AtMost
        <5> QED
          BY <1>4, <3>1, <5>1, <5>2, AppendAtMost
      <4> QED
        BY <4>1, <4>2
    <3>5. AtMost(Append(g, hd), Len(signals))
      <4>1. \A i \in DOMAIN Append(g, hd) : Append(g, hd)[i] <= hd /\ Append(g, hd)[i] \in Nat
        BY <3>4 DEF AtMost
      <4> QED
        BY <1>4, <1>5, <4>1, StreamTypes DEF AtMost
    <3>6. ASSUME NEW q \in DOMAIN queue, Len(queue) <= q
          PROVE  Before(Append(g, hd), queue'[q])
      <4>1. q = Len(queue) /\ k <= q
        BY <1>1, <1>6, <3>6
      <4>2. Before(g, queue'[q])
        BY <1>9, <3>2, <4>1 DEF g
      <4>3. queue'[q] \in Seq(Nat) /\ \A j \in DOMAIN queue'[q] : hd < queue'[q][j]
        <5>1. CASE q = k
          BY <1>5, <1>7, <5>1
        <5>2. CASE q # k
          <6>1. k < q
            BY <1>1, <1>6, <4>1, <5>2
          <6>2. Before(queue[k], queue[q])
            BY <1>1, <6>1 DEF Stream, QueuesOrdered
          <6> QED
            BY <1>1, <1>5, <1>6, <5>2, <6>2
        <5> QED
          BY <5>1, <5>2
      <4> QED
        BY <1>4, <3>1, <4>2, <4>3, AppendBefore
    <3>7. client'[d].got = Append(g, hd) /\ NextQueue(d)' = Len(queue)
      BY <1>1, <1>2, <2>3 DEF NextQueue, g
    <3> QED
      BY <3>4, <3>5, <3>6, <3>7
  <2> QED
    BY <2>2, <2>3
<1> QED
  BY <1>8, <1>10 DEF Stream

LEMMA SubscribeStream ==
  ASSUME TypeOK, Control, Stream, NEW c \in Clients, Subscribe(c)
  PROVE  Stream'
<1>1. /\ client[c].on = 0 /\ UNCHANGED signals
      /\ client'[c].on = scanner'.queue
      /\ \A d \in Clients : client'[d].got = client[d].got
      /\ \A d \in Clients \ {c} : client'[d].on = client[d].on
  BY TypeParts DEF Subscribe, ClientRow
<1>2. CASE scanner.queue # 0
  <2>1. UNCHANGED queue /\ client'[c].on = Len(queue) /\ Len(queue) # 0
    BY <1>1, <1>2 DEF Subscribe, Control, Current
  <2>2. \A d \in Clients : NextQueue(d)' = NextQueue(d)
    BY <1>1, <2>1 DEF NextQueue
  <2> QED
    BY <1>1, <2>1, <2>2 DEF Stream, QueuesOrdered, ClientsBehind
<1>3. CASE scanner.queue = 0
  <2>1. queue' = Append(queue, <<>>) /\ scanner'.queue = Len(queue) + 1
    BY <1>3, TypeParts DEF Subscribe, ScannerRow
  <2> QED
    BY <1>1, <2>1, QueueAppendedStream
<1> QED
  BY <1>2, <1>3

LEMMA StepStream == TypeOK /\ Control /\ Stream /\ [Next]_vars => Stream'
<1> SUFFICES ASSUME TypeOK, Control, Stream, [Next]_vars
             PROVE  Stream'
  OBVIOUS
<1>1. CASE Start \/ StartFails
  BY <1>1, QueueAppendedStream DEF Start, StartFails, Starting
<1>2. CASE Crash
  <2>1. queue' = <<>> /\ UNCHANGED signals /\ \A c \in Clients : client'[c].got = client[c].got
    BY <1>2, TypeParts DEF Crash, ClientRow
  <2> QED
    BY <2>1 DEF Stream, QueuesOrdered, ClientsBehind
<1>3. CASE UNCHANGED <<signals, queue, client>>
  BY <1>3 DEF Stream, QueuesOrdered, ClientsBehind, NextQueue
<1>4. ASSUME NEW h \in Stops, StopWaits(h) \/ StopAtOnce(h) \/ StopResumes(h)
      PROVE  Stream'
  BY <1>3, <1>4 DEF StopWaits, StopAtOnce, StopResumes
<1>5. ASSUME NEW r \in Runs, TaskStep(r)
      PROVE  Stream'
  <2>1. CASE ScoreKnown(r) \/ Hydrated(r)
    <3>1. Live(r) /\ ~task[r].cancel /\ UNCHANGED client
      BY <2>1 DEF ScoreKnown, Hydrated, At, Live, Waiting, Unasked
    <3>2. PICK s \in task[r].todo : Emit(r, s)
      BY <2>1 DEF ScoreKnown, Hydrated
    <3> QED
      BY <3>1, <3>2, EmitStream
  <2>2. CASE ~ScoreKnown(r) /\ ~Hydrated(r)
    BY <1>3, <1>5, <2>2 DEF TaskStep, Cancelled, NoKey, Poll, QuotesArrive, ScoreUnknown, StepFails, Error, Unasked
  <2> QED
    BY <2>1, <2>2
<1>6. ASSUME NEW c \in Clients, Subscribe(c) \/ Receive(c)
      PROVE  Stream'
  BY <1>6, SubscribeStream, ReceiveStream
<1>7. CASE UNCHANGED vars
  BY <1>3, <1>7 DEF vars
<1> QED
  BY <1>1, <1>2, <1>4, <1>5, <1>6, <1>7 DEF Next

-----------------------------------------------------------------------------
(* The invariant and what follows from it. *)

Inv == TypeOK /\ Control /\ SignalsHaveRows /\ SignalsTellRun /\ Stream

LEMMA InitInv == Init => Inv
<1> SUFFICES ASSUME Init
             PROVE  Inv
  OBVIOUS
<1>1. TypeOK
  BY InitTypeOK
<1>2. Control
  <2>1. /\ scanner.task = 0 /\ scanner.run = 0 /\ scanner.queue = 0 /\ queue = <<>>
        /\ \A r \in Runs : /\ task[r].at = "none" /\ ~task[r].cancel /\ row[r].status = "none"
                           /\ task[r].model = row[r].model
        /\ \A h \in Stops : stops[h] = None
        /\ \A c \in Clients : client[c].on = 0
    BY DEF Init, Fresh, None
  <2>2. RunsInOrder
    <3>1. 0 \in 0..MaxRuns /\ \A r \in Runs : ~(r <= 0)
      BY BoundsType DEF Runs
    <3>2. \A r \in Runs : row[r].status # "none" <=> r <= 0
      BY <2>1, <3>1
    <3> QED
      BY <3>1, <3>2 DEF RunsInOrder
  <2> QED
    BY <2>1, <2>2, SMTT(30) DEF Control, Current, RowsAndTasks, LiveIsCurrent, CancelAwaited, StopsAwait, FailedExcused,
                      RunRowsExplained, ClientsWait, Live, Waiting, None
<1>3. signals = <<>> /\ queue = <<>> /\ \A c \in Clients : client[c].got = <<>>
  BY DEF Init
<1>4. SignalsHaveRows /\ SignalsTellRun
  BY <1>3 DEF SignalsHaveRows, SignalsTellRun
<1>5. Stream
  BY <1>3 DEF Stream, QueuesOrdered, ClientsBehind, Ascending, AtMost
<1> QED
  BY <1>1, <1>2, <1>4, <1>5 DEF Inv

LEMMA StepInv == Inv /\ [Next]_vars => Inv'
  BY StepTypeOK, StepControl, StepSignals, StepStream DEF Inv

\* The conjunction is inductive: it holds at first and every step keeps it.
THEOREM Invariant == Spec => []Inv
  BY InitInv, StepInv, PTL DEF Spec

\* Every variable has its type: no index leaves its table, no queue grows past its size.
THEOREM TypeCorrect == Spec => []TypeOK
  BY Invariant, PTL DEF Inv

\* scanner_runs says "running" of the runs whose task still polls and of no other, but for
\* the runs excused: start, stop and _run of ScannerState, however they interleave.
THEOREM RunRowsExplainedHolds == Spec => []RunRowsExplained
<1>1. Inv => RunRowsExplained
  BY DEF Inv, Control
<1> QED
  BY <1>1, Invariant, PTL

\* A persisted signal was scored with the model that the row of its run names: _run writes
\* under scanner_run_id, which a start may replace while an older task ends.
THEOREM SignalsTellRunHolds == Spec => []SignalsTellRun
<1>1. Inv => SignalsTellRun
  BY DEF Inv
<1> QED
  BY <1>1, Invariant, PTL

\* A subscriber gets signals in the order of their upserts and none twice, over any number of
\* restarts of the scanner and of the server (stream, and the queue that start makes).
THEOREM StreamOrderHolds == Spec => []StreamOrder
<1>1. Inv => StreamOrder
  BY DEF Inv, Stream, ClientsBehind, Ascending, StreamOrder
<1> QED
  BY <1>1, Invariant, PTL
===============================================================================
