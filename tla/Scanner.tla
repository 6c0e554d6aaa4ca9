-------------------------------- MODULE Scanner --------------------------------
(***************************************************************************)
(* The live scanner of the API server: one ScannerState on one event loop, *)
(* the task that polls quotes, the queue it streams to, and what the       *)
(* database keeps of it (scanner_runs, live_signals, bars).                *)
(*                                                                         *)
(* Everything between two awaits is one step.  The requests that start and *)
(* stop the scanner, the task and the subscribers interleave at the awaits;*)
(* a statement may fail, the task may be cancelled where it waits, and the *)
(* server may die, which loses the state and keeps the tables.             *)
(***************************************************************************)
EXTENDS Naturals, Sequences, FiniteSets, SequencesExt

CONSTANTS
    Symbols,    \* symbols the provider quotes
    Models,     \* model versions, any of which may be active when the scanner starts
    Stops,      \* concurrent requests to stop
    Clients,    \* subscribers of the stream
    QueueSize,  \* maxsize of the queue (500 in the code)
    MaxRuns,    \* bound on scanner runs
    MaxSignals, \* bound on signals
    MaxFaults   \* bound on the failures nothing in the code recovers from, crashes among them

ASSUME BoundsAssumption ==
    {QueueSize, MaxRuns, MaxSignals} \subseteq Nat \ {0} /\ MaxFaults \in Nat
ASSUME ModelsAssumption == Models # {}

Runs == 1..MaxRuns
None == 0

VARIABLES
    scanner, \* the ScannerState: running, run (scanner_run_id), task, queue
    task,    \* the tasks, named by the run they were started for
    stops,   \* what each stop request is doing
    row,     \* scanner_runs
    signals, \* live_signals, in the order of their upserts
    queue,   \* the asyncio queues, by the number of the start that made them
    client,  \* the queue each subscriber waits on and what it got
    context, \* the symbols with enough bars in context_bars: they are not fetched again
    stored,  \* the symbols with enough bars in the database
    env,     \* whether there is an API key, failures so far
    excused  \* history: the runs whose row may say something else than their task

vars == <<scanner, task, stops, row, signals, queue, client, context, stored, env, excused>>

Done == {"ended", "cancelled", "failed", "gone"}
Waiting == {"new", "quotes", "score", "hydrate", "sleep"}
Live(r) == task[r].at \in Waiting
Signal == [run : Runs, model : Models, symbol : Symbols]

TypeOK ==
    /\ scanner \in [running : BOOLEAN, run : 0..MaxRuns, task : 0..MaxRuns, queue : Nat]
    /\ task \in [Runs -> [at : Done \union Waiting \union {"none"}, model : Models,
                          todo : SUBSET Symbols, cancel : BOOLEAN]]
    /\ stops \in [Stops -> 0..MaxRuns]
    /\ row \in [Runs -> [status : {"none", "running", "stopped", "error"}, model : Models]]
    /\ signals \in Seq(Signal) /\ Len(signals) <= MaxSignals
    /\ queue \in Seq(Seq(1..MaxSignals)) /\ \A q \in DOMAIN queue : Len(queue[q]) <= QueueSize
    /\ client \in [Clients -> [on : Nat, got : Seq(1..MaxSignals)]]
    /\ context \subseteq Symbols /\ stored \subseteq Symbols
    /\ env \in [key : BOOLEAN, faults : 0..MaxFaults]
    /\ excused \subseteq Runs

AnyModel == CHOOSE m \in Models : TRUE
Fresh == [running |-> FALSE, run |-> None, task |-> None, queue |-> 0]

Init ==
    /\ scanner = Fresh
    /\ stops = [h \in Stops |-> None]
    /\ signals = <<>> /\ queue = <<>>
    /\ client = [c \in Clients |-> [on |-> 0, got |-> <<>>]]
    /\ context = {} /\ stored = {}
    /\ env \in [key : BOOLEAN, faults : {0}]
    /\ task = [r \in Runs |-> [at |-> "none", model |-> AnyModel, todo |-> {}, cancel |-> FALSE]]
    /\ row = [r \in Runs |-> [status |-> "none", model |-> AnyModel]]
    /\ excused = {}

Fault == env.faults < MaxFaults /\ env' = [env EXCEPT !.faults = @ + 1]
NoFault == env' = env

\* Mutant: the update matches no row.
FinishRowLost(r, status) == row' = row

\* ScannerRunRepository.finish: one UPDATE of the row of the run, whatever it says.
FinishRow(r, status) == row' = IF r = None THEN row ELSE [row EXCEPT ![r].status = status]

\* ScannerRunRepository.start.
NewRow(r, m) == [row EXCEPT ![r] = [status |-> "running", model |-> m]]

-----------------------------------------------------------------------------
(* Requests. *)

NextRun == CHOOSE r \in Runs : row[r].status = "none" /\ \A s \in 1..(r - 1) : row[s].status # "none"
CanRun == \E r \in Runs : row[r].status = "none"

\* A stop waits for its task: the run that starts now is the one it will finish.
Overtakes == \E h \in Stops : stops[h] # None

\* start() up to the creation of the queue.
Starting == ~scanner.running /\ CanRun /\ queue' = Append(queue, <<>>)

Start ==
    /\ Starting /\ NoFault
    /\ \E m \in Models : LET r == NextRun IN
        /\ scanner' = [running |-> TRUE, run |-> r, task |-> r, queue |-> Len(queue) + 1]
        /\ row' = NewRow(r, m)
        /\ task' = [task EXCEPT ![r].at = "new", ![r].model = m]
        /\ excused' = IF Overtakes THEN excused \union {r, scanner.run} ELSE excused
    /\ UNCHANGED <<stops, signals, client, context, stored>>

\* The INSERT of the run fails after running was set: no new run, no task.
StartFails ==
    /\ Starting /\ Fault
    /\ scanner' = [scanner EXCEPT !.running = TRUE, !.queue = Len(queue) + 1]
    /\ UNCHANGED <<task, stops, row, signals, client, context, stored, excused>>

\* What follows the await of the task in stop(): it raises what the task raised,
\* or else finishes the run that is the current one by now.
Finishing(t) ==
    IF (IF t = None THEN FALSE ELSE task[t].at = "failed") THEN NoFault /\ UNCHANGED <<row, excused>>
    ELSE \/ NoFault /\ FinishRow(scanner.run, "stopped") /\ UNCHANGED excused
         \/ /\ scanner.run # None /\ Fault /\ UNCHANGED row
            /\ excused' = excused \union {scanner.run}

Busy == IF scanner.task = None THEN FALSE ELSE Live(scanner.task)

\* Mutant: the task is awaited and not cancelled.
StopWaitsOnly(h) ==
    /\ stops[h] = None /\ Busy
    /\ scanner' = [scanner EXCEPT !.running = FALSE]
    /\ stops' = [stops EXCEPT ![h] = scanner.task]
    /\ UNCHANGED <<task, row, signals, queue, client, context, stored, env, excused>>

\* stop(), when there is a task to wait for: it is cancelled where it waits.
StopWaits(h) ==
    /\ stops[h] = None /\ Busy
    /\ scanner' = [scanner EXCEPT !.running = FALSE]
    /\ task' = [task EXCEPT ![scanner.task].cancel = TRUE]
    /\ stops' = [stops EXCEPT ![h] = scanner.task]
    /\ UNCHANGED <<row, signals, queue, client, context, stored, env, excused>>

StopAtOnce(h) ==
    /\ stops[h] = None /\ ~Busy
    /\ scanner' = [scanner EXCEPT !.running = FALSE]
    /\ Finishing(scanner.task)
    /\ UNCHANGED <<task, stops, signals, queue, client, context, stored>>

StopResumes(h) ==
    /\ stops[h] # None /\ task[stops[h]].at \in Done
    /\ Finishing(stops[h])
    /\ stops' = [stops EXCEPT ![h] = None]
    /\ UNCHANGED <<scanner, task, signals, queue, client, context, stored>>

-----------------------------------------------------------------------------
(* The task: _run, score_quote and _hydrate_context. *)

Unasked == UNCHANGED <<stops, client>>
At(r, where) == task[r].at = where /\ ~task[r].cancel
Goes(r, where) == task' = [task EXCEPT ![r].at = where, ![r].todo = {}]

\* Mutant: the cancellation is handled as an error of the provider.
CancelledSwallowed(r) ==
    /\ Live(r) /\ task[r].cancel
    /\ task' = [task EXCEPT ![r].at = "sleep", ![r].cancel = FALSE]
    /\ UNCHANGED <<scanner, row, signals, queue, context, stored, env, excused>> /\ Unasked

\* The task learns of the cancellation at its next step, wherever it is.
Cancelled(r) ==
    /\ Live(r) /\ task[r].cancel
    /\ Goes(r, "cancelled")
    /\ UNCHANGED <<scanner, row, signals, queue, context, stored, env, excused>> /\ Unasked

NoKey(r) ==
    /\ At(r, "new") /\ ~env.key
    /\ scanner' = [scanner EXCEPT !.running = FALSE]
    /\ \/ NoFault /\ FinishRow(scanner.run, "error") /\ Goes(r, "ended") /\ UNCHANGED excused
       \/ /\ Fault /\ Goes(r, "failed") /\ UNCHANGED row
          /\ excused' = excused \union {r}
    /\ UNCHANGED <<signals, queue, context, stored>> /\ Unasked

Poll(r) ==
    /\ (At(r, "new") /\ env.key) \/ At(r, "sleep")
    /\ Goes(r, IF scanner.running THEN "quotes" ELSE "ended")
    /\ UNCHANGED <<scanner, row, signals, queue, context, stored, env, excused>> /\ Unasked

\* The handler records the error and sleeps, unless recording fails as well.
Error(r) ==
    /\ \/ NoFault /\ Goes(r, "sleep") /\ UNCHANGED excused
       \/ /\ Fault /\ Goes(r, "failed")
          /\ excused' = excused \union {r}
    /\ UNCHANGED <<scanner, row, signals, queue, context, stored>> /\ Unasked

QuotesArrive(r) ==
    /\ At(r, "quotes") /\ NoFault
    /\ \E todo \in SUBSET Symbols :
        task' = [task EXCEPT ![r].at = IF todo = {} THEN "sleep" ELSE "score", ![r].todo = todo]
    /\ UNCHANGED <<scanner, row, signals, queue, context, stored, excused>> /\ Unasked

\* LiveSignalRepository.upsert_many.
Persisted(run, m, s) == Append(signals, [run |-> run, model |-> m, symbol |-> s])

Room == Len(queue[scanner.queue]) < QueueSize

\* The signal is persisted under the current run, and queued if there is room.
Emit(r, s) ==
    /\ Len(signals) < MaxSignals
    /\ signals' = Persisted(scanner.run, task[r].model, s)
    /\ queue' = IF Room
                THEN [queue EXCEPT ![scanner.queue] = Append(@, Len(signals) + 1)] ELSE queue
    /\ LET rest == task[r].todo \ {s} IN
        task' = [task EXCEPT ![r].at = IF rest = {} THEN "sleep" ELSE "score", ![r].todo = rest]

\* The context is cached, or enough of it is persisted.
ScoreKnown(r) ==
    /\ At(r, "score") /\ NoFault
    /\ \E s \in task[r].todo :
        /\ s \in context \union stored
        /\ context' = context \union {s}
        /\ Emit(r, s)
    /\ UNCHANGED <<scanner, row, stored, excused>> /\ Unasked

ScoreUnknown(r) ==
    /\ At(r, "score")
    /\ ~ task[r].todo \subseteq context \union stored
    /\ task' = [task EXCEPT ![r].at = "hydrate"]
    /\ UNCHANGED <<scanner, row, signals, queue, context, stored, env, excused>> /\ Unasked

\* The bars arrive, enough of them or too few, and are persisted.
Hydrated(r) ==
    /\ At(r, "hydrate") /\ NoFault
    /\ \E s \in task[r].todo, enough \in BOOLEAN :
        /\ s \notin context \union stored
        /\ context' = IF enough THEN context \union {s} ELSE context
        /\ stored' = IF enough THEN stored \union {s} ELSE stored
        /\ Emit(r, s)
    /\ UNCHANGED <<scanner, row, excused>> /\ Unasked

\* The provider does not answer, or a statement of the step fails.
StepFails(r) == (At(r, "quotes") \/ At(r, "score") \/ At(r, "hydrate")) /\ Error(r)

-----------------------------------------------------------------------------
(* Subscribers and the machine. *)

\* stream(): a subscriber waits on the queue there is, or on one it makes, and goes on
\* waiting on it when a start replaces it.
Subscribe(c) ==
    /\ client[c].on = 0
    /\ IF scanner.queue # 0 THEN UNCHANGED <<queue, scanner>>
       ELSE queue' = Append(queue, <<>>) /\ scanner' = [scanner EXCEPT !.queue = Len(queue) + 1]
    /\ client' = [client EXCEPT ![c].on = scanner'.queue]
    /\ UNCHANGED <<task, stops, row, signals, context, stored, env, excused>>

\* Mutant: the signal stays in the queue.
ReceivePeek(c) ==
    /\ client[c].on # 0 /\ queue[client[c].on] # <<>>
    /\ client' = [client EXCEPT ![c] = [on |-> 0, got |-> Append(@.got, Head(queue[@.on]))]]
    /\ UNCHANGED <<scanner, task, stops, row, signals, queue, context, stored, env, excused>>

Receive(c) ==
    /\ client[c].on # 0 /\ queue[client[c].on] # <<>>
    /\ client' = [client EXCEPT ![c] = [on |-> 0, got |-> Append(@.got, Head(queue[@.on]))]]
    /\ queue' = [queue EXCEPT ![client[c].on] = Tail(@)]
    /\ UNCHANGED <<scanner, task, stops, row, signals, context, stored, env, excused>>

Crash ==
    /\ Fault
    /\ scanner' = Fresh /\ stops' = [h \in Stops |-> None]
    /\ task' = [r \in Runs |-> IF Live(r) THEN [task[r] EXCEPT !.at = "gone"] ELSE task[r]]
    /\ queue' = <<>> /\ context' = {}
    /\ client' = [c \in Clients |-> [client[c] EXCEPT !.on = 0]]
    /\ excused' = excused \union {r \in Runs : row[r].status = "running"}
    /\ UNCHANGED <<row, signals, stored>>

TaskStep(r) ==
    Cancelled(r) \/ NoKey(r) \/ Poll(r) \/ QuotesArrive(r) \/ ScoreKnown(r) \/ ScoreUnknown(r)
    \/ Hydrated(r) \/ StepFails(r)

Next ==
    \/ Start \/ StartFails \/ Crash
    \/ \E h \in Stops : StopWaits(h) \/ StopAtOnce(h) \/ StopResumes(h)
    \/ \E r \in Runs : TaskStep(r)
    \/ \E c \in Clients : Subscribe(c) \/ Receive(c)

Spec == Init /\ [][Next]_vars

\* The event loop runs what is ready: a cancelled task, a stop whose task has ended.
FairSpec == Spec /\ (\A r \in Runs : WF_vars(Cancelled(r))) /\ (\A h \in Stops : WF_vars(StopResumes(h)))

-----------------------------------------------------------------------------
(* Properties. *)

\* No stop is about to finish the run, and it is not the run of a task that the stop
\* requests wait for.
Quiet(r) == \A h \in Stops : stops[h] # r

\* scanner_runs says "running" of the runs whose task still polls and of no other, unless
\* the server died, the task died of an error it could not record, the row could not be
\* written, or a start came while a stop was waiting for its task (start and stop of
\* ScannerState, _run's end without a key).
RunRowsExplained ==
    \A r \in Runs : (Quiet(r) /\ r \notin excused) => (row[r].status = "running" <=> Live(r))

\* A persisted signal was scored with the model its scanner run names: a task stopped
\* earlier never writes under the id of the run that replaced it (upsert_many in _run).
SignalsTellRun == \A i \in DOMAIN signals : signals[i].model = row[signals[i].run].model

\* A subscriber gets signals in the order in which they were persisted and none of them
\* twice, over restarts of the scanner too (stream, and the queue start makes).
StreamOrder ==
    \A c \in Clients : \A i, j \in DOMAIN client[c].got :
        i < j => client[c].got[i] < client[c].got[j]

\* A request to stop is answered: the task it cancelled ends and the stop goes on, or the
\* server died (the await of the task in stop).
StopEnds == \A h \in Stops : stops[h] # None ~> stops[h] = None
===============================================================================
