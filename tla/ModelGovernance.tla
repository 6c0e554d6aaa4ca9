--------------------------- MODULE ModelGovernance ---------------------------
(***************************************************************************)
(* How a scanner model becomes the active one: validation reports, the     *)
(* champion/challenger comparison a research cycle makes, the proposal it  *)
(* saves, the operator's approval, rejection and activation, the active    *)
(* model table, and the append-only decision ledger.                       *)
(*                                                                         *)
(* Operations run in the API server, one at a time, or, for research       *)
(* cycles, in a scheduler worker, which is another process.  An operation  *)
(* is the sequence of its commits; a process may die between two of them.  *)
(* Metrics, calibration audits, drift and review reports, dirty windows    *)
(* and the freshness of the data enter as the verdicts the gates read.     *)
(***************************************************************************)
EXTENDS Naturals, FiniteSets

CONSTANTS
    Models,       \* model versions
    ReplayAware,  \* those whose model_type is the replay-aware one
    Api,          \* the API server process
    Workers,      \* scheduler workers running research-cycle jobs
    None,
    Modes,        \* the validation modes the operator uses
    Requests,     \* the requests the operator makes
    NamedChampions, \* the champions a cycle's payload may name
    NamedReports, \* the validation_report_ids the payload of a run may name: {} is none
    MaxReports,   \* bound on validation reports
    MaxProposals, \* bound on proposals
    MaxCycles,    \* bound on research cycles
    MaxFaults     \* bound on processes that die

ASSUME ModelsAssumption ==
    ReplayAware \subseteq Models /\ NamedChampions \subseteq Models /\ None \notin Models
ASSUME ProcsAssumption == Api \notin Workers
\* A validation mode, and the purpose under which its reports are filed.
ASSUME ModesAssumption == Modes \subseteq {"label_derived", "replay", "replay_aware"}
ASSUME RequestsAssumption ==
    Requests \subseteq {"train", "validate", "approve", "reject", "activate", "direct"}
ASSUME BoundsAssumption ==
    /\ MaxReports \in Nat /\ MaxProposals \in Nat /\ MaxCycles \in Nat /\ MaxFaults \in Nat
    /\ NamedReports \subseteq SUBSET (1..MaxReports)

Procs == {Api} \union Workers
Proposals == 1..MaxProposals
Cycles == 1..MaxCycles

Types == {"replay_aware", "baseline"}
TypeOf(m) == IF m \in ReplayAware THEN "replay_aware" ELSE "baseline"

Report == [id : 1..MaxReports, model : Models, purpose : Modes, accepted : BOOLEAN]

Readiness == {"PASS", "REVIEW", "BLOCK"}
Action == {"KEEP_CHAMPION", "REVIEW_CHALLENGER", "APPROVE_CHALLENGER_FOR_ACTIVATION",
           "REJECT_CHALLENGER", "BLOCK_ALL_CHANGES"}
NonActivation == {"KEEP_CHAMPION", "REJECT_CHALLENGER", "BLOCK_ALL_CHANGES"}
ProposalStatus == {"ABSENT", "PROPOSED", "REVIEW_REQUIRED", "REJECTED",
                   "APPROVED_FOR_ACTIVATION", "ACTIVATED"}
Decision == {"PROPOSAL_CREATED", "PROPOSAL_APPROVED", "APPROVAL_BLOCKED", "PROPOSAL_REJECTED",
             "MODEL_ACTIVATION_REQUESTED", "MODEL_ACTIVATION_BLOCKED", "MODEL_ACTIVATED"}

Proposal == [status : ProposalStatus, challenger : Models \union {None}, action : Action,
             readiness : Readiness, report : 0..MaxReports, cycle : 0..MaxCycles,
             named : SUBSET (1..MaxReports)] \* history: the ids the run's payload named
NoProposal == [status |-> "ABSENT", challenger |-> None, action |-> "BLOCK_ALL_CHANGES",
               readiness |-> "REVIEW", report |-> 0, cycle |-> 0, named |-> {}]

Cycle == [status : {"ABSENT", "CREATED", "RUNNING", "BLOCKED", "COMPLETED"},
          champion : Models \union {None}, listed : SUBSET (0..MaxProposals)]
NoCycle == [status |-> "ABSENT", champion |-> None, listed |-> {}]

ActivatePc == {"activate", "activate_commit", "activate_file", "activate_save",
               "activate_ledger"}
CyclePc == {"run_save", "plan", "train_file", "train_save", "validate", "compare", "propose",
            "propose_ledger", "complete", "complete_ledger"}
Pc == {"idle", "approve_ledger", "reject_ledger", "create_ledger"}
        \union ActivatePc \union CyclePc

\* What an operation keeps between two commits; zero and None when unused.
Mem == [cycle : 0..MaxCycles, listed : SUBSET (0..MaxProposals),
        named : SUBSET (1..MaxReports), model : Models \union {None}, report : 0..MaxReports, action : Action, readiness : Readiness,
        proposal : 0..MaxProposals]
NoMem == [cycle |-> 0, listed |-> {}, named |-> {}, model |-> None, report |-> 0,
          action |-> "BLOCK_ALL_CHANGES", readiness |-> "REVIEW", proposal |-> 0]

VARIABLES
    models,     \* where a model is: nowhere, only in its file, or in model_runs
    reports,    \* validation_reports
    active,     \* active_models: per type, the model and the report it was activated on
    artifact,   \* the model in the file active_model.json
    proposals,  \* model_proposals
    ledger,     \* model_decision_ledger: the decisions recorded for a proposal
    cycles,     \* research_cycles
    cycleLedger, \* model_decision_ledger: the decisions recorded for a cycle
    pc, mem,    \* the next commit of each process, and its locals
    faults

evidence == <<models, reports>>
activation == <<active, artifact>>
vars == <<models, reports, active, artifact, proposals, ledger, cycles, cycleLedger, pc, mem,
          faults>>

TypeOK ==
    /\ models \in [Models -> {"absent", "file", "inactive", "active"}]
    /\ reports \subseteq Report
    /\ active \in [Types -> [model : Models \union {None}, report : 0..MaxReports]]
    /\ artifact \in Models \union {None}
    /\ proposals \in [Proposals -> Proposal]
    /\ ledger \in [Proposals -> SUBSET Decision]
    /\ cycles \in [Cycles -> Cycle]
    /\ cycleLedger \in [Cycles -> SUBSET {"CYCLE_CREATED", "CYCLE_COMPLETED"}]
    /\ pc \in [Procs -> Pc]
    /\ mem \in [Procs -> Mem]
    /\ faults \in 0..MaxFaults

Init ==
    /\ models = [m \in Models |-> "absent"]
    /\ reports = {}
    /\ active = [t \in Types |-> [model |-> None, report |-> 0]]
    /\ artifact = None
    /\ proposals = [i \in Proposals |-> NoProposal]
    /\ ledger = [i \in Proposals |-> {}]
    /\ cycles = [c \in Cycles |-> NoCycle]
    /\ cycleLedger = [c \in Cycles |-> {}]
    /\ pc = [p \in Procs |-> "idle"]
    /\ mem = [p \in Procs |-> NoMem]
    /\ faults = 0

-----------------------------------------------------------------------------
(***************************************************************************)
(* Reads, and the shapes of a step.                                        *)
(***************************************************************************)
InRuns(m) == models[m] \in {"inactive", "active"}

\* The newest of a set of reports (ORDER BY created_at DESC LIMIT 1): one or none.
Newest(S) == {r \in S : \A q \in S : q.id <= r.id}
ReportsOf(m) == {r \in reports : r.model = m}
Latest(m, mode) == Newest({r \in ReportsOf(m) : r.purpose = mode})

\* get_active(REPLAY_AWARE_MODEL_TYPE) or get_active()
GetActive ==
    IF active["replay_aware"].model # None THEN active["replay_aware"].model
                                           ELSE active["baseline"].model

Goto(p, l) == pc' = [pc EXCEPT ![p] = l]
Done(p) == Goto(p, "idle") /\ mem' = [mem EXCEPT ![p] = NoMem]
Record(i, decision) == ledger' = [ledger EXCEPT ![i] = @ \union {decision}]
SaveStatus(i, s) == proposals' = [proposals EXCEPT ![i].status = s]

\* Ids are handed out in the order of creation.
NextReport(id) == /\ \A r \in reports : r.id < id
                  /\ \A k \in 1..(id - 1) : \E r \in reports : r.id = k
NextProposal(i) == /\ proposals[i].status = "ABSENT"
                   /\ \A k \in 1..(i - 1) : proposals[k].status # "ABSENT"

-----------------------------------------------------------------------------
(***************************************************************************)
(* Evidence: training and validation.                                      *)
(***************************************************************************)
\* ModelRunRepository.save of a model just trained: never active, even when its
\* version, which has a resolution of one second, names an existing model.
SaveTrained(m) == models' = [models EXCEPT ![m] = "inactive"]

\* A baseline model is first written to its file by the model engine.
WriteFile(m) == models' = [models EXCEPT ![m] = IF @ = "absent" THEN "file" ELSE @]

Train(m) ==
    /\ pc[Api] = "idle"
    /\ mem' = [mem EXCEPT ![Api].model = m]
    /\ Goto(Api, IF m \in ReplayAware THEN "train_save" ELSE "train_file")
    /\ UNCHANGED <<evidence, activation, proposals, ledger, cycles, cycleLedger, faults>>

TrainFile(p) ==
    /\ pc[p] = "train_file"
    /\ WriteFile(mem[p].model)
    /\ Goto(p, "train_save")
    /\ UNCHANGED <<reports, activation, proposals, ledger, cycles, cycleLedger, mem, faults>>

\* Training in a request ends here; in a cycle the challenger is validated next.
TrainSave(p) ==
    /\ pc[p] = "train_save"
    /\ SaveTrained(mem[p].model)
    /\ IF mem[p].cycle = 0 THEN Done(p) ELSE Goto(p, "validate") /\ UNCHANGED mem
    /\ UNCHANGED <<reports, activation, proposals, ledger, cycles, cycleLedger, faults>>

\* A replay-aware validation accepts only replay-aware models that are in model_runs.
MayAccept(m, mode) == mode = "replay_aware" => m \in ReplayAware /\ InRuns(m)

SaveReport(m, mode, accepted) ==
    /\ accepted => MayAccept(m, mode)
    /\ \E id \in 1..MaxReports :
        /\ NextReport(id)
        /\ reports' = reports \union
               {[id |-> id, model |-> m, purpose |-> mode, accepted |-> accepted]}

\* POST /models/validate
Validate(m, mode, accepted) ==
    /\ pc[Api] = "idle"
    /\ SaveReport(m, mode, accepted)
    /\ UNCHANGED <<models, activation, proposals, ledger, cycles, cycleLedger, pc, mem, faults>>

-----------------------------------------------------------------------------
(***************************************************************************)
(* ModelProposalService: approve, reject.                                  *)
(***************************************************************************)
\* The variant only asks that the proposal is not rejected.
EligibleUnlessRejected(prop) == prop.status # "REJECTED"
Eligible(prop) ==
    /\ prop.status # "REJECTED"
    /\ prop.action \notin NonActivation
    /\ prop.readiness # "BLOCK"

Approve(i) ==
    /\ pc[Api] = "idle"
    /\ proposals[i].status # "ABSENT"
    /\ Eligible(proposals[i])
    /\ SaveStatus(i, "APPROVED_FOR_ACTIVATION")
    /\ mem' = [mem EXCEPT ![Api].proposal = i]
    /\ Goto(Api, "approve_ledger")
    /\ UNCHANGED <<evidence, activation, ledger, cycles, cycleLedger, faults>>

ApproveLedger ==
    /\ pc[Api] = "approve_ledger"
    /\ Record(mem[Api].proposal, "PROPOSAL_APPROVED")
    /\ Done(Api)
    /\ UNCHANGED <<evidence, activation, proposals, cycles, cycleLedger, faults>>

\* A PROPOSAL_APPROVED row whose decision_status is BLOCKED.
ApproveBlocked(i) ==
    /\ pc[Api] = "idle"
    /\ proposals[i].status # "ABSENT"
    /\ ~Eligible(proposals[i])
    /\ Record(i, "APPROVAL_BLOCKED")
    /\ UNCHANGED <<evidence, activation, proposals, cycles, cycleLedger, pc, mem, faults>>

\* Any proposal can be rejected, an activated one too: the model stays active.
Reject(i) ==
    /\ pc[Api] = "idle"
    /\ proposals[i].status # "ABSENT"
    /\ SaveStatus(i, "REJECTED")
    /\ mem' = [mem EXCEPT ![Api].proposal = i]
    /\ Goto(Api, "reject_ledger")
    /\ UNCHANGED <<evidence, activation, ledger, cycles, cycleLedger, faults>>

RejectLedger ==
    /\ pc[Api] = "reject_ledger"
    /\ Record(mem[Api].proposal, "PROPOSAL_REJECTED")
    /\ Done(Api)
    /\ UNCHANGED <<evidence, activation, proposals, cycles, cycleLedger, faults>>

-----------------------------------------------------------------------------
(***************************************************************************)
(* Activation, of a proposal or of a model named in the request.           *)
(***************************************************************************)
\* The variant drops the filter on the purpose of the report.
GateReportsAnyPurpose(m, mode) == Newest(ReportsOf(m))
\* The reports ModelActivationService takes for the latest: one or none.
GateReports(m, mode) == Latest(m, mode)

\* ModelActivationService up to its gates; calibration is the verdict of the
\* calibration gate.  A model that is only in its file is found there.
GatePasses(m, mode, calibration, r) ==
    /\ m \in Models /\ models[m] # "absent"
    /\ m \in ReplayAware => mode = "replay_aware"
    /\ r \in GateReports(m, mode)
    /\ r.accepted
    /\ calibration

\* The variant forgets to record the request.
ActivateRequestUnrecorded(i) ==
    /\ pc[Api] = "idle"
    /\ proposals[i].status # "ABSENT"
    /\ mem' = [mem EXCEPT ![Api].proposal = i]
    /\ Goto(Api, "activate")
    /\ UNCHANGED <<evidence, activation, proposals, ledger, cycles, cycleLedger, faults>>

\* The request is recorded first; the proposal row saved later is the one read here.
ActivateRequest(i) ==
    /\ pc[Api] = "idle"
    /\ proposals[i].status # "ABSENT"
    /\ Record(i, "MODEL_ACTIVATION_REQUESTED")
    /\ mem' = [mem EXCEPT ![Api].proposal = i]
    /\ Goto(Api, "activate")
    /\ UNCHANGED <<evidence, activation, proposals, cycles, cycleLedger, faults>>

\* What the proposal's own guards ask, before the activation service is called.
Activatable(i, confirm) ==
    /\ confirm
    /\ proposals[i].status = "APPROVED_FOR_ACTIVATION"
    /\ Eligible(proposals[i])
    /\ proposals[i].challenger # None
    /\ InRuns(proposals[i].challenger)

ActivateGate(confirm, mode, calibration, r) ==
    /\ pc[Api] = "activate"
    /\ LET i == mem[Api].proposal
           m == proposals[i].challenger
       IN  /\ Activatable(i, confirm)
           /\ GatePasses(m, mode, calibration, r)
           /\ mem' = [mem EXCEPT ![Api].model = m, ![Api].report = r.id]
    /\ Goto(Api, "activate_commit")
    /\ UNCHANGED <<evidence, activation, proposals, ledger, cycles, cycleLedger, faults>>

ActivateBlocked(confirm, mode, calibration) ==
    /\ pc[Api] = "activate"
    /\ LET i == mem[Api].proposal
           m == proposals[i].challenger
       IN  /\ Activatable(i, confirm) =>
                  \A r \in reports : ~GatePasses(m, mode, calibration, r)
           /\ Record(i, "MODEL_ACTIVATION_BLOCKED")
    /\ Done(Api)
    /\ UNCHANGED <<evidence, activation, proposals, cycles, cycleLedger, faults>>

\* POST /models/activate, and /models/train with activate_if_passes.
DirectActivate(m, mode, calibration, r) ==
    /\ pc[Api] = "idle"
    /\ GatePasses(m, mode, calibration, r)
    /\ mem' = [mem EXCEPT ![Api].model = m, ![Api].report = r.id]
    /\ Goto(Api, "activate_commit")
    /\ UNCHANGED <<evidence, activation, proposals, ledger, cycles, cycleLedger, faults>>

\* The variant leaves the flag of the model activated before.
FlagsKept(m) == [models EXCEPT ![m] = IF InRuns(m) THEN "active" ELSE @]
\* model_runs.active is set on the rows of one version and cleared on all others.
Flags(m) == [x \in Models |-> IF InRuns(x) THEN IF x = m THEN "active" ELSE "inactive"
                                           ELSE models[x]]

\* ActiveModelRepository.activate: one commit.
ActivateCommit ==
    /\ pc[Api] = "activate_commit"
    /\ LET m == mem[Api].model IN
        /\ active' = [active EXCEPT ![TypeOf(m)] = [model |-> m, report |-> mem[Api].report]]
        /\ models' = Flags(m)
    /\ Goto(Api, "activate_file")
    /\ UNCHANGED <<reports, artifact, proposals, ledger, cycles, cycleLedger, mem, faults>>

ActivateFile ==
    /\ pc[Api] = "activate_file"
    /\ artifact' = mem[Api].model
    /\ IF mem[Api].proposal = 0 THEN Done(Api)
                                ELSE Goto(Api, "activate_save") /\ UNCHANGED mem
    /\ UNCHANGED <<evidence, active, proposals, ledger, cycles, cycleLedger, faults>>

ActivateSave ==
    /\ pc[Api] = "activate_save"
    /\ SaveStatus(mem[Api].proposal, "ACTIVATED")
    /\ Goto(Api, "activate_ledger")
    /\ UNCHANGED <<evidence, activation, ledger, cycles, cycleLedger, mem, faults>>

ActivateLedger ==
    /\ pc[Api] = "activate_ledger"
    /\ Record(mem[Api].proposal, "MODEL_ACTIVATED")
    /\ Done(Api)
    /\ UNCHANGED <<evidence, activation, proposals, cycles, cycleLedger, faults>>

-----------------------------------------------------------------------------
(***************************************************************************)
(* ResearchCycleService, in the API server or in a worker.                 *)
(***************************************************************************)
\* The champion is the one the payload names, or the active model.
CreateCycle(p, c, champion) ==
    /\ pc[p] = "idle"
    /\ cycles[c].status = "ABSENT"
    /\ \A d \in 1..(c - 1) : cycles[d].status # "ABSENT"
    /\ champion \in NamedChampions \union {GetActive}
    /\ cycles' = [cycles EXCEPT ![c].status = "CREATED", ![c].champion = champion]
    /\ mem' = [mem EXCEPT ![p].cycle = c]
    /\ Goto(p, "create_ledger")
    /\ UNCHANGED <<evidence, activation, proposals, ledger, cycleLedger, faults>>

CreateLedger(p) ==
    /\ pc[p] = "create_ledger"
    /\ cycleLedger' = [cycleLedger EXCEPT ![mem[p].cycle] = @ \union {"CYCLE_CREATED"}]
    /\ Done(p)
    /\ UNCHANGED <<evidence, activation, proposals, ledger, cycles, faults>>

\* A proposal id is kept for every cycle that runs: a bound of the model.
RoomForProposal ==
    Cardinality({i \in Proposals : proposals[i].status = "ABSENT"})
        > Cardinality({q \in Procs : pc[q] \in CyclePc /\ mem[q].cycle # 0})

\* A cycle runs whatever its status, also while another process runs it.  What its
\* payload says stands before what the cycle was created with.
RunGet(p, c, named) ==
    /\ pc[p] = "idle"
    /\ cycles[c].status # "ABSENT"
    /\ RoomForProposal
    /\ mem' = [mem EXCEPT ![p].cycle = c, ![p].listed = cycles[c].listed,
                          ![p].named = named]
    /\ Goto(p, "run_save")
    /\ UNCHANGED <<evidence, activation, proposals, ledger, cycles, cycleLedger, faults>>

\* The saves of run are of the row it read at its start.
SaveCycle(p, s, listed) ==
    cycles' = [cycles EXCEPT ![mem[p].cycle].status = s, ![mem[p].cycle].listed = listed]

RunSave(p) ==
    /\ pc[p] = "run_save"
    /\ SaveCycle(p, "RUNNING", mem[p].listed)
    /\ Goto(p, "plan")
    /\ UNCHANGED <<evidence, activation, proposals, ledger, mem, cycleLedger, faults>>

\* The variant returns without saving the cycle.
PlanBlockedReturns(p) ==
    /\ pc[p] = "plan"
    /\ Done(p)
    /\ UNCHANGED <<evidence, activation, proposals, ledger, cycles, cycleLedger, faults>>

\* Stale artifacts or stale data block the cycle, unless the operator allows them.
PlanBlocked(p) ==
    /\ pc[p] = "plan"
    /\ SaveCycle(p, "BLOCKED", mem[p].listed)
    /\ Goto(p, "complete_ledger")
    /\ UNCHANGED <<evidence, activation, proposals, ledger, mem, cycleLedger, faults>>

\* The challenger is named, trained in the cycle, or missing.
PlanPasses(p, challenger, train) ==
    /\ pc[p] = "plan"
    /\ train => challenger # None
    /\ mem' = [mem EXCEPT ![p].model = challenger]
    /\ Goto(p, CASE ~train -> "validate"
                 [] challenger \in ReplayAware -> "train_save"
                 [] OTHER -> "train_file")
    /\ UNCHANGED <<evidence, activation, proposals, ledger, cycles, cycleLedger, faults>>

\* validate_challenger is optional, and needs a challenger.
CycleValidate(p, mode, accepted) ==
    /\ pc[p] = "validate"
    /\ mem[p].model # None
    /\ SaveReport(mem[p].model, mode, accepted)
    /\ Goto(p, "compare")
    /\ UNCHANGED <<models, activation, proposals, ledger, cycles, cycleLedger, mem, faults>>

CycleSkipValidate(p) ==
    /\ pc[p] = "validate"
    /\ Goto(p, "compare")
    /\ UNCHANGED <<evidence, activation, proposals, ledger, cycles, cycleLedger, mem, faults>>

\* The variant takes the newest report of any model.
StoredReportAny(m) == Newest(reports)
\* Without explicit ids: the latest replay-aware report, else the latest of any purpose.
StoredReport(m) ==
    IF Latest(m, "replay_aware") # {} THEN Latest(m, "replay_aware") ELSE Newest(ReportsOf(m))

\* The report the gates look at: one or none.  Explicit ids are looked up among all
\* reports, whichever model they are of.
Compared(m, named) ==
    IF named = {} THEN StoredReport(m) ELSE Newest({r \in reports : r.id \in named})

\* _readiness and _recommended_action, from the verdicts of the gates.
ReadinessOf(m, validated, evidencePass, dataPass) ==
    CASE ~InRuns(m) -> "REVIEW"
      [] InRuns(m) /\ ~(validated /\ evidencePass) -> "BLOCK"
      [] InRuns(m) /\ validated /\ evidencePass /\ ~dataPass -> "REVIEW"
      [] OTHER -> "PASS"

RecommendedAction(m, hasChampion, readiness, worse) ==
    CASE ~InRuns(m) -> IF hasChampion THEN "KEEP_CHAMPION" ELSE "BLOCK_ALL_CHANGES"
      [] InRuns(m) /\ readiness = "BLOCK" -> "REJECT_CHALLENGER"
      [] InRuns(m) /\ readiness = "REVIEW" -> "REVIEW_CHALLENGER"
      [] OTHER -> IF hasChampion /\ worse THEN "KEEP_CHAMPION"
                  ELSE "APPROVE_CHALLENGER_FOR_ACTIVATION"

HasChampion(c) == cycles[c].champion # None /\ InRuns(cycles[c].champion)

\* evidencePass: no audit, drift or review report blocks; dataPass: no dirty
\* window and no invalid bar; worse: the deltas are not in the challenger's favour.
Compare(p, evidencePass, dataPass, worse) ==
    /\ pc[p] = "compare"
    /\ LET m == mem[p].model
           found == Compared(m, mem[p].named)
           hasChampion == HasChampion(mem[p].cycle)
           validated == \E r \in found : r.accepted
           readiness == ReadinessOf(m, validated, evidencePass, dataPass)
       IN  IF m = None
           THEN mem' = [mem EXCEPT
                    ![p].readiness = "REVIEW",
                    ![p].action = IF hasChampion THEN "KEEP_CHAMPION" ELSE "BLOCK_ALL_CHANGES"]
           ELSE \E id \in 0..MaxReports :
                    /\ IF found = {} THEN id = 0 ELSE \E r \in found : r.id = id
                    /\ mem' = [mem EXCEPT
                          ![p].readiness = readiness,
                          ![p].action = RecommendedAction(m, hasChampion, readiness, worse),
                          ![p].report = id]
    /\ Goto(p, "propose")
    /\ UNCHANGED <<evidence, activation, proposals, ledger, cycles, cycleLedger, faults>>

\* The variant leaves the repository's default status.
NewStatusDraft(action, readiness) == "DRAFT"
\* create_from_comparison: the status a new proposal gets.
NewStatus(action, readiness) ==
    CASE readiness = "BLOCK" \/ action = "REJECT_CHALLENGER" -> "REJECTED"
      [] readiness # "BLOCK" /\ action = "APPROVE_CHALLENGER_FOR_ACTIVATION" -> "PROPOSED"
      [] OTHER -> "REVIEW_REQUIRED"

Propose(p) ==
    /\ pc[p] = "propose"
    /\ \E i \in Proposals :
        /\ NextProposal(i)
        /\ proposals' = [proposals EXCEPT ![i] =
               [status |-> NewStatus(mem[p].action, mem[p].readiness),
                challenger |-> mem[p].model, action |-> mem[p].action,
                readiness |-> mem[p].readiness, report |-> mem[p].report,
                cycle |-> mem[p].cycle, named |-> mem[p].named]]
        /\ mem' = [mem EXCEPT ![p].proposal = i]
    /\ Goto(p, "propose_ledger")
    /\ UNCHANGED <<evidence, activation, ledger, cycles, cycleLedger, faults>>

\* The variant does not append to the ledger.
ProposeLedgerLost(p) ==
    /\ pc[p] = "propose_ledger"
    /\ Goto(p, "complete")
    /\ UNCHANGED <<evidence, activation, proposals, ledger, cycles, cycleLedger, mem, faults>>

ProposeLedger(p) ==
    /\ pc[p] = "propose_ledger"
    /\ Record(mem[p].proposal, "PROPOSAL_CREATED")
    /\ Goto(p, "complete")
    /\ UNCHANGED <<evidence, activation, proposals, cycles, cycleLedger, mem, faults>>

\* The variant completes a cycle whose challenger was rejected.
FinalStatusAlways(readiness, action) == "COMPLETED"
\* The status the proposal was created with, not the one it has now.
FinalStatus(readiness, action) ==
    IF NewStatus(action, readiness) = "REJECTED" THEN "BLOCKED" ELSE "COMPLETED"

Complete(p) ==
    /\ pc[p] = "complete"
    /\ SaveCycle(p, FinalStatus(mem[p].readiness, mem[p].action), {mem[p].proposal})
    /\ Goto(p, "complete_ledger")
    /\ UNCHANGED <<evidence, activation, proposals, ledger, cycleLedger, mem, faults>>

CompleteLedger(p) ==
    /\ pc[p] = "complete_ledger"
    /\ cycleLedger' = [cycleLedger EXCEPT ![mem[p].cycle] = @ \union {"CYCLE_COMPLETED"}]
    /\ Done(p)
    /\ UNCHANGED <<evidence, activation, proposals, ledger, cycles, faults>>

-----------------------------------------------------------------------------
\* A process dies, or an exception ends its operation, between two commits.
Crash(p) ==
    /\ pc[p] # "idle"
    /\ faults < MaxFaults
    /\ faults' = faults + 1
    /\ Done(p)
    /\ UNCHANGED <<evidence, activation, proposals, ledger, cycles, cycleLedger>>

\* The commits of an operation that has started.
ActivateStep ==
    \/ \E confirm \in BOOLEAN, mode \in Modes, calibration \in BOOLEAN :
        \/ ActivateBlocked(confirm, mode, calibration)
        \/ \E r \in reports : ActivateGate(confirm, mode, calibration, r)
    \/ ActivateCommit \/ ActivateFile \/ ActivateSave \/ ActivateLedger

CycleStep(p) ==
    \/ CreateLedger(p) \/ RunSave(p) \/ PlanBlocked(p)
    \/ \E challenger \in Models \union {None}, train \in BOOLEAN : PlanPasses(p, challenger, train)
    \/ TrainFile(p) \/ TrainSave(p)
    \/ \E mode \in Modes, accepted \in BOOLEAN : CycleValidate(p, mode, accepted)
    \/ CycleSkipValidate(p)
    \/ \E evidencePass, dataPass, worse \in BOOLEAN : Compare(p, evidencePass, dataPass, worse)
    \/ Propose(p) \/ ProposeLedger(p) \/ Complete(p) \/ CompleteLedger(p)

ProcStep(p) == CycleStep(p) \/ (p = Api /\ (ApproveLedger \/ RejectLedger \/ ActivateStep))

Request ==
    \/ \E m \in Models :
        \/ "train" \in Requests /\ Train(m)
        \/ \E mode \in Modes, verdict \in BOOLEAN :
            \/ "validate" \in Requests /\ Validate(m, mode, verdict)
            \/ "direct" \in Requests /\ \E r \in reports : DirectActivate(m, mode, verdict, r)
    \/ \E i \in Proposals :
        \/ "approve" \in Requests /\ (Approve(i) \/ ApproveBlocked(i))
        \/ "reject" \in Requests /\ Reject(i)
        \/ "activate" \in Requests /\ ActivateRequest(i)

CycleRequest(p) ==
    \E c \in Cycles :
        \/ \E champion \in Models \union {None} : CreateCycle(p, c, champion)
        \/ \E named \in NamedReports : RunGet(p, c, named)

Next ==
    \/ Request
    \/ \E p \in Procs : CycleRequest(p) \/ ProcStep(p) \/ Crash(p)

Spec == Init /\ [][Next]_vars

\* A process goes on with the operation it has started, unless it dies.
Fairness == \A p \in Procs : WF_vars(ProcStep(p))
FairSpec == Spec /\ Fairness

-----------------------------------------------------------------------------
(***************************************************************************)
(* Properties.                                                             *)
(***************************************************************************)
\* The activation guard, seen from its result: whatever was requested, crashed or
\* ran beside it, an active model was activated on an accepted report of its own,
\* and a replay-aware model on a replay-aware one.
ActiveHasAcceptedReport ==
    \A t \in Types : active[t].model # None =>
        /\ TypeOf(active[t].model) = t
        /\ \E r \in reports :
            /\ r.id = active[t].report /\ r.model = active[t].model /\ r.accepted
            /\ t = "replay_aware" => r.purpose = "replay_aware"

\* At most one row of model_runs is flagged active, and active_models names that model for its
\* type.  The row of the other type may name a model that is no longer flagged.
FlagsAgree ==
    /\ \A m, n \in Models : models[m] = "active" /\ models[n] = "active" => m = n
    /\ \A m \in Models : models[m] = "active" => active[TypeOf(m)].model = m

\* A proposal's model is never activated silently: its request is in the ledger
\* before active_models changes, even if the server dies on the way.
ActivationRequested ==
    /\ \A i \in Proposals :
        proposals[i].status = "ACTIVATED" => "MODEL_ACTIVATION_REQUESTED" \in ledger[i]
    /\ pc[Api] \in ActivatePc /\ mem[Api].proposal # 0 =>
        "MODEL_ACTIVATION_REQUESTED" \in ledger[mem[Api].proposal]

\* A row whose decision is about to be recorded by the process that saved it.
Deciding(i) == \E p \in Procs : /\ mem[p].proposal = i
                                /\ pc[p] \in {"approve_ledger", "reject_ledger", "activate_ledger",
                                              "propose_ledger"}

\* The ledger explains the status of every proposal; each that it leaves
\* unexplained is paid for by a process that died between the two commits.
Explained(i) ==
    CASE proposals[i].status = "APPROVED_FOR_ACTIVATION" -> "PROPOSAL_APPROVED" \in ledger[i]
      [] proposals[i].status = "ACTIVATED" -> "MODEL_ACTIVATED" \in ledger[i]
      [] proposals[i].status = "REJECTED" ->
            ledger[i] \cap {"PROPOSAL_CREATED", "PROPOSAL_REJECTED"} # {}
      [] proposals[i].status = "ABSENT" -> TRUE
      [] OTHER -> "PROPOSAL_CREATED" \in ledger[i]

LedgerExplains ==
    Cardinality({i \in Proposals : ~Explained(i) /\ ~Deciding(i)}) <= faults

\* A challenger is recommended on an accepted report: on one of its own, unless the
\* payload of the run named report ids, and then on one of those, which may be of any
\* model.  What ActiveHasAcceptedReport says holds of such a proposal too.
RecommendedOnReport ==
    \A i \in Proposals :
        proposals[i].action = "APPROVE_CHALLENGER_FOR_ACTIVATION" =>
            \E r \in reports :
                /\ r.id = proposals[i].report /\ r.accepted
                /\ IF proposals[i].named = {} THEN r.model = proposals[i].challenger
                                             ELSE r.id \in proposals[i].named

\* A completed cycle lists a proposal of its own that was not rejected when it was
\* created, whichever processes ran the cycle and died in it.
CompletedCycleIsBacked ==
    \A c \in Cycles : cycles[c].status = "COMPLETED" =>
        \E i \in cycles[c].listed :
            /\ proposals[i].status # "ABSENT"
            /\ proposals[i].cycle = c
            /\ proposals[i].readiness # "BLOCK"

\* The life of a proposal, of the status and the evidence of its row.
Lifecycle == INSTANCE ProposalLifecycle
    WITH status <- [i \in Proposals |-> proposals[i].status],
         eligible <- [i \in Proposals |-> /\ proposals[i].action \notin NonActivation
                                          /\ proposals[i].readiness # "BLOCK"]

\* Approval, rejection and activation keep the lifecycle of every proposal, with
\* cycles that create proposals beside them and processes that die in between.
ImplementsLifecycle == Lifecycle!LifecycleSpec

\* A cycle that runs ends, unless the process running it died.
Abandoned(c) ==
    /\ cycles[c].status = "RUNNING"
    /\ faults > 0
    /\ \A p \in Procs : mem[p].cycle # c

CyclesEnd ==
    \A c \in Cycles : (cycles[c].status = "RUNNING") ~>
        (cycles[c].status \in {"BLOCKED", "COMPLETED"} \/ Abandoned(c))
=============================================================================
