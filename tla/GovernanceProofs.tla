---------------------------- MODULE GovernanceProofs ---------------------------
(***************************************************************************)
(* Proofs, for every set of models and workers, every request and every    *)
(* number of reports, proposals, cycles and faults: what is active was     *)
(* accepted, the two tables that say what is active agree, activations are *)
(* requested in the ledger first, a challenger is recommended on an        *)
(* accepted report, its own or one that the run named; a completed cycle   *)
(* has a proposal behind it, the ledger explains the status of every       *)
(* proposal up to the crashes, and governance implements the life of a     *)
(* proposal, ProposalLifecycle.                                            *)
(***************************************************************************)
EXTENDS ModelGovernance, FiniteSetTheorems, TLAPS

-----------------------------------------------------------------------------
(***************************************************************************)
(* The inductive invariant: the four properties, and what an operation     *)
(* half way holds.                                                         *)
(***************************************************************************)
UniqueIds == \A r, q \in reports : r.id = q.id => r = q

IdleIsClean == \A p \in Procs : pc[p] = "idle" => mem[p] = NoMem

\* An accepted report of model m that its activation may rest on.
Backs(id, m) ==
    \E r \in reports : /\ r.id = id /\ r.model = m /\ r.accepted
                       /\ m \in ReplayAware => r.purpose = "replay_aware"

\* Between the gate and the commit.
GatePassed ==
    pc[Api] = "activate_commit" =>
        mem[Api].model \in Models /\ Backs(mem[Api].report, mem[Api].model)

\* Between the comparison and the proposal.
NamedOrOwn(id, m, named) ==
    \E r \in reports : /\ r.id = id /\ r.accepted
                       /\ IF named = {} THEN r.model = m ELSE r.id \in named

Recommending ==
    \A p \in Procs :
        pc[p] = "propose" /\ mem[p].action = "APPROVE_CHALLENGER_FOR_ACTIVATION" =>
            NamedOrOwn(mem[p].report, mem[p].model, mem[p].named)

GovernanceInv ==
    /\ TypeOK /\ UniqueIds /\ IdleIsClean
    /\ GatePassed /\ ActiveHasAcceptedReport
    /\ FlagsAgree
    /\ ActivationRequested
    /\ Recommending /\ RecommendedOnReport

-----------------------------------------------------------------------------
(***************************************************************************)
(* The records a process keeps and the helpers that change them.           *)
(***************************************************************************)
LEMMA MemModelType ==
  ASSUME NEW f \in [Procs -> Mem], NEW p \in Procs, NEW m \in Models \union {None}
  PROVE  [f EXCEPT ![p].model = m] \in [Procs -> Mem]
  BY DEF Mem

LEMMA MemProposalType ==
  ASSUME NEW f \in [Procs -> Mem], NEW p \in Procs, NEW i \in 0..MaxProposals
  PROVE  [f EXCEPT ![p].proposal = i] \in [Procs -> Mem]
  BY DEF Mem

LEMMA MemCycleType ==
  ASSUME NEW f \in [Procs -> Mem], NEW p \in Procs, NEW c \in 0..MaxCycles
  PROVE  [f EXCEPT ![p].cycle = c] \in [Procs -> Mem]
  BY DEF Mem

LEMMA MemActivateType ==
  ASSUME NEW f \in [Procs -> Mem], NEW p \in Procs,
         NEW m \in Models \union {None}, NEW r \in 0..MaxReports
  PROVE  [f EXCEPT ![p].model = m, ![p].report = r] \in [Procs -> Mem]
  BY ZenonT(40) DEF Mem

LEMMA MemRunType ==
  ASSUME NEW f \in [Procs -> Mem], NEW p \in Procs,
         NEW c \in 0..MaxCycles, NEW l \in SUBSET (0..MaxProposals),
         NEW n \in SUBSET (1..MaxReports)
  PROVE  [f EXCEPT ![p].cycle = c, ![p].listed = l, ![p].named = n] \in [Procs -> Mem]
  BY ZenonT(40) DEF Mem

LEMMA MemMissingType ==
  ASSUME NEW f \in [Procs -> Mem], NEW p \in Procs, NEW y \in Readiness, NEW a \in Action
  PROVE  [f EXCEPT ![p].readiness = y, ![p].action = a] \in [Procs -> Mem]
  BY ZenonT(40) DEF Mem

LEMMA MemCompareType ==
  ASSUME NEW f \in [Procs -> Mem], NEW p \in Procs,
         NEW y \in Readiness, NEW a \in Action, NEW r \in 0..MaxReports
  PROVE  [f EXCEPT ![p].readiness = y, ![p].action = a, ![p].report = r] \in [Procs -> Mem]
  BY ZenonT(40) DEF Mem

LEMMA NoMemType == NoMem \in Mem
  BY BoundsAssumption DEF NoMem, Mem, Action, Readiness

LEMMA GotoType ==
  ASSUME TypeOK, NEW p \in Procs, NEW l \in Pc, Goto(p, l)
  PROVE  /\ pc' \in [Procs -> Pc]
         /\ pc'[p] = l
         /\ \A q \in Procs \ {p} : pc'[q] = pc[q]
  BY DEF TypeOK, Goto

LEMMA DoneType ==
  ASSUME TypeOK, NEW p \in Procs, Done(p)
  PROVE  /\ pc' \in [Procs -> Pc] /\ mem' \in [Procs -> Mem]
         /\ pc'[p] = "idle" /\ mem'[p] = NoMem
         /\ \A q \in Procs \ {p} : pc'[q] = pc[q] /\ mem'[q] = mem[q]
  BY NoMemType DEF TypeOK, Done, Goto, Pc

LEMMA SaveStatusType ==
  ASSUME TypeOK, NEW i, NEW s \in ProposalStatus, SaveStatus(i, s)
  PROVE  /\ proposals' \in [Proposals -> Proposal]
         /\ \A k \in Proposals :
               /\ proposals'[k].status = IF k = i THEN s ELSE proposals[k].status
               /\ proposals'[k].action = proposals[k].action
               /\ proposals'[k].report = proposals[k].report
               /\ proposals'[k].challenger = proposals[k].challenger
               /\ proposals'[k].named = proposals[k].named
<1>1. proposals \in [Proposals -> Proposal]
  BY DEF TypeOK
<1>2. proposals' = [k \in Proposals |->
                      IF k = i THEN [proposals[k] EXCEPT !.status = s] ELSE proposals[k]]
  BY <1>1 DEF SaveStatus
<1>3. \A q \in Proposal : /\ [q EXCEPT !.status = s] \in Proposal
                          /\ [q EXCEPT !.status = s].status = s
                          /\ [q EXCEPT !.status = s].action = q.action
                          /\ [q EXCEPT !.status = s].report = q.report
                          /\ [q EXCEPT !.status = s].challenger = q.challenger
                          /\ [q EXCEPT !.status = s].named = q.named
  BY DEF Proposal
<1> QED
  BY <1>1, <1>2, <1>3

LEMMA RecordType ==
  ASSUME TypeOK, NEW i, NEW d \in Decision, Record(i, d)
  PROVE  /\ ledger' \in [Proposals -> SUBSET Decision]
         /\ \A k \in Proposals : ledger[k] \subseteq ledger'[k]
         /\ i \in Proposals => d \in ledger'[i]
  BY DEF TypeOK, Record

LEMMA CycleType ==
  ASSUME NEW f \in [Cycles -> Cycle], NEW c,
         NEW s \in {"RUNNING", "BLOCKED", "COMPLETED"}, NEW l \in SUBSET (0..MaxProposals)
  PROVE  [f EXCEPT ![c].status = s, ![c].listed = l] \in [Cycles -> Cycle]
  BY DEF Cycle

LEMMA NewCycleType ==
  ASSUME NEW f \in [Cycles -> Cycle], NEW c, NEW m \in Models \union {None}
  PROVE  [f EXCEPT ![c].status = "CREATED", ![c].champion = m] \in [Cycles -> Cycle]
  BY DEF Cycle

LEMMA SaveCycleType ==
  ASSUME TypeOK, NEW p \in Procs, NEW s \in {"RUNNING", "BLOCKED", "COMPLETED"},
         NEW l \in SUBSET (0..MaxProposals), SaveCycle(p, s, l)
  PROVE  cycles' \in [Cycles -> Cycle]
  BY CycleType DEF TypeOK, SaveCycle

\* A report is added under an id larger than all others.
LEMMA SaveReportType ==
  ASSUME TypeOK, NEW m \in Models, NEW mode \in Modes, NEW accepted \in BOOLEAN,
         SaveReport(m, mode, accepted)
  PROVE  /\ reports' \subseteq Report
         /\ reports \subseteq reports'
         /\ UniqueIds => UniqueIds'
  BY BoundsAssumption DEF TypeOK, SaveReport, NextReport, Report, UniqueIds

LEMMA MemFields ==
  ASSUME TypeOK, NEW p \in Procs
  PROVE  /\ mem[p] \in Mem
         /\ mem[p].model \in Models \union {None} /\ mem[p].report \in 0..MaxReports
         /\ mem[p].proposal \in 0..MaxProposals /\ mem[p].cycle \in 0..MaxCycles
         /\ mem[p].listed \in SUBSET (0..MaxProposals) /\ mem[p].named \in SUBSET (1..MaxReports)
         /\ mem[p].action \in Action /\ mem[p].readiness \in Readiness
  BY DEF TypeOK, Mem

LEMMA ReadinessType ==
  ASSUME NEW m, NEW b1 \in BOOLEAN, NEW b2 \in BOOLEAN, NEW b3 \in BOOLEAN
  PROVE  ReadinessOf(m, b1, b2, b3) \in Readiness
  BY DEF ReadinessOf, Readiness

LEMMA RecommendedType ==
  ASSUME NEW m, NEW h \in BOOLEAN, NEW y \in Readiness, NEW w \in BOOLEAN
  PROVE  RecommendedAction(m, h, y, w) \in Action
  BY DEF RecommendedAction, Action

LEMMA StatusTypes ==
  ASSUME NEW a \in Action, NEW y \in Readiness
  PROVE  /\ NewStatus(a, y) \in {"PROPOSED", "REVIEW_REQUIRED", "REJECTED"}
         /\ FinalStatus(y, a) \in {"BLOCKED", "COMPLETED"}
  BY DEF NewStatus, FinalStatus

-----------------------------------------------------------------------------
(***************************************************************************)
(* Type correctness: one step per action.                                  *)
(***************************************************************************)
LEMMA InitTypeOK == Init => TypeOK
  BY ModelsAssumption, BoundsAssumption
  DEF Init, TypeOK, Procs, Pc, Mem, NoMem, Proposal, NoProposal, Cycle, NoCycle, ProposalStatus,
      Action, Readiness, Proposals

LEMMA StepTypeOK == TypeOK /\ [Next]_vars => TypeOK'
<1> SUFFICES ASSUME TypeOK, [Next]_vars
             PROVE  TypeOK'
  OBVIOUS
<1> USE ModelsAssumption, ProcsAssumption, BoundsAssumption
<1>1. ASSUME NEW m \in Models, Train(m)
      PROVE  TypeOK'
  <2>1. mem' \in [Procs -> Mem]
    <3>1. mem \in [Procs -> Mem] /\ Api \in Procs
      BY <1>1 DEF TypeOK, Procs
    <3>2. mem' = [mem EXCEPT ![Api].model = m]
      BY <1>1 DEF Train
    <3> QED
      BY <3>1, <3>2, MemModelType
  <2>2. pc' \in [Procs -> Pc]
    BY <1>1 DEF Train, TypeOK, Goto, Pc, ActivatePc, CyclePc
  <2> QED
    BY <1>1, <2>1, <2>2 DEF Train, TypeOK, evidence, activation
<1>2. ASSUME NEW p \in Procs, TrainFile(p)
      PROVE  TypeOK'
  <2>1. models' \in [Models -> {"absent", "file", "inactive", "active"}]
    BY <1>2 DEF TrainFile, WriteFile, TypeOK
  <2>2. pc' \in [Procs -> Pc]
    <3>1. "train_save" \in Pc
      BY DEF Pc, ActivatePc, CyclePc
    <3> QED
      BY <1>2, <3>1, GotoType DEF TrainFile, Procs
  <2> QED
    BY <1>2, <2>1, <2>2 DEF TrainFile, TypeOK, evidence, activation
<1>3. ASSUME NEW p \in Procs, TrainSave(p)
      PROVE  TypeOK'
  <2>1. models' \in [Models -> {"absent", "file", "inactive", "active"}]
    BY <1>3 DEF TrainSave, SaveTrained, TypeOK
  <2>2. mem' \in [Procs -> Mem] /\ pc' \in [Procs -> Pc]
    BY <1>3, DoneType DEF TrainSave, Procs, TypeOK, Goto, Pc, ActivatePc, CyclePc
  <2> QED
    BY <1>3, <2>1, <2>2 DEF TrainSave, TypeOK, evidence, activation
<1>4. ASSUME NEW m \in Models, NEW mode \in Modes,
             NEW accepted \in BOOLEAN, Validate(m, mode, accepted)
      PROVE  TypeOK'
  <2>1. reports' \subseteq Report
    BY <1>4, SaveReportType DEF Validate
  <2> QED
    BY <1>4, <2>1 DEF Validate, TypeOK, evidence, activation
<1>5. ASSUME NEW i \in Proposals, Approve(i)
      PROVE  TypeOK'
  <2>1. proposals' \in [Proposals -> Proposal]
    BY <1>5, SaveStatusType DEF Approve, ProposalStatus
  <2>2. mem' \in [Procs -> Mem]
    <3>1. i \in 0..MaxProposals
      BY BoundsAssumption DEF Proposals
    <3>2. mem \in [Procs -> Mem] /\ Api \in Procs
      BY <1>5 DEF TypeOK, Procs
    <3>3. mem' = [mem EXCEPT ![Api].proposal = i]
      BY <1>5 DEF Approve
    <3> QED
      BY <3>1, <3>2, <3>3, MemProposalType
  <2>3. pc' \in [Procs -> Pc]
    <3>1. "approve_ledger" \in Pc
      BY DEF Pc, ActivatePc, CyclePc
    <3> QED
      BY <1>5, <3>1, GotoType DEF Approve, Procs
  <2> QED
    BY <1>5, <2>1, <2>2, <2>3 DEF Approve, TypeOK, evidence, activation
<1>6. ASSUME ApproveLedger
      PROVE  TypeOK'
  <2>1. ledger' \in [Proposals -> SUBSET Decision]
    BY <1>6, RecordType DEF ApproveLedger, Decision
  <2>2. mem' \in [Procs -> Mem] /\ pc' \in [Procs -> Pc]
    BY <1>6, DoneType DEF ApproveLedger, Procs
  <2> QED
    BY <1>6, <2>1, <2>2 DEF ApproveLedger, TypeOK, evidence, activation
<1>7. ASSUME NEW i \in Proposals, ApproveBlocked(i)
      PROVE  TypeOK'
  <2>1. ledger' \in [Proposals -> SUBSET Decision]
    BY <1>7, RecordType DEF ApproveBlocked, Decision
  <2> QED
    BY <1>7, <2>1 DEF ApproveBlocked, TypeOK, evidence, activation
<1>8. ASSUME NEW i \in Proposals, Reject(i)
      PROVE  TypeOK'
  <2>1. proposals' \in [Proposals -> Proposal]
    BY <1>8, SaveStatusType DEF Reject, ProposalStatus
  <2>2. mem' \in [Procs -> Mem]
    <3>1. i \in 0..MaxProposals
      BY BoundsAssumption DEF Proposals
    <3>2. mem \in [Procs -> Mem] /\ Api \in Procs
      BY <1>8 DEF TypeOK, Procs
    <3>3. mem' = [mem EXCEPT ![Api].proposal = i]
      BY <1>8 DEF Reject
    <3> QED
      BY <3>1, <3>2, <3>3, MemProposalType
  <2>3. pc' \in [Procs -> Pc]
    <3>1. "reject_ledger" \in Pc
      BY DEF Pc, ActivatePc, CyclePc
    <3> QED
      BY <1>8, <3>1, GotoType DEF Reject, Procs
  <2> QED
    BY <1>8, <2>1, <2>2, <2>3 DEF Reject, TypeOK, evidence, activation
<1>9. ASSUME RejectLedger
      PROVE  TypeOK'
  <2>1. ledger' \in [Proposals -> SUBSET Decision]
    BY <1>9, RecordType DEF RejectLedger, Decision
  <2>2. mem' \in [Procs -> Mem] /\ pc' \in [Procs -> Pc]
    BY <1>9, DoneType DEF RejectLedger, Procs
  <2> QED
    BY <1>9, <2>1, <2>2 DEF RejectLedger, TypeOK, evidence, activation
<1>10. ASSUME NEW i \in Proposals, ActivateRequest(i)
      PROVE  TypeOK'
  <2>1. ledger' \in [Proposals -> SUBSET Decision]
    BY <1>10, RecordType DEF ActivateRequest, Decision
  <2>2. mem' \in [Procs -> Mem]
    <3>1. i \in 0..MaxProposals
      BY BoundsAssumption DEF Proposals
    <3>2. mem \in [Procs -> Mem] /\ Api \in Procs
      BY <1>10 DEF TypeOK, Procs
    <3>3. mem' = [mem EXCEPT ![Api].proposal = i]
      BY <1>10 DEF ActivateRequest
    <3> QED
      BY <3>1, <3>2, <3>3, MemProposalType
  <2>3. pc' \in [Procs -> Pc]
    <3>1. "activate" \in Pc
      BY DEF Pc, ActivatePc, CyclePc
    <3> QED
      BY <1>10, <3>1, GotoType DEF ActivateRequest, Procs
  <2> QED
    BY <1>10, <2>1, <2>2, <2>3 DEF ActivateRequest, TypeOK, evidence, activation
<1>11. ASSUME NEW confirm \in BOOLEAN, NEW mode \in Modes, NEW calibration \in BOOLEAN,
             NEW r \in reports, ActivateGate(confirm, mode, calibration, r)
      PROVE  TypeOK'
  <2>1. mem' \in [Procs -> Mem]
    <3>1. proposals[mem[Api].proposal].challenger \in Models \union {None}
      BY <1>11 DEF ActivateGate, GatePasses
    <3>2. r.id \in 0..MaxReports
      BY BoundsAssumption DEF TypeOK, Report
    <3>3. mem \in [Procs -> Mem] /\ Api \in Procs
      BY <1>11 DEF TypeOK, Procs
    <3>4. mem' = [mem EXCEPT ![Api].model = proposals[mem[Api].proposal].challenger,
       ![Api].report = r.id]
      BY <1>11 DEF ActivateGate
    <3> QED
      BY <3>1, <3>2, <3>3, <3>4, MemActivateType
  <2>2. pc' \in [Procs -> Pc]
    <3>1. "activate_commit" \in Pc
      BY DEF Pc, ActivatePc, CyclePc
    <3> QED
      BY <1>11, <3>1, GotoType DEF ActivateGate, Procs
  <2> QED
    BY <1>11, <2>1, <2>2 DEF ActivateGate, TypeOK, evidence, activation
<1>12. ASSUME NEW confirm \in BOOLEAN, NEW mode \in Modes,
             NEW calibration \in BOOLEAN, ActivateBlocked(confirm, mode, calibration)
      PROVE  TypeOK'
  <2>1. ledger' \in [Proposals -> SUBSET Decision]
    BY <1>12, RecordType DEF ActivateBlocked, Decision
  <2>2. mem' \in [Procs -> Mem] /\ pc' \in [Procs -> Pc]
    BY <1>12, DoneType DEF ActivateBlocked, Procs
  <2> QED
    BY <1>12, <2>1, <2>2 DEF ActivateBlocked, TypeOK, evidence, activation
<1>13. ASSUME NEW m \in Models, NEW mode \in Modes, NEW calibration \in BOOLEAN,
             NEW r \in reports, DirectActivate(m, mode, calibration, r)
      PROVE  TypeOK'
  <2>1. mem' \in [Procs -> Mem]
    <3>1. r.id \in 0..MaxReports
      BY BoundsAssumption DEF TypeOK, Report
    <3>2. mem \in [Procs -> Mem] /\ Api \in Procs
      BY <1>13 DEF TypeOK, Procs
    <3>3. mem' = [mem EXCEPT ![Api].model = m, ![Api].report = r.id]
      BY <1>13 DEF DirectActivate
    <3> QED
      BY <3>1, <3>2, <3>3, MemActivateType
  <2>2. pc' \in [Procs -> Pc]
    <3>1. "activate_commit" \in Pc
      BY DEF Pc, ActivatePc, CyclePc
    <3> QED
      BY <1>13, <3>1, GotoType DEF DirectActivate, Procs
  <2> QED
    BY <1>13, <2>1, <2>2 DEF DirectActivate, TypeOK, evidence, activation
<1>14. ASSUME ActivateCommit
      PROVE  TypeOK'
  <2>1. models' \in [Models -> {"absent", "file", "inactive", "active"}]
    BY <1>14 DEF ActivateCommit, Flags, InRuns, TypeOK
  <2>2. active' \in [Types -> [model : Models \union {None}, report : 0..MaxReports]]
    BY <1>14, MemFields DEF ActivateCommit, TypeOK, Types, TypeOf, Procs
  <2>3. pc' \in [Procs -> Pc]
    <3>1. "activate_file" \in Pc
      BY DEF Pc, ActivatePc, CyclePc
    <3> QED
      BY <1>14, <3>1, GotoType DEF ActivateCommit, Procs
  <2> QED
    BY <1>14, <2>1, <2>2, <2>3 DEF ActivateCommit, TypeOK, evidence, activation
<1>15. ASSUME ActivateFile
      PROVE  TypeOK'
  <2>1. mem' \in [Procs -> Mem] /\ pc' \in [Procs -> Pc]
    BY <1>15, DoneType DEF ActivateFile, Procs, TypeOK, Goto, Pc, ActivatePc, CyclePc
  <2>2. artifact' \in Models \union {None}
    BY <1>15, MemFields DEF ActivateFile, Procs
  <2> QED
    BY <1>15, <2>1, <2>2 DEF ActivateFile, TypeOK, evidence, activation
<1>16. ASSUME ActivateSave
      PROVE  TypeOK'
  <2>1. proposals' \in [Proposals -> Proposal]
    BY <1>16, SaveStatusType DEF ActivateSave, ProposalStatus
  <2>2. pc' \in [Procs -> Pc]
    <3>1. "activate_ledger" \in Pc
      BY DEF Pc, ActivatePc, CyclePc
    <3> QED
      BY <1>16, <3>1, GotoType DEF ActivateSave, Procs
  <2> QED
    BY <1>16, <2>1, <2>2 DEF ActivateSave, TypeOK, evidence, activation
<1>17. ASSUME ActivateLedger
      PROVE  TypeOK'
  <2>1. ledger' \in [Proposals -> SUBSET Decision]
    BY <1>17, RecordType DEF ActivateLedger, Decision
  <2>2. mem' \in [Procs -> Mem] /\ pc' \in [Procs -> Pc]
    BY <1>17, DoneType DEF ActivateLedger, Procs
  <2> QED
    BY <1>17, <2>1, <2>2 DEF ActivateLedger, TypeOK, evidence, activation
<1>18. ASSUME NEW p \in Procs, NEW c \in Cycles,
             NEW champion \in Models \union {None}, CreateCycle(p, c, champion)
      PROVE  TypeOK'
  <2>1. cycles' \in [Cycles -> Cycle]
    BY <1>18, NewCycleType DEF CreateCycle, TypeOK
  <2>2. mem' \in [Procs -> Mem]
    <3>1. c \in 0..MaxCycles
      BY BoundsAssumption DEF Cycles
    <3>2. mem \in [Procs -> Mem] /\ p \in Procs
      BY <1>18 DEF TypeOK, Procs
    <3>3. mem' = [mem EXCEPT ![p].cycle = c]
      BY <1>18 DEF CreateCycle
    <3> QED
      BY <3>1, <3>2, <3>3, MemCycleType
  <2>3. pc' \in [Procs -> Pc]
    <3>1. "create_ledger" \in Pc
      BY DEF Pc, ActivatePc, CyclePc
    <3> QED
      BY <1>18, <3>1, GotoType DEF CreateCycle, Procs
  <2> QED
    BY <1>18, <2>1, <2>2, <2>3 DEF CreateCycle, TypeOK, evidence, activation
<1>19. ASSUME NEW p \in Procs, CreateLedger(p)
      PROVE  TypeOK'
  <2>1. mem' \in [Procs -> Mem] /\ pc' \in [Procs -> Pc]
    BY <1>19, DoneType DEF CreateLedger, Procs
  <2> QED
    BY <1>19, <2>1 DEF CreateLedger, TypeOK, evidence, activation, Cycles
<1>20. ASSUME NEW p \in Procs, NEW c \in Cycles, NEW named \in NamedReports, RunGet(p, c, named)
      PROVE  TypeOK'
  <2>1. mem' \in [Procs -> Mem]
    <3>1. c \in 0..MaxCycles
      BY BoundsAssumption DEF Cycles
    <3>2. cycles[c].listed \in SUBSET (0..MaxProposals)
      BY DEF TypeOK, Cycle
    <3>3. mem \in [Procs -> Mem] /\ p \in Procs
      BY <1>20 DEF TypeOK, Procs
    <3>4. mem' = [mem EXCEPT ![p].cycle = c, ![p].listed = cycles[c].listed, ![p].named = named]
      BY <1>20 DEF RunGet
    <3>5. named \in SUBSET (1..MaxReports)
      BY BoundsAssumption
    <3> QED
      BY <3>1, <3>2, <3>3, <3>4, <3>5, MemRunType
  <2>2. pc' \in [Procs -> Pc]
    <3>1. "run_save" \in Pc
      BY DEF Pc, ActivatePc, CyclePc
    <3> QED
      BY <1>20, <3>1, GotoType DEF RunGet, Procs
  <2> QED
    BY <1>20, <2>1, <2>2 DEF RunGet, TypeOK, evidence, activation
<1>21. ASSUME NEW p \in Procs, RunSave(p)
      PROVE  TypeOK'
  <2>1. cycles' \in [Cycles -> Cycle]
    BY <1>21, SaveCycleType, MemFields DEF RunSave
  <2>2. pc' \in [Procs -> Pc]
    <3>1. "plan" \in Pc
      BY DEF Pc, ActivatePc, CyclePc
    <3> QED
      BY <1>21, <3>1, GotoType DEF RunSave, Procs
  <2> QED
    BY <1>21, <2>1, <2>2 DEF RunSave, TypeOK, evidence, activation
<1>22. ASSUME NEW p \in Procs, PlanBlocked(p)
      PROVE  TypeOK'
  <2>1. cycles' \in [Cycles -> Cycle]
    BY <1>22, SaveCycleType, MemFields DEF PlanBlocked
  <2>2. pc' \in [Procs -> Pc]
    <3>1. "complete_ledger" \in Pc
      BY DEF Pc, ActivatePc, CyclePc
    <3> QED
      BY <1>22, <3>1, GotoType DEF PlanBlocked, Procs
  <2> QED
    BY <1>22, <2>1, <2>2 DEF PlanBlocked, TypeOK, evidence, activation
<1>23. ASSUME NEW p \in Procs, NEW challenger \in Models \union {None},
             NEW train \in BOOLEAN, PlanPasses(p, challenger, train)
      PROVE  TypeOK'
  <2>1. mem' \in [Procs -> Mem]
    <3>1. mem \in [Procs -> Mem] /\ p \in Procs
      BY <1>23 DEF TypeOK, Procs
    <3>2. mem' = [mem EXCEPT ![p].model = challenger]
      BY <1>23 DEF PlanPasses
    <3> QED
      BY <3>1, <3>2, MemModelType
  <2>2. pc' \in [Procs -> Pc]
    BY <1>23 DEF PlanPasses, TypeOK, Goto, Pc, ActivatePc, CyclePc
  <2> QED
    BY <1>23, <2>1, <2>2 DEF PlanPasses, TypeOK, evidence, activation
<1>24. ASSUME NEW p \in Procs, NEW mode \in Modes,
             NEW accepted \in BOOLEAN, CycleValidate(p, mode, accepted)
      PROVE  TypeOK'
  <2>1. reports' \subseteq Report
    BY <1>24, SaveReportType, MemFields DEF CycleValidate
  <2>2. pc' \in [Procs -> Pc]
    <3>1. "compare" \in Pc
      BY DEF Pc, ActivatePc, CyclePc
    <3> QED
      BY <1>24, <3>1, GotoType DEF CycleValidate, Procs
  <2> QED
    BY <1>24, <2>1, <2>2 DEF CycleValidate, TypeOK, evidence, activation
<1>25. ASSUME NEW p \in Procs, CycleSkipValidate(p)
      PROVE  TypeOK'
  <2>1. pc' \in [Procs -> Pc]
    <3>1. "compare" \in Pc
      BY DEF Pc, ActivatePc, CyclePc
    <3> QED
      BY <1>25, <3>1, GotoType DEF CycleSkipValidate, Procs
  <2> QED
    BY <1>25, <2>1 DEF CycleSkipValidate, TypeOK, evidence, activation
<1>26. ASSUME NEW p \in Procs, NEW evidencePass \in BOOLEAN,
             NEW dataPass \in BOOLEAN,
             NEW worse \in BOOLEAN, Compare(p, evidencePass, dataPass, worse)
      PROVE  TypeOK'
  <2>1. mem' \in [Procs -> Mem]
    <3> DEFINE m == mem[p].model
               hasChampion == HasChampion(mem[p].cycle)
               found == Compared(m, mem[p].named)
               validated == \E r \in found : r.accepted
               readiness == ReadinessOf(m, validated, evidencePass, dataPass)
               action == RecommendedAction(m, hasChampion, readiness, worse)
    <3>1. mem \in [Procs -> Mem]
      BY DEF TypeOK
    <3>2. CASE m = None
      <4>1. PICK a \in Action : mem' = [mem EXCEPT ![p].readiness = "REVIEW", ![p].action = a]
        BY <1>26, <3>2 DEF Compare, Action
      <4> QED
        BY <3>1, <4>1, MemMissingType DEF Readiness
    <3>3. CASE m # None
      <4>1. readiness \in Readiness
        BY ReadinessType
      <4>2. action \in Action
        BY <4>1, RecommendedType DEF HasChampion
      <4>3. PICK id \in 0..MaxReports : mem' = [mem EXCEPT ![p].readiness = readiness,
                                                ![p].action = action, ![p].report = id]
        BY <1>26, <3>3 DEF Compare
      <4> HIDE DEF readiness, action
      <4> QED
        BY <3>1, <4>1, <4>2, <4>3, MemCompareType
    <3> QED
      BY <3>2, <3>3
  <2>2. pc' \in [Procs -> Pc]
    <3>1. "propose" \in Pc
      BY DEF Pc, ActivatePc, CyclePc
    <3> QED
      BY <1>26, <3>1, GotoType DEF Compare, Procs
  <2> QED
    BY <1>26, <2>1, <2>2 DEF Compare, TypeOK, evidence, activation
<1>27. ASSUME NEW p \in Procs, Propose(p)
      PROVE  TypeOK'
  <2>1. PICK i \in Proposals :
             /\ proposals' = [proposals EXCEPT ![i] =
                    [status |-> NewStatus(mem[p].action, mem[p].readiness),
                     challenger |-> mem[p].model, action |-> mem[p].action,
                     readiness |-> mem[p].readiness, report |-> mem[p].report,
                     cycle |-> mem[p].cycle, named |-> mem[p].named]]
             /\ mem' = [mem EXCEPT ![p].proposal = i]
    BY <1>27 DEF Propose
  <2>2. proposals' \in [Proposals -> Proposal]
    <3>1. NewStatus(mem[p].action, mem[p].readiness) \in ProposalStatus
      BY MemFields, StatusTypes DEF ProposalStatus
    <3> DEFINE new == [status |-> NewStatus(mem[p].action, mem[p].readiness),
                       challenger |-> mem[p].model, action |-> mem[p].action,
                       readiness |-> mem[p].readiness, report |-> mem[p].report,
                       cycle |-> mem[p].cycle, named |-> mem[p].named]
    <3>2. new \in Proposal
      BY <3>1, MemFields DEF Proposal
    <3>3. proposals' = [proposals EXCEPT ![i] = new]
      BY <2>1
    <3> HIDE DEF new
    <3> QED
      BY <3>2, <3>3 DEF TypeOK
  <2>3. mem' \in [Procs -> Mem]
    <3>1. i \in 0..MaxProposals /\ mem \in [Procs -> Mem]
      BY BoundsAssumption DEF Proposals, TypeOK
    <3> QED
      BY <2>1, <3>1, MemProposalType
  <2>4. pc' \in [Procs -> Pc]
    <3>1. "propose_ledger" \in Pc
      BY DEF Pc, ActivatePc, CyclePc
    <3> QED
      BY <1>27, <3>1, GotoType DEF Propose, Procs
  <2> QED
    BY <1>27, <2>1, <2>2, <2>3, <2>4 DEF Propose, TypeOK, evidence, activation
<1>28. ASSUME NEW p \in Procs, ProposeLedger(p)
      PROVE  TypeOK'
  <2>1. ledger' \in [Proposals -> SUBSET Decision]
    BY <1>28, RecordType DEF ProposeLedger, Decision
  <2>2. pc' \in [Procs -> Pc]
    <3>1. "complete" \in Pc
      BY DEF Pc, ActivatePc, CyclePc
    <3> QED
      BY <1>28, <3>1, GotoType DEF ProposeLedger, Procs
  <2> QED
    BY <1>28, <2>1, <2>2 DEF ProposeLedger, TypeOK, evidence, activation
<1>29. ASSUME NEW p \in Procs, Complete(p)
      PROVE  TypeOK'
  <2>1. cycles' \in [Cycles -> Cycle]
    <3>1. FinalStatus(mem[p].readiness, mem[p].action) \in {"BLOCKED", "COMPLETED"}
      BY MemFields, StatusTypes
    <3>2. {mem[p].proposal} \in SUBSET (0..MaxProposals)
      BY MemFields
    <3> QED
      BY <1>29, <3>1, <3>2, SaveCycleType DEF Complete
  <2>2. pc' \in [Procs -> Pc]
    <3>1. "complete_ledger" \in Pc
      BY DEF Pc, ActivatePc, CyclePc
    <3> QED
      BY <1>29, <3>1, GotoType DEF Complete, Procs
  <2> QED
    BY <1>29, <2>1, <2>2 DEF Complete, TypeOK, evidence, activation
<1>30. ASSUME NEW p \in Procs, CompleteLedger(p)
      PROVE  TypeOK'
  <2>1. mem' \in [Procs -> Mem] /\ pc' \in [Procs -> Pc]
    BY <1>30, DoneType DEF CompleteLedger, Procs
  <2> QED
    BY <1>30, <2>1 DEF CompleteLedger, TypeOK, evidence, activation, Cycles
<1>31. ASSUME NEW p \in Procs, Crash(p)
      PROVE  TypeOK'
  <2>1. mem' \in [Procs -> Mem] /\ pc' \in [Procs -> Pc]
    BY <1>31, DoneType DEF Crash, Procs
  <2> QED
    BY <1>31, <2>1 DEF Crash, TypeOK, evidence, activation
<1>32. CASE UNCHANGED vars
  BY <1>32 DEF TypeOK, vars, evidence, activation
<1> QED
  BY <1>1, <1>2, <1>3, <1>4, <1>5, <1>6, <1>7, <1>8, <1>9, <1>10, <1>11, <1>12, <1>13, <1>14,
     <1>15, <1>16, <1>17, <1>18, <1>19, <1>20, <1>21, <1>22, <1>23, <1>24, <1>25, <1>26, <1>27,
     <1>28, <1>29, <1>30, <1>31, <1>32 DEF Next, Request, CycleRequest, ProcStep, CycleStep,
     ActivateStep, Procs

-----------------------------------------------------------------------------
(***************************************************************************)
(* The inductive invariant: one step per action, and under it one per      *)
(* conjunct whose variables the action changes.                            *)
(***************************************************************************)
\* The gates pass only on an accepted report of the model, of its own purpose.
LEMMA GateBacks ==
  ASSUME NEW m, NEW mode, NEW calibration, NEW r \in reports,
         GatePasses(m, mode, calibration, r)
  PROVE  m \in Models /\ Backs(r.id, m)
  BY DEF GatePasses, GateReports, Latest, Newest, ReportsOf, Backs

\* The comparison finds one report at most: of the challenger, or of those named.
LEMMA ComparedIsOne ==
  ASSUME TypeOK, NEW m, NEW named, NEW r \in Compared(m, named), NEW s \in Compared(m, named)
  PROVE  /\ r \in reports /\ s \in reports /\ r.id = s.id
         /\ IF named = {} THEN r.model = m ELSE r.id \in named
<1>1. /\ r \in reports /\ s \in reports
      /\ IF named = {} THEN r.model = m ELSE r.id \in named
  BY DEF Compared, StoredReport, Latest, Newest, ReportsOf
<1>2. r.id <= s.id /\ s.id <= r.id
  <2>1. CASE named # {}
    BY <2>1 DEF Compared, Newest
  <2>2. CASE named = {}
    BY <2>2 DEF Compared, StoredReport, Latest, Newest
  <2> QED
    BY <2>1, <2>2
<1>3. r.id \in Nat /\ s.id \in Nat
  BY <1>1 DEF TypeOK, Report
<1> QED
  BY <1>1, <1>2, <1>3

LEMMA InitGovernance == Init => GovernanceInv
  BY InitTypeOK
  DEF Init, GovernanceInv, UniqueIds, IdleIsClean, GatePassed, ActiveHasAcceptedReport, FlagsAgree,
      ActivationRequested, Recommending, RecommendedOnReport, ActivatePc, Procs, Types,
      NoProposal, NoMem

LEMMA StepGovernance == GovernanceInv /\ [Next]_vars => GovernanceInv'
<1> SUFFICES ASSUME GovernanceInv, [Next]_vars
             PROVE  GovernanceInv'
  OBVIOUS
<1> USE ModelsAssumption, ProcsAssumption, BoundsAssumption
<1>a. TypeOK /\ UniqueIds /\ IdleIsClean /\ GatePassed /\ ActiveHasAcceptedReport
        /\ FlagsAgree /\ ActivationRequested
        /\ Recommending /\ RecommendedOnReport
  BY DEF GovernanceInv
<1>b. TypeOK'
  BY <1>a, StepTypeOK
<1>1. ASSUME NEW m \in Models, Train(m)
      PROVE  GovernanceInv'
  <2>1. IdleIsClean'
    BY <1>1, <1>a DEF Train, Goto, TypeOK, Mem, NoMem, Procs, evidence, activation, IdleIsClean
  <2>2. GatePassed'
    BY <1>1, <1>a DEF Train, Goto, TypeOK, Mem, NoMem, Procs, evidence, activation, GatePassed,
       Backs
  <2>3. ActivationRequested'
    BY <1>1, <1>a DEF Train, Goto, TypeOK, Mem, NoMem, Procs, evidence, activation,
       ActivationRequested, ActivatePc
  <2>4. Recommending'
    BY <1>1, <1>a DEF Train, Goto, TypeOK, Mem, NoMem, Procs, evidence, activation,
       Recommending, NamedOrOwn
  <2> QED
    BY <1>1, <1>a, <1>b, <2>1, <2>2, <2>3, <2>4 DEF Train, GovernanceInv, UniqueIds,
       ActiveHasAcceptedReport, Backs, FlagsAgree, RecommendedOnReport, Recommending,
       NamedOrOwn, evidence, activation
<1>2. ASSUME NEW p \in Procs, TrainFile(p)
      PROVE  GovernanceInv'
  <2>1. IdleIsClean'
    BY <1>2, <1>a DEF TrainFile, Goto, TypeOK, Mem, NoMem, Procs, activation, IdleIsClean
  <2>2. GatePassed'
    BY <1>2, <1>a DEF TrainFile, Goto, TypeOK, Mem, NoMem, Procs, activation, GatePassed, Backs
  <2>3. FlagsAgree'
    BY <1>2, <1>a DEF TrainFile, WriteFile, TypeOK, activation, FlagsAgree
  <2>4. ActivationRequested'
    BY <1>2, <1>a DEF TrainFile, Goto, TypeOK, Mem, NoMem, Procs, activation,
       ActivationRequested, ActivatePc
  <2>5. Recommending'
    BY <1>2, <1>a DEF TrainFile, Goto, TypeOK, Mem, NoMem, Procs, activation, Recommending,
       NamedOrOwn
  <2> QED
    BY <1>2, <1>a, <1>b, <2>1, <2>2, <2>3, <2>4, <2>5 DEF TrainFile, GovernanceInv, UniqueIds,
       ActiveHasAcceptedReport, Backs, RecommendedOnReport, Recommending, NamedOrOwn, activation
<1>3. ASSUME NEW p \in Procs, TrainSave(p)
      PROVE  GovernanceInv'
  <2>1. IdleIsClean'
    BY <1>3, <1>a DEF TrainSave, Goto, Done, TypeOK, Mem, NoMem, Procs, activation, IdleIsClean
  <2>2. GatePassed'
    BY <1>3, <1>a DEF TrainSave, Goto, Done, TypeOK, Mem, NoMem, Procs, activation, GatePassed,
       Backs
  <2>3. FlagsAgree'
    BY <1>3, <1>a DEF TrainSave, SaveTrained, TypeOK, activation, FlagsAgree
  <2>4. ActivationRequested'
    BY <1>3, <1>a DEF TrainSave, Goto, Done, TypeOK, Mem, NoMem, Procs, activation,
       ActivationRequested, ActivatePc
  <2>5. Recommending'
    BY <1>3, <1>a DEF TrainSave, Goto, Done, TypeOK, Mem, NoMem, Procs, activation,
       Recommending, NamedOrOwn
  <2> QED
    BY <1>3, <1>a, <1>b, <2>1, <2>2, <2>3, <2>4, <2>5 DEF TrainSave, GovernanceInv, UniqueIds,
       ActiveHasAcceptedReport, Backs, RecommendedOnReport, Recommending, NamedOrOwn, activation
<1>4. ASSUME NEW m \in Models, NEW mode \in Modes,
             NEW accepted \in BOOLEAN, Validate(m, mode, accepted)
      PROVE  GovernanceInv'
  <2>1. UniqueIds'
    BY <1>4, <1>a, SaveReportType DEF Validate, TypeOK, activation, UniqueIds
  <2>2. GatePassed'
    BY <1>4, <1>a DEF Validate, SaveReport, TypeOK, Mem, NoMem, Procs, activation, GatePassed,
       Backs
  <2>3. ActiveHasAcceptedReport'
    BY <1>4, <1>a DEF Validate, SaveReport, TypeOK, activation, ActiveHasAcceptedReport, Backs
  <2>4. Recommending'
    BY <1>4, <1>a DEF Validate, SaveReport, TypeOK, Mem, NoMem, Procs, activation,
       Recommending, NamedOrOwn
  <2>5. RecommendedOnReport'
    BY <1>4, <1>a DEF Validate, SaveReport, TypeOK, activation, RecommendedOnReport,
       Recommending, NamedOrOwn
  <2> QED
    BY <1>4, <1>a, <1>b, <2>1, <2>2, <2>3, <2>4, <2>5 DEF Validate, GovernanceInv, IdleIsClean,
       FlagsAgree, ActivationRequested, ActivatePc, activation
<1>5. ASSUME NEW i \in Proposals, Approve(i)
      PROVE  GovernanceInv'
  <2>1. IdleIsClean'
    BY <1>5, <1>a DEF Approve, Goto, TypeOK, Mem, NoMem, Procs, evidence, activation, IdleIsClean
  <2>2. GatePassed'
    BY <1>5, <1>a DEF Approve, Goto, TypeOK, Mem, NoMem, Procs, evidence, activation,
       GatePassed, Backs
  <2>3. ActivationRequested'
    BY <1>5, <1>a, SaveStatusType DEF Approve, Goto, ProposalStatus, TypeOK, Mem, NoMem, Procs,
       evidence, activation, ActivationRequested, ActivatePc
  <2>4. Recommending'
    BY <1>5, <1>a DEF Approve, Goto, TypeOK, Mem, NoMem, Procs, evidence, activation,
       Recommending, NamedOrOwn
  <2>5. RecommendedOnReport'
    BY <1>5, <1>a, SaveStatusType DEF Approve, ProposalStatus, evidence, RecommendedOnReport
  <2> QED
    BY <1>5, <1>a, <1>b, <2>1, <2>2, <2>3, <2>4, <2>5 DEF Approve, GovernanceInv, UniqueIds,
       ActiveHasAcceptedReport, Backs, FlagsAgree, evidence, activation
<1>6. ASSUME ApproveLedger
      PROVE  GovernanceInv'
  <2>1. IdleIsClean'
    BY <1>6, <1>a DEF ApproveLedger, Done, Goto, TypeOK, Mem, NoMem, Procs, evidence,
       activation, IdleIsClean
  <2>2. GatePassed'
    BY <1>6, <1>a DEF ApproveLedger, Done, Goto, TypeOK, Mem, NoMem, Procs, evidence,
       activation, GatePassed, Backs
  <2>3. ActivationRequested'
    BY <1>6, <1>a, RecordType DEF ApproveLedger, Done, Goto, Decision, TypeOK, Mem, NoMem,
       Procs, evidence, activation, ActivationRequested, ActivatePc
  <2>4. Recommending'
    BY <1>6, <1>a DEF ApproveLedger, Done, Goto, TypeOK, Mem, NoMem, Procs, evidence,
       activation, Recommending, NamedOrOwn
  <2> QED
    BY <1>6, <1>a, <1>b, <2>1, <2>2, <2>3, <2>4 DEF ApproveLedger, GovernanceInv, UniqueIds,
       ActiveHasAcceptedReport, Backs, FlagsAgree, RecommendedOnReport, Recommending,
       NamedOrOwn, evidence, activation
<1>7. ASSUME NEW i \in Proposals, ApproveBlocked(i)
      PROVE  GovernanceInv'
  <2>1. ActivationRequested'
    BY <1>7, <1>a, RecordType DEF ApproveBlocked, Decision, TypeOK, Mem, NoMem, Procs,
       evidence, activation, ActivationRequested, ActivatePc
  <2> QED
    BY <1>7, <1>a, <1>b, <2>1 DEF ApproveBlocked, GovernanceInv, UniqueIds, IdleIsClean,
       GatePassed, Backs, ActiveHasAcceptedReport, FlagsAgree, Recommending, NamedOrOwn,
       RecommendedOnReport, evidence, activation
<1>8. ASSUME NEW i \in Proposals, Reject(i)
      PROVE  GovernanceInv'
  <2>1. IdleIsClean'
    BY <1>8, <1>a DEF Reject, Goto, TypeOK, Mem, NoMem, Procs, evidence, activation, IdleIsClean
  <2>2. GatePassed'
    BY <1>8, <1>a DEF Reject, Goto, TypeOK, Mem, NoMem, Procs, evidence, activation,
       GatePassed, Backs
  <2>3. ActivationRequested'
    BY <1>8, <1>a, SaveStatusType DEF Reject, Goto, ProposalStatus, TypeOK, Mem, NoMem, Procs,
       evidence, activation, ActivationRequested, ActivatePc
  <2>4. Recommending'
    BY <1>8, <1>a DEF Reject, Goto, TypeOK, Mem, NoMem, Procs, evidence, activation,
       Recommending, NamedOrOwn
  <2>5. RecommendedOnReport'
    BY <1>8, <1>a, SaveStatusType DEF Reject, ProposalStatus, evidence, RecommendedOnReport
  <2> QED
    BY <1>8, <1>a, <1>b, <2>1, <2>2, <2>3, <2>4, <2>5 DEF Reject, GovernanceInv, UniqueIds,
       ActiveHasAcceptedReport, Backs, FlagsAgree, evidence, activation
<1>9. ASSUME RejectLedger
      PROVE  GovernanceInv'
  <2>1. IdleIsClean'
    BY <1>9, <1>a DEF RejectLedger, Done, Goto, TypeOK, Mem, NoMem, Procs, evidence,
       activation, IdleIsClean
  <2>2. GatePassed'
    BY <1>9, <1>a DEF RejectLedger, Done, Goto, TypeOK, Mem, NoMem, Procs, evidence,
       activation, GatePassed, Backs
  <2>3. ActivationRequested'
    BY <1>9, <1>a, RecordType DEF RejectLedger, Done, Goto, Decision, TypeOK, Mem, NoMem,
       Procs, evidence, activation, ActivationRequested, ActivatePc
  <2>4. Recommending'
    BY <1>9, <1>a DEF RejectLedger, Done, Goto, TypeOK, Mem, NoMem, Procs, evidence,
       activation, Recommending, NamedOrOwn
  <2> QED
    BY <1>9, <1>a, <1>b, <2>1, <2>2, <2>3, <2>4 DEF RejectLedger, GovernanceInv, UniqueIds,
       ActiveHasAcceptedReport, Backs, FlagsAgree, RecommendedOnReport, Recommending,
       NamedOrOwn, evidence, activation
<1>10. ASSUME NEW i \in Proposals, ActivateRequest(i)
      PROVE  GovernanceInv'
  <2>1. IdleIsClean'
    BY <1>10, <1>a DEF ActivateRequest, Goto, TypeOK, Mem, NoMem, Procs, evidence, activation,
       IdleIsClean
  <2>2. GatePassed'
    BY <1>10, <1>a DEF ActivateRequest, Goto, TypeOK, Mem, NoMem, Procs, evidence, activation,
       GatePassed, Backs
  <2>3. ActivationRequested'
    BY <1>10, <1>a, RecordType DEF ActivateRequest, Goto, Decision, TypeOK, Mem, NoMem, Procs,
       evidence, activation, ActivationRequested, ActivatePc
  <2>4. Recommending'
    BY <1>10, <1>a DEF ActivateRequest, Goto, TypeOK, Mem, NoMem, Procs, evidence, activation,
       Recommending, NamedOrOwn
  <2> QED
    BY <1>10, <1>a, <1>b, <2>1, <2>2, <2>3, <2>4 DEF ActivateRequest, GovernanceInv, UniqueIds,
       ActiveHasAcceptedReport, Backs, FlagsAgree, RecommendedOnReport, Recommending,
       NamedOrOwn, evidence, activation
<1>11. ASSUME NEW confirm \in BOOLEAN, NEW mode \in Modes, NEW calibration \in BOOLEAN,
             NEW r \in reports, ActivateGate(confirm, mode, calibration, r)
      PROVE  GovernanceInv'
  <2>1. IdleIsClean'
    BY <1>11, <1>a DEF ActivateGate, Goto, TypeOK, Mem, NoMem, Procs, evidence, activation,
       IdleIsClean
  <2>2. GatePassed'
    <3> DEFINE m == proposals[mem[Api].proposal].challenger
    <3>1. m \in Models /\ Backs(r.id, m)
      BY <1>11, GateBacks DEF ActivateGate
    <3>2. mem'[Api].model = m /\ mem'[Api].report = r.id
      BY <1>11, <1>a DEF ActivateGate, TypeOK, Mem, Procs
    <3>3. UNCHANGED reports
      BY <1>11 DEF ActivateGate, evidence
    <3> QED
      BY <3>1, <3>2, <3>3 DEF GatePassed, Backs
  <2>3. ActivationRequested'
    BY <1>11, <1>a DEF ActivateGate, Goto, TypeOK, Mem, NoMem, Procs, evidence, activation,
       ActivationRequested, ActivatePc
  <2>4. Recommending'
    BY <1>11, <1>a DEF ActivateGate, Goto, TypeOK, Mem, NoMem, Procs, evidence, activation,
       Recommending, NamedOrOwn
  <2> QED
    BY <1>11, <1>a, <1>b, <2>1, <2>2, <2>3, <2>4 DEF ActivateGate, GovernanceInv, UniqueIds,
       ActiveHasAcceptedReport, Backs, FlagsAgree, RecommendedOnReport, Recommending,
       NamedOrOwn, evidence, activation
<1>12. ASSUME NEW confirm \in BOOLEAN, NEW mode \in Modes,
             NEW calibration \in BOOLEAN, ActivateBlocked(confirm, mode, calibration)
      PROVE  GovernanceInv'
  <2>1. IdleIsClean'
    BY <1>12, <1>a DEF ActivateBlocked, Done, Goto, TypeOK, Mem, NoMem, Procs, evidence,
       activation, IdleIsClean
  <2>2. GatePassed'
    BY <1>12, <1>a DEF ActivateBlocked, Done, Goto, TypeOK, Mem, NoMem, Procs, evidence,
       activation, GatePassed, Backs
  <2>3. ActivationRequested'
    BY <1>12, <1>a, RecordType DEF ActivateBlocked, Done, Goto, Decision, TypeOK, Mem, NoMem,
       Procs, evidence, activation, ActivationRequested, ActivatePc
  <2>4. Recommending'
    BY <1>12, <1>a DEF ActivateBlocked, Done, Goto, TypeOK, Mem, NoMem, Procs, evidence,
       activation, Recommending, NamedOrOwn
  <2> QED
    BY <1>12, <1>a, <1>b, <2>1, <2>2, <2>3, <2>4 DEF ActivateBlocked, GovernanceInv, UniqueIds,
       ActiveHasAcceptedReport, Backs, FlagsAgree, RecommendedOnReport, Recommending,
       NamedOrOwn, evidence, activation
<1>13. ASSUME NEW m \in Models, NEW mode \in Modes, NEW calibration \in BOOLEAN,
             NEW r \in reports, DirectActivate(m, mode, calibration, r)
      PROVE  GovernanceInv'
  <2>1. IdleIsClean'
    BY <1>13, <1>a DEF DirectActivate, Goto, TypeOK, Mem, NoMem, Procs, evidence, activation,
       IdleIsClean
  <2>2. GatePassed'
    <3>1. Backs(r.id, m)
      BY <1>13, GateBacks DEF DirectActivate
    <3>2. mem'[Api].model = m /\ mem'[Api].report = r.id
      BY <1>13, <1>a DEF DirectActivate, TypeOK, Mem, Procs
    <3>3. UNCHANGED reports
      BY <1>13 DEF DirectActivate, evidence
    <3> QED
      BY <3>1, <3>2, <3>3 DEF GatePassed, Backs
  <2>3. ActivationRequested'
    <3>1. mem[Api].proposal = 0
      BY <1>13, <1>a DEF DirectActivate, IdleIsClean, NoMem, Procs
    <3>2. mem'[Api].proposal = 0
      BY <1>13, <1>a, <3>1 DEF DirectActivate, TypeOK, Mem, Procs
    <3> QED
      BY <1>13, <1>a, <3>2 DEF DirectActivate, ActivationRequested
  <2>4. Recommending'
    BY <1>13, <1>a DEF DirectActivate, Goto, TypeOK, Mem, NoMem, Procs, evidence, activation,
       Recommending, NamedOrOwn
  <2> QED
    BY <1>13, <1>a, <1>b, <2>1, <2>2, <2>3, <2>4 DEF DirectActivate, GovernanceInv, UniqueIds,
       ActiveHasAcceptedReport, Backs, FlagsAgree, RecommendedOnReport, Recommending,
       NamedOrOwn, evidence, activation
<1>14. ASSUME ActivateCommit
      PROVE  GovernanceInv'
  <2>1. IdleIsClean'
    BY <1>14, <1>a DEF ActivateCommit, Goto, TypeOK, Mem, NoMem, Procs, IdleIsClean
  <2>2. GatePassed'
    BY <1>14, <1>a DEF ActivateCommit, Goto, TypeOK, Mem, NoMem, Procs, GatePassed, Backs
  <2>3. ActiveHasAcceptedReport'
    <3>1. mem[Api].model \in Models /\ Backs(mem[Api].report, mem[Api].model)
      BY <1>14, <1>a DEF ActivateCommit, GatePassed
    <3>2. TypeOf(mem[Api].model) = "replay_aware" => mem[Api].model \in ReplayAware
      BY DEF TypeOf
    <3> QED
      BY <1>14, <1>a, <3>1, <3>2
      DEF ActivateCommit, TypeOK, ActiveHasAcceptedReport, Backs, Types, TypeOf
  <2>4. FlagsAgree'
    <3>1. mem[Api].model \in Models
      BY <1>14, <1>a DEF ActivateCommit, GatePassed
    <3>2. TypeOf(mem[Api].model) \in Types
      BY DEF TypeOf, Types
    <3>3. \A x \in Models : models'[x] = "active" => x = mem[Api].model
      BY <1>14, <1>a DEF ActivateCommit, Flags, InRuns, TypeOK
    <3>4. active'[TypeOf(mem[Api].model)].model = mem[Api].model
      BY <1>14, <1>a, <3>2 DEF ActivateCommit, TypeOK
    <3> QED
      BY <3>1, <3>3, <3>4 DEF FlagsAgree
  <2>5. ActivationRequested'
    BY <1>14, <1>a DEF ActivateCommit, Goto, TypeOK, Mem, NoMem, Procs, ActivationRequested,
       ActivatePc
  <2>6. Recommending'
    BY <1>14, <1>a DEF ActivateCommit, Goto, TypeOK, Mem, NoMem, Procs, Recommending, NamedOrOwn
  <2> QED
    BY <1>14, <1>a, <1>b, <2>1, <2>2, <2>3, <2>4, <2>5, <2>6 DEF ActivateCommit, GovernanceInv,
       UniqueIds, RecommendedOnReport, Recommending, NamedOrOwn
<1>15. ASSUME ActivateFile
      PROVE  GovernanceInv'
  <2>1. IdleIsClean'
    BY <1>15, <1>a DEF ActivateFile, Goto, Done, TypeOK, Mem, NoMem, Procs, evidence, IdleIsClean
  <2>2. GatePassed'
    BY <1>15, <1>a DEF ActivateFile, Goto, Done, TypeOK, Mem, NoMem, Procs, evidence,
       GatePassed, Backs
  <2>3. ActivationRequested'
    BY <1>15, <1>a DEF ActivateFile, Goto, Done, TypeOK, Mem, NoMem, Procs, evidence,
       ActivationRequested, ActivatePc
  <2>4. Recommending'
    BY <1>15, <1>a DEF ActivateFile, Goto, Done, TypeOK, Mem, NoMem, Procs, evidence,
       Recommending, NamedOrOwn
  <2> QED
    BY <1>15, <1>a, <1>b, <2>1, <2>2, <2>3, <2>4 DEF ActivateFile, GovernanceInv, UniqueIds,
       ActiveHasAcceptedReport, Backs, FlagsAgree, RecommendedOnReport, Recommending,
       NamedOrOwn, evidence
<1>16. ASSUME ActivateSave
      PROVE  GovernanceInv'
  <2>1. IdleIsClean'
    BY <1>16, <1>a DEF ActivateSave, Goto, TypeOK, Mem, NoMem, Procs, evidence, activation,
       IdleIsClean
  <2>2. GatePassed'
    BY <1>16, <1>a DEF ActivateSave, Goto, TypeOK, Mem, NoMem, Procs, evidence, activation,
       GatePassed, Backs
  <2>3. ActivationRequested'
    <3>1. \A i \in Proposals : proposals'[i].status = "ACTIVATED" =>
            proposals[i].status = "ACTIVATED" \/ i = mem[Api].proposal
      BY <1>16, <1>a, SaveStatusType DEF ActivateSave, ProposalStatus
    <3>2. mem[Api].proposal # 0 => "MODEL_ACTIVATION_REQUESTED" \in ledger[mem[Api].proposal]
      BY <1>16, <1>a DEF ActivateSave, ActivationRequested, ActivatePc
    <3>3. \A i \in Proposals : i # 0
      BY DEF Proposals
    <3> QED
      BY <1>16, <1>a, <3>1, <3>2, <3>3 DEF ActivateSave, ActivationRequested
  <2>4. Recommending'
    BY <1>16, <1>a DEF ActivateSave, Goto, TypeOK, Mem, NoMem, Procs, evidence, activation,
       Recommending, NamedOrOwn
  <2>5. RecommendedOnReport'
    BY <1>16, <1>a, SaveStatusType DEF ActivateSave, ProposalStatus, evidence, RecommendedOnReport
  <2> QED
    BY <1>16, <1>a, <1>b, <2>1, <2>2, <2>3, <2>4, <2>5 DEF ActivateSave, GovernanceInv,
       UniqueIds, ActiveHasAcceptedReport, Backs, FlagsAgree, evidence, activation
<1>17. ASSUME ActivateLedger
      PROVE  GovernanceInv'
  <2>1. IdleIsClean'
    BY <1>17, <1>a DEF ActivateLedger, Done, Goto, TypeOK, Mem, NoMem, Procs, evidence,
       activation, IdleIsClean
  <2>2. GatePassed'
    BY <1>17, <1>a DEF ActivateLedger, Done, Goto, TypeOK, Mem, NoMem, Procs, evidence,
       activation, GatePassed, Backs
  <2>3. ActivationRequested'
    BY <1>17, <1>a, RecordType DEF ActivateLedger, Done, Goto, Decision, TypeOK, Mem, NoMem,
       Procs, evidence, activation, ActivationRequested, ActivatePc
  <2>4. Recommending'
    BY <1>17, <1>a DEF ActivateLedger, Done, Goto, TypeOK, Mem, NoMem, Procs, evidence,
       activation, Recommending, NamedOrOwn
  <2> QED
    BY <1>17, <1>a, <1>b, <2>1, <2>2, <2>3, <2>4 DEF ActivateLedger, GovernanceInv, UniqueIds,
       ActiveHasAcceptedReport, Backs, FlagsAgree, RecommendedOnReport, Recommending,
       NamedOrOwn, evidence, activation
<1>18. ASSUME NEW p \in Procs, NEW c \in Cycles,
             NEW champion \in Models \union {None}, CreateCycle(p, c, champion)
      PROVE  GovernanceInv'
  <2>1. IdleIsClean'
    BY <1>18, <1>a DEF CreateCycle, Goto, TypeOK, Mem, NoMem, Procs, evidence, activation,
       IdleIsClean
  <2>2. GatePassed'
    BY <1>18, <1>a DEF CreateCycle, Goto, TypeOK, Mem, NoMem, Procs, evidence, activation,
       GatePassed, Backs
  <2>3. ActivationRequested'
    BY <1>18, <1>a DEF CreateCycle, Goto, TypeOK, Mem, NoMem, Procs, evidence, activation,
       ActivationRequested, ActivatePc
  <2>4. Recommending'
    BY <1>18, <1>a DEF CreateCycle, Goto, TypeOK, Mem, NoMem, Procs, evidence, activation,
       Recommending, NamedOrOwn
  <2> QED
    BY <1>18, <1>a, <1>b, <2>1, <2>2, <2>3, <2>4 DEF CreateCycle, GovernanceInv, UniqueIds,
       ActiveHasAcceptedReport, Backs, FlagsAgree, RecommendedOnReport, Recommending,
       NamedOrOwn, evidence, activation
<1>19. ASSUME NEW p \in Procs, CreateLedger(p)
      PROVE  GovernanceInv'
  <2>1. IdleIsClean'
    BY <1>19, <1>a DEF CreateLedger, Done, Goto, TypeOK, Mem, NoMem, Procs, evidence,
       activation, IdleIsClean
  <2>2. GatePassed'
    BY <1>19, <1>a DEF CreateLedger, Done, Goto, TypeOK, Mem, NoMem, Procs, evidence,
       activation, GatePassed, Backs
  <2>3. ActivationRequested'
    BY <1>19, <1>a DEF CreateLedger, Done, Goto, TypeOK, Mem, NoMem, Procs, evidence,
       activation, ActivationRequested, ActivatePc
  <2>4. Recommending'
    BY <1>19, <1>a DEF CreateLedger, Done, Goto, TypeOK, Mem, NoMem, Procs, evidence,
       activation, Recommending, NamedOrOwn
  <2> QED
    BY <1>19, <1>a, <1>b, <2>1, <2>2, <2>3, <2>4 DEF CreateLedger, GovernanceInv, UniqueIds,
       ActiveHasAcceptedReport, Backs, FlagsAgree, RecommendedOnReport, Recommending,
       NamedOrOwn, evidence, activation
<1>20. ASSUME NEW p \in Procs, NEW c \in Cycles, NEW named \in NamedReports, RunGet(p, c, named)
      PROVE  GovernanceInv'
  <2>1. IdleIsClean'
    BY <1>20, <1>a DEF RunGet, Goto, TypeOK, Mem, NoMem, Procs, evidence, activation, IdleIsClean
  <2>2. GatePassed'
    BY <1>20, <1>a DEF RunGet, Goto, TypeOK, Mem, NoMem, Procs, evidence, activation,
       GatePassed, Backs
  <2>3. ActivationRequested'
    BY <1>20, <1>a DEF RunGet, Goto, TypeOK, Mem, NoMem, Procs, evidence, activation,
       ActivationRequested, ActivatePc
  <2>4. Recommending'
    BY <1>20, <1>a DEF RunGet, Goto, TypeOK, Mem, NoMem, Procs, evidence, activation,
       Recommending, NamedOrOwn
  <2> QED
    BY <1>20, <1>a, <1>b, <2>1, <2>2, <2>3, <2>4 DEF RunGet, GovernanceInv, UniqueIds,
       ActiveHasAcceptedReport, Backs, FlagsAgree, RecommendedOnReport, Recommending,
       NamedOrOwn, evidence, activation
<1>21. ASSUME NEW p \in Procs, RunSave(p)
      PROVE  GovernanceInv'
  <2>1. IdleIsClean'
    BY <1>21, <1>a DEF RunSave, Goto, TypeOK, Mem, NoMem, Procs, evidence, activation, IdleIsClean
  <2>2. GatePassed'
    BY <1>21, <1>a DEF RunSave, Goto, TypeOK, Mem, NoMem, Procs, evidence, activation,
       GatePassed, Backs
  <2>3. ActivationRequested'
    BY <1>21, <1>a DEF RunSave, Goto, TypeOK, Mem, NoMem, Procs, evidence, activation,
       ActivationRequested, ActivatePc
  <2>4. Recommending'
    BY <1>21, <1>a DEF RunSave, Goto, TypeOK, Mem, NoMem, Procs, evidence, activation,
       Recommending, NamedOrOwn
  <2> QED
    BY <1>21, <1>a, <1>b, <2>1, <2>2, <2>3, <2>4 DEF RunSave, GovernanceInv, UniqueIds,
       ActiveHasAcceptedReport, Backs, FlagsAgree, RecommendedOnReport, Recommending,
       NamedOrOwn, evidence, activation
<1>22. ASSUME NEW p \in Procs, PlanBlocked(p)
      PROVE  GovernanceInv'
  <2>1. IdleIsClean'
    BY <1>22, <1>a DEF PlanBlocked, Goto, TypeOK, Mem, NoMem, Procs, evidence, activation,
       IdleIsClean
  <2>2. GatePassed'
    BY <1>22, <1>a DEF PlanBlocked, Goto, TypeOK, Mem, NoMem, Procs, evidence, activation,
       GatePassed, Backs
  <2>3. ActivationRequested'
    BY <1>22, <1>a DEF PlanBlocked, Goto, TypeOK, Mem, NoMem, Procs, evidence, activation,
       ActivationRequested, ActivatePc
  <2>4. Recommending'
    BY <1>22, <1>a DEF PlanBlocked, Goto, TypeOK, Mem, NoMem, Procs, evidence, activation,
       Recommending, NamedOrOwn
  <2> QED
    BY <1>22, <1>a, <1>b, <2>1, <2>2, <2>3, <2>4 DEF PlanBlocked, GovernanceInv, UniqueIds,
       ActiveHasAcceptedReport, Backs, FlagsAgree, RecommendedOnReport, Recommending,
       NamedOrOwn, evidence, activation
<1>23. ASSUME NEW p \in Procs, NEW challenger \in Models \union {None},
             NEW train \in BOOLEAN, PlanPasses(p, challenger, train)
      PROVE  GovernanceInv'
  <2>1. IdleIsClean'
    BY <1>23, <1>a DEF PlanPasses, Goto, TypeOK, Mem, NoMem, Procs, evidence, activation,
       IdleIsClean
  <2>2. GatePassed'
    BY <1>23, <1>a DEF PlanPasses, Goto, TypeOK, Mem, NoMem, Procs, evidence, activation,
       GatePassed, Backs
  <2>3. ActivationRequested'
    BY <1>23, <1>a DEF PlanPasses, Goto, TypeOK, Mem, NoMem, Procs, evidence, activation,
       ActivationRequested, ActivatePc
  <2>4. Recommending'
    BY <1>23, <1>a DEF PlanPasses, Goto, TypeOK, Mem, NoMem, Procs, evidence, activation,
       Recommending, NamedOrOwn
  <2> QED
    BY <1>23, <1>a, <1>b, <2>1, <2>2, <2>3, <2>4 DEF PlanPasses, GovernanceInv, UniqueIds,
       ActiveHasAcceptedReport, Backs, FlagsAgree, RecommendedOnReport, Recommending,
       NamedOrOwn, evidence, activation
<1>24. ASSUME NEW p \in Procs, NEW mode \in Modes,
             NEW accepted \in BOOLEAN, CycleValidate(p, mode, accepted)
      PROVE  GovernanceInv'
  <2>1. UniqueIds'
    BY <1>24, <1>a, SaveReportType, MemFields DEF CycleValidate
  <2>2. IdleIsClean'
    BY <1>24, <1>a DEF CycleValidate, Goto, TypeOK, Mem, NoMem, Procs, activation, IdleIsClean
  <2>3. GatePassed'
    BY <1>24, <1>a DEF CycleValidate, Goto, SaveReport, TypeOK, Mem, NoMem, Procs, activation,
       GatePassed, Backs
  <2>4. ActiveHasAcceptedReport'
    BY <1>24, <1>a DEF CycleValidate, SaveReport, TypeOK, activation, ActiveHasAcceptedReport,
       Backs
  <2>5. ActivationRequested'
    BY <1>24, <1>a DEF CycleValidate, Goto, TypeOK, Mem, NoMem, Procs, activation,
       ActivationRequested, ActivatePc
  <2>6. Recommending'
    BY <1>24, <1>a DEF CycleValidate, Goto, SaveReport, TypeOK, Mem, NoMem, Procs, activation,
       Recommending, NamedOrOwn
  <2>7. RecommendedOnReport'
    BY <1>24, <1>a DEF CycleValidate, SaveReport, TypeOK, activation, RecommendedOnReport,
       Recommending, NamedOrOwn
  <2> QED
    BY <1>24, <1>a, <1>b, <2>1, <2>2, <2>3, <2>4, <2>5, <2>6, <2>7 DEF CycleValidate,
       GovernanceInv, FlagsAgree, activation
<1>25. ASSUME NEW p \in Procs, CycleSkipValidate(p)
      PROVE  GovernanceInv'
  <2>1. IdleIsClean'
    BY <1>25, <1>a DEF CycleSkipValidate, Goto, TypeOK, Mem, NoMem, Procs, evidence,
       activation, IdleIsClean
  <2>2. GatePassed'
    BY <1>25, <1>a DEF CycleSkipValidate, Goto, TypeOK, Mem, NoMem, Procs, evidence,
       activation, GatePassed, Backs
  <2>3. ActivationRequested'
    BY <1>25, <1>a DEF CycleSkipValidate, Goto, TypeOK, Mem, NoMem, Procs, evidence,
       activation, ActivationRequested, ActivatePc
  <2>4. Recommending'
    BY <1>25, <1>a DEF CycleSkipValidate, Goto, TypeOK, Mem, NoMem, Procs, evidence,
       activation, Recommending, NamedOrOwn
  <2> QED
    BY <1>25, <1>a, <1>b, <2>1, <2>2, <2>3, <2>4 DEF CycleSkipValidate, GovernanceInv,
       UniqueIds, ActiveHasAcceptedReport, Backs, FlagsAgree, RecommendedOnReport,
       Recommending, NamedOrOwn, evidence, activation
<1>26. ASSUME NEW p \in Procs, NEW evidencePass \in BOOLEAN,
             NEW dataPass \in BOOLEAN,
             NEW worse \in BOOLEAN, Compare(p, evidencePass, dataPass, worse)
      PROVE  GovernanceInv'
  <2>1. IdleIsClean'
    BY <1>26, <1>a, ZenonT(40) DEF Compare, Goto, TypeOK, Mem, NoMem, Procs, evidence, activation, IdleIsClean
  <2>2. GatePassed'
    BY <1>26, <1>a, ZenonT(40) DEF Compare, Goto, TypeOK, Mem, NoMem, Procs, evidence, activation,
       GatePassed, Backs
  <2>3. ActivationRequested'
    BY <1>26, <1>a, ZenonT(40) DEF Compare, Goto, TypeOK, Mem, NoMem, Procs, evidence, activation,
       ActivationRequested, ActivatePc
  <2>4. Recommending'
    <3> DEFINE m == mem[p].model
               hasChampion == HasChampion(mem[p].cycle)
               found == Compared(m, mem[p].named)
               validated == \E r \in found : r.accepted
               readiness == ReadinessOf(m, validated, evidencePass, dataPass)
               action == RecommendedAction(m, hasChampion, readiness, worse)
    <3>1. UNCHANGED reports
      BY <1>26 DEF Compare, evidence
    <3>2. mem \in [Procs -> Mem] /\ mem[p] \in Mem /\ pc \in [Procs -> Pc]
      BY <1>a DEF TypeOK
    <3>3. Goto(p, "propose")
      BY <1>26 DEF Compare
    <3>4. \A q \in Procs \ {p} : pc'[q] = pc[q]
      BY <3>2, <3>3 DEF Goto
    <3>5. CASE m = None
      <4>1. PICK a \in {"KEEP_CHAMPION", "BLOCK_ALL_CHANGES"} :
              mem' = [mem EXCEPT ![p].readiness = "REVIEW", ![p].action = a]
        BY <1>26, <3>5 DEF Compare
      <4>2. mem'[p].action # "APPROVE_CHALLENGER_FOR_ACTIVATION"
        BY <3>2, <4>1 DEF Mem
      <4>3. \A q \in Procs \ {p} : mem'[q] = mem[q]
        BY <3>2, <4>1
      <4> QED
        BY <1>a, <3>1, <3>4, <4>2, <4>3 DEF Recommending, NamedOrOwn
    <3>6. CASE m # None
      <4>2. PICK id \in 0..MaxReports :
              /\ IF found = {} THEN id = 0 ELSE \E r \in found : r.id = id
              /\ mem' = [mem EXCEPT ![p].readiness = readiness,
                                     ![p].action = action, ![p].report = id]
        BY <1>26, <3>6 DEF Compare
      <4>3. action = "APPROVE_CHALLENGER_FOR_ACTIVATION" => validated
        BY DEF RecommendedAction, ReadinessOf
      <4> HIDE DEF action, readiness
      <4>4. /\ mem'[p].report = id /\ mem'[p].action = action
            /\ mem'[p].model = m /\ mem'[p].named = mem[p].named
        BY <3>2, <4>2 DEF Mem
      <4>5. \A q \in Procs \ {p} : mem'[q] = mem[q]
        BY <3>2, <4>2
      <4>6. ASSUME validated
            PROVE  NamedOrOwn(id, m, mem[p].named)
        <5>1. PICK s \in found : s.accepted
          BY <4>6
        <5>2. PICK r \in found : r.id = id
          BY <4>2, <5>1
        <5>3. /\ r \in reports /\ s \in reports /\ r.id = s.id
              /\ IF mem[p].named = {} THEN r.model = m ELSE r.id \in mem[p].named
          BY <1>a, ComparedIsOne
        <5>6. r = s
          BY <1>a, <5>3 DEF UniqueIds
        <5> QED
          BY <5>1, <5>2, <5>3, <5>6 DEF NamedOrOwn
      <4> QED
        BY <1>a, <3>1, <3>4, <4>3, <4>4, <4>5, <4>6 DEF Recommending, NamedOrOwn
    <3> QED
      BY <3>5, <3>6
  <2> QED
    BY <1>26, <1>a, <1>b, <2>1, <2>2, <2>3, <2>4, ZenonT(40) DEF Compare, GovernanceInv, UniqueIds,
       ActiveHasAcceptedReport, Backs, FlagsAgree, RecommendedOnReport, Recommending,
       NamedOrOwn, evidence, activation
<1>27. ASSUME NEW p \in Procs, Propose(p)
      PROVE  GovernanceInv'
  <2>1. IdleIsClean'
    BY <1>27, <1>a DEF Propose, Goto, TypeOK, Mem, NoMem, Procs, evidence, activation, IdleIsClean
  <2>2. GatePassed'
    BY <1>27, <1>a DEF Propose, Goto, TypeOK, Mem, NoMem, Procs, evidence, activation,
       GatePassed, Backs
  <2>3. ActivationRequested'
    <3>1. NewStatus(mem[p].action, mem[p].readiness) # "ACTIVATED"
      BY <1>a, MemFields, StatusTypes
    <3>2. \A i \in Proposals : proposals'[i].status = "ACTIVATED" =>
                                 proposals[i].status = "ACTIVATED"
      BY <1>27, <1>a, <3>1 DEF Propose, TypeOK
    <3>3. pc[Api] \notin ActivatePc \/ (p # Api /\ pc'[Api] = pc[Api] /\ mem'[Api] = mem[Api])
      BY <1>27, <1>a DEF Propose, Goto, TypeOK, ActivatePc
    <3>4. pc'[Api] \in ActivatePc => pc'[Api] = pc[Api]
      BY <1>27, <1>a DEF Propose, Goto, TypeOK, ActivatePc, Procs
    <3> QED
      BY <1>27, <1>a, <3>2, <3>3, <3>4 DEF Propose, ActivationRequested
  <2>4. Recommending'
    BY <1>27, <1>a DEF Propose, Goto, TypeOK, Mem, NoMem, Procs, evidence, activation,
       Recommending, NamedOrOwn
  <2>5. RecommendedOnReport'
    BY <1>27, <1>a DEF Propose, TypeOK, evidence, activation, RecommendedOnReport,
       Recommending, NamedOrOwn
  <2> QED
    BY <1>27, <1>a, <1>b, <2>1, <2>2, <2>3, <2>4, <2>5 DEF Propose, GovernanceInv, UniqueIds,
       ActiveHasAcceptedReport, Backs, FlagsAgree, evidence, activation
<1>28. ASSUME NEW p \in Procs, ProposeLedger(p)
      PROVE  GovernanceInv'
  <2>1. IdleIsClean'
    BY <1>28, <1>a DEF ProposeLedger, Goto, TypeOK, Mem, NoMem, Procs, evidence, activation,
       IdleIsClean
  <2>2. GatePassed'
    BY <1>28, <1>a DEF ProposeLedger, Goto, TypeOK, Mem, NoMem, Procs, evidence, activation,
       GatePassed, Backs
  <2>3. ActivationRequested'
    <3>1. \A i \in Proposals : ledger[i] \subseteq ledger'[i]
      BY <1>28, <1>a, RecordType DEF ProposeLedger, Decision
    <3>2. pc'[Api] \in ActivatePc => pc'[Api] = pc[Api]
      BY <1>28, <1>a DEF ProposeLedger, Goto, TypeOK, ActivatePc, Procs
    <3>3. mem[Api].proposal # 0 => mem[Api].proposal \in Proposals
      BY <1>a, MemFields DEF Procs, Proposals
    <3> QED
      BY <1>28, <1>a, <3>1, <3>2, <3>3 DEF ProposeLedger, ActivationRequested
  <2>4. Recommending'
    BY <1>28, <1>a DEF ProposeLedger, Goto, TypeOK, Mem, NoMem, Procs, evidence, activation,
       Recommending, NamedOrOwn
  <2> QED
    BY <1>28, <1>a, <1>b, <2>1, <2>2, <2>3, <2>4 DEF ProposeLedger, GovernanceInv, UniqueIds,
       ActiveHasAcceptedReport, Backs, FlagsAgree, RecommendedOnReport, Recommending,
       NamedOrOwn, evidence, activation
<1>29. ASSUME NEW p \in Procs, Complete(p)
      PROVE  GovernanceInv'
  <2>1. IdleIsClean'
    BY <1>29, <1>a DEF Complete, Goto, TypeOK, Mem, NoMem, Procs, evidence, activation,
       IdleIsClean
  <2>2. GatePassed'
    BY <1>29, <1>a DEF Complete, Goto, TypeOK, Mem, NoMem, Procs, evidence, activation,
       GatePassed, Backs
  <2>3. ActivationRequested'
    BY <1>29, <1>a DEF Complete, Goto, TypeOK, Mem, NoMem, Procs, evidence, activation,
       ActivationRequested, ActivatePc
  <2>4. Recommending'
    BY <1>29, <1>a DEF Complete, Goto, TypeOK, Mem, NoMem, Procs, evidence, activation,
       Recommending, NamedOrOwn
  <2> QED
    BY <1>29, <1>a, <1>b, <2>1, <2>2, <2>3, <2>4 DEF Complete, GovernanceInv, UniqueIds,
       ActiveHasAcceptedReport, Backs, FlagsAgree, RecommendedOnReport, Recommending,
       NamedOrOwn, evidence, activation
<1>30. ASSUME NEW p \in Procs, CompleteLedger(p)
      PROVE  GovernanceInv'
  <2>1. IdleIsClean'
    BY <1>30, <1>a DEF CompleteLedger, Done, Goto, TypeOK, Mem, NoMem, Procs, evidence,
       activation, IdleIsClean
  <2>2. GatePassed'
    BY <1>30, <1>a DEF CompleteLedger, Done, Goto, TypeOK, Mem, NoMem, Procs, evidence,
       activation, GatePassed, Backs
  <2>3. ActivationRequested'
    BY <1>30, <1>a DEF CompleteLedger, Done, Goto, TypeOK, Mem, NoMem, Procs, evidence,
       activation, ActivationRequested, ActivatePc
  <2>4. Recommending'
    BY <1>30, <1>a DEF CompleteLedger, Done, Goto, TypeOK, Mem, NoMem, Procs, evidence,
       activation, Recommending, NamedOrOwn
  <2> QED
    BY <1>30, <1>a, <1>b, <2>1, <2>2, <2>3, <2>4 DEF CompleteLedger, GovernanceInv, UniqueIds,
       ActiveHasAcceptedReport, Backs, FlagsAgree, RecommendedOnReport, Recommending,
       NamedOrOwn, evidence, activation
<1>31. ASSUME NEW p \in Procs, Crash(p)
      PROVE  GovernanceInv'
  <2>1. IdleIsClean'
    BY <1>31, <1>a DEF Crash, Done, Goto, TypeOK, Mem, NoMem, Procs, evidence, activation,
       IdleIsClean
  <2>2. GatePassed'
    BY <1>31, <1>a DEF Crash, Done, Goto, TypeOK, Mem, NoMem, Procs, evidence, activation,
       GatePassed, Backs
  <2>3. ActivationRequested'
    BY <1>31, <1>a DEF Crash, Done, Goto, TypeOK, Mem, NoMem, Procs, evidence, activation,
       ActivationRequested, ActivatePc
  <2>4. Recommending'
    BY <1>31, <1>a DEF Crash, Done, Goto, TypeOK, Mem, NoMem, Procs, evidence, activation,
       Recommending, NamedOrOwn
  <2> QED
    BY <1>31, <1>a, <1>b, <2>1, <2>2, <2>3, <2>4 DEF Crash, GovernanceInv, UniqueIds,
       ActiveHasAcceptedReport, Backs, FlagsAgree, RecommendedOnReport, Recommending,
       NamedOrOwn, evidence, activation
<1>32. CASE UNCHANGED vars
  BY <1>32, <1>a, <1>b DEF GovernanceInv, UniqueIds, IdleIsClean, GatePassed, Backs,
     ActiveHasAcceptedReport, FlagsAgree, ActivationRequested, ActivatePc, Recommending,
     NamedOrOwn, RecommendedOnReport, vars
<1> QED
  BY <1>1, <1>2, <1>3, <1>4, <1>5, <1>6, <1>7, <1>8, <1>9, <1>10, <1>11, <1>12, <1>13, <1>14,
     <1>15, <1>16, <1>17, <1>18, <1>19, <1>20, <1>21, <1>22, <1>23, <1>24, <1>25, <1>26, <1>27,
     <1>28, <1>29, <1>30, <1>31, <1>32 DEF Next, Request, CycleRequest, ProcStep, CycleStep,
     ActivateStep, Procs

-----------------------------------------------------------------------------
(***************************************************************************)
(* The theorems.                                                           *)
(***************************************************************************)
\* Every reachable state is well typed.
THEOREM TypeCorrect == Spec => []TypeOK
<1>1. TypeOK /\ [Next]_vars => TypeOK'
  BY StepTypeOK
<1> QED
  BY InitTypeOK, <1>1, PTL DEF Spec

\* The inductive invariant holds in every reachable state.
THEOREM GovernanceInvariant == Spec => []GovernanceInv
<1>1. GovernanceInv /\ [Next]_vars => GovernanceInv'
  BY StepGovernance
<1> QED
  BY InitGovernance, <1>1, PTL DEF Spec

\* ModelActivationService.activate, with any number of workers running cycles beside
\* it and crashes anywhere: what active_models names was activated on an accepted
\* report of that model, of the replay-aware purpose if the model is.
THEOREM ActiveWasAccepted == Spec => []ActiveHasAcceptedReport
<1>1. GovernanceInv => ActiveHasAcceptedReport
  BY DEF GovernanceInv
<1> QED
  BY GovernanceInvariant, <1>1, PTL

\* model_runs.active and active_models never contradict each other.
THEOREM TablesAgree == Spec => []FlagsAgree
<1>1. GovernanceInv => FlagsAgree
  BY DEF GovernanceInv
<1> QED
  BY GovernanceInvariant, <1>1, PTL

\* The request of a proposal's activation is in the ledger before anything changes.
THEOREM RequestedFirst == Spec => []ActivationRequested
<1>1. GovernanceInv => ActivationRequested
  BY DEF GovernanceInv
<1> QED
  BY GovernanceInvariant, <1>1, PTL

\* ChampionChallengerComparisonService: a challenger is recommended on an accepted report
\* of that challenger, or on one of those that the run named, whichever model it is of.
THEOREM RecommendedIsBacked == Spec => []RecommendedOnReport
<1>1. GovernanceInv => RecommendedOnReport
  BY DEF GovernanceInv
<1> QED
  BY GovernanceInvariant, <1>1, PTL

-----------------------------------------------------------------------------
(***************************************************************************)
(* The decision ledger and the life of a proposal.                         *)
(***************************************************************************)
\* Between the gate of an activation and the row it saves.
AfterGate == {"activate_commit", "activate_file", "activate_save"}

\* Where a process is about to record the decision on the row it saved.
DecidedPc == {"approve_ledger", "reject_ledger", "activate_ledger"}
DecidingPc == DecidedPc \union {"propose_ledger"}

\* Only the API server changes the status of a proposal, so that between the
\* row and the ledger, and between the gate and the row, the status is the one
\* it saved or read.
KnowsStatus ==
    \A i \in Proposals : mem[Api].proposal = i =>
        /\ pc[Api] \in AfterGate \union {"approve_ledger"} =>
               proposals[i].status = "APPROVED_FOR_ACTIVATION"
        /\ pc[Api] = "reject_ledger" => proposals[i].status = "REJECTED"
        /\ pc[Api] = "activate_ledger" => proposals[i].status = "ACTIVATED"

\* What a cycle that is being completed knows of its proposal.
OwnProposal(p, i) ==
    /\ i \in Proposals /\ proposals[i].status # "ABSENT"
    /\ proposals[i].cycle = mem[p].cycle /\ proposals[i].readiness = mem[p].readiness
KnowsProposal ==
    \A p \in Procs : pc[p] \in {"propose_ledger", "complete"} => OwnProposal(p, mem[p].proposal)

\* A decision that will be recorded explains a status it is about: the creation
\* of a proposal that the operator has judged since explains it no more.
Created == {"PROPOSED", "REVIEW_REQUIRED", "REJECTED"}
Accounted(i) ==
    \/ pc[Api] \in DecidedPc /\ mem[Api].proposal = i
    \/ /\ proposals[i].status \in Created
       /\ \E p \in Procs : pc[p] = "propose_ledger" /\ mem[p].proposal = i
Owed == {i \in Proposals : ~Explained(i) /\ ~Accounted(i)}

\* CompletedCycleIsBacked, with the proposal among the ids in use.
CompletedIsBacked ==
    \A c \in Cycles : cycles[c].status = "COMPLETED" =>
        \E i \in cycles[c].listed \cap Proposals :
            /\ proposals[i].status # "ABSENT"
            /\ proposals[i].cycle = c
            /\ proposals[i].readiness # "BLOCK"

\* The inductive invariant.
LedgerInv ==
    /\ KnowsStatus /\ KnowsProposal /\ CompletedIsBacked
    /\ Cardinality(Owed) <= faults

-----------------------------------------------------------------------------
(***************************************************************************)
(* The steps that decide nothing: no row of model_proposals is written, no *)
(* decision is about to be recorded, no cycle is completed.                *)
(***************************************************************************)
\* The other processes are where they were.
Others(p) == \A q \in Procs \ {p} : pc'[q] = pc[q] /\ mem'[q] = mem[q]

Quiet(p) ==
    /\ UNCHANGED proposals
    /\ \A i \in Proposals : ledger[i] \subseteq ledger'[i]
    /\ Others(p) /\ UNCHANGED faults
    /\ pc[p] \notin DecidingPc /\ pc'[p] \notin DecidingPc \union {"complete"}
    /\ p = Api /\ pc'[p] \in AfterGate =>
          \/ pc[p] \in AfterGate /\ mem'[p].proposal = mem[p].proposal
          \/ \A i \in Proposals : mem'[p].proposal = i => proposals[i].status = "APPROVED_FOR_ACTIVATION"
    /\ \A c \in Cycles : cycles'[c].status = "COMPLETED" => cycles'[c] = cycles[c]

\* Where a process is after a step to label l, and the others with it.
LEMMA GotoPc ==
  ASSUME TypeOK, NEW p \in Procs, NEW l, Goto(p, l)
  PROVE  pc'[p] = l /\ \A q \in Procs \ {p} : pc'[q] = pc[q]
  BY DEF TypeOK, Goto

\* Where it is when the operation is done.
LEMMA DonePc ==
  ASSUME TypeOK, NEW p \in Procs, Done(p)
  PROVE  Others(p) /\ pc'[p] = "idle" /\ mem'[p] = NoMem
  BY DoneType DEF Others

\* A row of research_cycles saved as running or blocked is not completed.
LEMMA SaveCycleOpen ==
  ASSUME TypeOK, NEW p \in Procs, NEW s \in {"RUNNING", "BLOCKED"}, NEW l, SaveCycle(p, s, l)
  PROVE  \A c \in Cycles : cycles'[c].status = "COMPLETED" => cycles'[c] = cycles[c]
<1>1. cycles \in [Cycles -> Cycle]
  BY DEF TypeOK
<1>2. \A c \in Cycles : c # mem[p].cycle => cycles'[c] = cycles[c]
  BY <1>1 DEF SaveCycle
<1>3. \A c \in Cycles : c = mem[p].cycle => cycles'[c].status = s
  BY <1>1 DEF SaveCycle, Cycle
<1> QED
  BY <1>2, <1>3

\* Every step is quiet, or it writes a proposal, records the decision about one,
\* completes a cycle, or is a crash.
LEMMA QuietSteps ==
  ASSUME TypeOK, IdleIsClean, [Next]_vars
  PROVE  \/ \E p \in Procs : Quiet(p)
         \/ \E i \in Proposals : Approve(i) \/ Reject(i)
         \/ ApproveLedger \/ RejectLedger \/ ActivateSave \/ ActivateLedger
         \/ \E p \in Procs : Propose(p) \/ ProposeLedger(p) \/ Complete(p) \/ Crash(p)
         \/ UNCHANGED vars
<1> Api \in Procs
  BY DEF Procs
<1>1. ASSUME NEW m \in Models, Train(m)
      PROVE  Quiet(Api)
  <2>1. pc'[Api] \in {"train_save", "train_file"} /\ \A q \in Procs \ {Api} : pc'[q] = pc[q]
    BY <1>1, GotoPc DEF Train
  <2>2. \A q \in Procs \ {Api} : mem'[q] = mem[q]
    BY <1>1 DEF Train, TypeOK
  <2> QED
    BY <1>1, <2>1, <2>2 DEF Train, Quiet, DecidingPc, DecidedPc, AfterGate, Others, evidence, activation
<1>2. ASSUME NEW p \in Procs, TrainFile(p)
      PROVE  Quiet(p)
  <2>1. pc'[p] \in {"train_save"} /\ \A q \in Procs \ {p} : pc'[q] = pc[q]
    BY <1>2, GotoPc DEF TrainFile
  <2>2. \A q \in Procs \ {p} : mem'[q] = mem[q]
    BY <1>2 DEF TrainFile, TypeOK
  <2> QED
    BY <1>2, <2>1, <2>2 DEF TrainFile, Quiet, DecidingPc, DecidedPc, AfterGate, Others, evidence, activation
<1>3. ASSUME NEW p \in Procs, TrainSave(p)
      PROVE  Quiet(p)
  <2>1. Others(p) /\ pc'[p] \in {"idle", "validate"}
    <3>1. CASE mem[p].cycle = 0
      BY <1>3, <3>1, DonePc DEF TrainSave
    <3>2. CASE mem[p].cycle # 0
      BY <1>3, <3>2, GotoPc DEF TrainSave, Others
    <3> QED
      BY <3>1, <3>2
  <2> QED
    BY <1>3, <2>1 DEF TrainSave, Quiet, DecidingPc, DecidedPc, AfterGate, activation
<1>4. ASSUME NEW m \in Models, NEW mode \in Modes,
             NEW accepted \in BOOLEAN, Validate(m, mode, accepted)
      PROVE  Quiet(Api)
  BY <1>4 DEF Validate, Quiet, DecidingPc, DecidedPc, AfterGate, Others, evidence, activation
<1>5. ASSUME NEW i \in Proposals, ApproveBlocked(i)
      PROVE  Quiet(Api)
  <2>1. \A k \in Proposals : ledger[k] \subseteq ledger'[k]
    BY <1>5, RecordType DEF ApproveBlocked, Decision
  <2> QED
    BY <1>5, <2>1 DEF ApproveBlocked, Quiet, DecidingPc, DecidedPc, AfterGate, Others, evidence, activation
<1>6. ASSUME NEW i \in Proposals, ActivateRequest(i)
      PROVE  Quiet(Api)
  <2>1. \A k \in Proposals : ledger[k] \subseteq ledger'[k]
    BY <1>6, RecordType DEF ActivateRequest, Decision
  <2>2. pc'[Api] = "activate" /\ \A q \in Procs \ {Api} : pc'[q] = pc[q]
    BY <1>6, GotoPc DEF ActivateRequest
  <2>3. \A q \in Procs \ {Api} : mem'[q] = mem[q]
    BY <1>6 DEF ActivateRequest, TypeOK
  <2> QED
    BY <1>6, <2>1, <2>2, <2>3 DEF ActivateRequest, Quiet, DecidingPc, DecidedPc, AfterGate, Others, evidence, activation
<1>7. ASSUME NEW confirm \in BOOLEAN, NEW mode \in Modes,
             NEW calibration \in BOOLEAN, NEW r \in reports, ActivateGate(confirm, mode, calibration, r)
      PROVE  Quiet(Api)
  <2>1. pc'[Api] = "activate_commit" /\ \A q \in Procs \ {Api} : pc'[q] = pc[q]
    BY <1>7, GotoPc DEF ActivateGate
  <2>2. \A q \in Procs \ {Api} : mem'[q] = mem[q]
    BY <1>7 DEF ActivateGate, TypeOK
  <2>3. mem'[Api].proposal = mem[Api].proposal
    BY <1>7, MemFields DEF ActivateGate, TypeOK, Mem
  <2>4. proposals[mem[Api].proposal].status = "APPROVED_FOR_ACTIVATION"
    BY <1>7 DEF ActivateGate, Activatable
  <2> QED
    BY <1>7, <2>1, <2>2, <2>3, <2>4 DEF ActivateGate, Quiet, DecidingPc, DecidedPc, AfterGate, Others, evidence, activation
<1>8. ASSUME NEW confirm \in BOOLEAN, NEW mode \in Modes,
             NEW calibration \in BOOLEAN, ActivateBlocked(confirm, mode, calibration)
      PROVE  Quiet(Api)
  <2>1. \A k \in Proposals : ledger[k] \subseteq ledger'[k]
    BY <1>8, RecordType DEF ActivateBlocked, Decision
  <2>2. Others(Api) /\ pc'[Api] = "idle"
    BY <1>8, DonePc DEF ActivateBlocked
  <2> QED
    BY <1>8, <2>1, <2>2 DEF ActivateBlocked, Quiet, DecidingPc, DecidedPc, AfterGate, evidence, activation
<1>9. ASSUME NEW m \in Models, NEW mode \in Modes,
             NEW calibration \in BOOLEAN, NEW r \in reports, DirectActivate(m, mode, calibration, r)
      PROVE  Quiet(Api)
  <2>1. pc'[Api] = "activate_commit" /\ \A q \in Procs \ {Api} : pc'[q] = pc[q]
    BY <1>9, GotoPc DEF DirectActivate
  <2>2. \A q \in Procs \ {Api} : mem'[q] = mem[q]
    BY <1>9 DEF DirectActivate, TypeOK
  <2>3. mem'[Api].proposal = 0
    BY <1>9, MemFields DEF DirectActivate, TypeOK, Mem, IdleIsClean, NoMem
  <2>4. \A i \in Proposals : i # 0
    BY BoundsAssumption DEF Proposals
  <2> QED
    BY <1>9, <2>1, <2>2, <2>3, <2>4 DEF DirectActivate, Quiet, DecidingPc, DecidedPc, AfterGate, Others, evidence, activation
<1>10. ASSUME ActivateCommit
      PROVE  Quiet(Api)
  <2>1. pc'[Api] \in {"activate_file"} /\ \A q \in Procs \ {Api} : pc'[q] = pc[q]
    BY <1>10, GotoPc DEF ActivateCommit
  <2>2. \A q \in Procs \ {Api} : mem'[q] = mem[q]
    BY <1>10 DEF ActivateCommit, TypeOK
  <2> QED
    BY <1>10, <2>1, <2>2 DEF ActivateCommit, Quiet, DecidingPc, DecidedPc, AfterGate, Others, evidence, activation
<1>11. ASSUME ActivateFile
      PROVE  Quiet(Api)
  <2>1. CASE mem[Api].proposal = 0
    <3>1. Others(Api) /\ pc'[Api] = "idle"
      BY <1>11, <2>1, DonePc DEF ActivateFile
    <3> QED
      BY <1>11, <3>1 DEF ActivateFile, Quiet, DecidingPc, DecidedPc, AfterGate, evidence
  <2>2. CASE mem[Api].proposal # 0
    <3>1. Others(Api) /\ pc'[Api] = "activate_save" /\ UNCHANGED mem
      BY <1>11, <2>2, GotoPc DEF ActivateFile, Others
    <3> QED
      BY <1>11, <3>1 DEF ActivateFile, Quiet, DecidingPc, DecidedPc, AfterGate, evidence
  <2> QED
    BY <2>1, <2>2
<1>12. ASSUME NEW p \in Procs, NEW c \in Cycles,
             NEW champion \in Models \union {None}, CreateCycle(p, c, champion)
      PROVE  Quiet(p)
  <2>1. pc'[p] = "create_ledger" /\ \A q \in Procs \ {p} : pc'[q] = pc[q]
    BY <1>12, GotoPc DEF CreateCycle
  <2>2. \A q \in Procs \ {p} : mem'[q] = mem[q]
    BY <1>12 DEF CreateCycle, TypeOK
  <2>3. \A d \in Cycles : cycles'[d].status = "COMPLETED" => cycles'[d] = cycles[d]
    BY <1>12 DEF CreateCycle, TypeOK, Cycle
  <2> QED
    BY <1>12, <2>1, <2>2, <2>3 DEF CreateCycle, Quiet, DecidingPc, DecidedPc, AfterGate, Others, evidence, activation
<1>13. ASSUME NEW p \in Procs, CreateLedger(p)
      PROVE  Quiet(p)
  <2>1. Others(p) /\ pc'[p] = "idle"
    BY <1>13, DonePc DEF CreateLedger
  <2> QED
    BY <1>13, <2>1 DEF CreateLedger, Quiet, DecidingPc, DecidedPc, AfterGate, evidence, activation
<1>14. ASSUME NEW p \in Procs, NEW c \in Cycles, NEW named \in NamedReports, RunGet(p, c, named)
      PROVE  Quiet(p)
  <2>1. pc'[p] \in {"run_save"} /\ \A q \in Procs \ {p} : pc'[q] = pc[q]
    BY <1>14, GotoPc DEF RunGet
  <2>2. \A q \in Procs \ {p} : mem'[q] = mem[q]
    BY <1>14 DEF RunGet, TypeOK
  <2> QED
    BY <1>14, <2>1, <2>2 DEF RunGet, Quiet, DecidingPc, DecidedPc, AfterGate, Others, evidence, activation
<1>15. ASSUME NEW p \in Procs, RunSave(p)
      PROVE  Quiet(p)
  <2>1. pc'[p] = "plan" /\ \A q \in Procs \ {p} : pc'[q] = pc[q]
    BY <1>15, GotoPc DEF RunSave
  <2>2. \A d \in Cycles : cycles'[d].status = "COMPLETED" => cycles'[d] = cycles[d]
    BY <1>15, SaveCycleOpen DEF RunSave
  <2> QED
    BY <1>15, <2>1, <2>2 DEF RunSave, Quiet, DecidingPc, DecidedPc, AfterGate, Others, evidence, activation
<1>16. ASSUME NEW p \in Procs, PlanBlocked(p)
      PROVE  Quiet(p)
  <2>1. pc'[p] = "complete_ledger" /\ \A q \in Procs \ {p} : pc'[q] = pc[q]
    BY <1>16, GotoPc DEF PlanBlocked
  <2>2. \A d \in Cycles : cycles'[d].status = "COMPLETED" => cycles'[d] = cycles[d]
    BY <1>16, SaveCycleOpen DEF PlanBlocked
  <2> QED
    BY <1>16, <2>1, <2>2 DEF PlanBlocked, Quiet, DecidingPc, DecidedPc, AfterGate, Others, evidence, activation
<1>17. ASSUME NEW p \in Procs, NEW challenger \in Models \union {None},
             NEW train \in BOOLEAN, PlanPasses(p, challenger, train)
      PROVE  Quiet(p)
  <2>1. pc'[p] \in {"validate", "train_save", "train_file"} /\ \A q \in Procs \ {p} : pc'[q] = pc[q]
    BY <1>17, GotoPc DEF PlanPasses
  <2>2. \A q \in Procs \ {p} : mem'[q] = mem[q]
    BY <1>17 DEF PlanPasses, TypeOK
  <2> QED
    BY <1>17, <2>1, <2>2 DEF PlanPasses, Quiet, DecidingPc, DecidedPc, AfterGate, Others, evidence, activation
<1>18. ASSUME NEW p \in Procs, NEW mode \in Modes,
             NEW accepted \in BOOLEAN, CycleValidate(p, mode, accepted)
      PROVE  Quiet(p)
  <2>1. pc'[p] \in {"compare"} /\ \A q \in Procs \ {p} : pc'[q] = pc[q]
    BY <1>18, GotoPc DEF CycleValidate
  <2>2. \A q \in Procs \ {p} : mem'[q] = mem[q]
    BY <1>18 DEF CycleValidate, TypeOK
  <2> QED
    BY <1>18, <2>1, <2>2 DEF CycleValidate, Quiet, DecidingPc, DecidedPc, AfterGate, Others, evidence, activation
<1>19. ASSUME NEW p \in Procs, CycleSkipValidate(p)
      PROVE  Quiet(p)
  <2>1. pc'[p] \in {"compare"} /\ \A q \in Procs \ {p} : pc'[q] = pc[q]
    BY <1>19, GotoPc DEF CycleSkipValidate
  <2>2. \A q \in Procs \ {p} : mem'[q] = mem[q]
    BY <1>19 DEF CycleSkipValidate, TypeOK
  <2> QED
    BY <1>19, <2>1, <2>2 DEF CycleSkipValidate, Quiet, DecidingPc, DecidedPc, AfterGate, Others, evidence, activation
<1>20. ASSUME NEW p \in Procs, NEW ev \in BOOLEAN,
             NEW data \in BOOLEAN, NEW worse \in BOOLEAN, Compare(p, ev, data, worse)
      PROVE  Quiet(p)
  <2>1. pc'[p] = "propose" /\ \A q \in Procs \ {p} : pc'[q] = pc[q]
    BY <1>20, GotoPc DEF Compare
  <2>2. \A q \in Procs \ {p} : mem'[q] = mem[q]
    BY <1>20 DEF Compare, TypeOK
  <2> QED
    BY <1>20, <2>1, <2>2 DEF Compare, Quiet, DecidingPc, DecidedPc, AfterGate, Others, evidence, activation
<1>21. ASSUME NEW p \in Procs, CompleteLedger(p)
      PROVE  Quiet(p)
  <2>1. Others(p) /\ pc'[p] = "idle"
    BY <1>21, DonePc DEF CompleteLedger
  <2> QED
    BY <1>21, <2>1 DEF CompleteLedger, Quiet, DecidingPc, DecidedPc, AfterGate, evidence, activation
<1> QED
  BY <1>1, <1>2, <1>3, <1>4, <1>5, <1>6, <1>7, <1>8, <1>9, <1>10, <1>11, <1>12, <1>13, <1>14, <1>15, <1>16, <1>17, <1>18, <1>19, <1>20, <1>21
  DEF Next, Request, CycleRequest, ProcStep, CycleStep, ActivateStep

-----------------------------------------------------------------------------
(***************************************************************************)
(* What a step does to the rows, and what that keeps.                      *)
(***************************************************************************)
\* No proposal that exists disappears or changes its cycle or its readiness.
RowsKept ==
    \A i \in Proposals : proposals[i].status # "ABSENT" =>
        /\ proposals'[i].status # "ABSENT"
        /\ proposals'[i].cycle = proposals[i].cycle
        /\ proposals'[i].readiness = proposals[i].readiness

\* A status saved changes nothing else.
LEMMA SaveStatusKeeps ==
  ASSUME TypeOK, NEW i, NEW s \in ProposalStatus \ {"ABSENT"}, SaveStatus(i, s)
  PROVE  /\ RowsKept
         /\ \A k \in Proposals : /\ proposals'[k].status = IF k = i THEN s ELSE proposals[k].status
                                 /\ proposals'[k].action = proposals[k].action
                                 /\ proposals'[k].readiness = proposals[k].readiness
<1>1. proposals' = [k \in Proposals |->
                      IF k = i THEN [proposals[k] EXCEPT !.status = s] ELSE proposals[k]]
  BY DEF SaveStatus, TypeOK
<1>2. \A q \in Proposal : /\ [q EXCEPT !.status = s].status = s
                          /\ [q EXCEPT !.status = s].action = q.action
                          /\ [q EXCEPT !.status = s].readiness = q.readiness
                          /\ [q EXCEPT !.status = s].cycle = q.cycle
  BY DEF Proposal
<1>3. proposals \in [Proposals -> Proposal]
  BY DEF TypeOK
<1> QED
  BY <1>1, <1>2, <1>3 DEF RowsKept

\* What Propose inserts.
LEMMA ProposeInserts ==
  ASSUME TypeOK, NEW p \in Procs, Propose(p)
  PROVE  \E i \in Proposals :
           /\ proposals[i].status = "ABSENT" /\ OwnProposal(p, i)' /\ mem'[p].proposal = i
           /\ proposals'[i].status = NewStatus(mem[p].action, mem[p].readiness)
           /\ proposals'[i].action = mem[p].action /\ proposals'[i].readiness = mem[p].readiness
           /\ \A k \in Proposals \ {i} : proposals'[k] = proposals[k]
<1>1. PICK i \in Proposals :
        /\ NextProposal(i)
        /\ proposals' = [proposals EXCEPT ![i] =
               [status |-> NewStatus(mem[p].action, mem[p].readiness),
                challenger |-> mem[p].model, action |-> mem[p].action,
                readiness |-> mem[p].readiness, report |-> mem[p].report,
                cycle |-> mem[p].cycle, named |-> mem[p].named]]
        /\ mem' = [mem EXCEPT ![p].proposal = i]
  BY DEF Propose
<1>2. NewStatus(mem[p].action, mem[p].readiness) # "ABSENT"
  BY DEF NewStatus
<1>3. proposals \in [Proposals -> Proposal] /\ mem \in [Procs -> Mem]
  BY DEF TypeOK
<1>4. /\ mem'[p].proposal = i /\ mem'[p].cycle = mem[p].cycle
      /\ mem'[p].readiness = mem[p].readiness
  BY <1>1, <1>3 DEF Mem
<1>5. /\ proposals'[i].status = NewStatus(mem[p].action, mem[p].readiness)
      /\ proposals'[i].action = mem[p].action /\ proposals'[i].readiness = mem[p].readiness
      /\ proposals'[i].cycle = mem[p].cycle
      /\ \A k \in Proposals \ {i} : proposals'[k] = proposals[k]
  BY <1>1, <1>3
<1> QED
  BY <1>1, <1>2, <1>4, <1>5 DEF OwnProposal, NextProposal

\* The other processes keep what they know, and so does p where it is nowhere.
LEMMA KnowsProposalKept ==
  ASSUME TypeOK, KnowsProposal, NEW p \in Procs, Others(p), RowsKept,
         pc'[p] \in {"propose_ledger", "complete"} => OwnProposal(p, mem[p].proposal)'
  PROVE  KnowsProposal'
  BY DEF KnowsProposal, OwnProposal, Others, RowsKept

\* A step that completes no cycle keeps those that are backed.
LEMMA BackedKept ==
  ASSUME CompletedIsBacked, RowsKept,
         \A c \in Cycles : cycles'[c].status = "COMPLETED" => cycles'[c] = cycles[c]
  PROVE  CompletedIsBacked'
  BY DEF CompletedIsBacked, RowsKept

\* The ledger is append-only.
LEMMA ExplainedKept ==
  ASSUME NEW k \in Proposals, Explained(k), proposals'[k].status = proposals[k].status,
         ledger[k] \subseteq ledger'[k]
  PROVE  Explained(k)'
  BY DEF Explained

\* A decision that p is not about to record is not p's to lose.
LEMMA AccountedKept ==
  ASSUME NEW k \in Proposals, NEW p \in Procs, Accounted(k), Others(p),
         proposals'[k].status = proposals[k].status,
         pc[p] \in DecidingPc => mem[p].proposal # k
  PROVE  Accounted(k)'
<1>1. CASE pc[Api] \in DecidedPc /\ mem[Api].proposal = k
  BY <1>1 DEF Accounted, Others, DecidingPc, Procs
<1>2. CASE /\ proposals[k].status \in Created
           /\ \E q \in Procs : pc[q] = "propose_ledger" /\ mem[q].proposal = k
  BY <1>2 DEF Accounted, Others, DecidingPc
<1> QED
  BY <1>1, <1>2 DEF Accounted

\* Owed is finite, so that it has a size.
LEMMA OwedFinite == IsFiniteSet(Owed) /\ Cardinality(Owed) \in Nat
<1>1. IsFiniteSet(Proposals)
  BY BoundsAssumption, FS_Interval DEF Proposals
<1>2. Owed \subseteq Proposals
  BY DEF Owed
<1> QED
  BY <1>1, <1>2, FS_Subset, FS_CardinalityType

\* Nothing new is owed when every proposal that was explained or accounted for is.
LEMMA OwedKept ==
  ASSUME TypeOK, Cardinality(Owed) <= faults, UNCHANGED faults,
         \A k \in Proposals : Explained(k) \/ Accounted(k) => Explained(k)' \/ Accounted(k)'
  PROVE  Cardinality(Owed') <= faults'
<1>1. IsFiniteSet(Owed) /\ Cardinality(Owed) \in Nat
  BY OwedFinite
<1>2. Owed' \subseteq Owed
  BY DEF Owed
<1>3. Cardinality(Owed') <= Cardinality(Owed) /\ Cardinality(Owed) \in Nat /\ Cardinality(Owed') \in Nat
  BY <1>1, <1>2, FS_Subset, FS_CardinalityType
<1> QED
  BY <1>3, BoundsAssumption DEF TypeOK

\* A crash loses one decision at most.
LEMMA OwedOne ==
  ASSUME TypeOK, Cardinality(Owed) <= faults, faults' = faults + 1, NEW i,
         \A k \in Proposals \ {i} : Explained(k) \/ Accounted(k) => Explained(k)' \/ Accounted(k)'
  PROVE  Cardinality(Owed') <= faults'
<1>1. IsFiniteSet(Owed) /\ Cardinality(Owed) \in Nat
  BY OwedFinite
<1>2. Owed' \subseteq Owed \union {i}
  BY DEF Owed
<1>3. IsFiniteSet(Owed \union {i}) /\ Cardinality(Owed \union {i}) <= Cardinality(Owed) + 1
  <2>1. /\ IsFiniteSet(Owed \union {i})
        /\ Cardinality(Owed \union {i}) = Cardinality(Owed) \/ Cardinality(Owed \union {i}) = Cardinality(Owed) + 1
    BY <1>1, FS_AddElement
  <2> QED
    BY <1>1, <2>1
<1>4. /\ Cardinality(Owed') <= Cardinality(Owed \union {i}) /\ Cardinality(Owed) \in Nat
      /\ Cardinality(Owed') \in Nat /\ Cardinality(Owed \union {i}) \in Nat
  BY <1>1, <1>2, <1>3, FS_Subset, FS_CardinalityType
<1> QED
  BY <1>3, <1>4, BoundsAssumption DEF TypeOK

-----------------------------------------------------------------------------
(***************************************************************************)
(* The life of a proposal, ProposalLifecycle, as this module maps it.      *)
(***************************************************************************)
\* A step that the life of a proposal allows, or that does not touch it.
LifecycleStep == Lifecycle!LifecycleNext \/ UNCHANGED Lifecycle!lifecycle

\* What the mapping takes for the eligibility of a row.
EligibleOf(row) == row.action \notin NonActivation /\ row.readiness # "BLOCK"

\* One row whose status s the operator decides.
LEMMA JudgeLives ==
  ASSUME TypeOK, NEW i \in Proposals,
         NEW s \in {"APPROVED_FOR_ACTIVATION", "REJECTED", "ACTIVATED"}, SaveStatus(i, s),
         proposals[i].status # "ABSENT",
         s = "APPROVED_FOR_ACTIVATION" => Eligible(proposals[i]),
         s = "ACTIVATED" => proposals[i].status = "APPROVED_FOR_ACTIVATION"
  PROVE  LifecycleStep
<1> DEFINE st == [k \in Proposals |-> proposals[k].status]
           el == [k \in Proposals |-> EligibleOf(proposals[k])]
           st1 == [k \in Proposals |-> proposals'[k].status]
           el1 == [k \in Proposals |-> EligibleOf(proposals'[k])]
<1>1. \A k \in Proposals : /\ proposals'[k].status = IF k = i THEN s ELSE proposals[k].status
                           /\ proposals'[k].action = proposals[k].action
                           /\ proposals'[k].readiness = proposals[k].readiness
  BY SaveStatusKeeps DEF ProposalStatus
<1>2. st1 = [st EXCEPT ![i] = s] /\ el1 = el
  BY <1>1 DEF EligibleOf
<1>3. st[i] # "ABSENT" /\ (s = "ACTIVATED" => st[i] = "APPROVED_FOR_ACTIVATION")
      /\ (s = "APPROVED_FOR_ACTIVATION" => el[i] /\ st[i] # "REJECTED")
  BY DEF Eligible, EligibleOf
<1> SUFFICES Lifecycle!LifecycleNext
  BY DEF LifecycleStep
<1> HIDE DEF st, el, st1, el1
<1>4. Lifecycle!LifecycleNext <=>
        \E k \in Proposals :
          \/ \E t \in {"PROPOSED", "REVIEW_REQUIRED", "REJECTED"}, e \in BOOLEAN :
               /\ st[k] = "ABSENT" /\ (t = "PROPOSED" => e) /\ (t = "REJECTED" => ~e)
               /\ st1 = [st EXCEPT ![k] = t] /\ el1 = [el EXCEPT ![k] = e]
          \/ /\ st[k] \notin {"ABSENT", "REJECTED"} /\ el[k]
             /\ st1 = [st EXCEPT ![k] = "APPROVED_FOR_ACTIVATION"] /\ el1 = el
          \/ st[k] # "ABSENT" /\ st1 = [st EXCEPT ![k] = "REJECTED"] /\ el1 = el
          \/ st[k] = "APPROVED_FOR_ACTIVATION" /\ st1 = [st EXCEPT ![k] = "ACTIVATED"] /\ el1 = el
  BY DEF st, el, st1, el1, EligibleOf, Lifecycle!LifecycleNext, Lifecycle!Create, Lifecycle!Approve,
         Lifecycle!Reject, Lifecycle!Activate, Lifecycle!Become
<1> QED
  BY <1>2, <1>3, <1>4

\* The row a cycle inserts.
LEMMA ProposeLives ==
  ASSUME TypeOK, NEW p \in Procs, Propose(p)
  PROVE  LifecycleStep
<1>1. PICK i \in Proposals :
           /\ proposals[i].status = "ABSENT"
           /\ proposals'[i].status = NewStatus(mem[p].action, mem[p].readiness)
           /\ proposals'[i].action = mem[p].action /\ proposals'[i].readiness = mem[p].readiness
           /\ \A k \in Proposals \ {i} : proposals'[k] = proposals[k]
  BY ProposeInserts
<1> DEFINE st == [k \in Proposals |-> proposals[k].status]
           el == [k \in Proposals |-> EligibleOf(proposals[k])]
           st1 == [k \in Proposals |-> proposals'[k].status]
           el1 == [k \in Proposals |-> EligibleOf(proposals'[k])]
           s == NewStatus(mem[p].action, mem[p].readiness)
           e == EligibleOf(proposals'[i])
<1>2. st[i] = "ABSENT" /\ st1 = [st EXCEPT ![i] = s] /\ el1 = [el EXCEPT ![i] = e]
  BY <1>1
<1>3. /\ e \in BOOLEAN /\ s \in {"PROPOSED", "REVIEW_REQUIRED", "REJECTED"}
      /\ s = "PROPOSED" => e
      /\ s = "REJECTED" => ~e
  BY <1>1 DEF NewStatus, EligibleOf, NonActivation
<1> SUFFICES Lifecycle!LifecycleNext
  BY DEF LifecycleStep
<1> HIDE DEF st, el, st1, el1, s, e
<1>4. (\E k \in Proposals :
            \E t \in {"PROPOSED", "REVIEW_REQUIRED", "REJECTED"}, b \in BOOLEAN :
               /\ st[k] = "ABSENT" /\ (t = "PROPOSED" => b) /\ (t = "REJECTED" => ~b)
               /\ st1 = [st EXCEPT ![k] = t] /\ el1 = [el EXCEPT ![k] = b])
      => Lifecycle!LifecycleNext
  BY DEF st, el, st1, el1, EligibleOf, Lifecycle!LifecycleNext, Lifecycle!Create
<1> QED
  BY <1>2, <1>3, <1>4

-----------------------------------------------------------------------------
(***************************************************************************)
(* The inductive step, by what the step does to the rows.                  *)
(***************************************************************************)
\* One case per kind of step.
LEMMA StepLedger == TypeOK /\ IdleIsClean /\ LedgerInv /\ [Next]_vars => LedgerInv' /\ LifecycleStep
<1> SUFFICES ASSUME TypeOK, IdleIsClean, LedgerInv, [Next]_vars
             PROVE  LedgerInv' /\ LifecycleStep
  OBVIOUS
<1>a. Api \in Procs /\ \A i \in Proposals : i # 0
  BY BoundsAssumption DEF Procs, Proposals
<1>b. KnowsStatus /\ KnowsProposal /\ CompletedIsBacked /\ Cardinality(Owed) <= faults
  BY DEF LedgerInv
<1>1. ASSUME NEW p \in Procs, Quiet(p)
      PROVE  LedgerInv' /\ LifecycleStep
  <2>1. RowsKept /\ LifecycleStep
    BY <1>1 DEF Quiet, RowsKept, LifecycleStep, Lifecycle!lifecycle
  <2>2. KnowsStatus'
    <3>1. CASE p = Api
      BY <1>1, <1>b, <3>1 DEF Quiet, KnowsStatus, DecidingPc, DecidedPc
    <3>2. CASE p # Api
      BY <1>1, <1>a, <1>b, <3>2 DEF Quiet, KnowsStatus, Others
    <3> QED
      BY <3>1, <3>2
  <2>3. KnowsProposal'
    BY <1>1, <1>b, <2>1, KnowsProposalKept DEF Quiet, DecidingPc
  <2>4. CompletedIsBacked'
    BY <1>1, <1>b, <2>1, BackedKept DEF Quiet
  <2>5. ASSUME NEW k \in Proposals, Explained(k) \/ Accounted(k)
        PROVE  Explained(k)' \/ Accounted(k)'
    BY <1>1, <2>5, ExplainedKept, AccountedKept DEF Quiet
  <2>6. Cardinality(Owed') <= faults'
    BY <1>1, <1>b, <2>5, OwedKept DEF Quiet
  <2> QED
    BY <2>1, <2>2, <2>3, <2>4, <2>6 DEF LedgerInv
<1>2. ASSUME NEW i \in Proposals, Approve(i) \/ Reject(i) \/ (ActivateSave /\ i = mem[Api].proposal)
      PROVE  LedgerInv' /\ LifecycleStep
  <2>1. PICK s \in {"APPROVED_FOR_ACTIVATION", "REJECTED", "ACTIVATED"} :
          /\ SaveStatus(i, s)
          /\ s = "APPROVED_FOR_ACTIVATION" => pc'[Api] = "approve_ledger" /\ Eligible(proposals[i])
          /\ s = "REJECTED" => pc'[Api] = "reject_ledger"
          /\ s = "ACTIVATED" => /\ pc'[Api] = "activate_ledger"
                                /\ proposals[i].status = "APPROVED_FOR_ACTIVATION"
    <3>1. CASE Approve(i)
      BY <3>1, <1>a, GotoPc DEF Approve
    <3>2. CASE Reject(i)
      BY <3>2, <1>a, GotoPc DEF Reject
    <3>3. CASE ActivateSave /\ i = mem[Api].proposal
      BY <3>3, <1>a, <1>b, GotoPc DEF ActivateSave, KnowsStatus, AfterGate
    <3> QED
      BY <1>2, <3>1, <3>2, <3>3
  <2>2. /\ UNCHANGED <<ledger, cycles, faults>> /\ proposals[i].status # "ABSENT"
        /\ pc[Api] \in {"idle", "activate_save"} /\ pc'[Api] \in DecidedPc
        /\ mem'[Api].proposal = i
    <3>1. CASE Approve(i)
      BY <3>1, <1>a, GotoPc, MemFields DEF Approve, DecidedPc, TypeOK, Mem
    <3>2. CASE Reject(i)
      BY <3>2, <1>a, GotoPc, MemFields DEF Reject, DecidedPc, TypeOK, Mem
    <3>3. CASE ActivateSave /\ i = mem[Api].proposal
      BY <3>3, <1>a, <1>b, GotoPc DEF ActivateSave, KnowsStatus, AfterGate, DecidedPc
    <3> QED
      BY <1>2, <3>1, <3>2, <3>3
  <2>3. Others(Api)
    <3>1. \A q \in Procs \ {Api} : pc'[q] = pc[q]
      BY <1>2, <1>a, GotoPc DEF Approve, Reject, ActivateSave
    <3>2. \A q \in Procs \ {Api} : mem'[q] = mem[q]
      BY <1>2, <1>a DEF Approve, Reject, ActivateSave, TypeOK
    <3> QED
      BY <3>1, <3>2 DEF Others
  <2>4. /\ RowsKept
        /\ \A k \in Proposals : proposals'[k].status = IF k = i THEN s ELSE proposals[k].status
    BY <2>1, SaveStatusKeeps DEF ProposalStatus
  <2>5. LifecycleStep
    BY <2>1, <2>2, JudgeLives
  <2>6. KnowsStatus'
    BY <2>1, <2>2, <2>4 DEF KnowsStatus, AfterGate
  <2>7. KnowsProposal'
    BY <1>a, <1>b, <2>2, <2>3, <2>4, KnowsProposalKept DEF DecidedPc
  <2>8. CompletedIsBacked'
    BY <1>b, <2>2, <2>4, BackedKept
  <2>9. ASSUME NEW k \in Proposals, Explained(k) \/ Accounted(k)
        PROVE  Explained(k)' \/ Accounted(k)'
    <3>1. CASE k = i
      BY <2>2, <3>1 DEF Accounted
    <3>2. CASE k # i
      <4>1. pc[Api] \notin DecidingPc /\ proposals'[k].status = proposals[k].status
            /\ ledger[k] \subseteq ledger'[k]
        BY <2>2, <2>4, <3>2 DEF DecidingPc, DecidedPc
      <4> QED
        BY <1>a, <2>3, <2>9, <4>1, ExplainedKept, AccountedKept
    <3> QED
      BY <3>1, <3>2
  <2>10. Cardinality(Owed') <= faults'
    BY <1>b, <2>2, <2>9, OwedKept
  <2> QED
    BY <2>5, <2>6, <2>7, <2>8, <2>10 DEF LedgerInv
<1>3. ASSUME ActivateSave, mem[Api].proposal \notin Proposals
      PROVE  LedgerInv' /\ LifecycleStep
  <2>1. UNCHANGED proposals
    BY <1>3 DEF ActivateSave, SaveStatus, TypeOK
  <2>2. /\ pc'[Api] = "activate_ledger" /\ Others(Api) /\ UNCHANGED <<mem, ledger, cycles, faults>>
        /\ pc[Api] = "activate_save"
    BY <1>3, <1>a, GotoPc DEF ActivateSave, Others
  <2>3. RowsKept /\ LifecycleStep
    BY <2>1 DEF RowsKept, LifecycleStep, Lifecycle!lifecycle
  <2>4. KnowsStatus'
    BY <1>3, <2>2 DEF KnowsStatus
  <2>5. KnowsProposal'
    BY <1>a, <1>b, <2>2, <2>3, KnowsProposalKept
  <2>6. CompletedIsBacked'
    BY <1>b, <2>2, <2>3, BackedKept
  <2>7. ASSUME NEW k \in Proposals, Explained(k) \/ Accounted(k)
        PROVE  Explained(k)' \/ Accounted(k)'
    BY <1>a, <2>1, <2>2, <2>7, ExplainedKept, AccountedKept DEF DecidingPc, DecidedPc
  <2>8. Cardinality(Owed') <= faults'
    BY <1>b, <2>2, <2>7, OwedKept
  <2> QED
    BY <2>3, <2>4, <2>5, <2>6, <2>8 DEF LedgerInv
<1>4. ASSUME ApproveLedger \/ RejectLedger \/ ActivateLedger
      PROVE  LedgerInv' /\ LifecycleStep
  <2>1. /\ UNCHANGED <<proposals, cycles, faults>> /\ Others(Api) /\ pc'[Api] = "idle"
        /\ pc[Api] \in DecidedPc
    BY <1>4, <1>a, DonePc DEF ApproveLedger, RejectLedger, ActivateLedger, DecidedPc
  <2>2. PICK d \in Decision :
          /\ Record(mem[Api].proposal, d)
          /\ pc[Api] = "approve_ledger" => d = "PROPOSAL_APPROVED"
          /\ pc[Api] = "reject_ledger" => d = "PROPOSAL_REJECTED"
          /\ pc[Api] = "activate_ledger" => d = "MODEL_ACTIVATED"
    BY <1>4 DEF ApproveLedger, RejectLedger, ActivateLedger, Decision
  <2>3. /\ \A k \in Proposals : ledger[k] \subseteq ledger'[k]
        /\ mem[Api].proposal \in Proposals => d \in ledger'[mem[Api].proposal]
    BY <2>2, RecordType
  <2>4. RowsKept /\ LifecycleStep
    BY <2>1 DEF RowsKept, LifecycleStep, Lifecycle!lifecycle
  <2>5. KnowsStatus'
    BY <2>1 DEF KnowsStatus, AfterGate
  <2>6. KnowsProposal'
    BY <1>a, <1>b, <2>1, <2>4, KnowsProposalKept
  <2>7. CompletedIsBacked'
    BY <1>b, <2>1, <2>4, BackedKept
  <2>8. ASSUME NEW k \in Proposals, Explained(k) \/ Accounted(k)
        PROVE  Explained(k)' \/ Accounted(k)'
    <3>1. CASE k = mem[Api].proposal
      <4>1. /\ pc[Api] = "approve_ledger" => proposals'[k].status = "APPROVED_FOR_ACTIVATION"
            /\ pc[Api] = "reject_ledger" => proposals'[k].status = "REJECTED"
            /\ pc[Api] = "activate_ledger" => proposals'[k].status = "ACTIVATED"
        BY <1>b, <2>1, <3>1 DEF KnowsStatus
      <4>2. d \in ledger'[k]
        BY <2>3, <3>1
      <4> QED
        BY <2>1, <2>2, <4>1, <4>2 DEF Explained, DecidedPc
    <3>2. CASE k # mem[Api].proposal
      BY <1>a, <2>1, <2>3, <2>8, <3>2, ExplainedKept, AccountedKept
    <3> QED
      BY <3>1, <3>2
  <2>9. Cardinality(Owed') <= faults'
    BY <1>b, <2>1, <2>8, OwedKept
  <2> QED
    BY <2>4, <2>5, <2>6, <2>7, <2>9 DEF LedgerInv
<1>5. ASSUME NEW p \in Procs, Propose(p)
      PROVE  LedgerInv' /\ LifecycleStep
  <2>1. PICK i \in Proposals :
           /\ proposals[i].status = "ABSENT" /\ OwnProposal(p, i)' /\ mem'[p].proposal = i
           /\ proposals'[i].status = NewStatus(mem[p].action, mem[p].readiness)
           /\ \A k \in Proposals \ {i} : proposals'[k] = proposals[k]
    BY <1>5, ProposeInserts
  <2>2. /\ pc[p] = "propose" /\ pc'[p] = "propose_ledger" /\ Others(p)
        /\ UNCHANGED <<ledger, cycles, faults>>
    <3>1. pc'[p] = "propose_ledger" /\ \A q \in Procs \ {p} : pc'[q] = pc[q]
      BY <1>5, GotoPc DEF Propose
    <3>2. \A q \in Procs \ {p} : mem'[q] = mem[q]
      BY <1>5 DEF Propose, TypeOK
    <3> QED
      BY <1>5, <3>1, <3>2 DEF Propose, Others
  <2>3. RowsKept
    BY <2>1 DEF RowsKept
  <2>4. LifecycleStep
    BY <1>5, ProposeLives
  <2>5. KnowsStatus'
    <3>1. CASE p = Api
      BY <2>2, <3>1 DEF KnowsStatus, AfterGate
    <3>2. CASE p # Api
      <4>1. pc'[Api] = pc[Api] /\ mem'[Api] = mem[Api]
        BY <1>a, <2>2, <3>2 DEF Others
      <4> QED
        BY <1>b, <2>1, <4>1 DEF KnowsStatus
    <3> QED
      BY <3>1, <3>2
  <2>6. KnowsProposal'
    BY <1>b, <2>1, <2>2, <2>3, KnowsProposalKept
  <2>7. CompletedIsBacked'
    BY <1>b, <2>2, <2>3, BackedKept
  <2>8. ASSUME NEW k \in Proposals, Explained(k) \/ Accounted(k)
        PROVE  Explained(k)' \/ Accounted(k)'
    <3>1. CASE k = i
      <4>1. proposals'[k].status \in Created
        BY <2>1, <3>1 DEF NewStatus, Created
      <4> QED
        BY <2>1, <2>2, <3>1, <4>1 DEF Accounted
    <3>2. CASE k # i
      BY <2>1, <2>2, <2>8, <3>2, ExplainedKept, AccountedKept DEF DecidingPc, DecidedPc
    <3> QED
      BY <3>1, <3>2
  <2>9. Cardinality(Owed') <= faults'
    BY <1>b, <2>2, <2>8, OwedKept
  <2> QED
    BY <2>4, <2>5, <2>6, <2>7, <2>9 DEF LedgerInv
<1>6. ASSUME NEW p \in Procs, ProposeLedger(p)
      PROVE  LedgerInv' /\ LifecycleStep
  <2>1. /\ UNCHANGED <<proposals, cycles, faults, mem>> /\ Others(p) /\ pc'[p] = "complete"
        /\ pc[p] = "propose_ledger"
    BY <1>6, GotoPc DEF ProposeLedger, Others
  <2>2. /\ \A k \in Proposals : ledger[k] \subseteq ledger'[k]
        /\ mem[p].proposal \in Proposals => "PROPOSAL_CREATED" \in ledger'[mem[p].proposal]
    BY <1>6, RecordType DEF ProposeLedger, Decision
  <2>3. RowsKept /\ LifecycleStep
    BY <2>1 DEF RowsKept, LifecycleStep, Lifecycle!lifecycle
  <2>4. KnowsStatus'
    BY <1>a, <1>b, <2>1 DEF KnowsStatus, AfterGate, Others
  <2>5. OwnProposal(p, mem[p].proposal)'
    BY <1>b, <2>1 DEF KnowsProposal, OwnProposal
  <2>6. KnowsProposal'
    BY <1>b, <2>1, <2>3, <2>5, KnowsProposalKept
  <2>7. CompletedIsBacked'
    BY <1>b, <2>1, <2>3, BackedKept
  <2>8. ASSUME NEW k \in Proposals, Explained(k) \/ Accounted(k)
        PROVE  Explained(k)' \/ Accounted(k)'
    <3>1. CASE k = mem[p].proposal /\ proposals[k].status \in Created
      BY <2>1, <2>2, <3>1 DEF Explained, Created
    <3>2. CASE k = mem[p].proposal /\ proposals[k].status \notin Created /\ ~Explained(k)
      <4>1. pc[Api] \in DecidedPc /\ mem[Api].proposal = k
        BY <2>8, <3>2 DEF Accounted
      <4>2. p # Api
        BY <2>1, <4>1 DEF DecidedPc
      <4> QED
        BY <1>a, <2>1, <4>1, <4>2 DEF Accounted, Others
    <3>3. CASE Explained(k)
      BY <2>1, <2>2, <3>3, ExplainedKept
    <3>4. CASE k # mem[p].proposal
      BY <2>1, <2>2, <2>8, <3>4, ExplainedKept, AccountedKept
    <3> QED
      BY <3>1, <3>2, <3>3, <3>4
  <2>9. Cardinality(Owed') <= faults'
    BY <1>b, <2>1, <2>8, OwedKept
  <2> QED
    BY <2>3, <2>4, <2>6, <2>7, <2>9 DEF LedgerInv
<1>7. ASSUME NEW p \in Procs, Complete(p)
      PROVE  LedgerInv' /\ LifecycleStep
  <2>1. /\ UNCHANGED <<proposals, ledger, faults, mem>> /\ Others(p) /\ pc'[p] = "complete_ledger"
        /\ pc[p] = "complete"
    BY <1>7, GotoPc DEF Complete, Others
  <2>2. RowsKept /\ LifecycleStep
    BY <2>1 DEF RowsKept, LifecycleStep, Lifecycle!lifecycle
  <2>3. KnowsStatus'
    BY <1>a, <1>b, <2>1 DEF KnowsStatus, AfterGate, Others
  <2>4. KnowsProposal'
    BY <1>b, <2>1, <2>2, KnowsProposalKept
  <2>5. CompletedIsBacked'
    <3> DEFINE i == mem[p].proposal
               f == FinalStatus(mem[p].readiness, mem[p].action)
    <3>1. OwnProposal(p, i)
      BY <1>b, <2>1 DEF KnowsProposal
    <3>2. cycles' = [cycles EXCEPT ![mem[p].cycle].status = f, ![mem[p].cycle].listed = {i}]
      BY <1>7 DEF Complete, SaveCycle
    <3>3. f = "COMPLETED" => mem[p].readiness # "BLOCK"
      BY DEF FinalStatus, NewStatus
    <3>4. SUFFICES ASSUME NEW c \in Cycles, cycles'[c].status = "COMPLETED"
                   PROVE  \E k \in cycles'[c].listed \cap Proposals :
                             /\ proposals[k].status # "ABSENT" /\ proposals[k].cycle = c
                             /\ proposals[k].readiness # "BLOCK"
      BY <2>1 DEF CompletedIsBacked
    <3>5. cycles \in [Cycles -> Cycle]
      BY DEF TypeOK
    <3> HIDE DEF f, i
    <3>6. CASE c = mem[p].cycle
      <4>1. cycles'[c].status = f /\ cycles'[c].listed = {i}
        BY <3>2, <3>5, <3>6 DEF Cycle
      <4> QED
        BY <3>1, <3>3, <3>4, <3>6, <4>1 DEF OwnProposal
    <3>7. CASE c # mem[p].cycle
      <4>1. cycles'[c] = cycles[c]
        BY <3>2, <3>5, <3>7
      <4> QED
        BY <1>b, <3>4, <4>1 DEF CompletedIsBacked
    <3> QED
      BY <3>6, <3>7
  <2>6. ASSUME NEW k \in Proposals, Explained(k) \/ Accounted(k)
        PROVE  Explained(k)' \/ Accounted(k)'
    BY <2>1, <2>6, ExplainedKept, AccountedKept DEF DecidingPc, DecidedPc
  <2>7. Cardinality(Owed') <= faults'
    BY <1>b, <2>1, <2>6, OwedKept
  <2> QED
    BY <2>2, <2>3, <2>4, <2>5, <2>7 DEF LedgerInv
<1>8. ASSUME NEW p \in Procs, Crash(p)
      PROVE  LedgerInv' /\ LifecycleStep
  <2>1. /\ UNCHANGED <<proposals, ledger, cycles>> /\ Others(p) /\ pc'[p] = "idle"
        /\ faults' = faults + 1
    BY <1>8, DonePc DEF Crash
  <2>2. RowsKept /\ LifecycleStep
    BY <2>1 DEF RowsKept, LifecycleStep, Lifecycle!lifecycle
  <2>3. KnowsStatus'
    <3>1. CASE p = Api
      BY <2>1, <3>1 DEF KnowsStatus, AfterGate
    <3>2. CASE p # Api
      BY <1>a, <1>b, <2>1, <3>2 DEF KnowsStatus, Others
    <3> QED
      BY <3>1, <3>2
  <2>4. KnowsProposal'
    BY <1>b, <2>1, <2>2, KnowsProposalKept
  <2>5. CompletedIsBacked'
    BY <1>b, <2>1, <2>2, BackedKept
  <2>6. ASSUME NEW k \in Proposals \ {mem[p].proposal}, Explained(k) \/ Accounted(k)
        PROVE  Explained(k)' \/ Accounted(k)'
    BY <2>1, <2>6, ExplainedKept, AccountedKept
  <2>7. Cardinality(Owed') <= faults'
    BY <1>b, <2>1, <2>6, OwedOne
  <2> QED
    BY <2>2, <2>3, <2>4, <2>5, <2>7 DEF LedgerInv
<1>9. CASE UNCHANGED vars
  <2>1. UNCHANGED <<proposals, ledger, cycles, pc, mem, faults>>
    BY <1>9 DEF vars
  <2>2. LifecycleStep
    BY <2>1 DEF LifecycleStep, Lifecycle!lifecycle
  <2>3. Owed' = Owed
    BY <2>1 DEF Owed, Explained, Accounted
  <2> QED
    BY <1>b, <2>1, <2>2, <2>3 DEF LedgerInv, KnowsStatus, KnowsProposal, OwnProposal, CompletedIsBacked
<1> QED
  BY <1>1, <1>2, <1>3, <1>4, <1>5, <1>6, <1>7, <1>8, <1>9, QuietSteps

\* Nothing is owed at the start.
LEMMA InitLedger == Init => LedgerInv /\ Lifecycle!LifecycleInit
<1> SUFFICES ASSUME Init
             PROVE  LedgerInv /\ Lifecycle!LifecycleInit
  OBVIOUS
<1>1. \A i \in Proposals : proposals[i] = NoProposal /\ Explained(i)
  BY DEF Init, Explained, NoProposal
<1>2. Owed = {} /\ faults = 0
  BY <1>1 DEF Owed, Init
<1>3. KnowsStatus /\ KnowsProposal /\ CompletedIsBacked
  BY DEF Init, KnowsStatus, KnowsProposal, CompletedIsBacked, AfterGate, Procs, NoCycle
<1>4. Lifecycle!LifecycleInit
  BY <1>1 DEF Lifecycle!LifecycleInit, NoProposal, NonActivation
<1> QED
  BY <1>2, <1>3, <1>4, FS_EmptySet DEF LedgerInv

-----------------------------------------------------------------------------
\* The inductive invariant about proposals, cycles and the ledger.
THEOREM LedgerInvariant == Spec => []LedgerInv
<1>1. TypeOK /\ IdleIsClean /\ LedgerInv /\ [Next]_vars => LedgerInv'
  BY StepLedger
<1>2. GovernanceInv => TypeOK /\ IdleIsClean
  BY DEF GovernanceInv
<1> QED
  BY <1>1, <1>2, InitLedger, GovernanceInvariant, PTL DEF Spec

\* A cycle is completed only with a proposal of its own that was not rejected
\* when it was created, whichever processes ran it and died in it.
THEOREM CompletedCyclesAreBacked == Spec => []CompletedCycleIsBacked
<1>1. LedgerInv => CompletedCycleIsBacked
  BY DEF LedgerInv, CompletedIsBacked, CompletedCycleIsBacked
<1> QED
  BY <1>1, LedgerInvariant, PTL

\* Each proposal whose status the ledger does not explain is paid for by a
\* process that died between saving the row and appending to the ledger.
THEOREM LedgerExplainsStatus == Spec => []LedgerExplains
<1>1. TypeOK /\ LedgerInv => LedgerExplains
  <2> SUFFICES ASSUME TypeOK, LedgerInv
               PROVE  LedgerExplains
    OBVIOUS
  <2> DEFINE S == {i \in Proposals : ~Explained(i) /\ ~Deciding(i)}
  <2>1. Api \in Procs
    BY DEF Procs
  <2>2. S \subseteq Owed
    BY <2>1 DEF Owed, Accounted, Deciding, DecidedPc
  <2>3. Cardinality(S) <= Cardinality(Owed) /\ Cardinality(S) \in Nat /\ Cardinality(Owed) \in Nat
    BY <2>2, OwedFinite, FS_Subset, FS_CardinalityType
  <2>4. Cardinality(Owed) <= faults /\ faults \in Nat
    BY BoundsAssumption DEF LedgerInv, TypeOK
  <2> HIDE DEF S
  <2>5. Cardinality(S) <= faults
    BY <2>3, <2>4
  <2> QED
    BY <2>5 DEF S, LedgerExplains
<1> QED
  BY <1>1, TypeCorrect, LedgerInvariant, PTL

\* Approval, rejection, activation and the cycles that propose implement the
\* life of a proposal: no way to an active model but through an approval of
\* eligible evidence, and no way back from a rejection.
THEOREM LifecycleImplemented == Spec => ImplementsLifecycle
<1>1. TypeOK /\ IdleIsClean /\ LedgerInv /\ [Next]_vars
        => [Lifecycle!LifecycleNext]_Lifecycle!lifecycle
  BY StepLedger DEF LifecycleStep
<1>2. GovernanceInv => TypeOK /\ IdleIsClean
  BY DEF GovernanceInv
<1>3. Spec => Lifecycle!LifecycleSpec
  BY <1>1, <1>2, InitLedger, GovernanceInvariant, LedgerInvariant, PTL DEF Spec, Lifecycle!LifecycleSpec
<1> QED
  BY <1>3 DEF ImplementsLifecycle

=============================================================================
