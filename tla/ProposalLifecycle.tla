-------------------------- MODULE ProposalLifecycle --------------------------
(***************************************************************************)
(* What governance promises about one proposal, whichever process created  *)
(* it: it is approved by an explicit decision and only when its evidence   *)
(* allows activation, it is activated only once approved, and a rejection  *)
(* is final.                                                               *)
(***************************************************************************)
CONSTANTS Proposals

VARIABLES status, eligible

lifecycle == <<status, eligible>>

LifecycleInit ==
    /\ status = [i \in Proposals |-> "ABSENT"]
    /\ eligible = [i \in Proposals |-> FALSE]

Become(i, s) == status' = [status EXCEPT ![i] = s] /\ UNCHANGED eligible

\* A proposal that starts out rejected is not eligible.
Create(i, s, e) ==
    /\ status[i] = "ABSENT"
    /\ s = "PROPOSED" => e
    /\ s = "REJECTED" => ~e
    /\ status' = [status EXCEPT ![i] = s]
    /\ eligible' = [eligible EXCEPT ![i] = e]

Approve(i) ==
    /\ status[i] \notin {"ABSENT", "REJECTED"}
    /\ eligible[i]
    /\ Become(i, "APPROVED_FOR_ACTIVATION")

Reject(i) == status[i] # "ABSENT" /\ Become(i, "REJECTED")

Activate(i) == status[i] = "APPROVED_FOR_ACTIVATION" /\ Become(i, "ACTIVATED")

LifecycleNext ==
    \E i \in Proposals :
        \/ \E s \in {"PROPOSED", "REVIEW_REQUIRED", "REJECTED"}, e \in BOOLEAN : Create(i, s, e)
        \/ Approve(i) \/ Reject(i) \/ Activate(i)

LifecycleSpec == LifecycleInit /\ [][LifecycleNext]_lifecycle
=============================================================================
