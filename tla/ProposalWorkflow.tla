-------------------------- MODULE ProposalWorkflow --------------------------
(***************************************************************************)
(* The workflow ADR 0016 promises: one proposal, no sessions, no row       *)
(* versions.  Governance implements it.                                    *)
(***************************************************************************)
EXTENDS Naturals

VARIABLES
    status,     \* where the proposal stands
    version,    \* the current content version
    cleared,    \* the current version has evidence without a blocker
    reviewed    \* the current version has a review

wvars == <<status, version, cleared, reviewed>>

Init ==
    /\ status = "ABSENT"
    /\ version = 0
    /\ cleared = FALSE
    /\ reviewed = FALSE

\* A new content version starts as a draft, with no evidence and no review.
Draft ==
    /\ status \in {"ABSENT", "DRAFT", "CHANGES_REQUESTED"}
    /\ status' = "DRAFT"
    /\ version' = version + 1
    /\ cleared' = FALSE
    /\ reviewed' = FALSE

\* Evidence is bound to drafts only; the new evidence may clear or block.
Analyze ==
    /\ status = "DRAFT"
    /\ cleared' \in BOOLEAN
    /\ UNCHANGED <<status, version, reviewed>>

Review ==
    /\ status \in {"SUBMITTED", "UNDER_REVIEW"}
    /\ reviewed' = TRUE
    /\ UNCHANGED <<status, version, cleared>>

Move(from, to) ==
    /\ status \in from
    /\ status' = to
    /\ UNCHANGED <<version, cleared, reviewed>>

Submit == cleared /\ Move({"DRAFT"}, "SUBMITTED")

StartReview == Move({"SUBMITTED"}, "UNDER_REVIEW")

RequestChanges == Move({"SUBMITTED", "UNDER_REVIEW"}, "CHANGES_REQUESTED")

Approve == cleared /\ reviewed /\ Move({"UNDER_REVIEW"}, "APPROVED")

Reject == Move({"UNDER_REVIEW"}, "REJECTED")

Withdraw == Move({"DRAFT", "SUBMITTED", "CHANGES_REQUESTED"}, "WITHDRAWN")

Next ==
    \/ Draft
    \/ Analyze
    \/ Review
    \/ Submit
    \/ StartReview
    \/ RequestChanges
    \/ Approve
    \/ Reject
    \/ Withdraw

Spec == Init /\ [][Next]_wvars
=============================================================================
