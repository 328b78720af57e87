---------------------------- MODULE MCGovernance ----------------------------
(* Model values for Governance.                                            *)
EXTENDS Governance, TLC

CONSTANTS ana, mia, s1, s2, q1, q2, good, late, bad

\* Overlapping roles: ana is analyst and manager, mia manager and faculty advisor.
MCRolesOf ==
    [u \in User |-> IF u = ana THEN {"analyst", "manager"} ELSE {"manager", "advisor"}]

\* good and bad are taken at cutoff q1, late at q2; bad has a blocking breach.
MCEvidenceCutoff == [e \in Evidence |-> IF e = late THEN q2 ELSE q1]

SessionSymmetry == Permutations(Session)

\* What the race of two sessions leaves out: a second instant, a second cutoff,
\* and evidence that does not clear.
Varied ==
    \/ proposal.updated > 1
    \/ \E i \in 1..Len(versions) : versions[i].cutoff # q1
    \/ \E a \in analyses : a.evidence # good
    \/ \E s \in Session :
         \/ pending[s].at > 1
         \/ pending[s].cutoff \notin {None, q1}
         \/ pending[s].evidence \notin {None, good}

\* Bound: two sessions race over one instant, cutoff and evidence; once another
\* is in use, at most one is open, and the row has one version less to go.
OneAtATime ==
    \/ ~ Varied
    \/ proposal.row < MaxRow /\ \E s \in Session : \A t \in Session \ {s} : cached[t] = NoRow
=============================================================================
