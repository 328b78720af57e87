-------------------------- MODULE PortfolioScopes ---------------------------
(***************************************************************************)
(* reconstruct takes an optional account_id.  The reconstruction of the    *)
(* whole fund, seen from one account, is the reconstruction of that        *)
(* account: no other account's transaction touches it.                     *)
(***************************************************************************)
EXTENDS Portfolio

CONSTANT Focus  \* the account looked at

ASSUME FocusAssumption == Focus \in Scope

\* The part of the fund's replay that is the account's.
FocusCash == [a \in Account |-> IF a = Focus THEN cash[a] ELSE 0]

FocusPositions == [k \in Holding |-> IF k[1] = Focus THEN positions[k] ELSE Flat]

FocusEffects == [i \in Id |-> IF Tx[i].account = Focus THEN effects[i] ELSE NoEffect]

FocusReversed == {i \in reversed : Tx[i].account = Focus}

FocusApplied == {i \in applied : Tx[i].account = Focus}

FocusFailed == IF failed # Success /\ Tx[failed.id].account = Focus THEN failed ELSE Success

OneAccount == INSTANCE Portfolio
                WITH Scope <- {Focus}, cash <- FocusCash, positions <- FocusPositions,
                     effects <- FocusEffects, reversed <- FocusReversed,
                     applied <- FocusApplied, failed <- FocusFailed

\* The fund's reconstruction implements the reconstruction of each account
\* in it (engine.py 57-65 filters, and effects name one account).
ScopeIsolated == OneAccount!Spec
=============================================================================
