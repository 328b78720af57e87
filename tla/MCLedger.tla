------------------------------ MODULE MCLedger ------------------------------
(* Model values for Ledger.                                                *)
EXTENDS Ledger

CONSTANTS k1, k2, k3, k4, k5, a1, i1, s1, s2, b1

Cash(key, kind, at) ==
    [key |-> key, kind |-> kind, account |-> a1, instrument |-> None,
     effective |-> at, target |-> None, given |-> {"amount"}]

Reversal(key, target) ==
    [key |-> key, kind |-> "REVERSAL", account |-> a1, instrument |-> None,
     effective |-> 3, target |-> target, given |-> {"target"}]

\* An opening, a second one under another identity, two reversals of the
\* first, the second opening's identity with another effective time, a
\* deposit and, under its identity, a reversal of a reversal.
MCRaceCommand ==
    {Cash(k1, "OPENING_CASH", 1), Cash(k2, "OPENING_CASH", 1), Cash(k2, "OPENING_CASH", 2),
     Reversal(k3, k1), Reversal(k4, k1), Cash(k5, "CASH_DEPOSIT", 1), Reversal(k5, k3)}

\* An opening and a deposit that takes effect before it.
MCOpeningCommand == {Cash(k1, "OPENING_CASH", 2), Cash(k2, "CASH_DEPOSIT", 1)}

MCBatchOf == [s \in Session |-> IF s = s1 THEN b1 ELSE None]
=============================================================================
