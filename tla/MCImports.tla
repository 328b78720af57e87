----------------------------- MODULE MCImports -----------------------------
(* Model values for Imports.                                               *)
EXTENDS Imports

CONSTANTS k1, k2, k3, k4, a1, i1, s1, s2, s3, s4, f1, f2, f3

Cash(key, kind, at) ==
    [key |-> key, kind |-> kind, account |-> a1, instrument |-> None,
     effective |-> at, target |-> None, given |-> {"amount"}]

Opening == Cash(k1, "OPENING_CASH", 1)
Second == Cash(k3, "OPENING_CASH", 1)
Deposit == Cash(k2, "CASH_DEPOSIT", 1)
Redated == Cash(k2, "CASH_DEPOSIT", 2)
Fee == Cash(k4, "FEE", 1)
Shapeless == [Fee EXCEPT !.given = {}]

MCCommand == {Opening, Second, Deposit, Redated, Fee, Shapeless}

\* f1 and f2 have two identities in opposite orders, one of them with another
\* payload; f2 has an opening of the same scope and ends in a row that raises;
\* f3 repeats a row of f1 and itself, among rows that are refused.
MCRows ==
    [f \in File |->
        CASE f = f1 -> <<Opening, Deposit, Fee>>
          [] f = f2 -> <<Fee, Redated, Second, NotANumber>>
          [] f = f3 -> <<Malformed, Opening, Shapeless, Opening>>]

MCBatchOf == [s \in Session |-> CASE s \in {s1, s2} -> f1 [] s = s3 -> f2 [] s = s4 -> f3]
=============================================================================
