---------------------------- MODULE MCPortfolio -----------------------------
(* Model values for PortfolioScopes and Valuation.                         *)
EXTENDS PortfolioScopes, Valuation, TLC

CONSTANTS a1, a2, x, open, cheap, dear, some, rest, undoOpen, undoCheap, undoSale,
          again, other, foreign, theirs

Trade(kind, account, quantity, price, fees) ==
    [kind |-> kind, account |-> account, instrument |-> x, quantity |-> quantity,
     price |-> price, fees |-> fees, amount |-> None, target |-> None]

Undo(account, target) ==
    [kind |-> "REVERSAL", account |-> account, instrument |-> None, quantity |-> None,
     price |-> None, fees |-> 0, amount |-> None, target |-> target]

Cash(kind, account, amount) ==
    [kind |-> kind, account |-> account, instrument |-> None, quantity |-> None,
     price |-> None, fees |-> 0, amount |-> amount, target |-> None]

\* An opening of unknown cost, purchases of three and of two shares, sales of
\* two shares and of one, so of a part, of all or of a third, reversals, one of
\* them repeated, and in a second account a purchase, a fee and a reversal that
\* names the first account's purchase.
MCTx ==
    [i \in Id |->
        CASE i = open -> Trade("OPENING_POSITION", a1, 2, None, 0)
          [] i = cheap -> Trade("BUY", a1, 3, 20, 10)
          [] i = dear -> Trade("BUY", a1, 2, 90, 0)
          [] i = some -> Trade("SELL", a1, 2, 50, 10)
          [] i = rest -> Trade("SELL", a1, 1, 40, 0)
          [] i = undoOpen -> Undo(a1, open)
          [] i = undoCheap -> Undo(a1, cheap)
          [] i = undoSale -> Undo(a1, some)
          [] i = again -> Undo(a1, open)
          [] i = theirs -> Trade("BUY", a2, 1, 70, 0)
          [] i = other -> Cash("FEE", a2, 10)
          [] i = foreign -> Undo(a2, cheap)]

MCPrice == [i \in Instrument |-> 60]
=============================================================================
