------------------------------ MODULE PriceBook ------------------------------
(***************************************************************************)
(* What the price tables promise a valuation, whatever the sessions that   *)
(* fill them do: one accepted price for an instrument, provider, price     *)
(* type and instant, never changed and never withdrawn, and every refused  *)
(* value kept beside the price it was refused for                          *)
(* (docs/domain/market-data-valuation.md, Price evidence).                 *)
(***************************************************************************)
EXTENDS Naturals

CONSTANTS Key, Price

VARIABLES
    accepted,   \* set of [key, price]
    disputes    \* set of [key, price]: the values refused

vars == <<accepted, disputes>>

Quote == [key : Key, price : Price]

Decided(book) == \A a, b \in book : a.key = b.key => a = b

Priced(book) == {a.key : a \in book}

Init == accepted = {} /\ disputes = {}

Record ==
    /\ accepted \subseteq accepted' /\ accepted' \subseteq Quote
    /\ disputes \subseteq disputes' /\ disputes' \subseteq Quote
    /\ Decided(accepted')
    /\ Priced(disputes') \subseteq Priced(accepted')

Spec == Init /\ [][Record]_vars
=============================================================================
