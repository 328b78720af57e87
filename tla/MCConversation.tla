--------------------------- MODULE MCConversation ---------------------------
(* Model values for Conversation.                                          *)
EXTENDS Conversation

CONSTANTS a1, s1, s2, c1, c2, c3

Call(id, tool, args, at) == [id |-> id, tool |-> tool, args |-> args, at |-> at]

Calls(calls) == [text |-> FALSE, calls |-> calls]

\* Turns of two calls, one of which uses an id twice; tools that repeat what
\* an earlier turn read; arguments that are refused; and the final turns.
MCTurn ==
    {Calls(<<Call(c1, "get_risk", "OK", 2), Call(c2, "get_risk", "OK", 2)>>),
     Calls(<<Call(c3, "get_policy_breaches", "OK", 2)>>),
     Calls(<<Call(c2, "get_holdings", "OK", 2), Call(c2, "get_portfolio_snapshot", "OK", 1)>>),
     Calls(<<Call(c1, "run_scenario", "OK", 1)>>),
     Calls(<<Call(c3, "get_exposure", "OK", 1)>>),
     Calls(<<Call(c1, "unknown", "BAD", 1)>>),
     Calls(<<Call(c3, "get_exposure", "HUGE", 1)>>),
     [text |-> TRUE, calls |-> <<>>], [text |-> FALSE, calls |-> <<>>]}

Written == conversations \cup UNION {work[s].conversations : s \in Session}

Lean ==
    /\ published <= 1 /\ permitted = Actor
    /\ \A c \in Written : Len(c.calls) <= 1
    /\ \A s \in Session : Idle(s) \/ (call[s].rounds <= 1 /\ Len(call[s].pending) <= 1)

Rich == asked <= 1 /\ work[s2] = NoWork

\* Either one session asks once, or two sessions or one session twice while
\* little is published and called.
Explored == Rich \/ Lean
=============================================================================
