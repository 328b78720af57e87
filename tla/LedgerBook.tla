----------------------------- MODULE LedgerBook -----------------------------
(***************************************************************************)
(* What the ledger promises its readers, whatever the sessions that write  *)
(* it do: a growing set of facts, each with its own source identity, a     *)
(* fact reversed at most once, and at most one active opening fact in      *)
(* every scope (docs/domain/transaction-semantics.md 8, 9 and 14).         *)
(***************************************************************************)
EXTENDS Naturals

CONSTANT Fact   \* records with key, kind, account, instrument and target

VARIABLE facts

OpeningKinds == {"OPENING_CASH", "OPENING_POSITION"}

Reverses(r, c) == r.kind = "REVERSAL" /\ r.target = c.key

Active(book) == {c \in book : ~ \E r \in book : Reverses(r, c)}

\* Two opening facts of one scope: an account's cash, or its holding of an instrument.
SameOpening(c, d) ==
    /\ c.kind \in OpeningKinds
    /\ d.kind = c.kind
    /\ d.account = c.account
    /\ d.instrument = c.instrument

\* Two facts only one of which a book may hold.
Clash(c, d) ==
    \/ c.key = d.key
    \/ c.kind = "REVERSAL" /\ d.kind = "REVERSAL" /\ c.target = d.target

NoClash(book) == \A c, d \in book : Clash(c, d) => c = d

\* A reversal undoes a fact of its own account that is not itself a reversal.
ReversalsSound(book) ==
    \A r \in book : r.kind = "REVERSAL" =>
        \E c \in book : Reverses(r, c) /\ c.kind # "REVERSAL" /\ c.account = r.account

OneOpening(book) == \A c, d \in Active(book) : SameOpening(c, d) => c = d

Sound(book) == NoClash(book) /\ ReversalsSound(book) /\ OneOpening(book)

Init == facts = {}

Record == facts \subseteq facts' /\ facts' \in SUBSET Fact /\ Sound(facts')

Spec == Init /\ [][Record]_facts
=============================================================================
