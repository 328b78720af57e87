----------------------------- MODULE Snapshots -----------------------------
(***************************************************************************)
(* SnapshotService of app/snapshots/service.py, for one scope (fund and    *)
(* optional account) and one cutoff, called by several database sessions   *)
(* while facts are posted to the ledger.  Snapshots of other scopes and    *)
(* cutoffs are other rows under other keys.                                *)
(*                                                                         *)
(* create is three statements, each of which sees what is committed when   *)
(* it runs and what its own session has written: the ledger is read and    *)
(* replayed, the current snapshot is read, and a flush supersedes it and   *)
(* inserts the next revision.  The caller commits or rolls back.           *)
(*                                                                         *)
(* The replay's hash covers the text of every amount.  A session that      *)
(* posted a fact and still holds the object (the identity map refers to    *)
(* objects weakly) reads the amounts as they were given, Decimal("10") or  *)
(* fees Decimal("0"); every other session reads them as the columns store  *)
(* them, 10.000000000000 and 0.0000.  So an input is a rendering of each   *)
(* fact.  A ledger that cannot be replayed raises before anything is       *)
(* written and is left out.                                                *)
(***************************************************************************)
EXTENDS Naturals

CONSTANTS
    Fact,       \* transactions of the scope up to the cutoff
    Session,    \* database sessions
    MaxRevision \* bound: revisions of the snapshot

ASSUME BoundAssumption == MaxRevision \in Nat

VARIABLES
    ledger,     \* the committed facts
    snapshots,  \* the committed rows of portfolio_snapshots of the scope
    work,       \* work[s]: what session s has written since its last commit
    held,       \* held[s]: facts whose objects, as they were given, s still holds
    call        \* call[s]: the create call session s is in

vars == <<ledger, snapshots, work, held, call>>

-----------------------------------------------------------------------------
(* What a session sees.                                                    *)

NoWork == [posted |-> {}, created |-> {}, superseded |-> {}]

NoCall == [step |-> "IDLE"]

Idle(s) == call[s].step = "IDLE"

VisibleFacts(s) == ledger \cup work[s].posted

\* The text session s reads of each of the facts F.
Rendered(s, F) == [f \in F |-> IF f \in held[s] THEN "GIVEN" ELSE "STORED"]

\* Rows with the revisions in R superseded.
Superseded(rows, R) ==
    {IF p.revision \in R THEN [p EXCEPT !.status = "SUPERSEDED"] ELSE p : p \in rows}

Visible(s) == Superseded(snapshots \cup work[s].created, work[s].superseded)

\* _current
Current(s) == {p \in Visible(s) : p.status = "CURRENT"}

\* The hash and the state of p are those just computed.
Reusable(p, input) == p.input = input

\* Mutants of NextRevision: the revision is not advanced; the link to the
\* prior revision is not set.
Unnumbered(input, current) ==
    [revision |-> current, status |-> "CURRENT", input |-> input, supersedes |-> current]
Unlinked(input, current) ==
    [revision |-> current + 1, status |-> "CURRENT", input |-> input, supersedes |-> 0]

\* The row that follows revision `current' (0 if there is none).
NextRevision(input, current) ==
    [revision |-> current + 1, status |-> "CURRENT", input |-> input, supersedes |-> current]

Init ==
    /\ ledger = {}
    /\ snapshots = {}
    /\ work = [s \in Session |-> NoWork]
    /\ held = [s \in Session |-> {}]
    /\ call = [s \in Session |-> NoCall]

-----------------------------------------------------------------------------
(* The flush of a new revision, under the unique indexes.                  *)

\* Its UPDATE waits for a session that has superseded the same row, and its
\* INSERT for one that has written a row with the same revision or a CURRENT
\* one (the last row a session writes is).
WaitsFor(s, u) ==
    /\ u # s
    /\ call[s].step = "FLUSH"
    /\ \/ call[s].current \in work[u].superseded
       \/ \E p \in work[u].created :
            p.revision = call[s].current + 1 \/ p.status = "CURRENT"

\* A row session s sees has the revision, or is CURRENT as well.
Violates(s) ==
    \E p \in Visible(s) :
        \/ p.revision = call[s].current + 1
        \/ p.status = "CURRENT" /\ p.revision # call[s].current

-----------------------------------------------------------------------------
(* Actions.                                                                *)

\* A fact is posted in session s, which has the object as it was given.
Post(s, f) ==
    /\ Idle(s)
    /\ f \notin ledger /\ \A u \in Session : f \notin work[u].posted
    /\ work' = [work EXCEPT ![s].posted = @ \cup {f}]
    /\ held' = [held EXCEPT ![s] = @ \cup {f}]
    /\ UNCHANGED <<ledger, snapshots, call>>

\* The caller lets go of an object; the next read loads the row.
Release(s, f) ==
    /\ f \in held[s]
    /\ held' = [held EXCEPT ![s] = @ \ {f}]
    /\ UNCHANGED <<ledger, snapshots, work, call>>

\* create, _ledger and reconstruct.
ReadLedger(s) ==
    /\ Idle(s)
    /\ call' = [call EXCEPT ![s] =
                  [step |-> "READ", input |-> Rendered(s, VisibleFacts(s)), current |-> 0]]
    /\ UNCHANGED <<ledger, snapshots, work, held>>

\* create, _current finds a snapshot of the same input: REUSED.
Reuse(s) ==
    /\ call[s].step = "READ"
    /\ \E p \in Current(s) : Reusable(p, call[s].input)
    /\ call' = [call EXCEPT ![s] = NoCall]
    /\ UNCHANGED <<ledger, snapshots, work, held>>

\* It finds none, or one of another input, and goes on.
ReadCurrent(s) ==
    /\ call[s].step = "READ"
    /\ \/ Current(s) = {} /\ call' = [call EXCEPT ![s].step = "FLUSH"]
       \/ \E p \in Current(s) :
            /\ ~ Reusable(p, call[s].input)
            /\ p.revision < MaxRevision
            /\ call' = [call EXCEPT ![s].step = "FLUSH", ![s].current = p.revision]
    /\ UNCHANGED <<ledger, snapshots, work, held>>

\* Mutant of Flushed: the prior snapshot keeps its status.
FlushedAlone(w, input, current) ==
    [w EXCEPT !.created = @ \cup {NextRevision(input, current)}]

\* The current snapshot superseded and its successor inserted, with the
\* cash, the positions and the audit event that belong to it.
Flushed(w, input, current) ==
    [w EXCEPT !.created = @ \cup {NextRevision(input, current)},
              !.superseded = @ \cup ({current} \ {0})]

\* create, its flush: CREATED or REVISED.
Flush(s) ==
    /\ call[s].step = "FLUSH"
    /\ \A u \in Session : ~ WaitsFor(s, u)
    /\ ~ Violates(s)
    /\ work' = [work EXCEPT ![s] = Flushed(@, call[s].input, call[s].current)]
    /\ call' = [call EXCEPT ![s] = NoCall]
    /\ UNCHANGED <<ledger, snapshots, held>>

\* The session's transaction is undone: its own objects are gone and the
\* others are read again.
Undo(s) ==
    /\ work' = [work EXCEPT ![s] = NoWork]
    /\ held' = [held EXCEPT ![s] = {}]
    /\ call' = [call EXCEPT ![s] = NoCall]
    /\ UNCHANGED <<ledger, snapshots>>

\* IntegrityError from the flush.
FlushFails(s) ==
    /\ call[s].step = "FLUSH"
    /\ \A u \in Session : ~ WaitsFor(s, u)
    /\ Violates(s)
    /\ Undo(s)

\* The caller gives up, or the session or its process ends.
Rollback(s) ==
    /\ work[s] # NoWork \/ ~ Idle(s) \/ held[s] # {}
    /\ Undo(s)

\* What was given stays in the identity map (expire_on_commit=False).
Commit(s) ==
    /\ Idle(s)
    /\ work[s] # NoWork
    /\ ledger' = VisibleFacts(s)
    /\ snapshots' = Visible(s)
    /\ work' = [work EXCEPT ![s] = NoWork]
    /\ UNCHANGED <<held, call>>

Create(s) == ReadLedger(s) \/ Reuse(s) \/ ReadCurrent(s) \/ Flush(s) \/ FlushFails(s)

Next ==
    \E s \in Session :
        \/ \E f \in Fact : Post(s, f) \/ Release(s, f)
        \/ Create(s)
        \/ Rollback(s)
        \/ Commit(s)

Spec == Init /\ [][Next]_vars

-----------------------------------------------------------------------------
(* Properties.                                                             *)

Inputs == UNION {[F -> {"GIVEN", "STORED"}] : F \in SUBSET Fact}

Snapshot ==
    [revision : Nat \ {0}, status : {"CURRENT", "SUPERSEDED"}, input : Inputs, supersedes : Nat]

\* Rows, open transactions and calls have the shapes the code gives them.
TypeOK ==
    /\ ledger \subseteq Fact
    /\ snapshots \subseteq Snapshot
    /\ work \in [Session ->
         [posted : SUBSET Fact, created : SUBSET Snapshot, superseded : SUBSET (Nat \ {0})]]
    /\ held \in [Session -> SUBSET Fact]
    /\ call \in [Session -> [step : {"READ", "FLUSH"}, input : Inputs, current : Nat] \cup {NoCall}]

\* "Exactly one CURRENT revision exists per fund/account cutoff"
\* (snapshot-reconciliation.md 16): in every session's view, whatever others
\* are doing, the newest revision is CURRENT and every other is SUPERSEDED.
OneCurrent ==
    \A s \in Session : \A p \in Visible(s) :
        p.status = "CURRENT" <=> \A q \in Visible(s) : q.revision <= p.revision

History == INSTANCE SnapshotHistory
             WITH facts <- ledger,
                  revisions <- {[revision |-> p.revision, supersedes |-> p.supersedes,
                                 input |-> p.input] : p \in snapshots}

\* The sessions together write one chain of revisions, none changed or lost,
\* each made of committed facts (snapshot-reconciliation.md 15 and 17, ADR 0009).
ImplementsHistory == History!Spec

\* "Persist immutable, reproducible snapshot revisions" (ADR 0009): verify,
\* in any session, computes the hash the snapshot was stored with.
Reproducible ==
    \A s \in Session : \A p \in snapshots : Rendered(s, DOMAIN p.input) = p.input
=============================================================================
