------------------------------- MODULE Ledger -------------------------------
(***************************************************************************)
(* TransactionService.create of app/ledger/service.py, called by several   *)
(* database sessions on the one table of transactions.                     *)
(*                                                                         *)
(* A call is a sequence of statements: the look-up by source identity, the *)
(* query that validates an opening fact or a reversal, and the INSERT with *)
(* the UPDATE of the reversal's target.  Each statement sees what is       *)
(* committed when it runs and what its own session has written (READ       *)
(* COMMITTED), so others may commit between two statements of a call.  The *)
(* service never commits: its caller makes some calls (the rows of an      *)
(* import, say), then commits or rolls back all of them.                   *)
(*                                                                         *)
(* The unique indexes are PostgreSQL's.  An INSERT that clashes with a     *)
(* row another session has written and not committed waits for that        *)
(* session's end; one that clashes with a committed row raises             *)
(* IntegrityError, which is no LedgerError, so the transaction is lost;    *)
(* and of sessions that wait for each other in a circle one is aborted.    *)
(*                                                                         *)
(* A command is its economic payload: two commands with one source         *)
(* identity have the same payload hash exactly when they are equal.        *)
(* Amounts are not modelled; which optional fields are given is.           *)
(***************************************************************************)
EXTENDS Naturals

CONSTANTS
    Command,    \* commands: see CommandFields
    Key,        \* source identities (source, external_id) in the fund
    Account,
    Instrument,
    Session,    \* database sessions
    BatchOf,    \* BatchOf[s]: the import batch session s works on, or None
    None,       \* no instrument, no target, no batch
    MaxCalls    \* bound: calls between two commits of a session

TransactionType ==
    {"BUY", "SELL", "CASH_DEPOSIT", "CASH_WITHDRAWAL", "DIVIDEND", "FEE",
     "OPENING_CASH", "OPENING_POSITION", "REVERSAL"}

OptionalField == {"instrument", "quantity", "unit_price", "amount", "fees", "target"}

CommandFields ==
    [key : Key, kind : TransactionType, account : Account, instrument : Instrument \cup {None},
     effective : Nat, target : Key \cup {None}, given : SUBSET OptionalField]

ASSUME CommandAssumption ==
    /\ Command \subseteq CommandFields
    /\ \A c \in Command : c.target # None <=> "target" \in c.given
    /\ \A c \in Command : c.instrument # None <=> "instrument" \in c.given
ASSUME NoneAssumption == None \notin Key \cup Account \cup Instrument
ASSUME BoundAssumption == MaxCalls \in Nat

VARIABLES
    ledger,     \* committed rows of transactions: [cmd, status]
    conflicts,  \* committed rows of import_conflicts: [batch, cmd]
    work,       \* work[s]: what session s has written since its last commit
    call        \* call[s]: the create call session s is in

vars == <<ledger, conflicts, work, call>>

-----------------------------------------------------------------------------
(* Commands.                                                               *)

\* The fields validate_transaction requires and permits for each type.
Required(kind) ==
    CASE kind \in {"BUY", "SELL"} -> {"instrument", "quantity", "unit_price"}
      [] kind \in {"CASH_DEPOSIT", "CASH_WITHDRAWAL", "FEE", "OPENING_CASH"} -> {"amount"}
      [] kind = "DIVIDEND" -> {"instrument", "amount"}
      [] kind = "OPENING_POSITION" -> {"instrument", "quantity"}
      [] kind = "REVERSAL" -> {"target"}

Permitted(kind) ==
    CASE kind \in {"BUY", "SELL"} -> {"fees"}
      [] kind = "FEE" -> {"instrument"}
      [] kind = "OPENING_POSITION" -> {"unit_price"}
      [] OTHER -> {}

Valid(c) == Required(c.kind) \subseteq c.given /\ c.given \subseteq Required(c.kind) \cup Permitted(c.kind)

Book == INSTANCE LedgerBook
          WITH Fact <- {c \in Command : Valid(c)}, facts <- {r.cmd : r \in ledger}

\* Mutant of Clash: without uq_transactions_one_reversal.
SameIdentity(c, d) == c.key = d.key

\* uq_transactions_source_identity and uq_transactions_one_reversal.
Clash(c, d) ==
    \/ c.key = d.key
    \/ c.kind = "REVERSAL" /\ d.kind = "REVERSAL" /\ c.target = d.target

\* The keys of uq_transactions_opening_cash and uq_transactions_opening_position.
SameOpening(c, d) ==
    /\ c.kind \in {"OPENING_CASH", "OPENING_POSITION"}
    /\ d.kind = c.kind
    /\ d.account = c.account
    /\ d.instrument = c.instrument

\* Mutant of SameEconomics: DUPLICATE without a comparison of the hashes.
SameKey(c, d) == c.key = d.key

\* Two commands that hash to the same economic payload.
SameEconomics(c, d) == c = d

-----------------------------------------------------------------------------
(* What a session sees and holds.                                          *)

NoWork == [posted |-> {}, marked |-> {}, conflicts |-> {}, answers |-> {}, calls |-> 0]

NoCall == [step |-> "IDLE"]

Idle(s) == call[s].step = "IDLE"

\* The rows session s reads: the committed ones and its own, with the
\* targets of its own reversals marked.
Visible(s) ==
    {[cmd |-> r.cmd, status |-> IF r.cmd \in work[s].marked THEN "REVERSED" ELSE r.status] :
        r \in ledger \cup {[cmd |-> c, status |-> "POSTED"] : c \in work[s].posted}}

Facts(s) == {r.cmd : r \in Visible(s)}

\* by_source_identity
Existing(s, c) == {d \in Facts(s) : d.key = c.key}

\* has_posted_cash_activity and has_posted_quantity_activity.
Activity(o, c) ==
    /\ c.account = o.account
    /\ \/ /\ o.kind = "OPENING_CASH"
          /\ c.kind \notin {"OPENING_POSITION", "REVERSAL"}
       \/ /\ o.kind = "OPENING_POSITION"
          /\ c.kind \in {"BUY", "SELL", "OPENING_POSITION"}
          /\ c.instrument = o.instrument

HasPostedActivity(s, o) == \E r \in Visible(s) : r.status = "POSTED" /\ Activity(o, r.cmd)

\* The row a reversal names.
Target(s, c) == {d \in Facts(s) : c.kind = "REVERSAL" /\ d.key = c.target}

\* Whether _validate_reversal lets c reverse it.
Reversible(s, c) ==
    \E d \in Target(s, c) :
        /\ d.kind # "REVERSAL"
        /\ d.account = c.account
        /\ ~ \E r \in Facts(s) : r.kind = "REVERSAL" /\ r.target = d.key

\* Mutant of Marked: the target keeps its status.
TargetKept(s, c) == {}

\* The rows whose status c changes.
Marked(s, c) == Target(s, c)

\* What _record_conflict adds: nothing for a caller without a batch.
Evidence(s, c) == IF BatchOf[s] = None THEN {} ELSE {[batch |-> BatchOf[s], cmd |-> c]}

\* The outcome of _validate_opening_order and _validate_reversal.
Acceptable(s, c) ==
    /\ c.kind \in {"OPENING_CASH", "OPENING_POSITION"} => ~ HasPostedActivity(s, c)
    /\ c.kind = "REVERSAL" => Reversible(s, c)

Init ==
    /\ ledger = {}
    /\ conflicts = {}
    /\ work = [s \in Session |-> NoWork]
    /\ call = [s \in Session |-> NoCall]

-----------------------------------------------------------------------------
(* The unique indexes, for the INSERT of command c by session s.           *)

\* The INSERT waits for the end of session u: u has written a row with the
\* same key, or is changing the status of the opening that holds it.
WaitsFor(s, u) ==
    /\ u # s
    /\ call[s].step = "INSERT"
    /\ LET c == call[s].cmd IN
       \/ \E d \in work[u].posted : Clash(c, d) \/ SameOpening(c, d)
       \/ \E r \in ledger : r.status = "POSTED" /\ r.cmd \in work[u].marked /\ SameOpening(c, r.cmd)

\* A committed row holds a key of c.
Violates(s, c) ==
    \/ \E r \in ledger : Clash(c, r.cmd)
    \/ \E r \in ledger :
         /\ r.status = "POSTED"
         /\ \A u \in Session : r.cmd \notin work[u].marked
         /\ SameOpening(c, r.cmd)

\* PostgreSQL's deadlock detector: s waits in a circle of waiting sessions.
Circle(D) == D # {} /\ \A s \in D : \E u \in D : WaitsFor(s, u)

\* Mutant of Deadlocked: no detector.
NeverDetected(s) == FALSE

Deadlocked(s) ==
    \E D \in SUBSET Session :
        s \in D /\ Circle(D) /\ \A E \in SUBSET D : Circle(E) => E = D

-----------------------------------------------------------------------------
(* The statements of create.                                               *)

Answer(s, c, status, posted, marked, evidence) ==
    work' = [work EXCEPT ![s].posted = @ \cup posted,
                         ![s].marked = @ \cup marked,
                         ![s].conflicts = @ \cup evidence,
                         ![s].answers = @ \cup {[cmd |-> c, status |-> status]},
                         ![s].calls = @ + 1]

\* by_source_identity finds a row with the same payload: DUPLICATE.
Duplicate(s, c) ==
    /\ Idle(s) /\ Valid(c) /\ work[s].calls < MaxCalls
    /\ \E d \in Existing(s, c) : SameEconomics(c, d)
    /\ Answer(s, c, "DUPLICATE", {}, {}, {})
    /\ UNCHANGED <<ledger, conflicts, call>>

\* It finds a row with another payload: CONFLICT.  In an import the evidence
\* is kept, once for every batch, identity and incoming payload; the batch's
\* conflict_count is the number of its rows.
RecordConflict(s, c) ==
    /\ Idle(s) /\ Valid(c) /\ work[s].calls < MaxCalls
    /\ \E d \in Existing(s, c) : ~ SameEconomics(c, d)
    /\ Answer(s, c, "CONFLICT", {}, {}, Evidence(s, c))
    /\ UNCHANGED <<ledger, conflicts, call>>

\* It finds nothing, and the call goes on.
Lookup(s, c) ==
    /\ Idle(s) /\ Valid(c) /\ work[s].calls < MaxCalls
    /\ Existing(s, c) = {}
    /\ call' = [call EXCEPT ![s] = [step |-> "VALIDATE", cmd |-> c]]
    /\ UNCHANGED <<ledger, conflicts, work>>

\* _validate_opening_order and _validate_reversal: the next statement, or a
\* LedgerError that leaves the session's transaction as it was.
Validate(s) ==
    /\ call[s].step = "VALIDATE"
    /\ IF Acceptable(s, call[s].cmd)
       THEN call' = [call EXCEPT ![s].step = "INSERT"] /\ UNCHANGED work
       ELSE call' = [call EXCEPT ![s] = NoCall] /\ work' = [work EXCEPT ![s].calls = @ + 1]
    /\ UNCHANGED <<ledger, conflicts>>

\* repository.add, and the target's status with it: CREATED.
Post(s) ==
    /\ call[s].step = "INSERT"
    /\ \A u \in Session : ~ WaitsFor(s, u)
    /\ ~ Violates(s, call[s].cmd)
    /\ Answer(s, call[s].cmd, "CREATED", {call[s].cmd}, Marked(s, call[s].cmd), {})
    /\ call' = [call EXCEPT ![s] = NoCall]
    /\ UNCHANGED <<ledger, conflicts>>

\* The session's transaction is undone, with every answer it gave.
Undo(s) ==
    /\ work' = [work EXCEPT ![s] = NoWork]
    /\ call' = [call EXCEPT ![s] = NoCall]
    /\ UNCHANGED <<ledger, conflicts>>

\* IntegrityError from the INSERT.
InsertFails(s) == call[s].step = "INSERT" /\ Violates(s, call[s].cmd) /\ Undo(s)

AbortedByDeadlock(s) == Deadlocked(s) /\ Undo(s)

\* The caller gives up, or its process dies.
Rollback(s) == (work[s] # NoWork \/ ~ Idle(s)) /\ Undo(s)

Commit(s) ==
    /\ Idle(s)
    /\ work[s].calls > 0
    /\ ledger' = Visible(s)
    /\ conflicts' = conflicts \cup work[s].conflicts
    /\ work' = [work EXCEPT ![s] = NoWork]
    /\ UNCHANGED call

Create(s) ==
    \/ \E c \in Command : Duplicate(s, c) \/ RecordConflict(s, c) \/ Lookup(s, c)
    \/ Validate(s)
    \/ Post(s)
    \/ InsertFails(s)

Next == \E s \in Session : Create(s) \/ AbortedByDeadlock(s) \/ Rollback(s) \/ Commit(s)

\* A call runs on; PostgreSQL wakes a waiting INSERT at the end of the
\* transaction it waits for, so one that could proceed again and again does
\* (strong fairness); a circle of waiting sessions is detected; and a caller
\* that made its calls commits.
Fairness ==
    \A s \in Session :
        /\ WF_vars(Validate(s))
        /\ SF_vars(Post(s) \/ InsertFails(s))
        /\ WF_vars(AbortedByDeadlock(s))
        /\ WF_vars(Commit(s))

Spec == Init /\ [][Next]_vars

FairSpec == Spec /\ Fairness

-----------------------------------------------------------------------------
(* Properties.                                                             *)

ConflictRow == [batch : {BatchOf[s] : s \in Session} \ {None}, cmd : Command]

\* Rows, open transactions and calls have the shapes the code gives them.
TypeOK ==
    /\ ledger \subseteq [cmd : Command, status : {"POSTED", "REVERSED"}]
    /\ conflicts \subseteq ConflictRow
    /\ work \in [Session ->
         [posted : SUBSET Command, marked : SUBSET Command,
          conflicts : SUBSET ConflictRow,
          answers : SUBSET [cmd : Command, status : {"CREATED", "DUPLICATE", "CONFLICT"}],
          calls : Nat]]
    /\ call \in [Session ->
         [step : {"VALIDATE", "INSERT"}, cmd : Command] \cup {NoCall}]

\* A transaction is REVERSED exactly when its reversal is in the ledger:
\* the status service.create sets on the target (service.py 64-66) is the
\* projection of the reversal relationship the documents call it.
StatusProjection ==
    \A r \in ledger :
        r.status = "REVERSED" <=>
            \E v \in ledger : v.cmd.kind = "REVERSAL" /\ v.cmd.target = r.cmd.key

\* Whatever create has answered in a transaction that is still open is true
\* of what the transaction would commit, whatever others committed since:
\* CREATED and DUPLICATE name a row with exactly this payload, CONFLICT one
\* with another payload, and an imported conflict has its evidence.
AnswersStand ==
    \A s \in Session : \A a \in work[s].answers :
        \/ a.status \in {"CREATED", "DUPLICATE"} /\ Existing(s, a.cmd) = {a.cmd}
        \/ /\ a.status = "CONFLICT"
           /\ Existing(s, a.cmd) # {} /\ a.cmd \notin Existing(s, a.cmd)
           /\ BatchOf[s] # None =>
                [batch |-> BatchOf[s], cmd |-> a.cmd] \in work[s].conflicts \cup conflicts

\* The sessions together are one book of facts: an identity is posted once,
\* a fact is reversed once, a scope has one active opening, nothing posted
\* is ever changed or lost.
ImplementsBook == Book!Spec

\* A call of create returns, with an answer or an error, even when sessions
\* post the same identities in opposite orders.
CallReturns == \A s \in Session : ~ Idle(s) ~> Idle(s)

\* docs/domain/transaction-semantics.md 217 and 223: an active opening fact
\* is the earliest posted fact of its scope.
OpeningEarliest ==
    \A o, r \in ledger :
        /\ o.status = "POSTED" /\ o.cmd.kind \in {"OPENING_CASH", "OPENING_POSITION"}
        /\ r.status = "POSTED" /\ Activity(o.cmd, r.cmd)
        => o.cmd.effective <= r.cmd.effective
=============================================================================
