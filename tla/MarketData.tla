----------------------------- MODULE MarketData -----------------------------
(***************************************************************************)
(* MarketDataService.ingest and latest_quote of app/market_data/service.py *)
(* called by several database sessions on the tables of batches, prices    *)
(* and price conflicts.  The provider may answer anything of the protocol  *)
(* of provider.py; FetchPrices is the CSV provider of csv_provider.py.     *)
(*                                                                         *)
(* A call looks up its request, writes a RECEIVED batch and asks the       *)
(* provider; for each row it looks up the observation and writes a price   *)
(* or a conflict; then it completes the batch and commits.  An error of    *)
(* the provider or of a row leaves what was written in the session, whose  *)
(* caller may roll back or call again: the next call that completes        *)
(* commits it.  The unique constraints are PostgreSQL's (see Ledger).      *)
(*                                                                         *)
(* A request stands for its hash and for the id of its batch: a session    *)
(* sees one batch of a request at most.  Prices are whole numbers of a     *)
(* unit finer than the eight decimals of the price columns.                *)
(***************************************************************************)
EXTENDS Integers, Sequences, FiniteSets

CONSTANTS
    Request,    \* what ingest is asked for: see RequestFields
    Fetched,    \* Fetched[r]: what the provider may answer request r with:
                \* sequences of rows, see Row, or None for an error
    Identifier, \* what a provider calls an instrument
    Instrument,
    Provider,
    PriceType,
    Mapping,    \* the table security_identifiers: see MappingFields
    Rank,       \* Rank[p]: the place of provider p in the order of names
    Session,
    Scale,      \* fine units in 10^-8
    None        \* no provider, no end of validity, no answer, no price

Time == Nat

RequestFields ==
    [provider : Provider, identifiers : SUBSET Identifier, start : Time, end : Time, kind : PriceType]

Row == [identifier : Identifier, at : Time, price : Int, kind : PriceType]

MappingFields ==
    [value : Identifier, provider : Provider \cup {None}, instrument : Instrument,
     from : Time, to : Time \cup {None}, primary : BOOLEAN]

Key == [instrument : Instrument, provider : Provider, kind : PriceType, at : Time]

ASSUME RequestAssumption == Request \subseteq RequestFields /\ \A r \in Request : r.start <= r.end
ASSUME FetchedAssumption == \A r \in Request : Fetched[r] \subseteq Seq(Row) \cup {None}
ASSUME MappingAssumption == Mapping \subseteq MappingFields
ASSUME ScaleAssumption == Scale \in Nat \ {0}
ASSUME NoneAssumption == None \notin Seq(Row) \cup Provider
ASSUME RankAssumption == Rank \in [Provider -> Nat] /\ \A p, q \in Provider : Rank[p] = Rank[q] => p = q

VARIABLES
    batches,    \* committed rows of market_data_batches
    prices,     \* committed rows of market_prices: [key, price, batch]
    conflicts,  \* committed rows of market_price_conflicts: [key, price, batch]
    work,       \* work[s]: what session s has written since its last commit
    call        \* call[s]: the ingest call session s is in

vars == <<batches, prices, conflicts, work, call>>

-----------------------------------------------------------------------------
(* Prices, identifiers, exports.                                           *)

\* What the Numeric(28, 8) column keeps of a positive price.
Stored(price) == ((2 * price + Scale) \div (2 * Scale)) * Scale

\* A row of an export that does not parse has price None.
Malformed(export) == \E i \in DOMAIN export : export[i].price = None

Requested(r, row) == row.identifier \in r.identifiers /\ r.start <= row.at /\ row.at <= r.end

FetchPrices(r, export) ==
    IF Malformed(export) THEN None ELSE SelectSeq(export, LAMBDA row : Requested(r, row))

\* The mappings of _resolve that hold at the row's instant.
Effective(p, row) ==
    {m \in Mapping :
        /\ m.value = row.identifier /\ m.provider \in {p, None}
        /\ m.from <= row.at /\ (m.to # None => row.at < m.to)}

\* The provider's own mappings come first, then the primary ones.
Before(m, n) ==
    \/ m.provider # None /\ n.provider = None
    \/ (m.provider = None <=> n.provider = None) /\ m.primary /\ ~ n.primary

\* _resolve: the instrument of a first mapping.
Resolved(p, row) ==
    {m.instrument : m \in {n \in Effective(p, row) : ~ \E o \in Effective(p, row) : Before(o, n)}}

\* Mutant of KeyOf: the provider is no part of an observation's key.
AnyProvider(p, row, instrument) == [instrument |-> instrument, kind |-> row.kind, at |-> row.at]

KeyOf(p, row, instrument) ==
    [instrument |-> instrument, provider |-> p, kind |-> row.kind, at |-> row.at]

-----------------------------------------------------------------------------
(* What a session sees and holds.                                          *)

NoWork == [batches |-> {}, prices |-> {}, conflicts |-> {}]

NoCall == [step |-> "IDLE"]

Idle(s) == call[s].step = "IDLE"

Batches(s) == batches \cup work[s].batches

Prices(s) == prices \cup work[s].prices

Conflicts(s) == conflicts \cup work[s].conflicts

Existing(s, key) == {x \in Prices(s) : x.key = key}

Received(r) == [request |-> r, status |-> "RECEIVED", inserted |-> 0, duplicate |-> 0, conflict |-> 0]

Count(results, status) == Cardinality({i \in DOMAIN results : results[i].status = status})

\* Mutant of Completed: a conflict is counted as a duplicate.
Forgiving(r, results) ==
    [request |-> r, status |-> "COMPLETED", inserted |-> Count(results, "INSERTED"),
     duplicate |-> Len(results) - Count(results, "INSERTED"), conflict |-> 0]

\* The batch ingest completes, with its counts.
Completed(r, results) ==
    [request |-> r,
     status |-> IF Count(results, "CONFLICT") > 0 THEN "COMPLETED_WITH_CONFLICTS" ELSE "COMPLETED",
     inserted |-> Count(results, "INSERTED"),
     duplicate |-> Count(results, "DUPLICATE"),
     conflict |-> Count(results, "CONFLICT")]

Init ==
    /\ batches = {} /\ prices = {} /\ conflicts = {}
    /\ work = [s \in Session |-> NoWork]
    /\ call = [s \in Session |-> NoCall]

-----------------------------------------------------------------------------
(* The unique constraints uq_market_data_batch_request and                 *)
(* uq_market_price_observation.                                            *)

WaitsFor(s, u) ==
    /\ u # s
    /\ \/ call[s].step = "OPEN" /\ \E b \in work[u].batches : b.request = call[s].request
       \/ call[s].step = "INSERT" /\ \E x \in work[u].prices : x.key = call[s].key

\* Mutant of Violates: nothing keeps an observation from a second price.
BatchTaken(s) == call[s].step = "OPEN" /\ \E b \in batches : b.request = call[s].request

Violates(s) ==
    \/ call[s].step = "OPEN" /\ \E b \in batches : b.request = call[s].request
    \/ call[s].step = "INSERT" /\ \E x \in prices : x.key = call[s].key

Free(s) == ~ Violates(s) /\ \A u \in Session : ~ WaitsFor(s, u)

\* PostgreSQL's deadlock detector: s waits in a circle of waiting sessions.
Circle(D) == D # {} /\ \A s \in D : \E u \in D : WaitsFor(s, u)

\* Mutant of Deadlocked: no detector.
NeverDetected(s) == FALSE

Deadlocked(s) ==
    \E D \in SUBSET Session :
        s \in D /\ Circle(D) /\ \A E \in SUBSET D : Circle(E) => E = D

-----------------------------------------------------------------------------
(* The statements of ingest.                                               *)

\* The request has a batch, which is the answer, or the call goes on.
LookupBatch(s, r) ==
    /\ Idle(s)
    /\ ~ \E b \in Batches(s) : b.request = r
    /\ call' = [call EXCEPT ![s] = [step |-> "OPEN", request |-> r]]
    /\ UNCHANGED <<batches, prices, conflicts, work>>

\* The batch is flushed and the provider asked.
Open(s) ==
    /\ call[s].step = "OPEN" /\ Free(s)
    /\ work' = [work EXCEPT ![s].batches = @ \cup {Received(call[s].request)}]
    /\ \E answer \in Fetched[call[s].request] :
         call' = [call EXCEPT ![s] =
             IF answer = None THEN NoCall
             ELSE [step |-> "ITEM", request |-> @.request, items |-> answer, results |-> <<>>]]
    /\ UNCHANGED <<batches, prices, conflicts>>

Result(s, status, instrument) ==
    [row |-> Head(call[s].items), status |-> status,
     key |-> KeyOf(call[s].request.provider, Head(call[s].items), instrument)]

\* The call goes on with the next row.
Advance(s, status, instrument) ==
    call' = [call EXCEPT ![s] =
        [step |-> "ITEM", request |-> @.request, items |-> Tail(@.items),
         results |-> Append(@.results, Result(s, status, instrument))]]

AtRow(s) == call[s].step = "ITEM" /\ call[s].items # <<>>

\* The row names instrument i, whose observation is looked up.
Names(s, i) ==
    AtRow(s) /\ Head(call[s].items).price > 0 /\ i \in Resolved(call[s].request.provider, Head(call[s].items))

Found(s, i) == Existing(s, KeyOf(call[s].request.provider, Head(call[s].items), i))

\* _validate or _resolve refuses the row: a MarketDataError leaves the call.
RefuseRow(s) ==
    /\ AtRow(s)
    /\ ~ \E i \in Instrument : Names(s, i)
    /\ call' = [call EXCEPT ![s] = NoCall]
    /\ UNCHANGED <<batches, prices, conflicts, work>>

\* Mutant of SamePrice: a known observation is a duplicate.
SameKey(x, row) == TRUE

SamePrice(x, row) == x.price = row.price

Duplicate(s, i) ==
    /\ Names(s, i)
    /\ \E x \in Found(s, i) : SamePrice(x, Head(call[s].items))
    /\ Advance(s, "DUPLICATE", i)
    /\ UNCHANGED <<batches, prices, conflicts, work>>

\* The refused value; a second one like it in the batch is an IntegrityError.
Disputed(s, x) == [key |-> x.key, price |-> Stored(Head(call[s].items).price), batch |-> call[s].request]

Storable(row) == Stored(row.price) > 0

RecordConflict(s, i) ==
    /\ Names(s, i) /\ Storable(Head(call[s].items))
    /\ \E x \in Found(s, i) :
         /\ ~ SamePrice(x, Head(call[s].items))
         /\ Disputed(s, x) \notin Conflicts(s)
         /\ work' = [work EXCEPT ![s].conflicts = @ \cup {Disputed(s, x)}]
    /\ Advance(s, "CONFLICT", i)
    /\ UNCHANGED <<batches, prices, conflicts>>

\* No observation yet: the call goes on to the INSERT.
LookupPrice(s, i) ==
    /\ Names(s, i)
    /\ Found(s, i) = {}
    /\ call' = [call EXCEPT ![s] =
         [step |-> "INSERT", request |-> @.request, items |-> @.items, results |-> @.results,
          key |-> KeyOf(@.request.provider, Head(@.items), i)]]
    /\ UNCHANGED <<batches, prices, conflicts, work>>

Insert(s) ==
    /\ call[s].step = "INSERT" /\ Free(s) /\ Storable(Head(call[s].items))
    /\ work' = [work EXCEPT ![s].prices = @ \cup
         {[key |-> call[s].key, price |-> Stored(Head(call[s].items).price), batch |-> call[s].request]}]
    /\ Advance(s, "INSERTED", call[s].key.instrument)
    /\ UNCHANGED <<batches, prices, conflicts>>

\* The session's transaction is undone.
Undo(s) ==
    /\ work' = [work EXCEPT ![s] = NoWork]
    /\ call' = [call EXCEPT ![s] = NoCall]
    /\ UNCHANGED <<batches, prices, conflicts>>

\* IntegrityError: a key that is taken, a price that is stored as zero, a
\* value refused twice in one batch.
FlushFails(s) ==
    /\ \/ Violates(s)
       \/ call[s].step = "INSERT" /\ ~ Storable(Head(call[s].items))
       \/ \E i \in Instrument : Names(s, i) /\ \E x \in Found(s, i) :
            /\ ~ SamePrice(x, Head(call[s].items))
            /\ Disputed(s, x) \in Conflicts(s) \/ ~ Storable(Head(call[s].items))
    /\ Undo(s)

AbortedByDeadlock(s) == Deadlocked(s) /\ Undo(s)

\* The caller gives up, or its process dies.
Rollback(s) == (work[s] # NoWork \/ ~ Idle(s)) /\ Undo(s)

\* Mutant of Kept: a restated price gives way to the restatement.
Restated(s) == {x \in Prices(s) : ~ \E c \in Conflicts(s) : c.key = x.key}

\* The prices the commit leaves: a conflict leaves the accepted one.
Kept(s) == Prices(s)

\* The batch is completed and everything the session wrote is committed.
Complete(s) ==
    /\ call[s].step = "ITEM" /\ call[s].items = <<>>
    /\ batches' = (Batches(s) \ {Received(call[s].request)})
                    \cup {Completed(call[s].request, call[s].results)}
    /\ prices' = Kept(s)
    /\ conflicts' = Conflicts(s)
    /\ work' = [work EXCEPT ![s] = NoWork]
    /\ call' = [call EXCEPT ![s] = NoCall]

IngestRow(s) ==
    \/ RefuseRow(s)
    \/ \E i \in Instrument : Duplicate(s, i) \/ RecordConflict(s, i) \/ LookupPrice(s, i)
    \/ Insert(s)
    \/ FlushFails(s)

Next ==
    \E s \in Session :
        \/ \E r \in Request : LookupBatch(s, r)
        \/ Open(s)
        \/ IngestRow(s)
        \/ Complete(s)
        \/ AbortedByDeadlock(s)
        \/ Rollback(s)

\* A call runs on; a waiting INSERT that could proceed again and again does;
\* a circle of waiting sessions is detected; and the caller of a call that
\* failed closes its session in the end, as get_db of app/db.py does.
Fairness ==
    \A s \in Session :
        /\ SF_vars(Open(s) \/ IngestRow(s))
        /\ WF_vars(Complete(s))
        /\ WF_vars(AbortedByDeadlock(s))
        /\ WF_vars(Idle(s) /\ Rollback(s))

Spec == Init /\ [][Next]_vars

FairSpec == Spec /\ Fairness

-----------------------------------------------------------------------------
(* latest_quote.                                                           *)

\* The prices of instrument i at or before a cutoff.
Eligible(rows, i, kind, asOf) ==
    {x \in rows : x.key.instrument = i /\ x.key.kind = kind /\ x.key.at <= asOf}

\* The order of the query: the newest observation, then the provider's name.
Sooner(x, y) ==
    \/ x.key.at > y.key.at
    \/ x.key.at = y.key.at /\ Rank[x.key.provider] < Rank[y.key.provider]

\* The prices that come first: none is MissingPriceError.
LatestQuote(rows, i, kind, asOf) ==
    {x \in Eligible(rows, i, kind, asOf) : ~ \E y \in Eligible(rows, i, kind, asOf) : Sooner(y, x)}

-----------------------------------------------------------------------------
(* Properties.                                                             *)

Status == {"RECEIVED", "COMPLETED", "COMPLETED_WITH_CONFLICTS"}

Batch == [request : Request, status : Status, inserted : Nat, duplicate : Nat, conflict : Nat]

PriceRow == [key : Key, price : Int, batch : Request]

IngestResult == [row : Row, status : {"INSERTED", "DUPLICATE", "CONFLICT"}, key : Key]

\* Rows, open transactions and calls have the shapes the code gives them.
TypeOK ==
    /\ batches \subseteq Batch /\ prices \subseteq PriceRow /\ conflicts \subseteq PriceRow
    /\ work \in [Session ->
         [batches : SUBSET Batch, prices : SUBSET PriceRow, conflicts : SUBSET PriceRow]]
    /\ call \in [Session ->
         [step : {"OPEN"}, request : Request]
           \cup [step : {"ITEM"}, request : Request, items : Seq(Row), results : Seq(IngestResult)]
           \cup [step : {"INSERT"}, request : Request, items : Seq(Row) \ {<<>>}, results : Seq(IngestResult), key : Key]
           \cup {NoCall}]

\* What ingest has said of the rows it has passed (the results of service.py
\* 73-76) is true of what its commit will store, whatever other sessions
\* committed since: an INSERTED row is the accepted price, a DUPLICATE has
\* exactly the accepted price, a CONFLICT is on record in its batch against
\* an accepted price that is another value.
ResultsStand ==
    \A s \in Session : call[s].step \in {"ITEM", "INSERT"} =>
        \A i \in DOMAIN call[s].results :
            LET result == call[s].results[i]
                kept == [key |-> result.key, price |-> Stored(result.row.price), batch |-> call[s].request]
            IN CASE result.status = "INSERTED" -> Existing(s, result.key) = {kept}
                 [] result.status = "DUPLICATE" ->
                      \E x \in Existing(s, result.key) : x.price = result.row.price
                 [] result.status = "CONFLICT" ->
                      /\ kept \in Conflicts(s)
                      /\ \E x \in Existing(s, result.key) : x.price # result.row.price

\* A completed batch counts its own rows, which is what a repeated call
\* answers with (_batch_result 231-241), and says whether it has conflicts;
\* a row belongs to a batch that is there; and an unfinished batch, which a
\* failed call left for another to commit, claims nothing.
CountsTrue ==
    /\ \A b \in batches :
         IF b.status = "RECEIVED" THEN b = Received(b.request)
         ELSE /\ b.inserted = Cardinality({x \in prices : x.batch = b.request})
              /\ b.conflict = Cardinality({x \in conflicts : x.batch = b.request})
              /\ b.conflict > 0 <=> b.status = "COMPLETED_WITH_CONFLICTS"
    /\ \A x \in prices \cup conflicts : \E b \in batches : b.request = x.batch

\* The quote at a past cutoff is not fixed, but it only ever gives way to an
\* observation that was unknown before and comes first in the order: a
\* restatement of an accepted price never moves it (ADR 0010), and neither
\* do the random ids the query of latest_quote (111-115) orders by last.
QuoteMoves ==
    [][\A x \in prices, y \in prices' :
         LET asOf == x.key.at
             i == x.key.instrument
         IN /\ x \in LatestQuote(prices, i, x.key.kind, asOf)
            /\ y \in LatestQuote(prices', i, x.key.kind, asOf)
            => x = y \/ (Sooner(y, x) /\ y.key \notin {z.key : z \in prices})]_vars

Accepted == {[key |-> x.key, price |-> x.price] : x \in prices}

Refused == {[key |-> x.key, price |-> x.price] : x \in conflicts}

Book == INSTANCE PriceBook WITH Price <- Int, accepted <- Accepted, disputes <- Refused

\* The sessions together keep one book of prices.
ImplementsBook == Book!Spec

\* A call of ingest returns or fails, even when sessions write the same
\* observations in opposite orders.
IngestReturns == \A s \in Session : ~ Idle(s) ~> Idle(s)
=============================================================================
