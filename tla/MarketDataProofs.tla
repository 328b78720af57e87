-------------------------- MODULE MarketDataProofs --------------------------
(***************************************************************************)
(* Proofs about MarketData, for every provider, request and session.       *)
(***************************************************************************)
EXTENDS MarketData, FiniteSetTheorems, TLAPS

-----------------------------------------------------------------------------
(* The inductive invariant.                                                *)

\* One price for an observation, in a session's view and between the
\* transactions that are open.
KeysApart ==
    /\ \A x, y \in prices : x.key = y.key => x = y
    /\ \A s \in Session : \A x, y \in prices \cup work[s].prices : x.key = y.key => x = y
    /\ \A s, u \in Session : s # u =>
         \A x \in work[s].prices, y \in work[u].prices : x.key # y.key

\* A refused value has an accepted one beside it.
ConflictsFounded ==
    /\ \A c \in conflicts : \E x \in prices : x.key = c.key
    /\ \A s \in Session : \A c \in work[s].conflicts : \E x \in prices \cup work[s].prices : x.key = c.key

\* A call that goes to insert an observation has not written it before.
InsertsNew ==
    \A s \in Session : call[s].step = "INSERT" =>
        /\ call[s].key = KeyOf(call[s].request.provider, Head(call[s].items), call[s].key.instrument)
        /\ \A x \in work[s].prices : x.key # call[s].key

\* What a result of a request says of the prices and conflicts a session
\* sees, of the session's own prices where it inserted one.
KeptRow(r, result) == [key |-> result.key, price |-> Stored(result.row.price), batch |-> r]

Stands(r, seen, own, refused, result) ==
    \/ result.status = "INSERTED" /\ KeptRow(r, result) \in own
    \/ /\ result.status = "DUPLICATE"
       /\ \E x \in seen : x.key = result.key /\ x.price = result.row.price
    \/ /\ result.status = "CONFLICT"
       /\ KeptRow(r, result) \in refused
       /\ \E x \in seen : x.key = result.key /\ x.price # result.row.price

ResultsOf(s) ==
    \A i \in DOMAIN call[s].results :
        Stands(call[s].request, Prices(s), work[s].prices, Conflicts(s), call[s].results[i])

AllStand == \A s \in Session : call[s].step \in {"ITEM", "INSERT"} => ResultsOf(s)

IInv == TypeOK /\ KeysApart /\ ConflictsFounded /\ InsertsNew /\ AllStand

-----------------------------------------------------------------------------
(* Type correctness.                                                       *)

WorkRecord == [batches : SUBSET Batch, prices : SUBSET PriceRow, conflicts : SUBSET PriceRow]

OpenCall == [step : {"OPEN"}, request : Request]

ItemCall == [step : {"ITEM"}, request : Request, items : Seq(Row), results : Seq(IngestResult)]

InsertCall ==
    [step : {"INSERT"}, request : Request, items : Seq(Row) \ {<<>>}, results : Seq(IngestResult), key : Key]

CallRecord == OpenCall \cup ItemCall \cup InsertCall \cup {NoCall}

LEMMA TypeParts ==
    TypeOK <=>
        /\ batches \subseteq Batch /\ prices \subseteq PriceRow /\ conflicts \subseteq PriceRow
        /\ work \in [Session -> WorkRecord]
        /\ call \in [Session -> CallRecord]
  BY DEF TypeOK, WorkRecord, OpenCall, ItemCall, InsertCall, CallRecord

LEMMA TypePartsNext ==
    TypeOK' <=>
        /\ batches' \subseteq Batch /\ prices' \subseteq PriceRow /\ conflicts' \subseteq PriceRow
        /\ work' \in [Session -> WorkRecord]
        /\ call' \in [Session -> CallRecord]
  BY DEF TypeOK, WorkRecord, OpenCall, ItemCall, InsertCall, CallRecord

LEMMA StoredType == ASSUME NEW price \in Int PROVE Stored(price) \in Int
  <1>1. Scale \in Nat \ {0}
    BY ScaleAssumption
  <1>2. 2 * Scale \in Nat \ {0} /\ 2 * price + Scale \in Int
    BY <1>1
  <1>3. (2 * price + Scale) \div (2 * Scale) \in Int
    BY <1>2
  <1> QED
    BY <1>1, <1>3 DEF Stored

LEMMA CountType ==
    ASSUME NEW results \in Seq(IngestResult), NEW status
    PROVE  Count(results, status) \in Nat
  <1> DEFINE those == {i \in DOMAIN results : results[i].status = status}
  <1>1. IsFiniteSet(1..Len(results)) /\ those \subseteq 1..Len(results)
    BY FS_Interval
  <1>2. IsFiniteSet(those)
    BY <1>1, FS_Subset
  <1> QED
    BY <1>2, FS_CardinalityType DEF Count

\* The calls of each step.
LEMMA StepTypes ==
    ASSUME TypeOK, NEW s \in Session
    PROVE  /\ call[s].step = "OPEN" => call[s] \in OpenCall
           /\ call[s].step = "ITEM" => call[s] \in ItemCall
           /\ call[s].step = "INSERT" => call[s] \in InsertCall
  BY TypeParts DEF CallRecord, OpenCall, ItemCall, InsertCall, NoCall

LEMMA HeadTail ==
    ASSUME NEW items \in Seq(Row), items # <<>>
    PROVE  Head(items) \in Row /\ Tail(items) \in Seq(Row)
  OBVIOUS

LEMMA KeyType ==
    ASSUME NEW r \in Request, NEW row \in Row, NEW i \in Instrument
    PROVE  KeyOf(r.provider, row, i) \in Key
  BY RequestAssumption DEF KeyOf, Key, Row, RequestFields

LEMMA AtRowType ==
    ASSUME TypeOK, NEW s \in Session, AtRow(s)
    PROVE  /\ call[s] \in ItemCall /\ call[s].request \in Request
           /\ call[s].items \in Seq(Row) /\ call[s].results \in Seq(IngestResult)
           /\ Head(call[s].items) \in Row /\ Tail(call[s].items) \in Seq(Row)
  <1>1. call[s] \in ItemCall /\ call[s].items # <<>>
    BY StepTypes DEF AtRow
  <1> QED
    BY <1>1, HeadTail DEF ItemCall

LEMMA InsertCallType ==
    ASSUME TypeOK, NEW s \in Session, call[s].step = "INSERT"
    PROVE  /\ call[s] \in InsertCall /\ call[s].request \in Request /\ call[s].key \in Key
           /\ call[s].items \in Seq(Row) /\ call[s].results \in Seq(IngestResult)
           /\ Head(call[s].items) \in Row /\ Tail(call[s].items) \in Seq(Row)
           /\ call[s].key.instrument \in Instrument
  <1>1. call[s] \in InsertCall
    BY StepTypes
  <1>2. call[s].items \in Seq(Row) /\ call[s].items # <<>> /\ call[s].key \in Key
    BY <1>1 DEF InsertCall
  <1> QED
    BY <1>1, <1>2, HeadTail DEF InsertCall, Key

\* What Advance leaves behind it.
LEMMA Advanced ==
    ASSUME TypeOK, NEW s \in Session, NEW i \in Instrument,
           AtRow(s) \/ call[s].step = "INSERT",
           NEW status \in {"INSERTED", "DUPLICATE", "CONFLICT"}, Advance(s, status, i)
    PROVE  /\ call' \in [Session -> CallRecord]
           /\ call'[s].step = "ITEM" /\ call'[s].request = call[s].request
           /\ call'[s].results = Append(call[s].results, Result(s, status, i))
           /\ \A u \in Session \ {s} : call'[u] = call[u]
  <1>1. /\ call[s].request \in Request /\ call[s].results \in Seq(IngestResult)
        /\ Head(call[s].items) \in Row /\ Tail(call[s].items) \in Seq(Row)
    BY AtRowType, InsertCallType
  <1>2. KeyOf(call[s].request.provider, Head(call[s].items), i) \in Key
    BY <1>1, KeyType
  <1>3. Result(s, status, i) \in IngestResult
    BY <1>1, <1>2 DEF Result, IngestResult
  <1>4. Append(call[s].results, Result(s, status, i)) \in Seq(IngestResult)
    BY <1>1, <1>3
  <1>5. call \in [Session -> CallRecord]
    BY TypeParts
  <1> DEFINE next == [step |-> "ITEM", request |-> call[s].request, items |-> Tail(call[s].items),
                      results |-> Append(call[s].results, Result(s, status, i))]
  <1>6. call' = [call EXCEPT ![s] = next]
    BY DEF Advance
  <1>7. next \in CallRecord
    BY <1>1, <1>4 DEF CallRecord, ItemCall
  <1> QED
    BY <1>5, <1>6, <1>7

LEMMA NoWorkType == NoWork \in WorkRecord
  BY DEF NoWork, WorkRecord

LEMMA TypeInit == Init => TypeOK
  <1> SUFFICES ASSUME Init PROVE TypeOK
    OBVIOUS
  <1>1. work \in [Session -> WorkRecord] /\ call \in [Session -> CallRecord]
    BY NoWorkType DEF Init, CallRecord
  <1> QED
    BY <1>1, TypeParts DEF Init

\* A row to be refused or inserted has the type of a price row.
LEMMA PriceRowType ==
    ASSUME NEW key \in Key, NEW row \in Row, NEW r \in Request
    PROVE  [key |-> key, price |-> Stored(row.price), batch |-> r] \in PriceRow
  <1>1. Stored(row.price) \in Int
    BY StoredType DEF Row
  <1> QED
    BY <1>1 DEF PriceRow

LEMMA CompletedType ==
    ASSUME NEW r \in Request, NEW results \in Seq(IngestResult)
    PROVE  Completed(r, results) \in Batch
  <1>1. /\ Count(results, "INSERTED") \in Nat /\ Count(results, "DUPLICATE") \in Nat
        /\ Count(results, "CONFLICT") \in Nat
    BY CountType
  <1> QED
    BY <1>1 DEF Completed, Batch, Status

LEMMA UndoType == ASSUME TypeOK, NEW s \in Session, Undo(s) PROVE TypeOK'
  <1>1. work' \in [Session -> WorkRecord] /\ call' \in [Session -> CallRecord]
    BY NoWorkType, TypeParts DEF Undo, CallRecord
  <1> QED
    BY <1>1, TypeParts, TypePartsNext DEF Undo

LEMMA LookupPriceType ==
    ASSUME TypeOK, NEW s \in Session, NEW i \in Instrument, LookupPrice(s, i)
    PROVE  TypeOK'
  <1>1. /\ AtRow(s) /\ call[s].request \in Request /\ call[s].items \in Seq(Row) \ {<<>>}
        /\ call[s].results \in Seq(IngestResult) /\ Head(call[s].items) \in Row
    BY AtRowType DEF LookupPrice, Names, AtRow
  <1> DEFINE key == KeyOf(call[s].request.provider, Head(call[s].items), i)
             next == [step |-> "INSERT", request |-> call[s].request, items |-> call[s].items,
                      results |-> call[s].results, key |-> key]
  <1>2. key \in Key
    BY <1>1, KeyType
  <1>3. call' = [call EXCEPT ![s] = next]
    BY DEF LookupPrice
  <1>4. next \in CallRecord
    BY <1>1, <1>2 DEF CallRecord, InsertCall
  <1>5. call' \in [Session -> CallRecord]
    BY <1>3, <1>4, TypeParts
  <1> QED
    BY <1>5, TypeParts, TypePartsNext DEF LookupPrice

LEMMA OpenType == ASSUME TypeOK, NEW s \in Session, Open(s) PROVE TypeOK'
  <1>1. call[s].request \in Request
    BY StepTypes DEF Open, OpenCall
  <1>2. Received(call[s].request) \in Batch
    BY <1>1 DEF Received, Batch, Status
  <1>3. work' \in [Session -> WorkRecord]
    BY <1>2, TypeParts DEF Open, WorkRecord
  <1>4. ASSUME NEW answer \in Fetched[call[s].request], answer # None
        PROVE  [step |-> "ITEM", request |-> call[s].request, items |-> answer, results |-> <<>>]
                 \in CallRecord
    <2>1. answer \in Seq(Row) /\ <<>> \in Seq(IngestResult)
      BY <1>1, <1>4, FetchedAssumption
    <2> QED
      BY <1>1, <2>1 DEF CallRecord, ItemCall
  <1>5. call' \in [Session -> CallRecord]
    BY <1>4, TypeParts DEF Open, CallRecord
  <1> QED
    BY <1>3, <1>5, TypeParts, TypePartsNext DEF Open

LEMMA RecordConflictType ==
    ASSUME TypeOK, NEW s \in Session, NEW i \in Instrument, RecordConflict(s, i)
    PROVE  TypeOK'
  <1>1. AtRow(s) /\ call[s].request \in Request /\ Head(call[s].items) \in Row
    BY AtRowType DEF RecordConflict, Names
  <1>2. PICK x \in Found(s, i) :
            work' = [work EXCEPT ![s].conflicts = @ \cup {Disputed(s, x)}]
    BY DEF RecordConflict
  <1>3. x.key \in Key
    BY <1>2, TypeParts DEF Found, Existing, Prices, PriceRow, WorkRecord
  <1>4. Disputed(s, x) \in PriceRow
    BY <1>1, <1>3, PriceRowType DEF Disputed
  <1>5. work' \in [Session -> WorkRecord]
    BY <1>2, <1>4, TypeParts DEF WorkRecord
  <1>6. call' \in [Session -> CallRecord]
    BY <1>1, Advanced DEF RecordConflict
  <1> QED
    BY <1>5, <1>6, TypeParts, TypePartsNext DEF RecordConflict

LEMMA InsertType == ASSUME TypeOK, NEW s \in Session, Insert(s) PROVE TypeOK'
  <1> DEFINE row == [key |-> call[s].key, price |-> Stored(Head(call[s].items).price),
                     batch |-> call[s].request]
  <1>1. row \in PriceRow /\ call[s].key.instrument \in Instrument
    BY InsertCallType, PriceRowType DEF Insert
  <1>2. work' = [work EXCEPT ![s].prices = @ \cup {row}]
    BY DEF Insert
  <1> HIDE DEF row
  <1>3. work' \in [Session -> WorkRecord]
    BY <1>1, <1>2, TypeParts DEF WorkRecord
  <1>4. call' \in [Session -> CallRecord]
    BY <1>1, Advanced DEF Insert
  <1> QED
    BY <1>3, <1>4, TypeParts, TypePartsNext DEF Insert

LEMMA CompleteType == ASSUME TypeOK, NEW s \in Session, Complete(s) PROVE TypeOK'
  <1>1. call[s].request \in Request /\ call[s].results \in Seq(IngestResult)
    BY StepTypes DEF Complete, ItemCall
  <1>2. Completed(call[s].request, call[s].results) \in Batch
    BY <1>1, CompletedType
  <1>3. batches' \subseteq Batch /\ prices' \subseteq PriceRow /\ conflicts' \subseteq PriceRow
    BY <1>2, TypeParts DEF Complete, Batches, Kept, Prices, Conflicts, WorkRecord
  <1>4. work' \in [Session -> WorkRecord] /\ call' \in [Session -> CallRecord]
    BY NoWorkType, TypeParts DEF Complete, CallRecord
  <1> QED
    BY <1>3, <1>4, TypePartsNext

LEMMA TypeStep == ASSUME TypeOK, [Next]_vars PROVE TypeOK'
  <1>1. CASE UNCHANGED vars
    BY <1>1, TypeParts, TypePartsNext DEF vars
  <1>2. ASSUME NEW s \in Session, NEW r \in Request, LookupBatch(s, r) PROVE TypeOK'
    <2>1. [step |-> "OPEN", request |-> r] \in CallRecord
      BY DEF CallRecord, OpenCall
    <2> QED
      BY <1>2, <2>1, TypeParts, TypePartsNext DEF LookupBatch
  <1>3. ASSUME NEW s \in Session, RefuseRow(s) PROVE TypeOK'
    BY <1>3, TypeParts, TypePartsNext DEF RefuseRow, CallRecord
  <1>4. ASSUME NEW s \in Session, NEW i \in Instrument, Duplicate(s, i) PROVE TypeOK'
    <2>1. call' \in [Session -> CallRecord]
      BY <1>4, Advanced DEF Duplicate, Names
    <2> QED
      BY <1>4, <2>1, TypeParts, TypePartsNext DEF Duplicate
  <1> QED
    BY <1>1, <1>2, <1>3, <1>4, UndoType, LookupPriceType, OpenType, RecordConflictType, InsertType,
       CompleteType
    DEF Next, IngestRow, FlushFails, AbortedByDeadlock, Rollback

-----------------------------------------------------------------------------
(* The steps.                                                              *)

\* Steps that write no price and no conflict.
Quiet ==
    /\ prices' = prices /\ conflicts' = conflicts
    /\ \A s \in Session : work'[s].prices = work[s].prices /\ work'[s].conflicts = work[s].conflicts

LEMMA QuietRows ==
    ASSUME IInv, Quiet
    PROVE  KeysApart' /\ ConflictsFounded'
  BY DEF IInv, Quiet, KeysApart, ConflictsFounded

\* A result stands as long as no row is lost.
LEMMA StandsKept ==
    ASSUME NEW r, NEW result, NEW seen, NEW own, NEW refused, NEW more, NEW mine, NEW disputed,
           Stands(r, seen, own, refused, result),
           seen \subseteq more, own \subseteq mine, refused \subseteq disputed
    PROVE  Stands(r, more, mine, disputed, result)
  BY DEF Stands

\* Session s loses no row, of its own or of others.
Keeps(s) ==
    /\ Prices(s) \subseteq Prices(s)' /\ Conflicts(s) \subseteq Conflicts(s)'
    /\ work[s].prices \subseteq work'[s].prices

\* The results of the calls that go on.
LEMMA ResultsKept ==
    ASSUME IInv, NEW s \in Session, call[s].step \in {"ITEM", "INSERT"}, Keeps(s),
           call'[s].request = call[s].request, call'[s].results = call[s].results
    PROVE  ResultsOf(s)'
  <1>1. ResultsOf(s)
    BY DEF IInv, AllStand
  <1> QED
    BY <1>1, StandsKept DEF ResultsOf, Keeps

\* The results of a call that goes on with another one.
LEMMA ResultAdded ==
    ASSUME IInv, NEW s \in Session, AtRow(s) \/ call[s].step = "INSERT", Keeps(s),
           call'[s].request = call[s].request,
           NEW result \in IngestResult, NEW results \in Seq(IngestResult),
           results = call[s].results, call'[s].results = Append(results, result),
           Stands(call[s].request, Prices(s)', work'[s].prices, Conflicts(s)', result)
    PROVE  ResultsOf(s)'
  <1>1. ResultsOf(s)
    BY DEF IInv, AllStand, AtRow
  <1>2. \A i \in DOMAIN results :
            Stands(call[s].request, Prices(s)', work'[s].prices, Conflicts(s)', results[i])
    BY <1>1, StandsKept DEF ResultsOf, Keeps
  <1>3. \A i \in DOMAIN call'[s].results :
            (i \in DOMAIN results /\ call'[s].results[i] = results[i]) \/ call'[s].results[i] = result
    OBVIOUS
  <1> QED
    BY <1>2, <1>3 DEF ResultsOf

\* The other calls' results, in a step of session s.
LEMMA OthersStand ==
    ASSUME IInv, NEW s \in Session,
           \A u \in Session \ {s} : call'[u] = call[u] /\ work'[u] = work[u],
           prices \subseteq prices', conflicts \subseteq conflicts',
           call'[s].step \in {"ITEM", "INSERT"} => ResultsOf(s)'
    PROVE  AllStand'
  <1>1. ASSUME NEW u \in Session \ {s}, call'[u].step \in {"ITEM", "INSERT"}
        PROVE  ResultsOf(u)'
    <2>1. Keeps(u)
      BY DEF Keeps, Prices, Conflicts
    <2> QED
      BY <1>1, <2>1, ResultsKept
  <1> QED
    BY <1>1 DEF AllStand

LEMMA LookupBatchStep ==
    ASSUME IInv, TypeOK', NEW s \in Session, NEW r \in Request, LookupBatch(s, r)
    PROVE  IInv'
  <1>1. call'[s].step = "OPEN" /\ \A u \in Session \ {s} : call'[u] = call[u]
    BY TypeParts DEF LookupBatch, IInv
  <1>2. UNCHANGED <<prices, conflicts, work>>
    BY DEF LookupBatch
  <1>3. KeysApart' /\ ConflictsFounded'
    BY <1>2, QuietRows DEF Quiet
  <1>4. InsertsNew'
    BY <1>1, <1>2 DEF IInv, InsertsNew
  <1>5. AllStand'
    BY <1>1, <1>2, OthersStand
  <1> QED
    BY <1>3, <1>4, <1>5 DEF IInv

LEMMA OpenStep ==
    ASSUME IInv, TypeOK', NEW s \in Session, Open(s)
    PROVE  IInv'
  <1>0. TypeOK
    BY DEF IInv
  <1>1. /\ call'[s].step = "IDLE" \/ (call'[s].step = "ITEM" /\ call'[s].results = <<>>)
        /\ \A u \in Session \ {s} : call'[u] = call[u]
    BY <1>0, TypeParts DEF Open, NoCall
  <1>2. /\ prices' = prices /\ conflicts' = conflicts
        /\ work'[s].prices = work[s].prices /\ work'[s].conflicts = work[s].conflicts
        /\ \A u \in Session \ {s} : work'[u] = work[u]
    BY <1>0, TypeParts DEF Open, WorkRecord
  <1>3. KeysApart' /\ ConflictsFounded'
    BY <1>2, QuietRows DEF Quiet
  <1>4. InsertsNew'
    BY <1>1, <1>2 DEF IInv, InsertsNew
  <1>5. AllStand'
    BY <1>1, <1>2, OthersStand DEF ResultsOf
  <1> QED
    BY <1>3, <1>4, <1>5 DEF IInv

LEMMA UndoStep ==
    ASSUME IInv, TypeOK', NEW s \in Session, Undo(s)
    PROVE  IInv'
  <1>1. call'[s] = NoCall /\ work'[s] = NoWork
        /\ \A u \in Session \ {s} : call'[u] = call[u] /\ work'[u] = work[u]
    BY TypeParts DEF Undo, IInv
  <1>2. prices' = prices /\ conflicts' = conflicts
    BY DEF Undo
  <1>3. KeysApart'
    BY <1>1, <1>2 DEF IInv, KeysApart, NoWork
  <1>4. ConflictsFounded'
    BY <1>1, <1>2 DEF IInv, ConflictsFounded, NoWork
  <1>5. InsertsNew'
    BY <1>1, <1>2 DEF IInv, InsertsNew, NoCall
  <1>6. AllStand'
    BY <1>1, <1>2, OthersStand DEF NoCall
  <1> QED
    BY <1>3, <1>4, <1>5, <1>6 DEF IInv

LEMMA RefuseRowStep ==
    ASSUME IInv, TypeOK', NEW s \in Session, RefuseRow(s)
    PROVE  IInv'
  <1>1. call'[s] = NoCall /\ \A u \in Session \ {s} : call'[u] = call[u]
    BY TypeParts DEF RefuseRow, IInv
  <1>2. UNCHANGED <<prices, conflicts, work>>
    BY DEF RefuseRow
  <1>3. KeysApart' /\ ConflictsFounded'
    BY <1>2, QuietRows DEF Quiet
  <1>4. InsertsNew'
    BY <1>1, <1>2 DEF IInv, InsertsNew, NoCall
  <1>5. AllStand'
    BY <1>1, <1>2, OthersStand DEF NoCall
  <1> QED
    BY <1>3, <1>4, <1>5 DEF IInv

LEMMA DuplicateStep ==
    ASSUME IInv, TypeOK', NEW s \in Session, NEW i \in Instrument, Duplicate(s, i)
    PROVE  IInv'
  <1>0. TypeOK /\ AtRow(s) /\ call[s].results \in Seq(IngestResult) /\ call[s].request \in Request
        /\ Head(call[s].items) \in Row
    BY AtRowType DEF Duplicate, Names, IInv
  <1> DEFINE result == Result(s, "DUPLICATE", i)
  <1>1. /\ call'[s].step = "ITEM" /\ call'[s].request = call[s].request
        /\ call'[s].results = Append(call[s].results, result)
        /\ \A u \in Session \ {s} : call'[u] = call[u]
    BY <1>0, Advanced DEF Duplicate
  <1>2. UNCHANGED <<prices, conflicts, work>>
    BY DEF Duplicate
  <1>3. KeysApart' /\ ConflictsFounded'
    BY <1>2, QuietRows DEF Quiet
  <1>4. InsertsNew'
    BY <1>1, <1>2 DEF IInv, InsertsNew
  <1>5. result.key = KeyOf(call[s].request.provider, Head(call[s].items), i)
        /\ result.status = "DUPLICATE" /\ result.row = Head(call[s].items)
    BY DEF Result
  <1>6. result \in IngestResult
    BY <1>0, KeyType DEF Result, IngestResult
  <1> HIDE DEF result
  <1>7. \E x \in Prices(s) : x.key = result.key /\ x.price = result.row.price
    BY <1>5 DEF Duplicate, Found, Existing, SamePrice
  <1>8. Keeps(s) /\ Prices(s)' = Prices(s)
    BY <1>2 DEF Keeps, Prices, Conflicts
  <1>9. Stands(call[s].request, Prices(s)', work'[s].prices, Conflicts(s)', result)
    BY <1>5, <1>7, <1>8 DEF Stands
  <1>10. ResultsOf(s)'
    BY <1>0, <1>1, <1>6, <1>8, <1>9, ResultAdded
  <1>11. AllStand'
    BY <1>1, <1>2, <1>10, OthersStand
  <1> QED
    BY <1>3, <1>4, <1>11 DEF IInv

LEMMA RecordConflictStep ==
    ASSUME IInv, TypeOK', NEW s \in Session, NEW i \in Instrument, RecordConflict(s, i)
    PROVE  IInv'
  <1>0. TypeOK /\ AtRow(s) /\ call[s].results \in Seq(IngestResult) /\ call[s].request \in Request
        /\ Head(call[s].items) \in Row
    BY AtRowType DEF RecordConflict, Names, IInv
  <1> DEFINE result == Result(s, "CONFLICT", i)
  <1>1. /\ call'[s].step = "ITEM" /\ call'[s].request = call[s].request
        /\ call'[s].results = Append(call[s].results, result)
        /\ \A u \in Session \ {s} : call'[u] = call[u]
    BY <1>0, Advanced DEF RecordConflict
  <1>2. result.key = KeyOf(call[s].request.provider, Head(call[s].items), i)
        /\ result.status = "CONFLICT" /\ result.row = Head(call[s].items)
    BY DEF Result
  <1>3. result \in IngestResult
    BY <1>0, KeyType DEF Result, IngestResult
  <1> HIDE DEF result
  <1>4. PICK x \in Prices(s) :
            /\ x.key = result.key /\ x.price # result.row.price
            /\ work' = [work EXCEPT ![s].conflicts = @ \cup {Disputed(s, x)}]
    BY <1>2 DEF RecordConflict, Found, Existing, SamePrice
  <1>5. Disputed(s, x) = KeptRow(call[s].request, result)
    BY <1>2, <1>4 DEF Disputed, KeptRow
  <1>6. /\ prices' = prices /\ conflicts' = conflicts /\ work'[s].prices = work[s].prices
        /\ work'[s].conflicts = work[s].conflicts \cup {Disputed(s, x)}
        /\ \A u \in Session \ {s} : work'[u] = work[u]
    BY <1>0, <1>4, TypeParts DEF RecordConflict, WorkRecord
  <1>7. Disputed(s, x).key = x.key /\ x \in prices \cup work[s].prices
    BY <1>4 DEF Disputed, Prices
  <1>8. KeysApart'
    BY <1>6 DEF IInv, KeysApart
  <1>9. ConflictsFounded'
    BY <1>6, <1>7 DEF IInv, ConflictsFounded
  <1>10. InsertsNew'
    BY <1>1, <1>6 DEF IInv, InsertsNew
  <1>11. Keeps(s) /\ Prices(s)' = Prices(s) /\ KeptRow(call[s].request, result) \in Conflicts(s)'
    BY <1>5, <1>6 DEF Keeps, Prices, Conflicts
  <1>12. Stands(call[s].request, Prices(s)', work'[s].prices, Conflicts(s)', result)
    BY <1>2, <1>4, <1>11 DEF Stands
  <1>13. ResultsOf(s)'
    BY <1>0, <1>1, <1>3, <1>11, <1>12, ResultAdded
  <1>14. AllStand'
    BY <1>1, <1>6, <1>13, OthersStand
  <1> QED
    BY <1>8, <1>9, <1>10, <1>14 DEF IInv

LEMMA LookupPriceStep ==
    ASSUME IInv, TypeOK', NEW s \in Session, NEW i \in Instrument, LookupPrice(s, i)
    PROVE  IInv'
  <1>0. TypeOK /\ AtRow(s)
    BY DEF LookupPrice, Names, IInv
  <1> DEFINE key == KeyOf(call[s].request.provider, Head(call[s].items), i)
  <1>1. /\ call'[s] = [step |-> "INSERT", request |-> call[s].request, items |-> call[s].items,
                       results |-> call[s].results, key |-> key]
        /\ \A u \in Session \ {s} : call'[u] = call[u]
    BY <1>0, TypeParts DEF LookupPrice
  <1>2. UNCHANGED <<prices, conflicts, work>>
    BY DEF LookupPrice
  <1>3. KeysApart' /\ ConflictsFounded'
    BY <1>2, QuietRows DEF Quiet
  <1>4. key.instrument = i
    BY DEF KeyOf
  <1>5. \A x \in work[s].prices : x.key # key
    BY DEF LookupPrice, Found, Existing, Prices
  <1> HIDE DEF key
  <1>6. key = KeyOf(call[s].request.provider, Head(call[s].items), key.instrument)
    BY <1>4 DEF key
  <1>7. InsertsNew'
    BY <1>1, <1>2, <1>5, <1>6 DEF IInv, InsertsNew
  <1>8. Keeps(s)
    BY <1>2 DEF Keeps, Prices, Conflicts
  <1>9. ResultsOf(s)'
    BY <1>0, <1>1, <1>8, ResultsKept DEF AtRow
  <1>10. AllStand'
    BY <1>1, <1>2, <1>9, OthersStand
  <1> QED
    BY <1>3, <1>7, <1>10 DEF IInv

LEMMA InsertStep ==
    ASSUME IInv, TypeOK', NEW s \in Session, Insert(s)
    PROVE  IInv'
  <1>0. TypeOK /\ call[s].step = "INSERT"
    BY DEF Insert, IInv
  <1>1. /\ call[s].results \in Seq(IngestResult) /\ call[s].request \in Request
        /\ Head(call[s].items) \in Row /\ call[s].key.instrument \in Instrument
    BY <1>0, InsertCallType
  <1> DEFINE result == Result(s, "INSERTED", call[s].key.instrument)
             row == [key |-> call[s].key, price |-> Stored(Head(call[s].items).price),
                     batch |-> call[s].request]
  <1>2. /\ call'[s].step = "ITEM" /\ call'[s].request = call[s].request
        /\ call'[s].results = Append(call[s].results, result)
        /\ \A u \in Session \ {s} : call'[u] = call[u]
    BY <1>0, <1>1, Advanced DEF Insert
  <1>3. call[s].key = KeyOf(call[s].request.provider, Head(call[s].items), call[s].key.instrument)
    BY <1>0 DEF IInv, InsertsNew
  <1>4. result.key = call[s].key /\ result.status = "INSERTED" /\ result.row = Head(call[s].items)
    BY <1>3 DEF Result
  <1>5. result \in IngestResult
    BY <1>1, KeyType DEF Result, IngestResult
  <1>6. work' = [work EXCEPT ![s].prices = @ \cup {row}] /\ row.key = call[s].key
    BY DEF Insert
  <1> HIDE DEF result
  <1>7. row = KeptRow(call[s].request, result)
    BY <1>4 DEF KeptRow
  <1> HIDE DEF row
  <1>8. /\ prices' = prices /\ conflicts' = conflicts
        /\ work'[s].prices = work[s].prices \cup {row} /\ work'[s].conflicts = work[s].conflicts
        /\ \A u \in Session \ {s} : work'[u] = work[u]
    BY <1>0, <1>6, TypeParts DEF Insert, WorkRecord
  <1>9. /\ \A x \in prices \cup work[s].prices : x.key # row.key
        /\ \A u \in Session \ {s} : \A x \in work[u].prices : x.key # row.key
    BY <1>0, <1>6 DEF Insert, Free, Violates, WaitsFor, IInv, InsertsNew
  <1>10. KeysApart'
    BY <1>8, <1>9 DEF IInv, KeysApart
  <1>11. ConflictsFounded'
    BY <1>8 DEF IInv, ConflictsFounded
  <1>12. InsertsNew'
    BY <1>2, <1>8 DEF IInv, InsertsNew
  <1>13. Keeps(s) /\ row \in work'[s].prices
    BY <1>8 DEF Keeps, Prices, Conflicts
  <1>14. Stands(call[s].request, Prices(s)', work'[s].prices, Conflicts(s)', result)
    BY <1>4, <1>7, <1>13 DEF Stands
  <1>15. ResultsOf(s)'
    BY <1>0, <1>1, <1>2, <1>5, <1>13, <1>14, ResultAdded
  <1>16. AllStand'
    BY <1>2, <1>8, <1>15, OthersStand
  <1> QED
    BY <1>10, <1>11, <1>12, <1>16 DEF IInv

LEMMA CompleteStep ==
    ASSUME IInv, TypeOK', NEW s \in Session, Complete(s)
    PROVE  IInv'
  <1>1. /\ call'[s] = NoCall /\ work'[s] = NoWork
        /\ \A u \in Session \ {s} : call'[u] = call[u] /\ work'[u] = work[u]
    BY TypeParts DEF Complete, IInv
  <1>2. prices' = prices \cup work[s].prices /\ conflicts' = conflicts \cup work[s].conflicts
    BY DEF Complete, Kept, Prices, Conflicts
  <1>3. KeysApart'
    BY <1>1, <1>2 DEF IInv, KeysApart, NoWork
  <1>4. ConflictsFounded'
    BY <1>1, <1>2 DEF IInv, ConflictsFounded, NoWork
  <1>5. InsertsNew'
    BY <1>1, <1>2 DEF IInv, InsertsNew, NoCall
  <1>6. AllStand'
    BY <1>1, <1>2, OthersStand DEF NoCall
  <1> QED
    BY <1>3, <1>4, <1>5, <1>6 DEF IInv

LEMMA Initially == Init => IInv
  BY TypeInit DEF Init, IInv, KeysApart, ConflictsFounded, InsertsNew, AllStand, NoWork, NoCall

LEMMA Inductive == IInv /\ [Next]_vars => IInv'
  <1> SUFFICES ASSUME IInv, [Next]_vars PROVE IInv'
    OBVIOUS
  <1>1. TypeOK'
    BY TypeStep DEF IInv
  <1>2. CASE UNCHANGED vars
    <2>1. KeysApart' /\ ConflictsFounded'
      BY <1>2, QuietRows DEF vars, Quiet
    <2>2. InsertsNew'
      BY <1>2 DEF vars, IInv, InsertsNew
    <2>3. AllStand'
      BY <1>2 DEF vars, IInv, AllStand, ResultsOf, Prices, Conflicts
    <2> QED
      BY <1>1, <2>1, <2>2, <2>3 DEF IInv
  <1>3. ASSUME NEW s \in Session, IngestRow(s) PROVE IInv'
    BY <1>1, <1>3, RefuseRowStep, DuplicateStep, RecordConflictStep, LookupPriceStep, InsertStep, UndoStep
    DEF IngestRow, FlushFails
  <1> QED
    BY <1>1, <1>2, <1>3, LookupBatchStep, OpenStep, UndoStep, CompleteStep
    DEF Next, AbortedByDeadlock, Rollback

-----------------------------------------------------------------------------
(* Theorems.                                                               *)

\* The inductive invariant holds in every state, for every provider, request
\* and number of sessions.
THEOREM Invariance == Spec => []IInv
  BY Initially, Inductive, PTL DEF Spec

\* Every variable keeps its type.
THEOREM TypeCorrect == Spec => []TypeOK
  <1>1. IInv => TypeOK
    BY DEF IInv
  <1> QED
    BY <1>1, Invariance, PTL

\* What ingest has said of the rows it has passed is true of what its commit
\* will store, whatever other sessions committed since.
THEOREM ResultsTrue == Spec => []ResultsStand
  <1>1. ASSUME IInv PROVE ResultsStand
    <2>1. SUFFICES ASSUME NEW s \in Session, call[s].step \in {"ITEM", "INSERT"},
                          NEW i \in DOMAIN call[s].results
                   PROVE  LET result == call[s].results[i]
                              kept == KeptRow(call[s].request, result)
                          IN CASE result.status = "INSERTED" -> Existing(s, result.key) = {kept}
                               [] result.status = "DUPLICATE" ->
                                    \E x \in Existing(s, result.key) : x.price = result.row.price
                               [] result.status = "CONFLICT" ->
                                    /\ kept \in Conflicts(s)
                                    /\ \E x \in Existing(s, result.key) : x.price # result.row.price
      BY DEF ResultsStand, KeptRow
    <2> DEFINE result == call[s].results[i]
               kept == KeptRow(call[s].request, result)
    <2>2. Stands(call[s].request, Prices(s), work[s].prices, Conflicts(s), result)
      BY <1>1, <2>1 DEF IInv, AllStand, ResultsOf
    <2>3. \A x, y \in Prices(s) : x.key = y.key => x = y
      BY <1>1 DEF IInv, KeysApart, Prices
    <2>4. kept.key = result.key
      BY DEF KeptRow
    <2> HIDE DEF result
    <2>5. result.status = "INSERTED" => Existing(s, result.key) = {kept}
      <3>1. SUFFICES ASSUME result.status = "INSERTED" PROVE Existing(s, result.key) = {kept}
        OBVIOUS
      <3>2. kept \in Prices(s)
        BY <2>2, <3>1 DEF Stands, Prices
      <3> HIDE DEF kept
      <3> QED
        BY <2>3, <2>4, <3>2 DEF Existing
    <2>6. result.status = "DUPLICATE" => \E x \in Existing(s, result.key) : x.price = result.row.price
      BY <2>2 DEF Stands, Existing
    <2>7. result.status = "CONFLICT" =>
            kept \in Conflicts(s) /\ \E x \in Existing(s, result.key) : x.price # result.row.price
      BY <2>2 DEF Stands, Existing
    <2>8. result.status \in {"INSERTED", "DUPLICATE", "CONFLICT"}
      BY <2>2 DEF Stands
    <2> HIDE DEF kept
    <2>9. (CASE result.status = "INSERTED" -> Existing(s, result.key) = {kept}
             [] result.status = "DUPLICATE" ->
                  \E x \in Existing(s, result.key) : x.price = result.row.price
             [] result.status = "CONFLICT" ->
                  /\ kept \in Conflicts(s)
                  /\ \E x \in Existing(s, result.key) : x.price # result.row.price)
      <3>1. CASE result.status = "INSERTED"
        BY <2>5, <3>1
      <3>2. CASE result.status = "DUPLICATE"
        BY <2>6, <3>2
      <3>3. CASE result.status = "CONFLICT"
        BY <2>7, <3>3
      <3> QED
        BY <2>8, <3>1, <3>2, <3>3
    <2> QED
      BY <2>9 DEF result, kept
  <1> QED
    BY <1>1, Invariance, PTL

-----------------------------------------------------------------------------
(* Quotes and the book.                                                    *)

\* What a step does to the committed rows.
LEMMA CommittedStep ==
    ASSUME TypeOK, [Next]_vars
    PROVE  \/ UNCHANGED <<prices, conflicts>>
           \/ \E s \in Session : /\ prices' = prices \cup work[s].prices
                                 /\ conflicts' = conflicts \cup work[s].conflicts
  BY DEF Next, vars, LookupBatch, Open, IngestRow, RefuseRow, Duplicate, RecordConflict, LookupPrice,
         Insert, FlushFails, AbortedByDeadlock, Rollback, Undo, Complete, Kept, Prices, Conflicts

\* The order of quotes tells the observations of one instrument and kind apart.
LEMMA SoonerOrders ==
    ASSUME NEW x \in PriceRow, NEW y \in PriceRow, x.key.instrument = y.key.instrument,
           x.key.kind = y.key.kind, ~ Sooner(x, y), ~ Sooner(y, x)
    PROVE  x.key = y.key
  <1>1. x.key \in Key /\ y.key \in Key
    BY DEF PriceRow
  <1>2. x.key.at = y.key.at
    BY <1>1 DEF Sooner, Key, Time
  <1>3. Rank[x.key.provider] = Rank[y.key.provider]
    BY <1>1, <1>2, RankAssumption DEF Sooner, Key
  <1>4. x.key.provider = y.key.provider
    BY <1>1, <1>3, RankAssumption DEF Key
  <1> QED
    BY <1>1, <1>2, <1>4 DEF Key

LEMMA QuoteStep ==
    ASSUME IInv, IInv', [Next]_vars, NEW x \in prices, NEW y \in prices',
           x \in LatestQuote(prices, x.key.instrument, x.key.kind, x.key.at),
           y \in LatestQuote(prices', x.key.instrument, x.key.kind, x.key.at)
    PROVE  x = y \/ (Sooner(y, x) /\ y.key \notin {z.key : z \in prices})
  <1>1. prices \subseteq prices'
    BY CommittedStep DEF IInv
  <1>2. x \in PriceRow /\ y \in PriceRow
    BY TypeParts, TypePartsNext DEF IInv
  <1>3. \A a, b \in prices' : a.key = b.key => a = b
    BY DEF IInv, KeysApart
  <1>4. ~ Sooner(x, y) /\ y.key.instrument = x.key.instrument /\ y.key.kind = x.key.kind
    BY <1>1 DEF LatestQuote, Eligible
  <1>5. x = y \/ Sooner(y, x)
    BY <1>1, <1>2, <1>3, <1>4, SoonerOrders
  <1>6. y \in prices => ~ Sooner(y, x)
    BY DEF LatestQuote, Eligible
  <1>7. y \notin prices => y.key \notin {z.key : z \in prices}
    BY <1>1, <1>3
  <1> QED
    BY <1>5, <1>6, <1>7

\* Restating, refusing or committing prices in any order never moves a quote,
\* except to an observation that was not known before (latest_quote).
THEOREM QuotesMove == Spec => QuoteMoves
  <1>1. IInv /\ IInv' /\ [Next]_vars =>
          [\A x \in prices, y \in prices' :
             LET asOf == x.key.at
                 i == x.key.instrument
             IN /\ x \in LatestQuote(prices, i, x.key.kind, asOf)
                /\ y \in LatestQuote(prices', i, x.key.kind, asOf)
                => x = y \/ (Sooner(y, x) /\ y.key \notin {z.key : z \in prices})]_vars
    BY QuoteStep
  <1> QED
    BY <1>1, Invariance, PTL DEF Spec, QuoteMoves

\* The sessions together keep one book of prices, which only grows and never
\* has two prices for an observation: MarketData implements PriceBook.
THEOREM BookImplemented == Spec => ImplementsBook
  <1> DEFINE entry(x) == [key |-> x.key, price |-> x.price]
  <1>1. Init => Book!Init
    BY DEF Init, Book!Init, Accepted, Refused
  <1>2. ASSUME IInv, IInv', [Next]_vars PROVE [Book!Record]_<<Accepted, Refused>>
    <2>1. Accepted \subseteq Accepted' /\ Refused \subseteq Refused'
      BY <1>2, CommittedStep DEF IInv, Accepted, Refused
    <2>2. Accepted' \subseteq Book!Quote /\ Refused' \subseteq Book!Quote
      BY <1>2, TypePartsNext DEF IInv, Accepted, Refused, PriceRow, Book!Quote
    <2>3. Book!Decided(Accepted')
      BY <1>2 DEF IInv, KeysApart, Accepted, Book!Decided
    <2>4. Book!Priced(Refused') \subseteq Book!Priced(Accepted')
      <3>1. SUFFICES ASSUME NEW c \in conflicts'
                     PROVE  c.key \in Book!Priced(Accepted')
        BY DEF Book!Priced, Refused
      <3>2. PICK x \in prices' : x.key = c.key
        BY <1>2 DEF IInv, ConflictsFounded
      <3>3. entry(x) \in Accepted' /\ entry(x).key = c.key
        BY <3>2 DEF Accepted
      <3> QED
        BY <3>3 DEF Book!Priced
    <2> QED
      BY <2>1, <2>2, <2>3, <2>4 DEF Book!Record
  <1>3. IInv /\ IInv' /\ [Next]_vars => [Book!Record]_<<Accepted, Refused>>
    BY <1>2
  <1> QED
    BY <1>1, <1>3, Invariance, PTL DEF Spec, ImplementsBook, Book!Spec, Book!vars

-----------------------------------------------------------------------------
(* The counts of a batch.                                                  *)

BatchRows(rows, r) == {x \in rows : x.batch = r}

\* The rows a session has written in batch r are as many as its results say.
Tallied(rows, r, results, status) ==
    /\ IsFiniteSet(BatchRows(rows, r))
    /\ Cardinality(BatchRows(rows, r)) = Count(results, status)

\* What a session has written belongs to batches of its own, none of them
\* completed and none committed by another.
OwnBatches(s) ==
    /\ \A b \in work[s].batches : b = Received(b.request)
    /\ \A x \in work[s].prices \cup work[s].conflicts :
         \E b \in work[s].batches : b.request = x.batch
    /\ \A b \in work[s].batches :
         /\ \A c \in batches : c.request # b.request
         /\ \A u \in Session \ {s} : \A c \in work[u].batches : c.request # b.request

\* A call has its batch once it is past the flush, with the rows it counted.
CallsTallied(s) ==
    /\ call[s].step = "OPEN" => \A b \in work[s].batches : b.request # call[s].request
    /\ call[s].step \in {"ITEM", "INSERT"} =>
         /\ Received(call[s].request) \in work[s].batches
         /\ Tallied(work[s].prices, call[s].request, call[s].results, "INSERTED")
         /\ Tallied(work[s].conflicts, call[s].request, call[s].results, "CONFLICT")

CountsInv == CountsTrue /\ \A s \in Session : OwnBatches(s) /\ CallsTallied(s)

\* One more result counts for its own status.
LEMMA CountAppended ==
    ASSUME NEW results \in Seq(IngestResult), NEW result \in IngestResult, NEW status
    PROVE  /\ result.status = status => Count(Append(results, result), status) = Count(results, status) + 1
           /\ result.status # status => Count(Append(results, result), status) = Count(results, status)
  <1> DEFINE those == {i \in DOMAIN results : results[i].status = status}
             more == Append(results, result)
             place == Len(results) + 1
  <1>0. Len(results) \in Nat /\ DOMAIN results = 1..Len(results)
    OBVIOUS
  <1>1. IsFiniteSet(1..Len(results)) /\ those \subseteq 1..Len(results) /\ place \notin those
    <2>1. IsFiniteSet(1..Len(results))
      BY <1>0, FS_Interval
    <2>2. those \subseteq 1..Len(results) /\ place \notin 1..Len(results)
      BY <1>0
    <2> QED
      BY <2>1, <2>2
  <1>2. IsFiniteSet(those) /\ Cardinality(those) \in Nat
    BY <1>1, FS_Subset, FS_CardinalityType
  <1>3. Cardinality(those \cup {place}) = Cardinality(those) + 1
    BY <1>1, <1>2, FS_AddElement
  <1>4. /\ DOMAIN more = DOMAIN results \cup {place} /\ more[place] = result
        /\ \A i \in DOMAIN results : more[i] = results[i]
    OBVIOUS
  <1> HIDE DEF more, place
  <1>5. {i \in DOMAIN more : more[i].status = status}
          = IF result.status = status THEN those \cup {place} ELSE those
    BY <1>1, <1>4
  <1>6. Count(results, status) = Cardinality(those)
    BY DEF Count
  <1>7. Count(more, status) = Cardinality({i \in DOMAIN more : more[i].status = status})
    BY DEF Count
  <1> HIDE DEF those
  <1>8. /\ result.status = status => Count(more, status) = Count(results, status) + 1
        /\ result.status # status => Count(more, status) = Count(results, status)
    BY <1>3, <1>5, <1>6, <1>7
  <1> QED
    BY <1>8 DEF more

\* A new row of the batch with a result of its status.
LEMMA TalliedOn ==
    ASSUME NEW rows, NEW r, NEW results \in Seq(IngestResult), NEW result \in IngestResult,
           NEW status, Tallied(rows, r, results, status), result.status = status,
           NEW row, row.batch = r, row \notin rows
    PROVE  Tallied(rows \cup {row}, r, Append(results, result), status)
  <1>1. BatchRows(rows \cup {row}, r) = BatchRows(rows, r) \cup {row} /\ row \notin BatchRows(rows, r)
    BY DEF BatchRows
  <1>2. /\ IsFiniteSet(BatchRows(rows, r) \cup {row})
        /\ Cardinality(BatchRows(rows, r) \cup {row}) = Cardinality(BatchRows(rows, r)) + 1
    BY <1>1, FS_AddElement DEF Tallied
  <1> QED
    BY <1>1, <1>2, CountAppended DEF Tallied

\* A result of another status.
LEMMA TalliedStill ==
    ASSUME NEW rows, NEW r, NEW results \in Seq(IngestResult), NEW result \in IngestResult,
           NEW status, Tallied(rows, r, results, status), result.status # status
    PROVE  Tallied(rows, r, Append(results, result), status)
  <1>1. Count(results, status) \in Nat
    BY CountType
  <1> QED
    BY <1>1, CountAppended DEF Tallied

\* Nothing is tallied before the first result.
LEMMA TalliedFirst ==
    ASSUME NEW rows, NEW r, NEW status, \A x \in rows : x.batch # r
    PROVE  Tallied(rows, r, <<>>, status)
  <1>1. BatchRows(rows, r) = {}
    BY DEF BatchRows
  <1>2. {i \in DOMAIN <<>> : <<>>[i].status = status} = {}
    OBVIOUS
  <1> QED
    BY <1>1, <1>2, FS_EmptySet DEF Tallied, Count

\* What a step of session s must establish when it commits nothing.
LEMMA OpenCounts ==
    ASSUME TypeOK, CountsInv, NEW s \in Session, UNCHANGED <<batches, prices, conflicts>>,
           \A u \in Session \ {s} : call'[u] = call[u] /\ work'[u] = work[u],
           OwnBatches(s)', CallsTallied(s)'
    PROVE  CountsInv'
  <1>1. CountsTrue'
    BY DEF CountsInv, CountsTrue
  <1>2. ASSUME NEW u \in Session \ {s} PROVE OwnBatches(u)' /\ CallsTallied(u)'
    BY <1>2 DEF CountsInv, OwnBatches, CallsTallied
  <1> QED
    BY <1>1, <1>2 DEF CountsInv

\* A step that writes nothing at all.
LEMMA SilentCounts ==
    ASSUME TypeOK, CountsInv, NEW s \in Session, UNCHANGED <<batches, prices, conflicts, work>>,
           \A u \in Session \ {s} : call'[u] = call[u], CallsTallied(s)'
    PROVE  CountsInv'
  <1>1. OwnBatches(s)'
    BY DEF CountsInv, OwnBatches
  <1> QED
    BY <1>1, OpenCounts

LEMMA UndoCounts == ASSUME TypeOK, CountsInv, NEW s \in Session, Undo(s) PROVE CountsInv'
  <1>1. /\ call'[s] = NoCall /\ work'[s] = NoWork
        /\ \A u \in Session \ {s} : call'[u] = call[u] /\ work'[u] = work[u]
    BY TypeParts DEF Undo
  <1>2. OwnBatches(s)' /\ CallsTallied(s)'
    BY <1>1 DEF OwnBatches, CallsTallied, NoWork, NoCall
  <1> QED
    BY <1>1, <1>2, OpenCounts DEF Undo

LEMMA LookupBatchCounts ==
    ASSUME TypeOK, CountsInv, NEW s \in Session, NEW r \in Request, LookupBatch(s, r)
    PROVE  CountsInv'
  <1>1. /\ call'[s] = [step |-> "OPEN", request |-> r]
        /\ \A u \in Session \ {s} : call'[u] = call[u]
    BY TypeParts DEF LookupBatch
  <1>2. CallsTallied(s)'
    BY <1>1 DEF CallsTallied, LookupBatch, Batches
  <1> QED
    BY <1>1, <1>2, SilentCounts DEF LookupBatch

LEMMA RefuseRowCounts ==
    ASSUME TypeOK, CountsInv, NEW s \in Session, RefuseRow(s)
    PROVE  CountsInv'
  <1>1. call'[s] = NoCall /\ \A u \in Session \ {s} : call'[u] = call[u]
    BY TypeParts DEF RefuseRow
  <1>2. CallsTallied(s)'
    BY <1>1 DEF CallsTallied, NoCall
  <1> QED
    BY <1>1, <1>2, SilentCounts DEF RefuseRow

LEMMA LookupPriceCounts ==
    ASSUME TypeOK, CountsInv, NEW s \in Session, NEW i \in Instrument, LookupPrice(s, i)
    PROVE  CountsInv'
  <1>1. /\ call'[s].step = "INSERT" /\ call'[s].request = call[s].request
        /\ call'[s].results = call[s].results
        /\ \A u \in Session \ {s} : call'[u] = call[u]
    BY TypeParts DEF LookupPrice
  <1>2. call[s].step = "ITEM" /\ work' = work
    BY DEF LookupPrice, Names, AtRow
  <1>3. CallsTallied(s)'
    BY <1>1, <1>2 DEF CountsInv, CallsTallied
  <1> QED
    BY <1>1, <1>3, SilentCounts DEF LookupPrice

LEMMA OpenStepCounts ==
    ASSUME TypeOK, CountsInv, NEW s \in Session, Open(s)
    PROVE  CountsInv'
  <1> DEFINE r == call[s].request
  <1>1. /\ \/ call'[s] = NoCall
           \/ call'[s].step = "ITEM" /\ call'[s].request = r /\ call'[s].results = <<>>
        /\ \A u \in Session \ {s} : call'[u] = call[u]
    BY TypeParts DEF Open
  <1>2. /\ work'[s].batches = work[s].batches \cup {Received(r)}
        /\ work'[s].prices = work[s].prices /\ work'[s].conflicts = work[s].conflicts
        /\ \A u \in Session \ {s} : work'[u] = work[u]
    BY TypeParts DEF Open, WorkRecord
  <1>3. Received(r).request = r
    BY DEF Received
  <1>4. /\ \A b \in batches : b.request # r
        /\ \A b \in work[s].batches : b.request # r
        /\ \A u \in Session \ {s} : \A b \in work[u].batches : b.request # r
    BY DEF Open, Free, Violates, WaitsFor, CountsInv, CallsTallied
  <1>5. \A x \in work[s].prices \cup work[s].conflicts : x.batch # r
    BY <1>4 DEF CountsInv, OwnBatches
  <1> HIDE DEF r
  <1>6. UNCHANGED <<batches, prices, conflicts>>
    BY DEF Open
  <1>7. OwnBatches(s)'
    BY <1>2, <1>3, <1>4, <1>6 DEF CountsInv, OwnBatches
  <1>8. Tallied(work[s].prices, r, <<>>, "INSERTED") /\ Tallied(work[s].conflicts, r, <<>>, "CONFLICT")
    BY <1>5, TalliedFirst
  <1>9. CallsTallied(s)'
    BY <1>1, <1>2, <1>8 DEF CallsTallied, NoCall
  <1> QED
    BY <1>1, <1>2, <1>6, <1>7, <1>9, OpenCounts

LEMMA DuplicateCounts ==
    ASSUME TypeOK, CountsInv, NEW s \in Session, NEW i \in Instrument, Duplicate(s, i)
    PROVE  CountsInv'
  <1> DEFINE result == Result(s, "DUPLICATE", i)
  <1>1. AtRow(s) /\ Advance(s, "DUPLICATE", i) /\ UNCHANGED <<batches, prices, conflicts, work>>
    BY DEF Duplicate, Names
  <1>2. /\ call'[s].step = "ITEM" /\ call'[s].request = call[s].request
        /\ call'[s].results = Append(call[s].results, result)
        /\ \A u \in Session \ {s} : call'[u] = call[u]
    BY <1>1, Advanced
  <1>3. call[s].results \in Seq(IngestResult) /\ result \in IngestResult /\ result.status = "DUPLICATE"
    BY <1>1, AtRowType, KeyType DEF Result, IngestResult
  <1> HIDE DEF result
  <1>4. /\ Received(call[s].request) \in work[s].batches
        /\ Tallied(work[s].prices, call[s].request, call[s].results, "INSERTED")
        /\ Tallied(work[s].conflicts, call[s].request, call[s].results, "CONFLICT")
    BY <1>1 DEF AtRow, CountsInv, CallsTallied
  <1>5. CallsTallied(s)'
    BY <1>1, <1>2, <1>3, <1>4, TalliedStill DEF CallsTallied
  <1> QED
    BY <1>1, <1>2, <1>5, SilentCounts

LEMMA RecordConflictCounts ==
    ASSUME TypeOK, CountsInv, NEW s \in Session, NEW i \in Instrument, RecordConflict(s, i)
    PROVE  CountsInv'
  <1> DEFINE result == Result(s, "CONFLICT", i)
  <1>1. AtRow(s) /\ Advance(s, "CONFLICT", i) /\ UNCHANGED <<batches, prices, conflicts>>
    BY DEF RecordConflict, Names
  <1>2. /\ call'[s].step = "ITEM" /\ call'[s].request = call[s].request
        /\ call'[s].results = Append(call[s].results, result)
        /\ \A u \in Session \ {s} : call'[u] = call[u]
    BY <1>1, Advanced
  <1>3. call[s].results \in Seq(IngestResult) /\ result \in IngestResult /\ result.status = "CONFLICT"
    BY <1>1, AtRowType, KeyType DEF Result, IngestResult
  <1> HIDE DEF result
  <1>4. /\ Received(call[s].request) \in work[s].batches
        /\ Tallied(work[s].prices, call[s].request, call[s].results, "INSERTED")
        /\ Tallied(work[s].conflicts, call[s].request, call[s].results, "CONFLICT")
    BY <1>1 DEF AtRow, CountsInv, CallsTallied
  <1>5. PICK x \in Found(s, i) : /\ Disputed(s, x) \notin work[s].conflicts
                                 /\ work' = [work EXCEPT ![s].conflicts = @ \cup {Disputed(s, x)}]
    BY DEF RecordConflict, Conflicts
  <1>6. Disputed(s, x).batch = call[s].request
    BY DEF Disputed
  <1>7. /\ work'[s].batches = work[s].batches /\ work'[s].prices = work[s].prices
        /\ work'[s].conflicts = work[s].conflicts \cup {Disputed(s, x)}
        /\ \A u \in Session \ {s} : work'[u] = work[u]
    BY <1>5, TypeParts DEF WorkRecord
  <1>8. Tallied(work'[s].prices, call[s].request, call'[s].results, "INSERTED")
    BY <1>2, <1>3, <1>4, <1>7, TalliedStill
  <1>9. Tallied(work'[s].conflicts, call[s].request, call'[s].results, "CONFLICT")
    <2>1. Tallied(work[s].conflicts \cup {Disputed(s, x)}, call[s].request,
                  Append(call[s].results, result), "CONFLICT")
      BY <1>3, <1>4, <1>5, <1>6, TalliedOn
    <2> QED
      BY <1>2, <1>7, <2>1
  <1>10. CallsTallied(s)'
    BY <1>2, <1>4, <1>7, <1>8, <1>9 DEF CallsTallied
  <1>11. Received(call[s].request).request = call[s].request
    BY DEF Received
  <1>12. OwnBatches(s)'
    BY <1>1, <1>4, <1>6, <1>7, <1>11 DEF CountsInv, OwnBatches
  <1> QED
    BY <1>1, <1>2, <1>7, <1>10, <1>12, OpenCounts

LEMMA InsertCounts ==
    ASSUME IInv, CountsInv, NEW s \in Session, Insert(s)
    PROVE  CountsInv'
  <1>0. TypeOK /\ call[s].step = "INSERT" /\ UNCHANGED <<batches, prices, conflicts>>
    BY DEF Insert, IInv
  <1> DEFINE result == Result(s, "INSERTED", call[s].key.instrument)
             row == [key |-> call[s].key, price |-> Stored(Head(call[s].items).price),
                     batch |-> call[s].request]
  <1>1. /\ call[s].results \in Seq(IngestResult) /\ call[s].request \in Request
        /\ Head(call[s].items) \in Row /\ call[s].key.instrument \in Instrument
    BY <1>0, InsertCallType
  <1>2. /\ call'[s].step = "ITEM" /\ call'[s].request = call[s].request
        /\ call'[s].results = Append(call[s].results, result)
        /\ \A u \in Session \ {s} : call'[u] = call[u]
    BY <1>0, <1>1, Advanced DEF Insert
  <1>3. result \in IngestResult /\ result.status = "INSERTED"
    BY <1>1, KeyType DEF Result, IngestResult
  <1>4. row.batch = call[s].request /\ row.key = call[s].key
    OBVIOUS
  <1>5. work' = [work EXCEPT ![s].prices = @ \cup {row}]
    BY DEF Insert
  <1> HIDE DEF result, row
  <1>6. row \notin work[s].prices
    BY <1>0, <1>4 DEF IInv, InsertsNew
  <1>7. /\ work'[s].batches = work[s].batches /\ work'[s].conflicts = work[s].conflicts
        /\ work'[s].prices = work[s].prices \cup {row}
        /\ \A u \in Session \ {s} : work'[u] = work[u]
    BY <1>0, <1>5, TypeParts DEF WorkRecord
  <1>8. /\ Received(call[s].request) \in work[s].batches
        /\ Tallied(work[s].prices, call[s].request, call[s].results, "INSERTED")
        /\ Tallied(work[s].conflicts, call[s].request, call[s].results, "CONFLICT")
    BY <1>0 DEF CountsInv, CallsTallied
  <1>9. Tallied(work'[s].prices, call[s].request, call'[s].results, "INSERTED")
    <2>1. Tallied(work[s].prices \cup {row}, call[s].request, Append(call[s].results, result), "INSERTED")
      BY <1>1, <1>3, <1>4, <1>6, <1>8, TalliedOn
    <2> QED
      BY <1>2, <1>7, <2>1
  <1>10. Tallied(work'[s].conflicts, call[s].request, call'[s].results, "CONFLICT")
    BY <1>1, <1>2, <1>3, <1>7, <1>8, TalliedStill
  <1>11. CallsTallied(s)'
    BY <1>2, <1>7, <1>8, <1>9, <1>10 DEF CallsTallied
  <1>12. Received(call[s].request).request = call[s].request
    BY DEF Received
  <1>13. OwnBatches(s)'
    BY <1>0, <1>4, <1>7, <1>8, <1>12 DEF CountsInv, OwnBatches
  <1> QED
    BY <1>0, <1>2, <1>7, <1>11, <1>13, OpenCounts

\* What CountsTrue says of a batch.
Counted(b, seen, refused) ==
    IF b.status = "RECEIVED" THEN b = Received(b.request)
    ELSE /\ b.inserted = Cardinality(BatchRows(seen, b.request))
         /\ b.conflict = Cardinality(BatchRows(refused, b.request))
         /\ b.conflict > 0 <=> b.status = "COMPLETED_WITH_CONFLICTS"

LEMMA CountsAre ==
    CountsTrue <=>
        /\ \A b \in batches : Counted(b, prices, conflicts)
        /\ \A x \in prices \cup conflicts : \E b \in batches : b.request = x.batch
  BY DEF CountsTrue, Counted, BatchRows

LEMMA CompleteCounts ==
    ASSUME TypeOK, CountsInv, NEW s \in Session, Complete(s)
    PROVE  CountsInv'
  <1> DEFINE r == call[s].request
             done == Completed(r, call[s].results)
  <1>1. /\ call'[s] = NoCall /\ work'[s] = NoWork
        /\ \A u \in Session \ {s} : call'[u] = call[u] /\ work'[u] = work[u]
    BY TypeParts DEF Complete
  <1>2. /\ batches' = ((batches \cup work[s].batches) \ {Received(r)}) \cup {done}
        /\ prices' = prices \cup work[s].prices /\ conflicts' = conflicts \cup work[s].conflicts
    BY DEF Complete, Batches, Kept, Prices, Conflicts
  <1>3. call[s].step = "ITEM"
    BY DEF Complete
  <1>4. /\ Received(r) \in work[s].batches
        /\ Tallied(work[s].prices, r, call[s].results, "INSERTED")
        /\ Tallied(work[s].conflicts, r, call[s].results, "CONFLICT")
    BY <1>3 DEF CountsInv, CallsTallied
  <1>5. Received(r).request = r /\ done.request = r
    BY DEF Received, Completed
  <1>6. /\ \A b \in work[s].batches : b = Received(b.request)
        /\ \A x \in work[s].prices \cup work[s].conflicts : \E b \in work[s].batches : b.request = x.batch
        /\ \A b \in work[s].batches, c \in batches : c.request # b.request
        /\ \A b \in work[s].batches, u \in Session \ {s} : \A c \in work[u].batches : c.request # b.request
    BY DEF CountsInv, OwnBatches
  <1>7. /\ \A b \in batches : Counted(b, prices, conflicts)
        /\ \A x \in prices \cup conflicts : \E b \in batches : b.request = x.batch
    BY CountsAre DEF CountsInv
  <1>8. Counted(done, prices', conflicts')
    <2>1. \A x \in prices \cup conflicts : x.batch # r
      BY <1>4, <1>5, <1>6, <1>7
    <2>2. /\ BatchRows(work[s].prices \cup prices, r) = BatchRows(work[s].prices, r)
          /\ BatchRows(work[s].conflicts \cup conflicts, r) = BatchRows(work[s].conflicts, r)
      BY <2>1 DEF BatchRows
    <2>3. /\ BatchRows(prices', r) = BatchRows(work[s].prices, r)
          /\ BatchRows(conflicts', r) = BatchRows(work[s].conflicts, r)
      <3>1. prices' = work[s].prices \cup prices /\ conflicts' = work[s].conflicts \cup conflicts
        BY <1>2
      <3> QED
        BY <2>2, <3>1
    <2>4. /\ Cardinality(BatchRows(prices', r)) = Count(call[s].results, "INSERTED")
          /\ Cardinality(BatchRows(conflicts', r)) = Count(call[s].results, "CONFLICT")
      BY <1>4, <2>3 DEF Tallied
    <2> QED
      BY <1>5, <2>4 DEF Counted, Completed
  <1> HIDE DEF r, done
  <1>9. ASSUME NEW b \in batches PROVE Counted(b, prices', conflicts')
    <2>1. \A x \in work[s].prices \cup work[s].conflicts : x.batch # b.request
      BY <1>6
    <2>2. /\ BatchRows(prices \cup work[s].prices, b.request) = BatchRows(prices, b.request)
          /\ BatchRows(conflicts \cup work[s].conflicts, b.request) = BatchRows(conflicts, b.request)
      BY <2>1 DEF BatchRows
    <2>3. /\ BatchRows(prices', b.request) = BatchRows(prices, b.request)
          /\ BatchRows(conflicts', b.request) = BatchRows(conflicts, b.request)
      BY <1>2, <2>2
    <2> QED
      BY <1>7, <2>3 DEF Counted
  <1>10. ASSUME NEW b \in work[s].batches PROVE Counted(b, prices', conflicts')
    <2>1. b = Received(b.request)
      BY <1>6
    <2>2. b.status = "RECEIVED"
      BY <2>1 DEF Received
    <2> QED
      BY <2>1, <2>2 DEF Counted
  <1>11. \A b \in batches' : Counted(b, prices', conflicts')
    BY <1>2, <1>8, <1>9, <1>10
  <1>12. ASSUME NEW x \in prices' \cup conflicts' PROVE \E b \in batches' : b.request = x.batch
    <2>1. PICK b \in batches \cup work[s].batches : b.request = x.batch
      BY <1>2, <1>6, <1>7
    <2>2. CASE b = Received(r)
      BY <1>2, <1>5, <2>1, <2>2
    <2>3. CASE b # Received(r)
      BY <1>2, <2>1, <2>3
    <2> QED
      BY <2>2, <2>3
  <1>13. CountsTrue'
    BY <1>11, <1>12 DEF CountsTrue, Counted, BatchRows
  <1>14. OwnBatches(s)' /\ CallsTallied(s)'
    BY <1>1 DEF OwnBatches, CallsTallied, NoWork, NoCall
  <1>15. ASSUME NEW u \in Session \ {s} PROVE OwnBatches(u)' /\ CallsTallied(u)'
    <2>1. \A b \in work[u].batches, c \in batches' : c.request # b.request
      BY <1>2, <1>4, <1>5, <1>6 DEF CountsInv, OwnBatches
    <2>2. OwnBatches(u)'
      BY <1>1, <2>1 DEF CountsInv, OwnBatches, NoWork
    <2>3. CallsTallied(u)'
      BY <1>1 DEF CountsInv, CallsTallied
    <2> QED
      BY <2>2, <2>3
  <1> QED
    BY <1>13, <1>14, <1>15 DEF CountsInv

LEMMA CountsStep ==
    ASSUME IInv, CountsInv, [Next]_vars
    PROVE  CountsInv'
  <1>0. TypeOK
    BY DEF IInv
  <1>1. CASE UNCHANGED vars
    <2>1. CountsTrue'
      BY <1>1 DEF vars, CountsInv, CountsTrue
    <2>2. ASSUME NEW s \in Session PROVE OwnBatches(s)' /\ CallsTallied(s)'
      BY <1>1 DEF vars, CountsInv, OwnBatches, CallsTallied
    <2> QED
      BY <2>1, <2>2 DEF CountsInv
  <1>2. ASSUME NEW s \in Session, IngestRow(s) PROVE CountsInv'
    BY <1>0, <1>2, RefuseRowCounts, DuplicateCounts, RecordConflictCounts, LookupPriceCounts,
       InsertCounts, UndoCounts
    DEF IngestRow, FlushFails
  <1> QED
    BY <1>0, <1>1, <1>2, LookupBatchCounts, OpenStepCounts, UndoCounts, CompleteCounts
    DEF Next, AbortedByDeadlock, Rollback

\* A completed batch counts its own rows and says whether it has conflicts, a
\* row belongs to a batch that is there, and an unfinished batch claims
\* nothing, whatever failed calls left in the sessions and whoever committed
\* it (ingest and _batch_result of market_data/service.py).
THEOREM CountsAreTrue == Spec => []CountsTrue
  <1>1. Init => CountsInv
    BY DEF Init, CountsInv, CountsTrue, OwnBatches, CallsTallied, NoWork, NoCall
  <1>2. IInv /\ CountsInv /\ [Next]_vars => CountsInv'
    BY CountsStep
  <1>3. CountsInv => CountsTrue
    BY DEF CountsInv
  <1> QED
    BY <1>1, <1>2, <1>3, Invariance, PTL DEF Spec
=============================================================================
