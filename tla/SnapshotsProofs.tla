-------------------------- MODULE SnapshotsProofs --------------------------
(***************************************************************************)
(* Proofs about Snapshots, for every set of facts and sessions and every   *)
(* bound on the revisions.                                                 *)
(***************************************************************************)
EXTENDS Snapshots, TLAPS

-----------------------------------------------------------------------------
(* Rows and their supersession.                                            *)

\* Rows that form one chain whose last revision is CURRENT.
Ordered(rows) ==
    /\ \A p, q \in rows : p.revision = q.revision => p = q
    /\ \A p \in rows :
         /\ p.revision = p.supersedes + 1
         /\ p.supersedes = 0 \/ \E q \in rows : q.revision = p.supersedes
    /\ \A p \in rows : p.status = "CURRENT" <=> \A q \in rows : q.revision <= p.revision
    /\ rows # {} => \E p \in rows : p.status = "CURRENT"

\* Row p when the revisions in R are superseded.
Marked(p, R) == IF p.revision \in R THEN [p EXCEPT !.status = "SUPERSEDED"] ELSE p

LEMMA MarkedRow ==
    ASSUME NEW p \in Snapshot, NEW R
    PROVE  /\ Marked(p, R) \in Snapshot
           /\ Marked(p, R).revision = p.revision
           /\ Marked(p, R).supersedes = p.supersedes
           /\ Marked(p, R).input = p.input
           /\ Marked(p, R).status = IF p.revision \in R THEN "SUPERSEDED" ELSE p.status
  BY DEF Marked, Snapshot

LEMMA SupersededRows ==
    ASSUME NEW rows, NEW R
    PROVE  Superseded(rows, R) = {Marked(p, R) : p \in rows}
  BY DEF Superseded, Marked

LEMMA NothingSuperseded ==
    ASSUME NEW rows
    PROVE  Superseded(rows, {}) = rows
  BY DEF Superseded

\* The rows a session sees are rows, and each stands for one that was written.
LEMMA VisibleRows ==
    ASSUME TypeOK, NEW s \in Session
    PROVE  /\ Visible(s) = {Marked(p, work[s].superseded) : p \in snapshots \cup work[s].created}
           /\ Visible(s) \subseteq Snapshot
  <1>1. Visible(s) = {Marked(p, work[s].superseded) : p \in snapshots \cup work[s].created}
    BY SupersededRows DEF Visible
  <1>2. snapshots \cup work[s].created \subseteq Snapshot
    BY DEF TypeOK
  <1> QED
    BY <1>1, <1>2, MarkedRow

\* A chain whose last revision is c, or an empty one if c is 0, stays a chain
\* when c is superseded and its successor added.
LEMMA Extended ==
    ASSUME NEW rows \in SUBSET Snapshot, Ordered(rows),
           NEW c \in Nat,
           \A p \in rows : p.revision # c + 1 /\ (p.status = "CURRENT" => p.revision = c),
           c = 0 \/ \E p \in rows : p.revision = c,
           NEW new \in Snapshot,
           new.revision = c + 1, new.supersedes = c, new.status = "CURRENT"
    PROVE  Ordered({Marked(p, {c}) : p \in rows} \cup {new})
  <1> DEFINE next == {Marked(p, {c}) : p \in rows} \cup {new}
  <1>1. \A p \in rows : Marked(p, {c}).revision = p.revision
    BY MarkedRow
  <1>2. \A p \in rows : Marked(p, {c}).supersedes = p.supersedes
    BY MarkedRow
  <1>3. \A p \in rows : p.revision \in Nat /\ p.revision <= c
    BY DEF Ordered, Snapshot
  <1>4. \A p \in rows : Marked(p, {c}).status # "CURRENT"
    BY MarkedRow
  <1>5. /\ \A p \in next : p = new \/ \E q \in rows : p = Marked(q, {c})
        /\ \A p \in rows : Marked(p, {c}) \in next
        /\ new \in next
    OBVIOUS
  <1> HIDE DEF next
  <1>6. ASSUME NEW p \in next, NEW q \in next, p.revision = q.revision PROVE p = q
    <2>1. CASE p = new /\ q = new
      BY <2>1
    <2>2. ASSUME NEW m \in rows, p = Marked(m, {c}), q = new PROVE FALSE
      BY <1>1, <1>6, <2>2
    <2>3. ASSUME NEW n \in rows, q = Marked(n, {c}), p = new PROVE FALSE
      BY <1>1, <1>6, <2>3
    <2>4. ASSUME NEW m \in rows, NEW n \in rows, p = Marked(m, {c}), q = Marked(n, {c})
          PROVE  p = q
      <3>1. m.revision = n.revision
        BY <1>1, <1>6, <2>4
      <3>2. m = n
        BY <3>1 DEF Ordered
      <3> QED
        BY <2>4, <3>2
    <2> QED
      BY <1>5, <2>1, <2>2, <2>3, <2>4
  <1>7. ASSUME NEW p \in next
        PROVE  /\ p.revision = p.supersedes + 1
               /\ p.supersedes = 0 \/ \E q \in next : q.revision = p.supersedes
    <2>1. CASE p = new
      <3>1. ASSUME NEW m \in rows, m.revision = c PROVE \E q \in next : q.revision = c
        BY <1>1, <1>5, <3>1
      <3> QED
        BY <2>1, <3>1
    <2>2. ASSUME NEW m \in rows, p = Marked(m, {c})
          PROVE  /\ p.revision = p.supersedes + 1
                 /\ p.supersedes = 0 \/ \E q \in next : q.revision = p.supersedes
      <3>1. p.revision = m.revision /\ p.supersedes = m.supersedes
        BY <1>1, <1>2, <2>2
      <3>2. m.revision = m.supersedes + 1
        BY DEF Ordered
      <3>3. ASSUME NEW n \in rows, n.revision = m.supersedes
            PROVE  \E q \in next : q.revision = m.supersedes
        <4>1. Marked(n, {c}) \in next /\ Marked(n, {c}).revision = m.supersedes
          BY <1>1, <1>5, <3>3
        <4> QED
          BY ONLY <4>1
      <3>4. m.supersedes = 0 \/ \E n \in rows : n.revision = m.supersedes
        BY DEF Ordered
      <3>5. m.supersedes = 0 \/ \E q \in next : q.revision = m.supersedes
        BY ONLY <3>3, <3>4
      <3>6. /\ m.revision = m.supersedes + 1
            /\ m.supersedes = 0 \/ \E q \in next : q.revision = m.supersedes
        BY ONLY <3>2, <3>5
      <3> QED
        BY ONLY <3>1, <3>6
    <2> QED
      BY <1>5, <2>1, <2>2
  <1>8. ASSUME NEW p \in next
        PROVE  p.status = "CURRENT" <=> \A q \in next : q.revision <= p.revision
    <2>1. CASE p = new
      <3>1. ASSUME NEW q \in next PROVE q.revision <= c + 1
        <4>1. ASSUME NEW m \in rows, q.revision = m.revision PROVE q.revision <= c + 1
          BY <1>3, <4>1
        <4>2. CASE q = new
          BY <4>2
        <4>3. ASSUME NEW m \in rows, q = Marked(m, {c}) PROVE q.revision <= c + 1
          <5>1. q.revision = m.revision
            BY <1>1, <4>3
          <5> QED
            BY <4>1, <5>1
        <4> QED
          BY <1>5, <4>2, <4>3
      <3> QED
        BY <2>1, <3>1
    <2>2. ASSUME NEW m \in rows, p = Marked(m, {c})
          PROVE  p.status # "CURRENT" /\ ~ (new.revision <= p.revision)
      <3>1. p.revision = m.revision
        BY <1>1, <2>2
      <3>2. ~ (c + 1 <= m.revision)
        BY <1>3
      <3> QED
        BY <1>4, <2>2, <3>1, <3>2
    <2> QED
      BY <1>5, <2>1, <2>2
  <1>9. Ordered(next)
    BY <1>5, <1>6, <1>7, <1>8 DEF Ordered
  <1> QED
    BY <1>9 DEF next

-----------------------------------------------------------------------------
(* The inductive invariant.                                                *)

\* What is committed is one chain, and so is what each session sees.
ChainSeen == Ordered(snapshots) /\ \A s \in Session : Ordered(Visible(s))

\* One session at a time has revisions that are not committed, and what it
\* superseded is there.
OneWriter ==
    /\ \A s, u \in Session : s # u => work[s].created = {} \/ work[u].created = {}
    /\ \A s \in Session :
         /\ \A p \in work[s].created : p.status = "CURRENT"
         /\ work[s].created = {} => work[s].superseded = {}
         /\ work[s].superseded \subseteq {p.revision : p \in snapshots \cup work[s].created}

\* Revisions are made of facts their session sees, committed ones of
\* committed facts.
InputsThere ==
    /\ \A p \in snapshots : DOMAIN p.input \subseteq ledger
    /\ \A s \in Session :
         /\ \A p \in work[s].created : DOMAIN p.input \subseteq VisibleFacts(s)
         /\ call[s] # NoCall => DOMAIN call[s].input \subseteq VisibleFacts(s)

\* The row a call is about to supersede is there.
PriorThere ==
    \A s \in Session : call[s] # NoCall =>
        call[s].current = 0 \/ \E p \in snapshots \cup work[s].created : p.revision = call[s].current

IInv ==
    /\ TypeOK
    /\ ChainSeen
    /\ OneWriter
    /\ InputsThere
    /\ PriorThere

-----------------------------------------------------------------------------
(* The invariant is inductive.                                             *)

LEMMA RenderedInput ==
    ASSUME NEW s \in Session, NEW F \in SUBSET Fact
    PROVE  Rendered(s, F) \in Inputs /\ DOMAIN Rendered(s, F) = F
  <1>1. Rendered(s, F) \in [F -> {"GIVEN", "STORED"}]
    BY DEF Rendered
  <1> QED
    BY <1>1 DEF Inputs

LEMMA NextRow ==
    ASSUME NEW input \in Inputs, NEW c \in Nat
    PROVE  /\ NextRevision(input, c) \in Snapshot
           /\ NextRevision(input, c).revision = c + 1
           /\ NextRevision(input, c).supersedes = c
           /\ NextRevision(input, c).status = "CURRENT"
           /\ NextRevision(input, c).input = input
  BY DEF NextRevision, Snapshot

LEMMA Initially == Init => IInv
  <1> SUFFICES ASSUME Init PROVE IInv
    OBVIOUS
  <1>1. TypeOK
    BY DEF Init, TypeOK, NoWork
  <1>2. ChainSeen
    <2>1. Ordered({})
      BY DEF Ordered
    <2>2. \A s \in Session : Visible(s) = {}
      BY NothingSuperseded DEF Init, Visible, NoWork
    <2> QED
      BY <2>1, <2>2 DEF ChainSeen, Init
  <1>3. OneWriter /\ InputsThere /\ PriorThere
    BY DEF Init, OneWriter, InputsThere, PriorThere, NoWork
  <1> QED
    BY <1>1, <1>2, <1>3 DEF IInv

LEMMA TypeStep == TypeOK /\ [Next]_vars => TypeOK'
  <1> SUFFICES ASSUME TypeOK, [Next]_vars PROVE TypeOK'
    OBVIOUS
  <1> USE DEF TypeOK
  <1>1. ASSUME NEW s \in Session, NEW f \in Fact, Post(s, f) PROVE TypeOK'
    BY <1>1 DEF Post
  <1>2. ASSUME NEW s \in Session, NEW f \in Fact, Release(s, f) PROVE TypeOK'
    BY <1>2 DEF Release
  <1>3. ASSUME NEW s \in Session, ReadLedger(s) PROVE TypeOK'
    <2>1. Rendered(s, VisibleFacts(s)) \in Inputs
      BY RenderedInput DEF VisibleFacts
    <2> QED
      BY <1>3, <2>1 DEF ReadLedger
  <1>4. ASSUME NEW s \in Session, Reuse(s) PROVE TypeOK'
    BY <1>4 DEF Reuse
  <1>5. ASSUME NEW s \in Session, ReadCurrent(s) PROVE TypeOK'
    <2>1. call[s] \in [step : {"READ", "FLUSH"}, input : Inputs, current : Nat]
      BY <1>5 DEF ReadCurrent, NoCall
    <2>2. \A p \in Current(s) : p.revision \in Nat
      BY VisibleRows DEF Current, Snapshot
    <2>3. PICK n \in Nat : call' = [call EXCEPT ![s].step = "FLUSH", ![s].current = n]
      <3>1. CASE call' = [call EXCEPT ![s].step = "FLUSH"]
        <4>1. call' = [call EXCEPT ![s].step = "FLUSH", ![s].current = call[s].current]
          BY <2>1, <3>1
        <4> QED
          BY <2>1, <4>1
      <3>2. CASE \E p \in Current(s) :
                   call' = [call EXCEPT ![s].step = "FLUSH", ![s].current = p.revision]
        BY <2>2, <3>2
      <3> QED
        BY <1>5, <3>1, <3>2 DEF ReadCurrent
    <2> QED
      BY <1>5, <2>1, <2>3 DEF ReadCurrent
  <1>6. ASSUME NEW s \in Session, Flush(s) PROVE TypeOK'
    <2>1. call[s] \in [step : {"READ", "FLUSH"}, input : Inputs, current : Nat]
      BY <1>6 DEF Flush, NoCall
    <2>2. NextRevision(call[s].input, call[s].current) \in Snapshot
      BY <2>1, NextRow
    <2>3. {call[s].current} \ {0} \in SUBSET (Nat \ {0})
      BY <2>1
    <2> QED
      BY <1>6, <2>2, <2>3 DEF Flush, Flushed
  <1>7. ASSUME NEW s \in Session, Undo(s) PROVE TypeOK'
    BY <1>7 DEF Undo, NoWork
  <1>8. ASSUME NEW s \in Session, Commit(s) PROVE TypeOK'
    BY <1>8, VisibleRows DEF Commit, VisibleFacts, NoWork
  <1>9. CASE UNCHANGED vars
    BY <1>9 DEF vars
  <1> QED
    BY <1>1, <1>2, <1>3, <1>4, <1>5, <1>6, <1>7, <1>8, <1>9
    DEF Next, Create, FlushFails, Rollback

\* A step that leaves a session's revisions and the committed ones alone
\* leaves what it sees of them alone.
LEMMA SameView ==
    ASSUME NEW s \in Session, snapshots' = snapshots,
           work'[s].created = work[s].created, work'[s].superseded = work[s].superseded
    PROVE  Visible(s)' = Visible(s)
  BY DEF Visible

\* Steps that write no revision.
LEMMA QuietStep ==
    ASSUME IInv, TypeOK', snapshots' = snapshots, ledger' = ledger,
           \A s \in Session : /\ work'[s].created = work[s].created
                              /\ work'[s].superseded = work[s].superseded
                              /\ work[s].posted \subseteq work'[s].posted,
           InputsThere', PriorThere'
    PROVE  IInv'
  <1>1. ChainSeen'
    BY SameView DEF IInv, ChainSeen
  <1>2. OneWriter'
    BY DEF IInv, OneWriter
  <1> QED
    BY <1>1, <1>2 DEF IInv

LEMMA UndoStep ==
    ASSUME IInv, TypeOK', NEW s \in Session, Undo(s)
    PROVE  IInv'
  <1>1. work'[s] = NoWork /\ \A u \in Session \ {s} : work'[u] = work[u]
    BY DEF Undo, IInv, TypeOK
  <1>2. snapshots' = snapshots /\ ledger' = ledger
    BY DEF Undo
  <1>3. ChainSeen'
    <2>1. Visible(s)' = snapshots
      BY <1>1, <1>2, NothingSuperseded DEF Visible, NoWork
    <2>2. \A u \in Session \ {s} : Visible(u)' = Visible(u)
      BY <1>1, <1>2, SameView
    <2> QED
      BY <1>2, <2>1, <2>2 DEF IInv, ChainSeen
  <1>4. OneWriter'
    BY <1>1, <1>2 DEF IInv, OneWriter, NoWork
  <1>5. call'[s] = NoCall /\ \A u \in Session \ {s} : call'[u] = call[u]
    BY DEF Undo, IInv, TypeOK
  <1>6. InputsThere'
    BY <1>1, <1>2, <1>5 DEF IInv, InputsThere, VisibleFacts, NoWork
  <1>7. PriorThere'
    BY <1>1, <1>2, <1>5 DEF IInv, PriorThere, NoWork
  <1> QED
    BY <1>3, <1>4, <1>6, <1>7 DEF IInv

\* The next revision extends the chain its session sees, and no other session
\* has one that is not committed.
LEMMA FlushStep ==
    ASSUME IInv, TypeOK', NEW s \in Session, Flush(s)
    PROVE  IInv'
  <1> DEFINE c == call[s].current
             new == NextRevision(call[s].input, c)
  <1>1. call[s] \in [step : {"READ", "FLUSH"}, input : Inputs, current : Nat] /\ call[s] # NoCall
    BY DEF Flush, NoCall, IInv, TypeOK
  <1>2. /\ new \in Snapshot /\ new.revision = c + 1 /\ new.supersedes = c
        /\ new.status = "CURRENT" /\ new.input = call[s].input
    BY <1>1, NextRow
  <1>3. /\ work'[s].created = work[s].created \cup {new}
        /\ work'[s].superseded = work[s].superseded \cup ({c} \ {0})
        /\ work'[s].posted = work[s].posted
        /\ \A u \in Session \ {s} : work'[u] = work[u]
    BY DEF Flush, Flushed, IInv, TypeOK
  <1>4. snapshots' = snapshots /\ ledger' = ledger /\ call'[s] = NoCall
        /\ \A u \in Session \ {s} : call'[u] = call[u]
    BY DEF Flush, IInv, TypeOK
  <1>5. \A u \in Session \ {s} : work[u].created = {}
    BY DEF Flush, WaitsFor, IInv, OneWriter
  <1> HIDE DEF c, new
  <1>6. c = 0 \/ \E p \in snapshots \cup work[s].created : p.revision = c
    BY <1>1 DEF IInv, PriorThere, c
  <1>7. \A p \in Visible(s) : p.revision # c + 1 /\ (p.status = "CURRENT" => p.revision = c)
    BY DEF Flush, Violates, c
  <1>8. c \in Nat
    BY <1>1 DEF c
  <1>9. TypeOK /\ snapshots \cup work[s].created \subseteq Snapshot
    BY DEF IInv, TypeOK
  <1> DEFINE old == work[s].superseded
             rows == snapshots \cup work[s].created
  <1>10. Visible(s) = {Marked(p, old) : p \in rows} /\ Visible(s) \subseteq Snapshot
    BY <1>9, VisibleRows
  <1>11. \A p \in rows : p \in Snapshot /\ p.revision \in Nat \ {0} /\ Marked(p, old) \in Visible(s)
                          /\ Marked(p, old).revision = p.revision
    BY <1>9, <1>10, MarkedRow DEF Snapshot
  <1>12. c + 1 \notin old
    BY <1>7, <1>11 DEF IInv, OneWriter
  <1>13. Visible(s)' = {Marked(p, {c}) : p \in Visible(s)} \cup {new}
    <2>1. Visible(s)' = {Marked(p, old \cup ({c} \ {0})) : p \in rows \cup {new}}
      BY <1>3, <1>4, SupersededRows DEF Visible
    <2>2. Marked(new, old \cup ({c} \ {0})) = new
      BY <1>2, <1>8, <1>12 DEF Marked
    <2>3. \A p \in rows : Marked(p, old \cup ({c} \ {0})) = Marked(Marked(p, old), {c})
      BY <1>11 DEF Marked, Snapshot
    <2> DEFINE all == old \cup ({c} \ {0})
    <2> HIDE DEF all, rows, old
    <2>4. Visible(s)' = {Marked(p, all) : p \in rows \cup {new}}
      BY <2>1 DEF all
    <2>5. ASSUME NEW r \in Visible(s)' PROVE r \in {Marked(p, {c}) : p \in Visible(s)} \cup {new}
      <3>1. PICK p \in rows \cup {new} : r = Marked(p, all)
        BY <2>4
      <3>2. CASE p \in rows
        BY <1>10, <2>3, <3>1, <3>2 DEF all
      <3>3. CASE p = new
        BY <2>2, <3>1, <3>3 DEF all
      <3> QED
        BY <3>1, <3>2, <3>3
    <2>6. new \in Visible(s)'
      BY <2>2, <2>4 DEF all
    <2>7. ASSUME NEW q \in Visible(s) PROVE Marked(q, {c}) \in Visible(s)'
      <3>1. PICK p \in rows : q = Marked(p, old)
        BY <1>10
      <3>2. Marked(q, {c}) = Marked(p, all)
        BY <2>3, <3>1 DEF all
      <3> QED
        BY <2>4, <3>2
    <2> QED
      BY <2>5, <2>6, <2>7
  <1>14. ChainSeen'
    <2>1. Ordered(Visible(s))
      BY DEF IInv, ChainSeen
    <2>2. c = 0 \/ \E p \in Visible(s) : p.revision = c
      BY <1>6, <1>11
    <2> DEFINE seen == Visible(s)
               longer == {Marked(p, {c}) : p \in seen} \cup {new}
    <2>3. Ordered(longer)
      <3>1. seen \in SUBSET Snapshot
        BY <1>10
      <3>2. \A p \in seen : p.revision # c + 1 /\ (p.status = "CURRENT" => p.revision = c)
        BY <1>7
      <3> HIDE DEF old, rows, seen
      <3>3. Ordered(seen) /\ (c = 0 \/ \E p \in seen : p.revision = c)
        BY <2>1, <2>2 DEF seen
      <3> QED
        BY <1>2, <1>8, <3>1, <3>2, <3>3, Extended
    <2> HIDE DEF old, rows, longer
    <2>4. Visible(s)' = longer
      BY <1>13 DEF longer
    <2>5. \A u \in Session \ {s} : Visible(u)' = Visible(u)
      BY <1>3, <1>4, SameView
    <2> QED
      BY <1>4, <2>3, <2>4, <2>5 DEF IInv, ChainSeen
  <1>15. OneWriter'
    BY <1>2, <1>3, <1>4, <1>5, <1>6 DEF IInv, OneWriter
  <1>16. InputsThere'
    BY <1>1, <1>2, <1>3, <1>4 DEF IInv, InputsThere, VisibleFacts
  <1>17. PriorThere'
    BY <1>3, <1>4 DEF IInv, PriorThere
  <1> QED
    BY <1>14, <1>15, <1>16, <1>17 DEF IInv

\* Without uncommitted revisions a session sees the committed ones.
LEMMA ReaderSeesCommitted ==
    ASSUME OneWriter, NEW s \in Session, work[s].created = {}
    PROVE  Visible(s) = snapshots
  BY NothingSuperseded DEF Visible, OneWriter

LEMMA CommitStep ==
    ASSUME IInv, TypeOK', NEW s \in Session, Commit(s)
    PROVE  IInv'
  <1>1. /\ snapshots' = Visible(s) /\ ledger' = ledger \cup work[s].posted
        /\ work'[s] = NoWork /\ \A u \in Session \ {s} : work'[u] = work[u]
        /\ call' = call /\ call[s] = NoCall
    BY DEF Commit, VisibleFacts, Idle, IInv, TypeOK
  <1>2. Visible(s)' = snapshots'
    BY <1>1, NothingSuperseded DEF Visible, NoWork
  <1>3. \A u \in Session \ {s} : Visible(u)' = snapshots' \/ (Visible(u)' = Visible(u) /\ snapshots' = snapshots)
    <2>1. CASE work[s].created = {}
      <3>1. snapshots' = snapshots
        BY <1>1, <2>1, ReaderSeesCommitted DEF IInv
      <3> QED
        BY <1>1, <3>1, SameView
    <2>2. CASE work[s].created # {}
      <3>1. \A u \in Session \ {s} : work'[u].created = {} /\ work'[u].superseded = {}
        BY <1>1, <2>2 DEF IInv, OneWriter
      <3> QED
        BY <3>1, NothingSuperseded DEF Visible
    <2> QED
      BY <2>1, <2>2
  <1>4. ChainSeen'
    <2>1. Ordered(snapshots')
      BY <1>1 DEF IInv, ChainSeen
    <2> QED
      BY <1>2, <1>3, <2>1 DEF IInv, ChainSeen
  <1>5. \A p \in snapshots \cup work[s].created :
          \E q \in snapshots' : q.revision = p.revision /\ q.input = p.input
    BY <1>1, VisibleRows, MarkedRow DEF IInv, TypeOK
  <1>6. \A q \in snapshots' :
          \E p \in snapshots \cup work[s].created : q.revision = p.revision /\ q.input = p.input
    BY <1>1, VisibleRows, MarkedRow DEF IInv, TypeOK
  <1>7. OneWriter'
    BY <1>1, <1>5 DEF IInv, OneWriter, NoWork
  <1>8. InputsThere'
    BY <1>1, <1>6 DEF IInv, InputsThere, VisibleFacts, NoWork
  <1>9. PriorThere'
    BY <1>1, <1>5 DEF IInv, PriorThere
  <1> QED
    BY <1>4, <1>7, <1>8, <1>9 DEF IInv

LEMMA Inductive == IInv /\ [Next]_vars => IInv'
  <1> SUFFICES ASSUME IInv, [Next]_vars PROVE IInv'
    OBVIOUS
  <1>0. TypeOK /\ TypeOK'
    BY TypeStep DEF IInv
  <1>1. ASSUME NEW s \in Session, NEW f \in Fact, Post(s, f) PROVE IInv'
    <2>1. InputsThere' /\ PriorThere'
      BY <1>0, <1>1 DEF Post, IInv, InputsThere, PriorThere, VisibleFacts, TypeOK
    <2> QED
      BY <1>0, <1>1, <2>1, QuietStep DEF Post, TypeOK
  <1>2. ASSUME NEW s \in Session, NEW f \in Fact, Release(s, f) PROVE IInv'
    <2>1. InputsThere' /\ PriorThere'
      BY <1>2 DEF Release, IInv, InputsThere, PriorThere, VisibleFacts
    <2> QED
      BY <1>0, <1>2, <2>1, QuietStep DEF Release
  <1>3. ASSUME NEW s \in Session, ReadLedger(s) PROVE IInv'
    <2>1. DOMAIN Rendered(s, VisibleFacts(s)) = VisibleFacts(s)
      BY DEF Rendered
    <2>2. /\ call'[s].input = Rendered(s, VisibleFacts(s)) /\ call'[s].current = 0
          /\ \A u \in Session \ {s} : call'[u] = call[u]
          /\ UNCHANGED <<ledger, snapshots, work, held>>
      BY <1>0, <1>3 DEF ReadLedger, TypeOK
    <2>3. InputsThere' /\ PriorThere'
      BY <2>1, <2>2 DEF IInv, InputsThere, PriorThere, VisibleFacts
    <2> QED
      BY <1>0, <2>2, <2>3, QuietStep
  <1>4. ASSUME NEW s \in Session, Reuse(s) PROVE IInv'
    <2>1. InputsThere' /\ PriorThere'
      BY <1>0, <1>4 DEF Reuse, IInv, InputsThere, PriorThere, VisibleFacts, TypeOK
    <2> QED
      BY <1>0, <1>4, <2>1, QuietStep DEF Reuse
  <1>5. ASSUME NEW s \in Session, ReadCurrent(s) PROVE IInv'
    <2>1. call[s] \in [step : {"READ", "FLUSH"}, input : Inputs, current : Nat] /\ call[s] # NoCall
      BY <1>0, <1>5 DEF ReadCurrent, NoCall, TypeOK
    <2>2. /\ call'[s].input = call[s].input
          /\ call'[s].current = call[s].current \/ \E p \in Visible(s) : call'[s].current = p.revision
          /\ \A u \in Session \ {s} : call'[u] = call[u]
          /\ UNCHANGED <<ledger, snapshots, work, held>>
      BY <1>0, <1>5, <2>1 DEF ReadCurrent, TypeOK, Current
    <2>3. \A p \in Visible(s) : \E q \in snapshots \cup work[s].created : q.revision = p.revision
      BY <1>0, VisibleRows, MarkedRow DEF TypeOK
    <2>4. InputsThere' /\ PriorThere'
      BY <2>1, <2>2, <2>3 DEF IInv, InputsThere, PriorThere, VisibleFacts
    <2> QED
      BY <1>0, <2>2, <2>4, QuietStep
  <1>6. ASSUME NEW s \in Session, Flush(s) PROVE IInv'
    BY <1>0, <1>6, FlushStep
  <1>7. ASSUME NEW s \in Session, Undo(s) PROVE IInv'
    BY <1>0, <1>7, UndoStep
  <1>8. ASSUME NEW s \in Session, Commit(s) PROVE IInv'
    BY <1>0, <1>8, CommitStep
  <1>9. CASE UNCHANGED vars
    <2>1. InputsThere' /\ PriorThere'
      BY <1>9 DEF vars, IInv, InputsThere, PriorThere, VisibleFacts
    <2> QED
      BY <1>0, <1>9, <2>1, QuietStep DEF vars
  <1> QED
    BY <1>1, <1>2, <1>3, <1>4, <1>5, <1>6, <1>7, <1>8, <1>9
    DEF Next, Create, FlushFails, Rollback

-----------------------------------------------------------------------------
(* Theorems.                                                               *)

\* The inductive invariant holds in every state, for every set of facts and
\* sessions.
THEOREM Invariance == Spec => []IInv
  BY Initially, Inductive, PTL DEF Spec

\* Every variable keeps its type.
THEOREM TypeCorrect == Spec => []TypeOK
  <1>1. IInv => TypeOK
    BY DEF IInv
  <1> QED
    BY <1>1, Invariance, PTL

\* In every session's view the newest revision, and no other, is CURRENT.
THEOREM CurrentIsOne == Spec => []OneCurrent
  <1>1. IInv => OneCurrent
    BY DEF IInv, ChainSeen, Ordered, OneCurrent
  <1> QED
    BY <1>1, Invariance, PTL

\* The sessions together write one chain of revisions that only grows, each
\* made of committed facts: Snapshots implements SnapshotHistory.
THEOREM HistoryImplemented == Spec => ImplementsHistory
  <1> DEFINE content(p) == [revision |-> p.revision, supersedes |-> p.supersedes, input |-> p.input]
             contents == {content(p) : p \in snapshots}
  <1>1. Init => History!Init
    BY DEF Init, History!Init
  <1>2. ASSUME IInv, IInv', [Next]_vars PROVE [History!Record]_<<ledger, contents>>
    <2>1. CASE ledger' = ledger /\ snapshots' = snapshots
      BY <2>1
    <2>2. ASSUME NEW s \in Session, Commit(s) PROVE History!Record
      <3>1. ledger \subseteq ledger' /\ ledger' \in SUBSET Fact
        BY <1>2, <2>2 DEF Commit, VisibleFacts, IInv, TypeOK
      <3>2. contents \subseteq contents'
        <4>1. \A p \in snapshots : /\ Marked(p, work[s].superseded) \in snapshots'
                                   /\ content(Marked(p, work[s].superseded)) = content(p)
          BY <1>2, <2>2, VisibleRows, MarkedRow DEF Commit, IInv, TypeOK
        <4> QED
          BY <4>1
      <3>3. History!Chained(contents')
        <4>1. Ordered(snapshots')
          BY <1>2 DEF IInv, ChainSeen
        <4>2. ASSUME NEW p \in snapshots', NEW q \in snapshots',
                     content(p).revision = content(q).revision
              PROVE  content(p) = content(q)
          BY <4>1, <4>2 DEF Ordered
        <4>3. ASSUME NEW p \in snapshots'
              PROVE  /\ content(p).revision = content(p).supersedes + 1
                     /\ \/ content(p).supersedes = 0
                        \/ \E q \in snapshots' : content(q).revision = content(p).supersedes
          BY <4>1 DEF Ordered
        <4>4. \A p \in contents' : \E q \in snapshots' : p = content(q)
          OBVIOUS
        <4>5. \A q \in snapshots' : content(q) \in contents'
          OBVIOUS
        <4> HIDE DEF content, contents
        <4> QED
          BY <4>2, <4>3, <4>4, <4>5 DEF History!Chained
      <3>4. History!Replayable(contents', ledger')
        BY <1>2 DEF IInv, InputsThere, History!Replayable
      <3> QED
        BY <3>1, <3>2, <3>3, <3>4 DEF History!Record
    <2>3. (ledger' = ledger /\ snapshots' = snapshots) \/ \E s \in Session : Commit(s)
      BY <1>2 DEF Next, Create, Post, Release, ReadLedger, Reuse, ReadCurrent, Flush, FlushFails,
                  Rollback, Undo, vars
    <2> QED
      BY <2>1, <2>2, <2>3
  <1>3. IInv /\ IInv' /\ [Next]_vars => [History!Record]_<<ledger, contents>>
    BY <1>2
  <1> QED
    BY <1>1, <1>3, Invariance, PTL DEF Spec, ImplementsHistory, History!Spec, History!hvars
=============================================================================
