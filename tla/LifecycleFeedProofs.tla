------------------------- MODULE LifecycleFeedProofs -------------------------
(***************************************************************************)
(* Theorems about LifecycleFeed, for every set of orders and connections   *)
(* and every page size: the feed lists an order's revisions in order, and  *)
(* a device misses nothing but what another order's change has overtaken.  *)
(***************************************************************************)
EXTENDS LifecycleFeed, InductionLemmas, TLAPS

\* What the proofs may assume of the constants and the lifecycle tables.
LEMMA Tables ==
  /\ MaxRevision \in Nat /\ MaxRollbacks \in Nat /\ PageSize \in Nat \ {0}
  /\ LifecycleKind \subseteq Kind
  /\ \A k \in LifecycleKind : ToStatus[k] \in Status
  /\ "ACTIVE" \in Status
BY RevisionAssumption, FeedAssumption DEF LifecycleKind, Kind, Status, ToStatus

\* An open transaction is typed, and two of them never share an order.
LEMMA OpenTypes ==
  ASSUME TypeOK
  PROVE  /\ \A t \in Busy : /\ t \in Transaction
                            /\ open[t] \in Change
                            /\ open[t].order \in Order /\ open[t].kind \in LifecycleKind
                            /\ open[t].seq \in Nat
         /\ \A r \in feed : r.seq \in Nat /\ r.order \in Order /\ r.rev \in Nat
         /\ \A o \in Order : canon[o].rev \in Nat
         /\ \A o \in OwnOrder : local[o].rev \in Nat
<1>1. \A t \in Busy : t \in Transaction
                   /\ open[t] \in Change
  BY DEF TypeOK, Busy, Idle
<1>2. \A r \in feed : r \in Row
  BY DEF TypeOK
<1> QED
  BY <1>1, <1>2, Tables, FeedAssumption DEF TypeOK, Row, Revision, Change

\* A page's rows of one order have a newest one, if there are any.
LEMMA NewestRow ==
  ASSUME TypeOK, NEW o \in OwnOrder, News(o) # {}
  PROVE  \E r \in News(o) : \A q \in News(o) : q.rev <= r.rev
<1> DEFINE revs == {n.rev : n \in News(o)}
<1>1. \A n \in News(o) : n.rev \in 0 .. MaxRevision
  BY DEF News, TypeOK, Revision
<1>2. revs \in SUBSET (0 .. MaxRevision) /\ revs # {} /\ MaxRevision \in Nat
  BY <1>1, Tables
<1>3. PICK x \in revs : \A y \in revs : y <= x
  BY <1>2, Largest
<1> QED
  BY <1>3

\* Applying a page leaves an order alone, or takes it to the newest of its rows.
LEMMA ApplyOrder ==
  ASSUME TypeOK, Apply, NEW o \in OwnOrder
  PROVE  /\ local'[o] \in [status : Status, rev : Revision]
         /\ local[o].rev <= local'[o].rev
         /\ \A p \in page.rows : p.order = o => p.rev <= local'[o].rev
<1> DEFINE newest == CHOOSE r \in News(o) : \A q \in News(o) : q.rev <= r.rev
<1>0. local[o] \in [status : Status, rev : Revision] /\ local[o].rev \in Nat
  BY Tables DEF TypeOK, Revision
<1>1. \A p \in page.rows : p.rev \in Revision /\ p.rev \in Nat /\ p.status \in Status
  BY Tables DEF TypeOK, Revision
<1>2. local'[o] = IF News(o) = {} THEN local[o]
                  ELSE [status |-> newest.status, rev |-> newest.rev]
  BY DEF Apply
<1>3. CASE News(o) = {}
  BY <1>0, <1>1, <1>2, <1>3 DEF News
<1>4. CASE News(o) # {}
  <2>1. newest \in News(o) /\ \A q \in News(o) : q.rev <= newest.rev
    BY <1>4, NewestRow
  <2> HIDE DEF newest
  <2>2. /\ newest.rev \in Revision /\ newest.rev \in Nat /\ newest.status \in Status
        /\ newest.rev > local[o].rev
    BY <1>1, <2>1 DEF News
  <2>3. local'[o] = [status |-> newest.status, rev |-> newest.rev]
    BY <1>2, <1>4
  <2>4. \A p \in page.rows : p.order = o => p \in News(o) \/ p.rev <= local[o].rev
    BY <1>0, <1>1 DEF News
  <2> QED
    BY <1>0, <1>1, <2>1, <2>2, <2>3, <2>4
<1> QED
  BY <1>3, <1>4

-----------------------------------------------------------------------------
(* The row lock. *)

\* The device's steps leave the server alone.
LEMMA DeviceRowInv ==
  ASSUME RowInv, Pull \/ Apply \/ LosePage
  PROVE  RowInv'
<1>1. UNCHANGED <<canon, open, sequence, rollbacks, feed, overtaken>>
  BY DEF Pull, Apply, LosePage, serverVars
<1>2. Busy' = Busy
  BY <1>1 DEF Busy, Idle
<1>3. local' \in [OwnOrder -> [status : Status, rev : Revision]] /\ cursor' \in Nat
  <2>1. CASE Apply
    <3>1. \A o \in OwnOrder : local'[o] \in [status : Status, rev : Revision]
      BY <2>1, ApplyOrder DEF RowInv
    <3> QED
      BY <2>1, <3>1 DEF Apply, RowInv, TypeOK
  <2>2. CASE Pull \/ LosePage
    BY <2>2 DEF Pull, LosePage, RowInv, TypeOK
  <2> QED
    BY <2>1, <2>2
<1>4. page' \in [rows : SUBSET [order : Order, rev : Revision, status : Status], next : Nat]
  <2>1. CASE Pull
    <3>1. PICK rows \in SUBSET After :
            \E last \in rows : page' = [rows |-> Fetched(rows), next |-> last.seq]
      BY <2>1 DEF Pull
    <3>5. PICK last \in rows : page' = [rows |-> Fetched(rows), next |-> last.seq]
      BY <3>1
    <3>2. \A r \in rows : r \in Row
      BY DEF RowInv, TypeOK, After
    <3>3. Fetched(rows) \subseteq [order : Order, rev : Revision, status : Status]
      BY <3>2 DEF Fetched, Row, RowInv, TypeOK
    <3>4. last.seq \in Nat
      BY <3>2 DEF Row
    <3> QED
      BY <3>5, <3>3, <3>4
  <2>2. CASE Apply \/ LosePage
    BY <2>2 DEF Apply, LosePage, NoPage
  <2> QED
    BY <2>1, <2>2
<1> QED
  BY <1>1, <1>2, <1>3, <1>4 DEF RowInv, TypeOK, RowLockInv, RevisionsFollowSequence

\* Begin: the order was free, and its transaction has drawn no number yet.
LEMMA BeginRowInv ==
  ASSUME RowInv, NEW t \in Transaction, NEW x \in Change, Begin(t, x)
  PROVE  RowInv'
<1> DEFINE o == x.order
<1>1. /\ UNCHANGED <<canon, sequence, rollbacks, feed, overtaken, local, cursor, page>>
      /\ open' = [open EXCEPT ![t] = x] /\ Idle(t)
      /\ canon[o].rev < MaxRevision /\ x.seq = 0
      /\ \A u \in Busy : open[u].order # o
  BY DEF Begin, Start, OrderFree, deviceVars
<1>2. x # NoTransaction
  BY FeedAssumption
<1>3. TypeOK'
  BY <1>1, <1>2 DEF RowInv, TypeOK
<1>4. /\ Busy' = Busy \cup {t} /\ t \notin Busy
      /\ open'[t] = x /\ \A u \in Busy : open'[u] = open[u]
  BY <1>1, <1>2 DEF Busy, Idle, RowInv, TypeOK
<1>5. RowLockInv'
  <2>1. \A u, v \in Busy' : open'[u].order = open'[v].order => u = v
    BY <1>1, <1>4 DEF RowInv, RowLockInv
  <2>2. \A u \in Busy' : canon'[open'[u].order].rev < MaxRevision
    BY <1>1, <1>4 DEF RowInv, RowLockInv
  <2>3. \A u \in Busy' : open'[u].seq <= sequence'
    BY <1>1, <1>4 DEF RowInv, RowLockInv, TypeOK
  <2>4. \A u \in Busy', r \in feed' :
          open'[u].seq > 0 /\ r.order = open'[u].order => r.seq < open'[u].seq
    BY <1>1, <1>4 DEF RowInv, RowLockInv
  <2> QED
    BY <1>1, <2>1, <2>2, <2>3, <2>4 DEF RowInv, RowLockInv
<1> QED
  BY <1>1, <1>3, <1>5 DEF RowInv, RevisionsFollowSequence

\* Capture: the number drawn is above every number published.
LEMMA CaptureRowInv ==
  ASSUME RowInv, NEW t \in Transaction, Capture(t)
  PROVE  RowInv'
<1>1. /\ UNCHANGED <<canon, rollbacks, feed, overtaken, local, cursor, page>>
      /\ t \in Busy /\ sequence' = sequence + 1
      /\ open' = [open EXCEPT ![t].seq = sequence + 1]
  BY DEF Capture, deviceVars, Busy
<1>2. sequence \in Nat
  BY DEF RowInv, TypeOK
<1>3. open[t] \in Change
  BY <1>1, OpenTypes DEF RowInv
<1>4. /\ open'[t] \in Change
      /\ open'[t].order = open[t].order /\ open'[t].seq = sequence + 1
      /\ \A u \in Transaction : u # t => open'[u] = open[u]
  BY <1>1, <1>2, <1>3 DEF RowInv, TypeOK, Change
<1>5. TypeOK'
  <2>1. open' \in [Transaction ->
                    Change \cup {NoTransaction}]
    BY <1>1, <1>4 DEF RowInv, TypeOK
  <2> QED
    BY <1>1, <1>2, <2>1 DEF RowInv, TypeOK
<1>6. open'[t] # NoTransaction
  BY <1>4, FeedAssumption
<1>7. Busy' = Busy
  BY <1>1, <1>4, <1>6 DEF Busy, Idle
<1>8. RowLockInv'
  <2>1. \A u \in Busy : open'[u].order = open[u].order
    BY <1>4 DEF Busy
  <2>2. \A u, v \in Busy' : open'[u].order = open'[v].order => u = v
    BY <1>7, <2>1 DEF RowInv, RowLockInv
  <2>3. \A u \in Busy' : canon'[open'[u].order].rev < MaxRevision
    BY <1>1, <1>7, <2>1 DEF RowInv, RowLockInv
  <2>4. \A u \in Busy' : open'[u].seq <= sequence'
    <3>1. \A u \in Busy : u # t => open'[u].seq <= sequence /\ open'[u].seq \in Nat
      BY <1>4, OpenTypes DEF RowInv, RowLockInv
    <3> QED
      BY <1>1, <1>2, <1>4, <1>7, <3>1
  <2>5. \A r \in feed : r.seq <= sequence' /\ r.seq < sequence + 1
    BY <1>1, <1>2, OpenTypes DEF RowInv, RowLockInv
  <2>6. \A u \in Busy', r \in feed' :
          open'[u].seq > 0 /\ r.order = open'[u].order => r.seq < open'[u].seq
    BY <1>1, <1>4, <1>7, <2>1, <2>5 DEF RowInv, RowLockInv, Busy
  <2> QED
    BY <1>1, <2>2, <2>3, <2>4, <2>5, <2>6 DEF RowInv, RowLockInv
<1> QED
  BY <1>1, <1>5, <1>8 DEF RowInv, RevisionsFollowSequence

\* A transaction ends: the others are as they were.
LEMMA OthersStay ==
  ASSUME TypeOK, NEW t \in Transaction, ~Idle(t),
         open' = [open EXCEPT ![t] = NoTransaction]
  PROVE  /\ t \in Busy /\ Busy' = Busy \ {t}
         /\ \A u \in Busy' : open'[u] = open[u]
         /\ open' \in [Transaction ->
                        Change \cup {NoTransaction}]
BY DEF TypeOK, Busy, Idle

LEMMA RollbackRowInv ==
  ASSUME RowInv, NEW t \in Transaction, Rollback(t)
  PROVE  RowInv'
<1>1. /\ UNCHANGED <<canon, sequence, feed, overtaken, local, cursor, page>>
      /\ ~Idle(t) /\ open' = [open EXCEPT ![t] = NoTransaction]
      /\ rollbacks' \in 0 .. MaxRollbacks
  BY Tables DEF Rollback, deviceVars, RowInv, TypeOK
<1>2. /\ Busy' \subseteq Busy /\ \A u \in Busy' : open'[u] = open[u]
      /\ open' \in [Transaction ->
                     Change \cup {NoTransaction}]
  BY <1>1, OthersStay DEF RowInv
<1>3. TypeOK'
  BY <1>1, <1>2 DEF RowInv, TypeOK
<1>4. RowLockInv'
  BY <1>1, <1>2 DEF RowInv, RowLockInv
<1> QED
  BY <1>1, <1>3, <1>4 DEF RowInv, RevisionsFollowSequence

\* Commit: the new row has the order's highest number and its next revision.
LEMMA CommitRowInv ==
  ASSUME RowInv, NEW t \in Transaction, Commit(t)
  PROVE  RowInv'
<1> DEFINE x == open[t]
           o == x.order
           n == [seq |-> x.seq, order |-> o, rev |-> canon[o].rev + 1]
<1>1. /\ UNCHANGED <<sequence, rollbacks, local, cursor, page>>
      /\ ~Idle(t) /\ x.seq > 0 /\ open' = [open EXCEPT ![t] = NoTransaction]
      /\ canon' = [canon EXCEPT ![o] = Entered(x.kind, canon[o].rev + 1)]
      /\ feed' = feed \cup {n} /\ overtaken' \in {overtaken, overtaken \cup {n}}
  BY DEF Commit, Listed, deviceVars
<1>2. /\ t \in Busy /\ Busy' = Busy \ {t} /\ \A u \in Busy' : open'[u] = open[u]
      /\ open' \in [Transaction ->
                     Change \cup {NoTransaction}]
  BY <1>1, OthersStay DEF RowInv
<1>3. /\ o \in Order /\ x.kind \in LifecycleKind /\ x.seq \in Nat
      /\ canon[o].rev \in Nat /\ canon[o].rev < MaxRevision
  BY <1>2, OpenTypes DEF RowInv, RowLockInv
<1>4. canon[o].rev + 1 \in Revision /\ n \in Row
  BY <1>3, Tables DEF Revision, Row
<1>5. Entered(x.kind, canon[o].rev + 1) \in [status : Status, rev : Revision]
  BY <1>3, <1>4, Tables DEF Entered
<1>6. TypeOK'
  <2>1. canon' \in [Order -> [status : Status, rev : Revision]]
    BY <1>1, <1>5 DEF RowInv, TypeOK
  <2> QED
    BY <1>1, <1>2, <1>4, <2>1 DEF RowInv, TypeOK
<1>7. /\ canon'[o].rev = canon[o].rev + 1
      /\ \A p \in Order : p # o => canon'[p] = canon[p]
  BY <1>1, <1>3 DEF Entered, RowInv, TypeOK
<1>8. \A r \in feed : r.order = o => r.seq < n.seq /\ r.rev < n.rev
  <2>1. \A r \in feed : r.order = o => r.seq < x.seq
    BY <1>1, <1>2 DEF RowInv, RowLockInv
  <2>2. \A r \in feed : r.order = o => r.rev <= canon[o].rev /\ r.rev \in Nat
    BY OpenTypes DEF RowInv, RowLockInv
  <2> QED
    BY <1>3, <2>1, <2>2
<1>9. RowLockInv'
  <2>1. \A u \in Busy' : open'[u].order # o /\ open'[u].order \in Order
    BY <1>2, OpenTypes DEF RowInv, RowLockInv
  <2>2. \A u, v \in Busy' : open'[u].order = open'[v].order => u = v
    BY <1>2 DEF RowInv, RowLockInv
  <2>3. \A u \in Busy' : canon'[open'[u].order].rev < MaxRevision
    BY <1>2, <1>7, <2>1 DEF RowInv, RowLockInv
  <2>4. \A u \in Busy' : open'[u].seq <= sequence'
    BY <1>1, <1>2 DEF RowInv, RowLockInv
  <2>5. \A r \in feed' : r.seq <= sequence'
    BY <1>1, <1>2 DEF RowInv, RowLockInv
  <2>6. \A r \in feed' : r.rev <= canon'[r.order].rev
    <3>1. \A r \in feed : r.rev <= canon[r.order].rev /\ r.rev \in Nat /\ r.order \in Order
      BY OpenTypes DEF RowInv, RowLockInv
    <3> QED
      BY <1>1, <1>3, <1>7, <1>8, <3>1
  <2>7. \A u \in Busy', r \in feed' :
          open'[u].seq > 0 /\ r.order = open'[u].order => r.seq < open'[u].seq
    BY <1>1, <1>2, <2>1 DEF RowInv, RowLockInv
  <2> QED
    BY <2>2, <2>3, <2>4, <2>5, <2>6, <2>7 DEF RowLockInv
<1>10. RevisionsFollowSequence'
  <2>1. \A r, q \in feed : r.order = q.order => (r.seq < q.seq <=> r.rev < q.rev)
    BY DEF RowInv, RevisionsFollowSequence
  <2>2. \A r \in feed : r.order = o => /\ (r.seq < n.seq <=> r.rev < n.rev)
                                       /\ (n.seq < r.seq <=> n.rev < r.rev)
    <3>1. \A r \in feed : r.seq \in Nat /\ r.rev \in Nat
      BY OpenTypes DEF RowInv
    <3>2. n.seq \in Nat /\ n.rev \in Nat
      BY <1>3
    <3> HIDE DEF n
    <3> QED
      BY <1>8, <3>1, <3>2
  <2>3. ~(n.seq < n.seq) /\ ~(n.rev < n.rev) /\ n.order = o
    BY <1>3
  <2> HIDE DEF n
  <2> QED
    BY <1>1, <2>1, <2>2, <2>3 DEF RevisionsFollowSequence
<1> QED
  BY <1>6, <1>9, <1>10 DEF RowInv

\* The row lock's invariant is inductive.
LEMMA NextRowInv == RowInv /\ [Next]_vars => RowInv'
<1> SUFFICES ASSUME RowInv, [Next]_vars PROVE RowInv'
  OBVIOUS
<1>1. ASSUME NEW t \in Transaction, NEW x \in Change, Begin(t, x)
      PROVE  RowInv'
  BY <1>1, BeginRowInv
<1>2. ASSUME NEW t \in Transaction, Capture(t) \/ Commit(t) \/ Rollback(t) PROVE RowInv'
  BY <1>2, CaptureRowInv, CommitRowInv, RollbackRowInv
<1>3. CASE Pull \/ Apply \/ LosePage
  BY <1>3, DeviceRowInv
<1>4. CASE UNCHANGED vars
  <2>1. UNCHANGED <<canon, open, sequence, rollbacks, feed, overtaken, local, cursor, page>>
    BY <1>4 DEF vars, serverVars, deviceVars
  <2>2. Busy' = Busy
    BY <2>1 DEF Busy, Idle
  <2> QED
    BY <2>1, <2>2 DEF RowInv, TypeOK, RowLockInv, RevisionsFollowSequence
<1> QED
  BY <1>1, <1>2, <1>3, <1>4 DEF Next, Change

\* It holds at the start.
LEMMA InitRowInv == Init => RowInv
<1> SUFFICES ASSUME Init PROVE RowInv
  OBVIOUS
<1>1. Placed \in [status : Status, rev : Revision]
  BY Tables DEF Placed, Revision
<1>2. TypeOK
  BY <1>1, Tables DEF Init, TypeOK, NoPage
<1>3. Busy = {} /\ feed = {}
  BY DEF Init, Busy, Idle
<1> QED
  BY <1>2, <1>3 DEF RowInv, RowLockInv, RevisionsFollowSequence

\* In every reachable state the types hold and the row lock keeps an order's
\* transactions apart.
THEOREM FeedInvariance == Spec => []RowInv
<1>1. Init => RowInv
  BY InitRowInv
<1>2. RowInv /\ [Next]_vars => RowInv'
  BY NextRowInv
<1> QED
  BY <1>1, <1>2, PTL DEF Spec

-----------------------------------------------------------------------------
(* The device's snapshots. *)

\* What the device takes from a page came from one of its rows.
LEMMA ApplyTakesARow ==
  ASSUME TypeOK, Apply, NEW o \in OwnOrder
  PROVE  \/ local'[o] = local[o]
         \/ \E p \in page.rows : /\ p.order = o /\ local'[o].rev = p.rev
                                 /\ local'[o].status = p.status
<1> DEFINE newest == CHOOSE r \in News(o) : \A q \in News(o) : q.rev <= r.rev
<1>1. local'[o] = IF News(o) = {} THEN local[o]
                  ELSE [status |-> newest.status, rev |-> newest.rev]
  BY DEF Apply
<1>2. News(o) # {} => newest \in News(o)
  BY NewestRow
<1> HIDE DEF newest
<1> QED
  BY <1>1, <1>2 DEF News

\* A change at the server leaves every snapshot behind it, and lists itself.
LEMMA CommitSnapshots ==
  ASSUME RowInv, SnapshotInv, NEW t \in Transaction, Commit(t)
  PROVE  SnapshotInv'
<1> DEFINE o == open[t].order
           n == [seq |-> open[t].seq, order |-> o, rev |-> canon[o].rev + 1]
<1>1. /\ UNCHANGED <<local, page>> /\ feed' = feed \cup {n}
      /\ canon' = [canon EXCEPT ![o] = Entered(open[t].kind, canon[o].rev + 1)]
      /\ t \in Busy
  BY DEF Commit, Listed, deviceVars, Busy
<1>2. o \in Order /\ canon[o].rev \in Nat
  BY <1>1, OpenTypes DEF RowInv
<1>3. /\ canon'[o].rev = canon[o].rev + 1
      /\ \A x \in Order : x # o => canon'[x] = canon[x]
  BY <1>1, <1>2 DEF Entered, RowInv, TypeOK
<1>4. n.order = o /\ n.rev = canon[o].rev + 1 /\ n \in feed'
  BY <1>1
<1> HIDE DEF n, o
<1>5. \A x \in Order : canon'[x].rev > 0 => \E r \in feed' : r.order = x /\ r.rev = canon'[x].rev
  BY <1>1, <1>3, <1>4 DEF SnapshotInv
<1>6. ASSUME NEW x \in Order, NEW y, y.rev \in Nat, Behind(x, y)
      PROVE  Behind(x, y)'
  <2>1. CASE x = o
    BY <1>2, <1>3, <1>6, <2>1 DEF Behind
  <2>2. CASE x # o
    BY <1>3, <1>6, <2>2 DEF Behind
  <2> QED
    BY <2>1, <2>2
<1>7. \A x \in OwnOrder : Behind(x, local[x])'
  <2> SUFFICES ASSUME NEW x \in OwnOrder PROVE Behind(x, local[x])'
    OBVIOUS
  <2>1. local'[x] = local[x] /\ local[x].rev \in Nat /\ x \in Order /\ Behind(x, local[x])
    BY <1>1, OpenTypes, FeedAssumption DEF RowInv, SnapshotInv
  <2>2. \A y : y = local[x] => y.rev \in Nat /\ Behind(x, y)
    BY <2>1
  <2> QED
    BY <1>6, <2>1, <2>2 DEF Behind
<1>8. \A p \in page.rows : Behind(p.order, p)'
  <2> SUFFICES ASSUME NEW p \in page.rows PROVE Behind(p.order, p)'
    OBVIOUS
  <2>1. p.order \in Order /\ p.rev \in Nat
    BY Tables DEF RowInv, TypeOK, Revision
  <2> QED
    BY <1>6, <2>1 DEF SnapshotInv
<1> QED
  BY <1>1, <1>5, <1>7, <1>8 DEF SnapshotInv

\* A row read now is behind its order: of an older revision, or of this one and
\* then with its status.
LEMMA PullSnapshots ==
  ASSUME RowInv, SnapshotInv, Pull
  PROVE  SnapshotInv'
<1>1. UNCHANGED <<canon, feed, local>>
  BY DEF Pull, serverVars
<1>2. PICK rows \in SUBSET After : page'.rows = Fetched(rows)
  BY DEF Pull
<1>3. \A p \in page'.rows : Behind(p.order, p)
  <2> SUFFICES ASSUME NEW p \in page'.rows PROVE Behind(p.order, p)
    OBVIOUS
  <2>1. PICK r \in rows : p = [order |-> r.order, rev |-> r.rev, status |-> canon[r.order].status]
    BY <1>2 DEF Fetched
  <2>2. r.rev <= canon[r.order].rev
    BY DEF After, RowInv, RowLockInv
  <2> QED
    BY <2>1, <2>2 DEF Behind
<1> QED
  BY <1>1, <1>3 DEF SnapshotInv, Behind

\* The device's snapshot stays, or becomes one from the page.
LEMMA ApplySnapshots ==
  ASSUME RowInv, SnapshotInv, Apply
  PROVE  SnapshotInv'
<1>1. UNCHANGED <<canon, feed>> /\ page'.rows = {}
  BY DEF Apply, serverVars, NoPage
<1>2. \A o \in OwnOrder : Behind(o, local'[o])
  <2> SUFFICES ASSUME NEW o \in OwnOrder PROVE Behind(o, local'[o])
    OBVIOUS
  <2> QED
    BY ApplyTakesARow DEF RowInv, SnapshotInv, Behind
<1> QED
  BY <1>1, <1>2 DEF SnapshotInv, Behind

\* On any number of connections the feed lists the last revision of every
\* order, and no snapshot of the device is ahead of the server or differs from
\* it at the same revision.
THEOREM SnapshotsAreCanonical == Spec => []SnapshotInv
<1>1. Init => SnapshotInv
  <2> SUFFICES ASSUME Init PROVE SnapshotInv
    OBVIOUS
  <2>1. /\ \A o \in Order : canon[o] = Placed
        /\ \A o \in OwnOrder : o \in Order /\ local[o] = Placed
        /\ page.rows = {} /\ Placed.rev = 0
    BY FeedAssumption DEF Init, NoPage, Placed
  <2> QED
    BY <2>1 DEF SnapshotInv, Behind
<1>2. RowInv /\ SnapshotInv /\ [Next]_vars => SnapshotInv'
  <2> SUFFICES ASSUME RowInv, SnapshotInv, [Next]_vars PROVE SnapshotInv'
    OBVIOUS
  <2>1. ASSUME NEW t \in Transaction, Commit(t) PROVE SnapshotInv'
    BY <2>1, CommitSnapshots
  <2>2. CASE Pull \/ Apply
    BY <2>2, PullSnapshots, ApplySnapshots
  <2>3. ASSUME UNCHANGED <<canon, feed, local>>, page' = page \/ page' = NoPage
        PROVE  SnapshotInv'
    BY <2>3 DEF SnapshotInv, Behind, NoPage
  <2>4. ASSUME NEW t \in Transaction,
               Capture(t) \/ Rollback(t) \/ \E x \in Change : Begin(t, x)
        PROVE  SnapshotInv'
    BY <2>3, <2>4 DEF Capture, Rollback, Begin, Start, deviceVars
  <2>5. CASE LosePage \/ UNCHANGED vars
    BY <2>3, <2>5 DEF LosePage, vars, serverVars, deviceVars
  <2> QED
    BY <2>1, <2>2, <2>4, <2>5 DEF Next, Change
<1> QED
  BY <1>1, <1>2, FeedInvariance, PTL DEF Spec

-----------------------------------------------------------------------------
(* The sequence numbers. *)

LEMMA CaptureNumbers ==
  ASSUME RowInv, NumbersInv, NEW t \in Transaction, Capture(t)
  PROVE  NumbersInv'
<1>1. /\ t \in Busy /\ feed' = feed
      /\ open' = [open EXCEPT ![t].seq = sequence + 1]
  BY DEF Capture, Busy
<1>2. open[t] \in Change
  BY <1>1, OpenTypes DEF RowInv
<1>3. /\ open'[t].seq = sequence + 1
      /\ \A u \in Transaction : u # t => open'[u] = open[u]
  BY <1>1, <1>2 DEF RowInv, TypeOK, Change
<1>4. sequence \in Nat
  BY DEF RowInv, TypeOK
<1>5. \A u \in Busy' : u # t => u \in Busy /\ open'[u].seq \in Nat /\ open'[u].seq <= sequence
  <2> TAKE u \in Busy'
  <2> HAVE u # t
  <2>1. u \in Busy /\ open'[u] = open[u]
    BY <1>3 DEF Busy, Idle
  <2> QED
    BY <2>1, OpenTypes DEF RowInv, RowLockInv
<1>6. \A r \in feed : r.seq \in Nat /\ r.seq <= sequence
  BY OpenTypes DEF RowInv, RowLockInv
<1>7. \A u, v \in Busy' : open'[u].seq > 0 /\ open'[u].seq = open'[v].seq => u = v
  <2> SUFFICES ASSUME NEW u \in Busy', NEW v \in Busy',
                      open'[u].seq > 0, open'[u].seq = open'[v].seq, u # v
               PROVE  FALSE
    OBVIOUS
  <2>1. CASE u = t \/ v = t
    BY <1>3, <1>4, <1>5, <2>1
  <2>2. CASE u # t /\ v # t
    <3>1. open'[u] = open[u] /\ open'[v] = open[v] /\ u \in Busy /\ v \in Busy
      BY <1>3, <1>5, <2>2 DEF Busy
    <3> QED
      BY <3>1 DEF NumbersInv
  <2> QED
    BY <2>1, <2>2
<1>8. \A u \in Busy', r \in feed' : open'[u].seq > 0 => r.seq # open'[u].seq
  <2> TAKE u \in Busy', r \in feed'
  <2> HAVE open'[u].seq > 0
  <2>1. CASE u = t
    BY <1>1, <1>3, <1>4, <1>6, <2>1
  <2>2. CASE u # t
    <3>1. open'[u] = open[u] /\ u \in Busy
      BY <1>3, <1>5, <2>2 DEF Busy
    <3> QED
      BY <1>1, <3>1 DEF NumbersInv
  <2> QED
    BY <2>1, <2>2
<1> QED
  BY <1>1, <1>7, <1>8 DEF NumbersInv

LEMMA CommitNumbers ==
  ASSUME RowInv, NumbersInv, NEW t \in Transaction, Commit(t)
  PROVE  NumbersInv'
<1> DEFINE x == open[t]
           n == Listed(x, canon[x.order].rev + 1)
<1>1. /\ ~Idle(t) /\ x.seq > 0 /\ feed' = feed \cup {n} /\ n.seq = x.seq
      /\ open' = [open EXCEPT ![t] = NoTransaction]
  BY DEF Commit, Listed
<1>2. /\ t \in Busy /\ Busy' = Busy \ {t} /\ \A u \in Busy' : open'[u] = open[u]
  BY <1>1, OthersStay DEF RowInv
<1> HIDE DEF n
<1>3. \A r \in feed : r.seq # n.seq
  BY <1>1, <1>2 DEF NumbersInv
<1>4. \A u \in Busy' : open'[u].seq > 0 => open'[u].seq # n.seq
  BY <1>1, <1>2 DEF NumbersInv
<1> QED
  BY <1>1, <1>2, <1>3, <1>4 DEF NumbersInv

\* The numbers of the transactions that begin, fail or stay.
LEMMA NextNumbers == RowInv /\ NumbersInv /\ [Next]_vars => NumbersInv'
<1> SUFFICES ASSUME RowInv, NumbersInv, [Next]_vars PROVE NumbersInv'
  OBVIOUS
<1>1. ASSUME NEW t \in Transaction, NEW x \in Change, Begin(t, x) PROVE NumbersInv'
  <2>1. feed' = feed /\ open' = [open EXCEPT ![t] = x] /\ x.seq = 0
    BY <1>1 DEF Begin, Start
  <2>2. open'[t].seq = 0 /\ \A u \in Transaction : u # t => open'[u] = open[u]
    BY <2>1 DEF RowInv, TypeOK
  <2>3. \A u \in Busy' : open'[u].seq > 0 => u \in Busy /\ open'[u] = open[u]
    BY <2>2 DEF Busy, Idle
  <2> QED
    BY <2>1, <2>3 DEF NumbersInv
<1>2. ASSUME NEW t \in Transaction, Capture(t) \/ Commit(t) PROVE NumbersInv'
  BY <1>2, CaptureNumbers, CommitNumbers
<1>3. ASSUME NEW t \in Transaction, Rollback(t) PROVE NumbersInv'
  <2>1. /\ feed' = feed /\ ~Idle(t)
        /\ open' = [open EXCEPT ![t] = NoTransaction]
    BY <1>3 DEF Rollback
  <2>2. Busy' = Busy \ {t} /\ \A u \in Busy' : open'[u] = open[u]
    BY <2>1, OthersStay DEF RowInv
  <2> QED
    BY <2>1, <2>2 DEF NumbersInv
<1>4. CASE UNCHANGED <<open, feed>>
  BY <1>4 DEF NumbersInv, Busy, Idle
<1> QED
  BY <1>1, <1>2, <1>3, <1>4 DEF Next, Change, Pull, Apply, LosePage, vars, serverVars

-----------------------------------------------------------------------------
(* What the cursor has passed. *)

LEMMA BeginGapFree ==
  ASSUME GapFree, NEW t \in Transaction, NEW x \in Change,
         Begin(t, x) \/ Capture(t) \/ Rollback(t)
  PROVE  PagingInv' /\ NoCanonicalChangeIsSkipped'
<1>1. UNCHANGED <<feed, overtaken, local, cursor, page>>
  BY DEF Begin, Start, Capture, Rollback, deviceVars
<1> QED
  BY <1>1 DEF GapFree, PagingInv, NoCanonicalChangeIsSkipped

\* Commit: what is published is above the cursor and above any page pulled, or
\* it is overtaken: the cursor is the number of a published row, which is not of
\* the same order if it is the larger.
LEMMA CommitGapFree ==
  ASSUME GapFree, NEW t \in Transaction, Commit(t)
  PROVE  PagingInv' /\ NoCanonicalChangeIsSkipped'
<1> DEFINE x == open[t]
           n == Listed(x, canon[x.order].rev + 1)
<1>1. /\ UNCHANGED <<local, cursor, page>> /\ feed' = feed \cup {n}
      /\ overtaken' = IF Overtaken(x) THEN overtaken \cup {n} ELSE overtaken
      /\ ~Idle(t) /\ x.seq > 0 /\ n.seq = x.seq
  BY DEF Commit, Listed, deviceVars
<1>2. t \in Busy /\ x.seq \in Nat
  BY <1>1, OpenTypes DEF Busy, GapFree, RowInv
<1>3. cursor \in Nat /\ page.next \in Nat
  BY DEF GapFree, RowInv, TypeOK
<1> HIDE DEF n
<1>4. ASSUME NEW m \in {cursor, page.next}, x.seq <= m
      PROVE  n \in overtaken'
  <2>1. m # 0
    BY <1>1, <1>2, <1>3, <1>4
  <2>2. PICK q \in feed : q.seq = m
    BY <2>1 DEF GapFree, PagingInv
  <2>3. q.seq # x.seq
    BY <1>1, <1>2 DEF GapFree, NumbersInv
  <2>4. q.seq > x.seq
    BY <1>2, <1>3, <1>4, <2>2, <2>3
  <2>5. q.order # x.order
    <3>1. q.order = x.order => q.seq < x.seq
      BY <1>1, <1>2 DEF GapFree, RowInv, RowLockInv
    <3> QED
      BY <1>2, <1>3, <2>2, <2>4, <3>1
  <2> QED
    BY <1>1, <2>4, <2>5 DEF Overtaken
<1>5. \A r \in feed' \ overtaken' : r \in feed \ overtaken \/ r = n
  BY <1>1
<1>6. PagingInv'
  <2>1. \A m \in {cursor, page.next} : m = 0 \/ \E r \in feed' : r.seq = m
    BY <1>1 DEF GapFree, PagingInv
  <2>2. page # NoPage =>
          \A r \in feed' \ overtaken' : (cursor < r.seq /\ r.seq <= page.next) =>
            \E p \in page.rows : p.order = r.order /\ p.rev = r.rev
    BY <1>1, <1>4, <1>5 DEF GapFree, PagingInv
  <2> QED
    BY <1>1, <2>1, <2>2 DEF PagingInv
<1>7. NoCanonicalChangeIsSkipped'
  BY <1>1, <1>4, <1>5 DEF GapFree, NoCanonicalChangeIsSkipped
<1> QED
  BY <1>6, <1>7

\* Pull: the page holds every row up to its next cursor.
LEMMA PullGapFree ==
  ASSUME GapFree, Pull
  PROVE  PagingInv' /\ NoCanonicalChangeIsSkipped'
<1>1. UNCHANGED <<feed, overtaken, local, cursor>>
  BY DEF Pull, serverVars
<1>2. PICK rows \in SUBSET After :
        /\ IsFirst(rows, PageSize)
        /\ \E last \in rows : /\ \A r \in rows : r.seq <= last.seq
                              /\ page' = [rows |-> Fetched(rows), next |-> last.seq]
  BY DEF Pull
<1>3. PICK last \in rows : page' = [rows |-> Fetched(rows), next |-> last.seq]
  BY <1>2
<1>4. last \in feed
  BY DEF After
<1>5. \A r \in feed : (cursor < r.seq /\ r.seq <= last.seq) => 
        \E p \in Fetched(rows) : p.order = r.order /\ p.rev = r.rev
  <2> SUFFICES ASSUME NEW r \in feed, cursor < r.seq, r.seq <= last.seq
               PROVE  \E p \in Fetched(rows) : p.order = r.order /\ p.rev = r.rev
    OBVIOUS
  <2>1. r \in After /\ r.seq \in Nat /\ last.seq \in Nat /\ cursor \in Nat
    BY <1>4, OpenTypes DEF After, GapFree, RowInv, TypeOK
  <2>2. r \in rows
    <3>1. CASE r.seq < last.seq
      BY <1>2, <2>1, <3>1 DEF IsFirst
    <3>2. CASE r.seq = last.seq
      BY <1>4, <3>2 DEF GapFree, NumbersInv
    <3> QED
      BY <2>1, <3>1, <3>2
  <2> DEFINE p == [order |-> r.order, rev |-> r.rev, status |-> canon[r.order].status]
  <2>3. p \in Fetched(rows) /\ p.order = r.order /\ p.rev = r.rev
    BY <2>2 DEF Fetched
  <2> HIDE DEF p
  <2> QED
    BY <2>3
<1>6. PagingInv'
  BY <1>1, <1>3, <1>4, <1>5 DEF GapFree, PagingInv
<1>7. NoCanonicalChangeIsSkipped'
  BY <1>1 DEF GapFree, NoCanonicalChangeIsSkipped
<1> QED
  BY <1>6, <1>7

LEMMA ApplyGapFree ==
  ASSUME GapFree, Apply
  PROVE  PagingInv' /\ NoCanonicalChangeIsSkipped'
<1>1. RowInv'
  BY DeviceRowInv DEF GapFree
<1>2. /\ UNCHANGED <<feed, overtaken>> /\ page # NoPage
      /\ cursor' = page.next /\ page' = NoPage
  BY DEF Apply, serverVars
<1>3. PagingInv'
  BY <1>2 DEF GapFree, PagingInv, NoPage
<1>4. NoCanonicalChangeIsSkipped'
  <2> SUFFICES ASSUME NEW r \in feed \ overtaken, r.order \in OwnOrder, r.seq <= page.next
               PROVE  local'[r.order].rev >= r.rev
    BY <1>2 DEF NoCanonicalChangeIsSkipped
  <2>1. /\ r.order \in Order /\ r.rev \in Nat /\ r.seq \in Nat /\ cursor \in Nat
        /\ local[r.order].rev \in Nat /\ local'[r.order].rev \in Nat
    BY <1>1, OpenTypes, Tables DEF GapFree, RowInv, TypeOK, Revision
  <2>2. CASE r.seq <= cursor
    <3>1. local[r.order].rev <= local'[r.order].rev
      BY <2>1, ApplyOrder DEF GapFree, RowInv
    <3>2. local[r.order].rev >= r.rev
      BY <2>2 DEF GapFree, NoCanonicalChangeIsSkipped
    <3> QED
      BY <2>1, <3>1, <3>2
  <2>3. CASE cursor < r.seq
    <3>1. PICK p \in page.rows : p.order = r.order /\ p.rev = r.rev
      BY <1>2, <2>3 DEF GapFree, PagingInv
    <3>2. p.rev <= local'[r.order].rev
      BY <2>1, <3>1, ApplyOrder DEF GapFree, RowInv
    <3> QED
      BY <2>1, <3>1, <3>2
  <2> QED
    BY <2>1, <2>2, <2>3
<1> QED
  BY <1>3, <1>4

\* Losing a page, and doing nothing.
LEMMA LoseGapFree ==
  ASSUME GapFree, LosePage \/ UNCHANGED vars
  PROVE  PagingInv' /\ NoCanonicalChangeIsSkipped'
<1>1. /\ UNCHANGED <<feed, overtaken, local, cursor>>
      /\ page' = NoPage \/ page' = page
  BY DEF LosePage, vars, serverVars, deviceVars
<1> QED
  BY <1>1 DEF GapFree, PagingInv, NoCanonicalChangeIsSkipped, NoPage

-----------------------------------------------------------------------------
(* The theorems. *)

\* The feed's sequence numbers list the revisions of each order in order,
\* although transactions on different orders overlap.
THEOREM FeedIsMonotonic == Spec => []RevisionsFollowSequence
<1>1. RowInv => RevisionsFollowSequence
  BY DEF RowInv
<1> QED
  BY <1>1, FeedInvariance, PTL

\* The feed is gap-free but for what is overtaken, with any number of
\* transactions open: paging, lost pages, failed transactions and the device's
\* filter never let the cursor pass another change the device lacks.
THEOREM GapFreeInvariance == Spec => []GapFree
<1>1. Init => GapFree
  <2> SUFFICES ASSUME Init PROVE GapFree
    OBVIOUS
  <2>1. feed = {} /\ page = NoPage /\ cursor = 0 /\ Busy = {}
    BY DEF Init, Busy, Idle
  <2> QED
    BY <2>1, InitRowInv
    DEF GapFree, NumbersInv, PagingInv, NoCanonicalChangeIsSkipped, NoPage
<1>2. GapFree /\ [Next]_vars => GapFree'
  <2> SUFFICES ASSUME GapFree, [Next]_vars PROVE GapFree'
    OBVIOUS
  <2>1. RowInv' /\ NumbersInv'
    BY NextRowInv, NextNumbers DEF GapFree
  <2>2. ASSUME NEW t \in Transaction, NEW x \in Change,
               Begin(t, x) \/ Capture(t) \/ Rollback(t)
        PROVE  GapFree'
    BY <2>1, <2>2, BeginGapFree DEF GapFree
  <2>3. ASSUME NEW t \in Transaction, Capture(t) \/ Rollback(t) PROVE GapFree'
    <3>1. open[t] \in Change
      BY <2>3, OpenTypes DEF Capture, Rollback, Busy, GapFree, RowInv
    <3> QED
      BY <2>2, <2>3, <3>1
  <2>4. ASSUME NEW t \in Transaction, Commit(t) PROVE GapFree'
    BY <2>1, <2>4, CommitGapFree DEF GapFree
  <2>5. CASE Pull \/ Apply \/ LosePage \/ UNCHANGED vars
    BY <2>1, <2>5, PullGapFree, ApplyGapFree, LoseGapFree DEF GapFree
  <2> QED
    BY <2>2, <2>3, <2>4, <2>5 DEF Next, Change
<1> QED
  BY <1>1, <1>2, PTL DEF Spec

\* So a number published behind a larger one of another order, as in feed_gap,
\* is the only way to lose a change: nothing else lets the cursor pass one.
THEOREM OnlyOvertakenIsSkipped == Spec => []NoCanonicalChangeIsSkipped
<1>1. GapFree => NoCanonicalChangeIsSkipped
  BY DEF GapFree
<1> QED
  BY <1>1, GapFreeInvariance, PTL

\* And a device that has pulled everything agrees with the server on every
\* order of its own the last change of which was not overtaken.
THEOREM CaughtUpAgrees == Spec => []CaughtUpDeviceAgrees
<1>1. ASSUME RowInv, SnapshotInv, NoCanonicalChangeIsSkipped
      PROVE  CaughtUpDeviceAgrees
  <2> SUFFICES ASSUME \A r \in feed : r.seq <= cursor, NEW o \in OwnOrder,
                      ~LastIsOvertaken(o)
               PROVE  local[o] = canon[o]
    BY DEF CaughtUpDeviceAgrees
  <2>1. /\ o \in Order
        /\ local[o] \in [status : Status, rev : Revision]
        /\ canon[o] \in [status : Status, rev : Revision]
        /\ local[o].rev \in Nat /\ canon[o].rev \in Nat
    BY <1>1, OpenTypes, FeedAssumption DEF RowInv, TypeOK
  <2>2. canon[o].rev <= local[o].rev
    <3>1. CASE canon[o].rev = 0
      BY <2>1, <3>1
    <3>2. CASE canon[o].rev > 0
      <4>1. PICK r \in feed : r.order = o /\ r.rev = canon[o].rev
        BY <1>1, <2>1, <3>2 DEF SnapshotInv
      <4> QED
        BY <1>1, <2>1, <4>1 DEF NoCanonicalChangeIsSkipped, LastIsOvertaken
    <3> QED
      BY <2>1, <3>1, <3>2
  <2>3. local[o].rev = canon[o].rev /\ local[o].status = canon[o].status
    BY <1>1, <2>1, <2>2 DEF SnapshotInv, Behind
  <2> QED
    BY <2>1, <2>3
<1> QED
  BY <1>1, FeedInvariance, SnapshotsAreCanonical, OnlyOvertakenIsSkipped, PTL
=============================================================================
