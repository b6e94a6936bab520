---------------------------- MODULE LifecycleFeed ----------------------------
(***************************************************************************)
(* order_lifecycle_feed seen from inside the database.  A transaction that *)
(* changes an order draws its feed sequence number from an identity column *)
(* while it is open, and its row becomes visible when it commits: numbers  *)
(* are handed out in one order and published in another.  A device of the  *)
(* shop pulls by sequence number.  Workers move the orders of the other    *)
(* devices, the administrator any order; what this device's workers do is  *)
(* in OrderSync.                                                           *)
(***************************************************************************)
EXTENDS OrderLifecycle, FiniteSets

CONSTANTS Transaction,    \* database connections
          OwnOrder,       \* the orders this device placed
          DeliveryOrder,  \* the orders with fulfilment DELIVERY
          PaidOrder,      \* the orders with an allocated payment
          PageSize,       \* rows one pull returns
          MaxRollbacks,   \* bound on transactions that fail
          NoTransaction   \* an idle connection

\* A transaction: who changes which order how, and the number drawn so far.
Change == [order : Order, kind : LifecycleKind, by : {"WORKER", "ADMIN"}, seq : Nat]

ASSUME FeedAssumption ==
  /\ OwnOrder \subseteq Order /\ DeliveryOrder \subseteq Order /\ PaidOrder \subseteq Order
  /\ PageSize \in Nat \ {0} /\ MaxRollbacks \in Nat
  /\ NoTransaction \notin Change

VARIABLES canon,      \* order -> committed row of public.orders
          open,       \* connection -> its open transaction
          sequence,   \* last value of the identity column
          rollbacks,  \* transactions that failed
          feed,       \* committed rows of order_lifecycle_feed
          overtaken,  \* history: rows published behind a larger number of
                      \* another order
          local,      \* own order -> the device's OrderSnapshot
          cursor,     \* the device's lifecycle sync cursor
          page        \* page pulled and not yet applied

serverVars == <<canon, open, sequence, rollbacks, feed, overtaken>>
deviceVars == <<local, cursor, page>>
vars == <<serverVars, deviceVars>>

Placed == [status |-> "ACTIVE", rev |-> 0]
NoPage == [rows |-> {}, next |-> 0]
Row    == [seq : Nat, order : Order, rev : Revision]

Init ==
  /\ canon = [o \in Order |-> Placed] /\ local = [o \in OwnOrder |-> Placed]
  /\ open = [t \in Transaction |-> NoTransaction]
  /\ sequence = 0 /\ rollbacks = 0 /\ feed = {} /\ overtaken = {}
  /\ cursor = 0 /\ page = NoPage

Idle(t) == open[t] = NoTransaction
Busy    == {t \in Transaction : ~Idle(t)}

\* The lock held to the end of the transaction: the order's row.  (Workers'
\* transitions lock the stock they move as well, an admin cancellation finds no
\* reservation row and locks none; stock locks only rule interleavings out.)
OrderFree(o) == \A t \in Busy : open[t].order # o

\* What the administrator may do: cancel, unless a payment is allocated
\* (reject_paid_active_admin_cancellation_v1).
Allowed(x) ==
  IF x.by = "ADMIN" THEN x.kind = "ORDER_CANCELLED" /\ x.order \notin PaidOrder
  ELSE /\ x.order \notin OwnOrder
       /\ x.kind = "DELIVERY_RETURNED" => x.order \in DeliveryOrder

\* The checks of the status and the revision; alone, the mutant of Begin that
\* takes no row lock.
Start(t, x) ==
  /\ Idle(t) /\ Allowed(x) /\ x.seq = 0
  /\ canon[x.order].status = FromStatus[x.kind] /\ canon[x.order].rev < MaxRevision
  /\ open' = [open EXCEPT ![t] = x]
  /\ UNCHANGED <<canon, sequence, rollbacks, feed, overtaken, deviceVars>>

\* cancel_admin_order_v1 or the ingest of a transition.
Begin(t, x) == OrderFree(x.order) /\ Start(t, x)

\* The order_status_events row is inserted and its trigger draws a number.
Capture(t) ==
  /\ ~Idle(t) /\ open[t].seq = 0
  /\ sequence' = sequence + 1
  /\ open' = [open EXCEPT ![t].seq = sequence + 1]
  /\ UNCHANGED <<canon, rollbacks, feed, overtaken, deviceVars>>

\* Mutant of Listed: an administrator's event has no revision, coalesced to 0.
ListedByWorkers(x, r) ==
  [seq |-> x.seq, order |-> x.order, rev |-> IF x.by = "ADMIN" THEN 0 ELSE r]
\* The feed's row of a change to revision r.
Listed(x, r) == [seq |-> x.seq, order |-> x.order, rev |-> r]

\* A larger number of another order is published already.
Overtaken(x) == \E q \in feed : q.order # x.order /\ q.seq > x.seq

Commit(t) ==
  LET x == open[t]
      r == canon[x.order].rev + 1
  IN /\ ~Idle(t) /\ x.seq > 0
     /\ canon' = [canon EXCEPT ![x.order] = Entered(x.kind, r)]
     /\ feed' = feed \cup {Listed(x, r)}
     /\ overtaken' = IF Overtaken(x) THEN overtaken \cup {Listed(x, r)} ELSE overtaken
     /\ open' = [open EXCEPT ![t] = NoTransaction]
     /\ UNCHANGED <<sequence, rollbacks, deviceVars>>

\* A later statement fails; an identity value is never given back.
Rollback(t) ==
  /\ ~Idle(t)
  /\ rollbacks < MaxRollbacks /\ rollbacks' = rollbacks + 1
  /\ open' = [open EXCEPT ![t] = NoTransaction]
  /\ UNCHANGED <<canon, sequence, feed, overtaken, deviceVars>>

\* The committed rows after the cursor, and the first n of them.
After == {r \in feed : r.seq > cursor}
IsFirst(rows, n) ==
  /\ rows \subseteq After /\ Cardinality(rows) <= n
  /\ \A r \in rows, q \in After : q.seq < r.seq => q \in rows
  /\ rows = After \/ Cardinality(rows) = n

\* One read_order_lifecycle_feed_v1: rows carry the order's status of now.
Fetched(rows) ==
  {[order |-> r.order, rev |-> r.rev, status |-> canon[r.order].status] : r \in rows}

\* Mutant of Pull: the cursor is taken from the row fetched to learn has-more.
PullLookahead ==
  /\ page = NoPage /\ After # {}
  /\ \E rows, fetched \in SUBSET After :
       /\ IsFirst(rows, PageSize) /\ IsFirst(fetched, PageSize + 1)
       /\ \E last \in fetched :
            /\ \A r \in fetched : r.seq <= last.seq
            /\ page' = [rows |-> Fetched(rows), next |-> last.seq]
  /\ UNCHANGED <<serverVars, local, cursor>>

Pull ==
  /\ page = NoPage /\ After # {}
  /\ \E rows \in SUBSET After :
       /\ IsFirst(rows, PageSize)
       /\ \E last \in rows :
            /\ \A r \in rows : r.seq <= last.seq
            /\ page' = [rows |-> Fetched(rows), next |-> last.seq]
  /\ UNCHANGED <<serverVars, local, cursor>>

\* Rows of orders the device has, above the local revision, are taken in turn;
\* the highest prevails.
News(o) == {r \in page.rows : r.order = o /\ r.rev > local[o].rev}
Apply ==
  /\ page # NoPage
  /\ local' = [o \in OwnOrder |->
                 IF News(o) = {} THEN local[o]
                 ELSE LET newest == CHOOSE r \in News(o) : \A q \in News(o) : q.rev <= r.rev
                      IN [status |-> newest.status, rev |-> newest.rev]]
  /\ cursor' = page.next
  /\ page' = NoPage
  /\ UNCHANGED serverVars

\* The transport fails or the device dies between the pull and the commit.
LosePage ==
  /\ page # NoPage /\ page' = NoPage
  /\ UNCHANGED <<serverVars, local, cursor>>

Next ==
  \/ \E t \in Transaction :
       \/ \E x \in [order : Order, kind : LifecycleKind,
                     by : {"WORKER", "ADMIN"}, seq : {0}] : Begin(t, x)
       \/ Capture(t) \/ Commit(t) \/ Rollback(t)
  \/ Pull \/ Apply \/ LosePage

Spec == Init /\ [][Next]_vars

\* A transaction ends; while connected the device pulls every 15 s and loses no
\* more than finitely many pages in a row.
Fairness ==
  /\ \A t \in Transaction : WF_vars(Capture(t)) /\ WF_vars(Commit(t))
  /\ WF_vars(Pull) /\ SF_vars(Apply)

FairSpec == Spec /\ Fairness

-----------------------------------------------------------------------------
TypeOK ==
  /\ canon \in [Order -> [status : Status, rev : Revision]]
  /\ local \in [OwnOrder -> [status : Status, rev : Revision]]
  /\ open \in [Transaction -> Change \cup {NoTransaction}]
  /\ sequence \in Nat /\ rollbacks \in 0 .. MaxRollbacks
  /\ feed \subseteq Row /\ overtaken \subseteq Row
  /\ cursor \in Nat
  /\ page \in [rows : SUBSET [order : Order, rev : Revision, status : Status], next : Nat]

\* The strengthening that is inductive: a row lock has one holder, and the
\* number an open transaction has drawn is above those of its order.
RowLockInv ==
  /\ \A t, u \in Busy : open[t].order = open[u].order => t = u
  /\ \A t \in Busy : canon[open[t].order].rev < MaxRevision
  /\ \A t \in Busy : open[t].seq <= sequence
  /\ \A r \in feed : r.seq <= sequence /\ r.rev <= canon[r.order].rev
  /\ \A t \in Busy, r \in feed :
       open[t].seq > 0 /\ r.order = open[t].order => r.seq < open[t].seq

\* A number is drawn by one transaction and published once.
NumbersInv ==
  /\ \A t, u \in Busy : open[t].seq > 0 /\ open[t].seq = open[u].seq => t = u
  /\ \A t \in Busy, r \in feed : open[t].seq > 0 => r.seq # open[t].seq
  /\ \A r, q \in feed : r.seq = q.seq => r = q

\* Cursor and page end at published numbers, and a page holds every row up to
\* its next cursor that was not overtaken.
PagingInv ==
  /\ \A n \in {cursor, page.next} : n = 0 \/ \E r \in feed : r.seq = n
  /\ page # NoPage =>
       \A r \in feed \ overtaken : (cursor < r.seq /\ r.seq <= page.next) =>
         \E p \in page.rows : p.order = r.order /\ p.rev = r.rev

\* "The event row remains the immutable canonical history; this table only
\* supplies a monotonic cursor": for one order the sequence numbers are in
\* revision order, however its transactions overlap.
RevisionsFollowSequence ==
  \A r, q \in feed : r.order = q.order => (r.seq < q.seq <=> r.rev < q.rev)

\* "Pagination/retry is gap-safe" but for one case: a change whose number the
\* cursor has passed has been applied on the device, unless a transaction on
\* another order had drawn a larger number and was published first.  Lost pages,
\* failed transactions, page boundaries and two open changes of one order lose
\* nothing (the row lock is held from before the number is drawn).
NoCanonicalChangeIsSkipped ==
  \A r \in feed \ overtaken :
    (r.order \in OwnOrder /\ r.seq <= cursor) => local[r.order].rev >= r.rev

\* The last change of an order was overtaken.
LastIsOvertaken(o) == \E r \in overtaken : r.order = o /\ r.rev = canon[o].rev

\* A device that has pulled all there is agrees with the server on every order
\* of its own, status and revision, unless the order's last change was
\* overtaken; although a row carries the status its order has when it is read
\* and not the one it had at the row's revision.
CaughtUpDeviceAgrees ==
  (\A r \in feed : r.seq <= cursor) =>
    \A o \in OwnOrder : local[o] = canon[o] \/ LastIsOvertaken(o)

\* What that rests on: an order's last revision is in the feed, and a snapshot
\* that left the server is never ahead, and at the same revision the same.
Behind(o, x) == /\ x.rev <= canon[o].rev
                /\ x.rev = canon[o].rev => x.status = canon[o].status
SnapshotInv ==
  /\ \A o \in Order : canon[o].rev > 0 => \E r \in feed : r.order = o /\ r.rev = canon[o].rev
  /\ \A o \in OwnOrder : Behind(o, local[o])
  /\ \A p \in page.rows : Behind(p.order, p)

\* What the proofs induct on.
RowInv  == TypeOK /\ RowLockInv /\ RevisionsFollowSequence
GapFree == RowInv /\ NumbersInv /\ PagingInv /\ NoCanonicalChangeIsSkipped

\* A connected device does not stay apart from the server for ever, on any
\* order the last change of which was not overtaken.
DeviceConvergesUnlessOvertaken ==
  \A o \in OwnOrder :
    (local[o] # canon[o]) ~> (local[o] = canon[o] \/ LastIsOvertaken(o))

\* Refuted.  "Local/canonical lifecycle truth cannot remain split indefinitely
\* while connected": a change that was overtaken, and is the last of its order,
\* is never pulled.
ConnectedDeviceConverges ==
  \A o \in OwnOrder : (local[o] # canon[o]) ~> (local[o] = canon[o])
=============================================================================
