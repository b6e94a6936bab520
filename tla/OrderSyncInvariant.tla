------------------------- MODULE OrderSyncInvariant -------------------------
(***************************************************************************)
(* The inductive invariant of OrderSync: why its safety properties hold.   *)
(* Each part ties one copy of an order's history to the next one along the *)
(* way from the worker's command to the server and back.                   *)
(***************************************************************************)
EXTENDS OrderSync

\* The device's order and its stream: no row is ahead of the order, a placement
\* and nothing else has revision 0, and while the order can still change every
\* revision up to its own has a row.
LocalInv ==
  /\ \A e \in Rows : e.rev <= local[e.order].rev /\ local[e.order].status # "NONE"
  /\ \A e \in Rows : kind[e] = "ORDER_PLACED" <=> e.rev = 0
  /\ \A o \in Order : local[o].status = "NONE" => local[o].rev = 0
  /\ \A o \in Order : local[o].status \in {"ACTIVE", "DONE"} =>
       /\ local[o].rev \in Revision
       /\ \A r \in Revision : r <= local[o].rev => [order |-> o, rev |-> r] \in Rows

\* What is listed, sent, on the wire or quarantined is a row; an answer has a question, and
\* a good answer means the server holds the receipt.
InFlightInv ==
  /\ late \subseteq Rows /\ quarantined \subseteq Rows
  /\ \A s \in Service : batch[s] \subseteq Rows
  /\ \A s \in Service : current[s] # NoEvent => current[s] \in Rows
  /\ \A s \in Service : verdict[s] # "NONE" => current[s] # NoEvent
  /\ \A s \in Service : verdict[s] \in {"APPLIED", "REPLAY"} => current[s] \in receipts

\* The last revision of the device the server applied to an order it knows.
Top(o) == IF o \in closed THEN canon[o].rev - 1 ELSE canon[o].rev

\* The server's order is the sum of its receipts, and every receipt is of a row.
CanonInv ==
  /\ receipts \subseteq Rows
  /\ delivered \subseteq receipts
  /\ \A o \in Order : canon[o].status = "NONE" =>
       /\ canon[o] = Unknown /\ o \notin closed
       /\ \A r \in Revision : [order |-> o, rev |-> r] \notin receipts
  /\ \A o \in Order : canon[o].status # "NONE" =>
       /\ Top(o) \in Revision
       /\ \A r \in Revision : [order |-> o, rev |-> r] \in receipts <=> r <= Top(o)
       /\ canon[o].status = IF o \in closed THEN "CANCELLED"
                            ELSE ToStatus[kind[[order |-> o, rev |-> Top(o)]]]

\* News the device does not have yet can only be a cancellation: that is why
\* taking a page over never re-opens an order.
FeedInv ==
  /\ \A i \in 1 .. Len(feed) :
       feed[i].rev <= local[feed[i].order].rev \/ canon[feed[i].order].status = "CANCELLED"
  /\ \A r \in page.rows : r.rev <= local[r.order].rev \/ r.status = "CANCELLED"
  /\ page.next <= Len(feed) /\ cursor <= Len(feed)

IInv ==
  /\ TypeOK
  /\ NothingPendingBehindQuarantine
  /\ LocalInv
  /\ InFlightInv
  /\ CanonInv
  /\ FeedInv

\* The orders whose stock has left the shelf.
Used == {o \in Order : canon[o].status \in Consumed}

\* The stock balance, with the finiteness the counts need.
StockInv ==
  /\ IsFiniteSet(held) /\ IsFiniteSet(Used)
  /\ StockIsConserved
  /\ ReservationsAreBacked

-----------------------------------------------------------------------------
(* Why the device's order never moves back. *)

\* The order is in the status its last row entered, and each row leaves the
\* status the row before it entered.
ChainInv ==
  /\ \A e \in Rows : e.rev = local[e.order].rev => local[e.order].status = ToStatus[kind[e]]
  /\ \A e \in Rows : e.rev > 0 =>
       LET f == [order |-> e.order, rev |-> e.rev - 1]
       IN f \in Rows /\ ToStatus[kind[f]] = FromStatus[kind[e]]

\* An administrator cancels an ACTIVE order, and the feed says so.
ClosedInv ==
  \A o \in closed :
    /\ ToStatus[kind[[order |-> o, rev |-> Top(o)]]] = "ACTIVE"
    /\ \E i \in 1 .. Len(feed) : feed[i] = [order |-> o, rev |-> canon[o].rev]

\* Neither the feed nor a page is ahead of the server's orders.
NewsInv ==
  /\ \A i \in 1 .. Len(feed) : /\ canon[feed[i].order].status # "NONE"
                               /\ feed[i].rev <= canon[feed[i].order].rev
  /\ \A n \in page.rows : n.rev <= canon[n.order].rev

HistoryInv == ChainInv /\ ClosedInv /\ NewsInv

-----------------------------------------------------------------------------
(* Why only a conflict quarantines a row. *)

\* The rows are finitely many, and an order's rows were born in the order of
\* their revisions.
BornInv ==
  /\ IsFiniteSet(Rows)
  /\ \A e \in Rows : born[e] <= clock
  /\ \A e \in Rows : \A f \in Earlier(e) : born[f] < born[e]

Settled == delivered \cup quarantined

\* A service sends an order's rows in turn: the earlier rows of what it has
\* listed are listed too, under way or settled; those of what it sends are settled.
SendInv ==
  \A s \in Service :
    /\ \A e \in batch[s] : Earlier(e) \subseteq batch[s] \cup {current[s]} \cup Settled
    /\ current[s] # NoEvent => Earlier(current[s]) \subseteq Settled

\* The order's placement is quarantined, or an administrator cancelled it.
Conflict(o) == o \in closed \/ [order |-> o, rev |-> 0] \in quarantined

\* A permanent refusal is that of a placement without stock, or of a conflict.
VerdictInv ==
  \A s \in Service :
    /\ verdict[s] = "INSUFFICIENT" => current[s].rev = 0
    /\ verdict[s] \in {"REJECTED", "STALE"} => Conflict(current[s].order)

DeliveryInv == BornInv /\ SendInv /\ VerdictInv /\ OnlyConflictsQuarantine

-----------------------------------------------------------------------------
(* Why a device with one OutboxSyncService agrees with the server. *)

\* The device's revision is that of a row, or a cancellation taken over from
\* the server, or the one that reconciled a quarantined placement.
SyncedInv ==
  \A o \in Order : local[o].status # "NONE" =>
    \/ [order |-> o, rev |-> local[o].rev] \in Rows
    \/ o \in closed /\ local[o] = canon[o]
    \/ \E e \in quarantined : e.order = o

\* What the cursor has passed the device has, and a page brings all that lies
\* between the cursor and the page's own.
ConsumedInv ==
  /\ \A i \in 1 .. cursor : feed[i].rev <= local[feed[i].order].rev
  /\ \A i \in (cursor + 1) .. page.next :
       \E n \in page.rows : n.order = feed[i].order /\ n.rev = feed[i].rev

\* Only one OutboxSyncService works on the outbox.
SingleService == \A s, t \in Service : s = t

\* What the only service holds is still pending, so no row is settled twice.
ExclusiveInv ==
  SingleService =>
    /\ delivered \cap quarantined = {}
    /\ \A s \in Service :
         /\ batch[s] \subseteq Pending
         /\ current[s] # NoEvent => current[s] \in Pending \ batch[s]

AgreementInv == SyncedInv /\ ConsumedInv /\ ExclusiveInv

\* Everything that is inductive together.
Inductive == IInv /\ StockInv /\ HistoryInv /\ DeliveryInv /\ AgreementInv
=============================================================================
