--------------------------- MODULE CanonicalLedger ---------------------------
(***************************************************************************)
(* The server's side: ingest_tux_operations_materialization_v1 with the    *)
(* checks it calls, the admin cancellation, the stock balance and the      *)
(* lifecycle feed.  Each is one database transaction, hence one step: the  *)
(* advisory locks and row locks serialise transactions on one order.       *)
(* Every order needs one unit of one stock item.                           *)
(***************************************************************************)
EXTENDS OrderLifecycle, Integers, Sequences, FiniteSets

CONSTANTS InitialStock,  \* units on hand at the start
          MaxSupply,     \* bound on deliveries of stock
          MaxDraws,      \* bound on units drawn behind the reservations' back
          PaidOrder      \* the orders with an allocated payment

ASSUME StockAssumption ==
  /\ InitialStock \in Nat /\ MaxSupply \in Nat /\ MaxDraws \in Nat
  /\ PaidOrder \subseteq Order

VARIABLES canon,     \* order -> the row of public.orders
          held,      \* orders whose reserved_delta_micros do not add up to zero
          onHand,    \* sum of quantity_delta_micros
          supplied,  \* units delivered so far
          drawn,     \* units drawn so far
          receipts,  \* operations_sync_event_receipts
          closed,    \* orders an administrator cancelled
          feed       \* order_lifecycle_feed, in sequence order

ledgerVars == <<canon, held, onHand, supplied, drawn, receipts, closed, feed>>

\* A row of order_lifecycle_feed, and the same row as a pull returns it.
FeedRow == [order : Order, rev : 0 .. MaxRevision + 1]
PageRow == [order : Order, rev : 0 .. MaxRevision + 1, status : Status]

\* What the device hears: 200 APPLIED and REPLAY, 400, 409 and 422; RETRY is
\* every failure httpTransport classifies as transient.
Verdict == {"APPLIED", "REPLAY", "REJECTED", "STALE", "INSUFFICIENT", "RETRY"}

LedgerInit ==
  /\ canon = [o \in Order |-> Unknown]
  /\ held = {} /\ receipts = {} /\ closed = {}
  /\ onHand = InitialStock /\ supplied = 0 /\ drawn = 0
  /\ feed = <<>>

\* inventory_balance_v1: on hand minus reserved.
Available == onHand - Cardinality(held)

\* assert_order_transition_precondition_v1: the order exists in the event's
\* from-status and the event carries the next revision.
Precondition(e, k) ==
  /\ canon[e.order].status # "NONE"
  /\ canon[e.order].status = FromStatus[k]
  /\ e.rev = canon[e.order].rev + 1

\* assert_order_terminal_inventory_set_v1 and its two siblings: the movements
\* an event carries must match the reservation the server holds.
Settles(e, k) ==
  /\ k \in {"ORDER_MARKED_DONE", "ORDER_CANCELLED", "ORDER_WASTED"} => e.order \in held
  /\ k = "ORDER_DONE_UNDONE" => e.order \notin held

\* apply_tux_remote_mutation under COMPARE_AND_SWAP_REVISION.
Current(e, k) ==
  canon[e.order] = [status |-> FromStatus[k], rev |-> e.rev - 1]

\* Mutants of Answer: no receipt lookup; an off-by-one in the capacity check.
AnswerWithoutReceipts(e, k) ==
  IF k = "ORDER_PLACED"
  THEN IF canon[e.order] # Unknown THEN "STALE"
       ELSE IF Available < 1 THEN "INSUFFICIENT" ELSE "APPLIED"
  ELSE IF ~Precondition(e, k) THEN "REJECTED" ELSE "APPLIED"
AnswerOversells(e, k) ==
  IF e \in receipts THEN "REPLAY"
  ELSE IF k = "ORDER_PLACED"
  THEN IF Available < 0 THEN "INSUFFICIENT" ELSE "APPLIED"
  ELSE IF ~Precondition(e, k) THEN "REJECTED" ELSE "APPLIED"

\* The checks in the order the function makes them.
Answer(e, k) ==
  IF e \in receipts THEN "REPLAY"
  ELSE IF k = "ORDER_PLACED"
  THEN IF Available < 1 THEN "INSUFFICIENT" ELSE "APPLIED"
  ELSE IF ~Precondition(e, k) \/ ~Settles(e, k) THEN "REJECTED"
  ELSE IF ~Current(e, k) THEN "STALE"
  ELSE "APPLIED"

\* The reservation and stock movements of an applied event.
HeldAfter(o, k) ==
  IF ToStatus[k] = "ACTIVE" THEN held \cup {o} ELSE held \ {o}
\* Mutant of OnHandAfter: undoing Done does not put the stock back.
OnHandForgotten(k) ==
  IF k \in {"ORDER_MARKED_DONE", "ORDER_WASTED"} THEN onHand - 1 ELSE onHand
OnHandAfter(k) ==
  CASE k \in {"ORDER_MARKED_DONE", "ORDER_WASTED"} -> onHand - 1
    [] k = "ORDER_DONE_UNDONE"                     -> onHand + 1
    [] OTHER                                       -> onHand

\* Mutant of Ingest: the receipt outlives the rollback of a refused event.
IngestNotAtomic(e, k) ==
  \/ /\ Answer(e, k) = "APPLIED"
     /\ canon' = [canon EXCEPT ![e.order] = Entered(k, e.rev)]
     /\ held' = HeldAfter(e.order, k)
     /\ onHand' = OnHandAfter(k)
     /\ receipts' = receipts \cup {e}
     /\ feed' = Append(feed, e)
     /\ UNCHANGED <<supplied, drawn, closed>>
  \/ /\ Answer(e, k) # "APPLIED"
     /\ receipts' = receipts \cup {e}
     /\ UNCHANGED <<canon, held, onHand, supplied, drawn, closed, feed>>

\* ingest_tux_operations_materialization_v1 for an order event.
Ingest(e, k) ==
  \/ /\ Answer(e, k) = "APPLIED"
     /\ canon' = [canon EXCEPT ![e.order] = Entered(k, e.rev)]
     /\ held' = HeldAfter(e.order, k)
     /\ onHand' = OnHandAfter(k)
     /\ receipts' = receipts \cup {e}
     /\ feed' = Append(feed, e)
     /\ UNCHANGED <<supplied, drawn, closed>>
  \/ /\ Answer(e, k) # "APPLIED"
     /\ UNCHANGED ledgerVars

\* Mutant of AdminCancel: any order the server knows can be cancelled.
AdminCancelAny(o) ==
  /\ canon[o].status # "NONE"
  /\ canon' = [canon EXCEPT ![o] = Entered("ORDER_CANCELLED", canon[o].rev + 1)]
  /\ closed' = closed \cup {o}
  /\ feed' = Append(feed, [order |-> o, rev |-> canon[o].rev + 1])
  /\ UNCHANGED <<held, onHand, supplied, drawn, receipts>>

\* cancel_admin_order_v1; the expected revision is the one the administrator
\* read, a stale one changes nothing.  A paid order is refused by the trigger
\* reject_paid_active_admin_cancellation_v1.  Reservations are released by the
\* rows of inventory_reservations, a table ingest never writes: the reservation
\* an order was placed with stays.
AdminCancel(o) ==
  /\ canon[o].status = "ACTIVE" /\ o \notin PaidOrder
  /\ canon' = [canon EXCEPT ![o] = Entered("ORDER_CANCELLED", canon[o].rev + 1)]
  /\ closed' = closed \cup {o}
  /\ feed' = Append(feed, [order |-> o, rev |-> canon[o].rev + 1])
  /\ UNCHANGED <<held, onHand, supplied, drawn, receipts>>

\* A goods receipt.
ReceiveStock ==
  /\ supplied < MaxSupply
  /\ supplied' = supplied + 1 /\ onHand' = onHand + 1
  /\ UNCHANGED <<canon, held, drawn, receipts, closed, feed>>

\* Waste under the owner's emergency override, or a movement the capacity
\* trigger lets through (BULK_UNIT_FINISHED): stock may fall below what is held.
DrawStock ==
  /\ drawn < MaxDraws
  /\ drawn' = drawn + 1 /\ onHand' = onHand - 1
  /\ UNCHANGED <<canon, held, supplied, receipts, closed, feed>>

\* read_order_lifecycle_feed_v1: the rows after the cursor, each with the
\* order's status of now and its own revision.
FeedRows(from, to) ==
  {[order |-> feed[i].order, rev |-> feed[i].rev,
    status |-> canon[feed[i].order].status] : i \in (from + 1) .. to}
=============================================================================
