--------------------------- MODULE OrderLifecycle ---------------------------
(***************************************************************************)
(* The order lifecycle of packages/domain/src/orderLifecycle.ts as data:   *)
(* which status a lifecycle event leaves and which one it enters.  An      *)
(* order the device has not placed, or the server has never seen, has the  *)
(* status "NONE".  CANCELLED with cancellation.foodPrepared = true is a    *)
(* status of its own, "WASTED": the food was made, the stock is gone.      *)
(***************************************************************************)
EXTENDS Naturals

CONSTANTS Order,         \* the orders of one business day
          MaxRevision    \* bound on an order's operational revision

ASSUME RevisionAssumption == MaxRevision \in Nat

Revision == 0 .. MaxRevision

\* The statuses of OrderStatus, with CANCELLED split by foodPrepared.
Status == {"NONE", "ACTIVE", "DONE", "CANCELLED", "WASTED", "RETURNED"}

\* The outbox event types of an ORDER aggregate; ORDER_CANCELLED is split by
\* transition.foodPrepared in the same way.
Kind == {"ORDER_PLACED", "ORDER_MARKED_DONE", "ORDER_DONE_UNDONE",
         "ORDER_CANCELLED", "ORDER_WASTED", "DELIVERY_RETURNED"}

LifecycleKind == Kind \ {"ORDER_PLACED"}

\* The status each transition requires: the guards of markOrderDone,
\* undoOrderDone, cancelActiveOrder and returnFailedDelivery.
FromStatus ==
  [k \in Kind |-> CASE k = "ORDER_PLACED" -> "NONE"
                    [] k \in {"ORDER_DONE_UNDONE", "DELIVERY_RETURNED"} -> "DONE"
                    [] OTHER -> "ACTIVE"]

\* The status each transition enters.
ToStatus ==
  [k \in Kind |-> CASE k \in {"ORDER_PLACED", "ORDER_DONE_UNDONE"} -> "ACTIVE"
                    [] k = "ORDER_MARKED_DONE" -> "DONE"
                    [] k = "ORDER_CANCELLED" -> "CANCELLED"
                    [] k = "ORDER_WASTED" -> "WASTED"
                    [] k = "DELIVERY_RETURNED" -> "RETURNED"]

\* Statuses in which the order's ingredients have been used up.
Consumed == {"DONE", "WASTED", "RETURNED"}

\* An order as either side stores it: its status and operational revision.
\* (An administrator's or a reconciling cancellation may be one past the bound.)
Snapshot == [status : Status, rev : 0 .. MaxRevision + 1]
Unknown  == [status |-> "NONE", rev |-> 0]

\* One outbox event per order and aggregate revision: the idempotency key is
\* order-operational:<order>:<revision>:<type>, and a placement has revision 0.
Event == [order : Order, rev : Revision]

\* The snapshot after an event of kind k and revision r.
Entered(k, r) == [status |-> ToStatus[k], rev |-> r]
=============================================================================
