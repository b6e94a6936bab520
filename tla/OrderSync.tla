------------------------------ MODULE OrderSync ------------------------------
(***************************************************************************)
(* One device and the server.  The device's commands change an order and   *)
(* append to the outbox in one local transaction; OutboxSyncService sends  *)
(* the pending rows one at a time, outside any transaction; the lifecycle  *)
(* convergence service pulls what the server decided.  Each element of     *)
(* Service is one OutboxSyncService over the same database: the scheduler  *)
(* owns one, every login and heartbeat makes another (flushShopOutbox),    *)
(* and their mutexes do not know of each other.                            *)
(***************************************************************************)
EXTENDS OutboxStore, CanonicalLedger

CONSTANTS Service,        \* the OutboxSyncServices of the device
          DeliveryOrder,  \* the orders with fulfilment DELIVERY
          BatchLimit,     \* rows one syncOnce lists
          PageSize,       \* feed rows one pull returns
          MaxFaults,      \* bound on timeouts, outages and crashes
          NoEvent         \* nothing in flight

ASSUME OrderSyncAssumption ==
  /\ DeliveryOrder \subseteq Order
  /\ BatchLimit \in Nat \ {0} /\ PageSize \in Nat \ {0} /\ MaxFaults \in Nat
  /\ NoEvent \notin Event

VARIABLES local,    \* order -> the device's OrderSnapshot
          batch,    \* service -> rows listed and not yet sent
          current,  \* service -> the row being delivered
          verdict,  \* service -> the answer that has reached it, or NONE
          late,     \* requests given up on that may still arrive
          faults,   \* faults so far
          cursor,   \* lifecycle sync cursor: feed rows consumed
          page      \* feed page pulled and not yet applied

deviceVars  == <<local, cursor>>
serviceVars == <<batch, current, verdict>>
vars == <<outboxVars, ledgerVars, deviceVars, serviceVars, late, faults, page>>

NoPage == [rows |-> {}, next |-> 0]

Init ==
  /\ OutboxInit /\ LedgerInit
  /\ local = [o \in Order |-> Unknown] /\ cursor = 0
  /\ batch = [s \in Service |-> {}]
  /\ current = [s \in Service |-> NoEvent]
  /\ verdict = [s \in Service |-> "NONE"]
  /\ late = {} /\ faults = 0 /\ page = NoPage

Idle(s)     == batch[s] = {} /\ current[s] = NoEvent
InFlight(s) == current[s] # NoEvent /\ verdict[s] = "NONE"

-----------------------------------------------------------------------------
(* Commands of the worker. *)

\* The order enters k's status at revision r, and the event joins the outbox.
Commit(o, k, r) ==
  /\ r <= MaxRevision
  /\ local' = [local EXCEPT ![o] = Entered(k, r)]
  /\ AppendRow([order |-> o, rev |-> r], k)
  /\ UNCHANGED <<ledgerVars, cursor, serviceVars, late, faults, page>>

\* OrdersService.placeOrder; the idempotency key lets an order commit once.
PlaceOrder(o) ==
  /\ local[o].status = "NONE"
  /\ Commit(o, "ORDER_PLACED", 0)

\* OrdersBoardService: #currentOrder, the domain transition with its guard,
\* updateOperationalState and outbox.append.
Transition(o, k) ==
  /\ local[o].status = FromStatus[k]
  /\ Commit(o, k, local[o].rev + 1)

MarkDone(o)    == Transition(o, "ORDER_MARKED_DONE")
UndoDone(o)    == Transition(o, "ORDER_DONE_UNDONE")
CancelOrder(o) == \E k \in {"ORDER_CANCELLED", "ORDER_WASTED"} : Transition(o, k)
ReturnDelivery(o) == o \in DeliveryOrder /\ Transition(o, "DELIVERY_RETURNED")

-----------------------------------------------------------------------------
(* OutboxSyncService. *)

\* syncOnce: the snapshot of the rows it will try.
StartSync(s) ==
  /\ Idle(s)
  /\ ListPending(BatchLimit) # {}
  /\ batch' = [batch EXCEPT ![s] = ListPending(BatchLimit)]
  /\ UNCHANGED <<outboxVars, ledgerVars, deviceVars, current, verdict, late, faults, page>>

\* transport.deliver of the next row of the snapshot, whatever happened to the
\* row since it was listed.
Deliver(s) ==
  /\ current[s] = NoEvent
  /\ \E e \in batch[s] :
       /\ \A f \in batch[s] : born[e] <= born[f]
       /\ current' = [current EXCEPT ![s] = e]
       /\ batch' = [batch EXCEPT ![s] = @ \ {e}]
  /\ UNCHANGED <<outboxVars, ledgerVars, deviceVars, verdict, late, faults, page>>

\* The request reaches the server and its answer reaches the service.
Receive(s) ==
  /\ InFlight(s)
  /\ Ingest(current[s], kind[current[s]])
  /\ verdict' = [verdict EXCEPT ![s] = Answer(current[s], kind[current[s]])]
  /\ UNCHANGED <<outboxVars, deviceVars, batch, current, late, faults, page>>

\* 423, 425, 429, 5xx or no connection: the server did nothing.
Unavailable(s) ==
  /\ InFlight(s)
  /\ faults < MaxFaults /\ faults' = faults + 1
  /\ verdict' = [verdict EXCEPT ![s] = "RETRY"]
  /\ UNCHANGED <<outboxVars, ledgerVars, deviceVars, batch, current, late, page>>

\* The transport's deadline passes: the request is still on its way, or its
\* answer is lost.
Timeout(s) ==
  /\ current[s] # NoEvent /\ verdict[s] # "RETRY"
  /\ faults < MaxFaults /\ faults' = faults + 1
  /\ late' = IF InFlight(s) THEN late \cup {current[s]} ELSE late
  /\ verdict' = [verdict EXCEPT ![s] = "RETRY"]
  /\ UNCHANGED <<outboxVars, ledgerVars, deviceVars, batch, current, page>>

\* A request its sender gave up on arrives after all.
ReceiveLate(e) ==
  /\ e \in late
  /\ late' = late \ {e}
  /\ Ingest(e, kind[e])
  /\ UNCHANGED <<outboxVars, deviceVars, serviceVars, faults, page>>

Settle(s) ==
  /\ current' = [current EXCEPT ![s] = NoEvent]
  /\ verdict' = [verdict EXCEPT ![s] = "NONE"]

\* Mutant of Accept: a request that ran out of time is taken for delivered.
AcceptOnTimeout(s) ==
  /\ verdict[s] \in {"APPLIED", "REPLAY", "RETRY"}
  /\ MarkDelivered(current[s])
  /\ Settle(s)
  /\ UNCHANGED <<ledgerVars, deviceVars, batch, late, faults, page>>

\* deliver returned: markDelivered in a transaction of its own.
Accept(s) ==
  /\ verdict[s] \in {"APPLIED", "REPLAY"}
  /\ MarkDelivered(current[s])
  /\ Settle(s)
  /\ UNCHANGED <<ledgerVars, deviceVars, batch, late, faults, page>>

\* Mutant of Reconciled: the local status is not looked at.
ReconciledBlindly(e) ==
  IF kind[e] = "ORDER_PLACED"
  THEN [local EXCEPT ![e.order] = [status |-> "CANCELLED", rev |-> @.rev + 1]]
  ELSE local

\* reconcileRejectedOrderPlacement: an order still ACTIVE is cancelled without
\* an outbox event; one that is not stays as it is.
Reconciled(e) ==
  IF kind[e] = "ORDER_PLACED" /\ local[e.order].status = "ACTIVE"
  THEN [local EXCEPT ![e.order] = [status |-> "CANCELLED", rev |-> @.rev + 1]]
  ELSE local

\* A PERMANENT failure: reconcile (422 only), quarantine and block the
\* dependents in one transaction, then skip the later revisions of the batch.
Refuse(s) ==
  LET e == current[s] IN
  /\ verdict[s] \in {"REJECTED", "STALE", "INSUFFICIENT"}
  /\ local' = IF verdict[s] = "INSUFFICIENT" THEN Reconciled(e) ELSE local
  /\ Quarantine(e)
  /\ batch' = [batch EXCEPT ![s] = {f \in @ : ~(f.order = e.order /\ f.rev > e.rev)}]
  /\ Settle(s)
  /\ UNCHANGED <<ledgerVars, cursor, late, faults, page>>

\* A TRANSIENT failure: recordFailure, and the whole syncOnce ends.
Retry(s) ==
  /\ verdict[s] = "RETRY"
  /\ RecordFailure(current[s])
  /\ batch' = [batch EXCEPT ![s] = {}]
  /\ Settle(s)
  /\ UNCHANGED <<ledgerVars, deviceVars, late, faults, page>>

\* The back-off of a pending row runs out.
Elapse(e) ==
  /\ BackoffElapses(e)
  /\ UNCHANGED <<ledgerVars, deviceVars, serviceVars, late, faults, page>>

\* The process dies: what is in memory is gone, what is on the wire is not.
Crash ==
  /\ faults < MaxFaults /\ faults' = faults + 1
  /\ late' = late \cup {current[s] : s \in {t \in Service : InFlight(t)}}
  /\ batch' = [s \in Service |-> {}]
  /\ current' = [s \in Service |-> NoEvent]
  /\ verdict' = [s \in Service |-> "NONE"]
  /\ page' = NoPage
  /\ UNCHANGED <<outboxVars, ledgerVars, deviceVars>>

-----------------------------------------------------------------------------
(* OrderLifecycleConvergenceService.syncShop, one page at a time. *)

\* Mutant of PullPage: the cursor is saved before the page is applied.
PullPageEarlyCursor ==
  /\ page = NoPage
  /\ cursor < Len(feed)
  /\ LET next == IF cursor + PageSize < Len(feed) THEN cursor + PageSize ELSE Len(feed)
     IN /\ page' = [rows |-> FeedRows(cursor, next), next |-> next]
        /\ cursor' = next
  /\ UNCHANGED <<outboxVars, ledgerVars, local, serviceVars, late, faults>>

PullPage ==
  /\ page = NoPage
  /\ cursor < Len(feed)
  /\ LET next == IF cursor + PageSize < Len(feed) THEN cursor + PageSize ELSE Len(feed)
     IN page' = [rows |-> FeedRows(cursor, next), next |-> next]
  /\ UNCHANGED <<outboxVars, ledgerVars, deviceVars, serviceVars, late, faults>>

\* Mutants of News: the page's rows are taken whatever their revision; a row
\* one revision ahead is not.
NewsUnguarded(o) == {r \in page.rows : r.order = o}
NewsOffByOne(o)  == {r \in page.rows : r.order = o /\ r.rev > local[o].rev + 1}

\* The rows of one order a device acts on, and the one that prevails when they
\* are applied in turn: the highest revision above the local one.
News(o)      == {r \in page.rows : r.order = o /\ r.rev > local[o].rev}
Converged(o) ==
  IF local[o].status = "NONE" \/ News(o) = {} THEN local[o]
  ELSE LET newest == CHOOSE r \in News(o) : \A q \in News(o) : q.rev <= r.rev
       IN [status |-> newest.status, rev |-> newest.rev]

\* One local transaction: the updates and the cursor.
ApplyPage ==
  /\ page # NoPage
  /\ local' = [o \in Order |-> Converged(o)]
  /\ cursor' = page.next
  /\ page' = NoPage
  /\ UNCHANGED <<outboxVars, ledgerVars, serviceVars, late, faults>>

-----------------------------------------------------------------------------
(* The server on its own. *)

Administer ==
  /\ \/ \E o \in Order : AdminCancel(o)
     \/ ReceiveStock
     \/ DrawStock
  /\ UNCHANGED <<outboxVars, deviceVars, serviceVars, late, faults, page>>

Worker ==
  \E o \in Order : \/ PlaceOrder(o) \/ MarkDone(o) \/ UndoDone(o)
                   \/ CancelOrder(o) \/ ReturnDelivery(o)

Sync(s) == \/ StartSync(s) \/ Deliver(s) \/ Receive(s)
           \/ Accept(s) \/ Refuse(s) \/ Retry(s)

Fault == Crash \/ \E s \in Service : Unavailable(s) \/ Timeout(s)

Next ==
  \/ Worker
  \/ \E s \in Service : Sync(s)
  \/ \E e \in Event : ReceiveLate(e) \/ Elapse(e)
  \/ PullPage \/ ApplyPage
  \/ Administer
  \/ Fault

Spec == Init /\ [][Next]_vars

-----------------------------------------------------------------------------
\* The scheduler ticks every 15 s and at every trigger, convergence runs on its
\* own timer, a back-off is finite, and a server that is up answers.  That is the
\* desktop, and a browser while a worker is signed in: there is no sign-out here.
Fairness ==
  /\ \A s \in Service : WF_vars(Sync(s))
  /\ \A e \in Event : WF_vars(Elapse(e))
  /\ WF_vars(PullPage) /\ WF_vars(ApplyPage)

FairSpec == Spec /\ Fairness

-----------------------------------------------------------------------------
(* Properties. *)

\* The outbox and the server implement an ordered log per order.
Log == INSTANCE OrderedLog WITH issued <- Rows, applied <- receipts,
                                acknowledged <- delivered

ImplementsOrderedLog == Log!LogSpec

TypeOK ==
  /\ born \in [Event -> Nat] /\ clock \in Nat
  /\ kind \in [Event -> Kind]
  /\ delivered \subseteq Event /\ quarantined \subseteq Event /\ waiting \subseteq Event
  /\ canon \in [Order -> Snapshot] /\ held \subseteq Order /\ closed \subseteq Order
  /\ onHand \in Int /\ supplied \in 0 .. MaxSupply /\ drawn \in 0 .. MaxDraws
  /\ receipts \subseteq Event
  /\ feed \in Seq(FeedRow)
  /\ local \in [Order -> Snapshot] /\ cursor \in Nat
  /\ batch \in [Service -> SUBSET Event]
  /\ current \in [Service -> Event \cup {NoEvent}]
  /\ verdict \in [Service -> Verdict \cup {"NONE"}]
  /\ late \subseteq Event /\ faults \in 0 .. MaxFaults
  /\ page \in [rows : SUBSET PageRow, next : Nat]

\* "Revisioned streams cannot skip a permanently failed predecessor": no row is
\* deliverable while a lower revision of its order is quarantined, whichever of
\* the outbox operations ran last.
NothingPendingBehindQuarantine ==
  \A e \in Pending : Earlier(e) \cap quarantined = {}

\* What the outbox has ticked off the server has: no interleaving of answers,
\* timeouts and retries marks a row delivered that was never applied.
DeliveredIsCanonical ==
  \A e \in delivered : e \in receipts /\ canon[e.order].rev >= e.rev

\* The server applied a device's events at most once, in order and without a
\* gap, and an order is in the state its last event entered or cancelled.
CanonicalHistoryHasNoGaps ==
  /\ \A e \in receipts : \A r \in 0 .. e.rev : [order |-> e.order, rev |-> r] \in receipts
  /\ \A e \in receipts :
       (\A f \in receipts : f.order = e.order => f.rev <= e.rev) =>
         canon[e.order] = IF e.order \in closed
                          THEN Entered("ORDER_CANCELLED", e.rev + 1)
                          ELSE Entered(kind[e], e.rev)

\* Every unit is accounted for: open reservations are those of the ACTIVE orders
\* and of the orders an administrator cancelled, and stock left the shelf exactly
\* for the orders that used it up.
StockIsConserved ==
  /\ held = {o \in Order : canon[o].status = "ACTIVE"} \cup closed
  /\ onHand = InitialStock + supplied - drawn
               - Cardinality({o \in Order : canon[o].status \in Consumed})

\* "Unpaid cancellation releases its reserved inventory": no stock is held for an
\* order that is over.
ReservationsEndWithTheOrder ==
  \A o \in held : canon[o].status = "ACTIVE"

\* No two orders were promised the same unit: only stock drawn behind the
\* reservations' back can leave one unbacked.
ReservationsAreBacked == Cardinality(held) <= onHand + drawn

\* A row is quarantined only for a conflict: the order's placement found no
\* stock, or an administrator cancelled the order.  Retries, late requests and
\* crashes alone never quarantine.
OnlyConflictsQuarantine ==
  \A e \in quarantined :
    \/ e.order \in closed
    \/ [order |-> e.order, rev |-> 0] \in quarantined

\* getDeliveryStatus().quarantinedCount counts the order.
Surfaced(o) == \E e \in quarantined \ delivered : e.order = o

Quiet ==
  /\ Pending = {} /\ late = {}
  /\ \A s \in Service : Idle(s)
  /\ cursor = Len(feed) /\ page = NoPage

\* When everything has been sent, answered and pulled, the device and the server
\* agree on every order, unless the outbox reports the order as quarantined
\* (ADR 0009: never "silent stream corruption").
NoSilentDivergence ==
  Quiet => \A o \in Order : local[o] = canon[o] \/ Surfaced(o)

\* What is left of it with any number of services: a divergence always has a
\* quarantined row, though perhaps one that was marked delivered as well, which
\* quarantinedCount leaves out.
DivergenceIsQuarantined ==
  Quiet => \A o \in Order : local[o] = canon[o] \/ \E e \in quarantined : e.order = o

\* A canonical order moves one revision at a time and never after an
\* administrator cancelled it.
CanonicalOnlyAdvances ==
  [][\A o \in Order : canon'[o] # canon[o] =>
       /\ o \notin closed
       /\ canon'[o].rev = canon[o].rev + (IF canon[o].status = "NONE" THEN 0 ELSE 1)]_vars

\* Neither a stale feed page nor a reconciliation takes the device back: its
\* revision of an order never falls and a cancelled order stays cancelled.
LocalOnlyAdvances ==
  [][\A o \in Order : local'[o] # local[o] =>
       /\ local[o].status \notin {"CANCELLED", "WASTED", "RETURNED"}
       /\ local[o].status # "NONE" => local'[o].rev > local[o].rev]_vars

\* Every event that is in the outbox is delivered or quarantined in the end.
EveryEventSettles ==
  \A e \in Event : e \in Pending ~> e \notin Pending

\* An administrator's cancellation reaches the device, or the outbox reports
\* that the device had gone another way.
CancellationArrives ==
  \A o \in Order : o \in closed ~> (local[o] = canon[o] \/ Surfaced(o))

\* "Stale Operations events surface the canonical winner": an event the server
\* has overtaken is answered with the winner's status and revision.
StaleEventsSurfaceTheWinner ==
  \A s \in Service :
    (current[s] # NoEvent /\ verdict[s] = "REJECTED") =>
      ~(canon[current[s].order].rev >= current[s].rev)
=============================================================================
