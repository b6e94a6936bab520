-------------------------- MODULE DayStartRecovery --------------------------
(***************************************************************************)
(* The outbox under a wall clock that may be set back.  Rows leave in the  *)
(* order of created_at, so a later event may go before those it depends    *)
(* on.  To an event of a business day it does not have, the server answers *)
(* 425, and the device moves the day's start in front of all its other     *)
(* rows, under a new created_at; but the server's receipts cover           *)
(* created_at.  One browser, one day with one order, some sync services.   *)
(* OutboxStore has the rows of many orders under a clock that never steps. *)
(***************************************************************************)
EXTENDS Naturals, FiniteSetsExt

CONSTANTS Service,     \* instances of OutboxSyncService over the database
          NoRequest,   \* the service is not delivering
          LastInstant, \* bound: the clock reads 1 .. LastInstant
          BatchLimit,  \* rows a syncOnce lists
          MaxFaults    \* bound: requests whose answer is lost, and restarts

\* The rows, numbered in the order they are appended.
Started == 1  Placed == 2  MarkedDone == 3  Reconciled == 4  Closed == 5
Row     == 1 .. 5
Instant == 1 .. LastInstant

\* What is sent: a row with the created_at it was listed with.
Request == [row : Row, at : 0 .. LastInstant]

ASSUME RecoveryAssumption ==
  /\ LastInstant \in Nat \ {0} /\ BatchLimit \in Nat \ {0} /\ MaxFaults \in Nat
  /\ NoRequest \notin Request

VARIABLES rows, at,    \* the rows appended, and created_at of each
          delivered, quarantined, waiting, lastError,
          clock,       \* the last reading of the wall clock
          startedAt,   \* when the day was started, by that clock
          stepped,     \* history: has the clock been set back?
          batch, current, verdict,   \* of each service, as in OrderSync
          late,        \* requests given up on that may still arrive
          receipts,    \* operations_sync_event_receipts: requests applied
          faults,
          again        \* has a worker signed in again after the End Day?

outbox   == <<rows, at, delivered, quarantined, waiting, lastError>>
time     == <<clock, startedAt, stepped>>
services == <<batch, current, verdict>>
vars     == <<outbox, time, services, late, receipts, faults, again>>

Init ==
  /\ rows = {} /\ at = [e \in Row |-> 0]
  /\ delivered = {} /\ quarantined = {} /\ waiting = {}
  /\ lastError = [e \in Row |-> "NONE"]
  /\ clock = 1 /\ startedAt = 0 /\ stepped = FALSE
  /\ batch = [s \in Service |-> {}]
  /\ current = [s \in Service |-> NoRequest]
  /\ verdict = [s \in Service |-> "NONE"]
  /\ late = {} /\ receipts = {} /\ faults = 0 /\ again = FALSE
-----------------------------------------------------------------------------
(* The commands. *)

\* Mutant of Precedes: the dependents of a day's start are the whole day.
PrecedesByDay(e, f) == e = Started /\ f # Started

\* Of the same aggregate, with a lower revision.
Precedes(e, f) == <<e, f>> \in {<<Started, Closed>>, <<Placed, MarkedDone>>}

\* A command reads the clock and appends its rows in one transaction; a row
\* with a quarantined predecessor is born quarantined.
Append(new, now) ==
  LET blocked == {e \in new : \E q \in quarantined : Precedes(q, e)} IN
  /\ rows' = rows \cup new
  /\ at' = [e \in Row |-> IF e \in new THEN now ELSE at[e]]
  /\ quarantined' = quarantined \cup blocked
  /\ lastError' = [e \in Row |-> IF e \in blocked THEN "OTHER" ELSE lastError[e]]
  /\ clock' = now
  /\ stepped' = (stepped \/ now < clock)
  /\ UNCHANGED <<delivered, waiting, services, late, receipts, faults, again>>

DayIsOpen == Started \in rows /\ Closed \notin rows

StartDay(now) == rows = {} /\ Append({Started}, now) /\ startedAt' = now
PlaceOrder(now) ==
  DayIsOpen /\ Placed \notin rows /\ Append({Placed}, now) /\ UNCHANGED startedAt
MarkDone(now) ==
  /\ DayIsOpen /\ Placed \in rows /\ MarkedDone \notin rows
  /\ Append({MarkedDone}, now) /\ UNCHANGED startedAt

\* A day with an active order is not closed, nor at a time before it, and the
\* session of its operator, started.
CloseDay(now) ==
  /\ DayIsOpen /\ (Placed \in rows => MarkedDone \in rows) /\ startedAt <= now
  /\ Append({Reconciled, Closed}, now) /\ UNCHANGED startedAt
-----------------------------------------------------------------------------
(* The sync services. *)

\* Mutant of Before: rows of one instant have no order.
BeforeByTime(p, q) == p.at < q.at

\* listPending orders by created_at, then rowid.
Before(p, q) == p.at < q.at \/ (p.at = q.at /\ p.row < q.row)

Listed(e) == [row |-> e, at |-> at[e]]
Pending   == rows \ (delivered \cup quarantined)

\* A row that backs off hides all that come after it.
Due == {Listed(e) : e \in {e \in Pending \ waiting :
          ~ \E f \in Pending \cap waiting : Before(Listed(f), Listed(e))}}

StartSync(s) ==
  /\ batch[s] = {} /\ current[s] = NoRequest /\ Due # {}
  /\ \E some \in SUBSET Due :
       /\ Cardinality(some) = Min({BatchLimit, Cardinality(Due)})
       /\ \A p \in some, q \in Due \ some : ~Before(q, p)
       /\ batch' = [batch EXCEPT ![s] = some]
  /\ UNCHANGED <<outbox, time, current, verdict, late, receipts, faults, again>>

Send(s) ==
  /\ current[s] = NoRequest
  /\ \E q \in batch[s] :
       /\ \A p \in batch[s] : ~Before(p, q)
       /\ current' = [current EXCEPT ![s] = q]
       /\ batch' = [batch EXCEPT ![s] = @ \ {q}]
  /\ UNCHANGED <<outbox, time, verdict, late, receipts, faults, again>>

Applied(e) == \E q \in receipts : q.row = e

\* operations-sync: the same request again; the same event under another
\* created_at, which the receipt's digest covers; a transition of an order the
\* server lacks, for which no 425 is given; a row of a day it lacks, and its
\* close, whose 425 names no day.
Answer(q) ==
  IF q \in receipts THEN "REPLAY"
  ELSE IF Applied(q.row) \/ (q.row = MarkedDone /\ ~Applied(Placed)) THEN "REFUSED"
  ELSE IF q.row = Started \/ Applied(Started) THEN "APPLIED"
  ELSE IF q.row = Closed THEN "RETRY" ELSE "DAY_MISSING"

Ingest(q) ==
  receipts' = IF Answer(q) = "APPLIED" THEN receipts \cup {q} ELSE receipts

InFlight(s) == current[s] # NoRequest /\ verdict[s] = "NONE"

Receive(s) ==
  /\ InFlight(s)
  /\ Ingest(current[s])
  /\ verdict' = [verdict EXCEPT ![s] = Answer(current[s])]
  /\ UNCHANGED <<outbox, time, batch, current, late, faults, again>>

\* The deadline passes before the answer, or before the request, arrives.
Timeout(s) ==
  /\ InFlight(s) /\ faults < MaxFaults /\ faults' = faults + 1
  /\ late' = late \cup {current[s]}
  /\ verdict' = [verdict EXCEPT ![s] = "RETRY"]
  /\ UNCHANGED <<outbox, time, batch, current, receipts, again>>

ReceiveLate(q) ==
  /\ q \in late /\ late' = late \ {q}
  /\ Ingest(q)
  /\ UNCHANGED <<outbox, time, services, faults, again>>

\* Mutant of MovedStart: the start keeps its place.
StartStays == at[Started]

\* A millisecond before the earliest of the other rows not delivered, those
\* in quarantine included, unless it is before them already.
MovedStart ==
  LET others == {at[e] : e \in rows \ (delivered \cup {Started})} IN
  IF others # {} /\ at[Started] >= Min(others) THEN Min(others) - 1 ELSE at[Started]

\* outbox.recoverMissingBusinessDayStart: the start is sent again, whatever
\* became of it; the rows quarantined behind it stay where they are.
RecoverStart ==
  /\ at' = [at EXCEPT ![Started] = MovedStart]
  /\ delivered' = delivered \ {Started}
  /\ quarantined' = quarantined \ {Started}
  /\ waiting' = waiting \ {Started}
  /\ lastError' = [lastError EXCEPT ![Started] = "NONE"]
  /\ UNCHANGED rows

\* deliver calls #onDependencyMissing before it reports the failure.
Recover(s) ==
  /\ verdict[s] = "DAY_MISSING"
  /\ RecoverStart
  /\ verdict' = [verdict EXCEPT ![s] = "RECOVERED"]
  /\ UNCHANGED <<time, batch, current, late, receipts, faults, again>>

Settle(s, remaining) ==
  /\ batch' = [batch EXCEPT ![s] = remaining]
  /\ current' = [current EXCEPT ![s] = NoRequest]
  /\ verdict' = [verdict EXCEPT ![s] = "NONE"]
  /\ UNCHANGED <<rows, at, time, late, receipts, faults, again>>

Accept(s) ==
  /\ verdict[s] \in {"APPLIED", "REPLAY"}
  /\ delivered' = delivered \cup {current[s].row}
  /\ waiting' = waiting \ {current[s].row}
  /\ lastError' = [lastError EXCEPT ![current[s].row] = "NONE"]
  /\ UNCHANGED quarantined
  /\ Settle(s, batch[s])

\* quarantine and quarantineDependents; their later revisions leave the batch.
Refuse(s) ==
  /\ verdict[s] = "REFUSED"
  /\ LET e    == current[s].row
         gone == {e} \cup {f \in Pending : Precedes(e, f)} IN
     /\ quarantined' = quarantined \cup gone
     /\ waiting' = waiting \ gone
     /\ lastError' = [f \in Row |-> IF f \in gone THEN "OTHER" ELSE lastError[f]]
     /\ UNCHANGED delivered
     /\ Settle(s, {q \in batch[s] : ~Precedes(e, q.row)})

\* recordFailure, and syncOnce returns.
Retry(s) ==
  /\ verdict[s] \in {"RETRY", "RECOVERED"}
  /\ waiting' = waiting \cup {current[s].row}
  /\ lastError' = [lastError EXCEPT ![current[s].row] =
                     IF verdict[s] = "RECOVERED" THEN "DAY_MISSING" ELSE "OTHER"]
  /\ UNCHANGED <<delivered, quarantined>>
  /\ Settle(s, {})

Elapse(e) ==
  /\ e \in waiting /\ waiting' = waiting \ {e}
  /\ UNCHANGED <<rows, at, delivered, quarantined, lastError,
                 time, services, late, receipts, faults, again>>

\* getDeliveryStatus: the error of the newest undelivered row that has one.
Diagnosed ==
  LET failed == {e \in rows \ delivered : lastError[e] # "NONE"} IN
  \E e \in failed : lastError[e] = "DAY_MISSING" /\ \A f \in failed : at[f] <= at[e]

\* startBrowserAutomaticSync: a day start found missing before is recovered.
RecoverPrevious == IF Diagnosed THEN RecoverStart ELSE UNCHANGED outbox

\* The operator of an open day stays signed in until the End Day.
SignedIn == DayIsOpen \/ again

\* The page is loaded again: what is in memory is lost, what is on its way may
\* arrive, and the sync runtime starts if a worker is signed in.
Restart ==
  /\ faults < MaxFaults /\ faults' = faults + 1
  /\ rows # {}
  /\ batch' = [s \in Service |-> {}]
  /\ current' = [s \in Service |-> NoRequest]
  /\ verdict' = [s \in Service |-> "NONE"]
  /\ late' = late \cup {current[s] : s \in {s \in Service : InFlight(s)}}
  /\ IF SignedIn THEN RecoverPrevious ELSE UNCHANGED outbox
  /\ UNCHANGED <<time, receipts, again>>

\* The End Day flushes once, and reloads the page with no sync runtime; a later
\* login, which drains first, starts one.  (A delivery cut off by that reload is
\* a Restart's.)  Bound: one such login, and its worker stays.
SignIn ==
  /\ Closed \in rows /\ ~again /\ again' = TRUE
  /\ \A s \in Service : batch[s] = {} /\ current[s] = NoRequest
  /\ RecoverPrevious
  /\ UNCHANGED <<time, services, late, receipts, faults>>
-----------------------------------------------------------------------------
Command == \E now \in Instant :
             StartDay(now) \/ PlaceOrder(now) \/ MarkDone(now) \/ CloseDay(now)

Sync(s) == StartSync(s) \/ Send(s) \/ Receive(s) \/ Recover(s) \/ Accept(s)
             \/ Refuse(s) \/ Retry(s)

Next ==
  \/ Command
  \/ \E s \in Service : Sync(s) \/ Timeout(s)
  \/ \E q \in late : ReceiveLate(q)
  \/ \E e \in Row : Elapse(e)
  \/ Restart \/ SignIn

Spec == Init /\ [][Next]_vars

\* While a worker is signed in the scheduler ticks and a request ends; a
\* back-off runs out.  After the End Day there is one flush (closeDay in
\* sessionClient) and the drain of a login that may come: Sync stays possible,
\* and nothing makes it until somebody has signed in.
FairSpec == /\ Spec
            /\ \A s \in Service : WF_vars(SignedIn /\ Sync(s))
            /\ \A e \in Row : WF_vars(Elapse(e))
-----------------------------------------------------------------------------
\* Unless the clock is set back, the server takes in the rows in the order the
\* commands appended them, whatever is lost, late, or sent by two services,
\* and refuses none of them (listPending, recordFailure, syncOnce).
InOrderUnlessTheClockSteps ==
  ~stepped => /\ quarantined = {}
              /\ \A e, f \in Row : e < f /\ f \in rows /\ Applied(f) => Applied(e) \/ e \notin rows

\* A refusal loses nothing the server does not have: a refused day start is
\* one it has applied, and no placement and no reconciliation is refused;
\* only a transition that overtook its placement, or the close of a day whose
\* start was refused, is left behind (recoverMissingBusinessDayStart).
RefusedStartIsKnown ==
  /\ Started \in quarantined => Applied(Started)
  /\ {Placed, Reconciled} \cap quarantined = {}
  /\ Closed \in quarantined => Applied(Started)

\* However the clock is set, and although a recovered row leaves again: where
\* workers stay signed in, or sign in again after the End Day, every row is in
\* the end delivered or refused, and stays so (the recovery moves the start far
\* enough for the rows behind it, and is not repeated for ever).  Where nobody
\* signs in, the rows of the End Day may stay in the outbox.
EveryRowSettles == <>[]SignedIn => <>[](Pending = {})

\* Refuted.  The close of a day is not refused: a recovered start that an
\* earlier request of it overtook is, and takes the close with it, so that the
\* day stays open at the server (RecoverStart, Answer).
DayEndIsNotRefused == Closed \notin quarantined

\* Refuted.  A transition that goes before its placement is sent again after
\* it, as recoverMissingOrderPlacement intends: the server refuses it before
\* it would answer 425 (assert_order_transition_precondition_v1).
TransitionWaitsForItsOrder == MarkedDone \notin quarantined
=============================================================================
