----------------------- MODULE DayStartRecoveryProofs -----------------------
(***************************************************************************)
(* Whatever is lost or late, and for any number of services: a refused day *)
(* start is one the server has, however the clock is set, and the rows are *)
(* applied in the order of the commands, unless it is set back.            *)
(***************************************************************************)
EXTENDS DayStartRecovery, TLAPS

\* The rows' columns are functions, and the two rows of a close come together.
RowsInv ==
  /\ rows \subseteq Row
  /\ at = [e \in Row |-> at[e]]
  /\ Reconciled \in rows => Closed \in rows

ServicesInv ==
  /\ batch = [s \in Service |-> batch[s]]
  /\ current = [s \in Service |-> current[s]]
  /\ verdict = [s \in Service |-> verdict[s]]

\* A request is of a row; only that of a day start may differ from the row as
\* it is now, since only a start is ever moved.
Faithful(q) == q.row \in rows /\ (q.row # Started => q = Listed(q.row))

RequestsInv ==
  /\ \A s \in Service : \A q \in batch[s] : Faithful(q)
  /\ \A s \in Service : current[s] # NoRequest => Faithful(current[s])
  /\ \A q \in late : Faithful(q)
  /\ \A q \in receipts : Faithful(q)

\* What is refused is a start the server has, or a transition.
Refusable(e) == e = MarkedDone \/ (e = Started /\ Applied(Started))

VerdictInv ==
  \A s \in Service :
    verdict[s] = "REFUSED" => current[s] # NoRequest /\ Refusable(current[s].row)

RecoveryInv == RowsInv /\ ServicesInv /\ RequestsInv /\ VerdictInv /\ RefusedStartIsKnown

LEMMA RecoveryInit == ASSUME Init PROVE RecoveryInv
BY DEF Init, RecoveryInv, RowsInv, ServicesInv, RequestsInv, VerdictInv, RefusedStartIsKnown

\* The answers: a receipt under another created_at exists for a start only.
LEMMA RefusedIsRefusable ==
  ASSUME RecoveryInv, NEW q, Faithful(q), Answer(q) = "REFUSED"
  PROVE  Refusable(q.row)
<1>1. q \notin receipts /\ (Applied(q.row) \/ q.row = MarkedDone)
  BY DEF Answer
<1>2. CASE q.row \notin {Started, MarkedDone}
  <2>1. PICK p \in receipts : p.row = q.row
    BY <1>1, <1>2 DEF Applied
  <2>2. p = Listed(p.row) /\ q = Listed(q.row)
    BY <1>2, <2>1 DEF RecoveryInv, RequestsInv, Faithful
  <2> QED
    BY <1>1, <2>1, <2>2
<1>3. CASE q.row \in {Started, MarkedDone}
  BY <1>1, <1>3 DEF Refusable, Started, MarkedDone
<1> QED
  BY <1>2, <1>3

\* A command appends rows that were not there.
LEMMA AppendKeeps ==
  ASSUME RecoveryInv, NEW new, NEW now, Append(new, now),
         new \subseteq Row, new \cap rows = {},
         Reconciled \in new => Closed \in new
  PROVE  RecoveryInv'
<1>1. /\ rows' = rows \cup new
      /\ at' = [e \in Row |-> IF e \in new THEN now ELSE at[e]]
      /\ UNCHANGED <<batch, current, verdict, late, receipts>>
  BY DEF Append, services
<1>2. RowsInv' /\ ServicesInv'
  BY <1>1 DEF RecoveryInv, RowsInv, ServicesInv
<1>3. \A q : Faithful(q) => Faithful(q)'
  BY <1>1 DEF RecoveryInv, RowsInv, Faithful, Listed
<1>4. RequestsInv' /\ VerdictInv'
  BY <1>1, <1>3 DEF RecoveryInv, RequestsInv, VerdictInv, Refusable, Applied
<1>5. RefusedStartIsKnown'
  <2>1. quarantined' = quarantined \cup {e \in new : \E q \in quarantined : Precedes(q, e)}
    BY DEF Append
  <2> QED
    BY <1>1, <2>1 DEF RecoveryInv, RefusedStartIsKnown, Precedes, Applied,
                      Started, Placed, MarkedDone, Reconciled, Closed
<1> QED
  BY <1>2, <1>4, <1>5 DEF RecoveryInv

LEMMA CommandKeeps == ASSUME RecoveryInv, Command PROVE RecoveryInv'
<1> PICK now \in Instant : StartDay(now) \/ PlaceOrder(now) \/ MarkDone(now) \/ CloseDay(now)
  BY DEF Command
<1>1. \E new : /\ Append(new, now) /\ new \subseteq Row /\ new \cap rows = {}
               /\ Reconciled \in new => Closed \in new
  <2>1. CASE StartDay(now)
    <3> WITNESS {Started}
    <3> QED BY <2>1 DEF StartDay, Row, Started, Reconciled
  <2>2. CASE PlaceOrder(now)
    <3> WITNESS {Placed}
    <3> QED BY <2>2 DEF PlaceOrder, Row, Placed, Reconciled
  <2>3. CASE MarkDone(now)
    <3> WITNESS {MarkedDone}
    <3> QED BY <2>3 DEF MarkDone, Row, MarkedDone, Reconciled
  <2>4. CASE CloseDay(now)
    <3> WITNESS {Reconciled, Closed}
    <3> QED BY <2>4 DEF CloseDay, DayIsOpen, RecoveryInv, RowsInv, Row, Reconciled, Closed
  <2> QED
    BY <2>1, <2>2, <2>3, <2>4
<1> QED
  BY <1>1, AppendKeeps

\* Receipts are added only, of faithful requests.
LEMMA IngestKeeps ==
  ASSUME RecoveryInv, NEW q, Faithful(q), Ingest(q), UNCHANGED outbox
  PROVE  /\ RowsInv' /\ RefusedStartIsKnown'
         /\ \A e : Refusable(e) => Refusable(e)'
         /\ \A p \in receipts' : Faithful(p)'
         /\ \A p : Faithful(p) => Faithful(p)'
<1>1. receipts' \in {receipts, receipts \cup {q}}
  BY DEF Ingest
<1>2. \A e : Applied(e) => Applied(e)'
  BY <1>1 DEF Applied
<1>3. \A p : Faithful(p) => Faithful(p)'
  BY DEF Faithful, Listed, outbox
<1>4. \A p \in receipts' : Faithful(p)
  BY <1>1 DEF RecoveryInv, RequestsInv
<1> QED
  BY <1>2, <1>3, <1>4 DEF RecoveryInv, RowsInv, RefusedStartIsKnown, Refusable, outbox

\* A recovery moves the start, and takes it out of quarantine.
LEMMA RecoverStartKeeps ==
  ASSUME RecoveryInv, RecoverStart, UNCHANGED receipts
  PROVE  /\ RowsInv' /\ RefusedStartIsKnown'
         /\ \A e : Refusable(e) => Refusable(e)'
         /\ \A p : Faithful(p) => Faithful(p)'
<1>1. /\ rows' = rows /\ quarantined' = quarantined \ {Started}
      /\ at' = [at EXCEPT ![Started] = MovedStart]
  BY DEF RecoverStart
<1>2. RowsInv'
  BY <1>1 DEF RecoveryInv, RowsInv
<1>3. \A p : Faithful(p) => Faithful(p)'
  BY <1>1 DEF RecoveryInv, RowsInv, Faithful, Listed
<1> QED
  BY <1>1, <1>2, <1>3 DEF RecoveryInv, RefusedStartIsKnown, Refusable, Applied

LEMMA SyncKeeps == ASSUME RecoveryInv, NEW s \in Service, Sync(s) PROVE RecoveryInv'
<1>1. CASE StartSync(s)
  <2>1. PICK some \in SUBSET Due : batch' = [batch EXCEPT ![s] = some]
    BY <1>1 DEF StartSync
  <2>2. \A q \in some : Faithful(q)
    <3> TAKE q \in some
    <3>1. PICK e \in Pending : q = Listed(e)
      BY <2>1 DEF Due
    <3>2. e \in rows /\ q.row = e
      BY <3>1 DEF Pending, Listed
    <3> QED
      BY <3>1, <3>2 DEF Faithful
  <2>3. UNCHANGED <<rows, at, quarantined, current, verdict, late, receipts>>
    BY <1>1 DEF StartSync, outbox
  <2> QED
    BY <2>1, <2>2, <2>3 DEF RecoveryInv, RowsInv, ServicesInv, RequestsInv, VerdictInv,
         RefusedStartIsKnown, Refusable, Applied, Faithful, Listed
<1>2. CASE Send(s)
  <2>1. PICK q \in batch[s] : /\ current' = [current EXCEPT ![s] = q]
                              /\ batch' = [batch EXCEPT ![s] = @ \ {q}]
    BY <1>2 DEF Send
  <2>2. UNCHANGED <<rows, at, quarantined, verdict, late, receipts>> /\ current[s] = NoRequest
    BY <1>2 DEF Send, outbox
  <2>3. RowsInv' /\ ServicesInv' /\ RequestsInv' /\ RefusedStartIsKnown'
    BY <2>1, <2>2 DEF RecoveryInv, RowsInv, ServicesInv, RequestsInv,
         RefusedStartIsKnown, Applied, Faithful, Listed
  <2> QED
    BY <2>1, <2>2, <2>3 DEF RecoveryInv, VerdictInv, Refusable, Applied, ServicesInv
<1>3. CASE Receive(s)
  <2>1. current[s] # NoRequest /\ Faithful(current[s]) /\ Ingest(current[s])
    BY <1>3 DEF Receive, InFlight, RecoveryInv, RequestsInv
  <2>2. /\ verdict' = [verdict EXCEPT ![s] = Answer(current[s])]
        /\ UNCHANGED <<outbox, batch, current, late>>
    BY <1>3 DEF Receive
  <2>3. Answer(current[s]) = "REFUSED" => Refusable(current[s].row)
    BY <2>1, RefusedIsRefusable
  <2>4. /\ RowsInv' /\ RefusedStartIsKnown'
        /\ \A e : Refusable(e) => Refusable(e)'
        /\ \A p \in receipts' : Faithful(p)'
        /\ \A p : Faithful(p) => Faithful(p)'
    BY <2>1, <2>2, IngestKeeps
  <2>5. ServicesInv' /\ RequestsInv'
    BY <2>2, <2>4 DEF RecoveryInv, ServicesInv, RequestsInv
  <2>6. VerdictInv'
    BY <2>1, <2>2, <2>3, <2>4 DEF RecoveryInv, ServicesInv, VerdictInv
  <2> QED
    BY <2>4, <2>5, <2>6 DEF RecoveryInv
<1>4. CASE Recover(s)
  <2>1. /\ RecoverStart /\ UNCHANGED <<batch, current, late, receipts>>
        /\ verdict' = [verdict EXCEPT ![s] = "RECOVERED"]
    BY <1>4 DEF Recover
  <2>2. /\ RowsInv' /\ RefusedStartIsKnown'
        /\ \A e : Refusable(e) => Refusable(e)'
        /\ \A p : Faithful(p) => Faithful(p)'
    BY <2>1, RecoverStartKeeps
  <2> QED
    BY <2>1, <2>2 DEF RecoveryInv, ServicesInv, RequestsInv, VerdictInv
<1>5. ASSUME NEW remaining, remaining \subseteq batch[s], Settle(s, remaining)
      PROVE  /\ RowsInv' /\ ServicesInv' /\ RequestsInv' /\ VerdictInv'
             /\ \A e : Applied(e)' <=> Applied(e)
  <2>1. /\ batch' = [batch EXCEPT ![s] = remaining]
        /\ current' = [current EXCEPT ![s] = NoRequest]
        /\ verdict' = [verdict EXCEPT ![s] = "NONE"]
        /\ UNCHANGED <<rows, at, late, receipts>>
    BY <1>5 DEF Settle
  <2>2. \A p : Faithful(p) => Faithful(p)'
    BY <2>1 DEF Faithful, Listed
  <2>3. \A e : (Applied(e)' <=> Applied(e)) /\ (Refusable(e) => Refusable(e)')
    BY <2>1 DEF Applied, Refusable
  <2>4. RowsInv' /\ ServicesInv'
    BY <2>1 DEF RecoveryInv, RowsInv, ServicesInv
  <2>5. RequestsInv'
    BY <1>5, <2>1, <2>2 DEF RecoveryInv, ServicesInv, RequestsInv
  <2>6. VerdictInv'
    BY <2>1, <2>3 DEF RecoveryInv, ServicesInv, VerdictInv
  <2> QED
    BY <2>3, <2>4, <2>5, <2>6
<1>6. CASE Accept(s) \/ Retry(s)
  <2>1. UNCHANGED quarantined /\ (Settle(s, batch[s]) \/ Settle(s, {}))
    BY <1>6 DEF Accept, Retry
  <2>2. RowsInv' /\ ServicesInv' /\ RequestsInv' /\ VerdictInv'
          /\ \A e : Applied(e)' <=> Applied(e)
    BY <1>5, <2>1
  <2> QED
    BY <2>1, <2>2 DEF RecoveryInv, RefusedStartIsKnown
<1>7. CASE Refuse(s)
  <2> DEFINE e == current[s].row
  <2>1. /\ Refusable(e) /\ Settle(s, {q \in batch[s] : ~Precedes(e, q.row)})
        /\ quarantined' = quarantined \cup {e} \cup {f \in Pending : Precedes(e, f)}
    BY <1>7 DEF Refuse, RecoveryInv, VerdictInv
  <2>2. RowsInv' /\ ServicesInv' /\ RequestsInv' /\ VerdictInv'
          /\ \A f : Applied(f)' <=> Applied(f)
    BY <1>5, <2>1
  <2>3. \A f : Precedes(e, f) => e = Started /\ f = Closed
    BY <2>1 DEF Refusable, Precedes, Started, Placed, MarkedDone, Closed
  <2>4. RefusedStartIsKnown'
    BY <2>1, <2>2, <2>3 DEF RecoveryInv, RefusedStartIsKnown, Refusable,
         Started, Placed, MarkedDone, Reconciled, Closed
  <2> QED
    BY <2>2, <2>4 DEF RecoveryInv
<1> QED
  BY <1>1, <1>2, <1>3, <1>4, <1>6, <1>7 DEF Sync

\* What goes wrong leaves the requests as they are, wherever they are.
LEMMA FaultKeeps ==
  ASSUME RecoveryInv,
         \/ \E s \in Service : Timeout(s)
         \/ \E q \in late : ReceiveLate(q)
         \/ \E e \in Row : Elapse(e)
         \/ Restart \/ SignIn
  PROVE  RecoveryInv'
<1>1. ASSUME NEW s \in Service, Timeout(s) PROVE RecoveryInv'
  <2>1. /\ late' = late \cup {current[s]} /\ current[s] # NoRequest
        /\ verdict' = [verdict EXCEPT ![s] = "RETRY"]
        /\ UNCHANGED <<outbox, batch, current, receipts>>
    BY <1>1 DEF Timeout, InFlight
  <2>2. Faithful(current[s])
    BY <2>1 DEF RecoveryInv, RequestsInv
  <2>3. \A p : Faithful(p)' <=> Faithful(p)
    BY <2>1 DEF Faithful, Listed, outbox
  <2>4. RequestsInv'
    BY <2>1, <2>2, <2>3 DEF RecoveryInv, RequestsInv
  <2>5. VerdictInv' /\ ServicesInv'
    BY <2>1 DEF RecoveryInv, ServicesInv, VerdictInv, Refusable, Applied
  <2> QED
    BY <2>1, <2>4, <2>5 DEF RecoveryInv, RowsInv, RefusedStartIsKnown, Applied, outbox
<1>2. ASSUME NEW q \in late, ReceiveLate(q) PROVE RecoveryInv'
  <2>1. /\ Faithful(q) /\ Ingest(q) /\ late' = late \ {q}
        /\ UNCHANGED <<outbox, batch, current, verdict>>
    BY <1>2 DEF ReceiveLate, services, RecoveryInv, RequestsInv
  <2>2. /\ RowsInv' /\ RefusedStartIsKnown'
        /\ \A e : Refusable(e) => Refusable(e)'
        /\ \A p \in receipts' : Faithful(p)'
        /\ \A p : Faithful(p) => Faithful(p)'
    BY <2>1, IngestKeeps
  <2> QED
    BY <2>1, <2>2 DEF RecoveryInv, ServicesInv, RequestsInv, VerdictInv
<1>3. ASSUME NEW e \in Row, Elapse(e) PROVE RecoveryInv'
  <2>1. UNCHANGED <<rows, at, quarantined, batch, current, verdict, late, receipts>>
    BY <1>3 DEF Elapse, services
  <2> QED
    BY <2>1 DEF RecoveryInv, RowsInv, ServicesInv, RequestsInv, VerdictInv,
         RefusedStartIsKnown, Refusable, Applied, Faithful, Listed
<1>4. CASE Restart
  <2>1. /\ batch' = [s \in Service |-> {}]
        /\ current' = [s \in Service |-> NoRequest]
        /\ verdict' = [s \in Service |-> "NONE"]
        /\ late' = late \cup {current[s] : s \in {s \in Service : InFlight(s)}}
        /\ UNCHANGED receipts
        /\ RecoverStart \/ UNCHANGED outbox
    BY <1>4 DEF Restart, RecoverPrevious
  <2>2. RowsInv' /\ RefusedStartIsKnown' /\ \A p : Faithful(p) => Faithful(p)'
    <3>1. CASE RecoverStart
      BY <2>1, <3>1, RecoverStartKeeps
    <3>2. CASE UNCHANGED outbox
      BY <2>1, <3>2 DEF RecoveryInv, RowsInv, RefusedStartIsKnown, Applied, Faithful,
           Listed, outbox
    <3> QED
      BY <2>1, <3>1, <3>2
  <2>3. \A q \in late' : Faithful(q)
    BY <2>1 DEF RecoveryInv, RequestsInv, InFlight
  <2>4. RequestsInv'
    BY <2>1, <2>2, <2>3 DEF RecoveryInv, RequestsInv
  <2>5. ServicesInv' /\ VerdictInv'
    BY <2>1 DEF ServicesInv, VerdictInv
  <2> QED
    BY <2>2, <2>4, <2>5 DEF RecoveryInv
<1>5. CASE SignIn
  <2>1. /\ UNCHANGED <<batch, current, verdict, late, receipts>>
        /\ RecoverStart \/ UNCHANGED outbox
    BY <1>5 DEF SignIn, RecoverPrevious, services
  <2>2. CASE RecoverStart
    <3>1. /\ RowsInv' /\ RefusedStartIsKnown'
          /\ \A e : Refusable(e) => Refusable(e)'
          /\ \A p : Faithful(p) => Faithful(p)'
      BY <2>1, <2>2, RecoverStartKeeps
    <3> QED
      BY <2>1, <3>1 DEF RecoveryInv, ServicesInv, RequestsInv, VerdictInv
  <2>3. CASE UNCHANGED outbox
    BY <2>1, <2>3 DEF RecoveryInv, RowsInv, ServicesInv, RequestsInv, VerdictInv,
         RefusedStartIsKnown, Refusable, Applied, Faithful, Listed, outbox
  <2> QED
    BY <2>1, <2>2, <2>3
<1> QED
  BY <1>1, <1>2, <1>3, <1>4, <1>5

LEMMA RecoveryInductive ==
  /\ Init => RecoveryInv
  /\ RecoveryInv /\ [Next]_vars => RecoveryInv'
<1>1. ASSUME RecoveryInv, UNCHANGED vars PROVE RecoveryInv'
  <2>1. UNCHANGED <<rows, at, quarantined, batch, current, verdict, late, receipts>>
    BY <1>1 DEF vars, outbox, services
  <2> QED
    BY <1>1, <2>1 DEF RecoveryInv, RowsInv, ServicesInv, RequestsInv, VerdictInv,
         RefusedStartIsKnown, Refusable, Applied, Faithful, Listed
<1> QED
  BY <1>1, RecoveryInit, CommandKeeps, SyncKeeps, FaultKeeps DEF Next

\* A day start is refused only if the server has applied it, no placement and
\* no reconciliation ever is, and a close only behind its start.
THEOREM RefusalsAreKnown == Spec => []RefusedStartIsKnown
<1>1. RecoveryInv => RefusedStartIsKnown
  BY DEF RecoveryInv
<1> QED
  BY <1>1, RecoveryInductive, PTL DEF Spec
-----------------------------------------------------------------------------
(* While the clock has not been set back, the requests keep the order of   *)
(* the commands.                                                           *)

\* The commands append the rows of a day in their order.
AppendedInv ==
  /\ rows # {} => Started \in rows
  /\ MarkedDone \in rows => Placed \in rows
  /\ Closed \in rows <=> Reconciled \in rows

\* created_at never decreases along the rows, and no row is ever moved.
ClockInv ==
  /\ \A e \in rows : at[e] \in 1 .. clock
  /\ \A e, f \in rows : e < f => at[e] <= at[f]

\* A request may leave when the server has every row before its own.
Ready(q) ==
  /\ q.row \in rows /\ q = Listed(q.row)
  /\ \A e \in rows : e < q.row => Applied(e)

\* In a batch, a row may also wait for one before it in the batch or under way.
Queued(s) ==
  \A q \in batch[s] :
    /\ q.row \in rows /\ q = Listed(q.row)
    /\ \A e \in rows : e < q.row =>
         Applied(e) \/ Listed(e) \in batch[s] \/ current[s] = Listed(e)

\* Nothing is refused or found missing.
StoreCalm ==
  /\ quarantined = {}
  /\ \A e \in delivered : Applied(e)
  /\ lastError = [e \in Row |-> lastError[e]]
  /\ \A e \in Row : lastError[e] # "DAY_MISSING"

ServiceCalm(s) ==
  /\ Queued(s)
  /\ current[s] # NoRequest => Ready(current[s])
  /\ verdict[s] \in {"NONE", "APPLIED", "REPLAY", "RETRY"}
  /\ verdict[s] \in {"APPLIED", "REPLAY"} => current[s] # NoRequest /\ Applied(current[s].row)

CalmInv ==
  /\ ClockInv /\ StoreCalm
  /\ \A q \in late : Ready(q)
  /\ \A q \in receipts : Ready(q)
  /\ \A s \in Service : ServiceCalm(s)

OrderInv ==
  /\ RecoveryInv /\ AppendedInv /\ clock \in Instant
  /\ ~stepped => CalmInv

LEMMA OrderInit == ASSUME Init PROVE OrderInv
<1>1. AppendedInv /\ ClockInv
  BY DEF Init, AppendedInv, ClockInv
<1>2. StoreCalm
  BY DEF Init, StoreCalm
<1>3. \A s \in Service : ServiceCalm(s)
  BY DEF Init, ServiceCalm, Queued
<1>4. clock \in Instant /\ late = {} /\ receipts = {}
  BY RecoveryAssumption DEF Init, Instant
<1> QED
  BY <1>1, <1>2, <1>3, <1>4, RecoveryInit DEF OrderInv, CalmInv

\* A listed row is never taken for no request.
LEMMA ListedIsARequest ==
  ASSUME OrderInv, CalmInv
  PROVE  \A e \in rows : Listed(e) # NoRequest
<1> TAKE e \in rows
<1>1. e \in Row /\ at[e] \in 1 .. clock /\ clock \in 1 .. LastInstant /\ LastInstant \in Nat
  BY RecoveryAssumption DEF OrderInv, RecoveryInv, RowsInv, CalmInv, ClockInv, Instant
<1>2. at[e] \in 0 .. LastInstant
  BY <1>1
<1>3. Listed(e) \in Request
  BY <1>1, <1>2 DEF Listed, Request
<1> QED
  BY <1>3, RecoveryAssumption

\* A command appends rows behind all the rows there are.
LEMMA CommandAppends ==
  ASSUME OrderInv, Command
  PROVE  /\ AppendedInv'
         /\ \E now \in Instant, new \in SUBSET Row :
              Append(new, now) /\ \A e \in rows, f \in new : e < f
<1> USE DEF Started, Placed, MarkedDone, Reconciled, Closed
<1>1. /\ AppendedInv /\ rows \subseteq Row
  BY DEF OrderInv, RecoveryInv, RowsInv
<1>2. PICK now \in Instant : StartDay(now) \/ PlaceOrder(now) \/ MarkDone(now) \/ CloseDay(now)
  BY DEF Command
<1>3. CASE StartDay(now)
  <2>1. Append({Started}, now) /\ rows = {} /\ {Started} \in SUBSET Row
    BY <1>3 DEF StartDay, Row
  <2>2. rows' = {Started}
    BY <2>1 DEF Append
  <2> QED
    BY <2>1, <2>2 DEF AppendedInv
<1>4. CASE PlaceOrder(now)
  <2>1. /\ Append({Placed}, now) /\ {Placed} \in SUBSET Row
        /\ 5 \notin rows /\ 2 \notin rows
    BY <1>4 DEF PlaceOrder, DayIsOpen, Row
  <2>2. \A e \in rows, f \in {Placed} : e < f
    BY <1>1, <2>1 DEF AppendedInv, Row
  <2>3. rows' = rows \cup {Placed}
    BY <2>1 DEF Append
  <2>4. AppendedInv'
    BY <1>1, <1>4, <2>3 DEF AppendedInv, PlaceOrder, DayIsOpen
  <2> QED
    BY <2>1, <2>2, <2>4
<1>5. CASE MarkDone(now)
  <2>1. /\ Append({MarkedDone}, now) /\ {MarkedDone} \in SUBSET Row
        /\ 5 \notin rows /\ 3 \notin rows /\ 2 \in rows
    BY <1>5 DEF MarkDone, DayIsOpen, Row
  <2>2. \A e \in rows, f \in {MarkedDone} : e < f
    BY <1>1, <2>1 DEF AppendedInv, Row
  <2>3. rows' = rows \cup {MarkedDone}
    BY <2>1 DEF Append
  <2>4. AppendedInv'
    BY <1>1, <2>1, <2>3 DEF AppendedInv
  <2> QED
    BY <2>1, <2>2, <2>4
<1>6. CASE CloseDay(now)
  <2>1. /\ Append({Reconciled, Closed}, now) /\ {Reconciled, Closed} \in SUBSET Row
        /\ 5 \notin rows /\ 1 \in rows
    BY <1>6 DEF CloseDay, DayIsOpen, Row
  <2>2. \A e \in rows, f \in {Reconciled, Closed} : e < f
    BY <1>1, <2>1 DEF AppendedInv, Row
  <2>3. rows' = rows \cup {Reconciled, Closed}
    BY <2>1 DEF Append
  <2>4. AppendedInv'
    BY <1>1, <2>1, <2>3 DEF AppendedInv
  <2> QED
    BY <2>1, <2>2, <2>4
<1> QED
  BY <1>2, <1>3, <1>4, <1>5, <1>6

LEMMA CommandStaysCalm ==
  ASSUME OrderInv, Command, ~stepped'
  PROVE  CalmInv'
<1>1. PICK now \in Instant, new \in SUBSET Row :
        Append(new, now) /\ \A e \in rows, f \in new : e < f
  BY CommandAppends
<1>2. CalmInv /\ clock <= now
  <2>1. stepped' = (stepped \/ now < clock)
    BY <1>1 DEF Append
  <2>2. ~stepped /\ ~(now < clock)
    BY <2>1
  <2> QED
    BY <2>2 DEF OrderInv, Instant
<1>3. /\ rows' = rows \cup new
      /\ at' = [e \in Row |-> IF e \in new THEN now ELSE at[e]]
      /\ clock' = now
      /\ UNCHANGED <<delivered, batch, current, verdict, late, receipts>>
  BY <1>1 DEF Append, services
<1>4. rows \subseteq Row /\ rows \cap new = {}
  <2>1. rows \subseteq Row
    BY DEF OrderInv, RecoveryInv, RowsInv
  <2>2. \A e \in rows : ~(e < e)
    BY <2>1 DEF Row
  <2> QED
    BY <1>1, <2>1, <2>2
<1>5. \A e \in rows : at'[e] = at[e] /\ Listed(e)' = Listed(e)
  BY <1>3, <1>4 DEF Listed
<1>6. \A e : Applied(e)' <=> Applied(e)
  BY <1>3 DEF Applied
<1>7. \A e \in rows', f \in rows : e < f => e \in rows
  BY <1>1, <1>3, <1>4 DEF Row
<1>8. ClockInv'
  <2>1. clock \in Int /\ now \in Int /\ 1 <= now
    BY DEF Instant, OrderInv
  <2>2. \A e \in new : at'[e] = now
    BY <1>3
  <2>3. \A e \in rows : at[e] \in 1 .. clock
    BY <1>2 DEF CalmInv, ClockInv
  <2>4. \A e \in rows' : at'[e] \in 1 .. clock'
    BY <1>2, <1>3, <1>5, <2>1, <2>2, <2>3
  <2>5. ASSUME NEW e \in rows', NEW f \in rows', e < f
        PROVE  at'[e] <= at'[f]
    <3>1. CASE f \in rows
      BY <1>2, <1>5, <1>7, <2>5, <3>1 DEF CalmInv, ClockInv
    <3>2. CASE f \in new
      BY <1>3, <2>2, <2>4, <3>2
    <3> QED
      BY <1>3, <3>1, <3>2
  <2> QED
    BY <2>4, <2>5 DEF ClockInv
<1>9. StoreCalm'
  <2>1. /\ quarantined' = {}
        /\ lastError' = [e \in Row |-> lastError[e]]
    <3> DEFINE blocked == {e \in new : \E q \in quarantined : Precedes(q, e)}
    <3>1. blocked = {}
      BY <1>2 DEF CalmInv, StoreCalm
    <3>2. /\ quarantined' = quarantined \cup blocked
          /\ lastError' = [e \in Row |-> IF e \in blocked THEN "OTHER" ELSE lastError[e]]
      BY <1>1 DEF Append
    <3> QED
      BY <1>2, <3>1, <3>2 DEF CalmInv, StoreCalm
  <2> QED
    BY <1>2, <1>3, <1>6, <2>1 DEF CalmInv, StoreCalm
<1>10. \A q : Ready(q) => Ready(q)'
  BY <1>3, <1>5, <1>6, <1>7 DEF Ready
<1>11. \A s \in Service : Queued(s) => Queued(s)'
  BY <1>3, <1>5, <1>6, <1>7 DEF Queued
<1>12. \A s \in Service : ServiceCalm(s)'
  BY <1>2, <1>3, <1>6, <1>10, <1>11 DEF CalmInv, ServiceCalm
<1> QED
  BY <1>2, <1>3, <1>8, <1>9, <1>10, <1>12 DEF CalmInv

\* The server answers a ready request with what it asks for, and then has it.
LEMMA ReadyIsTaken ==
  ASSUME OrderInv, CalmInv, NEW q, Ready(q), Ingest(q), UNCHANGED <<rows, at>>
  PROVE  /\ Answer(q) \in {"APPLIED", "REPLAY"}
         /\ Applied(q.row)'
         /\ \A e : Applied(e) => Applied(e)'
         /\ \A p : Ready(p) => Ready(p)'
         /\ \A p \in receipts' : Ready(p)'
<1> USE DEF Started, Placed, MarkedDone, Reconciled, Closed
<1>1. /\ q.row \in rows /\ q = Listed(q.row)
      /\ \A e \in rows : e < q.row => Applied(e)
  BY DEF Ready
<1>2. /\ rows \subseteq Row /\ 1 \in rows
      /\ q.row = 3 => 2 \in rows
  BY <1>1 DEF OrderInv, RecoveryInv, RowsInv, AppendedInv
<1>3. ASSUME Applied(q.row) PROVE q \in receipts
  <2>1. PICK p \in receipts : p.row = q.row
    BY <1>3 DEF Applied
  <2>2. p = Listed(p.row)
    BY <2>1 DEF CalmInv, Ready
  <2> QED
    BY <1>1, <2>1, <2>2
<1>4. q.row = 3 => Applied(2)
  BY <1>1, <1>2
<1>5. q.row = 1 \/ Applied(1)
  <2>1. q.row \in 1 .. 5
    BY <1>1, <1>2 DEF Row
  <2>2. q.row = 1 \/ 1 < q.row
    BY <2>1
  <2> QED
    BY <1>1, <1>2, <2>2
<1>6. Answer(q) \in {"APPLIED", "REPLAY"}
  BY <1>3, <1>4, <1>5 DEF Answer
<1>7. receipts' \in {receipts, receipts \cup {q}} /\ q \in receipts'
  BY <1>6 DEF Ingest, Answer
<1>8. Applied(q.row)' /\ \A e : Applied(e) => Applied(e)'
  BY <1>7 DEF Applied
<1>9. \A p : Ready(p) => Ready(p)'
  BY <1>8 DEF Ready, Listed
<1> QED
  BY <1>6, <1>7, <1>8, <1>9 DEF CalmInv

\* A step of a service touches neither the clock nor the rows' order.
LEMMA SyncStaysCalm ==
  ASSUME OrderInv, NEW s \in Service, Sync(s), ~stepped'
  PROVE  CalmInv'
<1>0. /\ batch = [t \in Service |-> batch[t]]
      /\ current = [t \in Service |-> current[t]]
      /\ verdict = [t \in Service |-> verdict[t]]
      /\ rows \subseteq Row
  BY DEF OrderInv, RecoveryInv, ServicesInv, RowsInv
<1>1. CASE StartSync(s)
  <2>1. PICK some \in SUBSET Due :
          /\ \A p \in some, q \in Due \ some : ~Before(q, p)
          /\ batch' = [batch EXCEPT ![s] = some]
    BY <1>1 DEF StartSync
  <2>2. /\ UNCHANGED <<outbox, time, current, verdict, late, receipts>>
        /\ CalmInv
    BY <1>1 DEF StartSync, time, OrderInv
  <2>3. ASSUME NEW q \in some
        PROVE  /\ q.row \in rows /\ q = Listed(q.row)
               /\ \A e \in rows : e < q.row => Applied(e) \/ Listed(e) \in some
    <3>1. PICK f \in Pending \ waiting :
            /\ q = Listed(f)
            /\ ~ \E g \in Pending \cap waiting : Before(Listed(g), Listed(f))
      BY <2>1 DEF Due
    <3>2. f \in rows /\ q.row = f
      BY <3>1 DEF Pending, Listed
    <3>3. ASSUME NEW e \in rows, e < f, ~Applied(e)
          PROVE  Listed(e) \in some
      <4>1. e \in Pending
        BY <2>2, <3>3 DEF CalmInv, StoreCalm, Pending
      <4>2. /\ \A g \in rows : at[g] \in Int
            /\ at[e] <= at[f] /\ e \in Int /\ f \in Int
        BY <2>2, <1>0, <3>2, <3>3 DEF CalmInv, ClockInv, Row
      <4>3. Before(Listed(e), Listed(f))
        BY <3>2, <3>3, <4>2 DEF Before, Listed
      <4>4. ASSUME NEW g \in Pending \cap waiting, Before(Listed(g), Listed(e))
            PROVE  FALSE
        <5>1. g \in rows /\ g \in Int
          BY <1>0, <4>4 DEF Pending, Row
        <5>2. Before(Listed(g), Listed(f))
          BY <3>2, <3>3, <4>2, <4>4, <5>1 DEF Before, Listed
        <5> QED
          BY <3>1, <4>4, <5>2
      <4>5. e \notin waiting
        BY <3>1, <4>1, <4>3
      <4>6. Listed(e) \in Due
        BY <4>1, <4>4, <4>5 DEF Due
      <4> QED
        BY <2>1, <3>1, <4>3, <4>6
    <3> QED
      BY <3>1, <3>2, <3>3
  <2>4. /\ UNCHANGED <<rows, at, delivered, quarantined, lastError, clock>>
        /\ \A e : Listed(e)' = Listed(e)
        /\ \A e : Applied(e)' <=> Applied(e)
    BY <2>2 DEF outbox, time, Listed, Applied
  <2>5. ClockInv' /\ StoreCalm'
    BY <2>2, <2>4 DEF CalmInv, ClockInv, StoreCalm
  <2>6. \A p : Ready(p) => Ready(p)'
    BY <2>4 DEF Ready
  <2>7. ASSUME NEW t \in Service PROVE Queued(t)'
    <3>1. CASE t = s
      BY <1>0, <2>1, <2>3, <2>4, <3>1 DEF Queued
    <3>2. CASE t # s
      <4>1. batch'[t] = batch[t] /\ current' = current
        BY <1>0, <2>1, <2>2, <3>2
      <4> QED
        BY <2>2, <2>4, <4>1 DEF CalmInv, ServiceCalm, Queued
    <3> QED
      BY <3>1, <3>2
  <2>8. \A t \in Service : ServiceCalm(t)'
    BY <2>2, <2>4, <2>6, <2>7 DEF CalmInv, ServiceCalm
  <2> QED
    BY <2>2, <2>5, <2>6, <2>8 DEF CalmInv
<1>2. CASE Send(s)
  <2>1. PICK q \in batch[s] :
          /\ \A p \in batch[s] : ~Before(p, q)
          /\ current' = [current EXCEPT ![s] = q]
          /\ batch' = [batch EXCEPT ![s] = @ \ {q}]
    BY <1>2 DEF Send
  <2>2. /\ UNCHANGED <<outbox, time, verdict, late, receipts>>
        /\ CalmInv /\ current[s] = NoRequest
    BY <1>2 DEF Send, time, OrderInv
  <2>3. /\ q.row \in rows /\ q = Listed(q.row)
        /\ \A e \in rows : e < q.row => Applied(e) \/ Listed(e) \in batch[s]
    BY <2>1, <2>2, ListedIsARequest DEF CalmInv, ServiceCalm, Queued
  <2>4. Ready(q)
    <3> SUFFICES ASSUME NEW e \in rows, e < q.row, Listed(e) \in batch[s]
                 PROVE  FALSE
      BY <2>3 DEF Ready
    <3>1. at[e] <= at[q.row] /\ at[e] \in Int /\ at[q.row] \in Int
      BY <2>2, <2>3 DEF CalmInv, ClockInv
    <3>2. Before(Listed(e), Listed(q.row))
      BY <3>1 DEF Before, Listed
    <3> QED
      BY <2>1, <2>3, <3>2
  <2>5. /\ UNCHANGED <<rows, at, delivered, quarantined, lastError, clock>>
        /\ \A e : Listed(e)' = Listed(e)
        /\ \A e : Applied(e)' <=> Applied(e)
    BY <2>2 DEF outbox, time, Listed, Applied
  <2>6. ClockInv' /\ StoreCalm'
    BY <2>2, <2>5 DEF CalmInv, ClockInv, StoreCalm
  <2>7. \A p : Ready(p) => Ready(p)'
    BY <2>5 DEF Ready
  <2>8. ASSUME NEW t \in Service PROVE ServiceCalm(t)'
    <3>1. CASE t = s
      <4>1. batch'[s] = batch[s] \ {q} /\ current'[s] = q
        BY <1>0, <2>1
      <4>2. \A p \in batch[s] :
              /\ p.row \in rows /\ p = Listed(p.row)
              /\ \A e \in rows : e < p.row => Applied(e) \/ Listed(e) \in batch[s]
        BY <2>2, ListedIsARequest DEF CalmInv, ServiceCalm, Queued
      <4>3. Queued(s)'
        BY <2>5, <4>1, <4>2 DEF Queued
      <4>4. verdict[s] \in {"NONE", "RETRY"} /\ verdict' = verdict
        BY <2>2 DEF CalmInv, ServiceCalm
      <4> QED
        BY <2>4, <2>7, <3>1, <4>1, <4>3, <4>4 DEF ServiceCalm
    <3>2. CASE t # s
      <4>1. batch'[t] = batch[t] /\ current'[t] = current[t] /\ verdict' = verdict
        BY <1>0, <2>1, <2>2, <3>2
      <4> QED
        BY <2>2, <2>5, <2>7, <4>1 DEF CalmInv, ServiceCalm, Queued
    <3> QED
      BY <3>1, <3>2
  <2> QED
    BY <2>2, <2>6, <2>7, <2>8 DEF CalmInv
<1>3. CASE Receive(s)
  <2>1. /\ CalmInv /\ current[s] # NoRequest /\ Ingest(current[s])
        /\ verdict' = [verdict EXCEPT ![s] = Answer(current[s])]
        /\ UNCHANGED <<outbox, time, batch, current, late>>
    BY <1>3 DEF Receive, InFlight, OrderInv, time
  <2>2. /\ UNCHANGED <<rows, at, delivered, quarantined, lastError, clock>>
        /\ Ready(current[s])
    BY <2>1 DEF outbox, time, CalmInv, ServiceCalm
  <2>3. /\ Answer(current[s]) \in {"APPLIED", "REPLAY"}
        /\ Applied(current[s].row)'
        /\ \A e : Applied(e) => Applied(e)'
        /\ \A p : Ready(p) => Ready(p)'
        /\ \A p \in receipts' : Ready(p)'
    BY <2>1, <2>2, ReadyIsTaken
  <2>4. ClockInv' /\ StoreCalm'
    BY <2>1, <2>2, <2>3 DEF CalmInv, ClockInv, StoreCalm
  <2>5. ASSUME NEW t \in Service PROVE ServiceCalm(t)'
    <3>1. Queued(t)'
      BY <2>1, <2>2, <2>3 DEF CalmInv, ServiceCalm, Queued, Listed
    <3>2. verdict'[t] = IF t = s THEN Answer(current[s]) ELSE verdict[t]
      BY <1>0, <2>1
    <3> QED
      BY <2>1, <2>3, <3>1, <3>2 DEF CalmInv, ServiceCalm
  <2> QED
    BY <2>1, <2>3, <2>4, <2>5 DEF CalmInv
<1>4. ASSUME NEW remaining, remaining \in {batch[s], {}}, Settle(s, remaining), CalmInv,
             remaining = {} \/ Applied(current[s].row)
      PROVE  /\ ClockInv' /\ UNCHANGED <<late, receipts>>
             /\ \A e : Applied(e)' <=> Applied(e)
             /\ \A p : Ready(p) => Ready(p)'
             /\ \A t \in Service : ServiceCalm(t)'
  <2>1. /\ batch' = [batch EXCEPT ![s] = remaining]
        /\ current' = [current EXCEPT ![s] = NoRequest]
        /\ verdict' = [verdict EXCEPT ![s] = "NONE"]
        /\ UNCHANGED <<rows, at, clock, late, receipts>>
    BY <1>4 DEF Settle, time
  <2>2. /\ \A e : Listed(e)' = Listed(e)
        /\ \A e : Applied(e)' <=> Applied(e)
    BY <2>1 DEF Listed, Applied
  <2>3. \A p : Ready(p) => Ready(p)'
    BY <2>1, <2>2 DEF Ready
  <2>4. ASSUME NEW t \in Service PROVE ServiceCalm(t)'
    <3>1. CASE t = s
      <4>1. batch'[s] = remaining /\ current'[s] = NoRequest /\ verdict'[s] = "NONE"
        BY <1>0, <2>1
      <4>2. \A e : current[s] = Listed(e) => current[s].row = e
        BY DEF Listed
      <4>3. Queued(s)'
        BY <1>4, <2>1, <2>2, <4>1, <4>2 DEF CalmInv, ServiceCalm, Queued
      <4> QED
        BY <3>1, <4>1, <4>3 DEF ServiceCalm
    <3>2. CASE t # s
      <4>1. batch'[t] = batch[t] /\ current'[t] = current[t] /\ verdict'[t] = verdict[t]
        BY <1>0, <2>1, <3>2
      <4> QED
        BY <1>4, <2>1, <2>2, <2>3, <4>1 DEF CalmInv, ServiceCalm, Queued
    <3> QED
      BY <3>1, <3>2
  <2> QED
    BY <1>4, <2>1, <2>2, <2>3, <2>4 DEF CalmInv, ClockInv
<1>5. CASE Accept(s)
  <2>1. /\ verdict[s] \in {"APPLIED", "REPLAY"}
        /\ delivered' = delivered \cup {current[s].row}
        /\ lastError' = [lastError EXCEPT ![current[s].row] = "NONE"]
        /\ UNCHANGED quarantined
        /\ Settle(s, batch[s])
    BY <1>5 DEF Accept
  <2>2. CalmInv
    BY <2>1 DEF Settle, time, OrderInv
  <2>3. Applied(current[s].row)
    BY <2>1, <2>2 DEF CalmInv, ServiceCalm
  <2>4. /\ ClockInv' /\ UNCHANGED <<late, receipts>>
        /\ \A e : Applied(e)' <=> Applied(e)
        /\ \A p : Ready(p) => Ready(p)'
        /\ \A t \in Service : ServiceCalm(t)'
    BY <1>4, <2>1, <2>2, <2>3
  <2>5. StoreCalm'
    BY <2>1, <2>2, <2>3, <2>4 DEF CalmInv, StoreCalm
  <2> QED
    BY <2>2, <2>4, <2>5 DEF CalmInv
<1>6. CASE Retry(s)
  <2>1. /\ verdict[s] \in {"RETRY", "RECOVERED"}
        /\ lastError' = [lastError EXCEPT ![current[s].row] =
                           IF verdict[s] = "RECOVERED" THEN "DAY_MISSING" ELSE "OTHER"]
        /\ UNCHANGED <<delivered, quarantined>>
        /\ Settle(s, {})
    BY <1>6 DEF Retry
  <2>2. CalmInv
    BY <2>1 DEF Settle, time, OrderInv
  <2>3. /\ ClockInv' /\ UNCHANGED <<late, receipts>>
        /\ \A e : Applied(e)' <=> Applied(e)
        /\ \A p : Ready(p) => Ready(p)'
        /\ \A t \in Service : ServiceCalm(t)'
    BY <1>4, <2>1, <2>2
  <2>4. lastError' = [lastError EXCEPT ![current[s].row] = "OTHER"]
    BY <2>1, <2>2 DEF CalmInv, ServiceCalm
  <2>5. StoreCalm'
    BY <2>1, <2>2, <2>3, <2>4 DEF CalmInv, StoreCalm
  <2> QED
    BY <2>2, <2>3, <2>5 DEF CalmInv
\* Nothing is refused, and no day is missing.
<1>7. ~Recover(s) /\ ~Refuse(s)
  <2>1. ASSUME Recover(s) \/ Refuse(s) PROVE FALSE
    <3>1. verdict[s] \in {"DAY_MISSING", "REFUSED"} /\ CalmInv
      BY <2>1 DEF Recover, Refuse, Settle, time, OrderInv
    <3> QED
      BY <3>1 DEF CalmInv, ServiceCalm
  <2> QED
    BY <2>1
<1> QED
  BY <1>1, <1>2, <1>3, <1>5, <1>6, <1>7 DEF Sync

\* A restart and a login find no day start to recover.
LEMMA FaultStaysCalm ==
  ASSUME OrderInv, ~stepped',
         \/ \E s \in Service : Timeout(s)
         \/ \E q \in late : ReceiveLate(q)
         \/ \E e \in Row : Elapse(e)
         \/ Restart \/ SignIn
  PROVE  CalmInv'
<1>0. /\ verdict = [t \in Service |-> verdict[t]]
      /\ rows \subseteq Row
  BY DEF OrderInv, RecoveryInv, ServicesInv, RowsInv
<1>1. CalmInv /\ UNCHANGED time
  BY DEF Timeout, ReceiveLate, Elapse, Restart, SignIn, time, OrderInv
<1>2. ASSUME UNCHANGED <<rows, at, receipts>>
      PROVE  /\ ClockInv'
             /\ \A e : (Applied(e)' <=> Applied(e)) /\ Listed(e)' = Listed(e)
             /\ \A p : Ready(p) => Ready(p)'
  <2>1. \A e : (Applied(e)' <=> Applied(e)) /\ Listed(e)' = Listed(e)
    BY <1>2 DEF Applied, Listed
  <2>2. \A p : Ready(p) => Ready(p)'
    BY <1>2, <2>1 DEF Ready
  <2> QED
    BY <1>1, <1>2, <2>1, <2>2 DEF CalmInv, ClockInv, time
<1>3. ASSUME NEW s \in Service, Timeout(s) PROVE CalmInv'
  <2>1. /\ late' = late \cup {current[s]} /\ current[s] # NoRequest
        /\ verdict' = [verdict EXCEPT ![s] = "RETRY"]
        /\ UNCHANGED <<rows, at, delivered, quarantined, lastError, batch, current, receipts>>
    BY <1>3 DEF Timeout, InFlight, outbox
  <2>2. /\ ClockInv'
        /\ \A e : (Applied(e)' <=> Applied(e)) /\ Listed(e)' = Listed(e)
        /\ \A p : Ready(p) => Ready(p)'
    BY <1>2, <2>1
  <2>3. \A q \in late' : Ready(q)'
    BY <1>1, <2>1, <2>2 DEF CalmInv, ServiceCalm
  <2>4. StoreCalm'
    BY <1>1, <2>1, <2>2 DEF CalmInv, StoreCalm
  <2>5. ASSUME NEW t \in Service PROVE ServiceCalm(t)'
    <3>1. Queued(t)'
      BY <1>1, <2>1, <2>2 DEF CalmInv, ServiceCalm, Queued
    <3>2. verdict'[t] = IF t = s THEN "RETRY" ELSE verdict[t]
      BY <1>0, <2>1
    <3> QED
      BY <1>1, <2>1, <2>2, <3>1, <3>2 DEF CalmInv, ServiceCalm
  <2> QED
    BY <1>1, <2>1, <2>2, <2>3, <2>4, <2>5 DEF CalmInv
<1>4. ASSUME NEW q \in late, ReceiveLate(q) PROVE CalmInv'
  <2>1. /\ Ready(q) /\ Ingest(q) /\ late' = late \ {q}
        /\ UNCHANGED <<rows, at, delivered, quarantined, lastError, batch, current, verdict>>
    BY <1>1, <1>4 DEF ReceiveLate, services, outbox, CalmInv
  <2>2. /\ \A e : Applied(e) => Applied(e)'
        /\ \A p : Ready(p) => Ready(p)'
        /\ \A p \in receipts' : Ready(p)'
    BY <1>1, <2>1, ReadyIsTaken
  <2>3. ClockInv' /\ StoreCalm'
    BY <1>1, <2>1, <2>2 DEF CalmInv, ClockInv, StoreCalm, time
  <2>4. ASSUME NEW t \in Service PROVE ServiceCalm(t)'
    <3>1. Queued(t)'
      BY <1>1, <2>1, <2>2 DEF CalmInv, ServiceCalm, Queued, Listed
    <3> QED
      BY <1>1, <2>1, <2>2, <3>1 DEF CalmInv, ServiceCalm
  <2> QED
    BY <1>1, <2>1, <2>2, <2>3, <2>4 DEF CalmInv
<1>5. ASSUME NEW e \in Row, Elapse(e) PROVE CalmInv'
  <2>1. UNCHANGED <<rows, at, delivered, quarantined, lastError,
                    batch, current, verdict, late, receipts>>
    BY <1>5 DEF Elapse, services
  <2>2. /\ ClockInv'
        /\ \A f : (Applied(f)' <=> Applied(f)) /\ Listed(f)' = Listed(f)
        /\ \A p : Ready(p) => Ready(p)'
    BY <1>2, <2>1
  <2>3. StoreCalm'
    BY <1>1, <2>1, <2>2 DEF CalmInv, StoreCalm
  <2>4. \A t \in Service : ServiceCalm(t)'
    BY <1>1, <2>1, <2>2 DEF CalmInv, ServiceCalm, Queued
  <2> QED
    BY <1>1, <2>1, <2>2, <2>3, <2>4 DEF CalmInv
<1>6. CASE Restart
  <2>1. ~Diagnosed
    BY <1>0, <1>1 DEF Diagnosed, CalmInv, StoreCalm
  <2>2. /\ batch' = [s \in Service |-> {}]
        /\ current' = [s \in Service |-> NoRequest]
        /\ verdict' = [s \in Service |-> "NONE"]
        /\ late' = late \cup {current[s] : s \in {s \in Service : InFlight(s)}}
        /\ UNCHANGED <<rows, at, delivered, quarantined, lastError, receipts>>
    BY <1>6, <2>1 DEF Restart, RecoverPrevious, outbox
  <2>3. /\ ClockInv'
        /\ \A e : (Applied(e)' <=> Applied(e)) /\ Listed(e)' = Listed(e)
        /\ \A p : Ready(p) => Ready(p)'
    BY <1>2, <2>2
  <2>4. \A q \in late' : Ready(q)'
    BY <1>1, <2>2, <2>3 DEF CalmInv, ServiceCalm, InFlight
  <2>5. StoreCalm'
    BY <1>1, <2>2, <2>3 DEF CalmInv, StoreCalm
  <2>6. \A t \in Service : ServiceCalm(t)'
    BY <2>2 DEF ServiceCalm, Queued
  <2> QED
    BY <1>1, <2>2, <2>3, <2>4, <2>5, <2>6 DEF CalmInv
<1>7. CASE SignIn
  <2>1. ~Diagnosed
    BY <1>0, <1>1 DEF Diagnosed, CalmInv, StoreCalm
  <2>2. UNCHANGED <<rows, at, delivered, quarantined, lastError,
                    batch, current, verdict, late, receipts>>
    BY <1>7, <2>1 DEF SignIn, RecoverPrevious, outbox, services
  <2>3. /\ ClockInv'
        /\ \A f : (Applied(f)' <=> Applied(f)) /\ Listed(f)' = Listed(f)
        /\ \A p : Ready(p) => Ready(p)'
    BY <1>2, <2>2
  <2>4. StoreCalm'
    BY <1>1, <2>2, <2>3 DEF CalmInv, StoreCalm
  <2>5. \A t \in Service : ServiceCalm(t)'
    BY <1>1, <2>2, <2>3 DEF CalmInv, ServiceCalm, Queued
  <2> QED
    BY <1>1, <2>2, <2>3, <2>4, <2>5 DEF CalmInv
<1> QED
  BY <1>3, <1>4, <1>5, <1>6, <1>7

\* Only commands append rows and read the clock.
LEMMA RowsOrClockUnlessCommand ==
  ASSUME OrderInv, Next, ~Command
  PROVE  AppendedInv' /\ UNCHANGED time
<1>1. UNCHANGED <<rows, time>>
  BY DEF Next, Sync, StartSync, Send, Receive, Recover, RecoverStart, Accept, Refuse, Retry,
         Settle, Timeout, ReceiveLate, Elapse, Restart, SignIn, RecoverPrevious, outbox
<1> QED
  BY <1>1 DEF OrderInv, AppendedInv

\* Unless the clock is set back, nothing is refused, and the server takes in
\* the rows in the order of the commands: for any number of services and
\* requests that were lost, were given up on or arrive late.
THEOREM InOrder == Spec => []InOrderUnlessTheClockSteps
<1>1. OrderInv /\ Next => OrderInv'
  <2> SUFFICES ASSUME OrderInv, Next PROVE OrderInv'
    OBVIOUS
  <2>1. RecoveryInv'
    BY RecoveryInductive DEF OrderInv
  <2>2. AppendedInv' /\ (clock \in Instant)'
    <3>1. CASE Command
      <4>1. (clock \in Instant)'
        BY <3>1, CommandAppends DEF Append
      <4> QED
        BY <3>1, <4>1, CommandAppends
    <3>2. CASE ~Command
      BY <3>2, RowsOrClockUnlessCommand DEF OrderInv, time, Instant
    <3> QED
      BY <3>1, <3>2
  <2>3. ~stepped' => CalmInv'
    BY CommandStaysCalm, SyncStaysCalm, FaultStaysCalm DEF Next
  <2> QED
    BY <2>1, <2>2, <2>3 DEF OrderInv
<1>2. OrderInv /\ UNCHANGED vars => OrderInv'
  <2> SUFFICES ASSUME OrderInv, UNCHANGED vars PROVE OrderInv'
    OBVIOUS
  <2>1. UNCHANGED <<rows, at, delivered, quarantined, lastError, clock, stepped,
                    batch, current, verdict, late, receipts>>
    BY DEF vars, outbox, time, services
  <2>2. RecoveryInv' /\ AppendedInv' /\ (clock \in Instant)'
    BY <2>1, RecoveryInductive DEF OrderInv, AppendedInv, Instant
  <2>3. ASSUME CalmInv PROVE CalmInv'
    BY <2>1, <2>3 DEF CalmInv, ClockInv, StoreCalm, ServiceCalm, Queued, Ready, Listed, Applied
  <2> QED
    BY <2>1, <2>2, <2>3 DEF OrderInv
<1>3. OrderInv => InOrderUnlessTheClockSteps
  <2> SUFFICES ASSUME OrderInv, ~stepped PROVE InOrderUnlessTheClockSteps
    BY DEF InOrderUnlessTheClockSteps
  <2>1. ASSUME NEW e \in Row, NEW f \in Row, e < f, f \in rows, Applied(f), e \in rows
        PROVE  Applied(e)
    <3>1. PICK q \in receipts : q.row = f
      BY <2>1 DEF Applied
    <3>2. Ready(q)
      BY <3>1 DEF OrderInv, CalmInv
    <3> QED
      BY <2>1, <3>1, <3>2 DEF Ready
  <2> QED
    BY <2>1 DEF OrderInv, CalmInv, StoreCalm, InOrderUnlessTheClockSteps
<1> QED
  BY <1>1, <1>2, <1>3, OrderInit, PTL DEF Spec
=============================================================================
