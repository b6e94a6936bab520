---------------------------- MODULE OnlineOrders ----------------------------
(***************************************************************************)
(* Online order requests of one shop: the server's requests and durable    *)
(* reservations, and the devices that claim, release, reject and accept    *)
(* them from a cached inbox.  An acceptance is a local order whose         *)
(* placement reaches the server through the device's outbox, in order and  *)
(* possibly after the twelve-hour claim has run out.                       *)
(***************************************************************************)
EXTENDS Integers, Sequences, FiniteSets

CONSTANTS Device, Request, NoDevice,
          Retirable,   \* bound: devices an administrator may deactivate
          MaxClaims,   \* bound: claims the server ever grants
          MaxLost,     \* bound: calls on their way that nobody waits for
          MaxJobs,     \* bound: mutations in progress at the same time
          MaxPulls     \* bound: pulls in progress at the same time

ASSUME OnlineAssumption ==
  /\ NoDevice \notin Device /\ Retirable \subseteq Device
  /\ MaxClaims \in Nat /\ MaxLost \in Nat /\ MaxJobs \in Nat /\ MaxPulls \in Nat

\* A granted claim is named by its number, which stands for its start and
\* expiry instants; an order id by the number of the claim that drew it.
Order  == 1..MaxClaims
Number == 0..MaxClaims     \* 0: none

\* A cached inbox row: what sameLifecycle compares.  (A PROCESSING row is only
\* ever shown to the device that processes it.)
Row   == [status: {"NONE", "PENDING", "PROCESSING"},
          order: Number, lease: Number, origin: Device \cup {NoDevice}]
NoRow == [status |-> "NONE", order |-> 0, lease |-> 0, origin |-> NoDevice]

\* The mutation that holds a request's lock, with the row it read or was
\* answered, and a pull of the inbox: the rows it saw before, the rows it
\* fetched (then: those it will write) and the requests it will remove.
Job  == [op: {"NONE", "CLAIM", "RELEASE", "REJECT", "ACCEPT"},
         step: {"SENT", "DONE"}, row: Row]
Free == [op |-> "NONE", step |-> "SENT", row |-> NoRow]
Pull == [step: {"IDLE", "LISTED", "FETCHED", "COMPARED"},
         before: [Request -> Row], remote: [Request -> Row], gone: SUBSET Request]
NoRows == [r \in Request |-> NoRow]
NoPull == [step |-> "IDLE", before |-> NoRows, remote |-> NoRows, gone |-> {}]
Call == [op: {"CLAIM", "RELEASE", "REJECT"}, from: Device, request: Request, order: Number]

VARIABLES
  \* the server: online_order_requests ...
  status, holder, lease, processing, accepted,
  reservation,  \* ... online_order_processing_reservations
  claims,       \* claims granted so far
  expired,      \* the claims up to this number have run out
  orders,       \* ONLINE orders with a receipt: <<order id, its device>>
  retired,      \* devices that are no longer authorized
  \* each device
  cache,        \* inbox store: request -> row
  marked,       \* inbox store: requests marked accepted, hidden for good
  placed,       \* request -> id of the local order made for it, 0: none
  box,          \* pending placements, oldest first
  quarantined,  \* requests whose placement was refused for lack of stock
  job, pull,    \* memory
  late,         \* calls on their way that nobody waits for
  withdrawn     \* <<device, order>>: a release or rejection was ever sent

requests == <<status, holder, lease, processing, accepted, reservation, claims>>
server   == <<requests, expired, orders, retired>>
store    == <<cache, marked>>
outbox   == <<placed, box, quarantined>>
vars     == <<server, store, outbox, job, pull, late, withdrawn>>

TypeOK ==
  /\ status \in [Request -> {"PENDING", "PROCESSING", "ACCEPTED", "REJECTED"}]
  /\ holder \in [Request -> Device \cup {NoDevice}]
  /\ lease \in [Request -> Number] /\ processing \in [Request -> Number]
  /\ accepted \in [Request -> Number]
  /\ reservation \in [Request -> [order: Number, origin: Device \cup {NoDevice}]]
  /\ claims \in Number /\ expired \in Number
  /\ orders \subseteq Order \X Device
  /\ retired \subseteq Device
  /\ cache \in [Device -> [Request -> Row]]
  /\ marked \in [Device -> SUBSET Request]
  /\ placed \in [Device -> [Request -> Number]]
  /\ box \in [Device -> Seq(Request)]
  /\ quarantined \in [Device -> SUBSET Request]
  /\ job \in [Device -> [Request -> Job]]
  /\ pull \in [Device -> Pull]
  /\ late \subseteq Call
  /\ withdrawn \subseteq Device \X Order

Unreserved == [order |-> 0, origin |-> NoDevice]

Init ==
  /\ status = [r \in Request |-> "PENDING"]
  /\ holder = [r \in Request |-> NoDevice]
  /\ lease = [r \in Request |-> 0] /\ processing = [r \in Request |-> 0]
  /\ accepted = [r \in Request |-> 0]
  /\ reservation = [r \in Request |-> Unreserved]
  /\ claims = 0 /\ expired = 0 /\ orders = {} /\ retired = {}
  /\ cache = [d \in Device |-> [r \in Request |-> NoRow]]
  /\ marked = [d \in Device |-> {}]
  /\ placed = [d \in Device |-> [r \in Request |-> 0]]
  /\ box = [d \in Device |-> <<>>] /\ quarantined = [d \in Device |-> {}]
  /\ job = [d \in Device |-> [r \in Request |-> Free]]
  /\ pull = [d \in Device |-> NoPull]
  /\ late = {} /\ withdrawn = {}
-----------------------------------------------------------------------------
\* The server's functions, each one transaction that locks the request's row.

Lapsed(r) == status[r] = "PROCESSING" /\ lease[r] <= expired
Undecided(r) == status[r] \in {"PENDING", "PROCESSING"}
Reserves(r, o, d) == reservation[r] = [order |-> o, origin |-> d]

SetRequest(r, s, h, l, o) ==
  /\ status' = [status EXCEPT ![r] = s]
  /\ holder' = [holder EXCEPT ![r] = h]
  /\ lease' = [lease EXCEPT ![r] = l]
  /\ processing' = [processing EXCEPT ![r] = o]

\* claim: whose reservation stands in the way.
\* Mutant of MayReserve: a reservation lasts as long as its claim.
MayReserveAny(d, r) == d \in Device /\ r \in Request
MayReserve(d, r) ==
  reservation[r].order = 0 \/ reservation[r].origin \in {d} \cup retired

CanClaim(d, r) ==
  /\ d \notin retired
  /\ \/ /\ status[r] = "PENDING" \/ Lapsed(r)
        /\ MayReserve(d, r) /\ claims < MaxClaims
     \/ status[r] = "PROCESSING" /\ ~Lapsed(r) /\ holder[r] = d

\* The reservation a claim leaves behind: a fresh one, or the old one's order.
\* Mutant of Reserved: taking over keeps the retired origin device.
ReservedByOrigin(d, r) ==
  IF reservation[r].order = 0
  THEN [order |-> claims + 1, origin |-> d] ELSE reservation[r]
Reserved(d, r) ==
  [order |-> IF reservation[r].order = 0 THEN claims + 1 ELSE reservation[r].order,
   origin |-> d]

Claim(d, r) ==
  IF status[r] = "PENDING" \/ Lapsed(r)
  THEN /\ claims' = claims + 1
       /\ reservation' = [reservation EXCEPT ![r] = Reserved(d, r)]
       /\ SetRequest(r, "PROCESSING", d, claims + 1, Reserved(d, r).order)
       /\ UNCHANGED accepted
  ELSE UNCHANGED requests

CanRelease(d, r, o) ==
  /\ d \notin retired
  /\ \/ status[r] = "PENDING" /\ (reservation[r].order = o => reservation[r].origin = d)
     \/ /\ status[r] = "PROCESSING" /\ holder[r] = d /\ processing[r] = o
        /\ Reserves(r, o, d)

Release(r, o) ==
  /\ SetRequest(r, "PENDING", NoDevice, 0, 0)
  /\ reservation' = [reservation EXCEPT ![r] = IF @.order = o THEN Unreserved ELSE @]
  /\ UNCHANGED <<accepted, claims>>

CanReject(d, r, o) ==
  /\ d \notin retired
  /\ \/ status[r] = "REJECTED"
     \/ /\ status[r] = "PROCESSING" /\ ~Lapsed(r)
        /\ holder[r] = d /\ processing[r] = o /\ Reserves(r, o, d)

Reject(r) ==
  /\ SetRequest(r, "REJECTED", NoDevice, 0, 0)
  /\ UNCHANGED <<accepted, reservation, claims>>

Granted(op, d, r, o) ==
  \/ op = "CLAIM" /\ CanClaim(d, r)
  \/ op = "RELEASE" /\ CanRelease(d, r, o)
  \/ op = "REJECT" /\ CanReject(d, r, o)

Handle(op, d, r, o) ==
  IF ~Granted(op, d, r, o) THEN UNCHANGED requests
  ELSE \/ op = "CLAIM" /\ Claim(d, r)
       \/ op = "RELEASE" /\ Release(r, o)
       \/ op = "REJECT" /\ Reject(r)

\* list_tux_online_order_requests_v1 puts every lapsed claim back first.
Requeue ==
  /\ status' = [r \in Request |-> IF Lapsed(r) THEN "PENDING" ELSE status[r]]
  /\ holder' = [r \in Request |-> IF Lapsed(r) THEN NoDevice ELSE holder[r]]
  /\ lease' = [r \in Request |-> IF Lapsed(r) THEN 0 ELSE lease[r]]
  /\ processing' = [r \in Request |-> IF Lapsed(r) THEN 0 ELSE processing[r]]
  /\ UNCHANGED <<accepted, reservation, claims>>

Shown(d, r) ==
  IF status[r] = "PENDING" \/ Lapsed(r)
  THEN [status |-> "PENDING", order |-> 0, lease |-> 0, origin |-> reservation[r].origin]
  ELSE IF status[r] = "PROCESSING" /\ holder[r] = d
  THEN [status |-> "PROCESSING", order |-> processing[r], lease |-> lease[r],
        origin |-> reservation[r].origin]
  ELSE NoRow

\* enforce_tux_online_order_intake_capacity: a request nobody has touched for
\* six hours is rejected when the next one comes in.
\* Mutant of Untouched: the reservation is not looked up.
UntouchedPending(r) == status[r] = "PENDING"
Untouched(r) == status[r] = "PENDING" /\ reservation[r].order = 0
IntakeExpires(r) ==
  /\ Untouched(r)
  /\ SetRequest(r, "REJECTED", NoDevice, 0, 0)
  /\ UNCHANGED <<accepted, reservation, claims, expired, orders, retired,
                 store, outbox, job, pull, late, withdrawn>>

\* Twelve hours after the oldest claim that has not run out.
LeaseEnds ==
  /\ expired < claims /\ expired' = expired + 1
  /\ UNCHANGED <<requests, orders, retired, store, outbox, job, pull, late, withdrawn>>

\* An administrator deactivates the device.
Retire(d) ==
  /\ d \in Retirable \ retired /\ retired' = retired \cup {d}
  /\ UNCHANGED <<requests, expired, orders, store, outbox, job, pull, late, withdrawn>>
-----------------------------------------------------------------------------
Jobs  == Cardinality({x \in Device \X Request : job[x[1]][x[2]] # Free})
Pulls == Cardinality({d \in Device : pull[d].step # "IDLE"})

\* What the inbox store shows, and the rows the operator may act on.
Visible(d, r) == IF r \in marked[d] THEN NoRow ELSE cache[d][r]
\* Mutant of Claimed: the row's status is not looked at.
Listed(d, r) == Visible(d, r) # NoRow
Claimed(d, r) == Visible(d, r).status = "PROCESSING"
\* Mutant of Committed: any claimed row is taken for accepted.
CommittedUnplaced(d, r) == Claimed(d, r)
Committed(d, r) == Claimed(d, r) /\ placed[d][r] = Visible(d, r).order

MarkAccepted(d, r) ==
  /\ marked' = [marked EXCEPT ![d] = @ \cup {r}]
  /\ cache' = [cache EXCEPT ![d][r] = NoRow]

\* reconcileAcceptedOrders, which every operation runs first: an acceptance
\* that stopped between its order and its mark is completed.
Reconcile(d, r) ==
  /\ Committed(d, r)
  /\ MarkAccepted(d, r)
  /\ UNCHANGED <<server, outbox, job, pull, late, withdrawn>>

Take(d, r, op, step, row) ==
  /\ job[d][r] = Free /\ Jobs < MaxJobs
  /\ job' = [job EXCEPT ![d][r] = [op |-> op, step |-> step, row |-> row]]

StartClaim(d, r) ==
  /\ Visible(d, r).status = "PENDING"
  /\ Take(d, r, "CLAIM", "SENT", NoRow)
  /\ UNCHANGED <<server, store, outbox, pull, late, withdrawn>>

\* release and reject, up to the remote call.
StartReview(d, r) ==
  /\ Claimed(d, r) /\ ~Committed(d, r)
  /\ \E op \in {"RELEASE", "REJECT"} : Take(d, r, op, "SENT", Visible(d, r))
  /\ withdrawn' = withdrawn \cup {<<d, Visible(d, r).order>>}
  /\ UNCHANGED <<server, store, outbox, pull, late>>

\* The call is answered: an error, the claimed row, or an acknowledgement.
Answered(d, r) ==
  LET j == job[d][r] IN
  /\ j.step = "SENT" /\ j.op \in {"CLAIM", "RELEASE", "REJECT"}
  /\ Handle(j.op, d, r, j.row.order)
  /\ job' = [job EXCEPT ![d][r] =
       IF ~Granted(j.op, d, r, j.row.order) THEN Free
       ELSE [op |-> j.op, step |-> "DONE",
             row |-> IF j.op # "CLAIM" THEN j.row
                     ELSE [status |-> "PROCESSING", order |-> processing'[r],
                           lease |-> lease'[r], origin |-> reservation'[r].origin]]]
  /\ UNCHANGED <<expired, orders, retired, store, outbox, pull, late, withdrawn>>

\* upsertMany leaves out the requests marked accepted.
Upsert(d, r, row) ==
  cache' = [cache EXCEPT ![d][r] = IF r \in marked[d] THEN @ ELSE row]

Finish(d, r) ==
  LET j == job[d][r] IN
  /\ j.step = "DONE"
  /\ \/ j.op = "CLAIM" /\ Upsert(d, r, j.row)
     \/ /\ j.op = "RELEASE"
        /\ Upsert(d, r, [NoRow EXCEPT !.status = "PENDING"])
     \/ j.op = "REJECT" /\ cache' = [cache EXCEPT ![d][r] = NoRow]
  /\ job' = [job EXCEPT ![d][r] = Free]
  /\ UNCHANGED <<server, marked, outbox, pull, late, withdrawn>>

\* accept reads the trusted row ...
StartAccept(d, r) ==
  /\ Claimed(d, r) /\ ~Committed(d, r)
  /\ Take(d, r, "ACCEPT", "SENT", Visible(d, r))
  /\ UNCHANGED <<server, store, outbox, pull, late, withdrawn>>

\* ... places the order under the row's order id (an order with the request's
\* idempotency key is found instead) ...
AcceptPlaces(d, r) ==
  LET j == job[d][r] IN
  /\ j.op = "ACCEPT" /\ j.step = "SENT"
  /\ expired < j.row.lease /\ j.row.origin = d
  /\ IF placed[d][r] = 0
     THEN /\ placed' = [placed EXCEPT ![d][r] = j.row.order]
          /\ box' = [box EXCEPT ![d] = Append(@, r)]
     ELSE UNCHANGED <<placed, box>>
  /\ job' = [job EXCEPT ![d][r] = [op |-> "ACCEPT", step |-> "DONE", row |-> j.row]]
  /\ UNCHANGED <<server, store, quarantined, pull, late, withdrawn>>

\* ... and marks the request, in another transaction.
AcceptMarks(d, r) ==
  /\ job[d][r].op = "ACCEPT" /\ job[d][r].step = "DONE"
  /\ MarkAccepted(d, r)
  /\ job' = [job EXCEPT ![d][r] = Free]
  /\ UNCHANGED <<server, outbox, pull, late, withdrawn>>

\* The operation ends early: it fails, its answer is lost, or the program
\* restarts.  What it sent may still arrive.
GiveUp(d, r) ==
  LET j == job[d][r] IN
  /\ \/ /\ j.op = "ACCEPT" \/ j.step = "DONE"
        /\ UNCHANGED late
     \/ /\ j.op \in {"CLAIM", "RELEASE", "REJECT"} /\ j.step = "SENT"
        /\ Cardinality(late) < MaxLost
        /\ late' = late \cup {[op |-> j.op, from |-> d, request |-> r, order |-> j.row.order]}
  /\ job' = [job EXCEPT ![d][r] = Free]
  /\ UNCHANGED <<server, store, outbox, pull, withdrawn>>

ArrivesLate(c) ==
  /\ late' = late \ {c}
  /\ Handle(c.op, c.from, c.request, c.order)
  /\ UNCHANGED <<expired, orders, retired, store, outbox, job, pull, withdrawn>>
-----------------------------------------------------------------------------
\* load, between its awaits.
LoadLists(d) ==
  /\ pull[d].step = "IDLE" /\ Pulls < MaxPulls
  /\ pull' = [pull EXCEPT ![d] =
       [NoPull EXCEPT !.step = "LISTED", !.before = [r \in Request |-> Visible(d, r)]]]
  /\ UNCHANGED <<server, store, outbox, job, late, withdrawn>>

LoadFetches(d) ==
  /\ pull[d].step = "LISTED" /\ d \notin retired
  /\ Requeue
  /\ pull' = [pull EXCEPT ![d].step = "FETCHED",
                          ![d].remote = [r \in Request |-> Shown(d, r)]]
  /\ UNCHANGED <<expired, orders, retired, store, outbox, job, late, withdrawn>>

SameLifecycle(a, b) == a = b

LoadCompares(d) ==
  LET p == pull[d]
      Safe(r) == SameLifecycle(p.before[r], Visible(d, r)) IN
  /\ p.step = "FETCHED"
  /\ pull' = [pull EXCEPT ![d] = [step |-> "COMPARED", before |-> NoRows,
       remote |-> [r \in Request |-> IF Safe(r) THEN p.remote[r] ELSE NoRow],
       gone |-> {r \in Request : Safe(r) /\ p.before[r] # NoRow /\ p.remote[r] = NoRow}]]
  /\ UNCHANGED <<server, store, outbox, job, late, withdrawn>>

LoadedRow(d, r) ==
  IF r \in pull[d].gone THEN NoRow
  ELSE IF r \in marked[d] \/ pull[d].remote[r] = NoRow THEN cache[d][r]
  ELSE pull[d].remote[r]

LoadWrites(d) ==
  /\ pull[d].step = "COMPARED"
  /\ cache' = [cache EXCEPT ![d] = [r \in Request |-> LoadedRow(d, r)]]
  /\ pull' = [pull EXCEPT ![d] = NoPull]
  /\ UNCHANGED <<server, marked, outbox, job, late, withdrawn>>

LoadFails(d) ==
  /\ pull[d].step # "IDLE" /\ pull' = [pull EXCEPT ![d] = NoPull]
  /\ UNCHANGED <<server, store, outbox, job, late, withdrawn>>
-----------------------------------------------------------------------------
\* The outbox delivers in order; the head's order and its device.
Head1(d)  == box[d][1]
Ticket(d) == <<placed[d][Head1(d)], d>>

\* assert_tux_online_order_materialization_origin and the trigger that resolves
\* the request; an error of either is answered 500 and tried again.
\* Mutant of MayMaterialize: only while the claim is running.
MayMaterializeClaimed(d, r) ==
  status[r] = "PROCESSING" /\ processing[r] = placed[d][r]
\* Mutant of MayMaterialize: the request's status is not looked at.
MayMaterializeAnyhow(d, r) == Reserves(r, placed[d][r], d)
MayMaterialize(d, r) ==
  Reserves(r, placed[d][r], d) /\ Undecided(r) /\ accepted[r] = 0

\* ingest applies the placement (its answer may be lost: see Acknowledged).
Materialize(d) ==
  /\ box[d] # <<>> /\ d \notin retired /\ Ticket(d) \notin orders
  /\ LET r == Head1(d) IN
     /\ MayMaterialize(d, r)
     /\ SetRequest(r, "ACCEPTED", NoDevice, 0, 0)
     /\ accepted' = [accepted EXCEPT ![r] = placed[d][r]]
  /\ orders' = orders \cup {Ticket(d)}
  /\ UNCHANGED <<reservation, claims, expired, retired, store, outbox,
                 job, pull, late, withdrawn>>

\* APPLIED or REPLAY: the row is delivered.
Acknowledged(d) ==
  /\ box[d] # <<>> /\ d \notin retired /\ Ticket(d) \in orders
  /\ box' = [box EXCEPT ![d] = Tail(@)]
  /\ UNCHANGED <<server, store, placed, quarantined, job, pull, late, withdrawn>>

\* 422: the order is cancelled locally and the row quarantined.
OutOfStock(d) ==
  /\ box[d] # <<>> /\ d \notin retired /\ Ticket(d) \notin orders
  /\ MayMaterialize(d, Head1(d))
  /\ quarantined' = [quarantined EXCEPT ![d] = @ \cup {Head1(d)}]
  /\ box' = [box EXCEPT ![d] = Tail(@)]
  /\ UNCHANGED <<server, store, placed, job, pull, late, withdrawn>>
-----------------------------------------------------------------------------
DeviceStep(d) ==
  \/ LoadLists(d) \/ LoadFetches(d) \/ LoadCompares(d) \/ LoadWrites(d) \/ LoadFails(d)
  \/ Materialize(d) \/ Acknowledged(d) \/ OutOfStock(d) \/ Retire(d)

RequestStep(d, r) ==
  \/ Reconcile(d, r) \/ StartClaim(d, r) \/ StartReview(d, r) \/ StartAccept(d, r)
  \/ Answered(d, r) \/ Finish(d, r) \/ AcceptPlaces(d, r) \/ AcceptMarks(d, r)
  \/ GiveUp(d, r)

Next ==
  \/ \E d \in Device : DeviceStep(d)
  \/ \E d \in Device, r \in Request : RequestStep(d, r)
  \/ \E r \in Request : IntakeExpires(r)
  \/ LeaseEnds
  \/ \E c \in late : ArrivesLate(c)

Spec == Init /\ [][Next]_vars

\* The scheduler delivers the head of the outbox again and again: on the desktop,
\* and on a browser while a worker is signed in (there is no sign-out here).
Fairness ==
  \A d \in Device : /\ WF_vars(Materialize(d) \/ OutOfStock(d))
                     /\ WF_vars(Acknowledged(d))
FairSpec == Spec /\ Fairness
-----------------------------------------------------------------------------
\* A request that is being processed is reserved for the device processing it,
\* under the order id it was given: lapsing, taking over and late calls never
\* separate the claim from its reservation.
ProcessingIsReserved ==
  \A r \in Request : status[r] = "PROCESSING" =>
    /\ holder[r] # NoDevice /\ processing[r] # 0
    /\ Reserves(r, processing[r], holder[r])

\* An order accepted on a device that is still authorized, and that never
\* asked to release or reject it, keeps its reservation: neither the end of
\* the claim, another device, the intake's clean-up nor a late call can take
\* it away, and the request is decided by that order or not at all.
AcceptanceIsProtected ==
  \A d \in Device \ retired, r \in Request :
    placed[d][r] # 0 /\ <<d, placed[d][r]>> \notin withdrawn
      => /\ Reserves(r, placed[d][r], d)
         /\ \/ Undecided(r) /\ accepted[r] = 0
            \/ status[r] = "ACCEPTED" /\ accepted[r] = placed[d][r]

\* Whatever is lost, late or repeated, a request is decided once and one order
\* is made for it.
Decided == [r \in Request |->
              IF status[r] = "ACCEPTED" THEN accepted[r]
              ELSE IF status[r] = "REJECTED" THEN -1 ELSE 0]
Decision == INSTANCE RequestDecision WITH
  Order    <- Order,   Open   <- 0,   Rejected <- -1,
  decision <- Decided, orders <- {x[1] : x \in orders}
DecidedOnce == Decision!Spec

\* The placement at the head of an outbox that was not withdrawn never waits in
\* vain: the server has its order, or would take it now.  (So it does not hold up
\* what is behind it, which is the safety half of AcceptanceArrives.)
NoAcceptanceIsStuck ==
  \A d \in Device \ retired :
    box[d] # <<>> /\ <<d, placed[d][Head1(d)]>> \notin withdrawn
      => Ticket(d) \in orders \/ MayMaterialize(d, Head1(d))

Withdrew(d) == \E o \in Order : <<d, o>> \in withdrawn
InBox(d, r) == \E i \in DOMAIN box[d] : box[d][i] = r

\* A device that never sent a release or a rejection has every acceptance
\* delivered, or refused and quarantined, while it stays authorized: again and
\* again none is left.
AcceptanceArrives ==
  []<>(\A d \in Device, r \in Request :
         InBox(d, r) => d \in retired \/ Withdrew(d))

\* Every acceptance of an authorized device is delivered or quarantined.
AcceptanceSettles ==
  []<>(\A d \in Device, r \in Request : InBox(d, r) => d \in retired)

\* A request a device hides for good is never forgotten: there is an order for
\* it, on its way, visibly refused, or at the server, wherever the acceptance
\* stopped and whatever was pulled, repeated or lost since.
HiddenRequestIsAccounted ==
  \A d \in Device, r \in Request : r \in marked[d] =>
    /\ placed[d][r] # 0
    /\ InBox(d, r) \/ r \in quarantined[d] \/ <<placed[d][r], d>> \in orders

\* A request reserved for an authorized device can still be released there: it
\* is shown there, or its order is on the way.
ReservedRequestIsShown ==
  \A r \in Request, d \in Device \ retired :
    Undecided(r) /\ reservation[r].origin = d => r \notin marked[d] \/ InBox(d, r)
=============================================================================
