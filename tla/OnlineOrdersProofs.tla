------------------------- MODULE OnlineOrdersProofs -------------------------
(***************************************************************************)
(* The inductive invariant of OnlineOrders holds for every shop, and with  *)
(* it the promises to the customer.                                        *)
(***************************************************************************)
EXTENDS OnlineOrdersInvariant, SequenceTheorems, TLAPS

LEMMA RowTypes == NoRow \in Row /\ Free \in Job /\ NoPull \in Pull
  BY OnlineAssumption DEF NoRow, Row, Free, Job, NoPull, Pull, NoRows, Number

\* What the server answers keeps its tables typed.
LEMMA HandleType ==
  ASSUME TypeOK, NEW op, NEW d \in Device, NEW r \in Request, NEW o \in Number,
         Handle(op, d, r, o)
  PROVE  /\ status' \in [Request -> {"PENDING", "PROCESSING", "ACCEPTED", "REJECTED"}]
         /\ holder' \in [Request -> Device \cup {NoDevice}]
         /\ lease' \in [Request -> Number] /\ processing' \in [Request -> Number]
         /\ accepted' \in [Request -> Number]
         /\ reservation' \in [Request -> [order: Number, origin: Device \cup {NoDevice}]]
         /\ claims' \in Number
<1>1. CASE UNCHANGED requests
  BY <1>1 DEF requests, TypeOK
<1>2. CASE CanClaim(d, r) /\ Claim(d, r) /\ ~UNCHANGED requests
  <2>1. claims < MaxClaims /\ claims + 1 \in Number
    BY <1>2, OnlineAssumption DEF CanClaim, Claim, Number, TypeOK, requests
  <2>2. /\ Reserved(d, r) \in [order: Number, origin: Device \cup {NoDevice}]
        /\ Reserved(d, r).order \in Number
    BY <2>1 DEF Reserved, TypeOK
  <2>3. /\ claims' = claims + 1 /\ UNCHANGED accepted
        /\ reservation' = [reservation EXCEPT ![r] = Reserved(d, r)]
        /\ SetRequest(r, "PROCESSING", d, claims + 1, Reserved(d, r).order)
    BY <1>2 DEF Claim
  <2> HIDE DEF Reserved
  <2> QED BY <2>1, <2>2, <2>3 DEF SetRequest, TypeOK
<1>3. CASE Release(r, o)
  <2>1. 0 \in Number /\ Unreserved \in [order: Number, origin: Device \cup {NoDevice}]
    BY OnlineAssumption DEF Number, Unreserved
  <2> QED BY <1>3, <2>1 DEF Release, SetRequest, TypeOK
<1>4. CASE Reject(r)
  <2>1. 0 \in Number
    BY OnlineAssumption DEF Number
  <2> QED BY <1>4, <2>1 DEF Reject, SetRequest, TypeOK
<1>5. \/ UNCHANGED requests
      \/ Release(r, o)
      \/ Reject(r)
      \/ CanClaim(d, r) /\ Claim(d, r)
  BY DEF Handle, Granted
<1> QED BY <1>1, <1>2, <1>3, <1>4, <1>5

\* Safety of an order id survives every answer of the server.
LEMMA HandleKeepsSafe ==
  ASSUME TypeOK, NEW op, NEW d \in Device, NEW r \in Request, NEW o \in Number,
         Handle(op, d, r, o), op = "RELEASE" => <<d, o>> \in withdrawn,
         UNCHANGED <<retired, withdrawn>>,
         NEW e \in Device, NEW s \in Request, NEW n, Safe(e, s, n)
  PROVE  Safe(e, s, n)'
<1> SUFFICES ASSUME n # 0, e \notin retired, <<e, n>> \notin withdrawn,
                    Reserves(s, n, e), s = r, reservation' # reservation
             PROVE  Reserves(s, n, e)'
  <2>1. CASE s # r
    BY <2>1 DEF Handle, Claim, Release, Reject, requests, TypeOK, Safe, Reserves
  <2> QED BY <2>1 DEF Safe, Reserves
<1>1. CASE CanClaim(d, r) /\ Claim(d, r)
  <2>1. MayReserve(d, r)
    BY <1>1 DEF CanClaim, Claim, requests, Lapsed, TypeOK
  <2>2. e = d
    BY <2>1 DEF MayReserve, Reserves
  <2> QED BY <1>1, <2>2 DEF Claim, Reserved, Reserves, requests, TypeOK
<1>2. CASE CanRelease(d, r, o) /\ Release(r, o) /\ op = "RELEASE"
  <2>1. reservation[r].order # o
    BY <1>2 DEF CanRelease, Reserves
  <2> QED BY <1>2, <2>1 DEF Release, Reserves, TypeOK
<1>3. CASE Reject(r)
  BY <1>3 DEF Reject
<1> QED BY <1>1, <1>2, <1>3 DEF Handle, Granted, requests

LEMMA InitHolds == Init => IInv
<1> SUFFICES ASSUME Init PROVE IInv
  OBVIOUS
<1>1. 0 \in Number
  BY OnlineAssumption DEF Number
<1>2. TypeOK
  BY <1>1, RowTypes DEF Init, TypeOK, Unreserved
<1>3. JobsAreKnown /\ CallsAreKnown
  BY DEF Init, JobsAreKnown, CallsAreKnown, Free
<1>4. CacheIsSafe /\ PullIsSafe /\ JobIsSafe /\ PlacedIsSafe
  BY DEF Init, CacheIsSafe, PullIsSafe, JobIsSafe, PlacedIsSafe, RowIsSafe, Safe, NoRow, NoPull, NoRows, Free
<1> QED BY <1>2, <1>3, <1>4 DEF Init, IInv, ProcessingIsReserved, ReservationsAreDistinct,
     AcceptedIsReserved, RejectedWasWithdrawn, Unreserved

\* Every action keeps the types.
LEMMA RequestStepType ==
  ASSUME IInv, NEW d \in Device, NEW r \in Request, RequestStep(d, r)
  PROVE  TypeOK'
<1> DEFINE j == job[d][r]
<1>1. TypeOK /\ j \in Job /\ j.row \in Row /\ Visible(d, r) \in Row /\ NoRow \in Row /\ Free \in Job
  BY RowTypes DEF IInv, TypeOK, Visible, Job
<1>2. /\ j.row.order \in Number
      /\ j.op \in {"NONE", "CLAIM", "RELEASE", "REJECT", "ACCEPT"}
  BY <1>1 DEF Row, Job
<1>3. CASE Reconcile(d, r)
  BY <1>1, <1>3 DEF Reconcile, MarkAccepted, TypeOK, server, requests, outbox
<1>4. CASE StartClaim(d, r)
  BY <1>1, <1>4 DEF StartClaim, Take, TypeOK, Job, server, requests, store, outbox
<1>5. CASE StartReview(d, r)
  <2>1. RowIsSafe(d, r, cache[d][r])
    BY DEF IInv, CacheIsSafe
  <2>2. Visible(d, r).order \in Order
    BY <1>1, <1>5, <2>1 DEF StartReview, Claimed, Visible, RowIsSafe, NoRow, Row, Number, Order
  <2> QED BY <1>1, <1>5, <2>2 DEF StartReview, Take, TypeOK, Job, server, requests, store, outbox
<1>6. CASE StartAccept(d, r)
  BY <1>1, <1>6 DEF StartAccept, Take, TypeOK, Job, server, requests, store, outbox
<1>7. CASE Answered(d, r)
  <2>1. Handle(j.op, d, r, j.row.order)
    BY <1>7 DEF Answered
  <2>2. [status |-> "PROCESSING", order |-> processing'[r],
         lease |-> lease'[r], origin |-> reservation'[r].origin] \in Row
    BY <1>1, <1>2, <2>1, HandleType DEF Row
  <2>3. \/ job'[d][r] = Free
        \/ \E row \in Row : job'[d][r] = [op |-> j.op, step |-> "DONE", row |-> row]
    BY <1>1, <1>7, <2>2 DEF Answered, TypeOK
  <2>4. job'[d][r] \in Job
    <3>1. CASE job'[d][r] = Free
      BY <1>1, <3>1
    <3>2. ASSUME NEW row \in Row, job'[d][r] = [op |-> j.op, step |-> "DONE", row |-> row]
          PROVE  job'[d][r] \in Job
      <4> HIDE DEF j
      <4> QED BY <1>2, <3>2 DEF Job
    <3> QED BY <2>3, <3>1, <3>2
  <2>5. job' \in [Device -> [Request -> Job]]
    BY <1>1, <1>7, <2>4 DEF Answered, TypeOK
  <2> QED BY <1>1, <1>2, <1>7, <2>1, <2>5, HandleType DEF Answered, TypeOK, store, outbox
<1>8. CASE Finish(d, r)
  <2>1. [NoRow EXCEPT !.status = "PENDING"] \in Row
    BY <1>1 DEF NoRow, Row
  <2>2. \A row \in Row : Upsert(d, r, row) => cache' \in [Device -> [Request -> Row]]
    BY <1>1 DEF Upsert, TypeOK
  <2>3. \/ Upsert(d, r, j.row) \/ Upsert(d, r, [NoRow EXCEPT !.status = "PENDING"])
        \/ cache' = [cache EXCEPT ![d][r] = NoRow]
    BY <1>8 DEF Finish
  <2>4. cache' \in [Device -> [Request -> Row]]
    <3>1. CASE cache' = [cache EXCEPT ![d][r] = NoRow]
      BY <1>1, <3>1 DEF TypeOK
    <3>2. CASE Upsert(d, r, j.row)
      BY <1>1, <3>2, <2>2
    <3>3. CASE Upsert(d, r, [NoRow EXCEPT !.status = "PENDING"])
      BY <2>1, <3>3, <2>2
    <3> QED BY <2>3, <3>1, <3>2, <3>3
  <2> QED BY <1>1, <1>8, <2>4 DEF Finish, TypeOK, server, requests, outbox
<1>9. CASE AcceptPlaces(d, r)
  <2>1. job' \in [Device -> [Request -> Job]]
    BY <1>1, <1>9 DEF AcceptPlaces, TypeOK, Job
  <2>2. CASE placed[d][r] = 0
    <3>1. Append(box[d], r) \in Seq(Request)
      BY <1>1 DEF TypeOK
    <3>2. placed' = [placed EXCEPT ![d][r] = j.row.order]
          /\ box' = [box EXCEPT ![d] = Append(box[d], r)]
      BY <1>9, <2>2 DEF AcceptPlaces
    <3>3. box' \in [Device -> Seq(Request)]
      BY <1>1, <3>1, <3>2 DEF TypeOK
    <3>4. placed' \in [Device -> [Request -> Number]]
      BY <1>1, <1>2, <3>2 DEF TypeOK
    <3> QED BY <1>1, <1>9, <2>1, <3>3, <3>4 DEF AcceptPlaces, TypeOK, server, requests, store
  <2>3. CASE placed[d][r] # 0
    BY <1>1, <1>9, <2>1, <2>3 DEF AcceptPlaces, TypeOK, server, requests, store
  <2> QED BY <2>2, <2>3
<1>10. CASE AcceptMarks(d, r)
  BY <1>1, <1>10 DEF AcceptMarks, MarkAccepted, TypeOK, server, requests, outbox
<1>11. CASE GiveUp(d, r)
  <2>1. late' \subseteq Call
    BY <1>1, <1>2, <1>11 DEF GiveUp, TypeOK, Call
  <2> QED BY <1>1, <1>11, <2>1 DEF GiveUp, TypeOK, server, requests, store, outbox
<1> QED BY <1>3, <1>4, <1>5, <1>6, <1>7, <1>8, <1>9, <1>10, <1>11 DEF RequestStep

LEMMA DeviceStepType ==
  ASSUME IInv, NEW d \in Device, DeviceStep(d)
  PROVE  TypeOK'
<1> DEFINE p == pull[d]
<1>1. /\ TypeOK /\ p \in Pull /\ NoRow \in Row /\ NoPull \in Pull /\ 0 \in Number
      /\ NoRows \in [Request -> Row]
  BY RowTypes, OnlineAssumption DEF IInv, TypeOK, Number, NoRows
<1>2. \A r \in Request : Visible(d, r) \in Row /\ Shown(d, r) \in Row
  BY <1>1 DEF Visible, Shown, TypeOK, Row
<1>3. CASE LoadLists(d)
  <2>1. [NoPull EXCEPT !.step = "LISTED", !.before = [r \in Request |-> Visible(d, r)]] \in Pull
    BY <1>1, <1>2 DEF NoPull, Pull
  <2> QED BY <1>1, <1>3, <2>1 DEF LoadLists, TypeOK, server, requests, store, outbox
<1>4. CASE LoadFetches(d)
  <2>1. pull' \in [Device -> Pull]
    BY <1>1, <1>2, <1>4 DEF LoadFetches, TypeOK, Pull
  <2> QED BY <1>1, <1>4, <2>1 DEF LoadFetches, Requeue, TypeOK, store, outbox
<1>5. CASE LoadCompares(d)
  <2>1. pull' \in [Device -> Pull]
    BY <1>1, <1>2, <1>5 DEF LoadCompares, TypeOK, Pull
  <2> QED BY <1>1, <1>5, <2>1 DEF LoadCompares, TypeOK, server, requests, store, outbox
<1>6. CASE LoadWrites(d)
  <2>1. \A r \in Request : LoadedRow(d, r) \in Row
    BY <1>1 DEF LoadedRow, TypeOK, Pull
  <2> QED BY <1>1, <1>6, <2>1 DEF LoadWrites, TypeOK, server, requests, outbox
<1>7. CASE LoadFails(d)
  BY <1>1, <1>7 DEF LoadFails, TypeOK, server, requests, store, outbox
<1>8. CASE Materialize(d)
  <2>1. box[d] \in Seq(Request) /\ Head1(d) \in Request
    BY <1>1, <1>8 DEF Materialize, TypeOK, Head1
  <2>2. placed[d][Head1(d)] \in Order
    BY <1>1, <1>8, <2>1 DEF Materialize, IInv, PlacedIsSafe, TypeOK, Head1, Number, Order
  <2>3. placed[d][Head1(d)] \in Number /\ Ticket(d) \in Order \X Device
    BY <2>2 DEF Number, Order, Ticket
  <2> HIDE DEF Head1, Ticket
  <2> QED BY <1>1, <1>8, <2>1, <2>3 DEF Materialize, SetRequest, TypeOK, store, outbox
<1>9. CASE Acknowledged(d)
  BY <1>1, <1>9 DEF Acknowledged, TypeOK, server, requests, store
<1>10. CASE OutOfStock(d)
  <2>1. box[d] \in Seq(Request) /\ Head1(d) \in Request
    BY <1>1, <1>10 DEF OutOfStock, TypeOK, Head1
  <2> QED BY <1>1, <1>10, <2>1 DEF OutOfStock, TypeOK, server, requests, store
<1>11. CASE Retire(d)
  BY <1>1, <1>11, OnlineAssumption DEF Retire, TypeOK, requests, store, outbox
<1> QED BY <1>3, <1>4, <1>5, <1>6, <1>7, <1>8, <1>9, <1>10, <1>11 DEF DeviceStep

LEMMA TypeStep == IInv /\ [Next]_vars => TypeOK'
<1> SUFFICES ASSUME IInv, [Next]_vars PROVE TypeOK'
  OBVIOUS
<1>1. TypeOK /\ 0 \in Number
  BY OnlineAssumption DEF IInv, Number
<1>2. CASE UNCHANGED vars
  BY <1>1, <1>2 DEF TypeOK, vars, server, requests, store, outbox
<1>3. ASSUME NEW r \in Request, IntakeExpires(r) PROVE TypeOK'
  BY <1>1, <1>3 DEF IntakeExpires, SetRequest, TypeOK, store, outbox
<1>4. CASE LeaseEnds
  <2>1. expired' \in Number
    BY <1>1, <1>4, OnlineAssumption DEF LeaseEnds, TypeOK, Number
  <2> QED BY <1>1, <1>4, <2>1 DEF LeaseEnds, TypeOK, requests, store, outbox
<1>5. ASSUME NEW c \in late, ArrivesLate(c) PROVE TypeOK'
  <2>1. c.from \in Device /\ c.request \in Request /\ c.order \in Number
    BY <1>1 DEF TypeOK, Call
  <2> QED BY <1>1, <1>5, <2>1, HandleType DEF ArrivesLate, TypeOK, store, outbox
<1> QED BY <1>2, <1>3, <1>4, <1>5, DeviceStepType, RequestStepType DEF Next
-----------------------------------------------------------------------------
ServerInv == /\ ProcessingIsReserved /\ ReservationsAreDistinct
             /\ AcceptedIsReserved /\ RejectedWasWithdrawn

LEMMA HandleKeepsServer ==
  ASSUME IInv, NEW op, NEW d \in Device, NEW r \in Request, NEW o \in Number,
         Handle(op, d, r, o), op \in {"RELEASE", "REJECT"} => <<d, o>> \in withdrawn,
         UNCHANGED <<orders, withdrawn>>
  PROVE  ServerInv'
<1> USE DEF ServerInv
<1>1. TypeOK /\ ServerInv
  BY DEF IInv
<1>2. CASE UNCHANGED requests
  BY <1>1, <1>2 DEF requests, ProcessingIsReserved, ReservationsAreDistinct,
     AcceptedIsReserved, RejectedWasWithdrawn, Reserves
<1>3. CASE CanClaim(d, r) /\ Claim(d, r) /\ ~UNCHANGED requests
  <2> DEFINE res == Reserved(d, r)
  <2>1. /\ claims' = claims + 1 /\ UNCHANGED accepted
        /\ reservation' = [reservation EXCEPT ![r] = res]
        /\ SetRequest(r, "PROCESSING", d, claims + 1, res.order)
        /\ status[r] \in {"PENDING", "PROCESSING"}
    BY <1>3 DEF Claim, Lapsed
  <2>2. res.origin = d /\ res.order = IF reservation[r].order = 0 THEN claims + 1 ELSE reservation[r].order
    BY DEF Reserved
  <2>3. res = [order |-> res.order, origin |-> d]
    BY DEF Reserved
  <2>4. claims \in Nat /\ \A s \in Request : reservation[s].order \in Nat
    BY <1>1 DEF TypeOK, Number
  <2> HIDE DEF res
  <2>5. ProcessingIsReserved'
    <3>1. res.order # 0
      BY <2>2, <2>4
    <3> QED BY <1>1, <2>1, <2>3, <3>1, OnlineAssumption
        DEF ProcessingIsReserved, Reserves, SetRequest, TypeOK
  <2>6. ReservationsAreDistinct'
    BY <1>1, <2>1, <2>2, <2>4 DEF ReservationsAreDistinct, TypeOK
  <2>7. AcceptedIsReserved'
    BY <1>1, <2>1 DEF AcceptedIsReserved, SetRequest, TypeOK
  <2>8. RejectedWasWithdrawn'
    BY <1>1, <2>1 DEF RejectedWasWithdrawn, SetRequest, TypeOK
  <2> QED BY <2>5, <2>6, <2>7, <2>8
<1>4. CASE CanRelease(d, r, o) /\ Release(r, o)
  <2>1. status[r] \in {"PENDING", "PROCESSING"}
    BY <1>4 DEF CanRelease
  <2>2. ProcessingIsReserved'
    BY <1>1, <1>4 DEF ProcessingIsReserved, Release, SetRequest, Reserves, TypeOK
  <2>3. ReservationsAreDistinct'
    <3>1. claims' = claims /\ 0 <= claims
      BY <1>1, <1>4, OnlineAssumption DEF Release, TypeOK, Number
    <3>2. \A s \in Request : reservation'[s].order \in {0, reservation[s].order}
      BY <1>1, <1>4 DEF Release, Unreserved, TypeOK
    <3> QED BY <1>1, <3>1, <3>2 DEF ReservationsAreDistinct
  <2>4. AcceptedIsReserved'
    BY <1>1, <1>4, <2>1 DEF AcceptedIsReserved, Release, SetRequest, TypeOK
  <2>5. RejectedWasWithdrawn'
    BY <1>1, <1>4 DEF RejectedWasWithdrawn, Release, SetRequest, TypeOK
  <2> QED BY <2>2, <2>3, <2>4, <2>5
<1>5. CASE CanReject(d, r, o) /\ Reject(r) /\ op = "REJECT"
  <2>1. status[r] \in {"REJECTED", "PROCESSING"}
    BY <1>5 DEF CanReject
  <2>2. ProcessingIsReserved'
    BY <1>1, <1>5 DEF ProcessingIsReserved, Reject, SetRequest, Reserves, TypeOK
  <2>3. ReservationsAreDistinct'
    BY <1>1, <1>5 DEF ReservationsAreDistinct, Reject
  <2>4. AcceptedIsReserved'
    BY <1>1, <1>5, <2>1 DEF AcceptedIsReserved, Reject, SetRequest, TypeOK
  <2>5. RejectedWasWithdrawn'
    <3>1. \A s \in Request : status'[s] = "REJECTED" => s = r \/ status[s] = "REJECTED"
      BY <1>1, <1>5 DEF Reject, SetRequest, TypeOK
    <3>2. status[r] = "REJECTED" \/ <<reservation[r].origin, reservation[r].order>> \in withdrawn
      BY <1>5 DEF CanReject, Reserves
    <3> QED BY <1>1, <1>5, <3>1, <3>2 DEF RejectedWasWithdrawn, Reject
  <2> QED BY <2>2, <2>3, <2>4, <2>5
<1>6. \/ UNCHANGED requests
      \/ CanRelease(d, r, o) /\ Release(r, o)
      \/ CanReject(d, r, o) /\ Reject(r) /\ op = "REJECT"
      \/ CanClaim(d, r) /\ Claim(d, r)
  BY DEF Handle, Granted
<1> QED BY <1>2, <1>3, <1>4, <1>5, <1>6

\* The calls the server answers were recorded if they ask to withdraw.
LEMMA ServedCallsAreKnown ==
  ASSUME IInv
  PROVE  /\ \A d \in Device, r \in Request :
              Answered(d, r) => LET j == job[d][r] IN
                /\ Handle(j.op, d, r, j.row.order) /\ j.row.order \in Number
                /\ j.op \in {"RELEASE", "REJECT"} => <<d, j.row.order>> \in withdrawn
         /\ \A c \in late : ArrivesLate(c) =>
                /\ c.from \in Device /\ c.request \in Request /\ c.order \in Number
                /\ Handle(c.op, c.from, c.request, c.order)
                /\ c.op \in {"RELEASE", "REJECT"} => <<c.from, c.order>> \in withdrawn
<1>1. \A d \in Device, r \in Request : job[d][r].row.order \in Number
  BY DEF IInv, TypeOK, Job, Row
<1>2. \A c \in late : c.from \in Device /\ c.request \in Request /\ c.order \in Number
  BY DEF IInv, TypeOK, Call
<1>3. \A d \in Device, r \in Request :
        job[d][r].op \in {"RELEASE", "REJECT"} => <<d, job[d][r].row.order>> \in withdrawn
  BY DEF IInv, JobsAreKnown
<1>4. \A c \in late : c.op \in {"RELEASE", "REJECT"} => <<c.from, c.order>> \in withdrawn
  BY DEF IInv, CallsAreKnown
<1> QED BY <1>1, <1>2, <1>3, <1>4 DEF Answered, ArrivesLate

\* What else a step changes of the reservations, and who may withdraw.
LEMMA StepKeepsSafe ==
  ASSUME IInv, [Next]_vars, NEW e \in Device, NEW s \in Request, NEW n, Safe(e, s, n)
  PROVE  Safe(e, s, n)'
<1>1. TypeOK
  BY DEF IInv
<1>2. CASE reservation' = reservation /\ retired \subseteq retired' /\ withdrawn \subseteq withdrawn'
  BY <1>2 DEF Safe, Reserves
<1>3. ASSUME NEW d \in Device, NEW r \in Request, Answered(d, r)
      PROVE  Safe(e, s, n)'
  <2>1. UNCHANGED <<retired, withdrawn>>
    BY <1>3 DEF Answered
  <2> QED BY <1>1, <1>3, <2>1, ServedCallsAreKnown, HandleKeepsSafe
<1>4. ASSUME NEW c \in late, ArrivesLate(c)
      PROVE  Safe(e, s, n)'
  <2>1. UNCHANGED <<retired, withdrawn>>
    BY <1>4 DEF ArrivesLate
  <2> QED BY <1>1, <1>4, <2>1, ServedCallsAreKnown, HandleKeepsSafe
<1>5. ASSUME NEW d \in Device, DeviceStep(d)
      PROVE  reservation' = reservation /\ retired \subseteq retired' /\ withdrawn \subseteq withdrawn'
  BY <1>5 DEF DeviceStep, LoadLists, LoadFetches, LoadCompares, LoadWrites, LoadFails, Requeue,
     Materialize, Acknowledged, OutOfStock, Retire, server, requests
<1>6. ASSUME NEW d \in Device, NEW r \in Request, RequestStep(d, r), ~Answered(d, r)
      PROVE  reservation' = reservation /\ retired \subseteq retired' /\ withdrawn \subseteq withdrawn'
  BY <1>6 DEF RequestStep, Reconcile, StartClaim, StartReview, StartAccept, Finish, AcceptPlaces,
     AcceptMarks, GiveUp, server, requests
<1>7. ASSUME LeaseEnds \/ UNCHANGED vars \/ \E r \in Request : IntakeExpires(r)
      PROVE  reservation' = reservation /\ retired \subseteq retired' /\ withdrawn \subseteq withdrawn'
  BY <1>7 DEF LeaseEnds, IntakeExpires, vars, server, requests
<1> QED BY <1>2, <1>3, <1>4, <1>5, <1>6, <1>7 DEF Next

LEMMA ServerStep ==
  ASSUME IInv, [Next]_vars
  PROVE  ServerInv'
<1> USE DEF ServerInv
<1>1. TypeOK /\ ServerInv
  BY DEF IInv
<1>2. CASE UNCHANGED <<requests, orders>> /\ withdrawn \subseteq withdrawn'
  BY <1>1, <1>2 DEF requests, ProcessingIsReserved, ReservationsAreDistinct,
     AcceptedIsReserved, RejectedWasWithdrawn, Reserves
<1>3. ASSUME NEW d \in Device, NEW r \in Request, Answered(d, r)
      PROVE  ServerInv'
  <2>1. UNCHANGED <<orders, withdrawn>>
    BY <1>3 DEF Answered
  <2> QED BY <1>3, <2>1, ServedCallsAreKnown, HandleKeepsServer
<1>4. ASSUME NEW c \in late, ArrivesLate(c)
      PROVE  ServerInv'
  <2>1. UNCHANGED <<orders, withdrawn>>
    BY <1>4 DEF ArrivesLate
  <2> QED BY <1>4, <2>1, ServedCallsAreKnown, HandleKeepsServer
<1>5. ASSUME NEW d \in Device, LoadFetches(d)
      PROVE  ServerInv'
  <2>1. UNCHANGED <<orders, withdrawn>> /\ Requeue
    BY <1>5 DEF LoadFetches
  <2> QED BY <1>1, <2>1 DEF Requeue, Lapsed, TypeOK, ProcessingIsReserved, ReservationsAreDistinct,
        AcceptedIsReserved, RejectedWasWithdrawn, Reserves
<1>6. ASSUME NEW r \in Request, IntakeExpires(r)
      PROVE  ServerInv'
  BY <1>1, <1>6 DEF IntakeExpires, Untouched, SetRequest, TypeOK, ProcessingIsReserved,
     ReservationsAreDistinct, AcceptedIsReserved, RejectedWasWithdrawn, Reserves
<1>7. ASSUME NEW d \in Device, Materialize(d)
      PROVE  ServerInv'
  <2> DEFINE r == Head1(d)
             o == placed[d][r]
  <2>1. r \in Request /\ o # 0
    BY <1>1, <1>7 DEF Materialize, IInv, PlacedIsSafe, TypeOK, Head1
  <2>2. /\ MayMaterialize(d, r) /\ SetRequest(r, "ACCEPTED", NoDevice, 0, 0)
        /\ accepted' = [accepted EXCEPT ![r] = o] /\ orders' = orders \cup {<<o, d>>}
        /\ UNCHANGED <<reservation, claims, withdrawn>>
    BY <1>7 DEF Materialize, Ticket
  <2>3. /\ Undecided(r) /\ accepted[r] = 0
        /\ reservation[r].order = o /\ reservation[r].origin = d
    BY <2>2 DEF MayMaterialize, Reserves
  <2> HIDE DEF o, r
  <2>4. ProcessingIsReserved' /\ ReservationsAreDistinct' /\ RejectedWasWithdrawn'
    BY <1>1, <2>1, <2>2 DEF SetRequest, TypeOK, ProcessingIsReserved, ReservationsAreDistinct,
       RejectedWasWithdrawn, Reserves
  <2>5. \A x \in orders' : \E q \in Request : accepted'[q] = x[1]
    <3>1. \A x \in orders : x[1] # 0
      BY <1>1 DEF TypeOK, Order
    <3>2. accepted'[r] = o /\ <<o, d>>[1] = o
      BY <1>1, <2>1, <2>2 DEF TypeOK
    <3>3. \A x \in orders : \E q \in Request : accepted[q] = x[1] /\ q # r
      BY <1>1, <2>3, <3>1 DEF AcceptedIsReserved
    <3> QED BY <1>1, <2>1, <2>2, <3>2, <3>3 DEF TypeOK
  <2>6. \A q \in Request : accepted'[q] # 0 => <<accepted'[q], reservation'[q].origin>> \in orders'
    <3>1. accepted'[r] = o /\ \A q \in Request \ {r} : accepted'[q] = accepted[q]
      BY <1>1, <2>1, <2>2 DEF TypeOK
    <3> QED BY <1>1, <2>2, <2>3, <3>1 DEF AcceptedIsReserved
  <2>7. AcceptedIsReserved'
    <3>1. \A q \in Request : (status'[q] = "ACCEPTED" <=> accepted'[q] # 0)
      BY <1>1, <2>1, <2>2 DEF AcceptedIsReserved, SetRequest, TypeOK
    <3>2. \A q \in Request : accepted'[q] # 0 => accepted'[q] = reservation'[q].order
      BY <1>1, <2>1, <2>2, <2>3 DEF AcceptedIsReserved, TypeOK
    <3> QED BY <2>5, <2>6, <3>1, <3>2 DEF AcceptedIsReserved
  <2> QED BY <2>4, <2>7
<1>8. ASSUME NEW d \in Device, DeviceStep(d), ~LoadFetches(d), ~Materialize(d)
      PROVE  UNCHANGED <<requests, orders>> /\ withdrawn \subseteq withdrawn'
  BY <1>8 DEF DeviceStep, LoadLists, LoadCompares, LoadWrites, LoadFails,
     Acknowledged, OutOfStock, Retire, server
<1>9. ASSUME NEW d \in Device, NEW r \in Request, RequestStep(d, r), ~Answered(d, r)
      PROVE  UNCHANGED <<requests, orders>> /\ withdrawn \subseteq withdrawn'
  BY <1>9 DEF RequestStep, Reconcile, StartClaim, StartReview, StartAccept, Finish, AcceptPlaces,
     AcceptMarks, GiveUp, server
<1>10. ASSUME LeaseEnds \/ UNCHANGED vars
      PROVE  UNCHANGED <<requests, orders>> /\ withdrawn \subseteq withdrawn'
  BY <1>10 DEF LeaseEnds, vars, server
<1> QED BY <1>2, <1>3, <1>4, <1>5, <1>6, <1>7, <1>8, <1>9, <1>10 DEF Next
-----------------------------------------------------------------------------
\* A row that was safe before a step, as it is after it.
SafeThen(d, r, o) ==
  o # 0 => d \in retired' \/ <<d, o>> \in withdrawn'
           \/ reservation'[r] = [order |-> o, origin |-> d]
RowThen(d, r, row) == (row.status = "PROCESSING" <=> row.order # 0) /\ SafeThen(d, r, row.order)

LEMMA RowsStaySafe ==
  ASSUME IInv, [Next]_vars
  PROVE  /\ \A d \in Device, r \in Request :
              /\ RowThen(d, r, NoRow)
              /\ RowThen(d, r, cache[d][r]) /\ RowThen(d, r, pull[d].remote[r])
              /\ RowThen(d, r, job[d][r].row) /\ RowThen(d, r, Visible(d, r))
              /\ SafeThen(d, r, placed[d][r])
              /\ status[r] = "PROCESSING" /\ holder[r] = d => SafeThen(d, r, processing[r])
         /\ ServerInv'
<1>1. \A d \in Device, r \in Request : \A o : Safe(d, r, o) => SafeThen(d, r, o)
  BY StepKeepsSafe DEF Safe, SafeThen, Reserves
<1>2. \A d \in Device, r \in Request : \A row : RowIsSafe(d, r, row) => RowThen(d, r, row)
  BY <1>1 DEF RowIsSafe, RowThen
<1>3. \A d \in Device, r \in Request : RowIsSafe(d, r, NoRow)
  BY DEF RowIsSafe, NoRow, Safe
<1>4. \A d \in Device, r \in Request : RowIsSafe(d, r, Visible(d, r))
  BY <1>3 DEF IInv, CacheIsSafe, Visible
<1>5. \A d \in Device, r \in Request :
        status[r] = "PROCESSING" /\ holder[r] = d => Safe(d, r, processing[r])
  BY DEF IInv, ProcessingIsReserved, Safe
<1> QED BY <1>1, <1>2, <1>3, <1>4, <1>5, ServerStep
        DEF IInv, CacheIsSafe, PullIsSafe, JobIsSafe, PlacedIsSafe

LEMMA CacheStep ==
  ASSUME IInv, [Next]_vars
  PROVE  CacheIsSafe'
<1> SUFFICES ASSUME NEW e \in Device, NEW s \in Request
             PROVE  RowThen(e, s, cache'[e][s])
  BY DEF CacheIsSafe, RowIsSafe, RowThen, Safe, SafeThen, Reserves
<1>1. TypeOK
  BY DEF IInv
<1>2. CASE cache'[e][s] \in {cache[e][s], NoRow, job[e][s].row, pull[e].remote[s]}
  BY <1>2, RowsStaySafe
<1>3. ASSUME NEW d \in Device, NEW r \in Request, Finish(d, r)
      PROVE  RowThen(e, s, cache'[e][s])
  <2>1. RowThen(e, s, [NoRow EXCEPT !.status = "PENDING"])
    BY DEF NoRow, RowThen, SafeThen
  <2>2. cache'[e][s] \in {cache[e][s], NoRow, job[e][s].row, [NoRow EXCEPT !.status = "PENDING"]}
    <3>1. \E row \in {cache[d][r], NoRow, job[d][r].row, [NoRow EXCEPT !.status = "PENDING"]} :
            cache' = [cache EXCEPT ![d][r] = row]
      BY <1>1, <1>3 DEF Finish, Upsert, TypeOK
    <3> QED BY <1>1, <3>1 DEF TypeOK
  <2> QED BY <2>1, <2>2, RowsStaySafe
<1>4. ASSUME NEW d \in Device, NEW r \in Request, RequestStep(d, r), ~Finish(d, r)
      PROVE  cache'[e][s] \in {cache[e][s], NoRow}
  BY <1>1, <1>4 DEF RequestStep, Reconcile, MarkAccepted, StartClaim, StartReview, StartAccept,
     Answered, AcceptPlaces, AcceptMarks, GiveUp, store, TypeOK
<1>5. ASSUME NEW d \in Device, DeviceStep(d)
      PROVE  cache'[e][s] \in {cache[e][s], NoRow, pull[e].remote[s]}
  BY <1>1, <1>5 DEF DeviceStep, LoadLists, LoadFetches, LoadCompares, LoadWrites, LoadedRow,
     LoadFails, Materialize, Acknowledged, OutOfStock, Retire, store, TypeOK
<1>6. ASSUME \/ LeaseEnds \/ UNCHANGED vars \/ \E r \in Request : IntakeExpires(r)
             \/ \E c \in late : ArrivesLate(c)
      PROVE  cache'[e][s] = cache[e][s]
  BY <1>6 DEF LeaseEnds, IntakeExpires, ArrivesLate, vars, store
<1> QED BY <1>2, <1>3, <1>4, <1>5, <1>6 DEF Next

LEMMA PullStep ==
  ASSUME IInv, [Next]_vars
  PROVE  PullIsSafe'
<1> SUFFICES ASSUME NEW e \in Device, NEW s \in Request
             PROVE  RowThen(e, s, pull'[e].remote[s])
  BY DEF PullIsSafe, RowIsSafe, RowThen, Safe, SafeThen, Reserves
<1>1. TypeOK /\ pull[e] \in Pull /\ NoRows[s] = NoRow
  BY DEF IInv, TypeOK, NoRows
<1>2. CASE pull'[e].remote[s] \in {pull[e].remote[s], NoRow}
  BY <1>2, RowsStaySafe
<1>3. RowThen(e, s, Shown(e, s))
  <2>1. CASE status[s] = "PROCESSING" /\ holder[s] = e /\ ~Lapsed(s)
    <3>1. processing[s] # 0 /\ SafeThen(e, s, processing[s])
      BY <2>1, RowsStaySafe DEF IInv, ProcessingIsReserved
    <3> QED BY <2>1, <3>1 DEF Shown, RowThen
  <2> QED BY <2>1 DEF Shown, RowThen, SafeThen, NoRow
<1>4. ASSUME NEW d \in Device, LoadFetches(d)
      PROVE  pull'[e].remote[s] \in {pull[e].remote[s], Shown(e, s)}
  BY <1>1, <1>4 DEF LoadFetches, TypeOK, Pull
<1>5. ASSUME NEW d \in Device, DeviceStep(d), ~LoadFetches(d)
      PROVE  pull'[e].remote[s] \in {pull[e].remote[s], NoRow}
  <2>1. CASE pull' = pull
    BY <2>1
  <2>2. CASE LoadLists(d) \/ LoadWrites(d) \/ LoadFails(d)
    <3> DEFINE listed == [NoPull EXCEPT !.step = "LISTED", !.before = [r \in Request |-> Visible(d, r)]]
    <3>1. pull' = [pull EXCEPT ![d] = NoPull] \/ pull' = [pull EXCEPT ![d] = listed]
      BY <2>2 DEF LoadLists, LoadWrites, LoadFails
    <3>2. NoPull.remote = NoRows /\ listed.remote = NoRows
      BY DEF NoPull
    <3>3. PICK p : pull' = [pull EXCEPT ![d] = p] /\ p.remote = NoRows
      <4> HIDE DEF listed
      <4> QED BY <3>1, <3>2
    <3> QED BY <1>1, <3>3 DEF TypeOK
  <2>3. CASE LoadCompares(d)
    BY <1>1, <2>3 DEF LoadCompares, TypeOK
  <2> QED BY <1>5, <2>1, <2>2, <2>3 DEF DeviceStep, Materialize, Acknowledged, OutOfStock, Retire
<1>6. ASSUME NEW d \in Device, NEW r \in Request, RequestStep(d, r)
      PROVE  pull' = pull
  BY <1>6 DEF RequestStep, Reconcile, StartClaim, StartReview, StartAccept, Finish,
     Answered, AcceptPlaces, AcceptMarks, GiveUp
<1>7. ASSUME \/ LeaseEnds \/ UNCHANGED vars \/ \E r \in Request : IntakeExpires(r)
             \/ \E c \in late : ArrivesLate(c)
      PROVE  pull' = pull
  BY <1>7 DEF LeaseEnds, IntakeExpires, ArrivesLate, vars
<1> QED BY <1>2, <1>3, <1>4, <1>5, <1>6, <1>7 DEF Next

\* A claim that is granted is answered with the row it left behind.
LEMMA GrantedClaim ==
  ASSUME IInv, NEW d \in Device, NEW r \in Request, NEW o,
         Granted("CLAIM", d, r, o), Handle("CLAIM", d, r, o)
  PROVE  status'[r] = "PROCESSING" /\ holder'[r] = d
<1>1. CanClaim(d, r) /\ Claim(d, r) /\ TypeOK
  BY DEF Granted, Handle, IInv
<1>2. CASE status[r] = "PENDING" \/ Lapsed(r)
  BY <1>1, <1>2 DEF Claim, SetRequest, TypeOK
<1>3. CASE ~(status[r] = "PENDING" \/ Lapsed(r))
  BY <1>1, <1>3 DEF Claim, CanClaim, requests
<1> QED BY <1>2, <1>3

LEMMA JobStep ==
  ASSUME IInv, [Next]_vars
  PROVE  JobIsSafe' /\ JobsAreKnown'
<1> DEFINE Known(d, j) ==
      /\ j.op \in {"RELEASE", "REJECT", "ACCEPT"} => j.row.order # 0
      /\ j.op = "CLAIM" /\ j.step = "SENT" => j.row = NoRow
      /\ j.op \in {"RELEASE", "REJECT"} => <<d, j.row.order>> \in withdrawn'
    Good(d, r, j) == RowThen(d, r, j.row) /\ Known(d, j)
<1> SUFFICES ASSUME NEW e \in Device, NEW s \in Request
             PROVE  Good(e, s, job'[e][s])
  BY DEF JobIsSafe, JobsAreKnown, RowIsSafe, RowThen, Safe, SafeThen, Reserves
<1>1. TypeOK /\ withdrawn \subseteq withdrawn'
  <2>1. ASSUME NEW d \in Device, DeviceStep(d)
        PROVE  withdrawn \subseteq withdrawn'
    BY <2>1 DEF DeviceStep, LoadLists, LoadFetches, LoadCompares, LoadWrites, LoadFails,
       Materialize, Acknowledged, OutOfStock, Retire
  <2>2. ASSUME NEW d \in Device, NEW r \in Request, RequestStep(d, r)
        PROVE  withdrawn \subseteq withdrawn'
    BY <2>2 DEF RequestStep, Reconcile, StartClaim, StartReview, StartAccept, Finish, Answered,
       AcceptPlaces, AcceptMarks, GiveUp
  <2> QED BY <2>1, <2>2 DEF IInv, Next, vars, LeaseEnds, IntakeExpires, ArrivesLate
<1>2. Good(e, s, job[e][s]) /\ Good(e, s, Free)
  BY <1>1, RowsStaySafe DEF IInv, JobsAreKnown, Free
<1> HIDE DEF Good
<1>3. CASE job' = job
  BY <1>2, <1>3
<1>4. ASSUME NEW d \in Device, NEW r \in Request, NEW j, Good(d, r, j),
             job' = [job EXCEPT ![d][r] = j]
      PROVE  Good(e, s, job'[e][s])
  <2>1. CASE e = d /\ s = r
    BY <1>1, <1>4, <2>1 DEF TypeOK
  <2>2. CASE ~(e = d /\ s = r)
    BY <1>1, <1>2, <1>4, <2>2 DEF TypeOK
  <2> QED BY <2>1, <2>2
<1>5. ASSUME NEW d \in Device, NEW r \in Request, RequestStep(d, r)
      PROVE  Good(e, s, job'[e][s])
  <2> DEFINE j == job[d][r]
  <2>1. Good(d, r, j) /\ Good(d, r, Free) /\ j \in Job
    BY <1>1, RowsStaySafe DEF IInv, JobsAreKnown, Free, Good, TypeOK
  <2>2. CASE StartClaim(d, r)
    <3>1. Good(d, r, [op |-> "CLAIM", step |-> "SENT", row |-> NoRow])
      BY RowsStaySafe DEF Good
    <3> QED BY <1>4, <2>2, <3>1 DEF StartClaim, Take
  <2>3. CASE StartReview(d, r) \/ StartAccept(d, r)
    <3>1. Visible(d, r).order # 0
      BY <2>3, RowsStaySafe DEF StartReview, StartAccept, Claimed, RowThen
    <3>2. \E op \in {"RELEASE", "REJECT", "ACCEPT"} :
            /\ Take(d, r, op, "SENT", Visible(d, r))
            /\ op # "ACCEPT" => <<d, Visible(d, r).order>> \in withdrawn'
      BY <2>3 DEF StartReview, StartAccept
    <3>3. \A op \in {"RELEASE", "REJECT", "ACCEPT"} :
            (op # "ACCEPT" => <<d, Visible(d, r).order>> \in withdrawn')
              => Good(d, r, [op |-> op, step |-> "SENT", row |-> Visible(d, r)])
      BY <3>1, RowsStaySafe DEF Good
    <3> QED BY <1>4, <3>2, <3>3 DEF Take
  <2>4. CASE Answered(d, r)
    <3> DEFINE row == [status |-> "PROCESSING", order |-> processing'[r],
                       lease |-> lease'[r], origin |-> reservation'[r].origin]
    <3>1. CASE ~Granted(j.op, d, r, j.row.order)
      BY <1>4, <2>1, <2>4, <3>1 DEF Answered
    <3>2. CASE Granted(j.op, d, r, j.row.order) /\ j.op # "CLAIM"
      <4>1. Good(d, r, [op |-> j.op, step |-> "DONE", row |-> j.row])
        BY <2>1, <3>2 DEF Good
      <4> QED BY <1>4, <2>4, <3>2, <4>1 DEF Answered
    <3>3. CASE Granted(j.op, d, r, j.row.order) /\ j.op = "CLAIM"
      <4>1. status'[r] = "PROCESSING" /\ holder'[r] = d
        BY <2>4, <3>3, GrantedClaim DEF Answered
      <4>2. processing'[r] # 0 /\ reservation'[r] = [order |-> processing'[r], origin |-> d]
        BY <4>1, RowsStaySafe DEF ServerInv, ProcessingIsReserved, Reserves
      <4>3. Good(d, r, [op |-> j.op, step |-> "DONE", row |-> row])
        BY <3>3, <4>2 DEF Good, RowThen, SafeThen
      <4> QED BY <1>4, <2>4, <3>3, <4>3 DEF Answered
    <3> QED BY <3>1, <3>2, <3>3
  <2>5. CASE AcceptPlaces(d, r)
    <3>1. job' = [job EXCEPT ![d][r] = [op |-> j.op, step |-> "DONE", row |-> j.row]]
      BY <2>5 DEF AcceptPlaces
    <3>2. Good(d, r, [op |-> j.op, step |-> "DONE", row |-> j.row])
      BY <2>1, <2>5 DEF Good, AcceptPlaces
    <3> QED BY <1>4, <3>1, <3>2
  <2>6. CASE Finish(d, r) \/ AcceptMarks(d, r) \/ GiveUp(d, r)
    <3>1. job' = [job EXCEPT ![d][r] = Free]
      BY <2>6 DEF Finish, AcceptMarks, GiveUp
    <3> QED BY <1>4, <2>1, <3>1
  <2> QED BY <1>3, <1>5, <2>2, <2>3, <2>4, <2>5, <2>6 DEF RequestStep, Reconcile
<1>6. ASSUME \/ LeaseEnds \/ UNCHANGED vars \/ \E r \in Request : IntakeExpires(r)
             \/ \E c \in late : ArrivesLate(c)
             \/ \E d \in Device : DeviceStep(d)
      PROVE  job' = job
  BY <1>6 DEF LeaseEnds, IntakeExpires, ArrivesLate, vars, DeviceStep, LoadLists, LoadFetches,
     LoadCompares, LoadWrites, LoadFails, Materialize, Acknowledged, OutOfStock, Retire
<1> QED BY <1>3, <1>5, <1>6 DEF Next

LEMMA PlacedStep ==
  ASSUME IInv, [Next]_vars
  PROVE  PlacedIsSafe'
<1> SUFFICES ASSUME NEW e \in Device
             PROVE  /\ \A s \in Request : SafeThen(e, s, placed'[e][s])
                    /\ \A i \in DOMAIN box'[e] : placed'[e][box'[e][i]] # 0
  BY DEF PlacedIsSafe, Safe, SafeThen, Reserves
<1>1. TypeOK
  BY DEF IInv
<1>2. /\ \A s \in Request : SafeThen(e, s, placed[e][s])
      /\ \A i \in DOMAIN box[e] : placed[e][box[e][i]] # 0
      /\ box[e] \in Seq(Request)
  BY <1>1, RowsStaySafe DEF IInv, PlacedIsSafe, TypeOK
<1>3. CASE placed' = placed /\ box' = box
  BY <1>2, <1>3
<1>4. CASE placed' = placed /\ \E d \in Device : box[d] # <<>> /\ box' = [box EXCEPT ![d] = Tail(@)]
  <2>1. \A i \in DOMAIN box'[e] : \E k \in DOMAIN box[e] : box'[e][i] = box[e][k]
    <3>1. PICK d \in Device : box[d] # <<>> /\ box' = [box EXCEPT ![d] = Tail(@)]
      BY <1>4
    <3>2. CASE e = d
      BY <1>1, <1>2, <3>1, <3>2 DEF TypeOK
    <3>3. CASE e # d
      BY <1>1, <3>1, <3>3 DEF TypeOK
    <3> QED BY <3>2, <3>3
  <2> QED BY <1>2, <1>4, <2>1
<1>5. ASSUME NEW d \in Device, NEW r \in Request, AcceptPlaces(d, r)
      PROVE  /\ \A s \in Request : SafeThen(e, s, placed'[e][s])
             /\ \A i \in DOMAIN box'[e] : placed'[e][box'[e][i]] # 0
  <2> DEFINE o == job[d][r].row.order
  <2>1. SafeThen(d, r, o) /\ o # 0
    BY <1>5, RowsStaySafe DEF RowThen, IInv, JobsAreKnown, AcceptPlaces
  <2>2. CASE placed[d][r] = 0 /\ e = d
    <3>1. /\ placed' = [placed EXCEPT ![d][r] = o]
          /\ box'[e] = Append(box[e], r)
      BY <1>1, <1>5, <2>2 DEF AcceptPlaces, TypeOK
    <3> HIDE DEF o
    <3>2. \A s \in Request : placed'[e][s] = IF s = r THEN o ELSE placed[e][s]
      BY <1>1, <2>2, <3>1 DEF TypeOK
    <3>3. \A i \in DOMAIN box'[e] : box'[e][i] = r \/ (i \in DOMAIN box[e] /\ box'[e][i] = box[e][i])
      BY <1>2, <3>1
    <3>4. \A i \in DOMAIN box[e] : box[e][i] \in Request
      BY <1>2
    <3> QED BY <1>2, <2>1, <2>2, <3>2, <3>3, <3>4
  <2>3. CASE placed[d][r] # 0 \/ e # d
    <3>1. placed'[e] = placed[e] /\ box'[e] = box[e]
      BY <1>1, <1>5, <2>3 DEF AcceptPlaces, TypeOK
    <3> QED BY <1>2, <3>1
  <2> QED BY <2>2, <2>3
<1>6. ASSUME NEW d \in Device, NEW r \in Request, RequestStep(d, r), ~AcceptPlaces(d, r)
      PROVE  placed' = placed /\ box' = box
  BY <1>6 DEF RequestStep, Reconcile, StartClaim, StartReview, StartAccept, Finish, Answered,
     AcceptMarks, GiveUp, outbox
<1>7. ASSUME NEW d \in Device, DeviceStep(d), ~Acknowledged(d), ~OutOfStock(d)
      PROVE  placed' = placed /\ box' = box
  BY <1>7 DEF DeviceStep, LoadLists, LoadFetches, LoadCompares, LoadWrites, LoadFails,
     Materialize, Retire, outbox
<1>8. ASSUME \/ LeaseEnds \/ UNCHANGED vars \/ \E r \in Request : IntakeExpires(r)
             \/ \E c \in late : ArrivesLate(c)
      PROVE  placed' = placed /\ box' = box
  BY <1>8 DEF LeaseEnds, IntakeExpires, ArrivesLate, vars, outbox
<1>9. ASSUME NEW d \in Device, Acknowledged(d) \/ OutOfStock(d)
      PROVE  placed' = placed /\ box[d] # <<>> /\ box' = [box EXCEPT ![d] = Tail(@)]
  BY <1>9 DEF Acknowledged, OutOfStock
<1> QED BY <1>3, <1>4, <1>5, <1>6, <1>7, <1>8, <1>9 DEF Next

LEMMA CallsStep ==
  ASSUME IInv, [Next]_vars
  PROVE  CallsAreKnown'
<1>1. CASE late' \subseteq late /\ withdrawn \subseteq withdrawn'
  BY <1>1 DEF IInv, CallsAreKnown
<1>2. ASSUME NEW d \in Device, NEW r \in Request, GiveUp(d, r)
      PROVE  CallsAreKnown'
  <2> DEFINE j == job[d][r]
             c == [op |-> j.op, from |-> d, request |-> r, order |-> j.row.order]
  <2>1. \/ late' = late
        \/ late' = late \cup {c} /\ j.op \in {"CLAIM", "RELEASE", "REJECT"}
    BY <1>2 DEF GiveUp
  <2>2. withdrawn' = withdrawn
    BY <1>2 DEF GiveUp
  <2>3. j.op \in {"RELEASE", "REJECT"} => <<d, j.row.order>> \in withdrawn
    BY DEF IInv, JobsAreKnown
  <2>4. j.op \in {"CLAIM", "RELEASE", "REJECT"} => c.op = "CLAIM" \/ <<c.from, c.order>> \in withdrawn
    BY <2>3
  <2> HIDE DEF c, j
  <2> QED BY <2>1, <2>2, <2>4 DEF IInv, CallsAreKnown
<1>3. ASSUME NEW d \in Device, NEW r \in Request, RequestStep(d, r), ~GiveUp(d, r)
      PROVE  late' \subseteq late /\ withdrawn \subseteq withdrawn'
  BY <1>3 DEF RequestStep, Reconcile, StartClaim, StartReview, StartAccept, Finish, Answered,
     AcceptPlaces, AcceptMarks
<1>4. ASSUME NEW d \in Device, DeviceStep(d)
      PROVE  late' \subseteq late /\ withdrawn \subseteq withdrawn'
  BY <1>4 DEF DeviceStep, LoadLists, LoadFetches, LoadCompares, LoadWrites, LoadFails,
     Materialize, Acknowledged, OutOfStock, Retire
<1>5. ASSUME \/ LeaseEnds \/ UNCHANGED vars \/ \E r \in Request : IntakeExpires(r)
             \/ \E c \in late : ArrivesLate(c)
      PROVE  late' \subseteq late /\ withdrawn \subseteq withdrawn'
  BY <1>5 DEF LeaseEnds, IntakeExpires, ArrivesLate, vars
<1> QED BY <1>1, <1>2, <1>3, <1>4, <1>5 DEF Next

\* The inductive invariant holds: in every reachable state an order id a device
\* holds is reserved for it, withdrawn by it, or the device is retired.
THEOREM Invariance == Spec => []IInv
<1>1. IInv /\ [Next]_vars => IInv'
  BY TypeStep, ServerStep, CacheStep, PullStep, JobStep, PlacedStep, CallsStep DEF IInv, ServerInv
<1> QED BY <1>1, InitHolds, PTL DEF Spec

\* Type correctness, and the claim never parts from its reservation.
THEOREM ProcessingStaysReserved == Spec => []TypeOK /\ []ProcessingIsReserved
<1>1. IInv => TypeOK /\ ProcessingIsReserved
  BY DEF IInv
<1> QED BY <1>1, Invariance, PTL

\* An accepted order keeps its reservation until it decides the request, for
\* every number of devices, requests, claims, lost calls and restarts.
THEOREM AcceptancesAreProtected == Spec => []AcceptanceIsProtected
<1>1. IInv => AcceptanceIsProtected
  <2> SUFFICES ASSUME IInv, NEW d \in Device \ retired, NEW r \in Request,
                      placed[d][r] # 0, <<d, placed[d][r]>> \notin withdrawn
               PROVE  /\ Reserves(r, placed[d][r], d)
                      /\ \/ Undecided(r) /\ accepted[r] = 0
                         \/ status[r] = "ACCEPTED" /\ accepted[r] = placed[d][r]
    BY DEF AcceptanceIsProtected
  <2>1. Reserves(r, placed[d][r], d)
    BY DEF IInv, PlacedIsSafe, Safe
  <2>2. reservation[r].order = placed[d][r] /\ reservation[r].origin = d
    BY <2>1 DEF Reserves
  <2>3. status[r] # "REJECTED"
    BY <2>2 DEF IInv, RejectedWasWithdrawn
  <2>4. /\ status[r] = "ACCEPTED" <=> accepted[r] # 0
        /\ accepted[r] # 0 => accepted[r] = placed[d][r]
    BY <2>2 DEF IInv, AcceptedIsReserved
  <2>5. status[r] \in {"PENDING", "PROCESSING", "ACCEPTED", "REJECTED"}
    BY DEF IInv, TypeOK
  <2> QED BY <2>1, <2>3, <2>4, <2>5 DEF Undecided
<1> QED BY <1>1, Invariance, PTL

\* An acceptance that was not withdrawn never blocks its device's outbox: every
\* device, request and order of events, a claim that lapsed long ago included.
THEOREM AcceptancesAreNotStuck == Spec => []NoAcceptanceIsStuck
<1>1. IInv /\ AcceptanceIsProtected => NoAcceptanceIsStuck
  <2> SUFFICES ASSUME IInv, AcceptanceIsProtected, NEW d \in Device \ retired, box[d] # <<>>,
                      <<d, placed[d][Head1(d)]>> \notin withdrawn,
                      ~MayMaterialize(d, Head1(d))
               PROVE  Ticket(d) \in orders
    BY DEF NoAcceptanceIsStuck
  <2> DEFINE r == Head1(d)
  <2>1. r \in Request /\ placed[d][r] # 0
    BY DEF IInv, TypeOK, PlacedIsSafe, Head1
  <2> HIDE DEF r
  <2>2. Reserves(r, placed[d][r], d) /\ accepted[r] = placed[d][r]
    BY <2>1 DEF AcceptanceIsProtected, MayMaterialize, r
  <2>3. <<accepted[r], reservation[r].origin>> \in orders
    BY <2>1, <2>2 DEF IInv, AcceptedIsReserved
  <2> QED BY <2>2, <2>3 DEF Reserves, Ticket, r
<1> QED BY <1>1, Invariance, AcceptancesAreProtected, PTL
-----------------------------------------------------------------------------
Served == {x[1] : x \in orders}

\* What a decision looks like to the customer.
LEMMA Rejecting ==
  ASSUME TypeOK, NEW r \in Request, Undecided(r), status' = [status EXCEPT ![r] = "REJECTED"],
         UNCHANGED <<accepted, orders>>
  PROVE  Decision!Reject(r)
BY DEF Decision!Reject, Decided, Undecided, TypeOK

LEMMA Undecidedness ==
  ASSUME TypeOK, UNCHANGED <<accepted, orders>>,
         \A r \in Request : status'[r] = status[r] \/ {status[r], status'[r]} \subseteq {"PENDING", "PROCESSING"}
  PROVE  Decided' = Decided
BY DEF Decided, TypeOK

LEMMA HandleDecides ==
  ASSUME TypeOK, NEW op, NEW d \in Device, NEW r \in Request, NEW o,
         Handle(op, d, r, o), UNCHANGED orders
  PROVE  Decision!Reject(r) \/ UNCHANGED <<Decided, orders>>
<1>1. CASE UNCHANGED requests
  BY <1>1 DEF requests, Decided
<1>2. CASE Claim(d, r) /\ ~UNCHANGED requests
  <2>1. \A s \in Request : status'[s] = status[s] \/ {status[s], status'[s]} \subseteq {"PENDING", "PROCESSING"}
    BY <1>2 DEF Claim, SetRequest, Lapsed, TypeOK
  <2> QED BY <1>2, <2>1, Undecidedness DEF Claim
<1>3. CASE CanRelease(d, r, o) /\ Release(r, o)
  <2>1. \A s \in Request : status'[s] = status[s] \/ {status[s], status'[s]} \subseteq {"PENDING", "PROCESSING"}
    BY <1>3 DEF CanRelease, Release, SetRequest, TypeOK
  <2> QED BY <1>3, <2>1, Undecidedness DEF Release
<1>4. CASE CanReject(d, r, o) /\ Reject(r)
  <2>1. CASE status[r] = "REJECTED"
    BY <1>4, <2>1 DEF Reject, SetRequest, TypeOK, Decided
  <2>2. CASE Undecided(r)
    BY <1>4, <2>2, Rejecting DEF Reject, SetRequest
  <2> QED BY <1>4, <2>1, <2>2 DEF CanReject, Undecided
<1>5. \/ UNCHANGED requests
      \/ CanRelease(d, r, o) /\ Release(r, o)
      \/ CanReject(d, r, o) /\ Reject(r)
      \/ Claim(d, r)
  BY DEF Handle, Granted
<1> QED BY <1>1, <1>2, <1>3, <1>4, <1>5

LEMMA MaterializeDecides ==
  ASSUME IInv, NEW d \in Device, Materialize(d)
  PROVE  Decision!Next
<1>1. TypeOK
  BY DEF IInv
<1>2. PICK r \in Request, o \in Number : r = Head1(d) /\ o = placed[d][r] /\ o # 0
  BY <1>1 DEF Materialize, IInv, PlacedIsSafe, TypeOK, Head1
<1>3. o \in Order
  BY <1>2, OnlineAssumption DEF Number, Order
<1>4. /\ MayMaterialize(d, r) /\ status' = [status EXCEPT ![r] = "ACCEPTED"]
      /\ accepted' = [accepted EXCEPT ![r] = o] /\ orders' = orders \cup {<<o, d>>}
  BY <1>2 DEF Materialize, Ticket, SetRequest
<1>5. Undecided(r) /\ accepted[r] = 0 /\ reservation[r].order = o
  BY <1>2, <1>4 DEF MayMaterialize, Reserves
<1>6. o \notin Served
  <2> SUFFICES ASSUME NEW x \in orders, x[1] = o PROVE FALSE
    BY DEF Served
  <2>1. PICK q \in Request : accepted[q] = o
    BY DEF IInv, AcceptedIsReserved
  <2>2. reservation[q].order = o
    BY <1>2, <2>1 DEF IInv, AcceptedIsReserved
  <2>3. q = r
    BY <1>2, <1>5, <2>2 DEF IInv, ReservationsAreDistinct
  <2> QED BY <1>2, <1>5, <2>1, <2>3
<1>7. Decided[r] = 0 /\ Decided' = [Decided EXCEPT ![r] = o]
  BY <1>1, <1>2, <1>4, <1>5 DEF Decided, Undecided, TypeOK
<1>8. Served' = Served \cup {o}
  <2>1. <<o, d>>[1] = o
    OBVIOUS
  <2>2. \A x : x \in orders' <=> x \in orders \/ x = <<o, d>>
    BY <1>4
  <2> QED BY <2>1, <2>2 DEF Served
<1>9. Decision!Accept(r, o)
  BY <1>6, <1>7, <1>8 DEF Decision!Accept, Served
<1> QED BY <1>3, <1>9 DEF Decision!Next

LEMMA DecisionStep ==
  ASSUME IInv, [Next]_vars
  PROVE  [Decision!Next]_<<Decided, Served>>
<1>1. TypeOK
  BY DEF IInv
<1>2. CASE UNCHANGED <<requests, orders>>
  BY <1>2 DEF requests, Decided, Served
<1>3. ASSUME NEW d \in Device, NEW r \in Request, Answered(d, r)
      PROVE  \/ \E s \in Request : Decision!Reject(s)
             \/ UNCHANGED <<Decided, orders>>
  <2>1. UNCHANGED orders
    BY <1>3 DEF Answered
  <2> QED BY <1>1, <1>3, <2>1, ServedCallsAreKnown, HandleDecides
<1>4. ASSUME NEW c \in late, ArrivesLate(c)
      PROVE  \/ \E s \in Request : Decision!Reject(s)
             \/ UNCHANGED <<Decided, orders>>
  <2>1. UNCHANGED orders
    BY <1>4 DEF ArrivesLate
  <2> QED BY <1>1, <1>4, <2>1, ServedCallsAreKnown, HandleDecides
<1>5. ASSUME NEW d \in Device, LoadFetches(d)
      PROVE  UNCHANGED <<Decided, orders>>
  <2>1. \A s \in Request : status'[s] = status[s] \/ {status[s], status'[s]} \subseteq {"PENDING", "PROCESSING"}
    BY <1>1, <1>5 DEF LoadFetches, Requeue, Lapsed, TypeOK
  <2> QED BY <1>1, <1>5, <2>1, Undecidedness DEF LoadFetches, Requeue
<1>6. ASSUME NEW r \in Request, IntakeExpires(r)
      PROVE  Decision!Reject(r)
  BY <1>1, <1>6, Rejecting DEF IntakeExpires, Untouched, Undecided, SetRequest
<1>7. ASSUME NEW d \in Device, DeviceStep(d), ~LoadFetches(d), ~Materialize(d)
      PROVE  UNCHANGED <<requests, orders>>
  BY <1>7 DEF DeviceStep, LoadLists, LoadCompares, LoadWrites, LoadFails,
     Acknowledged, OutOfStock, Retire, server
<1>8. ASSUME NEW d \in Device, NEW r \in Request, RequestStep(d, r), ~Answered(d, r)
      PROVE  UNCHANGED <<requests, orders>>
  BY <1>8 DEF RequestStep, Reconcile, StartClaim, StartReview, StartAccept, Finish, AcceptPlaces,
     AcceptMarks, GiveUp, server
<1>9. ASSUME LeaseEnds \/ UNCHANGED vars
      PROVE  UNCHANGED <<requests, orders>>
  BY <1>9 DEF LeaseEnds, vars, server
<1>10. CASE UNCHANGED <<Decided, orders>>
  BY <1>10 DEF Served
<1>11. ASSUME NEW d \in Device, Materialize(d)
       PROVE  Decision!Next
  BY <1>11, MaterializeDecides
<1>12. ASSUME NEW s \in Request, Decision!Reject(s)
       PROVE  Decision!Next
  BY <1>12 DEF Decision!Next
<1> HIDE DEF Served
<1> QED BY <1>2, <1>3, <1>4, <1>5, <1>6, <1>7, <1>8, <1>9, <1>10, <1>11, <1>12 DEF Next

\* The server implements RequestDecision: a request is decided once, and one
\* order is made for it.
THEOREM DecisionRefinement == Spec => DecidedOnce
<1>1. Init => Decision!Init
  BY DEF Init, Decision!Init, Decided
<1>2. IInv /\ [Next]_vars => [Decision!Next]_<<Decided, {x[1] : x \in orders}>>
  BY DecisionStep DEF Served
<1> QED BY <1>1, <1>2, Invariance, PTL DEF Spec, DecidedOnce, Decision!Spec
-----------------------------------------------------------------------------
\* A request is hidden, or about to be, only if an order was made for it.
LEMMA MarkedStep ==
  ASSUME IInv, MarkedIsPlaced, [Next]_vars
  PROVE  MarkedIsPlaced'
<1>1. TypeOK
  BY DEF IInv
<1>2. \A d \in Device, r \in Request : Claimed(d, r) => Visible(d, r).order # 0
  BY DEF Claimed, Visible, IInv, CacheIsSafe, RowIsSafe, NoRow
<1>3. ASSUME NEW d \in Device, NEW r \in Request, RequestStep(d, r),
             NEW e \in Device, NEW s \in Request
      PROVE  /\ placed[e][s] # 0 => placed'[e][s] # 0
             /\ (s \in marked'[e] => s \in marked[e] \/ placed'[e][s] # 0)
             /\ (job'[e][s].op = "ACCEPT" /\ job'[e][s].step = "DONE"
                   => (job[e][s].op = "ACCEPT" /\ job[e][s].step = "DONE") \/ placed'[e][s] # 0)
  <2>1. CASE Reconcile(d, r)
    BY <1>1, <1>2, <1>3, <2>1 DEF Reconcile, Committed, MarkAccepted, outbox, TypeOK
  <2>2. CASE AcceptMarks(d, r)
    BY <1>1, <1>3, <2>2 DEF AcceptMarks, MarkAccepted, outbox, TypeOK, Free, MarkedIsPlaced
  <2>3. CASE AcceptPlaces(d, r)
    <3>1. job[d][r].row.order # 0
      BY <2>3 DEF AcceptPlaces, IInv, JobsAreKnown
    <3>2. placed'[d][r] # 0 /\ (placed[e][s] # 0 => placed'[e][s] # 0)
      <4>1. CASE placed[d][r] # 0
        <5>1. placed' = placed
          BY <2>3, <4>1 DEF AcceptPlaces
        <5> QED BY <4>1, <5>1
      <4>2. CASE placed[d][r] = 0
        <5>1. placed' = [placed EXCEPT ![d][r] = job[d][r].row.order]
          BY <2>3, <4>2 DEF AcceptPlaces
        <5> QED BY <1>1, <1>3, <3>1, <5>1 DEF TypeOK
      <4> QED BY <4>1, <4>2
    <3>3. /\ marked' = marked
          /\ job' = [job EXCEPT ![d][r] = [op |-> "ACCEPT", step |-> "DONE", row |-> job[d][r].row]]
      BY <2>3 DEF AcceptPlaces, store
    <3>4. ~(e = d /\ s = r) => job'[e][s] = job[e][s]
      BY <1>1, <1>3, <3>3 DEF TypeOK
    <3> QED BY <3>2, <3>3, <3>4
  <2>4. CASE ~Reconcile(d, r) /\ ~AcceptMarks(d, r) /\ ~AcceptPlaces(d, r)
    <3>1. UNCHANGED <<marked, placed>>
      BY <1>3, <2>4 DEF RequestStep, StartClaim, StartReview, StartAccept, Answered, Finish,
         GiveUp, store, outbox
    <3>2. \/ job'[e][s] = job[e][s]
          \/ ~(job'[e][s].op = "ACCEPT" /\ job'[e][s].step = "DONE")
      <4>1. PICK j : /\ job' = [job EXCEPT ![d][r] = j]
                     /\ ~(j.op = "ACCEPT" /\ j.step = "DONE")
        <5>1. CASE Answered(d, r)
          <6> DEFINE k == job[d][r]
                     j == IF ~Granted(k.op, d, r, k.row.order) THEN Free
                          ELSE [op |-> k.op, step |-> "DONE",
                                row |-> IF k.op # "CLAIM" THEN k.row
                                        ELSE [status |-> "PROCESSING", order |-> processing'[r],
                                              lease |-> lease'[r], origin |-> reservation'[r].origin]]
          <6>1. job' = [job EXCEPT ![d][r] = j]
            BY <5>1 DEF Answered
          <6>2. ~(j.op = "ACCEPT" /\ j.step = "DONE")
            BY <5>1 DEF Answered, Free
          <6> QED BY <6>1, <6>2
        <5>2. CASE Finish(d, r) \/ GiveUp(d, r)
          <6>1. job' = [job EXCEPT ![d][r] = Free]
            BY <5>2 DEF Finish, GiveUp
          <6>2. Free.op = "NONE"
            BY DEF Free
          <6> QED BY <6>1, <6>2
        <5>3. ASSUME NEW op, NEW row, Take(d, r, op, "SENT", row)
              PROVE  \E j : /\ job' = [job EXCEPT ![d][r] = j]
                            /\ ~(j.op = "ACCEPT" /\ j.step = "DONE")
          <6> DEFINE j == [op |-> op, step |-> "SENT", row |-> row]
          <6>1. job' = [job EXCEPT ![d][r] = j]
            BY <5>3 DEF Take
          <6>2. j.step # "DONE"
            OBVIOUS
          <6> HIDE DEF j
          <6> QED BY <6>1, <6>2
        <5>4. CASE StartClaim(d, r)
          BY <5>3, <5>4, Zenon DEF StartClaim
        <5>5. CASE StartAccept(d, r)
          BY <5>3, <5>5, Zenon DEF StartAccept
        <5>6. CASE StartReview(d, r)
          BY <5>3, <5>6, Zenon DEF StartReview
        <5> QED BY <1>3, <2>4, <5>1, <5>2, <5>4, <5>5, <5>6, Zenon DEF RequestStep
      <4> QED BY <1>1, <1>3, <4>1 DEF TypeOK
    <3> QED BY <3>1, <3>2
  <2> QED BY <2>1, <2>2, <2>3, <2>4
<1>4. ASSUME NEW d \in Device, DeviceStep(d) PROVE UNCHANGED <<marked, placed, job>>
  BY <1>4 DEF DeviceStep, LoadLists, LoadFetches, LoadCompares, LoadWrites, LoadFails,
     Materialize, Acknowledged, OutOfStock, Retire, store, outbox
<1>5. ASSUME LeaseEnds \/ UNCHANGED vars \/ (\E r \in Request : IntakeExpires(r))
             \/ \E c \in late : ArrivesLate(c)
      PROVE  UNCHANGED <<marked, placed, job>>
  BY <1>5 DEF LeaseEnds, IntakeExpires, ArrivesLate, vars, store, outbox
<1> QED BY <1>3, <1>4, <1>5 DEF Next, MarkedIsPlaced

\* What leaves the head of an outbox is at the server or quarantined.
LEMMA OnItsWayStep ==
  ASSUME IInv, PlacedIsOnItsWay, [Next]_vars
  PROVE  PlacedIsOnItsWay'
<1>1. TypeOK
  BY DEF IInv
<1>2. ASSUME UNCHANGED outbox, orders \subseteq orders' PROVE PlacedIsOnItsWay'
  BY <1>2 DEF outbox, PlacedIsOnItsWay, OnItsWay, InBox
<1>3. ASSUME NEW d \in Device, Acknowledged(d) \/ OutOfStock(d) PROVE PlacedIsOnItsWay'
  <2>1. /\ box[d] # <<>> /\ box' = [box EXCEPT ![d] = Tail(@)]
        /\ UNCHANGED <<placed, orders>>
        /\ \A e \in Device : quarantined[e] \subseteq quarantined'[e]
        /\ Head1(d) \in quarantined'[d] \/ <<placed[d][Head1(d)], d>> \in orders
    <3>1. CASE Acknowledged(d)
      BY <3>1 DEF Acknowledged, Ticket, server
    <3>2. CASE OutOfStock(d)
      <4>1. /\ box[d] # <<>> /\ box' = [box EXCEPT ![d] = Tail(@)]
            /\ UNCHANGED <<placed, orders>>
            /\ quarantined' = [quarantined EXCEPT ![d] = @ \cup {Head1(d)}]
        BY <3>2 DEF OutOfStock, server
      <4> QED BY <1>1, <4>1 DEF TypeOK
    <3> QED BY <1>3, <3>1, <3>2
  <2>2. box[d] \in Seq(Request) /\ box'[d] = Tail(box[d])
        /\ \A e \in Device \ {d} : box'[e] = box[e]
    BY <1>1, <2>1 DEF TypeOK
  <2>3. ASSUME NEW r \in Request, InBox(d, r), r # Head1(d) PROVE InBox(d, r)'
    <3>1. PICK i \in 1 .. Len(box[d]) : box[d][i] = r
      BY <2>2, <2>3 DEF InBox
    <3>2. i # 1
      BY <2>3, <3>1 DEF Head1
    <3>3. i - 1 \in 1 .. Len(Tail(box[d])) /\ Tail(box[d])[i - 1] = r
      BY <2>1, <2>2, <3>1, <3>2
    <3>4. i - 1 \in DOMAIN Tail(box[d])
      BY <2>1, <2>2, <3>3
    <3> QED BY <2>2, <3>3, <3>4 DEF InBox
  <2>4. ASSUME NEW e \in Device, NEW r \in Request, OnItsWay(e, r) PROVE OnItsWay(e, r)'
    <3>1. CASE e # d
      BY <2>1, <2>2, <2>4, <3>1 DEF OnItsWay, InBox
    <3>2. CASE e = d
      BY <2>1, <2>3, <2>4, <3>2 DEF OnItsWay
    <3> QED BY <3>1, <3>2
  <2> QED BY <2>1, <2>4 DEF PlacedIsOnItsWay
<1>4. ASSUME NEW d \in Device, NEW r \in Request, AcceptPlaces(d, r) PROVE PlacedIsOnItsWay'
  <2>1. UNCHANGED <<quarantined, orders>>
    BY <1>4 DEF AcceptPlaces, server
  <2>2. CASE UNCHANGED <<placed, box>>
    BY <1>2, <2>1, <2>2 DEF outbox
  <2>3. CASE ~UNCHANGED <<placed, box>>
    <3>1. /\ placed' = [placed EXCEPT ![d][r] = job[d][r].row.order]
          /\ box' = [box EXCEPT ![d] = Append(@, r)]
      BY <1>4, <2>3 DEF AcceptPlaces
    <3>2. /\ box[d] \in Seq(Request) /\ box'[d] = Append(box[d], r)
          /\ \A e \in Device \ {d} : box'[e] = box[e]
      BY <1>1, <3>1 DEF TypeOK
    <3>3. InBox(d, r)'
      <4>1. Len(box[d]) + 1 \in DOMAIN Append(box[d], r) /\ Append(box[d], r)[Len(box[d]) + 1] = r
        BY <3>2
      <4> QED BY <3>2, <4>1 DEF InBox
    <3>4. \A s \in Request : InBox(d, s) => InBox(d, s)'
      <4>1. \A i \in DOMAIN box[d] : i \in DOMAIN Append(box[d], r)
                                    /\ Append(box[d], r)[i] = box[d][i]
        BY <3>2
      <4> QED BY <3>2, <4>1 DEF InBox
    <3>5. \A e \in Device, s \in Request : ~(e = d /\ s = r) => placed'[e][s] = placed[e][s]
      BY <1>1, <3>1 DEF TypeOK
    <3>6. ASSUME NEW e \in Device, NEW s \in Request, placed'[e][s] # 0 PROVE OnItsWay(e, s)'
      <4>1. CASE e = d /\ s = r
        BY <3>3, <4>1 DEF OnItsWay
      <4>2. CASE e = d /\ s # r
        BY <2>1, <3>4, <3>5, <3>6, <4>2 DEF PlacedIsOnItsWay, OnItsWay
      <4>3. CASE e # d
        BY <2>1, <3>2, <3>5, <3>6, <4>3 DEF PlacedIsOnItsWay, OnItsWay, InBox
      <4> QED BY <4>1, <4>2, <4>3
    <3> QED BY <3>6 DEF PlacedIsOnItsWay
  <2> QED BY <2>2, <2>3
<1>5. ASSUME NEW d \in Device, NEW r \in Request, RequestStep(d, r), ~AcceptPlaces(d, r)
      PROVE  UNCHANGED <<outbox, orders>>
  BY <1>5 DEF RequestStep, Reconcile, StartClaim, StartReview, StartAccept, Answered, Finish,
     AcceptMarks, GiveUp, server
<1>6. ASSUME NEW d \in Device, DeviceStep(d), ~Acknowledged(d), ~OutOfStock(d)
      PROVE  UNCHANGED outbox /\ orders \subseteq orders'
  BY <1>6 DEF DeviceStep, LoadLists, LoadFetches, LoadCompares, LoadWrites, LoadFails,
     Materialize, Retire, server
<1>7. ASSUME LeaseEnds \/ UNCHANGED vars \/ (\E r \in Request : IntakeExpires(r))
             \/ \E c \in late : ArrivesLate(c)
      PROVE  UNCHANGED <<outbox, orders>>
  BY <1>7 DEF LeaseEnds, IntakeExpires, ArrivesLate, vars, server
<1> QED BY <1>2, <1>3, <1>4, <1>5, <1>6, <1>7 DEF Next

\* A request a device hides has an order that is on its way, visibly refused or
\* at the server: no restart between order and mark, no pull and no lost call
\* makes a request disappear.
THEOREM HiddenRequestsAreAccounted == Spec => []HiddenRequestIsAccounted
<1>1. Init => HiddenInv
  BY DEF Init, HiddenInv, MarkedIsPlaced, PlacedIsOnItsWay, Free
<1>2. IInv /\ HiddenInv /\ [Next]_vars => HiddenInv'
  BY MarkedStep, OnItsWayStep DEF HiddenInv
<1>3. HiddenInv => HiddenRequestIsAccounted
  BY DEF HiddenInv, MarkedIsPlaced, PlacedIsOnItsWay, OnItsWay, HiddenRequestIsAccounted
<1> QED BY <1>1, <1>2, <1>3, Invariance, PTL DEF Spec
=============================================================================
