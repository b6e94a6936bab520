------------------------ MODULE OnlineOrdersInvariant ------------------------
(***************************************************************************)
(* Why an acceptance is protected: every order id a device holds is still  *)
(* reserved for it, unless it asked to withdraw or is no longer            *)
(* authorized.                                                             *)
(***************************************************************************)
EXTENDS OnlineOrders

\* Order ids are drawn by claims and never shared by two requests.
ReservationsAreDistinct ==
  \A r, s \in Request :
    /\ reservation[r].order <= claims
    /\ reservation[r].order # 0 /\ reservation[r].order = reservation[s].order => r = s

\* What a request was decided for is what it is reserved for, and ingested, ...
AcceptedIsReserved ==
  /\ \A r \in Request : status[r] = "ACCEPTED" <=> accepted[r] # 0
  /\ \A r \in Request : accepted[r] # 0 => accepted[r] = reservation[r].order
  /\ \A x \in orders : \E r \in Request : accepted[r] = x[1]
  /\ \A r \in Request : accepted[r] # 0 => <<accepted[r], reservation[r].origin>> \in orders

\* ... and only the device it is reserved for has it rejected.
RejectedWasWithdrawn ==
  \A r \in Request : status[r] = "REJECTED" /\ reservation[r].order # 0
    => <<reservation[r].origin, reservation[r].order>> \in withdrawn

\* The order id o is as good as reserved for the request on the device.
Safe(d, r, o) ==
  o # 0 => d \in retired \/ <<d, o>> \in withdrawn \/ Reserves(r, o, d)

RowIsSafe(d, r, row) ==
  (row.status = "PROCESSING" <=> row.order # 0) /\ Safe(d, r, row.order)

\* Every row a device stores, fetched or works with, ...
CacheIsSafe == \A d \in Device, r \in Request : RowIsSafe(d, r, cache[d][r])
PullIsSafe  == \A d \in Device, r \in Request : RowIsSafe(d, r, pull[d].remote[r])
JobIsSafe   == \A d \in Device, r \in Request : RowIsSafe(d, r, job[d][r].row)

\* ... and every order it made, is.
PlacedIsSafe ==
  \A d \in Device :
    /\ \A r \in Request : Safe(d, r, placed[d][r])
    /\ \A i \in DOMAIN box[d] : placed[d][box[d][i]] # 0

\* Releases and rejections under way were recorded when they were sent.
JobsAreKnown ==
  \A d \in Device, r \in Request :
    /\ job[d][r].op \in {"RELEASE", "REJECT", "ACCEPT"} => job[d][r].row.order # 0
    /\ job[d][r].op = "CLAIM" /\ job[d][r].step = "SENT" => job[d][r].row = NoRow
    /\ job[d][r].op \in {"RELEASE", "REJECT"} => <<d, job[d][r].row.order>> \in withdrawn
CallsAreKnown ==
  \A c \in late : c.op = "CLAIM" \/ <<c.from, c.order>> \in withdrawn

\* The inductive invariant: typed, and each of the above.
IInv ==
  /\ TypeOK
  /\ ProcessingIsReserved
  /\ ReservationsAreDistinct
  /\ AcceptedIsReserved
  /\ RejectedWasWithdrawn
  /\ CacheIsSafe /\ PullIsSafe /\ JobIsSafe /\ PlacedIsSafe
  /\ JobsAreKnown
  /\ CallsAreKnown

\* Why a hidden request has an order: it is marked only after one was made, and
\* an order made is delivered from the head of the outbox or quarantined.
MarkedIsPlaced ==
  \A d \in Device, r \in Request :
    r \in marked[d] \/ (job[d][r].op = "ACCEPT" /\ job[d][r].step = "DONE") => placed[d][r] # 0
OnItsWay(d, r) == InBox(d, r) \/ r \in quarantined[d] \/ <<placed[d][r], d>> \in orders
PlacedIsOnItsWay ==
  \A d \in Device, r \in Request : placed[d][r] # 0 => OnItsWay(d, r)
HiddenInv == MarkedIsPlaced /\ PlacedIsOnItsWay
=============================================================================
