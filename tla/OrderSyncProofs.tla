--------------------------- MODULE OrderSyncProofs ---------------------------
(***************************************************************************)
(* Theorems about OrderSync, for every set of orders and services and      *)
(* every bound: the inductive invariant, the safety properties that follow *)
(* from it, the refinement of OrderedLog, and the agreement of the device  *)
(* and the server.                                                         *)
(***************************************************************************)
EXTENDS OrderSyncInvariant, InductionLemmas, FiniteSetTheorems, TLAPS

\* What every proof below may assume of the constants.
LEMMA Constants ==
  /\ MaxRevision \in Nat /\ MaxSupply \in Nat /\ MaxDraws \in Nat /\ MaxFaults \in Nat
  /\ InitialStock \in Nat /\ PageSize \in Nat \ {0}
  /\ NoEvent \notin Event
BY RevisionAssumption, StockAssumption, OrderSyncAssumption

\* The lifecycle tables are functions into the statuses, and an event other
\* than a placement leaves ACTIVE or DONE.
LEMMA Lifecycle ==
  /\ \A k \in Kind : ToStatus[k] \in Status \ {"NONE"}
  /\ \A k \in LifecycleKind : FromStatus[k] \in {"ACTIVE", "DONE"}
  /\ ToStatus["ORDER_CANCELLED"] = "CANCELLED"
  /\ FromStatus["ORDER_PLACED"] = "NONE"
  /\ ToStatus["ORDER_PLACED"] = "ACTIVE"
BY DEF Kind, LifecycleKind, Status, ToStatus, FromStatus

\* A snapshot an event enters is well typed.
LEMMA EnteredType ==
  ASSUME NEW k \in Kind, NEW r \in 0 .. MaxRevision + 1
  PROVE  Entered(k, r) \in Snapshot
BY Lifecycle DEF Entered, Snapshot

LEMMA AnswerType ==
  ASSUME NEW e, NEW k
  PROVE  Answer(e, k) \in Verdict \ {"RETRY"}
BY DEF Answer, Verdict

\* The rows of the feed and of a page are typed.
LEMMA FeedTypes ==
  ASSUME TypeOK
  PROVE  /\ \A i \in 1 .. Len(feed) : /\ feed[i] \in FeedRow
                                     /\ feed[i].order \in Order
                                     /\ feed[i].rev \in 0 .. MaxRevision + 1
         /\ \A n \in page.rows : n.order \in Order /\ n.rev \in Nat /\ n.status \in Status
<1>1. \A i \in 1 .. Len(feed) : feed[i] \in FeedRow
  BY DEF TypeOK
<1>2. \A n \in page.rows : n \in PageRow
  BY DEF TypeOK
<1> QED
  BY <1>1, <1>2, Constants DEF FeedRow, PageRow

\* Local orders only move forward, so a row the device has caught up with
\* stays caught up with.
LEMMA FeedKept ==
  ASSUME TypeOK, TypeOK', FeedInv, UNCHANGED <<feed, page, canon, cursor>>,
         \A o \in Order : local[o].rev <= local'[o].rev
  PROVE  FeedInv'
<1>1. \A o \in Order : local[o].rev \in Nat /\ local'[o].rev \in Nat
  BY Constants DEF TypeOK, Snapshot
<1>2. \A a, b, c \in Nat : a <= b /\ b <= c => a <= c
  OBVIOUS
<1>3. \A i \in 1 .. Len(feed) : feed[i].order \in Order /\ feed[i].rev \in Nat
  BY FeedTypes, Constants
<1>4. \A i \in 1 .. Len(feed)' :
        feed'[i].rev <= local'[feed'[i].order].rev \/ canon'[feed'[i].order].status = "CANCELLED"
  BY <1>1, <1>2, <1>3 DEF FeedInv
<1>5. \A n \in page.rows : n.rev <= local'[n.order].rev \/ n.status = "CANCELLED"
  BY <1>1, <1>2, FeedTypes DEF FeedInv
<1> QED
  BY <1>4, <1>5 DEF FeedInv

LEMMA InitIInv == Init => IInv
<1> SUFFICES ASSUME Init PROVE IInv
  OBVIOUS
<1> USE DEF Init, OutboxInit, LedgerInit
<1>1. Unknown \in Snapshot
  BY Constants DEF Unknown, Snapshot, Status
<1>2. TypeOK
  BY <1>1, Constants DEF TypeOK, NoPage, Kind, Event, Revision
<1>3. Rows = {} /\ Pending = {}
  BY DEF Rows, Pending
<1>4. NothingPendingBehindQuarantine
  BY <1>3 DEF NothingPendingBehindQuarantine
<1>5. LocalInv
  BY <1>3 DEF LocalInv, Unknown
<1>6. InFlightInv
  BY <1>3 DEF InFlightInv
<1>7. CanonInv
  BY <1>3 DEF CanonInv, Unknown
<1>8. FeedInv
  BY DEF FeedInv, NoPage
<1> QED
  BY <1>2, <1>4, <1>5, <1>6, <1>7, <1>8 DEF IInv

-----------------------------------------------------------------------------
(* One lemma per action, or per pair of actions that disturb the same parts. *)

\* Commit: the order moves on and its event becomes a row.
LEMMA CommitIInv ==
  ASSUME IInv, NEW o \in Order, NEW k \in Kind, NEW r \in Nat, Commit(o, k, r),
         \/ k = "ORDER_PLACED" /\ r = 0 /\ local[o].status = "NONE"
         \/ /\ k # "ORDER_PLACED" /\ r = local[o].rev + 1
            /\ local[o].status \in {"ACTIVE", "DONE"}
  PROVE  IInv'
<1> DEFINE e == [order |-> o, rev |-> r]
<1> USE Constants DEF IInv
<1>1. r \in Revision /\ e \in Event /\ e \notin Rows
  BY DEF Commit, AppendRow, Revision, Event
<1>2. Rows' = Rows \cup {e} /\ born' = [born EXCEPT ![e] = clock + 1]
  BY <1>1 DEF TypeOK, Commit, AppendRow, Rows
<1>3. local' = [local EXCEPT ![o] = Entered(k, r)] /\ kind' = [kind EXCEPT ![e] = k]
  BY DEF Commit, AppendRow
<1>4. UNCHANGED <<ledgerVars, cursor, serviceVars, late, faults, page, delivered, waiting>>
  BY DEF Commit, AppendRow
<1>5. TypeOK'
  <2>1. Entered(k, r) \in Snapshot
    BY <1>1, EnteredType DEF Revision
  <2>2. quarantined' \subseteq Event /\ clock' \in Nat
    BY <1>1 DEF TypeOK, Commit, AppendRow
  <2> QED
    BY <1>1, <1>2, <1>3, <1>4, <2>1, <2>2 DEF TypeOK, ledgerVars, serviceVars
<1>6. NothingPendingBehindQuarantine'
  <2> SUFFICES ASSUME NEW f \in Pending', NEW g \in Rows', g \in quarantined',
                      g.order = f.order, g.rev < f.rev
               PROVE  FALSE
    BY DEF NothingPendingBehindQuarantine, Earlier
  <2>1. f \in Event /\ g \in Event /\ f \in Rows' /\ f \notin quarantined'
    BY DEF Rows, Pending
  <2>2. quarantined' = IF Earlier(e) \cap quarantined # {} THEN quarantined \cup {e}
                       ELSE quarantined
    BY DEF Commit, AppendRow
  <2>3. CASE f = e
    BY <1>1, <1>2, <2>1, <2>2, <2>3 DEF Earlier
  <2>4. CASE f # e /\ g # e
    BY <1>2, <1>4, <2>1, <2>2, <2>4 DEF NothingPendingBehindQuarantine, Pending, Earlier
  <2>5. CASE f # e /\ g = e
    <3>1. f \in Pending /\ Earlier(e) \cap quarantined # {}
      <4>1. e \notin quarantined
        BY <1>1 DEF InFlightInv
      <4> QED
        BY <1>2, <1>4, <2>1, <2>2, <2>5, <4>1 DEF Pending
    <3>2. PICK h \in Earlier(e) \cap quarantined : TRUE
      BY <3>1
    <3>3. h.rev \in Nat /\ g.rev \in Nat /\ f.rev \in Nat
      BY <2>1, <3>2 DEF Earlier, Rows, Event, Revision
    <3>4. h \in Earlier(f) \cap quarantined
      BY <2>5, <3>2, <3>3 DEF Earlier
    <3> QED
      BY <3>1, <3>4 DEF NothingPendingBehindQuarantine
  <2> QED
    BY <2>3, <2>4, <2>5
<1>7. LocalInv'
  <2>1. local'[o] = Entered(k, r) /\ \A q \in Order \ {o} : local'[q] = local[q]
    BY <1>3 DEF TypeOK
  <2>2. local'[o].rev = r /\ local'[o].status = ToStatus[k] /\ local'[o].status # "NONE"
    BY <2>1, Lifecycle DEF Entered
  <2>3. \A f \in Rows' : f.rev <= local'[f.order].rev /\ local'[f.order].status # "NONE"
    <3> SUFFICES ASSUME NEW f \in Rows'
                 PROVE  f.rev <= local'[f.order].rev /\ local'[f.order].status # "NONE"
      OBVIOUS
    <3>1. CASE f = e
      BY <2>2, <3>1
    <3>2. CASE f # e /\ f.order = o
      <4>1. f \in Rows /\ f.rev <= local[o].rev /\ local[o].status # "NONE"
        BY <1>2, <3>2 DEF LocalInv
      <4>2. f.rev \in Nat /\ local[o].rev \in Nat
        BY <4>1 DEF Rows, Event, Revision, TypeOK, Snapshot
      <4> QED
        BY <2>2, <3>2, <4>1, <4>2
    <3>3. CASE f # e /\ f.order # o
      BY <1>2, <2>1, <3>3 DEF LocalInv, Rows, Event
    <3> QED
      BY <3>1, <3>2, <3>3
  <2>4. \A f \in Rows' : kind'[f] = "ORDER_PLACED" <=> f.rev = 0
    <3>1. k = "ORDER_PLACED" <=> r = 0
      BY DEF TypeOK, Snapshot
    <3> QED
      BY <1>1, <1>2, <1>3, <3>1 DEF LocalInv, TypeOK, Rows
  <2>5. \A q \in Order : local'[q].status = "NONE" => local'[q].rev = 0
    BY <2>1, <2>2 DEF LocalInv
  <2>6. \A q \in Order : local'[q].status \in {"ACTIVE", "DONE"} =>
          /\ local'[q].rev \in Revision
          /\ \A x \in Revision : x <= local'[q].rev => [order |-> q, rev |-> x] \in Rows'
    <3> SUFFICES ASSUME NEW q \in Order, local'[q].status \in {"ACTIVE", "DONE"}
                 PROVE  /\ local'[q].rev \in Revision
                        /\ \A x \in Revision :
                             x <= local'[q].rev => [order |-> q, rev |-> x] \in Rows'
      OBVIOUS
    <3>1. CASE q # o
      BY <1>2, <2>1, <3>1 DEF LocalInv
    <3>2. CASE q = o
      <4>1. \A x \in Revision : x <= r => x = r \/ (r # 0 /\ x <= local[o].rev)
        BY DEF Revision, TypeOK, Snapshot
      <4> QED
        BY <1>1, <1>2, <2>2, <3>2, <4>1 DEF LocalInv
    <3> QED
      BY <3>1, <3>2
  <2> QED
    BY <2>3, <2>4, <2>5, <2>6 DEF LocalInv
<1>8. InFlightInv'
  <2>1. quarantined' \subseteq Rows'
    BY <1>2 DEF InFlightInv, Commit, AppendRow
  <2> QED
    BY <1>2, <1>4, <2>1 DEF InFlightInv, ledgerVars, serviceVars
<1>9. CanonInv'
  <2>1. \A f \in Rows : kind'[f] = kind[f]
    BY <1>1, <1>3 DEF TypeOK, Rows
  <2>2. UNCHANGED <<canon, closed, receipts, delivered>> /\ \A q \in Order : Top(q)' = Top(q)
    BY <1>4 DEF ledgerVars, Top
  <2> HIDE DEF e
  <2>3. \A q \in Order : canon[q].status # "NONE" => [order |-> q, rev |-> Top(q)] \in Rows
    <3> SUFFICES ASSUME NEW q \in Order, canon[q].status # "NONE"
                 PROVE  [order |-> q, rev |-> Top(q)] \in Rows
      OBVIOUS
    <3>1. Top(q) \in Revision /\ \A n \in Revision : n <= n
      <4>1. Top(q) \in Revision
        BY DEF CanonInv
      <4> QED
        BY <4>1 DEF Revision
    <3> QED
      BY <3>1 DEF CanonInv
  <2> QED
    BY <1>2, <2>1, <2>2, <2>3 DEF CanonInv
<1>10. FeedInv'
  <2>1. \A q \in Order : local[q].rev <= local'[q].rev
    BY <1>3 DEF Entered, TypeOK, Snapshot, LocalInv
  <2> QED
    BY <1>4, <1>5, <2>1, FeedKept DEF ledgerVars
<1> QED
  BY <1>5, <1>6, <1>7, <1>8, <1>9, <1>10

\* A step that touches neither the rows' state nor an order on either side
\* keeps the three parts about them.
LEMMA StoreKept ==
  ASSUME IInv, UNCHANGED <<born, kind, delivered, quarantined, canon, closed, receipts, local>>
  PROVE  /\ Rows' = Rows /\ Pending' = Pending
         /\ NothingPendingBehindQuarantine' /\ LocalInv' /\ CanonInv'
<1>1. Rows' = Rows /\ Pending' = Pending /\ \A e : Earlier(e)' = Earlier(e)
  BY DEF Rows, Pending, Earlier
<1>2. \A o : Top(o)' = Top(o)
  BY DEF Top
<1>3. NothingPendingBehindQuarantine'
  BY <1>1 DEF IInv, NothingPendingBehindQuarantine
<1>4. LocalInv'
  BY <1>1 DEF IInv, LocalInv
<1>5. CanonInv'
  BY <1>1, <1>2 DEF IInv, CanonInv
<1> QED
  BY <1>1, <1>3, <1>4, <1>5

LEMMA StartSyncIInv ==
  ASSUME IInv, NEW s \in Service, StartSync(s)
  PROVE  IInv'
<1>1. ListPending(BatchLimit) \subseteq Rows /\ Rows \subseteq Event
  BY DEF ListPending, Due, Pending, Rows
<1>2. UNCHANGED <<born, kind, delivered, quarantined, waiting, clock, ledgerVars, local, cursor,
                  current, verdict, late, faults, page>>
  BY DEF StartSync, outboxVars, deviceVars
<1>3. batch' = [batch EXCEPT ![s] = ListPending(BatchLimit)]
  BY DEF StartSync
<1>4. TypeOK'
  BY <1>1, <1>2, <1>3 DEF IInv, TypeOK, ledgerVars
<1>5. InFlightInv'
  <2>1. Rows' = Rows
    BY <1>2, StoreKept DEF ledgerVars
  <2> QED
    BY <1>1, <1>2, <1>3, <2>1 DEF IInv, InFlightInv, ledgerVars, TypeOK
<1>6. FeedInv'
  BY <1>2 DEF IInv, FeedInv, ledgerVars
<1> QED
  BY <1>2, <1>4, <1>5, <1>6, StoreKept DEF IInv, ledgerVars

LEMMA DeliverIInv ==
  ASSUME IInv, NEW s \in Service, Deliver(s)
  PROVE  IInv'
<1>1. PICK e \in batch[s] : /\ current' = [current EXCEPT ![s] = e]
                           /\ batch' = [batch EXCEPT ![s] = @ \ {e}]
  BY DEF Deliver
<1>2. UNCHANGED <<born, kind, delivered, quarantined, waiting, clock, ledgerVars, local, cursor,
                  verdict, late, faults, page>> /\ current[s] = NoEvent
  BY DEF Deliver, outboxVars, deviceVars
<1>3. e \in Rows /\ e \in Event /\ e # NoEvent
  BY Constants DEF IInv, InFlightInv, Rows
<1>4. TypeOK'
  BY <1>1, <1>2, <1>3 DEF IInv, TypeOK, ledgerVars
<1>5. InFlightInv'
  <2>1. Rows' = Rows
    BY <1>2, StoreKept DEF ledgerVars
  <2>2. verdict[s] = "NONE"
    BY <1>2 DEF IInv, InFlightInv
  <2> QED
    BY <1>1, <1>2, <1>3, <2>1, <2>2 DEF IInv, InFlightInv, ledgerVars, TypeOK
<1>6. FeedInv'
  BY <1>2 DEF IInv, FeedInv, ledgerVars
<1> QED
  BY <1>2, <1>4, <1>5, <1>6, StoreKept DEF IInv, ledgerVars

\* A service hears of a failure, or its time runs out.
LEMMA FaultIInv ==
  ASSUME IInv, NEW s \in Service, Unavailable(s) \/ Timeout(s)
  PROVE  IInv'
<1>1. /\ current[s] # NoEvent /\ verdict' = [verdict EXCEPT ![s] = "RETRY"]
      /\ late' \in {late, late \cup {current[s]}}
      /\ faults < MaxFaults /\ faults' = faults + 1
  BY DEF Unavailable, Timeout, InFlight
<1>2. UNCHANGED <<born, kind, delivered, quarantined, waiting, clock, ledgerVars, local, cursor,
                  batch, current, page>>
  BY DEF Unavailable, Timeout, outboxVars, deviceVars
<1>3. current[s] \in Rows /\ current[s] \in Event
  BY <1>1 DEF IInv, InFlightInv, Rows
<1>4. TypeOK'
  BY <1>1, <1>2, <1>3, Constants DEF IInv, TypeOK, ledgerVars, Verdict
<1>5. InFlightInv'
  <2>1. Rows' = Rows
    BY <1>2, StoreKept DEF ledgerVars
  <2> QED
    BY <1>1, <1>2, <1>3, <2>1 DEF IInv, InFlightInv, ledgerVars, TypeOK
<1>6. FeedInv'
  BY <1>2 DEF IInv, FeedInv, ledgerVars
<1> QED
  BY <1>2, <1>4, <1>5, <1>6, StoreKept DEF IInv, ledgerVars

LEMMA RetryIInv ==
  ASSUME IInv, NEW s \in Service, Retry(s)
  PROVE  IInv'
<1>1. /\ waiting' = waiting \cup {current[s]}
      /\ batch' = [batch EXCEPT ![s] = {}]
      /\ current' = [current EXCEPT ![s] = NoEvent]
      /\ verdict' = [verdict EXCEPT ![s] = "NONE"]
      /\ verdict[s] = "RETRY"
  BY DEF Retry, RecordFailure, Settle
<1>2. UNCHANGED <<born, kind, delivered, quarantined, clock, ledgerVars, local, cursor,
                  late, faults, page>>
  BY DEF Retry, RecordFailure, deviceVars
<1>3. current[s] \in Rows /\ current[s] \in Event
  BY <1>1 DEF IInv, InFlightInv, Rows
<1>4. TypeOK'
  BY <1>1, <1>2, <1>3 DEF IInv, TypeOK, ledgerVars
<1>5. InFlightInv'
  <2>1. Rows' = Rows
    BY <1>2, StoreKept DEF ledgerVars
  <2> QED
    BY <1>1, <1>2, <2>1 DEF IInv, InFlightInv, ledgerVars, TypeOK
<1>6. FeedInv'
  BY <1>2 DEF IInv, FeedInv, ledgerVars
<1> QED
  BY <1>2, <1>4, <1>5, <1>6, StoreKept DEF IInv, ledgerVars

LEMMA ElapseIInv ==
  ASSUME IInv, NEW e \in Event, Elapse(e)
  PROVE  IInv'
<1>1. UNCHANGED <<born, kind, delivered, quarantined, clock, ledgerVars, local, cursor,
                  batch, current, verdict, late, faults, page>>
      /\ waiting' = waiting \ {e}
  BY DEF Elapse, BackoffElapses, deviceVars, serviceVars
<1>2. TypeOK'
  BY <1>1 DEF IInv, TypeOK, ledgerVars
<1>3. InFlightInv'
  <2>1. Rows' = Rows
    BY <1>1, StoreKept DEF ledgerVars
  <2> QED
    BY <1>1, <2>1 DEF IInv, InFlightInv, ledgerVars
<1>4. FeedInv'
  BY <1>1 DEF IInv, FeedInv, ledgerVars
<1> QED
  BY <1>1, <1>2, <1>3, <1>4, StoreKept DEF IInv, ledgerVars

LEMMA CrashIInv ==
  ASSUME IInv, Crash
  PROVE  IInv'
<1> DEFINE sent == {current[s] : s \in {t \in Service : InFlight(t)}}
<1>1. UNCHANGED <<born, kind, delivered, quarantined, waiting, clock, ledgerVars, local, cursor>>
  BY DEF Crash, outboxVars, deviceVars
<1>2. /\ batch' = [s \in Service |-> {}] /\ current' = [s \in Service |-> NoEvent]
      /\ verdict' = [s \in Service |-> "NONE"] /\ page' = NoPage
      /\ late' = late \cup sent /\ faults < MaxFaults /\ faults' = faults + 1
  BY DEF Crash
<1>3. sent \subseteq Rows /\ sent \subseteq Event
  BY DEF IInv, InFlightInv, InFlight, Rows
<1> HIDE DEF sent
<1>4. TypeOK'
  BY <1>1, <1>2, <1>3, Constants DEF IInv, TypeOK, ledgerVars, NoPage
<1>5. InFlightInv'
  <2>1. Rows' = Rows
    BY <1>1, StoreKept DEF ledgerVars
  <2> QED
    BY <1>1, <1>2, <1>3, <2>1 DEF IInv, InFlightInv
<1>6. FeedInv'
  <2>1. Len(feed) \in Nat
    BY DEF IInv, TypeOK
  <2> QED
    BY <1>1, <1>2, <2>1 DEF IInv, FeedInv, ledgerVars, NoPage
<1> QED
  BY <1>1, <1>4, <1>5, <1>6, StoreKept DEF IInv, ledgerVars

LEMMA AcceptIInv ==
  ASSUME IInv, NEW s \in Service, Accept(s)
  PROVE  IInv'
<1> DEFINE e == current[s]
<1>1. /\ delivered' = delivered \cup {e} /\ waiting' = waiting \ {e}
      /\ current' = [current EXCEPT ![s] = NoEvent]
      /\ verdict' = [verdict EXCEPT ![s] = "NONE"]
      /\ verdict[s] \in {"APPLIED", "REPLAY"}
  BY DEF Accept, MarkDelivered, Settle
<1>2. UNCHANGED <<born, kind, quarantined, clock, ledgerVars, local, cursor, batch,
                  late, faults, page>>
  BY DEF Accept, MarkDelivered, deviceVars
<1>3. e \in Rows /\ e \in Event /\ e \in receipts
  BY <1>1 DEF IInv, InFlightInv, Rows
<1> HIDE DEF e
<1>4. TypeOK'
  BY <1>1, <1>2, <1>3 DEF IInv, TypeOK, ledgerVars
<1>5. Rows' = Rows /\ Pending' \subseteq Pending
  BY <1>1, <1>2 DEF Rows, Pending
<1>6. NothingPendingBehindQuarantine'
  BY <1>2, <1>5 DEF IInv, NothingPendingBehindQuarantine, Earlier
<1>7. LocalInv'
  BY <1>2, <1>5 DEF IInv, LocalInv
<1>8. InFlightInv'
  BY <1>1, <1>2, <1>5 DEF IInv, InFlightInv, ledgerVars, TypeOK
<1>9. CanonInv'
  <2>1. \A o : Top(o)' = Top(o)
    BY <1>2 DEF Top, ledgerVars
  <2> QED
    BY <1>1, <1>2, <1>3, <1>5, <2>1 DEF IInv, CanonInv, ledgerVars
<1>10. FeedInv'
  BY <1>2 DEF IInv, FeedInv, ledgerVars
<1> QED
  BY <1>4, <1>6, <1>7, <1>8, <1>9, <1>10 DEF IInv

\* Reconciling a refused placement moves the order on or leaves it.
LEMMA ReconciledType ==
  ASSUME IInv, NEW e \in Event
  PROVE  /\ Reconciled(e) \in [Order -> Snapshot]
         /\ \A o \in Order : \/ Reconciled(e)[o] = local[o]
                            \/ /\ Reconciled(e)[o].rev = local[o].rev + 1
                               /\ Reconciled(e)[o].status = "CANCELLED"
                               /\ local[o].status = "ACTIVE"
<1>1. local \in [Order -> Snapshot] /\ e.order \in Order
  BY DEF IInv, TypeOK, Event
<1>2. CASE kind[e] = "ORDER_PLACED" /\ local[e.order].status = "ACTIVE"
  <2>1. local[e.order].rev \in Revision
    BY <1>1, <1>2 DEF IInv, LocalInv
  <2>2. local[e.order].rev + 1 \in 0 .. MaxRevision + 1
    BY <2>1, Constants DEF Revision
  <2>3. [status |-> "CANCELLED", rev |-> local[e.order].rev + 1] \in Snapshot
    BY <2>2 DEF Snapshot, Status
  <2> QED
    BY <1>1, <1>2, <2>3 DEF Reconciled
<1>3. CASE ~(kind[e] = "ORDER_PLACED" /\ local[e.order].status = "ACTIVE")
  BY <1>1, <1>3 DEF Reconciled
<1> QED
  BY <1>2, <1>3

LEMMA RefuseIInv ==
  ASSUME IInv, NEW s \in Service, Refuse(s)
  PROVE  IInv'
<1> DEFINE e == current[s]
<1>1. /\ quarantined' = quarantined \cup {e} \cup Dependents(e)
      /\ waiting' = waiting \ ({e} \cup Dependents(e))
      /\ batch' = [batch EXCEPT ![s] = {f \in @ : ~(f.order = e.order /\ f.rev > e.rev)}]
      /\ current' = [current EXCEPT ![s] = NoEvent]
      /\ verdict' = [verdict EXCEPT ![s] = "NONE"]
      /\ verdict[s] # "NONE"
      /\ local' \in {local, Reconciled(e)}
  BY DEF Refuse, Quarantine, Settle
<1>2. UNCHANGED <<born, kind, delivered, clock, ledgerVars, cursor, late, faults, page>>
  BY DEF Refuse, Quarantine
<1>3. e \in Rows /\ e \in Event /\ Dependents(e) \subseteq Rows
  BY <1>1 DEF IInv, InFlightInv, Rows, Dependents, Later
<1>4. /\ local' \in [Order -> Snapshot]
      /\ \A o \in Order : \/ local'[o] = local[o]
                         \/ /\ local'[o].rev = local[o].rev + 1
                            /\ local'[o].status = "CANCELLED"
                            /\ local[o].status = "ACTIVE"
  BY <1>1, <1>3, ReconciledType DEF IInv, TypeOK
<1> HIDE DEF e
<1>5. TypeOK'
  <2>1. Rows \subseteq Event
    BY DEF Rows
  <2> QED
    BY <1>1, <1>2, <1>3, <1>4, <2>1 DEF IInv, TypeOK, ledgerVars
<1>6. Rows' = Rows /\ Pending' \subseteq Pending /\ \A f : Earlier(f)' = Earlier(f)
  BY <1>1, <1>2 DEF Rows, Pending, Earlier
<1>7. NothingPendingBehindQuarantine'
  <2> SUFFICES ASSUME NEW f \in Pending', NEW g \in Earlier(f), g \in quarantined'
               PROVE  FALSE
    BY <1>6 DEF NothingPendingBehindQuarantine
  <2>1. f \in Pending /\ f \notin quarantined' /\ f \in Rows /\ g \in Rows
    BY <1>6 DEF Pending, Earlier
  <2>2. f.rev \in Nat /\ g.rev \in Nat /\ e.rev \in Nat /\ g.order = f.order /\ g.rev < f.rev
    BY <1>3, <2>1 DEF Rows, Event, Revision, Earlier
  <2>3. CASE g \in quarantined
    BY <2>1, <2>3 DEF IInv, NothingPendingBehindQuarantine
  <2>4. CASE g = e \/ g \in Dependents(e)
    <3>1. g.order = e.order /\ e.rev <= g.rev
      BY <2>2, <2>4 DEF Dependents, Later
    <3>2. f.order = e.order /\ f.rev > e.rev
      BY <2>2, <3>1
    <3>3. f \in Dependents(e)
      BY <2>1, <3>2 DEF Dependents, Later
    <3> QED
      BY <1>1, <2>1, <3>3
  <2> QED
    BY <1>1, <2>3, <2>4
<1>8. LocalInv'
  <2>1. \A o \in Order : local[o].rev \in Nat
    BY DEF IInv, TypeOK, Snapshot
  <2>2. \A f \in Rows : f.order \in Order /\ f.rev \in Nat
    BY DEF Rows, Event, Revision
  <2>3. \A f \in Rows : f.rev <= local'[f.order].rev /\ local'[f.order].status # "NONE"
    BY <1>4, <2>1, <2>2 DEF IInv, LocalInv
  <2>4. \A o \in Order : local'[o].status = "NONE" => local'[o].rev = 0
    BY <1>4 DEF IInv, LocalInv
  <2>5. \A o \in Order : local'[o].status \in {"ACTIVE", "DONE"} => local'[o] = local[o]
    BY <1>4
  <2> QED
    BY <1>2, <1>6, <2>3, <2>4, <2>5 DEF IInv, LocalInv
<1>9. InFlightInv'
  BY <1>1, <1>2, <1>3, <1>6 DEF IInv, InFlightInv, ledgerVars, TypeOK
<1>10. CanonInv'
  <2>1. \A o : Top(o)' = Top(o)
    BY <1>2 DEF Top, ledgerVars
  <2> QED
    BY <1>2, <1>6, <2>1 DEF IInv, CanonInv, ledgerVars
<1>11. FeedInv'
  <2>1. \A o \in Order : local[o].rev <= local'[o].rev
    <3>1. \A o \in Order : local[o].rev \in Nat
      BY DEF IInv, TypeOK, Snapshot
    <3>2. \A n \in Nat : n <= n /\ n <= n + 1
      OBVIOUS
    <3> QED
      BY <1>4, <3>1, <3>2
  <2> QED
    BY <1>2, <1>5, <2>1, FeedKept DEF IInv, ledgerVars
<1> QED
  BY <1>5, <1>7, <1>8, <1>9, <1>10, <1>11 DEF IInv

-----------------------------------------------------------------------------
(* The server. *)

\* An event the server applies is the next one of an order nobody closed.
LEMMA AppliedIsNext ==
  ASSUME IInv, NEW e \in Rows, Answer(e, kind[e]) = "APPLIED"
  PROVE  /\ e \notin receipts /\ e.order \notin closed
         /\ canon[e.order].status # "CANCELLED"
         /\ \A r \in Revision : [order |-> e.order, rev |-> r] \in receipts <=> r < e.rev
<1>1. e \in Event /\ e.order \in Order /\ e.rev \in Revision /\ kind[e] \in Kind
      /\ e = [order |-> e.order, rev |-> e.rev]
  BY DEF IInv, TypeOK, Rows, Event
<1>2. /\ e \notin receipts
      /\ kind[e] # "ORDER_PLACED" => Precondition(e, kind[e])
  BY DEF Answer
<1>3. CASE kind[e] = "ORDER_PLACED"
  <2>1. e.rev = 0
    BY <1>3 DEF IInv, LocalInv
  <2>2. canon[e.order].status = "NONE"
    <3> SUFFICES ASSUME canon[e.order].status # "NONE" PROVE FALSE
      OBVIOUS
    <3>1. Top(e.order) \in Revision /\ (e \in receipts <=> 0 <= Top(e.order))
      <4>1. /\ Top(e.order) \in Revision
            /\ \A r \in Revision : [order |-> e.order, rev |-> r] \in receipts <=> r <= Top(e.order)
        BY <1>1 DEF IInv, CanonInv
      <4>2. e = [order |-> e.order, rev |-> 0] /\ 0 \in Revision
        BY <1>1, <2>1
      <4> QED
        BY <4>1, <4>2
    <3>2. 0 <= Top(e.order)
      BY <3>1 DEF Revision
    <3> QED
      BY <1>2, <3>1, <3>2
  <2>3. \A r \in Revision : ~(r < 0)
    BY DEF Revision
  <2> QED
    BY <1>1, <1>2, <2>1, <2>2, <2>3 DEF IInv, CanonInv, Unknown
<1>4. CASE kind[e] # "ORDER_PLACED"
  <2>1. /\ canon[e.order].status \in {"ACTIVE", "DONE"}
        /\ e.rev = canon[e.order].rev + 1
    BY <1>1, <1>2, <1>4, Lifecycle DEF Precondition, LifecycleKind
  <2>2. e.order \notin closed
    BY <1>1, <2>1 DEF IInv, CanonInv
  <2>3. /\ Top(e.order) = canon[e.order].rev
        /\ \A r \in Revision : [order |-> e.order, rev |-> r] \in receipts <=> r <= Top(e.order)
    BY <1>1, <2>1, <2>2 DEF IInv, CanonInv, Top
  <2>4. canon[e.order].rev \in Nat /\ \A r \in Revision : r \in Nat
    <3>1. canon[e.order] \in Snapshot
      BY <1>1 DEF IInv, TypeOK
    <3> QED
      BY <3>1 DEF Snapshot, Revision
  <2> QED
    BY <1>2, <2>1, <2>2, <2>3, <2>4
<1> QED
  BY <1>3, <1>4

\* An applied event leaves the status its transition requires; a placement, the
\* status of an order the server has never seen.
LEMMA AppliedFrom ==
  ASSUME IInv, NEW e \in Rows, Answer(e, kind[e]) = "APPLIED"
  PROVE  canon[e.order].status = FromStatus[kind[e]]
<1>1. CASE kind[e] = "ORDER_PLACED"
  <2>1. e.order \in Order /\ e.rev = 0 /\ \A r \in Revision : ~(r < 0) /\ r <= r
    BY <1>1 DEF IInv, LocalInv, Rows, Event, Revision
  <2>2. \A r \in Revision : [order |-> e.order, rev |-> r] \notin receipts
    BY <2>1, AppliedIsNext
  <2>3. canon[e.order].status = "NONE"
    BY <2>1, <2>2 DEF IInv, CanonInv
  <2> QED
    BY <1>1, <2>3, Lifecycle
<1>2. CASE kind[e] # "ORDER_PLACED"
  BY <1>2 DEF Answer, Precondition
<1> QED
  BY <1>1, <1>2

\* Ingest keeps every part about the server, whoever sent the row.
LEMMA IngestKept ==
  ASSUME IInv, NEW e \in Rows, Ingest(e, kind[e]),
         UNCHANGED <<outboxVars, local, cursor, page>>
  PROVE  /\ canon' \in [Order -> Snapshot] /\ held' \subseteq Order /\ closed' = closed
         /\ onHand' \in Int /\ supplied' = supplied /\ drawn' = drawn
         /\ receipts' \subseteq Event /\ receipts \subseteq receipts'
         /\ feed' \in Seq(FeedRow)
         /\ Rows' = Rows
         /\ NothingPendingBehindQuarantine' /\ LocalInv' /\ CanonInv' /\ FeedInv'
         /\ Answer(e, kind[e]) \in {"APPLIED", "REPLAY"} => e \in receipts'
<1> DEFINE k == kind[e]
<1>1. e \in Event /\ e.order \in Order /\ e.rev \in Revision /\ k \in Kind
      /\ e = [order |-> e.order, rev |-> e.rev]
  BY DEF IInv, TypeOK, Rows, Event
<1>2. UNCHANGED <<born, kind, delivered, quarantined>>
  BY DEF outboxVars
<1>3. CASE Answer(e, k) # "APPLIED"
  <2>1. UNCHANGED ledgerVars
    BY <1>3 DEF Ingest
  <2>2. Answer(e, k) = "REPLAY" => e \in receipts
    BY DEF Answer
  <2>3. FeedInv'
    BY <2>1 DEF IInv, FeedInv, ledgerVars
  <2> QED
    BY <1>2, <1>3, <2>1, <2>2, <2>3, StoreKept DEF IInv, TypeOK, ledgerVars
<1>4. CASE Answer(e, k) = "APPLIED"
  <2>1. /\ canon' = [canon EXCEPT ![e.order] = Entered(k, e.rev)]
        /\ held' = HeldAfter(e.order, k)
        /\ onHand' = OnHandAfter(k)
        /\ receipts' = receipts \cup {e}
        /\ feed' = Append(feed, e)
        /\ UNCHANGED <<supplied, drawn, closed>>
    BY <1>4 DEF Ingest
  <2>2. /\ e \notin receipts /\ e.order \notin closed /\ canon[e.order].status # "CANCELLED"
        /\ \A r \in Revision : [order |-> e.order, rev |-> r] \in receipts <=> r < e.rev
    BY <1>4, AppliedIsNext
  <2>3. /\ canon' \in [Order -> Snapshot]
        /\ canon'[e.order] = Entered(k, e.rev)
        /\ \A o \in Order \ {e.order} : canon'[o] = canon[o]
    <3>1. Entered(k, e.rev) \in Snapshot
      BY <1>1, EnteredType, Constants DEF Revision
    <3> QED
      BY <1>1, <2>1, <3>1 DEF IInv, TypeOK
  <2>4. held' \subseteq Order
    BY <1>1, <2>1 DEF IInv, TypeOK, HeldAfter
  <2>5. onHand' \in Int
    BY <2>1 DEF IInv, TypeOK, OnHandAfter
  <2>6. e \in FeedRow /\ feed' \in Seq(FeedRow)
    <3>1. e \in FeedRow
      BY <1>1, Constants DEF FeedRow, Revision
    <3> QED
      BY <2>1, <3>1 DEF IInv, TypeOK
  <2>7. Rows' = Rows /\ Pending' = Pending /\ \A f : Earlier(f)' = Earlier(f)
    BY <1>2 DEF Rows, Pending, Earlier
  <2>8. NothingPendingBehindQuarantine'
    BY <1>2, <2>7 DEF IInv, NothingPendingBehindQuarantine
  <2>9. LocalInv'
    BY <1>2, <2>7 DEF IInv, LocalInv
  <2>10. CanonInv'
    <3> HIDE DEF k
    <3>1. receipts' \subseteq Rows' /\ delivered' \subseteq receipts'
      BY <1>2, <2>1, <2>7 DEF IInv, CanonInv
    <3>2. \A o \in Order \ {e.order} :
            /\ Top(o)' = Top(o)
            /\ \A r \in Revision : [order |-> o, rev |-> r] \in receipts' <=>
                                  [order |-> o, rev |-> r] \in receipts
      BY <1>1, <2>1, <2>3 DEF Top
    <3>3. /\ canon'[e.order].status # "NONE" /\ canon'[e.order].status = ToStatus[k]
          /\ Top(e.order)' = e.rev
      BY <1>1, <2>1, <2>2, <2>3, Lifecycle DEF Entered, Top
    <3>4. \A r \in Revision : [order |-> e.order, rev |-> r] \in receipts' <=> r <= e.rev
      <4>1. \A r \in Revision : r <= e.rev <=> (r < e.rev \/ r = e.rev)
        BY <1>1 DEF Revision
      <4>2. \A r \in Revision : [order |-> e.order, rev |-> r] = e <=> r = e.rev
        BY <1>1
      <4> QED
        BY <2>1, <2>2, <4>1, <4>2
    <3>5. kind'[[order |-> e.order, rev |-> Top(e.order)']] = k
      BY <1>1, <1>2, <3>3 DEF k
    <3>6. \A o \in Order : canon'[o].status = "NONE" =>
            /\ canon'[o] = Unknown /\ o \notin closed'
            /\ \A r \in Revision : [order |-> o, rev |-> r] \notin receipts'
      BY <2>1, <2>3, <3>2, <3>3 DEF IInv, CanonInv
    <3>7. \A o \in Order : canon'[o].status # "NONE" =>
            /\ Top(o)' \in Revision
            /\ \A r \in Revision : [order |-> o, rev |-> r] \in receipts' <=> r <= Top(o)'
            /\ canon'[o].status = IF o \in closed' THEN "CANCELLED"
                                  ELSE ToStatus[kind'[[order |-> o, rev |-> Top(o)']]]
      <4> SUFFICES ASSUME NEW o \in Order, canon'[o].status # "NONE"
                   PROVE  /\ Top(o)' \in Revision
                          /\ \A r \in Revision :
                               [order |-> o, rev |-> r] \in receipts' <=> r <= Top(o)'
                          /\ canon'[o].status =
                               IF o \in closed' THEN "CANCELLED"
                               ELSE ToStatus[kind'[[order |-> o, rev |-> Top(o)']]]
        OBVIOUS
      <4>1. CASE o = e.order
        BY <1>1, <2>1, <2>2, <3>3, <3>4, <3>5, <4>1
      <4>2. CASE o # e.order
        BY <1>2, <2>1, <2>3, <3>2, <4>2 DEF IInv, CanonInv
      <4> QED
        BY <4>1, <4>2
    <3> QED
      BY <3>1, <3>6, <3>7 DEF CanonInv
  <2>11. FeedInv'
    <3>1. e.rev <= local[e.order].rev
      BY DEF IInv, LocalInv
    <3>2. \A o \in Order : canon[o].status = "CANCELLED" => canon'[o].status = "CANCELLED"
      BY <2>2, <2>3
    <3>3. /\ Len(feed') = Len(feed) + 1 /\ Len(feed) \in Nat /\ feed'[Len(feed) + 1] = e
          /\ \A i \in 1 .. Len(feed) : feed'[i] = feed[i]
      BY <2>1, <2>6 DEF IInv, TypeOK
    <3>4. \A i \in 1 .. Len(feed) : feed[i].order \in Order
      BY FeedTypes DEF IInv
    <3>5. \A i \in 1 .. Len(feed') : feed'[i].rev <= local[feed'[i].order].rev
                                    \/ canon'[feed'[i].order].status = "CANCELLED"
      <4>1. \A i \in 1 .. Len(feed') : i \in 1 .. Len(feed) \/ i = Len(feed) + 1
        BY <3>3
      <4> QED
        BY <3>1, <3>2, <3>3, <3>4, <4>1 DEF IInv, FeedInv
    <3>6. page'.next <= Len(feed') /\ cursor' <= Len(feed')
      BY <3>3 DEF IInv, FeedInv, TypeOK
    <3> QED
      BY <3>5, <3>6 DEF IInv, FeedInv
  <2> QED
    BY <1>1, <2>1, <2>3, <2>4, <2>5, <2>6, <2>7, <2>8, <2>9, <2>10, <2>11 DEF IInv, TypeOK
<1> QED
  BY <1>3, <1>4

LEMMA ReceiveIInv ==
  ASSUME IInv, NEW s \in Service, Receive(s)
  PROVE  IInv'
<1> DEFINE e == current[s]
<1>1. /\ e # NoEvent /\ Ingest(e, kind[e])
      /\ verdict' = [verdict EXCEPT ![s] = Answer(e, kind[e])]
  BY DEF Receive, InFlight
<1>2. UNCHANGED <<outboxVars, local, cursor, batch, current, late, faults, page>>
  BY DEF Receive, deviceVars
<1>3. e \in Rows /\ e = current[s]
  BY <1>1 DEF IInv, InFlightInv
<1> HIDE DEF e
<1>4. /\ canon' \in [Order -> Snapshot] /\ held' \subseteq Order /\ closed' = closed
      /\ onHand' \in Int /\ supplied' = supplied /\ drawn' = drawn
      /\ receipts' \subseteq Event /\ receipts \subseteq receipts'
      /\ feed' \in Seq(FeedRow) /\ Rows' = Rows
      /\ NothingPendingBehindQuarantine' /\ LocalInv' /\ CanonInv' /\ FeedInv'
      /\ Answer(e, kind[e]) \in {"APPLIED", "REPLAY"} => e \in receipts'
  BY <1>1, <1>2, <1>3, IngestKept
<1>5. TypeOK'
  <2>1. verdict' \in [Service -> Verdict \cup {"NONE"}]
    BY <1>1, AnswerType DEF IInv, TypeOK
  <2> QED
    BY <1>2, <1>4, <2>1 DEF IInv, TypeOK, outboxVars
<1>6. InFlightInv'
  BY <1>1, <1>2, <1>3, <1>4 DEF IInv, InFlightInv, TypeOK, outboxVars
<1> QED
  BY <1>4, <1>5, <1>6 DEF IInv

LEMMA ReceiveLateIInv ==
  ASSUME IInv, NEW e \in Event, ReceiveLate(e)
  PROVE  IInv'
<1>1. e \in Rows /\ Ingest(e, kind[e]) /\ late' = late \ {e}
  BY DEF ReceiveLate, IInv, InFlightInv
<1>2. UNCHANGED <<outboxVars, local, cursor, batch, current, verdict, faults, page>>
  BY DEF ReceiveLate, deviceVars, serviceVars
<1>3. /\ canon' \in [Order -> Snapshot] /\ held' \subseteq Order /\ closed' = closed
      /\ onHand' \in Int /\ supplied' = supplied /\ drawn' = drawn
      /\ receipts' \subseteq Event /\ receipts \subseteq receipts'
      /\ feed' \in Seq(FeedRow) /\ Rows' = Rows
      /\ NothingPendingBehindQuarantine' /\ LocalInv' /\ CanonInv' /\ FeedInv'
  BY <1>1, <1>2, IngestKept
<1>4. TypeOK'
  BY <1>1, <1>2, <1>3 DEF IInv, TypeOK, outboxVars
<1>5. InFlightInv'
  BY <1>1, <1>2, <1>3 DEF IInv, InFlightInv, outboxVars
<1> QED
  BY <1>3, <1>4, <1>5 DEF IInv

\* The administrator closes an order: its history ends one revision past the
\* last event of the device.
LEMMA AdminCancelIInv ==
  ASSUME IInv, NEW o \in Order, AdminCancel(o),
         UNCHANGED <<outboxVars, deviceVars, serviceVars, late, faults, page>>
  PROVE  IInv'
<1> DEFINE row == [order |-> o, rev |-> canon[o].rev + 1]
<1>1. /\ canon[o].status = "ACTIVE"
      /\ canon' = [canon EXCEPT ![o] = Entered("ORDER_CANCELLED", canon[o].rev + 1)]
      /\ held' = held /\ closed' = closed \cup {o} /\ feed' = Append(feed, row)
      /\ UNCHANGED <<onHand, supplied, drawn, receipts>>
  BY DEF AdminCancel
<1>2. UNCHANGED <<born, kind, delivered, quarantined, waiting, clock, local, cursor, batch,
                  current, verdict, late, faults, page>>
  BY DEF outboxVars, deviceVars, serviceVars
<1>3. o \notin closed /\ Top(o) = canon[o].rev /\ Top(o) \in Revision
  <2>1. o \notin closed
    BY <1>1 DEF IInv, CanonInv
  <2> QED
    BY <1>1, <2>1 DEF IInv, CanonInv, Top
<1>4. canon[o].rev + 1 \in 0 .. MaxRevision + 1 /\ row \in FeedRow
  BY <1>3, Constants DEF Revision, FeedRow
<1>5. /\ canon' \in [Order -> Snapshot]
      /\ canon'[o].status = "CANCELLED" /\ canon'[o].rev = canon[o].rev + 1
      /\ \A q \in Order \ {o} : canon'[q] = canon[q]
  <2>1. Entered("ORDER_CANCELLED", canon[o].rev + 1) \in Snapshot
    BY <1>4, EnteredType DEF Kind
  <2>2. Entered("ORDER_CANCELLED", canon[o].rev + 1).status = "CANCELLED"
    BY Lifecycle DEF Entered
  <2>3. Entered("ORDER_CANCELLED", canon[o].rev + 1).rev = canon[o].rev + 1
    BY DEF Entered
  <2> QED
    BY <1>1, <2>1, <2>2, <2>3 DEF IInv, TypeOK
<1>6. Rows' = Rows /\ Pending' = Pending /\ \A f : Earlier(f)' = Earlier(f)
  BY <1>2 DEF Rows, Pending, Earlier
<1>7. TypeOK'
  <2>1. feed' \in Seq(FeedRow)
    BY <1>1, <1>4 DEF IInv, TypeOK
  <2> QED
    BY <1>1, <1>2, <1>5, <2>1 DEF IInv, TypeOK
<1>8. NothingPendingBehindQuarantine' /\ LocalInv' /\ InFlightInv'
  BY <1>1, <1>2, <1>6
     DEF IInv, NothingPendingBehindQuarantine, LocalInv, InFlightInv
<1>9. CanonInv'
  <2>1. \A q \in Order : Top(q)' = Top(q)
    <3>1. Top(o)' = Top(o)
      BY <1>1, <1>3, <1>5, Constants DEF Top, Revision
    <3>2. \A q \in Order \ {o} : Top(q)' = Top(q)
      BY <1>1, <1>5 DEF Top
    <3> QED
      BY <3>1, <3>2
  <2> QED
    BY <1>1, <1>2, <1>5, <1>6, <2>1 DEF IInv, CanonInv
<1>10. FeedInv'
  <2>1. \A q \in Order : canon[q].status = "CANCELLED" => canon'[q].status = "CANCELLED"
    BY <1>5
  <2>2. /\ Len(feed') = Len(feed) + 1 /\ Len(feed) \in Nat
        /\ feed'[Len(feed) + 1].order = o
        /\ \A i \in 1 .. Len(feed) : feed'[i] = feed[i]
    BY <1>1, <1>4 DEF IInv, TypeOK
  <2>3. \A i \in 1 .. Len(feed) : feed[i].order \in Order
    BY FeedTypes DEF IInv
  <2>4. \A i \in 1 .. Len(feed') : i \in 1 .. Len(feed) \/ i = Len(feed) + 1
    BY <2>2
  <2>5. \A i \in 1 .. Len(feed') : feed'[i].rev <= local'[feed'[i].order].rev
                                  \/ canon'[feed'[i].order].status = "CANCELLED"
    BY <1>2, <1>5, <2>1, <2>2, <2>3, <2>4 DEF IInv, FeedInv
  <2>6. page'.next <= Len(feed') /\ cursor' <= Len(feed')
    BY <1>2, <2>2 DEF IInv, FeedInv, TypeOK
  <2> QED
    BY <1>2, <2>5, <2>6 DEF IInv, FeedInv
<1> QED
  BY <1>7, <1>8, <1>9, <1>10 DEF IInv

\* Stock comes and goes without touching an order.
LEMMA StockIInv ==
  ASSUME IInv, ReceiveStock \/ DrawStock,
         UNCHANGED <<outboxVars, deviceVars, serviceVars, late, faults, page>>
  PROVE  IInv'
<1>1. UNCHANGED <<born, kind, delivered, quarantined, waiting, clock, local, cursor, batch,
                  current, verdict, late, faults, page, canon, held, receipts, closed, feed>>
  BY DEF outboxVars, deviceVars, serviceVars, ReceiveStock, DrawStock
<1>2. onHand' \in Int /\ supplied' \in 0 .. MaxSupply /\ drawn' \in 0 .. MaxDraws
  BY Constants DEF ReceiveStock, DrawStock, IInv, TypeOK
<1>3. TypeOK'
  BY <1>1, <1>2 DEF IInv, TypeOK
<1>4. FeedInv'
  BY <1>1 DEF IInv, FeedInv
<1>5. InFlightInv'
  <2>1. Rows' = Rows
    BY <1>1, StoreKept
  <2> QED
    BY <1>1, <2>1 DEF IInv, InFlightInv
<1> QED
  BY <1>1, <1>3, <1>4, <1>5, StoreKept DEF IInv

-----------------------------------------------------------------------------
(* The convergence service. *)

LEMMA PullPageIInv ==
  ASSUME IInv, PullPage
  PROVE  IInv'
<1>1. UNCHANGED <<born, kind, delivered, quarantined, waiting, clock, ledgerVars, local, cursor,
                  batch, current, verdict, late, faults>>
  BY DEF PullPage, outboxVars, deviceVars, serviceVars
<1>2. PICK next \in Nat : /\ page' = [rows |-> FeedRows(cursor, next), next |-> next]
                         /\ next <= Len(feed)
  BY Constants DEF PullPage, IInv, TypeOK
<1>3. \A i \in (cursor + 1) .. next : i \in 1 .. Len(feed)
  BY <1>2 DEF IInv, TypeOK
<1>4. \A n \in FeedRows(cursor, next) :
        n \in PageRow /\ (n.rev <= local[n.order].rev \/ n.status = "CANCELLED")
  <2> SUFFICES ASSUME NEW i \in (cursor + 1) .. next
               PROVE  LET n == [order |-> feed[i].order, rev |-> feed[i].rev,
                                status |-> canon[feed[i].order].status]
                      IN n \in PageRow /\ (n.rev <= local[n.order].rev \/ n.status = "CANCELLED")
    BY DEF FeedRows
  <2>1. i \in 1 .. Len(feed)
    BY <1>3
  <2>2. feed[i].order \in Order /\ feed[i].rev \in 0 .. MaxRevision + 1
    BY <2>1, FeedTypes DEF IInv
  <2>3. canon[feed[i].order].status \in Status
    BY <2>2 DEF IInv, TypeOK, Snapshot
  <2>4. feed[i].rev <= local[feed[i].order].rev \/ canon[feed[i].order].status = "CANCELLED"
    BY <2>1 DEF IInv, FeedInv
  <2> QED
    BY <2>2, <2>3, <2>4 DEF PageRow
<1>5. TypeOK'
  BY <1>1, <1>2, <1>4 DEF IInv, TypeOK, ledgerVars
<1>6. FeedInv'
  BY <1>1, <1>2, <1>4 DEF IInv, FeedInv, ledgerVars
<1>7. InFlightInv'
  <2>1. Rows' = Rows
    BY <1>1, StoreKept DEF ledgerVars
  <2> QED
    BY <1>1, <2>1 DEF IInv, InFlightInv, ledgerVars
<1> QED
  BY <1>1, <1>5, <1>6, <1>7, StoreKept DEF IInv, ledgerVars

\* What a page makes of an order: nothing, or a cancellation with a higher
\* revision.
LEMMA ConvergedType ==
  ASSUME IInv, NEW o \in Order
  PROVE  \/ Converged(o) = local[o]
         \/ /\ Converged(o) \in Snapshot /\ Converged(o).status = "CANCELLED"
            /\ Converged(o).rev > local[o].rev /\ local[o].status # "NONE"
<1>1. CASE local[o].status = "NONE" \/ News(o) = {}
  BY <1>1 DEF Converged
<1>2. CASE local[o].status # "NONE" /\ News(o) # {}
  <2>1. \A n \in News(o) : /\ n \in PageRow /\ n.rev \in 0 .. MaxRevision + 1
                           /\ n.rev > local[o].rev /\ n.order = o
    BY DEF News, IInv, TypeOK, PageRow
  <2>2. local[o].rev \in Nat
    BY DEF IInv, TypeOK, Snapshot
  <2>3. \A n \in News(o) : n.status = "CANCELLED"
    BY <2>1, <2>2 DEF News, IInv, FeedInv
  <2> DEFINE newest == CHOOSE r \in News(o) : \A q \in News(o) : q.rev <= r.rev
  <2>4. \E r \in News(o) : \A q \in News(o) : q.rev <= r.rev
    <3> DEFINE revs == {n.rev : n \in News(o)}
    <3>1. revs \in SUBSET (0 .. MaxRevision + 1) /\ revs # {} /\ MaxRevision + 1 \in Nat
      BY <1>2, <2>1, Constants
    <3>2. PICK x \in revs : \A y \in revs : y <= x
      BY <3>1, Largest
    <3> QED
      BY <3>2
  <2>5. newest \in News(o)
    BY <2>4
  <2>6. Converged(o) = [status |-> newest.status, rev |-> newest.rev]
    BY <1>2 DEF Converged
  <2> HIDE DEF newest
  <2> QED
    BY <1>2, <2>1, <2>3, <2>5, <2>6 DEF Snapshot, Status
<1> QED
  BY <1>1, <1>2

LEMMA ApplyPageIInv ==
  ASSUME IInv, ApplyPage
  PROVE  IInv'
<1>1. UNCHANGED <<born, kind, delivered, quarantined, waiting, clock, ledgerVars, batch,
                  current, verdict, late, faults>>
  BY DEF ApplyPage, outboxVars, serviceVars
<1>2. /\ local' = [o \in Order |-> Converged(o)]
      /\ cursor' = page.next /\ page' = NoPage
  BY DEF ApplyPage
<1>3. \A o \in Order : \/ local'[o] = local[o]
                       \/ /\ local'[o] \in Snapshot /\ local'[o].status = "CANCELLED"
                          /\ local'[o].rev > local[o].rev /\ local[o].status # "NONE"
  BY <1>2, ConvergedType
<1>4. \A o \in Order : local[o] \in Snapshot /\ local'[o] \in Snapshot
                     /\ local[o].rev \in Nat /\ local'[o].rev \in Nat
                     /\ local[o].rev <= local'[o].rev
  <2>1. \A x \in Snapshot : x.rev \in Nat
    BY DEF Snapshot
  <2>2. \A o \in Order : local[o] \in Snapshot
    BY DEF IInv, TypeOK
  <2>3. \A m, n \in Nat : m > n \/ m = n => n <= m
    OBVIOUS
  <2> QED
    BY <1>3, <2>1, <2>2, <2>3
<1>5. TypeOK'
  <2>1. local' \in [Order -> Snapshot]
    BY <1>2, <1>4
  <2>2. page.next \in Nat
    BY DEF IInv, TypeOK
  <2> QED
    BY <1>1, <1>2, <2>1, <2>2 DEF IInv, TypeOK, ledgerVars, NoPage
<1>6. Rows' = Rows /\ Pending' = Pending /\ \A f : Earlier(f)' = Earlier(f)
  BY <1>1 DEF Rows, Pending, Earlier
<1>7. NothingPendingBehindQuarantine' /\ InFlightInv'
  BY <1>1, <1>6 DEF IInv, NothingPendingBehindQuarantine, InFlightInv, ledgerVars
<1>8. LocalInv'
  <2>1. \A f \in Rows : f.order \in Order /\ f.rev \in Nat
    BY DEF Rows, Event, Revision
  <2>2. \A f \in Rows : f.rev <= local'[f.order].rev /\ local'[f.order].status # "NONE"
    <3>1. \A l, m, n \in Nat : l <= m /\ m <= n => l <= n
      OBVIOUS
    <3>2. \A f \in Rows : f.rev <= local[f.order].rev /\ local[f.order].status # "NONE"
      BY DEF IInv, LocalInv
    <3> QED
      BY <1>3, <1>4, <2>1, <3>1, <3>2
  <2>3. \A o \in Order : local'[o].status \in {"ACTIVE", "DONE", "NONE"} => local'[o] = local[o]
    BY <1>3
  <2> QED
    BY <1>1, <1>6, <2>2, <2>3 DEF IInv, LocalInv
<1>9. CanonInv'
  <2>1. \A o : Top(o)' = Top(o)
    BY <1>1 DEF Top, ledgerVars
  <2> QED
    BY <1>1, <1>6, <2>1 DEF IInv, CanonInv, ledgerVars
<1>10. FeedInv'
  <2>1. \A i \in 1 .. Len(feed) : feed[i].order \in Order /\ feed[i].rev \in Nat
    BY FeedTypes, Constants DEF IInv
  <2>2. \A i \in 1 .. Len(feed) : feed[i].rev <= local'[feed[i].order].rev
                                 \/ canon[feed[i].order].status = "CANCELLED"
    <3>1. \A l, m, n \in Nat : l <= m /\ m <= n => l <= n
      OBVIOUS
    <3> QED
      BY <1>4, <2>1, <3>1 DEF IInv, FeedInv
  <2>3. Len(feed) \in Nat
    BY DEF IInv, TypeOK
  <2> QED
    BY <1>1, <1>2, <2>2, <2>3 DEF IInv, FeedInv, ledgerVars, NoPage
<1> QED
  BY <1>5, <1>7, <1>8, <1>9, <1>10 DEF IInv

-----------------------------------------------------------------------------
(* The theorems. *)

\* The worker's commands are commits of the domain's transitions.
LEMMA WorkerIInv ==
  ASSUME IInv, NEW o \in Order,
         \/ PlaceOrder(o) \/ MarkDone(o) \/ UndoDone(o) \/ CancelOrder(o) \/ ReturnDelivery(o)
  PROVE  IInv'
<1>1. CASE PlaceOrder(o)
  BY <1>1, CommitIInv DEF PlaceOrder, Kind
<1>2. ASSUME NEW k \in LifecycleKind, Transition(o, k) PROVE IInv'
  <2>1. k \in Kind /\ k # "ORDER_PLACED" /\ FromStatus[k] \in {"ACTIVE", "DONE"}
    BY Lifecycle DEF LifecycleKind
  <2>2. local[o].status \in {"ACTIVE", "DONE"} /\ Commit(o, k, local[o].rev + 1)
    BY <1>2, <2>1 DEF Transition
  <2>3. local[o].rev + 1 \in Nat
    BY DEF IInv, TypeOK, Snapshot
  <2> QED
    BY <2>1, <2>2, <2>3, CommitIInv
<1>3. CASE MarkDone(o)
  BY <1>2, <1>3 DEF MarkDone, LifecycleKind, Kind
<1>4. CASE UndoDone(o)
  BY <1>2, <1>4 DEF UndoDone, LifecycleKind, Kind
<1>5. CASE CancelOrder(o)
  BY <1>2, <1>5 DEF CancelOrder, LifecycleKind, Kind
<1>6. CASE ReturnDelivery(o)
  BY <1>2, <1>6 DEF ReturnDelivery, LifecycleKind, Kind
<1> QED
  BY <1>1, <1>3, <1>4, <1>5, <1>6

LEMMA StutterIInv ==
  ASSUME IInv, UNCHANGED vars
  PROVE  IInv'
<1>1. UNCHANGED <<born, kind, delivered, quarantined, waiting, clock, canon, held, onHand,
                  supplied, drawn, receipts, closed, feed, local, cursor, batch, current,
                  verdict, late, faults, page>>
  BY DEF vars, outboxVars, ledgerVars, deviceVars, serviceVars
<1>2. TypeOK'
  BY <1>1 DEF IInv, TypeOK
<1>3. FeedInv'
  BY <1>1 DEF IInv, FeedInv
<1>4. InFlightInv'
  <2>1. Rows' = Rows
    BY <1>1, StoreKept
  <2> QED
    BY <1>1, <2>1 DEF IInv, InFlightInv
<1> QED
  BY <1>1, <1>2, <1>3, <1>4, StoreKept DEF IInv

LEMMA NextIInv == IInv /\ [Next]_vars => IInv'
<1> SUFFICES ASSUME IInv, [Next]_vars PROVE IInv'
  OBVIOUS
<1>1. CASE Worker
  BY <1>1, WorkerIInv DEF Worker
<1>2. ASSUME NEW s \in Service, Sync(s) PROVE IInv'
  BY <1>2, StartSyncIInv, DeliverIInv, ReceiveIInv, AcceptIInv, RefuseIInv, RetryIInv DEF Sync
<1>3. ASSUME NEW e \in Event, ReceiveLate(e) \/ Elapse(e) PROVE IInv'
  BY <1>3, ReceiveLateIInv, ElapseIInv
<1>4. CASE PullPage \/ ApplyPage
  BY <1>4, PullPageIInv, ApplyPageIInv
<1>5. CASE Administer
  BY <1>5, AdminCancelIInv, StockIInv DEF Administer
<1>6. CASE Fault
  BY <1>6, FaultIInv, CrashIInv DEF Fault
<1>7. CASE UNCHANGED vars
  BY <1>7, StutterIInv
<1> QED
  BY <1>1, <1>2, <1>3, <1>4, <1>5, <1>6, <1>7 DEF Next

\* The invariant holds in every reachable state, whatever the constants.
THEOREM Invariance == Spec => []IInv
<1>1. Init => IInv
  BY InitIInv
<1>2. IInv /\ [Next]_vars => IInv'
  BY NextIInv
<1> QED
  BY <1>1, <1>2, PTL DEF Spec

\* Every variable keeps its type.
THEOREM TypeCorrect == Spec => []TypeOK
<1>1. IInv => TypeOK
  BY DEF IInv
<1> QED
  BY <1>1, Invariance, PTL

\* No revision becomes deliverable past a quarantined one, for any number of
\* orders and services and any interleaving of their transactions.
THEOREM CausalBlocking == Spec => []NothingPendingBehindQuarantine
<1>1. IInv => NothingPendingBehindQuarantine
  BY DEF IInv
<1> QED
  BY <1>1, Invariance, PTL

\* A row ticked off is a row the server applied, and the server's order is at
\* least that far, whatever was retried, lost or answered twice.
THEOREM DeliveredSound == Spec => []DeliveredIsCanonical
<1>1. IInv => DeliveredIsCanonical
  <2> SUFFICES ASSUME IInv, NEW e \in delivered
               PROVE  e \in receipts /\ canon[e.order].rev >= e.rev
    BY DEF DeliveredIsCanonical
  <2>1. e \in receipts /\ e \in Event
    BY DEF IInv, CanonInv, TypeOK
  <2>2. e.order \in Order /\ e.rev \in Revision /\ e = [order |-> e.order, rev |-> e.rev]
    BY <2>1 DEF Event
  <2>3. canon[e.order].status # "NONE"
    BY <2>1, <2>2 DEF IInv, CanonInv
  <2>4. e.rev <= Top(e.order) /\ Top(e.order) \in Revision
    <3>1. /\ Top(e.order) \in Revision
          /\ \A r \in Revision : [order |-> e.order, rev |-> r] \in receipts <=> r <= Top(e.order)
      BY <2>2, <2>3 DEF IInv, CanonInv
    <3> QED
      BY <2>1, <2>2, <3>1
  <2>5. canon[e.order].rev \in Nat /\ Top(e.order) <= canon[e.order].rev
    BY <2>2 DEF IInv, TypeOK, Snapshot, Top
  <2> QED
    BY <2>1, <2>2, <2>4, <2>5 DEF Revision
<1> QED
  BY <1>1, Invariance, PTL

\* The receipts of an order are a gapless prefix of its stream and determine
\* the order's canonical status and revision.
THEOREM HistorySound == Spec => []CanonicalHistoryHasNoGaps
<1>1. IInv => CanonicalHistoryHasNoGaps
  <2> SUFFICES ASSUME IInv, NEW e \in receipts
               PROVE  /\ \A r \in 0 .. e.rev : [order |-> e.order, rev |-> r] \in receipts
                      /\ (\A f \in receipts : f.order = e.order => f.rev <= e.rev) =>
                           canon[e.order] = IF e.order \in closed
                                            THEN Entered("ORDER_CANCELLED", e.rev + 1)
                                            ELSE Entered(kind[e], e.rev)
    BY DEF CanonicalHistoryHasNoGaps
  <2>1. e.order \in Order /\ e.rev \in Revision /\ e = [order |-> e.order, rev |-> e.rev]
    BY DEF IInv, TypeOK, Event
  <2>2. canon[e.order].status # "NONE"
    BY <2>1 DEF IInv, CanonInv
  <2>3. /\ Top(e.order) \in Revision
        /\ \A r \in Revision : [order |-> e.order, rev |-> r] \in receipts <=> r <= Top(e.order)
        /\ canon[e.order].status = IF e.order \in closed THEN "CANCELLED"
                                   ELSE ToStatus[kind[[order |-> e.order, rev |-> Top(e.order)]]]
    BY <2>1, <2>2 DEF IInv, CanonInv
  <2>4. e.rev <= Top(e.order)
    BY <2>1, <2>3
  <2>5. \A r \in 0 .. e.rev : [order |-> e.order, rev |-> r] \in receipts
    <3>1. \A r \in 0 .. e.rev : r \in Revision /\ r <= Top(e.order)
      BY <2>1, <2>3, <2>4, Constants DEF Revision
    <3> QED
      BY <2>3, <3>1
  <2>6. ASSUME \A f \in receipts : f.order = e.order => f.rev <= e.rev
        PROVE  canon[e.order] = IF e.order \in closed
                                THEN Entered("ORDER_CANCELLED", e.rev + 1)
                                ELSE Entered(kind[e], e.rev)
    <3>1. [order |-> e.order, rev |-> Top(e.order)] \in receipts
      <4>1. \A n \in Revision : n <= n
        BY DEF Revision
      <4> QED
        BY <2>3, <4>1
    <3>2. Top(e.order) = e.rev
      <4>1. Top(e.order) <= e.rev
        BY <2>6, <3>1
      <4> QED
        BY <2>1, <2>3, <2>4, <4>1 DEF Revision
    <3>3. canon[e.order] \in Snapshot
      BY <2>1 DEF IInv, TypeOK
    <3>4. canon[e.order] = [status |-> canon[e.order].status, rev |-> canon[e.order].rev]
      BY <3>3 DEF Snapshot
    <3>5. CASE e.order \in closed
      <4>1. canon[e.order].status = "CANCELLED"
        BY <2>3, <3>5
      <4>2. canon[e.order].rev = e.rev + 1
        BY <3>2, <3>3, <3>5 DEF Top, Snapshot
      <4> QED
        BY <3>4, <3>5, <4>1, <4>2, Lifecycle DEF Entered
    <3>6. CASE e.order \notin closed
      <4>1. canon[e.order].rev = e.rev
        BY <3>2, <3>6 DEF Top
      <4>2. canon[e.order].status = ToStatus[kind[e]]
        BY <2>1, <2>3, <3>2, <3>6
      <4> QED
        BY <3>4, <3>6, <4>1, <4>2 DEF Entered
    <3> QED
      BY <3>5, <3>6
  <2> QED
    BY <2>5, <2>6
<1> QED
  BY <1>1, Invariance, PTL

-----------------------------------------------------------------------------
(* The stock balance: one unit for every order that holds or has used one. *)

\* A delivery or a draw changes the shelf and its ledger alike.
LEMMA BalanceKept ==
  ASSUME StockInv, UNCHANGED <<canon, held, closed>>,
         onHand' - supplied' + drawn' = onHand - supplied + drawn,
         onHand' + drawn' >= onHand + drawn,
         onHand \in Int, onHand' \in Int, supplied \in Nat, supplied' \in Nat,
         drawn \in Nat, drawn' \in Nat
  PROVE  StockInv'
<1>1. Cardinality(held) \in Nat /\ Cardinality(Used) \in Nat
  BY FS_CardinalityType DEF StockInv
<1>2. Used' = Used
  BY DEF Used
<1>3. onHand' = InitialStock + supplied' - drawn' - Cardinality(Used)
  BY <1>1, Constants DEF StockInv, StockIsConserved, Used
<1>4. Cardinality(held') <= onHand' + drawn'
  <2>1. Cardinality(held') = Cardinality(held) /\ Cardinality(held) <= onHand + drawn
    BY DEF StockInv, ReservationsAreBacked
  <2>2. Cardinality(held) \in Int /\ onHand + drawn \in Int /\ onHand' + drawn' \in Int
    BY <1>1
  <2>3. \A a, b, c \in Int : a <= b /\ c >= b => a <= c
    OBVIOUS
  <2> QED
    BY <2>1, <2>2, <2>3
<1> QED
  BY <1>2, <1>3, <1>4 DEF StockInv, StockIsConserved, ReservationsAreBacked, Used

\* An applied event moves one unit at most, and from where the order's status
\* said it was.
LEMMA AppliedStock ==
  ASSUME IInv, StockInv, NEW e \in Rows, Answer(e, kind[e]) = "APPLIED", Ingest(e, kind[e])
  PROVE  StockInv'
<1> DEFINE o == e.order
           k == kind[e]
<1>1. o \in Order /\ k \in Kind /\ o \notin closed /\ canon[o].status = FromStatus[k]
  BY AppliedIsNext, AppliedFrom DEF IInv, TypeOK, Rows, Event
<1>2. /\ canon' = [canon EXCEPT ![o] = Entered(k, e.rev)]
      /\ held' = HeldAfter(o, k) /\ onHand' = OnHandAfter(k)
      /\ UNCHANGED <<supplied, drawn, closed>>
  BY DEF Ingest
<1>3. k = "ORDER_PLACED" => Available >= 1
  <2>1. Available \in Int
    BY FS_CardinalityType DEF Available, StockInv, IInv, TypeOK
  <2> QED
    BY <2>1 DEF Answer
<1>4. /\ canon'[o].status = ToStatus[k]
      /\ \A p \in Order \ {o} : canon'[p] = canon[p]
  BY <1>1, <1>2 DEF Entered, IInv, TypeOK
<1> HIDE DEF o, k
<1>5. /\ onHand \in Int /\ supplied \in Nat /\ drawn \in Nat /\ InitialStock \in Nat
      /\ Cardinality(held) \in Nat /\ Cardinality(Used) \in Nat
  BY FS_CardinalityType, Constants DEF StockInv, IInv, TypeOK
<1>6. /\ held = {p \in Order : canon[p].status = "ACTIVE"} \cup closed
      /\ onHand = InitialStock + supplied - drawn - Cardinality(Used)
      /\ Cardinality(held) <= onHand + drawn
  BY DEF StockInv, StockIsConserved, ReservationsAreBacked, Used
<1>7. /\ held' = IF ToStatus[k] = "ACTIVE" THEN held \cup {o} ELSE held \ {o}
      /\ Used' = IF ToStatus[k] \in Consumed THEN Used \cup {o} ELSE Used \ {o}
  BY <1>1, <1>2, <1>4 DEF HeldAfter, Used
<1>8. held' = {p \in Order : canon'[p].status = "ACTIVE"} \cup closed'
  BY <1>1, <1>2, <1>4, <1>6, <1>7
<1>9. /\ IsFiniteSet(held') /\ IsFiniteSet(Used')
      /\ Cardinality(held \cup {o}) = IF o \in held THEN Cardinality(held) ELSE Cardinality(held) + 1
      /\ Cardinality(held \ {o}) = IF o \in held THEN Cardinality(held) - 1 ELSE Cardinality(held)
      /\ Cardinality(Used \cup {o}) = IF o \in Used THEN Cardinality(Used) ELSE Cardinality(Used) + 1
      /\ Cardinality(Used \ {o}) = IF o \in Used THEN Cardinality(Used) - 1 ELSE Cardinality(Used)
  BY <1>7, FS_AddElement, FS_RemoveElement DEF StockInv
<1>10. /\ o \in held <=> canon[o].status = "ACTIVE"
       /\ o \in Used <=> canon[o].status \in Consumed
  BY <1>1, <1>6 DEF Used
<1>11. /\ onHand' = InitialStock + supplied' - drawn' - Cardinality(Used')
       /\ Cardinality(held') <= onHand' + drawn'
  <2> DEFINE h == Cardinality(held)
             u == Cardinality(Used)
             hh == Cardinality(held')
             uu == Cardinality(Used')
  <2>0. /\ h \in Nat /\ u \in Nat /\ onHand = InitialStock + supplied - drawn - u
        /\ h <= onHand + drawn
    BY <1>5, <1>6
  <2> SUFFICES onHand' = InitialStock + supplied' - drawn' - uu /\ hh <= onHand' + drawn'
    OBVIOUS
  <2>1. CASE k = "ORDER_PLACED"
    <3>1. o \notin held /\ o \notin Used /\ held' = held \cup {o} /\ Used' = Used \ {o}
      BY <1>1, <1>7, <1>10, <2>1 DEF FromStatus, ToStatus, Consumed, Kind
    <3>2. onHand' = onHand
      BY <1>2, <2>1 DEF OnHandAfter
    <3>3. hh = h + 1 /\ uu = u
      BY <1>9, <3>1
    <3>4. onHand - h >= 1
      BY <1>3, <2>1 DEF Available
    <3> HIDE DEF h, u, hh, uu
    <3> QED
      BY <1>2, <1>5, <2>0, <3>2, <3>3, <3>4
  <2>2. CASE k \in {"ORDER_MARKED_DONE", "ORDER_WASTED"}
    <3>1. o \in held /\ o \notin Used /\ held' = held \ {o} /\ Used' = Used \cup {o}
      BY <1>1, <1>7, <1>10, <2>2 DEF FromStatus, ToStatus, Consumed, Kind
    <3>2. onHand' = onHand - 1
      BY <1>2, <2>2 DEF OnHandAfter
    <3>3. hh = h - 1 /\ uu = u + 1
      BY <1>9, <3>1
    <3> HIDE DEF h, u, hh, uu
    <3> QED
      BY <1>2, <1>5, <2>0, <3>2, <3>3
  <2>3. CASE k = "ORDER_DONE_UNDONE"
    <3>1. o \notin held /\ o \in Used /\ held' = held \cup {o} /\ Used' = Used \ {o}
      BY <1>1, <1>7, <1>10, <2>3 DEF FromStatus, ToStatus, Consumed, Kind
    <3>2. onHand' = onHand + 1
      BY <1>2, <2>3 DEF OnHandAfter
    <3>3. hh = h + 1 /\ uu = u - 1
      BY <1>9, <3>1
    <3> HIDE DEF h, u, hh, uu
    <3> QED
      BY <1>2, <1>5, <2>0, <3>2, <3>3
  <2>4. CASE k = "ORDER_CANCELLED"
    <3>1. o \in held /\ o \notin Used /\ held' = held \ {o} /\ Used' = Used \ {o}
      BY <1>1, <1>7, <1>10, <2>4 DEF FromStatus, ToStatus, Consumed, Kind
    <3>2. onHand' = onHand
      BY <1>2, <2>4 DEF OnHandAfter
    <3>3. hh = h - 1 /\ uu = u
      BY <1>9, <3>1
    <3> HIDE DEF h, u, hh, uu
    <3> QED
      BY <1>2, <1>5, <2>0, <3>2, <3>3
  <2>5. CASE k = "DELIVERY_RETURNED"
    <3>1. o \notin held /\ o \in Used /\ held' = held \ {o} /\ Used' = Used \cup {o}
      BY <1>1, <1>7, <1>10, <2>5 DEF FromStatus, ToStatus, Consumed, Kind
    <3>2. onHand' = onHand
      BY <1>2, <2>5 DEF OnHandAfter
    <3>3. hh = h /\ uu = u
      BY <1>9, <3>1
    <3> HIDE DEF h, u, hh, uu
    <3> QED
      BY <1>2, <1>5, <2>0, <3>2, <3>3
  <2> QED
    BY <1>1, <2>1, <2>2, <2>3, <2>4, <2>5 DEF Kind
<1> QED
  BY <1>8, <1>9, <1>11 DEF StockInv, StockIsConserved, ReservationsAreBacked, Used

LEMMA IngestStock ==
  ASSUME IInv, StockInv, NEW e \in Rows, Ingest(e, kind[e])
  PROVE  StockInv'
<1>1. CASE Answer(e, kind[e]) = "APPLIED"
  BY <1>1, AppliedStock
<1>2. CASE Answer(e, kind[e]) # "APPLIED"
  BY <1>2, BalanceKept DEF Ingest, ledgerVars, IInv, TypeOK
<1> QED
  BY <1>1, <1>2

\* An administrator's cancellation moves no unit: the reservation of the order
\* stays, now for a closed order.
LEMMA AdminCancelStock ==
  ASSUME IInv, StockInv, NEW o \in Order, AdminCancel(o)
  PROVE  StockInv'
<1>1. /\ canon'[o].status = "CANCELLED" /\ canon[o].status = "ACTIVE"
      /\ \A p \in Order \ {o} : canon'[p] = canon[p]
  BY Lifecycle DEF AdminCancel, Entered, IInv, TypeOK
<1>2. Used' = Used
  BY <1>1 DEF Used, Consumed
<1>3. held' = {p \in Order : canon'[p].status = "ACTIVE"} \cup closed'
  BY <1>1 DEF AdminCancel, StockInv, StockIsConserved
<1>4. UNCHANGED <<held, onHand, supplied, drawn>>
  BY DEF AdminCancel
<1> QED
  BY <1>2, <1>3, <1>4 DEF StockInv, StockIsConserved, ReservationsAreBacked, Used

LEMMA StockStep == IInv /\ StockInv /\ [Next]_vars => StockInv'
<1> SUFFICES ASSUME IInv, StockInv, [Next]_vars PROVE StockInv'
  OBVIOUS
<1>1. onHand \in Int /\ supplied \in Nat /\ drawn \in Nat
  BY DEF IInv, TypeOK
<1>2. ASSUME UNCHANGED ledgerVars PROVE StockInv'
  BY <1>1, <1>2, BalanceKept DEF ledgerVars
<1>3. ASSUME NEW s \in Service, Sync(s) PROVE StockInv'
  <2>1. CASE Receive(s)
    BY <2>1, IngestStock DEF Receive, InFlight, IInv, InFlightInv
  <2>2. CASE ~Receive(s)
    BY <1>2, <1>3, <2>2 DEF Sync, StartSync, Deliver, Accept, Refuse, Retry
  <2> QED
    BY <2>1, <2>2
<1>4. ASSUME NEW e \in Event, ReceiveLate(e) \/ Elapse(e) PROVE StockInv'
  BY <1>2, <1>4, IngestStock DEF ReceiveLate, Elapse, IInv, InFlightInv
<1>5. CASE Worker
  BY <1>2, <1>5 DEF Worker, PlaceOrder, MarkDone, UndoDone, CancelOrder, ReturnDelivery,
                    Transition, Commit
<1>6. CASE PullPage \/ ApplyPage \/ Fault
  BY <1>2, <1>6 DEF PullPage, ApplyPage, Fault, Crash, Unavailable, Timeout
<1>7. CASE Administer
  <2>1. CASE ReceiveStock \/ DrawStock
    BY <1>1, <2>1, BalanceKept DEF ReceiveStock, DrawStock
  <2> QED
    BY <1>7, <2>1, AdminCancelStock DEF Administer
<1>8. CASE UNCHANGED vars
  BY <1>2, <1>8 DEF vars
<1> QED
  BY <1>3, <1>4, <1>5, <1>6, <1>7, <1>8 DEF Next

\* The server's stock adds up in every reachable state.
LEMMA StockInvariance == Spec => []StockInv
<1>1. Init => StockInv
  <2> SUFFICES ASSUME Init PROVE StockInv
    OBVIOUS
  <2>1. held = {} /\ Used = {} /\ closed = {} /\ {o \in Order : canon[o].status = "ACTIVE"} = {}
    BY DEF Init, LedgerInit, Unknown, Used, Consumed
  <2>2. onHand = InitialStock /\ supplied = 0 /\ drawn = 0
    BY DEF Init, LedgerInit
  <2> QED
    BY <2>1, <2>2, FS_EmptySet, Constants
       DEF StockInv, StockIsConserved, ReservationsAreBacked, Used
<1>2. IInv /\ StockInv /\ [Next]_vars => StockInv'
  BY StockStep
<1> QED
  BY <1>1, <1>2, Invariance, PTL DEF Spec

\* Every unit on hand, reserved or used up is accounted for, whatever is sent
\* twice, late or out of turn, and whatever the administrator closes.
THEOREM StockConserved == Spec => []StockIsConserved
<1>1. StockInv => StockIsConserved
  BY DEF StockInv
<1> QED
  BY <1>1, StockInvariance, PTL

\* No unit is promised to two orders.
THEOREM ReservationsBacked == Spec => []ReservationsAreBacked
<1>1. StockInv => ReservationsAreBacked
  BY DEF StockInv
<1> QED
  BY <1>1, StockInvariance, PTL

-----------------------------------------------------------------------------
(* The refinement: every step is a step of the ordered log, or none. *)

\* A commit issues the next event of the order's stream.
LEMMA CommitIssues ==
  ASSUME IInv, NEW o \in Order, NEW k \in Kind, NEW r \in Nat, Commit(o, k, r),
         r = 0 \/ (r = local[o].rev + 1 /\ local[o].status \in {"ACTIVE", "DONE"})
  PROVE  Log!LogNext
<1> DEFINE e == [order |-> o, rev |-> r]
<1>1. r \in Revision /\ e \in Event /\ e \notin Rows
  BY DEF Commit, AppendRow, Revision, Event
<1>2. Rows' = Rows \cup {e}
  BY <1>1 DEF IInv, TypeOK, Commit, AppendRow, Rows
<1>3. Log!Predecessor(e) \subseteq Rows
  <2> SUFFICES ASSUME NEW f \in Event, f.order = o, f.rev + 1 = r PROVE f \in Rows
    BY DEF Log!Predecessor, Log!Event, Log!Revision, Event, Revision
  <2>1. f.rev \in Revision /\ f.rev \in Nat /\ f = [order |-> o, rev |-> f.rev]
    BY DEF Event, Revision
  <2>2. r = local[o].rev + 1 /\ local[o].status \in {"ACTIVE", "DONE"} /\ local[o].rev \in Nat
    BY <2>1 DEF IInv, TypeOK, Snapshot
  <2>3. f.rev <= local[o].rev
    BY <2>1, <2>2
  <2> QED
    BY <2>1, <2>2, <2>3 DEF IInv, LocalInv
<1>4. UNCHANGED <<receipts, delivered, closed>>
  BY DEF Commit, AppendRow, ledgerVars
<1>5. Log!Issue(e)
  BY <1>1, <1>2, <1>3, <1>4 DEF Log!Issue
<1> QED
  BY <1>1, <1>5 DEF Log!LogNext, Log!Event, Log!Revision, Event, Revision

\* An ingested event takes effect in turn, once, or not at all.
LEMMA IngestApplies ==
  ASSUME IInv, NEW e \in Rows, Ingest(e, kind[e]), UNCHANGED outboxVars
  PROVE  Log!LogNext \/ UNCHANGED Log!logVars
<1>1. UNCHANGED <<born, delivered>> /\ Rows' = Rows /\ e \in Event
  BY DEF outboxVars, Rows
<1>2. CASE Answer(e, kind[e]) # "APPLIED"
  BY <1>1, <1>2 DEF Ingest, ledgerVars, Log!logVars
<1>3. CASE Answer(e, kind[e]) = "APPLIED"
  <2>1. /\ e \notin receipts /\ e.order \notin closed
        /\ \A r \in Revision : [order |-> e.order, rev |-> r] \in receipts <=> r < e.rev
    BY <1>3, AppliedIsNext
  <2>2. receipts' = receipts \cup {e} /\ UNCHANGED closed
    BY <1>3 DEF Ingest
  <2>3. Log!Predecessor(e) \subseteq receipts
    <3> SUFFICES ASSUME NEW f \in Event, f.order = e.order, f.rev + 1 = e.rev PROVE f \in receipts
      BY DEF Log!Predecessor, Log!Event, Log!Revision, Event, Revision
    <3>1. f.rev \in Revision /\ f.rev < e.rev /\ f = [order |-> e.order, rev |-> f.rev]
      BY DEF Event, Revision
    <3> QED
      BY <2>1, <3>1
  <2>4. Log!Apply(e)
    BY <1>1, <2>1, <2>2, <2>3 DEF Log!Apply
  <2> QED
    BY <1>1, <2>4 DEF Log!LogNext, Log!Event, Log!Revision, Event, Revision
<1> QED
  BY <1>2, <1>3

LEMMA StepRefines == IInv /\ [Next]_vars => [Log!LogNext]_Log!logVars
<1> SUFFICES ASSUME IInv, [Next]_vars PROVE Log!LogNext \/ UNCHANGED Log!logVars
  OBVIOUS
<1> DEFINE Same == UNCHANGED <<born, delivered, receipts, closed>>
<1>1. Same => UNCHANGED Log!logVars
  BY DEF Rows, Log!logVars
<1>2. CASE Worker
  <2>1. PICK o \in Order : \/ PlaceOrder(o) \/ MarkDone(o) \/ UndoDone(o)
                          \/ CancelOrder(o) \/ ReturnDelivery(o)
    BY <1>2 DEF Worker
  <2>2. CASE PlaceOrder(o)
    BY <2>2, CommitIssues DEF PlaceOrder, Kind
  <2>3. ASSUME NEW k \in LifecycleKind, Transition(o, k) PROVE Log!LogNext
    <3>1. k \in Kind /\ FromStatus[k] \in {"ACTIVE", "DONE"} /\ local[o].rev + 1 \in Nat
      BY Lifecycle DEF LifecycleKind, IInv, TypeOK, Snapshot
    <3> QED
      BY <2>3, <3>1, CommitIssues DEF Transition
  <2> QED
    BY <2>1, <2>2, <2>3
       DEF MarkDone, UndoDone, CancelOrder, ReturnDelivery, LifecycleKind, Kind
<1>3. ASSUME NEW s \in Service, Sync(s) PROVE Log!LogNext \/ UNCHANGED Log!logVars
  <2>1. CASE StartSync(s) \/ Deliver(s) \/ Retry(s)
    BY <1>1, <2>1 DEF StartSync, Deliver, Retry, RecordFailure, outboxVars, ledgerVars
  <2>2. CASE Refuse(s)
    BY <1>1, <2>2 DEF Refuse, Quarantine, ledgerVars
  <2>3. CASE Receive(s)
    <3>1. current[s] \in Rows /\ Ingest(current[s], kind[current[s]]) /\ UNCHANGED outboxVars
      BY <2>3 DEF Receive, InFlight, IInv, InFlightInv
    <3> QED
      BY <3>1, IngestApplies
  <2>4. CASE Accept(s)
    <3>1. current[s] \in receipts /\ current[s] \in Event
      BY <2>4 DEF Accept, IInv, InFlightInv, TypeOK
    <3>2. Log!Acknowledge(current[s])
      BY <2>4, <3>1 DEF Accept, MarkDelivered, ledgerVars, Log!Acknowledge, Rows
    <3> QED
      BY <3>1, <3>2 DEF Log!LogNext, Log!Event, Log!Revision, Event, Revision
  <2> QED
    BY <1>3, <2>1, <2>2, <2>3, <2>4 DEF Sync
<1>4. ASSUME NEW e \in Event, ReceiveLate(e) \/ Elapse(e)
      PROVE  Log!LogNext \/ UNCHANGED Log!logVars
  <2>1. CASE ReceiveLate(e)
    BY <2>1, IngestApplies DEF ReceiveLate, IInv, InFlightInv
  <2>2. CASE Elapse(e)
    BY <1>1, <2>2 DEF Elapse, BackoffElapses, ledgerVars
  <2> QED
    BY <1>4, <2>1, <2>2
<1>5. CASE PullPage \/ ApplyPage
  BY <1>1, <1>5 DEF PullPage, ApplyPage, outboxVars, ledgerVars
<1>6. CASE Administer
  <2>1. UNCHANGED <<born, delivered>>
    BY <1>6 DEF Administer, outboxVars
  <2>2. CASE ReceiveStock \/ DrawStock
    BY <1>1, <2>1, <2>2 DEF ReceiveStock, DrawStock
  <2>3. ASSUME NEW o \in Order, AdminCancel(o) PROVE Log!LogNext
    <3>1. o \notin closed /\ canon[o].status # "NONE"
      BY <2>3 DEF AdminCancel, IInv, CanonInv
    <3>2. [order |-> o, rev |-> 0] \in receipts
      <4>1. 0 \in Revision /\ \A n \in Revision : 0 <= n
        BY Constants DEF Revision
      <4> QED
        BY <3>1, <4>1 DEF IInv, CanonInv
    <3>3. Log!Close(o)
      BY <2>1, <2>3, <3>1, <3>2 DEF AdminCancel, Log!Close, Rows
    <3> QED
      BY <3>3 DEF Log!LogNext
  <2> QED
    BY <1>6, <2>2, <2>3 DEF Administer
<1>7. CASE Fault
  BY <1>1, <1>7 DEF Fault, Crash, Unavailable, Timeout, outboxVars, ledgerVars
<1>8. CASE UNCHANGED vars
  BY <1>1, <1>8 DEF vars, outboxVars, ledgerVars
<1> QED
  BY <1>2, <1>3, <1>4, <1>5, <1>6, <1>7, <1>8 DEF Next

\* The outbox, the transport and the server together are an ordered log per
\* order: at most once, in order, acknowledged only when applied, and closed
\* for good once the administrator cancels.
THEOREM Refinement == Spec => ImplementsOrderedLog
<1>1. Init => Log!LogInit
  BY DEF Init, OutboxInit, LedgerInit, Rows, Log!LogInit
<1>2. IInv /\ [Next]_vars => [Log!LogNext]_Log!logVars
  BY StepRefines
<1> QED
  BY <1>1, <1>2, Invariance, PTL DEF Spec, ImplementsOrderedLog, Log!LogSpec

\* A canonical order moves one revision at a time, and not at all once closed.
THEOREM CanonicalAdvances == Spec => CanonicalOnlyAdvances
<1> DEFINE A == \A o \in Order : canon'[o] # canon[o] =>
                  /\ o \notin closed
                  /\ canon'[o].rev = canon[o].rev + (IF canon[o].status = "NONE" THEN 0 ELSE 1)
<1>1. IInv /\ [Next]_vars => A \/ UNCHANGED vars
  <2> SUFFICES ASSUME IInv, [Next]_vars PROVE A
    OBVIOUS
  <2>1. UNCHANGED canon => A
    OBVIOUS
  <2>2. ASSUME NEW e \in Rows, Ingest(e, kind[e]) PROVE A
    <3>1. CASE Answer(e, kind[e]) # "APPLIED"
      BY <2>1, <2>2, <3>1 DEF Ingest, ledgerVars
    <3>2. CASE Answer(e, kind[e]) = "APPLIED"
      <4>1. e.order \in Order /\ e \notin receipts /\ e = [order |-> e.order, rev |-> e.rev]
            /\ e.rev \in Revision
        BY <3>2, AppliedIsNext DEF Rows, Event
      <4>2. canon' = [canon EXCEPT ![e.order] = Entered(kind[e], e.rev)] /\ e.order \notin closed
        BY <2>2, <3>2, AppliedIsNext DEF Ingest
      <4>3. e.rev = canon[e.order].rev + (IF canon[e.order].status = "NONE" THEN 0 ELSE 1)
        <5>1. CASE kind[e] = "ORDER_PLACED"
          <6>1. e.rev = 0
            BY <5>1 DEF IInv, LocalInv
          <6>2. canon[e.order].status = "NONE"
            BY <3>2, <5>1, AppliedFrom, Lifecycle
          <6> QED
            BY <4>1, <6>1, <6>2 DEF IInv, CanonInv, Unknown
        <5>2. CASE kind[e] # "ORDER_PLACED"
          BY <3>2, <5>2 DEF Answer, Precondition
        <5> QED
          BY <5>1, <5>2
      <4> QED
        BY <4>1, <4>2, <4>3 DEF Entered, IInv, TypeOK
    <3> QED
      BY <3>1, <3>2
  <2>3. ASSUME NEW o \in Order, AdminCancel(o) PROVE A
    <3>1. o \notin closed /\ canon[o].status # "NONE"
      BY <2>3 DEF AdminCancel, IInv, CanonInv
    <3> QED
      BY <2>3, <3>1 DEF AdminCancel, Entered, IInv, TypeOK
  <2>4. ASSUME NEW s \in Service, Sync(s) PROVE A
    <3>1. CASE Receive(s)
      BY <2>2, <3>1 DEF Receive, InFlight, IInv, InFlightInv
    <3>2. CASE ~Receive(s)
      BY <2>1, <2>4, <3>2 DEF Sync, StartSync, Deliver, Accept, Refuse, Retry, ledgerVars
    <3> QED
      BY <3>1, <3>2
  <2>5. ASSUME NEW e \in Event, ReceiveLate(e) \/ Elapse(e) PROVE A
    BY <2>1, <2>2, <2>5 DEF ReceiveLate, Elapse, IInv, InFlightInv, ledgerVars
  <2>6. CASE Worker
    BY <2>1, <2>6 DEF Worker, PlaceOrder, MarkDone, UndoDone, CancelOrder, ReturnDelivery,
                      Transition, Commit, ledgerVars
  <2>7. CASE PullPage \/ ApplyPage \/ Fault
    BY <2>1, <2>7 DEF PullPage, ApplyPage, Fault, Crash, Unavailable, Timeout, ledgerVars
  <2>8. CASE Administer
    BY <2>1, <2>3, <2>8 DEF Administer, ReceiveStock, DrawStock
  <2>9. CASE UNCHANGED vars
    BY <2>1, <2>9 DEF vars, ledgerVars
  <2> HIDE DEF A
  <2> QED
    BY <2>4, <2>5, <2>6, <2>7, <2>8, <2>9 DEF Next
<1>2. IInv /\ [Next]_vars => [A]_vars
  BY <1>1
<1> QED
  BY <1>2, Invariance, PTL DEF Spec, CanonicalOnlyAdvances

-----------------------------------------------------------------------------
(* Why the device's order never moves back. *)

\* A row is an event of a known kind, and the revisions are numbers.
LEMMA RowTypes ==
  ASSUME IInv
  PROVE  /\ \A e \in Rows : /\ e \in Event /\ e.order \in Order /\ kind[e] \in Kind
                            /\ e.rev \in Revision /\ e.rev \in Nat
                            /\ e = [order |-> e.order, rev |-> e.rev]
         /\ \A o \in Order : local[o].rev \in Nat /\ canon[o].rev \in Nat
<1>1. \A e \in Event : /\ e.order \in Order /\ e.rev \in Revision /\ e.rev \in Nat
                       /\ e = [order |-> e.order, rev |-> e.rev]
  BY DEF Event, Revision
<1>2. \A x \in Snapshot : x.rev \in Nat
  BY DEF Snapshot
<1> QED
  BY <1>1, <1>2 DEF IInv, TypeOK, Rows

\* The device has the row the server's order stands at.
LEMMA ServerBehind ==
  ASSUME IInv, NEW o \in Order, canon[o].status # "NONE"
  PROVE  /\ Top(o) \in Revision /\ Top(o) \in Nat
         /\ [order |-> o, rev |-> Top(o)] \in receipts
         /\ [order |-> o, rev |-> Top(o)] \in Rows
         /\ Top(o) <= local[o].rev /\ local[o].status # "NONE"
         /\ canon[o].rev = IF o \in closed THEN Top(o) + 1 ELSE Top(o)
<1>1. Top(o) \in Revision /\ \A r \in Revision : r \in Nat /\ r <= r
  <2>1. Top(o) \in Revision
    BY DEF IInv, CanonInv
  <2> QED
    BY <2>1 DEF Revision
<1>2. [order |-> o, rev |-> Top(o)] \in receipts
  BY <1>1 DEF IInv, CanonInv
<1>3. [order |-> o, rev |-> Top(o)] \in Rows
  BY <1>2 DEF IInv, CanonInv
<1>4. canon[o].rev = IF o \in closed THEN Top(o) + 1 ELSE Top(o)
  BY RowTypes DEF Top
<1>5. Top(o) <= local[o].rev /\ local[o].status # "NONE"
  BY <1>3 DEF IInv, LocalInv
<1> QED
  BY <1>1, <1>2, <1>3, <1>4, <1>5

\* The new row of a commit is ahead of all the rows of its order; everything
\* else stays.
LEMMA CommitFacts ==
  ASSUME IInv, NEW o \in Order, NEW k \in Kind, NEW r \in Nat, Commit(o, k, r),
         \/ k = "ORDER_PLACED" /\ r = 0 /\ local[o].status = "NONE"
         \/ /\ k # "ORDER_PLACED" /\ r = local[o].rev + 1
            /\ local[o].status \in {"ACTIVE", "DONE"}
  PROVE  LET e == [order |-> o, rev |-> r] IN
         /\ e \in Event /\ e \notin Rows /\ Rows' = Rows \cup {e}
         /\ kind'[e] = k /\ born'[e] = clock + 1 /\ clock' = clock + 1
         /\ \A f \in Rows : kind'[f] = kind[f] /\ born'[f] = born[f]
         /\ \A f \in Rows : f.order = o => f.rev < r
         /\ local'[o] = Entered(k, r) /\ \A q \in Order \ {o} : local'[q] = local[q]
         /\ \A q \in Order : local[q].rev <= local'[q].rev
         /\ quarantined' = IF Earlier(e) \cap quarantined # {} THEN quarantined \cup {e}
                           ELSE quarantined
         /\ UNCHANGED <<ledgerVars, cursor, serviceVars, late, faults, page, delivered, waiting>>
<1> DEFINE e == [order |-> o, rev |-> r]
<1>1. r \in Revision /\ e \in Event /\ e \notin Rows
  BY DEF Commit, AppendRow, Revision, Event
<1>2. Rows' = Rows \cup {e} /\ born' = [born EXCEPT ![e] = clock + 1]
  BY <1>1 DEF IInv, TypeOK, Commit, AppendRow, Rows
<1>3. local' = [local EXCEPT ![o] = Entered(k, r)] /\ kind' = [kind EXCEPT ![e] = k]
  BY DEF Commit, AppendRow
<1>4. /\ UNCHANGED <<ledgerVars, cursor, serviceVars, late, faults, page, delivered, waiting>>
      /\ clock' = clock + 1
      /\ quarantined' = IF Earlier(e) \cap quarantined # {} THEN quarantined \cup {e}
                        ELSE quarantined
  BY DEF Commit, AppendRow
<1>5. kind'[e] = k /\ born'[e] = clock + 1
  BY <1>1, <1>2, <1>3 DEF IInv, TypeOK
<1>6. \A f \in Rows : kind'[f] = kind[f] /\ born'[f] = born[f]
  BY <1>1, <1>2, <1>3 DEF IInv, TypeOK, Rows
<1>7. \A f \in Rows : f.order = o => f.rev < r
  BY RowTypes DEF IInv, LocalInv
<1>8. local'[o] = Entered(k, r) /\ \A q \in Order \ {o} : local'[q] = local[q]
  BY <1>3 DEF IInv, TypeOK
<1>9. \A q \in Order : local[q].rev <= local'[q].rev
  BY <1>8, RowTypes DEF Entered, IInv, LocalInv
<1> QED
  BY <1>1, <1>2, <1>4, <1>5, <1>6, <1>7, <1>8, <1>9

LEMMA CommitHistory ==
  ASSUME IInv, HistoryInv,
         NEW o \in Order, NEW k \in Kind, NEW r \in Nat, Commit(o, k, r),
         \/ k = "ORDER_PLACED" /\ r = 0 /\ local[o].status = "NONE"
         \/ /\ k # "ORDER_PLACED" /\ r = local[o].rev + 1
            /\ local[o].status \in {"ACTIVE", "DONE"},
         local[o].status = FromStatus[k]
  PROVE  HistoryInv'
<1> DEFINE e == [order |-> o, rev |-> r]
<1>1. /\ e \in Event /\ e \notin Rows /\ Rows' = Rows \cup {e} /\ kind'[e] = k
      /\ \A f \in Rows : kind'[f] = kind[f]
      /\ \A f \in Rows : f.order = o => f.rev < r
      /\ local'[o] = Entered(k, r) /\ \A q \in Order \ {o} : local'[q] = local[q]
      /\ UNCHANGED <<ledgerVars, page>>
  BY CommitFacts
<1>2. UNCHANGED <<canon, closed, feed, receipts>> /\ \A q : Top(q)' = Top(q)
  BY <1>1 DEF ledgerVars, Top
<1>3. \A f \in Rows' : f.rev = local'[f.order].rev => local'[f.order].status = ToStatus[kind'[f]]
  <2> SUFFICES ASSUME NEW f \in Rows', f.rev = local'[f.order].rev
               PROVE  local'[f.order].status = ToStatus[kind'[f]]
    OBVIOUS
  <2>1. CASE f = e
    BY <1>1, <2>1 DEF Entered
  <2>2. CASE f \in Rows /\ f.order = o
    BY <1>1, <2>2, RowTypes DEF Entered
  <2>3. CASE f \in Rows /\ f.order # o
    BY <1>1, <2>3, RowTypes DEF HistoryInv, ChainInv
  <2> QED
    BY <1>1, <2>1, <2>2, <2>3
<1>4. \A f \in Rows' : f.rev > 0 =>
        LET g == [order |-> f.order, rev |-> f.rev - 1]
        IN g \in Rows' /\ ToStatus[kind'[g]] = FromStatus[kind'[f]]
  <2> SUFFICES ASSUME NEW f \in Rows', f.rev > 0
               PROVE  LET g == [order |-> f.order, rev |-> f.rev - 1]
                      IN g \in Rows' /\ ToStatus[kind'[g]] = FromStatus[kind'[f]]
    OBVIOUS
  <2>1. CASE f = e
    <3> DEFINE g == [order |-> o, rev |-> local[o].rev]
    <3>1. r = local[o].rev + 1 /\ local[o].status \in {"ACTIVE", "DONE"} /\ local[o].rev \in Nat
      BY <2>1, RowTypes
    <3>2. g \in Rows
      BY <3>1 DEF IInv, LocalInv
    <3>3. local[o].status = ToStatus[kind[g]]
      BY <3>2 DEF HistoryInv, ChainInv
    <3>4. r - 1 = local[o].rev
      BY <3>1
    <3> QED
      BY <1>1, <2>1, <3>2, <3>3, <3>4
  <2>2. CASE f \in Rows
    BY <1>1, <2>2 DEF HistoryInv, ChainInv
  <2> QED
    BY <1>1, <2>1, <2>2
<1>5. ChainInv'
  BY <1>3, <1>4 DEF ChainInv
<1>6. ClosedInv'
  <2>1. \A q \in closed : q \in Order /\ canon[q].status # "NONE"
    BY DEF IInv, TypeOK, CanonInv
  <2>2. \A q \in closed : [order |-> q, rev |-> Top(q)] \in Rows
    BY <2>1, ServerBehind
  <2> QED
    BY <1>1, <1>2, <2>2 DEF HistoryInv, ClosedInv
<1>7. NewsInv'
  BY <1>1, <1>2 DEF HistoryInv, NewsInv
<1> QED
  BY <1>5, <1>6, <1>7 DEF HistoryInv

\* A step that leaves the rows and both sides' orders alone.
LEMMA HistoryKept ==
  ASSUME HistoryInv, UNCHANGED <<born, kind, local, canon, closed, feed>>,
         \A n \in page.rows' : n \in page.rows \/ n.rev <= canon[n.order].rev
  PROVE  HistoryInv'
<1>1. Rows' = Rows /\ \A q : Top(q)' = Top(q)
  BY DEF Rows, Top
<1>2. ChainInv'
  BY <1>1 DEF HistoryInv, ChainInv
<1>3. ClosedInv'
  BY <1>1 DEF HistoryInv, ClosedInv
<1>4. NewsInv'
  BY DEF HistoryInv, NewsInv
<1> QED
  BY <1>2, <1>3, <1>4 DEF HistoryInv

\* The device's orders move to revisions no row has.
LEMMA HistoryLocal ==
  ASSUME IInv, HistoryInv, UNCHANGED <<born, kind, canon, closed, feed>>,
         page' \in {page, NoPage},
         \A o \in Order : local'[o] = local[o]
                          \/ (local'[o].rev \in Nat /\ local'[o].rev > local[o].rev)
  PROVE  HistoryInv'
<1>1. Rows' = Rows /\ \A q : Top(q)' = Top(q)
  BY DEF Rows, Top
<1>2. \A e \in Rows : e.rev = local'[e.order].rev => local'[e.order] = local[e.order]
  <2>1. \A e \in Rows : e.rev <= local[e.order].rev /\ e.order \in Order
                        /\ e.rev \in Nat /\ local[e.order].rev \in Nat
    BY RowTypes DEF IInv, LocalInv
  <2>2. \A l, m, n \in Nat : l <= m /\ n > m => l # n
    OBVIOUS
  <2> QED
    BY <2>1, <2>2
<1>3. ChainInv'
  BY <1>1, <1>2 DEF HistoryInv, ChainInv
<1>4. ClosedInv'
  BY <1>1 DEF HistoryInv, ClosedInv
<1>5. NewsInv'
  BY DEF HistoryInv, NewsInv, NoPage
<1> QED
  BY <1>3, <1>4, <1>5 DEF HistoryInv

\* The server's order moves on by one revision.
LEMMA HistoryServer ==
  ASSUME IInv, HistoryInv, UNCHANGED <<born, kind, local, page>>,
         NEW o \in Order, NEW c \in Snapshot, canon' = [canon EXCEPT ![o] = c],
         c.status # "NONE", canon[o].rev <= c.rev,
         feed' = Append(feed, [order |-> o, rev |-> c.rev]),
         o \notin closed, closed' \in {closed, closed \cup {o}},
         o \in closed' => ToStatus[kind[[order |-> o, rev |-> c.rev - 1]]] = "ACTIVE"
  PROVE  HistoryInv'
<1>1. Rows' = Rows
  BY DEF Rows
<1>2. canon'[o] = c /\ \A q \in Order \ {o} : canon'[q] = canon[q]
  BY DEF IInv, TypeOK
<1>3. \A q \in Order \ {o} : Top(q)' = Top(q)
  BY <1>2 DEF Top
<1>4. o \in closed' => Top(o)' = c.rev - 1
  BY <1>2 DEF Top
<1>5. ChainInv'
  BY <1>1 DEF HistoryInv, ChainInv
<1>6. feed \in Seq(FeedRow) /\ Len(feed) \in Nat /\ Len(feed') = Len(feed) + 1
      /\ feed'[Len(feed')] = [order |-> o, rev |-> c.rev]
      /\ \A i \in 1 .. Len(feed) : feed'[i] = feed[i] /\ i \in 1 .. Len(feed')
  BY DEF IInv, TypeOK
<1>7. ClosedInv'
  <2> SUFFICES ASSUME NEW q \in closed'
               PROVE  /\ ToStatus[kind[[order |-> q, rev |-> Top(q)']]] = "ACTIVE"
                      /\ \E i \in 1 .. Len(feed') : feed'[i] = [order |-> q, rev |-> canon'[q].rev]
    BY DEF ClosedInv
  <2>1. CASE q = o
    <3>1. Len(feed') \in 1 .. Len(feed')
      BY <1>6
    <3> QED
      BY <1>2, <1>4, <1>6, <2>1, <3>1
  <2>2. CASE q # o
    <3>1. q \in closed /\ q \in Order
      BY <2>2 DEF IInv, TypeOK
    <3>2. PICK i \in 1 .. Len(feed) : feed[i] = [order |-> q, rev |-> canon[q].rev]
      BY <3>1 DEF HistoryInv, ClosedInv
    <3> QED
      BY <1>2, <1>3, <1>6, <2>2, <3>1, <3>2 DEF HistoryInv, ClosedInv
  <2> QED
    BY <2>1, <2>2
<1>8. NewsInv'
  <2>1. \A q \in Order : canon[q].rev <= canon'[q].rev /\ canon[q].rev \in Nat
                         /\ canon'[q].rev \in Nat
                         /\ (canon[q].status # "NONE" => canon'[q].status # "NONE")
    <3>1. c.rev \in Nat
      BY DEF Snapshot
    <3>2. \A n \in Nat : n <= n
      OBVIOUS
    <3> QED
      BY <1>2, <3>1, <3>2, RowTypes
  <2>2. \A l, m, n \in Nat : l <= m /\ m <= n => l <= n
    OBVIOUS
  <2>3. \A i \in 1 .. Len(feed) : /\ feed[i].order \in Order
                                  /\ canon'[feed[i].order].status # "NONE"
                                  /\ feed[i].rev <= canon'[feed[i].order].rev
    <3>1. \A i \in 1 .. Len(feed) : feed[i].order \in Order /\ feed[i].rev \in Nat
      BY FeedTypes, Constants DEF IInv
    <3> QED
      BY <2>1, <2>2, <3>1 DEF HistoryInv, NewsInv
  <2>4. \A n \in page.rows : n.rev <= canon'[n.order].rev
    BY <2>1, <2>2, FeedTypes DEF HistoryInv, NewsInv, IInv
  <2>5. \A i \in 1 .. Len(feed') : i \in 1 .. Len(feed) \/ i = Len(feed')
    BY <1>6
  <2>6. c.rev <= c.rev
    BY DEF Snapshot
  <2>7. \A i \in 1 .. Len(feed') : /\ canon'[feed'[i].order].status # "NONE"
                                   /\ feed'[i].rev <= canon'[feed'[i].order].rev
    BY <1>2, <1>6, <2>3, <2>5, <2>6
  <2> QED
    BY <2>4, <2>7 DEF NewsInv
<1> QED
  BY <1>5, <1>7, <1>8 DEF HistoryInv

\* An applied event takes the server's order one revision on, as its kind says.
LEMMA IngestEffect ==
  ASSUME IInv, NEW e \in Rows, Ingest(e, kind[e])
  PROVE  \/ UNCHANGED ledgerVars
         \/ /\ Answer(e, kind[e]) = "APPLIED"
            /\ canon' = [canon EXCEPT ![e.order] = Entered(kind[e], e.rev)]
            /\ Entered(kind[e], e.rev) \in Snapshot
            /\ Entered(kind[e], e.rev).status # "NONE"
            /\ canon[e.order].rev <= e.rev
            /\ feed' = Append(feed, e)
            /\ e.order \notin closed /\ closed' = closed
            /\ receipts' = receipts \cup {e}
<1> SUFFICES ASSUME ~UNCHANGED ledgerVars
             PROVE  /\ Answer(e, kind[e]) = "APPLIED"
                    /\ canon' = [canon EXCEPT ![e.order] = Entered(kind[e], e.rev)]
                    /\ Entered(kind[e], e.rev) \in Snapshot
                    /\ Entered(kind[e], e.rev).status # "NONE"
                    /\ canon[e.order].rev <= e.rev
                    /\ feed' = Append(feed, e)
                    /\ e.order \notin closed /\ closed' = closed
                    /\ receipts' = receipts \cup {e}
  OBVIOUS
<1>1. /\ Answer(e, kind[e]) = "APPLIED"
      /\ canon' = [canon EXCEPT ![e.order] = Entered(kind[e], e.rev)]
      /\ feed' = Append(feed, e) /\ closed' = closed
      /\ receipts' = receipts \cup {e}
  BY DEF Ingest
<1>2. e.order \notin closed
  BY <1>1, AppliedIsNext
<1>3. e.order \in Order /\ e.rev \in Revision /\ kind[e] \in Kind /\ e.rev \in Nat
  BY RowTypes
<1>4. Entered(kind[e], e.rev) \in Snapshot /\ Entered(kind[e], e.rev).status # "NONE"
  <2>1. e.rev \in 0 .. MaxRevision + 1
    BY <1>3, Constants DEF Revision
  <2>2. Entered(kind[e], e.rev) \in Snapshot
    BY <1>3, <2>1, EnteredType
  <2> QED
    BY <1>3, <2>2, Lifecycle DEF Entered
<1>5. canon[e.order].rev <= e.rev
  <2>1. CASE kind[e] = "ORDER_PLACED"
    <3>1. canon[e.order].status = "NONE"
      BY <1>1, <2>1, AppliedFrom, Lifecycle
    <3>2. canon[e.order].rev = 0
      BY <1>3, <3>1 DEF IInv, CanonInv, Unknown
    <3> QED
      BY <1>3, <3>2
  <2>2. CASE kind[e] # "ORDER_PLACED"
    <3>1. e.rev = canon[e.order].rev + 1 /\ canon[e.order].rev \in Nat
      BY <1>1, <1>3, <2>2, RowTypes DEF Answer, Precondition
    <3> QED
      BY <3>1
  <2> QED
    BY <2>1, <2>2
<1> QED
  BY <1>1, <1>2, <1>4, <1>5

LEMMA IngestHistory ==
  ASSUME IInv, HistoryInv, NEW e \in Rows, Ingest(e, kind[e]),
         UNCHANGED <<outboxVars, local, page>>
  PROVE  HistoryInv'
<1>1. CASE UNCHANGED ledgerVars
  BY <1>1, HistoryKept DEF ledgerVars, outboxVars
<1>2. CASE ~UNCHANGED ledgerVars
  <2> DEFINE c == Entered(kind[e], e.rev)
  <2>1. /\ canon' = [canon EXCEPT ![e.order] = c] /\ c \in Snapshot /\ c.status # "NONE"
        /\ canon[e.order].rev <= e.rev /\ feed' = Append(feed, e)
        /\ e.order \notin closed /\ closed' = closed
    BY <1>2, IngestEffect
  <2>2. e.order \in Order /\ e = [order |-> e.order, rev |-> e.rev] /\ c.rev = e.rev
    BY RowTypes DEF Entered
  <2>3. canon[e.order].rev <= c.rev /\ feed' = Append(feed, [order |-> e.order, rev |-> c.rev])
    BY <2>1, <2>2
  <2> HIDE DEF c
  <2> QED
    BY <2>1, <2>2, <2>3, HistoryServer DEF outboxVars
<1> QED
  BY <1>1, <1>2

LEMMA AdminCancelHistory ==
  ASSUME IInv, HistoryInv, NEW o \in Order, AdminCancel(o),
         UNCHANGED <<outboxVars, local, page>>
  PROVE  HistoryInv'
<1> DEFINE c == Entered("ORDER_CANCELLED", canon[o].rev + 1)
<1>1. /\ canon[o].status = "ACTIVE" /\ canon' = [canon EXCEPT ![o] = c]
      /\ feed' = Append(feed, [order |-> o, rev |-> canon[o].rev + 1])
      /\ closed' = closed \cup {o}
  BY DEF AdminCancel
<1>2. o \notin closed /\ Top(o) = canon[o].rev /\ canon[o].rev \in Revision
  <2>1. o \notin closed
    BY <1>1 DEF IInv, CanonInv
  <2>2. Top(o) \in Revision
    BY <1>1 DEF IInv, CanonInv
  <2> QED
    BY <2>1, <2>2 DEF Top
<1>3. c \in Snapshot /\ c.status # "NONE" /\ c.rev = canon[o].rev + 1 /\ canon[o].rev <= c.rev
  <2>1. canon[o].rev + 1 \in 0 .. MaxRevision + 1 /\ canon[o].rev <= canon[o].rev + 1
    BY <1>2, Constants DEF Revision
  <2> QED
    BY <2>1, EnteredType, Lifecycle DEF Entered, Kind
<1>4. ToStatus[kind[[order |-> o, rev |-> c.rev - 1]]] = "ACTIVE"
  <2>1. c.rev - 1 = Top(o)
    BY <1>2, <1>3, RowTypes
  <2> QED
    BY <1>1, <1>2, <2>1 DEF IInv, CanonInv
<1> HIDE DEF c
<1> QED
  BY <1>1, <1>2, <1>3, <1>4, HistoryServer DEF outboxVars

LEMMA PullPageHistory ==
  ASSUME IInv, HistoryInv, PullPage
  PROVE  HistoryInv'
<1>1. UNCHANGED <<born, kind, local, canon, closed, feed>>
  BY DEF PullPage, outboxVars, deviceVars, ledgerVars
<1>2. PICK next \in Nat : /\ page' = [rows |-> FeedRows(cursor, next), next |-> next]
                         /\ next <= Len(feed)
  BY Constants DEF PullPage, IInv, TypeOK
<1>3. \A i \in (cursor + 1) .. next : i \in 1 .. Len(feed)
  BY <1>2 DEF IInv, TypeOK
<1>4. \A n \in page.rows' : n.rev <= canon[n.order].rev
  BY <1>2, <1>3 DEF FeedRows, HistoryInv, NewsInv
<1> QED
  BY <1>1, <1>4, HistoryKept

\* Every command of the worker commits one event that leaves the order's status.
LEMMA WorkerCommits ==
  ASSUME IInv, Worker
  PROVE  \E o \in Order, k \in Kind, r \in Nat :
           /\ Commit(o, k, r) /\ local[o].status = FromStatus[k]
           /\ \/ k = "ORDER_PLACED" /\ r = 0 /\ local[o].status = "NONE"
              \/ /\ k # "ORDER_PLACED" /\ r = local[o].rev + 1
                 /\ local[o].status \in {"ACTIVE", "DONE"}
<1> DEFINE Goal == \E o \in Order, k \in Kind, r \in Nat :
           /\ Commit(o, k, r) /\ local[o].status = FromStatus[k]
           /\ \/ k = "ORDER_PLACED" /\ r = 0 /\ local[o].status = "NONE"
              \/ /\ k # "ORDER_PLACED" /\ r = local[o].rev + 1
                 /\ local[o].status \in {"ACTIVE", "DONE"}
<1>1. PICK o \in Order : \/ PlaceOrder(o) \/ MarkDone(o) \/ UndoDone(o)
                        \/ CancelOrder(o) \/ ReturnDelivery(o)
  BY DEF Worker
<1>2. ASSUME PlaceOrder(o) PROVE Goal
  <2>1. /\ "ORDER_PLACED" \in Kind /\ 0 \in Nat /\ Commit(o, "ORDER_PLACED", 0)
        /\ local[o].status = FromStatus["ORDER_PLACED"] /\ local[o].status = "NONE"
    BY <1>2, Lifecycle DEF PlaceOrder, Kind
  <2> QED
    BY <2>1, Zenon
<1>3. ASSUME NEW k \in LifecycleKind, Transition(o, k) PROVE Goal
  <2>1. k \in Kind /\ k # "ORDER_PLACED" /\ FromStatus[k] \in {"ACTIVE", "DONE"}
    BY Lifecycle DEF LifecycleKind
  <2>2. local[o].rev + 1 \in Nat
    BY RowTypes
  <2>3. Commit(o, k, local[o].rev + 1) /\ local[o].status = FromStatus[k]
    BY <1>3 DEF Transition
  <2>4. local[o].status \in {"ACTIVE", "DONE"}
    BY <2>1, <2>3
  <2> QED
    BY <2>1, <2>2, <2>3, <2>4, Zenon
<1> HIDE DEF Goal
<1>4. \E k \in LifecycleKind : PlaceOrder(o) \/ Transition(o, k)
  BY <1>1 DEF MarkDone, UndoDone, CancelOrder, ReturnDelivery, LifecycleKind, Kind
<1>5. Goal
  BY <1>2, <1>3, <1>4
<1> QED
  BY <1>5 DEF Goal

LEMMA HistoryStep == IInv /\ HistoryInv /\ [Next]_vars => HistoryInv'
<1> SUFFICES ASSUME IInv, HistoryInv, [Next]_vars PROVE HistoryInv'
  OBVIOUS
<1>1. CASE Worker
  BY <1>1, WorkerCommits, CommitHistory
<1>2. ASSUME NEW s \in Service, Sync(s) PROVE HistoryInv'
  <2>1. CASE Receive(s)
    <3>1. /\ current[s] \in Rows /\ Ingest(current[s], kind[current[s]])
          /\ UNCHANGED <<outboxVars, local, page>>
      BY <2>1 DEF Receive, InFlight, IInv, InFlightInv, deviceVars
    <3> QED
      BY <3>1, IngestHistory
  <2>2. CASE Refuse(s)
    <3>1. /\ UNCHANGED <<born, kind, canon, closed, feed, page>>
          /\ local' \in {local, Reconciled(current[s])} /\ current[s] \in Event
      BY <2>2 DEF Refuse, Quarantine, ledgerVars, IInv, InFlightInv, Rows
    <3>2. \A o \in Order : local'[o] = local[o]
                           \/ (local'[o].rev \in Nat /\ local'[o].rev > local[o].rev)
      <4> SUFFICES ASSUME NEW o \in Order, local'[o] # local[o]
                   PROVE  local'[o].rev \in Nat /\ local'[o].rev > local[o].rev
        OBVIOUS
      <4>1. local[o].rev \in Nat
        BY RowTypes
      <4>2. local'[o].rev = local[o].rev + 1
        BY <3>1, ReconciledType
      <4> QED
        BY <4>1, <4>2
    <3> QED
      BY <3>1, <3>2, HistoryLocal
  <2>3. CASE StartSync(s) \/ Deliver(s) \/ Accept(s) \/ Retry(s)
    BY <2>3, HistoryKept DEF StartSync, Deliver, Accept, Retry, MarkDelivered, RecordFailure,
                             outboxVars, ledgerVars, deviceVars
  <2> QED
    BY <1>2, <2>1, <2>2, <2>3 DEF Sync
<1>3. ASSUME NEW e \in Event, ReceiveLate(e) \/ Elapse(e) PROVE HistoryInv'
  <2>1. CASE ReceiveLate(e)
    <3>1. e \in Rows /\ Ingest(e, kind[e]) /\ UNCHANGED <<outboxVars, local, page>>
      BY <2>1 DEF ReceiveLate, IInv, InFlightInv, deviceVars
    <3> QED
      BY <3>1, IngestHistory
  <2>2. CASE Elapse(e)
    BY <2>2, HistoryKept DEF Elapse, BackoffElapses, ledgerVars, deviceVars
  <2> QED
    BY <1>3, <2>1, <2>2
<1>4. CASE ApplyPage
  <2>1. /\ UNCHANGED <<born, kind, canon, closed, feed>> /\ page' = NoPage
        /\ local' = [o \in Order |-> Converged(o)]
    BY <1>4 DEF ApplyPage, outboxVars, ledgerVars
  <2>2. \A o \in Order : local'[o] = local[o]
                         \/ (local'[o].rev \in Nat /\ local'[o].rev > local[o].rev)
    <3> SUFFICES ASSUME NEW o \in Order, local'[o] # local[o]
                 PROVE  local'[o].rev \in Nat /\ local'[o].rev > local[o].rev
      OBVIOUS
    <3>1. local'[o] = Converged(o)
      BY <2>1
    <3>2. local'[o] \in Snapshot /\ local'[o].rev > local[o].rev
      BY <3>1, ConvergedType
    <3> QED
      BY <3>2 DEF Snapshot
  <2> QED
    BY <2>1, <2>2, HistoryLocal
<1>5. CASE Administer
  <2>1. UNCHANGED <<outboxVars, local, page>>
    BY <1>5 DEF Administer, deviceVars
  <2>2. CASE ReceiveStock \/ DrawStock
    BY <2>1, <2>2, HistoryKept DEF ReceiveStock, DrawStock, outboxVars
  <2> QED
    BY <1>5, <2>1, <2>2, AdminCancelHistory DEF Administer
<1>6. CASE Fault
  BY <1>6, HistoryKept DEF Fault, Crash, Unavailable, Timeout, outboxVars, ledgerVars,
                           deviceVars, NoPage
<1>7. CASE UNCHANGED vars
  BY <1>7, HistoryKept DEF vars, outboxVars, ledgerVars, deviceVars
<1> QED
  BY <1>1, <1>2, <1>3, <1>4, <1>5, <1>6, <1>7, PullPageHistory DEF Next

\* The server's order is the one the device sent it, or an administrator's
\* cancellation of it, in every reachable state.
LEMMA HistoryInvariance == Spec => []HistoryInv
<1>1. Init => HistoryInv
  BY DEF Init, OutboxInit, LedgerInit, NoPage, Rows, HistoryInv, ChainInv, ClosedInv, NewsInv
<1>2. IInv /\ HistoryInv /\ [Next]_vars => HistoryInv'
  BY HistoryStep
<1> QED
  BY <1>1, <1>2, Invariance, PTL DEF Spec

\* A page can only bring an order the administrator's cancellation of the very
\* revision the device is at.
LEMMA NewsIsTheCancellation ==
  ASSUME IInv, HistoryInv, NEW o \in Order, NEW n \in page.rows, n.order = o,
         n.rev > local[o].rev, local[o].status # "NONE"
  PROVE  /\ o \in closed /\ local[o].rev = Top(o) /\ n.rev = canon[o].rev
         /\ local[o].status = "ACTIVE"
<1>1. n.rev <= canon[o].rev /\ n.rev \in Nat /\ local[o].rev \in Nat /\ canon[o].rev \in Nat
  BY RowTypes, FeedTypes DEF HistoryInv, NewsInv, IInv
<1>2. canon[o].status # "NONE"
  <2> SUFFICES ASSUME canon[o].status = "NONE" PROVE FALSE
    OBVIOUS
  <2>1. canon[o].rev = 0
    BY DEF IInv, CanonInv, Unknown
  <2> QED
    BY <1>1, <2>1
<1>3. /\ Top(o) \in Nat /\ Top(o) <= local[o].rev
      /\ [order |-> o, rev |-> Top(o)] \in Rows
      /\ canon[o].rev = IF o \in closed THEN Top(o) + 1 ELSE Top(o)
  BY <1>2, ServerBehind
<1>4. o \in closed /\ local[o].rev = Top(o) /\ n.rev = canon[o].rev
  BY <1>1, <1>3
<1>5. local[o].status = ToStatus[kind[[order |-> o, rev |-> Top(o)]]]
  BY <1>3, <1>4 DEF HistoryInv, ChainInv
<1> QED
  BY <1>4, <1>5 DEF HistoryInv, ClosedInv

\* Whatever page arrives, however old, and whatever placement is reconciled, the
\* device's revision of an order only grows and an order that is over stays over.
THEOREM LocalAdvances == Spec => LocalOnlyAdvances
<1> DEFINE A == \A o \in Order : local'[o] # local[o] =>
                  /\ local[o].status \notin {"CANCELLED", "WASTED", "RETURNED"}
                  /\ local[o].status # "NONE" => local'[o].rev > local[o].rev
<1>1. IInv /\ HistoryInv /\ [Next]_vars => A
  <2> SUFFICES ASSUME IInv, HistoryInv, [Next]_vars PROVE A
    OBVIOUS
  <2>1. UNCHANGED local => A
    OBVIOUS
  <2>2. CASE Worker
    <3>1. PICK o \in Order, k \in Kind, r \in Nat :
            /\ Commit(o, k, r)
            /\ \/ k = "ORDER_PLACED" /\ r = 0 /\ local[o].status = "NONE"
               \/ /\ k # "ORDER_PLACED" /\ r = local[o].rev + 1
                  /\ local[o].status \in {"ACTIVE", "DONE"}
      BY <2>2, WorkerCommits
    <3>2. local'[o] = Entered(k, r) /\ \A q \in Order \ {o} : local'[q] = local[q]
      BY <3>1 DEF Commit, IInv, TypeOK
    <3>3. local[o].status \notin {"CANCELLED", "WASTED", "RETURNED"}
      BY <3>1
    <3>4. local[o].status # "NONE" => local'[o].rev > local[o].rev
      BY <3>1, <3>2, RowTypes DEF Entered
    <3> QED
      BY <3>2, <3>3, <3>4
  <2>3. CASE ApplyPage
    <3> SUFFICES ASSUME NEW o \in Order, local'[o] # local[o]
                 PROVE  /\ local[o].status \notin {"CANCELLED", "WASTED", "RETURNED"}
                        /\ local'[o].rev > local[o].rev
      OBVIOUS
    <3>1. local'[o] = Converged(o)
      BY <2>3 DEF ApplyPage
    <3>2. local[o].status # "NONE" /\ News(o) # {} /\ local'[o].rev > local[o].rev
      BY <3>1, ConvergedType DEF Converged
    <3>3. PICK n \in page.rows : n.order = o /\ n.rev > local[o].rev
      BY <3>2 DEF News
    <3>4. local[o].status = "ACTIVE"
      BY <3>2, <3>3, NewsIsTheCancellation
    <3> QED
      BY <3>2, <3>4
  <2>4. ASSUME NEW s \in Service, Sync(s) PROVE A
    <3>1. CASE Refuse(s)
      <4>1. local' \in {local, Reconciled(current[s])} /\ current[s] \in Event
        BY <3>1 DEF Refuse, IInv, InFlightInv, Rows
      <4> QED
        BY <4>1, ReconciledType, RowTypes
    <3>2. CASE ~Refuse(s)
      BY <2>1, <2>4, <3>2 DEF Sync, StartSync, Deliver, Receive, Accept, Retry, deviceVars
    <3> QED
      BY <3>1, <3>2
  <2>5. ASSUME NEW e \in Event, ReceiveLate(e) \/ Elapse(e) PROVE A
    BY <2>1, <2>5 DEF ReceiveLate, Elapse, deviceVars
  <2>6. CASE PullPage \/ Administer \/ Fault \/ UNCHANGED vars
    BY <2>1, <2>6 DEF PullPage, Administer, Fault, Crash, Unavailable, Timeout, vars, deviceVars
  <2> HIDE DEF A
  <2> QED
    BY <2>2, <2>3, <2>4, <2>5, <2>6 DEF Next
<1>2. IInv /\ HistoryInv /\ [Next]_vars => [A]_vars
  BY <1>1
<1> QED
  BY <1>2, Invariance, HistoryInvariance, PTL DEF Spec, LocalOnlyAdvances

-----------------------------------------------------------------------------
(* Why only a conflict quarantines a row. *)

\* The order of birth is that of the clock.
LEMMA BornKept ==
  ASSUME BornInv, UNCHANGED <<born, clock>>
  PROVE  BornInv'
BY DEF BornInv, Rows, Earlier

\* What is in conflict stays in conflict.
LEMMA ConflictKept ==
  ASSUME closed \subseteq closed', quarantined \subseteq quarantined'
  PROVE  \A o : Conflict(o) => Conflict(o)'
BY DEF Conflict

\* A service that goes on, gives up, or settles what it has dropped still sends
\* in turn.
LEMMA SendKept ==
  ASSUME SendInv, UNCHANGED born, Settled \subseteq Settled',
         \A s \in Service :
           \/ batch'[s] = batch[s] /\ current'[s] = current[s]
           \/ batch'[s] = {} /\ current'[s] = NoEvent
           \/ /\ batch'[s] \subseteq batch[s] /\ current'[s] = NoEvent
              /\ batch[s] \cup {current[s]} \subseteq batch'[s] \cup Settled'
  PROVE  SendInv'
<1> SUFFICES ASSUME NEW s \in Service
             PROVE  /\ \A e \in batch'[s] : Earlier(e)' \subseteq batch'[s] \cup {current'[s]} \cup Settled'
                    /\ current'[s] # NoEvent => Earlier(current[s])' \subseteq Settled'
  BY DEF SendInv
<1>1. \A e : Earlier(e)' = Earlier(e)
  BY DEF Earlier, Rows
<1>2. /\ \A e \in batch[s] : Earlier(e) \subseteq batch[s] \cup {current[s]} \cup Settled
      /\ current[s] # NoEvent => Earlier(current[s]) \subseteq Settled
  BY DEF SendInv
<1> HIDE DEF Settled
<1>3. CASE batch'[s] = batch[s] /\ current'[s] = current[s]
  BY <1>1, <1>2, <1>3 DEF Earlier, Rows
<1>4. CASE batch'[s] = {} /\ current'[s] = NoEvent
  BY <1>4
<1>5. CASE /\ batch'[s] \subseteq batch[s] /\ current'[s] = NoEvent
           /\ batch[s] \cup {current[s]} \subseteq batch'[s] \cup Settled'
  BY <1>1, <1>2, <1>5
<1> QED
  BY <1>3, <1>4, <1>5

\* An answer already heard stays one of a conflict.
LEMMA VerdictKept ==
  ASSUME VerdictInv, closed \subseteq closed', quarantined \subseteq quarantined',
         \A s \in Service : \/ verdict'[s] \in {"NONE", "RETRY"}
                            \/ verdict'[s] = verdict[s] /\ current'[s] = current[s]
  PROVE  VerdictInv'
<1> SUFFICES ASSUME NEW s \in Service
             PROVE  /\ verdict'[s] = "INSUFFICIENT" => current'[s].rev = 0
                    /\ verdict'[s] \in {"REJECTED", "STALE"} => Conflict(current[s].order)'
  BY DEF VerdictInv
<1>1. CASE verdict'[s] \in {"NONE", "RETRY"}
  BY <1>1
<1>2. CASE verdict'[s] = verdict[s] /\ current'[s] = current[s]
  BY <1>2 DEF VerdictInv, Conflict
<1> QED
  BY <1>1, <1>2

\* The rows listed by a service are the oldest due ones, so with a row all the
\* pending earlier ones of its order.
LEMMA ListedInTurn ==
  ASSUME IInv, BornInv, NEW e \in ListPending(BatchLimit)
  PROVE  Earlier(e) \subseteq ListPending(BatchLimit) \cup Settled
<1> SUFFICES ASSUME NEW f \in Earlier(e), f \notin Settled
             PROVE  f \in ListPending(BatchLimit)
  OBVIOUS
<1>1. e \in Due /\ Cardinality({g \in Due : born[g] < born[e]}) < BatchLimit
  BY DEF ListPending
<1>2. e \in Pending \ waiting /\ e \in Rows /\ \A g \in Pending \cap waiting : born[g] > born[e]
  BY <1>1 DEF Due, Pending
<1>3. f \in Rows /\ f \in Pending /\ born[f] < born[e]
  BY <1>2 DEF Earlier, Settled, Pending, BornInv
<1>4. \A g \in Rows : born[g] \in Nat
  BY DEF IInv, TypeOK, Rows
<1>5. Pending \subseteq Rows
  BY DEF Pending
<1>6. f \in Due
  <2>1. \A g \in Pending \cap waiting : born[g] > born[f]
    BY <1>2, <1>3, <1>4, <1>5
  <2>2. f \notin waiting
    BY <1>3, <1>4, <2>1
  <2> QED
    BY <1>3, <2>1, <2>2 DEF Due
<1> DEFINE older(x) == {g \in Due : born[g] < born[x]}
<1>7. older(f) \subseteq older(e)
  BY <1>2, <1>3, <1>4, <1>5 DEF Due
<1>8. IsFiniteSet(older(e))
  <2>1. older(e) \subseteq Rows /\ IsFiniteSet(Rows)
    BY <1>5 DEF Due, BornInv
  <2> QED
    BY <2>1, FS_Subset
<1>9. /\ Cardinality(older(f)) <= Cardinality(older(e))
      /\ Cardinality(older(f)) \in Nat /\ Cardinality(older(e)) \in Nat
  <2>1. IsFiniteSet(older(f)) /\ Cardinality(older(f)) <= Cardinality(older(e))
    BY <1>7, <1>8, FS_Subset
  <2> QED
    BY <1>8, <2>1, FS_CardinalityType
<1>10. Cardinality(older(f)) < BatchLimit
  BY <1>1, <1>9, OrderSyncAssumption
<1> QED
  BY <1>6, <1>10 DEF ListPending

LEMMA CommitDelivery ==
  ASSUME IInv, DeliveryInv,
         NEW o \in Order, NEW k \in Kind, NEW r \in Nat, Commit(o, k, r),
         \/ k = "ORDER_PLACED" /\ r = 0 /\ local[o].status = "NONE"
         \/ /\ k # "ORDER_PLACED" /\ r = local[o].rev + 1
            /\ local[o].status \in {"ACTIVE", "DONE"}
  PROVE  DeliveryInv'
<1> DEFINE e == [order |-> o, rev |-> r]
<1>1. /\ e \in Event /\ e \notin Rows /\ Rows' = Rows \cup {e}
      /\ born'[e] = clock + 1 /\ clock' = clock + 1
      /\ \A f \in Rows : born'[f] = born[f]
      /\ \A f \in Rows : f.order = o => f.rev < r
      /\ quarantined' = IF Earlier(e) \cap quarantined # {} THEN quarantined \cup {e}
                        ELSE quarantined
      /\ UNCHANGED <<ledgerVars, serviceVars, delivered>>
  BY CommitFacts
<1>2. UNCHANGED <<closed, batch, current, verdict, delivered>>
      /\ quarantined \subseteq quarantined' /\ Settled \subseteq Settled'
  BY <1>1 DEF ledgerVars, serviceVars, Settled
<1>3. \A f \in Rows : Earlier(f)' = Earlier(f)
  BY <1>1, RowTypes DEF Earlier
<1>4. Earlier(e)' = Earlier(e) /\ Earlier(e) \subseteq Rows
  BY <1>1 DEF Earlier
<1> HIDE DEF e
<1>5. BornInv'
  <2>1. IsFiniteSet(Rows')
    BY <1>1, FS_AddElement DEF DeliveryInv, BornInv
  <2>2. clock \in Nat /\ \A f \in Rows : born[f] \in Nat /\ born[f] <= clock
    BY DEF IInv, TypeOK, Rows, DeliveryInv, BornInv
  <2>3. \A f \in Rows' : born'[f] <= clock'
    BY <1>1, <2>2
  <2>4. \A f \in Rows' : \A g \in Earlier(f)' : born'[g] < born'[f]
    <3>1. \A g \in Earlier(e) : born'[g] < born'[e]
      BY <1>1, <1>4, <2>2
    <3>2. \A f \in Rows : \A g \in Earlier(f) : g \in Rows /\ born[g] < born[f]
      BY DEF DeliveryInv, BornInv, Earlier
    <3> QED
      BY <1>1, <1>3, <1>4, <3>1, <3>2
  <2> QED
    BY <2>1, <2>3, <2>4 DEF BornInv
<1>6. SendInv'
  <2>1. \A s \in Service : batch[s] \subseteq Rows /\ (current[s] # NoEvent => current[s] \in Rows)
    BY DEF IInv, InFlightInv
  <2> SUFFICES ASSUME NEW s \in Service
               PROVE  /\ \A f \in batch[s] : Earlier(f)' \subseteq batch[s] \cup {current[s]} \cup Settled'
                      /\ current[s] # NoEvent => Earlier(current[s])' \subseteq Settled'
    BY <1>2 DEF SendInv
  <2> QED
    BY <1>2, <1>3, <2>1 DEF DeliveryInv, SendInv
<1>7. VerdictInv'
  BY <1>2, VerdictKept DEF DeliveryInv
<1>8. OnlyConflictsQuarantine'
  <2> SUFFICES ASSUME NEW f \in quarantined' PROVE Conflict(f.order)'
    BY DEF OnlyConflictsQuarantine, Conflict
  <2>1. \A g \in quarantined : Conflict(g.order)'
    BY <1>2, ConflictKept DEF DeliveryInv, OnlyConflictsQuarantine, Conflict
  <2>2. CASE f \in quarantined
    BY <2>1, <2>2
  <2>3. CASE f \notin quarantined
    <3>1. f = e /\ Earlier(e) \cap quarantined # {}
      BY <1>1, <2>3
    <3>2. PICK g \in quarantined : g.order = e.order
      BY <3>1 DEF Earlier
    <3> QED
      BY <2>1, <3>1, <3>2
  <2> QED
    BY <2>2, <2>3
<1> QED
  BY <1>5, <1>6, <1>7, <1>8 DEF DeliveryInv

LEMMA StartSyncDelivery ==
  ASSUME IInv, DeliveryInv, NEW s \in Service, StartSync(s)
  PROVE  DeliveryInv'
<1>1. /\ UNCHANGED <<born, clock, delivered, quarantined, closed, current, verdict>>
      /\ batch' = [batch EXCEPT ![s] = ListPending(BatchLimit)]
  BY DEF StartSync, outboxVars, ledgerVars
<1>2. BornInv' /\ VerdictInv' /\ OnlyConflictsQuarantine'
  BY <1>1, BornKept, VerdictKept DEF DeliveryInv, OnlyConflictsQuarantine
<1>3. \A e : Earlier(e)' = Earlier(e)
  BY <1>1 DEF Earlier, Rows
<1>4. Settled' = Settled
  BY <1>1 DEF Settled
<1>5. batch'[s] = ListPending(BatchLimit) /\ \A t \in Service \ {s} : batch'[t] = batch[t]
  BY <1>1 DEF IInv, TypeOK
<1>6. \A e \in batch'[s] : Earlier(e) \subseteq batch'[s] \cup Settled
  BY <1>5, ListedInTurn DEF DeliveryInv
<1>7. SendInv'
  <2> SUFFICES ASSUME NEW t \in Service
               PROVE  /\ \A e \in batch'[t] : Earlier(e) \subseteq batch'[t] \cup {current[t]} \cup Settled
                      /\ current[t] # NoEvent => Earlier(current[t]) \subseteq Settled
    BY <1>1, <1>3, <1>4 DEF SendInv
  <2> HIDE DEF Settled
  <2> QED
    BY <1>5, <1>6 DEF DeliveryInv, SendInv
<1> QED
  BY <1>2, <1>7 DEF DeliveryInv

LEMMA DeliverDelivery ==
  ASSUME IInv, DeliveryInv, NEW s \in Service, Deliver(s)
  PROVE  DeliveryInv'
<1>1. PICK e \in batch[s] : /\ \A f \in batch[s] : born[e] <= born[f]
                            /\ current' = [current EXCEPT ![s] = e]
                            /\ batch' = [batch EXCEPT ![s] = @ \ {e}]
  BY DEF Deliver
<1>2. /\ UNCHANGED <<born, clock, delivered, quarantined, closed, verdict>>
      /\ current[s] = NoEvent
  BY DEF Deliver, outboxVars, ledgerVars
<1>3. verdict[s] = "NONE"
  BY <1>2 DEF IInv, InFlightInv
<1>4. /\ current'[s] = e /\ batch'[s] = batch[s] \ {e}
      /\ \A t \in Service \ {s} : current'[t] = current[t] /\ batch'[t] = batch[t]
  BY <1>1 DEF IInv, TypeOK
<1>5. BornInv' /\ OnlyConflictsQuarantine'
  BY <1>2, BornKept DEF DeliveryInv, OnlyConflictsQuarantine
<1>6. VerdictInv'
  BY <1>2, <1>3, <1>4, VerdictKept DEF DeliveryInv
<1>7. \A f : Earlier(f)' = Earlier(f)
  BY <1>2 DEF Earlier, Rows
<1>8. Settled' = Settled
  BY <1>2 DEF Settled
<1>9. Earlier(e) \subseteq Settled
  <2> SUFFICES ASSUME NEW f \in Earlier(e), f \notin Settled PROVE FALSE
    OBVIOUS
  <2>1. e \in Rows /\ f \in Rows /\ f \in Event /\ f # NoEvent
    BY Constants DEF IInv, InFlightInv, Earlier, Rows
  <2>2. f \in batch[s]
    BY <1>2, <2>1 DEF DeliveryInv, SendInv
  <2>3. born[f] < born[e] /\ born[f] \in Nat /\ born[e] \in Nat
    BY <2>1 DEF DeliveryInv, BornInv, IInv, TypeOK, Rows
  <2> QED
    BY <1>1, <2>2, <2>3
<1>10. SendInv'
  <2> SUFFICES ASSUME NEW t \in Service
               PROVE  /\ \A f \in batch'[t] : Earlier(f) \subseteq batch'[t] \cup {current'[t]} \cup Settled
                      /\ current'[t] # NoEvent => Earlier(current'[t]) \subseteq Settled
    BY <1>7, <1>8 DEF SendInv
  <2>1. /\ \A f \in batch[t] : Earlier(f) \subseteq batch[t] \cup {current[t]} \cup Settled
        /\ current[t] # NoEvent => Earlier(current[t]) \subseteq Settled
    BY DEF DeliveryInv, SendInv
  <2> HIDE DEF Settled
  <2>2. CASE t = s
    <3>1. \A f \in batch[s] : Earlier(f) \subseteq batch[s] \cup Settled
      <4>1. NoEvent \notin Rows /\ \A f : Earlier(f) \subseteq Rows
        BY Constants DEF Rows, Earlier
      <4> QED
        BY <1>2, <2>1, <2>2, <4>1
    <3> QED
      BY <1>4, <1>9, <2>2, <3>1
  <2>3. CASE t # s
    BY <1>4, <2>1, <2>3
  <2> QED
    BY <2>2, <2>3
<1> QED
  BY <1>5, <1>6, <1>10 DEF DeliveryInv

\* The server refuses for good only an event of an order in conflict: an event
\* sent in turn after a history the device and the server share is the next one.
LEMMA RefusalIsConflict ==
  ASSUME IInv, StockInv, HistoryInv, OnlyConflictsQuarantine,
         NEW e \in Rows, Earlier(e) \subseteq Settled,
         Answer(e, kind[e]) \in {"REJECTED", "STALE"}
  PROVE  Conflict(e.order)
<1> DEFINE o == e.order
           p == [order |-> o, rev |-> e.rev - 1]
<1> SUFFICES ASSUME ~Conflict(o) PROVE FALSE
  OBVIOUS
<1>1. /\ e \notin receipts /\ kind[e] # "ORDER_PLACED"
      /\ ~(Precondition(e, kind[e]) /\ Settles(e, kind[e]) /\ Current(e, kind[e]))
  <2>1. e \notin receipts
    BY DEF Answer
  <2>2. kind[e] # "ORDER_PLACED"
    BY <2>1 DEF Answer
  <2> QED
    BY <2>1, <2>2 DEF Answer
<1>2. /\ o \in Order /\ kind[e] \in Kind /\ e.rev \in Revision /\ e.rev \in Nat /\ e.rev > 0
      /\ e = [order |-> o, rev |-> e.rev]
  <2>1. /\ o \in Order /\ kind[e] \in Kind /\ e.rev \in Revision /\ e.rev \in Nat
        /\ e = [order |-> o, rev |-> e.rev]
    BY RowTypes
  <2>2. e.rev # 0
    BY <1>1 DEF IInv, LocalInv
  <2> QED
    BY <2>1, <2>2
<1>3. p \in Rows /\ ToStatus[kind[p]] = FromStatus[kind[e]]
  BY <1>2 DEF HistoryInv, ChainInv
<1>4. p \in Earlier(e)
  BY <1>2, <1>3 DEF Earlier
<1>5. p \in receipts
  <2>1. \A f \in quarantined : f.order # o
    BY DEF OnlyConflictsQuarantine, Conflict
  <2>2. p \in delivered
    BY <1>4, <2>1 DEF Settled
  <2> QED
    BY <2>2 DEF IInv, CanonInv
<1>6. e.rev - 1 \in Revision
  BY <1>2, Constants DEF Revision
<1>7. canon[o].status # "NONE"
  BY <1>2, <1>5, <1>6 DEF IInv, CanonInv
<1>8. o \notin closed
  BY DEF Conflict
<1>9. Top(o) = e.rev - 1 /\ Top(o) = canon[o].rev
  <2>1. e.rev - 1 <= Top(o) /\ ~(e.rev <= Top(o))
    <3>1. \A r \in Revision : [order |-> o, rev |-> r] \in receipts <=> r <= Top(o)
      BY <1>2, <1>7 DEF IInv, CanonInv
    <3>2. e.rev - 1 <= Top(o)
      BY <1>5, <1>6, <3>1
    <3>3. ~(e.rev <= Top(o))
      BY <1>1, <1>2, <3>1
    <3> QED
      BY <3>2, <3>3
  <2>2. Top(o) \in Nat
    BY <1>2, <1>7, ServerBehind
  <2>3. Top(o) = canon[o].rev
    BY <1>8 DEF Top
  <2> QED
    BY <1>2, <2>1, <2>2, <2>3
<1>10. canon[o].status = FromStatus[kind[e]] /\ canon[o].rev = e.rev - 1
  <2>1. canon[o].status = ToStatus[kind[[order |-> o, rev |-> Top(o)]]]
    BY <1>2, <1>7, <1>8 DEF IInv, CanonInv
  <2> QED
    BY <1>3, <1>9, <2>1
<1>11. Precondition(e, kind[e])
  BY <1>2, <1>7, <1>10 DEF Precondition
<1>12. Current(e, kind[e])
  <2>1. canon[o] \in Snapshot
    BY <1>2 DEF IInv, TypeOK
  <2>2. canon[o] = [status |-> canon[o].status, rev |-> canon[o].rev]
    BY <2>1 DEF Snapshot
  <2> QED
    BY <1>10, <2>2 DEF Current
<1>13. Settles(e, kind[e])
  <2>1. o \in held <=> canon[o].status = "ACTIVE"
    BY <1>2, <1>8 DEF StockInv, StockIsConserved
  <2>2. FromStatus[kind[e]] = IF kind[e] \in {"ORDER_MARKED_DONE", "ORDER_CANCELLED", "ORDER_WASTED"}
                              THEN "ACTIVE" ELSE "DONE"
    BY <1>1, <1>2 DEF FromStatus, Kind
  <2> QED
    BY <1>10, <2>1, <2>2 DEF Settles
<1> QED
  BY <1>1, <1>11, <1>12, <1>13

\* A step of the server, or of the wire, keeps what the services are at.
LEMMA DeliveryKept ==
  ASSUME DeliveryInv, UNCHANGED <<born, clock, delivered, quarantined>>,
         closed \subseteq closed',
         \A s \in Service :
           \/ batch'[s] = batch[s] /\ current'[s] = current[s]
           \/ batch'[s] = {} /\ current'[s] = NoEvent,
         \A s \in Service : \/ verdict'[s] \in {"NONE", "RETRY"}
                            \/ verdict'[s] = verdict[s] /\ current'[s] = current[s]
  PROVE  DeliveryInv'
<1>1. Settled' = Settled
  BY DEF Settled
<1>2. BornInv' /\ SendInv'
  BY <1>1, BornKept, SendKept DEF DeliveryInv
<1>3. VerdictInv'
  BY VerdictKept DEF DeliveryInv
<1>4. OnlyConflictsQuarantine'
  BY DEF DeliveryInv, OnlyConflictsQuarantine
<1> QED
  BY <1>2, <1>3, <1>4 DEF DeliveryInv

LEMMA ReceiveDelivery ==
  ASSUME IInv, StockInv, HistoryInv, DeliveryInv, NEW s \in Service, Receive(s)
  PROVE  DeliveryInv'
<1> DEFINE e == current[s]
<1>1. /\ e \in Rows /\ e # NoEvent /\ Ingest(e, kind[e])
      /\ verdict' = [verdict EXCEPT ![s] = Answer(e, kind[e])]
      /\ UNCHANGED <<born, clock, delivered, quarantined, batch, current>>
  BY DEF Receive, InFlight, IInv, InFlightInv, outboxVars
<1>2. closed' = closed
  BY <1>1 DEF Ingest, ledgerVars
<1>3. BornInv' /\ OnlyConflictsQuarantine'
  BY <1>1, <1>2, BornKept DEF DeliveryInv, OnlyConflictsQuarantine
<1>4. SendInv'
  <2>1. Settled' = Settled
    BY <1>1 DEF Settled
  <2> QED
    BY <1>1, <2>1, SendKept DEF DeliveryInv
<1>5. Answer(e, kind[e]) = "INSUFFICIENT" => e.rev = 0
  BY <1>1 DEF Answer, IInv, LocalInv
<1>6. Answer(e, kind[e]) \in {"REJECTED", "STALE"} => Conflict(e.order)
  <2>1. Earlier(e) \subseteq Settled
    BY <1>1 DEF DeliveryInv, SendInv
  <2> QED
    BY <1>1, <2>1, RefusalIsConflict DEF DeliveryInv
<1>7. VerdictInv'
  <2> SUFFICES ASSUME NEW t \in Service
               PROVE  /\ verdict'[t] = "INSUFFICIENT" => current[t].rev = 0
                      /\ verdict'[t] \in {"REJECTED", "STALE"} => Conflict(current[t].order)
    BY <1>1, <1>2 DEF VerdictInv, Conflict
  <2>1. CASE t = s
    BY <1>1, <1>5, <1>6, <2>1 DEF IInv, TypeOK
  <2>2. CASE t # s
    BY <1>1, <2>2 DEF DeliveryInv, VerdictInv, IInv, TypeOK
  <2> QED
    BY <2>1, <2>2
<1> QED
  BY <1>3, <1>4, <1>7 DEF DeliveryInv

LEMMA AcceptDelivery ==
  ASSUME IInv, DeliveryInv, NEW s \in Service, Accept(s)
  PROVE  DeliveryInv'
<1>1. /\ delivered' = delivered \cup {current[s]}
      /\ current' = [current EXCEPT ![s] = NoEvent]
      /\ verdict' = [verdict EXCEPT ![s] = "NONE"]
      /\ UNCHANGED <<born, clock, quarantined, closed, batch>>
  BY DEF Accept, MarkDelivered, Settle, ledgerVars
<1>2. \A t \in Service : IF t = s THEN current'[t] = NoEvent /\ verdict'[t] = "NONE"
                         ELSE current'[t] = current[t] /\ verdict'[t] = verdict[t]
  BY <1>1 DEF IInv, TypeOK
<1>3. Settled \subseteq Settled' /\ current[s] \in Settled'
  BY <1>1 DEF Settled
<1>4. SendInv'
  BY <1>1, <1>2, <1>3, SendKept DEF DeliveryInv
<1>5. VerdictInv'
  BY <1>1, <1>2, VerdictKept DEF DeliveryInv
<1>6. BornInv' /\ OnlyConflictsQuarantine'
  BY <1>1, BornKept DEF DeliveryInv, OnlyConflictsQuarantine
<1> QED
  BY <1>4, <1>5, <1>6 DEF DeliveryInv

LEMMA RefuseDelivery ==
  ASSUME IInv, DeliveryInv, NEW s \in Service, Refuse(s)
  PROVE  DeliveryInv'
<1> PICK e : e = current[s]
  OBVIOUS
<1>1. /\ quarantined' = quarantined \cup {e} \cup Dependents(e)
      /\ batch' = [batch EXCEPT ![s] = {f \in @ : ~(f.order = e.order /\ f.rev > e.rev)}]
      /\ current' = [current EXCEPT ![s] = NoEvent]
      /\ verdict' = [verdict EXCEPT ![s] = "NONE"]
      /\ verdict[s] \in {"REJECTED", "STALE", "INSUFFICIENT"}
      /\ UNCHANGED <<born, clock, delivered, closed>>
  BY DEF Refuse, Quarantine, Settle, ledgerVars
<1>2. e \in Rows /\ e = [order |-> e.order, rev |-> e.rev]
  <2>1. e \in Rows
    BY <1>1 DEF IInv, InFlightInv
  <2> QED
    BY <2>1, RowTypes
<1>3. \A t \in Service :
        IF t = s THEN /\ current'[t] = NoEvent /\ verdict'[t] = "NONE"
                      /\ batch'[t] = {f \in batch[t] : ~(f.order = e.order /\ f.rev > e.rev)}
        ELSE current'[t] = current[t] /\ verdict'[t] = verdict[t] /\ batch'[t] = batch[t]
  BY <1>1 DEF IInv, TypeOK
<1>4. quarantined \subseteq quarantined' /\ Settled \subseteq Settled' /\ e \in Settled'
  BY <1>1 DEF Settled
<1>5. \A f \in batch[s] : f \in batch'[s] \/ f \in Settled'
  <2> SUFFICES ASSUME NEW f \in batch[s], f \notin batch'[s], f \notin Settled'
               PROVE  FALSE
    OBVIOUS
  <2>1. f \in Rows /\ f \in Later(e) /\ f \in Pending
    BY <1>3, <1>4 DEF IInv, InFlightInv, Later, Pending, Settled
  <2> QED
    BY <1>1, <2>1 DEF Dependents, Settled
<1>6. SendInv'
  BY <1>1, <1>3, <1>4, <1>5, SendKept DEF DeliveryInv
<1>7. VerdictInv'
  BY <1>1, <1>3, <1>4, VerdictKept DEF DeliveryInv
<1>8. Conflict(e.order)'
  <2>1. CASE verdict[s] = "INSUFFICIENT"
    <3>1. e.rev = 0
      BY <2>1 DEF DeliveryInv, VerdictInv
    <3> QED
      BY <1>1, <1>2, <3>1 DEF Conflict
  <2>2. CASE verdict[s] # "INSUFFICIENT"
    <3>1. Conflict(e.order)
      BY <1>1, <2>2 DEF DeliveryInv, VerdictInv
    <3> QED
      BY <1>1, <1>4, <3>1 DEF Conflict
  <2> QED
    BY <2>1, <2>2
<1>9. OnlyConflictsQuarantine'
  <2> SUFFICES ASSUME NEW f \in quarantined' PROVE Conflict(f.order)'
    BY DEF OnlyConflictsQuarantine, Conflict
  <2>1. CASE f \in quarantined
    BY <1>1, <1>4, <2>1 DEF DeliveryInv, OnlyConflictsQuarantine, Conflict
  <2>2. CASE f \notin quarantined
    <3>1. f.order = e.order
      BY <1>1, <2>2 DEF Dependents, Later
    <3> QED
      BY <1>8, <3>1 DEF Conflict
  <2> QED
    BY <2>1, <2>2
<1>10. BornInv'
  BY <1>1, BornKept DEF DeliveryInv
<1> QED
  BY <1>6, <1>7, <1>9, <1>10 DEF DeliveryInv

LEMMA DeliveryStep == IInv /\ StockInv /\ HistoryInv /\ DeliveryInv /\ [Next]_vars => DeliveryInv'
<1> SUFFICES ASSUME IInv, StockInv, HistoryInv, DeliveryInv, [Next]_vars PROVE DeliveryInv'
  OBVIOUS
<1>1. CASE Worker
  BY <1>1, WorkerCommits, CommitDelivery
<1>2. ASSUME NEW s \in Service, Sync(s) PROVE DeliveryInv'
  <2>1. CASE Retry(s)
    <3>1. /\ UNCHANGED <<born, clock, delivered, quarantined, closed>>
          /\ batch' = [batch EXCEPT ![s] = {}]
          /\ current' = [current EXCEPT ![s] = NoEvent]
          /\ verdict' = [verdict EXCEPT ![s] = "NONE"]
      BY <2>1 DEF Retry, RecordFailure, Settle, ledgerVars
    <3>2. \A t \in Service :
            IF t = s THEN batch'[t] = {} /\ current'[t] = NoEvent /\ verdict'[t] = "NONE"
            ELSE batch'[t] = batch[t] /\ current'[t] = current[t] /\ verdict'[t] = verdict[t]
      BY <3>1 DEF IInv, TypeOK
    <3> QED
      BY <3>1, <3>2, DeliveryKept
  <2> QED
    BY <1>2, <2>1, StartSyncDelivery, DeliverDelivery, ReceiveDelivery, AcceptDelivery,
       RefuseDelivery DEF Sync
<1>3. ASSUME NEW e \in Event, ReceiveLate(e) \/ Elapse(e) PROVE DeliveryInv'
  <2>1. UNCHANGED <<born, clock, delivered, quarantined, closed, batch, current, verdict>>
    BY <1>3 DEF ReceiveLate, Elapse, BackoffElapses, Ingest, outboxVars, ledgerVars, serviceVars
  <2> QED
    BY <2>1, DeliveryKept
<1>4. CASE PullPage \/ ApplyPage \/ Administer \/ UNCHANGED vars
  <2>1. /\ UNCHANGED <<born, clock, delivered, quarantined, batch, current, verdict>>
        /\ closed \subseteq closed'
    BY <1>4 DEF PullPage, ApplyPage, Administer, AdminCancel, ReceiveStock, DrawStock, vars,
                outboxVars, ledgerVars, serviceVars
  <2> QED
    BY <2>1, DeliveryKept
<1>5. CASE Crash
  <2>1. /\ UNCHANGED <<born, clock, delivered, quarantined, closed>>
        /\ batch' = [t \in Service |-> {}] /\ current' = [t \in Service |-> NoEvent]
        /\ verdict' = [t \in Service |-> "NONE"]
    BY <1>5 DEF Crash, outboxVars, ledgerVars
  <2> QED
    BY <2>1, DeliveryKept
<1>6. ASSUME NEW s \in Service, Unavailable(s) \/ Timeout(s) PROVE DeliveryInv'
  <2>1. /\ UNCHANGED <<born, clock, delivered, quarantined, closed, batch, current>>
        /\ verdict' = [verdict EXCEPT ![s] = "RETRY"]
    BY <1>6 DEF Unavailable, Timeout, outboxVars, ledgerVars
  <2>2. \A t \in Service : verdict'[t] = "RETRY" \/ verdict'[t] = verdict[t]
    BY <2>1 DEF IInv, TypeOK
  <2> QED
    BY <2>1, <2>2, DeliveryKept
<1> QED
  BY <1>1, <1>2, <1>3, <1>4, <1>5, <1>6 DEF Next, Fault

\* In every reachable state an order's rows go out in turn.
LEMMA DeliveryInvariance == Spec => []DeliveryInv
<1>1. Init => DeliveryInv
  <2> SUFFICES ASSUME Init PROVE DeliveryInv
    OBVIOUS
  <2>1. Rows = {}
    BY DEF Init, OutboxInit, Rows
  <2> QED
    BY <2>1, FS_EmptySet DEF Init, OutboxInit, DeliveryInv, BornInv, SendInv, VerdictInv,
                             OnlyConflictsQuarantine
<1>2. IInv /\ StockInv /\ HistoryInv /\ DeliveryInv /\ [Next]_vars => DeliveryInv'
  BY DeliveryStep
<1> QED
  BY <1>1, <1>2, Invariance, StockInvariance, HistoryInvariance, PTL DEF Spec

\* Whatever is lost, late, repeated or cut short by a crash, and however many
\* services send the same rows, only a placement without stock and an
\* administrator's cancellation put a row into quarantine.
THEOREM ConflictsOnly == Spec => []OnlyConflictsQuarantine
<1>1. DeliveryInv => OnlyConflictsQuarantine
  BY DEF DeliveryInv
<1> QED
  BY <1>1, DeliveryInvariance, PTL

-----------------------------------------------------------------------------
(* Why a device with one OutboxSyncService agrees with the server. *)

\* What a page brings an order is the administrator's cancellation, as the
\* server has it.
LEMMA PageTakesOver ==
  ASSUME IInv, HistoryInv, NEW o \in Order, local[o].status # "NONE", News(o) # {}
  PROVE  /\ o \in closed /\ Converged(o) = canon[o]
         /\ \A n \in News(o) : n.rev = canon[o].rev
<1>1. \A n \in News(o) : n \in page.rows /\ n.order = o /\ n.rev > local[o].rev
  BY DEF News
<1>2. \A n \in News(o) : o \in closed /\ n.rev = canon[o].rev
  BY <1>1, NewsIsTheCancellation
<1> DEFINE newest == CHOOSE r \in News(o) : \A q \in News(o) : q.rev <= r.rev
<1>3. newest \in News(o)
  <2>1. canon[o].rev <= canon[o].rev
    BY RowTypes
  <2>2. \E r \in News(o) : \A q \in News(o) : q.rev <= r.rev
    BY <1>2, <2>1
  <2> QED
    BY <2>2
<1>4. Converged(o) = [status |-> newest.status, rev |-> newest.rev]
  BY DEF Converged
<1> HIDE DEF newest
<1>5. newest.status = "CANCELLED"
  <2>1. newest.rev > local[o].rev /\ newest \in page.rows /\ newest.order = o
    BY <1>1, <1>3
  <2>2. newest.rev \in Nat /\ local[o].rev \in Nat
    BY <2>1, FeedTypes, RowTypes DEF IInv
  <2> QED
    BY <2>1, <2>2 DEF IInv, FeedInv
<1>6. o \in closed /\ newest.rev = canon[o].rev
  BY <1>2, <1>3
<1>7. canon[o] = [status |-> "CANCELLED", rev |-> canon[o].rev]
  <2>1. canon[o] \in Snapshot
    BY DEF IInv, TypeOK
  <2>2. canon[o].status = "CANCELLED"
    BY <1>6 DEF IInv, CanonInv
  <2> QED
    BY <2>1, <2>2 DEF Snapshot
<1> QED
  BY <1>2, <1>4, <1>5, <1>6, <1>7

\* An order stays accounted for unless it moves, and then it needs a reason.
LEMMA SyncedKept ==
  ASSUME SyncedInv, Rows \subseteq Rows', quarantined \subseteq quarantined',
         \A o \in closed : o \in closed' /\ canon'[o] = canon[o],
         \A o \in Order : \/ local'[o] = local[o]
                          \/ [order |-> o, rev |-> local'[o].rev] \in Rows'
                          \/ o \in closed' /\ local'[o] = canon'[o]
                          \/ \E e \in quarantined' : e.order = o
  PROVE  SyncedInv'
<1> SUFFICES ASSUME NEW o \in Order, local'[o].status # "NONE"
             PROVE  \/ [order |-> o, rev |-> local'[o].rev] \in Rows'
                    \/ o \in closed' /\ local'[o] = canon'[o]
                    \/ \E e \in quarantined' : e.order = o
  BY DEF SyncedInv
<1>1. CASE local'[o] = local[o]
  <2>1. \/ [order |-> o, rev |-> local[o].rev] \in Rows
        \/ o \in closed /\ local[o] = canon[o]
        \/ \E e \in quarantined : e.order = o
    BY <1>1 DEF SyncedInv
  <2> QED
    BY <1>1, <2>1
<1>2. CASE local'[o] # local[o]
  BY <1>2
<1> QED
  BY <1>1, <1>2

\* The feed grows at its end and the device's orders only move forward.
LEMMA ConsumedKept ==
  ASSUME IInv, ConsumedInv, cursor' = cursor, page' \in {page, NoPage},
         \A i \in 1 .. Len(feed) : feed'[i] = feed[i],
         \A o \in Order : local'[o].rev \in Nat /\ local[o].rev <= local'[o].rev
  PROVE  ConsumedInv'
<1>1. cursor \in Nat /\ Len(feed) \in Nat /\ page.next \in Nat
      /\ cursor <= Len(feed) /\ page.next <= Len(feed)
  BY DEF IInv, TypeOK, FeedInv
<1>2. \A i \in 1 .. cursor : feed'[i].rev <= local'[feed'[i].order].rev
  <2> SUFFICES ASSUME NEW i \in 1 .. cursor
               PROVE  feed'[i].rev <= local'[feed'[i].order].rev
    OBVIOUS
  <2>1. i \in 1 .. Len(feed) /\ feed'[i] = feed[i]
    BY <1>1
  <2>2. feed[i].order \in Order /\ feed[i].rev \in Nat
    BY <2>1, FeedTypes, Constants DEF IInv
  <2>3. feed[i].rev <= local[feed[i].order].rev
    BY DEF ConsumedInv
  <2>4. /\ local[feed[i].order].rev \in Nat /\ local'[feed[i].order].rev \in Nat
        /\ local[feed[i].order].rev <= local'[feed[i].order].rev
    BY <2>2, RowTypes
  <2> QED
    BY <2>1, <2>2, <2>3, <2>4
<1>3. CASE page' = page
  <2>1. \A i \in (cursor + 1) .. page.next : i \in 1 .. Len(feed) /\ feed'[i] = feed[i]
    BY <1>1
  <2> QED
    BY <1>2, <1>3, <2>1 DEF ConsumedInv
<1>4. CASE page' = NoPage
  <2>1. (cursor + 1) .. 0 = {}
    BY <1>1
  <2> QED
    BY <1>2, <1>4, <2>1 DEF ConsumedInv, NoPage
<1> QED
  BY <1>3, <1>4

\* The services hold what they held, or nothing.
LEMMA ExclusiveKept ==
  ASSUME IInv, ExclusiveInv, UNCHANGED <<born, delivered, quarantined>>,
         \A s \in Service :
           \/ batch'[s] = batch[s] /\ current'[s] = current[s]
           \/ batch'[s] = {} /\ current'[s] = NoEvent
  PROVE  ExclusiveInv'
<1>1. Pending' = Pending
  BY DEF Pending, Rows
<1> SUFFICES ASSUME SingleService
             PROVE  /\ delivered' \cap quarantined' = {}
                    /\ \A s \in Service :
                         /\ batch'[s] \subseteq Pending
                         /\ current'[s] # NoEvent => current'[s] \in Pending \ batch'[s]
  BY <1>1 DEF ExclusiveInv, SingleService
<1> QED
  BY DEF ExclusiveInv

LEMMA CommitAgreement ==
  ASSUME IInv, AgreementInv,
         NEW o \in Order, NEW k \in Kind, NEW r \in Nat, Commit(o, k, r),
         \/ k = "ORDER_PLACED" /\ r = 0 /\ local[o].status = "NONE"
         \/ /\ k # "ORDER_PLACED" /\ r = local[o].rev + 1
            /\ local[o].status \in {"ACTIVE", "DONE"}
  PROVE  AgreementInv'
<1> DEFINE e == [order |-> o, rev |-> r]
<1>1. /\ e \in Event /\ e \notin Rows /\ Rows' = Rows \cup {e}
      /\ local'[o] = Entered(k, r) /\ \A q \in Order \ {o} : local'[q] = local[q]
      /\ quarantined' = IF Earlier(e) \cap quarantined # {} THEN quarantined \cup {e}
                        ELSE quarantined
      /\ UNCHANGED <<ledgerVars, cursor, serviceVars, page, delivered>>
  BY CommitFacts
<1>2. /\ UNCHANGED <<closed, canon, feed, batch, current, delivered, cursor, page>>
      /\ quarantined \subseteq quarantined' /\ quarantined' \subseteq quarantined \cup {e}
  BY <1>1 DEF ledgerVars, serviceVars
<1>3. SyncedInv'
  <2>1. [order |-> o, rev |-> local'[o].rev] \in Rows'
    BY <1>1 DEF Entered
  <2>2. \A q \in Order : local'[q] = local[q] \/ [order |-> q, rev |-> local'[q].rev] \in Rows'
    BY <1>1, <2>1
  <2> QED
    BY <1>1, <1>2, <2>2, SyncedKept DEF AgreementInv
<1>4. ConsumedInv'
  <2>1. \A q \in Order : local'[q].rev \in Nat /\ local[q].rev <= local'[q].rev
    <3>1. \A q \in Order : local[q].rev <= local'[q].rev
      BY CommitFacts
    <3>2. \A q \in Order : local'[q].rev \in Nat
      BY <1>1, RowTypes DEF Entered
    <3> QED
      BY <3>1, <3>2
  <2> QED
    BY <1>2, <2>1, ConsumedKept DEF AgreementInv
<1> HIDE DEF e
<1>5. ExclusiveInv'
  <2> SUFFICES ASSUME SingleService
               PROVE  /\ delivered \cap quarantined' = {}
                      /\ \A s \in Service :
                           /\ batch[s] \subseteq Pending'
                           /\ current[s] # NoEvent => current[s] \in Pending' \ batch[s]
    BY <1>2 DEF ExclusiveInv, SingleService
  <2>1. e \notin delivered
    BY <1>1 DEF IInv, CanonInv
  <2>2. Pending \subseteq Pending'
    BY <1>1, <1>2 DEF Pending
  <2> QED
    BY <1>2, <2>1, <2>2 DEF AgreementInv, ExclusiveInv
<1> QED
  BY <1>3, <1>4, <1>5 DEF AgreementInv

\* The server's side of a step: its orders move, unless they are closed, and
\* the feed grows.
LEMMA ServerAgreement ==
  ASSUME IInv, AgreementInv, UNCHANGED <<outboxVars, local, cursor, page, batch, current>>,
         \A i \in 1 .. Len(feed) : feed'[i] = feed[i],
         \A o \in closed : o \in closed' /\ canon'[o] = canon[o]
  PROVE  AgreementInv'
<1>1. UNCHANGED <<born, delivered, quarantined>> /\ Rows' = Rows
  BY DEF outboxVars, Rows
<1>2. SyncedInv'
  BY <1>1, SyncedKept DEF AgreementInv
<1>3. ConsumedInv'
  <2>1. \A o \in Order : local[o].rev \in Nat /\ local[o].rev <= local[o].rev
    BY RowTypes
  <2> QED
    BY <2>1, ConsumedKept DEF AgreementInv
<1>4. ExclusiveInv'
  BY <1>1, ExclusiveKept DEF AgreementInv
<1> QED
  BY <1>2, <1>3, <1>4 DEF AgreementInv

LEMMA IngestAgreement ==
  ASSUME IInv, AgreementInv, NEW e \in Rows, Ingest(e, kind[e]),
         UNCHANGED <<outboxVars, local, cursor, page, batch, current>>
  PROVE  AgreementInv'
<1>1. CASE UNCHANGED ledgerVars
  BY <1>1, ServerAgreement DEF ledgerVars
<1>2. CASE ~UNCHANGED ledgerVars
  <2>1. /\ canon' = [canon EXCEPT ![e.order] = Entered(kind[e], e.rev)]
        /\ feed' = Append(feed, e) /\ e.order \notin closed /\ closed' = closed
    BY <1>2, IngestEffect
  <2>2. \A i \in 1 .. Len(feed) : feed'[i] = feed[i]
    BY <2>1 DEF IInv, TypeOK
  <2>3. \A o \in closed : o \in closed' /\ canon'[o] = canon[o]
    BY <2>1 DEF IInv, TypeOK
  <2> QED
    BY <2>2, <2>3, ServerAgreement
<1> QED
  BY <1>1, <1>2

LEMMA AdministerAgreement ==
  ASSUME IInv, AgreementInv, Administer
  PROVE  AgreementInv'
<1>1. UNCHANGED <<outboxVars, local, cursor, page, batch, current>>
  BY DEF Administer, deviceVars, serviceVars
<1>2. CASE ReceiveStock \/ DrawStock
  BY <1>1, <1>2, ServerAgreement DEF ReceiveStock, DrawStock
<1>3. ASSUME NEW o \in Order, AdminCancel(o) PROVE AgreementInv'
  <2>1. /\ canon' = [canon EXCEPT ![o] = Entered("ORDER_CANCELLED", canon[o].rev + 1)]
        /\ feed' = Append(feed, [order |-> o, rev |-> canon[o].rev + 1])
        /\ closed' = closed \cup {o} /\ canon[o].status = "ACTIVE"
    BY <1>3 DEF AdminCancel
  <2>2. o \notin closed
    BY <2>1 DEF IInv, CanonInv
  <2>3. \A i \in 1 .. Len(feed) : feed'[i] = feed[i]
    BY <2>1 DEF IInv, TypeOK
  <2>4. \A q \in closed : q \in closed' /\ canon'[q] = canon[q]
    BY <2>1, <2>2 DEF IInv, TypeOK
  <2> QED
    BY <1>1, <2>3, <2>4, ServerAgreement
<1> QED
  BY <1>2, <1>3 DEF Administer

\* A service lists, sends, ticks off or drops rows: the orders and the feed stay.
LEMMA ServiceAgreement ==
  ASSUME IInv, AgreementInv, UNCHANGED <<born, canon, closed, feed, local, cursor>>,
         page' \in {page, NoPage}, quarantined \subseteq quarantined', ExclusiveInv'
  PROVE  AgreementInv'
<1>1. Rows' = Rows
  BY DEF Rows
<1>2. SyncedInv'
  BY <1>1, SyncedKept DEF AgreementInv
<1>3. \A o \in Order : local[o].rev \in Nat /\ local[o].rev <= local[o].rev
  BY RowTypes
<1>4. ConsumedInv'
  BY <1>3, ConsumedKept DEF AgreementInv
<1> QED
  BY <1>2, <1>4 DEF AgreementInv

LEMMA StartSyncExclusive ==
  ASSUME IInv, ExclusiveInv, NEW s \in Service, StartSync(s)
  PROVE  ExclusiveInv'
<1>1. /\ UNCHANGED <<born, delivered, quarantined, current>> /\ current[s] = NoEvent
      /\ batch' = [batch EXCEPT ![s] = ListPending(BatchLimit)]
  BY DEF StartSync, Idle, outboxVars
<1>2. ListPending(BatchLimit) \subseteq Pending
  BY DEF ListPending, Due
<1>3. Pending' = Pending
  BY <1>1 DEF Pending, Rows
<1>4. SUFFICES ASSUME SingleService
               PROVE  /\ delivered \cap quarantined = {}
                      /\ \A t \in Service :
                           /\ batch'[t] \subseteq Pending
                           /\ current[t] # NoEvent => current[t] \in Pending \ batch'[t]
  BY <1>1, <1>3 DEF ExclusiveInv, SingleService
<1>5. \A t \in Service : t = s
  BY <1>4 DEF SingleService
<1>6. batch'[s] = ListPending(BatchLimit)
  BY <1>1 DEF IInv, TypeOK
<1> QED
  BY <1>1, <1>2, <1>4, <1>5, <1>6 DEF ExclusiveInv

LEMMA DeliverExclusive ==
  ASSUME IInv, ExclusiveInv, NEW s \in Service, Deliver(s)
  PROVE  ExclusiveInv'
<1>1. PICK e \in batch[s] : /\ current' = [current EXCEPT ![s] = e]
                            /\ batch' = [batch EXCEPT ![s] = @ \ {e}]
  BY DEF Deliver
<1>2. UNCHANGED <<born, delivered, quarantined>>
  BY DEF Deliver, outboxVars
<1>3. Pending' = Pending
  BY <1>2 DEF Pending, Rows
<1>4. SUFFICES ASSUME SingleService
               PROVE  /\ delivered \cap quarantined = {}
                      /\ \A t \in Service :
                           /\ batch'[t] \subseteq Pending
                           /\ current'[t] # NoEvent => current'[t] \in Pending \ batch'[t]
  BY <1>2, <1>3 DEF ExclusiveInv, SingleService
<1>5. \A t \in Service : t = s
  BY <1>4 DEF SingleService
<1>6. batch'[s] = batch[s] \ {e} /\ current'[s] = e
  BY <1>1 DEF IInv, TypeOK
<1> QED
  BY <1>1, <1>4, <1>5, <1>6 DEF ExclusiveInv

\* The only service ticks off a pending row it does not hold otherwise.
LEMMA AcceptExclusive ==
  ASSUME IInv, ExclusiveInv, NEW s \in Service, Accept(s)
  PROVE  ExclusiveInv'
<1> PICK e : e = current[s]
  OBVIOUS
<1>1. /\ delivered' = delivered \cup {e} /\ current' = [current EXCEPT ![s] = NoEvent]
      /\ UNCHANGED <<born, quarantined, batch>>
  BY DEF Accept, MarkDelivered, Settle
<1>2. e # NoEvent
  BY DEF Accept, IInv, InFlightInv
<1>3. Pending' = Pending \ {e}
  BY <1>1 DEF Pending, Rows
<1>4. SUFFICES ASSUME SingleService
               PROVE  /\ delivered' \cap quarantined' = {}
                      /\ \A t \in Service :
                           /\ batch[t] \subseteq Pending \ {e}
                           /\ current'[t] # NoEvent => current'[t] \in Pending'
                           /\ current'[t] # NoEvent => current'[t] \notin batch[t]
  BY <1>1, <1>3 DEF ExclusiveInv, SingleService
<1>5. \A t \in Service : t = s
  BY <1>4 DEF SingleService
<1>6. current'[s] = NoEvent
  BY <1>1 DEF IInv, TypeOK
<1>7. /\ delivered \cap quarantined = {} /\ batch[s] \subseteq Pending
      /\ e \in Pending \ batch[s]
  BY <1>2, <1>4 DEF ExclusiveInv
<1>8. e \notin quarantined
  BY <1>7 DEF Pending
<1> QED
  BY <1>1, <1>5, <1>6, <1>7, <1>8

\* The only service quarantines pending rows, and drops those it had listed.
LEMMA RefuseExclusive ==
  ASSUME IInv, ExclusiveInv, NEW s \in Service, Refuse(s)
  PROVE  ExclusiveInv'
<1> PICK e : e = current[s]
  OBVIOUS
<1>1. /\ quarantined' = quarantined \cup {e} \cup Dependents(e)
      /\ batch' = [batch EXCEPT ![s] = {f \in @ : ~(f.order = e.order /\ f.rev > e.rev)}]
      /\ current' = [current EXCEPT ![s] = NoEvent]
      /\ UNCHANGED <<born, delivered>>
  BY DEF Refuse, Quarantine, Settle
<1>2. e # NoEvent
  BY DEF Refuse, IInv, InFlightInv
<1>3. Pending' = Pending \ ({e} \cup Dependents(e)) /\ Dependents(e) \subseteq Pending
  BY <1>1 DEF Pending, Rows, Dependents
<1>4. SUFFICES ASSUME SingleService
               PROVE  /\ delivered' \cap quarantined' = {}
                      /\ \A t \in Service :
                           /\ batch'[t] \subseteq Pending'
                           /\ current'[t] # NoEvent => current'[t] \in Pending' \ batch'[t]
  BY DEF ExclusiveInv, SingleService
<1>5. \A t \in Service : t = s
  BY <1>4 DEF SingleService
<1>6. /\ current'[s] = NoEvent
      /\ batch'[s] = {f \in batch[s] : ~(f.order = e.order /\ f.rev > e.rev)}
  BY <1>1 DEF IInv, TypeOK
<1>7. /\ delivered \cap quarantined = {} /\ batch[s] \subseteq Pending
      /\ e \in Pending \ batch[s]
  BY <1>2, <1>4 DEF ExclusiveInv
<1>8. delivered' \cap quarantined' = {}
  <2>1. delivered \cap Pending = {}
    BY DEF Pending
  <2> QED
    BY <1>1, <1>3, <1>7, <2>1
<1>9. batch'[s] \subseteq Pending'
  <2>1. \A f \in batch'[s] : f \in batch[s] /\ f # e /\ f \notin Dependents(e)
    BY <1>6, <1>7 DEF Dependents, Later
  <2> QED
    BY <1>3, <1>7, <2>1
<1> QED
  BY <1>5, <1>6, <1>8, <1>9

LEMMA RefuseAgreement ==
  ASSUME IInv, AgreementInv, NEW s \in Service, Refuse(s)
  PROVE  AgreementInv'
<1> PICK e : e = current[s]
  OBVIOUS
<1>1. /\ e \in Rows /\ e \in Event /\ e \in quarantined' /\ quarantined \subseteq quarantined'
      /\ UNCHANGED <<born, canon, closed, feed, cursor, page>>
      /\ local' = local \/ local' = Reconciled(e)
  <2>1. e \in Rows /\ e \in Event
    BY DEF Refuse, IInv, InFlightInv, Rows
  <2>2. /\ e \in quarantined' /\ quarantined \subseteq quarantined'
        /\ UNCHANGED <<born, canon, closed, feed, cursor, page>>
        /\ local' = local \/ local' = Reconciled(e)
    BY DEF Refuse, Quarantine, ledgerVars
  <2> QED
    BY <2>1, <2>2
<1>2. Rows' = Rows
  BY <1>1 DEF Rows
<1>3. \A o \in Order : local'[o] = local[o] \/ o = e.order
  BY <1>1 DEF Reconciled, IInv, TypeOK
<1>4. SyncedInv'
  BY <1>1, <1>2, <1>3, SyncedKept DEF AgreementInv
<1>5. ConsumedInv'
  <2>1. \A o \in Order : local'[o].rev \in Nat /\ local[o].rev <= local'[o].rev
    <3> SUFFICES ASSUME NEW o \in Order
                 PROVE  local'[o].rev \in Nat /\ local[o].rev <= local'[o].rev
      OBVIOUS
    <3>1. local[o].rev \in Nat
      BY RowTypes
    <3>2. local'[o] = local[o] \/ local'[o].rev = local[o].rev + 1
      BY <1>1, ReconciledType
    <3> QED
      BY <3>1, <3>2
  <2> QED
    BY <1>1, <2>1, ConsumedKept DEF AgreementInv
<1> QED
  BY <1>4, <1>5, RefuseExclusive DEF AgreementInv

LEMMA PullPageAgreement ==
  ASSUME IInv, AgreementInv, PullPage
  PROVE  AgreementInv'
<1>1. UNCHANGED <<born, delivered, quarantined, canon, closed, feed, local, cursor, batch, current>>
  BY DEF PullPage, outboxVars, deviceVars, ledgerVars, serviceVars
<1>2. PICK next : page' = [rows |-> FeedRows(cursor, next), next |-> next]
  BY DEF PullPage
<1>3. Rows' = Rows
  BY <1>1 DEF Rows
<1>4. SyncedInv'
  BY <1>1, <1>3, SyncedKept DEF AgreementInv
<1>5. ExclusiveInv'
  BY <1>1, ExclusiveKept DEF AgreementInv
<1>6. \A i \in (cursor + 1) .. next :
        \E n \in FeedRows(cursor, next) : n.order = feed[i].order /\ n.rev = feed[i].rev
  <2> TAKE i \in (cursor + 1) .. next
  <2> DEFINE n == [order |-> feed[i].order, rev |-> feed[i].rev,
                   status |-> canon[feed[i].order].status]
  <2>1. n \in FeedRows(cursor, next)
    BY DEF FeedRows
  <2>2. n.order = feed[i].order /\ n.rev = feed[i].rev
    OBVIOUS
  <2> QED
    BY <2>1, <2>2
<1>7. ConsumedInv'
  BY <1>1, <1>2, <1>6 DEF AgreementInv, ConsumedInv
<1> QED
  BY <1>4, <1>5, <1>7 DEF AgreementInv

\* Applying a page brings the device up to the page's end.
LEMMA ApplyPageAgreement ==
  ASSUME IInv, HistoryInv, AgreementInv, ApplyPage
  PROVE  AgreementInv'
<1>1. /\ UNCHANGED <<born, delivered, quarantined, canon, closed, feed, batch, current>>
      /\ local' = [o \in Order |-> Converged(o)]
      /\ cursor' = page.next /\ page' = NoPage
  BY DEF ApplyPage, outboxVars, ledgerVars, serviceVars
<1>2. Rows' = Rows
  BY <1>1 DEF Rows
<1>3. \A o \in Order : local'[o] = local[o] \/ (o \in closed /\ local'[o] = canon[o])
  <2> SUFFICES ASSUME NEW o \in Order, Converged(o) # local[o]
               PROVE  o \in closed /\ Converged(o) = canon[o]
    BY <1>1
  <2> QED
    BY PageTakesOver DEF Converged
<1>4. SyncedInv'
  BY <1>1, <1>2, <1>3, SyncedKept DEF AgreementInv
<1>5. ExclusiveInv'
  BY <1>1, ExclusiveKept DEF AgreementInv
<1>6. cursor \in Nat /\ Len(feed) \in Nat /\ page.next \in Nat
      /\ cursor <= Len(feed) /\ page.next <= Len(feed)
  BY DEF IInv, TypeOK, FeedInv
<1>7. ASSUME NEW i \in 1 .. page.next
      PROVE  feed[i].rev <= local'[feed[i].order].rev
  <2> DEFINE o == feed[i].order
  <2>1. i \in 1 .. Len(feed)
    BY <1>6
  <2>2. o \in Order /\ feed[i].rev \in Nat
    BY <2>1, FeedTypes, Constants DEF IInv
  <2>3. local[o].status # "NONE"
    BY <2>1, <2>2, ServerBehind DEF HistoryInv, NewsInv
  <2> HIDE DEF o
  <2>4. local[o].rev \in Nat /\ local'[o].rev \in Nat /\ local[o].rev <= local'[o].rev
    <3>1. local[o].rev \in Nat /\ canon[o].rev \in Nat
      BY <2>2, RowTypes
    <3>2. local'[o] = local[o] \/ (Converged(o).rev > local[o].rev /\ local'[o] = canon[o])
      BY <1>1, <1>3, <2>2, ConvergedType
    <3>3. local'[o] = Converged(o)
      BY <1>1, <2>2
    <3> QED
      BY <3>1, <3>2, <3>3
  <2>5. CASE i <= cursor
    <3>1. feed[i].rev <= local[feed[i].order].rev
      BY <1>6, <2>5 DEF AgreementInv, ConsumedInv
    <3> QED
      BY <2>2, <2>4, <3>1 DEF o
  <2>6. CASE ~(i <= cursor)
    <3>1. i \in (cursor + 1) .. page.next
      BY <1>6, <2>6
    <3>2. PICK n \in page.rows : n.order = o /\ n.rev = feed[i].rev
      BY <3>1 DEF AgreementInv, ConsumedInv, o
    <3>3. CASE n.rev <= local[o].rev
      BY <2>2, <2>4, <3>2, <3>3 DEF o
    <3>4. CASE ~(n.rev <= local[o].rev)
      <4>1. n \in News(o)
        BY <2>2, <2>4, <3>2, <3>4 DEF News
      <4>2. Converged(o) = canon[o] /\ n.rev = canon[o].rev
        BY <2>2, <2>3, <4>1, PageTakesOver
      <4>3. local'[o].rev = feed[i].rev
        BY <1>1, <2>2, <3>2, <4>2
      <4> QED
        BY <2>2, <4>3 DEF o
    <3> QED
      BY <3>3, <3>4
  <2> QED
    BY <2>5, <2>6
<1>8. ConsumedInv'
  <2>1. (page.next + 1) .. 0 = {}
    BY <1>6
  <2> QED
    BY <1>1, <1>7, <2>1 DEF ConsumedInv, NoPage
<1> QED
  BY <1>4, <1>5, <1>8 DEF AgreementInv

LEMMA AgreementStep == IInv /\ HistoryInv /\ AgreementInv /\ [Next]_vars => AgreementInv'
<1> SUFFICES ASSUME IInv, HistoryInv, AgreementInv, [Next]_vars PROVE AgreementInv'
  OBVIOUS
<1>1. CASE Worker
  BY <1>1, WorkerCommits, CommitAgreement
<1>2. ASSUME UNCHANGED <<born, delivered, quarantined, canon, closed, feed, local, cursor>>,
             page' \in {page, NoPage},
             \A s \in Service :
               \/ batch'[s] = batch[s] /\ current'[s] = current[s]
               \/ batch'[s] = {} /\ current'[s] = NoEvent
      PROVE  AgreementInv'
  <2>1. ExclusiveInv'
    BY <1>2, ExclusiveKept DEF AgreementInv
  <2> QED
    BY <1>2, <2>1, ServiceAgreement
<1>3. ASSUME NEW s \in Service, Sync(s) PROVE AgreementInv'
  <2>1. CASE StartSync(s) \/ Deliver(s) \/ Accept(s)
    <3>1. /\ UNCHANGED <<born, quarantined, canon, closed, feed, local, cursor, page>>
      BY <2>1 DEF StartSync, Deliver, Accept, MarkDelivered, outboxVars, ledgerVars, deviceVars
    <3>2. ExclusiveInv'
      BY <2>1, StartSyncExclusive, DeliverExclusive, AcceptExclusive DEF AgreementInv
    <3> QED
      BY <3>1, <3>2, ServiceAgreement
  <2>2. CASE Receive(s)
    <3>1. /\ current[s] \in Rows /\ Ingest(current[s], kind[current[s]])
          /\ UNCHANGED <<outboxVars, local, cursor, page, batch, current>>
      BY <2>2 DEF Receive, InFlight, IInv, InFlightInv, deviceVars
    <3> QED
      BY <3>1, IngestAgreement
  <2>3. CASE Retry(s)
    <3>1. /\ UNCHANGED <<born, delivered, quarantined, canon, closed, feed, local, cursor, page>>
          /\ batch' = [batch EXCEPT ![s] = {}] /\ current' = [current EXCEPT ![s] = NoEvent]
      BY <2>3 DEF Retry, RecordFailure, Settle, ledgerVars, deviceVars
    <3>2. \A t \in Service : \/ batch'[t] = batch[t] /\ current'[t] = current[t]
                             \/ batch'[t] = {} /\ current'[t] = NoEvent
      BY <3>1 DEF IInv, TypeOK
    <3> QED
      BY <1>2, <3>1, <3>2
  <2> QED
    BY <1>3, <2>1, <2>2, <2>3, RefuseAgreement DEF Sync
<1>4. ASSUME NEW e \in Event, ReceiveLate(e) \/ Elapse(e) PROVE AgreementInv'
  <2>1. CASE ReceiveLate(e)
    <3>1. /\ e \in Rows /\ Ingest(e, kind[e])
          /\ UNCHANGED <<outboxVars, local, cursor, page, batch, current>>
      BY <2>1 DEF ReceiveLate, IInv, InFlightInv, deviceVars, serviceVars
    <3> QED
      BY <3>1, IngestAgreement
  <2>2. CASE Elapse(e)
    BY <1>2, <2>2 DEF Elapse, BackoffElapses, ledgerVars, deviceVars, serviceVars
  <2> QED
    BY <1>4, <2>1, <2>2
<1>5. CASE Crash
  <2>1. /\ UNCHANGED <<born, delivered, quarantined, canon, closed, feed, local, cursor>>
        /\ page' = NoPage
        /\ batch' = [s \in Service |-> {}] /\ current' = [s \in Service |-> NoEvent]
    BY <1>5 DEF Crash, outboxVars, ledgerVars, deviceVars
  <2> QED
    BY <1>2, <2>1
<1>6. ASSUME NEW s \in Service, Unavailable(s) \/ Timeout(s) PROVE AgreementInv'
  BY <1>2, <1>6 DEF Unavailable, Timeout, outboxVars, ledgerVars, deviceVars
<1>7. CASE UNCHANGED vars
  BY <1>2, <1>7 DEF vars, outboxVars, ledgerVars, deviceVars, serviceVars
<1> QED
  BY <1>1, <1>3, <1>4, <1>5, <1>6, <1>7, PullPageAgreement, ApplyPageAgreement,
     AdministerAgreement DEF Next, Fault

LEMMA AgreementInvariance == Spec => []AgreementInv
<1>1. Init => AgreementInv
  <2> SUFFICES ASSUME Init PROVE AgreementInv
    OBVIOUS
  <2>1. 1 .. 0 = {}
    OBVIOUS
  <2>2. ConsumedInv
    BY <2>1 DEF Init, ConsumedInv, NoPage
  <2> QED
    BY <2>2 DEF Init, OutboxInit, LedgerInit, AgreementInv, SyncedInv, ExclusiveInv, Unknown
<1>2. IInv /\ HistoryInv /\ AgreementInv /\ [Next]_vars => AgreementInv'
  BY AgreementStep
<1> QED
  BY <1>1, <1>2, Invariance, HistoryInvariance, PTL DEF Spec

\* When all is sent, answered and pulled, an order that nothing quarantined is
\* the same on both sides.
LEMMA QuietAgrees ==
  ASSUME IInv, HistoryInv, AgreementInv, Quiet,
         NEW o \in Order, \A e \in quarantined : e.order # o
  PROVE  local[o] = canon[o]
<1>1. \A e \in Rows : e \in delivered \/ e \in quarantined
  BY DEF Quiet, Pending
<1>2. \A e \in Rows : e.order = o => e \in receipts
  BY <1>1 DEF IInv, CanonInv
<1>3. ~\E e \in quarantined : e.order = o
  OBVIOUS
<1>4. local[o] \in Snapshot /\ canon[o] \in Snapshot
  BY DEF IInv, TypeOK
<1>5. \A x \in Snapshot : x = [status |-> x.status, rev |-> x.rev]
  BY DEF Snapshot
<1>6. CASE local[o].status = "NONE"
  <2>1. canon[o].status = "NONE"
    BY <1>6, ServerBehind
  <2>2. canon[o] = Unknown /\ local[o].rev = 0
    BY <1>6, <2>1 DEF IInv, CanonInv, LocalInv
  <2> QED
    BY <1>4, <1>5, <1>6, <2>2 DEF Unknown
<1>7. CASE local[o].status # "NONE"
  <2> DEFINE e == [order |-> o, rev |-> local[o].rev]
  <2>1. e \in Rows \/ (o \in closed /\ local[o] = canon[o])
    BY <1>3, <1>7 DEF AgreementInv, SyncedInv
  <2>2. CASE e \in Rows
    <3>1. e \in receipts /\ local[o].rev \in Revision /\ local[o].rev \in Nat
      BY <1>2, <2>2, RowTypes
    <3>2. canon[o].status # "NONE"
      BY <3>1 DEF IInv, CanonInv
    <3>3. local[o].rev <= Top(o)
      BY <3>1, <3>2 DEF IInv, CanonInv
    <3>4. /\ Top(o) \in Nat /\ Top(o) <= local[o].rev
          /\ canon[o].rev = IF o \in closed THEN Top(o) + 1 ELSE Top(o)
      BY <3>2, ServerBehind
    <3>5. Top(o) = local[o].rev
      BY <3>1, <3>3, <3>4
    <3>6. o \notin closed
      <4> SUFFICES ASSUME o \in closed PROVE FALSE
        OBVIOUS
      <4>1. PICK i \in 1 .. Len(feed) : feed[i] = [order |-> o, rev |-> canon[o].rev]
        BY DEF HistoryInv, ClosedInv
      <4>2. i \in 1 .. cursor
        BY DEF Quiet
      <4>3. canon[o].rev <= local[o].rev
        BY <4>1, <4>2 DEF AgreementInv, ConsumedInv
      <4> QED
        BY <3>1, <3>4, <3>5, <4>3
    <3>7. canon[o].status = ToStatus[kind[e]]
      BY <3>2, <3>5, <3>6 DEF IInv, CanonInv
    <3>8. local[o].status = ToStatus[kind[e]]
      BY <2>2 DEF HistoryInv, ChainInv
    <3> QED
      BY <1>4, <1>5, <3>4, <3>5, <3>6, <3>7, <3>8
  <2> QED
    BY <2>1, <2>2
<1> QED
  BY <1>6, <1>7

\* However many OutboxSyncServices work on the outbox: a device that has nothing
\* left to send or to pull agrees with the server on every order that has no
\* quarantined row.
THEOREM DivergencesAreQuarantined == Spec => []DivergenceIsQuarantined
<1>1. IInv /\ HistoryInv /\ AgreementInv => DivergenceIsQuarantined
  BY QuietAgrees DEF DivergenceIsQuarantined
<1> QED
  BY <1>1, Invariance, HistoryInvariance, AgreementInvariance, PTL

\* With one of them, no quarantined row is delivered too, so that the outbox
\* reports every such order.  (The run sync_two_flushers refutes it for two.)
THEOREM OneServiceAgrees == Spec => [](SingleService => NoSilentDivergence)
<1>1. AgreementInv /\ DivergenceIsQuarantined => (SingleService => NoSilentDivergence)
  <2> SUFFICES ASSUME AgreementInv, DivergenceIsQuarantined, SingleService, Quiet,
                      NEW o \in Order, local[o] # canon[o]
               PROVE  Surfaced(o)
    BY DEF NoSilentDivergence
  <2>1. PICK e \in quarantined : e.order = o
    BY DEF DivergenceIsQuarantined
  <2>2. e \notin delivered
    BY DEF AgreementInv, ExclusiveInv
  <2> QED
    BY <2>1, <2>2 DEF Surfaced
<1> QED
  BY <1>1, AgreementInvariance, DivergencesAreQuarantined, PTL

\* All parts of the inductive invariant together, as the runs check them.
THEOREM InductiveInvariance == Spec => []Inductive
<1>1. IInv /\ StockInv /\ HistoryInv /\ DeliveryInv /\ AgreementInv => Inductive
  BY DEF Inductive
<1> QED
  BY <1>1, Invariance, StockInvariance, HistoryInvariance, DeliveryInvariance,
     AgreementInvariance, PTL
=============================================================================
