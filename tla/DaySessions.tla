----------------------------- MODULE DaySessions -----------------------------
(***************************************************************************)
(* Worker sessions and business days of one shop, kept by several browsers *)
(* and the canonical server: sign-in, switch, sign-out and End Day on a    *)
(* browser's local tables; the login that first reconciles with the        *)
(* canonical day; the heartbeat that fences a browser whose session the    *)
(* server ended; and the server's handlers behind operations-sync and      *)
(* operations-session-exit.  The outbox is OutboxStore's, reduced to what  *)
(* it promises here: rows leave in order, a refused row takes its          *)
(* dependents with it.                                                     *)
(***************************************************************************)
EXTENDS Integers, Sequences, FiniteSets, Functions

CONSTANTS Device,        \* browsers of the shop
          MaxDays,       \* bound: business days ever started
          MaxSessions,   \* bound: browser -> sessions it ever starts
          Stalls         \* browsers that may miss heartbeats for five minutes

ASSUME BoundsAssumption ==
  MaxDays \in Nat \ {0} /\ MaxSessions \in [Device -> Nat] /\ Stalls \subseteq Device

Day     == 1..MaxDays
\* A session's UUID, by its browser.
Session == UNION {{d} \X (1..MaxSessions[d]) : d \in Device}
DayStatus == {"NONE", "OPEN", "CLOSED"}

\* An outbox event: the sessions it starts and those it ends.
EventType == {"BUSINESS_DAY_STARTED", "WORKER_SIGNED_IN", "WORKER_SIGNED_OUT",
              "RECONCILIATION_RECORDED", "BUSINESS_DAY_CLOSED"}
Event == [type: EventType, by: Device, day: Day,
          starts: SUBSET Session, ends: SUBSET Session]

VARIABLES
  \* each browser's local database
  localDay,      \* browser -> day -> status of its business_days row
  localSession,  \* session -> "NONE", "OPEN" or "ENDED": worker_sessions row
  sessionDay,    \* session -> the business day it belongs to, 0: none yet
  box,           \* browser -> its pending outbox rows, oldest first
  refused,       \* browser -> its quarantined rows
  \* each browser's memory
  view,          \* browser -> the canonical state a login in progress has read
  leaving,       \* browsers told SIGNED_OUT that have not signed out yet
  lost,          \* browsers told that their session is no longer active
  \* the server
  canonDay,      \* day -> status of its canonical row
  lease,         \* session -> "NONE", "LIVE", "STALE" (last seen more than
                 \* five minutes ago) or "ENDED"
  receipts       \* events with a receipt

local  == <<localDay, localSession, sessionDay, box, refused>>
memory == <<view, leaving, lost>>
server == <<canonDay, lease, receipts>>
vars   == <<local, memory, server>>

Idle == [step |-> "IDLE", mine |-> {}, open |-> {}, mineClosed |-> FALSE]
View == [step: {"IDLE", "READ", "READY"}, mine: SUBSET Day,
         open: SUBSET Day, mineClosed: BOOLEAN]

TypeOK ==
  /\ localDay \in [Device -> [Day -> DayStatus]]
  /\ localSession \in [Session -> {"NONE", "OPEN", "ENDED"}]
  /\ sessionDay \in [Session -> 0..MaxDays]
  /\ box \in [Device -> Seq(Event)]
  /\ refused \in [Device -> SUBSET Event]
  /\ view \in [Device -> View]
  /\ leaving \subseteq Device /\ lost \subseteq Device
  /\ canonDay \in [Day -> DayStatus]
  /\ lease \in [Session -> {"NONE", "LIVE", "STALE", "ENDED"}]
  /\ receipts \subseteq Event

Init ==
  /\ localDay = [d \in Device |-> [b \in Day |-> "NONE"]]
  /\ localSession = [s \in Session |-> "NONE"]
  /\ sessionDay = [s \in Session |-> 0]
  /\ box = [d \in Device |-> <<>>] /\ refused = [d \in Device |-> {}]
  /\ view = [d \in Device |-> Idle] /\ leaving = {} /\ lost = {}
  /\ canonDay = [b \in Day |-> "NONE"]
  /\ lease = [s \in Session |-> "NONE"] /\ receipts = {}
-----------------------------------------------------------------------------
\* What a browser reads from its own tables.
OpenDays(d) == {b \in Day : localDay[d][b] = "OPEN"}
OpenSessions(d) ==
  {s \in Session : /\ s[1] = d /\ localSession[s] = "OPEN"
                   /\ sessionDay[s] \in OpenDays(d)}
Pending(d) == Range(box[d])

\* q is the lower revision of e's aggregate.
Precedes(q, e) ==
  \/ e.type = "WORKER_SIGNED_OUT" /\ q.starts = e.ends
  \/ e.type = "BUSINESS_DAY_CLOSED" /\ q.type = "BUSINESS_DAY_STARTED" /\ q.day = e.day

\* The rows of s that are not among those of T, in the same order.
Without(s, T) ==
  LET rest[i \in 0..Len(s)] ==
        IF i = 0 THEN <<>>
        ELSE IF s[i] \in T THEN rest[i - 1] ELSE Append(rest[i - 1], s[i])
  IN  rest[Len(s)]

\* outbox.append, for each event of one transaction: a row whose aggregate has
\* a quarantined predecessor is born quarantined.
Enqueue(d, events) ==
  LET blocked == {e \in Range(events) : \E q \in refused[d] : Precedes(q, e)}
  IN  /\ box' = [box EXCEPT ![d] = @ \o Without(events, blocked)]
      /\ refused' = [refused EXCEPT ![d] = @ \cup blocked]

Evt(type, d, b, starts, ends) ==
  [type |-> type, by |-> d, day |-> b, starts |-> starts, ends |-> ends]

\* #transitionToWorker: open a day if none is open, hand the open session
\* over, start the new one; one transaction.  (A sign-in of the worker who is
\* signed in already changes nothing, see LoginKeepsWorker.)
TransitionToWorker(d) ==
  \E b \in Day, n \in 1..MaxSessions[d] :
    LET s   == <<d, n>>
        new == OpenDays(d) = {}
        old == OpenSessions(d)
    IN
    /\ localSession[s] = "NONE" /\ \A m \in 1..(n - 1) : localSession[<<d, m>>] # "NONE"
    /\ IF new
       THEN /\ \A x \in Device : localDay[x][b] = "NONE"
            /\ \A c \in 1..(b - 1) : \E x \in Device : localDay[x][c] # "NONE"
       ELSE b \in OpenDays(d)
    /\ localDay' = [localDay EXCEPT ![d][b] = "OPEN"]
    /\ localSession' = [x \in Session |-> IF x = s THEN "OPEN"
                                          ELSE IF x \in old THEN "ENDED" ELSE localSession[x]]
    /\ sessionDay' = [sessionDay EXCEPT ![s] = b]
    /\ Enqueue(d, (IF new THEN <<Evt("BUSINESS_DAY_STARTED", d, b, {}, {})>> ELSE <<>>)
                  \o <<Evt("WORKER_SIGNED_IN", d, b, {s}, old)>>)

\* The worker authority is UNAVAILABLE: the cached PIN signs in, unreconciled.
SignInOffline(d) ==
  /\ view[d] = Idle
  /\ TransitionToWorker(d)
  /\ UNCHANGED <<memory, server>>

\* reconcileCanonicalBusinessDay, up to the canonical answer (the drain before
\* it is the Deliver steps).
LoginRead(d) ==
  /\ view[d] = Idle
  /\ view' = [view EXCEPT ![d] =
       [step |-> "READ", mine |-> OpenDays(d),
        open |-> {b \in Day : canonDay[b] = "OPEN"},
        mineClosed |-> \E b \in OpenDays(d) : canonDay[b] = "CLOSED"]]
  /\ UNCHANGED <<local, leaving, lost, server>>

NeedsAdoption(v) ==
  IF v.open = {} THEN v.mineClosed ELSE v.open # v.mine

\* Mutant of AdoptionRefused: the locally ended day is not looked up.
AdoptionRefusedUnlessMoved(d, v) == OpenDays(d) # v.mine
\* assertCanonicalDayNotLocallyClosed, and the local day changed meanwhile.
AdoptionRefused(d, v) ==
  \/ \E b \in v.open : localDay[d][b] = "CLOSED"
  \/ OpenDays(d) # v.mine

LoginRefused(d) ==
  /\ view[d].step = "READ" /\ NeedsAdoption(view[d]) /\ AdoptionRefused(d, view[d])
  /\ view' = [view EXCEPT ![d] = Idle]
  /\ UNCHANGED <<local, leaving, lost, server>>

\* Mutant of ArchivedSessions: the archived day keeps its open session.
ArchivesNothing(d, old) == {}
ArchivedSessions(d, old) == {s \in OpenSessions(d) : sessionDay[s] \in old}

\* adoptCanonicalDay: a local day that is not the canonical one is closed with
\* its session, its pending rows are quarantined; the canonical day is stored.
LoginAdopt(d) ==
  LET v   == view[d]
      old == v.mine \ v.open
      stranded == {e \in Pending(d) : e.day \in old}
  IN
  /\ v.step = "READ" /\ NeedsAdoption(v) /\ ~AdoptionRefused(d, v)
  /\ localDay' = [localDay EXCEPT ![d] =
                    [b \in Day |-> IF b \in v.open THEN "OPEN"
                                   ELSE IF b \in old THEN "CLOSED" ELSE @[b]]]
  /\ localSession' = [s \in Session |-> IF s \in ArchivedSessions(d, old)
                                        THEN "ENDED" ELSE localSession[s]]
  /\ refused' = [refused EXCEPT ![d] = @ \cup stranded]
  /\ box' = [box EXCEPT ![d] = Without(@, stranded)]
  /\ view' = [view EXCEPT ![d].step = "READY"]
  /\ UNCHANGED <<sessionDay, leaving, lost, server>>

LoginNeedsNothing(d) ==
  /\ view[d].step = "READ" /\ ~NeedsAdoption(view[d])
  /\ view' = [view EXCEPT ![d].step = "READY"]
  /\ UNCHANGED <<local, leaving, lost, server>>

\* submitAuthenticatedWorker after the check.
LoginSignsIn(d) ==
  /\ view[d].step = "READY"
  /\ TransitionToWorker(d)
  /\ view' = [view EXCEPT ![d] = Idle]
  /\ UNCHANGED <<leaving, lost, server>>

LoginKeepsWorker(d) ==
  /\ view[d].step = "READY" /\ OpenSessions(d) # {}
  /\ view' = [view EXCEPT ![d] = Idle]
  /\ UNCHANGED <<local, leaving, lost, server>>

\* OperationsSessionService.signOut: nothing, when nobody is signed in.
EndLocalSession(d) ==
  /\ localSession' = [s \in Session |-> IF s \in OpenSessions(d) THEN "ENDED"
                                        ELSE localSession[s]]
  /\ IF OpenSessions(d) = {} THEN UNCHANGED <<box, refused>>
     ELSE \E b \in OpenDays(d) :
            Enqueue(d, <<Evt("WORKER_SIGNED_OUT", d, b, {}, OpenSessions(d))>>)
  /\ UNCHANGED <<localDay, sessionDay>>

\* The exit was answered SIGNED_OUT: sign out locally; the page reloads.
SignOut(d) ==
  /\ d \in leaving
  /\ EndLocalSession(d)
  /\ leaving' = leaving \ {d} /\ lost' = lost \ {d}
  /\ view' = [view EXCEPT ![d] = Idle]
  /\ UNCHANGED server

\* Mutant of Fence: the answer is noted and nothing ends.
FenceForgets(d) ==
  d \in lost /\ lost' = lost \ {d} /\ UNCHANGED <<local, view, leaving, server>>
\* The heartbeat's answer 409 is handled: whatever session is open now ends.
Fence(d) ==
  /\ d \in lost
  /\ EndLocalSession(d)
  /\ lost' = lost \ {d}
  /\ UNCHANGED <<view, leaving, server>>

\* Mutant of EndDayEvents: the reconciliation goes last.
EndDayReconciledLast(d, b) ==
  <<Evt("BUSINESS_DAY_CLOSED", d, b, {}, {}),
    Evt("WORKER_SIGNED_OUT", d, b, {}, OpenSessions(d)),
    Evt("RECONCILIATION_RECORDED", d, b, {}, {})>>
\* The three rows of an End Day, in the order they are appended.
EndDayEvents(d, b) ==
  <<Evt("RECONCILIATION_RECORDED", d, b, {}, {}),
    Evt("BUSINESS_DAY_CLOSED", d, b, {}, {}),
    Evt("WORKER_SIGNED_OUT", d, b, {}, OpenSessions(d))>>

\* OperationsEndDayService.closeDay: reconciliation, closed session and closed
\* day with their rows, in one transaction.
CloseDay(d) ==
  \E b \in OpenDays(d) :
    /\ OpenSessions(d) # {}
    /\ localDay' = [localDay EXCEPT ![d][b] = "CLOSED"]
    /\ localSession' = [s \in Session |-> IF s \in OpenSessions(d) THEN "ENDED"
                                          ELSE localSession[s]]
    /\ Enqueue(d, EndDayEvents(d, b))
    /\ UNCHANGED <<sessionDay, memory, server>>

\* The page reloads or crashes: memory is gone, the database stays.
Reload(d) ==
  /\ view[d] # Idle \/ d \in leaving \/ d \in lost
  /\ view' = [view EXCEPT ![d] = Idle]
  /\ leaving' = leaving \ {d} /\ lost' = lost \ {d}
  /\ UNCHANGED <<local, server>>
-----------------------------------------------------------------------------
\* The server.
LeaseOpen(s) == lease[s] \in {"LIVE", "STALE"}
OpenLeases(b) == {s \in Session : sessionDay[s] = b /\ LeaseOpen(s)}

\* idempotency_key: per day for the three day events, per session otherwise.
Key(e) ==
  CASE e.type = "WORKER_SIGNED_IN"  -> <<e.type, e.starts>>
    [] e.type = "WORKER_SIGNED_OUT" -> <<e.type, e.ends>>
    [] OTHER -> <<e.type, e.day>>

\* Mutant of TooManySessions: an off-by-one.
TooManySessionsByOne(b) == Cardinality(OpenLeases(b)) > 2
\* tux_guard_operations_day_close_sessions_v1
TooManySessions(b) == Cardinality(OpenLeases(b)) > 1

\* Mutants of OtherDayOpen and JoinsClosedDay: the guard is dropped.
NoOtherDay(b) == FALSE
JoinsAnyDay(e) == FALSE
\* tux_guard_business_day_transition_v1
OtherDayOpen(b) == \E c \in Day \ {b} : canonDay[c] = "OPEN"
\* tux_guard_business_day_dependency_v1 for worker_sessions
JoinsClosedDay(e) == e.starts # {} /\ canonDay[e.day] = "CLOSED"

\* The answer to an event, as the transport classifies it: a retried failure
\* is TRANSIENT (423, 425), a conflict is PERMANENT (409).
Answer(e) ==
  IF e \in receipts THEN "REPLAY"
  ELSE IF \E r \in receipts : Key(r) = Key(e) THEN "PERMANENT"
  ELSE IF e.type = "BUSINESS_DAY_STARTED"
       THEN IF OtherDayOpen(e.day) THEN "TRANSIENT" ELSE "APPLIED"
  ELSE IF canonDay[e.day] = "NONE" THEN "TRANSIENT"
  ELSE IF JoinsClosedDay(e) THEN "PERMANENT"
  ELSE IF e.type = "BUSINESS_DAY_CLOSED" /\ TooManySessions(e.day) THEN "PERMANENT"
  ELSE "APPLIED"

\* Mutant of Touched: an ended session is attached again.
TouchedBack(l) == IF l \in {"STALE", "ENDED"} THEN "LIVE" ELSE l
\* touch_tux_operations_worker_session_v1 on a session the row of which is open.
Touched(l) == IF l = "STALE" THEN "LIVE" ELSE l

\* Mutant of LeaseAfter: the day's status is written for the session's.
LeaseAfterClosed(e, s) ==
  IF s \in e.ends THEN "CLOSED" ELSE IF s \in e.starts THEN "LIVE" ELSE lease[s]
\* Mutant of LeaseAfter: an event ends nothing at the server.
LeaseAfterStart(e, s) ==
  IF s \in e.starts /\ lease[s] = "NONE" THEN "LIVE" ELSE lease[s]
\* The rows an applied event writes (MONOTONIC_TIMESTAMP: an open row never
\* overwrites an ended one), and the touch that follows a sign-in.
LeaseAfter(e, s) ==
  IF s \in e.ends THEN "ENDED"
  ELSE IF s \in e.starts
       THEN IF lease[s] = "NONE" THEN "LIVE" ELSE Touched(lease[s])
       ELSE lease[s]

\* ingest_tux_operations_materialization_v1: one transaction.
Ingest(e) ==
  /\ canonDay' = [canonDay EXCEPT ![e.day] =
       IF Answer(e) # "APPLIED" THEN @
       ELSE CASE e.type = "BUSINESS_DAY_STARTED" -> "OPEN"
              [] e.type = "BUSINESS_DAY_CLOSED"  -> "CLOSED"
              [] OTHER -> @]
  /\ lease' = [s \in Session |->
       IF Answer(e) = "APPLIED" THEN LeaseAfter(e, s)
       ELSE IF s \in e.starts THEN Touched(lease[s]) ELSE lease[s]]
  /\ receipts' = receipts \cup {e}

\* OutboxSyncService on the oldest row, answered.
Deliver(d) ==
  /\ box[d] # <<>>
  /\ LET e == Head(box[d]) IN
       \/ /\ Answer(e) \in {"APPLIED", "REPLAY"}
          /\ Ingest(e)
          /\ box' = [box EXCEPT ![d] = Tail(@)]
          /\ UNCHANGED refused
       \/ /\ Answer(e) = "PERMANENT"
          /\ LET dependents == {x \in Pending(d) : Precedes(e, x)} IN
               /\ box' = [box EXCEPT ![d] = Without(Tail(@), dependents)]
               /\ refused' = [refused EXCEPT ![d] = @ \cup {e} \cup dependents]
          /\ UNCHANGED server
  /\ UNCHANGED <<localDay, localSession, sessionDay, memory>>

\* The event is applied but its answer, or the touch after it, is lost.
DeliverUnanswered(d) ==
  /\ box[d] # <<>> /\ Answer(Head(box[d])) = "APPLIED"
  /\ Ingest(Head(box[d]))
  /\ UNCHANGED <<local, memory>>

\* deliverWorkerSessionOriginBeforeHeartbeat: no touch before the session's
\* origin has left the outbox.
OriginPending(d, s) ==
  \E e \in Pending(d) : \/ e.type = "BUSINESS_DAY_STARTED" /\ e.day = sessionDay[s]
                        \/ s \in e.starts
Heartbeat(d) ==
  \E s \in OpenSessions(d) :
    /\ ~OriginPending(d, s)
    /\ IF LeaseOpen(s)
       THEN lease' = [lease EXCEPT ![s] = "LIVE"] /\ UNCHANGED lost
       ELSE lost' = lost \cup {d} /\ UNCHANGED lease
    /\ UNCHANGED <<local, view, leaving, canonDay, receipts>>

\* prepare_tux_operations_worker_exit_v1: reaps the day's other stale
\* sessions, and ends this one unless it is the last.
Reaped(s) == {t \in OpenLeases(sessionDay[s]) \ {s} : lease[t] = "STALE"}
Remaining(s) == OpenLeases(sessionDay[s]) \ ({s} \cup Reaped(s))
\* Mutant of EndsByExit: the last session too is signed out.
EndsByExitAlways(s) == LeaseOpen(s)
EndsByExit(s) == LeaseOpen(s) /\ Remaining(s) # {}

PrepareExit(d) ==
  \E s \in OpenSessions(d), answered \in BOOLEAN :
    /\ lease[s] # "NONE"
    /\ LeaseOpen(s) => canonDay[sessionDay[s]] = "OPEN"
    /\ lease' = [t \in Session |->
         IF t \in Reaped(s) \/ (t = s /\ EndsByExit(s)) THEN "ENDED"
         ELSE IF t = s THEN Touched(lease[s]) ELSE lease[t]]
    /\ leaving' = IF answered /\ (EndsByExit(s) \/ ~LeaseOpen(s))
                  THEN leaving \cup {d} ELSE leaving
    /\ UNCHANGED <<local, view, lost, canonDay, receipts>>

\* Five minutes pass without a heartbeat of session s.
TimePasses(s) ==
  /\ s[1] \in Stalls /\ lease[s] = "LIVE"
  /\ lease' = [lease EXCEPT ![s] = "STALE"]
  /\ UNCHANGED <<local, memory, canonDay, receipts>>
-----------------------------------------------------------------------------
DeviceNext(d) ==
  \/ SignInOffline(d) \/ LoginRead(d) \/ LoginRefused(d) \/ LoginAdopt(d)
  \/ LoginNeedsNothing(d) \/ LoginSignsIn(d) \/ LoginKeepsWorker(d)
  \/ SignOut(d) \/ Fence(d) \/ CloseDay(d) \/ Reload(d)
  \/ Deliver(d) \/ DeliverUnanswered(d) \/ Heartbeat(d) \/ PrepareExit(d)

Next == (\E d \in Device : DeviceNext(d)) \/ (\E s \in Session : TimePasses(s))

Spec == Init /\ [][Next]_vars

\* What startRemoteRuntime has running: the outbox scheduler, while a worker is
\* signed in.  A sign-out, an End Day and a fenced session stop it.
Scheduled(d) == OpenSessions(d) # {} /\ Deliver(d)

\* On a browser nobody is signed in to, Deliver is the one flush that follows a
\* sign-out or an End Day and the drain of the next login: it may happen, and
\* nothing makes it.  The heartbeat timer needs an open session anyhow; the
\* fence follows the 409 in the same callback, so a browser does not for ever
\* reload exactly between the two.
Fairness == \A d \in Device : WF_vars(Scheduled(d)) /\ WF_vars(Heartbeat(d))
                              /\ SF_vars(Fence(d))
FairSpec == Spec /\ Fairness
-----------------------------------------------------------------------------
\* The canonical rows implement the register of DayRegister: receipts that are
\* replayed, retried and refused never open a second day nor reopen a day.
Register == INSTANCE DayRegister WITH Day <- Day, status <- canonDay
DaysFollowOneAnother == Register!Spec

\* A browser's open session belongs to its one open day: adoption, hand-over,
\* End Day and fencing never leave an operator signed in to a day that ended.
LocalSessionHasDay ==
  \A d \in Device :
    /\ \A b, c \in OpenDays(d) : b = c
    /\ \A s, t \in OpenSessions(d) : s = t
    /\ {s \in Session : s[1] = d /\ localSession[s] = "OPEN"} = OpenSessions(d)

\* The browser ended day b by its own End Day, not by archiving it at a login.
EndedByEndDay(d, b) ==
  \E e \in receipts \cup Pending(d) \cup refused[d] :
    e.type = "BUSINESS_DAY_CLOSED" /\ e.by = d /\ e.day = b

Quarantined(s) == \E e \in refused[s[1]] : s \in e.ends
ArchivedByLogin(s) ==
  localDay[s[1]][sessionDay[s]] = "CLOSED" /\ ~EndedByEndDay(s[1], sessionDay[s])

\* A session the server still holds open either is open on its browser or has
\* the event that ends it on the way or visibly quarantined, unless a login
\* archived its day: none is left open silently behind a browser that ended it
\* (such a row blocks every stocktake of the shop).
NoGhostSession ==
  \A s \in Session :
    LeaseOpen(s) /\ localSession[s] = "ENDED"
      => \/ \E e \in Pending(s[1]) : s \in e.ends
         \/ Quarantined(s) \/ ArchivedByLogin(s)

\* Whatever the server's answer to its End Day, a browser that ended a day
\* locally never sees it open again, not even after a canonical login.
EndedDayStaysEnded ==
  [][\A d \in Device, b \in Day :
       localDay[d][b] = "CLOSED" => localDay'[d][b] = "CLOSED"]_vars

\* A session the server ended (by event, exit or reaping) is never open again,
\* whatever is replayed afterwards.
EndedLeaseStaysEnded ==
  [][\A s \in Session : lease[s] = "ENDED" => lease'[s] = "ENDED"]_vars

\* The server closes a day only under the browser that asked: no other
\* browser's session of the day is open at that moment.
CloseEvictsNobody ==
  [][\A b \in Day : canonDay[b] = "OPEN" /\ canonDay'[b] = "CLOSED"
       => \A e \in receipts' \ receipts, s \in OpenLeases(b) : s[1] = e.by]_vars

\* A browser told SIGNED_OUT is not the day's last: another session of the day
\* is open then, so that somebody is left to end it.
OnlyNonFinalWorkersSignOut ==
  [][\A d \in leaving' \ leaving : \A b \in OpenDays(d) : canonDay[b] = "OPEN"
       => \E s \in Session : sessionDay[s] = b /\ lease'[s] \in {"LIVE", "STALE"}]_vars

\* A live session that ends without an event of its browser (an exit; reaping
\* takes stale ones) leaves a live session of the day behind.
ExitLeavesSomebody ==
  [][\A s \in Session : lease[s] = "LIVE" /\ lease'[s] = "ENDED" /\ receipts' = receipts
       => \E t \in Session : sessionDay[t] = sessionDay[s] /\ lease'[t] = "LIVE"]_vars

\* A day the server closed has its reconciliation there, and only one: End Day
\* is three rows that are delivered, retried, refused and quarantined one by
\* one, by each browser that ends the day.
ClosedDayIsReconciled ==
  \A b \in Day : canonDay[b] = "CLOSED" =>
    \E r \in receipts :
      {q \in receipts : q.type = "RECONCILIATION_RECORDED" /\ q.day = b} = {r}

\* The reconciliation the server keeps for a closed day was made by the
\* browser whose End Day closed it.
ReconciliationIsTheClosers ==
  \A b \in Day : canonDay[b] = "CLOSED" =>
    \E r, c \in receipts :
      /\ r.type = "RECONCILIATION_RECORDED" /\ c.type = "BUSINESS_DAY_CLOSED"
      /\ r.day = b /\ c.day = b /\ r.by = c.by

\* While a canonical day is open some browser can still end it: one that has
\* not ended it locally, or whose End Day is on the way.
DayCanBeEnded ==
  \A b \in Day : canonDay[b] = "OPEN" =>
    \E d \in Device : \/ localDay[d][b] # "CLOSED"
                      \/ \E e \in Pending(d) : e.type = "BUSINESS_DAY_CLOSED" /\ e.day = b

\* A browser whose session the server ended does not keep working for ever:
\* again and again none does.
EndedSessionIsFenced ==
  []<>(\A s \in Session : lease[s] = "ENDED" => localSession[s] # "OPEN")

\* A browser on which workers stay signed in reports every session that ended
\* there before: it ends at the server, or its end is visibly refused; strict
\* first-in-first-out delivery does not starve it.  While nobody is signed in
\* nothing is promised: the end waits in the outbox for the next login.
SessionEndArrives ==
  \A d \in Device : <>[](OpenSessions(d) # {}) =>
    []<>(\A s \in Session : s[1] = d /\ localSession[s] = "ENDED" =>
           ~LeaseOpen(s) \/ Quarantined(s) \/ ArchivedByLogin(s))
=============================================================================
