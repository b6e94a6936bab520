-------------------------- MODULE DaySessionsProofs --------------------------
(***************************************************************************)
(* Theorems about DaySessions, for any browsers and any number of days and *)
(* sessions: the canonical days implement DayRegister, what has ended at   *)
(* the server or on a browser stays ended, no browser is signed in to a    *)
(* day that ended, every table keeps its type, and no session is left open *)
(* at the server without its end on the way.                               *)
(***************************************************************************)
EXTENDS DaySessions, InductionLemmas, TLAPS

\* A day that was started has the receipt of its start: the only thing that
\* keeps a replayed start from opening a closed day again.
StartedHasReceipt ==
  \A b \in Day : canonDay[b] # "NONE" =>
    \E r \in receipts : r.type = "BUSINESS_DAY_STARTED" /\ r.day = b

RegisterInv ==
  /\ canonDay \in [Day -> DayStatus]
  /\ \A b, c \in Day : canonDay[b] = "OPEN" /\ canonDay[c] = "OPEN" => b = c
  /\ StartedHasReceipt

\* The steps of browsers that write no canonical day.
Elsewhere(d) ==
  \/ SignInOffline(d) \/ LoginRead(d) \/ LoginRefused(d) \/ LoginAdopt(d)
  \/ LoginNeedsNothing(d) \/ LoginSignsIn(d) \/ LoginKeepsWorker(d)
  \/ SignOut(d) \/ Fence(d) \/ CloseDay(d) \/ Reload(d)
  \/ Heartbeat(d) \/ PrepareExit(d)

LEMMA ElsewhereKeepsDays ==
  ASSUME NEW d \in Device, Elsewhere(d)
  PROVE  UNCHANGED <<canonDay, receipts>>
BY DEF Elsewhere, SignInOffline, LoginRead, LoginRefused, LoginAdopt, LoginNeedsNothing,
       LoginSignsIn, LoginKeepsWorker, SignOut, Fence, CloseDay, Reload, Heartbeat,
       PrepareExit, server

LEMMA RegisterInit == ASSUME Init PROVE RegisterInv /\ Register!Init
BY DEF Init, RegisterInv, StartedHasReceipt, DayStatus, Register!Init

\* An applied start finds its day never started, and no other day open.
LEMMA StartFindsNoDay ==
  ASSUME RegisterInv, NEW e, Answer(e) = "APPLIED", e.type = "BUSINESS_DAY_STARTED",
         e.day \in Day
  PROVE  \A c \in Day : canonDay[c] # "OPEN" /\ canonDay[e.day] = "NONE"
<1>1. ~\E r \in receipts : Key(r) = Key(e)
  BY DEF Answer
<1>2. canonDay[e.day] = "NONE"
  <2>1. \A r : r.type = "BUSINESS_DAY_STARTED" => Key(r) = <<r.type, r.day>>
    BY DEF Key
  <2> QED
    BY <1>1, <2>1 DEF RegisterInv, StartedHasReceipt
<1>3. ~OtherDayOpen(e.day)
  BY DEF Answer
<1> QED
  BY <1>2, <1>3 DEF OtherDayOpen

\* Whatever event is ingested, the register takes one of its steps or none.
LEMMA IngestIsARegisterStep ==
  ASSUME RegisterInv, NEW e, Ingest(e)
  PROVE  /\ RegisterInv'
         /\ canonDay' = canonDay \/ \E b \in Day : Register!StartDay(b) \/ Register!CloseDay(b)
<1> DEFINE same == canonDay' = canonDay
<1>1. receipts \subseteq receipts' /\ e \in receipts' /\ canonDay \in [Day -> DayStatus]
  BY DEF Ingest, RegisterInv
<1>2. CASE same
  BY <1>1, <1>2 DEF RegisterInv, StartedHasReceipt
<1>3. CASE ~same /\ e.type = "BUSINESS_DAY_STARTED"
  <2>1. Answer(e) = "APPLIED" /\ e.day \in Day /\ canonDay' = [canonDay EXCEPT ![e.day] = "OPEN"]
    BY <1>1, <1>3 DEF Ingest
  <2>2. \A c \in Day : canonDay[c] # "OPEN" /\ canonDay[e.day] = "NONE"
    BY <1>3, <2>1, StartFindsNoDay
  <2>3. Register!StartDay(e.day)
    BY <2>1, <2>2 DEF Register!StartDay
  <2> QED
    BY <1>1, <1>3, <2>1, <2>2, <2>3 DEF RegisterInv, StartedHasReceipt, DayStatus
<1>4. CASE ~same /\ e.type = "BUSINESS_DAY_CLOSED"
  <2>1. Answer(e) = "APPLIED" /\ e.day \in Day /\ canonDay' = [canonDay EXCEPT ![e.day] = "CLOSED"]
    BY <1>1, <1>4 DEF Ingest
  <2>2. canonDay[e.day] = "OPEN"
    BY <1>1, <1>4, <2>1 DEF Answer, DayStatus
  <2>3. Register!CloseDay(e.day)
    BY <2>1, <2>2 DEF Register!CloseDay
  <2> QED
    BY <1>1, <2>1, <2>2, <2>3 DEF RegisterInv, StartedHasReceipt, DayStatus
<1>5. e.type \notin {"BUSINESS_DAY_STARTED", "BUSINESS_DAY_CLOSED"} => same
  BY <1>1 DEF Ingest
<1> QED
  BY <1>2, <1>3, <1>4, <1>5

LEMMA RegisterStep ==
  ASSUME RegisterInv, [Next]_vars
  PROVE  /\ RegisterInv'
         /\ canonDay' = canonDay \/ \E b \in Day : Register!StartDay(b) \/ Register!CloseDay(b)
<1>1. ASSUME UNCHANGED <<canonDay, receipts>>
      PROVE  RegisterInv' /\ canonDay' = canonDay
  BY <1>1 DEF RegisterInv, StartedHasReceipt
<1>2. ASSUME NEW d \in Device, Deliver(d) \/ DeliverUnanswered(d)
      PROVE  UNCHANGED <<canonDay, receipts>> \/ Ingest(Head(box[d]))
  BY <1>2 DEF Deliver, DeliverUnanswered, server
<1>3. CASE \E d \in Device : DeviceNext(d)
  BY <1>1, <1>2, <1>3, ElsewhereKeepsDays, IngestIsARegisterStep DEF DeviceNext, Elsewhere
<1>4. CASE \E s \in Session : TimePasses(s)
  BY <1>1, <1>4 DEF TimePasses
<1>5. CASE UNCHANGED vars
  BY <1>1, <1>5 DEF vars, server
<1> QED
  BY <1>3, <1>4, <1>5 DEF Next

\* The server's tables implement the register of DayRegister: days follow one
\* another and a closed day is final, whatever is replayed, lost or refused.
THEOREM DaysRefinement == Spec => DaysFollowOneAnother
<1>1. Init => RegisterInv /\ Register!Init
  BY RegisterInit
<1>2. RegisterInv /\ [Next]_vars => RegisterInv'
  BY RegisterStep
<1>3. RegisterInv /\ [Next]_vars
        => [\E b \in Day : Register!StartDay(b) \/ Register!CloseDay(b)]_canonDay
  BY RegisterStep
<1> QED
  BY <1>1, <1>2, <1>3, PTL DEF Spec, DaysFollowOneAnother, Register!Spec
-----------------------------------------------------------------------------
\* What the server's sessions need to be updated pointwise.
LeaseType == lease \in [Session -> {"NONE", "LIVE", "STALE", "ENDED"}]

LEMMA LeaseStep ==
  ASSUME LeaseType, [Next]_vars
  PROVE  LeaseType' /\ \A s \in Session : lease[s] = "ENDED" => lease'[s] = "ENDED"
<1>1. ASSUME NEW e, Ingest(e)
      PROVE  LeaseType' /\ \A s \in Session : lease[s] = "ENDED" => lease'[s] = "ENDED"
  BY <1>1 DEF Ingest, LeaseAfter, Touched, LeaseType
<1>2. ASSUME NEW d \in Device, Heartbeat(d)
      PROVE  LeaseType' /\ \A s \in Session : lease[s] = "ENDED" => lease'[s] = "ENDED"
  BY <1>2 DEF Heartbeat, LeaseOpen, LeaseType
<1>3. ASSUME NEW d \in Device, PrepareExit(d)
      PROVE  LeaseType' /\ \A s \in Session : lease[s] = "ENDED" => lease'[s] = "ENDED"
  BY <1>3 DEF PrepareExit, Touched, LeaseType
<1>4. ASSUME NEW t \in Session, TimePasses(t)
      PROVE  LeaseType' /\ \A s \in Session : lease[s] = "ENDED" => lease'[s] = "ENDED"
  BY <1>4 DEF TimePasses, LeaseType
<1>5. ASSUME UNCHANGED lease
      PROVE  LeaseType' /\ \A s \in Session : lease[s] = "ENDED" => lease'[s] = "ENDED"
  BY <1>5 DEF LeaseType
<1>6. ASSUME NEW d \in Device, DeviceNext(d)
      PROVE  \/ \E e : Ingest(e)
             \/ Heartbeat(d) \/ PrepareExit(d) \/ UNCHANGED lease
  BY <1>6 DEF DeviceNext, SignInOffline, LoginRead, LoginRefused, LoginAdopt, LoginNeedsNothing,
       LoginSignsIn, LoginKeepsWorker, SignOut, Fence, CloseDay, Reload, Deliver,
       DeliverUnanswered, server
<1> QED
  BY <1>1, <1>2, <1>3, <1>4, <1>5, <1>6 DEF Next, vars, server

\* A session the server ended is never open again, whatever is replayed.
THEOREM LeaseIsFinal == Spec => EndedLeaseStaysEnded
<1>1. Init => LeaseType
  BY DEF Init, LeaseType
<1>2. LeaseType /\ [Next]_vars => LeaseType'
  BY LeaseStep
<1>3. LeaseType /\ [Next]_vars
        => [\A s \in Session : lease[s] = "ENDED" => lease'[s] = "ENDED"]_vars
  BY LeaseStep
<1> QED
  BY <1>1, <1>2, <1>3, PTL DEF Spec, EndedLeaseStaysEnded

\* What a step that brings no new receipt does to the sessions.
LEMMA ExitStep ==
  ASSUME LeaseType, [Next]_vars, receipts' = receipts,
         NEW s \in Session, lease[s] = "LIVE", lease'[s] = "ENDED"
  PROVE  \E t \in Session : sessionDay[t] = sessionDay[s] /\ lease'[t] = "LIVE"
<1>1. ASSUME NEW e, Ingest(e) PROVE FALSE
  <2>1. e \in receipts
    BY <1>1 DEF Ingest
  <2>2. Answer(e) # "APPLIED"
    BY <2>1 DEF Answer
  <2>3. lease'[s] = "LIVE"
    BY <1>1, <2>2 DEF Ingest, Touched
  <2> QED
    BY <2>3
<1>2. ASSUME NEW d \in Device, Heartbeat(d) PROVE FALSE
  BY <1>2 DEF Heartbeat, LeaseOpen, LeaseType
<1>3. ASSUME NEW d \in Device, PrepareExit(d)
      PROVE  \E t \in Session : sessionDay[t] = sessionDay[s] /\ lease'[t] = "LIVE"
  <2>1. PICK x \in OpenSessions(d) :
          lease' = [t \in Session |->
            IF t \in Reaped(x) \/ (t = x /\ EndsByExit(x)) THEN "ENDED"
            ELSE IF t = x THEN Touched(lease[x]) ELSE lease[t]]
    BY <1>3 DEF PrepareExit
  <2>2. s \notin Reaped(x)
    BY DEF Reaped
  <2>3. s = x /\ Remaining(s) # {}
    BY <2>1, <2>2 DEF EndsByExit, Touched
  <2>4. PICK t \in Remaining(s) : TRUE
    BY <2>3
  <2>5. /\ t \in Session /\ sessionDay[t] = sessionDay[s] /\ t # s
        /\ t \notin Reaped(s) /\ lease[t] = "LIVE"
    BY <2>4 DEF Remaining, Reaped, OpenLeases, LeaseOpen
  <2>6. lease'[t] = "LIVE"
    BY <2>1, <2>3, <2>5
  <2> QED
    BY <2>5, <2>6
<1>4. ASSUME NEW t \in Session, TimePasses(t) PROVE FALSE
  BY <1>4 DEF TimePasses, LeaseType
<1>5. ASSUME UNCHANGED lease PROVE FALSE
  BY <1>5
<1>6. ASSUME NEW d \in Device, DeviceNext(d)
      PROVE  \/ \E e : Ingest(e)
             \/ Heartbeat(d) \/ PrepareExit(d) \/ UNCHANGED lease
  BY <1>6 DEF DeviceNext, SignInOffline, LoginRead, LoginRefused, LoginAdopt, LoginNeedsNothing,
       LoginSignsIn, LoginKeepsWorker, SignOut, Fence, CloseDay, Reload, Deliver,
       DeliverUnanswered, server
<1> QED
  BY <1>1, <1>2, <1>3, <1>4, <1>5, <1>6 DEF Next, vars, server

\* An exit, first or retried, and the reaping of stale sessions in it never end
\* the last live session of a day.
THEOREM ExitsLeaveSomebody == Spec => ExitLeavesSomebody
<1>1. Init => LeaseType
  BY DEF Init, LeaseType
<1>2. LeaseType /\ [Next]_vars => LeaseType'
  BY LeaseStep
<1>3. LeaseType /\ [Next]_vars
        => [\A s \in Session : lease[s] = "LIVE" /\ lease'[s] = "ENDED" /\ receipts' = receipts
              => \E t \in Session : sessionDay[t] = sessionDay[s] /\ lease'[t] = "LIVE"]_vars
  BY ExitStep
<1> QED
  BY <1>1, <1>2, <1>3, PTL DEF Spec, ExitLeavesSomebody
-----------------------------------------------------------------------------
\* The browsers' tables, and the login's snapshot, of which at most one day is
\* open because the server has at most one: what adoption relies on.
LocalTypes ==
  /\ localDay \in [Device -> [Day -> DayStatus]]
  /\ localSession \in [Session -> {"NONE", "OPEN", "ENDED"}]
  /\ sessionDay \in [Session -> 0..MaxDays]
  /\ view \in [Device -> View]

ReadsOneDay == \A d \in Device : \A b, c \in view[d].open : b = c

LocalInv == RegisterInv /\ LocalTypes /\ ReadsOneDay /\ LocalSessionHasDay

\* LocalSessionHasDay, browser by browser.
HasDay(d) ==
  /\ \A b, c \in OpenDays(d) : b = c
  /\ \A s, t \in OpenSessions(d) : s = t
  /\ \A s \in Session : s[1] = d /\ localSession[s] = "OPEN" => sessionDay[s] \in OpenDays(d)

LEMMA BrowserByBrowser == LocalSessionHasDay <=> \A d \in Device : HasDay(d)
BY DEF LocalSessionHasDay, HasDay, OpenSessions

LEMMA BrowserByBrowserNext == LocalSessionHasDay' <=> \A d \in Device : HasDay(d)'
BY DEF LocalSessionHasDay, HasDay, OpenSessions

\* A step that writes none of browser x's rows keeps its part.
LEMMA Untouched ==
  ASSUME NEW x \in Device, HasDay(x), localDay'[x] = localDay[x],
         \A s \in Session : s[1] = x => /\ localSession'[s] = localSession[s]
                                        /\ sessionDay'[s] = sessionDay[s]
  PROVE  HasDay(x)'
BY DEF HasDay, OpenDays, OpenSessions

LEMMA LocalInit == ASSUME Init PROVE LocalInv
<1>1. LocalTypes /\ ReadsOneDay
  BY BoundsAssumption DEF Init, LocalTypes, ReadsOneDay, Idle, View, DayStatus
<1>2. \A d \in Device : OpenDays(d) = {} /\ OpenSessions(d) = {}
  BY DEF Init, OpenDays, OpenSessions
<1>3. \A d \in Device : HasDay(d)
  BY <1>2 DEF Init, HasDay
<1> QED
  BY <1>1, <1>3, RegisterInit, BrowserByBrowser DEF LocalInv

BrowserTypes ==
  /\ localDay \in [Device -> [Day -> DayStatus]]
  /\ localSession \in [Session -> {"NONE", "OPEN", "ENDED"}]
  /\ sessionDay \in [Session -> 0..MaxDays]

\* What every step owes: a closed day of a browser stays closed.
KeepsClosedDays ==
  \A d \in Device, b \in Day : localDay[d][b] = "CLOSED" => localDay'[d][b] = "CLOSED"

\* A sign-in or switch leaves one open day with one open session in it.
LEMMA SignInStep ==
  ASSUME BrowserTypes, LocalSessionHasDay, NEW d \in Device, TransitionToWorker(d)
  PROVE  BrowserTypes' /\ LocalSessionHasDay' /\ KeepsClosedDays
<1>1. PICK b \in Day, n \in 1..MaxSessions[d] :
        /\ OpenDays(d) = {} => localDay[d][b] = "NONE"
        /\ OpenDays(d) # {} => b \in OpenDays(d)
        /\ localDay' = [localDay EXCEPT ![d][b] = "OPEN"]
        /\ localSession' = [x \in Session |-> IF x = <<d, n>> THEN "OPEN"
                              ELSE IF x \in OpenSessions(d) THEN "ENDED" ELSE localSession[x]]
        /\ sessionDay' = [sessionDay EXCEPT ![<<d, n>>] = b]
  BY DEF TransitionToWorker
<1> DEFINE s == <<d, n>>
<1>2. s \in Session /\ s[1] = d /\ b \in 0..MaxDays
  BY BoundsAssumption DEF Session, Day
<1>3. BrowserTypes'
  BY <1>1, <1>2 DEF BrowserTypes, DayStatus
<1>4. KeepsClosedDays
  BY <1>1 DEF BrowserTypes, KeepsClosedDays, OpenDays
<1>5. \A x \in Device : HasDay(x)
  BY BrowserByBrowser
<1>6. ASSUME NEW x \in Device, x # d PROVE HasDay(x)'
  <2>1. localDay'[x] = localDay[x]
    BY <1>1, <1>6 DEF BrowserTypes
  <2>2. \A t \in Session : t[1] = x => t # s /\ t \notin OpenSessions(d)
    BY <1>2, <1>6 DEF OpenSessions
  <2>3. \A t \in Session : t[1] = x => localSession'[t] = localSession[t] /\ sessionDay'[t] = sessionDay[t]
    BY <1>1, <1>2, <2>2 DEF BrowserTypes
  <2> QED
    BY <1>5, <2>1, <2>3, Untouched
<1>7. HasDay(d)'
  <2>1. OpenDays(d)' = {b}
    BY <1>1, <1>5 DEF HasDay, OpenDays, BrowserTypes
  <2>2. \A t \in Session : t[1] = d /\ localSession'[t] = "OPEN" => t = s
    BY <1>1, <1>5 DEF HasDay, OpenSessions
  <2>3. sessionDay'[s] = b
    BY <1>1, <1>2 DEF BrowserTypes
  <2> QED
    BY <2>1, <2>2, <2>3 DEF HasDay, OpenSessions
<1> QED
  BY <1>3, <1>4, <1>6, <1>7, BrowserByBrowserNext

\* Ending a browser's sessions, with its day (End Day) or without.
LEMMA EndStep ==
  ASSUME BrowserTypes, LocalSessionHasDay, NEW d \in Device, UNCHANGED sessionDay,
         localSession' = [s \in Session |-> IF s \in OpenSessions(d) THEN "ENDED"
                                            ELSE localSession[s]],
         \/ UNCHANGED localDay
         \/ \E b \in OpenDays(d) : localDay' = [localDay EXCEPT ![d][b] = "CLOSED"]
  PROVE  BrowserTypes' /\ LocalSessionHasDay' /\ KeepsClosedDays
<1>1. BrowserTypes'
  BY DEF BrowserTypes, DayStatus
<1>2. KeepsClosedDays
  BY DEF BrowserTypes, KeepsClosedDays
<1>3. \A x \in Device : HasDay(x)
  BY BrowserByBrowser
<1>4. ASSUME NEW x \in Device, x # d PROVE HasDay(x)'
  <2>1. localDay'[x] = localDay[x]
    BY <1>4 DEF BrowserTypes
  <2>2. \A t \in Session : t[1] = x => t \notin OpenSessions(d)
    BY <1>4 DEF OpenSessions
  <2> QED
    BY <1>3, <2>1, <2>2, Untouched
<1>5. HasDay(d)'
  <2>1. \A b, c \in OpenDays(d)' : b = c
    BY <1>3 DEF HasDay, OpenDays, BrowserTypes
  <2>2. \A t \in Session : t[1] = d => localSession'[t] # "OPEN"
    BY <1>3 DEF HasDay, OpenSessions
  <2> QED
    BY <2>1, <2>2 DEF HasDay, OpenSessions
<1> QED
  BY <1>1, <1>2, <1>4, <1>5, BrowserByBrowserNext

\* Adopting the canonical day: the old day goes with its session.
LEMMA AdoptStep ==
  ASSUME BrowserTypes, view \in [Device -> View], ReadsOneDay, LocalSessionHasDay,
         NEW d \in Device, LoginAdopt(d)
  PROVE  BrowserTypes' /\ LocalSessionHasDay' /\ KeepsClosedDays
<1> DEFINE v == view[d]
           old == v.mine \ v.open
<1>1. v \in View /\ v.open \subseteq Day /\ OpenDays(d) = v.mine
  BY DEF LoginAdopt, AdoptionRefused, View
<1>2. /\ localDay' = [localDay EXCEPT ![d] =
            [b \in Day |-> IF b \in v.open THEN "OPEN"
                           ELSE IF b \in old THEN "CLOSED" ELSE localDay[d][b]]]
      /\ localSession' = [s \in Session |-> IF s \in ArchivedSessions(d, old)
                                            THEN "ENDED" ELSE localSession[s]]
      /\ UNCHANGED sessionDay
      /\ \A b \in v.open : localDay[d][b] # "CLOSED"
  BY <1>1 DEF LoginAdopt, AdoptionRefused, BrowserTypes
<1>3. BrowserTypes'
  BY <1>2 DEF BrowserTypes, DayStatus
<1>4. KeepsClosedDays
  BY <1>2 DEF BrowserTypes, KeepsClosedDays
<1>5. \A x \in Device : HasDay(x)
  BY BrowserByBrowser
<1>6. ASSUME NEW x \in Device, x # d PROVE HasDay(x)'
  <2>1. localDay'[x] = localDay[x]
    BY <1>2, <1>6 DEF BrowserTypes
  <2>2. \A t \in Session : t[1] = x => t \notin ArchivedSessions(d, old)
    BY <1>6 DEF OpenSessions, ArchivedSessions
  <2> QED
    BY <1>2, <1>5, <2>1, <2>2, Untouched
<1>7. HasDay(d)'
  <2>1. OpenDays(d)' = v.open
    BY <1>1, <1>2 DEF OpenDays, BrowserTypes
  <2>2. \A b, c \in v.open : b = c
    BY DEF ReadsOneDay
  <2>3. ASSUME NEW t \in Session, t[1] = d, localSession'[t] = "OPEN"
        PROVE  t \in OpenSessions(d) /\ sessionDay[t] \in v.open
    <3>1. localSession[t] = "OPEN" /\ t \notin ArchivedSessions(d, old)
      BY <1>2, <2>3
    <3>2. t \in OpenSessions(d) /\ sessionDay[t] \in v.mine
      BY <1>1, <1>5, <2>3, <3>1 DEF HasDay, OpenSessions
    <3> QED
      BY <3>1, <3>2 DEF ArchivedSessions
  <2>4. \A t \in OpenSessions(d)' : t \in Session /\ t[1] = d /\ localSession'[t] = "OPEN"
    BY DEF OpenSessions
  <2>5. \A t, u \in OpenSessions(d) : t = u
    BY <1>5 DEF HasDay
  <2>6. \A t, u \in OpenSessions(d)' : t = u
    BY <2>3, <2>4, <2>5
  <2>7. \A t \in Session : t[1] = d /\ localSession'[t] = "OPEN" => sessionDay'[t] \in OpenDays(d)'
    BY <1>2, <2>1, <2>3
  <2>8. \A b, c \in OpenDays(d)' : b = c
    BY <2>1, <2>2
  <2> QED
    BY <2>6, <2>7, <2>8 DEF HasDay
<1> QED
  BY <1>3, <1>4, <1>6, <1>7, BrowserByBrowserNext

\* What a login has read: at most one canonical day, and it stays what it was.
LEMMA ViewStep ==
  ASSUME RegisterInv, view \in [Device -> View], ReadsOneDay, [Next]_vars
  PROVE  view' \in [Device -> View] /\ ReadsOneDay'
<1>1. CASE UNCHANGED view
  BY <1>1 DEF ReadsOneDay
<1>2. ASSUME NEW d \in Device, view' = [view EXCEPT ![d] = Idle]
      PROVE  view' \in [Device -> View] /\ ReadsOneDay'
  BY <1>2 DEF ReadsOneDay, Idle, View
<1>3. ASSUME NEW d \in Device, view' = [view EXCEPT ![d].step = "READY"]
      PROVE  view' \in [Device -> View] /\ ReadsOneDay'
  <2>1. \A x \in Device : view[x] \in View
    OBVIOUS
  <2> QED
    BY <1>3, <2>1 DEF ReadsOneDay, View
<1>4. ASSUME NEW d \in Device, LoginRead(d)
      PROVE  view' \in [Device -> View] /\ ReadsOneDay'
  <2> DEFINE open == {b \in Day : canonDay[b] = "OPEN"}
             mine == OpenDays(d)
             closed == \E b \in OpenDays(d) : canonDay[b] = "CLOSED"
  <2>1. \A b, c \in open : b = c
    BY DEF RegisterInv
  <2>2. view' = [view EXCEPT ![d] = [step |-> "READ", mine |-> mine, open |-> open,
                                     mineClosed |-> closed]]
    BY <1>4 DEF LoginRead
  <2>3. mine \subseteq Day /\ open \subseteq Day /\ closed \in BOOLEAN
    BY DEF OpenDays
  <2> HIDE DEF open, mine, closed
  <2> QED
    BY <2>1, <2>2, <2>3 DEF ReadsOneDay, View
<1>5. ASSUME NEW d \in Device, DeviceNext(d)
      PROVE  \/ UNCHANGED view
             \/ view' = [view EXCEPT ![d] = Idle]
             \/ view' = [view EXCEPT ![d].step = "READY"]
             \/ LoginRead(d)
  BY <1>5 DEF DeviceNext, SignInOffline, LoginRefused, LoginAdopt, LoginNeedsNothing,
       LoginSignsIn, LoginKeepsWorker, SignOut, Fence, CloseDay, Reload, Deliver,
       DeliverUnanswered, Heartbeat, PrepareExit, local, memory
<1> QED
  BY <1>1, <1>2, <1>3, <1>4, <1>5 DEF Next, TimePasses, vars, memory

LEMMA LocalStep ==
  ASSUME LocalInv, [Next]_vars
  PROVE  LocalInv' /\ KeepsClosedDays
<1> DEFINE Goal == BrowserTypes' /\ LocalSessionHasDay' /\ KeepsClosedDays
<1>1. BrowserTypes /\ view \in [Device -> View] /\ ReadsOneDay /\ LocalSessionHasDay /\ RegisterInv
  BY DEF LocalInv, LocalTypes, BrowserTypes
<1>2. ASSUME UNCHANGED <<localDay, localSession, sessionDay>>
      PROVE  Goal
  BY <1>1, <1>2 DEF LocalSessionHasDay, OpenDays, OpenSessions, BrowserTypes, KeepsClosedDays
<1>3. ASSUME NEW d \in Device, DeviceNext(d)
      PROVE  Goal
  <2>1. CASE SignInOffline(d) \/ LoginSignsIn(d)
    BY <1>1, <2>1, SignInStep DEF SignInOffline, LoginSignsIn
  <2>2. CASE LoginAdopt(d)
    BY <1>1, <2>2, AdoptStep
  <2>3. CASE SignOut(d) \/ Fence(d)
    BY <1>1, <2>3, EndStep DEF SignOut, Fence, EndLocalSession
  <2>4. CASE CloseDay(d)
    BY <1>1, <2>4, EndStep DEF CloseDay
  <2>5. CASE \/ LoginRead(d) \/ LoginRefused(d) \/ LoginNeedsNothing(d) \/ LoginKeepsWorker(d)
             \/ Reload(d) \/ Deliver(d) \/ DeliverUnanswered(d) \/ Heartbeat(d) \/ PrepareExit(d)
    BY <1>2, <2>5 DEF LoginRead, LoginRefused, LoginNeedsNothing, LoginKeepsWorker, Reload,
         Deliver, DeliverUnanswered, Heartbeat, PrepareExit, local
  <2> QED
    BY <1>3, <2>1, <2>2, <2>3, <2>4, <2>5 DEF DeviceNext
<1>4. Goal
  BY <1>2, <1>3 DEF Next, TimePasses, vars, local
<1>5. RegisterInv' /\ view' \in [Device -> View] /\ ReadsOneDay'
  BY <1>1, RegisterStep, ViewStep
<1> QED
  BY <1>4, <1>5 DEF LocalInv, LocalTypes, BrowserTypes

\* No browser is ever signed in to a day that ended there.
THEOREM SessionsHaveTheirDay == Spec => []LocalSessionHasDay
<1>1. Init => LocalInv
  BY LocalInit
<1>2. LocalInv /\ [Next]_vars => LocalInv'
  BY LocalStep
<1>3. LocalInv => LocalSessionHasDay
  BY DEF LocalInv
<1> QED
  BY <1>1, <1>2, <1>3, PTL DEF Spec

\* A day a browser ended is never open there again, not even after a login
\* that finds it open at the server.
THEOREM ClosedDayIsFinal == Spec => EndedDayStaysEnded
<1>1. Init => LocalInv
  BY LocalInit
<1>2. LocalInv /\ [Next]_vars => LocalInv'
  BY LocalStep
<1>3. LocalInv /\ [Next]_vars
        => [\A d \in Device, b \in Day :
              localDay[d][b] = "CLOSED" => localDay'[d][b] = "CLOSED"]_vars
  BY LocalStep DEF KeepsClosedDays
<1> QED
  BY <1>1, <1>2, <1>3, PTL DEF Spec, EndedDayStaysEnded
-----------------------------------------------------------------------------
\* What a sequence holds after the operations on the outbox.
LEMMA RangeOfAppend ==
  ASSUME NEW E, NEW q \in Seq(E), NEW x \in E
  PROVE  Append(q, x) \in Seq(E) /\ Range(Append(q, x)) = Range(q) \cup {x}
<1> DEFINE p == Append(q, x)
<1>1. /\ p \in Seq(E) /\ Len(p) = Len(q) + 1 /\ p[Len(q) + 1] = x
      /\ \A i \in 1..Len(q) : p[i] = q[i]
  OBVIOUS
<1>2. Len(q) \in Nat /\ 1..(Len(q) + 1) = (1..Len(q)) \cup {Len(q) + 1}
  OBVIOUS
<1> HIDE DEF p
<1>3. Range(p) = {p[i] : i \in 1..Len(p)} /\ Range(q) = {q[i] : i \in 1..Len(q)}
  BY <1>1 DEF Range
<1> QED
  BY <1>1, <1>2, <1>3 DEF p

LEMMA RangeOfShort == ASSUME NEW x PROVE Range(<<x>>) = {x} /\ Range(<<>>) = {}
<1>1. DOMAIN <<x>> = 1..1 /\ <<x>>[1] = x /\ 1..1 = {1}
  OBVIOUS
<1>2. Range(<<x>>) = {x}
  BY <1>1 DEF Range
<1>3. DOMAIN <<>> = {}
  OBVIOUS
<1>4. Range(<<>>) = {}
  BY <1>3 DEF Range
<1> QED
  BY <1>2, <1>4

LEMMA RangeOfConcat ==
  ASSUME NEW E, NEW p \in Seq(E), NEW q \in Seq(E)
  PROVE  p \o q \in Seq(E) /\ Range(p \o q) = Range(p) \cup Range(q)
<1> DEFINE r == p \o q
<1>1. /\ r \in Seq(E) /\ Len(r) = Len(p) + Len(q)
      /\ \A i \in 1..Len(r) : r[i] = IF i <= Len(p) THEN p[i] ELSE q[i - Len(p)]
  OBVIOUS
<1>2. Len(p) \in Nat /\ Len(q) \in Nat
  OBVIOUS
<1> HIDE DEF r
<1>3. /\ Range(r) = {r[i] : i \in 1..Len(r)}
      /\ Range(p) = {p[i] : i \in 1..Len(p)} /\ Range(q) = {q[i] : i \in 1..Len(q)}
  <2>1. DOMAIN r = 1..Len(r) /\ DOMAIN p = 1..Len(p) /\ DOMAIN q = 1..Len(q)
    BY <1>1
  <2> QED
    BY <2>1 DEF Range
<1>4. Range(r) \subseteq Range(p) \cup Range(q)
  <2> SUFFICES ASSUME NEW i \in 1..Len(r) PROVE r[i] \in Range(p) \cup Range(q)
    BY <1>3
  <2>1. i <= Len(p) => i \in 1..Len(p)
    BY <1>2
  <2>2. i > Len(p) => i - Len(p) \in 1..Len(q)
    BY <1>1, <1>2
  <2> QED
    BY <1>1, <1>2, <1>3, <2>1, <2>2
<1>5. Range(p) \subseteq Range(r)
  <2> SUFFICES ASSUME NEW i \in 1..Len(p) PROVE p[i] \in Range(r)
    BY <1>3
  <2>1. i \in 1..Len(r) /\ i <= Len(p)
    BY <1>1, <1>2
  <2> QED
    BY <1>1, <1>3, <2>1
<1>6. Range(q) \subseteq Range(r)
  <2> SUFFICES ASSUME NEW i \in 1..Len(q) PROVE q[i] \in Range(r)
    BY <1>3
  <2>1. i + Len(p) \in 1..Len(r) /\ ~(i + Len(p) <= Len(p)) /\ (i + Len(p)) - Len(p) = i
    BY <1>1, <1>2
  <2> QED
    BY <1>1, <1>3, <2>1
<1> QED
  BY <1>1, <1>4, <1>5, <1>6 DEF r

LEMMA RangeOfHeadTail ==
  ASSUME NEW E, NEW q \in Seq(E), q # <<>>
  PROVE  /\ Tail(q) \in Seq(E) /\ Head(q) \in E
         /\ Range(q) = {Head(q)} \cup Range(Tail(q))
<1> DEFINE t == Tail(q)
<1>1. /\ t \in Seq(E) /\ Head(q) \in E /\ Head(q) = q[1] /\ Len(t) = Len(q) - 1
      /\ \A i \in 1..Len(t) : t[i] = q[i + 1]
  OBVIOUS
<1>2. Len(q) \in Nat /\ Len(q) >= 1
  OBVIOUS
<1> HIDE DEF t
<1>3. Range(t) = {t[i] : i \in 1..Len(t)} /\ Range(q) = {q[i] : i \in 1..Len(q)}
  <2>1. DOMAIN t = 1..Len(t) /\ DOMAIN q = 1..Len(q)
    BY <1>1
  <2> QED
    BY <2>1, Zenon DEF Range
<1>4. Range(q) \subseteq {Head(q)} \cup Range(t)
  <2> SUFFICES ASSUME NEW i \in 1..Len(q), i # 1 PROVE q[i] \in Range(t)
    BY <1>1, <1>3
  <2>1. i - 1 \in 1..Len(t) /\ (i - 1) + 1 = i
    BY <1>1, <1>2
  <2> QED
    BY <1>1, <1>3, <2>1
<1>5. {Head(q)} \cup Range(t) \subseteq Range(q)
  <2>1. 1 \in 1..Len(q) /\ \A i \in 1..Len(t) : i + 1 \in 1..Len(q)
    BY <1>1, <1>2
  <2> QED
    BY <1>1, <1>3, <2>1
<1> QED
  BY <1>1, <1>4, <1>5 DEF t

\* The recursion by which rows are dropped, unfolded.
LEMMA WithoutUnfolds ==
  ASSUME NEW E, NEW s \in Seq(E), NEW T
  PROVE  \E rest : /\ rest[0] = <<>> /\ Without(s, T) = rest[Len(s)]
                   /\ \A n \in 1..Len(s) :
                        rest[n] = IF s[n] \in T THEN rest[n - 1] ELSE Append(rest[n - 1], s[n])
<1> DEFINE Next1(F, i) == IF i = 0 THEN <<>>
                          ELSE IF s[i] \in T THEN F[i - 1] ELSE Append(F[i - 1], s[i])
           Table(F, n) == F = [i \in 0..n |-> Next1(F, i)]
           G == {n \in Nat : \E F : Table(F, n)}
<1>1. 0 \in G
  <2>1. Table([i \in 0..0 |-> <<>>], 0)
    OBVIOUS
  <2> QED
    BY <2>1
<1>2. ASSUME NEW n \in Nat, n \in G
      PROVE  n + 1 \in G
  <2>1. PICK F : Table(F, n)
    BY <1>2
  <2> DEFINE H == [i \in 0..(n + 1) |-> IF i = n + 1 THEN Next1(F, n + 1) ELSE F[i]]
  <2>2. ASSUME NEW i \in 0..(n + 1) PROVE H[i] = Next1(H, i)
    <3>1. CASE i = 0
      BY <2>1, <3>1
    <3>2. CASE i \in 1..n
      <4>1. i - 1 \in 0..(n + 1) /\ i - 1 # n + 1 /\ i # n + 1 /\ i \in 0..n /\ i # 0
        BY <3>2
      <4>2. H[i] = F[i] /\ H[i - 1] = F[i - 1]
        BY <4>1
      <4>3. F[i] = Next1(F, i)
        BY <2>1, <4>1
      <4> QED
        BY <4>1, <4>2, <4>3
    <3>3. CASE i = n + 1
      <4>1. n \in 0..(n + 1) /\ n # n + 1 /\ i - 1 = n /\ i # 0
        BY <3>3
      <4>2. H[n] = F[n] /\ H[i] = Next1(F, n + 1) /\ (n + 1) - 1 = n
        BY <3>3, <4>1
      <4> QED
        BY <3>3, <4>1, <4>2
    <3> QED
      BY <3>1, <3>2, <3>3
  <2>3. Table(H, n + 1)
    <3>1. H = [i \in 0..(n + 1) |-> H[i]]
      OBVIOUS
    <3> HIDE DEF H
    <3> QED
      BY <2>2, <3>1
  <2> HIDE DEF H, Table
  <2> QED
    BY <2>3
<1>3. Len(s) \in Nat /\ s \in [1..Len(s) -> E] /\ DOMAIN s = 1..Len(s)
  OBVIOUS
<1>4. PICK F0 : Table(F0, Len(s))
  <2> HIDE DEF Table
  <2>1. Nat \subseteq G
    <3> HIDE DEF G
    <3> QED
      BY <1>1, <1>2, InductionOnNat
  <2> QED
    BY <1>3, <2>1
<1> DEFINE rest == CHOOSE F : Table(F, Len(s))
<1>5. Table(rest, Len(s))
  BY <1>4
<1>6. Without(s, T) = rest[Len(s)]
  BY DEF Without
<1> HIDE DEF rest
<1>7. rest[0] = <<>>
  BY <1>3, <1>5
<1>8. ASSUME NEW n \in 1..Len(s)
      PROVE  rest[n] = IF s[n] \in T THEN rest[n - 1] ELSE Append(rest[n - 1], s[n])
  <2>1. n \in 0..Len(s) /\ n # 0
    BY <1>3
  <2> QED
    BY <1>5, <2>1
<1> QED
  BY <1>6, <1>7, <1>8

\* Dropping rows keeps the others, in a sequence of the same kind of rows.
LEMMA WithoutKeepsTheRest ==
  ASSUME NEW E, NEW s \in Seq(E), NEW T
  PROVE  Without(s, T) \in Seq(E) /\ Range(Without(s, T)) = Range(s) \ T
<1>3. Len(s) \in Nat /\ s \in [1..Len(s) -> E] /\ DOMAIN s = 1..Len(s)
  OBVIOUS
<1>5. PICK rest : /\ rest[0] = <<>> /\ Without(s, T) = rest[Len(s)]
                  /\ \A n \in 1..Len(s) :
                       rest[n] = IF s[n] \in T THEN rest[n - 1] ELSE Append(rest[n - 1], s[n])
  BY WithoutUnfolds
<1>6. Without(s, T) = rest[Len(s)]
  BY <1>5
<1> DEFINE K == {n \in Nat : n <= Len(s) => /\ rest[n] \in Seq(E)
                                            /\ Range(rest[n]) = {s[i] : i \in 1..n} \ T}
<1>7. 0 \in K
  <2>1. rest[0] = <<>>
    BY <1>3, <1>5
  <2>2. Range(rest[0]) = {} /\ 1..0 = {} /\ rest[0] \in Seq(E)
    BY <2>1 DEF Range
  <2> QED
    BY <2>2
<1>8. ASSUME NEW n \in Nat, n \in K
      PROVE  n + 1 \in K
  <2> SUFFICES ASSUME n + 1 <= Len(s)
               PROVE  /\ rest[n + 1] \in Seq(E)
                      /\ Range(rest[n + 1]) = {s[i] : i \in 1..(n + 1)} \ T
    OBVIOUS
  <2>1. rest[n] \in Seq(E) /\ Range(rest[n]) = {s[i] : i \in 1..n} \ T
    BY <1>3, <1>8
  <2>2. rest[n + 1] = IF s[n + 1] \in T THEN rest[n] ELSE Append(rest[n], s[n + 1])
    <3>1. n + 1 \in 1..Len(s) /\ (n + 1) - 1 = n
      BY <1>3
    <3> QED
      BY <1>5, <3>1
  <2>3. s[n + 1] \in E
    BY <1>3
  <2>4. {s[i] : i \in 1..(n + 1)} = {s[i] : i \in 1..n} \cup {s[n + 1]}
    <3>1. 1..(n + 1) = (1..n) \cup {n + 1}
      OBVIOUS
    <3> QED
      BY <3>1
  <2>5. CASE s[n + 1] \in T
    BY <2>1, <2>2, <2>4, <2>5
  <2>6. CASE s[n + 1] \notin T
    <3>1. rest[n + 1] = Append(rest[n], s[n + 1])
      BY <2>2, <2>6
    <3>2. Range(Append(rest[n], s[n + 1])) = Range(rest[n]) \cup {s[n + 1]}
      BY <2>1, <2>3, RangeOfAppend
    <3> QED
      BY <2>1, <2>3, <2>4, <2>6, <3>1, <3>2
  <2> QED
    BY <2>5, <2>6
<1>9. Len(s) \in K
  <2> HIDE DEF K
  <2> QED
    BY <1>3, <1>7, <1>8, InductionOnNat
<1> QED
  BY <1>3, <1>6, <1>9 DEF Range
-----------------------------------------------------------------------------
\* A browser's outbox rows, pending and quarantined.
Rows(d)  == Pending(d) \cup refused[d]
RowTypes == box \in [Device -> Seq(Event)] /\ refused \in [Device -> SUBSET Event]

LEMMA RowsAreEvents ==
  ASSUME RowTypes, NEW d \in Device
  PROVE  Pending(d) \subseteq Event /\ Rows(d) \subseteq Event
<1>1. box[d] \in Seq(Event) /\ refused[d] \subseteq Event
  BY DEF RowTypes
<1>2. Range(box[d]) \subseteq Event
  BY <1>1 DEF Range
<1> QED
  BY <1>1, <1>2 DEF Rows, Pending

\* Appending rows: each is pending or quarantined afterwards.
LEMMA EnqueueRows ==
  ASSUME RowTypes, NEW d \in Device, NEW events \in Seq(Event), Enqueue(d, events)
  PROVE  /\ RowTypes'
         /\ Rows(d)' = Rows(d) \cup Range(events)
         /\ \A x \in Device : x # d => Rows(x)' = Rows(x)
<1> DEFINE blocked == {e \in Range(events) : \E q \in refused[d] : Precedes(q, e)}
           sent    == Without(events, blocked)
<1>1. /\ box' = [box EXCEPT ![d] = box[d] \o sent]
      /\ refused' = [refused EXCEPT ![d] = refused[d] \cup blocked]
  BY DEF Enqueue
<1>2. Range(events) \subseteq Event
  BY DEF Range
<1>3. blocked \subseteq Range(events)
  OBVIOUS
<1> HIDE DEF blocked
<1>4. sent \in Seq(Event) /\ Range(sent) = Range(events) \ blocked
  BY WithoutKeepsTheRest
<1> HIDE DEF sent
<1>5. box[d] \in Seq(Event) /\ refused[d] \subseteq Event
  BY DEF RowTypes
<1>6. /\ box[d] \o sent \in Seq(Event)
      /\ Range(box[d] \o sent) = Range(box[d]) \cup Range(sent)
  BY <1>4, <1>5, RangeOfConcat
<1>7. RowTypes'
  BY <1>1, <1>2, <1>3, <1>5, <1>6 DEF RowTypes
<1>8. box'[d] = box[d] \o sent /\ refused'[d] = refused[d] \cup blocked
  BY <1>1 DEF RowTypes
<1>9. Rows(d)' = Rows(d) \cup Range(events)
  BY <1>3, <1>4, <1>6, <1>8 DEF Rows, Pending
<1>10. \A x \in Device : x # d => box'[x] = box[x] /\ refused'[x] = refused[x]
  BY <1>1 DEF RowTypes
<1> QED
  BY <1>7, <1>9, <1>10 DEF Rows, Pending

\* Quarantining rows of the outbox: none is lost.
LEMMA QuarantineRows ==
  ASSUME RowTypes, NEW d \in Device, NEW q \in Seq(Event), NEW moved, NEW head,
         Pending(d) = Range(q) \cup head, head \cup moved \subseteq Pending(d),
         box' = [box EXCEPT ![d] = Without(q, moved)],
         refused' = [refused EXCEPT ![d] = @ \cup head \cup moved]
  PROVE  /\ RowTypes'
         /\ \A x \in Device : Rows(x)' = Rows(x)
<1> DEFINE kept == Without(q, moved)
<1>1. kept \in Seq(Event) /\ Range(kept) = Range(q) \ moved
  BY WithoutKeepsTheRest
<1> HIDE DEF kept
<1>2. Pending(d) \subseteq Event
  BY RowsAreEvents
<1>3. RowTypes'
  BY <1>1, <1>2 DEF RowTypes, kept
<1>4. box'[d] = kept /\ refused'[d] = refused[d] \cup head \cup moved
  BY DEF RowTypes, kept
<1>5. Rows(d)' = Rows(d)
  BY <1>1, <1>4 DEF Rows, Pending
<1>6. \A x \in Device : x # d => box'[x] = box[x] /\ refused'[x] = refused[x]
  BY DEF RowTypes
<1> QED
  BY <1>3, <1>5, <1>6 DEF Rows, Pending

\* What any step does to the rows and receipts: a row stays with its browser
\* until it has its receipt, and the row that closes a day is written by the
\* transaction that closes it.
RowsMove ==
  /\ RowTypes' /\ receipts' \subseteq Event
  /\ \A x \in Device : receipts \cup Rows(x) \subseteq receipts' \cup Rows(x)'
  /\ \A x \in Device : \A e \in Rows(x)' \ Rows(x) :
       /\ e.by = x
       /\ e.type = "BUSINESS_DAY_CLOSED"
            => localDay[x][e.day] = "OPEN" /\ localDay'[x][e.day] = "CLOSED"
  /\ \A e \in receipts' \ receipts : \E x \in Device : e \in Rows(x)

\* And to the sessions: one that ends leaves a row that ends it, or a login
\* closed its day.
SessionMoves(s) ==
  /\ localSession'[s] # "NONE" => sessionDay'[s] \in Day
  /\ localSession'[s] = "ENDED" =>
       \/ localSession[s] = "ENDED" /\ sessionDay'[s] = sessionDay[s]
       \/ \E e \in Rows(s[1])' : s \in e.ends
       \/ /\ sessionDay'[s] = sessionDay[s] /\ localDay[s[1]][sessionDay[s]] = "OPEN"
          /\ localDay'[s[1]][sessionDay[s]] = "CLOSED"
          /\ Rows(s[1])' = Rows(s[1]) /\ receipts' = receipts

Moves == RowsMove /\ \A s \in Session : SessionMoves(s)

OwnRows == \A d \in Device : \A e \in Rows(d) : e.by = d
SessionDays == \A s \in Session : localSession[s] # "NONE" => sessionDay[s] \in Day
EndsAreTold ==
  \A s \in Session : localSession[s] = "ENDED"
    => (\E e \in receipts \cup Rows(s[1]) : s \in e.ends) \/ ArchivedByLogin(s)
ReceiptsEnd == \A e \in receipts : \A s \in e.ends : lease[s] = "ENDED"
CloseIsLocal ==
  \A d \in Device : \A e \in receipts \cup Rows(d) :
    e.type = "BUSINESS_DAY_CLOSED" /\ e.by = d => localDay[d][e.day] = "CLOSED"

\* The invariant behind NoGhostSession: every end of a session on a browser is
\* told to the server, or a login archived the day; and the receipt of an end
\* is the end of the lease, so that a lease still open has its row on the way.
GhostInv ==
  /\ TypeOK /\ LocalInv /\ OwnRows /\ SessionDays
  /\ EndsAreTold /\ ReceiptsEnd /\ CloseIsLocal

LEMMA SessionOwner == \A s \in Session : s[1] \in Device
BY DEF Session

LEMMA EvtIsEvent ==
  ASSUME NEW type \in EventType, NEW d \in Device, NEW b \in Day,
         NEW starts \in SUBSET Session, NEW ends \in SUBSET Session
  PROVE  Evt(type, d, b, starts, ends) \in Event
BY DEF Evt, Event

\* A step that writes none of the tables of the outbox and the sessions.
LEMMA QuietMoves ==
  ASSUME GhostInv, UNCHANGED <<localSession, sessionDay, box, refused, receipts>>
  PROVE  Moves
<1>1. \A x \in Device : Rows(x)' = Rows(x)
  BY DEF Rows, Pending
<1>2. RowTypes' /\ receipts' \subseteq Event
  BY DEF GhostInv, TypeOK, RowTypes
<1>3. RowsMove
  BY <1>1, <1>2 DEF RowsMove
<1> QED
  BY <1>3 DEF Moves, SessionMoves, GhostInv, SessionDays

\* Sign-in and switch: the row that starts the new session ends the old one.
LEMMA SignInMoves ==
  ASSUME GhostInv, NEW d \in Device, TransitionToWorker(d), receipts' = receipts
  PROVE  Moves
<1> DEFINE new == OpenDays(d) = {}
           old == OpenSessions(d)
<1>1. PICK b \in Day, n \in 1..MaxSessions[d] :
        /\ localSession[<<d, n>>] = "NONE"
        /\ localSession' = [x \in Session |-> IF x = <<d, n>> THEN "OPEN"
                              ELSE IF x \in old THEN "ENDED" ELSE localSession[x]]
        /\ sessionDay' = [sessionDay EXCEPT ![<<d, n>>] = b]
        /\ Enqueue(d, (IF new THEN <<Evt("BUSINESS_DAY_STARTED", d, b, {}, {})>> ELSE <<>>)
                      \o <<Evt("WORKER_SIGNED_IN", d, b, {<<d, n>>}, old)>>)
  BY DEF TransitionToWorker
<1> DEFINE s   == <<d, n>>
           one == Evt("BUSINESS_DAY_STARTED", d, b, {}, {})
           two == Evt("WORKER_SIGNED_IN", d, b, {s}, old)
           events == (IF new THEN <<one>> ELSE <<>>) \o <<two>>
<1>2. s \in Session /\ old \subseteq Session
  BY BoundsAssumption DEF Session, OpenSessions
<1>3. one \in Event /\ two \in Event
  BY <1>2, EvtIsEvent DEF EventType
<1>4. /\ one.by = d /\ two.by = d /\ two.ends = old
      /\ one.type # "BUSINESS_DAY_CLOSED" /\ two.type # "BUSINESS_DAY_CLOSED"
  BY DEF Evt
<1>5. Enqueue(d, events)
  BY <1>1
<1> HIDE DEF one, two, new, old
<1>6. events \in Seq(Event) /\ Range(events) \subseteq {one, two} /\ two \in Range(events)
  <2> DEFINE first == IF new THEN <<one>> ELSE <<>>
  <2>1. first \in Seq(Event) /\ <<two>> \in Seq(Event)
    BY <1>3
  <2>2. Range(<<one>>) = {one} /\ Range(<<two>>) = {two} /\ Range(<<>>) = {}
    BY RangeOfShort
  <2>3. Range(first) \subseteq {one}
    BY <2>2
  <2>4. events = first \o <<two>>
    OBVIOUS
  <2> HIDE DEF events, first
  <2>5. events \in Seq(Event) /\ Range(events) = Range(first) \cup Range(<<two>>)
    <3>1. \A p, q \in Seq(Event) : p \o q \in Seq(Event) /\ Range(p \o q) = Range(p) \cup Range(q)
      BY RangeOfConcat
    <3> QED
      BY <2>1, <2>4, <3>1, Zenon
  <2> QED
    BY <2>2, <2>3, <2>5
<1> HIDE DEF events
<1>7. RowTypes /\ receipts \subseteq Event
  BY DEF GhostInv, TypeOK, RowTypes
<1>8. /\ RowTypes' /\ Rows(d)' = Rows(d) \cup Range(events)
      /\ \A x \in Device : x # d => Rows(x)' = Rows(x)
  BY <1>5, <1>6, <1>7, EnqueueRows
<1>9. RowsMove
  <2>1. \A e \in Range(events) : e.by = d /\ e.type # "BUSINESS_DAY_CLOSED"
    BY <1>4, <1>6
  <2> QED
    BY <1>7, <1>8, <2>1 DEF RowsMove
<1>10. ASSUME NEW t \in Session PROVE SessionMoves(t)
  <2>1. CASE t = s
    BY <1>1, <1>2, <2>1 DEF SessionMoves, GhostInv, TypeOK
  <2>2. CASE t # s /\ t \in old
    <3>1. t[1] = d /\ localSession[t] = "OPEN"
      BY <2>2 DEF old, OpenSessions
    <3>2. two \in Rows(d)' /\ t \in two.ends
      BY <1>4, <1>6, <1>8, <2>2
    <3> QED
      BY <1>1, <1>2, <2>2, <3>1, <3>2 DEF SessionMoves, GhostInv, TypeOK, SessionDays
  <2>3. CASE t # s /\ t \notin old
    BY <1>1, <1>2, <2>3 DEF SessionMoves, GhostInv, TypeOK, SessionDays
  <2> QED
    BY <2>1, <2>2, <2>3
<1> QED
  BY <1>9, <1>10 DEF Moves

\* Ending a browser's sessions with rows one of which ends them.
LEMMA EndMoves ==
  ASSUME GhostInv, NEW d \in Device, UNCHANGED <<sessionDay, receipts>>,
         localSession' = [s \in Session |-> IF s \in OpenSessions(d) THEN "ENDED"
                                            ELSE localSession[s]],
         NEW events \in Seq(Event), Enqueue(d, events),
         \E e \in Range(events) : e.ends = OpenSessions(d),
         \A e \in Range(events) :
           /\ e.by = d
           /\ e.type = "BUSINESS_DAY_CLOSED"
                => localDay[d][e.day] = "OPEN" /\ localDay'[d][e.day] = "CLOSED"
  PROVE  Moves
<1>1. RowTypes /\ receipts \subseteq Event
  BY DEF GhostInv, TypeOK, RowTypes
<1>2. /\ RowTypes' /\ Rows(d)' = Rows(d) \cup Range(events)
      /\ \A x \in Device : x # d => Rows(x)' = Rows(x)
  BY <1>1, EnqueueRows
<1>3. RowsMove
  BY <1>1, <1>2 DEF RowsMove
<1>4. ASSUME NEW s \in Session PROVE SessionMoves(s)
  <2>1. CASE s \in OpenSessions(d)
    <3>1. s[1] = d /\ localSession[s] = "OPEN"
      BY <2>1 DEF OpenSessions
    <3> QED
      BY <1>2, <2>1, <3>1 DEF SessionMoves, GhostInv, SessionDays
  <2>2. CASE s \notin OpenSessions(d)
    BY <2>2 DEF SessionMoves, GhostInv, SessionDays
  <2> QED
    BY <2>1, <2>2
<1> QED
  BY <1>3, <1>4 DEF Moves

\* OperationsSessionService.signOut, after SIGNED_OUT or by the fence.
LEMMA SignOutMoves ==
  ASSUME GhostInv, NEW d \in Device, EndLocalSession(d), receipts' = receipts
  PROVE  Moves
<1>1. CASE OpenSessions(d) = {}
  <2>1. localSession' = localSession
    BY <1>1 DEF EndLocalSession, GhostInv, TypeOK
  <2> QED
    BY <1>1, <2>1, QuietMoves DEF EndLocalSession
<1>2. CASE OpenSessions(d) # {}
  <2>1. PICK b \in OpenDays(d) :
          Enqueue(d, <<Evt("WORKER_SIGNED_OUT", d, b, {}, OpenSessions(d))>>)
    BY <1>2 DEF EndLocalSession
  <2> DEFINE e == Evt("WORKER_SIGNED_OUT", d, b, {}, OpenSessions(d))
  <2>2. e \in Event
    BY EvtIsEvent DEF EventType, OpenDays, OpenSessions
  <2>3. e.by = d /\ e.type # "BUSINESS_DAY_CLOSED" /\ e.ends = OpenSessions(d)
    BY DEF Evt
  <2>4. Enqueue(d, <<e>>)
    BY <2>1
  <2> HIDE DEF e
  <2>5. <<e>> \in Seq(Event) /\ Range(<<e>>) = {e}
    BY <2>2 DEF Range
  <2> QED
    BY <2>3, <2>4, <2>5, EndMoves DEF EndLocalSession
<1> QED
  BY <1>1, <1>2

LEMMA CloseDayMoves ==
  ASSUME GhostInv, NEW d \in Device, CloseDay(d)
  PROVE  Moves
<1>1. PICK b \in OpenDays(d) :
        /\ localDay' = [localDay EXCEPT ![d][b] = "CLOSED"]
        /\ Enqueue(d, EndDayEvents(d, b))
  BY DEF CloseDay
<1> DEFINE one   == Evt("RECONCILIATION_RECORDED", d, b, {}, {})
           two   == Evt("BUSINESS_DAY_CLOSED", d, b, {}, {})
           three == Evt("WORKER_SIGNED_OUT", d, b, {}, OpenSessions(d))
<1>2. b \in Day /\ localDay[d][b] = "OPEN" /\ localDay'[d][b] = "CLOSED"
  BY <1>1 DEF OpenDays, GhostInv, TypeOK
<1>3. one \in Event /\ two \in Event /\ three \in Event
  BY <1>2, EvtIsEvent DEF EventType, OpenSessions
<1>4. /\ one.by = d /\ two.by = d /\ three.by = d /\ two.day = b /\ three.ends = OpenSessions(d)
      /\ one.type # "BUSINESS_DAY_CLOSED" /\ three.type # "BUSINESS_DAY_CLOSED"
  BY DEF Evt
<1>5. Enqueue(d, <<one, two, three>>)
  BY <1>1 DEF EndDayEvents
<1> HIDE DEF one, two, three
<1> DEFINE events == <<one, two, three>>
<1>6. events \in Seq(Event) /\ Range(events) = {one, two, three}
  BY <1>3 DEF Range
<1>7. Enqueue(d, events)
  BY <1>5
<1> HIDE DEF events
<1> QED
  BY <1>2, <1>4, <1>6, <1>7, EndMoves DEF CloseDay, memory, server

\* Adoption: the archived session's day closes, and its rows are quarantined.
LEMMA AdoptMoves ==
  ASSUME GhostInv, NEW d \in Device, LoginAdopt(d)
  PROVE  Moves
<1> DEFINE v == view[d]
           old == v.mine \ v.open
           stranded == {e \in Pending(d) : e.day \in old}
<1>1. /\ box' = [box EXCEPT ![d] = Without(box[d], stranded)]
      /\ refused' = [refused EXCEPT ![d] = refused[d] \cup stranded]
      /\ localSession' = [s \in Session |-> IF s \in ArchivedSessions(d, old)
                                            THEN "ENDED" ELSE localSession[s]]
      /\ UNCHANGED <<sessionDay, receipts>>
  BY DEF LoginAdopt, server
<1>2. RowTypes /\ receipts \subseteq Event /\ box[d] \in Seq(Event)
  BY DEF GhostInv, TypeOK, RowTypes
<1>3. RowTypes' /\ \A x \in Device : Rows(x)' = Rows(x)
  <2>1. stranded \subseteq Pending(d) /\ Pending(d) = Range(box[d]) \cup {}
    BY DEF Pending
  <2>2. /\ box' = [box EXCEPT ![d] = Without(box[d], stranded)]
        /\ refused' = [refused EXCEPT ![d] = @ \cup {} \cup stranded]
        /\ {} \cup stranded \subseteq Pending(d)
    BY <1>1
  <2> HIDE DEF stranded
  <2> QED
    BY <1>2, <2>1, <2>2, QuarantineRows
<1>4. RowsMove
  BY <1>1, <1>2, <1>3 DEF RowsMove
<1>5. ASSUME NEW s \in Session PROVE SessionMoves(s)
  <2>1. CASE s \in ArchivedSessions(d, old)
    <3>1. s[1] = d /\ sessionDay[s] \in OpenDays(d) /\ sessionDay[s] \in old
      BY <2>1 DEF ArchivedSessions, OpenSessions
    <3>2. sessionDay[s] \in Day /\ localDay[d][sessionDay[s]] = "OPEN"
      BY <3>1 DEF OpenDays
    <3>3. localDay'[d][sessionDay[s]] = "CLOSED"
      BY <3>1, <3>2 DEF LoginAdopt, GhostInv, TypeOK
    <3> QED
      BY <1>1, <1>3, <2>1, <3>1, <3>2, <3>3 DEF SessionMoves
  <2>2. CASE s \notin ArchivedSessions(d, old)
    BY <1>1, <2>2 DEF SessionMoves, GhostInv, SessionDays
  <2> QED
    BY <2>1, <2>2
<1> QED
  BY <1>4, <1>5 DEF Moves

\* Delivery: the oldest row gets its receipt, or is quarantined with the rows
\* that depend on it.
LEMMA DeliverMoves ==
  ASSUME GhostInv, NEW d \in Device, Deliver(d) \/ DeliverUnanswered(d)
  PROVE  Moves
<1> DEFINE e == Head(box[d])
<1>1. RowTypes /\ receipts \subseteq Event /\ box[d] \in Seq(Event)
  BY DEF GhostInv, TypeOK, RowTypes
<1>2. /\ box[d] # <<>> /\ UNCHANGED <<localSession, sessionDay>>
  BY DEF Deliver, DeliverUnanswered, local
<1>3. /\ Tail(box[d]) \in Seq(Event) /\ e \in Event
      /\ Pending(d) = {e} \cup Range(Tail(box[d]))
  BY <1>1, <1>2, RangeOfHeadTail DEF Pending
<1>4. \A s \in Session : SessionMoves(s)
  BY <1>2 DEF SessionMoves, GhostInv, SessionDays
<1>5. CASE DeliverUnanswered(d)
  <2>1. receipts' = receipts \cup {e} /\ UNCHANGED <<box, refused>>
    BY <1>5 DEF DeliverUnanswered, Ingest, local
  <2>2. \A x \in Device : Rows(x)' = Rows(x)
    BY <2>1 DEF Rows, Pending
  <2>3. RowTypes'
    BY <1>1, <2>1 DEF RowTypes
  <2>4. RowsMove
    BY <1>1, <1>3, <2>1, <2>2, <2>3 DEF RowsMove, Rows
  <2> QED
    BY <1>4, <2>4 DEF Moves
<1>6. CASE Deliver(d) /\ Answer(e) \in {"APPLIED", "REPLAY"}
  <2>1. /\ receipts' = receipts \cup {e} /\ UNCHANGED refused
        /\ box' = [box EXCEPT ![d] = Tail(box[d])]
    BY <1>6 DEF Deliver, Ingest
  <2>2. RowTypes'
    BY <1>1, <1>3, <2>1 DEF RowTypes
  <2>3. \A x \in Device : x # d => Rows(x)' = Rows(x)
    <3>1. \A x \in Device : x # d => box'[x] = box[x]
      BY <1>1, <2>1 DEF RowTypes
    <3> QED
      BY <2>1, <3>1 DEF Rows, Pending
  <2>4. Rows(d)' = Range(Tail(box[d])) \cup refused[d]
    <3>1. box'[d] = Tail(box[d])
      BY <1>1, <2>1 DEF RowTypes
    <3> QED
      BY <2>1, <3>1 DEF Rows, Pending
  <2>5. Rows(d) = {e} \cup Rows(d)'
    BY <1>3, <2>4 DEF Rows
  <2> HIDE DEF e
  <2>6. RowsMove
    BY <1>1, <1>3, <2>1, <2>2, <2>3, <2>5 DEF RowsMove
  <2> QED
    BY <1>4, <2>6 DEF Moves
<1>7. CASE Deliver(d) /\ Answer(e) = "PERMANENT"
  <2> DEFINE dependents == {x \in Pending(d) : Precedes(e, x)}
  <2>1. /\ box' = [box EXCEPT ![d] = Without(Tail(box[d]), dependents)]
        /\ refused' = [refused EXCEPT ![d] = refused[d] \cup {e} \cup dependents]
        /\ receipts' = receipts
    BY <1>7 DEF Deliver, server
  <2>2. dependents \subseteq Pending(d)
    OBVIOUS
  <2> HIDE DEF dependents, e
  <2>3. RowTypes' /\ \A x \in Device : Rows(x)' = Rows(x)
    <3>1. Pending(d) = Range(Tail(box[d])) \cup {e} /\ {e} \cup dependents \subseteq Pending(d)
      BY <1>3, <2>2
    <3>2. refused' = [refused EXCEPT ![d] = @ \cup {e} \cup dependents]
      BY <2>1
    <3> QED
      BY <1>1, <1>3, <2>1, <3>1, <3>2, QuarantineRows, Zenon
  <2>4. RowsMove
    BY <1>1, <2>1, <2>3 DEF RowsMove
  <2> QED
    BY <1>4, <2>4 DEF Moves
<1> QED
  BY <1>5, <1>6, <1>7 DEF Deliver

LEMMA EveryStepMoves ==
  ASSUME GhostInv, [Next]_vars
  PROVE  Moves
<1>1. ASSUME NEW d \in Device, DeviceNext(d) PROVE Moves
  <2>1. CASE SignInOffline(d) \/ LoginSignsIn(d)
    BY <2>1, SignInMoves DEF SignInOffline, LoginSignsIn, server
  <2>2. CASE SignOut(d) \/ Fence(d)
    BY <2>2, SignOutMoves DEF SignOut, Fence, server
  <2>3. CASE CloseDay(d)
    BY <2>3, CloseDayMoves
  <2>4. CASE LoginAdopt(d)
    BY <2>4, AdoptMoves
  <2>5. CASE Deliver(d) \/ DeliverUnanswered(d)
    BY <2>5, DeliverMoves
  <2>6. CASE \/ LoginRead(d) \/ LoginRefused(d) \/ LoginNeedsNothing(d) \/ LoginKeepsWorker(d)
             \/ Reload(d) \/ Heartbeat(d) \/ PrepareExit(d)
    BY <2>6, QuietMoves DEF LoginRead, LoginRefused, LoginNeedsNothing, LoginKeepsWorker, Reload,
         Heartbeat, PrepareExit, local, server
  <2> QED
    BY <1>1, <2>1, <2>2, <2>3, <2>4, <2>5, <2>6 DEF DeviceNext
<1>2. ASSUME NEW s \in Session, TimePasses(s) PROVE Moves
  BY <1>2, QuietMoves DEF TimePasses, local
<1>3. CASE UNCHANGED vars
  BY <1>3, QuietMoves DEF vars, local, server
<1> QED
  BY <1>1, <1>2, <1>3 DEF Next

\* A receipt comes with the end of every lease its event ends.
LEMMA ReceiptsEndStep ==
  ASSUME GhostInv, [Next]_vars
  PROVE  ReceiptsEnd'
<1>1. \A s \in Session : lease[s] = "ENDED" => lease'[s] = "ENDED"
  BY LeaseStep DEF GhostInv, TypeOK, LeaseType
<1>2. \A e \in receipts : e.ends \subseteq Session
  BY DEF GhostInv, TypeOK, Event
<1>3. CASE receipts' = receipts
  BY <1>1, <1>2, <1>3 DEF ReceiptsEnd, GhostInv
<1>4. ASSUME NEW d \in Device, Deliver(d) \/ DeliverUnanswered(d), receipts' # receipts
      PROVE  ReceiptsEnd'
  <2> DEFINE e == Head(box[d])
  <2>1. Ingest(e) /\ Answer(e) \in {"APPLIED", "REPLAY"}
    BY <1>4 DEF Deliver, DeliverUnanswered, server
  <2>2. receipts' = receipts \cup {e} /\ Answer(e) = "APPLIED"
    <3>1. receipts' = receipts \cup {e}
      BY <2>1 DEF Ingest
    <3>2. e \notin receipts
      BY <1>4, <3>1
    <3> QED
      BY <2>1, <3>1, <3>2 DEF Answer
  <2>3. e \in Event
    BY <1>4, RangeOfHeadTail DEF Deliver, DeliverUnanswered, GhostInv, TypeOK
  <2>4. \A s \in e.ends : s \in Session /\ lease'[s] = "ENDED"
    BY <2>1, <2>2, <2>3 DEF Ingest, LeaseAfter, Event
  <2> HIDE DEF e
  <2> QED
    BY <1>1, <1>2, <2>2, <2>4 DEF ReceiptsEnd, GhostInv
<1>5. ASSUME NEW d \in Device, DeviceNext(d)
      PROVE  receipts' = receipts \/ Deliver(d) \/ DeliverUnanswered(d)
  BY <1>5, ElsewhereKeepsDays DEF DeviceNext, Elsewhere
<1> QED
  BY <1>3, <1>4, <1>5 DEF Next, TimePasses, vars, server

LEMMA TypeStep ==
  ASSUME GhostInv, [Next]_vars
  PROVE  TypeOK'
<1>1. LocalInv' /\ LeaseType'
  BY LocalStep, LeaseStep DEF GhostInv, TypeOK, LeaseType
<1>2. RowTypes' /\ receipts' \subseteq Event
  BY EveryStepMoves DEF Moves, RowsMove
<1>3. leaving' \subseteq Device /\ lost' \subseteq Device
  <2>1. leaving \subseteq Device /\ lost \subseteq Device
    BY DEF GhostInv, TypeOK
  <2>2. ASSUME NEW d \in Device, DeviceNext(d)
        PROVE  leaving' \subseteq leaving \cup {d} /\ lost' \subseteq lost \cup {d}
    <3>1. CASE Heartbeat(d) \/ PrepareExit(d)
      BY <3>1 DEF Heartbeat, PrepareExit
    <3>2. CASE SignOut(d) \/ Fence(d) \/ Reload(d)
      BY <3>2 DEF SignOut, Fence, Reload
    <3>3. CASE ~(\/ Heartbeat(d) \/ PrepareExit(d) \/ SignOut(d) \/ Fence(d) \/ Reload(d))
      BY <2>2, <3>3 DEF DeviceNext, SignInOffline, LoginRead, LoginRefused, LoginAdopt,
           LoginNeedsNothing, LoginSignsIn, LoginKeepsWorker, CloseDay, Deliver,
           DeliverUnanswered, memory
    <3> QED
      BY <3>1, <3>2, <3>3
  <2> QED
    BY <2>1, <2>2 DEF Next, TimePasses, vars, memory
<1> QED
  BY <1>1, <1>2, <1>3 DEF TypeOK, LocalInv, LocalTypes, RegisterInv, LeaseType, RowTypes

\* The rows of a browser are its own, and the row that closes a day is there
\* only when the browser closed it.
LEMMA RowsStep ==
  ASSUME GhostInv, [Next]_vars
  PROVE  OwnRows' /\ SessionDays' /\ CloseIsLocal'
<1>1. Moves /\ KeepsClosedDays
  BY EveryStepMoves, LocalStep DEF GhostInv
<1>2. OwnRows'
  <2> SUFFICES ASSUME NEW d \in Device, NEW e \in Rows(d)' PROVE e.by = d
    BY DEF OwnRows
  <2> QED
    BY <1>1 DEF Moves, RowsMove, GhostInv, OwnRows
<1>3. SessionDays'
  BY <1>1 DEF Moves, SessionMoves, SessionDays
<1>4. CloseIsLocal'
  <2> SUFFICES ASSUME NEW d \in Device, NEW e \in receipts' \cup Rows(d)',
                      e.type = "BUSINESS_DAY_CLOSED", e.by = d
               PROVE  localDay'[d][e.day] = "CLOSED"
    BY DEF CloseIsLocal
  <2>1. CASE e \in receipts \cup Rows(d)
    <3>1. e \in Event
      BY <2>1, RowsAreEvents DEF GhostInv, TypeOK, RowTypes
    <3> QED
      BY <1>1, <2>1, <3>1 DEF GhostInv, CloseIsLocal, KeepsClosedDays, Event
  <2>2. CASE e \notin receipts \cup Rows(d)
    <3>1. e \in Rows(d)' \ Rows(d)
      <4>1. CASE e \in receipts'
        <5>1. PICK x \in Device : e \in Rows(x)
          BY <1>1, <2>2, <4>1 DEF Moves, RowsMove
        <5> QED
          BY <2>2, <5>1 DEF GhostInv, OwnRows
      <4> QED
        BY <2>2, <4>1
    <3> QED
      BY <1>1, <3>1 DEF Moves, RowsMove
  <2> QED
    BY <2>1, <2>2
<1> QED
  BY <1>2, <1>3, <1>4

\* No step makes a day that a login closed look ended by End Day.
LEMMA ArchivedStays ==
  ASSUME GhostInv, [Next]_vars, NEW d \in Device, NEW b \in Day,
         localDay[d][b] = "CLOSED", ~EndedByEndDay(d, b)
  PROVE  localDay'[d][b] = "CLOSED" /\ ~EndedByEndDay(d, b)'
<1>1. Moves /\ KeepsClosedDays
  BY EveryStepMoves, LocalStep DEF GhostInv
<1>2. localDay'[d][b] = "CLOSED"
  BY <1>1 DEF KeepsClosedDays
<1>3. ASSUME NEW e \in receipts' \cup Rows(d)', e.type = "BUSINESS_DAY_CLOSED", e.by = d, e.day = b
      PROVE  FALSE
  <2>1. e \notin receipts \cup Rows(d)
    BY <1>3 DEF EndedByEndDay, Rows
  <2>2. e \notin Rows(d)' \ Rows(d)
    BY <1>1, <1>3 DEF Moves, RowsMove
  <2>3. e \in receipts' \ receipts
    BY <1>3, <2>1, <2>2
  <2>4. PICK x \in Device : e \in Rows(x)
    BY <1>1, <2>3 DEF Moves, RowsMove
  <2> QED
    BY <1>3, <2>1, <2>4 DEF GhostInv, OwnRows
<1> QED
  BY <1>2, <1>3 DEF EndedByEndDay, Rows

LEMMA EndsAreToldStep ==
  ASSUME GhostInv, [Next]_vars
  PROVE  EndsAreTold'
<1>1. Moves
  BY EveryStepMoves
<1> SUFFICES ASSUME NEW s \in Session, localSession'[s] = "ENDED",
                    ~\E e \in receipts' \cup Rows(s[1])' : s \in e.ends
             PROVE  ArchivedByLogin(s)'
  BY DEF EndsAreTold
<1>2. s[1] \in Device /\ sessionDay'[s] \in Day
  BY <1>1, SessionOwner DEF Moves, SessionMoves
<1>3. receipts \cup Rows(s[1]) \subseteq receipts' \cup Rows(s[1])'
  BY <1>1, <1>2 DEF Moves, RowsMove
<1>4. CASE localSession[s] = "ENDED" /\ sessionDay'[s] = sessionDay[s]
  <2>1. ArchivedByLogin(s)
    BY <1>3, <1>4 DEF GhostInv, EndsAreTold
  <2>2. PICK b \in Day : b = sessionDay[s]
    BY <1>2, <1>4
  <2>3. PICK d \in Device : d = s[1]
    BY <1>2
  <2>4. localDay[d][b] = "CLOSED" /\ ~EndedByEndDay(d, b)
    BY <2>1, <2>2, <2>3 DEF ArchivedByLogin
  <2>5. localDay'[d][b] = "CLOSED" /\ ~EndedByEndDay(d, b)'
    BY <2>4, ArchivedStays
  <2> QED
    BY <1>4, <2>2, <2>3, <2>5 DEF ArchivedByLogin, EndedByEndDay
<1>5. CASE /\ sessionDay'[s] = sessionDay[s] /\ localDay[s[1]][sessionDay[s]] = "OPEN"
           /\ localDay'[s[1]][sessionDay[s]] = "CLOSED"
           /\ Rows(s[1])' = Rows(s[1]) /\ receipts' = receipts
  <2>1. ~EndedByEndDay(s[1], sessionDay[s])
    BY <1>2, <1>5 DEF EndedByEndDay, GhostInv, CloseIsLocal, Rows
  <2> QED
    BY <1>5, <2>1 DEF ArchivedByLogin, EndedByEndDay, Rows
<1> QED
  BY <1>1, <1>4, <1>5 DEF Moves, SessionMoves

LEMMA GhostInit == ASSUME Init PROVE GhostInv
<1>1. LocalInv
  BY LocalInit
<1>2. TypeOK
  BY <1>1 DEF Init, TypeOK, LocalInv, LocalTypes, RegisterInv
<1>3. \A d \in Device : Rows(d) = {}
  BY DEF Init, Rows, Pending, Range
<1> QED
  BY <1>1, <1>2, <1>3, SessionOwner
  DEF Init, GhostInv, OwnRows, SessionDays, EndsAreTold, ReceiptsEnd, CloseIsLocal

LEMMA GhostStep == ASSUME GhostInv, [Next]_vars PROVE GhostInv'
<1>1. LocalInv'
  BY LocalStep DEF GhostInv
<1> QED
  BY <1>1, TypeStep, RowsStep, EndsAreToldStep, ReceiptsEndStep DEF GhostInv

\* The tables, the outbox and the server's rows keep their types.
THEOREM TypeCorrect == Spec => []TypeOK
<1>1. GhostInv => TypeOK
  BY DEF GhostInv
<1> QED
  BY <1>1, GhostInit, GhostStep, PTL DEF Spec

\* No session is left open at the server behind a browser that ended it: its
\* end is on the way or visibly quarantined, or a login archived its day.
THEOREM NoGhosts == Spec => []NoGhostSession
<1>1. ASSUME GhostInv PROVE NoGhostSession
  <2> SUFFICES ASSUME NEW s \in Session, LeaseOpen(s), localSession[s] = "ENDED"
               PROVE  \/ \E e \in Pending(s[1]) : s \in e.ends
                      \/ Quarantined(s) \/ ArchivedByLogin(s)
    BY DEF NoGhostSession
  <2>1. ~\E e \in receipts : s \in e.ends
    BY <1>1 DEF GhostInv, ReceiptsEnd, LeaseOpen
  <2> QED
    BY <1>1, <2>1 DEF GhostInv, EndsAreTold, Rows, Quarantined
<1> QED
  BY <1>1, GhostInit, GhostStep, PTL DEF Spec
-----------------------------------------------------------------------------
\* The rows of End Day.  R has a reconciliation of day b.
Reconciled(R, b) == \E r \in R : r.type = "RECONCILIATION_RECORDED" /\ r.day = b

\* In s, a row that closes a day comes after one with the day's reconciliation,
\* unless R has that already.
ReconciledFirst(s, R) ==
  \A i \in 1..Len(s) : s[i].type = "BUSINESS_DAY_CLOSED" =>
    \/ Reconciled(R, s[i].day)
    \/ \E j \in 1..(i - 1) : s[j].type = "RECONCILIATION_RECORDED" /\ s[j].day = s[i].day

\* Rows of T may go: none of a reconciliation the close of whose day stays.
MayGo(T, s) ==
  \A x \in Range(s) \ T, y \in Range(s) \cap T :
    ~(/\ x.type = "BUSINESS_DAY_CLOSED" /\ y.type = "RECONCILIATION_RECORDED"
      /\ x.day = y.day)

LEMMA NoCloseNoOrder ==
  ASSUME NEW s \in Seq(Event), NEW R,
         \A e \in Range(s) : e.type # "BUSINESS_DAY_CLOSED"
  PROVE  ReconciledFirst(s, R)
BY DEF ReconciledFirst, Range

LEMMA ReconciledByMore ==
  ASSUME NEW s \in Seq(Event), NEW R, NEW Q, R \subseteq Q, ReconciledFirst(s, R)
  PROVE  ReconciledFirst(s, Q)
BY DEF ReconciledFirst, Reconciled

LEMMA ConcatKeepsOrder ==
  ASSUME NEW p \in Seq(Event), NEW q \in Seq(Event), NEW R,
         ReconciledFirst(p, R), ReconciledFirst(q, R)
  PROVE  ReconciledFirst(p \o q, R)
<1> DEFINE r == p \o q
<1>1. /\ Len(r) = Len(p) + Len(q) /\ Len(p) \in Nat /\ Len(q) \in Nat
      /\ \A i \in 1..Len(r) : r[i] = IF i <= Len(p) THEN p[i] ELSE q[i - Len(p)]
  OBVIOUS
<1> HIDE DEF r
<1> SUFFICES ASSUME NEW i \in 1..Len(r), r[i].type = "BUSINESS_DAY_CLOSED",
                    ~Reconciled(R, r[i].day)
             PROVE  \E j \in 1..(i - 1) : /\ r[j].type = "RECONCILIATION_RECORDED"
                                          /\ r[j].day = r[i].day
  BY DEF ReconciledFirst, r
<1>2. CASE i <= Len(p)
  <2>1. i \in 1..Len(p) /\ r[i] = p[i]
    BY <1>1, <1>2
  <2>2. PICK j \in 1..(i - 1) : p[j].type = "RECONCILIATION_RECORDED" /\ p[j].day = p[i].day
    BY <2>1 DEF ReconciledFirst
  <2>3. r[j] = p[j]
    BY <1>1, <2>1
  <2> QED
    BY <2>1, <2>2, <2>3
<1>3. CASE ~(i <= Len(p))
  <2> DEFINE k == i - Len(p)
  <2>1. k \in 1..Len(q) /\ r[i] = q[k] /\ i = k + Len(p)
    BY <1>1, <1>3
  <2> HIDE DEF k
  <2>2. PICK j \in 1..(k - 1) : q[j].type = "RECONCILIATION_RECORDED" /\ q[j].day = q[k].day
    BY <2>1 DEF ReconciledFirst
  <2>3. j + Len(p) \in 1..(i - 1) /\ r[j + Len(p)] = q[j]
    <3>1. /\ j + Len(p) \in 1..(i - 1) /\ j + Len(p) \in 1..Len(r)
          /\ ~(j + Len(p) <= Len(p)) /\ (j + Len(p)) - Len(p) = j
      BY <1>1, <2>1
    <3> QED
      BY <1>1, <3>1
  <2> QED
    BY <2>1, <2>2, <2>3
<1> QED
  BY <1>2, <1>3

LEMMA TailKeepsOrder ==
  ASSUME NEW q \in Seq(Event), q # <<>>, NEW R, ReconciledFirst(q, R),
         Head(q).type = "RECONCILIATION_RECORDED" => Reconciled(R, Head(q).day)
  PROVE  ReconciledFirst(Tail(q), R)
<1> DEFINE t == Tail(q)
<1>1. /\ Len(t) = Len(q) - 1 /\ Len(q) \in Nat /\ Head(q) = q[1]
      /\ \A i \in 1..Len(t) : t[i] = q[i + 1]
  OBVIOUS
<1> HIDE DEF t
<1> SUFFICES ASSUME NEW i \in 1..Len(t), t[i].type = "BUSINESS_DAY_CLOSED",
                    ~Reconciled(R, t[i].day)
             PROVE  \E j \in 1..(i - 1) : /\ t[j].type = "RECONCILIATION_RECORDED"
                                          /\ t[j].day = t[i].day
  BY DEF ReconciledFirst, t
<1>2. i + 1 \in 1..Len(q) /\ t[i] = q[i + 1] /\ (i + 1) - 1 = i
  BY <1>1
<1>3. PICK j \in 1..i : q[j].type = "RECONCILIATION_RECORDED" /\ q[j].day = t[i].day
  BY <1>2 DEF ReconciledFirst
<1>4. j # 1
  BY <1>1, <1>3
<1>5. j - 1 \in 1..(i - 1) /\ t[j - 1] = q[j]
  <2>1. j - 1 \in 1..(i - 1) /\ j - 1 \in 1..Len(t) /\ (j - 1) + 1 = j
    BY <1>1, <1>4
  <2> QED
    BY <1>1, <2>1
<1> QED
  BY <1>3, <1>5

LEMMA WithoutKeepsOrder ==
  ASSUME NEW s \in Seq(Event), NEW R, NEW T, ReconciledFirst(s, R), MayGo(T, s)
  PROVE  ReconciledFirst(Without(s, T), R)
<1>1. PICK rest : /\ rest[0] = <<>> /\ Without(s, T) = rest[Len(s)]
                  /\ \A n \in 1..Len(s) :
                       rest[n] = IF s[n] \in T THEN rest[n - 1] ELSE Append(rest[n - 1], s[n])
  BY WithoutUnfolds
<1>2. Len(s) \in Nat /\ \A i \in 1..Len(s) : s[i] \in Event /\ s[i] \in Range(s)
  BY DEF Range
<1> DEFINE Kept(n) == {s[i] : i \in 1..n} \ T
           Good(n) == /\ rest[n] \in Seq(Event) /\ Range(rest[n]) = Kept(n)
                      /\ ReconciledFirst(rest[n], R)
           K == {n \in Nat : n <= Len(s) => Good(n)}
<1>3. 0 \in K
  <2>1. <<>> \in Seq(Event) /\ Range(<<>>) = {} /\ Kept(0) = {}
    BY DEF Range
  <2> QED
    BY <1>1, <2>1, NoCloseNoOrder
<1>4. ASSUME NEW n \in Nat, n \in K
      PROVE  n + 1 \in K
  <2> SUFFICES ASSUME n + 1 <= Len(s) PROVE Good(n + 1)
    OBVIOUS
  <2> DEFINE x == s[n + 1]
             q == rest[n]
  <2>1. q \in Seq(Event) /\ Range(q) = Kept(n) /\ ReconciledFirst(q, R)
    BY <1>2, <1>4
  <2>2. x \in Event /\ rest[n + 1] = IF x \in T THEN q ELSE Append(q, x)
    <3>1. n + 1 \in 1..Len(s) /\ (n + 1) - 1 = n
      BY <1>2
    <3> QED
      BY <1>1, <1>2, <3>1
  <2>3. Kept(n + 1) = Kept(n) \cup ({x} \ T)
    <3>1. 1..(n + 1) = (1..n) \cup {n + 1}
      OBVIOUS
    <3> QED
      BY <3>1
  <2>4. CASE x \in T
    BY <2>1, <2>2, <2>3, <2>4
  <2>5. CASE x \notin T
    <3>1. /\ Append(q, x) \in Seq(Event) /\ rest[n + 1] = Append(q, x)
          /\ Range(Append(q, x)) = Kept(n + 1)
      <4>1. rest[n + 1] = Append(q, x)
        BY <2>2, <2>5
      <4>2. Append(q, x) \in Seq(Event) /\ Range(Append(q, x)) = Range(q) \cup {x}
        BY <2>1, <2>2, RangeOfAppend
      <4> QED
        BY <2>1, <2>3, <2>5, <4>1, <4>2
    <3>2. ASSUME x.type = "BUSINESS_DAY_CLOSED", ~Reconciled(R, x.day)
          PROVE  \E j \in 1..Len(q) : q[j].type = "RECONCILIATION_RECORDED" /\ q[j].day = x.day
      <4>1. PICK j \in 1..n : s[j].type = "RECONCILIATION_RECORDED" /\ s[j].day = x.day
        <5>1. n + 1 \in 1..Len(s) /\ (n + 1) - 1 = n
          BY <1>2
        <5> QED
          BY <3>2, <5>1 DEF ReconciledFirst
      <4>2. s[j] \notin T
        <5>1. s[j] \in Range(s) /\ x \in Range(s)
          BY <1>2
        <5> QED
          BY <2>5, <3>2, <4>1, <5>1 DEF MayGo
      <4>3. s[j] \in Range(q)
        BY <2>1, <4>2
      <4> HIDE DEF q
      <4> QED
        BY <2>1, <4>1, <4>3 DEF Range
    <3> HIDE DEF q, x
    <3>3. ReconciledFirst(Append(q, x), R)
      <4>1. /\ Len(Append(q, x)) = Len(q) + 1 /\ Len(q) \in Nat
            /\ \A i \in 1..Len(q) : Append(q, x)[i] = q[i]
            /\ Append(q, x)[Len(q) + 1] = x
        BY <2>1, <2>2
      <4> DEFINE a == Append(q, x)
      <4> HIDE DEF a
      <4> SUFFICES ASSUME NEW i \in 1..Len(a), a[i].type = "BUSINESS_DAY_CLOSED",
                          ~Reconciled(R, a[i].day)
                   PROVE  \E j \in 1..(i - 1) : /\ a[j].type = "RECONCILIATION_RECORDED"
                                                /\ a[j].day = a[i].day
        BY DEF ReconciledFirst, a
      <4>2. CASE i = Len(q) + 1
        BY <3>2, <4>1, <4>2 DEF a
      <4>3. CASE i \in 1..Len(q)
        <5>1. PICK j \in 1..(i - 1) : q[j].type = "RECONCILIATION_RECORDED" /\ q[j].day = q[i].day
          BY <2>1, <4>1, <4>3 DEF ReconciledFirst, a
        <5>2. j \in 1..Len(q)
          BY <4>1, <4>3
        <5> QED
          BY <4>1, <4>3, <5>1, <5>2 DEF a
      <4> QED
        BY <4>1, <4>2, <4>3 DEF a
    <3> QED
      BY <3>1, <3>3 DEF q, x
  <2> HIDE DEF Good, x, q, Kept
  <2> QED
    BY <2>4, <2>5
<1>5. Len(s) \in K
  <2> HIDE DEF K
  <2> QED
    BY <1>2, <1>3, <1>4, InductionOnNat
<1> QED
  BY <1>1, <1>2, <1>5

\* A reconciliation starts no session: the guard of a closed day never meets it.
StartsNothing(s) ==
  \A e \in Range(s) : e.type = "RECONCILIATION_RECORDED" => e.starts = {}

\* The invariant behind ClosedDayIsReconciled.
EndDayInv ==
  /\ RowTypes /\ receipts \subseteq Event
  /\ \A d \in Device : StartsNothing(box[d])
  /\ \A d \in Device : ReconciledFirst(box[d], receipts)
  /\ \A b \in Day : canonDay[b] = "CLOSED" => Reconciled(receipts, b)
  /\ \A r, q \in receipts : Key(r) = Key(q) => r = q

LEMMA KeysTell ==
  \A r, q : Key(r) = Key(q) =>
    /\ r.type = q.type
    /\ r.type \notin {"WORKER_SIGNED_IN", "WORKER_SIGNED_OUT"} => r.day = q.day
<1>1. \A r : /\ r.type = "WORKER_SIGNED_IN"  => Key(r) = <<r.type, r.starts>>
             /\ r.type = "WORKER_SIGNED_OUT" => Key(r) = <<r.type, r.ends>>
             /\ r.type \notin {"WORKER_SIGNED_IN", "WORKER_SIGNED_OUT"}
                  => Key(r) = <<r.type, r.day>>
  BY DEF Key
<1> QED
  BY <1>1

\* A browser's transaction appends rows in order.
LEMMA EnqueueKeepsOrder ==
  ASSUME EndDayInv, NEW d \in Device, NEW events \in Seq(Event), Enqueue(d, events),
         ReconciledFirst(events, receipts), StartsNothing(events),
         UNCHANGED <<canonDay, receipts>>
  PROVE  EndDayInv'
<1> DEFINE blocked == {e \in Range(events) : \E q \in refused[d] : Precedes(q, e)}
           sent    == Without(events, blocked)
<1>1. box' = [box EXCEPT ![d] = box[d] \o sent] /\ box[d] \in Seq(Event)
  BY DEF Enqueue, EndDayInv, RowTypes
<1>2. MayGo(blocked, events)
  BY DEF MayGo, Precedes
<1> HIDE DEF blocked
<1>3. /\ sent \in Seq(Event) /\ ReconciledFirst(sent, receipts)
      /\ Range(sent) \subseteq Range(events)
  BY <1>2, WithoutKeepsTheRest, WithoutKeepsOrder
<1> HIDE DEF sent
<1>4. ReconciledFirst(box[d] \o sent, receipts) /\ StartsNothing(box[d] \o sent)
  BY <1>1, <1>3, ConcatKeepsOrder, RangeOfConcat DEF EndDayInv, StartsNothing
<1>5. RowTypes'
  BY EnqueueRows DEF EndDayInv
<1>6. \A x \in Device : ReconciledFirst(box'[x], receipts) /\ StartsNothing(box'[x])
  BY <1>1, <1>4 DEF EndDayInv, RowTypes
<1> QED
  BY <1>5, <1>6 DEF EndDayInv, Reconciled, ReconciledFirst, StartsNothing

\* A step that leaves the rows pending and the canonical days alone.
LEMMA QuietKeepsOrder ==
  ASSUME EndDayInv, UNCHANGED <<box, refused, canonDay, receipts>>
  PROVE  EndDayInv'
<1>1. /\ box' = box /\ receipts' = receipts /\ canonDay' = canonDay
      /\ RowTypes'
  BY DEF EndDayInv, RowTypes
<1>2. \A d \in Device : /\ StartsNothing(box[d]) => StartsNothing(box'[d])
                        /\ ReconciledFirst(box[d], receipts)
                             => ReconciledFirst(box'[d], receipts')
  BY <1>1
<1> QED
  BY <1>1, <1>2 DEF EndDayInv, Reconciled

LEMMA SignInKeepsOrder ==
  ASSUME EndDayInv, NEW d \in Device, TransitionToWorker(d), UNCHANGED <<canonDay, receipts>>
  PROVE  EndDayInv'
<1> DEFINE new == OpenDays(d) = {}
           old == OpenSessions(d)
<1>1. PICK b \in Day, n \in 1..MaxSessions[d] :
        Enqueue(d, (IF new THEN <<Evt("BUSINESS_DAY_STARTED", d, b, {}, {})>> ELSE <<>>)
                     \o <<Evt("WORKER_SIGNED_IN", d, b, {<<d, n>>}, old)>>)
  BY DEF TransitionToWorker
<1> DEFINE one == Evt("BUSINESS_DAY_STARTED", d, b, {}, {})
           two == Evt("WORKER_SIGNED_IN", d, b, {<<d, n>>}, old)
<1>2. one \in Event /\ two \in Event
  <2>1. <<d, n>> \in Session
    BY DEF Session
  <2>2. old \subseteq Session
    BY DEF OpenSessions
  <2> QED
    BY <2>1, <2>2, EvtIsEvent DEF EventType
<1>3. /\ one.type # "BUSINESS_DAY_CLOSED" /\ two.type # "BUSINESS_DAY_CLOSED"
      /\ one.type # "RECONCILIATION_RECORDED" /\ two.type # "RECONCILIATION_RECORDED"
  BY DEF Evt
<1>4. Enqueue(d, (IF new THEN <<one>> ELSE <<>>) \o <<two>>)
  BY <1>1
<1> HIDE DEF one, two, new
<1> DEFINE events == (IF new THEN <<one>> ELSE <<>>) \o <<two>>
<1>5. events \in Seq(Event) /\ Range(events) \subseteq {one, two}
  <2> DEFINE first == IF new THEN <<one>> ELSE <<>>
  <2>1. first \in Seq(Event) /\ <<two>> \in Seq(Event)
    BY <1>2
  <2>2. Range(<<one>>) = {one} /\ Range(<<two>>) = {two} /\ Range(<<>>) = {}
    BY RangeOfShort
  <2>3. Range(first) \subseteq {one}
    BY <2>2
  <2>4. events = first \o <<two>>
    OBVIOUS
  <2> HIDE DEF events, first
  <2>5. events \in Seq(Event) /\ Range(events) = Range(first) \cup Range(<<two>>)
    <3>1. \A p, q \in Seq(Event) : p \o q \in Seq(Event) /\ Range(p \o q) = Range(p) \cup Range(q)
      BY RangeOfConcat
    <3> QED
      BY <2>1, <2>4, <3>1, Zenon
  <2> QED
    BY <2>2, <2>3, <2>5
<1>6. Enqueue(d, events)
  BY <1>4
<1> HIDE DEF events
<1> QED
  BY <1>3, <1>5, <1>6, NoCloseNoOrder, EnqueueKeepsOrder DEF StartsNothing

\* The row of a sign-out.
LEMMA SignOutKeepsOrder ==
  ASSUME EndDayInv, NEW d \in Device, EndLocalSession(d), UNCHANGED <<canonDay, receipts>>
  PROVE  EndDayInv'
<1>1. CASE UNCHANGED <<box, refused>>
  BY <1>1, QuietKeepsOrder
<1>2. CASE OpenSessions(d) # {}
  <2>1. PICK b \in OpenDays(d) :
          Enqueue(d, <<Evt("WORKER_SIGNED_OUT", d, b, {}, OpenSessions(d))>>)
    BY <1>2 DEF EndLocalSession
  <2> DEFINE e == Evt("WORKER_SIGNED_OUT", d, b, {}, OpenSessions(d))
  <2>2. e \in Event
    BY EvtIsEvent DEF EventType, OpenSessions, OpenDays
  <2>3. e.type # "BUSINESS_DAY_CLOSED" /\ e.type # "RECONCILIATION_RECORDED"
    BY DEF Evt
  <2>4. Enqueue(d, <<e>>)
    BY <2>1
  <2> HIDE DEF e
  <2> DEFINE events == <<e>>
  <2>5. events \in Seq(Event) /\ Range(events) = {e}
    BY <2>2 DEF Range
  <2>6. Enqueue(d, events)
    BY <2>4
  <2> HIDE DEF events
  <2> QED
    BY <2>3, <2>5, <2>6, NoCloseNoOrder, EnqueueKeepsOrder DEF StartsNothing
<1> QED
  BY <1>1, <1>2 DEF EndLocalSession

\* End Day appends the reconciliation before the close.
LEMMA CloseDayKeepsOrder ==
  ASSUME EndDayInv, NEW d \in Device, CloseDay(d)
  PROVE  EndDayInv'
<1>1. PICK b \in OpenDays(d) : Enqueue(d, EndDayEvents(d, b))
  BY DEF CloseDay
<1> DEFINE one   == Evt("RECONCILIATION_RECORDED", d, b, {}, {})
           two   == Evt("BUSINESS_DAY_CLOSED", d, b, {}, {})
           three == Evt("WORKER_SIGNED_OUT", d, b, {}, OpenSessions(d))
<1>2. one \in Event /\ two \in Event /\ three \in Event
  BY EvtIsEvent DEF EventType, OpenSessions, OpenDays
<1>3. /\ one.type = "RECONCILIATION_RECORDED" /\ one.day = b /\ two.day = b
      /\ three.type # "BUSINESS_DAY_CLOSED" /\ one.starts = {}
      /\ two.type # "RECONCILIATION_RECORDED" /\ three.type # "RECONCILIATION_RECORDED"
  BY DEF Evt
<1>4. Enqueue(d, <<one, two, three>>)
  BY <1>1 DEF EndDayEvents
<1> HIDE DEF one, two, three
<1> DEFINE events == <<one, two, three>>
<1>5. /\ events \in Seq(Event) /\ Len(events) = 3 /\ Range(events) = {one, two, three}
      /\ events[1] = one /\ events[2] = two /\ events[3] = three
  BY <1>2 DEF Range
<1>6. Enqueue(d, events)
  BY <1>4
<1> HIDE DEF events
<1>7. ReconciledFirst(events, receipts)
  <2> SUFFICES ASSUME NEW i \in 1..3, events[i].type = "BUSINESS_DAY_CLOSED"
               PROVE  \E j \in 1..(i - 1) : /\ events[j].type = "RECONCILIATION_RECORDED"
                                            /\ events[j].day = events[i].day
    BY <1>5 DEF ReconciledFirst
  <2>1. i = 2
    BY <1>3, <1>5
  <2> QED
    BY <1>3, <1>5, <2>1
<1> QED
  BY <1>3, <1>5, <1>6, <1>7, EnqueueKeepsOrder DEF CloseDay, server, StartsNothing

\* A login quarantines the rows of a day together.
LEMMA AdoptKeepsOrder ==
  ASSUME EndDayInv, NEW d \in Device, LoginAdopt(d)
  PROVE  EndDayInv'
<1> DEFINE old      == view[d].mine \ view[d].open
           stranded == {e \in Pending(d) : e.day \in old}
<1>1. /\ box' = [box EXCEPT ![d] = Without(box[d], stranded)]
      /\ refused' = [refused EXCEPT ![d] = refused[d] \cup stranded]
      /\ UNCHANGED <<canonDay, receipts>>
  BY DEF LoginAdopt, server
<1>2. box[d] \in Seq(Event) /\ Pending(d) \subseteq Event
  BY RowsAreEvents DEF EndDayInv, RowTypes
<1>3. MayGo(stranded, box[d])
  BY DEF MayGo, Pending
<1>4. stranded \subseteq Event
  BY <1>2
<1> HIDE DEF stranded
<1> DEFINE kept == Without(box[d], stranded)
<1>5. kept \in Seq(Event) /\ ReconciledFirst(kept, receipts) /\ StartsNothing(kept)
  BY <1>2, <1>3, WithoutKeepsTheRest, WithoutKeepsOrder DEF EndDayInv, StartsNothing
<1>6. box' = [box EXCEPT ![d] = kept]
  BY <1>1
<1> HIDE DEF kept
<1>7. RowTypes'
  BY <1>1, <1>4, <1>5, <1>6 DEF EndDayInv, RowTypes
<1>8. \A x \in Device : ReconciledFirst(box'[x], receipts) /\ StartsNothing(box'[x])
  BY <1>5, <1>6 DEF EndDayInv, RowTypes
<1> QED
  BY <1>1, <1>7, <1>8 DEF EndDayInv, Reconciled, ReconciledFirst

\* What the server takes in: a close finds the reconciliation received, since
\* it is the first of the rows; a second receipt of one key is refused.
LEMMA IngestReconciles ==
  ASSUME EndDayInv, NEW d \in Device, box[d] # <<>>, Ingest(Head(box[d])),
         Answer(Head(box[d])) \in {"APPLIED", "REPLAY"}
  PROVE  /\ receipts' = receipts \cup {Head(box[d])} /\ Head(box[d]) \in Event
         /\ \A b \in Day : canonDay'[b] = "CLOSED" => Reconciled(receipts', b)
         /\ \A r, q \in receipts' : Key(r) = Key(q) => r = q
<1> DEFINE e == Head(box[d])
<1>1. e \in Event /\ e = box[d][1] /\ 1 \in 1..Len(box[d])
  BY RangeOfHeadTail DEF EndDayInv, RowTypes
<1> HIDE DEF e
<1>2. receipts' = receipts \cup {e}
  BY DEF Ingest, e
<1>3. ASSUME NEW b \in Day, canonDay'[b] = "CLOSED", canonDay[b] # "CLOSED"
      PROVE  Reconciled(receipts, b)
  <2>1. e.type = "BUSINESS_DAY_CLOSED" /\ e.day = b
    <3>1. canonDay' = [canonDay EXCEPT ![e.day] =
             IF Answer(e) # "APPLIED" THEN @
             ELSE CASE e.type = "BUSINESS_DAY_STARTED" -> "OPEN"
                    [] e.type = "BUSINESS_DAY_CLOSED"  -> "CLOSED"
                    [] OTHER -> @]
      BY DEF Ingest, e
    <3> QED
      BY <1>3, <3>1
  <2>2. ~\E j \in 1..(1 - 1) : box[d][j].type = "RECONCILIATION_RECORDED"
    OBVIOUS
  <2> QED
    BY <1>1, <2>1, <2>2 DEF EndDayInv, ReconciledFirst
<1>4. ASSUME NEW b \in Day, canonDay'[b] = "CLOSED"
      PROVE  Reconciled(receipts', b)
  <2>1. Reconciled(receipts, b)
    BY <1>3, <1>4 DEF EndDayInv
  <2> QED
    BY <1>2, <2>1 DEF Reconciled
<1>5. e \in receipts \/ ~\E r \in receipts : Key(r) = Key(e)
  BY DEF Answer, e
<1>6. \A r, q \in receipts' : Key(r) = Key(q) => r = q
  <2>1. \A r, q \in receipts : Key(r) = Key(q) => r = q
    BY DEF EndDayInv
  <2> QED
    BY <1>2, <1>5, <2>1
<1> QED
  BY <1>1, <1>2, <1>4, <1>6 DEF e

LEMMA DeliverKeepsOrder ==
  ASSUME EndDayInv, NEW d \in Device, Deliver(d) \/ DeliverUnanswered(d)
  PROVE  EndDayInv'
<1> DEFINE e    == Head(box[d])
           tail == Tail(box[d])
<1>1. box[d] # <<>> /\ box[d] \in Seq(Event)
  BY DEF Deliver, DeliverUnanswered, EndDayInv, RowTypes
<1>2. /\ e \in Event /\ tail \in Seq(Event)
      /\ Range(tail) \subseteq Range(box[d]) /\ e \in Range(box[d])
  BY <1>1, RangeOfHeadTail
<1>3. ASSUME Ingest(e), Answer(e) \in {"APPLIED", "REPLAY"}, UNCHANGED refused,
             box' = box \/ box' = [box EXCEPT ![d] = tail]
      PROVE  EndDayInv'
  <2>1. /\ receipts' = receipts \cup {e}
        /\ \A b \in Day : canonDay'[b] = "CLOSED" => Reconciled(receipts', b)
        /\ \A r, q \in receipts' : Key(r) = Key(q) => r = q
    BY <1>1, <1>3, IngestReconciles
  <2> HIDE DEF e
  <2>2. \A x \in Device : ReconciledFirst(box[x], receipts')
    BY <2>1, ReconciledByMore DEF EndDayInv, RowTypes
  <2>3. e.type = "RECONCILIATION_RECORDED" => Reconciled(receipts', e.day)
    BY <2>1 DEF Reconciled
  <2>4. ReconciledFirst(tail, receipts')
    BY <1>1, <2>2, <2>3, TailKeepsOrder DEF e
  <2> HIDE DEF tail
  <2>5. /\ RowTypes'
        /\ \A x \in Device : ReconciledFirst(box'[x], receipts') /\ StartsNothing(box'[x])
    BY <1>2, <1>3, <2>2, <2>4 DEF EndDayInv, RowTypes, StartsNothing
  <2>6. receipts' \subseteq Event
    BY <1>2, <2>1 DEF EndDayInv
  <2> QED
    BY <2>1, <2>5, <2>6 DEF EndDayInv
<1>4. ASSUME NEW dependents, dependents = {x \in Pending(d) : Precedes(e, x)},
             Answer(e) = "PERMANENT", UNCHANGED <<canonDay, receipts>>,
             box' = [box EXCEPT ![d] = Without(tail, dependents)],
             refused' = [refused EXCEPT ![d] = refused[d] \cup {e} \cup dependents]
      PROVE  EndDayInv'
  <2>1. e.type = "RECONCILIATION_RECORDED" => Reconciled(receipts, e.day)
    <3>1. \/ \E r \in receipts : Key(r) = Key(e)
          \/ e.type # "RECONCILIATION_RECORDED"
      BY <1>4, <1>2 DEF Answer, JoinsClosedDay, EndDayInv, StartsNothing
    <3> QED
      BY <3>1, KeysTell DEF Reconciled
  <2>2. MayGo(dependents, tail) /\ dependents \subseteq Event
    <3>1. Pending(d) \subseteq Event
      BY RowsAreEvents DEF EndDayInv
    <3> QED
      BY <1>4, <3>1 DEF MayGo, Precedes
  <2>3. ReconciledFirst(tail, receipts)
    BY <1>1, <2>1, TailKeepsOrder DEF EndDayInv
  <2> HIDE DEF e, tail
  <2> DEFINE kept == Without(tail, dependents)
  <2>4. kept \in Seq(Event) /\ ReconciledFirst(kept, receipts) /\ StartsNothing(kept)
    BY <1>2, <2>2, <2>3, WithoutKeepsTheRest, WithoutKeepsOrder DEF EndDayInv, StartsNothing
  <2>5. box' = [box EXCEPT ![d] = kept]
    BY <1>4
  <2> HIDE DEF kept
  <2>6. /\ RowTypes'
        /\ \A x \in Device : ReconciledFirst(box'[x], receipts) /\ StartsNothing(box'[x])
    BY <1>2, <1>4, <2>2, <2>4, <2>5 DEF EndDayInv, RowTypes
  <2> QED
    <3>1. /\ receipts' = receipts /\ canonDay' = canonDay
          /\ \A b : Reconciled(receipts', b) <=> Reconciled(receipts, b)
      BY <1>4
    <3> QED
      BY <2>6, <3>1 DEF EndDayInv
<1>5. CASE DeliverUnanswered(d)
  BY <1>3, <1>5 DEF DeliverUnanswered, local
<1>6. CASE Deliver(d) /\ Answer(e) \in {"APPLIED", "REPLAY"}
  BY <1>3, <1>6 DEF Deliver
<1>7. CASE Deliver(d) /\ Answer(e) \notin {"APPLIED", "REPLAY"}
  <2> DEFINE dependents == {x \in Pending(d) : Precedes(e, x)}
  <2>1. /\ Answer(e) = "PERMANENT" /\ UNCHANGED <<canonDay, receipts>>
        /\ box' = [box EXCEPT ![d] = Without(tail, dependents)]
        /\ refused' = [refused EXCEPT ![d] = refused[d] \cup {e} \cup dependents]
    BY <1>7 DEF Deliver, server
  <2> QED
    BY <1>4, <2>1
<1> QED
  BY <1>5, <1>6, <1>7

LEMMA EndDayInit == ASSUME Init PROVE EndDayInv
<1>1. box \in [Device -> Seq(Event)]
  BY DEF Init
<1>2. \A d \in Device : ReconciledFirst(box[d], receipts)
  BY DEF Init, ReconciledFirst
<1> QED
  BY <1>1, <1>2 DEF Init, EndDayInv, RowTypes, StartsNothing, Range

LEMMA EndDayStep == ASSUME EndDayInv, [Next]_vars PROVE EndDayInv'
<1>1. ASSUME NEW d \in Device, DeviceNext(d) PROVE EndDayInv'
  <2>1. CASE SignInOffline(d) \/ LoginSignsIn(d)
    BY <2>1, SignInKeepsOrder DEF SignInOffline, LoginSignsIn, server
  <2>2. CASE SignOut(d) \/ Fence(d)
    BY <2>2, SignOutKeepsOrder DEF SignOut, Fence, server
  <2>3. CASE CloseDay(d)
    BY <2>3, CloseDayKeepsOrder
  <2>4. CASE LoginAdopt(d)
    BY <2>4, AdoptKeepsOrder
  <2>5. CASE Deliver(d) \/ DeliverUnanswered(d)
    BY <2>5, DeliverKeepsOrder
  <2>6. CASE \/ LoginRead(d) \/ LoginRefused(d) \/ LoginNeedsNothing(d) \/ LoginKeepsWorker(d)
             \/ Reload(d) \/ Heartbeat(d) \/ PrepareExit(d)
    BY <2>6, QuietKeepsOrder DEF LoginRead, LoginRefused, LoginNeedsNothing,
         LoginKeepsWorker, Reload, Heartbeat, PrepareExit, local, server
  <2> QED
    BY <1>1, <2>1, <2>2, <2>3, <2>4, <2>5, <2>6 DEF DeviceNext
<1>2. ASSUME NEW s \in Session, TimePasses(s) PROVE EndDayInv'
  BY <1>2, QuietKeepsOrder DEF TimePasses, local
<1>3. CASE UNCHANGED vars
  BY <1>3, QuietKeepsOrder DEF vars, local, server
<1> QED
  BY <1>1, <1>2, <1>3 DEF Next

\* A day the server closed has exactly one reconciliation there, whichever of
\* the rows of which browser's End Day were refused or quarantined.
THEOREM ClosedDaysAreReconciled == Spec => []ClosedDayIsReconciled
<1>1. ASSUME EndDayInv PROVE ClosedDayIsReconciled
  <2> SUFFICES ASSUME NEW b \in Day, canonDay[b] = "CLOSED"
               PROVE  \E r \in receipts :
                        {q \in receipts : q.type = "RECONCILIATION_RECORDED" /\ q.day = b} = {r}
    BY DEF ClosedDayIsReconciled
  <2>1. PICK r \in receipts : r.type = "RECONCILIATION_RECORDED" /\ r.day = b
    BY <1>1 DEF EndDayInv, Reconciled
  <2>2. ASSUME NEW q \in receipts, q.type = "RECONCILIATION_RECORDED", q.day = b
        PROVE  q = r
    <3>1. Key(q) = Key(r)
      BY <2>1, <2>2 DEF Key
    <3> QED
      BY <1>1, <3>1 DEF EndDayInv
  <2> QED
    BY <2>1, <2>2
<1> QED
  BY <1>1, EndDayInit, EndDayStep, PTL DEF Spec
=============================================================================
