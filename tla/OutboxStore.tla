----------------------------- MODULE OutboxStore -----------------------------
(***************************************************************************)
(* The device's durable outbox: the table outbox_events and the operations *)
(* of `outbox` in SqliteOperationsDatabase (the IndexedDB store repeats    *)
(* them).  Every operator below runs inside one local transaction, so it   *)
(* is one step.  A row is named by its event; the columns are sets.        *)
(***************************************************************************)
EXTENDS OrderLifecycle, FiniteSets

VARIABLES born,         \* event -> position in (created_at, rowid) order, 0: no row
          kind,         \* event -> event_type, meaningful for a row
          delivered,    \* delivered_at is set
          quarantined,  \* quarantined_at is set
          waiting,      \* next_attempt_at is set and lies in the future
          clock         \* created_at of the newest row

outboxVars == <<born, kind, delivered, quarantined, waiting, clock>>

Rows    == {e \in Event : born[e] > 0}
Pending == Rows \ (delivered \cup quarantined)

\* Rows of the same aggregate with a higher, or lower, revision.
Later(e)   == {f \in Rows : f.order = e.order /\ f.rev > e.rev}
Earlier(e) == {f \in Rows : f.order = e.order /\ f.rev < e.rev}

OutboxInit ==
  /\ born = [e \in Event |-> 0]
  /\ kind = [e \in Event |-> "ORDER_PLACED"]
  /\ delivered = {} /\ quarantined = {} /\ waiting = {}
  /\ clock = 0

\* Mutant of AppendRow: the new row does not ask for a quarantined predecessor.
AppendUnblocked(e, k) ==
  /\ e \notin Rows
  /\ clock' = clock + 1
  /\ born' = [born EXCEPT ![e] = clock + 1]
  /\ kind' = [kind EXCEPT ![e] = k]
  /\ UNCHANGED <<delivered, quarantined, waiting>>

\* outbox.append: a row whose aggregate has a quarantined lower revision is
\* born quarantined (DEPENDENCY_BLOCKED_BY).
AppendRow(e, k) ==
  /\ e \notin Rows
  /\ clock' = clock + 1
  /\ born' = [born EXCEPT ![e] = clock + 1]
  /\ kind' = [kind EXCEPT ![e] = k]
  /\ quarantined' = IF Earlier(e) \cap quarantined # {}
                    THEN quarantined \cup {e} ELSE quarantined
  /\ UNCHANGED <<delivered, waiting>>

\* outbox.listPending(now, limit): a row that backs off hides every row born
\* after it; of the rest, the oldest `limit`.
Due == {e \in Pending \ waiting :
          \A f \in Pending \cap waiting : born[f] > born[e]}
ListPending(limit) ==
  {e \in Due : Cardinality({f \in Due : born[f] < born[e]}) < limit}

\* Mutant of MarkDelivered: a delivered row is taken out of quarantine.
MarkDeliveredReleases(e) ==
  /\ delivered' = delivered \cup {e}
  /\ waiting' = waiting \ {e} /\ quarantined' = quarantined \ {e}
  /\ UNCHANGED <<born, kind, clock>>

\* outbox.markDelivered: clears the back-off, and never quarantined_at.
MarkDelivered(e) ==
  /\ delivered' = delivered \cup {e}
  /\ waiting' = waiting \ {e}
  /\ UNCHANGED <<born, kind, quarantined, clock>>

\* outbox.recordFailure with next_attempt_at in the future, whatever became
\* of the row since it was listed.
RecordFailure(e) ==
  /\ waiting' = waiting \cup {e}
  /\ UNCHANGED <<born, kind, delivered, quarantined, clock>>

Dependents(e) == Later(e) \cap Pending

\* Mutants of Quarantine: the dependents are forgotten; the origin is.
QuarantineOriginOnly(e) ==
  /\ quarantined' = quarantined \cup {e}
  /\ waiting' = waiting \ {e}
  /\ UNCHANGED <<born, kind, delivered, clock>>
QuarantineDependentsOnly(e) ==
  /\ quarantined' = quarantined \cup Dependents(e)
  /\ waiting' = waiting \ Dependents(e)
  /\ UNCHANGED <<born, kind, delivered, clock>>

\* outbox.quarantine and outbox.quarantineDependents, called together.
Quarantine(e) ==
  /\ quarantined' = quarantined \cup {e} \cup Dependents(e)
  /\ waiting' = waiting \ ({e} \cup Dependents(e))
  /\ UNCHANGED <<born, kind, delivered, clock>>

\* now reaches next_attempt_at.
BackoffElapses(e) ==
  /\ e \in waiting
  /\ waiting' = waiting \ {e}
  /\ UNCHANGED <<born, kind, delivered, quarantined, clock>>
=============================================================================
