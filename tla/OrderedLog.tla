----------------------------- MODULE OrderedLog -----------------------------
(***************************************************************************)
(* What the outbox and the server promise together, without saying how:    *)
(* a device issues the events of an order in revision order, each takes    *)
(* effect at most once and only after the one before it, the device counts *)
(* as acknowledged only what took effect, and once an administrator closes *)
(* the order nothing of the device takes effect on it any more.            *)
(* (docs/OFFLINE_AND_SYNC.md, "Causal aggregate blocking" and "Monotonic   *)
(* receiver policy".)                                                      *)
(***************************************************************************)
EXTENDS OrderLifecycle

VARIABLES issued, applied, acknowledged, closed

logVars == <<issued, applied, acknowledged, closed>>

\* The event before e in its order's stream, or nothing for a placement.
Predecessor(e) == {f \in Event : f.order = e.order /\ f.rev + 1 = e.rev}

LogInit == issued = {} /\ applied = {} /\ acknowledged = {} /\ closed = {}

Issue(e) ==
  /\ e \notin issued /\ Predecessor(e) \subseteq issued
  /\ issued' = issued \cup {e}
  /\ UNCHANGED <<applied, acknowledged, closed>>

Apply(e) ==
  /\ e \in issued \ applied /\ Predecessor(e) \subseteq applied
  /\ e.order \notin closed
  /\ applied' = applied \cup {e}
  /\ UNCHANGED <<issued, acknowledged, closed>>

Acknowledge(e) ==
  /\ e \in applied
  /\ acknowledged' = acknowledged \cup {e}
  /\ UNCHANGED <<issued, applied, closed>>

Close(o) ==
  /\ o \notin closed
  /\ [order |-> o, rev |-> 0] \in applied
  /\ closed' = closed \cup {o}
  /\ UNCHANGED <<issued, applied, acknowledged>>

LogNext == \/ \E e \in Event : Issue(e) \/ Apply(e) \/ Acknowledge(e)
           \/ \E o \in Order : Close(o)

LogSpec == LogInit /\ [][LogNext]_logVars
=============================================================================
