--------------------------- MODULE RequestDecision ---------------------------
(***************************************************************************)
(* What a customer's online order is promised: it is decided once, and     *)
(* accepting it makes exactly one order.                                   *)
(***************************************************************************)
CONSTANTS Request, Order, Open, Rejected

VARIABLES decision,   \* request -> Open, Rejected or the order that serves it
          orders      \* the orders made for online requests

Init == decision = [r \in Request |-> Open] /\ orders = {}

Accept(r, o) ==
  /\ decision[r] = Open /\ o \notin orders
  /\ decision' = [decision EXCEPT ![r] = o]
  /\ orders' = orders \cup {o}

Reject(r) ==
  /\ decision[r] = Open
  /\ decision' = [decision EXCEPT ![r] = Rejected]
  /\ UNCHANGED orders

Next == \E r \in Request : Reject(r) \/ \E o \in Order : Accept(r, o)

Spec == Init /\ [][Next]_<<decision, orders>>
=============================================================================
