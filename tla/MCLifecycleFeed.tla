--------------------------- MODULE MCLifecycleFeed ---------------------------
(***************************************************************************)
(* LifecycleFeed with an order of this device and two of another one.      *)
(***************************************************************************)
EXTENDS LifecycleFeed

CONSTANTS o1, o2, o3, t1, t2

Orders    == {o1, o2, o3}
Own       == {o1}
Others    == Orders \ Own
Other     == {o2}
Paid      == {o3}
OnePair   == {o1, o2}
Nothing   == {}
Connections == {t1, t2}
=============================================================================
