---------------------------- MODULE MCOrderSync ----------------------------
(***************************************************************************)
(* OrderSync and its inductive invariant on small sets.                    *)
(***************************************************************************)
EXTENDS OrderSyncInvariant

CONSTANTS o1, o2, s1, s2

OneOrder    == {o1}
TwoOrders   == {o1, o2}
OneService  == {s1}
TwoServices == {s1, s2}
NoOrder     == {}
OnePaid     == {o2}
=============================================================================
