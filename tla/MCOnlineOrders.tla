--------------------------- MODULE MCOnlineOrders ---------------------------
(* Small shops for OnlineOrders. *)
EXTENDS OnlineOrdersInvariant, TLC
CONSTANTS a, b, r1, r2
Devices == {a, b}
Symmetric == Permutations(Devices)
Nobody  == {}
OnlyA   == {a}
One     == {r1}
Two     == {r1, r2}
=============================================================================
