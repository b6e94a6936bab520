--------------------------- MODULE MCInventoryFeed ---------------------------
(* A small ledger for InventoryFeed.  The tabs are the browser's, the foreign *)
(* key the desktop's: the instance takes the harder of both at once.  The     *)
(* device's order eats of one item, another device wastes another.            *)
EXTENDS InventoryFeed
CONSTANTS i1, i2, eaten, undone, receipt, wasted, restored
ToTwo == [m \in Movement |-> IF m \in {wasted, restored} THEN i2 ELSE i1]
Compensates == [m \in Movement |-> CASE m = undone -> eaten [] m = restored -> wasted
                                     [] OTHER -> None]
=============================================================================
