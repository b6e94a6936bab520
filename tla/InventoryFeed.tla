---------------------------- MODULE InventoryFeed ----------------------------
(***************************************************************************)
(* The inventory ledger and the devices' copy of it.  A movement is        *)
(* inserted by a database transaction: a trigger binds its cost, another   *)
(* draws its number in inventory_movement_feed, and the row is visible     *)
(* when the transaction commits.  One device records movements of its own, *)
(* which its outbox brings to the server, and its tabs (or windows) pull   *)
(* the feed and the weighted costs into their common database.             *)
(* A transaction is reduced to one movement: what counts is the time       *)
(* between the draw of a number and its commit, and the locks held then.   *)
(***************************************************************************)
EXTENDS Naturals, FiniteSets

CONSTANTS Connection,   \* database connections
          Tab,          \* tabs of the device
          Item, Movement,
          ItemOf,       \* movement -> its item
          Undoes,       \* movement -> the one it compensates, None
          Own,          \* movements this device records: consumption or reversal
          Consumption,  \* the order consumptions: the server binds their cost
          Receipt,      \* the movements that set their item's weighted cost
          Cost,         \* unit costs
          PageSize,     \* rows of one page
          MaxAborts,    \* bound: transactions that fail
          ForeignKeys,  \* is the copy in SQLite, with its foreign key?
          None

ASSUME InventoryAssumption ==
  /\ ItemOf \in [Movement -> Item] /\ Undoes \in [Movement -> Movement \cup {None}]
  /\ Own \subseteq Movement /\ Receipt \cap Own = {}
  /\ 0 \in Cost /\ Cost \subseteq Nat /\ PageSize \in Nat \ {0}
  /\ MaxAborts \in Nat /\ ForeignKeys \in BOOLEAN

\* A row of the feed, with the cost of its movement; a page of it.
Row  == [number: Nat, movement: Movement, cost: Cost]
Page == [from: Nat, next: Nat, rows: SUBSET Row, prices: [Item -> Cost],
         got: SUBSET {"FEED", "PRICES"}]

ASSUME NoneAssumption == None \notin Cost \cup Movement \cup Row \cup Page

VARIABLES
  open,        \* connection -> the row its transaction has inserted, None
  sequence,    \* last value of the feed's identity column
  feed,        \* committed rows
  price,       \* item -> weighted_unit_cost_minor at the server
  aborts,      \* transactions that failed
  overtaken,   \* history: rows published behind a larger number of another item
  held,        \* movement -> cost of the device's row, None: no row
  localPrice,  \* item -> the device's weighted cost
  cursor,      \* the device's inventory sync cursor, 0: none
  refused,     \* own movements the server has refused for good
  page         \* tab -> the pull it is in the middle of, None

server == <<open, sequence, feed, price, aborts, overtaken>>
copy   == <<held, localPrice, cursor>>
vars   == <<server, copy, refused, page>>

Init ==
  /\ open = [c \in Connection |-> None] /\ sequence = 0 /\ feed = {} /\ aborts = 0
  /\ overtaken = {}
  /\ price = [i \in Item |-> 0] /\ localPrice = [i \in Item |-> 0]
  /\ held = [m \in Movement |-> None] /\ cursor = 0 /\ refused = {}
  /\ page = [t \in Tab |-> None]

Busy      == {c \in Connection : open[c] # None}
Committed == {r.movement : r \in feed}
Inserted  == Committed \cup {open[c].movement : c \in Busy}
-----------------------------------------------------------------------------
\* markDone and undoDone: the row gets the device's cost of the item, or the
\* cost of the row it reverses.  Behind a quarantined event the movement's own
\* event is quarantined at once.
Record(m) ==
  /\ m \in Own /\ held[m] = None
  /\ Undoes[m] # None => held[Undoes[m]] # None
  /\ held' = [held EXCEPT ![m] = IF Undoes[m] = None THEN localPrice[ItemOf[m]]
                                                     ELSE held[Undoes[m]]]
  /\ refused' = IF Undoes[m] \in refused THEN refused \cup {m} ELSE refused
  /\ UNCHANGED <<server, localPrice, cursor, page>>

\* Its event is quarantined, and with it what undoes it.
Refuse(m) ==
  /\ m \in Own /\ held[m] # None /\ m \notin Inserted /\ m \notin refused
  /\ refused' = refused \cup {m} \cup {n \in Own : Undoes[n] = m /\ held[n] # None}
  /\ UNCHANGED <<server, copy, page>>
-----------------------------------------------------------------------------
\* Mutant of ItemFree: no advisory lock.
NoItemLock(i) == i \in Item
\* The item's pg_advisory_xact_lock, which every command and trigger that
\* inserts a movement takes first and which is held to the commit.
ItemFree(i) == \A c \in Busy : ItemOf[open[c].movement] # i

\* bind_order_consumption_cost_v1; a reversal keeps the cost of its event; what
\* others record may have any.
BoundCost(m) ==
  IF m \in Consumption THEN {price[ItemOf[m]]}
  ELSE IF m \in Own THEN {held[m]} ELSE Cost

Insert(c, m) ==
  /\ open[c] = None /\ m \notin Inserted
  /\ m \in Own => held[m] # None /\ m \notin refused
  /\ Undoes[m] # None => Undoes[m] \in Committed
  /\ ItemFree(ItemOf[m])
  /\ sequence' = sequence + 1
  /\ \E cost \in BoundCost(m) :
       open' = [open EXCEPT ![c] = [number |-> sequence + 1, movement |-> m, cost |-> cost]]
  /\ UNCHANGED <<feed, price, aborts, overtaken, copy, refused, page>>

\* A larger number of another item is published already.
Overtaken(row) ==
  \E q \in feed : ItemOf[q.movement] # ItemOf[row.movement] /\ q.number > row.number

Commit(c) ==
  /\ open[c] # None
  /\ feed' = feed \cup {open[c]}
  /\ overtaken' = IF Overtaken(open[c]) THEN overtaken \cup {open[c]} ELSE overtaken
  /\ price' = IF open[c].movement \in Receipt
              THEN [price EXCEPT ![ItemOf[open[c].movement]] = open[c].cost] ELSE price
  /\ open' = [open EXCEPT ![c] = None]
  /\ UNCHANGED <<sequence, aborts, copy, refused, page>>

\* The number is not given back.
Abort(c) ==
  /\ open[c] # None /\ aborts < MaxAborts
  /\ open' = [open EXCEPT ![c] = None] /\ aborts' = aborts + 1
  /\ UNCHANGED <<sequence, feed, price, overtaken, copy, refused, page>>
-----------------------------------------------------------------------------
\* syncShop, one round: the cursor is read ...
Start(t) ==
  /\ page[t] = None
  /\ page' = [page EXCEPT ![t] = [from |-> cursor, next |-> cursor, rows |-> {},
                                  prices |-> [i \in Item |-> 0], got |-> {}]]
  /\ UNCHANGED <<server, copy, refused>>

\* ... operations-inventory reads the feed and the costs, each on its own ...
After(n) == {r \in feed : r.number > n}
FirstOf(n, rows) ==
  /\ rows \subseteq After(n) /\ Cardinality(rows) <= PageSize
  /\ \A r \in rows, q \in After(n) : q.number < r.number => q \in rows
  /\ rows = After(n) \/ Cardinality(rows) = PageSize

ReadFeed(t) ==
  /\ page[t] # None /\ "FEED" \notin page[t].got
  /\ \E rows \in SUBSET After(page[t].from) :
       /\ FirstOf(page[t].from, rows)
       /\ \E n \in {r.number : r \in rows} \cup {page[t].from} :
            /\ \A r \in rows : r.number <= n
            /\ page' = [page EXCEPT ![t].got = @ \cup {"FEED"},
                                    ![t].rows = rows, ![t].next = n]
  /\ UNCHANGED <<server, copy, refused>>

ReadPrices(t) ==
  /\ page[t] # None /\ "PRICES" \notin page[t].got
  /\ page' = [page EXCEPT ![t].got = @ \cup {"PRICES"}, ![t].prices = price]
  /\ UNCHANGED <<server, copy, refused>>

Complete(t) == page[t] # None /\ page[t].got = {"FEED", "PRICES"}

\* The desktop's foreign key on compensates_movement_id.
Storable(rows) ==
  ForeignKeys => \A r \in rows : Undoes[r.movement] # None =>
    \/ held[Undoes[r.movement]] # None
    \/ \E q \in rows : q.movement = Undoes[r.movement] /\ q.number < r.number

\* Mutant of NewPrices: an empty page is skipped.
NewPricesOfRows(t) == IF page[t].rows = {} THEN localPrice ELSE page[t].prices
NewPrices(t) == page[t].prices

\* ... and one local transaction takes rows, costs and cursor.  (No cursor is
\* answered, and none is set, before the first row.)
Apply(t) ==
  /\ Complete(t) /\ Storable(page[t].rows)
  /\ held' = [m \in Movement |->
                IF \E r \in page[t].rows : r.movement = m
                THEN (CHOOSE r \in page[t].rows : r.movement = m).cost ELSE held[m]]
  /\ localPrice' = NewPrices(t)
  /\ cursor' = IF page[t].next = 0 THEN cursor ELSE page[t].next
  /\ page' = [page EXCEPT ![t] = None]
  /\ UNCHANGED <<server, refused>>

\* The request times out, the transaction fails or the tab closes.
Lose(t) ==
  /\ Complete(t) /\ page' = [page EXCEPT ![t] = None]
  /\ UNCHANGED <<server, copy, refused>>
-----------------------------------------------------------------------------
Next ==
  \/ \E m \in Movement : Record(m) \/ Refuse(m)
  \/ \E c \in Connection :
       (\E m \in Movement : Insert(c, m)) \/ Commit(c) \/ Abort(c)
  \/ \E t \in Tab : Start(t) \/ ReadFeed(t) \/ ReadPrices(t) \/ Apply(t) \/ Lose(t)

Spec == Init /\ [][Next]_vars

\* A transaction ends; a connected tab pulls every fifteen seconds, is answered,
\* and does not lose every page.
Fairness ==
  /\ \A c \in Connection : WF_vars(Commit(c))
  /\ \A t \in Tab : /\ WF_vars(Start(t)) /\ WF_vars(ReadFeed(t)) /\ WF_vars(ReadPrices(t))
                    /\ SF_vars(Apply(t))

FairSpec == Spec /\ Fairness
-----------------------------------------------------------------------------
TypeOK ==
  /\ open \in [Connection -> Row \cup {None}]
  /\ sequence \in Nat /\ aborts \in 0 .. MaxAborts
  /\ feed \subseteq Row /\ overtaken \subseteq Row
  /\ price \in [Item -> Cost] /\ localPrice \in [Item -> Cost]
  /\ held \in [Movement -> Cost \cup {None}]
  /\ cursor \in Nat
  /\ refused \subseteq Own
  /\ page \in [Tab -> Page \cup {None}]

Covered(n) == \A r \in feed \ overtaken : r.number <= n => held[r.movement] = r.cost

\* No movement is passed over but one that another item's has overtaken: every
\* other row up to its cursor the device has, its own ones at the cost the
\* server has bound.  The tabs overwrite each other's cursor and costs, forwards
\* and back; an item's lock, taken before the number is drawn, is what publishes
\* its numbers in the order they are drawn.
CursorCovers == Covered(cursor)

\* A page that cannot be stored is pulled again for ever, and nothing after it
\* arrives.  Only a reversal of an overtaken movement makes a page so: what any
\* other row compensates is there.
PagesAreStorable ==
  \A t \in Tab : page[t] # None /\ ~Storable(page[t].rows) =>
    \E r \in page[t].rows, q \in overtaken : q.movement = Undoes[r.movement]

\* The movement a row reverses was overtaken and is not on the device.
Stuck == /\ ForeignKeys
         /\ \E r \in feed, q \in overtaken :
              q.movement = Undoes[r.movement] /\ held[q.movement] = None

\* While connected the device comes to hold what the server holds, movements
\* and weighted costs, for good: whichever tab's older page is applied last, and
\* but for what was overtaken.
DeviceConverges ==
  <>[](\/ Stuck
       \/ /\ localPrice = price
          /\ \A r \in feed \ overtaken : held[r.movement] = r.cost)

\* Refuted with two items.  The device comes to hold every movement.
LedgerArrives == <>[](\A r \in feed : held[r.movement] = r.cost)

\* What an Undo gives back to stock has the value Done took out.  Refuted: the
\* device's row of the consumption may still have the cost it was recorded at.
ReversalsKeepTheBoundCost ==
  \A r, q \in feed : Undoes[r.movement] = q.movement => r.cost = q.cost

\* What the proofs induct on: the ledger ...
NumbersInv ==
  /\ \A c, d \in Busy : open[c].number = open[d].number => c = d
  /\ \A c \in Busy, r \in feed : r.number # open[c].number
  /\ \A r, q \in feed : r.number = q.number => r = q
  /\ \A c, d \in Busy : ItemOf[open[c].movement] = ItemOf[open[d].movement] => c = d
  /\ \A c \in Busy : 0 < open[c].number /\ open[c].number <= sequence
  /\ \A r \in feed : r.number <= sequence
  /\ \A c \in Busy, r \in feed :
       ItemOf[r.movement] = ItemOf[open[c].movement] => r.number < open[c].number
MovementsInv ==
  /\ \A r, q \in feed : r.movement = q.movement => r = q
  /\ \A c \in Busy : open[c].movement \notin Committed
  /\ \A m \in Own \cap Inserted : held[m] # None
  /\ \A r \in feed \cup {open[c] : c \in Busy} : Undoes[r.movement] # None =>
       \E q \in feed : q.movement = Undoes[r.movement] /\ q.number < r.number
LedgerInv ==
  /\ TypeOK /\ NumbersInv /\ MovementsInv
  /\ \A t \in Tab : page[t] # None => page[t].rows \subseteq feed

\* ... and what the device has of it.
Reached(n) == n = 0 \/ \E r \in feed : n = r.number
PageInv(p) ==
  /\ Reached(p.from) /\ Reached(p.next) /\ Covered(p.from)
  /\ p.rows \subseteq feed /\ \A r \in p.rows : r.number <= p.next
  /\ \A r \in feed \ overtaken : p.from < r.number /\ r.number <= p.next => r \in p.rows
CoverInv ==
  /\ LedgerInv
  /\ Reached(cursor) /\ Covered(cursor)
  /\ \A t \in Tab : page[t] # None => PageInv(page[t])
=============================================================================
