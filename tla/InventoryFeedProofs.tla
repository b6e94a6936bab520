------------------------- MODULE InventoryFeedProofs -------------------------
(***************************************************************************)
(* Theorems about InventoryFeed, for every set of movements, connections   *)
(* and tabs and every page size: an item's numbers are published in order, *)
(* no row is passed over by the cursor but one a larger number of another  *)
(* item has overtaken, whichever tab's page is applied when, and nothing   *)
(* else makes a page that cannot be stored.                                *)
(***************************************************************************)
EXTENDS InventoryFeed, TLAPS

\* What a typed state says of its rows and pages.
LEMMA Rows ==
  ASSUME TypeOK
  PROVE  /\ \A r \in Row : r.number \in Nat /\ r.movement \in Movement /\ r.cost \in Cost
         /\ \A c \in Busy : c \in Connection /\ open[c] \in Row
         /\ \A t \in Tab : page[t] # None => page[t] \in Page
         /\ \A p \in Page : p.from \in Nat /\ p.next \in Nat /\ p.rows \subseteq Row
         /\ feed \subseteq Row
  BY DEF TypeOK, Row, Page, Busy

\* What a transaction inserts is a row: its cost is bound, whoever records it.
LEMMA InsertedRow ==
  ASSUME TypeOK, NEW c \in Connection, NEW m \in Movement, Insert(c, m)
  PROVE  \E row \in Row : /\ row.number = sequence + 1 /\ row.movement = m
                          /\ open' = [open EXCEPT ![c] = row]
<1> USE InventoryAssumption DEF TypeOK
<1>1. BoundCost(m) \subseteq Cost \cup {None} /\ (held[m] # None => BoundCost(m) \subseteq Cost)
  BY DEF BoundCost
<1>2. m \in Own \/ BoundCost(m) \subseteq Cost
  BY DEF BoundCost
<1>3. PICK cost \in Cost :
        open' = [open EXCEPT ![c] = [number |-> sequence + 1, movement |-> m, cost |-> cost]]
  BY <1>1, <1>2 DEF Insert
<1>4. [number |-> sequence + 1, movement |-> m, cost |-> cost] \in Row
  BY DEF Row
<1> QED
  BY <1>3, <1>4

\* Every action keeps the types.
LEMMA TypeStep ==
  ASSUME TypeOK, [Next]_vars
  PROVE  TypeOK'
<1> USE InventoryAssumption DEF TypeOK
<1>1. ASSUME NEW m \in Movement, Record(m) PROVE TypeOK'
  <2>1. (IF Undoes[m] = None THEN localPrice[ItemOf[m]] ELSE held[Undoes[m]])
          \in Cost \cup {None}
    OBVIOUS
  <2>2. held' \in [Movement -> Cost \cup {None}]
    BY <1>1, <2>1 DEF Record
  <2> QED
    BY <1>1, <2>2 DEF Record, server
<1>2. ASSUME NEW m \in Movement, Refuse(m) PROVE TypeOK'
  BY <1>2 DEF Refuse, server, copy
<1>3. ASSUME NEW c \in Connection, NEW m \in Movement, Insert(c, m) PROVE TypeOK'
  <2>1. PICK row \in Row : open' = [open EXCEPT ![c] = row]
    BY <1>3, InsertedRow
  <2>5. open' \in [Connection -> Row \cup {None}]
    BY <2>1
  <2> QED
    BY <1>3, <2>5 DEF Insert, copy
<1>4. ASSUME NEW c \in Connection, Commit(c) PROVE TypeOK'
  <2>1. open[c] \in Row /\ open[c].movement \in Movement /\ open[c].cost \in Cost
    BY <1>4 DEF Commit, Row
  <2>2. price' \in [Item -> Cost]
    BY <1>4, <2>1 DEF Commit
  <2> QED
    BY <1>4, <2>1, <2>2 DEF Commit, copy
<1>5. ASSUME NEW c \in Connection, Abort(c) PROVE TypeOK'
  BY <1>5 DEF Abort, copy
<1>6. ASSUME NEW t \in Tab, Start(t) PROVE TypeOK'
  <2>1. [from |-> cursor, next |-> cursor, rows |-> {}, prices |-> [i \in Item |-> 0],
         got |-> {}] \in Page
    BY DEF Page
  <2> QED
    BY <1>6, <2>1 DEF Start, server, copy
<1>7. ASSUME NEW t \in Tab, ReadFeed(t) PROVE TypeOK'
  <2>1. page[t] \in Page
    BY <1>7 DEF ReadFeed
  <2>a. PICK rows \in SUBSET After(page[t].from) :
          \E n \in {r.number : r \in rows} \cup {page[t].from} :
            page' = [page EXCEPT ![t].got = @ \cup {"FEED"}, ![t].rows = rows, ![t].next = n]
    BY <1>7 DEF ReadFeed
  <2>2. PICK n \in {r.number : r \in rows} \cup {page[t].from} :
          page' = [page EXCEPT ![t].got = @ \cup {"FEED"}, ![t].rows = rows, ![t].next = n]
    BY <2>a
  <2>3. rows \subseteq Row /\ n \in Nat
    BY <2>1, <2>2 DEF After, Row, Page
  <2>4. [page[t] EXCEPT !.got = @ \cup {"FEED"}, !.rows = rows, !.next = n] \in Page
    BY <2>1, <2>3 DEF Page
  <2>5. page' \in [Tab -> Page \cup {None}]
    BY <2>2, <2>4
  <2> QED
    BY <1>7, <2>5 DEF ReadFeed, server, copy
<1>8. ASSUME NEW t \in Tab, ReadPrices(t) PROVE TypeOK'
  <2>1. [page[t] EXCEPT !.got = @ \cup {"PRICES"}, !.prices = price] \in Page
    BY <1>8 DEF ReadPrices, Page
  <2>2. page' \in [Tab -> Page \cup {None}]
    BY <1>8, <2>1 DEF ReadPrices
  <2> QED
    BY <1>8, <2>2 DEF ReadPrices, server, copy
<1>9. ASSUME NEW t \in Tab, Apply(t) PROVE TypeOK'
  <2>1. page[t] \in Page
    BY <1>9 DEF Apply, Complete
  <2>2. page[t].rows \subseteq Row /\ page[t].next \in Nat /\ page[t].prices \in [Item -> Cost]
    BY <2>1 DEF Page
  <2>3. \A m \in Movement : (\E r \in page[t].rows : r.movement = m)
          => (CHOOSE r \in page[t].rows : r.movement = m).cost \in Cost
    BY <2>2 DEF Row
  <2>4. held' \in [Movement -> Cost \cup {None}]
    BY <1>9, <2>3 DEF Apply
  <2> QED
    BY <1>9, <2>2, <2>4 DEF Apply, NewPrices, server
<1>10. ASSUME NEW t \in Tab, Lose(t) PROVE TypeOK'
  BY <1>10 DEF Lose, server, copy
<1>11. CASE UNCHANGED vars
  BY <1>11 DEF vars, server, copy
<1> QED
  BY <1>1, <1>2, <1>3, <1>4, <1>5, <1>6, <1>7, <1>8, <1>9, <1>10, <1>11 DEF Next

\* The ledger, the device's copy and the pages stay what they are declared to
\* be: in particular a movement is never inserted without a cost.
THEOREM TypeCorrect == Spec => []TypeOK
<1>1. Init => TypeOK
  BY InventoryAssumption DEF Init, TypeOK
<1> QED
  BY <1>1, TypeStep, PTL DEF Spec

\* An item has one transaction open, and its number is above the item's
\* committed ones.
LEMMA NumbersStep ==
  ASSUME TypeOK, NumbersInv, [Next]_vars
  PROVE  NumbersInv'
<1>1. ASSUME NEW c \in Connection, NEW m \in Movement, Insert(c, m) PROVE NumbersInv'
  <2>1. c \notin Busy /\ \A d \in Busy : ItemOf[open[d].movement] # ItemOf[m]
    BY <1>1 DEF Insert, ItemFree, Busy
  <2>2. PICK row \in Row : /\ row.number = sequence + 1 /\ row.movement = m
                            /\ open' = [open EXCEPT ![c] = row]
    BY <1>1, InsertedRow
  <2>3. row # None
    BY NoneAssumption
  <2>4. /\ Busy' = Busy \cup {c} /\ open'[c] = row
        /\ \A d \in Busy : open'[d] = open[d]
        /\ feed' = feed /\ sequence' = sequence + 1
    BY <1>1, <2>1, <2>2, <2>3 DEF Busy, Insert, TypeOK
  <2>5. /\ sequence \in Nat /\ \A r \in feed : r.number \in Nat
        /\ \A d \in Busy : open[d].number \in Nat
    BY Rows DEF TypeOK
  <2>6. \A d, e \in Busy' : ItemOf[open'[d].movement] = ItemOf[open'[e].movement] => d = e
    BY <2>1, <2>2, <2>4 DEF NumbersInv
  <2>7. \A d \in Busy' : 0 < open'[d].number /\ open'[d].number <= sequence'
    BY <2>2, <2>4, <2>5 DEF NumbersInv
  <2>8. \A r \in feed' : r.number <= sequence' /\ r.number < row.number
    BY <2>2, <2>4, <2>5 DEF NumbersInv
  <2>9. \A d \in Busy', r \in feed' :
          ItemOf[r.movement] = ItemOf[open'[d].movement] => r.number < open'[d].number
    BY <2>4, <2>8 DEF NumbersInv
  <2>10. /\ \A d, e \in Busy' : open'[d].number = open'[e].number => d = e
         /\ \A d \in Busy', r \in feed' : r.number # open'[d].number
         /\ \A r, q \in feed' : r.number = q.number => r = q
    <3>1. \A d \in Busy : open[d].number # row.number
      BY <2>2, <2>5 DEF NumbersInv
    <3>2. \A r \in feed : r.number # row.number
      BY <2>4, <2>5, <2>8
    <3> QED
      BY <2>4, <3>1, <3>2 DEF NumbersInv
  <2> QED
    BY <2>6, <2>7, <2>8, <2>9, <2>10 DEF NumbersInv
<1>2. ASSUME NEW c \in Connection, Commit(c) PROVE NumbersInv'
  <2>1. c \in Busy
    BY <1>2 DEF Commit, Busy
  <2>2. /\ Busy' = Busy \ {c} /\ (\A d \in Busy' : open'[d] = open[d])
        /\ feed' = feed \cup {open[c]} /\ sequence' = sequence
    BY <1>2, <2>1 DEF Commit, Busy, TypeOK
  <2>3. \A d \in Busy' : /\ ItemOf[open[d].movement] # ItemOf[open[c].movement]
                         /\ open[d].number # open[c].number
    BY <2>1, <2>2 DEF NumbersInv
  <2>4. \A r, q \in feed' : r.number = q.number => r = q
    BY <2>1, <2>2 DEF NumbersInv
  <2> QED
    BY <2>1, <2>2, <2>3, <2>4 DEF NumbersInv
<1>3. ASSUME NEW c \in Connection, Abort(c) PROVE NumbersInv'
  <2>1. Busy' \subseteq Busy /\ (\A d \in Busy' : open'[d] = open[d])
    BY <1>3 DEF Abort, Busy, TypeOK
  <2>2. feed' = feed /\ sequence' = sequence
    BY <1>3 DEF Abort
  <2> QED
    BY <2>1, <2>2 DEF NumbersInv
<1>4. ASSUME UNCHANGED <<open, feed, sequence>> PROVE NumbersInv'
  BY <1>4 DEF NumbersInv, Busy
<1> QED
  BY <1>1, <1>2, <1>3, <1>4
  DEF Next, vars, server, Record, Refuse, Start, ReadFeed, ReadPrices, Apply, Lose

\* A page gives its movements the costs of its rows and leaves the others alone.
LEMMA ApplyTakes ==
  ASSUME TypeOK, MovementsInv, NEW t \in Tab, Apply(t), page[t].rows \subseteq feed
  PROVE  /\ \A r \in page[t].rows : held'[r.movement] = r.cost
         /\ \A m \in Movement : held'[m] = held[m]
              \/ \E r \in page[t].rows : r.movement = m /\ held'[m] = r.cost
<1> DEFINE of(m) == {r \in page[t].rows : r.movement = m}
<1>1. ASSUME NEW m \in Movement, NEW q \in page[t].rows, q.movement = m
      PROVE  held'[m] = q.cost
  <2>1. \A r \in page[t].rows : r.movement = m => r = q
    BY <1>1 DEF MovementsInv
  <2>2. (CHOOSE r \in page[t].rows : r.movement = m) = q
    BY <1>1, <2>1
  <2> QED
    BY <1>1, <2>2 DEF Apply
<1>2. ASSUME NEW m \in Movement, ~ \E r \in page[t].rows : r.movement = m
      PROVE  held'[m] = held[m]
  BY <1>2 DEF Apply
<1>3. \A r \in page[t].rows : r.movement \in Movement
  BY Rows
<1> QED
  BY <1>1, <1>2, <1>3

\* A movement is inserted once, after the one it compensates; those the device
\* records stay recorded.
LEMMA MovementsStep ==
  ASSUME LedgerInv, [Next]_vars
  PROVE  MovementsInv'
<1> USE DEF LedgerInv
<1>1. ASSUME NEW c \in Connection, NEW m \in Movement, Insert(c, m) PROVE MovementsInv'
  <2>1. PICK row \in Row : /\ row.number = sequence + 1 /\ row.movement = m
                           /\ open' = [open EXCEPT ![c] = row]
    BY <1>1, InsertedRow
  <2>2. row # None
    BY NoneAssumption
  <2>3. /\ Busy' = Busy \cup {c} /\ c \notin Busy /\ open'[c] = row
        /\ \A d \in Busy : open'[d] = open[d]
    BY <1>1, <2>1, <2>2 DEF Insert, Busy, TypeOK
  <2>4. feed' = feed /\ held' = held /\ Committed' = Committed
    BY <1>1 DEF Insert, copy, Committed
  <2>5. Inserted' \subseteq Inserted \cup {m}
    BY <2>1, <2>3, <2>4 DEF Inserted
  <2>6. Undoes[m] # None => \E q \in feed : q.movement = Undoes[m] /\ q.number < row.number
    <3>1. SUFFICES ASSUME Undoes[m] # None
                   PROVE  \E q \in feed : q.movement = Undoes[m] /\ q.number < row.number
      OBVIOUS
    <3>2. PICK q \in feed : q.movement = Undoes[m]
      BY <1>1, <3>1 DEF Insert, Committed
    <3>3. q.number \in Nat /\ q.number <= sequence /\ sequence \in Nat
      BY Rows DEF NumbersInv, TypeOK
    <3> QED
      BY <2>1, <3>2, <3>3
  <2>7. m \notin Committed /\ (m \in Own => held[m] # None)
    BY <1>1 DEF Insert, Inserted
  <2>8. {open'[d] : d \in Busy'} \subseteq {open[d] : d \in Busy} \cup {row}
    BY <2>3
  <2>9. \A d \in Busy' : open'[d].movement \notin Committed'
    BY <2>1, <2>3, <2>4, <2>7 DEF MovementsInv
  <2>10. \A k \in Own \cap Inserted' : held'[k] # None
    BY <2>4, <2>5, <2>7 DEF MovementsInv
  <2>11. \A r \in feed \cup {open'[d] : d \in Busy'} : Undoes[r.movement] # None =>
           \E q \in feed : q.movement = Undoes[r.movement] /\ q.number < r.number
    BY <2>1, <2>6, <2>8 DEF MovementsInv
  <2> QED
    BY <2>4, <2>9, <2>10, <2>11 DEF MovementsInv
<1>2. ASSUME NEW c \in Connection, Commit(c) PROVE MovementsInv'
  <2>1. c \in Busy
    BY <1>2 DEF Commit, Busy
  <2>2. /\ Busy' = Busy \ {c} /\ (\A d \in Busy' : open'[d] = open[d])
        /\ feed' = feed \cup {open[c]} /\ held' = held
    BY <1>2, <2>1 DEF Commit, Busy, TypeOK, copy
  <2>3. /\ \A d \in Busy : open[d].movement \notin Committed
        /\ \A d \in Busy' : open[d].movement # open[c].movement
        /\ {open'[d] : d \in Busy'} \cup feed' = {open[d] : d \in Busy} \cup feed
    BY <2>1, <2>2 DEF MovementsInv, NumbersInv
  <2>4. Inserted' \subseteq Inserted
    BY <2>1, <2>2 DEF Inserted, Committed
  <2>5. \A r, q \in feed' : r.movement = q.movement => r = q
    BY <2>2, <2>3 DEF MovementsInv, Committed
  <2>6. \A d \in Busy' : open'[d].movement \notin Committed'
    BY <2>2, <2>3 DEF Committed
  <2>7. \A m \in Own \cap Inserted' : held'[m] # None
    BY <2>2, <2>4 DEF MovementsInv
  <2>8. \A r \in feed' \cup {open'[d] : d \in Busy'} : Undoes[r.movement] # None =>
          \E q \in feed' : q.movement = Undoes[r.movement] /\ q.number < r.number
    BY <2>2, <2>3 DEF MovementsInv
  <2> QED
    BY <2>5, <2>6, <2>7, <2>8 DEF MovementsInv
<1>3. ASSUME NEW c \in Connection, Abort(c) PROVE MovementsInv'
  <2>1. Busy' \subseteq Busy /\ (\A d \in Busy' : open'[d] = open[d])
    BY <1>3 DEF Abort, Busy, TypeOK
  <2>2. feed' = feed /\ held' = held
    BY <1>3 DEF Abort, copy
  <2>3. {open'[d] : d \in Busy'} \subseteq {open[d] : d \in Busy} /\ Committed' = Committed
    BY <2>1, <2>2 DEF Committed
  <2>4. Inserted' \subseteq Inserted
    BY <2>1, <2>2 DEF Inserted, Committed
  <2> QED
    BY <2>1, <2>2, <2>3, <2>4 DEF MovementsInv
<1>4. ASSUME UNCHANGED <<open, feed>>, \A m \in Movement : held[m] # None => held'[m] # None
      PROVE  MovementsInv'
  <2>1. Busy' = Busy /\ Inserted' = Inserted /\ Committed' = Committed
    BY <1>4 DEF Busy, Inserted, Committed
  <2> QED
    BY <1>4, <2>1, InventoryAssumption DEF MovementsInv
<1>5. ASSUME NEW m \in Movement, Record(m) PROVE MovementsInv'
  <2>1. \A k \in Movement : held[k] # None => held'[k] # None
    BY <1>5 DEF Record, TypeOK
  <2> QED
    BY <1>4, <1>5, <2>1 DEF Record, server
<1>6. ASSUME NEW t \in Tab, Apply(t) PROVE MovementsInv'
  <2>1. page[t].rows \subseteq feed
    BY <1>6 DEF Apply, Complete
  <2>2. \A r \in page[t].rows : r.cost # None
    BY <2>1, Rows, NoneAssumption
  <2>3. \A k \in Movement : held[k] # None => held'[k] # None
    BY <1>6, <2>1, <2>2, ApplyTakes
  <2> QED
    BY <1>4, <1>6, <2>3 DEF Apply, server
<1>7. CASE UNCHANGED <<open, feed, held>>
  BY <1>4, <1>7
<1> QED
  BY <1>1, <1>2, <1>3, <1>5, <1>6, <1>7
  DEF Next, vars, server, copy, Refuse, Start, ReadFeed, ReadPrices, Lose

\* What a tab has read of the feed is committed, and nothing committed is lost.
LEMMA LedgerStep ==
  ASSUME LedgerInv, [Next]_vars
  PROVE  LedgerInv'
<1>0. TypeOK /\ NumbersInv
  BY DEF LedgerInv
<1>1. TypeOK' /\ NumbersInv' /\ MovementsInv'
  BY <1>0, TypeStep, NumbersStep, MovementsStep
<1>2. feed \subseteq feed'
  <2>1. (\E c \in Connection : Commit(c)) \/ feed' = feed
    BY DEF Next, vars, server, Record, Refuse, Insert, Abort, Start, ReadFeed,
           ReadPrices, Apply, Lose
  <2> QED
    BY <2>1 DEF Commit
<1>3. ASSUME NEW t \in Tab, page'[t] # None PROVE page'[t].rows \subseteq feed'
  <2>1. CASE page'[t] = page[t]
    BY <1>2, <1>3, <2>1 DEF LedgerInv
  <2>2. ASSUME NEW u \in Tab, Start(u) PROVE page'[t] = page[t] \/ page'[t].rows = {}
    BY <1>0, <2>2 DEF Start, TypeOK
  <2>3. ASSUME NEW u \in Tab, ReadFeed(u)
        PROVE  page'[t] = page[t] \/ page'[t].rows \subseteq feed
    <3>1. page[u] \in Page
      BY <1>0, <2>3 DEF ReadFeed, TypeOK
    <3>2. PICK rows \in SUBSET After(page[u].from) : \E n \in {r.number : r \in rows} \cup {page[u].from} :
            page' = [page EXCEPT ![u].got = @ \cup {"FEED"}, ![u].rows = rows, ![u].next = n]
      BY <2>3 DEF ReadFeed
    <3>3. PICK n \in {r.number : r \in rows} \cup {page[u].from} :
            page' = [page EXCEPT ![u].got = @ \cup {"FEED"}, ![u].rows = rows, ![u].next = n]
      BY <3>2
    <3>4. page'[u].rows = rows /\ (t # u => page'[t] = page[t])
      BY <1>0, <3>1, <3>3 DEF TypeOK, Page
    <3> QED
      BY <3>2, <3>4 DEF After
  <2>4. ASSUME NEW u \in Tab, ReadPrices(u)
        PROVE  page'[t] = page[t] \/ (page[t] # None /\ page'[t].rows = page[t].rows)
    BY <1>0, <2>4 DEF ReadPrices, TypeOK, Page
  <2>5. ASSUME NEW u \in Tab, Apply(u) \/ Lose(u) PROVE page'[t] = page[t]
    BY <1>0, <1>3, <2>5 DEF Apply, Lose, TypeOK
  <2>6. CASE UNCHANGED page
    BY <2>1, <2>6
  <2>7. \A u \in Tab : Start(u) \/ ReadFeed(u) \/ ReadPrices(u) => feed' = feed
    BY DEF Start, ReadFeed, ReadPrices, server
  <2> QED
    BY <2>1, <2>2, <2>3, <2>4, <2>5, <2>6, <2>7
    DEF Next, vars, Record, Refuse, Insert, Commit, Abort, LedgerInv
<1> QED
  BY <1>1, <1>3 DEF LedgerInv

\* However transactions on different items overlap: an item's numbers are
\* published in the order they are drawn, a movement is published once, with a
\* number above that of what it compensates, and no page holds a row that was
\* not committed.
THEOREM LedgerIsOrderedByItem == Spec => []LedgerInv
<1>1. Init => LedgerInv
  <2>1. Init => TypeOK
    BY InventoryAssumption DEF Init, TypeOK
  <2>2. Init => Busy = {} /\ feed = {} /\ Inserted = {} /\ \A t \in Tab : page[t] = None
    BY DEF Init, Busy, Inserted, Committed
  <2> QED
    BY <2>1, <2>2 DEF LedgerInv, NumbersInv, MovementsInv
<1> QED
  BY <1>1, LedgerStep, PTL DEF Spec

-----------------------------------------------------------------------------
(* What the device has of the ledger. *)

\* What a step does to what the device has of the feed: a new row is above every
\* committed one, unless one of another item has overtaken it, and a row the
\* device holds at its cost stays held.
LEMMA StepEffects ==
  ASSUME CoverInv, [Next]_vars
  PROVE  /\ feed \subseteq feed' /\ overtaken \subseteq overtaken'
         /\ \A r \in feed' \ (feed \cup overtaken') :
              0 < r.number /\ \A q \in feed : q.number < r.number
         /\ \A r \in feed : held[r.movement] = r.cost => held'[r.movement] = r.cost
<1> USE DEF CoverInv, LedgerInv
<1>1. ASSUME NEW m \in Movement, Record(m)
      PROVE  UNCHANGED <<feed, overtaken>> /\ (\A r \in feed : held[r.movement] = r.cost
                                                => held'[r.movement] = r.cost)
  <2>1. \A r \in feed : r.cost # None
    BY Rows, NoneAssumption
  <2> QED
    BY <1>1, <2>1 DEF Record, server, TypeOK
<1>2. ASSUME NEW c \in Connection, Commit(c)
      PROVE  /\ feed' = feed \cup {open[c]} /\ held' = held /\ overtaken \subseteq overtaken'
             /\ \/ open[c] \in overtaken'
                \/ 0 < open[c].number /\ \A q \in feed : q.number < open[c].number
  <2>1. c \in Busy
    BY <1>2 DEF Commit, Busy
  <2>2. feed' = feed \cup {open[c]} /\ held' = held /\ overtaken \subseteq overtaken'
    BY <1>2 DEF Commit, copy
  <2>3. CASE Overtaken(open[c])
    BY <1>2, <2>2, <2>3 DEF Commit
  <2>4. CASE ~Overtaken(open[c])
    <3>1. open[c].number \in Nat /\ \A q \in feed : q.number \in Nat
      BY <2>1, Rows
    <3>2. \A q \in feed : q.number # open[c].number
      BY <2>1 DEF NumbersInv
    <3>3. \A q \in feed : ItemOf[q.movement] = ItemOf[open[c].movement]
                          \/ ~(q.number > open[c].number)
      BY <2>4 DEF Overtaken
    <3>4. \A q \in feed : q.number < open[c].number
      BY <2>1, <3>1, <3>2, <3>3 DEF NumbersInv
    <3> QED
      BY <2>1, <2>2, <3>4 DEF NumbersInv
  <2> QED
    BY <2>3, <2>4
<1>3. ASSUME NEW t \in Tab, Apply(t)
      PROVE  UNCHANGED <<feed, overtaken>> /\ (\A r \in feed : held[r.movement] = r.cost
                                                => held'[r.movement] = r.cost)
  <2>1. page[t] # None /\ UNCHANGED <<feed, overtaken>>
    BY <1>3 DEF Apply, Complete, server
  <2>2. page[t].rows \subseteq feed
    BY <2>1 DEF PageInv
  <2>3. \A r \in feed : r.movement \in Movement
    BY Rows
  <2>4. \A r \in feed, q \in page[t].rows : q.movement = r.movement => q = r
    BY <2>2 DEF MovementsInv
  <2> QED
    BY <1>3, <2>1, <2>2, <2>3, <2>4, ApplyTakes
<1>4. CASE UNCHANGED <<feed, overtaken, held>>
  BY <1>4
<1> QED
  BY <1>1, <1>2, <1>3, <1>4
  DEF Next, vars, server, copy, Refuse, Insert, Abort, Start, ReadFeed, ReadPrices, Lose

\* Nothing turns up later below a number that was reached, unless it was
\* overtaken.
LEMMA NothingBelow ==
  ASSUME CoverInv, [Next]_vars, NEW n \in Nat, Reached(n)
  PROVE  /\ Reached(n)'
         /\ \A r \in feed' \ overtaken' : r.number <= n => r \in feed \ overtaken
<1>1. \A r \in feed' : r.number \in Nat
  BY TypeStep DEF CoverInv, LedgerInv, TypeOK, Row
<1>2. \A r \in feed' \ (feed \cup overtaken') : n < r.number
  BY StepEffects DEF Reached
<1>3. Reached(n)'
  BY StepEffects DEF Reached
<1>4. ASSUME NEW r \in feed' \ overtaken', r.number <= n PROVE r \in feed \ overtaken
  BY <1>1, <1>2, <1>4, StepEffects
<1> QED
  BY <1>3, <1>4

\* What the device has up to a number that was reached, it keeps.
LEMMA KeepsCover ==
  ASSUME CoverInv, [Next]_vars, NEW n \in Nat, Reached(n), Covered(n)
  PROVE  Reached(n)' /\ Covered(n)'
<1>1. \A r \in feed' \ overtaken' : r.number <= n => held'[r.movement] = r.cost
  BY NothingBelow, StepEffects DEF Covered
<1> QED
  BY <1>1, NothingBelow DEF Covered

\* A page that lies with a tab stays complete.
LEMMA KeepsPage ==
  ASSUME CoverInv, [Next]_vars, NEW p \in Page, PageInv(p)
  PROVE  PageInv(p)'
<1>1. p.from \in Nat /\ p.next \in Nat
  BY DEF Page
<1>2. Reached(p.from)' /\ Covered(p.from)'
  BY <1>1, KeepsCover DEF PageInv
<1>3. feed \subseteq feed' /\ Reached(p.next)'
  BY <1>1, NothingBelow, StepEffects DEF PageInv
<1>4. \A r \in feed' \ overtaken' : p.from < r.number /\ r.number <= p.next => r \in p.rows
  BY <1>1, NothingBelow DEF PageInv
<1> QED
  BY <1>2, <1>3, <1>4 DEF PageInv

\* The page the server answers: the rows from the cursor up to the last of them.
LEMMA AnsweredPage ==
  ASSUME CoverInv, NEW t \in Tab, ReadFeed(t)
  PROVE  /\ PageInv(page'[t])
         /\ \A u \in Tab \ {t} : page'[u] = page[u]
<1> USE DEF CoverInv, LedgerInv
<1>1. page[t] # None /\ page[t] \in Page /\ PageInv(page[t])
  BY Rows DEF ReadFeed
<1>2. PICK rows \in SUBSET After(page[t].from) :
        /\ FirstOf(page[t].from, rows)
        /\ \E n \in {r.number : r \in rows} \cup {page[t].from} :
             /\ \A r \in rows : r.number <= n
             /\ page' = [page EXCEPT ![t].got = @ \cup {"FEED"},
                                     ![t].rows = rows, ![t].next = n]
  BY DEF ReadFeed
<1>3. PICK n \in {r.number : r \in rows} \cup {page[t].from} :
        /\ \A r \in rows : r.number <= n
        /\ page' = [page EXCEPT ![t].got = @ \cup {"FEED"},
                                ![t].rows = rows, ![t].next = n]
  BY <1>2
<1>4. /\ page'[t].from = page[t].from /\ page'[t].rows = rows /\ page'[t].next = n
      /\ \A u \in Tab \ {t} : page'[u] = page[u]
  BY <1>1, <1>3 DEF TypeOK, Page
<1>5. rows \subseteq feed /\ \A r \in feed : r.number \in Nat
  BY <1>2, Rows DEF After
<1>6. page[t].from \in Nat /\ n \in Nat
  BY <1>1, <1>3, <1>5 DEF Page
<1>7. Reached(n)
  BY <1>1, <1>3, <1>5, <1>6 DEF PageInv, Reached
<1>8. ASSUME NEW r \in feed, page[t].from < r.number, r.number <= n PROVE r \in rows
  <2>1. PICK q \in rows : q.number = n
    BY <1>3, <1>5, <1>6, <1>8
  <2>2. r \in After(page[t].from)
    BY <1>8 DEF After
  <2>3. r.number < q.number \/ r = q
    BY <1>5, <1>6, <1>8, <2>1 DEF NumbersInv
  <2> QED
    BY <1>2, <2>1, <2>2, <2>3 DEF FirstOf
<1> QED
  BY <1>1, <1>3, <1>4, <1>5, <1>7, <1>8 DEF PageInv

\* Every action keeps what the device has complete: the cursor's rows and those
\* of every page that is under way.
LEMMA CoverStep ==
  ASSUME CoverInv, [Next]_vars
  PROVE  CoverInv'
<1>0. TypeOK /\ cursor \in Nat /\ Reached(cursor) /\ Covered(cursor)
  BY DEF CoverInv, LedgerInv, TypeOK
<1>1. LedgerInv'
  BY LedgerStep DEF CoverInv
<1>4. ASSUME NEW t \in Tab, page[t] # None PROVE PageInv(page[t]) /\ page[t] \in Page
  BY <1>0, <1>4, Rows DEF CoverInv, LedgerInv
<1>5. ASSUME NEW t \in Tab, page[t] # None, page'[t] = page[t]
      PROVE  PageInv(page[t])'
  <2>1. PICK p \in Page : p = page[t]
    BY <1>4, <1>5
  <2>2. PageInv(p)'
    BY <1>4, <1>5, <2>1, KeepsPage
  <2> QED
    BY <1>5, <2>1, <2>2 DEF PageInv, Reached, Covered
<1>6. Reached(cursor)' /\ Covered(cursor)' /\ \A t \in Tab : page'[t] # None => PageInv(page[t])'
  <2>1. ASSUME NEW n \in Nat, n = cursor PROVE Reached(n)' /\ Covered(n)'
    BY <1>0, <2>1, KeepsCover
  <2>2. ASSUME cursor' = cursor PROVE Reached(cursor)' /\ Covered(cursor)'
    BY <1>0, <2>1, <2>2 DEF Reached, Covered
  <2>3. ASSUME NEW t \in Tab, Start(t)
        PROVE  Reached(cursor)' /\ Covered(cursor)' /\ \A u \in Tab : page'[u] # None => PageInv(page[u])'
    <3>1. page'[t] = [from |-> cursor, next |-> cursor, rows |-> {},
                      prices |-> [i \in Item |-> 0], got |-> {}]
          /\ (\A u \in Tab \ {t} : page'[u] = page[u]) /\ UNCHANGED <<feed, overtaken, held, cursor>>
      BY <1>0, <2>3 DEF Start, server, copy, TypeOK
    <3>2. PageInv(page'[t])
      BY <1>0, <3>1, Rows DEF PageInv
    <3>3. PageInv(page[t])'
      BY <3>1, <3>2 DEF PageInv, Reached, Covered
    <3> QED
      BY <1>5, <2>2, <3>1, <3>3
  <2>4. ASSUME NEW t \in Tab, ReadFeed(t)
        PROVE  Reached(cursor)' /\ Covered(cursor)' /\ \A u \in Tab : page'[u] # None => PageInv(page[u])'
    <3>1. UNCHANGED <<feed, overtaken, held, cursor>>
      BY <2>4 DEF ReadFeed, server, copy
    <3>2. PageInv(page'[t]) /\ \A u \in Tab \ {t} : page'[u] = page[u]
      BY <2>4, AnsweredPage
    <3>3. PageInv(page[t])'
      BY <3>1, <3>2 DEF PageInv, Reached, Covered
    <3> QED
      BY <1>5, <2>2, <3>1, <3>2, <3>3
  <2>5. ASSUME NEW t \in Tab, ReadPrices(t)
        PROVE  Reached(cursor)' /\ Covered(cursor)' /\ \A u \in Tab : page'[u] # None => PageInv(page[u])'
    <3>1. UNCHANGED <<feed, overtaken, held, cursor>> /\ page[t] # None
      BY <2>5 DEF ReadPrices, server, copy
    <3>2. /\ page'[t].from = page[t].from /\ page'[t].next = page[t].next
          /\ page'[t].rows = page[t].rows /\ \A u \in Tab \ {t} : page'[u] = page[u]
      BY <1>0, <1>4, <2>5, <3>1 DEF ReadPrices, TypeOK, Page
    <3>3. PageInv(page[t])'
      BY <1>4, <3>1, <3>2 DEF PageInv, Reached, Covered
    <3> QED
      BY <1>5, <2>2, <3>1, <3>2, <3>3
  <2>6. ASSUME NEW t \in Tab, Apply(t)
        PROVE  Reached(cursor)' /\ Covered(cursor)' /\ \A u \in Tab : page'[u] # None => PageInv(page[u])'
    <3>1. page[t] # None /\ UNCHANGED <<feed, overtaken>> /\ page'[t] = None
          /\ \A u \in Tab \ {t} : page'[u] = page[u]
      BY <1>0, <2>6 DEF Apply, Complete, server, TypeOK
    <3>2. PICK p \in Page : p = page[t] /\ PageInv(p)
      BY <1>4, <3>1
    <3>3. p.from \in Nat /\ p.next \in Nat /\ \A r \in feed : r.number \in Nat
      BY <1>0, Rows DEF Page
    <3>4. Covered(p.from)' /\ Reached(p.next)'
      BY <3>1, <3>2, <3>3, KeepsCover DEF PageInv, Reached
    <3>5. \A r \in p.rows : held'[r.movement] = r.cost
      BY <1>0, <2>6, <3>2, ApplyTakes DEF CoverInv, LedgerInv, PageInv
    <3>6. Covered(p.next)'
      <4>1. SUFFICES ASSUME NEW r \in feed \ overtaken, r.number <= p.next
                     PROVE  held'[r.movement] = r.cost
        BY <3>1 DEF Covered
      <4>2. r.number <= p.from \/ r \in p.rows
        BY <3>2, <3>3, <4>1 DEF PageInv
      <4> QED
        BY <3>1, <3>4, <3>5, <4>2 DEF Covered
    <3>7. cursor' = cursor \/ cursor' = p.next
      BY <2>6, <3>2 DEF Apply
    <3>8. Reached(cursor)' /\ Covered(cursor)'
      BY <2>2, <3>4, <3>6, <3>7 DEF Reached, Covered
    <3> QED
      BY <1>5, <3>1, <3>8
  <2>7. ASSUME NEW t \in Tab, Lose(t)
        PROVE  Reached(cursor)' /\ Covered(cursor)' /\ \A u \in Tab : page'[u] # None => PageInv(page[u])'
    <3>1. cursor' = cursor /\ page'[t] = None /\ \A u \in Tab \ {t} : page'[u] = page[u]
      BY <1>0, <2>7 DEF Lose, copy, TypeOK
    <3> QED
      BY <1>5, <2>2, <3>1
  <2>8. CASE UNCHANGED <<cursor, page>>
    BY <1>5, <2>2, <2>8
  <2> QED
    BY <2>3, <2>4, <2>5, <2>6, <2>7, <2>8
    DEF Next, vars, copy, Record, Refuse, Insert, Commit, Abort
<1> QED
  BY <1>1, <1>6 DEF CoverInv

\* The invariant the other theorems follow from: pages without a hole but where
\* a row was overtaken, and a cursor with nothing else missing below it, for any
\* number of items and of transactions open at once.
THEOREM CoverInvariance == Spec => []CoverInv
<1>1. Init /\ LedgerInv => CoverInv
  BY DEF Init, CoverInv, Reached, Covered
<1>2. CoverInv /\ [Next]_vars => CoverInv'
  BY CoverStep
<1> QED
  BY <1>1, <1>2, LedgerIsOrderedByItem, PTL DEF Spec

\* No movement of the ledger is passed over by a device whose tabs overwrite
\* each other's cursor, but one published behind a larger number of another item.
THEOREM NothingIsPassedOver == Spec => []CursorCovers
<1>1. CoverInv => CursorCovers
  BY DEF CoverInv, CursorCovers
<1> QED
  BY <1>1, CoverInvariance, PTL

\* And the foreign key refuses a page only for a reversal of such a movement: any
\* other reversal's number is above its movement's, which is in the page or
\* below the page's cursor.
THEOREM EveryPageIsStorable == Spec => []PagesAreStorable
<1>1. ASSUME CoverInv PROVE PagesAreStorable
  <2>1. SUFFICES ASSUME NEW t \in Tab, page[t] # None,
                        NEW r \in page[t].rows, Undoes[r.movement] # None,
                        ~ \E q \in overtaken : q.movement = Undoes[r.movement]
                 PROVE  \/ held[Undoes[r.movement]] # None
                        \/ \E q \in page[t].rows : /\ q.movement = Undoes[r.movement]
                                                   /\ q.number < r.number
    BY DEF PagesAreStorable, Storable
  <2>2. PageInv(page[t]) /\ page[t].from \in Nat /\ page[t].next \in Nat
    BY <1>1, <2>1, Rows DEF CoverInv, LedgerInv
  <2>3. r \in feed /\ r.number <= page[t].next
    BY <2>1, <2>2 DEF PageInv
  <2>4. PICK q \in feed \ overtaken : q.movement = Undoes[r.movement] /\ q.number < r.number
    BY <1>1, <2>1, <2>3 DEF CoverInv, LedgerInv, MovementsInv
  <2>5. q.number \in Nat /\ r.number \in Nat /\ q.cost # None
    BY <1>1, <2>3, Rows, NoneAssumption DEF CoverInv, LedgerInv
  <2>6. CASE q.number <= page[t].from
    BY <2>2, <2>4, <2>5, <2>6 DEF PageInv, Covered
  <2>7. CASE page[t].from < q.number
    <3>1. q.number <= page[t].next
      BY <2>2, <2>3, <2>4, <2>5
    <3> QED
      BY <2>2, <2>4, <2>7, <3>1 DEF PageInv
  <2> QED
    BY <2>2, <2>5, <2>6, <2>7
<1> QED
  BY <1>1, CoverInvariance, PTL
=============================================================================
