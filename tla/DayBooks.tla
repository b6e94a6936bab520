------------------------------ MODULE DayBooks ------------------------------
(***************************************************************************)
(* The books of one business day on one device: its orders with their      *)
(* payments and local stock movements, its expenses, its bulk stock, and   *)
(* the reconciliation that closes it.  Several tabs (or windows) work on   *)
(* one database, each with a command coordinator of its own; the outbox    *)
(* and the convergence service change orders between the commands.         *)
(***************************************************************************)
EXTENDS Checkout, FiniteSets, SequencesExt

CONSTANTS Tab, Worker, NoWorker, Order, Expense,
          Draft,        \* the order drafts that are checked out
          policy,       \* the published checkout policy
          Amount,       \* amounts of a manual expense
          OpeningStock, \* units of the one stock item; an order uses one
          MaxChanges,   \* bound: revisions of the orders together
          MaxEdits,     \* bound: revisions of an expense
          MaxShifts     \* bound: sign-ins after the first

ASSUME BooksAssumption ==
  /\ NoWorker \notin Worker /\ CashMethod # OtherMethod /\ NoAmount \notin Int
  /\ Draft \subseteq [subtotal: Nat, discount: Nat, fee: Nat, delivery: BOOLEAN,
                      payment: PaymentDraft]
  /\ policy \in Policy /\ Amount \subseteq Nat \ {0}
  /\ IsFiniteSet(Order) /\ IsFiniteSet(Expense)
  /\ OpeningStock \in Nat /\ MaxChanges \in Nat /\ MaxEdits \in Nat /\ MaxShifts \in Nat

VARIABLES day,       \* "OPEN" or "CLOSED"
          operator,  \* whose session is open
          shifts,    \* sign-ins since the day began
          orders,    \* order -> its snapshot, NoOrder before it is placed
          unsent,    \* orders whose placement the server has not taken
          moves,     \* order -> its inventory movements
          expenses,  \* expense -> its ledger record, NoExpense
          rows,      \* expense -> its outbox rows
          bulk,      \* the bulk unit finished today, and what undid it
          job,       \* tab -> the command it is in the middle of
          recorded,  \* the reconciliation, NoBooks before the close
          till       \* history: what each method took in, as it happened

vars == <<day, operator, shifts, orders, unsent, moves, expenses, rows, bulk,
          job, recorded, till>>

NoOrder   == [status |-> "NONE"]
NoExpense == [revision |-> -1]
Paid(m, amount) == [x \in Method |-> IF x = m THEN amount ELSE 0]
Nothing   == [x \in Method |-> 0]
NoBooks   == [books |-> Nothing, clean |-> FALSE, by |-> NoWorker]
NoJob     == [op |-> "NONE"]

\* A movement: units on hand, units reserved, and the movement it compensates.
Move(type, quantity, held, undoes) ==
  [type |-> type, quantity |-> quantity, held |-> held, undoes |-> undoes]

Total(f, S) == FoldSet(LAMBDA x, acc : f[x] + acc, 0, S)
Held(ms) == Total([i \in DOMAIN ms |-> ms[i].held], DOMAIN ms)
Used(ms) == Total([i \in DOMAIN ms |-> -ms[i].quantity], DOMAIN ms)
Available ==
  OpeningStock - Total([o \in Order |-> Held(moves[o]) + Used(moves[o])], Order)

TypeOK ==
  /\ day \in {"OPEN", "CLOSED"} /\ operator \in Worker \cup {NoWorker}
  /\ shifts \in 0..MaxShifts
  /\ \A o \in Order :
       \/ orders[o] = NoOrder /\ moves[o] = <<>>
       \/ /\ orders[o].status \in {"ACTIVE", "DONE", "CANCELLED", "RETURNED"}
          /\ orders[o].revision \in 0..MaxChanges
  /\ unsent \subseteq {o \in Order : orders[o] # NoOrder}
  /\ \A e \in Expense :
       /\ Len(rows[e]) <= MaxEdits + 1
       /\ \/ expenses[e] = NoExpense /\ rows[e] = <<>>
          \/ /\ expenses[e].amount \in Amount /\ expenses[e].from \in {"CASH", "OTHER"}
             /\ expenses[e].revision \in 0..MaxEdits /\ expenses[e].deleted \in BOOLEAN
  /\ \A i \in DOMAIN bulk : bulk[i].quantity \in {-1, 1} /\ bulk[i].undoes \in 0..1
  /\ \A t \in Tab : job[t].op \in {"NONE", "EDIT", "UNDO", "CLOSE"}
  /\ till \in [Method -> Int] /\ recorded.books \in [Method -> Int]

\* The day begins with the session of the worker who starts it.
Init ==
  /\ day = "OPEN" /\ operator \in Worker /\ shifts = 0
  /\ orders = [o \in Order |-> NoOrder] /\ unsent = {}
  /\ moves = [o \in Order |-> <<>>]
  /\ expenses = [e \in Expense |-> NoExpense] /\ rows = [e \in Expense |-> <<>>]
  /\ bulk = <<>> /\ job = [t \in Tab |-> NoJob]
  /\ recorded = NoBooks /\ till = Nothing
-----------------------------------------------------------------------------
Working == day = "OPEN" /\ operator # NoWorker
Free(t) == job[t] = NoJob

\* What a command of tab t does to the closes other tabs are computing: what
\* they have read is no longer so.  (History, for the properties.)
Disturb(t) ==
  [u \in Tab |-> IF u # t /\ job[u].op = "CLOSE"
                 THEN [job[u] EXCEPT !.clean = FALSE] ELSE job[u]]

Plus(a, b)  == [m \in Method |-> a[m] + b[m]]
Minus(a, b) == [m \in Method |-> a[m] - b[m]]
Takings(o)  == [m \in Method |-> Allocated(orders[o].parts, m)]

Changes == Total([o \in Order |-> IF orders[o] = NoOrder THEN 0
                                ELSE orders[o].revision], Order)

Switch(w) ==
  /\ day = "OPEN" /\ w # operator /\ shifts < MaxShifts
  /\ operator' = w /\ shifts' = shifts + 1
  /\ UNCHANGED <<day, orders, unsent, moves, expenses, rows, bulk, job, recorded, till>>

SignOut ==
  /\ operator # NoWorker /\ operator' = NoWorker
  /\ UNCHANGED <<day, shifts, orders, unsent, moves, expenses, rows, bulk, job,
                 recorded, till>>

\* placeOrder: its transaction checks the day, the configuration and the stock.
\* (assertOrderSnapshotIntegrity, its last check, never refuses: OrdersBalance.)
PlaceOrder(t, o, d) ==
  LET price == Pricing(d.subtotal, d.discount, d.fee, policy) IN
  /\ Working /\ Free(t) /\ orders[o] = NoOrder
  /\ Valid(d, policy) /\ Available >= 1
  /\ orders' = [orders EXCEPT ![o] =
       [status |-> "ACTIVE", revision |-> 0, delivery |-> d.delivery,
        prepared |-> FALSE, pricing |-> price, parts |-> Parts(d.payment, price)]]
  /\ moves' = [moves EXCEPT ![o] = <<Move("RESERVATION", 0, 1, 0)>>]
  /\ unsent' = unsent \cup {o}
  /\ job' = Disturb(t)
  /\ UNCHANGED <<day, operator, shifts, expenses, rows, bulk, recorded, till>>

\* #mutate: one transaction that reads the order and the day again.
Mutate(t, o, from, to, prepared, ms) ==
  /\ Working /\ Free(t) /\ orders[o] # NoOrder
  /\ orders[o].status = from /\ Changes < MaxChanges
  /\ orders' = [orders EXCEPT ![o].status = to, ![o].revision = @ + 1,
                              ![o].prepared = prepared]
  /\ moves' = [moves EXCEPT ![o] = @ \o ms]
  /\ job' = Disturb(t)
  /\ UNCHANGED <<day, operator, shifts, unsent, expenses, rows, bulk, recorded>>

\* activeReservationByItem: what the order still holds, consumed or released.
Consumption(o) ==
  IF Held(moves[o]) > 0
  THEN <<Move("CONSUMPTION", -Held(moves[o]), -Held(moves[o]), 0)>> ELSE <<>>
Released(o) ==
  IF Held(moves[o]) > 0 THEN <<Move("RELEASE", 0, -Held(moves[o]), 0)>> ELSE <<>>

\* undoDone reverses the consumptions that have not been reversed.
\* Mutant of Reversals: all of them, whenever Done is undone.
ReversalsOfAll(o) ==
  SetToSeq({Move("REVERSAL", -moves[o][i].quantity, -moves[o][i].held, i) :
              i \in {j \in DOMAIN moves[o] : moves[o][j].type = "CONSUMPTION"}})
Reversals(o) ==
  SetToSeq({Move("REVERSAL", -moves[o][i].quantity, -moves[o][i].held, i) :
              i \in {j \in DOMAIN moves[o] :
                       /\ moves[o][j].type = "CONSUMPTION"
                       /\ \A k \in DOMAIN moves[o] : moves[o][k].undoes # j}})

MarkDone(t, o) ==
  /\ Mutate(t, o, "ACTIVE", "DONE", FALSE, Consumption(o))
  /\ till' = Plus(till, Takings(o))

UndoDone(t, o) ==
  /\ Mutate(t, o, "DONE", "ACTIVE", FALSE, Reversals(o))
  /\ till' = Minus(till, Takings(o))

CancelOrder(t, o, prepared) ==
  /\ Mutate(t, o, "ACTIVE", "CANCELLED", prepared,
            IF prepared THEN Consumption(o) ELSE Released(o))
  /\ UNCHANGED till

ReturnDelivery(t, o) ==
  /\ orders[o] # NoOrder /\ orders[o].delivery
  /\ Mutate(t, o, "DONE", "RETURNED", FALSE, <<>>)
  /\ till' = Minus(till, Takings(o))
-----------------------------------------------------------------------------
\* The services, beside the tabs' commands.

Cancelled(o) == [orders[o] EXCEPT !.status = "CANCELLED", !.revision = @ + 1]

Sent(o) ==
  /\ o \in unsent /\ unsent' = unsent \ {o}
  /\ UNCHANGED <<day, operator, shifts, orders, moves, expenses, rows, bulk, job,
                 recorded, till>>

\* reconcileRejectedOrderPlacement: an order that is still active is cancelled
\* and gives its reservation back; one that is not is left for the operator.
Refused(o) ==
  /\ o \in unsent /\ unsent' = unsent \ {o}
  /\ IF orders[o].status = "ACTIVE" /\ Changes < MaxChanges
     THEN /\ orders' = [orders EXCEPT ![o] = Cancelled(o)]
          /\ moves' = [moves EXCEPT ![o] = @ \o Released(o)]
     ELSE orders[o].status # "ACTIVE" /\ UNCHANGED <<orders, moves>>
  /\ UNCHANGED <<day, operator, shifts, expenses, rows, bulk, job, recorded, till>>

\* syncShop applies an administrator's cancellation: of an order that has taken
\* no payment.  Its reservation stays as it is.
Converge(o) ==
  /\ orders[o] # NoOrder /\ o \notin unsent
  /\ orders[o].status = "ACTIVE" /\ Takings(o) = Nothing
  /\ Changes < MaxChanges
  /\ orders' = [orders EXCEPT ![o] = Cancelled(o)]
  /\ UNCHANGED <<day, operator, shifts, unsent, moves, expenses, rows, bulk, job,
                 recorded, till>>
-----------------------------------------------------------------------------
Cash(r) == IF r # NoExpense /\ r.from = "CASH" /\ ~r.deleted THEN r.amount ELSE 0

\* commitMutation: the record, and its row in the outbox.
Commit(e, r) ==
  /\ expenses' = [expenses EXCEPT ![e] = r]
  /\ rows' = [rows EXCEPT ![e] = Append(@, r)]
  /\ till' = Minus(till, Paid(CashMethod, Cash(r) - Cash(expenses[e])))

CreateExpense(t, e, amount, from) ==
  /\ Working /\ Free(t) /\ expenses[e] = NoExpense
  /\ Commit(e, [amount |-> amount, from |-> from, revision |-> 0, deleted |-> FALSE])
  /\ job' = Disturb(t)
  /\ UNCHANGED <<day, operator, shifts, orders, unsent, moves, bulk, recorded>>

\* editExpense and deleteExpense read the context and the record ...
StartEdit(t, e) ==
  /\ Working /\ Free(t) /\ expenses[e] # NoExpense /\ ~expenses[e].deleted
  /\ expenses[e].revision < MaxEdits
  /\ \E amount \in Amount, from \in {"CASH", "OTHER"}, deleted \in BOOLEAN :
       /\ deleted => amount = expenses[e].amount /\ from = expenses[e].from
       /\ job' = [job EXCEPT ![t] =
            [op |-> "EDIT", expense |-> e, by |-> operator,
             record |-> [amount |-> amount, from |-> from, deleted |-> deleted,
                         revision |-> expenses[e].revision + 1]]]
  /\ UNCHANGED <<day, operator, shifts, orders, unsent, moves, expenses, rows, bulk,
                 recorded, till>>

\* ... and commit if the day, the operator and the revision are still those.
\* Mutants of Current: neither the revision nor the day is looked at again.
CurrentAnyRevision(t) == day = "OPEN" /\ job[t].by = operator
CurrentAnyDay(t) ==
  expenses[job[t].expense].revision = job[t].record.revision - 1
Current(t) ==
  /\ day = "OPEN" /\ job[t].by = operator
  /\ expenses[job[t].expense].revision = job[t].record.revision - 1

FinishEdit(t) ==
  /\ job[t].op = "EDIT"
  /\ IF Current(t)
     THEN Commit(job[t].expense, job[t].record)
          /\ job' = [Disturb(t) EXCEPT ![t] = NoJob]
     ELSE UNCHANGED <<expenses, rows, till>> /\ job' = [job EXCEPT ![t] = NoJob]
  /\ UNCHANGED <<day, operator, shifts, orders, unsent, moves, bulk, recorded>>

\* Bulk stock: a unit is finished, and the movement may be undone once.
FinishOne(t) ==
  /\ Working /\ Free(t) /\ bulk = <<>>
  /\ bulk' = <<[quantity |-> -1, undoes |-> 0]>>
  /\ UNCHANGED <<day, operator, shifts, orders, unsent, moves, expenses, rows, job,
                 recorded, till>>

Compensated == \E i \in DOMAIN bulk : bulk[i].undoes = 1

StartUndo(t) ==
  /\ Working /\ Free(t) /\ bulk # <<>> /\ ~Compensated
  /\ job' = [job EXCEPT ![t] = [op |-> "UNDO", by |-> operator]]
  /\ UNCHANGED <<day, operator, shifts, orders, unsent, moves, expenses, rows, bulk,
                 recorded, till>>

\* Mutant of MayUndo: the compensation is not looked up again.
MayUndoAgain(t) == day = "OPEN" /\ job[t].by = operator
MayUndo(t) == day = "OPEN" /\ job[t].by = operator /\ ~Compensated

FinishUndo(t) ==
  /\ job[t].op = "UNDO" /\ job' = [job EXCEPT ![t] = NoJob]
  /\ bulk' = IF MayUndo(t) THEN Append(bulk, [quantity |-> 1, undoes |-> 1]) ELSE bulk
  /\ UNCHANGED <<day, operator, shifts, orders, unsent, moves, expenses, rows,
                 recorded, till>>
-----------------------------------------------------------------------------
\* closeDay: the gate, the two reads of the preview (each a transaction of its
\* own) and the commit.

Active == {o \in Order : orders[o].status = "ACTIVE"}
Done   == {o \in Order : orders[o].status = "DONE"}

\* calculateEndDayFinancialProjection: the sales half and the expenses half.
\* Mutant of Sales: a returned delivery counts.
SalesWithReturns ==
  LET kept == {o \in Order : orders[o].status \in {"DONE", "RETURNED"}} IN
  [m \in Method |-> Total([o \in kept |-> Takings(o)[m]], kept)]
Sales == [m \in Method |-> Total([o \in Done |-> Takings(o)[m]], Done)]
CashExpenses == Total([e \in Expense |-> Cash(expenses[e])], Expense)

StartClose(t) ==
  /\ Working /\ Free(t) /\ Active = {}
  /\ job' = [job EXCEPT ![t] = [op |-> "CLOSE", by |-> operator, clean |-> TRUE,
                                read |-> {}, sales |-> Nothing, spent |-> 0]]
  /\ UNCHANGED <<day, operator, shifts, orders, unsent, moves, expenses, rows, bulk,
                 recorded, till>>

CloseReads(t, what) ==
  /\ job[t].op = "CLOSE" /\ what \notin job[t].read
  /\ job' = [job EXCEPT ![t].read = @ \cup {what},
       ![t].sales = IF what = "ORDERS" THEN Sales ELSE @,
       ![t].spent = IF what = "EXPENSES" THEN CashExpenses ELSE @]
  /\ what = "ORDERS" => Active = {}
  /\ UNCHANGED <<day, operator, shifts, orders, unsent, moves, expenses, rows, bulk,
                 recorded, till>>

MayClose(t) == day = "OPEN" /\ Active = {} /\ t \in Tab

FinishClose(t) ==
  /\ job[t].op = "CLOSE" /\ job[t].read = {"ORDERS", "EXPENSES"} /\ MayClose(t)
  /\ day' = "CLOSED"
  /\ operator' = IF operator = job[t].by THEN NoWorker ELSE operator
  /\ recorded' = [books |-> Minus(job[t].sales, Paid(CashMethod, job[t].spent)),
                  clean |-> job[t].clean, by |-> job[t].by]
  /\ job' = [job EXCEPT ![t] = NoJob]
  /\ UNCHANGED <<shifts, orders, unsent, moves, expenses, rows, bulk, till>>

\* A check fails, the operator reviews the preview and stops, or the tab closes.
GiveUp(t) ==
  /\ ~Free(t) /\ job' = [job EXCEPT ![t] = NoJob]
  /\ UNCHANGED <<day, operator, shifts, orders, unsent, moves, expenses, rows, bulk,
                 recorded, till>>
-----------------------------------------------------------------------------
OrderStep(t, o) ==
  \/ \E d \in Draft : PlaceOrder(t, o, d)
  \/ MarkDone(t, o) \/ UndoDone(t, o) \/ ReturnDelivery(t, o)
  \/ \E prepared \in BOOLEAN : CancelOrder(t, o, prepared)

TabStep(t) ==
  \/ \E o \in Order : OrderStep(t, o)
  \/ \E e \in Expense : StartEdit(t, e)
  \/ \E e \in Expense, a \in Amount, f \in {"CASH", "OTHER"} : CreateExpense(t, e, a, f)
  \/ FinishEdit(t) \/ FinishOne(t) \/ StartUndo(t) \/ FinishUndo(t)
  \/ StartClose(t) \/ FinishClose(t) \/ GiveUp(t)
  \/ \E what \in {"ORDERS", "EXPENSES"} : CloseReads(t, what)

Next ==
  \/ \E t \in Tab : TabStep(t)
  \/ \E o \in Order : Sent(o) \/ Refused(o) \/ Converge(o)
  \/ \E w \in Worker : Switch(w)
  \/ SignOut

Spec == Init /\ [][Next]_vars
-----------------------------------------------------------------------------
\* Every order placed passes the integrity check: its price adds up and its
\* payments settle exactly its total, change included, however charges are
\* rounded and the total is split.
OrdersBalance ==
  \A o \in Order : orders[o] # NoOrder => Balanced(orders[o].pricing, orders[o].parts)

\* What an order did to the local stock is what its status says, after any
\* sequence of Done, Undo, cancellation and refusal: held while it is active,
\* used once if it was made, and otherwise given back.  (The reservation of an
\* order an administrator cancelled waits for the inventory feed.)
StockFollowsOrders ==
  \A o \in Order : orders[o] # NoOrder =>
    /\ \/ Held(moves[o]) = IF orders[o].status = "ACTIVE" THEN 1 ELSE 0
       \/ orders[o].status = "CANCELLED" /\ Takings(o) = Nothing
    /\ Used(moves[o]) = IF \/ orders[o].status \in {"DONE", "RETURNED"}
                           \/ orders[o].prepared THEN 1 ELSE 0

\* No edit of an expense is lost: its outbox rows have the revisions 0, 1, 2,
\* ..., the last one is the ledger's record and nothing follows a deletion.
LedgerIsLastRow ==
  \A e \in Expense : expenses[e] # NoExpense =>
    /\ rows[e] # <<>> /\ rows[e][Len(rows[e])] = expenses[e]
    /\ \A i \in DOMAIN rows[e] :
         rows[e][i].revision = i - 1 /\ (rows[e][i].deleted => i = Len(rows[e]))

\* A bulk movement is undone at most once.
BulkUndoneOnce == Cardinality({i \in DOMAIN bulk : bulk[i].undoes = 1}) <= 1

\* A closed day has no active order, and unless another tab wrote during the
\* close, the reconciliation expects of every method exactly what it took in.
ReconciliationIsTheTill ==
  day = "CLOSED" => /\ Active = {}
                    /\ recorded.clean => recorded.books = till

\* Nothing enters the books of a day that was closed, whatever was under way.
ClosedBooksAreFinal ==
  [][day = "CLOSED" =>
       UNCHANGED <<day, orders, moves, expenses, rows, bulk, recorded>>]_vars

\* The stronger statement, without the exception.
ReconciliationIsAlwaysTheTill == day = "CLOSED" => recorded.books = till
=============================================================================
