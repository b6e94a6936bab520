--------------------------- MODULE DayBooksProofs ---------------------------
(***************************************************************************)
(* Proofs about the books of a day, for any tabs, orders, expenses, drafts *)
(* and policy, and any bounds.                                             *)
(***************************************************************************)
EXTENDS DayBooks, InductionLemmas, FiniteSetTheorems, SequenceTheorems, TLAPS

\* A rounded charge is an amount.
LEMMA ChargeIsAnAmount ==
  \A base \in Nat, bps \in Nat : BasisPoints(base, bps) \in Nat
<1> TAKE base \in Nat, bps \in Nat
<1>1. base * bps \in Nat
  OBVIOUS
<1>2. ASSUME NEW x \in Nat PROVE (x + 5000) \div 10000 \in Nat
  OBVIOUS
<1> QED BY <1>1, <1>2 DEF BasisPoints

\* checkout arithmetic (payment.ts, checkoutPolicy.ts): whatever the draft and
\* the policy, a checkout that validates passes the integrity check.
THEOREM CheckoutBalances ==
  ASSUME BooksAssumption, NEW d \in Draft, Valid(d, policy)
  PROVE  LET price == Pricing(d.subtotal, d.discount, d.fee, policy)
         IN Balanced(price, Parts(d.payment, price))
<1> DEFINE net == d.subtotal - d.discount
           service == BasisPoints(net, policy.serviceBps)
           tax == BasisPoints(net + service + d.fee, policy.taxBps)
           price == Pricing(d.subtotal, d.discount, d.fee, policy)
           p == d.payment
<1>1. /\ d \in [subtotal: Nat, discount: Nat, fee: Nat, delivery: BOOLEAN,
                payment: PaymentDraft]
      /\ policy \in [serviceBps: Nat, taxBps: Nat]
      /\ CashMethod # OtherMethod /\ NoAmount \notin Int
  BY DEF BooksAssumption, Policy
<1>0. policy.serviceBps \in Nat /\ policy.taxBps \in Nat
  BY <1>1
<1>2. net \in Nat /\ d.discount <= d.subtotal
  BY <1>1 DEF Valid
<1>3. service \in Nat
  <2> HIDE DEF net
  <2> QED BY <1>0, <1>2, ChargeIsAnAmount
<1>4. tax \in Nat
  <2> DEFINE base == net + service + d.fee
  <2>1. base \in Nat
    BY <1>1, <1>2, <1>3
  <2> HIDE DEF base
  <2>2. BasisPoints(base, policy.taxBps) \in Nat
    BY <1>0, <2>1, ChargeIsAnAmount
  <2> QED BY <2>2 DEF base
<1>5. price = [subtotal |-> d.subtotal, discount |-> d.discount, fee |-> d.fee,
               service |-> service, tax |-> tax,
               total |-> net + service + d.fee + tax]
  BY DEF Pricing
<1> HIDE DEF service, tax
<1> DEFINE total == price.total
<1>6. /\ price.service >= 0 /\ price.tax >= 0 /\ total \in Nat
      /\ price.discount <= price.subtotal
      /\ total = price.subtotal - price.discount + price.service
                   + price.fee + price.tax
  BY <1>1, <1>2, <1>3, <1>4, <1>5
<1>7. Payable(p, total)
  BY DEF Valid
<1>8. p.mode \in {"NONE", "SINGLE", "SPLIT"} /\ p.methodA \in Method
      /\ p.methodB \in Method /\ p.amountA \in Nat /\ p.received \in Nat \cup {NoAmount}
  BY <1>1 DEF PaymentDraft
<1> HIDE DEF price, p, net
<1> DEFINE parts == Parts(p, price)
           Fits(x) == /\ x.allocated >= 0
                      /\ x.method = CashMethod =>
                           /\ x.received >= x.allocated
                           /\ x.change = x.received - x.allocated
<1>9. /\ Allocated(parts, CashMethod) + Allocated(parts, OtherMethod) = total
      /\ \A i \in DOMAIN parts : Fits(parts[i])
  <2>1. CASE p.mode = "NONE"
    <3>1. parts = <<>> /\ total = 0
      BY <2>1, <1>7 DEF Parts, Payable
    <3> QED BY <3>1 DEF Allocated
  <2>2. CASE p.mode = "SINGLE"
    <3>1. parts = <<Part(p.methodA, total, p.received)>>
      BY <2>2 DEF Parts
    <3>2. /\ Fits(Part(p.methodA, total, p.received))
          /\ Part(p.methodA, total, p.received).allocated = total
          /\ Part(p.methodA, total, p.received).method = p.methodA
      BY <2>2, <1>1, <1>6, <1>7, <1>8 DEF Part, Payable, Method
    <3>3. DOMAIN parts = {1} /\ parts[1] = Part(p.methodA, total, p.received)
      BY <3>1
    <3>4. \A m : Allocated(parts, m) = IF p.methodA = m THEN total ELSE 0
      BY <3>2, <3>3, <1>6 DEF Allocated
    <3> QED BY <3>2, <3>3, <3>4, <1>1, <1>6, <1>8 DEF Method
  <2>3. CASE p.mode = "SPLIT"
    <3> DEFINE a == Part(p.methodA, p.amountA, NoAmount)
               b == Part(p.methodB, total - p.amountA, NoAmount)
    <3>1. parts = <<a, b>>
      BY <2>3 DEF Parts
    <3>2. p.methodA # p.methodB /\ p.amountA \in 0..total
      BY <2>3, <1>7 DEF Payable
    <3>3. /\ Fits(a) /\ a.allocated = p.amountA /\ a.method = p.methodA
          /\ Fits(b) /\ b.allocated = total - p.amountA /\ b.method = p.methodB
      BY <3>2, <1>1, <1>6, <1>8 DEF Part, Method
    <3>4. DOMAIN parts = {1, 2} /\ parts[1] = a /\ parts[2] = b
      BY <3>1
    <3>5. /\ Allocated(parts, p.methodA) = p.amountA
          /\ Allocated(parts, p.methodB) = total - p.amountA
      BY <3>2, <3>3, <3>4, <1>6 DEF Allocated
    <3> QED BY <3>2, <3>3, <3>4, <3>5, <1>1, <1>6, <1>8 DEF Method
  <2> QED BY <2>1, <2>2, <2>3, <1>8
<1>10. Balanced(price, parts)
  BY <1>6, <1>9 DEF Balanced
<1> QED BY <1>10 DEF price, p
-----------------------------------------------------------------------------
\* A day that is closed has no active order.
ClosedInv == day = "CLOSED" => \A o \in Order : orders[o].status # "ACTIVE"

\* What a step may do to a day that is closed: nothing.
LEMMA ClosedStep ==
  ASSUME ClosedInv, day = "CLOSED", [Next]_vars
  PROVE  UNCHANGED <<day, orders, moves, expenses, rows, bulk, recorded>>
<1> USE DEF ClosedInv
<1>1. ASSUME NEW t \in Tab, NEW o \in Order, OrderStep(t, o) PROVE FALSE
  BY <1>1 DEF OrderStep, PlaceOrder, MarkDone, UndoDone, CancelOrder,
              ReturnDelivery, Mutate, Working
<1>2. ASSUME NEW t \in Tab, TabStep(t)
      PROVE  UNCHANGED <<day, orders, moves, expenses, rows, bulk, recorded>>
  <2>1. CASE \E o \in Order : OrderStep(t, o)
    BY <1>1, <2>1
  <2>2. CASE \E e \in Expense : StartEdit(t, e)
    BY <2>2 DEF StartEdit, Working
  <2>3. CASE \E e \in Expense, a \in Amount, f \in {"CASH", "OTHER"} : CreateExpense(t, e, a, f)
    BY <2>3 DEF CreateExpense, Working
  <2>4. CASE FinishEdit(t)
    BY <2>4 DEF FinishEdit, Current
  <2>5. CASE FinishOne(t) \/ StartUndo(t)
    BY <2>5 DEF FinishOne, StartUndo, Working
  <2>6. CASE FinishUndo(t)
    BY <2>6 DEF FinishUndo, MayUndo
  <2>7. CASE StartClose(t) \/ FinishClose(t)
    BY <2>7 DEF StartClose, FinishClose, MayClose, Working
  <2>8. CASE GiveUp(t)
    BY <2>8 DEF GiveUp
  <2>9. CASE \E what \in {"ORDERS", "EXPENSES"} : CloseReads(t, what)
    BY <2>9 DEF CloseReads
  <2> QED BY <1>2, <2>1, <2>2, <2>3, <2>4, <2>5, <2>6, <2>7, <2>8, <2>9 DEF TabStep
<1>3. ASSUME NEW o \in Order, Sent(o) \/ Refused(o) \/ Converge(o)
      PROVE  UNCHANGED <<day, orders, moves, expenses, rows, bulk, recorded>>
  BY <1>3 DEF Sent, Refused, Converge
<1>4. CASE (\E w \in Worker : Switch(w)) \/ SignOut
  BY <1>4 DEF Switch, SignOut
<1>5. CASE UNCHANGED vars
  BY <1>5 DEF vars
<1> QED BY <1>2, <1>3, <1>4, <1>5 DEF Next

\* Only the commit of a close closes the day.
LEMMA ClosedByClose ==
  ASSUME [Next]_vars, day # "CLOSED", day' = "CLOSED"
  PROVE  \E t \in Tab : FinishClose(t)
<1>1. ASSUME NEW t \in Tab, NEW o \in Order, OrderStep(t, o) PROVE UNCHANGED day
  <2>1. CASE \E d \in Draft : PlaceOrder(t, o, d)
    BY <2>1 DEF PlaceOrder
  <2>2. CASE MarkDone(t, o) \/ UndoDone(t, o) \/ ReturnDelivery(t, o)
    BY <2>2 DEF MarkDone, UndoDone, ReturnDelivery, Mutate
  <2>3. CASE \E prepared \in BOOLEAN : CancelOrder(t, o, prepared)
    BY <2>3 DEF CancelOrder, Mutate
  <2> QED BY <1>1, <2>1, <2>2, <2>3 DEF OrderStep
<1>2. ASSUME NEW t \in Tab, TabStep(t), ~FinishClose(t) PROVE UNCHANGED day
  BY <1>1, <1>2 DEF TabStep, StartEdit, CreateExpense, FinishEdit, FinishOne,
         StartUndo, FinishUndo, StartClose, GiveUp, CloseReads
<1>3. (\E o \in Order : Sent(o) \/ Refused(o) \/ Converge(o))
      \/ (\E w \in Worker : Switch(w)) \/ SignOut \/ UNCHANGED vars
      => UNCHANGED day
  BY DEF Sent, Refused, Converge, Switch, SignOut, vars
<1> QED BY <1>2, <1>3 DEF Next

LEMMA ClosedInvariance == Spec => []ClosedInv
<1>1. Init => ClosedInv
  BY DEF Init, ClosedInv
<1>2. ASSUME ClosedInv, [Next]_vars PROVE ClosedInv'
  <2>1. CASE day = "CLOSED"
    BY <1>2, <2>1, ClosedStep DEF ClosedInv
  <2>2. CASE day # "CLOSED" /\ day' = "CLOSED"
    <3>1. \E t \in Tab : FinishClose(t)
      BY <1>2, <2>2, ClosedByClose
    <3> QED BY <3>1 DEF FinishClose, MayClose, Active, ClosedInv
  <2> QED BY <2>1, <2>2 DEF ClosedInv
<1> QED BY <1>1, <1>2, PTL DEF Spec

\* closeDay and every command (endDay.ts, orders.ts, expenses.ts, bulkStock.ts):
\* nothing enters the books of a day that was closed, whatever was under way.
THEOREM ClosedIsFinal == Spec => ClosedBooksAreFinal
<1>1. ClosedInv /\ [Next]_vars =>
        [day = "CLOSED" =>
           UNCHANGED <<day, orders, moves, expenses, rows, bulk, recorded>>]_vars
  BY ClosedStep
<1> QED BY <1>1, ClosedInvariance, PTL DEF Spec, ClosedBooksAreFinal
-----------------------------------------------------------------------------
\* Every order is some valid draft, priced and settled, with what happened to
\* its status since.
PriceOf(d) == Pricing(d.subtotal, d.discount, d.fee, policy)

Priced(r, d) ==
  /\ {"pricing", "parts"} \subseteq DOMAIN r
  /\ r.pricing = PriceOf(d) /\ r.parts = Parts(d.payment, PriceOf(d))

Placed(r) == \E d \in Draft : Valid(d, policy) /\ Priced(r, d)

OrdersInv ==
  /\ orders = [o \in Order |-> orders[o]]
  /\ \A o \in Order : orders[o] = NoOrder \/ Placed(orders[o])

LEMMA SnapshotMoves ==
  ASSUME NEW r, Placed(r), NEW to, NEW revision, NEW prepared
  PROVE  /\ Placed([r EXCEPT !.status = to, !.revision = revision, !.prepared = prepared])
         /\ Placed([r EXCEPT !.status = to, !.revision = revision])
BY DEF Placed, Priced

\* One order is written, the others stay.
LEMMA OrdersWrite ==
  ASSUME OrdersInv, NEW o \in Order, NEW r, Placed(r),
         orders' = [orders EXCEPT ![o] = r]
  PROVE  OrdersInv'
BY DEF OrdersInv

LEMMA OrdersMutate ==
  ASSUME OrdersInv, NEW t \in Tab, NEW o \in Order, NEW from, NEW to,
         NEW prepared, NEW ms, Mutate(t, o, from, to, prepared, ms)
  PROVE  OrdersInv'
<1> DEFINE r == [orders[o] EXCEPT !.status = to, !.revision = @ + 1, !.prepared = prepared]
<1>1. Placed(orders[o])
  BY DEF OrdersInv, Mutate
<1>2. Placed(r)
  BY <1>1, SnapshotMoves
<1>3. orders' = [orders EXCEPT ![o] = r]
  BY DEF Mutate
<1> HIDE DEF r
<1> QED BY <1>2, <1>3, OrdersWrite

LEMMA OrdersInvariance == Spec => []OrdersInv
<1>1. Init => OrdersInv
  BY DEF Init, OrdersInv
<1>2. ASSUME OrdersInv, [Next]_vars PROVE OrdersInv'
  <2>1. ASSUME NEW t \in Tab, NEW o \in Order, OrderStep(t, o) PROVE OrdersInv'
    <3>1. ASSUME NEW d \in Draft, PlaceOrder(t, o, d) PROVE OrdersInv'
      <4> DEFINE r == [status |-> "ACTIVE", revision |-> 0, delivery |-> d.delivery,
                       prepared |-> FALSE, pricing |-> PriceOf(d),
                       parts |-> Parts(d.payment, PriceOf(d))]
      <4>1. Valid(d, policy) /\ orders' = [orders EXCEPT ![o] = r]
        BY <3>1 DEF PlaceOrder, PriceOf
      <4>3. Priced(r, d)
        BY DEF Priced
      <4>4. Placed(r)
        BY <4>1, <4>3 DEF Placed
      <4> HIDE DEF r
      <4> QED BY <1>2, <4>1, <4>4, OrdersWrite
    <3>2. CASE MarkDone(t, o)
      BY <1>2, <3>2, OrdersMutate, Zenon DEF MarkDone
    <3>3. CASE UndoDone(t, o)
      BY <1>2, <3>3, OrdersMutate, Zenon DEF UndoDone
    <3>4. CASE ReturnDelivery(t, o)
      BY <1>2, <3>4, OrdersMutate, Zenon DEF ReturnDelivery
    <3>5. CASE \E prepared \in BOOLEAN : CancelOrder(t, o, prepared)
      BY <1>2, <3>5, OrdersMutate, Zenon DEF CancelOrder
    <3> QED BY <2>1, <3>1, <3>2, <3>3, <3>4, <3>5 DEF OrderStep
  <2>2. ASSUME NEW o \in Order, Refused(o) \/ Converge(o), orders' # orders
        PROVE  OrdersInv'
    <3>1. orders[o].status = "ACTIVE" /\ orders' = [orders EXCEPT ![o] = Cancelled(o)]
      BY <2>2 DEF Refused, Converge
    <3>2. Placed(orders[o])
      BY <1>2, <3>1 DEF OrdersInv, NoOrder
    <3>3. Placed(Cancelled(o))
      BY <3>2, SnapshotMoves, Zenon DEF Cancelled
    <3> QED BY <1>2, <3>1, <3>3, OrdersWrite
  <2>3. CASE UNCHANGED orders
    BY <1>2, <2>3 DEF OrdersInv, Placed
  <2>4. ASSUME NEW t \in Tab, TabStep(t), orders' # orders
        PROVE  \E o \in Order : OrderStep(t, o)
    BY <2>4 DEF TabStep, StartEdit, CreateExpense, FinishEdit, FinishOne,
           StartUndo, FinishUndo, StartClose, FinishClose, GiveUp, CloseReads
  <2>5. (\E o \in Order : Sent(o)) \/ (\E w \in Worker : Switch(w)) \/ SignOut
        \/ UNCHANGED vars => UNCHANGED orders
    BY DEF Sent, Switch, SignOut, vars
  <2> QED BY <1>2, <2>1, <2>2, <2>3, <2>4, <2>5 DEF Next
<1> QED BY <1>1, <1>2, PTL DEF Spec

\* placeOrder (orders.ts, payment.ts, checkoutPolicy.ts): every order's price
\* adds up and its payments settle exactly its total, whatever the drafts.
THEOREM EveryOrderBalances == Spec => []OrdersBalance
<1>1. OrdersInv => OrdersBalance
  <2> SUFFICES ASSUME OrdersInv, NEW o \in Order, orders[o] # NoOrder
               PROVE  Balanced(orders[o].pricing, orders[o].parts)
    BY DEF OrdersBalance
  <2>1. PICK d \in Draft :
          /\ Valid(d, policy)
          /\ Priced(orders[o], d)
    BY DEF OrdersInv, Placed
  <2>2. Balanced(PriceOf(d), Parts(d.payment, PriceOf(d)))
    BY <2>1, BooksAssumption, CheckoutBalances, Zenon DEF PriceOf
  <2>3. orders[o].pricing = PriceOf(d) /\ orders[o].parts = Parts(d.payment, PriceOf(d))
    BY <2>1 DEF Priced
  <2> QED BY <2>2, <2>3
<1> QED BY <1>1, OrdersInvariance, PTL
-----------------------------------------------------------------------------
\* The rows of an expense are its history, up to the record of the ledger.
Record == [amount: Amount, from: {"CASH", "OTHER"}, revision: Int, deleted: BOOLEAN]

History(r, s) ==
  /\ s \in Seq(Record) /\ Len(s) > 0 /\ s[Len(s)] = r
  /\ \A i \in 1..Len(s) : s[i].revision = i - 1 /\ (s[i].deleted => i = Len(s))

\* A command in the middle of an edit holds the next revision of what it read:
\* of the current record, which is not deleted, or of an earlier one.
Editing(j) ==
  /\ j.expense \in Expense /\ j.record \in Record
  /\ expenses[j.expense] # NoExpense
  /\ j.record.revision - 1 <= expenses[j.expense].revision
  /\ expenses[j.expense].revision = j.record.revision - 1 =>
       ~expenses[j.expense].deleted

LedgerInv ==
  /\ expenses = [e \in Expense |-> expenses[e]]
  /\ rows = [e \in Expense |-> rows[e]]
  /\ job = [t \in Tab |-> job[t]]
  /\ \A e \in Expense :
       \/ expenses[e] = NoExpense /\ rows[e] = <<>>
       \/ History(expenses[e], rows[e])
  /\ \A t \in Tab : "op" \in DOMAIN job[t] /\ (job[t].op = "EDIT" => Editing(job[t]))

LEMMA HistoryBegins ==
  ASSUME NEW q \in Record, q.revision = 0
  PROVE  History(q, Append(<<>>, q))
BY DEF History

LEMMA HistoryGrows ==
  ASSUME NEW r, NEW s, History(r, s), ~r.deleted,
         NEW q \in Record, q.revision = r.revision + 1
  PROVE  History(q, Append(s, q))
<1> DEFINE u == Append(s, q)
<1>1. /\ s \in Seq(Record) /\ Len(s) \in Nat /\ Len(s) > 0 /\ s[Len(s)] = r
      /\ \A i \in 1..Len(s) : s[i].revision = i - 1 /\ (s[i].deleted => i = Len(s))
  BY DEF History
<1>2. /\ u \in Seq(Record) /\ Len(u) = Len(s) + 1 /\ u[Len(s) + 1] = q
      /\ \A i \in 1..Len(s) : u[i] = s[i]
  BY <1>1
<1>3. r.revision = Len(s) - 1
  BY <1>1
<1>4. ASSUME NEW i \in 1..Len(u)
      PROVE  u[i].revision = i - 1 /\ (u[i].deleted => i = Len(u))
  <2>1. CASE i \in 1..Len(s)
    <3>1. ~s[i].deleted
      BY <1>1, <2>1
    <3> QED BY <1>1, <1>2, <2>1, <3>1
  <2>2. CASE i = Len(s) + 1
    BY <1>1, <1>2, <1>3, <2>2
  <2> QED BY <1>1, <1>2, <2>1, <2>2
<1> HIDE DEF u
<1>5. History(q, u)
  BY <1>1, <1>2, <1>4 DEF History
<1> QED BY <1>5 DEF u

\* The commands that leave the ledger alone and begin no edit.
LEMMA LedgerFrame ==
  ASSUME LedgerInv, UNCHANGED <<expenses, rows>>,
         job' = [t \in Tab |-> job'[t]],
         \A t \in Tab : "op" \in DOMAIN job'[t] /\ (job'[t].op = "EDIT" => job'[t] = job[t])
  PROVE  LedgerInv'
BY DEF LedgerInv, Editing

LEMMA DisturbKeeps ==
  ASSUME LedgerInv, NEW t \in Tab
  PROVE  /\ Disturb(t) = [u \in Tab |-> Disturb(t)[u]]
         /\ \A u \in Tab : /\ "op" \in DOMAIN Disturb(t)[u]
                           /\ Disturb(t)[u].op = "EDIT" => Disturb(t)[u] = job[u]
BY DEF LedgerInv, Disturb

\* A committed record, by the command of tab t.
LEMMA LedgerCommit ==
  ASSUME LedgerInv, NEW e \in Expense, NEW r \in Record, Commit(e, r),
         \/ expenses[e] = NoExpense /\ r.revision = 0
         \/ /\ expenses[e] # NoExpense /\ ~expenses[e].deleted
            /\ r.revision = expenses[e].revision + 1,
         job' = [t \in Tab |-> job'[t]],
         \A t \in Tab : "op" \in DOMAIN job'[t] /\ (job'[t].op = "EDIT" => job'[t] = job[t])
  PROVE  LedgerInv'
<1>1. /\ expenses' = [expenses EXCEPT ![e] = r]
      /\ rows' = [rows EXCEPT ![e] = Append(rows[e], r)]
  BY DEF Commit
<1>2. History(r, Append(rows[e], r))
  <2>1. CASE expenses[e] = NoExpense /\ r.revision = 0
    <3>1. rows[e] = <<>>
      BY <2>1 DEF LedgerInv, History, NoExpense
    <3> QED BY <2>1, <3>1, HistoryBegins
  <2>2. CASE expenses[e] # NoExpense /\ ~expenses[e].deleted
             /\ r.revision = expenses[e].revision + 1
    <3>1. History(expenses[e], rows[e])
      BY <2>2 DEF LedgerInv
    <3> QED BY <2>2, <3>1, HistoryGrows
  <2> QED BY <2>1, <2>2
<1>3. \A x \in Expense : expenses'[x] = (IF x = e THEN r ELSE expenses[x])
                         /\ rows'[x] = (IF x = e THEN Append(rows[e], r) ELSE rows[x])
  BY <1>1 DEF LedgerInv
<1>4. expenses' = [x \in Expense |-> expenses'[x]] /\ rows' = [x \in Expense |-> rows'[x]]
  BY <1>1 DEF LedgerInv
<1>5. \A x \in Expense : \/ expenses'[x] = NoExpense /\ rows'[x] = <<>>
                         \/ History(expenses'[x], rows'[x])
  BY <1>2, <1>3 DEF LedgerInv
<1>6. ASSUME NEW t \in Tab, job'[t].op = "EDIT" PROVE Editing(job[t])'
  <2>1. Editing(job[t]) /\ job'[t] = job[t]
    BY <1>6 DEF LedgerInv
  <2>2. r.revision \in Int /\ r # NoExpense /\ job[t].record.revision \in Int
    BY <2>1 DEF Record, NoExpense, Editing
  <2>3. CASE job[t].expense = e
    <3>1. expenses[e] # NoExpense /\ r.revision = expenses[e].revision + 1
      BY <2>1, <2>3 DEF Editing
    <3>2. expenses[e].revision \in Int
      <4>1. History(expenses[e], rows[e])
        BY <3>1 DEF LedgerInv
      <4> QED BY <4>1 DEF History, Record
    <3> QED BY <1>3, <2>1, <2>2, <2>3, <3>1, <3>2 DEF Editing
  <2>4. CASE job[t].expense # e
    BY <1>3, <2>1, <2>4 DEF Editing
  <2> QED BY <2>3, <2>4
<1> QED BY <1>4, <1>5, <1>6 DEF LedgerInv

LEMMA LedgerInvariance == Spec => []LedgerInv
<1>1. Init => LedgerInv
  BY DEF Init, LedgerInv, NoJob
<1>2. ASSUME LedgerInv, [Next]_vars PROVE LedgerInv'
  <2>1. ASSUME NEW t \in Tab, NEW o \in Order, OrderStep(t, o) PROVE LedgerInv'
    <3>1. UNCHANGED <<expenses, rows>> /\ job' = Disturb(t)
      BY <2>1 DEF OrderStep, PlaceOrder, MarkDone, UndoDone, CancelOrder,
                  ReturnDelivery, Mutate
    <3> QED BY <1>2, <3>1, DisturbKeeps, LedgerFrame
  <2>2. ASSUME NEW t \in Tab, NEW e \in Expense, StartEdit(t, e) PROVE LedgerInv'
    <3>1. PICK amount \in Amount, from \in {"CASH", "OTHER"}, deleted \in BOOLEAN :
            job' = [job EXCEPT ![t] =
              [op |-> "EDIT", expense |-> e, by |-> operator,
               record |-> [amount |-> amount, from |-> from, deleted |-> deleted,
                           revision |-> expenses[e].revision + 1]]]
      BY <2>2 DEF StartEdit
    <3> DEFINE r == [amount |-> amount, from |-> from, deleted |-> deleted,
                     revision |-> expenses[e].revision + 1]
    <3>2. UNCHANGED <<expenses, rows>> /\ expenses[e] # NoExpense /\ ~expenses[e].deleted
      BY <2>2 DEF StartEdit
    <3>3. expenses[e].revision \in Int
      BY <1>2, <3>2 DEF LedgerInv, History, Record
    <3>4. r \in Record /\ r.revision = expenses[e].revision + 1
      BY <3>3 DEF Record
    <3> HIDE DEF r
    <3>5. \A u \in Tab : job'[u] = IF u = t
            THEN [op |-> "EDIT", expense |-> e, by |-> operator, record |-> r]
            ELSE job[u]
      BY <1>2, <3>1 DEF LedgerInv, r
    <3>6. job' = [u \in Tab |-> job'[u]]
      BY <1>2, <3>1 DEF LedgerInv
    <3>7. ASSUME NEW u \in Tab
          PROVE  "op" \in DOMAIN job'[u] /\ (job'[u].op = "EDIT" => Editing(job[u])')
      <4>1. CASE u = t
        BY <3>2, <3>3, <3>4, <3>5, <4>1 DEF Editing
      <4>2. CASE u # t
        BY <1>2, <3>2, <3>5, <4>2 DEF LedgerInv, Editing
      <4> QED BY <4>1, <4>2
    <3> QED BY <1>2, <3>2, <3>6, <3>7 DEF LedgerInv
  <2>3. ASSUME NEW t \in Tab, NEW e \in Expense, NEW a \in Amount,
               NEW f \in {"CASH", "OTHER"}, CreateExpense(t, e, a, f)
        PROVE  LedgerInv'
    <3> DEFINE r == [amount |-> a, from |-> f, revision |-> 0, deleted |-> FALSE]
    <3>1. expenses[e] = NoExpense /\ Commit(e, r) /\ job' = Disturb(t)
      BY <2>3 DEF CreateExpense
    <3>2. r \in Record /\ r.revision = 0
      BY DEF Record
    <3> HIDE DEF r
    <3> QED BY <1>2, <3>1, <3>2, DisturbKeeps, LedgerCommit
  <2>4. ASSUME NEW t \in Tab, FinishEdit(t) PROVE LedgerInv'
    <3>1. Editing(job[t])
      BY <1>2, <2>4 DEF FinishEdit, LedgerInv
    <3>2. CASE Current(t)
      <4> DEFINE e == job[t].expense
                 r == job[t].record
      <4>1. Commit(e, r) /\ job' = [Disturb(t) EXCEPT ![t] = NoJob]
        BY <2>4, <3>2 DEF FinishEdit
      <4>2. /\ e \in Expense /\ r \in Record /\ expenses[e] # NoExpense
            /\ expenses[e].revision = r.revision - 1 /\ ~expenses[e].deleted
        BY <3>1, <3>2 DEF Editing, Current
      <4>3. r.revision = expenses[e].revision + 1
        BY <4>2 DEF Record
      <4>4. /\ job' = [u \in Tab |-> job'[u]]
            /\ \A u \in Tab : /\ "op" \in DOMAIN job'[u]
                              /\ job'[u].op = "EDIT" => job'[u] = job[u]
        BY <1>2, <4>1, DisturbKeeps DEF NoJob
      <4> HIDE DEF e, r
      <4> QED BY <1>2, <4>1, <4>2, <4>3, <4>4, LedgerCommit
    <3>3. CASE ~Current(t)
      <4>1. UNCHANGED <<expenses, rows>> /\ job' = [job EXCEPT ![t] = NoJob]
        BY <2>4, <3>3 DEF FinishEdit
      <4> QED BY <1>2, <4>1, LedgerFrame DEF LedgerInv, NoJob
    <3> QED BY <3>2, <3>3
  <2>5. ASSUME NEW t \in Tab, FinishUndo(t) \/ FinishClose(t) \/ GiveUp(t)
        PROVE  LedgerInv'
    <3>1. UNCHANGED <<expenses, rows>> /\ job' = [job EXCEPT ![t] = NoJob]
      BY <2>5 DEF FinishUndo, FinishClose, GiveUp
    <3> QED BY <1>2, <3>1, LedgerFrame DEF LedgerInv, NoJob
  <2>6. ASSUME NEW t \in Tab, StartUndo(t) \/ StartClose(t) PROVE LedgerInv'
    <3>1. UNCHANGED <<expenses, rows>>
      BY <2>6 DEF StartUndo, StartClose
    <3> DEFINE undo == [op |-> "UNDO", by |-> operator]
               close == [op |-> "CLOSE", by |-> operator, clean |-> TRUE,
                         read |-> {}, sales |-> Nothing, spent |-> 0]
    <3>2. job' = [job EXCEPT ![t] = undo] \/ job' = [job EXCEPT ![t] = close]
      BY <2>6 DEF StartUndo, StartClose
    <3>3. /\ "op" \in DOMAIN undo /\ undo.op # "EDIT"
          /\ "op" \in DOMAIN close /\ close.op # "EDIT"
      OBVIOUS
    <3> HIDE DEF undo, close
    <3> QED BY <1>2, <3>1, <3>2, <3>3, LedgerFrame DEF LedgerInv
  <2>7. ASSUME NEW t \in Tab, NEW what, CloseReads(t, what) PROVE LedgerInv'
    <3>1. UNCHANGED <<expenses, rows>> /\ job[t].op = "CLOSE"
      BY <2>7 DEF CloseReads
    <3>2. PICK x, y, z : job' = [job EXCEPT ![t].read = x, ![t].sales = y, ![t].spent = z]
      BY <2>7 DEF CloseReads
    <3> QED BY <1>2, <3>1, <3>2, LedgerFrame DEF LedgerInv
  <2>8. CASE UNCHANGED <<expenses, rows, job>>
    BY <1>2, <2>8 DEF LedgerInv, Editing
  <2>9. ASSUME NEW t \in Tab, TabStep(t) PROVE LedgerInv'
    <3>1. CASE FinishOne(t)
      BY <2>8, <3>1 DEF FinishOne
    <3> QED BY <2>1, <2>2, <2>3, <2>4, <2>5, <2>6, <2>7, <2>9, <3>1 DEF TabStep
  <2>10. \/ \E o \in Order : Sent(o) \/ Refused(o) \/ Converge(o)
         \/ \E w \in Worker : Switch(w)
         \/ SignOut
         \/ UNCHANGED vars
         => UNCHANGED <<expenses, rows, job>>
    BY DEF Sent, Refused, Converge, Switch, SignOut, vars
  <2> QED BY <1>2, <2>8, <2>9, <2>10 DEF Next
<1> QED BY <1>1, <1>2, PTL DEF Spec

\* commitMutation (IndexedDbExpenseLedgerStore.ts): no edit of an expense is
\* lost or doubled, whichever tabs edit it at once.
THEOREM LedgerKeepsEveryEdit == Spec => []LedgerIsLastRow
<1>1. LedgerInv => LedgerIsLastRow
  BY DEF LedgerInv, History, LedgerIsLastRow
<1> QED BY <1>1, LedgerInvariance, PTL
-----------------------------------------------------------------------------
\* The sums of f over the subsets of S, as FoldSet takes them: an element that
\* CHOOSE picks, and the sum over the others.
Pick(T) == CHOOSE x \in T : TRUE
SumStep(F, f, T) == IF T = {} THEN 0 ELSE f[Pick(T)] + F[T \ {Pick(T)}]
SumsOf(F, f, S) == F = [T \in SUBSET S |-> SumStep(F, f, T)]

LEMMA PickInside == ASSUME NEW T, T # {} PROVE Pick(T) \in T
BY DEF Pick

LEMMA OneLess ==
  ASSUME NEW T, IsFiniteSet(T), NEW x \in T
  PROVE  /\ IsFiniteSet(T \ {x}) /\ Cardinality(T) \in Nat \ {0}
         /\ Cardinality(T \ {x}) = Cardinality(T) - 1
<1>1. Cardinality(T) \in Nat /\ IsFiniteSet(T \ {x}) /\ Cardinality(T \ {x}) = Cardinality(T) - 1
  BY FS_CardinalityType, FS_RemoveElement
<1>2. Cardinality(T) # 0
  BY FS_EmptySet
<1> QED
  BY <1>1, <1>2

\* A table of sums exists: it is built subset by subset, the small ones first.
LEMMA SumsExist ==
  ASSUME NEW f, NEW S, IsFiniteSet(S)
  PROVE  \E F : SumsOf(F, f, S)
<1> DEFINE Small(n) == {T \in SUBSET S : Cardinality(T) <= n}
           Table(F, n) == F = [T \in Small(n) |-> SumStep(F, f, T)]
           G == {n \in Nat : \E F : Table(F, n)}
<1>1. \A T \in SUBSET S : IsFiniteSet(T) /\ Cardinality(T) \in Nat /\ Cardinality(T) <= Cardinality(S)
  BY FS_Subset, FS_CardinalityType
<1>2. 0 \in G
  <2> DEFINE F == [T \in Small(0) |-> 0]
  <2>1. ASSUME NEW T \in Small(0) PROVE T = {}
    BY <1>1, <2>1, FS_EmptySet
  <2>2. Table(F, 0)
    BY <2>1 DEF SumStep
  <2> HIDE DEF F, Table
  <2> QED
    BY <2>2
<1>3. ASSUME NEW n \in Nat, n \in G
      PROVE  n + 1 \in G
  <2>1. PICK F : Table(F, n)
    BY <1>3
  <2> DEFINE H == [T \in Small(n + 1) |-> IF T \in Small(n) THEN F[T] ELSE SumStep(F, f, T)]
  <2>2. ASSUME NEW T \in Small(n + 1) PROVE H[T] = SumStep(H, f, T)
    <3>1. H[T] = SumStep(F, f, T)
      BY <2>1
    <3>2. CASE T = {}
      BY <3>1, <3>2 DEF SumStep
    <3>3. CASE T # {}
      <4> DEFINE R == T \ {Pick(T)}
      <4>1. Pick(T) \in T /\ R \in SUBSET S
        BY <3>3, PickInside
      <4>2. Cardinality(R) = Cardinality(T) - 1 /\ Cardinality(T) <= n + 1
        BY <1>1, <4>1, OneLess
      <4>3. R \in Small(n) /\ R \in Small(n + 1)
        BY <1>1, <4>1, <4>2
      <4>4. H[R] = F[R]
        BY <4>3
      <4> HIDE DEF H
      <4> QED
        BY <3>1, <3>3, <4>4 DEF SumStep
    <3> QED
      BY <3>2, <3>3
  <2>3. Table(H, n + 1)
    <3>1. H = [T \in Small(n + 1) |-> H[T]]
      OBVIOUS
    <3> HIDE DEF H, Small
    <3> QED
      BY <2>2, <3>1
  <2> HIDE DEF H, Table
  <2> QED
    BY <2>3
<1>4. Cardinality(S) \in G
  <2> HIDE DEF G
  <2> QED
    BY <1>1, <1>2, <1>3, InductionOnNat
<1>5. Small(Cardinality(S)) = SUBSET S
  BY <1>1
<1>6. PICK F : Table(F, Cardinality(S))
  BY <1>4
<1> QED
  BY <1>5, <1>6 DEF SumsOf

LEMMA TotalIsSum ==
  ASSUME NEW f, NEW S, IsFiniteSet(S)
  PROVE  \E F : SumsOf(F, f, S) /\ Total(f, S) = F[S]
<1> DEFINE F == CHOOSE F : SumsOf(F, f, S)
<1>1. SumsOf(F, f, S)
  BY SumsExist
<1>2. Total(f, S) = F[S]
  BY Zenon DEF Total, FoldSet, MapThenFoldSet, SumsOf, SumStep, Pick
<1> QED
  BY <1>1, <1>2

LEMMA SumsAt ==
  ASSUME NEW F, NEW f, NEW S, SumsOf(F, f, S), NEW T \in SUBSET S
  PROVE  F[T] = SumStep(F, f, T)
<1> DEFINE H == [U \in SUBSET S |-> SumStep(F, f, U)]
<1>1. F = H
  BY DEF SumsOf
<1>2. H[T] = SumStep(F, f, T)
  OBVIOUS
<1> HIDE DEF H
<1> QED
  BY <1>1, <1>2

LEMMA SumsType ==
  ASSUME NEW F, NEW f, NEW S, IsFiniteSet(S), SumsOf(F, f, S), \A x \in S : f[x] \in Int
  PROVE  \A T \in SUBSET S : F[T] \in Int
<1> DEFINE G == {n \in Nat : \A T \in SUBSET S : Cardinality(T) = n => F[T] \in Int}
<1>1. \A T \in SUBSET S : IsFiniteSet(T) /\ Cardinality(T) \in Nat
  BY FS_Subset, FS_CardinalityType
<1>2. 0 \in G
  <2> SUFFICES ASSUME NEW T \in SUBSET S, Cardinality(T) = 0 PROVE F[T] \in Int
    OBVIOUS
  <2>1. T = {}
    BY <1>1, FS_EmptySet
  <2> QED
    BY <2>1, SumsAt DEF SumStep
<1>3. ASSUME NEW n \in Nat, n \in G
      PROVE  n + 1 \in G
  <2> SUFFICES ASSUME NEW T \in SUBSET S, Cardinality(T) = n + 1 PROVE F[T] \in Int
    OBVIOUS
  <2>1. T # {}
    BY FS_EmptySet
  <2> DEFINE R == T \ {Pick(T)}
  <2>2. Pick(T) \in T /\ F[T] = f[Pick(T)] + F[R]
    BY <2>1, PickInside, SumsAt DEF SumStep
  <2>3. R \in SUBSET S /\ Cardinality(R) = n
    BY <1>1, <2>2, OneLess
  <2> HIDE DEF R
  <2>4. F[R] \in Int
    BY <1>3, <2>3
  <2> QED
    BY <2>2, <2>4
<1> HIDE DEF G
<1>4. Nat \subseteq G
  BY <1>2, <1>3, InductionOnNat
<1> QED
  BY <1>1, <1>4 DEF G

\* The sum does not depend on the order in which CHOOSE takes the elements.
LEMMA SumsOneLess ==
  ASSUME NEW F, NEW f, NEW S, IsFiniteSet(S), SumsOf(F, f, S), \A x \in S : f[x] \in Int
  PROVE  \A T \in SUBSET S : \A x \in T : F[T] = f[x] + F[T \ {x}]
<1> DEFINE G == {n \in Nat : \A T \in SUBSET S : Cardinality(T) = n
                               => \A x \in T : F[T] = f[x] + F[T \ {x}]}
<1>1. \A T \in SUBSET S : IsFiniteSet(T) /\ Cardinality(T) \in Nat /\ F[T] \in Int
  BY FS_Subset, FS_CardinalityType, SumsType
<1>2. 0 \in G
  <2> SUFFICES ASSUME NEW T \in SUBSET S, Cardinality(T) = 0, NEW x \in T PROVE FALSE
    OBVIOUS
  <2> QED
    BY <1>1, FS_EmptySet
<1>3. ASSUME NEW n \in Nat, n \in G
      PROVE  n + 1 \in G
  <2> SUFFICES ASSUME NEW T \in SUBSET S, Cardinality(T) = n + 1, NEW x \in T
               PROVE  F[T] = f[x] + F[T \ {x}]
    OBVIOUS
  <2> DEFINE c == Pick(T)
  <2>1. c \in T /\ F[T] = f[c] + F[T \ {c}]
    BY PickInside, SumsAt DEF SumStep
  <2> HIDE DEF c
  <2>2. CASE x = c
    BY <2>1, <2>2
  <2>3. CASE x # c
    <3>1. /\ T \ {c} \in SUBSET S /\ Cardinality(T \ {c}) = n /\ x \in T \ {c}
          /\ T \ {x} \in SUBSET S /\ Cardinality(T \ {x}) = n /\ c \in T \ {x}
      BY <1>1, <2>1, <2>3, OneLess
    <3> DEFINE U == T \ {c, x}
    <3>2. (T \ {c}) \ {x} = U /\ (T \ {x}) \ {c} = U /\ U \in SUBSET S
      OBVIOUS
    <3>3. F[T \ {c}] = f[x] + F[(T \ {c}) \ {x}] /\ F[T \ {x}] = f[c] + F[(T \ {x}) \ {c}]
      BY <1>3, <3>1
    <3>4. F[T \ {c}] = f[x] + F[U] /\ F[T \ {x}] = f[c] + F[U]
      BY <3>2, <3>3
    <3>5. F[U] \in Int /\ f[x] \in Int /\ f[c] \in Int
      BY <1>1, <2>1, <3>2
    <3> HIDE DEF U
    <3>6. F[T] = f[c] + (f[x] + F[U])
      BY <2>1, <3>4
    <3>7. f[x] + F[T \ {x}] = f[x] + (f[c] + F[U])
      BY <3>4
    <3> QED
      BY <3>5, <3>6, <3>7
  <2> QED
    BY <2>2, <2>3
<1> HIDE DEF G
<1>4. Nat \subseteq G
  BY <1>2, <1>3, InductionOnNat
<1> QED
  BY <1>1, <1>4 DEF G

\* Nor on anything but the values on the set.
LEMMA SumsAgree ==
  ASSUME NEW F, NEW f, NEW S, NEW H, NEW h, NEW R, IsFiniteSet(S),
         SumsOf(F, f, S), SumsOf(H, h, R)
  PROVE  \A T \in SUBSET S : T \subseteq R /\ (\A x \in T : f[x] = h[x]) => F[T] = H[T]
<1> DEFINE Same(T) == T \subseteq R /\ (\A x \in T : f[x] = h[x])
           G == {n \in Nat : \A T \in SUBSET S : Cardinality(T) = n /\ Same(T) => F[T] = H[T]}
<1>1. \A T \in SUBSET S : IsFiniteSet(T) /\ Cardinality(T) \in Nat
  BY FS_Subset, FS_CardinalityType
<1>2. 0 \in G
  <2> SUFFICES ASSUME NEW T \in SUBSET S, Cardinality(T) = 0, Same(T) PROVE F[T] = H[T]
    OBVIOUS
  <2>1. T = {}
    BY <1>1, FS_EmptySet
  <2> QED
    BY <2>1, SumsAt DEF SumStep
<1>3. ASSUME NEW n \in Nat, n \in G
      PROVE  n + 1 \in G
  <2> SUFFICES ASSUME NEW T \in SUBSET S, Cardinality(T) = n + 1, Same(T) PROVE F[T] = H[T]
    OBVIOUS
  <2>1. T # {}
    BY FS_EmptySet
  <2> DEFINE c == Pick(T)
  <2>2. c \in T /\ F[T] = f[c] + F[T \ {c}] /\ H[T] = h[c] + H[T \ {c}]
    <3>1. T \in SUBSET R
      OBVIOUS
    <3>2. F[T] = SumStep(F, f, T) /\ H[T] = SumStep(H, h, T)
      BY <3>1, SumsAt
    <3> QED
      BY <2>1, <3>2, PickInside DEF SumStep
  <2> HIDE DEF c
  <2>3. T \ {c} \in SUBSET S /\ Cardinality(T \ {c}) = n /\ Same(T \ {c})
    BY <1>1, <2>2, OneLess
  <2>4. F[T \ {c}] = H[T \ {c}]
    BY <1>3, <2>3
  <2> QED
    BY <2>2, <2>4
<1> HIDE DEF G
<1>4. Nat \subseteq G
  BY <1>2, <1>3, InductionOnNat
<1> QED
  BY <1>1, <1>4 DEF G
-----------------------------------------------------------------------------
\* What the proofs use of Total.
LEMMA TotalType ==
  ASSUME NEW f, NEW S, IsFiniteSet(S), \A x \in S : f[x] \in Int
  PROVE  Total(f, S) \in Int
BY TotalIsSum, SumsType

LEMMA TotalOfNone == ASSUME NEW f PROVE Total(f, {}) = 0
<1>1. PICK F : SumsOf(F, f, {}) /\ Total(f, {}) = F[{}]
  BY TotalIsSum, FS_EmptySet
<1> QED
  BY <1>1, SumsAt DEF SumStep

LEMMA TotalAgree ==
  ASSUME NEW f, NEW h, NEW S, IsFiniteSet(S), \A x \in S : f[x] = h[x]
  PROVE  Total(f, S) = Total(h, S)
<1>1. PICK F : SumsOf(F, f, S) /\ Total(f, S) = F[S]
  BY TotalIsSum
<1>2. PICK H : SumsOf(H, h, S) /\ Total(h, S) = H[S]
  BY TotalIsSum
<1> QED
  BY <1>1, <1>2, SumsAgree

LEMMA TotalOneLess ==
  ASSUME NEW f, NEW S, IsFiniteSet(S), \A x \in S : f[x] \in Int, NEW x \in S
  PROVE  Total(f, S) = f[x] + Total(f, S \ {x})
<1>1. PICK F : SumsOf(F, f, S) /\ Total(f, S) = F[S]
  BY TotalIsSum
<1> DEFINE R == S \ {x}
<1>2. IsFiniteSet(R)
  BY FS_RemoveElement
<1>3. PICK H : SumsOf(H, f, R) /\ Total(f, R) = H[R]
  BY <1>2, TotalIsSum
<1>4. F[R] = H[R]
  BY <1>1, <1>3, SumsAgree
<1> QED
  BY <1>1, <1>3, <1>4, SumsOneLess

\* A new element, and a new value of one element.
LEMMA TotalOneMore ==
  ASSUME NEW f, NEW h, NEW S, IsFiniteSet(S), \A y \in S : f[y] \in Int /\ h[y] = f[y],
         NEW x, x \notin S, h[x] \in Int
  PROVE  Total(h, S \cup {x}) = h[x] + Total(f, S)
<1> DEFINE R == S \cup {x}
<1>1. IsFiniteSet(R)
  BY FS_AddElement
<1>2. R \ {x} = S /\ x \in R /\ \A y \in R : h[y] \in Int
  OBVIOUS
<1> HIDE DEF R
<1>3. Total(h, R) = h[x] + Total(h, S)
  BY <1>1, <1>2, TotalOneLess
<1>4. Total(h, S) = Total(f, S)
  BY TotalAgree
<1> QED
  BY <1>3, <1>4 DEF R

LEMMA TotalOfOneWrite ==
  ASSUME NEW f, NEW h, NEW S, IsFiniteSet(S), \A y \in S : f[y] \in Int /\ h[y] \in Int,
         NEW x \in S, \A y \in S \ {x} : h[y] = f[y]
  PROVE  Total(h, S) = Total(f, S) + h[x] - f[x]
<1> DEFINE R == S \ {x}
<1>1. IsFiniteSet(R)
  BY FS_RemoveElement
<1>2. Total(h, R) = Total(f, R) /\ Total(f, R) \in Int
  BY <1>1, TotalAgree, TotalType
<1>3. Total(h, S) = h[x] + Total(h, R) /\ Total(f, S) = f[x] + Total(f, R)
  BY TotalOneLess
<1>4. h[x] \in Int /\ f[x] \in Int
  OBVIOUS
<1> HIDE DEF R
<1> QED
  BY <1>2, <1>3, <1>4

LEMMA TotalOfZeros ==
  ASSUME NEW f, NEW S, IsFiniteSet(S), \A x \in S : f[x] = 0
  PROVE  Total(f, S) = 0
<1>1. PICK F : SumsOf(F, f, S) /\ Total(f, S) = F[S]
  BY TotalIsSum
<1> DEFINE G == {n \in Nat : \A T \in SUBSET S : Cardinality(T) = n => F[T] = 0}
<1>2. \A T \in SUBSET S : IsFiniteSet(T) /\ Cardinality(T) \in Nat
  BY FS_Subset, FS_CardinalityType
<1>3. 0 \in G
  <2> SUFFICES ASSUME NEW T \in SUBSET S, Cardinality(T) = 0 PROVE F[T] = 0
    OBVIOUS
  <2>1. T = {}
    BY <1>2, FS_EmptySet
  <2> QED BY <1>1, <2>1, SumsAt DEF SumStep
<1>4. ASSUME NEW n \in Nat, n \in G PROVE n + 1 \in G
  <2> SUFFICES ASSUME NEW T \in SUBSET S, Cardinality(T) = n + 1 PROVE F[T] = 0
    OBVIOUS
  <2>1. T # {}
    BY FS_EmptySet
  <2> DEFINE R == T \ {Pick(T)}
  <2>2. Pick(T) \in T /\ F[T] = f[Pick(T)] + F[R]
    <3>1. F[T] = SumStep(F, f, T)
      BY <1>1, SumsAt
    <3> QED BY <2>1, <3>1, PickInside DEF SumStep
  <2>3. R \in SUBSET S /\ Cardinality(R) = n
    BY <1>2, <2>2, OneLess
  <2> HIDE DEF R
  <2> QED BY <1>4, <2>2, <2>3
<1> HIDE DEF G
<1>5. Nat \subseteq G
  BY <1>3, <1>4, InductionOnNat
<1> QED BY <1>1, <1>2, <1>5 DEF G

\* No amount exceeds the total of the amounts.
LEMMA TotalOfAmounts ==
  ASSUME NEW f, NEW S, IsFiniteSet(S), \A y \in S : f[y] \in Nat
  PROVE  Total(f, S) \in Nat /\ \A x \in S : f[x] <= Total(f, S)
<1> DEFINE G == {n \in Nat : \A T \in SUBSET S : Cardinality(T) = n => Total(f, T) \in Nat}
<1>1. \A T \in SUBSET S : IsFiniteSet(T) /\ Cardinality(T) \in Nat
  BY FS_Subset, FS_CardinalityType
<1>2. 0 \in G
  <2> SUFFICES ASSUME NEW T \in SUBSET S, Cardinality(T) = 0 PROVE Total(f, T) \in Nat
    OBVIOUS
  <2>1. T = {}
    BY <1>1, FS_EmptySet
  <2> QED
    BY <2>1, TotalOfNone
<1>3. ASSUME NEW n \in Nat, n \in G
      PROVE  n + 1 \in G
  <2> SUFFICES ASSUME NEW T \in SUBSET S, Cardinality(T) = n + 1 PROVE Total(f, T) \in Nat
    OBVIOUS
  <2>1. T # {}
    BY FS_EmptySet
  <2>2. PICK x \in T : TRUE
    BY <2>1
  <2> DEFINE R == T \ {x}
  <2>3. R \in SUBSET S /\ Cardinality(R) = n /\ IsFiniteSet(T)
    BY <1>1, OneLess
  <2>4. Total(f, T) = f[x] + Total(f, R)
    BY <2>3, TotalOneLess
  <2> HIDE DEF R
  <2>5. Total(f, R) \in Nat
    BY <1>3, <2>3
  <2> QED
    BY <2>4, <2>5
<1> HIDE DEF G
<1>4. Nat \subseteq G
  BY <1>2, <1>3, InductionOnNat
<1>5. \A T \in SUBSET S : Total(f, T) \in Nat
  BY <1>1, <1>4 DEF G
<1>6. ASSUME NEW x \in S PROVE f[x] <= Total(f, S)
  <2> DEFINE R == S \ {x}
  <2>1. Total(f, S) = f[x] + Total(f, R)
    BY TotalOneLess
  <2>2. Total(f, R) \in Nat /\ f[x] \in Nat
    BY <1>5
  <2> HIDE DEF R
  <2> QED
    BY <2>1, <2>2
<1> QED
  BY <1>5, <1>6
-----------------------------------------------------------------------------
\* The movements of an order.
MoveType == [type: {"RESERVATION", "CONSUMPTION", "RELEASE", "REVERSAL"},
             quantity: Int, held: Int, undoes: Nat]

\* The consumptions that have not been reversed.
Unreversed(ms) ==
  {j \in DOMAIN ms : /\ ms[j].type = "CONSUMPTION"
                     /\ \A k \in DOMAIN ms : ms[k].undoes # j}

LEMMA SumsOfMoves ==
  ASSUME NEW ms \in Seq(MoveType)
  PROVE  /\ Held(ms) \in Int /\ Used(ms) \in Int /\ IsFiniteSet(DOMAIN ms)
         /\ \A x \in MoveType : /\ Held(Append(ms, x)) = Held(ms) + x.held
                                /\ Used(Append(ms, x)) = Used(ms) - x.quantity
<1> DEFINE n == Len(ms)
           h == [i \in DOMAIN ms |-> ms[i].held]
           u == [i \in DOMAIN ms |-> -ms[i].quantity]
<1>0. n \in Nat /\ DOMAIN ms = 1..n
  OBVIOUS
<1>1. n \in Nat /\ DOMAIN ms = 1..n /\ IsFiniteSet(1..n)
  <2> HIDE DEF n
  <2>1. n \in Int /\ 1 \in Int
    BY <1>0
  <2> QED
    BY <1>0, <2>1, FS_Interval
<1>2. \A i \in 1..n : h[i] \in Int /\ u[i] \in Int
  <2>1. \A i \in 1..n : ms[i] \in MoveType
    BY <1>0
  <2>2. \A i \in 1..n : h[i] = ms[i].held /\ u[i] = -ms[i].quantity
    <3>1. \A i \in DOMAIN ms : h[i] = ms[i].held /\ u[i] = -ms[i].quantity
      BY Zenon
    <3> QED
      BY <1>0, <3>1, Zenon
  <2>3. \A i \in 1..n : ms[i].held \in Int /\ ms[i].quantity \in Int
    BY <2>1 DEF MoveType
  <2> SUFFICES ASSUME NEW i \in 1..n PROVE h[i] \in Int /\ u[i] \in Int
    OBVIOUS
  <2>4. h[i] = ms[i].held /\ u[i] = -ms[i].quantity
    BY <2>2
  <2> HIDE DEF h, u, n
  <2> QED
    BY <2>3, <2>4
<1>3. Held(ms) = Total(h, 1..n) /\ Used(ms) = Total(u, 1..n)
  BY <1>1 DEF Held, Used
<1>4. Held(ms) \in Int /\ Used(ms) \in Int
  <2> HIDE DEF h, u
  <2> QED
    BY <1>1, <1>2, <1>3, TotalType
<1>5. ASSUME NEW x \in MoveType
      PROVE  /\ Held(Append(ms, x)) = Held(ms) + x.held
             /\ Used(Append(ms, x)) = Used(ms) - x.quantity
  <2> DEFINE q  == Append(ms, x)
             h2 == [i \in DOMAIN q |-> q[i].held]
             u2 == [i \in DOMAIN q |-> -q[i].quantity]
  <2>1. /\ DOMAIN q = 1..(n + 1) /\ q[n + 1] = x /\ \A i \in 1..n : q[i] = ms[i]
    BY <1>1
  <2>2. 1..(n + 1) = (1..n) \cup {n + 1} /\ n + 1 \notin 1..n
    BY <1>1
  <2> HIDE DEF q, n
  <2>3. /\ h2[n + 1] = x.held /\ u2[n + 1] = -x.quantity
        /\ \A i \in 1..n : h2[i] = h[i] /\ u2[i] = u[i]
    BY <1>1, <2>1, <2>2
  <2>4. Held(q) = Total(h2, (1..n) \cup {n + 1}) /\ Used(q) = Total(u2, (1..n) \cup {n + 1})
    BY <2>1, <2>2 DEF Held, Used
  <2>5. x.held \in Int /\ -x.quantity \in Int
    BY DEF MoveType
  <2> HIDE DEF h, u, h2, u2
  <2> DEFINE S == 1..n
             m == n + 1
  <2>9. /\ IsFiniteSet(S) /\ m \notin S /\ h2[m] = x.held /\ u2[m] = -x.quantity
        /\ \A i \in S : /\ h[i] \in Int /\ h2[i] = h[i]
                        /\ u[i] \in Int /\ u2[i] = u[i]
    BY <1>1, <1>2, <2>2, <2>3
  <2> HIDE DEF S, m
  <2>6. Held(q) = x.held + Total(h, 1..n)
    <3>1. Total(h2, S \cup {m}) = h2[m] + Total(h, S)
      BY <2>5, <2>9, TotalOneMore
    <3> QED
      BY <2>4, <2>9, <3>1 DEF S, m
  <2>7. Used(q) = -x.quantity + Total(u, 1..n)
    <3>1. Total(u2, S \cup {m}) = u2[m] + Total(u, S)
      BY <2>5, <2>9, TotalOneMore
    <3> QED
      BY <2>4, <2>9, <3>1 DEF S, m
  <2>8. x.quantity \in Int
    BY DEF MoveType
  <2> QED
    BY <1>3, <1>4, <2>5, <2>6, <2>7, <2>8 DEF q
<1> QED
  BY <1>1, <1>4, <1>5

LEMMA UnreversedAppend ==
  ASSUME NEW ms \in Seq(MoveType), NEW x \in MoveType,
         \A k \in DOMAIN ms : ms[k].undoes <= Len(ms), x.undoes <= Len(ms)
  PROVE  /\ Append(ms, x) \in Seq(MoveType)
         /\ \A k \in DOMAIN Append(ms, x) : Append(ms, x)[k].undoes <= Len(Append(ms, x))
         /\ Unreversed(Append(ms, x)) =
              (Unreversed(ms) \cup (IF x.type = "CONSUMPTION" THEN {Len(ms) + 1} ELSE {}))
                \ {x.undoes}
<1> DEFINE n == Len(ms)
           q == Append(ms, x)
<1>1. /\ n \in Nat /\ DOMAIN ms = 1..n /\ DOMAIN q = 1..(n + 1) /\ Len(q) = n + 1
      /\ q \in Seq(MoveType) /\ q[n + 1] = x /\ \A i \in 1..n : q[i] = ms[i]
      /\ 1..(n + 1) = (1..n) \cup {n + 1}
  <2>1. n \in Nat /\ DOMAIN ms = 1..n /\ q \in Seq(MoveType) /\ Len(q) = n + 1
    OBVIOUS
  <2>2. q[n + 1] = x /\ \A i \in 1..n : q[i] = ms[i]
    OBVIOUS
  <2>3. DOMAIN q = 1..Len(q)
    BY <2>1
  <2> HIDE DEF n, q
  <2>4. 1..(n + 1) = (1..n) \cup {n + 1}
    BY <2>1
  <2> QED
    BY <2>1, <2>2, <2>3, <2>4
<1>2. \A i \in 1..n : ms[i].undoes \in Nat /\ ms[i].undoes <= n
  <2>1. \A i \in 1..n : ms[i] \in MoveType
    BY <1>1
  <2> QED
    BY <1>1, <2>1 DEF MoveType
<1>3. x.undoes \in Nat /\ x.undoes <= n
  BY DEF MoveType
<1> HIDE DEF n, q
<1>4. \A k \in DOMAIN q : q[k].undoes <= Len(q) /\ q[k].undoes # n + 1
  BY <1>1, <1>2, <1>3
<1>5. ASSUME NEW j \in 1..(n + 1)
      PROVE  j \in Unreversed(q)
               <=> j \in (Unreversed(ms) \cup (IF x.type = "CONSUMPTION" THEN {n + 1} ELSE {}))
                            \ {x.undoes}
  <2>1. CASE j = n + 1
    <3>1. j \notin 1..n /\ j # x.undoes
      BY <1>1, <1>3, <2>1
    <3> QED
      BY <1>1, <1>4, <2>1, <3>1 DEF Unreversed
  <2>2. CASE j \in 1..n
    <3>1. j # n + 1
      BY <1>1, <2>2
    <3>2. (\A k \in 1..(n + 1) : q[k].undoes # j)
            <=> (\A k \in 1..n : ms[k].undoes # j) /\ x.undoes # j
      BY <1>1
    <3> QED
      BY <1>1, <2>2, <3>1, <3>2 DEF Unreversed
  <2> QED
    BY <1>1, <2>1, <2>2
<1>6. Unreversed(q) \subseteq 1..(n + 1) /\ Unreversed(ms) \subseteq 1..(n + 1)
  BY <1>1 DEF Unreversed
<1>7. n + 1 \in 1..(n + 1)
  BY <1>1
<1> QED
  BY <1>1, <1>4, <1>5, <1>6, <1>7 DEF n, q
-----------------------------------------------------------------------------
\* An order as it is stored: some valid draft, priced and settled.
Settled == {Parts(d.payment, PriceOf(d)) : d \in {x \in Draft : Valid(x, policy)}}
Status == {"ACTIVE", "DONE", "CANCELLED", "RETURNED"}
Snapshot == [status: Status, revision: Nat, delivery: BOOLEAN, prepared: BOOLEAN,
             pricing: {PriceOf(d) : d \in Draft}, parts: Settled]

\* What a snapshot's parts allot to a method is a number.
LEMMA SettledInNumbers == \A p \in Settled : \A m : Allocated(p, m) \in Int
<1> SUFFICES ASSUME NEW d \in Draft, Valid(d, policy), NEW m
             PROVE  Allocated(Parts(d.payment, PriceOf(d)), m) \in Int
  BY DEF Settled
<1> DEFINE p == d.payment
           total == PriceOf(d).total
           parts == Parts(p, PriceOf(d))
<1>1. p \in PaymentDraft
  BY BooksAssumption
<1>2. /\ d.subtotal \in Nat /\ d.discount \in 0..d.subtotal /\ d.fee \in Nat
      /\ policy.serviceBps \in Nat /\ policy.taxBps \in Nat
  BY BooksAssumption DEF Valid, Policy
<1>3. total \in Int
  <2> DEFINE net == d.subtotal - d.discount
             service == BasisPoints(net, policy.serviceBps)
             base == net + service + d.fee
             tax == BasisPoints(base, policy.taxBps)
  <2>1. net \in Nat
    BY <1>2
  <2>2. service \in Nat
    <3> HIDE DEF net
    <3> QED BY <1>2, <2>1, ChargeIsAnAmount
  <2>3. base \in Nat
    <3> HIDE DEF service, net
    <3> QED BY <1>2, <2>1, <2>2
  <2>4. tax \in Nat
    <3> HIDE DEF base
    <3> QED BY <1>2, <2>3, ChargeIsAnAmount
  <2>5. total = net + service + d.fee + tax
    BY DEF PriceOf, Pricing
  <2> HIDE DEF net, service, base, tax, total
  <2> QED BY <1>2, <2>1, <2>2, <2>4, <2>5
<1>4. p.amountA \in Nat /\ p.mode \in {"NONE", "SINGLE", "SPLIT"}
  BY <1>1 DEF PaymentDraft
<1>5. \A method, allocated, received : Part(method, allocated, received).allocated = allocated
  BY DEF Part
<1> HIDE DEF p
<1>6. \A i \in DOMAIN parts : parts[i].allocated \in Int
  <2>1. CASE p.mode = "NONE"
    BY <2>1 DEF Parts
  <2>2. CASE p.mode = "SINGLE"
    <3>1. parts = <<Part(p.methodA, total, p.received)>>
      BY <2>2 DEF Parts
    <3> HIDE DEF parts, total
    <3>2. DOMAIN parts = {1} /\ parts[1] = Part(p.methodA, total, p.received)
      BY <3>1
    <3> QED BY <1>3, <1>5, <3>2
  <2>3. CASE p.mode = "SPLIT"
    <3> DEFINE a == Part(p.methodA, p.amountA, NoAmount)
               b == Part(p.methodB, total - p.amountA, NoAmount)
    <3>1. parts = <<a, b>>
      BY <2>3 DEF Parts
    <3>2. a.allocated \in Int /\ b.allocated \in Int
      <4> HIDE DEF total
      <4> QED BY <1>3, <1>4, <1>5
    <3> HIDE DEF a, b, parts
    <3>3. DOMAIN parts = {1, 2} /\ parts[1] = a /\ parts[2] = b
      BY <3>1
    <3> QED BY <3>2, <3>3
  <2> QED BY <1>4, <2>1, <2>2, <2>3
<1> HIDE DEF parts
<1> QED BY <1>6 DEF Allocated, parts, p

NoTakings(r) == [m \in Method |-> Allocated(r.parts, m)] = Nothing

\* What an order's movements owe to its status.
StockOf(r, ms) ==
  /\ \A k \in DOMAIN ms : ms[k].undoes <= Len(ms)
  /\ r.status = "ACTIVE" =>
       Held(ms) = 1 /\ Used(ms) = 0 /\ ~r.prepared /\ Unreversed(ms) = {}
  /\ r.status \in {"DONE", "RETURNED"} =>
       /\ Held(ms) = 0 /\ Used(ms) = 1 /\ ~r.prepared
       /\ \E i \in DOMAIN ms : Unreversed(ms) = {i} /\ ms[i].quantity = -1 /\ ms[i].held = -1
  /\ r.status = "CANCELLED" =>
       /\ Used(ms) = IF r.prepared THEN 1 ELSE 0
       /\ Held(ms) = 0 \/ NoTakings(r)

\* The invariant behind StockFollowsOrders: an order that was made has exactly
\* one consumption that is not reversed, the one an Undo will find.
StockInv ==
  /\ orders \in [Order -> Snapshot \cup {NoOrder}]
  /\ moves \in [Order -> Seq(MoveType)]
  /\ \A o \in Order : IF orders[o] = NoOrder THEN moves[o] = <<>>
                      ELSE StockOf(orders[o], moves[o])
  /\ unsent \subseteq {o \in Order : orders[o] # NoOrder}
  /\ Changes <= MaxChanges

Revision(r) == IF r = NoOrder THEN 0 ELSE r.revision

LEMMA NoOrderIsNone == NoOrder \notin Snapshot /\ NoOrder.status = "NONE"
BY DEF NoOrder, Snapshot

\* The sum of the revisions counts the changes, and bounds each revision.
LEMMA ChangesCount ==
  ASSUME StockInv
  PROVE  /\ Changes \in Nat
         /\ \A o \in Order : Revision(orders[o]) \in Nat /\ Revision(orders[o]) <= Changes
<1> DEFINE f == [o \in Order |-> Revision(orders[o])]
<1>1. \A o \in Order : f[o] \in Nat
  BY DEF StockInv, Revision, Snapshot
<1>2. Changes = Total(f, Order)
  BY DEF Changes, Revision
<1>3. IsFiniteSet(Order)
  BY BooksAssumption
<1>4. \A o \in Order : f[o] = Revision(orders[o])
  OBVIOUS
<1> HIDE DEF f
<1> QED BY <1>1, <1>2, <1>3, <1>4, TotalOfAmounts

LEMMA ChangesWrite ==
  ASSUME StockInv, NEW o \in Order, NEW r \in Snapshot, orders' = [orders EXCEPT ![o] = r]
  PROVE  Changes' = Changes + r.revision - Revision(orders[o])
<1> DEFINE f == [x \in Order |-> Revision(orders[x])]
           g == [x \in Order |-> Revision(orders'[x])]
<1>1. /\ \A x \in Order : f[x] \in Nat /\ f[x] = Revision(orders[x])
      /\ \A x \in Order \ {o} : g[x] = f[x]
  BY DEF StockInv, Revision, Snapshot
<1>2. g[o] = r.revision /\ r.revision \in Nat
  BY NoOrderIsNone DEF StockInv, Revision, Snapshot
<1>3. Changes = Total(f, Order) /\ Changes' = Total(g, Order)
  BY DEF Changes, Revision
<1>4. IsFiniteSet(Order)
  BY BooksAssumption
<1> HIDE DEF f, g
<1>5. \A x \in Order : f[x] \in Int /\ g[x] \in Int
  BY <1>1, <1>2
<1>6. Total(g, Order) = Total(f, Order) + g[o] - f[o]
  BY <1>1, <1>4, <1>5, TotalOfOneWrite
<1> QED BY <1>1, <1>2, <1>3, <1>6

\* One order is written.
LEMMA StockWrite ==
  ASSUME StockInv, NEW o \in Order, NEW r \in Snapshot, NEW ms \in Seq(MoveType),
         StockOf(r, ms), orders' = [orders EXCEPT ![o] = r], moves' = [moves EXCEPT ![o] = ms],
         \/ r.revision = 0 /\ orders[o] = NoOrder
         \/ Changes < MaxChanges /\ r.revision = Revision(orders[o]) + 1,
         unsent' \subseteq unsent \cup {o}
  PROVE  StockInv'
<1>1. orders' \in [Order -> Snapshot \cup {NoOrder}] /\ moves' \in [Order -> Seq(MoveType)]
  BY DEF StockInv
<1>2. /\ orders'[o] = r /\ moves'[o] = ms /\ r # NoOrder
      /\ \A x \in Order : x # o => orders'[x] = orders[x] /\ moves'[x] = moves[x]
  BY NoOrderIsNone DEF StockInv
<1>3. \A x \in Order : IF orders'[x] = NoOrder THEN moves'[x] = <<>>
                       ELSE StockOf(orders'[x], moves'[x])
  BY <1>2 DEF StockInv
<1>4. unsent' \subseteq {x \in Order : orders'[x] # NoOrder}
  BY <1>2 DEF StockInv
<1>5. Changes' <= MaxChanges
  <2>1. Changes \in Nat /\ Revision(orders[o]) \in Nat /\ Changes <= MaxChanges
    BY ChangesCount DEF StockInv
  <2>2. Changes' = Changes + r.revision - Revision(orders[o]) /\ r.revision \in Nat
    BY ChangesWrite DEF Snapshot
  <2>3. MaxChanges \in Nat
    BY BooksAssumption
  <2>4. CASE r.revision = 0 /\ orders[o] = NoOrder
    BY <2>1, <2>2, <2>3, <2>4 DEF Revision
  <2>5. CASE Changes < MaxChanges /\ r.revision = Revision(orders[o]) + 1
    BY <2>1, <2>2, <2>3, <2>5
  <2> QED BY <2>4, <2>5
<1> QED BY <1>1, <1>3, <1>4, <1>5 DEF StockInv

LEMMA StockFrame ==
  ASSUME StockInv, UNCHANGED <<orders, moves>>, unsent' \subseteq unsent
  PROVE  StockInv'
BY DEF StockInv, Changes

\* An order changes its status: the new snapshot.
Moved(r, to, prepared) ==
  [status |-> to, revision |-> r.revision + 1, delivery |-> r.delivery,
   prepared |-> prepared, pricing |-> r.pricing, parts |-> r.parts]

LEMMA SnapshotMoved ==
  ASSUME NEW r \in Snapshot, NEW to \in Status,
         NEW prepared \in BOOLEAN
  PROVE  /\ Moved(r, to, prepared) \in Snapshot
         /\ Moved(r, to, prepared).status = to /\ Moved(r, to, prepared).prepared = prepared
         /\ Moved(r, to, prepared).revision = r.revision + 1
         /\ Moved(r, to, prepared).parts = r.parts
<1> DEFINE P == {PriceOf(d) : d \in Draft}
           Snaps == [status: Status, revision: Nat, delivery: BOOLEAN, prepared: BOOLEAN,
                     pricing: P, parts: Settled]
           q == Moved(r, to, prepared)
<1>1. Snapshot = Snaps
  BY DEF Snapshot
<1> HIDE DEF P
<1>2. /\ r = [status |-> r.status, revision |-> r.revision, delivery |-> r.delivery,
              prepared |-> r.prepared, pricing |-> r.pricing, parts |-> r.parts]
      /\ r.revision \in Nat /\ r.delivery \in BOOLEAN /\ r.pricing \in P /\ r.parts \in Settled
  BY <1>1
<1>3. r.revision + 1 \in Nat
  BY <1>2
<1>4. q \in Snaps
  BY <1>1, <1>2, <1>3 DEF Moved
<1>5. /\ q.status = to /\ q.prepared = prepared /\ q.revision = r.revision + 1
      /\ q.parts = r.parts
  BY DEF Moved
<1> QED BY <1>1, <1>4, <1>5

LEMMA MovedIs ==
  ASSUME NEW r \in Snapshot, NEW to, NEW prepared, NEW v
  PROVE  /\ v = [r EXCEPT !.status = to, !.revision = @ + 1, !.prepared = prepared]
              => v = Moved(r, to, prepared)
         /\ v = [r EXCEPT !.status = to, !.revision = @ + 1] => v = Moved(r, to, r.prepared)
<1>1. r = [status |-> r.status, revision |-> r.revision, delivery |-> r.delivery,
           prepared |-> r.prepared, pricing |-> r.pricing, parts |-> r.parts]
  BY DEF Snapshot
<1> QED BY <1>1 DEF Moved

LEMMA MutateWrites ==
  ASSUME StockInv, NEW t \in Tab, NEW o \in Order,
         NEW from \in {"ACTIVE", "DONE"}, NEW to \in Status,
         NEW prepared \in BOOLEAN, NEW ms, Mutate(t, o, from, to, prepared, ms),
         moves[o] \o ms \in Seq(MoveType),
         \A r : /\ r.status = to /\ r.prepared = prepared
                /\ r.parts = orders[o].parts
                => StockOf(r, moves[o] \o ms)
  PROVE  StockInv'
<1> DEFINE r == Moved(orders[o], to, prepared)
           qs == moves[o] \o ms
<1>1. orders[o] \in Snapshot
  BY DEF StockInv, Mutate
<1>2. /\ r \in Snapshot /\ r.status = to /\ r.prepared = prepared
      /\ r.revision = orders[o].revision + 1 /\ r.parts = orders[o].parts
  BY <1>1, SnapshotMoved
<1>3. orders' = [orders EXCEPT ![o] = r] /\ moves' = [moves EXCEPT ![o] = qs]
  <2> DEFINE v == [orders[o] EXCEPT !.status = to, !.revision = @ + 1, !.prepared = prepared]
  <2>1. v = r
    BY <1>1, MovedIs, Zenon
  <2>2. orders' = [orders EXCEPT ![o] = v] /\ moves' = [moves EXCEPT ![o] = qs]
    BY DEF Mutate
  <2> QED BY <2>1, <2>2, Zenon
<1>4. Changes < MaxChanges /\ unsent' \subseteq unsent \cup {o} /\ orders[o] # NoOrder
  BY DEF Mutate
<1> HIDE DEF r, qs
<1>5. StockOf(r, qs)
  BY <1>2 DEF qs
<1>6. qs \in Seq(MoveType)
  BY DEF qs
<1>7. r.revision = Revision(orders[o]) + 1
  BY <1>2, <1>4 DEF Revision
<1> QED BY <1>2, <1>3, <1>4, <1>5, <1>6, <1>7, StockWrite

\* A sequence of one element, however it is written.
LEMMA OneAppended ==
  ASSUME NEW E, NEW s \in Seq(E), NEW x \in E
  PROVE  /\ s \o <<x>> = Append(s, x)
         /\ s \o <<>> = s
         /\ \A q \in Seq(E) : Len(q) = 1 /\ q[1] = x => s \o q = Append(s, x)
<1>1. s \o <<>> = s
  OBVIOUS
<1>2. ASSUME NEW q \in Seq(E), Len(q) = 1, q[1] = x PROVE s \o q = Append(s, x)
  <2> DEFINE u == s \o q
             v == Append(s, x)
  <2>1. Len(s) \in Nat
    OBVIOUS
  <2>2. u \in Seq(E) /\ v \in Seq(E) /\ Len(u) = Len(s) + 1 /\ Len(v) = Len(s) + 1
    <3>1. u \in Seq(E) /\ Len(u) = Len(s) + Len(q)
      BY <1>2, ConcatProperties
    <3>2. v \in Seq(E) /\ Len(v) = Len(s) + 1
      BY AppendProperties
    <3> QED BY <1>2, <3>1, <3>2
  <2>3. \A i \in 1..(Len(s) + 1) : u[i] = IF i <= Len(s) THEN s[i] ELSE q[i - Len(s)]
    <3>1. \A i \in 1..(Len(s) + Len(q)) : u[i] = IF i <= Len(s) THEN s[i] ELSE q[i - Len(s)]
      BY <1>2, ConcatProperties, Zenon
    <3> HIDE DEF u
    <3> QED BY <1>2, <3>1, Zenon
  <2>4. \A i \in 1..(Len(s) + 1) : v[i] = IF i <= Len(s) THEN s[i] ELSE x
    BY AppendProperties
  <2>5. \A i \in 1..(Len(s) + 1) : u[i] = v[i]
    <3> HIDE DEF u, v
    <3> SUFFICES ASSUME NEW i \in 1..(Len(s) + 1), ~(i <= Len(s)) PROVE u[i] = v[i]
      BY <2>3, <2>4
    <3>1. i - Len(s) = 1
      BY <2>1
    <3> QED BY <1>2, <2>3, <2>4, <3>1
  <2> HIDE DEF u, v
  <2>6. u = v
    BY <2>2, <2>5, SeqEqual
  <2> QED BY <2>6 DEF u, v
<1>3. <<x>> \in Seq(E) /\ Len(<<x>>) = 1 /\ <<x>>[1] = x
  OBVIOUS
<1> QED BY <1>1, <1>2, <1>3

LEMMA SetToSeqOfOne ==
  ASSUME NEW E, NEW x \in E
  PROVE  SetToSeq({x}) \in Seq(E) /\ Len(SetToSeq({x})) = 1 /\ SetToSeq({x})[1] = x
<1> DEFINE one == [i \in 1..1 |-> x]
           q == SetToSeq({x})
<1>1. Cardinality({x}) = 1
  BY FS_Singleton
<1>2. one \in [1..1 -> {x}] /\ IsInjective(one)
  BY DEF IsInjective
<1>3. q \in [1..1 -> {x}]
  <2> HIDE DEF one
  <2>1. \E f \in [1..1 -> {x}] : IsInjective(f)
    BY <1>2
  <2>2. q = CHOOSE f \in [1..1 -> {x}] : IsInjective(f)
    BY <1>1 DEF SetToSeq
  <2> QED BY <2>1, <2>2
<1> HIDE DEF q
<1>4. q \in Seq({x})
  <2>1. 1 \in Nat
    OBVIOUS
  <2> QED BY <1>3, <2>1, SeqDef
<1>5. Len(q) = 1 /\ q[1] = x
  BY <1>3, <1>4
<1>6. q \in Seq(E)
  BY <1>4, SeqMonotonic
<1> QED BY <1>5, <1>6 DEF q

\* The movements each command appends.
LEMMA ConsumptionIs ==
  ASSUME NEW o \in Order, Held(moves[o]) = 1
  PROVE  /\ Consumption(o) = <<Move("CONSUMPTION", -1, -1, 0)>>
         /\ Released(o) = <<Move("RELEASE", 0, -1, 0)>>
BY DEF Consumption, Released

LEMMA MovesAreMoves ==
  /\ Move("RESERVATION", 0, 1, 0) \in MoveType
  /\ Move("CONSUMPTION", -1, -1, 0) \in MoveType
  /\ Move("RELEASE", 0, -1, 0) \in MoveType
  /\ \A i \in Nat : Move("REVERSAL", 1, 1, i) \in MoveType
BY DEF Move, MoveType

LEMMA MarkDoneStock == ASSUME StockInv, NEW t \in Tab, NEW o \in Order, MarkDone(t, o)
                       PROVE  StockInv'
<1> DEFINE ms == moves[o]
           x == Move("CONSUMPTION", -1, -1, 0)
<1>1. /\ orders[o] # NoOrder /\ orders[o].status = "ACTIVE"
      /\ Mutate(t, o, "ACTIVE", "DONE", FALSE, Consumption(o))
  BY DEF MarkDone, Mutate
<1>2. ms \in Seq(MoveType) /\ StockOf(orders[o], ms)
  BY <1>1 DEF StockInv
<1>3. /\ Held(ms) = 1 /\ Used(ms) = 0 /\ Unreversed(ms) = {}
      /\ \A k \in DOMAIN ms : ms[k].undoes <= Len(ms)
  BY <1>1, <1>2 DEF StockOf
<1>4. x \in MoveType /\ x.held = -1 /\ x.quantity = -1 /\ x.undoes = 0 /\ x.type = "CONSUMPTION"
  BY MovesAreMoves DEF Move
<1>5. ms \o Consumption(o) = Append(ms, x)
  <2>1. Consumption(o) = <<x>>
    BY <1>3, ConsumptionIs
  <2> HIDE DEF x, ms
  <2> QED BY <1>2, <1>4, <2>1, OneAppended
<1> DEFINE q == Append(ms, x)
<1>6. Len(ms) \in Nat /\ 0 <= Len(ms) /\ q[Len(ms) + 1] = x /\ Len(ms) + 1 \in DOMAIN q
  BY <1>2
<1> HIDE DEF x, ms
<1>7. Held(q) = 0 /\ Used(q) = 1
  BY <1>2, <1>3, <1>4, SumsOfMoves
<1>8. /\ q \in Seq(MoveType) /\ \A k \in DOMAIN q : q[k].undoes <= Len(q)
      /\ Unreversed(q) = ({} \cup {Len(ms) + 1}) \ {0}
  BY <1>2, <1>3, <1>4, <1>6, UnreversedAppend
<1> HIDE DEF q
<1>9. Unreversed(q) = {Len(ms) + 1}
  BY <1>6, <1>8
<1>10. ASSUME NEW r, r.status = "DONE", r.prepared = FALSE PROVE StockOf(r, q)
  BY <1>4, <1>6, <1>7, <1>8, <1>9, <1>10 DEF StockOf
<1>11. moves[o] \o Consumption(o) = q
  BY <1>5 DEF q, ms
<1> QED BY <1>1, <1>8, <1>10, <1>11, MutateWrites DEF Status

LEMMA UndoDoneStock == ASSUME StockInv, NEW t \in Tab, NEW o \in Order, UndoDone(t, o)
                       PROVE  StockInv'
<1> DEFINE ms == moves[o]
<1>1. /\ orders[o] # NoOrder /\ orders[o].status = "DONE"
      /\ Mutate(t, o, "DONE", "ACTIVE", FALSE, Reversals(o))
  BY DEF UndoDone, Mutate
<1>2. ms \in Seq(MoveType) /\ StockOf(orders[o], ms)
  BY <1>1 DEF StockInv
<1>3. /\ Held(ms) = 0 /\ Used(ms) = 1
      /\ \A k \in DOMAIN ms : ms[k].undoes <= Len(ms)
  BY <1>1, <1>2 DEF StockOf
<1>4. PICK i \in DOMAIN ms : Unreversed(ms) = {i} /\ ms[i].quantity = -1 /\ ms[i].held = -1
  BY <1>1, <1>2 DEF StockOf
<1> DEFINE x == Move("REVERSAL", 1, 1, i)
<1>5. Len(ms) \in Nat /\ i \in 1..Len(ms) /\ i \in Nat
  BY <1>2
<1>6. x \in MoveType /\ x.held = 1 /\ x.quantity = 1 /\ x.undoes = i /\ x.type = "REVERSAL"
  BY <1>5, MovesAreMoves DEF Move
<1>7. Reversals(o) = SetToSeq({x})
  <2>1. Reversals(o) = SetToSeq({Move("REVERSAL", -ms[j].quantity, -ms[j].held, j) :
                                   j \in Unreversed(ms)})
    BY DEF Reversals, Unreversed
  <2>2. {Move("REVERSAL", -ms[j].quantity, -ms[j].held, j) : j \in Unreversed(ms)} = {x}
    BY <1>4
  <2> QED BY <2>1, <2>2
<1> HIDE DEF x
<1>8. ms \o Reversals(o) = Append(ms, x)
  <2> DEFINE z == Reversals(o)
  <2>1. z \in Seq(MoveType) /\ Len(z) = 1 /\ z[1] = x
    BY <1>6, <1>7, SetToSeqOfOne
  <2> HIDE DEF z, ms
  <2>2. ms \o z = Append(ms, x)
    BY <1>2, <1>6, <2>1, OneAppended
  <2> QED BY <2>2 DEF z
<1> DEFINE q == Append(ms, x)
<1> HIDE DEF ms
<1>9. Held(q) = 1 /\ Used(q) = 0
  BY <1>2, <1>3, <1>6, SumsOfMoves
<1>10. /\ q \in Seq(MoveType) /\ \A k \in DOMAIN q : q[k].undoes <= Len(q)
       /\ Unreversed(q) = ({i} \cup {}) \ {i}
  <2>1. x.undoes <= Len(ms)
    BY <1>5, <1>6
  <2>2. x.type # "CONSUMPTION"
    BY <1>6
  <2>3. /\ q \in Seq(MoveType) /\ \A k \in DOMAIN q : q[k].undoes <= Len(q)
        /\ Unreversed(q) =
             (Unreversed(ms) \cup (IF x.type = "CONSUMPTION" THEN {Len(ms) + 1} ELSE {}))
               \ {x.undoes}
    BY <1>2, <1>3, <1>6, <2>1, UnreversedAppend
  <2> QED BY <1>4, <1>6, <2>2, <2>3
<1> HIDE DEF q
<1>11. ASSUME NEW r, r.status = "ACTIVE", r.prepared = FALSE PROVE StockOf(r, q)
  BY <1>9, <1>10, <1>11 DEF StockOf
<1>12. moves[o] \o Reversals(o) = q
  BY <1>8 DEF q, ms
<1> QED BY <1>1, <1>10, <1>11, <1>12, MutateWrites DEF Status

\* An order is cancelled: with its dish prepared, or with its stock released.
LEMMA GivenUp ==
  ASSUME NEW ms \in Seq(MoveType), NEW r, StockOf(r, ms), r.status = "ACTIVE",
         NEW prepared \in BOOLEAN, NEW x,
         x = IF prepared THEN Move("CONSUMPTION", -1, -1, 0) ELSE Move("RELEASE", 0, -1, 0)
  PROVE  /\ Append(ms, x) \in Seq(MoveType) /\ Held(ms) = 1
         /\ \A q : q.status = "CANCELLED" /\ q.prepared = prepared => StockOf(q, Append(ms, x))
<1>1. /\ Held(ms) = 1 /\ Used(ms) = 0 /\ Unreversed(ms) = {}
      /\ \A k \in DOMAIN ms : ms[k].undoes <= Len(ms)
  BY DEF StockOf
<1>2. /\ x \in MoveType /\ x.held = -1 /\ x.undoes = 0
      /\ x.quantity = IF prepared THEN -1 ELSE 0
  BY MovesAreMoves DEF Move
<1>3. Len(ms) \in Nat /\ 0 <= Len(ms)
  OBVIOUS
<1> DEFINE u == Append(ms, x)
<1>4. Held(u) = 0 /\ Used(u) = IF prepared THEN 1 ELSE 0
  BY <1>1, <1>2, SumsOfMoves
<1>5. u \in Seq(MoveType) /\ \A k \in DOMAIN u : u[k].undoes <= Len(u)
  BY <1>1, <1>2, <1>3, UnreversedAppend
<1> HIDE DEF u
<1>6. \A q : q.status = "CANCELLED" /\ q.prepared = prepared => StockOf(q, u)
  BY <1>4, <1>5 DEF StockOf
<1> QED BY <1>1, <1>5, <1>6 DEF u

LEMMA CancelStock ==
  ASSUME StockInv, NEW t \in Tab, NEW o \in Order, NEW prepared \in BOOLEAN,
         CancelOrder(t, o, prepared)
  PROVE  StockInv'
<1> DEFINE ms == moves[o]
           x == IF prepared THEN Move("CONSUMPTION", -1, -1, 0) ELSE Move("RELEASE", 0, -1, 0)
           qs == IF prepared THEN Consumption(o) ELSE Released(o)
<1>1. /\ orders[o] # NoOrder /\ orders[o].status = "ACTIVE"
      /\ Mutate(t, o, "ACTIVE", "CANCELLED", prepared, qs)
  BY DEF CancelOrder, Mutate
<1>2. ms \in Seq(MoveType) /\ StockOf(orders[o], ms)
  BY <1>1 DEF StockInv
<1>3. /\ Append(ms, x) \in Seq(MoveType) /\ Held(ms) = 1
      /\ \A q : q.status = "CANCELLED" /\ q.prepared = prepared => StockOf(q, Append(ms, x))
  BY <1>1, <1>2, GivenUp
<1>4. qs = <<x>> /\ x \in MoveType
  BY <1>3, ConsumptionIs, MovesAreMoves
<1>5. ms \o qs = Append(ms, x)
  <2> HIDE DEF x, qs
  <2> QED BY <1>2, <1>4, OneAppended
<1> HIDE DEF x, qs
<1> QED BY <1>1, <1>3, <1>5, MutateWrites DEF Status

LEMMA ReturnStock == ASSUME StockInv, NEW t \in Tab, NEW o \in Order, ReturnDelivery(t, o)
                     PROVE  StockInv'
<1>1. /\ orders[o] # NoOrder /\ orders[o].status = "DONE"
      /\ Mutate(t, o, "DONE", "RETURNED", FALSE, <<>>)
  BY DEF ReturnDelivery, Mutate
<1>2. moves[o] \in Seq(MoveType) /\ StockOf(orders[o], moves[o])
  BY <1>1 DEF StockInv
<1>3. moves[o] \o <<>> = moves[o]
  BY <1>2
<1>4. ASSUME NEW r, r.status = "RETURNED", r.prepared = FALSE PROVE StockOf(r, moves[o])
  BY <1>1, <1>2, <1>4 DEF StockOf
<1> QED BY <1>1, <1>2, <1>3, <1>4, MutateWrites DEF Status

LEMMA PlaceStock ==
  ASSUME StockInv, NEW t \in Tab, NEW o \in Order, NEW d \in Draft, PlaceOrder(t, o, d)
  PROVE  StockInv'
<1> DEFINE x == Move("RESERVATION", 0, 1, 0)
           q == Append(<<>>, x)
           r == [status |-> "ACTIVE", revision |-> 0, delivery |-> d.delivery,
                 prepared |-> FALSE, pricing |-> PriceOf(d),
                 parts |-> Parts(d.payment, PriceOf(d))]
<1>1. /\ orders[o] = NoOrder /\ Valid(d, policy) /\ orders' = [orders EXCEPT ![o] = r]
      /\ moves' = [moves EXCEPT ![o] = <<x>>] /\ unsent' = unsent \cup {o}
  BY DEF PlaceOrder, PriceOf
<1>2. r \in Snapshot /\ r.status = "ACTIVE" /\ r.prepared = FALSE /\ r.revision = 0
  <2>1. d.delivery \in BOOLEAN
    BY BooksAssumption
  <2>2. PriceOf(d) \in {PriceOf(y) : y \in Draft}
    OBVIOUS
  <2>3. Parts(d.payment, PriceOf(d)) \in Settled
    BY <1>1 DEF Settled
  <2> QED BY <2>1, <2>2, <2>3 DEF Snapshot, Status
<1>3. /\ x \in MoveType /\ x.held = 1 /\ x.quantity = 0 /\ x.undoes = 0
      /\ x.type = "RESERVATION"
  BY MovesAreMoves DEF Move
<1>4. /\ <<>> \in Seq(MoveType) /\ Len(<<>>) = 0 /\ DOMAIN <<>> = {}
  OBVIOUS
<1>5. Held(<<>>) = 0 /\ Used(<<>>) = 0 /\ Unreversed(<<>>) = {}
  BY <1>4, TotalOfNone DEF Held, Used, Unreversed
<1> HIDE DEF x, r
<1>6. Held(q) = 1 /\ Used(q) = 0
  <2> DEFINE e == <<>>
  <2>1. e \in Seq(MoveType) /\ Held(e) = 0 /\ Used(e) = 0
    BY <1>4, <1>5
  <2>2. q = Append(e, x)
    OBVIOUS
  <2> HIDE DEF e, q
  <2>3. Held(q) = Held(e) + x.held /\ Used(q) = Used(e) - x.quantity
    BY <1>3, <2>1, <2>2, SumsOfMoves
  <2> QED BY <1>3, <2>1, <2>3
<1>7. /\ q \in Seq(MoveType) /\ \A k \in DOMAIN q : q[k].undoes <= Len(q)
      /\ Unreversed(q) = ({} \cup {}) \ {0}
  <2> DEFINE e == <<>>
  <2>1. /\ e \in Seq(MoveType) /\ Unreversed(e) = {} /\ Len(e) = 0
        /\ \A k \in DOMAIN e : e[k].undoes <= Len(e)
    BY <1>4, <1>5
  <2>2. q = Append(e, x)
    OBVIOUS
  <2> HIDE DEF e, q
  <2>3. x.undoes <= Len(e)
    BY <1>3, <2>1
  <2>4. /\ q \in Seq(MoveType) /\ \A k \in DOMAIN q : q[k].undoes <= Len(q)
        /\ Unreversed(q) =
             (Unreversed(e) \cup (IF x.type = "CONSUMPTION" THEN {Len(e) + 1} ELSE {}))
               \ {x.undoes}
    BY <1>3, <2>1, <2>2, <2>3, UnreversedAppend
  <2> QED BY <1>3, <2>1, <2>4
<1>8. q = <<x>>
  BY <1>3
<1> HIDE DEF q
<1>9. StockOf(r, q)
  BY <1>2, <1>6, <1>7 DEF StockOf
<1>10. moves' = [moves EXCEPT ![o] = q]
  BY <1>1, <1>8
<1> QED BY <1>1, <1>2, <1>7, <1>9, <1>10, StockWrite

\* A refused placement, or an administrator's cancellation.
LEMMA ServiceStock ==
  ASSUME StockInv, NEW o \in Order, Refused(o) \/ Converge(o)
  PROVE  StockInv'
<1> DEFINE ms == moves[o]
           r == Cancelled(o)
<1>1. CASE UNCHANGED <<orders, moves>>
  BY <1>1, StockFrame DEF Refused, Converge
<1>2. CASE ~UNCHANGED <<orders, moves>>
  <2>1. /\ orders[o] # NoOrder /\ orders[o].status = "ACTIVE" /\ Changes < MaxChanges
        /\ orders' = [orders EXCEPT ![o] = r] /\ unsent' \subseteq unsent \cup {o}
    BY <1>2, NoOrderIsNone DEF Refused, Converge, StockInv
  <2>2. orders[o] \in Snapshot /\ ms \in Seq(MoveType) /\ StockOf(orders[o], ms)
    BY <2>1 DEF StockInv
  <2>3. /\ r \in Snapshot /\ r.status = "CANCELLED" /\ r.prepared = orders[o].prepared
        /\ r.parts = orders[o].parts /\ r.revision = Revision(orders[o]) + 1
    <3>1. orders[o].prepared \in BOOLEAN
      BY <2>2 DEF Snapshot
    <3>2. r = Moved(orders[o], "CANCELLED", orders[o].prepared)
      BY <2>2, MovedIs, Zenon DEF Cancelled
    <3> HIDE DEF r
    <3>3. "CANCELLED" \in Status
      BY DEF Status
    <3>4. /\ r \in Snapshot /\ r.status = "CANCELLED" /\ r.prepared = orders[o].prepared
          /\ r.parts = orders[o].parts /\ r.revision = orders[o].revision + 1
      <4>1. \A s \in Snapshot, to \in Status, b \in BOOLEAN :
              /\ Moved(s, to, b) \in Snapshot /\ Moved(s, to, b).status = to
              /\ Moved(s, to, b).prepared = b /\ Moved(s, to, b).parts = s.parts
              /\ Moved(s, to, b).revision = s.revision + 1
        BY SnapshotMoved
      <4> DEFINE s == orders[o]
                 n == Moved(s, "CANCELLED", s.prepared)
      <4>2. s \in Snapshot /\ s.prepared \in BOOLEAN /\ r = n
        BY <2>2, <3>1, <3>2
      <4> HIDE DEF s
      <4>3. /\ n \in Snapshot /\ n.status = "CANCELLED" /\ n.prepared = s.prepared
            /\ n.parts = s.parts /\ n.revision = s.revision + 1
        BY <3>3, <4>1, <4>2
      <4> HIDE DEF n
      <4> QED BY <4>2, <4>3 DEF s
    <3>5. Revision(orders[o]) = orders[o].revision
      BY <2>1 DEF Revision
    <3> QED BY <3>4, <3>5
  <2>4. orders[o].prepared = FALSE
    BY <2>1, <2>2 DEF StockOf, Snapshot
  <2> HIDE DEF r
  <2>5. CASE Refused(o)
    <3> DEFINE x == Move("RELEASE", 0, -1, 0)
    <3>1. /\ Append(ms, x) \in Seq(MoveType) /\ Held(ms) = 1 /\ x \in MoveType
          /\ \A q : q.status = "CANCELLED" /\ q.prepared = FALSE => StockOf(q, Append(ms, x))
      BY <2>1, <2>2, GivenUp, MovesAreMoves
    <3>2. moves' = [moves EXCEPT ![o] = ms \o Released(o)]
      BY <1>2, <2>1, <2>5 DEF Refused
    <3>3. ms \o Released(o) = Append(ms, x)
      BY <2>2, <3>1, ConsumptionIs, OneAppended
    <3> HIDE DEF x
    <3> QED BY <2>1, <2>3, <2>4, <3>1, <3>2, <3>3, StockWrite
  <2>6. CASE Converge(o)
    <3>1. moves' = moves /\ Takings(o) = Nothing
      BY <2>6 DEF Converge
    <3>2. moves' = [moves EXCEPT ![o] = ms]
      BY <3>1 DEF StockInv
    <3>3. StockOf(r, ms)
      BY <2>1, <2>2, <2>3, <2>4, <3>1 DEF StockOf, NoTakings, Takings
    <3> QED BY <2>1, <2>2, <2>3, <3>2, <3>3, StockWrite
  <2> QED BY <2>5, <2>6
<1> QED BY <1>1, <1>2

\* Everything else leaves the orders and their movements alone.
LEMMA OrdersElsewhere ==
  ASSUME [Next]_vars
  PROVE  \/ \E t \in Tab, o \in Order : OrderStep(t, o)
         \/ \E o \in Order : Refused(o) \/ Converge(o)
         \/ UNCHANGED <<orders, moves>> /\ unsent' \subseteq unsent
<1>1. ASSUME NEW t \in Tab, TabStep(t), ~\E o \in Order : OrderStep(t, o)
      PROVE  UNCHANGED <<orders, moves, unsent>>
  BY <1>1 DEF TabStep, StartEdit, CreateExpense, FinishEdit, FinishOne,
         StartUndo, FinishUndo, StartClose, FinishClose, GiveUp, CloseReads
<1>2. (\E o \in Order : Sent(o)) \/ (\E w \in Worker : Switch(w)) \/ SignOut \/ UNCHANGED vars
        => UNCHANGED <<orders, moves>> /\ unsent' \subseteq unsent
  BY DEF Sent, Switch, SignOut, vars
<1> QED BY <1>1, <1>2 DEF Next

LEMMA StockStep == ASSUME StockInv, [Next]_vars PROVE StockInv'
<1>1. ASSUME NEW t \in Tab, NEW o \in Order, OrderStep(t, o) PROVE StockInv'
  BY <1>1, MarkDoneStock, UndoDoneStock, CancelStock, ReturnStock, PlaceStock DEF OrderStep
<1> QED BY <1>1, OrdersElsewhere, ServiceStock, StockFrame

LEMMA StockInit == ASSUME Init PROVE StockInv
<1>1. /\ orders = [o \in Order |-> NoOrder] /\ moves = [o \in Order |-> <<>>] /\ unsent = {}
  BY DEF Init
<1>2. Changes = 0
  <2> DEFINE f == [o \in Order |-> Revision(orders[o])]
  <2>1. Changes = Total(f, Order) /\ \A o \in Order : f[o] = 0
    BY <1>1 DEF Changes, Revision
  <2>2. IsFiniteSet(Order)
    BY BooksAssumption
  <2> HIDE DEF f
  <2>3. \A S \in SUBSET Order : TRUE
    OBVIOUS
  <2> QED BY <2>1, <2>2, TotalOfZeros
<1> QED BY <1>1, <1>2, BooksAssumption DEF StockInv

\* #mutate and the inventory movements (ordersBoard.ts): what an order did to
\* the stock is what its status says, after any sequence of commands.
THEOREM StockIsWhatHappened == Spec => []StockFollowsOrders
<1>1. ASSUME StockInv PROVE StockFollowsOrders
  <2> SUFFICES ASSUME NEW o \in Order, orders[o] # NoOrder
               PROVE  /\ \/ Held(moves[o]) = IF orders[o].status = "ACTIVE" THEN 1 ELSE 0
                         \/ orders[o].status = "CANCELLED" /\ Takings(o) = Nothing
                      /\ Used(moves[o]) = IF \/ orders[o].status \in {"DONE", "RETURNED"}
                                             \/ orders[o].prepared THEN 1 ELSE 0
    BY DEF StockFollowsOrders
  <2>1. orders[o] \in Snapshot /\ StockOf(orders[o], moves[o])
    BY <1>1 DEF StockInv
  <2>2. orders[o].status \in {"ACTIVE", "DONE", "CANCELLED", "RETURNED"}
    BY <2>1 DEF Snapshot, Status
  <2> QED BY <2>1, <2>2 DEF StockOf, NoTakings, Takings
<1> QED BY <1>1, StockInit, StockStep, PTL DEF Spec
-----------------------------------------------------------------------------
\* What a tab may be in the middle of.
Operators == Worker \cup {NoWorker}
Halves   == SUBSET {"ORDERS", "EXPENSES"}
Books    == [Method -> Int]
EditJob  == [op: {"EDIT"}, expense: Expense, by: Operators, record: Record]
UndoJob  == [op: {"UNDO"}, by: Operators]
CloseJob == [op: {"CLOSE"}, by: Operators, clean: BOOLEAN,
             read: Halves, sales: Books, spent: Int]
Jobs     == {NoJob} \cup EditJob \cup UndoJob \cup CloseJob

JobsInv == operator \in Operators /\ job \in [Tab -> Jobs]

LEMMA KindsOfJob ==
  ASSUME NEW j \in Jobs
  PROVE  /\ j.op \in {"NONE", "EDIT", "UNDO", "CLOSE"}
         /\ j.op = "NONE" <=> j = NoJob
         /\ j.op = "EDIT" => j \in EditJob
         /\ j.op = "UNDO" => j \in UndoJob
         /\ j.op = "CLOSE" => j \in CloseJob
<1>1. NoJob.op = "NONE"
  BY DEF NoJob
<1>2. (j \in EditJob => j.op = "EDIT") /\ (j \in UndoJob => j.op = "UNDO")
  BY DEF EditJob, UndoJob
<1>3. j \in CloseJob => j.op = "CLOSE"
  BY DEF CloseJob
<1>4. j = NoJob \/ j \in EditJob \/ j \in UndoJob \/ j \in CloseJob
  BY DEF Jobs
<1> QED BY <1>1, <1>2, <1>3, <1>4

\* A close that another tab's write disturbed, and one that read a half.
Closing(c, clean, read, sales, spent) ==
  [op |-> c.op, by |-> c.by, clean |-> clean, read |-> read, sales |-> sales, spent |-> spent]

LEMMA ClosingIs ==
  ASSUME NEW c, c = Closing(c, c.clean, c.read, c.sales, c.spent)
  PROVE  /\ \A v : v = [c EXCEPT !.clean = FALSE]
                  => v = Closing(c, FALSE, c.read, c.sales, c.spent)
         /\ \A v, x, y, z : v = [c EXCEPT !.read = x, !.sales = y, !.spent = z]
                           => v = Closing(c, c.clean, x, y, z)
<1>0. c = [op |-> c.op, by |-> c.by, clean |-> c.clean, read |-> c.read,
           sales |-> c.sales, spent |-> c.spent]
  BY DEF Closing
<1>1. ASSUME NEW v, v = [c EXCEPT !.clean = FALSE]
      PROVE  v = [op |-> c.op, by |-> c.by, clean |-> FALSE, read |-> c.read,
                  sales |-> c.sales, spent |-> c.spent]
  BY <1>0, <1>1
<1>2. ASSUME NEW v, NEW x, NEW y, NEW z, v = [c EXCEPT !.read = x, !.sales = y, !.spent = z]
      PROVE  v = [op |-> c.op, by |-> c.by, clean |-> c.clean, read |-> x,
                  sales |-> y, spent |-> z]
  BY <1>0, <1>2
<1> QED BY <1>1, <1>2, Zenon DEF Closing

LEMMA ClosingParts ==
  ASSUME NEW c \in CloseJob
  PROVE  /\ c = Closing(c, c.clean, c.read, c.sales, c.spent)
         /\ c.op = "CLOSE" /\ c.by \in Operators /\ c.clean \in BOOLEAN /\ c.read \in Halves
         /\ c.sales \in Books /\ c.spent \in Int
<1>1. c = Closing(c, c.clean, c.read, c.sales, c.spent)
  BY DEF Closing, CloseJob
<1> QED BY <1>1 DEF CloseJob

LEMMA ClosingType ==
  ASSUME NEW c \in CloseJob, NEW clean \in BOOLEAN, NEW read \in Halves,
         NEW sales \in Books, NEW spent \in Int
  PROVE  /\ Closing(c, clean, read, sales, spent) \in CloseJob
         /\ Closing(c, clean, read, sales, spent).op = "CLOSE"
         /\ Closing(c, clean, read, sales, spent).clean = clean
         /\ Closing(c, clean, read, sales, spent).read = read
         /\ Closing(c, clean, read, sales, spent).sales = sales
         /\ Closing(c, clean, read, sales, spent).spent = spent
<1>1. c.op = "CLOSE" /\ c.by \in Operators
  BY ClosingParts
<1> QED BY <1>1 DEF Closing, CloseJob

LEMMA DisturbJobs ==
  ASSUME JobsInv, NEW t \in Tab
  PROVE  /\ Disturb(t) \in [Tab -> Jobs] /\ Disturb(t)[t] = job[t]
         /\ \A u \in Tab : /\ Disturb(t)[u].op = job[u].op
                           /\ job[u].op # "CLOSE" => Disturb(t)[u] = job[u]
                           /\ u # t /\ job[u].op = "CLOSE" => Disturb(t)[u].clean = FALSE
<1>1. ASSUME NEW u \in Tab
      PROVE  /\ Disturb(t)[u] \in Jobs /\ Disturb(t)[u].op = job[u].op
             /\ job[u].op # "CLOSE" => Disturb(t)[u] = job[u]
             /\ u # t /\ job[u].op = "CLOSE" => Disturb(t)[u].clean = FALSE
  <2>1. job[u] \in Jobs
    BY DEF JobsInv
  <2>2. CASE u # t /\ job[u].op = "CLOSE"
    <3> DEFINE v == [job[u] EXCEPT !.clean = FALSE]
    <3>1. job[u] \in CloseJob
      BY <2>1, <2>2, KindsOfJob
    <3>2. Disturb(t)[u] = v
      BY <2>2 DEF Disturb
    <3>3. v = Closing(job[u], FALSE, job[u].read, job[u].sales, job[u].spent)
      <4> DEFINE c == job[u]
      <4>1. c = Closing(c, c.clean, c.read, c.sales, c.spent)
        BY <3>1, ClosingParts
      <4> HIDE DEF c
      <4>2. v = [c EXCEPT !.clean = FALSE]
        BY DEF c
      <4> HIDE DEF v
      <4>3. v = Closing(c, FALSE, c.read, c.sales, c.spent)
        BY <4>1, <4>2, ClosingIs, Zenon
      <4> QED BY <4>3 DEF c
    <3> HIDE DEF v
    <3>4. v \in CloseJob /\ v.op = "CLOSE" /\ v.clean = FALSE
      <4> DEFINE c == job[u]
      <4>1. c \in CloseJob /\ v = Closing(c, FALSE, c.read, c.sales, c.spent)
        BY <3>1, <3>3
      <4> HIDE DEF c
      <4>2. FALSE \in BOOLEAN /\ c.read \in Halves /\ c.sales \in Books /\ c.spent \in Int
        BY <4>1, ClosingParts, Zenon
      <4>3. Closing(c, FALSE, c.read, c.sales, c.spent) \in CloseJob
        <5> DEFINE x == c.read
                   y == c.sales
                   z == c.spent
        <5>1. c \in CloseJob /\ x \in Halves /\ y \in Books /\ z \in Int
          BY <4>1, <4>2
        <5> HIDE DEF x, y, z
        <5>2. Closing(c, FALSE, x, y, z) \in CloseJob
          BY <5>1, ClosingType
        <5> QED BY <5>2 DEF x, y, z
      <4>4. v.op = "CLOSE" /\ v.clean = FALSE
        <5>1. c.op = "CLOSE"
          BY <4>1, ClosingParts, Zenon
        <5>2. v.op = c.op /\ v.clean = FALSE
          BY <4>1 DEF Closing
        <5> QED BY <5>1, <5>2
      <4> QED BY <4>1, <4>3, <4>4
    <3> HIDE DEF v
    <3> QED BY <2>2, <3>2, <3>4 DEF Jobs
  <2>3. CASE ~(u # t /\ job[u].op = "CLOSE")
    <3>1. Disturb(t)[u] = job[u]
      BY <2>3 DEF Disturb
    <3> QED BY <2>1, <2>3, <3>1
  <2> QED BY <2>2, <2>3
<1>2. Disturb(t)[t] = job[t]
  BY DEF Disturb
<1>3. Disturb(t) = [u \in Tab |-> Disturb(t)[u]]
  BY DEF Disturb
<1> QED BY <1>1, <1>2, <1>3

\* What a step of tab t does to the jobs: it writes the books, which disturbs
\* the closes of the others; it begins or ends a command; it reads for a close.
WritesBooks(t) ==
  /\ job[t].op \in {"NONE", "EDIT"} /\ job' = [Disturb(t) EXCEPT ![t] = NoJob]
  /\ UNCHANGED <<day, operator, bulk, recorded>>
Begins(t) ==
  /\ UNCHANGED <<orders, expenses, till>>
  /\ \E j \in Jobs : /\ job' = [job EXCEPT ![t] = j]
                     /\ j.op = "CLOSE" => j.read = {}
                     /\ j.op = "UNDO" => bulk # <<>>

LEMMA FreshJobs ==
  /\ NoJob \in Jobs /\ NoJob.op = "NONE"
  /\ \A w \in Operators :
       LET undo == [op |-> "UNDO", by |-> w]
           close == [op |-> "CLOSE", by |-> w, clean |-> TRUE,
                     read |-> {}, sales |-> Nothing, spent |-> 0]
       IN /\ undo \in Jobs /\ undo.op = "UNDO"
          /\ close \in Jobs /\ close.op = "CLOSE" /\ close.read = {}
<1>1. NoJob \in Jobs /\ NoJob.op = "NONE"
  BY DEF Jobs, NoJob
<1>2. ASSUME NEW w \in Operators
      PROVE  [op |-> "UNDO", by |-> w] \in Jobs
  BY DEF Jobs, UndoJob
<1>3. ASSUME NEW w \in Operators
      PROVE  [op |-> "CLOSE", by |-> w, clean |-> TRUE,
              read |-> {}, sales |-> Nothing, spent |-> 0] \in Jobs
  <2> DEFINE none == {}
  <2>1. none \in Halves /\ Nothing \in Books
    BY DEF Halves, Books, Nothing
  <2> HIDE DEF none
  <2>2. [op |-> "CLOSE", by |-> w, clean |-> TRUE,
         read |-> none, sales |-> Nothing, spent |-> 0] \in CloseJob
    BY <2>1 DEF CloseJob
  <2> QED BY <2>2 DEF Jobs, none
<1> QED BY <1>1, <1>2, <1>3

LEMMA WritersOfBooks ==
  ASSUME JobsInv, NEW t \in Tab,
         \/ \E o \in Order : OrderStep(t, o)
         \/ \E e \in Expense, a \in Amount, f \in {"CASH", "OTHER"} : CreateExpense(t, e, a, f)
         \/ FinishEdit(t) /\ Current(t)
  PROVE  WritesBooks(t)
<1>1. ASSUME Free(t), job' = Disturb(t)
      PROVE  job[t].op = "NONE" /\ job' = [Disturb(t) EXCEPT ![t] = NoJob]
  <2>1. job[t] = NoJob /\ NoJob.op = "NONE"
    BY <1>1 DEF Free, NoJob
  <2> DEFINE f == Disturb(t)
  <2>2. f \in [Tab -> Jobs] /\ f[t] = NoJob
    BY <2>1, DisturbJobs
  <2> HIDE DEF f
  <2>3. f = [f EXCEPT ![t] = NoJob]
    BY <2>2
  <2> QED BY <1>1, <2>1, <2>3 DEF f
<1>2. CASE \E o \in Order : OrderStep(t, o)
  BY <1>1, <1>2 DEF OrderStep, PlaceOrder, MarkDone, UndoDone, CancelOrder,
                    ReturnDelivery, Mutate, WritesBooks
<1>3. CASE \E e \in Expense, a \in Amount, f \in {"CASH", "OTHER"} : CreateExpense(t, e, a, f)
  BY <1>1, <1>3 DEF CreateExpense, WritesBooks
<1>4. CASE FinishEdit(t) /\ Current(t)
  BY <1>4 DEF FinishEdit, WritesBooks
<1> QED BY <1>2, <1>3, <1>4

LEMMA StepsOfJobs ==
  ASSUME JobsInv, LedgerInv, NEW t \in Tab, TabStep(t)
  PROVE  /\ UNCHANGED operator \/ operator' = NoWorker
         /\ \/ WritesBooks(t) \/ Begins(t)
            \/ UNCHANGED <<orders, expenses, till, job>>
            \/ \E what \in {"ORDERS", "EXPENSES"} : CloseReads(t, what)
<1>1. CASE WritesBooks(t)
  BY <1>1 DEF WritesBooks
<1>2. CASE FinishOne(t)
  BY <1>2 DEF FinishOne
<1>3. CASE \E what \in {"ORDERS", "EXPENSES"} : CloseReads(t, what)
  BY <1>3 DEF CloseReads
<1>4. CASE FinishUndo(t) \/ FinishClose(t) \/ GiveUp(t) \/ (FinishEdit(t) /\ ~Current(t))
  <2>1. /\ UNCHANGED <<orders, expenses, till>> /\ job' = [job EXCEPT ![t] = NoJob]
        /\ UNCHANGED operator \/ operator' = NoWorker
    BY <1>4 DEF FinishUndo, FinishClose, GiveUp, FinishEdit
  <2> QED BY <2>1, FreshJobs DEF Begins
<1>5. CASE StartUndo(t) \/ StartClose(t)
  <2> DEFINE undo == [op |-> "UNDO", by |-> operator]
             close == [op |-> "CLOSE", by |-> operator, clean |-> TRUE,
                       read |-> {}, sales |-> Nothing, spent |-> 0]
  <2>1. UNCHANGED <<orders, expenses, till, operator>>
    BY <1>5 DEF StartUndo, StartClose
  <2>2. /\ undo \in Jobs /\ undo.op = "UNDO"
        /\ close \in Jobs /\ close.op = "CLOSE" /\ close.read = {}
    BY FreshJobs DEF JobsInv
  <2>3. \/ job' = [job EXCEPT ![t] = undo] /\ bulk # <<>>
        \/ job' = [job EXCEPT ![t] = close]
    BY <1>5 DEF StartUndo, StartClose
  <2> HIDE DEF undo, close
  <2>4. Begins(t)
    BY <2>1, <2>2, <2>3 DEF Begins
  <2> QED BY <2>1, <2>4
<1>6. ASSUME NEW e \in Expense, StartEdit(t, e) PROVE Begins(t) /\ UNCHANGED operator
  <2>1. PICK amount \in Amount, from \in {"CASH", "OTHER"}, deleted \in BOOLEAN :
          job' = [job EXCEPT ![t] =
            [op |-> "EDIT", expense |-> e, by |-> operator,
             record |-> [amount |-> amount, from |-> from, deleted |-> deleted,
                         revision |-> expenses[e].revision + 1]]]
    BY <1>6 DEF StartEdit
  <2>2. UNCHANGED <<orders, expenses, till, operator>> /\ expenses[e] # NoExpense
    BY <1>6 DEF StartEdit
  <2>3. expenses[e].revision \in Int
    BY <2>2 DEF LedgerInv, History, Record
  <2> DEFINE r == [amount |-> amount, from |-> from, deleted |-> deleted,
                   revision |-> expenses[e].revision + 1]
             j == [op |-> "EDIT", expense |-> e, by |-> operator, record |-> r]
  <2>4. r \in Record
    BY <2>3 DEF Record
  <2>5. job' = [job EXCEPT ![t] = j]
    BY <2>1
  <2> HIDE DEF r
  <2>6. j \in EditJob /\ j.op = "EDIT"
    BY <2>4 DEF EditJob, JobsInv
  <2> HIDE DEF j
  <2> QED BY <2>2, <2>5, <2>6 DEF Begins, Jobs
<1> QED BY <1>1, <1>2, <1>3, <1>4, <1>5, <1>6, WritersOfBooks DEF TabStep

\* A step of no tab.
LEMMA StepsOfOthers ==
  ASSUME [Next]_vars, ~\E t \in Tab : TabStep(t)
  PROVE  /\ UNCHANGED <<expenses, rows, bulk, till, job, day, recorded>>
         /\ UNCHANGED operator \/ operator' \in Operators
         /\ \/ UNCHANGED orders
            \/ \E o \in Order : (Refused(o) \/ Converge(o)) /\ orders' = [orders EXCEPT ![o] = Cancelled(o)]
BY DEF Next, Sent, Refused, Converge, Switch, SignOut, vars, Operators
-----------------------------------------------------------------------------
\* What an order takes in, and what one write of an order changes in the sales.
Sold(r, m) == IF r.status = "DONE" THEN Allocated(r.parts, m) ELSE 0

LEMMA SoldIsNumber ==
  ASSUME StockInv
  PROVE  \A o \in Order : \A m : Sold(orders[o], m) \in Int
<1> SUFFICES ASSUME NEW o \in Order, NEW m, orders[o].status = "DONE"
             PROVE  Allocated(orders[o].parts, m) \in Int
  BY DEF Sold
<1>1. orders[o] \in Snapshot
  BY NoOrderIsNone DEF StockInv
<1> QED BY <1>1, SettledInNumbers DEF Snapshot

\* What x contributes to the total of f over S.
Share(f, S, x) == IF x \in S THEN f[x] ELSE 0

\* One summand apart.
LEMMA TotalSplit ==
  ASSUME NEW f, NEW S, IsFiniteSet(S), \A y \in S : f[y] \in Int, NEW x
  PROVE  /\ Total(f, S) \in Int /\ Total(f, S \ {x}) \in Int
         /\ Total(f, S) = Total(f, S \ {x}) + Share(f, S, x)
<1> DEFINE R == S \ {x}
<1>1. IsFiniteSet(R) /\ \A y \in R : f[y] \in Int
  BY FS_RemoveElement
<1> HIDE DEF R
<1>2. Total(f, S) \in Int /\ Total(f, R) \in Int
  BY <1>1, TotalType
<1>3. CASE x \in S
  <2>1. Total(f, S) = f[x] + Total(f, R)
    BY <1>3, TotalOneLess DEF R
  <2>2. Share(f, S, x) = f[x] /\ f[x] \in Int
    BY <1>3 DEF Share
  <2> QED BY <1>2, <2>1, <2>2 DEF R
<1>4. CASE x \notin S
  <2>1. R = S
    BY <1>4 DEF R
  <2>2. Total(f, S) \in Int /\ Total(f, R) \in Int /\ Total(f, S) = Total(f, R)
    BY <1>2, <2>1
  <2>3. Share(f, S, x) = 0
    BY <1>4 DEF Share
  <2> QED BY <2>2, <2>3 DEF R
<1> QED BY <1>3, <1>4, Zenon

LEMMA SalesType == ASSUME StockInv PROVE Sales \in Books
<1> SUFFICES ASSUME NEW m \in Method
             PROVE  Total([o \in Done |-> Takings(o)[m]], Done) \in Int
  BY DEF Sales, Books
<1> DEFINE f == [o \in Done |-> Takings(o)[m]]
<1>1. IsFiniteSet(Done)
  BY BooksAssumption, FS_Subset DEF Done
<1>2. \A o \in Done : f[o] \in Int
  BY SoldIsNumber DEF Sold, Done, Takings
<1> HIDE DEF f
<1>3. Total(f, Done) \in Int
  BY <1>1, <1>2, TotalType
<1> QED BY <1>3 DEF f

LEMMA SalesWrite ==
  ASSUME StockInv, StockInv', NEW o \in Order, NEW r, orders' = [orders EXCEPT ![o] = r],
         NEW m \in Method
  PROVE  /\ Sales'[m] = Sales[m] - Sold(orders[o], m) + Sold(r, m)
         /\ Sold(orders[o], m) \in Int /\ Sold(r, m) \in Int
         /\ Sales[m] \in Int /\ Sales'[m] \in Int
<1> DEFINE f == [x \in Done |-> Takings(x)[m]]
           g == [x \in Done' |-> Takings(x)[m]']
           C == Done \ {o}
<1>1. Sales[m] = Total(f, Done) /\ Sales'[m] = Total(g, Done')
  BY DEF Sales
<1>2. IsFiniteSet(Done) /\ IsFiniteSet(Done')
  BY BooksAssumption, FS_Subset DEF Done
<1>3. orders'[o] = r /\ \A x \in Order : x # o => orders'[x] = orders[x]
  BY DEF StockInv
<1>4. C = Done' \ {o}
  BY <1>3 DEF Done
<1>5. /\ \A x \in Done : f[x] = Sold(orders[x], m)
      /\ \A x \in Done' : g[x] = Sold(orders'[x], m)
  BY DEF Takings, Sold, Done
<1>6. \A x \in Order : Sold(orders[x], m) \in Int /\ Sold(orders'[x], m) \in Int
  <2>1. \A x \in Order : Sold(orders[x], m) \in Int
    BY SoldIsNumber
  <2>2. \A x \in Order : Sold(orders'[x], m) \in Int
    <3>1. ASSUME NEW x \in Order, orders'[x].status = "DONE"
          PROVE  Allocated(orders'[x].parts, m) \in Int
      <4>1. orders'[x] \in Snapshot
        BY <3>1, NoOrderIsNone DEF StockInv
      <4> QED BY <4>1, SettledInNumbers DEF Snapshot
    <3> QED BY <3>1 DEF Sold
  <2> QED BY <2>1, <2>2
<1>7. Done \subseteq Order /\ Done' \subseteq Order
  BY DEF Done
<1>8. /\ o \in Done <=> orders[o].status = "DONE"
      /\ o \in Done' <=> r.status = "DONE"
  BY <1>3 DEF Done
<1>9. \A x \in C : f[x] = g[x]
  BY <1>3, <1>4, <1>5
<1> HIDE DEF f, g
<1> DEFINE D == Done
           E == Done'
<1>10. IsFiniteSet(C)
  BY <1>2, FS_RemoveElement
<1> HIDE DEF C, D, E
<1>11. Total(f, C) = Total(g, C)
  BY <1>9, <1>10, TotalAgree
<1>12. \A x \in D : f[x] \in Int
  BY <1>5, <1>6, <1>7 DEF D
<1>13. \A x \in E : g[x] \in Int
  BY <1>5, <1>6, <1>7 DEF E
<1>14. C = D \ {o} /\ C = E \ {o} /\ IsFiniteSet(D) /\ IsFiniteSet(E)
  BY <1>2, <1>4 DEF C, D, E
<1>15. /\ Total(f, C) \in Int
       /\ Total(f, D) = Total(f, C) + Share(f, D, o)
  <2>1. IsFiniteSet(D) /\ \A x \in D : f[x] \in Int
    BY <1>12, <1>14
  <2>2. /\ Total(f, D \ {o}) \in Int
        /\ Total(f, D) = Total(f, D \ {o}) + Share(f, D, o)
    BY <2>1, TotalSplit, Zenon
  <2> QED BY <1>14, <2>2
<1>16. Total(g, E) = Total(g, C) + Share(g, E, o)
  <2>1. IsFiniteSet(E) /\ \A x \in E : g[x] \in Int
    BY <1>13, <1>14
  <2>2. Total(g, E) = Total(g, E \ {o}) + Share(g, E, o)
    BY <2>1, TotalSplit, Zenon
  <2> QED BY <1>14, <2>2
<1>17. Share(f, D, o) = Sold(orders[o], m)
  BY <1>5, <1>8 DEF D, Sold, Share
<1>18. Share(g, E, o) = Sold(r, m)
  BY <1>3, <1>5, <1>8 DEF E, Sold, Share
<1>19. Sales[m] = Total(f, C) + Sold(orders[o], m)
  BY <1>1, <1>15, <1>17 DEF D
<1>20. Sales'[m] = Total(f, C) + Sold(r, m)
  BY <1>1, <1>11, <1>16, <1>18 DEF E
<1>21. Sold(orders[o], m) \in Int /\ Sold(r, m) \in Int
  BY <1>3, <1>6
<1> QED BY <1>15, <1>19, <1>20, <1>21

\* What an expense takes out of the drawer.
LEMMA CashType ==
  /\ Cash(NoExpense) = 0 /\ \A r \in Record : Cash(r) \in Int
  /\ LedgerInv => \A e \in Expense : Cash(expenses[e]) \in Int
<1>1. Cash(NoExpense) = 0
  BY DEF Cash
<1>2. ASSUME NEW r \in Record PROVE Cash(r) \in Int
  <2>1. r.amount \in Amount
    BY DEF Record
  <2>2. \A a \in Amount : a \in Int
    BY BooksAssumption
  <2> QED BY <2>1, <2>2 DEF Cash
<1>3. ASSUME LedgerInv, NEW e \in Expense PROVE Cash(expenses[e]) \in Int
  <2>1. expenses[e] = NoExpense \/ expenses[e] \in Record
    BY <1>3 DEF LedgerInv, History
  <2> QED BY <1>1, <1>2, <2>1
<1> QED BY <1>1, <1>2, <1>3

LEMMA CashExpensesType == ASSUME LedgerInv PROVE CashExpenses \in Int
<1> DEFINE f == [e \in Expense |-> Cash(expenses[e])]
<1>1. \A e \in Expense : f[e] \in Int
  BY CashType
<1>2. IsFiniteSet(Expense)
  BY BooksAssumption
<1> HIDE DEF f
<1>3. Total(f, Expense) \in Int
  BY <1>1, <1>2, TotalType
<1> QED BY <1>3 DEF f, CashExpenses

LEMMA CashExpensesWrite ==
  ASSUME LedgerInv, NEW e \in Expense, NEW r \in Record, expenses' = [expenses EXCEPT ![e] = r]
  PROVE  CashExpenses' = CashExpenses + Cash(r) - Cash(expenses[e])
<1> DEFINE f == [x \in Expense |-> Cash(expenses[x])]
           h == [x \in Expense |-> Cash(expenses'[x])]
<1>1. expenses'[e] = r /\ \A x \in Expense : x # e => expenses'[x] = expenses[x]
  BY DEF LedgerInv
<1>2. \A x \in Expense : f[x] = Cash(expenses[x]) /\ h[x] = Cash(expenses'[x])
  OBVIOUS
<1>3. CashExpenses = Total(f, Expense) /\ CashExpenses' = Total(h, Expense)
  BY DEF CashExpenses, Cash
<1>4. IsFiniteSet(Expense)
  BY BooksAssumption
<1> HIDE DEF f, h
<1>5. \A x \in Expense : f[x] \in Int /\ h[x] \in Int
  BY <1>1, <1>2, CashType
<1>6. \A x \in Expense \ {e} : h[x] = f[x]
  BY <1>1, <1>2
<1>7. Total(h, Expense) = Total(f, Expense) + h[e] - f[e]
  BY <1>4, <1>5, <1>6, TotalOfOneWrite
<1> QED BY <1>1, <1>2, <1>3, <1>7

\* A close reads one half of the books.
LEMMA ReadsOfClose ==
  ASSUME JobsInv, LedgerInv, StockInv, NEW t \in Tab, NEW what \in {"ORDERS", "EXPENSES"},
         CloseReads(t, what)
  PROVE  \E v \in Jobs :
           /\ job' = [job EXCEPT ![t] = v] /\ v.op = "CLOSE" /\ v.clean = job[t].clean
           /\ v.read = job[t].read \cup {what}
           /\ v.sales = (IF what = "ORDERS" THEN Sales ELSE job[t].sales)
           /\ v.spent = (IF what = "EXPENSES" THEN CashExpenses ELSE job[t].spent)
<1> DEFINE c == job[t]
           x == c.read \cup {what}
           y == IF what = "ORDERS" THEN Sales ELSE c.sales
           z == IF what = "EXPENSES" THEN CashExpenses ELSE c.spent
           v == Closing(c, c.clean, x, y, z)
           w == [c EXCEPT !.read = x, !.sales = y, !.spent = z]
<1>1. c \in CloseJob
  BY KindsOfJob DEF CloseReads, JobsInv
<1>2. /\ c = Closing(c, c.clean, c.read, c.sales, c.spent)
      /\ c.clean \in BOOLEAN /\ c.read \in Halves /\ c.sales \in Books /\ c.spent \in Int
  BY <1>1, ClosingParts
<1>3. x \in Halves /\ y \in Books /\ z \in Int
  <2>1. Sales \in Books /\ CashExpenses \in Int
    BY SalesType, CashExpensesType
  <2>2. x \in Halves
    BY <1>2 DEF Halves
  <2> QED BY <1>2, <2>1, <2>2
<1>4. job' = [job EXCEPT ![t] = w]
  BY DEF CloseReads
<1>5. w = v
  <2>1. w = [c EXCEPT !.read = x, !.sales = y, !.spent = z]
    OBVIOUS
  <2>2. c = [op |-> c.op, by |-> c.by, clean |-> c.clean, read |-> c.read,
             sales |-> c.sales, spent |-> c.spent]
    BY <1>2 DEF Closing
  <2> HIDE DEF c, x, y, z, w
  <2>3. w = [op |-> c.op, by |-> c.by, clean |-> c.clean, read |-> x, sales |-> y, spent |-> z]
    BY <2>1, <2>2
  <2> QED BY <2>3 DEF Closing
<1> HIDE DEF c, x, y, z
<1>6. /\ v \in CloseJob /\ v.op = "CLOSE" /\ v.clean = c.clean
      /\ v.read = x /\ v.sales = y /\ v.spent = z
  BY <1>1, <1>2, <1>3, ClosingType
<1> HIDE DEF v, w
<1>7. v \in Jobs /\ job' = [job EXCEPT ![t] = v]
  BY <1>4, <1>5, <1>6 DEF Jobs
<1> QED BY <1>6, <1>7 DEF c, x, y, z
-----------------------------------------------------------------------------
LEMMA StockInvariance == Spec => []StockInv
BY StockInit, StockStep, PTL DEF Spec

LEMMA JobsInvariance == Spec => []JobsInv
<1>1. Init => JobsInv
  BY FreshJobs DEF Init, JobsInv, Operators
<1>2. ASSUME JobsInv, LedgerInv, StockInv, [Next]_vars PROVE JobsInv'
  <2>1. ASSUME NEW t \in Tab, TabStep(t) PROVE JobsInv'
    <3>1. /\ UNCHANGED operator \/ operator' = NoWorker
          /\ \/ WritesBooks(t) \/ Begins(t)
             \/ UNCHANGED <<orders, expenses, till, job>>
             \/ \E what \in {"ORDERS", "EXPENSES"} : CloseReads(t, what)
      BY <1>2, <2>1, StepsOfJobs
    <3>2. operator' \in Operators
      BY <1>2, <3>1 DEF JobsInv, Operators
    <3>3. CASE WritesBooks(t)
      <4> DEFINE f == Disturb(t)
      <4>1. f \in [Tab -> Jobs] /\ NoJob \in Jobs
        BY <1>2, DisturbJobs, FreshJobs
      <4>2. job' = [f EXCEPT ![t] = NoJob]
        BY <3>3 DEF WritesBooks
      <4> HIDE DEF f
      <4> QED BY <3>2, <4>1, <4>2 DEF JobsInv
    <3>4. CASE Begins(t)
      BY <1>2, <3>2, <3>4 DEF Begins, JobsInv
    <3>5. CASE UNCHANGED <<orders, expenses, till, job>>
      BY <1>2, <3>2, <3>5 DEF JobsInv
    <3>6. ASSUME NEW what \in {"ORDERS", "EXPENSES"}, CloseReads(t, what) PROVE JobsInv'
      <4>1. PICK v \in Jobs : job' = [job EXCEPT ![t] = v]
        BY <1>2, <3>6, ReadsOfClose
      <4> QED BY <1>2, <3>2, <4>1 DEF JobsInv
    <3> QED BY <3>1, <3>3, <3>4, <3>5, <3>6
  <2>2. ASSUME ~\E t \in Tab : TabStep(t) PROVE JobsInv'
    BY <1>2, <2>2, StepsOfOthers DEF JobsInv
  <2> QED BY <2>1, <2>2
<1> QED BY <1>1, <1>2, LedgerInvariance, StockInvariance, PTL DEF Spec
-----------------------------------------------------------------------------
\* The bulk unit is finished once and undone at most once; a command that is
\* about to undo it knows that it was finished.
Finished == [quantity |-> -1, undoes |-> 0]
Undone   == [quantity |-> 1, undoes |-> 1]
BulkInv ==
  /\ bulk \in {<<>>, <<Finished>>, <<Finished, Undone>>}
  /\ \A t \in Tab : job[t].op = "UNDO" => bulk # <<>>

LEMMA BulkStates ==
  /\ <<>> # <<Finished>> /\ <<>> # <<Finished, Undone>>
  /\ Append(<<Finished>>, Undone) = <<Finished, Undone>>
  /\ bulk = <<Finished, Undone>> => Compensated
<1>1. bulk = <<Finished, Undone>> => Compensated
  <2> SUFFICES ASSUME bulk = <<Finished, Undone>> PROVE Compensated
    OBVIOUS
  <2>1. 2 \in DOMAIN bulk /\ bulk[2] = Undone /\ Undone.undoes = 1
    BY DEF Undone
  <2> QED BY <2>1 DEF Compensated
<1>2. Len(<<>>) = 0 /\ Len(<<Finished>>) = 1 /\ Len(<<Finished, Undone>>) = 2
  OBVIOUS
<1>3. <<>> # <<Finished>> /\ <<>> # <<Finished, Undone>>
  BY <1>2
<1>4. ASSUME NEW a, NEW b PROVE Append(<<a>>, b) = <<a, b>>
  <2> DEFINE S == {a, b}
             u == Append(<<a>>, b)
             v == <<a, b>>
  <2>1. u \in Seq(S) /\ Len(u) = 2 /\ u[1] = a /\ u[2] = b
    OBVIOUS
  <2>2. v \in Seq(S) /\ Len(v) = 2 /\ v[1] = a /\ v[2] = b
    OBVIOUS
  <2>3. \A i \in 1..2 : i = 1 \/ i = 2
    OBVIOUS
  <2> HIDE DEF u, v, S
  <2>4. u = v
    BY <2>1, <2>2, <2>3, SeqEqual
  <2> QED BY <2>4 DEF u, v
<1> QED BY <1>1, <1>3, <1>4

LEMMA BulkInvariance == Spec => []BulkInv
<1>1. Init => BulkInv
  BY DEF Init, BulkInv, NoJob
<1>2. ASSUME BulkInv, JobsInv, LedgerInv, StockInv, [Next]_vars PROVE BulkInv'
  <2>1. ASSUME UNCHANGED bulk, \A t \in Tab : job'[t].op = "UNDO" => bulk # <<>>
        PROVE  BulkInv'
    BY <1>2, <2>1 DEF BulkInv
  <2>2. ASSUME NEW t \in Tab, TabStep(t) PROVE BulkInv'
    <3>1. CASE FinishOne(t)
      <4>1. bulk' = <<Finished>> /\ UNCHANGED job
        BY <3>1 DEF FinishOne, Finished
      <4> QED BY <4>1, BulkStates DEF BulkInv
    <3>2. CASE FinishUndo(t)
      <4>1. bulk # <<>> /\ job' = [job EXCEPT ![t] = NoJob]
        BY <1>2, <3>2 DEF FinishUndo, BulkInv
      <4>2. bulk' \in {<<Finished>>, <<Finished, Undone>>}
        <5>1. CASE MayUndo(t)
          <6>1. bulk = <<Finished>>
            BY <1>2, <4>1, <5>1, BulkStates DEF MayUndo, BulkInv
          <6>2. bulk' = Append(bulk, Undone)
            BY <3>2, <5>1 DEF FinishUndo, Undone
          <6> QED BY <6>1, <6>2, BulkStates
        <5>2. CASE ~MayUndo(t)
          BY <1>2, <3>2, <4>1, <5>2 DEF FinishUndo, BulkInv
        <5> QED BY <5>1, <5>2
      <4> QED BY <4>2, BulkStates DEF BulkInv
    <3>3. CASE ~FinishOne(t) /\ ~FinishUndo(t)
      <4>1. UNCHANGED bulk
        <5>1. ASSUME NEW o \in Order, OrderStep(t, o) PROVE UNCHANGED bulk
          BY <5>1 DEF OrderStep, PlaceOrder, MarkDone, UndoDone, CancelOrder,
                      ReturnDelivery, Mutate
        <5> QED BY <2>2, <3>3, <5>1 DEF TabStep, StartEdit, CreateExpense, FinishEdit,
                   StartUndo, StartClose, FinishClose, GiveUp, CloseReads
      <4>2. \A u \in Tab : job'[u].op = "UNDO" => bulk # <<>>
        <5> SUFFICES ASSUME NEW u \in Tab, job'[u].op = "UNDO" PROVE bulk # <<>>
          OBVIOUS
        <5>1. CASE WritesBooks(t)
          <6> DEFINE f == Disturb(t)
          <6>1. f \in [Tab -> Jobs] /\ f[u].op = job[u].op /\ NoJob.op = "NONE"
            BY <1>2, DisturbJobs, FreshJobs
          <6>2. job' = [f EXCEPT ![t] = NoJob]
            BY <5>1 DEF WritesBooks
          <6> HIDE DEF f
          <6> QED BY <1>2, <6>1, <6>2 DEF BulkInv
        <5>2. CASE Begins(t)
          <6>1. PICK j \in Jobs : /\ job' = [job EXCEPT ![t] = j]
                                  /\ j.op = "CLOSE" => j.read = {}
                                  /\ j.op = "UNDO" => bulk # <<>>
            BY <5>2 DEF Begins
          <6>2. job'[u] = IF u = t THEN j ELSE job[u]
            BY <1>2, <6>1 DEF JobsInv
          <6>3. u # t => (job[u].op = "UNDO" => bulk # <<>>)
            BY <1>2 DEF BulkInv
          <6> QED BY <6>1, <6>2, <6>3
        <5>3. CASE UNCHANGED <<orders, expenses, till, job>>
          BY <1>2, <5>3 DEF BulkInv
        <5>4. ASSUME NEW what \in {"ORDERS", "EXPENSES"}, CloseReads(t, what)
              PROVE  bulk # <<>>
          <6>1. PICK v : job' = [job EXCEPT ![t] = v] /\ v.op = "CLOSE"
            <7>1. \E v \in Jobs : job' = [job EXCEPT ![t] = v] /\ v.op = "CLOSE"
              BY <1>2, <5>4, ReadsOfClose
            <7> QED BY <7>1
          <6> QED BY <1>2, <6>1 DEF BulkInv, JobsInv
        <5>5. \/ WritesBooks(t) \/ Begins(t)
              \/ UNCHANGED <<orders, expenses, till, job>>
              \/ \E what \in {"ORDERS", "EXPENSES"} : CloseReads(t, what)
          BY <1>2, <2>2, StepsOfJobs
        <5> QED BY <5>1, <5>2, <5>3, <5>4, <5>5
      <4> QED BY <2>1, <4>1, <4>2
    <3> QED BY <3>1, <3>2, <3>3
  <2>3. ASSUME ~\E t \in Tab : TabStep(t) PROVE BulkInv'
    BY <1>2, <2>3, StepsOfOthers DEF BulkInv
  <2> QED BY <2>2, <2>3
<1> QED BY <1>1, <1>2, JobsInvariance, LedgerInvariance, StockInvariance, PTL DEF Spec

\* undo (bulkStock.ts): a bulk movement is undone at most once, whichever tabs
\* ask for it at once.
THEOREM BulkIsUndoneOnce == Spec => []BulkUndoneOnce
<1>1. ASSUME BulkInv PROVE BulkUndoneOnce
  <2> DEFINE S == {i \in DOMAIN bulk : bulk[i].undoes = 1}
  <2>1. S \subseteq {2}
    <3>1. CASE bulk = <<>>
      BY <3>1
    <3>2. CASE bulk = <<Finished>>
      BY <3>2 DEF Finished
    <3>3. CASE bulk = <<Finished, Undone>>
      <4>1. DOMAIN bulk = {1, 2} /\ bulk[1] = Finished /\ Finished.undoes = 0
        BY <3>3 DEF Finished
      <4> QED BY <4>1
    <3> QED BY <1>1, <3>1, <3>2, <3>3 DEF BulkInv
  <2> HIDE DEF S
  <2>2. S = {} \/ S = {2}
    BY <2>1
  <2>3. Cardinality({}) = 0 /\ Cardinality({2}) = 1
    BY FS_EmptySet, FS_Singleton
  <2>4. Cardinality(S) <= 1
    BY <2>2, <2>3
  <2> QED BY <2>4 DEF S, BulkUndoneOnce
<1> QED BY <1>1, BulkInvariance, PTL
-----------------------------------------------------------------------------
\* The till is the balance of the books at every moment; a close that no other
\* tab disturbed has read what the books still say; and the reconciliation of
\* such a close is that balance.
Balance == Minus(Sales, Paid(CashMethod, CashExpenses))

ReadsAreNow(c) ==
  c.op = "CLOSE" /\ c.clean = TRUE =>
    /\ "ORDERS" \in c.read => c.sales = Sales
    /\ "EXPENSES" \in c.read => c.spent = CashExpenses

TillInv == till = Balance
CloseInv == \A t \in Tab : ReadsAreNow(job[t])
RecordInv == day = "CLOSED" /\ recorded.clean = TRUE => recorded.books = Balance
MoneyInv == TillInv /\ CloseInv /\ RecordInv

LEMMA BalanceIs ==
  ASSUME StockInv, LedgerInv
  PROVE  /\ Balance \in Books
         /\ \A m \in Method : /\ Sales[m] \in Int
                              /\ Balance[m] = Sales[m] - (IF m = CashMethod THEN CashExpenses ELSE 0)
<1>1. Sales \in Books /\ CashExpenses \in Int
  BY SalesType, CashExpensesType
<1>2. \A m \in Method : /\ Sales[m] \in Int
                        /\ Balance[m] = Sales[m] - (IF m = CashMethod THEN CashExpenses ELSE 0)
  BY <1>1 DEF Balance, Minus, Paid, Books
<1>3. Balance = [m \in Method |-> Balance[m]]
  BY DEF Balance, Minus
<1>4. \A m \in Method : Balance[m] \in Int
  BY <1>1, <1>2
<1> QED BY <1>2, <1>3, <1>4 DEF Books

LEMMA BooksUnchanged ==
  /\ UNCHANGED orders => UNCHANGED Sales
  /\ UNCHANGED expenses => UNCHANGED CashExpenses
  /\ UNCHANGED <<Sales, CashExpenses>> => UNCHANGED Balance
<1>1. UNCHANGED orders => UNCHANGED Sales
  BY DEF Sales, Done, Takings
<1>2. UNCHANGED expenses => UNCHANGED CashExpenses
  BY DEF CashExpenses, Cash
<1>3. UNCHANGED <<Sales, CashExpenses>> => UNCHANGED Balance
  BY DEF Balance, Minus, Paid
<1> QED BY <1>1, <1>2, <1>3

\* An order is written, and the till with it.
LEMMA TillOfOrder ==
  ASSUME StockInv, StockInv', LedgerInv, LedgerInv', TillInv, UNCHANGED expenses,
         NEW o \in Order, NEW r, orders' = [orders EXCEPT ![o] = r],
         till' = [m \in Method |-> till'[m]],
         \A m \in Method : till'[m] = till[m] - Sold(orders[o], m) + Sold(r, m)
  PROVE  TillInv'
<1>1. ASSUME NEW m \in Method PROVE till'[m] = Balance'[m]
  <2>1. /\ Sales'[m] = Sales[m] - Sold(orders[o], m) + Sold(r, m)
        /\ Sold(orders[o], m) \in Int /\ Sold(r, m) \in Int
        /\ Sales[m] \in Int /\ Sales'[m] \in Int
    BY SalesWrite
  <2>2. CashExpenses' = CashExpenses /\ CashExpenses \in Int
    BY BooksUnchanged, CashExpensesType
  <2>3. Balance[m] = Sales[m] - (IF m = CashMethod THEN CashExpenses ELSE 0)
    BY DEF Balance, Minus, Paid
  <2>4. Balance'[m] = Sales'[m] - (IF m = CashMethod THEN CashExpenses' ELSE 0)
    BY DEF Balance, Minus, Paid
  <2>8. till[m] = Balance[m]
    BY DEF TillInv
  <2>9. CASE m = CashMethod
    BY <2>1, <2>2, <2>3, <2>4, <2>8, <2>9
  <2>10. CASE m # CashMethod
    BY <2>1, <2>2, <2>3, <2>4, <2>8, <2>10
  <2> QED BY <2>9, <2>10
<1>2. Balance' = [m \in Method |-> Balance'[m]]
  BY DEF Balance, Minus
<1> QED BY <1>1, <1>2 DEF TillInv

\* An expense is written, and the till with it.
LEMMA TillOfExpense ==
  ASSUME StockInv, LedgerInv, TillInv, UNCHANGED orders,
         NEW e \in Expense, NEW r \in Record, Commit(e, r)
  PROVE  TillInv'
<1> DEFINE spent == Cash(r) - Cash(expenses[e])
<1>1. Sales' = Sales
  BY BooksUnchanged
<1>2. /\ CashExpenses' = CashExpenses + Cash(r) - Cash(expenses[e]) /\ CashExpenses \in Int
      /\ Cash(r) \in Int /\ Cash(expenses[e]) \in Int
  BY CashExpensesWrite, CashExpensesType, CashType DEF Commit
<1>3. till' = Minus(till, Paid(CashMethod, spent))
  BY DEF Commit
<1>4. ASSUME NEW m \in Method PROVE till'[m] = Balance'[m]
  <2>1. Sales[m] \in Int
    BY SalesType DEF Books
  <2>2. Balance[m] = Sales[m] - (IF m = CashMethod THEN CashExpenses ELSE 0)
    BY DEF Balance, Minus, Paid
  <2>3. Balance'[m] = Sales'[m] - (IF m = CashMethod THEN CashExpenses' ELSE 0)
    BY DEF Balance, Minus, Paid
  <2>4. till'[m] = till[m] - (IF m = CashMethod THEN spent ELSE 0)
    BY <1>3 DEF Minus, Paid
  <2>5. till[m] = Balance[m]
    BY DEF TillInv
  <2>6. CASE m = CashMethod
    BY <1>1, <1>2, <2>1, <2>2, <2>3, <2>4, <2>5, <2>6
  <2>7. CASE m # CashMethod
    BY <1>1, <2>1, <2>2, <2>3, <2>4, <2>5, <2>7
  <2> QED BY <2>6, <2>7
<1>5. Balance' = [m \in Method |-> Balance'[m]] /\ till' = [m \in Method |-> till'[m]]
  BY <1>3 DEF Balance, Minus
<1> QED BY <1>4, <1>5 DEF TillInv

\* A command on an order.
LEMMA TillOfMutate ==
  ASSUME StockInv, StockInv', LedgerInv, LedgerInv', TillInv, NEW t \in Tab, NEW o \in Order,
         NEW from \in Status, NEW to \in Status, NEW prepared \in BOOLEAN, NEW ms,
         Mutate(t, o, from, to, prepared, ms),
         \/ from # "DONE" /\ to = "DONE" /\ till' = Plus(till, Takings(o))
         \/ from = "DONE" /\ to # "DONE" /\ till' = Minus(till, Takings(o))
         \/ from # "DONE" /\ to # "DONE" /\ UNCHANGED till
  PROVE  TillInv'
<1> DEFINE r == Moved(orders[o], to, prepared)
<1>1. orders[o] \in Snapshot /\ orders[o].status = from /\ UNCHANGED expenses
  BY DEF StockInv, Mutate
<1>2. /\ r.status = to /\ r.parts = orders[o].parts
  BY <1>1, SnapshotMoved
<1>3. orders' = [orders EXCEPT ![o] = r]
  <2> DEFINE v == [orders[o] EXCEPT !.status = to, !.revision = @ + 1, !.prepared = prepared]
  <2>0. v = [orders[o] EXCEPT !.status = to, !.revision = @ + 1, !.prepared = prepared]
    OBVIOUS
  <2>2. orders' = [orders EXCEPT ![o] = v]
    BY DEF Mutate
  <2> HIDE DEF v
  <2>1. v = r
    <3> DEFINE s == orders[o]
    <3>1. s \in Snapshot
            /\ v = [s EXCEPT !.status = to, !.revision = @ + 1, !.prepared = prepared]
      BY <1>1, <2>0, Zenon
    <3> HIDE DEF s
    <3>2. s = [status |-> s.status, revision |-> s.revision, delivery |-> s.delivery,
               prepared |-> s.prepared, pricing |-> s.pricing, parts |-> s.parts]
      BY <3>1 DEF Snapshot
    <3>3. v = Moved(s, to, prepared)
      BY <3>1, <3>2 DEF Moved
    <3> QED BY <3>3 DEF s
  <2> QED BY <2>1, <2>2, Zenon
<1> HIDE DEF r
<1>4. ASSUME NEW m \in Method
      PROVE  till'[m] = till[m] - Sold(orders[o], m) + Sold(r, m)
  <2> DEFINE a == Allocated(orders[o].parts, m)
  <2>1. a \in Int
    BY <1>1, SettledInNumbers DEF Snapshot
  <2>2. /\ Sold(orders[o], m) = IF from = "DONE" THEN a ELSE 0
        /\ Sold(r, m) = IF to = "DONE" THEN a ELSE 0
    BY <1>1, <1>2 DEF Sold
  <2>3. /\ till' = Plus(till, Takings(o)) => till'[m] = till[m] + a
        /\ till' = Minus(till, Takings(o)) => till'[m] = till[m] - a
    BY DEF Plus, Minus, Takings
  <2> HIDE DEF a
  <2>4. till[m] \in Int
    BY BalanceIs DEF TillInv, Books
  <2> QED BY <2>1, <2>2, <2>3, <2>4
<1>5. till' = [m \in Method |-> till'[m]]
  BY BalanceIs DEF Plus, Minus, TillInv, Books
<1> QED BY <1>1, <1>3, <1>4, <1>5, TillOfOrder

LEMMA TillStep ==
  ASSUME StockInv, StockInv', LedgerInv, LedgerInv', JobsInv, TillInv, [Next]_vars
  PROVE  TillInv'
<1> USE DEF Status
<1>1. ASSUME UNCHANGED <<orders, expenses, till>> PROVE TillInv'
  BY <1>1, BooksUnchanged DEF TillInv
<1>2. ASSUME NEW t \in Tab, NEW o \in Order, OrderStep(t, o) PROVE TillInv'
  <2>1. ASSUME NEW d \in Draft, PlaceOrder(t, o, d) PROVE TillInv'
    <3> DEFINE r == [status |-> "ACTIVE", revision |-> 0, delivery |-> d.delivery,
                     prepared |-> FALSE, pricing |-> PriceOf(d),
                     parts |-> Parts(d.payment, PriceOf(d))]
    <3>1. orders[o] = NoOrder /\ orders' = [orders EXCEPT ![o] = r] /\ UNCHANGED <<expenses, till>>
      BY <2>1 DEF PlaceOrder, PriceOf
    <3>2. r.status = "ACTIVE"
      OBVIOUS
    <3> HIDE DEF r
    <3>3. \A m \in Method : till'[m] = till[m] - Sold(orders[o], m) + Sold(r, m)
      <4>1. \A m \in Method : till[m] \in Int
        BY BalanceIs DEF TillInv, Books
      <4> QED BY <3>1, <3>2, <4>1, NoOrderIsNone DEF Sold
    <3>4. till' = [m \in Method |-> till'[m]]
      BY <3>1, BalanceIs DEF TillInv, Books
    <3> QED BY <3>1, <3>3, <3>4, TillOfOrder
  <2>2. CASE MarkDone(t, o)
    <3>1. Mutate(t, o, "ACTIVE", "DONE", FALSE, Consumption(o)) /\ till' = Plus(till, Takings(o))
      BY <2>2 DEF MarkDone
    <3> QED BY <3>1, TillOfMutate
  <2>3. CASE UndoDone(t, o)
    <3>1. Mutate(t, o, "DONE", "ACTIVE", FALSE, Reversals(o)) /\ till' = Minus(till, Takings(o))
      BY <2>3 DEF UndoDone
    <3> QED BY <3>1, TillOfMutate
  <2>4. CASE ReturnDelivery(t, o)
    <3>1. Mutate(t, o, "DONE", "RETURNED", FALSE, <<>>) /\ till' = Minus(till, Takings(o))
      BY <2>4 DEF ReturnDelivery
    <3> QED BY <3>1, TillOfMutate
  <2>5. ASSUME NEW prepared \in BOOLEAN, CancelOrder(t, o, prepared) PROVE TillInv'
    <3> DEFINE ms == IF prepared THEN Consumption(o) ELSE Released(o)
    <3>1. Mutate(t, o, "ACTIVE", "CANCELLED", prepared, ms) /\ UNCHANGED till
      BY <2>5 DEF CancelOrder
    <3> HIDE DEF ms
    <3> QED BY <3>1, TillOfMutate
  <2> QED BY <1>2, <2>1, <2>2, <2>3, <2>4, <2>5 DEF OrderStep
<1>3. ASSUME NEW t \in Tab, NEW e \in Expense, NEW a \in Amount, NEW f \in {"CASH", "OTHER"},
             CreateExpense(t, e, a, f)
      PROVE  TillInv'
  <2> DEFINE r == [amount |-> a, from |-> f, revision |-> 0, deleted |-> FALSE]
  <2>1. Commit(e, r) /\ UNCHANGED orders
    BY <1>3 DEF CreateExpense
  <2>2. r \in Record
    BY DEF Record
  <2> HIDE DEF r
  <2> QED BY <2>1, <2>2, TillOfExpense
<1>4. ASSUME NEW t \in Tab, FinishEdit(t), Current(t) PROVE TillInv'
  <2>1. Editing(job[t])
    BY <1>4 DEF FinishEdit, LedgerInv
  <2>2. Commit(job[t].expense, job[t].record) /\ UNCHANGED orders
    BY <1>4 DEF FinishEdit
  <2>3. job[t].expense \in Expense /\ job[t].record \in Record
    BY <2>1 DEF Editing
  <2> QED BY <2>2, <2>3, TillOfExpense
<1>5. ASSUME NEW o \in Order, Refused(o) \/ Converge(o), orders' = [orders EXCEPT ![o] = Cancelled(o)],
             UNCHANGED <<expenses, till>>, ~UNCHANGED orders
      PROVE  TillInv'
  <2> DEFINE r == Cancelled(o)
  <2>1. orders[o].status = "ACTIVE"
    BY <1>5 DEF Refused, Converge
  <2>2. orders[o] \in Snapshot
    BY <2>1, NoOrderIsNone DEF StockInv
  <2>3. r = Moved(orders[o], "CANCELLED", orders[o].prepared)
    BY <2>2, MovedIs, Zenon DEF Cancelled
  <2>4. r.status = "CANCELLED"
    BY <2>3 DEF Moved
  <2> HIDE DEF r
  <2>5. \A m \in Method : till'[m] = till[m] - Sold(orders[o], m) + Sold(r, m)
    <3>1. \A m \in Method : till[m] \in Int
      BY BalanceIs DEF TillInv, Books
    <3> QED BY <1>5, <2>1, <2>4, <3>1 DEF Sold
  <2>6. till' = [m \in Method |-> till'[m]]
    BY <1>5, BalanceIs DEF TillInv, Books
  <2>7. orders' = [orders EXCEPT ![o] = r]
    BY <1>5 DEF r
  <2>8. UNCHANGED expenses
    BY <1>5
  <2> QED BY <2>5, <2>6, <2>7, <2>8, TillOfOrder
<1>6. ASSUME NEW t \in Tab, TabStep(t), ~\E o \in Order : OrderStep(t, o),
             ~\E e \in Expense, a \in Amount, f \in {"CASH", "OTHER"} : CreateExpense(t, e, a, f),
             ~(FinishEdit(t) /\ Current(t))
      PROVE  UNCHANGED <<orders, expenses, till>>
  BY <1>6 DEF TabStep, StartEdit, FinishEdit, FinishOne, StartUndo, FinishUndo,
         StartClose, FinishClose, GiveUp, CloseReads
<1>7. ASSUME ~\E t \in Tab : TabStep(t) PROVE TillInv'
  BY <1>1, <1>5, <1>7, StepsOfOthers
<1> QED BY <1>1, <1>2, <1>3, <1>4, <1>6, <1>7

\* What the services do leaves the sales alone.
LEMMA SalesOfServices ==
  ASSUME StockInv, StockInv', NEW o \in Order, Refused(o) \/ Converge(o),
         orders' = [orders EXCEPT ![o] = Cancelled(o)]
  PROVE  Sales' = Sales
<1>1. CASE UNCHANGED orders
  BY <1>1, BooksUnchanged
<1>2. CASE ~UNCHANGED orders
  <2> DEFINE r == Cancelled(o)
  <2>1. orders[o].status = "ACTIVE"
    BY <1>2 DEF Refused, Converge
  <2>2. orders[o] \in Snapshot
    BY <2>1, NoOrderIsNone DEF StockInv
  <2>3. r = Moved(orders[o], "CANCELLED", orders[o].prepared)
    BY <2>2, MovedIs, Zenon DEF Cancelled
  <2>4. r.status = "CANCELLED"
    BY <2>3 DEF Moved
  <2>5. orders' = [orders EXCEPT ![o] = r]
    OBVIOUS
  <2> HIDE DEF r
  <2>6. ASSUME NEW m \in Method PROVE Sales'[m] = Sales[m]
    <3>1. /\ Sales'[m] = Sales[m] - Sold(orders[o], m) + Sold(r, m)
          /\ Sales[m] \in Int /\ Sales'[m] \in Int
      <4>1. \A x \in Order, k \in Method : \A s : orders' = [orders EXCEPT ![x] = s]
              => /\ Sales'[k] = Sales[k] - Sold(orders[x], k) + Sold(s, k)
                 /\ Sold(orders[x], k) \in Int /\ Sold(s, k) \in Int
                 /\ Sales[k] \in Int /\ Sales'[k] \in Int
        BY SalesWrite
      <4> QED BY <2>5, <4>1
    <3>2. Sold(orders[o], m) = 0 /\ Sold(r, m) = 0
      BY <2>1, <2>4 DEF Sold
    <3> QED BY <3>1, <3>2
  <2>7. Sales = [m \in Method |-> Sales[m]] /\ Sales' = [m \in Method |-> Sales'[m]]
    BY DEF Sales
  <2> HIDE DEF Sales
  <2> QED BY <2>6, <2>7
<1> QED BY <1>1, <1>2

LEMMA CloseStep ==
  ASSUME StockInv, StockInv', LedgerInv, JobsInv, CloseInv, [Next]_vars
  PROVE  CloseInv'
<1>1. ASSUME UNCHANGED <<Sales, CashExpenses>>, NEW u \in Tab, job'[u] = job[u]
      PROVE  ReadsAreNow(job[u])'
  BY <1>1 DEF ReadsAreNow, CloseInv
<1>2. ASSUME NEW t \in Tab, TabStep(t) PROVE CloseInv'
  <2> SUFFICES ASSUME NEW u \in Tab PROVE ReadsAreNow(job[u])'
    BY DEF CloseInv
  <2>1. CASE WritesBooks(t)
    <3> DEFINE f == Disturb(t)
    <3>1. /\ f \in [Tab -> Jobs] /\ f[u].op = job[u].op /\ NoJob.op = "NONE"
          /\ u # t /\ job[u].op = "CLOSE" => f[u].clean = FALSE
      BY DisturbJobs, FreshJobs
    <3>2. job' = [f EXCEPT ![t] = NoJob]
      BY <2>1 DEF WritesBooks
    <3> HIDE DEF f
    <3>3. job'[u] = IF u = t THEN NoJob ELSE f[u]
      BY <3>1, <3>2
    <3>4. ~(job'[u].op = "CLOSE" /\ job'[u].clean = TRUE)
      BY <3>1, <3>3
    <3> QED BY <3>4 DEF ReadsAreNow
  <2>2. CASE Begins(t)
    <3>1. PICK j \in Jobs : /\ job' = [job EXCEPT ![t] = j]
                            /\ j.op = "CLOSE" => j.read = {}
                            /\ j.op = "UNDO" => bulk # <<>>
      BY <2>2 DEF Begins
    <3>2. job'[u] = IF u = t THEN j ELSE job[u]
      BY <3>1 DEF JobsInv
    <3>3. UNCHANGED <<Sales, CashExpenses>>
      BY <2>2, BooksUnchanged DEF Begins
    <3>4. CASE u = t
      <4>1. job'[u].op = "CLOSE" => job'[u].read = {}
        BY <3>1, <3>2, <3>4
      <4> QED BY <4>1 DEF ReadsAreNow
    <3>5. CASE u # t
      BY <1>1, <3>2, <3>3, <3>5
    <3> QED BY <3>4, <3>5
  <2>3. CASE UNCHANGED <<orders, expenses, till, job>>
    BY <1>1, <2>3, BooksUnchanged
  <2>4. ASSUME NEW what \in {"ORDERS", "EXPENSES"}, CloseReads(t, what)
        PROVE  ReadsAreNow(job[u])'
    <3>1. UNCHANGED <<Sales, CashExpenses>>
      BY <2>4, BooksUnchanged DEF CloseReads
    <3>2. PICK v \in Jobs :
            /\ job' = [job EXCEPT ![t] = v] /\ v.op = "CLOSE" /\ v.clean = job[t].clean
            /\ v.read = job[t].read \cup {what}
            /\ v.sales = (IF what = "ORDERS" THEN Sales ELSE job[t].sales)
            /\ v.spent = (IF what = "EXPENSES" THEN CashExpenses ELSE job[t].spent)
      BY <2>4, ReadsOfClose
    <3>3. job'[u] = IF u = t THEN v ELSE job[u]
      BY <3>2 DEF JobsInv
    <3>4. CASE u = t
      <4> SUFFICES ASSUME v.clean = TRUE
                   PROVE  /\ "ORDERS" \in v.read => v.sales = Sales
                          /\ "EXPENSES" \in v.read => v.spent = CashExpenses
        BY <3>1, <3>3, <3>4 DEF ReadsAreNow
      <4>1. job[t].op = "CLOSE" /\ job[t].clean = TRUE
        BY <2>4, <3>2 DEF CloseReads
      <4>2. /\ "ORDERS" \in job[t].read => job[t].sales = Sales
            /\ "EXPENSES" \in job[t].read => job[t].spent = CashExpenses
        BY <4>1 DEF CloseInv, ReadsAreNow
      <4> QED BY <3>2, <4>2
    <3>5. CASE u # t
      BY <1>1, <3>1, <3>3, <3>5
    <3> QED BY <3>4, <3>5
  <2>5. \/ WritesBooks(t) \/ Begins(t)
        \/ UNCHANGED <<orders, expenses, till, job>>
        \/ \E what \in {"ORDERS", "EXPENSES"} : CloseReads(t, what)
    BY <1>2, StepsOfJobs
  <2> QED BY <2>1, <2>2, <2>3, <2>4, <2>5
<1>3. ASSUME ~\E t \in Tab : TabStep(t) PROVE CloseInv'
  <2>1. UNCHANGED <<job, expenses>>
    BY <1>3, StepsOfOthers
  <2>2. UNCHANGED Sales
    BY <1>3, StepsOfOthers, BooksUnchanged, SalesOfServices
  <2>3. UNCHANGED CashExpenses
    BY <2>1, BooksUnchanged
  <2> QED BY <1>1, <2>1, <2>2, <2>3 DEF CloseInv
<1> QED BY <1>2, <1>3

LEMMA RecordStep ==
  ASSUME StockInv, LedgerInv, JobsInv, ClosedInv, MoneyInv, [Next]_vars
  PROVE  RecordInv'
<1>1. CASE day = "CLOSED"
  <2>1. UNCHANGED <<day, orders, expenses, recorded>>
    BY <1>1, ClosedStep
  <2>2. UNCHANGED Balance
    BY <2>1, BooksUnchanged
  <2> QED BY <2>1, <2>2 DEF MoneyInv, RecordInv
<1>2. CASE day # "CLOSED" /\ day' = "CLOSED"
  <2>1. PICK t \in Tab : FinishClose(t)
    BY <1>2, ClosedByClose
  <2> DEFINE c == job[t]
  <2>2. /\ c.op = "CLOSE" /\ c.read = {"ORDERS", "EXPENSES"}
        /\ recorded' = [books |-> Minus(c.sales, Paid(CashMethod, c.spent)),
                        clean |-> c.clean, by |-> c.by]
        /\ UNCHANGED <<orders, expenses>>
    BY <2>1 DEF FinishClose
  <2>3. ReadsAreNow(c)
    BY DEF MoneyInv, CloseInv
  <2>4. UNCHANGED Balance
    BY <2>2, BooksUnchanged
  <2> HIDE DEF c
  <2>5. /\ recorded'.books = Minus(c.sales, Paid(CashMethod, c.spent))
        /\ recorded'.clean = c.clean
    BY <2>2
  <2>6. c.clean = TRUE => c.sales = Sales /\ c.spent = CashExpenses
    BY <2>2, <2>3 DEF ReadsAreNow
  <2>7. c.clean = TRUE => recorded'.books = Balance
    BY <2>5, <2>6 DEF Balance
  <2> QED BY <2>4, <2>5, <2>7 DEF RecordInv
<1>3. CASE day' # "CLOSED"
  BY <1>3 DEF RecordInv
<1> QED BY <1>1, <1>2, <1>3

LEMMA MoneyInvariance == Spec => []MoneyInv
<1>1. ASSUME Init PROVE MoneyInv
  <2>1. till = Balance
    <3>1. Sales = Nothing
      <4>1. Done = {}
        BY <1>1 DEF Init, Done, NoOrder
      <4>2. \A m \in Method : Sales[m] = 0
        <5> SUFFICES ASSUME NEW m \in Method PROVE Total([o \in Done |-> Takings(o)[m]], Done) = 0
          BY DEF Sales
        <5> DEFINE f == [o \in Done |-> Takings(o)[m]]
        <5>1. Total(f, {}) = 0
          BY TotalOfNone
        <5> QED BY <4>1, <5>1
      <4> QED BY <4>2 DEF Sales, Nothing
    <3>2. CashExpenses = 0
      <4> DEFINE f == [e \in Expense |-> Cash(expenses[e])]
      <4>1. \A e \in Expense : f[e] = 0
        BY <1>1, CashType DEF Init
      <4>2. IsFiniteSet(Expense)
        BY BooksAssumption
      <4> HIDE DEF f
      <4>3. Total(f, Expense) = 0
        BY <4>1, <4>2, TotalOfZeros
      <4> QED BY <4>3 DEF f, CashExpenses
    <3>3. till = Nothing
      BY <1>1 DEF Init
    <3> QED BY <3>1, <3>2, <3>3 DEF Balance, Minus, Paid, Nothing
  <2>2. CloseInv
    BY <1>1, FreshJobs DEF Init, CloseInv, ReadsAreNow
  <2>3. RecordInv
    BY <1>1 DEF Init, RecordInv
  <2> QED BY <2>1, <2>2, <2>3 DEF MoneyInv, TillInv
<1>2. ASSUME MoneyInv, StockInv, StockInv', LedgerInv, LedgerInv', JobsInv, ClosedInv, [Next]_vars
      PROVE  MoneyInv'
  BY <1>2, TillStep, CloseStep, RecordStep DEF MoneyInv
<1> QED
  BY <1>1, <1>2, StockInvariance, LedgerInvariance, JobsInvariance, ClosedInvariance, PTL DEF Spec

\* closeDay, calculateEndDayFinancialProjection (endDay.ts): a closed day has no
\* active order, and unless another tab wrote during the close, its
\* reconciliation expects of every method exactly what it took in.
THEOREM ReconciliationIsRight == Spec => []ReconciliationIsTheTill
<1>1. ASSUME MoneyInv, ClosedInv, JobsInv PROVE ReconciliationIsTheTill
  <2> SUFFICES ASSUME day = "CLOSED"
               PROVE  Active = {} /\ (recorded.clean => recorded.books = till)
    BY DEF ReconciliationIsTheTill
  <2>1. Active = {}
    BY <1>1 DEF ClosedInv, Active
  <2>2. recorded.clean => recorded.books = till
    BY <1>1 DEF MoneyInv, RecordInv, TillInv
  <2> QED BY <2>1, <2>2
<1> QED BY <1>1, MoneyInvariance, ClosedInvariance, JobsInvariance, PTL
-----------------------------------------------------------------------------
\* The bounds that no other invariant states.
Bounded ==
  /\ \A e \in Expense : expenses[e] # NoExpense => expenses[e].revision <= MaxEdits
  /\ \A t \in Tab : job[t].op = "EDIT" => job[t].record.revision <= MaxEdits
ShapeInv ==
  day \in {"OPEN", "CLOSED"} /\ shifts \in 0..MaxShifts /\ recorded.books \in Books

LEMMA ShapeStep ==
  ASSUME ShapeInv, JobsInv, [Next]_vars
  PROVE  ShapeInv'
<1>1. ASSUME NEW w \in Worker, Switch(w) PROVE ShapeInv'
  <2>1. UNCHANGED <<day, recorded>> /\ shifts' = shifts + 1 /\ shifts < MaxShifts
    BY <1>1 DEF Switch
  <2>2. shifts' \in 0..MaxShifts
    BY <2>1, BooksAssumption DEF ShapeInv
  <2> QED BY <2>1, <2>2 DEF ShapeInv
<1>2. ASSUME NEW t \in Tab, FinishClose(t) PROVE ShapeInv'
  <2> DEFINE c == job[t]
  <2>1. c \in CloseJob
    BY <1>2, KindsOfJob DEF FinishClose, JobsInv
  <2>2. c.sales \in Books /\ c.spent \in Int
    BY <2>1, ClosingParts
  <2>3. /\ day' = "CLOSED" /\ UNCHANGED shifts
        /\ recorded'.books = Minus(c.sales, Paid(CashMethod, c.spent))
    BY <1>2 DEF FinishClose
  <2> HIDE DEF c
  <2>4. Minus(c.sales, Paid(CashMethod, c.spent)) \in Books
    <3>1. \A m \in Method : c.sales[m] \in Int /\ Paid(CashMethod, c.spent)[m] \in Int
      BY <2>2 DEF Books, Paid
    <3> QED BY <3>1 DEF Minus, Books
  <2> QED BY <2>3, <2>4 DEF ShapeInv
<1>3. ASSUME UNCHANGED <<day, shifts, recorded>> PROVE ShapeInv'
  BY <1>3 DEF ShapeInv
<1>4. ASSUME NEW t \in Tab, TabStep(t), ~FinishClose(t) PROVE UNCHANGED <<day, shifts, recorded>>
  <2>1. ASSUME NEW o \in Order, OrderStep(t, o) PROVE UNCHANGED <<day, shifts, recorded>>
    BY <2>1 DEF OrderStep, PlaceOrder, MarkDone, UndoDone, CancelOrder,
                ReturnDelivery, Mutate
  <2> QED BY <1>4, <2>1 DEF TabStep, StartEdit, CreateExpense, FinishEdit, FinishOne,
             StartUndo, FinishUndo, StartClose, GiveUp, CloseReads
<1>5. (\E o \in Order : Sent(o) \/ Refused(o) \/ Converge(o)) \/ SignOut \/ UNCHANGED vars
      => UNCHANGED <<day, shifts, recorded>>
  BY DEF Sent, Refused, Converge, SignOut, vars
<1> QED BY <1>1, <1>2, <1>3, <1>4, <1>5 DEF Next

\* The revision of an expense grows only with an edit that was begun below the
\* bound.
LEMMA BoundedStep ==
  ASSUME Bounded, LedgerInv, JobsInv, StockInv, [Next]_vars
  PROVE  Bounded'
<1>0. MaxEdits \in Nat
  BY BooksAssumption
<1>1. ASSUME UNCHANGED expenses,
             \A u \in Tab : job'[u].op = "EDIT" => job'[u].record.revision <= MaxEdits
      PROVE  Bounded'
  BY <1>1 DEF Bounded
<1>2. ASSUME NEW e \in Expense, NEW r \in Record, expenses' = [expenses EXCEPT ![e] = r],
             r.revision <= MaxEdits,
             \A u \in Tab : job'[u].op = "EDIT" => job'[u] = job[u]
      PROVE  Bounded'
  <2>1. \A x \in Expense : expenses'[x] = IF x = e THEN r ELSE expenses[x]
    BY <1>2 DEF LedgerInv
  <2> QED BY <1>2, <2>1 DEF Bounded
<1>3. ASSUME NEW t \in Tab, WritesBooks(t)
      PROVE  \A u \in Tab : job'[u].op = "EDIT" => job'[u] = job[u]
  <2> DEFINE f == Disturb(t)
  <2>1. /\ f \in [Tab -> Jobs] /\ NoJob.op = "NONE"
        /\ \A u \in Tab : /\ f[u].op = job[u].op
                          /\ job[u].op # "CLOSE" => f[u] = job[u]
    BY DisturbJobs, FreshJobs
  <2>2. job' = [f EXCEPT ![t] = NoJob]
    BY <1>3 DEF WritesBooks
  <2> HIDE DEF f
  <2> SUFFICES ASSUME NEW u \in Tab, job'[u].op = "EDIT" PROVE job'[u] = job[u]
    OBVIOUS
  <2>3. job'[u] = IF u = t THEN NoJob ELSE f[u]
    BY <2>1, <2>2
  <2>4. u # t /\ job'[u] = f[u]
    BY <2>1, <2>3
  <2>5. job[u].op = "EDIT"
    BY <2>1, <2>4
  <2> QED BY <2>1, <2>4, <2>5
<1>4. ASSUME NEW t \in Tab, TabStep(t) PROVE Bounded'
  <2>1. ASSUME NEW o \in Order, OrderStep(t, o) PROVE Bounded'
    <3>1. UNCHANGED expenses
      BY <2>1 DEF OrderStep, PlaceOrder, MarkDone, UndoDone, CancelOrder,
                  ReturnDelivery, Mutate
    <3>2. \A u \in Tab : job'[u].op = "EDIT" => job'[u] = job[u]
      BY <1>3, <2>1, WritersOfBooks
    <3> QED BY <1>1, <3>1, <3>2 DEF Bounded
  <2>2. ASSUME NEW e \in Expense, NEW a \in Amount, NEW f \in {"CASH", "OTHER"},
               CreateExpense(t, e, a, f)
        PROVE  Bounded'
    <3> DEFINE r == [amount |-> a, from |-> f, revision |-> 0, deleted |-> FALSE]
    <3>1. expenses' = [expenses EXCEPT ![e] = r]
      BY <2>2 DEF CreateExpense, Commit
    <3>2. r \in Record /\ r.revision <= MaxEdits
      BY <1>0 DEF Record
    <3> HIDE DEF r
    <3>3. \A u \in Tab : job'[u].op = "EDIT" => job'[u] = job[u]
      BY <1>3, <2>2, WritersOfBooks
    <3> QED BY <1>2, <3>1, <3>2, <3>3
  <2>3. ASSUME FinishEdit(t), Current(t) PROVE Bounded'
    <3>1. Editing(job[t]) /\ job[t].op = "EDIT"
      BY <2>3 DEF FinishEdit, LedgerInv
    <3>2. /\ expenses' = [expenses EXCEPT ![job[t].expense] = job[t].record]
          /\ job[t].expense \in Expense /\ job[t].record \in Record
          /\ job[t].record.revision <= MaxEdits
      BY <2>3, <3>1 DEF FinishEdit, Commit, Editing, Bounded
    <3>3. \A u \in Tab : job'[u].op = "EDIT" => job'[u] = job[u]
      BY <1>3, <2>3, WritersOfBooks
    <3> QED BY <1>2, <3>2, <3>3
  <2>4. ASSUME NEW e \in Expense, StartEdit(t, e) PROVE Bounded'
    <3>1. PICK amount \in Amount, from \in {"CASH", "OTHER"}, deleted \in BOOLEAN :
            job' = [job EXCEPT ![t] =
              [op |-> "EDIT", expense |-> e, by |-> operator,
               record |-> [amount |-> amount, from |-> from, deleted |-> deleted,
                           revision |-> expenses[e].revision + 1]]]
      BY <2>4 DEF StartEdit
    <3> DEFINE r == [amount |-> amount, from |-> from, deleted |-> deleted,
                     revision |-> expenses[e].revision + 1]
               j == [op |-> "EDIT", expense |-> e, by |-> operator, record |-> r]
    <3>2. /\ UNCHANGED expenses /\ expenses[e].revision < MaxEdits
          /\ expenses[e] # NoExpense
      BY <2>4 DEF StartEdit
    <3>3. expenses[e].revision \in Int
      BY <3>2 DEF LedgerInv, History, Record
    <3>4. j.record.revision = expenses[e].revision + 1 /\ job' = [job EXCEPT ![t] = j]
      BY <3>1
    <3>5. j.record.revision <= MaxEdits
      BY <1>0, <3>2, <3>3, <3>4
    <3> HIDE DEF r, j
    <3>6. \A u \in Tab : job'[u] = IF u = t THEN j ELSE job[u]
      BY <3>4 DEF JobsInv
    <3>7. \A u \in Tab : job'[u].op = "EDIT" => job'[u].record.revision <= MaxEdits
      BY <3>5, <3>6 DEF Bounded
    <3> QED BY <1>1, <3>2, <3>7
  <2>5. ASSUME NEW j \in Jobs, job' = [job EXCEPT ![t] = j], j.op # "EDIT", UNCHANGED expenses
        PROVE  Bounded'
    <3>1. \A u \in Tab : job'[u] = IF u = t THEN j ELSE job[u]
      BY <2>5 DEF JobsInv
    <3>2. \A u \in Tab : job'[u].op = "EDIT" => job'[u].record.revision <= MaxEdits
      BY <2>5, <3>1 DEF Bounded
    <3> QED BY <1>1, <2>5, <3>2
  <2>6. CASE FinishUndo(t) \/ FinishClose(t) \/ GiveUp(t) \/ (FinishEdit(t) /\ ~Current(t))
    <3>1. UNCHANGED expenses /\ job' = [job EXCEPT ![t] = NoJob]
      BY <2>6 DEF FinishUndo, FinishClose, GiveUp, FinishEdit
    <3> QED BY <2>5, <3>1, FreshJobs
  <2>7. CASE StartUndo(t) \/ StartClose(t)
    <3> DEFINE undo == [op |-> "UNDO", by |-> operator]
               close == [op |-> "CLOSE", by |-> operator, clean |-> TRUE,
                         read |-> {}, sales |-> Nothing, spent |-> 0]
    <3>1. UNCHANGED expenses
      BY <2>7 DEF StartUndo, StartClose
    <3>2. /\ undo \in Jobs /\ undo.op = "UNDO"
          /\ close \in Jobs /\ close.op = "CLOSE"
      BY FreshJobs DEF JobsInv
    <3>3. job' = [job EXCEPT ![t] = undo] \/ job' = [job EXCEPT ![t] = close]
      BY <2>7 DEF StartUndo, StartClose
    <3> HIDE DEF undo, close
    <3> QED BY <2>5, <3>1, <3>2, <3>3
  <2>8. ASSUME NEW what \in {"ORDERS", "EXPENSES"}, CloseReads(t, what) PROVE Bounded'
    <3>1. UNCHANGED expenses
      BY <2>8 DEF CloseReads
    <3>2. \E v \in Jobs : job' = [job EXCEPT ![t] = v] /\ v.op = "CLOSE"
      BY <2>8, ReadsOfClose
    <3> QED BY <2>5, <3>1, <3>2
  <2>9. CASE FinishOne(t)
    BY <1>1, <2>9 DEF FinishOne, Bounded
  <2> QED BY <1>4, <2>1, <2>2, <2>3, <2>4, <2>6, <2>7, <2>8, <2>9 DEF TabStep
<1>5. ASSUME ~\E t \in Tab : TabStep(t) PROVE Bounded'
  BY <1>5, StepsOfOthers DEF Bounded
<1> QED BY <1>4, <1>5

\* The types of the day's books: the revisions of orders and expenses within
\* their bounds, bulk movements of one unit, amounts that are numbers.
THEOREM TypeCorrect == Spec => []TypeOK
<1>1. ASSUME Init PROVE ShapeInv /\ Bounded
  <2>1. ShapeInv
    BY <1>1, BooksAssumption DEF Init, ShapeInv, NoBooks, Nothing, Books
  <2>2. Bounded
    BY <1>1, FreshJobs DEF Init, Bounded
  <2> QED BY <2>1, <2>2
<1>2. ASSUME ShapeInv, Bounded, StockInv, LedgerInv, JobsInv, BulkInv, MoneyInv PROVE TypeOK
  <2>1. day \in {"OPEN", "CLOSED"} /\ operator \in Worker \cup {NoWorker} /\ shifts \in 0..MaxShifts
    BY <1>2 DEF ShapeInv, JobsInv, Operators
  <2>2. ASSUME NEW o \in Order
        PROVE  \/ orders[o] = NoOrder /\ moves[o] = <<>>
               \/ /\ orders[o].status \in {"ACTIVE", "DONE", "CANCELLED", "RETURNED"}
                  /\ orders[o].revision \in 0..MaxChanges
    <3>1. CASE orders[o] = NoOrder
      BY <1>2, <3>1 DEF StockInv
    <3>2. CASE orders[o] # NoOrder
      <4>1. orders[o] \in Snapshot
        BY <1>2, <3>2 DEF StockInv
      <4>2. orders[o].status \in Status /\ orders[o].revision \in Nat
        BY <4>1 DEF Snapshot
      <4>3. orders[o].revision <= Changes /\ Changes \in Nat /\ Changes <= MaxChanges
        BY <1>2, <3>2, ChangesCount DEF Revision, StockInv
      <4>4. orders[o].revision \in 0..MaxChanges
        BY <4>2, <4>3, BooksAssumption
      <4> QED BY <4>2, <4>4 DEF Status
    <3> QED BY <3>1, <3>2
  <2>3. unsent \subseteq {o \in Order : orders[o] # NoOrder}
    BY <1>2 DEF StockInv
  <2>4. ASSUME NEW e \in Expense
        PROVE  /\ Len(rows[e]) <= MaxEdits + 1
               /\ \/ expenses[e] = NoExpense /\ rows[e] = <<>>
                  \/ /\ expenses[e].amount \in Amount /\ expenses[e].from \in {"CASH", "OTHER"}
                     /\ expenses[e].revision \in 0..MaxEdits /\ expenses[e].deleted \in BOOLEAN
    <3>0. MaxEdits \in Nat
      BY BooksAssumption
    <3>1. CASE expenses[e] = NoExpense /\ rows[e] = <<>>
      <4>1. Len(<<>>) = 0
        OBVIOUS
      <4> QED BY <3>0, <3>1, <4>1
    <3>2. CASE History(expenses[e], rows[e])
      <4> DEFINE s == rows[e]
                 n == Len(s)
                 r == expenses[e]
      <4>1. /\ s \in Seq(Record) /\ n > 0 /\ s[n] = r
            /\ \A i \in 1..n : s[i].revision = i - 1
        BY <3>2 DEF History
      <4> HIDE DEF s, r
      <4>2. n \in Nat /\ r \in Record
        BY <4>1
      <4> HIDE DEF n
      <4>3. r.revision = n - 1
        BY <4>1, <4>2
      <4>4. r # NoExpense
        BY <4>1, <4>2 DEF Record, NoExpense
      <4>5. r.revision <= MaxEdits
        BY <1>2, <4>4 DEF Bounded, r
      <4>6. /\ r.amount \in Amount /\ r.from \in {"CASH", "OTHER"} /\ r.deleted \in BOOLEAN
        BY <4>2 DEF Record
      <4>7. n <= MaxEdits + 1 /\ r.revision \in 0..MaxEdits
        BY <3>0, <4>1, <4>2, <4>3, <4>5
      <4> QED BY <4>6, <4>7 DEF n, s, r
    <3> QED BY <1>2, <3>1, <3>2 DEF LedgerInv
  <2>5. \A i \in DOMAIN bulk : bulk[i].quantity \in {-1, 1} /\ bulk[i].undoes \in 0..1
    <3>1. CASE bulk = <<>>
      BY <3>1
    <3>2. CASE bulk = <<Finished>>
      <4>1. DOMAIN bulk = {1} /\ bulk[1] = Finished
        BY <3>2
      <4>2. Finished.quantity \in {-1, 1} /\ Finished.undoes \in 0..1
        BY DEF Finished
      <4> QED BY <4>1, <4>2
    <3>3. CASE bulk = <<Finished, Undone>>
      <4>1. DOMAIN bulk = {1, 2} /\ bulk[1] = Finished /\ bulk[2] = Undone
        BY <3>3
      <4>2. /\ Finished.quantity \in {-1, 1} /\ Finished.undoes \in 0..1
            /\ Undone.quantity \in {-1, 1} /\ Undone.undoes \in 0..1
        BY DEF Finished, Undone
      <4> QED BY <4>1, <4>2
    <3> QED BY <1>2, <3>1, <3>2, <3>3 DEF BulkInv
  <2>6. \A t \in Tab : job[t].op \in {"NONE", "EDIT", "UNDO", "CLOSE"}
    BY <1>2, KindsOfJob DEF JobsInv
  <2>7. till \in [Method -> Int] /\ recorded.books \in [Method -> Int]
    BY <1>2, BalanceIs DEF MoneyInv, TillInv, ShapeInv, Books
  <2> QED BY <2>1, <2>2, <2>3, <2>4, <2>5, <2>6, <2>7 DEF TypeOK
<1>3. ASSUME ShapeInv, Bounded, LedgerInv, JobsInv, StockInv, [Next]_vars
      PROVE  (ShapeInv /\ Bounded)'
  BY <1>3, ShapeStep, BoundedStep
<1> QED
  BY <1>1, <1>2, <1>3, StockInvariance, LedgerInvariance, JobsInvariance, BulkInvariance,
     MoneyInvariance, PTL DEF Spec
=============================================================================
