---------------------------- MODULE MCDayBooks ----------------------------
EXTENDS DayBooks

CONSTANTS t1, t2, o1, o2, u, v,
          MaxCommands  \* bound: changes of orders and expenses, bulk movements, shifts

\* A service charge of 0.75 and a tax of 1.9 are rounded; a split delivery, and
\* an order discounted to nothing that is given change.
SmallPolicy == [serviceBps |-> 750, taxBps |-> 1400]
Payment == [mode |-> "NONE", methodA |-> CashMethod, methodB |-> OtherMethod,
            amountA |-> 0, received |-> NoAmount]
Drafts == {
  [subtotal |-> 10, discount |-> 0, fee |-> 3, delivery |-> TRUE,
   payment |-> [Payment EXCEPT !.mode = "SPLIT", !.amountA = 4]],
  [subtotal |-> 5,  discount |-> 5, fee |-> 0, delivery |-> FALSE,
   payment |-> [Payment EXCEPT !.mode = "SINGLE", !.received = 20]]}

\* The commands that were carried out, all kinds together.
Edits == MapThenSumSet(LAMBDA e : Len(rows[e]), Expense)
FewCommands == Changes + Edits + Len(bulk) + shifts <= MaxCommands

Symmetric == Permutations({t1, t2}) \cup Permutations({o1, o2}) \cup Permutations({u, v})
=============================================================================
