------------------------------ MODULE Checkout ------------------------------
(***************************************************************************)
(* The arithmetic of a checkout: the price of a draft under the published  *)
(* policy and the payment parts it is settled with.  Amounts are minor     *)
(* units.  (The safe-integer bound of MoneyMinor, an exception in the      *)
(* code, is not modelled.)                                                 *)
(***************************************************************************)
EXTENDS Integers, Sequences

CONSTANTS CashMethod,   \* the payment method of type CASH
          OtherMethod,  \* a payment method of another type
          NoAmount      \* null

\* A published policy: service charge and tax in basis points.  (At most 10000
\* in the code; nothing here needs that.)
Policy == [serviceBps: Nat, taxBps: Nat]

\* Half a unit is rounded up.
BasisPoints(base, bps) ==
  IF base = 0 \/ bps = 0 THEN 0 ELSE (base * bps + 5000) \div 10000

\* calculateCheckoutPricing: the service charge is on the discounted items,
\* the tax on those, the charge and the delivery fee.
Pricing(subtotal, discount, fee, policy) ==
  LET net     == subtotal - discount
      service == BasisPoints(net, policy.serviceBps)
      tax     == BasisPoints(net + service + fee, policy.taxBps)
  IN [subtotal |-> subtotal, discount |-> discount, fee |-> fee,
      service |-> service, tax |-> tax, total |-> net + service + fee + tax]

Method == {CashMethod, OtherMethod}

\* A payment draft: NONE, one method (cash: what was received, NoAmount if it
\* was not entered), or a split in which only the first amount is entered.
PaymentDraft == [mode: {"NONE", "SINGLE", "SPLIT"}, methodA: Method, methodB: Method,
                 amountA: Nat, received: Nat \cup {NoAmount}]

\* preparePart.  (Change is given on cash only.)
Part(method, allocated, received) ==
  IF method # CashMethod
  THEN [method |-> method, allocated |-> allocated,
        received |-> NoAmount, change |-> NoAmount]
  ELSE LET given == IF received = NoAmount THEN allocated ELSE received IN
       [method |-> method, allocated |-> allocated,
        received |-> given, change |-> given - allocated]

\* What preparePaymentParts refuses.
Payable(p, total) ==
  \/ p.mode = "NONE" /\ total = 0
  \/ /\ p.mode = "SINGLE"
     /\ p.methodA = CashMethod /\ p.received # NoAmount => p.received >= total
  \/ p.mode = "SPLIT" /\ p.methodA # p.methodB /\ p.amountA \in 0..total

\* Mutant of Parts: the remainder is taken of the items, before charges.
PartsOfItems(p, pricing) ==
  IF p.mode # "SPLIT" THEN <<>>
  ELSE <<Part(p.methodA, p.amountA, NoAmount),
         Part(p.methodB, pricing.subtotal - p.amountA, NoAmount)>>
Parts(p, pricing) ==
  IF p.mode = "NONE" THEN <<>>
  ELSE IF p.mode = "SINGLE" THEN <<Part(p.methodA, pricing.total, p.received)>>
  ELSE <<Part(p.methodA, p.amountA, NoAmount),
         Part(p.methodB, pricing.total - p.amountA, NoAmount)>>

\* What a method was allocated; an order has at most two parts.
Allocated(parts, m) ==
  LET part(i) == IF i \in DOMAIN parts /\ parts[i].method = m
                 THEN parts[i].allocated ELSE 0
  IN part(1) + part(2)

\* validateOrderDraft: the amounts.  d has the draft's subtotal, discount, fee
\* (0 unless it is delivered) and payment.
Valid(d, policy) ==
  /\ d.subtotal \in Nat /\ d.discount \in 0..d.subtotal /\ d.fee \in Nat
  /\ Payable(d.payment, Pricing(d.subtotal, d.discount, d.fee, policy).total)

\* assertOrderSnapshotIntegrity, on the amounts.
Balanced(pricing, parts) ==
  /\ pricing.service >= 0 /\ pricing.tax >= 0 /\ pricing.total >= 0
  /\ pricing.discount <= pricing.subtotal
  /\ pricing.total = pricing.subtotal - pricing.discount + pricing.service
                       + pricing.fee + pricing.tax
  /\ Allocated(parts, CashMethod) + Allocated(parts, OtherMethod) = pricing.total
  /\ \A i \in DOMAIN parts :
       /\ parts[i].allocated >= 0
       /\ parts[i].method = CashMethod =>
            /\ parts[i].received >= parts[i].allocated
            /\ parts[i].change = parts[i].received - parts[i].allocated
=============================================================================
