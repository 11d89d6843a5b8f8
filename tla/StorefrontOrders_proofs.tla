---------------------- MODULE StorefrontOrders_proofs ----------------------
(***************************************************************************)
(* Proofs about StorefrontOrders, for any number of orders, any sizes and  *)
(* any number of interventions.                                            *)
(***************************************************************************)
EXTENDS StorefrontOrders, FiniteSetTheorems, TLAPS

-----------------------------------------------------------------------------
(* The inductive invariant.                                                *)

Bought == {"paid", "refunded"}

\* A checkout's progress: unborn, being billed, billed.
BillingOK(o) ==
  /\ checkout[o] = "idle" => Status(o) = "none"
  /\ Status(o) = "none" =>
       /\ intent[o] = "none" /\ releasing[o] = "no" /\ ~order[o].billed
       /\ checkout[o] = "idle"
       /\ o \notin paying /\ o \notin refunding
  /\ checkout[o] \in {"reserved", "billing"} => ~order[o].billed
  /\ checkout[o] = "reserved" => intent[o] = "none"
  /\ InFlight(o) => order[o].billed

\* A release saw a payment that can no longer happen; while nobody can pay any more,
\* it has not looked at one.
ReleaseOK(o) ==
  /\ releasing[o] = "canceled" => intent[o] = "canceled"
  /\ releasing[o] = "unbilled" =>
       /\ o \notin paying
       /\ ~InFlight(o)
       /\ o \in lapsed \/ (~order[o].billed /\ checkout[o] = "done")

\* A pay request about to confirm works on a billed order that still holds its units,
\* or confirms in vain.
PayOK(o) ==
  o \in paying =>
    /\ order[o].billed
    /\ Pending(o) \/ Status(o) \in Bought \/ intent[o] = "canceled"

\* What each outcome says of the payment and of the units.
OutcomeOK(o) ==
  /\ Status(o) \in Bought => intent[o] = "succeeded"
  /\ Status(o) = "failed" => ~InFlight(o) /\ order[o].stock_released
  /\ Pending(o) => ~order[o].stock_released /\ order[o].quantity > 0
  /\ o \in refunding => Status(o) \in Bought

OrderOK(o) == BillingOK(o) /\ ReleaseOK(o) /\ PayOK(o) /\ OutcomeOK(o)

\* An open checkout finds its item still for sale.
ShelfOK(o) ==
  Pending(o) => /\ item.status \in {"active", "pending_purchase"}
                /\ ~item.taken_down /\ ~item.sold_at

ItemOK ==
  /\ item.taken_down => item.status = "removed"
  /\ item.sold_at => item.status \in {"sold", "removed"}
  /\ item.status = "sold" => item.sold_at
  /\ item.prior_status # "pending_purchase"

StoreInv ==
  /\ TypeOK
  /\ \A o \in Orders : OrderOK(o)
  /\ \A o \in Orders : ShelfOK(o)
  /\ ItemOK
  /\ InCheckoutIsHeld

-----------------------------------------------------------------------------
(* What an update leaves behind.                                           *)

LEMMA RowSet ==
  ASSUME TypeOK, NEW o \in Orders, NEW r \in Order, SetOrder(o, r)
  PROVE  /\ order' \in [Orders -> Order]
         /\ order'[o] = r
         /\ \A p \in Orders : p # o => order'[p] = order[p]
BY DEF TypeOK, SetOrder

\* All that the conditions on an order read.
Untouched(p) ==
  /\ order'[p] = order[p] /\ checkout'[p] = checkout[p] /\ intent'[p] = intent[p]
  /\ releasing'[p] = releasing[p]
  /\ p \in paying' <=> p \in paying
  /\ p \in lapsed' <=> p \in lapsed
  /\ p \in refunding' <=> p \in refunding

LEMMA UntouchedOK ==
  ASSUME NEW p \in Orders, OrderOK(p), Untouched(p)
  PROVE  OrderOK(p)'
<1> USE DEF Untouched, Status, Pending, InFlight
<1>1. BillingOK(p)'
  BY DEF OrderOK, BillingOK
<1>2. ReleaseOK(p)'
  BY DEF OrderOK, ReleaseOK
<1>3. PayOK(p)'
  BY DEF OrderOK, PayOK
<1>4. OutcomeOK(p)'
  BY DEF OrderOK, OutcomeOK
<1> QED BY <1>1, <1>2, <1>3, <1>4 DEF OrderOK

\* A step on order o.
LEMMA OneOrder ==
  ASSUME StoreInv, NEW o \in Orders, OrderOK(o)',
         \A p \in Orders : p # o => Untouched(p)
  PROVE  \A p \in Orders : OrderOK(p)'
<1> SUFFICES ASSUME NEW p \in Orders PROVE OrderOK(p)'
  OBVIOUS
<1>1. CASE p = o
  BY <1>1
<1>2. CASE p # o
  BY <1>2, UntouchedOK DEF StoreInv
<1> QED BY <1>1, <1>2

\* The item, and what it reads of the orders, is as it was.
SameShelf ==
  /\ item' = item
  /\ \A p \in Orders : /\ order'[p].payment_status = order[p].payment_status
                       /\ order'[p].stock_released = order[p].stock_released
                       /\ order'[p].quantity = order[p].quantity

LEMMA SameShelfOK ==
  ASSUME StoreInv, SameShelf
  PROVE  /\ \A p \in Orders : ShelfOK(p)'
         /\ ItemOK'
         /\ InCheckoutIsHeld'
<1> USE DEF SameShelf, Status, Pending
<1>1. \A p \in Orders : ShelfOK(p)'
  BY DEF StoreInv, ShelfOK
<1>2. ItemOK'
  BY DEF StoreInv, ItemOK
<1>3. \A p \in Orders : Held(p)' <=> Held(p)
  BY DEF Held
<1>4. InCheckoutIsHeld'
  BY <1>3 DEF StoreInv, InCheckoutIsHeld
<1> QED BY <1>1, <1>2, <1>4

-----------------------------------------------------------------------------
(* The steps that leave the item alone.                                    *)

QuietStep(o) ==
  /\ TypeOK'
  /\ SameShelf
  /\ OrderOK(o)'
  /\ \A p \in Orders : p # o => Untouched(p)

LEMMA CreateIntentOK ==
  ASSUME StoreInv, NEW o \in Orders, CreateIntent(o)
  PROVE  QuietStep(o)
<1> USE DEF CreateIntent, itemVars, orderVars, taskVars, cardVars
<1>1. TypeOK'
  BY DEF StoreInv, TypeOK
<1>2. item' = item /\ order' = order
  OBVIOUS
<1>3. \A p \in Orders : p # o => Untouched(p)
  BY <1>2 DEF StoreInv, TypeOK, Untouched
<1> USE DEF Status, Pending, InFlight
<1>o. OrderOK(o)
  BY DEF StoreInv
<1>4. BillingOK(o)'
  BY <1>o, <1>2 DEF StoreInv, TypeOK, OrderOK, BillingOK, ReleaseOK, PayOK, OutcomeOK
<1>5. ReleaseOK(o)'
  BY <1>o, <1>2 DEF StoreInv, TypeOK, OrderOK, BillingOK, ReleaseOK, PayOK, OutcomeOK
<1>6. PayOK(o)'
  BY <1>o, <1>2 DEF StoreInv, TypeOK, OrderOK, BillingOK, ReleaseOK, PayOK, OutcomeOK
<1>7. OutcomeOK(o)'
  BY <1>o, <1>2 DEF StoreInv, TypeOK, OrderOK, BillingOK, ReleaseOK, PayOK, OutcomeOK
<1>8. SameShelf
  BY <1>2 DEF SameShelf
<1> QED BY <1>1, <1>3, <1>4, <1>5, <1>6, <1>7, <1>8 DEF QuietStep, OrderOK

LEMMA BillingFailsOK ==
  ASSUME StoreInv, NEW o \in Orders, BillingFails(o)
  PROVE  QuietStep(o)
<1> USE DEF BillingFails, itemVars, orderVars, taskVars, cardVars
<1>1. TypeOK'
  BY DEF StoreInv, TypeOK
<1>2. item' = item /\ order' = order
  OBVIOUS
<1>3. \A p \in Orders : p # o => Untouched(p)
  BY <1>2 DEF StoreInv, TypeOK, Untouched
<1> USE DEF Status, Pending, InFlight
<1>o. OrderOK(o)
  BY DEF StoreInv
<1>4. BillingOK(o)'
  BY <1>o, <1>2 DEF StoreInv, TypeOK, OrderOK, BillingOK, ReleaseOK, PayOK, OutcomeOK
<1>5. ReleaseOK(o)'
  BY <1>o, <1>2 DEF StoreInv, TypeOK, OrderOK, BillingOK, ReleaseOK, PayOK, OutcomeOK
<1>6. PayOK(o)'
  BY <1>o, <1>2 DEF StoreInv, TypeOK, OrderOK, BillingOK, ReleaseOK, PayOK, OutcomeOK
<1>7. OutcomeOK(o)'
  BY <1>o, <1>2 DEF StoreInv, TypeOK, OrderOK, BillingOK, ReleaseOK, PayOK, OutcomeOK
<1>8. SameShelf
  BY <1>2 DEF SameShelf
<1> QED BY <1>1, <1>3, <1>4, <1>5, <1>6, <1>7, <1>8 DEF QuietStep, OrderOK

LEMMA PayBeginsOK ==
  ASSUME StoreInv, NEW o \in Orders, PayBegins(o)
  PROVE  QuietStep(o)
<1> USE DEF PayBegins, Payable, Held, itemVars, orderVars, taskVars, cardVars
<1>1. TypeOK'
  BY DEF StoreInv, TypeOK
<1>2. item' = item /\ order' = order
  OBVIOUS
<1>3. \A p \in Orders : p # o => Untouched(p)
  BY <1>2 DEF StoreInv, TypeOK, Untouched
<1> USE DEF Status, Pending, InFlight
<1>o. OrderOK(o)
  BY DEF StoreInv
<1>4. BillingOK(o)'
  BY <1>o, <1>2 DEF StoreInv, TypeOK, OrderOK, BillingOK, ReleaseOK, PayOK, OutcomeOK
<1>5. ReleaseOK(o)'
  BY <1>o, <1>2 DEF StoreInv, TypeOK, OrderOK, BillingOK, ReleaseOK, PayOK, OutcomeOK
<1>6. PayOK(o)'
  BY <1>o, <1>2 DEF StoreInv, TypeOK, OrderOK, BillingOK, ReleaseOK, PayOK, OutcomeOK
<1>7. OutcomeOK(o)'
  BY <1>o, <1>2 DEF StoreInv, TypeOK, OrderOK, BillingOK, ReleaseOK, PayOK, OutcomeOK
<1>8. SameShelf
  BY <1>2 DEF SameShelf
<1> QED BY <1>1, <1>3, <1>4, <1>5, <1>6, <1>7, <1>8 DEF QuietStep, OrderOK

LEMMA ConfirmOK ==
  ASSUME StoreInv, NEW o \in Orders, Confirm(o)
  PROVE  QuietStep(o)
<1> USE DEF Confirm, itemVars, orderVars, taskVars, cardVars
<1>1. TypeOK'
  BY DEF StoreInv, TypeOK
<1>2. item' = item /\ order' = order
  OBVIOUS
<1>3. \A p \in Orders : p # o => Untouched(p)
  BY <1>2 DEF StoreInv, TypeOK, Untouched
<1> USE DEF Status, Pending, InFlight
<1>o. OrderOK(o)
  BY DEF StoreInv
<1>4. BillingOK(o)'
  BY <1>o, <1>2 DEF StoreInv, TypeOK, OrderOK, BillingOK, ReleaseOK, PayOK, OutcomeOK
<1>5. ReleaseOK(o)'
  BY <1>o, <1>2 DEF StoreInv, TypeOK, OrderOK, BillingOK, ReleaseOK, PayOK, OutcomeOK
<1>6. PayOK(o)'
  BY <1>o, <1>2 DEF StoreInv, TypeOK, OrderOK, BillingOK, ReleaseOK, PayOK, OutcomeOK
<1>7. OutcomeOK(o)'
  BY <1>o, <1>2 DEF StoreInv, TypeOK, OrderOK, BillingOK, ReleaseOK, PayOK, OutcomeOK
<1>8. SameShelf
  BY <1>2 DEF SameShelf
<1> QED BY <1>1, <1>3, <1>4, <1>5, <1>6, <1>7, <1>8 DEF QuietStep, OrderOK

LEMMA PaymentSettlesOK ==
  ASSUME StoreInv, NEW o \in Orders, PaymentSettles(o)
  PROVE  QuietStep(o)
<1> USE DEF PaymentSettles, itemVars, orderVars, taskVars, cardVars
<1>1. TypeOK'
  BY DEF StoreInv, TypeOK
<1>2. item' = item /\ order' = order
  OBVIOUS
<1>3. \A p \in Orders : p # o => Untouched(p)
  BY <1>2 DEF StoreInv, TypeOK, Untouched
<1> USE DEF Status, Pending, InFlight
<1>o. OrderOK(o)
  BY DEF StoreInv
<1>4. BillingOK(o)'
  BY <1>o, <1>2 DEF StoreInv, TypeOK, OrderOK, BillingOK, ReleaseOK, PayOK, OutcomeOK
<1>5. ReleaseOK(o)'
  BY <1>o, <1>2 DEF StoreInv, TypeOK, OrderOK, BillingOK, ReleaseOK, PayOK, OutcomeOK
<1>6. PayOK(o)'
  BY <1>o, <1>2 DEF StoreInv, TypeOK, OrderOK, BillingOK, ReleaseOK, PayOK, OutcomeOK
<1>7. OutcomeOK(o)'
  BY <1>o, <1>2 DEF StoreInv, TypeOK, OrderOK, BillingOK, ReleaseOK, PayOK, OutcomeOK
<1>8. SameShelf
  BY <1>2 DEF SameShelf
<1> QED BY <1>1, <1>3, <1>4, <1>5, <1>6, <1>7, <1>8 DEF QuietStep, OrderOK

LEMMA IntentCanceledOutsideOK ==
  ASSUME StoreInv, NEW o \in Orders, IntentCanceledOutside(o)
  PROVE  QuietStep(o)
<1> USE DEF IntentCanceledOutside, itemVars, orderVars, taskVars, cardVars
<1>1. TypeOK'
  BY DEF StoreInv, TypeOK
<1>2. item' = item /\ order' = order
  OBVIOUS
<1>3. \A p \in Orders : p # o => Untouched(p)
  BY <1>2 DEF StoreInv, TypeOK, Untouched
<1> USE DEF Status, Pending, InFlight
<1>o. OrderOK(o)
  BY DEF StoreInv
<1>4. BillingOK(o)'
  BY <1>o, <1>2 DEF StoreInv, TypeOK, OrderOK, BillingOK, ReleaseOK, PayOK, OutcomeOK
<1>5. ReleaseOK(o)'
  BY <1>o, <1>2 DEF StoreInv, TypeOK, OrderOK, BillingOK, ReleaseOK, PayOK, OutcomeOK
<1>6. PayOK(o)'
  BY <1>o, <1>2 DEF StoreInv, TypeOK, OrderOK, BillingOK, ReleaseOK, PayOK, OutcomeOK
<1>7. OutcomeOK(o)'
  BY <1>o, <1>2 DEF StoreInv, TypeOK, OrderOK, BillingOK, ReleaseOK, PayOK, OutcomeOK
<1>8. SameShelf
  BY <1>2 DEF SameShelf
<1> QED BY <1>1, <1>3, <1>4, <1>5, <1>6, <1>7, <1>8 DEF QuietStep, OrderOK

LEMMA LapseOK ==
  ASSUME StoreInv, NEW o \in Orders, Lapse(o)
  PROVE  QuietStep(o)
<1> USE DEF Lapse, itemVars, orderVars, taskVars, cardVars
<1>1. TypeOK'
  BY DEF StoreInv, TypeOK
<1>2. item' = item /\ order' = order
  OBVIOUS
<1>3. \A p \in Orders : p # o => Untouched(p)
  BY <1>2 DEF StoreInv, TypeOK, Untouched
<1> USE DEF Status, Pending, InFlight
<1>o. OrderOK(o)
  BY DEF StoreInv
<1>4. BillingOK(o)'
  BY <1>o, <1>2 DEF StoreInv, TypeOK, OrderOK, BillingOK, ReleaseOK, PayOK, OutcomeOK
<1>5. ReleaseOK(o)'
  BY <1>o, <1>2 DEF StoreInv, TypeOK, OrderOK, BillingOK, ReleaseOK, PayOK, OutcomeOK
<1>6. PayOK(o)'
  BY <1>o, <1>2 DEF StoreInv, TypeOK, OrderOK, BillingOK, ReleaseOK, PayOK, OutcomeOK
<1>7. OutcomeOK(o)'
  BY <1>o, <1>2 DEF StoreInv, TypeOK, OrderOK, BillingOK, ReleaseOK, PayOK, OutcomeOK
<1>8. SameShelf
  BY <1>2 DEF SameShelf
<1> QED BY <1>1, <1>3, <1>4, <1>5, <1>6, <1>7, <1>8 DEF QuietStep, OrderOK

LEMMA SweepOK ==
  ASSUME StoreInv, NEW o \in Orders, Sweep(o)
  PROVE  QuietStep(o)
<1> USE DEF Sweep, BeginRelease, Held, itemVars, orderVars, taskVars, cardVars
<1>1. TypeOK'
  BY DEF StoreInv, TypeOK
<1>2. item' = item /\ order' = order
  OBVIOUS
<1>3. \A p \in Orders : p # o => Untouched(p)
  BY <1>2 DEF StoreInv, TypeOK, Untouched
<1> USE DEF Status, Pending, InFlight
<1>o. OrderOK(o)
  BY DEF StoreInv
<1>4. BillingOK(o)'
  BY <1>o, <1>2 DEF StoreInv, TypeOK, OrderOK, BillingOK, ReleaseOK, PayOK, OutcomeOK
<1>5. ReleaseOK(o)'
  BY <1>o, <1>2 DEF StoreInv, TypeOK, OrderOK, BillingOK, ReleaseOK, PayOK, OutcomeOK
<1>6. PayOK(o)'
  BY <1>o, <1>2 DEF StoreInv, TypeOK, OrderOK, BillingOK, ReleaseOK, PayOK, OutcomeOK
<1>7. OutcomeOK(o)'
  BY <1>o, <1>2 DEF StoreInv, TypeOK, OrderOK, BillingOK, ReleaseOK, PayOK, OutcomeOK
<1>8. SameShelf
  BY <1>2 DEF SameShelf
<1> QED BY <1>1, <1>3, <1>4, <1>5, <1>6, <1>7, <1>8 DEF QuietStep, OrderOK

LEMMA BuyerRetiresOK ==
  ASSUME StoreInv, NEW o \in Orders, BuyerRetires(o)
  PROVE  QuietStep(o)
<1> USE DEF BuyerRetires, BeginRelease, Held, itemVars, orderVars, taskVars, cardVars
<1>1. TypeOK'
  BY DEF StoreInv, TypeOK
<1>2. item' = item /\ order' = order
  OBVIOUS
<1>3. \A p \in Orders : p # o => Untouched(p)
  BY <1>2 DEF StoreInv, TypeOK, Untouched
<1> USE DEF Status, Pending, InFlight
<1>o. OrderOK(o)
  BY DEF StoreInv
<1>4. BillingOK(o)'
  BY <1>o, <1>2 DEF StoreInv, TypeOK, OrderOK, BillingOK, ReleaseOK, PayOK, OutcomeOK
<1>5. ReleaseOK(o)'
  BY <1>o, <1>2 DEF StoreInv, TypeOK, OrderOK, BillingOK, ReleaseOK, PayOK, OutcomeOK
<1>6. PayOK(o)'
  BY <1>o, <1>2 DEF StoreInv, TypeOK, OrderOK, BillingOK, ReleaseOK, PayOK, OutcomeOK
<1>7. OutcomeOK(o)'
  BY <1>o, <1>2 DEF StoreInv, TypeOK, OrderOK, BillingOK, ReleaseOK, PayOK, OutcomeOK
<1>8. SameShelf
  BY <1>2 DEF SameShelf
<1> QED BY <1>1, <1>3, <1>4, <1>5, <1>6, <1>7, <1>8 DEF QuietStep, OrderOK

LEMMA AdminRefundsOK ==
  ASSUME StoreInv, NEW o \in Orders, AdminRefunds(o)
  PROVE  QuietStep(o)
<1> USE DEF AdminRefunds, Bought, itemVars, orderVars, taskVars, cardVars
<1>1. TypeOK'
  BY DEF StoreInv, TypeOK
<1>2. item' = item /\ order' = order
  OBVIOUS
<1>3. \A p \in Orders : p # o => Untouched(p)
  BY <1>2 DEF StoreInv, TypeOK, Untouched
<1> USE DEF Status, Pending, InFlight
<1>o. OrderOK(o)
  BY DEF StoreInv
<1>4. BillingOK(o)'
  BY <1>o, <1>2 DEF StoreInv, TypeOK, OrderOK, BillingOK, ReleaseOK, PayOK, OutcomeOK
<1>5. ReleaseOK(o)'
  BY <1>o, <1>2 DEF StoreInv, TypeOK, OrderOK, BillingOK, ReleaseOK, PayOK, OutcomeOK
<1>6. PayOK(o)'
  BY <1>o, <1>2 DEF StoreInv, TypeOK, OrderOK, BillingOK, ReleaseOK, PayOK, OutcomeOK
<1>7. OutcomeOK(o)'
  BY <1>o, <1>2 DEF StoreInv, TypeOK, OrderOK, BillingOK, ReleaseOK, PayOK, OutcomeOK
<1>8. SameShelf
  BY <1>2 DEF SameShelf
<1> QED BY <1>1, <1>3, <1>4, <1>5, <1>6, <1>7, <1>8 DEF QuietStep, OrderOK

LEMMA RefundedOutsideOK ==
  ASSUME StoreInv, NEW o \in Orders, RefundedOutside(o)
  PROVE  QuietStep(o)
<1> USE DEF RefundedOutside, itemVars, orderVars, taskVars, cardVars
<1>1. TypeOK'
  BY DEF StoreInv, TypeOK
<1>2. item' = item /\ order' = order
  OBVIOUS
<1>3. \A p \in Orders : p # o => Untouched(p)
  BY <1>2 DEF StoreInv, TypeOK, Untouched
<1> USE DEF Status, Pending, InFlight
<1>o. OrderOK(o)
  BY DEF StoreInv
<1>4. BillingOK(o)'
  BY <1>o, <1>2 DEF StoreInv, TypeOK, OrderOK, BillingOK, ReleaseOK, PayOK, OutcomeOK
<1>5. ReleaseOK(o)'
  BY <1>o, <1>2 DEF StoreInv, TypeOK, OrderOK, BillingOK, ReleaseOK, PayOK, OutcomeOK
<1>6. PayOK(o)'
  BY <1>o, <1>2 DEF StoreInv, TypeOK, OrderOK, BillingOK, ReleaseOK, PayOK, OutcomeOK
<1>7. OutcomeOK(o)'
  BY <1>o, <1>2 DEF StoreInv, TypeOK, OrderOK, BillingOK, ReleaseOK, PayOK, OutcomeOK
<1>8. SameShelf
  BY <1>2 DEF SameShelf
<1> QED BY <1>1, <1>3, <1>4, <1>5, <1>6, <1>7, <1>8 DEF QuietStep, OrderOK

LEMMA RequestDiesOK ==
  ASSUME StoreInv, NEW o \in Orders, RequestDies(o)
  PROVE  QuietStep(o)
<1> USE DEF RequestDies, Upset, itemVars, orderVars, taskVars, cardVars
<1>1. TypeOK'
  BY DEF StoreInv, TypeOK
<1>2. item' = item /\ order' = order
  OBVIOUS
<1>3. \A p \in Orders : p # o => Untouched(p)
  BY <1>2 DEF StoreInv, TypeOK, Untouched
<1> USE DEF Status, Pending, InFlight
<1>o. OrderOK(o)
  BY DEF StoreInv
<1>4. BillingOK(o)'
  BY <1>o, <1>2 DEF StoreInv, TypeOK, OrderOK, BillingOK, ReleaseOK, PayOK, OutcomeOK
<1>5. ReleaseOK(o)'
  BY <1>o, <1>2 DEF StoreInv, TypeOK, OrderOK, BillingOK, ReleaseOK, PayOK, OutcomeOK
<1>6. PayOK(o)'
  BY <1>o, <1>2 DEF StoreInv, TypeOK, OrderOK, BillingOK, ReleaseOK, PayOK, OutcomeOK
<1>7. OutcomeOK(o)'
  BY <1>o, <1>2 DEF StoreInv, TypeOK, OrderOK, BillingOK, ReleaseOK, PayOK, OutcomeOK
<1>8. SameShelf
  BY <1>2 DEF SameShelf
<1> QED BY <1>1, <1>3, <1>4, <1>5, <1>6, <1>7, <1>8 DEF QuietStep, OrderOK

-----------------------------------------------------------------------------
(* The steps that write the item row.                                      *)

LEMMA TakenIs ==
  ASSUME item \in Item, NEW n \in Nat, n =< item.quantity
  PROVE  /\ UnitsTaken(item, n) \in Item
         /\ UnitsTaken(item, n).quantity = item.quantity - n
         /\ UnitsTaken(item, n).quantity_sold = item.quantity_sold
         /\ UnitsTaken(item, n).status = (IF item.quantity = n THEN "pending_purchase" ELSE item.status)
         /\ UnitsTaken(item, n).sold_at = (item.sold_at)
         /\ UnitsTaken(item, n).taken_down = item.taken_down
         /\ UnitsTaken(item, n).prior_status = item.prior_status
<1> DEFINE q == item.quantity - n
           k == item.quantity_sold
           s == IF item.quantity = n THEN "pending_purchase" ELSE item.status
           b == item.sold_at
<1>1. /\ item.quantity \in Nat /\ item.quantity_sold \in Nat
      /\ item.status \in Statuses /\ item.sold_at \in BOOLEAN
  BY DEF Item
<1>2. q \in Nat /\ k \in Nat
  BY <1>1
<1>3. s \in Statuses /\ b \in BOOLEAN
  BY <1>1 DEF Statuses
<1>4. UnitsTaken(item, n) =
        [item EXCEPT !.quantity = q, !.quantity_sold = k, !.status = s, !.sold_at = b]
  BY DEF UnitsTaken, Item
<1> HIDE DEF q, k, s, b
<1> DEFINE row == [item EXCEPT !.quantity = q, !.quantity_sold = k, !.status = s, !.sold_at = b]
<1>5. /\ row \in Item
      /\ row.quantity = q /\ row.quantity_sold = k /\ row.status = s /\ row.sold_at = b
      /\ row.taken_down = item.taken_down
      /\ row.prior_status = item.prior_status
  BY <1>2, <1>3 DEF Item
<1>6. UnitsTaken(item, n) = row
  BY <1>4
<1> HIDE DEF row
<1> QED BY <1>5, <1>6 DEF q, k, s, b

LEMMA BackIs ==
  ASSUME item \in Item, NEW o \in Orders, order[o].quantity \in Nat, ~order[o].stock_released
  PROVE  /\ UnitsBack(item, o) \in Item
         /\ UnitsBack(item, o).quantity = item.quantity + order[o].quantity
         /\ UnitsBack(item, o).quantity_sold = item.quantity_sold
         /\ UnitsBack(item, o).status = (IF item.status = "pending_purchase" THEN "active" ELSE item.status)
         /\ UnitsBack(item, o).sold_at = (item.sold_at)
         /\ UnitsBack(item, o).taken_down = item.taken_down
         /\ UnitsBack(item, o).prior_status = item.prior_status
<1> DEFINE q == item.quantity + order[o].quantity
           k == item.quantity_sold
           s == IF item.status = "pending_purchase" THEN "active" ELSE item.status
           b == item.sold_at
<1>1. /\ item.quantity \in Nat /\ item.quantity_sold \in Nat
      /\ item.status \in Statuses /\ item.sold_at \in BOOLEAN
  BY DEF Item
<1>2. q \in Nat /\ k \in Nat
  BY <1>1
<1>3. s \in Statuses /\ b \in BOOLEAN
  BY <1>1 DEF Statuses
<1>4. UnitsBack(item, o) =
        [item EXCEPT !.quantity = q, !.quantity_sold = k, !.status = s, !.sold_at = b]
  BY DEF UnitsBack, Item
<1> HIDE DEF q, k, s, b
<1> DEFINE row == [item EXCEPT !.quantity = q, !.quantity_sold = k, !.status = s, !.sold_at = b]
<1>5. /\ row \in Item
      /\ row.quantity = q /\ row.quantity_sold = k /\ row.status = s /\ row.sold_at = b
      /\ row.taken_down = item.taken_down
      /\ row.prior_status = item.prior_status
  BY <1>2, <1>3 DEF Item
<1>6. UnitsBack(item, o) = row
  BY <1>4
<1> HIDE DEF row
<1> QED BY <1>5, <1>6 DEF q, k, s, b

LEMMA SoldIs ==
  ASSUME item \in Item, NEW o \in Orders, order[o].quantity \in Nat
  PROVE  /\ UnitsSold(item, o) \in Item
         /\ UnitsSold(item, o).quantity = item.quantity
         /\ UnitsSold(item, o).quantity_sold = item.quantity_sold + order[o].quantity
         /\ UnitsSold(item, o).status = (IF SoldOut(o) THEN "sold" ELSE item.status)
         /\ UnitsSold(item, o).sold_at = (item.sold_at \/ SoldOut(o))
         /\ UnitsSold(item, o).taken_down = item.taken_down
         /\ UnitsSold(item, o).prior_status = item.prior_status
<1> DEFINE q == item.quantity
           k == item.quantity_sold + order[o].quantity
           s == IF SoldOut(o) THEN "sold" ELSE item.status
           b == item.sold_at \/ SoldOut(o)
<1>1. /\ item.quantity \in Nat /\ item.quantity_sold \in Nat
      /\ item.status \in Statuses /\ item.sold_at \in BOOLEAN
  BY DEF Item
<1>2. q \in Nat /\ k \in Nat
  BY <1>1
<1>3. s \in Statuses /\ b \in BOOLEAN
  BY <1>1 DEF Statuses
<1>4. UnitsSold(item, o) =
        [item EXCEPT !.quantity = q, !.quantity_sold = k, !.status = s, !.sold_at = b]
  BY DEF UnitsSold, Item
<1> HIDE DEF q, k, s, b
<1> DEFINE row == [item EXCEPT !.quantity = q, !.quantity_sold = k, !.status = s, !.sold_at = b]
<1>5. /\ row \in Item
      /\ row.quantity = q /\ row.quantity_sold = k /\ row.status = s /\ row.sold_at = b
      /\ row.taken_down = item.taken_down
      /\ row.prior_status = item.prior_status
  BY <1>2, <1>3 DEF Item
<1>6. UnitsSold(item, o) = row
  BY <1>4
<1> HIDE DEF row
<1> QED BY <1>5, <1>6 DEF q, k, s, b

LEMMA UnsoldIs ==
  ASSUME item \in Item, NEW o \in Orders, order[o].quantity \in Nat
  PROVE  /\ UnitsUnsold(item, o) \in Item
         /\ UnitsUnsold(item, o).quantity = item.quantity
         /\ UnitsUnsold(item, o).quantity_sold = (IF item.quantity_sold >= order[o].quantity
                                                THEN item.quantity_sold - order[o].quantity ELSE 0)
         /\ UnitsUnsold(item, o).status = (IF Unsell(o) THEN "removed" ELSE item.status)
         /\ UnitsUnsold(item, o).sold_at = (item.sold_at /\ ~Unsell(o))
         /\ UnitsUnsold(item, o).taken_down = item.taken_down
         /\ UnitsUnsold(item, o).prior_status = item.prior_status
<1> DEFINE q == item.quantity
           k == IF item.quantity_sold >= order[o].quantity THEN item.quantity_sold - order[o].quantity ELSE 0
           s == IF Unsell(o) THEN "removed" ELSE item.status
           b == item.sold_at /\ ~Unsell(o)
<1>1. /\ item.quantity \in Nat /\ item.quantity_sold \in Nat
      /\ item.status \in Statuses /\ item.sold_at \in BOOLEAN
  BY DEF Item
<1>2. q \in Nat /\ k \in Nat
  BY <1>1
<1>3. s \in Statuses /\ b \in BOOLEAN
  BY <1>1 DEF Statuses
<1>4. UnitsUnsold(item, o) =
        [item EXCEPT !.quantity = q, !.quantity_sold = k, !.status = s, !.sold_at = b]
  BY DEF UnitsUnsold, Item
<1> HIDE DEF q, k, s, b
<1> DEFINE row == [item EXCEPT !.quantity = q, !.quantity_sold = k, !.status = s, !.sold_at = b]
<1>5. /\ row \in Item
      /\ row.quantity = q /\ row.quantity_sold = k /\ row.status = s /\ row.sold_at = b
      /\ row.taken_down = item.taken_down
      /\ row.prior_status = item.prior_status
  BY <1>2, <1>3 DEF Item
<1>6. UnitsUnsold(item, o) = row
  BY <1>4
<1> HIDE DEF row
<1> QED BY <1>5, <1>6 DEF q, k, s, b

\* What a step of order o must show of the item.
ShelfStep == /\ \A p \in Orders : ShelfOK(p)'
             /\ ItemOK'
             /\ InCheckoutIsHeld'

\* The row of order o is a new row r; the others stay.
RowStep(o, r) == /\ order' \in [Orders -> Order]
                 /\ order'[o] = r
                 /\ \A p \in Orders : p # o => order'[p] = order[p]

LEMMA ReserveShelf ==
  ASSUME StoreInv, NEW o \in Orders, NEW n \in Sizes, Reserve(o, n)
  PROVE  /\ RowStep(o, [NoOrder EXCEPT !.payment_status = "pending", !.quantity = n])
         /\ item' \in Item
         /\ ShelfStep
<1> DEFINE r == [NoOrder EXCEPT !.payment_status = "pending", !.quantity = n]
<1>1. n \in Nat /\ n > 0
  BY AmountsAssumption
<1>2. r \in Order
  BY <1>1 DEF NoOrder, Order
<1>3. RowStep(o, r)
  BY <1>2, RowSet DEF StoreInv, Reserve, RowStep
<1>4. /\ r.payment_status = "pending" /\ r.quantity = n /\ ~r.stock_released
  BY DEF NoOrder
<1>5. item \in Item /\ n =< item.quantity /\ item.status = "active" /\ item' = UnitsTaken(item, n)
  BY DEF StoreInv, TypeOK, Reserve, Offered
<1>6. item.quantity \in Nat
  BY <1>5 DEF Item
<1> HIDE DEF r
<1>7. /\ item' \in Item
      /\ item'.quantity = item.quantity - n
      /\ item'.status = IF item.quantity = n THEN "pending_purchase" ELSE "active"
      /\ item'.sold_at = item.sold_at
      /\ item'.taken_down = item.taken_down
      /\ item'.prior_status = item.prior_status
  BY <1>1, <1>5, TakenIs
<1>8. \A p \in Orders : ShelfOK(p)'
  BY <1>5, <1>7 DEF StoreInv, ItemOK, ShelfOK
<1>9. ItemOK'
  BY <1>5, <1>7 DEF StoreInv, ItemOK
<1>10. Held(o)'
  BY <1>3, <1>4 DEF RowStep, Held, Pending, Status
<1>11. InCheckoutIsHeld'
  BY <1>1, <1>6, <1>7, <1>10 DEF InCheckoutIsHeld
<1> QED BY <1>3, <1>7, <1>8, <1>9, <1>11 DEF ShelfStep, r

\* The row of order o after a release.
Failed(o) == [order[o] EXCEPT !.payment_status = "failed", !.stock_released = TRUE]

LEMMA ReleaseShelf ==
  ASSUME StoreInv, NEW o \in Orders, Release(o), Status(o) # "none"
  PROVE  /\ \/ Status(o) \in Bought /\ RowStep(o, order[o])
            \/ Status(o) \notin Bought /\ RowStep(o, Failed(o))
         /\ item' \in Item
         /\ ShelfStep
<1>0. /\ order \in [Orders -> Order] /\ order[o] \in Order /\ item \in Item
      /\ order[o].quantity \in Nat /\ item.quantity \in Nat
  BY DEF StoreInv, TypeOK, Order, Item
<1>1. CASE Status(o) \in Bought
  <2>1. order' = order /\ item' = item
    BY <1>1 DEF Release, Bought
  <2>2. SameShelf
    BY <2>1 DEF SameShelf
  <2> QED BY <1>0, <1>1, <2>1, <2>2, SameShelfOK DEF RowStep, ShelfStep
<1>2. CASE Status(o) \notin Bought
  <2>1. SetOrder(o, Failed(o)) /\ item' = UnitsBack(item, o)
    BY <1>2 DEF Release, Bought, Failed
  <2>2. Failed(o) \in Order
    BY <1>0 DEF Failed, Order
  <2>3. RowStep(o, Failed(o))
    BY <2>1, <2>2, RowSet DEF StoreInv, RowStep
  <2>4. Failed(o).payment_status = "failed"
    BY <1>0 DEF Failed, Order
  <2>5. ~Held(o)' /\ ~Pending(o)' /\ \A p \in Orders : p # o => (Held(p)' <=> Held(p)) /\ (Pending(p)' <=> Pending(p))
    BY <2>3, <2>4 DEF RowStep, Held, Pending, Status
  <2>6. CASE order[o].stock_released
    <3>1. item' = item
      BY <2>1, <2>6 DEF UnitsBack
    <3>2. ~Held(o)
      BY <2>6 DEF Held
    <3>3. \A p \in Orders : ShelfOK(p)'
      BY <2>5, <3>1 DEF StoreInv, ShelfOK
    <3>4. ItemOK'
      BY <3>1 DEF StoreInv, ItemOK
    <3>5. InCheckoutIsHeld'
      BY <2>5, <3>1, <3>2 DEF StoreInv, InCheckoutIsHeld
    <3> QED BY <1>0, <1>2, <2>3, <3>1, <3>3, <3>4, <3>5 DEF ShelfStep
  <2>7. CASE ~order[o].stock_released
    <3>1. /\ item' \in Item
          /\ item'.quantity = item.quantity + order[o].quantity
          /\ item'.status = IF item.status = "pending_purchase" THEN "active" ELSE item.status
          /\ item'.sold_at = item.sold_at
          /\ item'.taken_down = item.taken_down
          /\ item'.prior_status = item.prior_status
      BY <1>0, <2>1, <2>7, BackIs
    <3>2. Pending(o) /\ Held(o) /\ order[o].quantity > 0
      <4>1. Status(o) \in {"pending", "failed"}
        BY <1>0, <1>2 DEF Status, Order, Bought
      <4> QED BY <1>0, <2>7, <4>1 DEF StoreInv, OrderOK, OutcomeOK, Pending, Held
    <3>3. item.status \in {"active", "pending_purchase"} /\ ~item.taken_down /\ ~item.sold_at
      BY <3>2 DEF StoreInv, ShelfOK
    <3>4. \A p \in Orders : ShelfOK(p)'
      BY <3>1, <3>3 DEF ShelfOK
    <3>5. ItemOK'
      BY <3>1, <3>3 DEF StoreInv, ItemOK
    <3>6. item'.quantity # 0 /\ item'.status # "pending_purchase"
      BY <1>0, <3>1, <3>2, <3>3
    <3>7. InCheckoutIsHeld'
      BY <3>6 DEF InCheckoutIsHeld
    <3> QED BY <1>2, <2>3, <3>1, <3>4, <3>5, <3>7 DEF ShelfStep
  <2> QED BY <2>6, <2>7
<1> QED BY <1>1, <1>2

\* The row of order o after a full refund.
Refunded(o) == [order[o] EXCEPT !.payment_status = "refunded"]

LEMMA RefundShelf ==
  ASSUME StoreInv, NEW o \in Orders, ApplyRefund(o), Status(o) = "paid"
  PROVE  /\ RowStep(o, Refunded(o))
         /\ item' \in Item
         /\ ShelfStep
<1>0. /\ order \in [Orders -> Order] /\ order[o] \in Order /\ item \in Item
      /\ order[o].quantity \in Nat /\ item.quantity \in Nat
  BY DEF StoreInv, TypeOK, Order, Item
<1>1. SetOrder(o, Refunded(o)) /\ item' = UnitsUnsold(item, o)
  BY DEF ApplyRefund, Refunded
<1>2. Refunded(o) \in Order
  BY <1>0 DEF Refunded, Order
<1>3. RowStep(o, Refunded(o))
  BY <1>1, <1>2, RowSet DEF StoreInv, RowStep
<1>4. Refunded(o).payment_status = "refunded"
  BY <1>0 DEF Refunded, Order
<1>5. /\ ~Held(o) /\ ~Held(o)' /\ ~Pending(o)'
      /\ \A p \in Orders : p # o => (Held(p)' <=> Held(p)) /\ (Pending(p)' <=> Pending(p))
  BY <1>3, <1>4 DEF RowStep, Held, Pending, Status
<1>7. /\ item' \in Item
      /\ item'.quantity = item.quantity
      /\ item'.status = IF Unsell(o) THEN "removed" ELSE item.status
      /\ item'.sold_at = (item.sold_at /\ ~Unsell(o))
      /\ item'.taken_down = item.taken_down
      /\ item'.prior_status = item.prior_status
  BY <1>0, <1>1, UnsoldIs
<1>8. Unsell(o) => item.status = "sold" /\ item.sold_at /\ ~item.taken_down
  BY DEF Unsell, StoreInv, ItemOK
<1>9. \A p \in Orders : Pending(p)' => Pending(p) /\ ~Unsell(o)
  BY <1>5, <1>8 DEF StoreInv, ShelfOK
<1>10. \A p \in Orders : ShelfOK(p)'
  BY <1>7, <1>9 DEF StoreInv, ShelfOK
<1>11. ItemOK'
  BY <1>7, <1>8 DEF StoreInv, ItemOK
<1>12. InCheckoutIsHeld'
  <2>1. (\E p \in Orders : Held(p)') <=> (\E p \in Orders : Held(p))
    BY <1>5
  <2>2. (item.quantity = 0 /\ \E p \in Orders : Held(p)) <=> item.status = "pending_purchase"
    BY DEF StoreInv, InCheckoutIsHeld
  <2>3. item'.status = "pending_purchase" <=> item.status = "pending_purchase"
    BY <1>7, <1>8
  <2> QED BY <1>7, <2>1, <2>2, <2>3 DEF InCheckoutIsHeld
<1> QED BY <1>3, <1>7, <1>10, <1>11, <1>12 DEF ShelfStep

\* The row of order o once paid.
Paid(o) == [order[o] EXCEPT !.payment_status = "paid"]

LEMMA PaidShelf ==
  ASSUME StoreInv, NEW o \in Orders, MarkOrderPaid(o)
  PROVE  /\ RowStep(o, Paid(o))
         /\ item' \in Item
         /\ ShelfStep
<1>0. /\ order \in [Orders -> Order] /\ order[o] \in Order /\ item \in Item
      /\ order[o].quantity \in Nat /\ item.quantity \in Nat
  BY DEF StoreInv, TypeOK, Order, Item
<1>1. SetOrder(o, Paid(o)) /\ item' = UnitsSold(item, o)
  BY DEF MarkOrderPaid, Paid
<1>2. Paid(o) \in Order
  BY <1>0 DEF Paid, Order
<1>3. RowStep(o, Paid(o))
  BY <1>1, <1>2, RowSet DEF StoreInv, RowStep
<1>4. Paid(o).payment_status = "paid"
  BY <1>0 DEF Paid, Order
<1>5. /\ ~Held(o)' /\ ~Pending(o)'
      /\ \A p \in Orders : p # o => (Held(p)' <=> Held(p)) /\ (Pending(p)' <=> Pending(p))
  BY <1>3, <1>4 DEF RowStep, Held, Pending, Status
<1>6. Held(o) /\ Pending(o)
  BY DEF MarkOrderPaid, Claimed, Held
<1>7. item.status \in {"active", "pending_purchase"} /\ ~item.taken_down /\ ~item.sold_at
  BY <1>6 DEF StoreInv, ShelfOK
<1>9. /\ item' \in Item
      /\ item'.quantity = item.quantity
      /\ item'.status = IF SoldOut(o) THEN "sold" ELSE item.status
      /\ item'.sold_at = (item.sold_at \/ SoldOut(o))
      /\ item'.taken_down = item.taken_down
      /\ item'.prior_status = item.prior_status
  BY <1>0, <1>1, SoldIs
<1>10. \A p \in Orders : Pending(p) => Held(p)
  BY DEF StoreInv, OrderOK, OutcomeOK, Held
<1>11. SoldOut(o) => \A p \in Orders : ~Pending(p)'
  BY <1>5, <1>10 DEF SoldOut
<1>12. \A p \in Orders : ShelfOK(p)'
  BY <1>5, <1>7, <1>9, <1>11 DEF StoreInv, ShelfOK
<1>13. ItemOK'
  BY <1>7, <1>9 DEF StoreInv, ItemOK
<1>14. item.quantity = 0 <=> item.status = "pending_purchase"
  BY <1>6 DEF StoreInv, InCheckoutIsHeld
<1>15. CASE SoldOut(o)
  <2>1. \A p \in Orders : ~Held(p)'
    BY <1>11, <1>15 DEF Held
  <2>2. item'.status = "sold"
    BY <1>9, <1>15
  <2>3. InCheckoutIsHeld'
    BY <2>1, <2>2 DEF InCheckoutIsHeld
  <2> QED BY <1>3, <1>9, <1>12, <1>13, <2>3 DEF ShelfStep
<1>16. CASE ~SoldOut(o)
  <2>1. item'.status = item.status /\ item'.quantity = item.quantity
    BY <1>9, <1>16
  <2>2. item.quantity = 0 => \E p \in Orders : Held(p)'
    BY <1>5, <1>16 DEF SoldOut
  <2>3. InCheckoutIsHeld'
    BY <1>14, <2>1, <2>2 DEF InCheckoutIsHeld
  <2> QED BY <1>3, <1>9, <1>12, <1>13, <2>3 DEF ShelfStep
<1> QED BY <1>15, <1>16


-----------------------------------------------------------------------------
(* The steps of an order that write the item.                              *)

FullStep(o) ==
  /\ TypeOK'
  /\ ShelfStep
  /\ OrderOK(o)'
  /\ \A p \in Orders : p # o => Untouched(p)

LEMMA QuietIsFull ==
  ASSUME StoreInv, NEW o \in Orders, QuietStep(o)
  PROVE  FullStep(o)
BY SameShelfOK DEF QuietStep, FullStep, ShelfStep

\* An order's row that differs in what the item does not read.
LEMMA SameRow ==
  ASSUME StoreInv, NEW o \in Orders, NEW r \in Order, RowStep(o, r), item' = item,
         r.payment_status = order[o].payment_status,
         r.stock_released = order[o].stock_released,
         r.quantity = order[o].quantity
  PROVE  SameShelf
<1> SUFFICES ASSUME NEW p \in Orders
             PROVE  /\ order'[p].payment_status = order[p].payment_status
                    /\ order'[p].stock_released = order[p].stock_released
                    /\ order'[p].quantity = order[p].quantity
  BY DEF SameShelf
<1>1. CASE p = o
  BY <1>1 DEF RowStep
<1>2. CASE p # o
  BY <1>2 DEF RowStep
<1> QED BY <1>1, <1>2

LEMMA AttachIntentOK ==
  ASSUME StoreInv, NEW o \in Orders, AttachIntent(o)
  PROVE  QuietStep(o)
<1> USE DEF itemVars, taskVars, cardVars
<1>1. PICK w \in BOOLEAN : (Pending(o) => w) /\ SetOrder(o, [order[o] EXCEPT !.billed = w])
  BY DEF AttachIntent
<1> DEFINE r == [order[o] EXCEPT !.billed = w]
<1>2. order[o] \in Order
  BY DEF StoreInv, TypeOK
<1>3. /\ r \in Order
      /\ r.payment_status = order[o].payment_status
      /\ r.stock_released = order[o].stock_released
      /\ r.quantity = order[o].quantity
      /\ r.billed = w
  BY <1>2 DEF Order
<1> HIDE DEF r
<1>4. RowStep(o, r)
  BY <1>1, <1>3, RowSet DEF StoreInv, RowStep, r
<1>5. SameShelf
  BY <1>3, <1>4, SameRow DEF AttachIntent
<1>6. TypeOK'
  BY <1>4 DEF StoreInv, TypeOK, RowStep, AttachIntent
<1>7. \A p \in Orders : p # o => Untouched(p)
  BY <1>4 DEF StoreInv, TypeOK, RowStep, Untouched, AttachIntent
<1> USE DEF Status, Pending, InFlight
<1>8. OrderOK(o) /\ checkout[o] = "billing" /\ checkout'[o] = "done"
  BY DEF StoreInv, TypeOK, AttachIntent
<1>9. /\ ~order[o].billed /\ order[o].payment_status # "none" /\ ~InFlight(o)
      /\ o \notin paying /\ (releasing[o] = "unbilled" => o \in lapsed)
  BY <1>8 DEF OrderOK, BillingOK, ReleaseOK, PayOK
<1>10. BillingOK(o)'
  BY <1>3, <1>4, <1>8, <1>9 DEF RowStep, AttachIntent, OrderOK, BillingOK
<1>11. ReleaseOK(o)'
  BY <1>3, <1>4, <1>8, <1>9 DEF RowStep, AttachIntent, OrderOK, ReleaseOK
<1>12. PayOK(o)'
  BY <1>9 DEF AttachIntent, PayOK
<1>13. OutcomeOK(o)'
  BY <1>3, <1>4, <1>8 DEF RowStep, AttachIntent, OrderOK, OutcomeOK
<1> QED BY <1>5, <1>6, <1>7, <1>10, <1>11, <1>12, <1>13 DEF QuietStep, OrderOK

LEMMA ReserveOK ==
  ASSUME StoreInv, NEW o \in Orders, NEW n \in Sizes, Reserve(o, n)
  PROVE  FullStep(o)
<1> USE DEF taskVars, cardVars
<1> DEFINE r == [NoOrder EXCEPT !.payment_status = "pending", !.quantity = n]
<1>1. RowStep(o, r) /\ item' \in Item /\ ShelfStep
  BY ReserveShelf
<1>2. /\ r.payment_status = "pending" /\ r.quantity = n /\ r.quantity > 0
      /\ ~r.stock_released /\ ~r.billed
  BY AmountsAssumption DEF NoOrder
<1> HIDE DEF r
<1>3. TypeOK'
  BY <1>1 DEF StoreInv, TypeOK, RowStep, Reserve
<1>4. \A p \in Orders : p # o => Untouched(p)
  BY <1>1 DEF StoreInv, TypeOK, RowStep, Untouched, Reserve
<1> USE DEF Status, Pending, InFlight
<1>5. OrderOK(o) /\ order[o].payment_status = "none" /\ checkout'[o] = "reserved"
  BY DEF StoreInv, TypeOK, Reserve
<1>6. /\ intent[o] = "none" /\ releasing[o] = "no"
      /\ o \notin paying /\ o \notin refunding
  BY <1>5 DEF OrderOK, BillingOK
<1>7. BillingOK(o)'
  BY <1>1, <1>2, <1>5, <1>6 DEF RowStep, Reserve, BillingOK
<1>8. ReleaseOK(o)'
  BY <1>6 DEF Reserve, ReleaseOK
<1>9. PayOK(o)'
  BY <1>6 DEF Reserve, PayOK
<1>10. OutcomeOK(o)'
  BY <1>1, <1>2, <1>6 DEF RowStep, Reserve, OutcomeOK, Bought
<1> QED BY <1>1, <1>3, <1>4, <1>7, <1>8, <1>9, <1>10 DEF FullStep, OrderOK

LEMMA FinishReleaseOK ==
  ASSUME StoreInv, NEW o \in Orders, FinishRelease(o)
  PROVE  FullStep(o)
<1> USE DEF taskVars, cardVars
<1>1. OrderOK(o) /\ Release(o) /\ releasing[o] \in {"unbilled", "canceled"}
  BY DEF StoreInv, TypeOK, FinishRelease
<1> USE DEF Status, Pending, InFlight
<1>2. Status(o) # "none" /\ ~InFlight(o) /\ (o \in paying => intent[o] = "canceled")
  BY <1>1 DEF OrderOK, BillingOK, ReleaseOK, OutcomeOK, StoreInv, TypeOK
<1>3. Status(o) \notin Bought
  BY <1>1, <1>2 DEF OrderOK, OutcomeOK
<1>4. RowStep(o, Failed(o)) /\ item' \in Item /\ ShelfStep
  BY <1>1, <1>2, <1>3, ReleaseShelf
<1>5. /\ Failed(o).payment_status = "failed" /\ Failed(o).stock_released
      /\ Failed(o).billed = order[o].billed /\ Failed(o).quantity = order[o].quantity
  BY DEF StoreInv, TypeOK, Order, Failed
<1>6. TypeOK'
  BY <1>4 DEF StoreInv, TypeOK, RowStep, FinishRelease
<1>7. \A p \in Orders : p # o => Untouched(p)
  BY <1>4 DEF StoreInv, TypeOK, RowStep, Untouched, FinishRelease
<1>8. BillingOK(o)'
  BY <1>1, <1>2, <1>4, <1>5 DEF RowStep, FinishRelease, OrderOK, BillingOK
<1>9. ReleaseOK(o)'
  BY <1>1, <1>4, <1>5 DEF StoreInv, TypeOK, RowStep, FinishRelease, OrderOK, ReleaseOK
<1>10. PayOK(o)'
  BY <1>1, <1>2, <1>4, <1>5 DEF RowStep, FinishRelease, OrderOK, PayOK
<1>11. OutcomeOK(o)'
  BY <1>1, <1>2, <1>3, <1>4, <1>5 DEF RowStep, FinishRelease, OrderOK, OutcomeOK, Bought
<1> QED BY <1>4, <1>6, <1>7, <1>8, <1>9, <1>10, <1>11 DEF FullStep, OrderOK

LEMMA CanceledNoticeOK ==
  ASSUME StoreInv, NEW o \in Orders, CanceledNotice(o)
  PROVE  FullStep(o)
<1> USE DEF taskVars, cardVars
<1>1. OrderOK(o) /\ Release(o) /\ intent[o] = "canceled" /\ order[o].billed
  BY DEF StoreInv, TypeOK, CanceledNotice
<1> USE DEF Status, Pending, InFlight
<1>2. Status(o) # "none" /\ ~InFlight(o) /\ (o \in paying => intent[o] = "canceled")
  BY <1>1 DEF OrderOK, BillingOK, ReleaseOK, OutcomeOK, StoreInv, TypeOK
<1>3. Status(o) \notin Bought
  BY <1>1, <1>2 DEF OrderOK, OutcomeOK
<1>4. RowStep(o, Failed(o)) /\ item' \in Item /\ ShelfStep
  BY <1>1, <1>2, <1>3, ReleaseShelf
<1>5. /\ Failed(o).payment_status = "failed" /\ Failed(o).stock_released
      /\ Failed(o).billed = order[o].billed /\ Failed(o).quantity = order[o].quantity
  BY DEF StoreInv, TypeOK, Order, Failed
<1>6. TypeOK'
  BY <1>4 DEF StoreInv, TypeOK, RowStep, CanceledNotice
<1>7. \A p \in Orders : p # o => Untouched(p)
  BY <1>4 DEF StoreInv, TypeOK, RowStep, Untouched, CanceledNotice
<1>8. BillingOK(o)'
  BY <1>1, <1>2, <1>4, <1>5 DEF RowStep, CanceledNotice, OrderOK, BillingOK
<1>9. ReleaseOK(o)'
  BY <1>1, <1>4, <1>5 DEF StoreInv, TypeOK, RowStep, CanceledNotice, OrderOK, ReleaseOK
<1>10. PayOK(o)'
  BY <1>1, <1>2, <1>4, <1>5 DEF RowStep, CanceledNotice, OrderOK, PayOK
<1>11. OutcomeOK(o)'
  BY <1>1, <1>2, <1>3, <1>4, <1>5 DEF RowStep, CanceledNotice, OrderOK, OutcomeOK, Bought
<1> QED BY <1>4, <1>6, <1>7, <1>8, <1>9, <1>10, <1>11 DEF FullStep, OrderOK

LEMMA MarkOrderPaidOK ==
  ASSUME StoreInv, NEW o \in Orders, MarkOrderPaid(o)
  PROVE  FullStep(o)
<1> USE DEF taskVars, cardVars
<1>1. OrderOK(o) /\ intent[o] = "succeeded" /\ order[o].billed /\ Pending(o)
  BY DEF StoreInv, MarkOrderPaid, Claimed, Held
<1>2. RowStep(o, Paid(o)) /\ item' \in Item /\ ShelfStep
  BY PaidShelf
<1>3. Paid(o).payment_status = "paid" /\ Paid(o).billed = order[o].billed
  BY DEF StoreInv, TypeOK, Order, Paid
<1>4. TypeOK'
  BY <1>2 DEF StoreInv, TypeOK, RowStep, MarkOrderPaid
<1>5. \A p \in Orders : p # o => Untouched(p)
  BY <1>2 DEF StoreInv, TypeOK, RowStep, Untouched, MarkOrderPaid
<1> USE DEF Status, Pending, InFlight
<1>6. BillingOK(o)'
  BY <1>1, <1>2, <1>3 DEF RowStep, MarkOrderPaid, OrderOK, BillingOK
<1>7. ReleaseOK(o)'
  BY <1>1, <1>2, <1>3 DEF RowStep, MarkOrderPaid, OrderOK, ReleaseOK
<1>8. PayOK(o)'
  BY <1>1, <1>2, <1>3 DEF RowStep, MarkOrderPaid, OrderOK, PayOK, Bought
<1>9. OutcomeOK(o)'
  BY <1>1, <1>2, <1>3 DEF RowStep, MarkOrderPaid, OrderOK, OutcomeOK, Bought
<1> QED BY <1>2, <1>4, <1>5, <1>6, <1>7, <1>8, <1>9 DEF FullStep, OrderOK

\* An order that is refunded, flagged or left alone by a step about its refund.
LEMMA RefundedOK ==
  ASSUME StoreInv, NEW o \in Orders, Status(o) = "paid", ApplyRefund(o),
         UNCHANGED <<lapsed, stocked, checkout, paying, releasing, intent, refund, upsets>>,
         refunding' \subseteq refunding, noticed' \subseteq Orders,
         \A p \in Orders : p # o => (p \in refunding' <=> p \in refunding)
  PROVE  FullStep(o)
<1>1. OrderOK(o)
  BY DEF StoreInv
<1>2. RowStep(o, Refunded(o)) /\ item' \in Item /\ ShelfStep
  BY RefundShelf
<1>3. Refunded(o).payment_status = "refunded" /\ Refunded(o).billed = order[o].billed
  BY DEF StoreInv, TypeOK, Order, Refunded
<1>4. TypeOK'
  BY <1>2 DEF StoreInv, TypeOK, RowStep
<1>5. \A p \in Orders : p # o => Untouched(p)
  BY <1>2 DEF RowStep, Untouched
<1> USE DEF Status, Pending, InFlight
<1>6. BillingOK(o)'
  BY <1>1, <1>2, <1>3 DEF RowStep, OrderOK, BillingOK
<1>7. ReleaseOK(o)'
  BY <1>1, <1>2, <1>3 DEF RowStep, OrderOK, ReleaseOK
<1>8. PayOK(o)'
  BY <1>1, <1>2, <1>3 DEF RowStep, OrderOK, PayOK, Bought
<1>9. OutcomeOK(o)'
  BY <1>1, <1>2, <1>3 DEF RowStep, OrderOK, OutcomeOK, Bought
<1> QED BY <1>2, <1>4, <1>5, <1>6, <1>7, <1>8, <1>9 DEF FullStep, OrderOK

LEMMA FlaggedOK ==
  ASSUME StoreInv, NEW o \in Orders, Flag(o) \/ order' = order, item' = item,
         UNCHANGED <<lapsed, stocked, checkout, paying, releasing, intent, refund, upsets>>,
         refunding' \subseteq refunding, noticed' \subseteq Orders,
         \A p \in Orders : p # o => (p \in refunding' <=> p \in refunding)
  PROVE  QuietStep(o)
<1> DEFINE f == [order[o] EXCEPT !.review = TRUE]
<1>1. order \in [Orders -> Order] /\ order[o] \in Order /\ OrderOK(o)
  BY DEF StoreInv, TypeOK
<1>2. /\ f \in Order /\ f.payment_status = order[o].payment_status
      /\ f.stock_released = order[o].stock_released
      /\ f.quantity = order[o].quantity /\ f.billed = order[o].billed
  BY <1>1 DEF Order
<1>3. Flag(o) => SetOrder(o, f)
  BY DEF Flag
<1> HIDE DEF f
<1>4. PICK r \in Order :
        /\ RowStep(o, r) /\ r.payment_status = order[o].payment_status
        /\ r.stock_released = order[o].stock_released
        /\ r.quantity = order[o].quantity /\ r.billed = order[o].billed
  <2>1. CASE Flag(o)
    BY <1>2, <1>3, <2>1, RowSet DEF StoreInv, RowStep
  <2>2. CASE order' = order
    BY <1>1, <2>2 DEF RowStep
  <2> QED BY <2>1, <2>2
<1>5. SameShelf
  BY <1>4, SameRow
<1>6. TypeOK'
  BY <1>4 DEF StoreInv, TypeOK, RowStep
<1>7. \A p \in Orders : p # o => Untouched(p)
  BY <1>4 DEF RowStep, Untouched
<1> USE DEF Status, Pending, InFlight
<1>8. BillingOK(o)'
  BY <1>1, <1>4 DEF RowStep, OrderOK, BillingOK
<1>9. ReleaseOK(o)'
  BY <1>1, <1>4 DEF RowStep, OrderOK, ReleaseOK
<1>10. PayOK(o)'
  BY <1>1, <1>4 DEF RowStep, OrderOK, PayOK
<1>11. OutcomeOK(o)'
  BY <1>1, <1>4 DEF RowStep, OrderOK, OutcomeOK
<1> QED BY <1>5, <1>6, <1>7, <1>8, <1>9, <1>10, <1>11 DEF QuietStep, OrderOK

LEMMA RecordRefundOK ==
  ASSUME StoreInv, NEW o \in Orders, RecordRefund(o)
  PROVE  FullStep(o)
<1> USE DEF RecordRefund, cardVars
<1>1. /\ refunding' \subseteq refunding /\ noticed' \subseteq Orders
      /\ \A p \in Orders : p # o => (p \in refunding' <=> p \in refunding)
  BY DEF StoreInv, TypeOK
<1>2. Status(o) \in Bought
  BY DEF StoreInv, OrderOK, OutcomeOK
<1>3. CASE Status(o) = "paid" /\ ApplyRefund(o)
  BY <1>1, <1>3, RefundedOK
<1>4. CASE (Flag(o) \/ order' = order) /\ item' = item
  BY <1>1, <1>4, FlaggedOK, QuietIsFull
<1> QED BY <1>2, <1>3, <1>4 DEF Bought

LEMMA RefundNoticeOK ==
  ASSUME StoreInv, NEW o \in Orders, RefundNotice(o)
  PROVE  FullStep(o)
<1> USE DEF RefundNotice, taskVars
<1>1. /\ refunding' = refunding /\ noticed' \subseteq Orders
  BY DEF StoreInv, TypeOK
<1>2. CASE Status(o) = "paid" /\ ApplyRefund(o)
  BY <1>1, <1>2, RefundedOK
<1>3. CASE (Flag(o) \/ order' = order) /\ item' = item
  BY <1>1, <1>3, FlaggedOK, QuietIsFull
<1> QED BY <1>2, <1>3 DEF HandleRefund

-----------------------------------------------------------------------------
(* The steps of the seller and the administrator.                          *)

StaffStep ==
  /\ TypeOK'
  /\ ShelfStep
  /\ \A p \in Orders : Untouched(p)

\* No order changes, and none is in checkout.
LEMMA ShelfAlone ==
  ASSUME StoreInv, OnlyItem, \A p \in Orders : ~Pending(p), upsets' \in Nat,
         item' \in Item, stocked' \in Int, ItemOK', item'.status # "pending_purchase"
  PROVE  StaffStep
<1> USE DEF OnlyItem, orderVars, taskVars, cardVars
<1>1. TypeOK'
  BY DEF StoreInv, TypeOK
<1>2. \A p \in Orders : Untouched(p)
  BY DEF Untouched
<1>3. \A p \in Orders : ~Pending(p)'
  BY DEF Pending, Status
<1>4. \A p \in Orders : ShelfOK(p)'
  BY <1>3 DEF ShelfOK
<1>5. InCheckoutIsHeld'
  BY <1>3 DEF InCheckoutIsHeld, Held
<1> QED BY <1>1, <1>2, <1>4, <1>5 DEF StaffStep, ShelfStep

LEMMA SellerEditsOK ==
  ASSUME StoreInv, NEW s \in Statuses \ {"pending_purchase"},
         NEW q \in Quantities \cup {item.quantity}, SellerEdits(s, q)
  PROVE  StaffStep
<1>1. item \in Item /\ upsets' \in Nat /\ OnlyItem
  BY DEF StoreInv, TypeOK, SellerEdits, Upset
<1>2. /\ item.quantity \in Nat /\ item.sold_at \in BOOLEAN /\ item.taken_down \in BOOLEAN
      /\ item.status \in Statuses /\ item.prior_status \in Statuses \ {"pending_purchase"}
  BY <1>1 DEF Item, StoreInv, ItemOK
<1>3. \A p \in Orders : ~Pending(p)
  BY DEF SellerEdits, Editable, CheckoutOpen
<1>q. q \in Nat
  BY <1>2, AmountsAssumption
<1>4. /\ item' \in Item
      /\ item'.status = s /\ item'.sold_at = (item.sold_at \/ s = "sold")
      /\ item'.taken_down = item.taken_down /\ item'.prior_status = item.prior_status
  BY <1>1, <1>2, <1>q DEF SellerEdits, Item, Statuses
<1>5. ItemOK' /\ item'.status # "pending_purchase"
  BY <1>2, <1>4, <1>q DEF StoreInv, ItemOK, SellerEdits, Editable, FullySold, Statuses
<1>6. stocked' \in Int
  BY <1>2, <1>q DEF StoreInv, TypeOK, SellerEdits
<1> QED BY <1>1, <1>3, <1>4, <1>5, <1>6, ShelfAlone

LEMMA RelistOK ==
  ASSUME StoreInv, Relist
  PROVE  StaffStep
<1>1. item \in Item /\ upsets' \in Nat /\ OnlyItem
  BY DEF StoreInv, TypeOK, Relist, Upset
<1>2. /\ item.quantity \in Nat /\ item.sold_at \in BOOLEAN /\ item.taken_down \in BOOLEAN
      /\ item.status \in Statuses /\ item.prior_status \in Statuses \ {"pending_purchase"}
  BY <1>1 DEF Item, StoreInv, ItemOK
<1>3. \A p \in Orders : ~Pending(p)
  BY DEF Relist, Relistable, Held, StoreInv, OrderOK, OutcomeOK
<1>4. /\ item' \in Item
      /\ item'.status = "active" /\ item'.sold_at = item.sold_at
      /\ item'.taken_down = item.taken_down /\ item'.prior_status = item.prior_status
  BY <1>1, <1>2 DEF Relist, Item, Statuses
<1>5. ItemOK' /\ item'.status # "pending_purchase"
  BY <1>2, <1>4 DEF StoreInv, ItemOK, Relist, Relistable
<1>6. stocked' \in Int
  BY <1>2 DEF StoreInv, TypeOK, Relist
<1> QED BY <1>1, <1>3, <1>4, <1>5, <1>6, ShelfAlone

LEMMA TakedownOK ==
  ASSUME StoreInv, Takedown
  PROVE  StaffStep
<1>1. item \in Item /\ upsets' \in Nat /\ OnlyItem
  BY DEF StoreInv, TypeOK, Takedown, Upset
<1>2. /\ item.quantity \in Nat /\ item.sold_at \in BOOLEAN /\ item.taken_down \in BOOLEAN
      /\ item.status \in Statuses /\ item.prior_status \in Statuses \ {"pending_purchase"}
  BY <1>1 DEF Item, StoreInv, ItemOK
<1>3. \A p \in Orders : ~Pending(p)
  BY DEF Takedown, CheckoutOpen
<1>4. /\ item' \in Item
      /\ item'.status = "removed" /\ item'.sold_at = item.sold_at
      /\ item'.taken_down = TRUE /\ item'.prior_status = item.status
  BY <1>1, <1>2 DEF Takedown, Item, Statuses
<1>5. ItemOK' /\ item'.status # "pending_purchase"
  BY <1>2, <1>4 DEF StoreInv, ItemOK, Takedown
<1>6. stocked' \in Int
  BY <1>2 DEF StoreInv, TypeOK, Takedown
<1> QED BY <1>1, <1>3, <1>4, <1>5, <1>6, ShelfAlone

LEMMA RestoreOK ==
  ASSUME StoreInv, Restore
  PROVE  StaffStep
<1>1. item \in Item /\ upsets' \in Nat /\ OnlyItem
  BY DEF StoreInv, TypeOK, Restore, Upset
<1>2. /\ item.quantity \in Nat /\ item.sold_at \in BOOLEAN /\ item.taken_down \in BOOLEAN
      /\ item.status \in Statuses /\ item.prior_status \in Statuses \ {"pending_purchase"}
  BY <1>1 DEF Item, StoreInv, ItemOK
<1>3. \A p \in Orders : ~Pending(p)
  BY DEF Restore, StoreInv, ShelfOK
<1>r. RestoredStatus \in Statuses
  BY <1>2 DEF RestoredStatus, Statuses
<1>4. /\ item' \in Item
      /\ item'.status = RestoredStatus /\ item'.sold_at = (item.sold_at \/ RestoredStatus = "sold")
      /\ item'.taken_down = FALSE /\ item'.prior_status = item.prior_status
  BY <1>1, <1>2, <1>r DEF Restore, Item, Statuses
<1>5. ItemOK' /\ item'.status # "pending_purchase"
  BY <1>2, <1>4, <1>r DEF StoreInv, ItemOK, RestoredStatus, Statuses
<1>6. stocked' \in Int
  BY <1>2 DEF StoreInv, TypeOK, Restore
<1> QED BY <1>1, <1>3, <1>4, <1>5, <1>6, ShelfAlone

LEMMA CorrectSoldOK ==
  ASSUME StoreInv, CorrectSold
  PROVE  StaffStep
<1>1. item \in Item /\ upsets' \in Nat /\ OnlyItem
  BY DEF StoreInv, TypeOK, CorrectSold, Upset
<1>2. /\ item.quantity \in Nat /\ item.sold_at \in BOOLEAN /\ item.taken_down \in BOOLEAN
      /\ item.status \in Statuses /\ item.prior_status \in Statuses \ {"pending_purchase"}
  BY <1>1 DEF Item, StoreInv, ItemOK
<1>3. \A p \in Orders : ~Pending(p)
  BY DEF CorrectSold, CheckoutOpen
<1>4. /\ item' \in Item
      /\ item'.status = "draft" /\ item'.sold_at = FALSE
      /\ item'.taken_down = item.taken_down /\ item'.prior_status = item.prior_status
  BY <1>1, <1>2 DEF CorrectSold, Item, Statuses
<1>5. ItemOK' /\ item'.status # "pending_purchase"
  BY <1>2, <1>4 DEF StoreInv, ItemOK, CorrectSold
<1>6. stocked' \in Int
  BY <1>2 DEF StoreInv, TypeOK, CorrectSold
<1> QED BY <1>1, <1>3, <1>4, <1>5, <1>6, ShelfAlone

-----------------------------------------------------------------------------
(* The invariant is kept.                                                  *)

LEMMA StoreInit ==
  ASSUME Init
  PROVE  StoreInv
<1> USE DEF Init
<1>1. PICK q \in Quantities \ {0} :
        /\ item = [status |-> "active", quantity |-> q, quantity_sold |-> 0, sold_at |-> FALSE,
                   taken_down |-> FALSE, prior_status |-> "draft"]
        /\ stocked = q
  OBVIOUS
<1>2. q \in Nat /\ q > 0
  BY AmountsAssumption
<1>3. item \in Item
  BY <1>1, <1>2 DEF Item, Statuses
<1>4. NoOrder \in Order
  BY DEF NoOrder, Order
<1>5. order \in [Orders -> Order] /\ \A o \in Orders : order[o] = NoOrder
  BY <1>4
<1>6. TypeOK
  BY <1>1, <1>2, <1>3, <1>5 DEF TypeOK
<1>7. \A o \in Orders : Status(o) = "none" /\ ~order[o].billed
  BY <1>5 DEF Status, NoOrder
<1>8. \A o \in Orders : OrderOK(o)
  BY <1>7 DEF OrderOK, BillingOK, ReleaseOK, PayOK, OutcomeOK, Bought, Pending, InFlight
<1>9. \A o \in Orders : ShelfOK(o)
  BY <1>7 DEF ShelfOK, Pending
<1>10. ItemOK
  BY <1>1 DEF ItemOK
<1>11. InCheckoutIsHeld
  BY <1>1, <1>2 DEF InCheckoutIsHeld
<1> QED BY <1>6, <1>8, <1>9, <1>10, <1>11 DEF StoreInv

LEMMA FullStepInv ==
  ASSUME StoreInv, NEW o \in Orders, FullStep(o)
  PROVE  StoreInv'
BY OneOrder DEF FullStep, ShelfStep, StoreInv

LEMMA StaffStepInv ==
  ASSUME StoreInv, StaffStep
  PROVE  StoreInv'
<1>1. \A p \in Orders : OrderOK(p)'
  BY UntouchedOK DEF StaffStep, StoreInv
<1> QED BY <1>1 DEF StaffStep, ShelfStep, StoreInv

LEMMA StoreInductive ==
  ASSUME StoreInv, [Next]_vars
  PROVE  StoreInv'
<1>1. CASE UNCHANGED vars
  <2> USE <1>1 DEF vars, itemVars, orderVars, taskVars, cardVars
  <2>1. TypeOK'
    BY DEF StoreInv, TypeOK
  <2>2. SameShelf
    BY DEF SameShelf
  <2>3. \A p \in Orders : OrderOK(p)'
    BY UntouchedOK DEF StoreInv, Untouched
  <2> QED BY <2>1, <2>2, <2>3, SameShelfOK DEF StoreInv
<1>2. ASSUME NEW o \in Orders, Buyer(o)
      PROVE  StoreInv'
  <2>1. ASSUME NEW n \in Sizes, Reserve(o, n) PROVE StoreInv'
    BY <2>1, ReserveOK, FullStepInv
  <2>2. CASE CreateIntent(o)
    BY <2>2, CreateIntentOK, QuietIsFull, FullStepInv
  <2>3. CASE BillingFails(o)
    BY <2>3, BillingFailsOK, QuietIsFull, FullStepInv
  <2>4. CASE AttachIntent(o)
    BY <2>4, AttachIntentOK, QuietIsFull, FullStepInv
  <2>5. CASE PayBegins(o)
    BY <2>5, PayBeginsOK, QuietIsFull, FullStepInv
  <2>6. CASE Confirm(o)
    BY <2>6, ConfirmOK, QuietIsFull, FullStepInv
  <2>7. CASE BuyerRetires(o)
    BY <2>7, BuyerRetiresOK, QuietIsFull, FullStepInv
  <2> QED BY <1>2, <2>1, <2>2, <2>3, <2>4, <2>5, <2>6, <2>7 DEF Buyer
<1>3. ASSUME NEW o \in Orders, Processor(o)
      PROVE  StoreInv'
  <2>1. CASE PaymentSettles(o)
    BY <2>1, PaymentSettlesOK, QuietIsFull, FullStepInv
  <2>2. CASE IntentCanceledOutside(o)
    BY <2>2, IntentCanceledOutsideOK, QuietIsFull, FullStepInv
  <2>3. CASE RefundedOutside(o)
    BY <2>3, RefundedOutsideOK, QuietIsFull, FullStepInv
  <2>4. CASE MarkOrderPaid(o)
    BY <2>4, MarkOrderPaidOK, FullStepInv
  <2>5. CASE CanceledNotice(o)
    BY <2>5, CanceledNoticeOK, FullStepInv
  <2>6. CASE RefundNotice(o)
    BY <2>6, RefundNoticeOK, FullStepInv
  <2> QED BY <1>3, <2>1, <2>2, <2>3, <2>4, <2>5, <2>6 DEF Processor
<1>4. ASSUME NEW o \in Orders, Platform(o)
      PROVE  StoreInv'
  <2>1. CASE Lapse(o)
    BY <2>1, LapseOK, QuietIsFull, FullStepInv
  <2>2. CASE Sweep(o)
    BY <2>2, SweepOK, QuietIsFull, FullStepInv
  <2>3. CASE FinishRelease(o)
    BY <2>3, FinishReleaseOK, FullStepInv
  <2>4. CASE AdminRefunds(o)
    BY <2>4, AdminRefundsOK, QuietIsFull, FullStepInv
  <2>5. CASE RecordRefund(o)
    BY <2>5, RecordRefundOK, FullStepInv
  <2>6. CASE RequestDies(o)
    BY <2>6, RequestDiesOK, QuietIsFull, FullStepInv
  <2> QED BY <1>4, <2>1, <2>2, <2>3, <2>4, <2>5, <2>6 DEF Platform
<1>5. CASE Staff
  <2>1. ASSUME NEW s \in Statuses \ {"pending_purchase"},
               NEW q \in Quantities \cup {item.quantity}, SellerEdits(s, q)
        PROVE  StoreInv'
    BY <2>1, SellerEditsOK, StaffStepInv
  <2>2. CASE Relist
    BY <2>2, RelistOK, StaffStepInv
  <2>3. CASE Takedown
    BY <2>3, TakedownOK, StaffStepInv
  <2>4. CASE Restore
    BY <2>4, RestoreOK, StaffStepInv
  <2>5. CASE CorrectSold
    BY <2>5, CorrectSoldOK, StaffStepInv
  <2> QED BY <1>5, <2>1, <2>2, <2>3, <2>4, <2>5 DEF Staff
<1> QED BY <1>1, <1>2, <1>3, <1>4, <1>5 DEF Next

LEMMA StoreHolds == Spec => []StoreInv
<1>1. Init => StoreInv
  BY StoreInit
<1>2. StoreInv /\ [Next]_vars => StoreInv'
  BY StoreInductive
<1> QED BY <1>1, <1>2, PTL DEF Spec

-----------------------------------------------------------------------------
(* Counting units.                                                         *)

LEMMA UnitsFinite ==
  ASSUME NEW S, IsFiniteSet(S), NEW f, \A x \in S : f[x] \in Nat
  PROVE  IsFiniteSet(UnitsOver(f, S))
<1> DEFINE g == [x \in S |-> {x} \X (1 .. f[x])]
           Piles == {{x} \X (1 .. f[x]) : x \in S}
<1>1. g \in Surjection(S, Piles)
  BY DEF Surjection
<1> HIDE DEF g
<1>2. IsFiniteSet(Piles)
  BY <1>1, FS_Surjection
<1>3. ASSUME NEW x \in S
      PROVE  IsFiniteSet({x} \X (1 .. f[x]))
  <2>1. 1 \in Int /\ f[x] \in Int
    OBVIOUS
  <2>2. IsFiniteSet({x})
    BY FS_Singleton
  <2>3. IsFiniteSet(1 .. f[x])
    BY <2>1, FS_Interval
  <2> QED BY <2>2, <2>3, FS_Product
<1>t. \A T \in Piles : IsFiniteSet(T)
  BY <1>3
<1> HIDE DEF Piles
<1>4. IsFiniteSet(UNION Piles)
  BY <1>2, <1>t, FS_UNION
<1> QED BY <1>4 DEF UnitsOver, Piles

LEMMA SumIsNat ==
  ASSUME NEW S, IsFiniteSet(S), NEW f, \A x \in S : f[x] \in Nat
  PROVE  SumOver(f, S) \in Nat
BY UnitsFinite, FS_CardinalityType DEF SumOver

LEMMA SumOfNone ==
  ASSUME NEW f
  PROVE  SumOver(f, {}) = 0
<1>1. UnitsOver(f, {}) = {}
  BY DEF UnitsOver
<1> QED BY <1>1, FS_EmptySet DEF SumOver

LEMMA SumOfSame ==
  ASSUME NEW S, NEW f, NEW g, \A x \in S : f[x] = g[x]
  PROVE  SumOver(f, S) = SumOver(g, S)
<1>1. UnitsOver(f, S) = UnitsOver(g, S)
  BY DEF UnitsOver
<1> QED BY <1>1 DEF SumOver

LEMMA SumWithOne ==
  ASSUME NEW S, IsFiniteSet(S), NEW x, x \notin S,
         NEW f, \A y \in S : f[y] \in Nat, f[x] \in Nat
  PROVE  SumOver(f, S \cup {x}) = SumOver(f, S) + f[x]
<1> DEFINE A == UnitsOver(f, S)
           B == {x} \X (1 .. f[x])
<1>1. UnitsOver(f, S \cup {x}) = A \cup B
  BY DEF UnitsOver
<1>2. A \cap B = {}
  BY DEF UnitsOver
<1>3. IsFiniteSet(A)
  BY UnitsFinite
<1>4. IsFiniteSet({x}) /\ Cardinality({x}) = 1
  BY FS_Singleton
<1>5. IsFiniteSet(1 .. f[x]) /\ Cardinality(1 .. f[x]) = f[x]
  BY FS_Interval
<1>6. IsFiniteSet(B) /\ Cardinality(B) = 1 * f[x]
  BY <1>4, <1>5, FS_Product
<1> HIDE DEF A, B
<1>7. Cardinality(A \cup B) = Cardinality(A) + Cardinality(B) - Cardinality(A \cap B)
  BY <1>3, <1>6, FS_Union
<1>8. Cardinality(A) \in Nat /\ Cardinality(A \cap B) = 0
  BY <1>2, <1>3, FS_CardinalityType, FS_EmptySet
<1>9. Cardinality(A \cup B) = Cardinality(A) + f[x]
  BY <1>6, <1>7, <1>8
<1> QED BY <1>1, <1>9 DEF SumOver, A

-----------------------------------------------------------------------------
(* Every unit is on offer, held or paid for.                               *)

Size == [o \in Orders |-> order[o].quantity]
HeldOrders == {o \in Orders : Held(o)}
PaidOrders == {o \in Orders : Status(o) = "paid"}
EverPaid   == {o \in Orders : Status(o) \in Bought}

Balanced ==
  /\ stocked = item.quantity + SumOver(Size, HeldOrders) + SumOver(Size, EverPaid)
  /\ item.quantity_sold = SumOver(Size, PaidOrders)

LEMMA Account == UnitsAccountedFor <=> Balanced
BY DEF UnitsAccountedFor, UnitsOf, Balanced, Size, HeldOrders, PaidOrders, EverPaid, Bought

LEMMA SumsAdd ==
  ASSUME NEW f, \A o \in Orders : f[o] \in Nat
  PROVE  \A S \in SUBSET Orders :
           /\ SumOver(f, S) \in Nat
           /\ \A o \in Orders :
                o \notin S => SumOver(f, S \cup {o}) = SumOver(f, S) + f[o]
<1> SUFFICES ASSUME NEW S \in SUBSET Orders
             PROVE  /\ SumOver(f, S) \in Nat
                    /\ \A o \in Orders :
                         o \notin S => SumOver(f, S \cup {o}) = SumOver(f, S) + f[o]
  OBVIOUS
<1>1. IsFiniteSet(S)
  BY OrdersAssumption, FS_Subset
<1>2. ASSUME NEW o \in Orders, o \notin S
      PROVE  SumOver(f, S \cup {o}) = SumOver(f, S) + f[o]
  BY <1>1, <1>2, SumWithOne
<1> QED BY <1>1, <1>2, SumIsNat

LEMMA SizesAre ==
  ASSUME TypeOK
  PROVE  /\ stocked \in Int /\ item.quantity \in Nat /\ item.quantity_sold \in Nat
         /\ \A o \in Orders : Size[o] = order[o].quantity /\ Size[o] \in Nat
BY DEF TypeOK, Item, Order, Size

\* No order changes its size or its place in the account; what the seller adds to the
\* shelf is counted as stocked.
LEMMA SamePlaces ==
  ASSUME StoreInv, Balanced, TypeOK',
         \A p \in Orders : /\ order'[p].quantity = order[p].quantity
                           /\ order'[p].payment_status = order[p].payment_status
                           /\ order'[p].stock_released = order[p].stock_released,
         stocked' = stocked + (item'.quantity - item.quantity),
         item'.quantity_sold = item.quantity_sold
  PROVE  Balanced'
<1>1. Size' = Size
  BY DEF Size
<1>2. HeldOrders' = HeldOrders /\ PaidOrders' = PaidOrders /\ EverPaid' = EverPaid
  BY DEF HeldOrders, PaidOrders, EverPaid, Held, Pending, Status
<1>3. HeldOrders \in SUBSET Orders /\ EverPaid \in SUBSET Orders
  BY DEF HeldOrders, EverPaid
<1>4. SumOver(Size, HeldOrders) \in Nat /\ SumOver(Size, EverPaid) \in Nat
  BY <1>3, SizesAre, SumsAdd DEF StoreInv
<1>5. item.quantity \in Int /\ item'.quantity \in Int
  BY DEF StoreInv, TypeOK, Item
<1> QED BY <1>1, <1>2, <1>4, <1>5 DEF Balanced

\* A step on order o that keeps its size: the sums of the other orders stay, and o
\* counts its size wherever it is.
LEMMA OnePlace ==
  ASSUME StoreInv, TypeOK', NEW o \in Orders,
         \A p \in Orders : p # o => order'[p] = order[p]
  PROVE  \A S \in SUBSET (Orders \ {o}) :
           /\ SumOver(Size, S)' = SumOver(Size, S)
           /\ SumOver(Size, S) \in Nat
           /\ SumOver(Size, S \cup {o}) = SumOver(Size, S) + order[o].quantity
           /\ SumOver(Size, S \cup {o})' = SumOver(Size, S) + order'[o].quantity
<1> SUFFICES ASSUME NEW S \in SUBSET (Orders \ {o})
             PROVE  /\ SumOver(Size', S) = SumOver(Size, S)
                    /\ SumOver(Size, S) \in Nat
                    /\ SumOver(Size, S \cup {o}) = SumOver(Size, S) + order[o].quantity
                    /\ SumOver(Size', S \cup {o}) = SumOver(Size, S) + order'[o].quantity
  OBVIOUS
<1>1. \A p \in Orders : Size[p] = order[p].quantity /\ Size[p] \in Nat
  BY SizesAre DEF StoreInv
<1>2. \A p \in Orders : Size'[p] = order'[p].quantity /\ Size'[p] \in Nat
  BY DEF TypeOK, Order, Size
<1>3. \A p \in S : Size'[p] = Size[p]
  BY DEF Size
<1>4. SumOver(Size', S) = SumOver(Size, S)
  BY <1>3, SumOfSame
<1> HIDE DEF Size
<1>5. SumOver(Size, S) \in Nat /\ SumOver(Size, S \cup {o}) = SumOver(Size, S) + Size[o]
  BY <1>1, SumsAdd
<1>6. SumOver(Size', S \cup {o}) = SumOver(Size', S) + Size'[o]
  BY <1>2, SumsAdd
<1> QED BY <1>1, <1>2, <1>4, <1>5, <1>6

LEMMA ReserveBalanced ==
  ASSUME StoreInv, TypeOK', Balanced, NEW o \in Orders, NEW n \in Sizes, Reserve(o, n)
  PROVE  Balanced'
<1> DEFINE r == [NoOrder EXCEPT !.payment_status = "pending", !.quantity = n]
<1>1. RowStep(o, r)
  BY ReserveShelf
<1>2. r.payment_status = "pending" /\ r.quantity = n /\ ~r.stock_released
  BY DEF NoOrder
<1> HIDE DEF r
<1>3. /\ n \in Nat /\ n =< item.quantity /\ item \in Item
      /\ item.quantity \in Nat /\ stocked' = stocked
      /\ item' = UnitsTaken(item, n)
  BY AmountsAssumption DEF StoreInv, TypeOK, Item, Reserve, Offered
<1>4. item'.quantity = item.quantity - n /\ item'.quantity_sold = item.quantity_sold
  BY <1>3, TakenIs
<1>5. /\ HeldOrders' = HeldOrders \cup {o} /\ HeldOrders \in SUBSET (Orders \ {o})
      /\ EverPaid' = EverPaid /\ EverPaid \in SUBSET (Orders \ {o})
      /\ PaidOrders' = PaidOrders /\ PaidOrders \in SUBSET (Orders \ {o})
  BY <1>1, <1>2 DEF RowStep, Reserve, HeldOrders, EverPaid, PaidOrders, Held, Pending, Status, Bought
<1>6. /\ SumOver(Size, HeldOrders) \in Nat /\ SumOver(Size, EverPaid) \in Nat
      /\ SumOver(Size', HeldOrders \cup {o}) = SumOver(Size, HeldOrders) + n
      /\ SumOver(Size', EverPaid) = SumOver(Size, EverPaid)
      /\ SumOver(Size', PaidOrders) = SumOver(Size, PaidOrders)
  BY <1>1, <1>2, <1>5, OnePlace DEF RowStep
<1> QED BY <1>3, <1>4, <1>5, <1>6 DEF Balanced

LEMMA MarkOrderPaidBalanced ==
  ASSUME StoreInv, TypeOK', Balanced, NEW o \in Orders, MarkOrderPaid(o)
  PROVE  Balanced'
<1>0. order[o] \in Order /\ order[o].quantity \in Nat /\ item \in Item
      /\ item.quantity \in Nat /\ item.quantity_sold \in Nat
  BY DEF StoreInv, TypeOK, Order, Item
<1>1. RowStep(o, Paid(o)) /\ Held(o)
  BY PaidShelf DEF MarkOrderPaid, Claimed
<1>2. Paid(o).payment_status = "paid" /\ Paid(o).quantity = order[o].quantity
  BY <1>0 DEF Order, Paid
<1>3. stocked' = stocked /\ item' = UnitsSold(item, o)
  BY DEF MarkOrderPaid
<1>4. /\ item'.quantity = item.quantity
      /\ item'.quantity_sold = item.quantity_sold + order[o].quantity
  BY <1>0, <1>3, SoldIs
<1>5. /\ HeldOrders = HeldOrders' \cup {o} /\ HeldOrders' \in SUBSET (Orders \ {o})
      /\ EverPaid' = EverPaid \cup {o} /\ EverPaid \in SUBSET (Orders \ {o})
      /\ PaidOrders' = PaidOrders \cup {o} /\ PaidOrders \in SUBSET (Orders \ {o})
  BY <1>1, <1>2 DEF RowStep, HeldOrders, EverPaid, PaidOrders, Held, Pending, Status, Bought
<1>6. /\ SumOver(Size', HeldOrders') \in Nat /\ SumOver(Size, EverPaid) \in Nat
      /\ SumOver(Size, HeldOrders) = SumOver(Size', HeldOrders') + order[o].quantity
      /\ SumOver(Size', EverPaid') = SumOver(Size, EverPaid) + order[o].quantity
      /\ SumOver(Size', PaidOrders') = SumOver(Size, PaidOrders) + order[o].quantity
  BY <1>1, <1>2, <1>5, OnePlace DEF RowStep
<1> QED BY <1>0, <1>3, <1>4, <1>6 DEF Balanced

\* Units go back once: an order released before is not held.
LEMMA ReleaseBalanced ==
  ASSUME StoreInv, TypeOK', Balanced, NEW o \in Orders, Release(o), Status(o) # "none",
         stocked' = stocked
  PROVE  Balanced'
<1>0. order[o] \in Order /\ order[o].quantity \in Nat /\ item \in Item
      /\ item.quantity \in Nat /\ item.quantity_sold \in Nat
  BY DEF StoreInv, TypeOK, Order, Item
<1>1. CASE Status(o) \in Bought
  <2>1. order' = order /\ item' = item
    BY <1>1 DEF Release, Bought
  <2> QED BY <1>0, <2>1, SamePlaces DEF StoreInv, TypeOK
<1>2. CASE Status(o) \notin Bought
  <2>1. RowStep(o, Failed(o)) /\ item' = UnitsBack(item, o)
    BY <1>2, ReleaseShelf DEF Release, Bought
  <2>2. /\ Failed(o).payment_status = "failed" /\ Failed(o).stock_released
        /\ Failed(o).quantity = order[o].quantity
    BY <1>0 DEF Order, Failed
  <2>3. /\ HeldOrders' = HeldOrders \ {o} /\ HeldOrders' \in SUBSET (Orders \ {o})
        /\ EverPaid' = EverPaid /\ EverPaid \in SUBSET (Orders \ {o})
        /\ PaidOrders' = PaidOrders /\ PaidOrders \in SUBSET (Orders \ {o})
    BY <1>2, <2>1, <2>2
    DEF RowStep, HeldOrders, EverPaid, PaidOrders, Held, Pending, Status, Bought
  <2>4. /\ SumOver(Size', HeldOrders') \in Nat /\ SumOver(Size, EverPaid) \in Nat
        /\ SumOver(Size, HeldOrders') = SumOver(Size', HeldOrders')
        /\ SumOver(Size, HeldOrders' \cup {o})
             = SumOver(Size', HeldOrders') + order[o].quantity
        /\ SumOver(Size', EverPaid') = SumOver(Size, EverPaid)
        /\ SumOver(Size', PaidOrders') = SumOver(Size, PaidOrders)
    BY <2>1, <2>3, OnePlace DEF RowStep
  <2>5. CASE order[o].stock_released
    <3>1. item' = item /\ HeldOrders = HeldOrders'
      BY <2>1, <2>3, <2>5 DEF UnitsBack, HeldOrders, Held
    <3> QED BY <2>4, <3>1 DEF Balanced
  <2>6. CASE ~order[o].stock_released
    <3>1. /\ item'.quantity = item.quantity + order[o].quantity
          /\ item'.quantity_sold = item.quantity_sold
      BY <1>0, <2>1, <2>6, BackIs
    <3>2. Pending(o)
      <4>1. Status(o) \in {"pending", "failed"}
        BY <1>0, <1>2 DEF Status, Order, Bought
      <4> QED BY <2>6, <4>1 DEF StoreInv, OrderOK, OutcomeOK, Pending
    <3>3. HeldOrders = HeldOrders' \cup {o}
      BY <2>3, <2>6, <3>2 DEF HeldOrders, Held
    <3> QED BY <1>0, <2>4, <3>1, <3>3 DEF Balanced
  <2> QED BY <2>5, <2>6
<1> QED BY <1>1, <1>2

\* The sold count holds the order's units, so it never has to stop at zero.
LEMMA RefundBalanced ==
  ASSUME StoreInv, TypeOK', Balanced, NEW o \in Orders, stocked' = stocked,
         \/ Status(o) = "paid" /\ ApplyRefund(o)
         \/ (Flag(o) \/ order' = order) /\ item' = item
  PROVE  Balanced'
<1>0. order \in [Orders -> Order] /\ order[o] \in Order /\ order[o].quantity \in Nat
      /\ item \in Item /\ item.quantity \in Nat /\ item.quantity_sold \in Nat /\ stocked \in Int
  BY DEF StoreInv, TypeOK, Order, Item
<1>1. CASE Status(o) = "paid" /\ ApplyRefund(o)
  <2>1. RowStep(o, Refunded(o)) /\ item' = UnitsUnsold(item, o)
    BY <1>1, RefundShelf DEF ApplyRefund
  <2>2. /\ Refunded(o).payment_status = "refunded" /\ Refunded(o).quantity = order[o].quantity
    BY <1>0 DEF Order, Refunded
  <2>3. /\ HeldOrders' = HeldOrders /\ HeldOrders \in SUBSET (Orders \ {o})
        /\ EverPaid' = EverPaid
        /\ PaidOrders = PaidOrders' \cup {o} /\ PaidOrders' \in SUBSET (Orders \ {o})
    BY <1>1, <2>1, <2>2
    DEF RowStep, HeldOrders, EverPaid, PaidOrders, Held, Pending, Status, Bought
  <2>4. /\ SumOver(Size', PaidOrders') \in Nat
        /\ SumOver(Size, PaidOrders) = SumOver(Size', PaidOrders') + order[o].quantity
    BY <2>1, <2>3, OnePlace DEF RowStep
  <2>5. Size' = Size
    BY <2>1, <2>2 DEF RowStep, Size
  <2>6. item.quantity_sold >= order[o].quantity
    BY <1>0, <2>4 DEF Balanced
  <2>7. /\ item'.quantity = item.quantity
        /\ item'.quantity_sold = item.quantity_sold - order[o].quantity
    BY <1>0, <2>1, <2>6, UnsoldIs
  <2>8. stocked' = item'.quantity + SumOver(Size', HeldOrders') + SumOver(Size', EverPaid')
    BY <2>3, <2>5, <2>7 DEF Balanced
  <2>9. item'.quantity_sold = SumOver(Size', PaidOrders')
    BY <1>0, <2>4, <2>7 DEF Balanced
  <2> QED BY <2>8, <2>9 DEF Balanced
<1>2. CASE (Flag(o) \/ order' = order) /\ item' = item
  <2>1. \A p \in Orders : /\ order'[p].quantity = order[p].quantity
                          /\ order'[p].payment_status = order[p].payment_status
                          /\ order'[p].stock_released = order[p].stock_released
    BY <1>0, <1>2 DEF Flag, SetOrder, Order
  <2> QED BY <1>0, <1>2, <2>1, SamePlaces
<1> QED BY <1>1, <1>2

LEMMA QuietBalanced ==
  ASSUME StoreInv, Balanced, NEW o \in Orders, QuietStep(o), stocked' = stocked
  PROVE  Balanced'
<1>1. stocked \in Int /\ item.quantity \in Int
  BY DEF StoreInv, TypeOK, Item
<1> QED BY <1>1, SamePlaces DEF QuietStep, SameShelf

LEMMA StaffBalanced ==
  ASSUME StoreInv, TypeOK', Balanced, Staff
  PROVE  Balanced'
<1>1. item \in Item /\ item.quantity \in Nat /\ stocked \in Int /\ order' = order
  BY DEF StoreInv, TypeOK, Item, Staff, SellerEdits, Relist, Takedown, Restore, CorrectSold,
         OnlyItem, orderVars
<1>2. /\ item'.quantity_sold = item.quantity_sold
      /\ stocked' = stocked + (item'.quantity - item.quantity)
  <2>1. ASSUME NEW s \in Statuses \ {"pending_purchase"},
               NEW q \in Quantities \cup {item.quantity}, SellerEdits(s, q)
        PROVE  /\ item'.quantity_sold = item.quantity_sold /\ item'.quantity = q
               /\ stocked' = stocked + (q - item.quantity)
    BY <1>1, <2>1 DEF SellerEdits, Item
  <2>2. CASE Relist \/ Takedown \/ Restore \/ CorrectSold
    <3>1. /\ item'.quantity_sold = item.quantity_sold /\ item'.quantity = item.quantity
          /\ stocked' = stocked
      BY <1>1, <2>2 DEF Relist, Takedown, Restore, CorrectSold, Item
    <3> QED BY <1>1, <3>1
  <2> QED BY <2>1, <2>2 DEF Staff
<1> QED BY <1>1, <1>2, SamePlaces

LEMMA BalancedNext ==
  ASSUME StoreInv, Balanced, [Next]_vars
  PROVE  Balanced'
<1>0. StoreInv' /\ TypeOK'
  BY StoreInductive DEF StoreInv
<1> USE DEF itemVars
<1>1. CASE UNCHANGED vars
  <2>1. stocked \in Int /\ item.quantity \in Int
    BY DEF StoreInv, TypeOK, Item
  <2> QED BY <1>0, <1>1, <2>1, SamePlaces DEF vars, orderVars
<1>2. ASSUME NEW o \in Orders, Buyer(o)
      PROVE  Balanced'
  <2>1. ASSUME NEW n \in Sizes, Reserve(o, n) PROVE Balanced'
    BY <1>0, <2>1, ReserveBalanced
  <2>2. CASE CreateIntent(o) \/ BillingFails(o) \/ AttachIntent(o) \/ PayBegins(o)
             \/ Confirm(o) \/ BuyerRetires(o)
    <3>1. QuietStep(o)
      BY <2>2, CreateIntentOK, BillingFailsOK, AttachIntentOK, PayBeginsOK, ConfirmOK,
         BuyerRetiresOK
    <3>2. stocked' = stocked
      BY <2>2 DEF CreateIntent, BillingFails, AttachIntent, PayBegins, Confirm, BuyerRetires
    <3> QED BY <3>1, <3>2, QuietBalanced
  <2> QED BY <1>2, <2>1, <2>2 DEF Buyer
<1>3. ASSUME NEW o \in Orders, Processor(o)
      PROVE  Balanced'
  <2>1. CASE PaymentSettles(o) \/ IntentCanceledOutside(o) \/ RefundedOutside(o)
    <3>1. QuietStep(o)
      BY <2>1, PaymentSettlesOK, IntentCanceledOutsideOK, RefundedOutsideOK
    <3>2. stocked' = stocked
      BY <2>1 DEF PaymentSettles, IntentCanceledOutside, RefundedOutside
    <3> QED BY <3>1, <3>2, QuietBalanced
  <2>2. CASE MarkOrderPaid(o)
    BY <1>0, <2>2, MarkOrderPaidBalanced
  <2>3. CASE CanceledNotice(o)
    <3>1. Status(o) # "none" /\ Release(o) /\ stocked' = stocked
      BY <2>3 DEF StoreInv, OrderOK, BillingOK, CanceledNotice
    <3> QED BY <1>0, <3>1, ReleaseBalanced
  <2>4. CASE RefundNotice(o)
    <3>1. stocked' = stocked /\ (\/ Status(o) = "paid" /\ ApplyRefund(o)
                                 \/ (Flag(o) \/ order' = order) /\ item' = item)
      BY <2>4 DEF RefundNotice, HandleRefund
    <3> QED BY <1>0, <3>1, RefundBalanced
  <2> QED BY <1>3, <2>1, <2>2, <2>3, <2>4 DEF Processor
<1>4. ASSUME NEW o \in Orders, Platform(o)
      PROVE  Balanced'
  <2>1. CASE Lapse(o) \/ Sweep(o) \/ AdminRefunds(o) \/ RequestDies(o)
    <3>1. QuietStep(o)
      BY <2>1, LapseOK, SweepOK, AdminRefundsOK, RequestDiesOK
    <3>2. stocked' = stocked
      BY <2>1 DEF Lapse, Sweep, AdminRefunds, RequestDies
    <3> QED BY <3>1, <3>2, QuietBalanced
  <2>2. CASE FinishRelease(o)
    <3>1. Status(o) # "none" /\ Release(o) /\ stocked' = stocked
      BY <2>2 DEF StoreInv, OrderOK, BillingOK, FinishRelease
    <3> QED BY <1>0, <3>1, ReleaseBalanced
  <2>3. CASE RecordRefund(o)
    <3>1. Status(o) \in Bought
      BY <2>3 DEF RecordRefund, StoreInv, OrderOK, OutcomeOK
    <3>2. stocked' = stocked /\ (\/ Status(o) = "paid" /\ ApplyRefund(o)
                                 \/ (Flag(o) \/ order' = order) /\ item' = item)
      BY <2>3, <3>1 DEF RecordRefund, Bought
    <3> QED BY <1>0, <3>2, RefundBalanced
  <2> QED BY <1>4, <2>1, <2>2, <2>3 DEF Platform
<1> QED BY <1>0, <1>1, <1>2, <1>3, <1>4, StaffBalanced DEF Next

LEMMA BalancedInit ==
  ASSUME Init
  PROVE  Balanced
<1>1. PICK q \in Quantities \ {0} :
        /\ item = [status |-> "active", quantity |-> q, quantity_sold |-> 0, sold_at |-> FALSE,
                   taken_down |-> FALSE, prior_status |-> "draft"]
        /\ stocked = q
  BY DEF Init
<1>2. q \in Nat /\ item.quantity = q /\ item.quantity_sold = 0
  BY <1>1, AmountsAssumption
<1>3. \A o \in Orders : Status(o) = "none"
  BY DEF Init, NoOrder, Status
<1>4. HeldOrders = {} /\ PaidOrders = {} /\ EverPaid = {}
  BY <1>3 DEF HeldOrders, PaidOrders, EverPaid, Held, Pending, Bought
<1> QED BY <1>1, <1>2, <1>4, SumOfNone DEF Balanced

-----------------------------------------------------------------------------
(* The theorems.                                                           *)

\* Every row, task and intent keeps its shape: a stock never goes negative, an item
\* only has the statuses of its column (createOrder, updateItem, relistItem, restore).
THEOREM OrdersTypeCorrect == Spec => []TypeOK
BY StoreHolds, PTL DEF StoreInv

\* Money taken belongs to an order that is sold, was refunded or still holds its
\* units on an item still for sale, for any number of buyers and any crossing of
\* pay requests, releases, cancellations, edits and crashes (payOrder,
\* releaseOrder, markOrderPaid).
THEOREM ChargesHoldTheirUnits == Spec => []ChargedOrdersHoldTheirUnits
<1>1. StoreInv => ChargedOrdersHoldTheirUnits
  <2> SUFFICES ASSUME StoreInv, NEW o \in Orders, InFlight(o)
               PROVE  Claimed(o) \/ Status(o) \in {"paid", "refunded"}
    BY DEF ChargedOrdersHoldTheirUnits
  <2>1. Status(o) \in {"pending", "paid", "refunded"}
    <3>1. Status(o) \in {"none", "pending", "paid", "failed", "refunded"}
      BY DEF StoreInv, TypeOK, Status, Order
    <3>2. Status(o) # "none" /\ Status(o) # "failed"
      BY DEF StoreInv, OrderOK, BillingOK, OutcomeOK, InFlight
    <3> QED BY <3>1, <3>2
  <2>2. Pending(o) => Claimed(o)
    BY DEF StoreInv, OrderOK, OutcomeOK, ShelfOK, Claimed, Held
  <2> QED BY <2>1, <2>2 DEF Pending
<1> QED BY <1>1, StoreHolds, PTL

\* "Sale in progress" is shown exactly while checkouts hold the last units
\* (createOrder, returnUnits, markOrderPaid).
THEOREM InCheckoutExactlyWhenHeld == Spec => []InCheckoutIsHeld
BY StoreHolds, PTL DEF StoreInv

\* A sold item is never offered, bought or in checkout, through any edits, relisting,
\* takedowns, restores, corrections and refunds (migration 207 never refuses).
THEOREM SoldStaysOffSale == Spec => []SoldIsNeverOffered
<1>1. StoreInv => SoldIsNeverOffered
  BY DEF StoreInv, SoldIsNeverOffered, CheckoutOpen, ShelfOK, ItemOK
<1> QED BY <1>1, StoreHolds, PTL

\* Every unit the seller put on the shelf is on offer, held by one checkout, or belongs
\* to an order that was paid, and the sold count is that of the paid orders, for any
\* number of orders of any sizes (createOrder, returnUnits, markOrderPaid,
\* applyRefundState, updateItem).
THEOREM EveryUnitIsAccountedFor == Spec => []UnitsAccountedFor
<1>1. Init => StoreInv /\ Balanced
  BY StoreInit, BalancedInit
<1>2. StoreInv /\ Balanced /\ [Next]_vars => (StoreInv /\ Balanced)'
  BY StoreInductive, BalancedNext
<1>3. Balanced => UnitsAccountedFor
  BY Account
<1> QED BY <1>1, <1>2, <1>3, PTL DEF Spec

-----------------------------------------------------------------------------
(* The store keeps the promise of UnitLedger.                              *)

LedgerStep == [Ledger!Next]_<<item.quantity, Claims>>

\* Order o has moved to another stage, or taken its size; the other claims stay.
LEMMA ClaimMoved ==
  ASSUME NEW o \in Orders, \A p \in Orders : p # o => Untouched(p)
  PROVE  Claims' = [Claims EXCEPT ![o] = [stage |-> ClaimStage(o)', units |-> order'[o].quantity]]
<1>1. \A p \in Orders : p # o =>
        ClaimStage(p)' = ClaimStage(p) /\ order'[p].quantity = order[p].quantity
  BY DEF Untouched, ClaimStage, Status, InFlight
<1> QED BY <1>1 DEF Claims

LEMMA ClaimKept ==
  ASSUME NEW o \in Orders, \A p \in Orders : p # o => Untouched(p),
         ClaimStage(o)' = ClaimStage(o), order'[o].quantity = order[o].quantity,
         item'.quantity = item.quantity
  PROVE  LedgerStep
<1>1. Claims' = [Claims EXCEPT ![o] = [stage |-> ClaimStage(o), units |-> order[o].quantity]]
  BY ClaimMoved
<1>2. Claims' = Claims
  BY <1>1 DEF Claims
<1> QED BY <1>2 DEF LedgerStep

LEMMA ClaimStaged ==
  ASSUME NEW o \in Orders, \A p \in Orders : p # o => Untouched(p),
         order'[o].quantity = order[o].quantity,
         NEW s, ClaimStage(o)' = s
  PROVE  /\ Claims[o].stage = ClaimStage(o) /\ Claims[o].units = order[o].quantity
         /\ Claims' = [Claims EXCEPT ![o].stage = s]
<1>1. Claims' = [Claims EXCEPT ![o] = [stage |-> s, units |-> order[o].quantity]]
  BY ClaimMoved
<1>2. /\ Claims[o] = [stage |-> ClaimStage(o), units |-> order[o].quantity]
  BY DEF Claims
<1> QED BY <1>1, <1>2 DEF Claims

\* A step that leaves the item alone and does not tell a payment under way from
\* one that is not.
LEMMA QuietClaim ==
  ASSUME StoreInv, NEW o \in Orders, QuietStep(o), InFlight(o)' <=> InFlight(o)
  PROVE  LedgerStep
<1>1. ClaimStage(o)' = ClaimStage(o) /\ order'[o].quantity = order[o].quantity
  BY DEF QuietStep, SameShelf, ClaimStage, Status
<1> QED BY <1>1, ClaimKept DEF QuietStep, SameShelf

LEMMA CreateIntentClaims ==
  ASSUME StoreInv, NEW o \in Orders, CreateIntent(o)
  PROVE  LedgerStep
<1>1. InFlight(o)' <=> InFlight(o)
  BY DEF StoreInv, TypeOK, OrderOK, BillingOK, InFlight, CreateIntent, taskVars, cardVars
<1> QED BY <1>1, CreateIntentOK, QuietClaim

LEMMA BillingFailsClaims ==
  ASSUME StoreInv, NEW o \in Orders, BillingFails(o)
  PROVE  LedgerStep
<1>1. InFlight(o)' <=> InFlight(o)
  BY DEF StoreInv, TypeOK, OrderOK, BillingOK, InFlight, BillingFails, taskVars, cardVars
<1> QED BY <1>1, BillingFailsOK, QuietClaim

LEMMA AttachIntentClaims ==
  ASSUME StoreInv, NEW o \in Orders, AttachIntent(o)
  PROVE  LedgerStep
<1>1. InFlight(o)' <=> InFlight(o)
  BY DEF StoreInv, TypeOK, OrderOK, BillingOK, InFlight, AttachIntent, taskVars, cardVars
<1> QED BY <1>1, AttachIntentOK, QuietClaim

LEMMA PayBeginsClaims ==
  ASSUME StoreInv, NEW o \in Orders, PayBegins(o)
  PROVE  LedgerStep
<1>1. InFlight(o)' <=> InFlight(o)
  BY DEF StoreInv, TypeOK, OrderOK, BillingOK, InFlight, PayBegins, taskVars, cardVars
<1> QED BY <1>1, PayBeginsOK, QuietClaim

LEMMA BuyerRetiresClaims ==
  ASSUME StoreInv, NEW o \in Orders, BuyerRetires(o)
  PROVE  LedgerStep
<1>1. InFlight(o)' <=> InFlight(o)
  BY DEF StoreInv, TypeOK, OrderOK, BillingOK, InFlight, BuyerRetires, BeginRelease, taskVars, cardVars
<1> QED BY <1>1, BuyerRetiresOK, QuietClaim

LEMMA IntentCanceledOutsideClaims ==
  ASSUME StoreInv, NEW o \in Orders, IntentCanceledOutside(o)
  PROVE  LedgerStep
<1>1. InFlight(o)' <=> InFlight(o)
  BY DEF StoreInv, TypeOK, OrderOK, BillingOK, InFlight, IntentCanceledOutside, taskVars, cardVars
<1> QED BY <1>1, IntentCanceledOutsideOK, QuietClaim

LEMMA RefundedOutsideClaims ==
  ASSUME StoreInv, NEW o \in Orders, RefundedOutside(o)
  PROVE  LedgerStep
<1>1. InFlight(o)' <=> InFlight(o)
  BY DEF StoreInv, TypeOK, OrderOK, BillingOK, InFlight, RefundedOutside, taskVars, cardVars
<1> QED BY <1>1, RefundedOutsideOK, QuietClaim

LEMMA LapseClaims ==
  ASSUME StoreInv, NEW o \in Orders, Lapse(o)
  PROVE  LedgerStep
<1>1. InFlight(o)' <=> InFlight(o)
  BY DEF StoreInv, TypeOK, OrderOK, BillingOK, InFlight, Lapse, taskVars, cardVars
<1> QED BY <1>1, LapseOK, QuietClaim

LEMMA SweepClaims ==
  ASSUME StoreInv, NEW o \in Orders, Sweep(o)
  PROVE  LedgerStep
<1>1. InFlight(o)' <=> InFlight(o)
  BY DEF StoreInv, TypeOK, OrderOK, BillingOK, InFlight, Sweep, BeginRelease, taskVars, cardVars
<1> QED BY <1>1, SweepOK, QuietClaim

LEMMA AdminRefundsClaims ==
  ASSUME StoreInv, NEW o \in Orders, AdminRefunds(o)
  PROVE  LedgerStep
<1>1. InFlight(o)' <=> InFlight(o)
  BY DEF StoreInv, TypeOK, OrderOK, BillingOK, InFlight, AdminRefunds, taskVars, cardVars
<1> QED BY <1>1, AdminRefundsOK, QuietClaim

LEMMA RequestDiesClaims ==
  ASSUME StoreInv, NEW o \in Orders, RequestDies(o)
  PROVE  LedgerStep
<1>1. InFlight(o)' <=> InFlight(o)
  BY DEF StoreInv, TypeOK, OrderOK, BillingOK, InFlight, RequestDies, taskVars, cardVars
<1> QED BY <1>1, RequestDiesOK, QuietClaim

LEMMA ReserveClaims ==
  ASSUME StoreInv, NEW o \in Orders, NEW n \in Sizes, Reserve(o, n)
  PROVE  LedgerStep
<1> DEFINE r == [NoOrder EXCEPT !.payment_status = "pending", !.quantity = n]
<1>1. RowStep(o, r) /\ \A p \in Orders : p # o => Untouched(p)
  BY ReserveShelf, ReserveOK DEF FullStep
<1>2. r.payment_status = "pending" /\ r.quantity = n
  BY DEF NoOrder
<1> HIDE DEF r
<1>3. intent'[o] = "none"
  BY DEF StoreInv, OrderOK, BillingOK, Reserve, Status, cardVars
<1>4. ClaimStage(o)' = "held" /\ order'[o].quantity = n
  BY <1>1, <1>2, <1>3 DEF RowStep, ClaimStage, Status, InFlight
<1>5. Claims' = [Claims EXCEPT ![o] = [stage |-> "held", units |-> n]]
  BY <1>1, <1>4, ClaimMoved
<1>6. Claims[o].stage = "none"
  BY DEF Reserve, Claims, ClaimStage
<1>7. n =< item.quantity /\ item'.quantity = item.quantity - n
  BY TakenIs, AmountsAssumption DEF StoreInv, TypeOK, Reserve, Offered
<1>8. Ledger!Reserve(o, n)
  BY <1>5, <1>6, <1>7 DEF Ledger!Reserve
<1> QED BY <1>8 DEF LedgerStep, Ledger!Next

LEMMA ConfirmClaims ==
  ASSUME StoreInv, NEW o \in Orders, Confirm(o)
  PROVE  LedgerStep
<1>1. QuietStep(o) /\ OrderOK(o) /\ o \in paying
  BY ConfirmOK DEF StoreInv, Confirm
<1>2. CASE InFlight(o)' <=> InFlight(o)
  BY <1>1, <1>2, QuietClaim
<1>3. CASE ~(InFlight(o)' <=> InFlight(o))
  <2>1. intent[o] = "open" /\ ~InFlight(o) /\ InFlight(o)'
    BY <1>3 DEF Confirm, InFlight, StoreInv, TypeOK
  <2>2. Status(o) = "pending"
    BY <1>1, <2>1 DEF OrderOK, PayOK, OutcomeOK, Pending
  <2>3. ClaimStage(o) = "held" /\ ClaimStage(o)' = "charged"
    BY <1>1, <2>1, <2>2 DEF QuietStep, SameShelf, ClaimStage, Status
  <2>4. /\ item'.quantity = item.quantity /\ order'[o].quantity = order[o].quantity
        /\ \A p \in Orders : p # o => Untouched(p)
    BY <1>1 DEF QuietStep, SameShelf
  <2>5. Ledger!Charge(o)
    BY <2>3, <2>4, ClaimStaged DEF Ledger!Charge, Ledger!Move
  <2> QED BY <2>5 DEF LedgerStep, Ledger!Next
<1> QED BY <1>2, <1>3

LEMMA PaymentSettlesClaims ==
  ASSUME StoreInv, NEW o \in Orders, PaymentSettles(o)
  PROVE  LedgerStep
<1>1. QuietStep(o) /\ OrderOK(o) /\ intent[o] = "processing"
  BY PaymentSettlesOK DEF StoreInv, PaymentSettles
<1>2. CASE InFlight(o)' <=> InFlight(o)
  BY <1>1, <1>2, QuietClaim
<1>3. CASE ~(InFlight(o)' <=> InFlight(o))
  <2>1. InFlight(o) /\ ~InFlight(o)'
    BY <1>1, <1>3 DEF InFlight
  <2>2. Status(o) = "pending"
    <3>1. Status(o) \in {"none", "pending", "paid", "failed", "refunded"}
      BY DEF StoreInv, TypeOK, Status, Order
    <3> QED BY <1>1, <2>1, <3>1 DEF OrderOK, BillingOK, OutcomeOK, Bought, InFlight
  <2>3. ClaimStage(o) = "charged" /\ ClaimStage(o)' = "held"
    BY <1>1, <2>1, <2>2 DEF QuietStep, SameShelf, ClaimStage, Status
  <2>4. /\ item'.quantity = item.quantity /\ order'[o].quantity = order[o].quantity
        /\ \A p \in Orders : p # o => Untouched(p)
    BY <1>1 DEF QuietStep, SameShelf
  <2>5. Ledger!Decline(o)
    BY <2>3, <2>4, ClaimStaged DEF Ledger!Decline, Ledger!Move
  <2> QED BY <2>5 DEF LedgerStep, Ledger!Next
<1> QED BY <1>2, <1>3

LEMMA MarkOrderPaidClaims ==
  ASSUME StoreInv, NEW o \in Orders, MarkOrderPaid(o)
  PROVE  LedgerStep
<1>1. RowStep(o, Paid(o)) /\ \A p \in Orders : p # o => Untouched(p)
  BY PaidShelf, MarkOrderPaidOK DEF FullStep
<1>2. Paid(o).payment_status = "paid" /\ Paid(o).quantity = order[o].quantity
  BY DEF StoreInv, TypeOK, Order, Paid
<1>3. Status(o) = "pending" /\ InFlight(o)
  BY DEF MarkOrderPaid, Claimed, Held, Pending, InFlight
<1>4. ClaimStage(o) = "charged" /\ ClaimStage(o)' = "sold" /\ order'[o].quantity = order[o].quantity
  BY <1>1, <1>2, <1>3 DEF RowStep, ClaimStage, Status
<1>5. item'.quantity = item.quantity
  BY SoldIs DEF StoreInv, TypeOK, Order, MarkOrderPaid
<1>6. Ledger!Sell(o)
  BY <1>1, <1>4, <1>5, ClaimStaged DEF Ledger!Sell, Ledger!Move
<1> QED BY <1>6 DEF LedgerStep, Ledger!Next

\* A release of an order that was not paid gives its units back, if it still holds them.
LEMMA ReleaseClaims ==
  ASSUME StoreInv, NEW o \in Orders, Release(o), Status(o) # "none", ~InFlight(o),
         intent' = intent, \A p \in Orders : p # o => Untouched(p)
  PROVE  LedgerStep
<1>1. order[o] \in Order /\ item \in Item /\ order[o].quantity \in Nat /\ OrderOK(o)
  BY DEF StoreInv, TypeOK, Order
<1>2. Status(o) \in {"pending", "failed"}
  BY <1>1 DEF OrderOK, OutcomeOK, Bought, Status, Order, InFlight
<1>3. item' = UnitsBack(item, o) /\ RowStep(o, Failed(o))
  BY <1>2, ReleaseShelf DEF Release, Bought
<1>4. Failed(o).payment_status = "failed" /\ Failed(o).quantity = order[o].quantity
  BY <1>1 DEF Order, Failed
<1>5. ClaimStage(o)' = "returned" /\ order'[o].quantity = order[o].quantity
  BY <1>3, <1>4 DEF RowStep, ClaimStage, Status
<1>6. CASE Status(o) = "pending"
  <2>1. ClaimStage(o) = "held" /\ ~order[o].stock_released
    BY <1>1, <1>6 DEF ClaimStage, OrderOK, OutcomeOK, Pending
  <2>2. item'.quantity = item.quantity + order[o].quantity
    BY <1>1, <1>3, <2>1, BackIs
  <2>3. Ledger!Return(o)
    BY <1>5, <2>1, <2>2, ClaimStaged DEF Ledger!Return, Ledger!Move
  <2> QED BY <2>3 DEF LedgerStep, Ledger!Next
<1>7. CASE Status(o) = "failed"
  <2>1. ClaimStage(o) = "returned" /\ order[o].stock_released
    BY <1>1, <1>7 DEF ClaimStage, OrderOK, OutcomeOK
  <2>2. item' = item
    BY <1>3, <2>1 DEF UnitsBack
  <2> QED BY <1>5, <2>1, <2>2, ClaimKept
<1> QED BY <1>2, <1>6, <1>7

LEMMA FinishReleaseClaims ==
  ASSUME StoreInv, NEW o \in Orders, FinishRelease(o)
  PROVE  LedgerStep
<1>1. /\ Status(o) # "none" /\ ~InFlight(o) /\ Release(o) /\ intent' = intent
  BY DEF StoreInv, TypeOK, OrderOK, BillingOK, ReleaseOK, InFlight, FinishRelease, cardVars
<1> QED BY <1>1, FinishReleaseOK, ReleaseClaims DEF FullStep

LEMMA CanceledNoticeClaims ==
  ASSUME StoreInv, NEW o \in Orders, CanceledNotice(o)
  PROVE  LedgerStep
<1>1. /\ Status(o) # "none" /\ ~InFlight(o) /\ Release(o) /\ intent' = intent
  BY DEF StoreInv, OrderOK, BillingOK, InFlight, CanceledNotice, cardVars
<1> QED BY <1>1, CanceledNoticeOK, ReleaseClaims DEF FullStep

\* A refund that is recorded undoes the sale; one that is flagged changes nothing here.
LEMMA RefundClaims ==
  ASSUME StoreInv, NEW o \in Orders, FullStep(o), intent' = intent,
         \/ Status(o) = "paid" /\ ApplyRefund(o)
         \/ (Flag(o) \/ order' = order) /\ item' = item
  PROVE  LedgerStep
<1>1. order[o] \in Order /\ order \in [Orders -> Order] /\ item \in Item
      /\ \A p \in Orders : p # o => Untouched(p)
  BY DEF StoreInv, TypeOK, FullStep
<1>2. CASE Status(o) = "paid" /\ ApplyRefund(o)
  <2>1. RowStep(o, Refunded(o)) /\ item' = UnitsUnsold(item, o)
    BY <1>2, RefundShelf DEF ApplyRefund
  <2>2. Refunded(o).payment_status = "refunded" /\ Refunded(o).quantity = order[o].quantity
    BY <1>1 DEF Order, Refunded
  <2>3. ClaimStage(o) = "sold" /\ ClaimStage(o)' = "refunded"
        /\ order'[o].quantity = order[o].quantity
    BY <1>2, <2>1, <2>2 DEF RowStep, ClaimStage, Status
  <2>4. item'.quantity = item.quantity
    BY <1>1, <2>1, UnsoldIs DEF Order
  <2>5. Ledger!Refund(o)
    BY <1>1, <2>3, <2>4, ClaimStaged DEF Ledger!Refund, Ledger!Move
  <2> QED BY <2>5 DEF LedgerStep, Ledger!Next
<1>3. CASE (Flag(o) \/ order' = order) /\ item' = item
  <2>1. /\ order'[o].payment_status = order[o].payment_status
        /\ order'[o].quantity = order[o].quantity
    BY <1>1, <1>3 DEF Flag, SetOrder, Order
  <2>2. ClaimStage(o)' = ClaimStage(o)
    BY <2>1 DEF ClaimStage, Status, InFlight
  <2> QED BY <1>1, <1>3, <2>1, <2>2, ClaimKept
<1> QED BY <1>2, <1>3

LEMMA StaffClaims ==
  ASSUME StoreInv, Staff
  PROVE  LedgerStep
<1>1. item \in Item /\ item.quantity \in Nat
  BY DEF StoreInv, TypeOK, Item
<1>2. Claims' = Claims
  BY DEF Staff, SellerEdits, Relist, Takedown, Restore, CorrectSold, OnlyItem, orderVars,
         cardVars, Claims, ClaimStage, Status, InFlight
<1>3. ASSUME NEW s \in Statuses \ {"pending_purchase"},
             NEW q \in Quantities \cup {item.quantity}, SellerEdits(s, q)
      PROVE  LedgerStep
  <2>1. item'.quantity = q /\ q \in Nat
    BY <1>1, <1>3, AmountsAssumption DEF SellerEdits, Item
  <2>2. \A o \in Orders : Claims[o].stage \notin {"held", "charged"}
    <3> SUFFICES ASSUME NEW o \in Orders PROVE ClaimStage(o) \notin {"held", "charged"}
      BY DEF Claims
    <3>1. Status(o) \in {"none", "paid", "failed", "refunded"}
      BY <1>3 DEF SellerEdits, Editable, CheckoutOpen, Pending, StoreInv, TypeOK, Status, Order
    <3> QED BY <3>1 DEF ClaimStage
  <2>3. Ledger!Restock
    BY <1>2, <2>1, <2>2 DEF Ledger!Restock
  <2> QED BY <2>3 DEF LedgerStep, Ledger!Next
<1>4. CASE Relist \/ Takedown \/ Restore \/ CorrectSold
  <2>1. item'.quantity = item.quantity
    BY <1>1, <1>4 DEF Relist, Takedown, Restore, CorrectSold, Item
  <2> QED BY <1>2, <2>1 DEF LedgerStep
<1> QED BY <1>3, <1>4 DEF Staff

LEMMA LedgerNext ==
  ASSUME StoreInv, [Next]_vars
  PROVE  LedgerStep
<1>1. CASE UNCHANGED vars
  BY <1>1 DEF vars, itemVars, orderVars, cardVars, LedgerStep, Claims, ClaimStage, Status, InFlight
<1>2. ASSUME NEW o \in Orders, Buyer(o)
      PROVE  LedgerStep
  BY <1>2, ReserveClaims, CreateIntentClaims, BillingFailsClaims, AttachIntentClaims,
     PayBeginsClaims, ConfirmClaims, BuyerRetiresClaims DEF Buyer
<1>3. ASSUME NEW o \in Orders, Processor(o)
      PROVE  LedgerStep
  <2>1. CASE RefundNotice(o)
    <3>1. intent' = intent /\ (\/ Status(o) = "paid" /\ ApplyRefund(o)
                               \/ (Flag(o) \/ order' = order) /\ item' = item)
      BY <2>1 DEF RefundNotice, HandleRefund
    <3> QED BY <2>1, <3>1, RefundNoticeOK, RefundClaims
  <2> QED BY <1>3, <2>1, PaymentSettlesClaims, IntentCanceledOutsideClaims,
             RefundedOutsideClaims, MarkOrderPaidClaims, CanceledNoticeClaims DEF Processor
<1>4. ASSUME NEW o \in Orders, Platform(o)
      PROVE  LedgerStep
  <2>1. CASE RecordRefund(o)
    <3>1. Status(o) \in Bought
      BY <2>1 DEF RecordRefund, StoreInv, OrderOK, OutcomeOK
    <3>2. intent' = intent /\ (\/ Status(o) = "paid" /\ ApplyRefund(o)
                               \/ (Flag(o) \/ order' = order) /\ item' = item)
      BY <2>1, <3>1 DEF RecordRefund, Bought, cardVars
    <3> QED BY <2>1, <3>2, RecordRefundOK, RefundClaims
  <2> QED BY <1>4, <2>1, LapseClaims, SweepClaims, FinishReleaseClaims, AdminRefundsClaims,
             RequestDiesClaims DEF Platform
<1> QED BY <1>1, <1>2, <1>3, <1>4, StaffClaims DEF Next

LEMMA LedgerInit ==
  ASSUME Init
  PROVE  Ledger!Init
<1>1. item.quantity \in Nat
  BY StoreInit DEF StoreInv, TypeOK, Item
<1>2. \A o \in Orders : ClaimStage(o) = "none" /\ order[o].quantity = 0
  BY DEF Init, NoOrder, ClaimStage, Status
<1>3. Claims = [o \in Orders |-> [stage |-> "none", units |-> 0]]
  BY <1>2 DEF Claims
<1> QED BY <1>1, <1>3 DEF Ledger!Init

\* The store implements the ledger of units: units are taken once per order, never
\* given back while money is being taken for them, and never recounted under an
\* open checkout (createOrder, releaseOrder, markOrderPaid, updateItem).
THEOREM StoreKeepsLedger == Spec => UnitsArePromised
<1>1. Init => Ledger!Init
  BY LedgerInit
<1>2. StoreInv /\ [Next]_vars => LedgerStep
  BY LedgerNext
<1> QED BY <1>1, <1>2, StoreHolds, PTL DEF Spec, UnitsArePromised, Ledger!Spec, LedgerStep
=============================================================================
