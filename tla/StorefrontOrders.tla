-------------------------- MODULE StorefrontOrders --------------------------
(***************************************************************************)
(* One storefront item at a fixed price, its stock and its checkouts.      *)
(*                                                                         *)
(*   marketplaceOrderService      reserve, bill, pay, sweep, settle, refund*)
(*   marketplaceItemService       the seller edits the listing             *)
(*   marketplaceModerationService an administrator takes it down, restores *)
(*                                it, corrects a mistaken sale             *)
(*   migrations 197, 207, 212     the guards the database itself applies   *)
(*                                                                         *)
(* Each transaction is one step: it locks the order, then the item.        *)
(* Between transactions the code talks to the card processor (external):   *)
(* it creates an intent per order, confirms or cancels it, refunds it, and *)
(* is told later, at least once, of a payment, a cancellation, a refund.   *)
(* Prices, tax, shipping, agreements and policies only decide whether a    *)
(* step is refused, and are left to the choice of the step; refunds here   *)
(* are full refunds.                                                       *)
(***************************************************************************)
EXTENDS Totals

CONSTANTS
  Orders,       \* order ids: each is used for one checkout
  Sizes,        \* how many units a buyer may ask for
  Quantities,   \* how many units a seller may enter
  MaxUpsets     \* interventions of seller and staff, and requests that die (bound)

ASSUME OrdersAssumption == IsFiniteSet(Orders)
ASSUME AmountsAssumption == Sizes \subseteq Nat \ {0} /\ Quantities \subseteq Nat
ASSUME BoundAssumption == MaxUpsets \in Nat

VARIABLES
  item,       \* the marketplace_items row
  order,      \* the marketplace_orders rows
  lapsed,     \* orders whose hold_expires_at has passed
  checkout,   \* where the request that creates order o is
  paying,     \* pay requests between the extended hold and the confirmation
  releasing,  \* a release past its look at the payment, and what it saw
  refunding,  \* administrator refunds made and not yet recorded
  intent,     \* the processor's intent of order o (external)
  refund,     \* who refunded it there: nobody, the code, or a person outside (external)
  noticed,    \* refund notices the processor knows to be handled (external)
  stocked,    \* units the seller ever put on the shelf, net (history)
  upsets      \* interventions and dead requests so far

itemVars  == <<item, stocked>>
orderVars == <<order, lapsed>>
taskVars  == <<checkout, paying, releasing, refunding>>
cardVars  == <<intent, refund, noticed>>
vars == <<itemVars, orderVars, taskVars, cardVars, upsets>>

Statuses == {"draft", "active", "paused", "pending_purchase", "sold", "removed"}

Item == [status : Statuses, quantity : Nat, quantity_sold : Nat, sold_at : BOOLEAN,
         taken_down : BOOLEAN, prior_status : Statuses]
Order == [payment_status : {"none", "pending", "paid", "failed", "refunded"},
          quantity : Nat, stock_released : BOOLEAN, billed : BOOLEAN, review : BOOLEAN]

NoOrder == [payment_status |-> "none", quantity |-> 0, stock_released |-> FALSE,
            billed |-> FALSE, review |-> FALSE]

TypeOK ==
  /\ item \in Item
  /\ order \in [Orders -> Order]
  /\ lapsed \subseteq Orders
  /\ checkout \in [Orders -> {"idle", "reserved", "billing", "done"}]
  /\ paying \subseteq Orders
  /\ releasing \in [Orders -> {"no", "unbilled", "canceled"}]
  /\ refunding \subseteq Orders
  /\ intent \in [Orders -> {"none", "open", "processing", "succeeded", "canceled"}]
  /\ refund \in [Orders -> {"none", "ours", "outside"}]
  /\ noticed \subseteq Orders
  /\ stocked \in Int
  /\ upsets \in Nat

Init ==
  /\ \E q \in Quantities \ {0} :
       /\ item = [status |-> "active", quantity |-> q, quantity_sold |-> 0, sold_at |-> FALSE,
                  taken_down |-> FALSE, prior_status |-> "draft"]
       /\ stocked = q
  /\ order = [o \in Orders |-> NoOrder]
  /\ lapsed = {}
  /\ checkout = [o \in Orders |-> "idle"]
  /\ paying = {}
  /\ releasing = [o \in Orders |-> "no"]
  /\ refunding = {}
  /\ intent = [o \in Orders |-> "none"]
  /\ refund = [o \in Orders |-> "none"]
  /\ noticed = {}
  /\ upsets = 0

-----------------------------------------------------------------------------
(* Reading the rows.                                                       *)

Status(o)  == order[o].payment_status
Pending(o) == Status(o) = "pending"
InFlight(o) == intent[o] \in {"processing", "succeeded"}

\* payment_status = 'pending' AND stock_released_at IS NULL.
Held(o) == Pending(o) /\ ~order[o].stock_released

\* A checkout in progress blocks the seller and the administrator.
CheckoutOpen == \E o \in Orders : Pending(o)
AnyPaid      == \E o \in Orders : Status(o) = "paid"

\* claimedByThis: the order may still become a sale.
Claimed(o) == Held(o) /\ item.status # "removed" /\ ~item.taken_down

\* Fully sold: nothing about the listing may change any more.
FullySold ==
  \/ item.status = "sold"
  \/ item.sold_at
  \/ AnyPaid /\ ~(item.quantity > 0 /\ item.quantity_sold > 0)

-----------------------------------------------------------------------------
(* Writing the rows.                                                       *)

SetOrder(o, new) == order' = [order EXCEPT ![o] = new]

\* UPDATE marketplace_items when n units are reserved.
UnitsTaken(it, n) ==
  [it EXCEPT !.quantity = @ - n,
             !.status = IF it.quantity = n THEN "pending_purchase" ELSE @]

\* Fault: the units are given back by every release.
UnitsBackAgain(it, o) ==
  [it EXCEPT !.quantity = @ + order[o].quantity,
             !.status = IF @ = "pending_purchase" THEN "active" ELSE @]

\* returnUnits: once per order.
UnitsBack(it, o) ==
  IF order[o].stock_released THEN it
  ELSE [it EXCEPT !.quantity = @ + order[o].quantity,
                  !.status = IF @ = "pending_purchase" THEN "active" ELSE @]

\* Fault: a checkout still holding units is not looked at.
SoldOutAnyway(o) == item.quantity = 0

\* No unit is left and no other checkout holds one.
SoldOut(o) == item.quantity = 0 /\ \A p \in Orders \ {o} : ~Held(p)

\* The item row when order o is paid; status 'sold' sets sold_at (migration 207).
UnitsSold(it, o) ==
  [it EXCEPT !.quantity_sold = @ + order[o].quantity,
             !.status = IF SoldOut(o) THEN "sold" ELSE @,
             !.sold_at = @ \/ SoldOut(o)]

\* The sale is undone only for an item sold out, with no other paid order.
Unsell(o) == item.status = "sold" /\ \A p \in Orders \ {o} : Status(p) # "paid"

\* Fault: the item goes straight back on sale, its sold mark kept.
UnitsResold(it, o) ==
  [it EXCEPT !.quantity_sold = IF @ >= order[o].quantity THEN @ - order[o].quantity ELSE 0,
             !.status = IF Unsell(o) THEN "active" ELSE @]

\* applyRefundState: the units leave the sold count and stay off sale.
UnitsUnsold(it, o) ==
  [it EXCEPT !.quantity_sold = IF @ >= order[o].quantity THEN @ - order[o].quantity ELSE 0,
             !.status = IF Unsell(o) THEN "removed" ELSE @,
             !.sold_at = @ /\ ~Unsell(o)]

ApplyRefund(o) ==
  /\ SetOrder(o, [order[o] EXCEPT !.payment_status = "refunded"])
  /\ item' = UnitsUnsold(item, o)

Flag(o) == SetOrder(o, [order[o] EXCEPT !.review = TRUE])

-----------------------------------------------------------------------------
(* createOrder: reserve the units, then bill for them.                     *)

\* Fault: one unit is enough for an order of any size.
OfferedAtAll(n) == item.status = "active" /\ item.quantity > 0

Offered(n) == item.status = "active" /\ item.quantity >= n

\* The first transaction, under the item's lock.
Reserve(o, n) ==
  /\ Status(o) = "none"
  /\ Offered(n)
  /\ SetOrder(o, [NoOrder EXCEPT !.payment_status = "pending", !.quantity = n])
  /\ item' = UnitsTaken(item, n)
  /\ checkout' = [checkout EXCEPT ![o] = "reserved"]
  /\ UNCHANGED <<lapsed, stocked, paying, releasing, refunding, cardVars, upsets>>

\* Tax is known and the processor made the intent.
CreateIntent(o) ==
  /\ checkout[o] = "reserved"
  /\ checkout' = [checkout EXCEPT ![o] = "billing"]
  /\ intent' = [intent EXCEPT ![o] = "open"]
  /\ UNCHANGED <<itemVars, orderVars, paying, releasing, refunding, refund, noticed, upsets>>

\* Tax or the intent failed (the intent may exist all the same, its answer lost):
\* the order is released without a look at the processor.
BillingFails(o) ==
  /\ checkout[o] = "reserved"
  /\ checkout' = [checkout EXCEPT ![o] = "done"]
  /\ releasing' = [releasing EXCEPT ![o] = "unbilled"]
  /\ intent' \in {intent, [intent EXCEPT ![o] = "open"]}
  /\ UNCHANGED <<itemVars, orderVars, paying, refunding, refund, noticed, upsets>>

\* The intent's id and the total are written, whatever the order has become: the
\* guard of migration 197 refuses a changed total on an order no longer pending.
AttachIntent(o) ==
  /\ checkout[o] = "billing"
  /\ checkout' = [checkout EXCEPT ![o] = "done"]
  /\ \E written \in BOOLEAN :
       /\ Pending(o) => written
       /\ SetOrder(o, [order[o] EXCEPT !.billed = written])
  /\ UNCHANGED <<itemVars, lapsed, paying, releasing, refunding, cardVars, upsets>>

-----------------------------------------------------------------------------
(* payOrder: extend the hold, then confirm the intent.                     *)

\* The hold is still there and has not expired; it is extended.
Payable(o) == Held(o) /\ order[o].billed /\ o \notin lapsed

PayBegins(o) ==
  /\ Payable(o)
  /\ o \notin paying
  /\ paying' = paying \cup {o}
  /\ UNCHANGED <<itemVars, orderVars, checkout, releasing, refunding, cardVars, upsets>>

\* The processor answers the confirmation: charged, under way, declined or
\* waiting for the buyer, or refused since the intent is over.
Confirm(o) ==
  /\ o \in paying
  /\ paying' = paying \ {o}
  /\ IF intent[o] = "open"
     THEN \E answer \in {"open", "processing", "succeeded"} :
            intent' = [intent EXCEPT ![o] = answer]
     ELSE UNCHANGED intent
  /\ UNCHANGED <<itemVars, orderVars, checkout, releasing, refunding, refund, noticed, upsets>>

\* A payment under way succeeds or is declined.
PaymentSettles(o) ==
  /\ intent[o] = "processing"
  /\ \E answer \in {"open", "succeeded"} : intent' = [intent EXCEPT ![o] = answer]
  /\ UNCHANGED <<itemVars, orderVars, taskVars, refund, noticed, upsets>>

\* The processor, or an operator at the processor, cancels an open intent.
IntentCanceledOutside(o) ==
  /\ intent[o] = "open"
  /\ order[o].billed
  /\ intent' = [intent EXCEPT ![o] = "canceled"]
  /\ UNCHANGED <<itemVars, orderVars, taskVars, refund, noticed, upsets>>

\* markOrderPaid, from the pay request, the payment's notice or the sweeper. The
\* refund of an order whose claim is gone has no step: ChargedOrdersHoldTheirUnits.
MarkOrderPaid(o) ==
  /\ intent[o] = "succeeded"
  /\ order[o].billed
  /\ Claimed(o)
  /\ SetOrder(o, [order[o] EXCEPT !.payment_status = "paid"])
  /\ item' = UnitsSold(item, o)
  /\ UNCHANGED <<lapsed, stocked, taskVars, cardVars, upsets>>

-----------------------------------------------------------------------------
(* Releasing a hold.                                                       *)

\* hold_expires_at passes.
Lapse(o) ==
  /\ Held(o)
  /\ lapsed' = lapsed \cup {o}
  /\ UNCHANGED <<itemVars, order, taskVars, cardVars, upsets>>

\* Faults: the intent is left as it is; an order without an intent is left alone.
ReleaseBlindly(o) ==
  /\ releasing' = [releasing EXCEPT ![o] = "canceled"]
  /\ UNCHANGED intent
ReleaseIfBilled(o) ==
  /\ order[o].billed
  /\ intent[o] \in {"open", "canceled"}
  /\ intent' = [intent EXCEPT ![o] = "canceled"]
  /\ releasing' = [releasing EXCEPT ![o] = "canceled"]

\* releaseOrder with cancelIntent: an order whose intent is unknown is released
\* as it is; otherwise only once the intent can no longer take money.
BeginRelease(o) ==
  IF order[o].billed
  THEN /\ intent[o] \in {"open", "canceled"}
       /\ intent' = [intent EXCEPT ![o] = "canceled"]
       /\ releasing' = [releasing EXCEPT ![o] = "canceled"]
  ELSE /\ releasing' = [releasing EXCEPT ![o] = "unbilled"]
       /\ UNCHANGED intent

\* sweepExpiredHolds, or the expired holds a new checkout finds on the item.
Sweep(o) ==
  /\ Held(o)
  /\ o \in lapsed
  /\ releasing[o] = "no"
  /\ BeginRelease(o)
  /\ UNCHANGED <<itemVars, orderVars, checkout, paying, refunding, refund, noticed, upsets>>

\* reuseOrRetireHold: the same buyer comes back with other choices.
BuyerRetires(o) ==
  /\ Held(o)
  /\ o \notin lapsed
  /\ order[o].billed
  /\ releasing[o] = "no"
  /\ BeginRelease(o)
  /\ UNCHANGED <<itemVars, orderVars, checkout, paying, refunding, refund, noticed, upsets>>

\* The transaction of releaseOrder.
Release(o) ==
  IF Status(o) \in {"paid", "refunded"}
  THEN UNCHANGED <<order, item>>
  ELSE /\ SetOrder(o, [order[o] EXCEPT !.payment_status = "failed", !.stock_released = TRUE])
       /\ item' = UnitsBack(item, o)

FinishRelease(o) ==
  /\ releasing[o] # "no"
  /\ releasing' = [releasing EXCEPT ![o] = "no"]
  /\ Release(o)
  /\ UNCHANGED <<lapsed, stocked, checkout, paying, refunding, cardVars, upsets>>

\* payment_intent.canceled: released without cancelIntent.
CanceledNotice(o) ==
  /\ intent[o] = "canceled"
  /\ order[o].billed
  /\ Release(o)
  /\ UNCHANGED <<lapsed, stocked, taskVars, cardVars, upsets>>

-----------------------------------------------------------------------------
(* Refunds.                                                                *)

\* refundOrder: the processor refunds (once, by its idempotency key), then the
\* refund is recorded. A refund made outside makes the call fail.
AdminRefunds(o) ==
  /\ Status(o) = "paid"
  /\ refund[o] # "outside"
  /\ refund' = [refund EXCEPT ![o] = "ours"]
  /\ refunding' = refunding \cup {o}
  /\ UNCHANGED <<itemVars, orderVars, checkout, paying, releasing, intent, noticed, upsets>>

\* applyRefundState, or its failure, which flags the order for review.
RecordRefund(o) ==
  /\ o \in refunding
  /\ refunding' = refunding \ {o}
  /\ \/ IF Status(o) = "refunded" THEN UNCHANGED <<order, item>> ELSE ApplyRefund(o)
     \/ Flag(o) /\ UNCHANGED item
  /\ UNCHANGED <<lapsed, stocked, checkout, paying, releasing, cardVars, upsets>>

\* A person refunds the charge at the processor.
RefundedOutside(o) ==
  /\ intent[o] = "succeeded"
  /\ refund[o] = "none"
  /\ refund' = [refund EXCEPT ![o] = "outside"]
  /\ UNCHANGED <<itemVars, orderVars, taskVars, intent, noticed, upsets>>

\* Fault: a refund of an order not yet paid is ignored.
RefundIgnoredUnlessPaid(o) ==
  IF Status(o) = "paid" THEN ApplyRefund(o) ELSE UNCHANGED <<order, item>>

\* tryHandleChargeRefunded.
HandleRefund(o) ==
  IF Status(o) = "paid" THEN ApplyRefund(o)
  ELSE /\ IF Status(o) = "refunded" THEN UNCHANGED order ELSE Flag(o)
       /\ UNCHANGED item

\* charge.refunded, delivered until it is handled.
RefundNotice(o) ==
  /\ refund[o] # "none"
  /\ o \notin noticed
  /\ noticed' = noticed \cup {o}
  /\ HandleRefund(o)
  /\ UNCHANGED <<lapsed, stocked, taskVars, intent, refund, upsets>>

-----------------------------------------------------------------------------
(* The seller and the administrator.                                       *)

Upset == upsets < MaxUpsets /\ upsets' = upsets + 1
OnlyItem == UNCHANGED <<orderVars, taskVars, cardVars>>

\* SELLER_TRANSITIONS.
Transitions ==
  [draft   |-> {"draft", "active", "removed", "sold"},
   active  |-> {"active", "draft", "paused", "removed", "sold"},
   paused  |-> {"paused", "active", "draft", "removed", "sold"},
   removed |-> {"removed", "draft", "active"},
   sold    |-> {"sold", "removed"},
   pending_purchase |-> {}]

\* Fault: a checkout in progress is not looked at.
EditableAnyway(s, q) == s \in Transitions[item.status] \cup {item.status}

\* updateItem's conditions on a new status and quantity.
Editable(s, q) ==
  /\ ~CheckoutOpen
  /\ item.status # "pending_purchase"
  /\ s # item.status => ~item.taken_down /\ s \in Transitions[item.status]
  /\ s # item.status /\ s \in {"draft", "active", "paused"} => ~FullySold
  /\ q # item.quantity => ~FullySold
  /\ s = "active" => q > 0

SellerEdits(s, q) ==
  /\ Upset
  /\ Editable(s, q)
  /\ item' = [item EXCEPT !.status = s, !.quantity = q, !.sold_at = @ \/ s = "sold"]
  /\ stocked' = stocked + (q - item.quantity)
  /\ OnlyItem

\* relistItem's conditions.
Relistable ==
  /\ item.status \in {"removed", "draft"}
  /\ ~item.taken_down
  /\ \A o \in Orders : ~Held(o)
  /\ AnyPaid => item.quantity > 0 /\ item.quantity_sold > 0
  /\ ~item.sold_at
  /\ item.quantity > 0

Relist ==
  /\ Upset
  /\ Relistable
  /\ item' = [item EXCEPT !.status = "active"]
  /\ UNCHANGED stocked
  /\ OnlyItem

Takedown ==
  /\ Upset
  /\ ~item.taken_down
  /\ item.status # "pending_purchase"
  /\ ~CheckoutOpen
  /\ item' = [item EXCEPT !.status = "removed", !.taken_down = TRUE, !.prior_status = item.status]
  /\ UNCHANGED stocked
  /\ OnlyItem

\* The status a restored listing comes back with.
RestoredStatus ==
  IF (AnyPaid \/ item.sold_at) /\ item.prior_status \in {"active", "paused", "draft"}
  THEN "sold" ELSE item.prior_status

Restore ==
  /\ Upset
  /\ item.taken_down
  /\ item' = [item EXCEPT !.status = RestoredStatus, !.taken_down = FALSE,
                          !.sold_at = @ \/ RestoredStatus = "sold"]
  /\ UNCHANGED stocked
  /\ OnlyItem

CorrectSold ==
  /\ Upset
  /\ item.sold_at
  /\ ~item.taken_down
  /\ ~CheckoutOpen
  /\ ~AnyPaid
  /\ item' = [item EXCEPT !.status = "draft", !.sold_at = FALSE]
  /\ UNCHANGED stocked
  /\ OnlyItem

-----------------------------------------------------------------------------
\* A server stops, or a transaction fails: the request of o goes no further.
RequestDies(o) ==
  /\ Upset
  /\ \/ /\ checkout[o] \in {"reserved", "billing"}
        /\ checkout' = [checkout EXCEPT ![o] = "done"]
        /\ UNCHANGED <<paying, releasing, refunding>>
     \/ /\ o \in paying
        /\ paying' = paying \ {o}
        /\ UNCHANGED <<checkout, releasing, refunding>>
     \/ /\ releasing[o] # "no"
        /\ releasing' = [releasing EXCEPT ![o] = "no"]
        /\ UNCHANGED <<checkout, paying, refunding>>
     \/ /\ o \in refunding
        /\ refunding' = refunding \ {o}
        /\ UNCHANGED <<checkout, paying, releasing>>
  /\ UNCHANGED <<itemVars, orderVars, cardVars>>

Buyer(o) ==
  \/ \E n \in Sizes : Reserve(o, n)
  \/ CreateIntent(o) \/ BillingFails(o) \/ AttachIntent(o)
  \/ PayBegins(o) \/ Confirm(o) \/ BuyerRetires(o)
Processor(o) ==
  \/ PaymentSettles(o) \/ IntentCanceledOutside(o) \/ RefundedOutside(o)
  \/ MarkOrderPaid(o) \/ CanceledNotice(o) \/ RefundNotice(o)
Platform(o) ==
  \/ Lapse(o) \/ Sweep(o) \/ FinishRelease(o)
  \/ AdminRefunds(o) \/ RecordRefund(o) \/ RequestDies(o)
Staff ==
  \/ \E s \in Statuses \ {"pending_purchase"}, q \in Quantities \cup {item.quantity} :
       SellerEdits(s, q)
  \/ Relist \/ Takedown \/ Restore \/ CorrectSold

Next == (\E o \in Orders : Buyer(o) \/ Processor(o) \/ Platform(o)) \/ Staff

Spec == Init /\ [][Next]_vars

\* The clock and the sweeper's tick go on, a transaction under way ends, the
\* processor answers and repeats its notices until they are handled.
Fairness ==
  \A o \in Orders :
    /\ WF_vars(Lapse(o) \/ Sweep(o) \/ FinishRelease(o))
    /\ WF_vars(PaymentSettles(o) \/ MarkOrderPaid(o) \/ RefundNotice(o))

FairSpec == Spec /\ Fairness

-----------------------------------------------------------------------------
(* Properties.                                                             *)

\* Money the processor takes or has taken belongs to an order that is sold, was
\* refunded, or still holds its units on an item that is still for sale: the
\* sweeper, a cancellation, a buyer's second thoughts and a pay request may cross
\* in any way (releaseOrder, payOrder, markOrderPaid), and the automatic refund of
\* a payment that came too late (refundConflict) is never needed.
ChargedOrdersHoldTheirUnits ==
  \A o \in Orders :
    InFlight(o) => Claimed(o) \/ Status(o) \in {"paid", "refunded"}

\* Every unit the seller put on the shelf is on offer, held by one checkout, or
\* belongs to an order that was paid; the sold count is that of the paid orders
\* (createOrder, returnUnits, markOrderPaid, applyRefundState).
UnitsOf(S) == SumOver([o \in Orders |-> order[o].quantity], S)
UnitsAccountedFor ==
  LET held == {o \in Orders : Held(o)}
      paid == {o \in Orders : Status(o) = "paid"}
      ever == {o \in Orders : Status(o) \in {"paid", "refunded"}}
  IN  /\ stocked = item.quantity + UnitsOf(held) + UnitsOf(ever)
      /\ item.quantity_sold = UnitsOf(paid)

\* "Sale in progress" is shown exactly while checkouts hold the last units, so an
\* item is never stuck there and never looks free without a unit to sell
\* (createOrder, returnUnits, markOrderPaid against each other).
InCheckoutIsHeld ==
  item.status = "pending_purchase" <=> item.quantity = 0 /\ \E o \in Orders : Held(o)

\* An item marked sold is never offered, bought or in checkout, through whatever
\* edits, relisting, takedowns, restores and refunds it goes (the guard of
\* migration 207 never has anything to refuse).
SoldIsNeverOffered ==
  item.sold_at => item.status \in {"sold", "removed"} /\ ~CheckoutOpen

\* A refund at the processor, whoever made it and whenever it is noticed, ends with
\* the order recorded as refunded or flagged for review (refundOrder,
\* tryHandleChargeRefunded).
RefundIsRecorded ==
  \A o \in Orders :
    refund[o] # "none" ~> Status(o) = "refunded" \/ order[o].review

\* No checkout holds its units for ever: it is paid or gives them back, also when
\* its request died (sweepExpiredHolds).
EveryCheckoutEnds == \A o \in Orders : Pending(o) ~> ~Pending(o)

\* The claim of order o in the words of the ledger.
ClaimStage(o) ==
  CASE Status(o) = "none"     -> "none"
    [] Status(o) = "pending"  -> IF InFlight(o) THEN "charged" ELSE "held"
    [] Status(o) = "failed"   -> "returned"
    [] Status(o) = "paid"     -> "sold"
    [] Status(o) = "refunded" -> "refunded"

Claims == [o \in Orders |-> [stage |-> ClaimStage(o), units |-> order[o].quantity]]

Ledger == INSTANCE UnitLedger WITH available <- item.quantity, claim <- Claims

\* The store keeps the promise of UnitLedger.
UnitsArePromised == Ledger!Spec
=============================================================================
