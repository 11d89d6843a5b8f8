# A formal model of the Advantage auction platform

This directory models the transactional core of the repository (a Node/Express
application over PostgreSQL and Stripe) in TLA+, checks it with TLC on small
instances and proves its most important invariants with TLAPS for all instances.

File references are relative to the repository root.

## 1. Inventory

| Component | State | Operations | What is hard | What makes it correct |
|---|---|---|---|---|
| Increment ladder `public/widgets/shared/bid-increment.js` | none | `incrementForCents`, `effectiveIncrement`, `nextMinCents` | band boundaries | equals the published table; minimum never falls |
| Bidding `src/services/bidService.js`, `src/routes/lots.js` | `lots`, `bids`, `lot_proxy_bids`, `notifications_queue` | `createBid` = `resolveProxyBid` + `applyAntiSnipe` | row locks, ties, raised maxima, stale pre-flight reads | leader = top bid row; nobody pays above their maximum; displaced leaders told |
| Schedulers `src/workers/notificationWorker.js` | `lots.state`, `auctions.state` | `runAuctionStateTransitions`, `runLotAutoClose` | race with late bids and extensions | no lot closed early; every sale ends |
| Auction close `src/services/auctionService.js` | `auctions`, `lots`, `seller_payouts` | `publishAuction`, `closeAuction` | lock order against bids, two closers, crash after commit | sold at the top bid, results final, payout = sum of sales |
| Staff edits `src/routes/lots.js`, `src/services/complianceService.js` | `lots`, `auctions` | PUT, POST, DELETE lot; `withdrawLot`, `unpublishAuction` | handlers check first and write later, without locks | never break leader, maximum or result |
| Stripe webhooks `src/services/paymentService.js` | `stripe_webhook_events` | acquire, dispatch, finalise | duplicates, stale takeover, late finalise | handled once, never lost |
| Payments `src/services/paymentService.js`, `combinedInvoiceService.js`, `combinedChargeReconciler.js` | `payments`, `buyer_auction_invoices`, Stripe intents | charge at close, Pay Now, webhook, reconcile, refund | crash between Stripe and database, reordered events, two ways to pay | charged at most once, refunds add up |
| Storefront checkout and listings `src/services/marketplaceOrderService.js`, `marketplaceItemService.js`, `marketplaceModerationService.js` | `marketplace_items`, `marketplace_orders`, one intent per order | reserve, bill, pay, sweep, refund; edit, relist, take down, restore, correct | holds that expire while a card is charged, requests that die between database and processor | units held by one checkout, money only for units held, checkouts end |
| Storefront payouts `src/services/storefrontSettlementService.js`, `storefrontCommissionAdjustmentService.js` | `storefront_payouts`, its lines, recoveries, corrections; transfers | fulfil, hold, refund, prepare a week, void, Pay Seller | a processor call inside a transaction, refunds during it, a lost COMMIT | an order paid once, as stated; refunds recovered |
| Auction settlement engine `src/services/settlementEngine.js` | settlements, adjustments | build, adjust, pay | replays | totals balance |
| Pickup `src/services/pickup*Service.js` | slots | assign, reschedule | capacity | no overbooked slot |
| Notification queue `src/workers/notificationWorker.js` | `notifications_queue` | claim, send, retry | crash between send and mark | sent at least once, given up at the limit |
| Paid-growth ledger `src/services/paidBudgetLedger.js` | reservations | reserve, release, spend | concurrent reservations | never above budget |

The rest of the repository (accounts, agreements, marketing, CRM, event
discovery, the voice agent, storefront pages, documents, the Python creative
engine) is listed in `PROJECT.json` with the reason it is left out: single-row
form processing, rendering, heuristics or external I/O.

How the parts interact: routes and workers share only the database. A buyer's
request is judged once without locks (route) and once under the lot's row lock
(`createBid`). The notification worker's timers promote, auto-close and close.
`closeAuction` commits winners and the seller payout and then, outside the
transaction, starts settlement, pickup, reports and invoicing, each of which may
fail or be lost in a restart. Payment results come back through Stripe webhooks,
delivered at least once and in any order.

## 2. Modules

| Module | Models |
|---|---|
| `BidIncrement` | the increment ladder, as pure operators |
| `BidIncrement_proofs` | TLAPS proofs about the ladder, for every price |
| `AuctionFloor` | bidding, soft close, auto-close, scheduler, `closeAuction`, staff interventions |
| `ProxySale` | what an auction by proxy promises about each lot: maxima, leader, price, hammer |
| `MCAuctionFloor` | model values and symmetry for the runs below |
| `AuctionFloor_proofs` | TLAPS proofs about `AuctionFloor` |
| `AuctionSale_proofs` | TLAPS proofs about its prices, its notices and a sale without edits, and that it implements `ProxySale` |
| `WebhookLedger` | claiming, handling and marking of Stripe events: the in-memory set, `_acquireWebhookEvent` statement by statement, `_finalizeWebhookEvent`, the answers |
| `ExclusiveHandling` | what the ledger promises: one worker per event, none once it is done |
| `MCWebhookLedger` | model values and symmetry for the ledger's runs |
| `WebhookLedger_proofs` | TLAPS proofs about `WebhookLedger`, and that it implements `ExclusiveHandling` |
| `CombinedCharge` | collecting one buyer's combined invoice: the automatic charge, Pay Now, the checkout page, the provider's events, the reconciler |
| `OneCharge` | what the collection promises: one charge at most, and a charge settles the invoice |
| `MCCombinedCharge` | model values and symmetry for the charge's runs |
| `CombinedCharge_proofs` | TLAPS proofs about `CombinedCharge` |
| `ChargeOnce_proofs` | TLAPS proofs that at most one intent is charged, and that `CombinedCharge` implements `OneCharge` up to liveness |
| `StorefrontOrders` | one fixed-price item: its stock, its checkouts, the processor's notices, the sweeper, refunds, the seller's and the administrator's edits |
| `UnitLedger` | what the store promises about units: taken once, returned at most once, never while money is taken |
| `MCStorefrontOrders` | model values for the store's run |
| `StorefrontOrders_proofs` | TLAPS proofs about `StorefrontOrders`, and that it implements `UnitLedger` |
| `Totals` | sums of amounts over sets, by counting units, shared by the two storefront modules |
| `StorefrontPayouts` | one seller's weekly payouts: fulfilment, holds, refunds, recoveries, corrections, Pay Seller |
| `MCStorefrontPayouts` | amounts for the payouts' runs |
| `StorefrontPayouts_proofs` | TLAPS proofs about `StorefrontPayouts` |

### AuctionFloor

State: `lot` is the `lots` row, `auction` the `auctions` row, `bids` and `proxy`
the two bid tables, `outbid` the OUTBID rows queued, `payout` the hammer total of
`seller_payouts`, itemised by lot. `request[t]` is the t-th bid request: it is
*begun* after the route's unlocked checks, *locked* once it holds the lot's row
and has passed `createBid`'s checks, then *accepted* or *rejected*. `closer` is
the closing transaction with the lots it has locked.

The unit of atomicity is the stretch between two lock waits. A bid takes the lot
row `FOR UPDATE` (`bidService.js:237`) and needs a share lock of the auctions row
when it inserts into `bids` (foreign key, `db/migrations/001:156`). `closeAuction`
takes the auctions row `FOR UPDATE` (`auctionService.js:988`) and then the lots
rows (`:1018`). These orders cross: PostgreSQL aborts one of two transactions
waiting for each other, which is `AbortBid` and `AbortClose`.

`created_at` of a bid and of a proxy row is the transaction's start time, so
requests are numbered in the order they begin and the number is the time stamp;
equal maxima go to the smaller number even when it got the lock second.

Abstractions: time in minutes (lot interval 1, soft-close window 2, extension 2);
the auction is neither a demo nor archived; `Bidders` already passed registration,
terms and card checks; the increment on a lot is the resolved override (lot, then
auction, then auction house; 0 when none); at most one closing transaction (a
second one finds "already closed"); `publishAuction` is one step that waits for no
locked lot, its own preconditions (30 lots, pickup, premium, verification, pricing
snapshot) are taken as met; an administrator's free-form write of
`auctions.state` is left out.

Two specifications share the actions: `Spec` has staff interventions, `SaleSpec`
is the platform alone. Properties that staff edits may legitimately void (the
shown price, the end covering every lot, no early close) are stated for
`SaleSpec` or until the first edit; leader, maximum, sold-at-top-bid and final results hold for `Spec`.


### WebhookLedger

State: `row[e]` is the event's row in `stripe_webhook_events`, `cache[s]` the
set `_processedEvents` of server process `s`, `delivery[d]` a request slot with
the statement the request is at, `acked` what the provider believes delivered,
`handled` (history) the events whose handler has run to its end. `stale` is a
`received` row older than `STALE_IN_FLIGHT_SECONDS`, `legacy` one without a
payload; `attempt_count`, `last_error` and the time stamps are left out.

Each database statement commits by itself, so there is one action per statement:
`Insert`, `Inspect` (the SELECT), `Promote`, `Reclaim`, `TakeOver`, then
`HandlerReturns` or `HandlerThrows`, then `MarkProcessed` or `MarkFailed`. A lost
race goes through `Again`, which gives up after `MaxAttempts`. The handler itself
is a run that ends or throws; what the handlers do to payments is another module's
subject. A statement may fail (`StatementFails`), a process may die (`Crash`), an
answer may not reach the provider (`Acknowledge`).

Two specifications share these actions:

* `SteadySpec` takes for granted what the code does: a handler ends before its row
  is stale (the 300-second margin of `paymentService.js:72`), a statement that
  reports an error was not executed, nobody deletes rows.
* `Spec` drops all three.

Fairness: `RequestsGoOn` is weak fairness of each request's next step (Node runs
a request whose query has returned). `FairSteady` adds that unfinished events are
sent again for ever (by the provider or by hand), time passes, and no statement,
handler or process fails at the same point for ever (strong fairness of the step).

### CombinedCharge

One buyer's combined invoice in one closed auction. State: `header` is
`buyer_auction_invoices.status`; `status`, `named`, `uncertain` and `aged` are the
`payments` rows with `lot_id` NULL (status, whether `payment_intent_id` is set,
whether the audit log holds `payment.charge_uncertain`, whether the row is older than
a minute); `intent` and `declines` are the provider's side: the intent of each row and
the declines whose event is still to be handled. `hook`, `tab[t]` and `review` are
the three kinds of flow with the step they are at and what they have read:

* `hook`, the loop body of `closeAuction` for this buyer (`auctionService.js:1220`)
  with `chargeCombinedOffSession`: insert, charge, note, decline, attach, settle,
  fallback, route;
* `tab[t]`, a request of the buyer: Pay Now (`createCombinedPaymentIntent` with
  `_resolveOpenIntentsForRetry`: press, inspect, cancel, retire, begin, create,
  release, record) or the checkout page (`confirmOnSessionPayment`: submit, confirm,
  finalize). Requests may end anywhere (`GiveUp`), slots are reused;
* `review`, one row of `reconcileUncertainCharges`: pick, repeat or search, attach,
  settle, fail, route.

One action is one transaction or one call of the provider. Between two of them
every other flow may go on, which is what the row's guards (`status = 'pending'`,
`payment_intent_id IS NULL`, the partial unique index) have to survive. A row has one
intent because its request carries a key used for nothing else (the invoice's id for
the automatic charge, a fresh key per press for Pay Now).

`Mishaps` names what the environment may do besides, so that each property can be
checked under exactly what it withstands: the process stops in the hook or in the
reconciler; the note of an unknown outcome is not written; the hook cannot record the
intent; a decline's event comes before the row has its intent; Pay Now on an invoice
still `issued`; a card tried again before the previous decline was handled; an intent the
provider does not know under the current keys, whose row Pay Now retires
(`paymentService.js:541`); a checkout page for a payment Pay Now has not returned: the server
takes any payment of the buyer (`paymentService.js:1000`), the page knows only the one it was given
(`public/invoices.html:88`). `dropped`
(history) says that a stop, a lost note or a lost decline has happened.

Abstractions: an intent that waits for 3-D Secure is open; sales tax (a failed calculation fails the row like a decline), voided
and refunded invoices, test auctions, per-lot invoice rows and e-mails; "older
than 60 seconds" (`paymentService.js:895`) and "older than three minutes"
(`combinedChargeReconciler.js:51`) are one flag; `repeat` and `search` are both possible
at any time instead of before and after 23 hours; a settlement or reconciliation
that fails ends as when its process stops.

Fairness: the hook and the reconciler go on while their process lives (weak), the
provider is not out of reach for ever (strong, of `Repeat \/ Search`), a charge under
way is decided, time passes, and events are handled in the end. The last is an
assumption on the ledger: `WebhookFailedLost` shows an event that is not repeated by
itself. The buyer may do nothing for ever.

### StorefrontOrders

One item at a fixed price and the checkouts for it. State: `item` is the
`marketplace_items` row, `order[o]` the `marketplace_orders` row of one checkout
(`billed`: the intent's id is on it; `review`: `payment_review_required`), `lapsed` the
orders whose `hold_expires_at` has passed. `checkout`, `paying`, `releasing` and
`refunding` are the requests under way, with what they have read. `intent`, `refund`
and `noticed` are the processor's side. `stocked` (history) is what the seller put on the
shelf.

One action is one transaction (each locks the order, then the item) or one call of the
processor. So a checkout is `Reserve`, `CreateIntent` or `BillingFails`, `AttachIntent`;
a payment is `PayBegins` (the hold is extended), `Confirm`, `MarkOrderPaid`, where the last
one stands for the request, the payment's notice and the sweeper alike, which call the
same function; a release is `BeginRelease` (a look at the intent, which is canceled) and
`FinishRelease`. The seller's and the administrator's operations on the listing are one
transaction each. `RequestDies` may end any request between its steps.

The triggers of migrations 197 and 207 are part of the actions they guard: `sold_at` is set by
status `sold`; a changed total is refused on an order no longer pending, which is the choice in
`AttachIntent`. The automatic refund of a payment whose claim is gone (`refundConflict`) has no
action because no reachable state needs one: `ChargedOrdersHoldTheirUnits` says so.

Abstractions: prices, shipping, tax, policies and agreements only decide whether a step is
refused; refunds are of the whole charge here (partial ones are in `StorefrontPayouts`); a
mismatch between the amount charged and the order's total, offers and conversions to an
auction lot are left out, and so is a client that sends the idempotency key of one checkout
(`marketplaceOrderService.js:452`) with another: every order has its own intent.

Fairness: the database clock passes, the sweeper runs every five minutes and at each new
checkout of the item, a transaction under way ends; the processor decides a payment under way
and repeats a notice until it is handled, the same assumption on the ledger as above. Buyers,
seller and administrator owe nothing.

### StorefrontPayouts

One seller's paid orders until they are paid out. State: `order` the columns a payout reads,
`payout` the `storefront_payouts` rows, `line[o]` the payout that has an active line for the
order, `recovery` and `correction` the two tables of amounts taken off or added, with
`recoveries` and `corrections` their `created_at` order; `pay[p]` says where the Pay Seller transaction
is; `transfer[p]` is what the processor sent under the key of payout `p`. `week` counts cutoffs
passed. `unsure` and `missed` (history) record a lost COMMIT and a lost recovery step.

Every operation is one transaction except two. Pay Seller is `PayChecks`, then `SendTransfer`
or `TransferRefused`, then `CommitPayment` or `CommitLost`: it keeps the payout's row locked over
the processor's call (`Unlocked` is every other transaction's `FOR UPDATE`), but not the rows of
the orders. And a refund is `RefundOrder`, then `RecordRecovery`, `RecoveryFails` or
`RecoveryNeverRuns`, because the code records the recovery in a transaction of its own, whose loss the
later notice does not repair (`marketplaceOrderService.js:947`).

`PrepareWeek` is the hourly tick for the latest cutoff: due orders, open recoveries oldest first
while the lines cover them, then corrections; a record of the same cutoff that is not paid yet is
added to. The table's CHECK (no negative payout) is a guard: the statement fails and nothing is
written.

Abstractions: tax remitted by the seller, the recovery of card fees (off by default), transfer
events and the conversation about an issue; amounts are small numbers.

Fairness: the tick recurs and a transaction at the processor ends one way or the other. Nobody
has to fulfil, release or pay anything.

### Fairness of the floor

`FairSale` assumes weak fairness of each timer-driven step (`setInterval` keeps
firing, a failing pass is caught and the next one runs), of the closing
transaction's steps, and of deadlock detection; and strong fairness of a bid's
lock steps: PostgreSQL queues lock waiters, so a waiter is served even when the
lock is taken and released again and again. Buyers and the administrator may do
nothing for ever. No fairness is needed for safety.

## 3. Runs

| Run | Instance | Shows |
|---|---|---|
| `floor_price` | 1 lot and 1 that may be added, 2 bidders and the seller's own attempts, 3 requests, maxima $50, $53 from a price of $48, 1 intervention at any moment, the administrator's close; the bidders are interchangeable | leader, shown price, maxima, OUTBID notices, price only rises, refinement of `ProxySale` (results are final) |
| `floor_sale` | 2 lots, 1 bidder, 2 requests, horizon 6 minutes, reserve or none, fairness | end of auction, early close, payout, sold at top bid; the sale ends, bids are answered |
| `WebhookSteady` | 1 event, 3 requests, 2 servers, set of 1 event; fairness | one handler per event, authoritative set, refinement of `ExclusiveHandling`, no state is a dead end for an event |
| `WebhookRough` | 2 events, 2 requests, 1 server, so that events evict each other; slow handlers, deleted rows, lost replies; fairness of each request | `processed` means handled; the claim loop always ends |
| `charge_any` | 2 payment rows, 2 requests, every mishap | paid exactly when charged, payments final |
| `charge_once` | 2 rows, 2 requests, stopping processes and a lost note; fairness | never two charged intents; refinement of `OneCharge`; the buyer is charged or asked, never on a guess |
| `storefront_orders` | 2 checkouts, 2 units, orders of 1 or 2, stock entered as 0 or 2, 2 interventions or dead requests; fairness | money only for units held, every unit accounted for, refinement of `UnitLedger`, sold stays off sale, checkouts end, refunds are recorded |
| `storefront_payouts` | 2 orders, 1 correction owed to the seller and 1 the seller owes, 2 cutoffs, 5 payout records, 3 upsets; fairness | paid twice only after a lost COMMIT, paid as stated, refunds recovered, what is due is prepared |

The amounts sit on both sides of the first band boundary ($49.99), where the
increment jumps from $1 to $5: ties, a price capped at the leader's maximum, a price
below it (with an override of $1) and a maximum below the next minimum all occur. Three requests are enough for a leader to be displaced,
come back and tie; two lots for an extension to push the auction's end past
another lot; a horizon of `StartTime + lots + 2 * MaxBids` covers every extension.

What the bounds leave to the proofs: a lot decided by both closers occurs in `floor_sale`, and with
a reserve edited in between in `payout_gap`; together with competing bids (`floor_price` with a clock
and reserves) the instance has more than 15 million states, and that lots are then still sold by proxy, once and
at the top bid, rests on `FloorSellsByProxy`, `ClosedLotsAreSoldAtTopBid` and `ResultsAreFinal`.
`WebhookSteady` has one event, so its set evicts nothing: with two events its liveness properties
need fairness for each event and do not finish. Evictions occur in `WebhookRough`, and for
the steady ledger rest on `CacheCanBeTrusted` and `LedgerHandlesExclusively`. A row finished by a request that
no longer owns it needs a slow handler, which only `WebhookRough` has.

In the ledger two attempts (5 in the code) suffice to run out of attempts, one
remembered event (5000) to evict, and three requests for two rivals to race for a
row that a third one has failed or abandoned; events interact only through the
set's capacity, so two of them are enough. Request slots are reused, so the number
of deliveries is unbounded.

In the charge two rows are needed for two charges of one invoice, and two requests for
a card to be confirmed in one window while another presses Pay Now; `charge_once` was
also checked with three rows and one request. Rows are never reused, so a behaviour
has at most as many attempts as rows.

In the store two checkouts suffice to compete for the last units, and two units with orders of one
or both make a listing with some units held, all held, and partly sold; two upsets let an edit
follow a dead request or a restore follow a takedown. In the payouts two orders make a record that is added
to, the correction (-2) exceeds what one order leaves after a refund and makes the CHECK bite, two cutoffs
part an order's payout from its recovery, and five records are enough for three upsets: each
further record needs a cutoff or a void.

Some runs end in a counterexample, each for a disagreement met while modelling:

* `payout_gap`: `closeAuction` adds up its own second decision on lots that were
  auto-closed. A lot is auto-closed as sold at $48, staff then enter a reserve of $50:
  the second decision is "unsold", the guarded update leaves the sold row alone, and
  the payout inserted with the COMMIT omits a lot whose buyer is invoiced. The
  settlement after the COMMIT stores the right sum, unless it fails or is lost.
* `WebhookFailedLost`: the duplicate answered "in flight" tells the provider that
  the event is delivered; when the handler at work then throws, no retry comes.
  (After a crash the same happens within the first five minutes; and a handler
  slower than the threshold may overwrite `processed` with `failed`, because the
  final update is by id alone, which is why `SteadySpec` excludes it.)
* `charge_twice`: a declined card's event retires the payment row although its intent
  stays open and the next card is being confirmed on it; Pay Now then creates a
  second intent and both are charged. The same property fails, without a run of its
  own here, when the buyer presses Pay Now on an invoice still `issued`
  (`public/invoices.html:124` shows the button; the automatic charge's row is retired
  after 60 seconds, `paymentService.js:893`) and when the hook cannot record the
  intent it created (`auctionService.js:1254` then finds nothing in flight), and when the
  provider does not know an open intent under the current keys: `paymentService.js:541` retires its
  row because such an intent "can never be paid", which the model does not assume. It holds
  under each of the other five mishaps; of these only `any_page` breaks `NeverAskedOnAGuess`:
  the buyer is asked while a payment they guessed is being confirmed.
* `storefront_paid_twice`: Pay Seller commits after the processor made the transfer. When that COMMIT is
  lost, the payout still looks unpaid; voided and prepared again, its orders are paid under the
  new payout's idempotency key. `PaidTwiceOnlyAfterLostCommit`, proved, says that this is the only way.

The model also shows behaviour for which no property is claimed, because nothing in
the code prevents it: a bid accepted with no time left does not extend its lot
(`bidService.js:164`); DELETE may withdraw a lot that got a bid after its check
(`lots.js:561`); an edited `closes_at` does not move `auctions.end_time`
(`lots.js:662`); a bid may be accepted on an auction just taken back to draft
(`bidService.js:262`).

The same holds of the storefront: a hold placed after the fulfilment takes the payout eligibility away
for good, and nothing ends a review (`storefrontSettlementService.js:17` says that an administrator
does); a recovery step lost with its process, or run while Pay Seller is at the processor, is not made
up for (`missed`); a sold item its seller removed before the full refund stays marked sold until it is
corrected; `restore` publishes without the checks of `updateItem`, so a listing may come back active
without a unit, or sold with units left; a second tick over a record with a correction the seller owes
counts the recoveries against the lines alone, and the failing CHECK ends the tick for the sellers
after this one; a payout that adds up to zero cannot be paid; a refund noticed before the payment is
flagged, and the order then still becomes paid.

Every property of a passing run has a mutant in `PROJECT.json`: a plausible bug
(kept in the modules under "Fault") under which TLC finds it violated.

## 4. Proofs

`AuctionFloor_proofs` proves, for any number of lots, bidders, bids and
interventions, and from the assumptions on constants named in `AuctionFloor`:

* `TypesAreRight`: `Spec => []TypeOK`
* `LeaderIsTop`: `Spec => []LeaderIsTopBidder`
* `MaximaAreRespected`: `Spec => []NobodyBidsAboveTheirMaximum`
* `ClosedLotsAreSoldAtTopBid`: `Spec => []SoldAtTopBid`
* `ResultsAreFinal`: `Spec => ResultIsFinal`

`LeaderIsTopBidder` is not inductive. A bidder who takes the lead is given a row
at `min(runner-up + increment, own maximum)`; this exceeds every earlier row only
because (`Headroom`) a row is at most the shown price or strictly below the
leader's maximum, and because the new maximum had to reach the next minimum, which
is above the shown price. So a tie won by an earlier time stamp finds no row at
the tied amount. `Headroom` survives edits that make the shown price fall, which
the simpler "no row is above the shown price" does not. `FloorOK` collects this
per lot; lemma `BidKeepsFloorOK` is the whole argument for one bid, free of
variables. The rest of `FloorInv` is about locks: a bid holding a lot holds it
alone, outside the closer's locks, and the row it checked is unchanged
(`LocksOK`); time stamps of proxies are distinct because each names the accepted
request that made it (`ProxiesOK`); lots held by the closer are open or closed
(`HeldOK`); a lot has no buyer before it is closed (`UnsoldOK`).
`FloorInv` itself was model-checked on small instances before it was proved.

`AuctionSale_proofs` builds on `FloorInv` and on the ladder's lemmas. It proves, for every
number of lots, bidders and bids,

* `ShownPriceIsTheTopBid`: `Spec => []ShownPriceIsTopBid`
* `PricesOnlyRise`: `Spec => PriceOnlyRises`
* `EveryDisplacedLeaderIsTold`: `Spec => []DisplacedLeadersAreTold`
* `EndCovers`: `SaleSpec => []EndCoversOpenLots`
* `NoneClosedEarly`: `SaleSpec => NoLotClosedEarly`
* `PayoutIsTheSumOfSales`: `SaleSpec => []PayoutIsSumOfSales`
* `FloorSellsByProxy`: `Spec => SoldByProxy`, the refinement of `ProxySale`
* `EveryLotGoesToTheHighestMaximum`: `Spec => []SoldToTheHighestMaximum`, stated beside its proof

That the shown price is the top row is not inductive. When a new bidder takes the lead the price
becomes `min(second + increment, own maximum)`, and nothing in that formula keeps it above the
price shown before. `PricesOK` adds the reason: the shown price never exceeds what it takes to
beat the second bidder (`Beatable`), and the amount that beats a higher maximum is never less,
across every band boundary (`BeatingIsMonotone`, from `NextMinimumNeverFalls`). Both properties
end at the first edit, as the code lets an edited starting price or increment move the price.

`SaleInv` is the argument for a sale nobody interferes with. The end of the auction covers every
open lot, so once the scheduler finds the auction due every open lot has run out (`DueOK`), and no
extension can follow because bidding is closed by then; the closing transaction has locked
exactly the visited lots that can still sell (`VisitedOK`), and a closed lot has a buyer exactly
when its bids reach its reserve (`ReservesOK`), so what `closeAuction` decides a second time for
lots the auto-close pass closed is what they were sold for. The run `payout_gap` shows how an
edited reserve breaks this. Both invariants were model-checked before they were proved.

`ProxySale` has no locks, clocks, increments or rows: a lot's book is the number of bids, everyone's
maximum, the leader and the price, which `SaleBook` reads off the tables (the price is the top bid
row, not the shown price, which an edit may move). It says what `PriceOnlyRises` and
`LeaderIsTopBidder` do not: that after every bid no other maximum exceeds the price and the leader's
own is not exceeded, whatever was edited before it. Most steps leave the book alone (`Unseen`).
`BidIsFair` is the argument for `CommitBid`: a leader who is replaced is replaced by a row above
every earlier one, and a leader who stays gets one not below, because the runner-up's maximum plus
an increment, capped by the leader's maximum, covers every other maximum. `HammerFalls` shows that
both closers decide a lot by the same outcome, and `closeAuction` brings the hammer down on several
lots at once, so `Hammer` takes a set. `EveryLotGoesToTheHighestMaximum` follows from the refinement
and the invariant: a closed lot's book is `Priced`, and its result is its book's leader and price.

`WebhookLedger_proofs` proves, for any number of events, requests and servers:

* `LedgerTypes`, `ClaimsAreExclusive`, `CacheCanBeTrusted`:
  `SteadySpec => []TypeOK`, `[]OneHandlerAtATime`, `[]CacheIsAuthoritative`
* `LedgerHandlesExclusively`: `SteadySpec => Promise!Spec`, the refinement
* `ProcessedMeansHandled`: `Spec => []ProcessedWasHandled`

The argument: a request that owns an event has its row `received` (`OwnersHold`),
so neither the INSERT, nor the reclaim (`failed`), nor the takeover (`stale`, and
stale rows have no owner) can succeed for a second one; a request about to promote
has seen a legacy row, which can only have become `processed` since
(`PromotersMeetLegacy`), which is what lets `Promote` warm the set without looking
at the update's count. Every step is first classified by its effect on owners,
rows and sets; invariance and refinement then follow from the effects alone.
`ProcessedMeansHandled` needs another invariant, without the row of an owner:
a request at "finish" has handled its event.

`CombinedCharge_proofs` proves, for any number of rows and requests and any mishaps:

* `ChargeTypes`: `Spec => []TypeOK`
* `PaidIsCharged`: `Spec => []PaidMeansCharged`
* `PaymentsAreFinal`: `Spec => PaymentIsFinal`

`PaidMeansCharged` is not inductive: a settlement works on what was read before.
`ChargeInv` adds what each flow still knows when it goes on: a hook, request or
reconciler about to settle holds a named row whose intent succeeded, and success is
never taken back by the provider (`HookOK`, `TabOK`, `ReviewOK`); a row being made by
a request has no intent and belongs to that request alone (`TabsApart`); at most one
row is active, as the unique index says (`RowsOK`). `ChargeInv` was model-checked
under all mishaps before it was proved.

`ChargeOnce_proofs` assumes `Careful`: none of the mishaps `attach_lost`, `unasked`, `hasty`
and `other_keys`, each of which alone lets two intents be charged, nor `any_page` (section 3). It proves:

* `AtMostOneCharge`: `Spec => []NeverBothPaid`
* `AskedOnlyWhenUncharged`: `Spec => NeverAskedOnAGuess`
* `ChargesOnce`: `Spec => One!Init /\ [][One!Next]_(One!vars)`, the refinement of
  `OneCharge` without its fairness

The invariant is `ChargeInv /\ OnceInv`. Its centre is `LiveOK`: an intent that has taken
money, or is being confirmed, belongs to the active row, of which the unique index
allows one. Every statement that retires a row needs a reason why the row's intent is
dead, and these reasons are the other conjuncts: a request retires only what the
provider canceled (`TabOnce`); a declined intent is not being confirmed again; the hook
and the reconciler give up a row only when its intent took nothing (`HookOnce`,
`ReviewOnce`); and `Begin`, which retires rows without an intent id merely for their
age, runs only after the buyer was asked, when the hook's intent has taken nothing
(`AskOnce`, lemma `OrphansAreNotLive`). An uncertain charge keeps the header `issued`,
and so keeps the buyer away from its row. The last step of `ChargesOnce` uses that a
step writes the header or asks the provider, never both.

`BidIncrement_proofs` proves, for every price, starting price and override:

* `LadderIsPublishedTable`: the loop over the bands gives the published table
* `NextMinimumNeverFalls`: a higher price never lowers the next minimum
* `WholeDollarMinimum`: whole-dollar inputs give a whole-dollar minimum

`StorefrontOrders_proofs` proves, for any number of orders, sizes, quantities and interventions:

* `OrdersTypeCorrect`: `Spec => []TypeOK` (the stock never falls below zero)
* `ChargesHoldTheirUnits`: `Spec => []ChargedOrdersHoldTheirUnits`
* `EveryUnitIsAccountedFor`: `Spec => []UnitsAccountedFor`
* `InCheckoutExactlyWhenHeld`: `Spec => []InCheckoutIsHeld`
* `SoldStaysOffSale`: `Spec => []SoldIsNeverOffered`
* `StoreKeepsLedger`: `Spec => UnitsArePromised`, the refinement of `UnitLedger`

`ChargedOrdersHoldTheirUnits` speaks of the charge and the row; between them stand requests which
looked at one and are about to write the other. `StoreInv` says what each of them still knows. A
release that canceled the intent finds it canceled for ever; one that found no intent has an order
that no pay request can reach, since the hold has lapsed or the request that bills it is over
(`ReleaseOK`), and only a billed intent can be charged (`BillingOK`). A pay request past its check
finds its order pending, bought, or its intent canceled (`PayOK`). `OutcomeOK` ties each final status
to the intent and to the returned units. `ShelfOK`, that an open checkout keeps its listing up, is
what `Editable`, `Takedown` and `CorrectSold` guard; with `ItemOK` it gives `SoldIsNeverOffered`.
The refinement then follows from the same invariant, one lemma per step.

`UnitsAccountedFor` is about sums over orders. A fold would need induction over data; `Totals` defines
the sum of `f` over a set as the number of its units (pairs of an element and a number up to its
amount), so that the library's facts about cardinality give all the proof needs: one order more adds
its amount (`SumWithOne`), and equal amounts over equal sets give equal sums (`SumOfSame`). On top of
`StoreInv` the property is then inductive (`Balanced`), one lemma per action that moves units.

`StorefrontPayouts_proofs` proves, for any number of orders, corrections, weeks, payouts and upsets:

* `PayoutTypesAreRight`: `Spec => []TypeOK` (no payout falls below zero)
* `PaidPayoutIsAsStated`: `Spec => []PaidAsStated`
* `PaidOnceUnlessCommitLost`: `Spec => []PaidTwiceOnlyAfterLostCommit`
* `RefundsAreRecovered`: `Spec => []RefundAfterPayoutIsRecovered`
* `PaidPayoutKeepsItsOrders`: the orders of a paid payout are those its transfer was made for

`PayInv` is `Shapes` (the part of the types the argument needs), `PayoutInv` and `OrderInv`. `PayoutInv`: the orders of a transfer are on that payout's line, unless it was sent without
a commit and then voided; so two transfers for one order need that. `OrderInv`: a settled order stays
on its paid payout; a refund that comes while the payment is under way has its recovery step ahead
or in `missed`, unless the order is flagged (`RefundSeen`); and no recovery is applied to a void payout.

`PaidAsStated` says that a paid payout's transfer and record equal the sum of its rows, although the
rows live in three tables other operations write. `StatedInv` follows the payment: from the checks on
the record equals that sum, from the call of the processor on so does the transfer. No step changes
the sum of a payout that is locked or paid: `PrepareWeek` takes only rows applied to no payout
(`TakenIs`), `VoidPayout` needs the lock and an unpaid record, and `RecordRecovery` raises only a
recovery no payout has taken, which needs that a recovery once made is more than zero (`RecoveryOK`):
otherwise the row it takes for missing might be applied already. `SameStatement` is the lemma on sums
under all of it. `StatedInv` and `RecoveryOK` were model-checked before they were proved.

Only model-checked:

* liveness under fairness and ENABLED, which the prover does not reach: `SaleEnds`, `EveryBidAnswered`,
  `EveryEventProcessed`, `EveryRequestAnswered`, `BuyerHasAnswer`, the fairness part of
  `ChargedOnce`, `EveryCheckoutEnds`, `RefundIsRecorded`, `DueIsPrepared`;
* what `CorrectionsTaken`, a recursive function, computes: the proofs use only that the
  corrections it takes are in the list, made and open.

Every invariant, action property and refinement of safety that a passing run checks is
proved for every value of the constants.

## 5. Not modelled

See `PROJECT.json` "components". Inside the modelled parts: texts, e-mail bodies,
realtime messages, the watchlist insert after a bid, reports, PDF files and audit
rows that nothing reads.

## 6. Plan

1. (done) ladder and its proofs, floor, staff, proofs of the floor.
2. (done) `WebhookLedger`, its abstraction and its proofs.
3. (done) `CombinedCharge`, `OneCharge`, their runs, and the proofs of both safety parts.
4. (done) `StorefrontOrders` with `UnitLedger`, `StorefrontPayouts`, their runs and proofs.
5. `Refunds` of auction invoices: refund requests against `charge.refunded` events, with
   conservation of the amount refunded, checked and proved.
6. (done) The properties of a sale without edits, and `ProxySale`, which `AuctionFloor` implements, proved
   step by step.
7. The auction settlement engine, pickup slots, notification queue and closeout, paid-growth
   reservations.
