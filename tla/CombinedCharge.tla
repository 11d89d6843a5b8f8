--------------------------- MODULE CombinedCharge ---------------------------
(***************************************************************************)
(* Collecting the combined invoice of one buyer in one closed auction: the *)
(* automatic charge of the close hook (auctionService.closeAuction,        *)
(* paymentService.chargeCombinedOffSession), "Pay Now" and the checkout    *)
(* page (createCombinedPaymentIntent, confirmOnSessionPayment), Stripe's   *)
(* events, and combinedChargeReconciler.                                   *)
(*                                                                         *)
(* A step is one database transaction or one call of the provider; what    *)
(* was read before a call may have changed when it returns.  The provider  *)
(* is external: a row's payment intent is created under the row's own      *)
(* idempotency key, so a repeated request finds the same intent, and the   *)
(* answer to a request may be lost whether or not it was carried out.      *)
(* Sales tax, refunds, voided invoices and test records are left out.      *)
(***************************************************************************)
CONSTANTS
  Rows,      \* ids of payments rows with lot_id NULL
  NoRow,
  Tabs,      \* requests of the buyer in progress at once (slots, reused)
  Mishaps    \* what the environment may do besides (see AllMishaps)

AllMishaps ==
  {"hook_dies",       \* the process stops while the close hook runs
   "review_dies",     \* ... or while the reconciler works on a row
   "note_lost",       \* the audit note of an unknown outcome is not written
   "attach_lost",     \* the hook cannot record the intent it created
   "early_decline",   \* a decline is handled before its row has the intent's id
   "unasked",         \* Pay Now before the buyer was asked to pay
   "hasty",           \* a card is tried again before its decline was handled
   "other_keys",      \* the provider does not know an intent under the current keys
   "any_page"}        \* a checkout page for a payment Pay Now has not returned

ASSUME ChargeAssumption == NoRow \notin Rows /\ Mishaps \subseteq AllMishaps

VARIABLES
  header,    \* buyer_auction_invoices.status
  status,    \* payments.status of each row ("none": not inserted yet)
  named,     \* rows with a payment_intent_id
  uncertain, \* rows with a payment.charge_uncertain note in the audit log
  aged,      \* rows older than 60 seconds
  intent,    \* the provider's payment intent of each row (external)
  declines,  \* rows with a payment_failed event still to be handled
  hook,      \* the close hook
  tab,       \* the buyer's requests
  review,    \* combinedChargeReconciler
  dropped    \* a flow was cut short by a mishap (history)

rows     == <<status, named, uncertain, aged>>
provider == <<intent, declines>>
vars     == <<header, rows, provider, hook, tab, review, dropped>>

Headers  == {"issued", "payment_required", "paid"}
Statuses == {"none", "pending", "paid", "failed"}
Intents  == {"none", "open", "processing", "succeeded", "canceled"}
Answers  == {"none", "succeeded", "processing", "declined", "open"}
HookAt   == {"insert", "charge", "note", "decline", "attach", "settle",
             "fallback", "route", "done"}
TabAt    == {"idle", "inspect", "cancel", "retire", "begin", "create",
             "release", "attach", "confirm", "settle"}
ReviewAt == {"idle", "ask", "attach", "settle", "fail", "route"}

TypeOK ==
  /\ header \in Headers
  /\ status \in [Rows -> Statuses]
  /\ named \subseteq Rows /\ uncertain \subseteq Rows /\ aged \subseteq Rows
  /\ intent \in [Rows -> Intents]
  /\ declines \subseteq Rows
  /\ hook \in [at : HookAt, row : Rows \cup {NoRow}, answer : Answers]
  /\ tab \in [Tabs -> [at : TabAt, row : Rows \cup {NoRow}]]
  /\ review \in [at : ReviewAt, row : Rows \cup {NoRow}, answer : Answers]
  /\ dropped \in BOOLEAN

NoTab  == [at |-> "idle", row |-> NoRow]
NoJob  == [at |-> "idle", row |-> NoRow, answer |-> "none"]

\* The close has committed and issued the invoice; the hook starts.
Init ==
  /\ header = "issued"
  /\ status = [p \in Rows |-> "none"]
  /\ named = {} /\ uncertain = {} /\ aged = {}
  /\ intent = [p \in Rows |-> "none"]
  /\ declines = {}
  /\ hook = [at |-> "insert", row |-> NoRow, answer |-> "none"]
  /\ tab = [t \in Tabs |-> NoTab]
  /\ review = NoJob
  /\ dropped = FALSE

-----------------------------------------------------------------------------
(* The payments rows and the invoice header. *)

May(mishap) == mishap \in Mishaps

Pending(p) == status[p] = "pending"
Active(p)  == status[p] \in {"pending", "paid"}

\* Rows retired by UPDATE ... SET status = 'failed' WHERE status = 'pending'.
Failing(gone) ==
  [p \in Rows |-> IF p \in gone /\ Pending(p) THEN "failed" ELSE status[p]]

\* Fault: the index keeps one paid row, but any number of pending ones.
SlotFreeUntilPaid(now) == \A q \in Rows : now[q] # "paid"

\* INSERT of a pending row: idx_payments_combined_active allows one active
\* row per invoice.
SlotFree(now) == \A q \in Rows : now[q] \notin {"pending", "paid"}

Insert(p, now) ==
  /\ status[p] = "none"
  /\ SlotFree(now)
  /\ status' = [now EXCEPT ![p] = "pending"]
  /\ UNCHANGED <<named, uncertain, aged>>

Fail(p) ==
  /\ status' = Failing({p})
  /\ UNCHANGED <<named, uncertain, aged>>

\* The same with payment_intent_id = COALESCE(payment_intent_id, ...).
FailNaming(p) ==
  /\ status' = Failing({p})
  /\ named' = IF intent[p] = "none" THEN named ELSE named \cup {p}
  /\ UNCHANGED <<uncertain, aged>>

\* UPDATE ... SET payment_intent_id WHERE payment_intent_id IS NULL.
Name(p) ==
  /\ named' = named \cup {p}
  /\ UNCHANGED <<status, uncertain, aged>>

\* The transaction of settleCombined; the unique index rejects it while
\* another row of the invoice is active.
Settles(p)  == header # "paid" /\ \A q \in Rows \ {p} : ~Active(q)
Rejected(p) == header # "paid" /\ ~Settles(p)

SettleCombined(p) ==
  IF Settles(p)
    THEN /\ header' = "paid"
         /\ status' = [status EXCEPT ![p] = "paid"]
         /\ UNCHANGED <<named, uncertain, aged>>
    ELSE UNCHANGED <<header, rows>>

\* Fault: the payment's status word is written into the header.
MarkFailedAsRow == header' = IF header = "paid" THEN "paid" ELSE "failed"

\* Fault: a late failure downgrades a paid header.
MarkFailedAnyway == header' = "payment_required"

MarkFailed == header' = IF header = "paid" THEN "paid" ELSE "payment_required"

-----------------------------------------------------------------------------
(* The provider. *)

Became(p, state) == intent' = [intent EXCEPT ![p] = state]

\* The first answer kept for an idempotency key may be older than the intent.
AnswersFor(state) ==
  CASE state = "none"       -> {"declined"}
    [] state = "open"       -> {"declined", "processing"}
    [] state = "processing" -> {"processing"}
    [] state = "succeeded"  -> {"succeeded", "processing"}
    [] OTHER                -> {"declined"}

\* An off-session charge of row p (create with confirm): carried out at most
\* once under its key.  A refused card leaves an open intent and an event.
OffSession(p, answer) ==
  \E state \in IF intent[p] = "none"
                 THEN {"none", "open", "processing", "succeeded"}
                 ELSE {intent[p]} :
    /\ Became(p, state)
    /\ declines' = IF intent[p] = "none" /\ state = "open"
                     THEN declines \cup {p} ELSE declines
    /\ answer \in AnswersFor(state) \cup {"lost"}

\* A charge that was under way is decided.
Clear(p) ==
  /\ intent[p] = "processing"
  /\ \/ Became(p, "succeeded") /\ UNCHANGED declines
     \/ Became(p, "open") /\ declines' = declines \cup {p}
  /\ UNCHANGED <<header, rows, hook, tab, review, dropped>>

-----------------------------------------------------------------------------
(* The close hook. *)

HookAtStage(stage) == hook.at = stage
HookGo(stage)  == hook' = [hook EXCEPT !.at = stage]

\* No card on file: ask the buyer.  Otherwise take the slot, unless an
\* attempt is under way, or fail on the database.
HookInsert ==
  /\ HookAtStage("insert")
  /\ \/ HookGo("route") /\ UNCHANGED rows
     \/ \E p \in Rows : /\ Insert(p, status)
                        /\ hook' = [hook EXCEPT !.at = "charge", !.row = p]
     \/ ~SlotFree(status) /\ HookGo("done") /\ UNCHANGED rows
     \/ HookGo("fallback") /\ UNCHANGED rows
  /\ UNCHANGED <<header, provider, tab, review, dropped>>

\* The request and its one repetition under the same key.
\* Fault: an unknown outcome is taken for a decline.
HookChargeGuess ==
  /\ HookAtStage("charge")
  /\ \E answer \in {"succeeded", "processing", "declined", "lost"} :
       /\ OffSession(hook.row, answer)
       /\ IF answer \in {"lost", "declined"}
            THEN HookGo("decline")
            ELSE hook' = [hook EXCEPT !.at = "attach", !.answer = answer]
  /\ UNCHANGED <<header, rows, tab, review, dropped>>

HookCharge ==
  /\ HookAtStage("charge")
  /\ \E answer \in {"succeeded", "processing", "declined", "lost"} :
       /\ OffSession(hook.row, answer)
       /\ CASE answer = "lost"     -> HookGo("note")
            [] answer = "declined" -> HookGo("decline")
            [] OTHER -> hook' = [hook EXCEPT !.at = "attach", !.answer = answer]
  /\ UNCHANGED <<header, rows, tab, review, dropped>>

HookNote ==
  /\ HookAtStage("note")
  /\ \/ /\ uncertain' = uncertain \cup {hook.row}
        /\ UNCHANGED <<status, named, aged, dropped>>
     \/ May("note_lost") /\ dropped' = TRUE /\ UNCHANGED rows
  /\ HookGo("done")
  /\ UNCHANGED <<header, provider, tab, review>>

\* The clean-up may fail; the invoice is routed all the same.
HookDecline ==
  /\ HookAtStage("decline")
  /\ FailNaming(hook.row) \/ UNCHANGED rows
  /\ HookGo("route")
  /\ UNCHANGED <<header, provider, tab, review, dropped>>

\* Fault: a charge under way is settled at once.
HookAttachOptimistic ==
  /\ HookAtStage("attach")
  /\ Name(hook.row)
  /\ HookGo("settle")
  /\ UNCHANGED <<header, provider, tab, review, dropped>>

HookAttach ==
  /\ HookAtStage("attach")
  /\ \/ /\ Name(hook.row)
        /\ HookGo(IF hook.answer = "succeeded" THEN "settle" ELSE "done")
     \/ May("attach_lost") /\ HookGo("fallback") /\ UNCHANGED rows
  /\ UNCHANGED <<header, provider, tab, review, dropped>>

HookSettle ==
  /\ HookAtStage("settle")
  /\ \/ SettleCombined(hook.row) /\ ~Rejected(hook.row) /\ HookGo("done")
     \/ UNCHANGED <<header, rows>> /\ HookGo("fallback")
  /\ UNCHANGED <<provider, tab, review, dropped>>

\* "Never leave the buyer without a way to pay."
InFlight == \E p \in Rows : status[p] = "paid" \/ (Pending(p) /\ p \in named)

HookFallback ==
  /\ HookAtStage("fallback")
  /\ HookGo(IF InFlight \/ header = "paid" THEN "done" ELSE "route")
  /\ UNCHANGED <<header, rows, provider, tab, review, dropped>>

HookRoute ==
  /\ HookAtStage("route")
  /\ MarkFailed
  /\ HookGo("done")
  /\ UNCHANGED <<rows, provider, tab, review, dropped>>

HookDies ==
  /\ May("hook_dies")
  /\ ~HookAtStage("done")
  /\ HookGo("done")
  /\ dropped' = TRUE
  /\ UNCHANGED <<header, rows, provider, tab, review>>

-----------------------------------------------------------------------------
(* The buyer: Pay Now and the checkout page. *)

TabIs(t, stage) == tab[t].at = stage
TabRow(t)       == tab[t].row
TabGo(t, stage, p) == tab' = [tab EXCEPT ![t] = [at |-> stage, row |-> p]]
TabEnds(t)      == tab' = [tab EXCEPT ![t] = NoTab]

\* Pay Now: the header is not paid; the row to look at first, if any.
Press(t) ==
  /\ TabIs(t, "idle")
  /\ header = "payment_required" \/ (May("unasked") /\ header = "issued")
  /\ LET held == {p \in named : Pending(p)} IN
       IF held = {} THEN TabGo(t, "begin", NoRow)
                    ELSE \E p \in held : TabGo(t, "inspect", p)
  /\ UNCHANGED <<header, rows, provider, hook, review, dropped>>

\* An open on-session intent is reused until it is a day old; one of the
\* automatic charge never is.  An intent unknown under the current keys is taken to
\* be one that can never be paid.
Inspect(t) ==
  LET p == TabRow(t) IN
  /\ TabIs(t, "inspect")
  /\ \/ intent[p] = "succeeded"  /\ TabGo(t, "settle", p)
     \/ intent[p] = "processing" /\ TabEnds(t)
     \/ intent[p] = "open" /\ p # hook.row /\ TabEnds(t)
     \/ intent[p] = "open" /\ TabGo(t, "cancel", p)
     \/ intent[p] = "canceled" /\ TabGo(t, "retire", p)
     \/ May("other_keys") /\ TabGo(t, "retire", p)
  /\ UNCHANGED <<header, rows, provider, hook, review, dropped>>

\* Fault: the row is retired whether or not its intent could be canceled.
CancelBlindly(t) ==
  LET p == TabRow(t) IN
  /\ TabIs(t, "cancel")
  /\ intent' = [intent EXCEPT ![p] = IF @ = "open" THEN "canceled" ELSE @]
  /\ TabGo(t, "retire", p)
  /\ UNCHANGED <<header, rows, declines, hook, review, dropped>>

\* If it cannot be canceled the intent is looked at again.
Cancel(t) ==
  LET p == TabRow(t) IN
  /\ TabIs(t, "cancel")
  /\ \/ intent[p] = "open" /\ Became(p, "canceled") /\ TabGo(t, "retire", p)
     \/ intent[p] = "open" /\ Became(p, "canceled") /\ TabEnds(t)
     \/ /\ UNCHANGED intent
        /\ \/ intent[p] = "succeeded"  /\ TabGo(t, "settle", p)
           \/ intent[p] = "processing" /\ TabEnds(t)
           \/ intent[p] = "canceled"   /\ TabGo(t, "retire", p)
  /\ UNCHANGED <<header, rows, declines, hook, review, dropped>>

Retire(t) ==
  /\ TabIs(t, "retire")
  /\ Fail(TabRow(t))
  /\ TabGo(t, "begin", NoRow)
  /\ UNCHANGED <<header, provider, hook, review, dropped>>

\* Rows left by a request that never recorded its intent give up their slot.
Orphans == {p \in aged : Pending(p) /\ p \notin named}

Begin(t) ==
  /\ TabIs(t, "begin")
  /\ header # "paid"
  /\ \E p \in Rows : Insert(p, Failing(Orphans)) /\ TabGo(t, "create", p)
  /\ UNCHANGED <<header, provider, hook, review, dropped>>

\* The intent is created unconfirmed; the answer may be lost.
Create(t) ==
  LET p == TabRow(t) IN
  /\ TabIs(t, "create")
  /\ \/ Became(p, "open") /\ TabGo(t, "attach", p)
     \/ Became(p, "open") /\ TabGo(t, "release", p)
     \/ UNCHANGED intent  /\ TabGo(t, "release", p)
  /\ UNCHANGED <<header, rows, declines, hook, review, dropped>>

Release(t) ==
  LET p == TabRow(t) IN
  /\ TabIs(t, "release")
  /\ IF p \in named THEN UNCHANGED rows ELSE Fail(p)
  /\ TabEnds(t)
  /\ UNCHANGED <<header, provider, hook, review, dropped>>

Record(t) ==
  /\ TabIs(t, "attach")
  /\ Name(TabRow(t))
  /\ TabEnds(t)
  /\ UNCHANGED <<header, provider, hook, review, dropped>>

BeingConfirmed(p) == \E t \in Tabs : TabIs(t, "confirm") /\ TabRow(t) = p

\* The checkout page posts a card for a pending payment. The server takes any payment
\* of the buyer; the page knows those Pay Now returned, never one of the close hook.
\* A 3-D Secure step leaves the intent open for the page's next request.
Submit(t, p) ==
  /\ TabIs(t, "idle")
  /\ Pending(p) /\ p \in named
  /\ p # hook.row \/ May("any_page")
  /\ \/ /\ intent[p] = "open"
        /\ May("hasty") \/ (p \notin declines /\ ~BeingConfirmed(p))
        /\ TabGo(t, "confirm", p)
     \/ intent[p] = "succeeded" /\ TabGo(t, "settle", p)
  /\ UNCHANGED <<header, rows, provider, hook, review, dropped>>

\* The provider's answer to the confirmation.
Confirm(t) ==
  LET p == TabRow(t) IN
  /\ TabIs(t, "confirm")
  /\ intent[p] = "open"
  /\ \/ Became(p, "succeeded")  /\ TabGo(t, "settle", p) /\ UNCHANGED declines
     \/ Became(p, "processing") /\ TabEnds(t) /\ UNCHANGED declines
     \/ /\ declines' = declines \cup {p}
        /\ TabEnds(t)
        /\ UNCHANGED intent
  /\ UNCHANGED <<header, rows, hook, review, dropped>>

\* _finalizeOnSessionSuccess, or the succeeded branch of a retry.
Finalize(t) ==
  /\ TabIs(t, "settle")
  /\ SettleCombined(TabRow(t))
  /\ TabEnds(t)
  /\ UNCHANGED <<provider, hook, review, dropped>>

\* An error or an early answer ends a request at any point.
GiveUp(t) ==
  /\ ~TabIs(t, "idle")
  /\ TabEnds(t)
  /\ UNCHANGED <<header, rows, provider, hook, review, dropped>>

-----------------------------------------------------------------------------
(* The provider's events, delivered at least once and in any order. *)

\* _handlePaymentIntentSucceeded: name the intent in its row, then settle.
AttachByEvent(p) ==
  /\ intent[p] = "succeeded"
  /\ p \notin named
  /\ Name(p)
  /\ UNCHANGED <<header, provider, hook, tab, review, dropped>>

SettleByEvent(p) ==
  /\ intent[p] = "succeeded"
  /\ p \in named
  /\ Settles(p)
  /\ SettleCombined(p)
  /\ UNCHANGED <<provider, hook, tab, review, dropped>>

\* _handlePaymentIntentFailed: the row, then the header; when the second
\* statement fails the event is repeated.
DeclinedEvent(p) ==
  /\ p \in declines
  /\ p \in named
  /\ Fail(p)
  /\ \/ MarkFailed /\ declines' = declines \ {p}
     \/ Pending(p) /\ UNCHANGED <<header, declines>>
  /\ UNCHANGED <<intent, hook, tab, review, dropped>>

\* No row carries the intent yet: acknowledged without effect.
DeclinedEventEarly(p) ==
  /\ May("early_decline")
  /\ p \in declines
  /\ p \notin named
  /\ declines' = declines \ {p}
  /\ dropped' = TRUE
  /\ UNCHANGED <<header, rows, intent, hook, tab, review>>

CanceledEvent(p) ==
  /\ intent[p] = "canceled"
  /\ p \in named
  /\ Pending(p)
  /\ Fail(p)
  /\ UNCHANGED <<header, provider, hook, tab, review, dropped>>

Age(p) ==
  /\ Pending(p)
  /\ p \notin aged
  /\ aged' = aged \cup {p}
  /\ UNCHANGED <<status, named, uncertain>>
  /\ UNCHANGED <<header, provider, hook, tab, review, dropped>>

-----------------------------------------------------------------------------
(* The reconciler: one row of its list at a time. *)

ReviewIs(stage) == review.at = stage
ReviewGo(stage) == review' = [review EXCEPT !.at = stage]

\* listUncertain.
Pick(p) ==
  /\ ReviewIs("idle")
  /\ p \in (uncertain \cap aged) \ named
  /\ Pending(p)
  /\ review' = [at |-> "ask", row |-> p, answer |-> "none"]
  /\ UNCHANGED <<header, rows, provider, hook, tab, dropped>>

\* Within the key's window: repeat the request under its key.
Repeat ==
  /\ ReviewIs("ask")
  /\ \E answer \in {"succeeded", "processing", "declined"} :
       /\ OffSession(review.row, answer)
       /\ review' = [review EXCEPT !.answer = answer,
                       !.at = IF answer = "declined" THEN "fail" ELSE "attach"]
  /\ UNCHANGED <<header, rows, hook, tab, dropped>>

RepeatLost ==
  /\ ReviewIs("ask")
  /\ OffSession(review.row, "lost")
  /\ review' = NoJob
  /\ UNCHANGED <<header, rows, hook, tab, dropped>>

\* After the window: look the charge up by its payment id.
Search ==
  /\ ReviewIs("ask")
  /\ LET state == intent[review.row] IN
       review' = [review EXCEPT
         !.answer = IF state = "canceled" THEN "open" ELSE state,
         !.at = IF state = "none" THEN "fail" ELSE "attach"]
  /\ UNCHANGED <<header, rows, provider, hook, tab, dropped>>

ReviewAttach ==
  /\ ReviewIs("attach")
  /\ Name(review.row)
  /\ CASE review.answer = "succeeded"  -> ReviewGo("settle")
       [] review.answer = "processing" -> review' = NoJob
       [] OTHER                        -> ReviewGo("fail")
  /\ UNCHANGED <<header, provider, hook, tab, dropped>>

ReviewSettle ==
  /\ ReviewIs("settle")
  /\ SettleCombined(review.row)
  /\ review' = NoJob
  /\ UNCHANGED <<provider, hook, tab, dropped>>

\* Fault: the row is given up and the buyer is not asked.
ReviewFailSilently ==
  /\ ReviewIs("fail")
  /\ FailNaming(review.row)
  /\ review' = NoJob
  /\ UNCHANGED <<header, provider, hook, tab, dropped>>

ReviewFail ==
  /\ ReviewIs("fail")
  /\ FailNaming(review.row)
  /\ ReviewGo("route")
  /\ UNCHANGED <<header, provider, hook, tab, dropped>>

\* stillUnpaid, then the normal "please pay" path.
ReviewRoute ==
  /\ ReviewIs("route")
  /\ MarkFailed
  /\ review' = NoJob
  /\ UNCHANGED <<rows, provider, hook, tab, dropped>>

ReviewDies ==
  /\ May("review_dies")
  /\ ~ReviewIs("idle")
  /\ review' = NoJob
  /\ dropped' = TRUE
  /\ UNCHANGED <<header, rows, provider, hook, tab>>

-----------------------------------------------------------------------------
HookSteps == \/ HookInsert \/ HookCharge \/ HookNote \/ HookDecline
             \/ HookAttach \/ HookSettle \/ HookFallback \/ HookRoute

TabSteps(t) == \/ Press(t) \/ Inspect(t) \/ Cancel(t) \/ Retire(t)
               \/ Begin(t) \/ Create(t) \/ Release(t) \/ Record(t)
               \/ \E p \in Rows : Submit(t, p)
               \/ Confirm(t) \/ Finalize(t) \/ GiveUp(t)

Events(p) == \/ AttachByEvent(p) \/ SettleByEvent(p)
             \/ DeclinedEvent(p) \/ CanceledEvent(p)

ReviewSteps == \/ Repeat \/ RepeatLost \/ Search \/ ReviewAttach
               \/ ReviewSettle \/ ReviewFail \/ ReviewRoute

Next ==
  \/ HookSteps \/ HookDies
  \/ \E t \in Tabs : TabSteps(t)
  \/ \E p \in Rows : \/ Events(p) \/ DeclinedEventEarly(p)
                     \/ Clear(p) \/ Age(p) \/ Pick(p)
  \/ ReviewSteps \/ ReviewDies

Spec == Init /\ [][Next]_vars

\* Processes that live go on, events are delivered, time passes, a charge is
\* decided, and the provider is not out of reach for ever.
Fairness ==
  /\ WF_vars(HookSteps)
  /\ WF_vars(ReviewSteps)
  /\ SF_vars(Repeat \/ Search)
  /\ \A p \in Rows : /\ WF_vars(AttachByEvent(p))
                     /\ WF_vars(SettleByEvent(p))
                     /\ WF_vars(DeclinedEvent(p))
                     /\ WF_vars(CanceledEvent(p))
                     /\ WF_vars(Clear(p))
                     /\ WF_vars(Age(p))
                     /\ WF_vars(Pick(p))

FairSpec == Spec /\ Fairness

-----------------------------------------------------------------------------
(* Properties. *)

\* The invoice is paid exactly when one of its rows is, and that row's intent
\* has taken the money.
PaidMeansCharged ==
  /\ header = "paid" <=> \E p \in Rows : status[p] = "paid"
  /\ \A p \in Rows : status[p] = "paid" => p \in named /\ intent[p] = "succeeded"

\* Late declines, retries and the reconciler never undo a recorded payment.
PaymentIsFinal ==
  [][/\ header = "paid" => header' = "paid"
     /\ \A p \in Rows : status[p] = "paid" => status'[p] = "paid"]_vars

\* "Two open PaymentIntents can never both be paid" (paymentService.js:521): of
\* all attempts at one invoice, at most one takes the money.
NeverBothPaid ==
  \A p, q \in Rows : intent[p] = "succeeded" /\ intent[q] = "succeeded" => p = q

\* "Never tell the buyer to pay again on a guess" (paymentService.js:755): the
\* invoice is not routed to the buyer while money was or may be taken.
NeverAskedOnAGuess ==
  [][header = "issued" /\ header' = "payment_required" =>
       \A p \in Rows : intent[p] \notin {"processing", "succeeded"}]_vars

\* Unless a flow was cut short, the buyer is charged or asked to pay.
BuyerHasAnswer == header = "issued" ~> (header # "issued" \/ dropped)

One == INSTANCE OneCharge WITH
  Attempts <- Rows,
  charged  <- {p \in Rows : intent[p] = "succeeded"},
  settled  <- header = "paid"

\* One charge, recorded.
ChargedOnce == One!Spec
=============================================================================
