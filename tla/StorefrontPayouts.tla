------------------------- MODULE StorefrontPayouts -------------------------
(***************************************************************************)
(* Paying one seller for storefront orders.                                *)
(*                                                                         *)
(*   storefrontSettlementService        weekly payout, hold, void, Pay     *)
(*                                      Seller, recovery of refunds        *)
(*   storefrontCommissionAdjustmentService   commission corrections        *)
(*   marketplaceOrderService            fulfilment, holds, refunds         *)
(*   migrations 197, 213                the guards the database applies    *)
(*                                                                         *)
(* An order enters when it is paid by its buyer.  A transaction is a step, *)
(* except Pay Seller, which keeps the payout's row locked over its call of *)
(* the processor (external): checked, sent, committed.  The orders of the  *)
(* payout are not locked meanwhile.  A week is a cutoff; amounts are small *)
(* numbers; seller-remitted tax, demo orders and the recovery of card      *)
(* fees (switched off by default) are left out.                            *)
(***************************************************************************)
EXTENDS Sequences, Totals

CONSTANTS
  Orders,        \* order ids
  Proceeds,      \* seller_proceeds_cents of each order
  Total,         \* total_charge_cents of each order
  Partials,      \* amounts a partial refund may bring an order to
  Corrections,   \* ids of commission corrections
  Difference,    \* amount_cents of each: owed to the seller (+) or by the seller (-)
  MaxWeeks,      \* cutoffs (bound)
  MaxPayouts,    \* payout records (bound)
  MaxUpsets      \* holds, refunds, corrections, voids, lost steps (bound)

Payouts == 1 .. MaxPayouts
None    == 0
NoTransfer == [amount |-> 0, orders |-> {}]

ASSUME SetsAssumption == IsFiniteSet(Orders) /\ IsFiniteSet(Corrections)
ASSUME MoneyAssumption ==
  /\ Proceeds \in [Orders -> Nat \ {0}]
  /\ Total \in [Orders -> Nat \ {0}]
  /\ Partials \subseteq Nat \ {0}
  /\ Difference \in [Corrections -> Int]
ASSUME LimitAssumption == MaxWeeks \in Nat /\ MaxPayouts \in Nat /\ MaxUpsets \in Nat

VARIABLES
  week,        \* cutoffs passed
  order,       \* the marketplace_orders rows, once paid
  line,        \* line[o]: the payout with an active line for o, also storefront_payout_id
  payout,      \* the storefront_payouts rows
  recovery,    \* storefront_payout_recoveries: amount (0: no row) and payout applied to
  recoveries,  \* the orders with a recovery, oldest first
  correction,  \* storefront_commission_adjustments: week made (0: no row), payout applied to
  corrections, \* the corrections made, oldest first
  pay,         \* where the Pay Seller transaction of payout p is
  recovering,  \* refunds recorded whose recovery step has still to run
  transfer,    \* transfer[p]: what the processor sent under the key of p (external)
  unsure,      \* payouts sent by a transaction that did not commit (history)
  missed,      \* orders whose recovery step did not run, or ran during a payment (history)
  upsets       \* holds, refunds, corrections, voids and lost steps so far

moneyVars == <<payout, line, recovery, recoveries, correction, corrections>>
payVars   == <<pay, transfer, unsure>>
vars == <<week, order, moneyVars, payVars, recovering, missed, upsets>>

Row == [paid : BOOLEAN, refunded : Nat, fulfilled : BOOLEAN, payout_eligible : BOOLEAN,
        eligible_week : Nat, payout_hold : BOOLEAN, review : BOOLEAN, settled : BOOLEAN]

\* A row as the guard of migration 197 leaves it.
Order == {r \in Row : r.payout_eligible => r.paid /\ r.fulfilled /\ ~r.payout_hold}

\* CHECK (seller_payout_cents >= 0).
Payout == [status : {"none", "pending_review", "on_hold", "paid", "void"}, cutoff : Nat,
           amount : Nat, recovered : Nat, adjusted : Int]
NewOrder == [paid |-> TRUE, refunded |-> 0, fulfilled |-> FALSE, payout_eligible |-> FALSE,
             eligible_week |-> 0, payout_hold |-> FALSE, review |-> FALSE, settled |-> FALSE]
NoPayout == [status |-> "none", cutoff |-> 0, amount |-> 0, recovered |-> 0, adjusted |-> 0]

TypeOK ==
  /\ week \in Nat
  /\ order \in [Orders -> Order]
  /\ line \in [Orders -> Payouts \cup {None}]
  /\ payout \in [Payouts -> Payout]
  /\ recovery \in [Orders -> [amount : Nat, applied : Payouts \cup {None}]]
  /\ recoveries \in Seq(Orders)
  /\ correction \in [Corrections -> [made : Nat, applied : Payouts \cup {None}]]
  /\ corrections \in Seq(Corrections)
  /\ pay \in [Payouts -> {"no", "checked", "sent"}]
  /\ recovering \subseteq Orders
  /\ transfer \in [Payouts -> [amount : Int, orders : SUBSET Orders]]
  /\ unsure \subseteq Payouts
  /\ missed \subseteq Orders
  /\ upsets \in Nat

Init ==
  /\ week = 0
  /\ order = [o \in Orders |-> NewOrder]
  /\ line = [o \in Orders |-> None]
  /\ payout = [p \in Payouts |-> NoPayout]
  /\ recovery = [o \in Orders |-> [amount |-> 0, applied |-> None]]
  /\ recoveries = <<>>
  /\ correction = [c \in Corrections |-> [made |-> 0, applied |-> None]]
  /\ corrections = <<>>
  /\ pay = [p \in Payouts |-> "no"]
  /\ recovering = {}
  /\ transfer = [p \in Payouts |-> NoTransfer]
  /\ unsure = {}
  /\ missed = {}
  /\ upsets = 0

-----------------------------------------------------------------------------
(* Reading the rows.                                                       *)

Least(a, b) == IF a < b THEN a ELSE b

Upset == upsets < MaxUpsets /\ upsets' = upsets + 1

\* ELIGIBLE_SQL. An open dispute counts by the hold and the review it put on the order.
Eligible(o) ==
  /\ order[o].paid /\ order[o].refunded = 0
  /\ order[o].payout_eligible /\ ~order[o].payout_hold
  /\ ~order[o].review

\* Fault: an order that already has an active line is taken again.
DueAgain(o) == Eligible(o) /\ order[o].eligible_week =< week /\ ~order[o].settled

\* Orders prepareWeek takes.
Due(o) == Eligible(o) /\ order[o].eligible_week =< week /\ line[o] = None

LinesOf(p)       == {o \in Orders : line[o] = p}
RecoveriesOf(p)  == {o \in Orders : recovery[o].applied = p}
CorrectionsOf(p) == {c \in Corrections : correction[c].applied = p}

LineSum(S)     == SumOver(Proceeds, S)
RecoverySum(S) == SumOver([o \in S |-> recovery[o].amount], S)

\* What the seller is owed, less what the seller owes.
CorrectionSum(S) == SumOver(Difference, S) - SumOver([c \in S |-> -Difference[c]], S)

\* Fault: the row is read without FOR UPDATE.
ReadOnly(p) == p \in Payouts

\* SELECT ... FROM storefront_payouts ... FOR UPDATE does not have to wait.
Unlocked(p) == pay[p] = "no"

\* The statement of payout p as its rows give it.
Statement(p) == LineSum(LinesOf(p)) - RecoverySum(RecoveriesOf(p))
                + CorrectionSum(CorrectionsOf(p))

\* The live record of the latest cutoff.
Current == {p \in Payouts : payout[p].status \notin {"none", "void"} /\ payout[p].cutoff = week}

-----------------------------------------------------------------------------
(* The life of a paid order.                                               *)

SetOrder(o, new) == order' = [order EXCEPT ![o] = new]

PassCutoff ==
  /\ week < MaxWeeks
  /\ week' = week + 1
  /\ UNCHANGED <<order, moneyVars, payVars, recovering, missed, upsets>>

\* updateFulfillment: picked up, or shipped and completed.
Fulfil(o) ==
  /\ order[o].paid
  /\ ~order[o].fulfilled
  /\ SetOrder(o, IF order[o].payout_hold THEN [order[o] EXCEPT !.fulfilled = TRUE]
                 ELSE [order[o] EXCEPT !.fulfilled = TRUE, !.payout_eligible = TRUE,
                                       !.eligible_week = week + 1])
  /\ UNCHANGED <<week, moneyVars, payVars, recovering, missed, upsets>>

\* Fault: the guard leaves the eligibility alone.
HoldLeavesEligible(o) ==
  /\ Upset
  /\ ~order[o].payout_hold
  /\ \E review \in {order[o].review, TRUE} :
       SetOrder(o, [order[o] EXCEPT !.payout_hold = TRUE, !.review = review])
  /\ UNCHANGED <<week, moneyVars, payVars, recovering, missed>>

\* setPayoutHold, an issue the buyer opens, a dispute: the last two also ask for a
\* review, and only of an order not yet on hold. The guard of migration 197 takes the
\* eligibility away with any hold.
HoldOrder(o) ==
  /\ Upset
  /\ ~order[o].payout_hold
  /\ \E review \in {order[o].review, TRUE} :
       SetOrder(o, [order[o] EXCEPT !.payout_hold = TRUE, !.review = review,
                                    !.payout_eligible = FALSE, !.eligible_week = 0])
  /\ UNCHANGED <<week, moneyVars, payVars, recovering, missed>>

ReleaseOrderHold(o) ==
  /\ order[o].payout_hold
  /\ SetOrder(o, [order[o] EXCEPT !.payout_hold = FALSE])
  /\ UNCHANGED <<week, moneyVars, payVars, recovering, missed, upsets>>

\* recordRefund: in part (for review), or the whole charge.
RefundOrder(o) ==
  /\ Upset
  /\ order[o].paid
  /\ \/ \E amount \in Partials :
          /\ order[o].refunded < amount /\ amount < Total[o]
          /\ SetOrder(o, [order[o] EXCEPT !.refunded = amount, !.review = TRUE])
     \/ SetOrder(o, [order[o] EXCEPT !.refunded = Total[o], !.paid = FALSE,
                                     !.payout_eligible = FALSE, !.eligible_week = 0])
  /\ recovering' = recovering \cup {o}
  /\ UNCHANGED <<week, moneyVars, payVars, missed>>

\* createAdjustment.
Correct(c) ==
  /\ Upset
  /\ correction[c].made = 0
  /\ \E o \in Orders : order[o].paid /\ order[o].refunded = 0
  /\ correction' = [correction EXCEPT ![c].made = week + 1]
  /\ corrections' = Append(corrections, c)
  /\ UNCHANGED <<week, order, payout, line, recovery, recoveries, payVars, recovering, missed>>

-----------------------------------------------------------------------------
(* recordRecovery: a transaction of its own after the refund's.            *)

\* ON CONFLICT DO UPDATE ... WHERE applied_payout_id IS NULL, or a flag.
Raised(o, amount) ==
  IF recovery[o].applied = None
  THEN /\ recovery' = [recovery EXCEPT ![o].amount = IF @ < amount THEN amount ELSE @]
       /\ UNCHANGED order
  ELSE /\ SetOrder(o, [order[o] EXCEPT !.review = TRUE])
       /\ UNCHANGED recovery

\* The lesser of the refunded amount and what the seller received.
SellersShare(o) == Least(order[o].refunded, Proceeds[o])

PaidOut(o) == order[o].settled /\ line[o] # None /\ payout[line[o]].status = "paid"

RecordRecovery(o) ==
  /\ o \in recovering
  /\ recovering' = recovering \ {o}
  /\ IF ~PaidOut(o)
     THEN UNCHANGED <<order, recovery, recoveries>>
     ELSE IF recovery[o].amount = 0
     THEN /\ recovery' = [recovery EXCEPT ![o].amount = SellersShare(o)]
          /\ recoveries' = Append(recoveries, o)
          /\ UNCHANGED order
     ELSE Raised(o, SellersShare(o)) /\ UNCHANGED recoveries
  /\ missed' = IF line[o] # None /\ ~Unlocked(line[o]) THEN missed \cup {o} ELSE missed
  /\ UNCHANGED <<week, payout, line, correction, corrections, payVars, upsets>>

\* The recovery step fails, and the order is flagged.
RecoveryFails(o) ==
  /\ Upset
  /\ o \in recovering
  /\ recovering' = recovering \ {o}
  /\ SetOrder(o, [order[o] EXCEPT !.review = TRUE])
  /\ UNCHANGED <<week, moneyVars, payVars, missed>>

\* The process stops before the recovery step: the refund's later notice finds the
\* refund recorded and does nothing.
RecoveryNeverRuns(o) ==
  /\ Upset
  /\ o \in recovering
  /\ recovering' = recovering \ {o}
  /\ missed' = missed \cup {o}
  /\ UNCHANGED <<week, order, moneyVars, payVars>>

-----------------------------------------------------------------------------
(* prepareWeek: one record for the latest cutoff, added to while unpaid.   *)

\* The open recoveries among the n oldest.
OpenAmong(n) ==
  {recoveries[i] : i \in {j \in DOMAIN recoveries :
                            j =< n /\ recovery[recoveries[j]].applied = None}}

\* Open recoveries, oldest first, while the orders' lines cover them.
RecoveriesTaken(lines, recovered) ==
  LET Covered(n) == RecoverySum(OpenAmong(n)) =< lines - recovered
  IN  OpenAmong(CHOOSE n \in 0 .. Len(recoveries) :
                  /\ Covered(n)
                  /\ n < Len(recoveries) => ~Covered(n + 1))

OpenCorrection(c) ==
  correction[c].made # 0 /\ correction[c].made =< week /\ correction[c].applied = None

\* Oldest first, every open correction in the seller's favour, and one the seller owes
\* if what is left then covers it.
CorrectionsTaken(total) ==
  LET Takes(rest, c) ==
        OpenCorrection(c) /\ (Difference[c] >= 0 \/ rest + Difference[c] >= 0)
      left[i \in 0 .. Len(corrections)] ==
        IF i = 0 THEN total
        ELSE IF Takes(left[i - 1], corrections[i]) THEN left[i - 1] + Difference[corrections[i]]
        ELSE left[i - 1]
  IN  {corrections[i] : i \in {j \in DOMAIN corrections : Takes(left[j - 1], corrections[j])}}

\* What payout p becomes with the orders now due; p may be new.
Prepared(p) ==
  LET due       == {o \in Orders : Due(o)}
      lines     == LineSum(LinesOf(p) \cup due)
      recs      == RecoveriesTaken(lines, payout[p].recovered)
      recovered == payout[p].recovered + RecoverySum(recs)
      cors      == CorrectionsTaken(lines - recovered + payout[p].adjusted)
      adjusted  == payout[p].adjusted + CorrectionSum(cors)
  IN  [orders |-> due, recoveries |-> recs, corrections |-> cors,
       row |-> [status |-> IF payout[p].status = "none" THEN "pending_review"
                           ELSE payout[p].status,
                cutoff |-> week, amount |-> lines - recovered + adjusted,
                recovered |-> recovered, adjusted |-> adjusted]]

\* Fault: an unpaid record of this cutoff is left as it is.
SlotIfNone ==
  IF Current # {} THEN {}
  ELSE {p \in Payouts : payout[p].status = "none" /\ \A q \in 1 .. p - 1 : payout[q].status # "none"}

\* The live record of this cutoff, unless it is paid; or a new one.
Slot ==
  IF Current # {} THEN {p \in Current : payout[p].status # "paid"}
  ELSE {p \in Payouts : payout[p].status = "none" /\ \A q \in 1 .. p - 1 : payout[q].status # "none"}

SomethingToPrepare ==
  \/ \E o \in Orders : Due(o)
  \/ \E c \in Corrections : OpenCorrection(c) /\ Difference[c] > 0

\* The tick takes the payout's row lock, and the table's CHECK must hold.
PrepareWeek ==
  /\ SomethingToPrepare
  /\ \E p \in Slot :
       LET new == Prepared(p) IN
       /\ Unlocked(p)
       /\ new.row.amount >= 0
       /\ payout' = [payout EXCEPT ![p] = new.row]
       /\ line' = [o \in Orders |-> IF o \in new.orders THEN p ELSE line[o]]
       /\ recovery' = [o \in Orders |->
            IF o \in new.recoveries THEN [recovery[o] EXCEPT !.applied = p] ELSE recovery[o]]
       /\ correction' = [c \in Corrections |->
            IF c \in new.corrections THEN [correction[c] EXCEPT !.applied = p] ELSE correction[c]]
  /\ UNCHANGED <<week, order, recoveries, corrections, payVars, recovering, missed, upsets>>

-----------------------------------------------------------------------------
(* What the administrator does with a payout.                              *)

\* setHold, either way.
SetPayoutHold(p) ==
  /\ Unlocked(p)
  /\ \E status \in {"pending_review", "on_hold"} :
       /\ payout[p].status \in {"pending_review", "on_hold"} \ {status}
       /\ status = "on_hold" => upsets < MaxUpsets
       /\ upsets' = IF status = "on_hold" THEN upsets + 1 ELSE upsets
       /\ payout' = [payout EXCEPT ![p].status = status]
  /\ UNCHANGED <<week, order, line, recovery, recoveries, correction, corrections, payVars,
                 recovering, missed>>

\* Fault: the recoveries of a voided payout stay applied to it.
VoidKeepsRecoveries(p) ==
  /\ Upset
  /\ Unlocked(p)
  /\ payout[p].status \in {"pending_review", "on_hold"}
  /\ payout' = [payout EXCEPT ![p].status = "void"]
  /\ line' = [o \in Orders |-> IF line[o] = p THEN None ELSE line[o]]
  /\ correction' = [c \in Corrections |->
       IF correction[c].applied = p THEN [correction[c] EXCEPT !.applied = None] ELSE correction[c]]
  /\ UNCHANGED <<week, order, recovery, recoveries, corrections, payVars, recovering, missed>>

\* voidPayout: orders, recoveries and corrections are free for a later payout.
VoidPayout(p) ==
  /\ Upset
  /\ Unlocked(p)
  /\ payout[p].status \in {"pending_review", "on_hold"}
  /\ payout' = [payout EXCEPT ![p].status = "void"]
  /\ line' = [o \in Orders |-> IF line[o] = p THEN None ELSE line[o]]
  /\ recovery' = [o \in Orders |->
       IF recovery[o].applied = p THEN [recovery[o] EXCEPT !.applied = None] ELSE recovery[o]]
  /\ correction' = [c \in Corrections |->
       IF correction[c].applied = p THEN [correction[c] EXCEPT !.applied = None] ELSE correction[c]]
  /\ UNCHANGED <<week, order, recoveries, corrections, payVars, recovering, missed>>

-----------------------------------------------------------------------------
(* payPayout.                                                              *)

Matches(p) ==
  /\ payout[p].amount = Statement(p)
  /\ payout[p].recovered = RecoverySum(RecoveriesOf(p))
  /\ payout[p].adjusted = CorrectionSum(CorrectionsOf(p))

\* BEGIN, the row lock, and every check.
PayChecks(p) ==
  /\ Unlocked(p)
  /\ payout[p].status = "pending_review"
  /\ \A o \in LinesOf(p) : Eligible(o)
  /\ Matches(p) /\ payout[p].amount > 0
  /\ pay' = [pay EXCEPT ![p] = "checked"]
  /\ UNCHANGED <<week, order, moneyVars, transfer, unsure, recovering, missed, upsets>>

\* transfers.create under the payout's idempotency key: a repeat of the same request
\* returns the transfer already made.
SendTransfer(p) ==
  /\ pay[p] = "checked"
  /\ transfer[p].amount \in {0, Statement(p)}
  /\ transfer' = [transfer EXCEPT ![p] = [amount |-> Statement(p), orders |-> LinesOf(p)]]
  /\ pay' = [pay EXCEPT ![p] = "sent"]
  /\ UNCHANGED <<week, order, moneyVars, unsure, recovering, missed, upsets>>

\* The processor refuses, as it must when the key was used for another amount: ROLLBACK.
TransferRefused(p) ==
  /\ pay[p] = "checked"
  /\ \/ transfer[p].amount \notin {0, Statement(p)} /\ UNCHANGED upsets
     \/ Upset
  /\ pay' = [pay EXCEPT ![p] = "no"]
  /\ UNCHANGED <<week, order, moneyVars, transfer, unsure, recovering, missed>>

CommitPayment(p) ==
  /\ pay[p] = "sent"
  /\ pay' = [pay EXCEPT ![p] = "no"]
  /\ payout' = [payout EXCEPT ![p].status = "paid"]
  /\ order' = [o \in Orders |->
       IF line[o] = p THEN [order[o] EXCEPT !.settled = TRUE] ELSE order[o]]
  /\ UNCHANGED <<week, line, recovery, recoveries, correction, corrections, transfer, unsure,
                 recovering, missed, upsets>>

\* The process or the database connection ends after the transfer was made.
CommitLost(p) ==
  /\ Upset
  /\ pay[p] = "sent"
  /\ pay' = [pay EXCEPT ![p] = "no"]
  /\ unsure' = unsure \cup {p}
  /\ UNCHANGED <<week, order, moneyVars, transfer, recovering, missed>>

-----------------------------------------------------------------------------
NextOrder(o) ==
  \/ Fulfil(o) \/ HoldOrder(o) \/ ReleaseOrderHold(o) \/ RefundOrder(o)
  \/ RecordRecovery(o) \/ RecoveryFails(o) \/ RecoveryNeverRuns(o)

FinishPay(p) == SendTransfer(p) \/ TransferRefused(p) \/ CommitPayment(p) \/ CommitLost(p)

NextPayout(p) == SetPayoutHold(p) \/ VoidPayout(p) \/ PayChecks(p) \/ FinishPay(p)

Next ==
  \/ PassCutoff
  \/ PrepareWeek
  \/ \E o \in Orders : NextOrder(o)
  \/ \E c \in Corrections : Correct(c)
  \/ \E p \in Payouts : NextPayout(p)

Spec == Init /\ [][Next]_vars

\* The worker's tick recurs; the call of the processor and the COMMIT end one way or
\* the other. People (administrator, seller) owe nothing.
FairSpec ==
  /\ Spec
  /\ WF_vars(PrepareWeek)
  /\ \A p \in Payouts : WF_vars(FinishPay(p))

-----------------------------------------------------------------------------
(* Properties.                                                             *)

PaidFor(o) == {p \in Payouts : o \in transfer[p].orders}

\* Migration 213: "An order is in at most one live payout: it can never be paid twice."
OrderIsPaidOnce == \A o \in Orders : Cardinality(PaidFor(o)) =< 1

\* Two transfers for one order need a payment whose COMMIT was lost, then voided: no
\* order of preparing, holding, voiding, refunding and paying does it otherwise.
PaidTwiceOnlyAfterLostCommit ==
  \A o \in Orders : \A p, q \in PaidFor(o) :
    p # q => \E r \in {p, q} : r \in unsure /\ payout[r].status = "void"

\* What a paid payout transferred is what its orders, recoveries and corrections still
\* add up to, for the same orders, however they are refunded and corrected afterwards;
\* and it is what the record says.
PaidAsStated ==
  \A p \in Payouts : payout[p].status = "paid" =>
    /\ transfer[p].amount = Statement(p) /\ payout[p].amount = Statement(p)
    /\ transfer[p].orders = LinesOf(p)

\* A refund of an order the seller was paid for is to be recovered in full, up to what
\* the seller received, by a payout that is not void, or an administrator is told;
\* except when the recovery step never ran, or ran while the payment was under way
\* (recordRefund, recordRecovery, payPayout, voidPayout).
RefundAfterPayoutIsRecovered ==
  \A o \in Orders :
    order[o].settled /\ order[o].refunded > 0 /\ o \notin recovering \cup missed =>
      \/ order[o].review
      \/ /\ recovery[o].amount = SellersShare(o)
         /\ recovery[o].applied # None => payout[recovery[o].applied].status # "void"

\* The record of this cutoff is already paid, or adding to it would break the CHECK.
CutoffClosed ==
  \/ \E p \in Current : payout[p].status = "paid"
  \/ \E p \in Slot : Prepared(p).row.amount < 0

\* An order due at the latest cutoff gets into a payout, unless something makes it
\* ineligible or the cutoff's payout is closed first.
DueIsPrepared ==
  \A o \in Orders : Due(o) ~> (line[o] # None \/ ~Eligible(o) \/ CutoffClosed)
=============================================================================
