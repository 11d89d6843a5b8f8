---------------------- MODULE StorefrontPayouts_proofs ----------------------
(***************************************************************************)
(* Proofs about StorefrontPayouts, for any number of orders, payouts,      *)
(* weeks and interventions: that every row keeps its shape, which orders a *)
(* transfer pays and for how much, and what becomes of a refund.           *)
(***************************************************************************)
EXTENDS StorefrontPayouts, FiniteSetTheorems, TLAPS

-----------------------------------------------------------------------------
(* The inductive invariant.                                                *)

Stages == {"none", "pending_review", "on_hold", "paid", "void"}

\* What the argument needs of the shapes; amounts of payouts are left open.
Shapes ==
  /\ week \in Nat
  /\ order \in [Orders -> Row]
  /\ line \in [Orders -> Payouts \cup {None}]
  /\ payout = [p \in Payouts |-> payout[p]]
  /\ \A p \in Payouts : "status" \in DOMAIN payout[p] /\ payout[p].status \in Stages
  /\ recovery \in [Orders -> [amount : Nat, applied : Payouts \cup {None}]]
  /\ pay \in [Payouts -> {"no", "checked", "sent"}]
  /\ transfer = [p \in Payouts |-> transfer[p]]
  /\ \A p \in Payouts : transfer[p].orders \subseteq Orders
  /\ recovering \subseteq Orders /\ missed \subseteq Orders

\* A transfer's orders are the payout's until it is void, and only one that was sent
\* and not committed can be.
PayoutInv(p) ==
  /\ pay[p] # "no" => payout[p].status = "pending_review"
  /\ transfer[p].orders # {} => pay[p] = "sent" \/ payout[p].status = "paid" \/ p \in unsure
  /\ \A o \in transfer[p].orders : line[o] = p \/ (p \in unsure /\ payout[p].status = "void")
  /\ pay[p] = "sent" \/ payout[p].status = "paid" => transfer[p].orders = LinesOf(p)

\* A refund that comes during the payment has its recovery step ahead or behind it.
RefundSeen(o) ==
  line[o] # None /\ pay[line[o]] # "no" /\ order[o].refunded > 0 =>
    o \in recovering \cup missed \/ order[o].review

Recovered(o) ==
  order[o].settled /\ order[o].refunded > 0 /\ o \notin recovering \cup missed =>
    \/ order[o].review
    \/ /\ recovery[o].amount = SellersShare(o)
       /\ recovery[o].applied # None => payout[recovery[o].applied].status # "void"

OrderInv(o) ==
  /\ order[o].settled => PaidOut(o)
  /\ RefundSeen(o)
  /\ order[o].refunded =< Total[o]
  /\ recovery[o].amount =< SellersShare(o)
  /\ recovery[o].applied # None => payout[recovery[o].applied].status # "void"
  /\ Recovered(o)

PayInv ==
  /\ Shapes
  /\ \A p \in Payouts : PayoutInv(p)
  /\ \A o \in Orders : OrderInv(o)

-----------------------------------------------------------------------------
(* The sums.                                                               *)

LEMMA UnitsFinite ==
  ASSUME NEW S, IsFiniteSet(S), NEW f, \A x \in S : f[x] \in Int
  PROVE  IsFiniteSet(UnitsOver(f, S))
<1> DEFINE g == [x \in S |-> {x} \X (1 .. f[x])]
           Piles == {{x} \X (1 .. f[x]) : x \in S}
<1>1. g \in Surjection(S, Piles)
  BY DEF Surjection
<1> HIDE DEF g
<1>2. IsFiniteSet(Piles)
  BY <1>1, FS_Surjection
<1>3. ASSUME NEW x \in S
      PROVE  IsFiniteSet({x} \X (1 .. f[x]))
  <2>1. 1 \in Int /\ f[x] \in Int
    OBVIOUS
  <2>2. IsFiniteSet({x})
    BY FS_Singleton
  <2>3. IsFiniteSet(1 .. f[x])
    BY <2>1, FS_Interval
  <2> QED BY <2>2, <2>3, FS_Product
<1>4. \A T \in Piles : IsFiniteSet(T)
  BY <1>3
<1> HIDE DEF Piles
<1>5. IsFiniteSet(UNION Piles)
  BY <1>2, <1>4, FS_UNION
<1> QED BY <1>5 DEF UnitsOver, Piles

LEMMA SumIsNat ==
  ASSUME NEW S, IsFiniteSet(S), NEW f, \A x \in S : f[x] \in Int
  PROVE  SumOver(f, S) \in Nat
BY UnitsFinite, FS_CardinalityType DEF SumOver

\* The sums of a payout.
LEMMA SumsAre ==
  ASSUME recovery \in [Orders -> [amount : Nat, applied : Payouts \cup {None}]]
  PROVE  /\ \A S \in SUBSET Orders : LineSum(S) \in Nat /\ RecoverySum(S) \in Nat
         /\ \A S \in SUBSET Corrections : CorrectionSum(S) \in Int
<1>1. ASSUME NEW S \in SUBSET Orders
      PROVE  LineSum(S) \in Nat /\ RecoverySum(S) \in Nat
  <2>1. IsFiniteSet(S)
    BY SetsAssumption, FS_Subset
  <2>2. \A o \in S : Proceeds[o] \in Int /\ [x \in S |-> recovery[x].amount][o] \in Int
    BY MoneyAssumption
  <2>3. SumOver(Proceeds, S) \in Nat
    BY <2>1, <2>2, SumIsNat
  <2>4. SumOver([x \in S |-> recovery[x].amount], S) \in Nat
    BY <2>1, <2>2, SumIsNat
  <2> QED BY <2>3, <2>4 DEF LineSum, RecoverySum
<1>2. ASSUME NEW S \in SUBSET Corrections
      PROVE  CorrectionSum(S) \in Int
  <2>1. IsFiniteSet(S)
    BY SetsAssumption, FS_Subset
  <2>2. \A c \in S : Difference[c] \in Int /\ [x \in S |-> -Difference[x]][c] \in Int
    BY MoneyAssumption
  <2>3. SumOver(Difference, S) \in Nat
    BY <2>1, <2>2, SumIsNat
  <2>4. SumOver([x \in S |-> -Difference[x]], S) \in Nat
    BY <2>1, <2>2, SumIsNat
  <2> QED BY <2>3, <2>4 DEF CorrectionSum
<1> QED BY <1>1, <1>2

\* What preparing a payout takes: rows of the tables, not applied to any payout yet.
LEMMA TakenIs ==
  ASSUME recoveries \in Seq(Orders), corrections \in Seq(Corrections), NEW p \in Payouts
  PROVE  /\ Prepared(p).recoveries \subseteq {o \in Orders : recovery[o].applied = None}
         /\ Prepared(p).recoveries \subseteq {recoveries[i] : i \in DOMAIN recoveries}
         /\ Prepared(p).corrections \subseteq {c \in Corrections : correction[c].applied = None}
<1>1. \A i \in DOMAIN recoveries : recoveries[i] \in Orders
  OBVIOUS
<1>2. \A i \in DOMAIN corrections : corrections[i] \in Corrections
  OBVIOUS
<1>3. \A n : /\ OpenAmong(n) \subseteq {o \in Orders : recovery[o].applied = None}
            /\ OpenAmong(n) \subseteq {recoveries[i] : i \in DOMAIN recoveries}
  BY <1>1 DEF OpenAmong
<1>4. \A l, r : /\ RecoveriesTaken(l, r) \subseteq {o \in Orders : recovery[o].applied = None}
               /\ RecoveriesTaken(l, r) \subseteq {recoveries[i] : i \in DOMAIN recoveries}
  BY <1>3 DEF RecoveriesTaken
<1>5. \A t : CorrectionsTaken(t) \subseteq {c \in Corrections : correction[c].applied = None}
  BY <1>2 DEF CorrectionsTaken, OpenCorrection
<1> QED BY <1>4, <1>5 DEF Prepared

-----------------------------------------------------------------------------
(* What a step leaves alone.                                               *)

LEMMA NoneIsNoPayout == None \notin Payouts
BY LimitAssumption DEF None, Payouts

PayoutsAlone == week' \in Nat /\ UNCHANGED <<payout, line, pay, transfer, unsure>>

LEMMA PayoutsKept ==
  ASSUME PayInv, PayoutsAlone
  PROVE  \A p \in Payouts : PayoutInv(p)'
BY DEF PayInv, PayoutsAlone, PayoutInv, LinesOf

LEMMA ShareNat ==
  ASSUME PayInv, NEW o \in Orders
  PROVE  /\ order[o] \in Row /\ order[o].refunded \in Nat
         /\ SellersShare(o) \in Nat /\ SellersShare(o) =< order[o].refunded
         /\ recovery[o].amount \in Nat
         /\ Proceeds[o] \in Nat /\ Proceeds[o] > 0
BY MoneyAssumption DEF PayInv, Shapes, Row, SellersShare, Least

\* A step on order o, its recovery and its recovery step; the rest stays.
OnlyOrder(o) ==
  /\ PayoutsAlone
  /\ order' \in [Orders -> Row]
  /\ recovery' \in [Orders -> [amount : Nat, applied : Payouts \cup {None}]]
  /\ recovering' \subseteq Orders /\ missed' \subseteq Orders
  /\ \A q \in Orders : q # o => /\ order'[q] = order[q] /\ recovery'[q] = recovery[q]
                                /\ q \in recovering' <=> q \in recovering
                                /\ q \in missed' <=> q \in missed

LEMMA OnlyOrderKeeps ==
  ASSUME PayInv, NEW o \in Orders, OnlyOrder(o), OrderInv(o)'
  PROVE  PayInv'
<1>1. Shapes'
  BY DEF PayInv, Shapes, OnlyOrder, PayoutsAlone
<1>2. \A p \in Payouts : PayoutInv(p)'
  BY PayoutsKept DEF OnlyOrder
<1>3. ASSUME NEW q \in Orders, q # o
      PROVE  OrderInv(q)'
  BY <1>3 DEF PayInv, OnlyOrder, PayoutsAlone, OrderInv, RefundSeen, Recovered, PaidOut,
              SellersShare
<1> QED BY <1>1, <1>2, <1>3 DEF PayInv

-----------------------------------------------------------------------------
(* The steps of an order.                                                  *)

\* A step that changes nothing the invariant reads of the order but its review.
LEMMA RowKept ==
  ASSUME PayInv, NEW o \in Orders, NEW r \in Row, SetOrder(o, r),
         r.settled = order[o].settled, r.refunded = order[o].refunded,
         order[o].review => r.review,
         UNCHANGED <<week, moneyVars, payVars, recovering, missed>>
  PROVE  PayInv'
<1> USE DEF moneyVars, payVars
<1>1. order' \in [Orders -> Row] /\ order'[o] = r /\ \A q \in Orders : q # o => order'[q] = order[q]
  BY DEF PayInv, Shapes, SetOrder
<1>2. OnlyOrder(o)
  BY <1>1 DEF PayInv, Shapes, OnlyOrder, PayoutsAlone
<1>3. OrderInv(o)'
  BY <1>1 DEF PayInv, OrderInv, RefundSeen, Recovered, PaidOut, SellersShare
<1> QED BY <1>2, <1>3, OnlyOrderKeeps

LEMMA FulfilInv ==
  ASSUME PayInv, NEW o \in Orders, Fulfil(o)
  PROVE  PayInv'
<1>1. order[o] \in Row /\ week + 1 \in Nat
  BY ShareNat DEF PayInv, Shapes
<1>2. CASE order[o].payout_hold
  <2> DEFINE r == [order[o] EXCEPT !.fulfilled = TRUE]
  <2>1. /\ r \in Row /\ r.settled = order[o].settled /\ r.refunded = order[o].refunded
        /\ r.review = order[o].review
    BY <1>1 DEF Row
  <2>2. SetOrder(o, r)
    BY <1>2 DEF Fulfil
  <2> HIDE DEF r
  <2> QED BY <2>1, <2>2, RowKept DEF Fulfil
<1>3. CASE ~order[o].payout_hold
  <2> DEFINE r == [order[o] EXCEPT !.fulfilled = TRUE, !.payout_eligible = TRUE,
                                   !.eligible_week = week + 1]
  <2>1. /\ r \in Row /\ r.settled = order[o].settled /\ r.refunded = order[o].refunded
        /\ r.review = order[o].review
    BY <1>1 DEF Row
  <2>2. SetOrder(o, r)
    BY <1>3 DEF Fulfil
  <2> HIDE DEF r
  <2> QED BY <2>1, <2>2, RowKept DEF Fulfil
<1> QED BY <1>2, <1>3

LEMMA HoldOrderInv ==
  ASSUME PayInv, NEW o \in Orders, HoldOrder(o)
  PROVE  PayInv'
<1>1. order[o] \in Row
  BY ShareNat
<1>2. PICK review \in {order[o].review, TRUE} :
        SetOrder(o, [order[o] EXCEPT !.payout_hold = TRUE, !.review = review,
                                     !.payout_eligible = FALSE, !.eligible_week = 0])
  BY DEF HoldOrder
<1> DEFINE r == [order[o] EXCEPT !.payout_hold = TRUE, !.review = review,
                                 !.payout_eligible = FALSE, !.eligible_week = 0]
<1>3. /\ r \in Row /\ r.settled = order[o].settled /\ r.refunded = order[o].refunded
      /\ r.review = review
  BY <1>1 DEF Row
<1>4. SetOrder(o, r)
  BY <1>2
<1> HIDE DEF r
<1> QED BY <1>3, <1>4, RowKept DEF HoldOrder

LEMMA ReleaseOrderHoldInv ==
  ASSUME PayInv, NEW o \in Orders, ReleaseOrderHold(o)
  PROVE  PayInv'
<1>1. order[o] \in Row
  BY ShareNat
<1> DEFINE r == [order[o] EXCEPT !.payout_hold = FALSE]
<1>2. /\ r \in Row /\ r.settled = order[o].settled /\ r.refunded = order[o].refunded
      /\ r.review = order[o].review
  BY <1>1 DEF Row
<1>3. SetOrder(o, r)
  BY DEF ReleaseOrderHold
<1> HIDE DEF r
<1> QED BY <1>2, <1>3, RowKept DEF ReleaseOrderHold

\* The refunded amount grows, and the recovery step is still to run.
LEMMA RefundOrderInv ==
  ASSUME PayInv, NEW o \in Orders, RefundOrder(o)
  PROVE  PayInv'
<1> USE DEF moneyVars, payVars
<1>1. order[o] \in Row /\ order[o].refunded =< Total[o] /\ Total[o] \in Nat
  BY ShareNat, MoneyAssumption DEF PayInv, OrderInv
<1>2. PICK r \in Row :
        /\ SetOrder(o, r)
        /\ r.settled = order[o].settled
        /\ order[o].refunded =< r.refunded /\ r.refunded =< Total[o]
  <2>1. ASSUME NEW amount \in Partials, order[o].refunded < amount, amount < Total[o],
               SetOrder(o, [order[o] EXCEPT !.refunded = amount, !.review = TRUE])
        PROVE  \E r \in Row :
                 /\ SetOrder(o, r)
                 /\ r.settled = order[o].settled
                 /\ order[o].refunded =< r.refunded /\ r.refunded =< Total[o]
    <3>1. amount \in Nat
      BY MoneyAssumption
    <3> DEFINE new == [order[o] EXCEPT !.refunded = amount, !.review = TRUE]
    <3>2. new \in Row /\ new.settled = order[o].settled /\ new.refunded = amount
      BY <1>1, <3>1 DEF Row
    <3>3. SetOrder(o, new)
      BY <2>1
    <3> HIDE DEF new
    <3> QED BY <1>1, <2>1, <3>1, <3>2, <3>3 DEF Row
  <2>2. ASSUME SetOrder(o, [order[o] EXCEPT !.refunded = Total[o], !.paid = FALSE,
                                            !.payout_eligible = FALSE, !.eligible_week = 0])
        PROVE  \E r \in Row :
                 /\ SetOrder(o, r)
                 /\ r.settled = order[o].settled
                 /\ order[o].refunded =< r.refunded /\ r.refunded =< Total[o]
    <3> DEFINE new == [order[o] EXCEPT !.refunded = Total[o], !.paid = FALSE,
                                       !.payout_eligible = FALSE, !.eligible_week = 0]
    <3>1. new \in Row /\ new.settled = order[o].settled /\ new.refunded = Total[o]
      BY <1>1 DEF Row
    <3>2. SetOrder(o, new)
      BY <2>2
    <3> HIDE DEF new
    <3> QED BY <1>1, <3>1, <3>2
  <2> QED BY <2>1, <2>2 DEF RefundOrder
<1>3. /\ order' \in [Orders -> Row] /\ order'[o] = r
      /\ \A q \in Orders : q # o => order'[q] = order[q]
  BY <1>2 DEF PayInv, Shapes, SetOrder
<1>4. recovering' = recovering \cup {o}
  BY DEF RefundOrder
<1>5. OnlyOrder(o)
  BY <1>3, <1>4 DEF PayInv, Shapes, OnlyOrder, PayoutsAlone, RefundOrder
<1>6. recovery[o].amount =< SellersShare(o)'
  BY <1>1, <1>2, <1>3, ShareNat DEF PayInv, OrderInv, SellersShare, Least, Row
<1>7. OrderInv(o)'
  BY <1>2, <1>3, <1>4, <1>6 DEF PayInv, OrderInv, RefundSeen, Recovered, PaidOut, RefundOrder
<1> QED BY <1>5, <1>7, OnlyOrderKeeps

LEMMA RecordRecoveryInv ==
  ASSUME PayInv, NEW o \in Orders, RecordRecovery(o)
  PROVE  PayInv'
<1> USE DEF payVars
<1>1. OrderInv(o) /\ order[o] \in Row /\ recovery[o].amount \in Nat /\ SellersShare(o) \in Nat
      /\ recovery[o] \in [amount : Nat, applied : Payouts \cup {None}]
  BY ShareNat DEF PayInv, Shapes
<1>2. o \notin recovering' /\ \A q \in Orders : q # o => (q \in recovering' <=> q \in recovering)
  BY DEF RecordRecovery
<1>3. /\ missed' \subseteq Orders /\ \A q \in Orders : q # o => (q \in missed' <=> q \in missed)
      /\ line[o] # None /\ pay[line[o]] # "no" => o \in missed'
      /\ o \in missed => o \in missed'
  BY DEF PayInv, Shapes, RecordRecovery, Unlocked
<1>4. CASE ~PaidOut(o)
  <2>1. order' = order /\ recovery' = recovery
    BY <1>4 DEF RecordRecovery
  <2>2. OnlyOrder(o)
    BY <1>2, <1>3, <2>1 DEF PayInv, Shapes, OnlyOrder, PayoutsAlone, RecordRecovery
  <2>3. OrderInv(o)'
    BY <1>1, <1>2, <1>3, <1>4, <2>1
    DEF OrderInv, RefundSeen, Recovered, PaidOut, SellersShare, RecordRecovery
  <2> QED BY <2>2, <2>3, OnlyOrderKeeps
<1>5. CASE PaidOut(o) /\ order' = order /\ recovery[o].amount =< SellersShare(o)
           /\ recovery' = [recovery EXCEPT ![o].amount = SellersShare(o)]
  <2>1. /\ recovery'[o].amount = SellersShare(o) /\ recovery'[o].applied = recovery[o].applied
        /\ recovery' \in [Orders -> [amount : Nat, applied : Payouts \cup {None}]]
        /\ \A q \in Orders : q # o => recovery'[q] = recovery[q]
    BY <1>1, <1>5 DEF PayInv, Shapes
  <2>2. OnlyOrder(o)
    BY <1>2, <1>3, <1>5, <2>1 DEF PayInv, Shapes, OnlyOrder, PayoutsAlone, RecordRecovery
  <2>3. OrderInv(o)'
    BY <1>1, <1>2, <1>3, <1>5, <2>1
    DEF OrderInv, RefundSeen, Recovered, PaidOut, SellersShare, RecordRecovery
  <2> QED BY <2>2, <2>3, OnlyOrderKeeps
<1>6. CASE /\ SetOrder(o, [order[o] EXCEPT !.review = TRUE]) /\ recovery' = recovery
  <2> DEFINE r == [order[o] EXCEPT !.review = TRUE]
  <2>1. r \in Row /\ r.settled = order[o].settled /\ r.refunded = order[o].refunded /\ r.review
    BY <1>1 DEF Row
  <2> HIDE DEF r
  <2>2. /\ order' \in [Orders -> Row] /\ order'[o] = r
        /\ \A q \in Orders : q # o => order'[q] = order[q]
    BY <1>6, <2>1 DEF PayInv, Shapes, SetOrder, r
  <2>3. OnlyOrder(o)
    BY <1>2, <1>3, <1>6, <2>2 DEF PayInv, Shapes, OnlyOrder, PayoutsAlone, RecordRecovery
  <2>4. OrderInv(o)'
    BY <1>1, <1>6, <2>1, <2>2
    DEF OrderInv, RefundSeen, Recovered, PaidOut, SellersShare, RecordRecovery
  <2> QED BY <2>3, <2>4, OnlyOrderKeeps
<1>7. recovery[o].amount =< SellersShare(o)
  BY <1>1 DEF OrderInv
<1>8. recovery[o].amount < SellersShare(o) \/ recovery[o].amount = SellersShare(o)
  BY <1>1, <1>7
<1>9. recovery = [recovery EXCEPT ![o].amount = recovery[o].amount]
  BY DEF PayInv, Shapes
<1>10. CASE PaidOut(o) /\ recovery[o].amount # 0 /\ Raised(o, SellersShare(o))
  <2>1. CASE recovery[o].applied = None
    <3>1. order' = order /\ recovery' = [recovery EXCEPT ![o].amount = SellersShare(o)]
      BY <1>8, <1>10, <2>1 DEF Raised
    <3> QED BY <1>5, <1>7, <1>10, <3>1
  <2>2. CASE recovery[o].applied # None
    BY <1>6, <1>10, <2>2 DEF Raised
  <2> QED BY <2>1, <2>2
<1> QED BY <1>4, <1>5, <1>7, <1>10 DEF RecordRecovery

LEMMA RecoveryFailsInv ==
  ASSUME PayInv, NEW o \in Orders, RecoveryFails(o)
  PROVE  PayInv'
<1> USE DEF moneyVars, payVars
<1>1. order[o] \in Row /\ OrderInv(o)
  BY ShareNat DEF PayInv
<1> DEFINE r == [order[o] EXCEPT !.review = TRUE]
<1>2. r \in Row /\ r.settled = order[o].settled /\ r.refunded = order[o].refunded /\ r.review
  BY <1>1 DEF Row
<1> HIDE DEF r
<1>3. /\ order' \in [Orders -> Row] /\ order'[o] = r
      /\ \A q \in Orders : q # o => order'[q] = order[q]
  BY <1>2 DEF PayInv, Shapes, RecoveryFails, SetOrder, r
<1>4. OnlyOrder(o)
  BY <1>3 DEF PayInv, Shapes, OnlyOrder, PayoutsAlone, RecoveryFails
<1>5. OrderInv(o)'
  BY <1>1, <1>2, <1>3
  DEF OrderInv, RefundSeen, Recovered, PaidOut, SellersShare, RecoveryFails
<1> QED BY <1>4, <1>5, OnlyOrderKeeps

LEMMA RecoveryNeverRunsInv ==
  ASSUME PayInv, NEW o \in Orders, RecoveryNeverRuns(o)
  PROVE  PayInv'
<1> USE DEF moneyVars, payVars
<1>1. OrderInv(o) /\ o \in missed'
  BY DEF PayInv, RecoveryNeverRuns
<1>2. OnlyOrder(o)
  BY DEF PayInv, Shapes, OnlyOrder, PayoutsAlone, RecoveryNeverRuns
<1>3. OrderInv(o)'
  BY <1>1 DEF OrderInv, RefundSeen, Recovered, PaidOut, SellersShare, RecoveryNeverRuns
<1> QED BY <1>2, <1>3, OnlyOrderKeeps

-----------------------------------------------------------------------------
(* The steps of a payout.                                                  *)

\* An update of one payout's row.
LEMMA PayoutSet ==
  ASSUME PayInv, NEW p \in Payouts, NEW r, payout' = [payout EXCEPT ![p] = r],
         "status" \in DOMAIN r, r.status \in Stages
  PROVE  /\ payout' = [q \in Payouts |-> payout'[q]]
         /\ \A q \in Payouts : "status" \in DOMAIN payout'[q] /\ payout'[q].status \in Stages
         /\ payout'[p].status = r.status
         /\ \A q \in Payouts : q # p => payout'[q] = payout[q]
BY DEF PayInv, Shapes

LEMMA StatusSet ==
  ASSUME PayInv, NEW p \in Payouts, NEW s \in Stages,
         payout' = [payout EXCEPT ![p].status = s]
  PROVE  /\ payout' = [q \in Payouts |-> payout'[q]]
         /\ \A q \in Payouts : "status" \in DOMAIN payout'[q] /\ payout'[q].status \in Stages
         /\ payout'[p].status = s
         /\ \A q \in Payouts : q # p => payout'[q] = payout[q]
<1> DEFINE r == [payout[p] EXCEPT !.status = s]
<1>1. "status" \in DOMAIN r /\ r.status = s
  BY DEF PayInv, Shapes
<1>2. payout' = [payout EXCEPT ![p] = r]
  OBVIOUS
<1> HIDE DEF r
<1> QED BY <1>1, <1>2, PayoutSet

\* A step on payout p that leaves the lines and the orders alone.
OnlyPayout(p) ==
  /\ UNCHANGED <<order, line, recovery, recovering, missed>> /\ week' \in Nat
  /\ payout' = [q \in Payouts |-> payout'[q]]
  /\ \A q \in Payouts : "status" \in DOMAIN payout'[q] /\ payout'[q].status \in Stages
  /\ pay' \in [Payouts -> {"no", "checked", "sent"}]
  /\ transfer' = [q \in Payouts |-> transfer'[q]]
  /\ transfer'[p].orders \subseteq Orders
  /\ \A q \in Payouts : q # p =>
       /\ payout'[q] = payout[q] /\ pay'[q] = pay[q] /\ transfer'[q] = transfer[q]
       /\ q \in unsure' <=> q \in unsure

LEMMA OnlyPayoutKeeps ==
  ASSUME PayInv, NEW p \in Payouts, OnlyPayout(p), PayoutInv(p)',
         payout[p].status = "paid" => payout'[p].status = "paid",
         payout'[p].status = "void" => payout[p].status = "void",
         \A o \in LinesOf(p) : RefundSeen(o)'
  PROVE  PayInv'
<1>1. Shapes'
  BY DEF PayInv, Shapes, OnlyPayout
<1>2. ASSUME NEW q \in Payouts, q # p
      PROVE  PayoutInv(q)'
  BY <1>2 DEF PayInv, OnlyPayout, PayoutInv, LinesOf
<1>3. ASSUME NEW o \in Orders
      PROVE  OrderInv(o)'
  <2>1. OrderInv(o) /\ line[o] \in Payouts \cup {None} /\ recovery[o].applied \in Payouts \cup {None}
    BY DEF PayInv, Shapes
  <2>2. \A q \in Payouts : (payout[q].status = "paid" => payout'[q].status = "paid")
                           /\ (payout'[q].status = "void" => payout[q].status = "void")
    BY DEF OnlyPayout
  <2>3. RefundSeen(o)'
    <3>1. CASE line[o] = p
      BY <3>1 DEF LinesOf
    <3>2. CASE line[o] # p
      BY <2>1, <3>2 DEF OnlyPayout, OrderInv, RefundSeen
    <3> QED BY <3>1, <3>2
  <2> QED BY <2>1, <2>2, <2>3
          DEF OnlyPayout, OrderInv, Recovered, PaidOut, SellersShare
<1> QED BY <1>1, <1>2, <1>3 DEF PayInv

LEMMA SetPayoutHoldInv ==
  ASSUME PayInv, NEW p \in Payouts, SetPayoutHold(p)
  PROVE  PayInv'
<1> USE DEF payVars
<1>1. PICK s \in {"pending_review", "on_hold"} :
        /\ payout[p].status \in {"pending_review", "on_hold"} \ {s}
        /\ payout' = [payout EXCEPT ![p].status = s]
  BY DEF SetPayoutHold
<1>2. /\ payout' = [q \in Payouts |-> payout'[q]]
      /\ \A q \in Payouts : "status" \in DOMAIN payout'[q] /\ payout'[q].status \in Stages
      /\ payout'[p].status = s
      /\ \A q \in Payouts : q # p => payout'[q] = payout[q]
  BY <1>1, StatusSet DEF Stages
<1>3. OnlyPayout(p)
  BY <1>2 DEF PayInv, Shapes, OnlyPayout, SetPayoutHold
<1>4. PayoutInv(p) /\ pay[p] = "no"
  BY DEF PayInv, SetPayoutHold, Unlocked
<1>5. PayoutInv(p)'
  BY <1>1, <1>2, <1>4 DEF PayoutInv, LinesOf, SetPayoutHold
<1>6. \A o \in LinesOf(p) : RefundSeen(o)'
  BY <1>4 DEF LinesOf, RefundSeen, SetPayoutHold
<1> QED BY <1>1, <1>2, <1>3, <1>5, <1>6, OnlyPayoutKeeps

LEMMA PayChecksInv ==
  ASSUME PayInv, NEW p \in Payouts, PayChecks(p)
  PROVE  PayInv'
<1> USE DEF moneyVars
<1>1. PayoutInv(p) /\ pay'[p] = "checked"
  BY DEF PayInv, Shapes, PayChecks
<1>2. OnlyPayout(p)
  BY DEF PayInv, Shapes, OnlyPayout, PayChecks
<1>3. PayoutInv(p)'
  BY <1>1 DEF PayoutInv, LinesOf, PayChecks, Unlocked
<1>4. \A o \in LinesOf(p) : RefundSeen(o)'
  BY DEF LinesOf, RefundSeen, PayChecks, Eligible
<1> QED BY <1>2, <1>3, <1>4, OnlyPayoutKeeps DEF PayChecks

LEMMA SendTransferInv ==
  ASSUME PayInv, NEW p \in Payouts, SendTransfer(p)
  PROVE  PayInv'
<1> USE DEF moneyVars
<1>1. /\ PayoutInv(p) /\ pay[p] = "checked" /\ pay'[p] = "sent"
      /\ transfer'[p].orders = LinesOf(p)
      /\ transfer' = [q \in Payouts |-> transfer'[q]]
      /\ \A q \in Payouts : q # p => transfer'[q] = transfer[q] /\ pay'[q] = pay[q]
  BY DEF PayInv, Shapes, SendTransfer
<1>2. OnlyPayout(p)
  BY <1>1 DEF PayInv, Shapes, OnlyPayout, SendTransfer, LinesOf
<1>3. PayoutInv(p)'
  BY <1>1 DEF PayoutInv, LinesOf, SendTransfer
<1>4. \A o \in LinesOf(p) : RefundSeen(o)'
  BY <1>1 DEF PayInv, OrderInv, LinesOf, RefundSeen, SendTransfer
<1> QED BY <1>2, <1>3, <1>4, OnlyPayoutKeeps DEF SendTransfer

LEMMA TransferRefusedInv ==
  ASSUME PayInv, NEW p \in Payouts, TransferRefused(p)
  PROVE  PayInv'
<1> USE DEF moneyVars
<1>1. PayoutInv(p) /\ pay[p] = "checked" /\ pay'[p] = "no"
  BY DEF PayInv, Shapes, TransferRefused
<1>2. OnlyPayout(p)
  BY DEF PayInv, Shapes, OnlyPayout, TransferRefused
<1>3. PayoutInv(p)'
  BY <1>1 DEF PayoutInv, LinesOf, TransferRefused
<1>4. \A o \in LinesOf(p) : RefundSeen(o)'
  BY <1>1 DEF LinesOf, RefundSeen, TransferRefused
<1> QED BY <1>2, <1>3, <1>4, OnlyPayoutKeeps DEF TransferRefused

LEMMA CommitLostInv ==
  ASSUME PayInv, NEW p \in Payouts, CommitLost(p)
  PROVE  PayInv'
<1> USE DEF moneyVars
<1>1. PayoutInv(p) /\ pay[p] = "sent" /\ pay'[p] = "no" /\ p \in unsure'
  BY DEF PayInv, Shapes, CommitLost
<1>2. OnlyPayout(p)
  BY DEF PayInv, Shapes, OnlyPayout, CommitLost
<1>3. PayoutInv(p)'
  BY <1>1 DEF PayoutInv, LinesOf, CommitLost
<1>4. \A o \in LinesOf(p) : RefundSeen(o)'
  BY <1>1 DEF LinesOf, RefundSeen, CommitLost
<1> QED BY <1>2, <1>3, <1>4, OnlyPayoutKeeps DEF CommitLost

\* The orders of the payout are settled: a refund that came meanwhile is seen to.
LEMMA CommitPaymentInv ==
  ASSUME PayInv, NEW p \in Payouts, CommitPayment(p)
  PROVE  PayInv'
<1>1. PayoutInv(p) /\ pay[p] = "sent" /\ pay'[p] = "no" /\ payout[p].status = "pending_review"
  BY DEF PayInv, Shapes, CommitPayment, PayoutInv
<1>2. /\ payout' = [q \in Payouts |-> payout'[q]]
      /\ \A q \in Payouts : "status" \in DOMAIN payout'[q] /\ payout'[q].status \in Stages
      /\ payout'[p].status = "paid"
      /\ \A q \in Payouts : q # p => payout'[q] = payout[q]
  BY StatusSet DEF CommitPayment, Stages
<1>3. /\ pay' \in [Payouts -> {"no", "checked", "sent"}]
      /\ \A q \in Payouts : q # p => pay'[q] = pay[q]
  BY DEF PayInv, Shapes, CommitPayment
<1>4. ASSUME NEW o \in Orders
      PROVE  /\ order'[o] \in Row /\ order'[o].refunded = order[o].refunded
             /\ order'[o].review = order[o].review
             /\ order'[o].settled <=> (order[o].settled \/ line[o] = p)
  <2>1. order[o] \in Row
    BY ShareNat
  <2>2. CASE line[o] = p
    <3>1. order'[o] = [order[o] EXCEPT !.settled = TRUE]
      BY <2>2 DEF CommitPayment
    <3> QED BY <2>1, <2>2, <3>1 DEF Row
  <2>3. CASE line[o] # p
    <3>1. order'[o] = order[o]
      BY <2>3 DEF CommitPayment
    <3> QED BY <2>1, <2>3, <3>1
  <2> QED BY <2>2, <2>3
<1>5. order' \in [Orders -> Row]
  BY <1>4 DEF CommitPayment
<1>6. Shapes'
  BY <1>2, <1>3, <1>5 DEF PayInv, Shapes, CommitPayment
<1>7. ASSUME NEW q \in Payouts
      PROVE  PayoutInv(q)'
  <2>1. CASE q = p
    BY <1>1, <1>2, <2>1 DEF PayoutInv, LinesOf, CommitPayment
  <2>2. CASE q # p
    BY <1>2, <1>3, <2>2 DEF PayInv, PayoutInv, LinesOf, CommitPayment
  <2> QED BY <2>1, <2>2
<1>8. ASSUME NEW o \in Orders
      PROVE  OrderInv(o)'
  <2>1. OrderInv(o) /\ line[o] \in Payouts \cup {None} /\ recovery[o].applied \in Payouts \cup {None}
    BY DEF PayInv, Shapes
  <2>2. \A q \in Payouts : (payout[q].status = "paid" => payout'[q].status = "paid")
                           /\ (payout'[q].status = "void" => payout[q].status = "void")
    BY <1>2
  <2>3. RefundSeen(o)'
    BY <1>1, <1>3, <1>4, <2>1 DEF OrderInv, RefundSeen, CommitPayment
  <2>4. PaidOut(o)' \/ ~order'[o].settled
    BY <1>2, <1>4, <2>1, <2>2, NoneIsNoPayout DEF OrderInv, PaidOut, CommitPayment
  <2>5. SellersShare(o)' = SellersShare(o)
    BY <1>4 DEF SellersShare
  <2>6. Recovered(o)'
    <3>1. CASE line[o] = p
      BY <1>1, <1>4, <2>1, <3>1, NoneIsNoPayout DEF OrderInv, RefundSeen, Recovered, CommitPayment
    <3>2. CASE line[o] # p
      BY <1>4, <2>1, <2>2, <2>5, <3>2 DEF OrderInv, Recovered, CommitPayment
    <3> QED BY <3>1, <3>2
  <2> QED BY <1>4, <2>1, <2>2, <2>3, <2>4, <2>5, <2>6 DEF OrderInv, CommitPayment
<1> QED BY <1>6, <1>7, <1>8 DEF PayInv

\* The payout that prepareWeek writes is new, or live and unpaid.
LEMMA SlotIs ==
  ASSUME NEW p \in Slot
  PROVE  p \in Payouts /\ payout[p].status \notin {"paid", "void"}
BY DEF Slot, Current

LEMMA PreparedIs ==
  ASSUME NEW p \in Payouts
  PROVE  /\ Prepared(p).orders = {o \in Orders : Due(o)}
         /\ "status" \in DOMAIN Prepared(p).row
         /\ Prepared(p).row.status = IF payout[p].status = "none" THEN "pending_review"
                                     ELSE payout[p].status
BY DEF Prepared

LEMMA PrepareWeekInv ==
  ASSUME PayInv, PrepareWeek
  PROVE  PayInv'
<1> USE DEF payVars
<1>1. PICK p \in Slot :
        /\ Unlocked(p)
        /\ payout' = [payout EXCEPT ![p] = Prepared(p).row]
        /\ line' = [o \in Orders |-> IF o \in Prepared(p).orders THEN p ELSE line[o]]
        /\ recovery' = [o \in Orders |->
             IF o \in Prepared(p).recoveries THEN [recovery[o] EXCEPT !.applied = p]
             ELSE recovery[o]]
  BY DEF PrepareWeek
<1>2. p \in Payouts /\ payout[p].status \in {"none", "pending_review", "on_hold"} /\ pay[p] = "no"
  BY <1>1, SlotIs DEF PayInv, Shapes, Stages, Unlocked
<1>3. /\ payout' = [q \in Payouts |-> payout'[q]]
      /\ \A q \in Payouts : "status" \in DOMAIN payout'[q] /\ payout'[q].status \in Stages
      /\ payout'[p].status \in {"pending_review", "on_hold"}
      /\ \A q \in Payouts : q # p => payout'[q] = payout[q]
  BY <1>1, <1>2, PreparedIs, PayoutSet DEF Stages
<1>4. ASSUME NEW o \in Orders
      PROVE  \/ line'[o] = line[o]
             \/ line[o] = None /\ line'[o] = p
  BY <1>1, <1>2, PreparedIs DEF Due
<1>5. line' \in [Orders -> Payouts \cup {None}]
  BY <1>1, <1>2 DEF PayInv, Shapes
<1>6. ASSUME NEW o \in Orders
      PROVE  /\ recovery'[o] \in [amount : Nat, applied : Payouts \cup {None}]
             /\ recovery'[o].amount = recovery[o].amount
             /\ recovery'[o].applied \in {recovery[o].applied, p}
  <2>1. recovery[o] \in [amount : Nat, applied : Payouts \cup {None}]
    BY DEF PayInv, Shapes
  <2>2. CASE o \in Prepared(p).recoveries
    <3>1. recovery'[o] = [recovery[o] EXCEPT !.applied = p]
      BY <1>1, <2>2
    <3> QED BY <1>2, <2>1, <3>1
  <2>3. CASE o \notin Prepared(p).recoveries
    <3>1. recovery'[o] = recovery[o]
      BY <1>1, <2>3
    <3> QED BY <2>1, <3>1
  <2> QED BY <2>2, <2>3
<1>7. recovery' \in [Orders -> [amount : Nat, applied : Payouts \cup {None}]]
  BY <1>1, <1>6
<1>8. Shapes'
  BY <1>3, <1>5, <1>7 DEF PayInv, Shapes, PrepareWeek
<1>9. ASSUME NEW q \in Payouts
      PROVE  PayoutInv(q)'
  <2>1. PayoutInv(q) /\ transfer[q].orders \subseteq Orders
    BY DEF PayInv, Shapes
  <2>2. \A o \in transfer[q].orders : line[o] = q => line'[o] = q
    BY <1>4, <2>1, NoneIsNoPayout
  <2>3. CASE q = p
    BY <1>2, <1>3, <2>1, <2>2, <2>3 DEF PayoutInv, PrepareWeek
  <2>4. CASE q # p
    <3>1. LinesOf(q)' = LinesOf(q)
      BY <1>4, <2>4, NoneIsNoPayout DEF LinesOf
    <3> QED BY <1>3, <2>1, <2>2, <2>4, <3>1 DEF PayoutInv, PrepareWeek
  <2> QED BY <2>3, <2>4
<1>10. ASSUME NEW o \in Orders
       PROVE  OrderInv(o)'
  <2>1. OrderInv(o) /\ line[o] \in Payouts \cup {None} /\ recovery[o].applied \in Payouts \cup {None}
    BY DEF PayInv, Shapes
  <2>2. order' = order /\ recovering' = recovering /\ missed' = missed /\ pay' = pay
    BY DEF PrepareWeek
  <2>3. order[o].settled => line'[o] = line[o] /\ line[o] # p /\ PaidOut(o)'
    BY <1>2, <1>3, <1>4, <2>1, <2>2 DEF OrderInv, PaidOut
  <2>4. RefundSeen(o)'
    BY <1>2, <1>4, <2>1, <2>2 DEF OrderInv, RefundSeen
  <2>5. recovery'[o].applied # None => payout'[recovery'[o].applied].status # "void"
    BY <1>2, <1>3, <1>6, <2>1 DEF OrderInv
  <2>6. SellersShare(o)' = SellersShare(o)
    BY <2>2 DEF SellersShare
  <2> QED BY <1>6, <2>1, <2>2, <2>3, <2>4, <2>5, <2>6 DEF OrderInv, Recovered
<1> QED BY <1>8, <1>9, <1>10 DEF PayInv

\* A voided payout lets go of its orders and recoveries; it was not paid.
LEMMA VoidPayoutInv ==
  ASSUME PayInv, NEW p \in Payouts, VoidPayout(p)
  PROVE  PayInv'
<1> USE DEF payVars
<1>1. /\ PayoutInv(p) /\ pay[p] = "no" /\ payout[p].status \in {"pending_review", "on_hold"}
  BY DEF PayInv, VoidPayout, Unlocked
<1>2. /\ payout' = [q \in Payouts |-> payout'[q]]
      /\ \A q \in Payouts : "status" \in DOMAIN payout'[q] /\ payout'[q].status \in Stages
      /\ payout'[p].status = "void"
      /\ \A q \in Payouts : q # p => payout'[q] = payout[q]
  BY StatusSet DEF VoidPayout, Stages
<1>3. ASSUME NEW o \in Orders
      PROVE  /\ line[o] = p => line'[o] = None
             /\ line[o] # p => line'[o] = line[o]
  BY DEF VoidPayout
<1>4. line' \in [Orders -> Payouts \cup {None}]
  BY DEF VoidPayout, PayInv, Shapes
<1>5. ASSUME NEW o \in Orders
      PROVE  /\ recovery'[o] \in [amount : Nat, applied : Payouts \cup {None}]
             /\ recovery'[o].amount = recovery[o].amount
             /\ recovery'[o].applied = IF recovery[o].applied = p THEN None ELSE recovery[o].applied
  <2>1. recovery[o] \in [amount : Nat, applied : Payouts \cup {None}]
    BY DEF PayInv, Shapes
  <2>2. CASE recovery[o].applied = p
    <3>1. recovery'[o] = [recovery[o] EXCEPT !.applied = None]
      BY <2>2 DEF VoidPayout
    <3> QED BY <2>1, <2>2, <3>1
  <2>3. CASE recovery[o].applied # p
    <3>1. recovery'[o] = recovery[o]
      BY <2>3 DEF VoidPayout
    <3> QED BY <2>1, <2>3, <3>1
  <2> QED BY <2>2, <2>3
<1>6. recovery' \in [Orders -> [amount : Nat, applied : Payouts \cup {None}]]
  BY <1>5 DEF VoidPayout
<1>7. Shapes'
  BY <1>2, <1>4, <1>6 DEF PayInv, Shapes, VoidPayout
<1>8. ASSUME NEW q \in Payouts
      PROVE  PayoutInv(q)'
  <2>1. PayoutInv(q) /\ transfer[q].orders \subseteq Orders
    BY DEF PayInv, Shapes
  <2>2. CASE q = p
    BY <1>1, <1>2, <2>1, <2>2 DEF PayoutInv, VoidPayout
  <2>3. CASE q # p
    <3>1. LinesOf(q)' = LinesOf(q)
      BY <1>3, <2>3, NoneIsNoPayout DEF LinesOf
    <3> QED BY <1>2, <1>3, <2>1, <2>3, <3>1 DEF PayoutInv, VoidPayout
  <2> QED BY <2>2, <2>3
<1>9. ASSUME NEW o \in Orders
      PROVE  OrderInv(o)'
  <2>1. OrderInv(o) /\ line[o] \in Payouts \cup {None} /\ recovery[o].applied \in Payouts \cup {None}
    BY DEF PayInv, Shapes
  <2>2. order' = order /\ recovering' = recovering /\ missed' = missed /\ pay' = pay
    BY DEF VoidPayout
  <2>3. order[o].settled => line'[o] = line[o] /\ PaidOut(o)'
    BY <1>1, <1>2, <1>3, <2>1, <2>2 DEF OrderInv, PaidOut
  <2>4. RefundSeen(o)'
    BY <1>3, <2>1, <2>2 DEF OrderInv, RefundSeen
  <2>5. recovery'[o].applied # None => payout'[recovery'[o].applied].status # "void"
    BY <1>2, <1>5, <2>1 DEF OrderInv
  <2>6. SellersShare(o)' = SellersShare(o)
    BY <2>2 DEF SellersShare
  <2> QED BY <1>5, <2>1, <2>2, <2>3, <2>4, <2>5, <2>6 DEF OrderInv, Recovered
<1> QED BY <1>7, <1>8, <1>9 DEF PayInv

-----------------------------------------------------------------------------
(* The invariant is kept.                                                  *)

LEMMA PayInit ==
  ASSUME Init
  PROVE  PayInv
<1> USE DEF Init
<1>1. NewOrder \in Row
  BY DEF NewOrder, Row
<1>2. Shapes
  BY <1>1 DEF Shapes, NoPayout, NoTransfer, Stages
<1>3. \A p \in Payouts : PayoutInv(p)
  BY DEF PayoutInv, NoPayout, NoTransfer
<1>4. ASSUME NEW o \in Orders
      PROVE  OrderInv(o)
  <2>1. order[o] = NewOrder /\ ~order[o].settled /\ order[o].refunded = 0
        /\ recovery[o].amount = 0 /\ recovery[o].applied = None /\ line[o] = None
    BY DEF NewOrder
  <2>2. Proceeds[o] \in Nat /\ Total[o] \in Nat
    BY MoneyAssumption
  <2> QED BY <2>1, <2>2 DEF OrderInv, RefundSeen, Recovered, SellersShare, Least
<1> QED BY <1>2, <1>3, <1>4 DEF PayInv

\* A step that changes nothing of what the invariant reads.
LEMMA NothingRead ==
  ASSUME PayInv, week' \in Nat,
         UNCHANGED <<order, payout, line, recovery, payVars, recovering, missed>>
  PROVE  PayInv'
<1> USE DEF payVars
<1>1. Shapes'
  BY DEF PayInv, Shapes
<1>2. \A p \in Payouts : PayoutInv(p)'
  BY DEF PayInv, PayoutInv, LinesOf
<1>3. \A o \in Orders : OrderInv(o)'
  BY DEF PayInv, OrderInv, RefundSeen, Recovered, PaidOut, SellersShare
<1> QED BY <1>1, <1>2, <1>3 DEF PayInv

LEMMA PayInductive ==
  ASSUME PayInv, [Next]_vars
  PROVE  PayInv'
<1>1. CASE UNCHANGED vars
  BY <1>1, NothingRead DEF vars, moneyVars, PayInv, Shapes
<1>2. CASE PassCutoff
  BY <1>2, NothingRead DEF PassCutoff, moneyVars, PayInv, Shapes
<1>3. ASSUME NEW c \in Corrections, Correct(c)
      PROVE  PayInv'
  BY <1>3, NothingRead DEF Correct, PayInv, Shapes
<1>4. ASSUME NEW o \in Orders, NextOrder(o)
      PROVE  PayInv'
  BY <1>4, FulfilInv, HoldOrderInv, ReleaseOrderHoldInv, RefundOrderInv, RecordRecoveryInv,
     RecoveryFailsInv, RecoveryNeverRunsInv DEF NextOrder
<1>5. ASSUME NEW p \in Payouts, NextPayout(p)
      PROVE  PayInv'
  BY <1>5, SetPayoutHoldInv, VoidPayoutInv, PayChecksInv, SendTransferInv, TransferRefusedInv,
     CommitPaymentInv, CommitLostInv DEF NextPayout, FinishPay
<1> QED BY <1>1, <1>2, <1>3, <1>4, <1>5, PrepareWeekInv DEF Next

LEMMA PayHolds == Spec => []PayInv
<1>1. Init => PayInv
  BY PayInit
<1>2. PayInv /\ [Next]_vars => PayInv'
  BY PayInductive
<1> QED BY <1>1, <1>2, PTL DEF Spec

-----------------------------------------------------------------------------
(* Every row keeps its shape.                                              *)

LEMMA StatementIsInt ==
  ASSUME TypeOK, NEW p \in Payouts
  PROVE  Statement(p) \in Int
<1>1. /\ LinesOf(p) \in SUBSET Orders /\ RecoveriesOf(p) \in SUBSET Orders
      /\ CorrectionsOf(p) \in SUBSET Corrections
  BY DEF LinesOf, RecoveriesOf, CorrectionsOf
<1>2. /\ LineSum(LinesOf(p)) \in Nat /\ RecoverySum(RecoveriesOf(p)) \in Nat
      /\ CorrectionSum(CorrectionsOf(p)) \in Int
  BY <1>1, SumsAre DEF TypeOK
<1> QED BY <1>2 DEF Statement

\* The row prepareWeek writes, when the table's CHECK lets it.
LEMMA PreparedRow ==
  ASSUME TypeOK, NEW p \in Payouts, Prepared(p).row.amount >= 0
  PROVE  Prepared(p).row \in Payout
<1> DEFINE lines == LineSum(LinesOf(p) \cup Prepared(p).orders)
           recovered == payout[p].recovered + RecoverySum(Prepared(p).recoveries)
           adjusted == payout[p].adjusted + CorrectionSum(Prepared(p).corrections)
           status == IF payout[p].status = "none" THEN "pending_review" ELSE payout[p].status
<1>1. /\ LinesOf(p) \cup Prepared(p).orders \in SUBSET Orders
      /\ Prepared(p).recoveries \in SUBSET Orders
      /\ Prepared(p).corrections \in SUBSET Corrections
  <2>1. Prepared(p).orders = {o \in Orders : Due(o)}
    BY DEF Prepared
  <2> QED BY <2>1, TakenIs DEF TypeOK, LinesOf
<1>2. payout[p] \in Payout /\ week \in Nat
  BY DEF TypeOK
<1>3. /\ lines \in Nat /\ recovered \in Nat /\ adjusted \in Int
      /\ status \in {"none", "pending_review", "on_hold", "paid", "void"}
  <2>1. lines \in Nat
    BY <1>1, SumsAre DEF TypeOK
  <2>2. RecoverySum(Prepared(p).recoveries) \in Nat
    BY <1>1, SumsAre DEF TypeOK
  <2>3. CorrectionSum(Prepared(p).corrections) \in Int
    BY <1>1, SumsAre DEF TypeOK
  <2> QED BY <1>2, <2>1, <2>2, <2>3 DEF Payout
<1>4. Prepared(p).row = [status |-> status, cutoff |-> week, amount |-> lines - recovered + adjusted,
                         recovered |-> recovered, adjusted |-> adjusted]
  BY DEF Prepared
<1> HIDE DEF lines, recovered, adjusted, status
<1>5. Prepared(p).row.amount = lines - recovered + adjusted
  BY <1>4
<1>6. lines - recovered + adjusted \in Nat
  BY <1>3, <1>5
<1> QED BY <1>2, <1>3, <1>4, <1>6 DEF Payout

LEMMA OrderSet ==
  ASSUME TypeOK, NEW o \in Orders, NEW r \in Row, SetOrder(o, r),
         r.payout_eligible => r.paid /\ r.fulfilled /\ ~r.payout_hold
  PROVE  order' \in [Orders -> Order]
<1>1. r \in Order
  BY DEF Order
<1> QED BY <1>1 DEF TypeOK, SetOrder

LEMMA FlaggedOrder ==
  ASSUME TypeOK, NEW o \in Orders, SetOrder(o, [order[o] EXCEPT !.review = TRUE])
  PROVE  order' \in [Orders -> Order]
<1>1. /\ order[o] \in Row
      /\ order[o].payout_eligible => order[o].paid /\ order[o].fulfilled /\ ~order[o].payout_hold
  BY DEF TypeOK, Order
<1> DEFINE r == [order[o] EXCEPT !.review = TRUE]
<1>2. /\ r \in Row /\ r.payout_hold = order[o].payout_hold
      /\ r.paid = order[o].paid /\ r.fulfilled = order[o].fulfilled
      /\ r.payout_eligible = order[o].payout_eligible
  BY <1>1 DEF Row
<1> HIDE DEF r
<1>3. SetOrder(o, r)
  BY DEF r
<1> QED BY <1>1, <1>2, <1>3, OrderSet

LEMMA OrderTypes ==
  ASSUME TypeOK, NEW o \in Orders, Fulfil(o) \/ HoldOrder(o) \/ ReleaseOrderHold(o) \/ RefundOrder(o)
                                   \/ RecoveryFails(o)
  PROVE  order' \in [Orders -> Order]
<1>1. /\ order[o] \in Row /\ week + 1 \in Nat /\ Total[o] \in Nat
      /\ order[o].payout_eligible => order[o].paid /\ order[o].fulfilled /\ ~order[o].payout_hold
  BY MoneyAssumption DEF TypeOK, Order
<1>2. CASE Fulfil(o)
  <2>1. CASE order[o].payout_hold
    <3> DEFINE r == [order[o] EXCEPT !.fulfilled = TRUE]
    <3>1. /\ r \in Row /\ r.fulfilled /\ r.paid = order[o].paid
          /\ r.payout_hold = order[o].payout_hold /\ r.payout_eligible = order[o].payout_eligible
      BY <1>1 DEF Row
    <3>2. SetOrder(o, r)
      BY <1>2, <2>1 DEF Fulfil
    <3> HIDE DEF r
    <3> QED BY <1>1, <3>1, <3>2, OrderSet
  <2>2. CASE ~order[o].payout_hold
    <3> DEFINE r == [order[o] EXCEPT !.fulfilled = TRUE, !.payout_eligible = TRUE,
                                     !.eligible_week = week + 1]
    <3>1. /\ r \in Row /\ r.fulfilled /\ r.paid = order[o].paid
          /\ r.payout_hold = order[o].payout_hold
      BY <1>1 DEF Row
    <3>2. SetOrder(o, r) /\ order[o].paid
      BY <1>2, <2>2 DEF Fulfil
    <3> HIDE DEF r
    <3> QED BY <2>2, <3>1, <3>2, OrderSet
  <2> QED BY <2>1, <2>2
<1>3. CASE HoldOrder(o)
  <2>1. PICK review \in {order[o].review, TRUE} :
          SetOrder(o, [order[o] EXCEPT !.payout_hold = TRUE, !.review = review,
                                       !.payout_eligible = FALSE, !.eligible_week = 0])
    BY <1>3 DEF HoldOrder
  <2> DEFINE r == [order[o] EXCEPT !.payout_hold = TRUE, !.review = review,
                                   !.payout_eligible = FALSE, !.eligible_week = 0]
  <2>2. r \in Row /\ ~r.payout_eligible
    BY <1>1 DEF Row
  <2>3. SetOrder(o, r)
    BY <2>1
  <2> HIDE DEF r
  <2> QED BY <2>2, <2>3, OrderSet
<1>4. CASE ReleaseOrderHold(o)
  <2> DEFINE r == [order[o] EXCEPT !.payout_hold = FALSE]
  <2>1. /\ r \in Row /\ ~r.payout_hold
        /\ r.paid = order[o].paid /\ r.fulfilled = order[o].fulfilled
        /\ r.payout_eligible = order[o].payout_eligible
    BY <1>1 DEF Row
  <2>2. SetOrder(o, r)
    BY <1>4 DEF ReleaseOrderHold
  <2> HIDE DEF r
  <2> QED BY <1>1, <2>1, <2>2, OrderSet
<1>5. ASSUME NEW amount \in Partials,
             SetOrder(o, [order[o] EXCEPT !.refunded = amount, !.review = TRUE])
      PROVE  order' \in [Orders -> Order]
  <2> DEFINE r == [order[o] EXCEPT !.refunded = amount, !.review = TRUE]
  <2>1. amount \in Nat
    BY MoneyAssumption
  <2>2. /\ r \in Row /\ r.payout_hold = order[o].payout_hold
        /\ r.paid = order[o].paid /\ r.fulfilled = order[o].fulfilled
        /\ r.payout_eligible = order[o].payout_eligible
    BY <1>1, <2>1 DEF Row
  <2>3. SetOrder(o, r)
    BY <1>5
  <2> HIDE DEF r
  <2> QED BY <1>1, <2>2, <2>3, OrderSet
<1>6. ASSUME SetOrder(o, [order[o] EXCEPT !.refunded = Total[o], !.paid = FALSE,
                                          !.payout_eligible = FALSE, !.eligible_week = 0])
      PROVE  order' \in [Orders -> Order]
  <2> DEFINE r == [order[o] EXCEPT !.refunded = Total[o], !.paid = FALSE,
                                   !.payout_eligible = FALSE, !.eligible_week = 0]
  <2>1. r \in Row /\ ~r.payout_eligible
    BY <1>1 DEF Row
  <2>2. SetOrder(o, r)
    BY <1>6
  <2> HIDE DEF r
  <2> QED BY <2>1, <2>2, OrderSet
<1>7. ASSUME SetOrder(o, [order[o] EXCEPT !.review = TRUE])
      PROVE  order' \in [Orders -> Order]
  BY <1>7, FlaggedOrder
<1> QED BY <1>2, <1>3, <1>4, <1>5, <1>6, <1>7 DEF RefundOrder, RecoveryFails

LEMMA PayoutStatusTypes ==
  ASSUME TypeOK, NEW p \in Payouts, NEW s \in Stages,
         payout' = [payout EXCEPT ![p].status = s]
  PROVE  payout' \in [Payouts -> Payout]
<1> DEFINE r == [payout[p] EXCEPT !.status = s]
<1>1. payout[p] \in Payout
  BY DEF TypeOK
<1>2. r \in Payout
  BY <1>1 DEF Payout, Stages
<1>3. payout' = [payout EXCEPT ![p] = r]
  OBVIOUS
<1> HIDE DEF r
<1> QED BY <1>2, <1>3 DEF TypeOK

\* Rows of recoveries and corrections, some of them applied to a payout or set free.
LEMMA AppliedRows ==
  ASSUME TypeOK, NEW a \in Payouts \cup {None},
         recovery' = [o \in Orders |-> recovery'[o]],
         correction' = [c \in Corrections |-> correction'[c]],
         \A o \in Orders : recovery'[o] \in {recovery[o], [recovery[o] EXCEPT !.applied = a]},
         \A c \in Corrections :
           correction'[c] \in {correction[c], [correction[c] EXCEPT !.applied = a]}
  PROVE  /\ recovery' \in [Orders -> [amount : Nat, applied : Payouts \cup {None}]]
         /\ correction' \in [Corrections -> [made : Nat, applied : Payouts \cup {None}]]
<1>1. ASSUME NEW o \in Orders
      PROVE  recovery'[o] \in [amount : Nat, applied : Payouts \cup {None}]
  <2>1. recovery[o] \in [amount : Nat, applied : Payouts \cup {None}]
    BY DEF TypeOK
  <2>2. [recovery[o] EXCEPT !.applied = a] \in [amount : Nat, applied : Payouts \cup {None}]
    BY <2>1
  <2> QED BY <2>1, <2>2
<1>2. ASSUME NEW c \in Corrections
      PROVE  correction'[c] \in [made : Nat, applied : Payouts \cup {None}]
  <2>1. correction[c] \in [made : Nat, applied : Payouts \cup {None}]
    BY DEF TypeOK
  <2>2. [correction[c] EXCEPT !.applied = a] \in [made : Nat, applied : Payouts \cup {None}]
    BY <2>1
  <2> QED BY <2>1, <2>2
<1> QED BY <1>1, <1>2

LEMMA RecordRecoveryTypes ==
  ASSUME TypeOK, NEW o \in Orders, RecordRecovery(o)
  PROVE  TypeOK'
<1>1. order[o] \in Order /\ SellersShare(o) \in Nat
  BY MoneyAssumption DEF TypeOK, Order, Row, SellersShare, Least
<1>2. order' \in [Orders -> Order]
  <2>1. CASE order' = order
    BY <2>1 DEF TypeOK
  <2>2. CASE SetOrder(o, [order[o] EXCEPT !.review = TRUE])
    BY <2>2, FlaggedOrder
  <2> QED BY <2>1, <2>2 DEF RecordRecovery, Raised
<1>3. recovery' \in [Orders -> [amount : Nat, applied : Payouts \cup {None}]]
  <2>1. CASE recovery' = recovery
    BY <2>1 DEF TypeOK
  <2>2. ASSUME NEW n \in Nat, recovery' = [recovery EXCEPT ![o].amount = n]
        PROVE  recovery' \in [Orders -> [amount : Nat, applied : Payouts \cup {None}]]
    BY <2>2 DEF TypeOK
  <2>3. CASE recovery' = [recovery EXCEPT ![o].amount =
                            IF @ < SellersShare(o) THEN SellersShare(o) ELSE @]
    <3>1. recovery[o].amount \in Nat
      BY DEF TypeOK
    <3>2. (IF recovery[o].amount < SellersShare(o) THEN SellersShare(o) ELSE recovery[o].amount) \in Nat
      BY <1>1, <3>1
    <3> QED BY <2>2, <2>3, <3>2
  <2> QED BY <1>1, <2>1, <2>2, <2>3 DEF RecordRecovery, Raised
<1>4. recoveries' \in Seq(Orders)
  <2>1. recoveries' = recoveries \/ recoveries' = Append(recoveries, o)
    BY DEF RecordRecovery
  <2>2. recoveries \in Seq(Orders) /\ Append(recoveries, o) \in Seq(Orders)
    BY DEF TypeOK
  <2> QED BY <2>1, <2>2
<1>5. missed' \subseteq Orders /\ recovering' \subseteq Orders
  BY DEF TypeOK, RecordRecovery
<1> QED BY <1>2, <1>3, <1>4, <1>5 DEF TypeOK, RecordRecovery, payVars

LEMMA PrepareWeekTypes ==
  ASSUME TypeOK, PrepareWeek
  PROVE  TypeOK'
<1>1. PICK p \in Slot :
        /\ Prepared(p).row.amount >= 0
        /\ payout' = [payout EXCEPT ![p] = Prepared(p).row]
        /\ line' = [o \in Orders |-> IF o \in Prepared(p).orders THEN p ELSE line[o]]
        /\ recovery' = [o \in Orders |->
             IF o \in Prepared(p).recoveries THEN [recovery[o] EXCEPT !.applied = p]
             ELSE recovery[o]]
        /\ correction' = [c \in Corrections |->
             IF c \in Prepared(p).corrections THEN [correction[c] EXCEPT !.applied = p]
             ELSE correction[c]]
  BY DEF PrepareWeek
<1>2. p \in Payouts
  BY SlotIs
<1>3. payout' \in [Payouts -> Payout]
  BY <1>1, <1>2, PreparedRow DEF TypeOK
<1>4. line' \in [Orders -> Payouts \cup {None}]
  BY <1>1, <1>2 DEF TypeOK
<1>5. /\ recovery' \in [Orders -> [amount : Nat, applied : Payouts \cup {None}]]
      /\ correction' \in [Corrections -> [made : Nat, applied : Payouts \cup {None}]]
  <2>1. /\ recovery' = [o \in Orders |-> recovery'[o]]
        /\ correction' = [c \in Corrections |-> correction'[c]]
        /\ \A o \in Orders : recovery'[o] \in {recovery[o], [recovery[o] EXCEPT !.applied = p]}
        /\ \A c \in Corrections :
             correction'[c] \in {correction[c], [correction[c] EXCEPT !.applied = p]}
    BY <1>1
  <2> QED BY <1>2, <2>1, AppliedRows
<1> QED BY <1>3, <1>4, <1>5 DEF TypeOK, PrepareWeek, payVars

LEMMA VoidPayoutTypes ==
  ASSUME TypeOK, NEW p \in Payouts, VoidPayout(p)
  PROVE  TypeOK'
<1>1. payout' \in [Payouts -> Payout]
  BY PayoutStatusTypes DEF VoidPayout, Stages
<1>2. line' \in [Orders -> Payouts \cup {None}]
  BY DEF TypeOK, VoidPayout
<1>3. /\ recovery' = [o \in Orders |-> recovery'[o]]
      /\ correction' = [c \in Corrections |-> correction'[c]]
      /\ \A o \in Orders : recovery'[o] \in {recovery[o], [recovery[o] EXCEPT !.applied = None]}
      /\ \A c \in Corrections :
           correction'[c] \in {correction[c], [correction[c] EXCEPT !.applied = None]}
  BY DEF VoidPayout
<1>4. /\ recovery' \in [Orders -> [amount : Nat, applied : Payouts \cup {None}]]
      /\ correction' \in [Corrections -> [made : Nat, applied : Payouts \cup {None}]]
  BY <1>3, AppliedRows
<1>5. upsets' \in Nat
  BY DEF TypeOK, VoidPayout, Upset
<1> QED BY <1>1, <1>2, <1>4, <1>5 DEF TypeOK, VoidPayout, payVars

LEMMA PayoutTypes ==
  ASSUME TypeOK, NEW p \in Payouts, NextPayout(p)
  PROVE  TypeOK'
<1> USE DEF moneyVars
<1>u. upsets' \in Nat
  BY DEF TypeOK, Upset, NextPayout, SetPayoutHold, VoidPayout, PayChecks, FinishPay, SendTransfer,
         TransferRefused, CommitPayment, CommitLost
<1>1. CASE SetPayoutHold(p)
  <2>1. payout' \in [Payouts -> Payout]
    BY <1>1, PayoutStatusTypes DEF SetPayoutHold, Stages
  <2> QED BY <1>u, <1>1, <2>1 DEF TypeOK, SetPayoutHold, payVars
<1>2. CASE PayChecks(p)
  BY <1>2 DEF TypeOK, PayChecks
<1>3. CASE SendTransfer(p)
  <2>1. [amount |-> Statement(p), orders |-> LinesOf(p)] \in [amount : Int, orders : SUBSET Orders]
    BY StatementIsInt DEF LinesOf
  <2>2. transfer' \in [Payouts -> [amount : Int, orders : SUBSET Orders]]
    BY <1>3, <2>1 DEF TypeOK, SendTransfer
  <2> QED BY <1>3, <2>2 DEF TypeOK, SendTransfer
<1>4. CASE TransferRefused(p)
  BY <1>u, <1>4 DEF TypeOK, TransferRefused
<1>5. CASE CommitPayment(p)
  <2>1. payout' \in [Payouts -> Payout]
    BY <1>5, PayoutStatusTypes DEF CommitPayment, Stages
  <2>2. ASSUME NEW o \in Orders
        PROVE  order'[o] \in Order
    <3>1. order[o] \in Order
      BY DEF TypeOK
    <3>2. [order[o] EXCEPT !.settled = TRUE] \in Order
      BY <3>1 DEF Order, Row
    <3> QED BY <1>5, <3>1, <3>2 DEF CommitPayment
  <2>3. order' \in [Orders -> Order]
    BY <1>5, <2>2 DEF CommitPayment
  <2> QED BY <1>5, <2>1, <2>3 DEF TypeOK, CommitPayment
<1>6. CASE CommitLost(p)
  BY <1>u, <1>6 DEF TypeOK, CommitLost
<1> QED BY <1>1, <1>2, <1>3, <1>4, <1>5, <1>6, VoidPayoutTypes DEF NextPayout, FinishPay

LEMMA CorrectTypes ==
  ASSUME TypeOK, NEW c \in Corrections, Correct(c)
  PROVE  TypeOK'
<1> DEFINE r == [correction[c] EXCEPT !.made = week + 1]
<1>r. r \in [made : Nat, applied : Payouts \cup {None}]
  <2>1. correction[c] \in [made : Nat, applied : Payouts \cup {None}] /\ week + 1 \in Nat
    BY DEF TypeOK
  <2> QED BY <2>1
<1>c. correction' = [correction EXCEPT ![c] = r]
  BY DEF Correct
<1> HIDE DEF r
<1>1. correction' \in [Corrections -> [made : Nat, applied : Payouts \cup {None}]]
  BY <1>r, <1>c DEF TypeOK
<1>2. corrections' \in Seq(Corrections)
  <2>1. corrections \in Seq(Corrections)
    BY DEF TypeOK
  <2> QED BY <2>1 DEF Correct
<1>3. upsets' \in Nat
  BY DEF TypeOK, Correct, Upset
<1> QED BY <1>1, <1>2, <1>3 DEF TypeOK, Correct, payVars

LEMMA NextOrderTypes ==
  ASSUME TypeOK, NEW o \in Orders, NextOrder(o)
  PROVE  TypeOK'
<1> USE DEF moneyVars, payVars
<1>1. CASE RecordRecovery(o)
  BY <1>1, RecordRecoveryTypes
<1>2. CASE ~RecordRecovery(o)
  <2>1. order' \in [Orders -> Order]
    BY <1>2, OrderTypes DEF NextOrder, RecoveryNeverRuns, TypeOK
  <2>2. /\ upsets' = upsets \/ upsets' = upsets + 1
        /\ recovering' = recovering \/ recovering' = recovering \cup {o}
           \/ recovering' = recovering \ {o}
        /\ missed' = missed \/ missed' = missed \cup {o}
    BY <1>2 DEF Upset, NextOrder, Fulfil, HoldOrder, ReleaseOrderHold, RefundOrder, RecoveryFails,
                RecoveryNeverRuns
  <2>3. UNCHANGED <<week, moneyVars, payVars>>
    BY <1>2 DEF NextOrder, Fulfil, HoldOrder, ReleaseOrderHold, RefundOrder, RecoveryFails,
                RecoveryNeverRuns
  <2> QED BY <2>1, <2>2, <2>3 DEF TypeOK
<1> QED BY <1>1, <1>2

LEMMA TypesNext ==
  ASSUME TypeOK, [Next]_vars
  PROVE  TypeOK'
<1>1. CASE UNCHANGED vars
  BY <1>1 DEF vars, moneyVars, payVars, TypeOK
<1>2. CASE PassCutoff
  BY <1>2 DEF PassCutoff, moneyVars, payVars, TypeOK
<1> QED BY <1>1, <1>2, PrepareWeekTypes, NextOrderTypes, CorrectTypes, PayoutTypes DEF Next

LEMMA TypesInit ==
  ASSUME Init
  PROVE  TypeOK
<1>1. NewOrder \in Order
  BY DEF NewOrder, Order, Row
<1>2. NoPayout \in Payout
  BY DEF NoPayout, Payout
<1>3. NoTransfer \in [amount : Int, orders : SUBSET Orders]
  BY DEF NoTransfer
<1> QED BY <1>1, <1>2, <1>3 DEF Init, TypeOK

-----------------------------------------------------------------------------
(* What a paid payout was paid.                                            *)

\* A refund to be recovered is more than zero, and so is a recovery that exists.
RecoveryOK ==
  /\ \A o \in recovering : order[o].refunded > 0
  /\ \A i \in DOMAIN recoveries : recovery[recoveries[i]].amount > 0
  /\ \A o \in Orders : recovery[o].applied # None => recovery[o].amount > 0

\* From the checks on, the record says what its rows add up to; from the call of the
\* processor on, so does the transfer.
StatedInv(p) ==
  /\ pay[p] # "no" \/ payout[p].status = "paid" => payout[p].amount = Statement(p)
  /\ pay[p] = "sent" \/ payout[p].status = "paid" => transfer[p].amount = Statement(p)

Stated == TypeOK /\ RecoveryOK /\ \A p \in Payouts : StatedInv(p)

\* A statement stays while its lines, its recoveries with their amounts and its
\* corrections do.
LEMMA SameStatement ==
  ASSUME NEW p \in Payouts,
         \A o \in Orders : (line'[o] = p) <=> (line[o] = p),
         \A o \in Orders : (recovery'[o].applied = p) <=> (recovery[o].applied = p),
         \A o \in RecoveriesOf(p) : recovery'[o].amount = recovery[o].amount,
         \A c \in Corrections : (correction'[c].applied = p) <=> (correction[c].applied = p)
  PROVE  Statement(p)' = Statement(p)
<1>1. /\ LinesOf(p)' = LinesOf(p) /\ RecoveriesOf(p)' = RecoveriesOf(p)
      /\ CorrectionsOf(p)' = CorrectionsOf(p)
  BY DEF LinesOf, RecoveriesOf, CorrectionsOf
<1>2. LineSum(LinesOf(p))' = LineSum(LinesOf(p))
  BY <1>1 DEF LineSum
<1>3. RecoverySum(RecoveriesOf(p))' = RecoverySum(RecoveriesOf(p))
  <2>1. [o \in RecoveriesOf(p) |-> recovery[o].amount]' = [o \in RecoveriesOf(p) |-> recovery[o].amount]
    BY <1>1
  <2> QED BY <1>1, <2>1 DEF RecoverySum
<1>4. CorrectionSum(CorrectionsOf(p))' = CorrectionSum(CorrectionsOf(p))
  BY <1>1 DEF CorrectionSum
<1> QED BY <1>2, <1>3, <1>4 DEF Statement

\* What the rows of payout p add up to, its record and its payment stay.
Untouched(p) ==
  /\ Statement(p)' = Statement(p)
  /\ payout'[p].amount = payout[p].amount
  /\ payout'[p].status = "paid" => payout[p].status = "paid"
  /\ pay'[p] \in {"no", pay[p]}
  /\ transfer'[p] = transfer[p]

LEMMA UntouchedStated ==
  ASSUME NEW p \in Payouts, StatedInv(p), Untouched(p)
  PROVE  StatedInv(p)'
BY DEF StatedInv, Untouched

LEMMA MoneyAlone ==
  ASSUME Stated, UNCHANGED <<payout, line, recovery, payVars>>,
         \A c \in Corrections : correction'[c].applied = correction[c].applied
  PROVE  \A p \in Payouts : StatedInv(p)'
<1>1. ASSUME NEW p \in Payouts
      PROVE  Untouched(p)
  <2>1. Statement(p)' = Statement(p)
    BY SameStatement
  <2> QED BY <2>1 DEF Untouched, payVars
<1> QED BY <1>1, UntouchedStated DEF Stated

\* The orders' steps but the recovery step: refunds are recorded, nothing else.
LEMMA RefundsRecorded ==
  ASSUME Stated, NEW o \in Orders,
         Fulfil(o) \/ HoldOrder(o) \/ ReleaseOrderHold(o) \/ RefundOrder(o)
           \/ RecoveryFails(o) \/ RecoveryNeverRuns(o)
  PROVE  /\ UNCHANGED <<moneyVars, payVars>>
         /\ \A q \in recovering' : order'[q].refunded > 0
<1>1. UNCHANGED <<moneyVars, payVars>>
  BY DEF Fulfil, HoldOrder, ReleaseOrderHold, RefundOrder, RecoveryFails, RecoveryNeverRuns
<1>2. order \in [Orders -> Row] /\ recovering \subseteq Orders
  BY DEF Stated, TypeOK, Order
<1>3. \A q \in recovering : order[q].refunded > 0
  BY DEF Stated, RecoveryOK
<1>4. CASE RefundOrder(o)
  <2>1. recovering' = recovering \cup {o}
    BY <1>4 DEF RefundOrder
  <2>2. \A q \in Orders : q # o => order'[q] = order[q]
    BY <1>2, <1>4 DEF RefundOrder, SetOrder
  <2>3. order'[o].refunded > 0
    <3>1. ASSUME NEW amount \in Partials,
                 SetOrder(o, [order[o] EXCEPT !.refunded = amount, !.review = TRUE])
          PROVE  order'[o].refunded > 0
      <4>1. order'[o].refunded = amount
        BY <1>2, <3>1 DEF SetOrder, Row
      <4> QED BY <4>1, MoneyAssumption
    <3>2. ASSUME SetOrder(o, [order[o] EXCEPT !.refunded = Total[o], !.paid = FALSE,
                                              !.payout_eligible = FALSE, !.eligible_week = 0])
          PROVE  order'[o].refunded > 0
      <4>1. order'[o].refunded = Total[o]
        BY <1>2, <3>2 DEF SetOrder, Row
      <4> QED BY <4>1, MoneyAssumption
    <3> QED BY <1>4, <3>1, <3>2 DEF RefundOrder
  <2> QED BY <1>1, <1>2, <1>3, <2>1, <2>2, <2>3
<1>5. CASE ~RefundOrder(o)
  <2>1. recovering' \subseteq recovering
    BY <1>5 DEF Fulfil, HoldOrder, ReleaseOrderHold, RecoveryFails, RecoveryNeverRuns
  <2>2. order'[o].refunded = order[o].refunded /\ \A q \in Orders : q # o => order'[q] = order[q]
    <3>1. CASE RecoveryNeverRuns(o)
      BY <3>1 DEF RecoveryNeverRuns
    <3>2. ASSUME NEW r, r.refunded = order[o].refunded, SetOrder(o, r)
          PROVE  order'[o].refunded = order[o].refunded
                 /\ \A q \in Orders : q # o => order'[q] = order[q]
      BY <1>2, <3>2 DEF SetOrder
    <3>3. CASE Fulfil(o)
      <4> DEFINE r == IF order[o].payout_hold THEN [order[o] EXCEPT !.fulfilled = TRUE]
                      ELSE [order[o] EXCEPT !.fulfilled = TRUE, !.payout_eligible = TRUE,
                                            !.eligible_week = week + 1]
      <4>1. r.refunded = order[o].refunded
        BY <1>2 DEF Row
      <4>2. SetOrder(o, r)
        BY <3>3 DEF Fulfil
      <4> HIDE DEF r
      <4> QED BY <3>2, <4>1, <4>2
    <3>4. CASE HoldOrder(o)
      <4>1. PICK review \in {order[o].review, TRUE} :
              SetOrder(o, [order[o] EXCEPT !.payout_hold = TRUE, !.review = review,
                                           !.payout_eligible = FALSE, !.eligible_week = 0])
        BY <3>4 DEF HoldOrder
      <4> DEFINE r == [order[o] EXCEPT !.payout_hold = TRUE, !.review = review,
                                       !.payout_eligible = FALSE, !.eligible_week = 0]
      <4>2. r.refunded = order[o].refunded
        BY <1>2 DEF Row
      <4>3. SetOrder(o, r)
        BY <4>1
      <4> HIDE DEF r
      <4> QED BY <3>2, <4>2, <4>3
    <3>5. CASE ReleaseOrderHold(o)
      <4> DEFINE r == [order[o] EXCEPT !.payout_hold = FALSE]
      <4>1. r.refunded = order[o].refunded
        BY <1>2 DEF Row
      <4>2. SetOrder(o, r)
        BY <3>5 DEF ReleaseOrderHold
      <4> HIDE DEF r
      <4> QED BY <3>2, <4>1, <4>2
    <3>6. CASE RecoveryFails(o)
      <4> DEFINE r == [order[o] EXCEPT !.review = TRUE]
      <4>1. r.refunded = order[o].refunded
        BY <1>2 DEF Row
      <4>2. SetOrder(o, r)
        BY <3>6 DEF RecoveryFails
      <4> HIDE DEF r
      <4> QED BY <3>2, <4>1, <4>2
    <3> QED BY <1>5, <3>1, <3>3, <3>4, <3>5, <3>6
  <2> QED BY <1>1, <1>2, <1>3, <2>1, <2>2
<1> QED BY <1>4, <1>5

\* recordRecovery writes a row that no payout has taken yet, for more than zero.
LEMMA RecordRecoveryStated ==
  ASSUME Stated, NEW o \in Orders, RecordRecovery(o)
  PROVE  RecoveryOK' /\ \A p \in Payouts : StatedInv(p)'
<1> USE DEF payVars
<1>1. /\ order \in [Orders -> Row] /\ order[o] \in Row /\ recovering \subseteq Orders
      /\ recovery \in [Orders -> [amount : Nat, applied : Payouts \cup {None}]]
      /\ recoveries \in Seq(Orders)
  BY DEF Stated, TypeOK, Order
<1>2. o \in recovering /\ recovering' = recovering \ {o}
  BY DEF RecordRecovery
<1>3. SellersShare(o) \in Nat /\ SellersShare(o) > 0
  BY <1>1, <1>2, MoneyAssumption DEF Stated, RecoveryOK, SellersShare, Least, Row
<1>4. \A q \in recovering' : order'[q].refunded > 0
  <2>1. \A q \in Orders : q # o => order'[q] = order[q]
    BY <1>1 DEF RecordRecovery, Raised, SetOrder
  <2> QED BY <1>1, <1>2, <2>1 DEF Stated, RecoveryOK
<1>5. CASE recovery' = recovery /\ recoveries' = recoveries
  <2>1. RecoveryOK'
    BY <1>4, <1>5 DEF Stated, RecoveryOK
  <2>2. \A p \in Payouts : StatedInv(p)'
    BY <1>5, MoneyAlone DEF RecordRecovery
  <2> QED BY <2>1, <2>2
<1>6. ASSUME NEW n \in Nat, n > 0, recovery' = [recovery EXCEPT ![o].amount = n],
             recovery[o].applied = None, recoveries' \in {recoveries, Append(recoveries, o)}
      PROVE  RecoveryOK' /\ \A p \in Payouts : StatedInv(p)'
  <2>1. /\ recovery'[o].amount = n /\ recovery'[o].applied = None
        /\ \A q \in Orders : q # o => recovery'[q] = recovery[q]
    BY <1>1, <1>6
  <2>2. \A i \in DOMAIN recoveries' :
          recoveries'[i] = o \/ (i \in DOMAIN recoveries /\ recoveries'[i] = recoveries[i])
    <3>1. CASE recoveries' = recoveries
      BY <3>1
    <3>2. CASE recoveries' = Append(recoveries, o)
      <4>1. DOMAIN recoveries = 1 .. Len(recoveries) /\ Len(recoveries) \in Nat
        BY <1>1
      <4>2. /\ DOMAIN recoveries' = 1 .. Len(recoveries) + 1
            /\ recoveries'[Len(recoveries) + 1] = o
            /\ \A i \in 1 .. Len(recoveries) : recoveries'[i] = recoveries[i]
        BY <1>1, <3>2
      <4> QED BY <4>1, <4>2
    <3> QED BY <1>6, <3>1, <3>2
  <2>3. RecoveryOK'
    <3>1. \A i \in DOMAIN recoveries' : recovery'[recoveries'[i]].amount > 0
      <4>1. \A i \in DOMAIN recoveries : recoveries[i] \in Orders /\ recovery[recoveries[i]].amount > 0
        BY <1>1 DEF Stated, RecoveryOK
      <4> QED BY <1>6, <2>1, <2>2, <4>1
    <3>2. \A q \in Orders : recovery'[q].applied # None => recovery'[q].amount > 0
      BY <2>1 DEF Stated, RecoveryOK
    <3> QED BY <1>4, <3>1, <3>2 DEF RecoveryOK
  <2>4. ASSUME NEW p \in Payouts
        PROVE  StatedInv(p)'
    <3>1. /\ \A q \in Orders : (recovery'[q].applied = p) <=> (recovery[q].applied = p)
          /\ \A q \in RecoveriesOf(p) : recovery'[q].amount = recovery[q].amount
      BY <1>6, <2>1, NoneIsNoPayout DEF RecoveriesOf
    <3>2. UNCHANGED <<payout, line, correction, pay, transfer>>
      BY DEF RecordRecovery
    <3>3. Statement(p)' = Statement(p)
      BY <3>1, <3>2, SameStatement
    <3>4. Untouched(p)
      BY <3>2, <3>3 DEF Untouched
    <3> QED BY <3>4, UntouchedStated DEF Stated
  <2> QED BY <2>3, <2>4
<1>7. CASE PaidOut(o) /\ recovery[o].amount = 0
  <2>1. recovery[o].applied = None
    BY <1>1, <1>7 DEF Stated, RecoveryOK
  <2>2. /\ recovery' = [recovery EXCEPT ![o].amount = SellersShare(o)]
        /\ recoveries' = Append(recoveries, o)
    BY <1>7 DEF RecordRecovery
  <2> QED BY <1>3, <1>6, <2>1, <2>2
<1>8. CASE PaidOut(o) /\ recovery[o].amount # 0 /\ recovery[o].applied = None
  <2> DEFINE n == IF recovery[o].amount < SellersShare(o) THEN SellersShare(o)
                  ELSE recovery[o].amount
  <2>1. n \in Nat /\ n > 0
    BY <1>1, <1>3, <1>8
  <2>2. recovery' = [recovery EXCEPT ![o].amount = n] /\ recoveries' = recoveries
    BY <1>8 DEF RecordRecovery, Raised
  <2> HIDE DEF n
  <2> QED BY <1>6, <1>8, <2>1, <2>2
<1>9. CASE ~PaidOut(o) \/ (recovery[o].amount # 0 /\ recovery[o].applied # None)
  BY <1>5, <1>9 DEF RecordRecovery, Raised
<1> QED BY <1>7, <1>8, <1>9

\* A payout other than the one a step rewrites keeps its rows.
LEMMA OthersStated ==
  ASSUME Stated, NEW p \in Payouts, NEW q \in Payouts, q # p,
         \A o \in Orders : line'[o] # line[o] => {line[o], line'[o]} = {None, p},
         \A o \in Orders : /\ recovery'[o].amount = recovery[o].amount
                           /\ recovery'[o].applied # recovery[o].applied =>
                                {recovery[o].applied, recovery'[o].applied} = {None, p},
         \A c \in Corrections : correction'[c].applied # correction[c].applied =>
                                  {correction[c].applied, correction'[c].applied} = {None, p},
         payout'[q] = payout[q], UNCHANGED <<pay, transfer>>
  PROVE  StatedInv(q)'
<1>1. q # None
  BY NoneIsNoPayout
<1>2. Statement(q)' = Statement(q)
  <2>1. \A o \in Orders : (line'[o] = q) <=> (line[o] = q)
    BY <1>1
  <2>2. \A o \in Orders : (recovery'[o].applied = q) <=> (recovery[o].applied = q)
    BY <1>1
  <2>3. \A c \in Corrections : (correction'[c].applied = q) <=> (correction[c].applied = q)
    BY <1>1
  <2>4. \A o \in RecoveriesOf(q) : recovery'[o].amount = recovery[o].amount
    BY DEF RecoveriesOf
  <2> QED BY <2>1, <2>2, <2>3, <2>4, SameStatement
<1>3. Untouched(q)
  BY <1>2 DEF Untouched
<1> QED BY <1>3, UntouchedStated DEF Stated

LEMMA PrepareWeekStated ==
  ASSUME Stated, PrepareWeek
  PROVE  RecoveryOK' /\ \A p \in Payouts : StatedInv(p)'
<1> USE DEF payVars
<1>1. PICK p \in Slot :
        /\ Unlocked(p)
        /\ payout' = [payout EXCEPT ![p] = Prepared(p).row]
        /\ line' = [o \in Orders |-> IF o \in Prepared(p).orders THEN p ELSE line[o]]
        /\ recovery' = [o \in Orders |->
             IF o \in Prepared(p).recoveries THEN [recovery[o] EXCEPT !.applied = p]
             ELSE recovery[o]]
        /\ correction' = [c \in Corrections |->
             IF c \in Prepared(p).corrections THEN [correction[c] EXCEPT !.applied = p]
             ELSE correction[c]]
  BY DEF PrepareWeek
<1>2. /\ p \in Payouts /\ pay[p] = "no" /\ payout[p].status # "paid"
      /\ Prepared(p).row.status # "paid"
  BY <1>1, SlotIs, PreparedIs DEF Unlocked
<1>3. /\ recovery \in [Orders -> [amount : Nat, applied : Payouts \cup {None}]]
      /\ correction \in [Corrections -> [made : Nat, applied : Payouts \cup {None}]]
      /\ recoveries \in Seq(Orders) /\ corrections \in Seq(Corrections)
      /\ payout \in [Payouts -> Payout]
  BY DEF Stated, TypeOK
<1>4. /\ Prepared(p).recoveries \subseteq {o \in Orders : recovery[o].applied = None}
      /\ Prepared(p).recoveries \subseteq {recoveries[i] : i \in DOMAIN recoveries}
      /\ Prepared(p).corrections \subseteq {c \in Corrections : correction[c].applied = None}
  BY <1>2, <1>3, TakenIs
<1>5. ASSUME NEW o \in Orders
      PROVE  line'[o] # line[o] => {line[o], line'[o]} = {None, p}
  BY <1>1, <1>2, PreparedIs DEF Due
<1>6. ASSUME NEW o \in Orders
      PROVE  /\ recovery'[o].amount = recovery[o].amount
             /\ recovery'[o].applied # recovery[o].applied =>
                  {recovery[o].applied, recovery'[o].applied} = {None, p} /\ recovery[o].amount > 0
  <2>1. CASE o \in Prepared(p).recoveries
    <3>1. recovery'[o] = [recovery[o] EXCEPT !.applied = p]
      BY <1>1, <2>1
    <3>2. recovery'[o].amount = recovery[o].amount /\ recovery'[o].applied = p
      BY <1>3, <3>1
    <3>3. recovery[o].applied = None /\ recovery[o].amount > 0
      BY <1>4, <2>1 DEF Stated, RecoveryOK
    <3> QED BY <3>2, <3>3
  <2>2. CASE o \notin Prepared(p).recoveries
    BY <1>1, <2>2
  <2> QED BY <2>1, <2>2
<1>7. ASSUME NEW c \in Corrections
      PROVE  correction'[c].applied # correction[c].applied =>
               {correction[c].applied, correction'[c].applied} = {None, p}
  <2>1. CASE c \in Prepared(p).corrections
    <3>1. correction'[c] = [correction[c] EXCEPT !.applied = p]
      BY <1>1, <2>1
    <3>2. correction'[c].applied = p
      BY <1>3, <3>1
    <3> QED BY <1>4, <2>1, <3>2
  <2>2. CASE c \notin Prepared(p).corrections
    BY <1>1, <2>2
  <2> QED BY <2>1, <2>2
<1>8. RecoveryOK'
  <2>1. \A i \in DOMAIN recoveries : recoveries[i] \in Orders
    BY <1>3
  <2>2. \A o \in Orders : recovery'[o].applied # None => recovery'[o].amount > 0
    BY <1>6 DEF Stated, RecoveryOK
  <2> QED BY <1>6, <2>1, <2>2 DEF Stated, RecoveryOK, PrepareWeek
<1>9. ASSUME NEW q \in Payouts
      PROVE  StatedInv(q)'
  <2>1. CASE q = p
    <3>1. pay'[q] = "no" /\ payout'[q].status # "paid"
      BY <1>1, <1>2, <1>3, <2>1 DEF PrepareWeek
    <3> QED BY <3>1 DEF StatedInv
  <2>2. CASE q # p
    <3>1. payout'[q] = payout[q] /\ UNCHANGED <<pay, transfer>>
      BY <1>1, <1>2, <1>3, <2>2 DEF PrepareWeek
    <3> QED BY <1>2, <1>5, <1>6, <1>7, <2>2, <3>1, OthersStated
  <2> QED BY <2>1, <2>2
<1> QED BY <1>8, <1>9

LEMMA VoidPayoutStated ==
  ASSUME Stated, NEW p \in Payouts, VoidPayout(p)
  PROVE  RecoveryOK' /\ \A q \in Payouts : StatedInv(q)'
<1> USE DEF payVars
<1>1. /\ recovery \in [Orders -> [amount : Nat, applied : Payouts \cup {None}]]
      /\ correction \in [Corrections -> [made : Nat, applied : Payouts \cup {None}]]
      /\ recoveries \in Seq(Orders) /\ payout \in [Payouts -> Payout] /\ payout[p] \in Payout
  BY DEF Stated, TypeOK
<1>2. ASSUME NEW o \in Orders
      PROVE  line'[o] # line[o] => {line[o], line'[o]} = {None, p}
  BY DEF VoidPayout
<1>3. ASSUME NEW o \in Orders
      PROVE  /\ recovery'[o].amount = recovery[o].amount
             /\ recovery'[o].applied # recovery[o].applied =>
                  {recovery[o].applied, recovery'[o].applied} = {None, p}
             /\ recovery'[o].applied # None => recovery'[o].applied = recovery[o].applied
  <2>1. CASE recovery[o].applied = p
    <3>1. recovery'[o] = [recovery[o] EXCEPT !.applied = None]
      BY <2>1 DEF VoidPayout
    <3>2. recovery'[o].amount = recovery[o].amount /\ recovery'[o].applied = None
      BY <1>1, <3>1
    <3> QED BY <2>1, <3>2
  <2>2. CASE recovery[o].applied # p
    BY <2>2 DEF VoidPayout
  <2> QED BY <2>1, <2>2
<1>4. ASSUME NEW c \in Corrections
      PROVE  correction'[c].applied # correction[c].applied =>
               {correction[c].applied, correction'[c].applied} = {None, p}
  <2>1. CASE correction[c].applied = p
    <3>1. correction'[c] = [correction[c] EXCEPT !.applied = None]
      BY <2>1 DEF VoidPayout
    <3>2. correction'[c].applied = None
      BY <1>1, <3>1
    <3> QED BY <2>1, <3>2
  <2>2. CASE correction[c].applied # p
    BY <2>2 DEF VoidPayout
  <2> QED BY <2>1, <2>2
<1>5. RecoveryOK'
  <2>1. \A i \in DOMAIN recoveries : recoveries[i] \in Orders
    BY <1>1
  <2>2. \A o \in Orders : recovery'[o].applied # None => recovery'[o].amount > 0
    BY <1>3 DEF Stated, RecoveryOK
  <2> QED BY <1>3, <2>1, <2>2 DEF Stated, RecoveryOK, VoidPayout
<1>6. /\ payout'[p].status = "void" /\ pay[p] = "no" /\ UNCHANGED <<pay, transfer>>
      /\ \A q \in Payouts : q # p => payout'[q] = payout[q]
  <2> DEFINE r == [payout[p] EXCEPT !.status = "void"]
  <2>1. r.status = "void"
    BY <1>1 DEF Payout
  <2>2. payout' = [payout EXCEPT ![p] = r]
    BY DEF VoidPayout
  <2> HIDE DEF r
  <2> QED BY <1>1, <2>1, <2>2 DEF VoidPayout, Unlocked
<1>7. ASSUME NEW q \in Payouts
      PROVE  StatedInv(q)'
  <2>1. CASE q = p
    BY <1>6, <2>1 DEF StatedInv
  <2>2. CASE q # p
    <3>1. payout'[q] = payout[q]
      BY <1>6, <2>2
    <3> QED BY <1>2, <1>3, <1>4, <1>6, <2>2, <3>1, OthersStated
  <2> QED BY <2>1, <2>2
<1> QED BY <1>5, <1>7

\* The payments: the checks compare the record with its rows, the transfer is for
\* what they add up to, and the row lock keeps both.
LEMMA PayoutStated ==
  ASSUME Stated, NEW p \in Payouts, SetPayoutHold(p) \/ PayChecks(p) \/ FinishPay(p)
  PROVE  \A q \in Payouts : StatedInv(q)'
<1> USE DEF payVars, moneyVars
<1>1. /\ payout \in [Payouts -> Payout] /\ pay \in [Payouts -> {"no", "checked", "sent"}]
      /\ transfer \in [Payouts -> [amount : Int, orders : SUBSET Orders]]
  BY DEF Stated, TypeOK
<1>2. UNCHANGED <<line, recovery, correction>>
  BY DEF SetPayoutHold, PayChecks, FinishPay, SendTransfer, TransferRefused, CommitPayment,
         CommitLost
<1>3. \A q \in Payouts : Statement(q)' = Statement(q)
  BY <1>2, SameStatement
<1>4. ASSUME NEW s \in Stages, payout' = [payout EXCEPT ![p].status = s]
      PROVE  /\ payout'[p].status = s /\ payout'[p].amount = payout[p].amount
             /\ \A q \in Payouts : q # p => payout'[q] = payout[q]
  <2> DEFINE r == [payout[p] EXCEPT !.status = s]
  <2>1. r.status = s /\ r.amount = payout[p].amount
    BY <1>1 DEF Payout
  <2>2. payout' = [payout EXCEPT ![p] = r]
    BY <1>4
  <2> HIDE DEF r
  <2> QED BY <1>1, <2>1, <2>2
<1>5. ASSUME NEW q \in Payouts, q # p
      PROVE  StatedInv(q)'
  <2>1. payout'[q] = payout[q] /\ pay'[q] = pay[q] /\ transfer'[q] = transfer[q]
    BY <1>1, <1>4, <1>5 DEF SetPayoutHold, PayChecks, FinishPay, SendTransfer, TransferRefused,
       CommitPayment, CommitLost, Stages
  <2>2. Untouched(q)
    BY <1>3, <2>1 DEF Untouched
  <2> QED BY <2>2, UntouchedStated DEF Stated
<1>6. StatedInv(p) /\ Statement(p)' = Statement(p)
  BY <1>3 DEF Stated
<1>7. CASE SetPayoutHold(p)
  <2>1. payout'[p].status # "paid" /\ pay'[p] = "no"
    BY <1>4, <1>7 DEF SetPayoutHold, Unlocked, Stages
  <2>2. StatedInv(p)'
    BY <2>1 DEF StatedInv
  <2> QED BY <1>5, <2>2
<1>8. CASE PayChecks(p)
  <2>1. /\ pay'[p] = "checked" /\ payout' = payout /\ payout[p].status = "pending_review"
        /\ payout[p].amount = Statement(p)
    BY <1>1, <1>8 DEF PayChecks, Matches
  <2>2. StatedInv(p)'
    BY <1>6, <2>1 DEF StatedInv
  <2> QED BY <1>5, <2>2
<1>9. CASE SendTransfer(p)
  <2>1. /\ pay[p] = "checked" /\ pay'[p] = "sent" /\ payout' = payout
        /\ transfer'[p].amount = Statement(p)
    BY <1>1, <1>9 DEF SendTransfer
  <2>2. StatedInv(p)'
    BY <1>6, <2>1 DEF StatedInv
  <2> QED BY <1>5, <2>2
<1>10. CASE TransferRefused(p) \/ CommitLost(p)
  <2>1. pay'[p] = "no" /\ payout' = payout /\ transfer' = transfer
    BY <1>1, <1>10 DEF TransferRefused, CommitLost
  <2>2. StatedInv(p)'
    BY <1>6, <2>1 DEF StatedInv
  <2> QED BY <1>5, <2>2
<1>11. CASE CommitPayment(p)
  <2>1. /\ pay[p] = "sent" /\ transfer' = transfer
        /\ payout' = [payout EXCEPT ![p].status = "paid"]
    BY <1>11 DEF CommitPayment
  <2>2. StatedInv(p)'
    BY <1>4, <1>6, <2>1 DEF StatedInv, Stages
  <2> QED BY <1>5, <2>2
<1> QED BY <1>7, <1>8, <1>9, <1>10, <1>11 DEF FinishPay

LEMMA StatedInductive ==
  ASSUME Stated, [Next]_vars
  PROVE  Stated'
<1> USE DEF moneyVars, payVars
<1>1. TypeOK'
  BY TypesNext DEF Stated
<1>2. CASE UNCHANGED vars \/ PassCutoff
  <2>1. UNCHANGED <<order, moneyVars, payVars, recovering>>
    BY <1>2 DEF vars, PassCutoff
  <2> QED BY <1>1, <2>1, MoneyAlone DEF Stated, RecoveryOK
<1>3. ASSUME NEW o \in Orders, NextOrder(o)
      PROVE  Stated'
  <2>1. CASE RecordRecovery(o)
    BY <1>1, <2>1, RecordRecoveryStated DEF Stated
  <2>2. CASE ~RecordRecovery(o)
    <3>1. UNCHANGED <<moneyVars, payVars>> /\ \A q \in recovering' : order'[q].refunded > 0
      BY <1>3, <2>2, RefundsRecorded DEF NextOrder
    <3> QED BY <1>1, <3>1, MoneyAlone DEF Stated, RecoveryOK
  <2> QED BY <2>1, <2>2
<1>4. ASSUME NEW c \in Corrections, Correct(c)
      PROVE  Stated'
  <2>1. \A d \in Corrections : correction'[d].applied = correction[d].applied
    <3>1. correction \in [Corrections -> [made : Nat, applied : Payouts \cup {None}]]
      BY DEF Stated, TypeOK
    <3> QED BY <1>4, <3>1 DEF Correct
  <2>2. \A p \in Payouts : StatedInv(p)'
    BY <1>4, <2>1, MoneyAlone DEF Correct
  <2>3. RecoveryOK'
    BY <1>4 DEF Correct, Stated, RecoveryOK
  <2> QED BY <1>1, <2>2, <2>3 DEF Stated
<1>5. ASSUME NEW p \in Payouts, NextPayout(p)
      PROVE  Stated'
  <2>1. CASE VoidPayout(p)
    BY <1>1, <2>1, VoidPayoutStated DEF Stated
  <2>2. CASE ~VoidPayout(p)
    <3>1. \A q \in Payouts : StatedInv(q)'
      BY <1>5, <2>2, PayoutStated DEF NextPayout
    <3>2. /\ UNCHANGED <<recovery, recoveries, recovering>>
          /\ \A o \in Orders : order'[o].refunded = order[o].refunded
      <4>1. CASE CommitPayment(p)
        <5>1. \A o \in Orders : order[o] \in Row
          BY DEF Stated, TypeOK, Order
        <5>2. \A o \in Orders : [order[o] EXCEPT !.settled = TRUE].refunded = order[o].refunded
          BY <5>1 DEF Row
        <5> QED BY <4>1, <5>2 DEF CommitPayment
      <4>2. CASE ~CommitPayment(p)
        BY <1>5, <2>2, <4>2 DEF NextPayout, SetPayoutHold, PayChecks, FinishPay, SendTransfer,
           TransferRefused, CommitLost
      <4> QED BY <4>1, <4>2 DEF CommitPayment
    <3>3. recovering \subseteq Orders
      BY DEF Stated, TypeOK
    <3> QED BY <1>1, <3>1, <3>2, <3>3 DEF Stated, RecoveryOK
  <2> QED BY <2>1, <2>2
<1> QED BY <1>1, <1>2, <1>3, <1>4, <1>5, PrepareWeekStated DEF Next, Stated

LEMMA StatedHolds == Spec => []Stated
<1>1. Init => Stated
  <2> SUFFICES ASSUME Init
               PROVE  Stated
    OBVIOUS
  <2>1. RecoveryOK
    BY DEF Init, RecoveryOK
  <2>2. \A p \in Payouts : StatedInv(p)
    BY DEF Init, StatedInv, NoPayout
  <2> QED BY <2>1, <2>2, TypesInit DEF Stated
<1>2. Stated /\ [Next]_vars => Stated'
  BY StatedInductive
<1> QED BY <1>1, <1>2, PTL DEF Spec

-----------------------------------------------------------------------------
(* The theorems.                                                           *)

\* Every row of every table keeps its shape: no payout falls below zero (the CHECK of
\* migration 213), and no order is eligible that is unpaid, unfulfilled or held (the
\* guard of migration 197), whatever is prepared, corrected, voided and refunded.
THEOREM PayoutTypesAreRight == Spec => []TypeOK
<1>1. Init => TypeOK
  BY TypesInit
<1>2. TypeOK /\ [Next]_vars => TypeOK'
  BY TypesNext
<1> QED BY <1>1, <1>2, PTL DEF Spec

\* No order of preparing, holding, voiding, refunding and paying transfers money for
\* an order twice, unless a payment whose COMMIT was lost was voided (payPayout,
\* voidPayout, prepareWeek).
THEOREM PaidOnceUnlessCommitLost == Spec => []PaidTwiceOnlyAfterLostCommit
<1>1. PayInv => PaidTwiceOnlyAfterLostCommit
  <2> SUFFICES ASSUME PayInv, NEW o \in Orders, NEW p \in Payouts, NEW q \in Payouts, p # q,
                      o \in transfer[p].orders, o \in transfer[q].orders
               PROVE  \E r \in {p, q} : r \in unsure /\ payout[r].status = "void"
    BY DEF PaidTwiceOnlyAfterLostCommit, PaidFor
  <2> QED BY DEF PayInv, PayoutInv
<1> QED BY <1>1, PayHolds, PTL

\* A refund of an order the seller was paid for is to be recovered, or an administrator
\* is told, whatever is prepared, voided and paid meanwhile; except when the recovery
\* step never ran or ran during the payment (recordRecovery, prepareWeek, voidPayout).
THEOREM RefundsAreRecovered == Spec => []RefundAfterPayoutIsRecovered
<1>1. PayInv => RefundAfterPayoutIsRecovered
  BY DEF PayInv, OrderInv, Recovered, RefundAfterPayoutIsRecovered
<1> QED BY <1>1, PayHolds, PTL

\* What a paid payout transferred was for exactly the orders it lists.
PaidForItsOrders ==
  \A p \in Payouts : payout[p].status = "paid" => transfer[p].orders = LinesOf(p)

\* The orders of a paid payout are those the processor was told of, for ever after
\* (payPayout keeps the row locked; prepareWeek and voidPayout leave a paid one alone).
THEOREM PaidPayoutKeepsItsOrders == Spec => []PaidForItsOrders
<1>1. PayInv => PaidForItsOrders
  BY DEF PayInv, PayoutInv, PaidForItsOrders
<1> QED BY <1>1, PayHolds, PTL

\* What a paid payout transferred is what its lines, recoveries and corrections still
\* add up to, for the orders it lists, and what its record says: none of them changes
\* under the row lock or after the COMMIT (payPayout, prepareWeek, recordRecovery).
THEOREM PaidPayoutIsAsStated == Spec => []PaidAsStated
<1>1. PayInv /\ Stated => PaidAsStated
  BY DEF PayInv, PayoutInv, Stated, StatedInv, PaidAsStated
<1> QED BY <1>1, PayHolds, StatedHolds, PTL
=============================================================================
