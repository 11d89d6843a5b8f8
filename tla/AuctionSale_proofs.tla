------------------------- MODULE AuctionSale_proofs -------------------------
(***************************************************************************)
(* More proofs about the auction floor, for any number of lots, bidders    *)
(* and bids: the price the floor shows, the notices to displaced leaders,  *)
(* and the closing of a sale nobody interferes with.                       *)
(*                                                                         *)
(* The price is the top bid only because no bid ever lowers it, and no bid *)
(* lowers it only because it never exceeds what it takes to beat the       *)
(* second bidder: PricesOK.  The closing of a sale is right because the    *)
(* auction's end covers every open lot and no lot changes hands between    *)
(* the lock the closing transaction takes and its commit: SaleInv.         *)
(***************************************************************************)
EXTENDS AuctionFloor_proofs, BidIncrement_proofs

-----------------------------------------------------------------------------
(* The price on the floor. *)

\* One lot: px are its proxy rows, rows its bid rows, row its lots row.
Beatable(px, row) ==
  Entered(px) \ {row.current_winner} # {} =>
    \E b \in Entered(px) \ {row.current_winner} :
      row.current_bid =< px[b].max + effectiveIncrement(px[b].max, row.increment)
ShowsTop(rows, row) ==
  /\ \A q \in rows : q.amount =< row.current_bid
  /\ IF rows = {} THEN row.current_bid = 0 ELSE \E q \in rows : q.amount = row.current_bid
PriceOK(px, rows, row) ==
  /\ row.starting_bid > 0
  /\ ShowsTop(rows, row)
  /\ Beatable(px, row)

PricesOK == edits = 0 => \A l \in Lots : PriceOK(proxy[l], bids[l], lot[l])

PriceInv == FloorInv /\ PricesOK

-----------------------------------------------------------------------------
(* A sale nobody interferes with. *)

\* Published lots have a closing time.
TimesOK == auction.state # "draft" => \A l \in Lots : lot[l].state = "open" => lot[l].closes_at >= 0

\* The closing transaction runs on a published auction only, and locks it while it is
\* still open for bids.
ClosingOK == /\ closer.phase # "idle" => auction.state # "draft"
             /\ closer.phase = "locking" => BiddingOpen

\* Once the scheduler finds the auction due, every open lot has run out.
DueOK == closer.phase # "idle" /\ closer.by = "scheduler" =>
           \A l \in Lots : lot[l].state = "open" => lot[l].closes_at =< now

\* Of the lots it has visited the closing transaction holds those that can sell.
VisitedOK == closer.held = { l \in closer.visited : Catalogued(l) }

\* A closed lot has a buyer exactly when its bids reach its reserve.
ReservesOK == \A l \in Lots : lot[l].state = "closed" =>
                (lot[l].winning_buyer # Nobody <=> Sells(bids[l], lot[l].reserve))

\* Nothing is paid out before every lot is closed.
PaidOutOK == payout # NoPayout \/ settling =>
               auction.state = "closed" /\ \A l \in Lots : lot[l].state # "open"

SaleInv == /\ FloorInv
           /\ TimesOK
           /\ EndCoversOpenLots
           /\ ClosingOK
           /\ DueOK
           /\ VisitedOK
           /\ ReservesOK
           /\ PaidOutOK
           /\ PayoutIsSumOfSales

-----------------------------------------------------------------------------
(* The increment ladder. *)

\* What it takes to beat a higher maximum is never less.
LEMMA BeatingIsMonotone ==
  ASSUME NEW a \in Nat, NEW b \in Nat, NEW override \in Nat, a =< b
  PROVE  a + effectiveIncrement(a, override) =< b + effectiveIncrement(b, override)
<1>1. CASE override > 0
  BY <1>1 DEF effectiveIncrement
<1>2. CASE ~(override > 0)
  BY <1>2, IncrementAt DEF effectiveIncrement, Stepped
<1> QED BY <1>1, <1>2

-----------------------------------------------------------------------------
(* A bid and the price. *)

\* A bid leaves the price right, never lowers it, and raises it when it takes the lead.
LEMMA BidKeepsPriceOK ==
  ASSUME NEW px, NEW rows, NEW row, NEW s, NEW m, NEW t, NEW w, NEW r,
         AcceptedBid(px, rows, row, s, m, t, w, r),
         PriceOK(px, rows, row),
         NEW npx, npx = BidOn(px, s, m, t),
         NEW price, price = VisiblePrice(row, npx, w, r),
         NEW next \in Lot, next.current_bid = price, next.current_winner = w,
         next.starting_bid = row.starting_bid, next.increment = row.increment
  PROVE  /\ PriceOK(npx, rows \cup {NewRow(w, price, t)}, next)
         /\ price >= row.current_bid
         /\ w # row.current_winner => price > row.current_bid
<1> USE DEF NewRow
<1>h. /\ px \in [People -> Proxy] /\ rows \in SUBSET BidRow /\ row \in Lot
      /\ s \in People /\ m \in Nat /\ t \in BidNumbers
      /\ FloorOK(px, rows, row.current_winner, row.current_bid)
      /\ m >= nextMinCents(row.starting_bid, row.current_bid, row.increment)
      /\ npx = [px EXCEPT ![s] = RaisedMax(@, m, t)]
      /\ w \in Foremost(npx, Entered(npx))
      /\ r \in SecondTo(npx, w)
  BY DEF AcceptedBid, BidOn
<1> DEFINE cw  == row.current_winner
           cur == row.current_bid
           inc == row.increment
           Beat(b) == npx[b].max + effectiveIncrement(npx[b].max, inc)
<1>1. /\ cur \in Nat /\ row.starting_bid \in Nat /\ inc \in Nat
      /\ \A b \in People : px[b] \in Proxy /\ px[b].max \in Nat /\ px[b].created \in Nat
      /\ \A q \in rows : q.amount \in Nat /\ q.bidder \in People
  BY <1>h DEF Lot, Proxy, BidRow
<1>2. m > cur /\ m >= row.starting_bid
  <2> DEFINE least == nextMinCents(row.starting_bid, row.current_bid, row.increment)
  <2>1. least \in Nat /\ least > row.current_bid /\ least >= row.starting_bid
    BY <1>1, MinimumAbovePrice
  <2>2. m >= least
    BY <1>h
  <2> HIDE DEF least
  <2> QED BY <2>1, <2>2, <1>1, <1>h
<1>3. /\ RaisedMax(px[s], m, t) \in Proxy
      /\ RaisedMax(px[s], m, t).max >= m
      /\ RaisedMax(px[s], m, t).max >= px[s].max
  BY <1>1, <1>h DEF RaisedMax, Proxy, BidNumbers
<1>4. /\ npx \in [People -> Proxy]
      /\ npx[s] = RaisedMax(px[s], m, t)
      /\ \A b \in People \ {s} : npx[b] = px[b]
  BY <1>3, <1>h
<1>5. \A b \in People : npx[b].max \in Nat /\ npx[b].max >= px[b].max
  BY <1>1, <1>3, <1>4 DEF Proxy
<1>6. w \in People /\ npx[w].max > 0 /\ \A b \in People : npx[b].max =< npx[w].max
  BY <1>4, <1>h, LeaderHasTheMaximum
<1>7. npx[w].max >= m
  BY <1>3, <1>4, <1>5, <1>6, <1>h
<1>8. npx[s].max >= m /\ s \in Entered(npx)
  <2>1. npx[s].max >= m /\ npx[s].max \in Nat
    BY <1>3, <1>4, <1>5, <1>h
  <2> QED BY <2>1, <1>1, <1>2, <1>h DEF Entered
<1>9. /\ price \in Nat
      /\ r # Nobody => /\ r \in Entered(npx) \ {w}
                       /\ \A b \in Entered(npx) \ {w} : npx[b].max =< npx[r].max
                       /\ price = IF Beat(r) < npx[w].max THEN Beat(r) ELSE npx[w].max
                       /\ Beat(r) \in Nat /\ Beat(r) > npx[r].max
      /\ r = Nobody => /\ Entered(npx) = {w}
                       /\ price = IF row.starting_bid > cur THEN row.starting_bid ELSE cur
  <2>1. row.starting_bid =< npx[w].max /\ row.current_bid =< npx[w].max
    BY <1>1, <1>2, <1>5, <1>6, <1>7, <1>h
  <2>2. /\ VisiblePrice(row, npx, w, r) \in Nat
        /\ r # Nobody => /\ r \in Entered(npx) \ {w}
                         /\ \A b \in Entered(npx) \ {w} : npx[b].max =< npx[r].max
    <3>1. /\ npx \in [People -> Proxy] /\ row \in Lot
          /\ w \in Foremost(npx, Entered(npx)) /\ r \in SecondTo(npx, w)
      BY <1>4, <1>h
    <3>2. r = Nobody => row.starting_bid =< npx[w].max /\ row.current_bid =< npx[w].max
      BY <2>1
    <3> QED BY ONLY <3>1, <3>2, PriceIsCapped
  <2>3. ASSUME r # Nobody PROVE Beat(r) \in Nat /\ Beat(r) > npx[r].max
    <3>1. r \in People
      BY <2>2, <2>3 DEF Entered
    <3>2. npx[r].max \in Nat
      BY <3>1, <1>5
    <3>3. effectiveIncrement(npx[r].max, inc) \in Nat /\ effectiveIncrement(npx[r].max, inc) > 0
      BY <3>2, <1>1, IncrementPositive
    <3> QED BY <3>2, <3>3
  <2>4. r = Nobody => Entered(npx) = {w}
    <3>1. Foremost(npx, Entered(npx) \ {w}) \subseteq People
      BY DEF Foremost, Entered
    <3> QED BY <3>1, <1>h, PeopleAssumption DEF SecondTo
  <2> QED BY <2>2, <2>3, <2>4 DEF VisiblePrice
<1> HIDE DEF Beat
<1>10. ShowsTop(rows, row) /\ row.starting_bid > 0 /\ Beatable(px, row)
  BY DEF PriceOK
<1>11. rows # {} => /\ cw \in People /\ cur =< px[cw].max /\ px[cw].max > 0
  <2> SUFFICES ASSUME rows # {} PROVE cw \in People /\ cur =< px[cw].max /\ px[cw].max > 0
    OBVIOUS
  <2>1. cw \in Foremost(px, Entered(px)) /\ LeaderTops(rows, cw) /\ Authorised(px, rows)
    BY <1>h DEF FloorOK, Leads
  <2>2. cw \in People /\ px[cw].max > 0
    BY <2>1, <1>h, LeaderHasTheMaximum
  <2>3. PICK q \in rows : q.amount = cur
    BY <1>10 DEF ShowsTop
  <2>4. q.bidder = cw
    <3>1. \A p \in rows : p.amount =< cur
      BY <1>10 DEF ShowsTop
    <3>2. \A p \in rows : ~(p.amount > q.amount)
      BY <3>1, <2>3, <1>1
    <3> QED BY <3>2, <2>1 DEF LeaderTops
  <2>5. cur =< px[cw].max
    BY <2>1, <2>3, <2>4 DEF Authorised
  <2> QED BY <2>2, <2>5
<1>12. price >= cur /\ (w # cw => price > cur)
  <2>1. CASE r = Nobody
    <3>1. price >= cur
      BY <2>1, <1>1, <1>9
    <3>2. ASSUME w # cw PROVE price > cur
      <4>1. rows = {}
        <5>1. SUFFICES ASSUME rows # {} PROVE FALSE
          OBVIOUS
        <5>2. cw \in Entered(npx)
          BY <5>1, <1>1, <1>5, <1>11 DEF Entered
        <5> QED BY <5>2, <3>2, <2>1, <1>9
      <4>2. cur = 0
        BY <4>1, <1>10 DEF ShowsTop
      <4> QED BY <4>2, <2>1, <1>1, <1>9, <1>10
    <3> QED BY <3>1, <3>2
  <2>2. CASE r # Nobody /\ w # cw
    <3>1. Beat(r) > cur
      <4>1. CASE rows = {}
        <5>1. cur = 0
          BY <4>1, <1>10 DEF ShowsTop
        <5>2. r \in People
          BY <2>2, <1>9 DEF Entered
        <5> QED BY <5>1, <5>2, <2>2, <1>5, <1>9
      <4>2. CASE rows # {}
        <5>1. cw \in Entered(npx) \ {w}
          BY <4>2, <2>2, <1>1, <1>5, <1>11 DEF Entered
        <5>2. npx[cw].max =< npx[r].max /\ r \in People /\ cw \in People
          BY <5>1, <2>2, <1>9 DEF Entered
        <5>3. cur =< npx[cw].max
          BY <4>2, <5>2, <1>1, <1>5, <1>11
        <5> QED BY <5>2, <5>3, <2>2, <1>1, <1>5, <1>9
      <4> QED BY <4>1, <4>2
    <3> QED BY <3>1, <2>2, <1>1, <1>2, <1>5, <1>6, <1>7, <1>9, <1>h
  <2>3. CASE r # Nobody /\ w = cw
    <3>1. Beat(r) >= cur
      <4>0. r \in People /\ npx[r].max \in Nat
        BY <2>3, <1>5, <1>9 DEF Entered
      <4>1. CASE Entered(px) \ {cw} = {}
        \* Only s may have joined the leader.
        <5>1. r \notin Entered(px) /\ r \in Entered(npx)
          BY <4>1, <2>3, <1>9
        <5>2. r = s
          BY <5>1, <4>0, <1>4 DEF Entered
        <5> QED BY <5>2, <4>0, <2>3, <1>1, <1>2, <1>8, <1>9, <1>h
      <4>2. CASE Entered(px) \ {cw} # {}
        <5>1. PICK b \in Entered(px) \ {cw} : cur =< px[b].max + effectiveIncrement(px[b].max, inc)
          BY <4>2, <1>10 DEF Beatable
        <5>2. b \in People /\ b \in Entered(npx) \ {w}
          BY <5>1, <2>3, <1>1, <1>5 DEF Entered
        <5>3. px[b].max \in Nat /\ npx[b].max \in Nat /\ px[b].max =< npx[r].max
          BY <5>2, <4>0, <2>3, <1>1, <1>5, <1>9
        <5>4. px[b].max + effectiveIncrement(px[b].max, inc) =< Beat(r)
          BY <5>3, <4>0, <1>1, BeatingIsMonotone DEF Beat
        <5>5. effectiveIncrement(px[b].max, inc) \in Nat
          BY <5>3, <1>1, IncrementPositive
        <5> QED BY <5>1, <5>3, <5>4, <5>5, <2>3, <1>1, <1>9
      <4> QED BY <4>1, <4>2
    <3> QED BY <3>1, <2>3, <1>1, <1>2, <1>5, <1>6, <1>7, <1>9, <1>h
  <2> QED BY <2>1, <2>2, <2>3
<1>13. ShowsTop(rows \cup {NewRow(w, price, t)}, next)
  <2>1. \A q \in rows : q.amount =< price
    BY <1>1, <1>9, <1>10, <1>12 DEF ShowsTop
  <2>2. NewRow(w, price, t).amount = price /\ price =< price
    BY <1>9
  <2> QED BY <2>1, <2>2 DEF ShowsTop
<1>14. Beatable(npx, next)
  <2> SUFFICES ASSUME Entered(npx) \ {w} # {}
               PROVE  \E b \in Entered(npx) \ {w} : price =< npx[b].max + effectiveIncrement(npx[b].max, inc)
    BY DEF Beatable
  <2>1. r # Nobody
    BY <1>9
  <2>2. price =< Beat(r) /\ r \in Entered(npx) \ {w}
    BY <2>1, <1>5, <1>6, <1>9
  <2> QED BY <2>2 DEF Beat
<1>15. next.starting_bid > 0
  BY <1>10
<1> QED BY <1>12, <1>13, <1>14, <1>15 DEF PriceOK

-----------------------------------------------------------------------------
(* The invariant of the price, and the notices. *)

LEMMA PricesOKInit == Init => PricesOK
<1> SUFFICES ASSUME Init, NEW l \in Lots PROVE PriceOK(proxy[l], bids[l], lot[l])
  BY DEF PricesOK
<1>1. /\ lot[l].starting_bid = StartPrice /\ lot[l].current_bid = 0
      /\ lot[l].current_winner = Nobody
  BY DEF Init, NewLot
<1>2. bids[l] = {} /\ Entered(proxy[l]) = {}
  BY DEF Init, Entered
<1> QED BY <1>1, <1>2, AmountAssumption DEF PriceOK, ShowsTop, Beatable

\* What every step does to the parts of a lot that a bid writes.
BidPart(row) == [starting_bid |-> row.starting_bid, increment |-> row.increment,
                 current_bid |-> row.current_bid, current_winner |-> row.current_winner]

\* Without an edit only a bid writes the price, the leader, the bids and the notices.
LEMMA OnlyBidsWritePrices ==
  ASSUME FloorInv, [Next]_vars, edits' = 0
  PROVE  /\ edits = 0
         /\ \/ \E t \in BidNumbers : CommitBid(t)
            \/ /\ UNCHANGED <<proxy, bids, outbid>>
               /\ \A l \in Lots : BidPart(lot'[l]) = BidPart(lot[l])
<1>1. lot \in [Lots -> Lot] /\ bids \in [Lots -> SUBSET BidRow] /\ edits \in Nat
  BY DEF FloorInv, TypeOK
<1> DEFINE Kept == /\ edits = 0
                   /\ UNCHANGED <<proxy, bids, outbid>>
                   /\ \A l \in Lots : BidPart(lot'[l]) = BidPart(lot[l])
<1> USE DEF floorVars, staffVars, BidPart
<1>2. CASE UNCHANGED vars
  BY <1>2 DEF vars
<1>3. PublishAuction => Kept
  BY <1>1 DEF PublishAuction
<1>4. BuyerNext => \/ edits = 0 /\ \E t \in BidNumbers : CommitBid(t)
                   \/ Kept
  BY DEF BuyerNext, SubmitBid, LockLot, CommitBid, AbortBid
<1>5. SchedulerNext => Kept
  <2>1. ASSUME NEW l \in Lots, AutoCloseLot(l) PROVE Kept
    <3>1. \A k \in Lots : lot'[k] = lot[k] \/ lot'[k] = ClosedLot(lot[k], bids[k])
      BY <2>1, <1>1 DEF AutoCloseLot
    <3>2. \A k \in Lots : BidPart(ClosedLot(lot[k], bids[k])) = BidPart(lot[k])
      BY <1>1 DEF ClosedLot, Lot
    <3> QED BY <2>1, <3>1, <3>2 DEF AutoCloseLot
  <2> QED BY <2>1 DEF SchedulerNext, Tick, PromoteAuction, AutoCloseScan, CloseScan
<1>6. CloserNext => Kept
  <2>1. CASE CloseCommit
    <3>1. \A k \in Lots : lot'[k] = lot[k] \/ lot'[k] = ClosedLot(lot[k], bids[k])
      BY <2>1, <1>1 DEF CloseCommit
    <3>2. \A k \in Lots : BidPart(ClosedLot(lot[k], bids[k])) = BidPart(lot[k])
      BY <1>1 DEF ClosedLot, Lot
    <3> QED BY <2>1, <3>1, <3>2 DEF CloseCommit
  <2> QED BY <2>1 DEF CloserNext, AdminClose, CloseBegin, CloseLockLot, AbortClose,
                      StoreSettlement, LoseSettlement
<1>7. StaffNext => Kept
  <2>1. ~ Intervene
    BY <1>1 DEF Intervene
  <2>2. ASSUME NEW l \in Lots, RemoveLot(l) PROVE Kept
    BY <2>2, <1>1 DEF RemoveLot, Lot
  <2> QED BY <2>1, <2>2, <1>3
          DEF StaffNext, EditLot, AddLot, RemoveLotCheck, WithdrawLot, UnpublishAuction
<1> QED BY <1>2, <1>3, <1>4, <1>5, <1>6, <1>7 DEF Next, SaleNext

\* What a bid does to every lot's price.
LEMMA BidAndPrices ==
  ASSUME FloorInv, NEW t \in BidNumbers, CommitBid(t),
         \A l \in Lots : PriceOK(proxy[l], bids[l], lot[l])
  PROVE  \A l \in Lots : /\ PriceOK(proxy'[l], bids'[l], lot'[l])
                         /\ lot'[l].current_bid >= lot[l].current_bid
                         /\ lot'[l].current_winner # lot[l].current_winner
                              => lot'[l].current_bid > lot[l].current_bid
<1> DEFINE l  == request[t].lot
           s  == request[t].bidder
           m  == request[t].ceiling
           px == [proxy[l] EXCEPT ![s] = RaisedMax(@, m, t)]
<1>r. PICK w \in People, price \in Nat :
        \E r : /\ l \in Lots
              /\ proxy' = [proxy EXCEPT ![l] = px]
              /\ lot' = [lot EXCEPT ![l] = AfterBid(l, w, price)]
              /\ bids' = [bids EXCEPT ![l] = @ \cup {NewRow(w, price, t)}]
              /\ AcceptedBid(proxy[l], bids[l], lot[l], s, m, t, w, r)
              /\ price = VisiblePrice(lot[l], px, w, r)
  BY BidWrites
<1>1. PICK r :
        /\ l \in Lots
        /\ proxy' = [proxy EXCEPT ![l] = px]
        /\ lot' = [lot EXCEPT ![l] = AfterBid(l, w, price)]
        /\ bids' = [bids EXCEPT ![l] = @ \cup {NewRow(w, price, t)}]
        /\ AcceptedBid(proxy[l], bids[l], lot[l], s, m, t, w, r)
        /\ price = VisiblePrice(lot[l], px, w, r)
  BY <1>r
<1>2. /\ lot \in [Lots -> Lot] /\ lot' \in [Lots -> Lot]
      /\ proxy \in [Lots -> [People -> Proxy]] /\ bids \in [Lots -> SUBSET BidRow]
  <2>1. TypeOK'
    BY BidWrites
  <2> QED BY <2>1 DEF FloorInv, TypeOK
<1>3. \A k \in Lots \ {l} : lot'[k] = lot[k] /\ bids'[k] = bids[k] /\ proxy'[k] = proxy[k]
  BY <1>1, <1>2
<1>4. /\ lot'[l] = AfterBid(l, w, price) /\ lot'[l] \in Lot
      /\ bids'[l] = bids[l] \cup {NewRow(w, price, t)}
      /\ proxy'[l] = px
  BY <1>1, <1>2
<1>5. /\ lot'[l].current_bid = price /\ lot'[l].current_winner = w
      /\ lot'[l].starting_bid = lot[l].starting_bid /\ lot'[l].increment = lot[l].increment
  BY <1>1, <1>2, <1>4 DEF AfterBid, Lot
<1>6. px = BidOn(proxy[l], s, m, t) /\ PriceOK(proxy[l], bids[l], lot[l])
  BY <1>1 DEF BidOn
<1>7. /\ PriceOK(proxy'[l], bids'[l], lot'[l])
      /\ price >= lot[l].current_bid
      /\ w # lot[l].current_winner => price > lot[l].current_bid
  <2> HIDE DEF l, s, m, px
  <2> QED BY <1>1, <1>4, <1>5, <1>6, BidKeepsPriceOK
<1>8. \A k \in Lots : lot[k].current_bid \in Nat
  BY <1>2 DEF Lot
<1> HIDE DEF l, px
<1> QED BY <1>3, <1>5, <1>7, <1>8

LEMMA PriceInvNext == PriceInv /\ [Next]_vars => PricesOK'
<1> SUFFICES ASSUME PriceInv, [Next]_vars, edits' = 0
             PROVE  \A l \in Lots : PriceOK(proxy'[l], bids'[l], lot'[l])
  BY DEF PricesOK
<1>1. FloorInv /\ edits = 0 /\ \A l \in Lots : PriceOK(proxy[l], bids[l], lot[l])
  BY OnlyBidsWritePrices DEF PriceInv, PricesOK
<1>2. CASE \E t \in BidNumbers : CommitBid(t)
  BY <1>1, <1>2, BidAndPrices
<1>3. CASE /\ UNCHANGED <<proxy, bids, outbid>>
           /\ \A l \in Lots : BidPart(lot'[l]) = BidPart(lot[l])
  <2>1. \A l \in Lots : /\ lot'[l].starting_bid = lot[l].starting_bid
                        /\ lot'[l].increment = lot[l].increment
                        /\ lot'[l].current_bid = lot[l].current_bid
                        /\ lot'[l].current_winner = lot[l].current_winner
    BY <1>3 DEF BidPart
  <2> QED BY <1>1, <1>3, <2>1 DEF PriceOK, ShowsTop, Beatable
<1> QED BY <1>1, <1>2, <1>3, OnlyBidsWritePrices

\* createBid: until staff edit something, lots.current_bid is the amount of the top bid
\* row, which is what closeAuction and the auto-close would sell the lot for.
THEOREM ShownPriceIsTheTopBid == Spec => []ShownPriceIsTopBid
<1>1. PriceInv => ShownPriceIsTopBid
  <2> SUFFICES ASSUME PriceInv, edits = 0, NEW l \in Lots
               PROVE  IF bids[l] = {} THEN lot[l].current_bid = 0
                                      ELSE lot[l].current_bid = TopBid(bids[l]).amount
    BY DEF ShownPriceIsTopBid
  <2>1. bids[l] \in SUBSET BidRow /\ (bids[l] # {} => TopRows(bids[l]) # {})
    BY DEF PriceInv, FloorInv, TypeOK, TopRowsExist
  <2>2. ShowsTop(bids[l], lot[l])
    BY DEF PriceInv, PricesOK, PriceOK
  <2>3. CASE bids[l] # {}
    <3> DEFINE top == TopBid(bids[l])
    <3>1. top \in bids[l] /\ top \in TopRows(bids[l])
      BY <2>1, <2>3, TopBidIsABid
    <3>2. PICK q \in bids[l] : q.amount = lot[l].current_bid
      BY <2>2, <2>3 DEF ShowsTop
    <3>3. top.amount \in Nat /\ q.amount \in Nat
      BY <2>1, <3>1 DEF BidRow
    <3>4. top.amount >= q.amount
      BY <3>1, <3>3 DEF TopRows
    <3>5. top.amount =< q.amount
      BY <2>2, <3>1, <3>2 DEF ShowsTop
    <3> HIDE DEF top
    <3>6. top.amount = lot[l].current_bid
      BY <3>2, <3>3, <3>4, <3>5
    <3> QED BY <2>3, <3>6 DEF top
  <2> QED BY <2>2, <2>3 DEF ShowsTop
<1>2. Init => PriceInv
  BY FloorInvInit, PricesOKInit DEF PriceInv
<1>3. PriceInv /\ [Next]_vars => PriceInv'
  BY FloorInvNext, PriceInvNext DEF PriceInv
<1> QED BY <1>1, <1>2, <1>3, PTL DEF Spec

\* createBid: until staff edit something, no bid lowers the price of a lot, and one
\* that takes the lead raises it.
THEOREM PricesOnlyRise == Spec => PriceOnlyRises
<1> DEFINE Rises == edits' = 0 => \A l \in Lots :
                      /\ lot'[l].current_bid >= lot[l].current_bid
                      /\ lot'[l].current_winner # lot[l].current_winner
                           => lot'[l].current_bid > lot[l].current_bid
<1>1. PriceInv /\ [Next]_vars => [Rises]_vars
  <2> SUFFICES ASSUME PriceInv, [Next]_vars, edits' = 0, NEW l \in Lots
               PROVE  /\ lot'[l].current_bid >= lot[l].current_bid
                      /\ lot'[l].current_winner # lot[l].current_winner
                           => lot'[l].current_bid > lot[l].current_bid
    OBVIOUS
  <2>1. FloorInv /\ \A k \in Lots : PriceOK(proxy[k], bids[k], lot[k])
    BY OnlyBidsWritePrices DEF PriceInv, PricesOK
  <2>2. CASE \E t \in BidNumbers : CommitBid(t)
    BY <2>1, <2>2, BidAndPrices
  <2>3. CASE \A k \in Lots : BidPart(lot'[k]) = BidPart(lot[k])
    <3>1. lot[l].current_bid \in Nat
      BY <2>1 DEF FloorInv, TypeOK, Lot
    <3>2. /\ lot'[l].current_bid = lot[l].current_bid
          /\ lot'[l].current_winner = lot[l].current_winner
      BY <2>3 DEF BidPart
    <3> QED BY <3>1, <3>2
  <2> QED BY <2>1, <2>2, <2>3, OnlyBidsWritePrices
<1> HIDE DEF Rises
<1>2. Init => PriceInv
  BY FloorInvInit, PricesOKInit DEF PriceInv
<1>3. PriceInv /\ [Next]_vars => PriceInv'
  BY FloorInvNext, PriceInvNext DEF PriceInv
<1>4. Spec => [][Rises]_vars
  BY <1>1, <1>2, <1>3, PTL DEF Spec
<1> QED BY <1>4 DEF Rises, PriceOnlyRises

\* Outside a bid nobody's lead and no notice changes: a lot number taken into use has
\* neither bids nor a leader.
LEMMA LeadersKept ==
  ASSUME FloorInv, [Next]_vars, ~ \E t \in BidNumbers : CommitBid(t)
  PROVE  /\ UNCHANGED <<bids, outbid>>
         /\ \A l \in Lots : lot'[l].current_winner = lot[l].current_winner
<1>1. lot \in [Lots -> Lot] /\ bids \in [Lots -> SUBSET BidRow]
  BY DEF FloorInv, TypeOK
<1> DEFINE Kept == /\ UNCHANGED <<bids, outbid>>
                   /\ \A l \in Lots : lot'[l].current_winner = lot[l].current_winner
<1> USE DEF floorVars
<1>2. CASE UNCHANGED vars
  BY <1>2 DEF vars
<1>3. PublishAuction => Kept
  BY <1>1 DEF PublishAuction
<1>4. BuyerNext => Kept
  BY DEF BuyerNext, SubmitBid, LockLot, AbortBid
<1>5. \A k \in Lots : ClosedLot(lot[k], bids[k]).current_winner = lot[k].current_winner
  BY <1>1 DEF ClosedLot, Lot
<1>6. SchedulerNext => Kept
  <2>1. ASSUME NEW l \in Lots, AutoCloseLot(l) PROVE Kept
    <3>1. \A k \in Lots : lot'[k] = lot[k] \/ lot'[k] = ClosedLot(lot[k], bids[k])
      BY <2>1, <1>1 DEF AutoCloseLot
    <3> QED BY <2>1, <3>1, <1>5 DEF AutoCloseLot
  <2> QED BY <2>1 DEF SchedulerNext, Tick, PromoteAuction, AutoCloseScan, CloseScan
<1>7. CloserNext => Kept
  <2>1. CASE CloseCommit
    <3>1. \A k \in Lots : lot'[k] = lot[k] \/ lot'[k] = ClosedLot(lot[k], bids[k])
      BY <2>1, <1>1 DEF CloseCommit
    <3> QED BY <2>1, <3>1, <1>5 DEF CloseCommit
  <2> QED BY <2>1 DEF CloserNext, AdminClose, CloseBegin, CloseLockLot, AbortClose,
                      StoreSettlement, LoseSettlement
<1>8. StaffNext => Kept
  <2>1. ASSUME NEW l \in Lots, EditLot(l) \/ RemoveLot(l) \/ WithdrawLot(l) PROVE Kept
    <3>1. CASE EditLot(l)
      <4>1. \A k \in Lots : lot'[k].current_winner = lot[k].current_winner
        BY <3>1, <1>1 DEF EditLot, Lot
      <4> QED BY <3>1, <4>1 DEF EditLot
    <3>2. CASE RemoveLot(l) \/ WithdrawLot(l)
      <4>1. \A k \in Lots : lot'[k].current_winner = lot[k].current_winner
        BY <3>2, <1>1 DEF RemoveLot, WithdrawLot, Lot
      <4> QED BY <3>2, <4>1 DEF RemoveLot, WithdrawLot
    <3> QED BY <2>1, <3>1, <3>2
  <2>2. ASSUME NEW l \in Lots, AddLot(l) PROVE Kept
    <3>1. lot[l].state = "absent" /\ lot'[l].current_winner = Nobody
          /\ \A k \in Lots \ {l} : lot'[k] = lot[k]
      BY <2>2, <1>1 DEF AddLot, NewLot
    <3>2. lot[l].current_winner = Nobody
      BY <3>1 DEF FloorInv, AbsentOK, FloorsOK, FloorOK, Leads
    <3> QED BY <2>2, <3>1, <3>2 DEF AddLot
  <2> QED BY <2>1, <2>2, <1>3 DEF StaffNext, RemoveLotCheck, UnpublishAuction
<1> QED BY <1>2, <1>3, <1>4, <1>6, <1>7, <1>8 DEF Next, SaleNext

LEMMA NoticesNext == FloorInv /\ DisplacedLeadersAreTold /\ [Next]_vars => DisplacedLeadersAreTold'
<1> SUFFICES ASSUME FloorInv, DisplacedLeadersAreTold, [Next]_vars, NEW k \in Lots, NEW q \in bids'[k],
                    q.bidder \in EmailEnabled, q.bidder # lot'[k].current_winner
             PROVE  q.bidder \in outbid'[k]
  BY DEF DisplacedLeadersAreTold
<1>1. ASSUME NEW t \in BidNumbers, CommitBid(t) PROVE q.bidder \in outbid'[k]
  <2> DEFINE l == request[t].lot
  <2>1. PICK w \in People, price \in Nat :
          /\ l \in Lots
          /\ lot' = [lot EXCEPT ![l] = AfterBid(l, w, price)]
          /\ bids' = [bids EXCEPT ![l] = @ \cup {NewRow(w, price, t)}]
          /\ outbid' = [outbid EXCEPT ![l] = @ \cup Displaced(l, w)]
    BY <1>1, BidWrites
  <2>2. /\ lot \in [Lots -> Lot] /\ bids \in [Lots -> SUBSET BidRow]
        /\ outbid \in [Lots -> SUBSET People]
    BY DEF FloorInv, TypeOK
  <2>3. CASE k # l
    BY <2>1, <2>2, <2>3 DEF DisplacedLeadersAreTold
  <2>4. CASE k = l
    <3>1. lot'[k].current_winner = w /\ NewRow(w, price, t).bidder = w
      BY <2>1, <2>2, <2>4 DEF AfterBid, Lot, NewRow
    <3>2. q \in bids[k] /\ q.bidder # w
      BY <2>1, <2>2, <2>4, <3>1
    <3>3. outbid'[k] = outbid[k] \cup Displaced(k, w)
      BY <2>1, <2>2, <2>4
    <3>4. CASE q.bidder = lot[k].current_winner
      BY <3>2, <3>3, <3>4, PeopleAssumption DEF Displaced, People
    <3>5. CASE q.bidder # lot[k].current_winner
      BY <3>2, <3>3, <3>5 DEF DisplacedLeadersAreTold
    <3> QED BY <3>4, <3>5
  <2> QED BY <2>3, <2>4
<1>2. CASE ~ \E t \in BidNumbers : CommitBid(t)
  <2>1. UNCHANGED <<bids, outbid>> /\ lot'[k].current_winner = lot[k].current_winner
    BY <1>2, LeadersKept
  <2> QED BY <2>1 DEF DisplacedLeadersAreTold
<1> QED BY <1>1, <1>2

\* resolveProxyBid: whoever was ever shown leading and is no longer has an OUTBID notice
\* queued, unless their preferences turn email off.
THEOREM EveryDisplacedLeaderIsTold == Spec => []DisplacedLeadersAreTold
<1>1. Init => DisplacedLeadersAreTold
  BY DEF Init, DisplacedLeadersAreTold
<1> QED BY <1>1, NoticesNext, FloorInvInit, FloorInvNext, PTL DEF Spec

-----------------------------------------------------------------------------
(* The invariant of a sale nobody interferes with. *)

LEMMA SaleStepIsAStep == [SaleNext]_vars => [Next]_vars
BY DEF Next

\* What SaleInv says of the sale, without FloorInv.
SaleOnly == /\ TimesOK /\ EndCoversOpenLots /\ ClosingOK /\ DueOK
            /\ VisitedOK /\ ReservesOK /\ PaidOutOK /\ PayoutIsSumOfSales

LEMMA SaleInvInit == Init => SaleInv
<1> SUFFICES ASSUME Init PROVE SaleInv
  OBVIOUS
<1>1. \A l \in Lots : lot[l].state \in {"open", "absent"}
  BY DEF Init, NewLot
<1>2. TimesOK /\ EndCoversOpenLots /\ ClosingOK /\ DueOK /\ VisitedOK
  BY DEF Init, TimesOK, EndCoversOpenLots, ClosingOK, DueOK, VisitedOK, BiddingOpen
<1>3. ReservesOK /\ PaidOutOK /\ PayoutIsSumOfSales
  BY <1>1 DEF Init, ReservesOK, PaidOutOK, PayoutIsSumOfSales
<1> QED BY <1>2, <1>3, FloorInvInit DEF SaleInv

\* A step that leaves the lots, the bids and the payout alone, and at most lets time
\* pass or moves the auction on while it stays open.
LEMMA CalmStep ==
  ASSUME SaleInv, UNCHANGED <<lot, bids, payout, settling>>,
         now' >= now, now \in Nat, now' \in Nat,
         auction'.end_time = auction.end_time,
         auction'.state = auction.state \/ (BiddingOpen /\ auction'.state = "active"),
         UNCHANGED closer
  PROVE  SaleOnly'
<1>1. BiddingOpen => BiddingOpen'
  BY DEF BiddingOpen
<1>2. BiddingOpen' => BiddingOpen
  BY DEF BiddingOpen
<1>3. auction'.state # "draft" => auction.state # "draft"
  BY DEF BiddingOpen
<1>4. auction.state = "closed" => auction'.state = "closed"
  BY DEF BiddingOpen
<1>5. auction.state # "draft" => auction'.state # "draft"
  BY DEF BiddingOpen
<1>6. TimesOK' /\ EndCoversOpenLots'
  BY <1>2, <1>3 DEF SaleInv, TimesOK, EndCoversOpenLots
<1>7. ClosingOK'
  BY <1>1, <1>5 DEF SaleInv, ClosingOK
<1>8. DueOK'
  <2>1. \A l \in Lots : lot[l].closes_at \in Int
    BY DEF SaleInv, FloorInv, TypeOK, Lot
  <2> QED BY <2>1 DEF SaleInv, DueOK
<1>9. VisitedOK' /\ ReservesOK' /\ PaidOutOK' /\ PayoutIsSumOfSales'
  BY <1>4 DEF SaleInv, VisitedOK, Catalogued, ReservesOK, PaidOutOK, PayoutIsSumOfSales, SettledHammer
<1> QED BY <1>6, <1>7, <1>8, <1>9 DEF SaleOnly

LEMMA PublishInSale ==
  ASSUME SaleInv, auction.state = "draft", PublishAuction
  PROVE  SaleOnly'
<1>1. /\ lot \in [Lots -> Lot] /\ auction \in Auction /\ now \in Nat
      /\ lot' = [l \in Lots |-> IF lot[l].state = "open"
                                  THEN [lot[l] EXCEPT !.closes_at = StaggeredClose(l)]
                                  ELSE lot[l]]
      /\ UNCHANGED <<now, request, due, closer, floorVars, moneyVars, staffVars>>
  BY DEF PublishAuction, SaleInv, FloorInv, TypeOK
<1>2. \A l \in Lots : StaggeredClose(l) \in Nat
  <2> SUFFICES ASSUME NEW l \in Lots PROVE StaggeredClose(l) \in Nat
    OBVIOUS
  <2> DEFINE S == { k \in Lots : k =< l /\ lot[k].state = "open" }
  <2>1. IsFiniteSet(S)
    BY LotsAssumption, FS_Subset
  <2>2. Cardinality(S) \in Nat
    BY <2>1, FS_CardinalityType
  <2> QED BY <2>2, TimeAssumption DEF StaggeredClose, LotCloseInterval
<1>3. \A l \in Lots : /\ lot'[l].state = lot[l].state
                      /\ lot'[l].reserve = lot[l].reserve
                      /\ lot'[l].winning_buyer = lot[l].winning_buyer
                      /\ lot'[l].winning_amount = lot[l].winning_amount
                      /\ lot'[l].closes_at \in Int
                      /\ lot[l].state = "open" => lot'[l].closes_at \in Nat
  BY <1>1, <1>2 DEF Lot
<1>4. PICK end \in IF Closes(lot') = {} THEN {auction.end_time} ELSE LatestClose(lot') :
        auction' = [state |-> "published", end_time |-> end]
  BY DEF PublishAuction
<1>5. closer.phase = "idle" /\ payout = NoPayout /\ ~ settling
  BY DEF SaleInv, ClosingOK, PaidOutOK
<1>6. TimesOK'
  BY <1>3 DEF TimesOK
<1>7. EndCoversOpenLots'
  <2> SUFFICES ASSUME NEW l \in Lots, lot'[l].state = "open" PROVE lot'[l].closes_at =< auction'.end_time
    BY DEF EndCoversOpenLots
  <2>1. lot'[l].closes_at \in Closes(lot')
    BY <1>3 DEF Closes, Null
  <2>2. end \in LatestClose(lot')
    BY <2>1, <1>4
  <2> QED BY <2>1, <2>2, <1>4 DEF LatestClose
<1>8. ClosingOK' /\ DueOK' /\ PaidOutOK' /\ PayoutIsSumOfSales'
  <2>1. closer'.phase = "idle" /\ payout' = NoPayout /\ ~ settling'
    BY <1>1, <1>5 DEF moneyVars
  <2> QED BY <2>1 DEF ClosingOK, DueOK, PaidOutOK, PayoutIsSumOfSales
<1>9. VisitedOK' /\ ReservesOK'
  <2>1. closer.held \subseteq Lots /\ closer.visited \subseteq Lots
    BY DEF SaleInv, FloorInv, TypeOK, Closer
  <2>2. \A l \in Lots : Catalogued(l)' <=> Catalogued(l)
    BY <1>3 DEF Catalogued
  <2> QED BY <2>1, <2>2, <1>1, <1>3 DEF SaleInv, VisitedOK, ReservesOK, floorVars
<1> QED BY <1>6, <1>7, <1>8, <1>9 DEF SaleOnly

LEMMA BidInSale ==
  ASSUME SaleInv, NEW t \in BidNumbers, CommitBid(t)
  PROVE  SaleOnly'
<1> DEFINE l == request[t].lot
<1>1. PICK w \in People, price \in Nat :
        /\ l \in Lots
        /\ lot' = [lot EXCEPT ![l] = AfterBid(l, w, price)]
        /\ bids' = [bids EXCEPT ![l] = @ \cup {NewRow(w, price, t)}]
  BY BidWrites DEF SaleInv
<1>2. /\ lot \in [Lots -> Lot] /\ lot' \in [Lots -> Lot] /\ bids \in [Lots -> SUBSET BidRow]
      /\ auction \in Auction /\ now \in Nat
  <2>1. TypeOK'
    BY BidWrites DEF SaleInv
  <2> QED BY <2>1 DEF SaleInv, FloorInv, TypeOK
<1>3. /\ lot[l].state = "open" /\ AuctionUnlocked
      /\ UNCHANGED <<now, closer, payout, settling>>
  BY DEF CommitBid, SaleInv, FloorInv, LocksOK, moneyVars
<1>4. PICK end \in IF Snipes(l) THEN EndTimeAfter(lot') ELSE {auction.end_time} :
        auction' = [auction EXCEPT !.end_time = end]
  BY DEF CommitBid
<1>5. auction'.state = auction.state /\ auction'.end_time = end
  BY <1>2, <1>4 DEF Auction
<1>6. \A k \in Lots : /\ lot'[k].state = lot[k].state
                      /\ lot'[k].reserve = lot[k].reserve
                      /\ lot'[k].winning_buyer = lot[k].winning_buyer
                      /\ lot'[k].winning_amount = lot[k].winning_amount
                      /\ lot'[k].closes_at = IF k = l /\ Snipes(l) THEN lot[l].closes_at + 2
                                                                   ELSE lot[k].closes_at
                      /\ k # l => bids'[k] = bids[k]
                      /\ lot[k].closes_at \in Int /\ lot'[k].closes_at \in Int
  BY <1>1, <1>2 DEF AfterBid, Lot, Extension
<1>7. Snipes(l) => lot[l].closes_at > now
  BY <1>1, <1>2, <1>6 DEF Snipes
<1>8. payout = NoPayout /\ ~ settling
  BY <1>1, <1>3 DEF SaleInv, PaidOutOK
<1>9. TimesOK'
  BY <1>2, <1>5, <1>6 DEF SaleInv, TimesOK
<1>10. EndCoversOpenLots'
  <2> SUFFICES ASSUME BiddingOpen, NEW k \in Lots, lot[k].state = "open"
               PROVE  lot'[k].closes_at =< end
    BY <1>5, <1>6 DEF EndCoversOpenLots, BiddingOpen
  <2>1. lot[k].closes_at =< auction.end_time /\ auction.end_time \in Int
    BY <1>2 DEF SaleInv, EndCoversOpenLots, Auction
  <2>2. CASE ~ Snipes(l)
    BY <2>1, <2>2, <1>4, <1>6
  <2>3. CASE Snipes(l)
    <3>1. PICK last \in LatestClose(lot') : end = IF last > auction.end_time THEN last ELSE auction.end_time
      BY <2>3, <1>4 DEF EndTimeAfter
    <3>2. last \in Int
      BY <1>2, LatestCloseIsANumber
    <3>3. CASE lot'[k].closes_at = Null
      BY <3>1, <3>2, <3>3, <2>1, <2>3, <1>2, <1>6, <1>7 DEF Null
    <3>4. CASE lot'[k].closes_at # Null
      <4>1. lot'[k].closes_at \in Closes(lot')
        BY <3>4, <1>6 DEF Closes
      <4>2. lot'[k].closes_at =< last
        BY <4>1 DEF LatestClose
      <4> QED BY <4>2, <3>1, <3>2, <2>1, <1>6
    <3> QED BY <3>3, <3>4
  <2> QED BY <2>2, <2>3
<1>11. ClosingOK'
  BY <1>3, <1>5 DEF SaleInv, ClosingOK, BiddingOpen
<1>12. DueOK'
  \* A lot whose time is up is not extended any more.
  BY <1>1, <1>2, <1>3, <1>6, <1>7 DEF SaleInv, DueOK
<1>13. VisitedOK'
  <2>1. closer.held \subseteq Lots /\ closer.visited \subseteq Lots
    BY DEF SaleInv, FloorInv, TypeOK, Closer
  <2> QED BY <2>1, <1>3, <1>6 DEF SaleInv, VisitedOK, Catalogued
<1>14. ReservesOK'
  BY <1>3, <1>6 DEF SaleInv, ReservesOK
<1>15. PaidOutOK' /\ PayoutIsSumOfSales'
  BY <1>3, <1>8 DEF PaidOutOK, PayoutIsSumOfSales
<1> QED BY <1>9, <1>10, <1>11, <1>12, <1>13, <1>14, <1>15 DEF SaleOnly

\* Closing a lot: sold exactly when its bids reach its reserve.
LEMMA ClosedLotSells ==
  ASSUME NEW row \in Lot, NEW rows \in SUBSET BidRow, rows # {} => TopRows(rows) # {},
         row.winning_buyer = Nobody,
         NEW new, new = ClosedLot(row, rows)
  PROVE  /\ new.state = "closed" /\ new.reserve = row.reserve
         /\ new.winning_buyer # Nobody <=> Sells(rows, row.reserve)
         /\ Sells(rows, row.reserve) => new.winning_amount = TopBid(rows).amount
<1>1. CASE Sells(rows, row.reserve)
  <2>1. TopBid(rows) \in BidRow
    BY <1>1, TopBidIsABid DEF Sells
  <2>2. TopBid(rows).bidder # Nobody
    BY <2>1, PeopleAssumption DEF BidRow
  <2> QED BY <2>2, <1>1 DEF ClosedLot, Lot
<1>2. CASE ~ Sells(rows, row.reserve)
  BY <1>2 DEF ClosedLot, Lot
<1> QED BY <1>1, <1>2

LEMMA AutoCloseInSale ==
  ASSUME SaleInv, NEW l \in Lots, AutoCloseLot(l)
  PROVE  SaleOnly'
<1>1. /\ lot \in [Lots -> Lot] /\ bids \in [Lots -> SUBSET BidRow] /\ now \in Nat
      /\ lot' = IF TimeIsUp(l) THEN [lot EXCEPT ![l] = ClosedLot(@, bids[l])] ELSE lot
      /\ UNCHANGED <<now, auction, closer, bids, payout, settling>>
  BY DEF AutoCloseLot, SaleInv, FloorInv, TypeOK, floorVars, moneyVars
<1>2. CASE ~ TimeIsUp(l)
  BY <1>1, <1>2, CalmStep
<1>3. CASE TimeIsUp(l)
  <2>1. /\ lot[l] \in Lot /\ bids[l] \in SUBSET BidRow /\ lot[l].winning_buyer = Nobody
        /\ bids[l] # {} => TopRows(bids[l]) # {}
        /\ lot[l].state = "open"
    BY <1>1, <1>3 DEF TimeIsUp, SaleInv, FloorInv, UnsoldOK, TopRowsExist
  <2>2. lot'[l] = ClosedLot(lot[l], bids[l])
    BY <1>1, <1>3
  <2>3. /\ lot'[l].state = "closed" /\ lot'[l].reserve = lot[l].reserve
        /\ lot'[l].winning_buyer # Nobody <=> Sells(bids[l], lot[l].reserve)
    BY <2>1, <2>2, ClosedLotSells
  <2>4. \A k \in Lots \ {l} : lot'[k] = lot[k]
    BY <1>1
  <2>5. TimesOK' /\ EndCoversOpenLots' /\ ClosingOK' /\ DueOK'
    BY <1>1, <2>3, <2>4
    DEF SaleInv, TimesOK, EndCoversOpenLots, ClosingOK, DueOK, BiddingOpen
  <2>6. VisitedOK'
    <3>1. closer.held \subseteq Lots /\ closer.visited \subseteq Lots
      BY DEF SaleInv, FloorInv, TypeOK, Closer
    <3>2. \A k \in Lots : Catalogued(k)' <=> Catalogued(k)
      BY <2>1, <2>3, <2>4 DEF Catalogued
    <3> QED BY <3>1, <3>2, <1>1 DEF SaleInv, VisitedOK
  <2>7. ReservesOK'
    BY <1>1, <2>3, <2>4 DEF SaleInv, ReservesOK
  <2>8. PaidOutOK' /\ PayoutIsSumOfSales'
    BY <1>1, <2>1 DEF SaleInv, PaidOutOK, PayoutIsSumOfSales
  <2> QED BY <2>5, <2>6, <2>7, <2>8 DEF SaleOnly
<1> QED BY <1>2, <1>3

LEMMA CommitInSale ==
  ASSUME SaleInv, CloseCommit
  PROVE  SaleOnly'
<1>1. /\ closer \in Closer /\ lot \in [Lots -> Lot] /\ bids \in [Lots -> SUBSET BidRow]
      /\ auction \in Auction
      /\ closer.phase = "locking" /\ closer.visited = Lots
      /\ auction' = [auction EXCEPT !.state = "closed"]
      /\ lot' = [l \in Lots |-> IF ClosedByAuction(l) THEN ClosedLot(lot[l], bids[l]) ELSE lot[l]]
      /\ payout' = IF payout = NoPayout THEN HammerOf(closer.held) ELSE payout
      /\ closer' = [closer EXCEPT !.phase = "idle", !.visited = {}, !.held = {}]
      /\ UNCHANGED <<now, bids>>
  BY DEF CloseCommit, SaleInv, FloorInv, TypeOK, floorVars
<1>2. auction'.state = "closed" /\ closer'.phase = "idle" /\ closer'.visited = {} /\ closer'.held = {}
  BY <1>1 DEF Auction, Closer
<1>3. closer.held = { l \in Lots : Catalogued(l) }
  BY <1>1 DEF SaleInv, VisitedOK
<1>4. payout = NoPayout
  BY <1>1 DEF SaleInv, ClosingOK, PaidOutOK, BiddingOpen
<1>5. \A l \in Lots : lot[l].state = "open" =>
        /\ lot'[l].state = "closed" /\ lot'[l].reserve = lot[l].reserve
        /\ lot'[l].winning_buyer # Nobody <=> Sells(bids[l], lot[l].reserve)
        /\ Sells(bids[l], lot[l].reserve) => lot'[l].winning_amount = TopBid(bids[l]).amount
  <2> SUFFICES ASSUME NEW l \in Lots, lot[l].state = "open"
               PROVE  /\ lot'[l].state = "closed" /\ lot'[l].reserve = lot[l].reserve
                      /\ lot'[l].winning_buyer # Nobody <=> Sells(bids[l], lot[l].reserve)
                      /\ Sells(bids[l], lot[l].reserve)
                           => lot'[l].winning_amount = TopBid(bids[l]).amount
    OBVIOUS
  <2>1. /\ lot[l] \in Lot /\ bids[l] \in SUBSET BidRow /\ lot[l].winning_buyer = Nobody
        /\ bids[l] # {} => TopRows(bids[l]) # {}
    BY <1>1 DEF SaleInv, FloorInv, UnsoldOK, TopRowsExist
  <2>2. lot'[l] = ClosedLot(lot[l], bids[l])
    BY <1>1, <1>3 DEF ClosedByAuction, Catalogued
  <2> QED BY <2>1, <2>2, ClosedLotSells
<1>6. \A l \in Lots : lot[l].state # "open" => lot'[l] = lot[l]
  BY <1>1, <1>3 DEF ClosedByAuction, Catalogued, Lot, LotStates
<1>7. \A l \in Lots : lot'[l].state # "open"
  BY <1>5, <1>6
<1>8. TimesOK' /\ EndCoversOpenLots' /\ ClosingOK' /\ DueOK' /\ PaidOutOK'
  BY <1>2, <1>7 DEF TimesOK, EndCoversOpenLots, ClosingOK, DueOK, PaidOutOK
<1>9. VisitedOK'
  BY <1>2 DEF VisitedOK
<1>10. ReservesOK'
  BY <1>1, <1>5, <1>6 DEF SaleInv, ReservesOK
<1>11. PayoutIsSumOfSales'
  <2>1. payout' = HammerOf(closer.held)
    BY <1>1, <1>4
  <2>2. ASSUME NEW l \in Lots
        PROVE  HammerOf(closer.held)[l]
                 = IF lot'[l].state = "closed" /\ lot'[l].winning_buyer # Nobody
                     THEN lot'[l].winning_amount ELSE 0
    <3>1. HammerOf(closer.held)[l] = IF Catalogued(l) /\ Sells(bids[l], lot[l].reserve)
                                       THEN TopBid(bids[l]).amount ELSE 0
      BY <1>3 DEF HammerOf
    <3>2. CASE lot[l].state = "open"
      BY <3>1, <3>2, <1>5 DEF Catalogued
    <3>3. CASE lot[l].state = "closed"
      \* What the auto-close pass decided agrees with what closeAuction computes.
      <4>1. /\ lot[l].winning_buyer # Nobody <=> Sells(bids[l], lot[l].reserve)
            /\ lot[l].winning_buyer # Nobody => lot[l].winning_amount = TopBid(bids[l]).amount
        BY <3>3 DEF SaleInv, ReservesOK, FloorInv, SoldAtTopBid
      <4> QED BY <3>1, <3>3, <4>1, <1>6 DEF Catalogued
    <3>4. CASE lot[l].state \in {"absent", "withdrawn"}
      BY <3>1, <3>4, <1>6 DEF Catalogued
    <3> QED BY <3>2, <3>3, <3>4, <1>1 DEF Lot, LotStates
  <2>3. SettledHammer' = [l \in Lots |-> IF lot'[l].state = "closed" /\ lot'[l].winning_buyer # Nobody
                                           THEN lot'[l].winning_amount ELSE 0]
    BY DEF SettledHammer
  <2>4. HammerOf(closer.held) = [l \in Lots |-> HammerOf(closer.held)[l]]
    BY DEF HammerOf
  <2>5. payout' = SettledHammer'
    BY <2>1, <2>2, <2>3, <2>4
  <2> QED BY <2>5 DEF PayoutIsSumOfSales
<1> QED BY <1>8, <1>9, <1>10, <1>11 DEF SaleOnly

\* The other steps of the closing transaction.
LEMMA CloserInSale ==
  ASSUME SaleInv, CloserNext, ~ CloseCommit
  PROVE  SaleOnly'
<1>1. closer \in Closer /\ lot \in [Lots -> Lot]
  BY DEF SaleInv, FloorInv, TypeOK
<1>2. ASSUME UNCHANGED <<now, auction, lot, bids, payout, settling>>,
             ClosingOK', DueOK', VisitedOK'
      PROVE  SaleOnly'
  BY <1>2 DEF SaleInv, SaleOnly, TimesOK, EndCoversOpenLots, BiddingOpen, ReservesOK, PaidOutOK,
              PayoutIsSumOfSales, SettledHammer
<1>3. CASE AdminClose
  <2>1. closer'.phase = "due" /\ closer'.by = "admin"
        /\ closer'.held = closer.held /\ closer'.visited = closer.visited
        /\ UNCHANGED <<now, auction, lot, bids, payout, settling>> /\ BiddingOpen
    BY <1>1, <1>3 DEF AdminClose, Closer, floorVars, moneyVars
  <2>2. ClosingOK' /\ DueOK' /\ VisitedOK'
    BY <2>1 DEF ClosingOK, DueOK, BiddingOpen, SaleInv, VisitedOK, Catalogued
  <2> QED BY <1>2, <2>1, <2>2
<1>4. CASE CloseBegin
  <2>1. /\ closer'.phase = IF BiddingOpen THEN "locking" ELSE "idle"
        /\ closer.phase = "due" /\ closer'.by = closer.by
        /\ closer'.held = closer.held /\ closer'.visited = closer.visited
        /\ UNCHANGED <<now, auction, lot, bids, payout, settling>>
    BY <1>1, <1>4 DEF CloseBegin, Closer, floorVars, moneyVars
  <2>2. ClosingOK' /\ DueOK' /\ VisitedOK'
    BY <2>1 DEF SaleInv, ClosingOK, DueOK, BiddingOpen, VisitedOK, Catalogued
  <2> QED BY <1>2, <2>1, <2>2
<1>5. ASSUME NEW l \in Lots, CloseLockLot(l) PROVE SaleOnly'
  <2>1. /\ closer'.phase = closer.phase /\ closer'.by = closer.by
        /\ closer'.visited = closer.visited \cup {l}
        /\ closer'.held = IF Catalogued(l) THEN closer.held \cup {l} ELSE closer.held
        /\ UNCHANGED <<now, auction, lot, bids, payout, settling>>
    BY <1>1, <1>5 DEF CloseLockLot, Closer, floorVars, moneyVars
  <2>2. ClosingOK' /\ DueOK'
    BY <2>1 DEF SaleInv, ClosingOK, DueOK, BiddingOpen
  <2>3. VisitedOK'
    BY <2>1 DEF SaleInv, VisitedOK, Catalogued
  <2> QED BY <1>2, <2>1, <2>2, <2>3
<1>6. CASE AbortClose
  <2>1. /\ closer'.phase = "idle" /\ closer'.visited = {} /\ closer'.held = {}
        /\ UNCHANGED <<now, auction, lot, bids, payout, settling>>
    BY <1>1, <1>6 DEF AbortClose, Closer, floorVars, moneyVars
  <2>2. ClosingOK' /\ DueOK' /\ VisitedOK'
    BY <2>1 DEF ClosingOK, DueOK, VisitedOK
  <2> QED BY <1>2, <2>1, <2>2
<1>7. CASE StoreSettlement \/ LoseSettlement
  <2>1. /\ UNCHANGED <<now, auction, lot, bids, closer>>
        /\ settling /\ ~ settling'
        /\ payout' = payout \/ payout' = SettledHammer
    BY <1>7 DEF StoreSettlement, LoseSettlement, floorVars
  <2>2. TimesOK' /\ EndCoversOpenLots' /\ ClosingOK' /\ DueOK' /\ VisitedOK' /\ ReservesOK'
    BY <2>1 DEF SaleInv, TimesOK, EndCoversOpenLots, ClosingOK, DueOK, BiddingOpen, VisitedOK,
                Catalogued, ReservesOK
  <2>3. PaidOutOK' /\ PayoutIsSumOfSales'
    BY <2>1 DEF SaleInv, PaidOutOK, PayoutIsSumOfSales, SettledHammer
  <2> QED BY <2>2, <2>3 DEF SaleOnly
<1> QED BY <1>3, <1>4, <1>5, <1>6, <1>7 DEF CloserNext

LEMMA SaleInvNext == SaleInv /\ [SaleNext]_vars => SaleInv'
<1> SUFFICES ASSUME SaleInv, [SaleNext]_vars PROVE SaleInv'
  OBVIOUS
<1>1. FloorInv'
  BY FloorInvNext, SaleStepIsAStep DEF SaleInv
<1>2. auction \in Auction /\ closer \in Closer /\ now \in Nat
  BY DEF SaleInv, FloorInv, TypeOK
<1>3. SaleOnly'
  <2>1. CASE UNCHANGED vars
    BY <2>1, <1>2, CalmStep DEF vars
  <2>2. CASE auction.state = "draft" /\ PublishAuction
    BY <2>2, PublishInSale
  <2>3. CASE BuyerNext
    <3>1. ASSUME NEW t \in BidNumbers, SubmitBid(t) \/ LockLot(t) \/ AbortBid(t) PROVE SaleOnly'
      <4>1. UNCHANGED <<now, auction, lot, bids, closer, payout, settling>>
        BY <3>1 DEF SubmitBid, LockLot, AbortBid, floorVars, moneyVars
      <4> QED BY <4>1, <1>2, CalmStep
    <3> QED BY <2>3, <3>1, BidInSale DEF BuyerNext
  <2>4. CASE SchedulerNext
    <3>1. CASE Tick \/ AutoCloseScan
      <4>1. /\ UNCHANGED <<auction, lot, bids, closer, payout, settling>>
            /\ now' = now \/ now' = now + 1
        BY <3>1 DEF Tick, AutoCloseScan, floorVars, moneyVars
      <4>2. now' \in Nat /\ now' >= now
        BY <4>1, <1>2
      <4> QED BY <4>1, <4>2, <1>2, CalmStep
    <3>2. CASE PromoteAuction
      <4>1. /\ UNCHANGED <<now, lot, bids, closer, payout, settling>>
            /\ auction.state = "published" /\ auction'.state = "active"
            /\ auction'.end_time = auction.end_time
        BY <3>2, <1>2 DEF PromoteAuction, Auction, floorVars, moneyVars
      <4> QED BY <4>1, <1>2, CalmStep DEF BiddingOpen
    <3>3. CASE CloseScan
      <4>1. /\ UNCHANGED <<now, auction, lot, bids, payout, settling>>
            /\ auction.state = "active" /\ closer'.phase = "due" /\ closer'.by = "scheduler"
            /\ closer'.held = closer.held /\ closer'.visited = closer.visited
        BY <3>3, <1>2 DEF CloseScan, Closer, floorVars, moneyVars
      <4>2. DueOK'
        \* The auction's end is reached, so every lot it covers has run out too.
        <5>1. \A l \in Lots : lot[l].state = "open" => auction.end_time =< now
          BY <3>3 DEF CloseScan, EndReached, NoOpenLot
        <5>2. \A l \in Lots : lot[l].state = "open" => lot[l].closes_at =< auction.end_time
          BY <4>1 DEF SaleInv, EndCoversOpenLots, BiddingOpen
        <5>3. auction.end_time \in Int /\ \A l \in Lots : lot[l].closes_at \in Int
          BY DEF SaleInv, FloorInv, TypeOK, Auction, Lot
        <5> QED BY <4>1, <5>1, <5>2, <5>3, <1>2 DEF DueOK
      <4>3. ClosingOK' /\ VisitedOK'
        BY <4>1 DEF SaleInv, ClosingOK, VisitedOK, Catalogued
      <4> QED BY <4>1, <4>2, <4>3
          DEF SaleInv, SaleOnly, TimesOK, EndCoversOpenLots, BiddingOpen, ReservesOK, PaidOutOK,
              PayoutIsSumOfSales, SettledHammer
    <3> QED BY <2>4, <3>1, <3>2, <3>3, AutoCloseInSale DEF SchedulerNext
  <2>5. CASE CloserNext
    BY <2>5, CommitInSale, CloserInSale
  <2> QED BY <2>1, <2>2, <2>3, <2>4, <2>5 DEF SaleNext
<1> QED BY <1>1, <1>3 DEF SaleInv, SaleOnly

-----------------------------------------------------------------------------
(* The theorems about a sale nobody interferes with. *)

\* applyAntiSnipe and publishAuction: while bidding is open auctions.end_time covers the
\* closing time of every open lot, however often the soft close extended it.
THEOREM EndCovers == SaleSpec => []EndCoversOpenLots
<1>1. SaleInv => EndCoversOpenLots
  BY DEF SaleInv
<1> QED BY <1>1, SaleInvInit, SaleInvNext, PTL DEF SaleSpec

\* runLotAutoClose and the auction state scheduler: neither closes a lot that still has
\* time on its clock, not even when it was extended after the scheduler's scan.
THEOREM NoneClosedEarly == SaleSpec => NoLotClosedEarly
<1> DEFINE Early == \A l \in Lots :
                      lot[l].state = "open" /\ lot'[l].state = "closed"
                        => \/ Scheduled(l) /\ lot[l].closes_at =< now
                           \/ closer.by = "admin" /\ l \in closer.held
<1>1. SaleInv /\ [SaleNext]_vars => [Early]_vars
  <2> SUFFICES ASSUME SaleInv, [SaleNext]_vars, NEW l \in Lots,
                      lot[l].state = "open", lot'[l].state = "closed"
               PROVE  \/ Scheduled(l) /\ lot[l].closes_at =< now
                      \/ closer.by = "admin" /\ l \in closer.held
    OBVIOUS
  <2>1. lot \in [Lots -> Lot] /\ closer \in Closer
    BY DEF SaleInv, FloorInv, TypeOK
  <2>2. CASE CloseCommit
    <3>1. closer.by = "scheduler" => lot[l].closes_at =< now
      BY <2>2 DEF CloseCommit, SaleInv, DueOK
    <3>2. Scheduled(l)
      BY <2>1, <2>2 DEF CloseCommit, SaleInv, ClosingOK, TimesOK, Scheduled, Null
    <3>3. l \in closer.held
      BY <2>1, <2>2 DEF CloseCommit, ClosedByAuction
    <3> QED BY <3>1, <3>2, <3>3, <2>1 DEF Closer
  <2>3. CASE \E k \in Lots : AutoCloseLot(k)
    BY <2>1, <2>3 DEF AutoCloseLot, TimeIsUp
  <2>4. CASE ~ CloseCommit /\ ~ \E k \in Lots : AutoCloseLot(k)
    <3>1. lot' = lot \/ PublishAuction \/ \E t \in BidNumbers : CommitBid(t)
      BY <2>4 DEF SaleNext, vars, BuyerNext, SubmitBid, LockLot, AbortBid, SchedulerNext, Tick,
                  PromoteAuction, AutoCloseScan, CloseScan, CloserNext, AdminClose, CloseBegin,
                  CloseLockLot, AbortClose, StoreSettlement, LoseSettlement
    <3>2. CASE PublishAuction
      <4>1. lot'[l].state = lot[l].state
        BY <2>1, <3>2 DEF PublishAuction, Lot
      <4> QED BY <4>1
    <3>3. ASSUME NEW t \in BidNumbers, CommitBid(t) PROVE lot'[l].state = lot[l].state
      <4> DEFINE k == request[t].lot
      <4>1. FloorInv
        BY DEF SaleInv
      <4>2. PICK w \in People, price \in Nat :
              /\ k \in Lots
              /\ lot' = [lot EXCEPT ![k] = AfterBid(k, w, price)]
              /\ bids' = [bids EXCEPT ![k] = @ \cup {NewRow(w, price, t)}]
        BY <3>3, <4>1, BidKeepsTypes
      <4> QED BY <4>2, <2>1 DEF AfterBid, Lot
    <3> QED BY <3>1, <3>2, <3>3
  <2> QED BY <2>2, <2>3, <2>4
<1> HIDE DEF Early
<1>2. SaleSpec => [][Early]_vars
  BY <1>1, SaleInvInit, SaleInvNext, PTL DEF SaleSpec
<1> QED BY <1>2 DEF Early, NoLotClosedEarly

\* closeAuction and storeSettlement: the hammer total of the payout is, lot by lot, what
\* the lots were sold for, before and after the settlement and when it is lost.
THEOREM PayoutIsTheSumOfSales == SaleSpec => []PayoutIsSumOfSales
<1>1. SaleInv => PayoutIsSumOfSales
  BY DEF SaleInv
<1> QED BY <1>1, SaleInvInit, SaleInvNext, PTL DEF SaleSpec

-----------------------------------------------------------------------------
(* The floor implements ProxySale: every step of the floor is a step of    *)
(* the sale on the rows that stand for it, or leaves them alone.           *)

SaleVars == <<SaleStage, SaleReserve, SaleBook, SaleResult>>
SaleStep == [Sale!Next]_SaleVars

\* What the sale reads off the row, the proxies and the bids of a lot.
ReserveOf(row) == IF row.reserve = Null THEN 0 ELSE row.reserve
BookOf(row, px, rows) ==
  [count |-> row.bid_count, maximum |-> [b \in People |-> px[b].max],
   leader |-> row.current_winner, price |-> IF rows = {} THEN 0 ELSE TopBid(rows).amount]
ResultOf(row) ==
  [buyer |-> row.winning_buyer, paid |-> IF row.winning_buyer = Nobody THEN 0 ELSE row.winning_amount]

LEMMA SaleOf ==
  /\ SaleStage = [l \in Lots |-> lot[l].state]
  /\ SaleStage' = [l \in Lots |-> lot'[l].state]
  /\ SaleReserve = [l \in Lots |-> ReserveOf(lot[l])]
  /\ SaleReserve' = [l \in Lots |-> ReserveOf(lot'[l])]
  /\ SaleBook = [l \in Lots |-> BookOf(lot[l], proxy[l], bids[l])]
  /\ SaleBook' = [l \in Lots |-> BookOf(lot'[l], proxy'[l], bids'[l])]
  /\ SaleResult = [l \in Lots |-> ResultOf(lot[l])]
  /\ SaleResult' = [l \in Lots |-> ResultOf(lot'[l])]
BY DEF SaleStage, SaleReserve, SaleBook, SaleResult, ReserveOf, BookOf, ResultOf

\* Of a lots row the sale sees these columns.
SameStage(row, new)   == new.state = row.state
SameReserve(row, new) == new.reserve = row.reserve
SameBook(row, new)    == new.bid_count = row.bid_count /\ new.current_winner = row.current_winner
SameResult(row, new)  == /\ new.winning_buyer = row.winning_buyer
                         /\ new.winning_amount = row.winning_amount

LEMMA Unseen ==
  /\ (\A l \in Lots : SameStage(lot[l], lot'[l])) => SaleStage' = SaleStage
  /\ (\A l \in Lots : SameReserve(lot[l], lot'[l])) => SaleReserve' = SaleReserve
  /\ (\A l \in Lots : SameBook(lot[l], lot'[l])) /\ UNCHANGED <<proxy, bids>> => SaleBook' = SaleBook
  /\ (\A l \in Lots : SameResult(lot[l], lot'[l])) => SaleResult' = SaleResult
<1>1. (\A l \in Lots : SameStage(lot[l], lot'[l])) => SaleStage' = SaleStage
  BY SaleOf DEF SameStage
<1>2. (\A l \in Lots : SameReserve(lot[l], lot'[l])) => SaleReserve' = SaleReserve
  <2>1. ASSUME NEW l \in Lots, SameReserve(lot[l], lot'[l]) PROVE ReserveOf(lot'[l]) = ReserveOf(lot[l])
    BY <2>1 DEF SameReserve, ReserveOf
  <2> QED BY <2>1, SaleOf
<1>3. (\A l \in Lots : SameBook(lot[l], lot'[l])) /\ UNCHANGED <<proxy, bids>> => SaleBook' = SaleBook
  <2> SUFFICES ASSUME \A l \in Lots : SameBook(lot[l], lot'[l]), UNCHANGED <<proxy, bids>>
               PROVE  SaleBook' = SaleBook
    OBVIOUS
  <2>1. ASSUME NEW l \in Lots
        PROVE  BookOf(lot'[l], proxy'[l], bids'[l]) = BookOf(lot[l], proxy[l], bids[l])
    BY DEF SameBook, BookOf
  <2> QED BY <2>1, SaleOf
<1>4. (\A l \in Lots : SameResult(lot[l], lot'[l])) => SaleResult' = SaleResult
  <2>1. ASSUME NEW l \in Lots, SameResult(lot[l], lot'[l]) PROVE ResultOf(lot'[l]) = ResultOf(lot[l])
    BY <2>1 DEF SameResult, ResultOf
  <2> QED BY <2>1, SaleOf
<1> QED BY <1>1, <1>2, <1>3, <1>4

\* A step that writes nothing the sale is about.
LEMMA NothingSold ==
  ASSUME UNCHANGED <<proxy, bids>>,
         \A l \in Lots : /\ SameStage(lot[l], lot'[l]) /\ SameReserve(lot[l], lot'[l])
                         /\ SameBook(lot[l], lot'[l]) /\ SameResult(lot[l], lot'[l])
  PROVE  SaleStep
<1>1. UNCHANGED SaleVars
  BY Unseen DEF SaleVars
<1> QED BY <1>1 DEF SaleStep

LEMMA PublishInTheSale == ASSUME FloorInv, PublishAuction PROVE SaleStep
<1>1. lot \in [Lots -> Lot] /\ UNCHANGED <<proxy, bids>>
  BY DEF FloorInv, TypeOK, PublishAuction, floorVars
<1>2. ASSUME NEW l \in Lots
      PROVE  /\ SameStage(lot[l], lot'[l]) /\ SameReserve(lot[l], lot'[l])
             /\ SameBook(lot[l], lot'[l]) /\ SameResult(lot[l], lot'[l])
  <2>1. lot'[l] = lot[l] \/ lot'[l] = [lot[l] EXCEPT !.closes_at = StaggeredClose(l)]
    BY DEF PublishAuction
  <2> QED BY <1>1, <2>1 DEF SameStage, SameReserve, SameBook, SameResult, Lot
<1> QED BY <1>1, <1>2, NothingSold

\* The top bid row once a bid has written its own.
LEMMA TopAfterBid ==
  ASSUME NEW rows \in SUBSET BidRow, NEW new \in BidRow, rows # {} => TopRows(rows) # {}
  PROVE  /\ TopBid(rows \cup {new}) \in rows \cup {new}
         /\ \A q \in rows \cup {new} : q.amount =< TopBid(rows \cup {new}).amount
         /\ rows # {} => TopBid(rows) \in rows
<1> DEFINE all == rows \cup {new}
<1>1. all \in SUBSET BidRow /\ TopRows(all) # {}
  BY TopRowsAfterBid
<1>2. TopBid(all) \in all /\ TopBid(all) \in TopRows(all)
  <2> HIDE DEF all
  <2> QED BY <1>1, TopBidIsABid
<1>3. \A q \in all : q.amount \in Nat
  BY <1>1 DEF BidRow
<1>4. \A q \in all : q.amount =< TopBid(all).amount
  <2> HIDE DEF all
  <2> QED BY <1>2, <1>3 DEF TopRows
<1>5. rows # {} => TopBid(rows) \in rows
  BY TopBidIsABid
<1> QED BY <1>2, <1>4, <1>5

\* The sale's rules for a bid of s after which w leads: the maxima, the leader and the
\* top bid of one lot, before (px, rows, cw) and after (npx, nrows, w).
FairBid(px, npx, rows, nrows, cw, s, w) ==
  LET was == IF rows = {} THEN 0 ELSE TopBid(rows).amount
      top == TopBid(nrows).amount
  IN  /\ top \in Nat
      /\ npx[s].max >= px[s].max
      /\ \A b \in People \ {s} : npx[b] = px[b]
      /\ w \in ({cw} \cap People) \cup {s}
      /\ cw \in People \ {w} => top > was
      /\ top >= was
      /\ top =< npx[w].max
      /\ \A b \in People \ {w} : npx[b].max =< top

LEMMA BidIsFair ==
  ASSUME NEW px, NEW rows, NEW row, NEW s, NEW m, NEW t, NEW w, NEW r,
         AcceptedBid(px, rows, row, s, m, t, w, r),
         rows # {} => TopRows(rows) # {},
         NEW npx, npx = BidOn(px, s, m, t),
         NEW price \in Nat, price = VisiblePrice(row, npx, w, r),
         NEW nrows, nrows = rows \cup {NewRow(w, price, t)},
         FloorOK(npx, nrows, w, price)
  PROVE  FairBid(px, npx, rows, nrows, row.current_winner, s, w)
<1> DEFINE new == NewRow(w, price, t)
           cw  == row.current_winner
           was == IF rows = {} THEN 0 ELSE TopBid(rows).amount
           top == TopBid(nrows).amount
<1>1. /\ px \in [People -> Proxy] /\ rows \in SUBSET BidRow /\ row \in Lot
      /\ s \in People /\ m \in Nat /\ t \in BidNumbers
      /\ FloorOK(px, rows, cw, row.current_bid)
      /\ w \in Foremost(npx, Entered(npx)) /\ r \in SecondTo(npx, w)
  BY DEF AcceptedBid
<1>2. /\ npx \in [People -> Proxy]
      /\ npx[s].max >= px[s].max
      /\ \A b \in People \ {s} : npx[b] = px[b]
  <2>1. /\ RaisedMax(px[s], m, t) \in Proxy
        /\ RaisedMax(px[s], m, t).max >= px[s].max
    BY <1>1 DEF RaisedMax, Proxy, BidNumbers
  <2> QED BY <1>1, <2>1 DEF BidOn
<1>3. /\ w \in People /\ npx[w].max > 0 /\ \A b \in People : npx[b].max \in Nat
      /\ \A b \in People : npx[b].max =< npx[w].max
  BY <1>1, <1>2, LeaderHasTheMaximum DEF Proxy
<1>4. new \in BidRow /\ new.amount = price /\ new.bidder = w
  BY <1>1, <1>3 DEF NewRow, BidRow
<1>5. /\ TopBid(nrows) \in nrows
      /\ \A q \in nrows : q.amount =< top
      /\ rows # {} => TopBid(rows) \in rows
  BY <1>1, <1>4, TopAfterBid
<1>6. \A q \in nrows : q.amount \in Nat /\ q.bidder \in People
  BY <1>1, <1>4 DEF BidRow
<1>7. top \in Nat /\ top >= was /\ top >= price /\ was \in Nat
  BY <1>1, <1>4, <1>5, <1>6 DEF BidRow
<1>8. top =< npx[w].max
  <2>1. TopBid(nrows).amount =< npx[TopBid(nrows).bidder].max
    BY <1>5 DEF FloorOK, Authorised
  <2> QED BY <2>1, <1>3, <1>5, <1>6
<1>9. w = cw \/ w = s
  BY OnlyTheBidderTakesTheLead
<1>10. cw \in People \ {w} => top > was
  <2> SUFFICES ASSUME cw \in People \ {w} PROVE top > was
    OBVIOUS
  <2>1. rows # {}
    BY <1>1, PeopleAssumption DEF FloorOK, Leads
  <2> DEFINE q == TopBid(rows)
  <2>2. q \in rows /\ q \in nrows /\ was = q.amount
    BY <1>5, <2>1
  <2>3. \A p \in rows : p.amount =< q.amount
    <3>1. q \in TopRows(rows)
      BY <1>1, <2>1, TopBidIsABid
    <3> QED BY <3>1, <1>6 DEF TopRows
  <2> HIDE DEF q
  <2>4. q.bidder # w
    \* Otherwise the old leader had a higher row.
    BY <2>2, <2>3, <1>1, <1>6 DEF FloorOK, LeaderTops
  <2>5. PICK p \in nrows : p.amount > q.amount
    BY <2>2, <2>4 DEF FloorOK, LeaderTops
  <2>6. q.amount \in Nat /\ p.amount \in Nat /\ p.amount =< top
    BY <2>2, <2>5, <1>5, <1>6
  <2> HIDE DEF top, was
  <2> QED BY <2>2, <2>5, <2>6, <1>7
<1>11. \A b \in People \ {w} : npx[b].max =< top
  <2> SUFFICES ASSUME NEW b \in People \ {w}, npx[b].max > 0 PROVE npx[b].max =< top
    <3> HIDE DEF top
    <3> QED BY <1>3, <1>7
  <2>1. b \in Entered(npx) \ {w}
    BY DEF Entered
  <2>2. r \in Foremost(npx, Entered(npx) \ {w})
    BY <1>1, <2>1 DEF SecondTo
  <2>3. r \in People /\ r # Nobody /\ npx[b].max =< npx[r].max
    BY <2>1, <2>2, <1>3, PeopleAssumption DEF Foremost, Entered, Ahead
  <2>4. /\ effectiveIncrement(npx[r].max, row.increment) \in Nat
        /\ effectiveIncrement(npx[r].max, row.increment) > 0
    <3>1. npx[r].max \in Nat /\ row.increment \in Nat
      BY <1>1, <1>3, <2>3 DEF Lot
    <3> QED BY <3>1, IncrementPositive
  <2>5. price >= npx[r].max
    BY <1>3, <2>3, <2>4 DEF VisiblePrice
  <2> QED BY <1>3, <1>7, <2>3, <2>5
<1> QED BY <1>1, <1>2, <1>3, <1>7, <1>8, <1>9, <1>10, <1>11 DEF FairBid

\* createBid.
LEMMA BidInTheSale == ASSUME FloorInv, NEW t \in BidNumbers, CommitBid(t) PROVE SaleStep
<1> DEFINE l  == request[t].lot
           s  == request[t].bidder
           m  == request[t].ceiling
           px == [proxy[l] EXCEPT ![s] = RaisedMax(@, m, t)]
<1>1. PICK w \in People, price \in Nat :
        \E r : /\ l \in Lots
              /\ proxy' = [proxy EXCEPT ![l] = px]
              /\ lot' = [lot EXCEPT ![l] = AfterBid(l, w, price)]
              /\ bids' = [bids EXCEPT ![l] = @ \cup {NewRow(w, price, t)}]
              /\ FloorOK(px, bids[l] \cup {NewRow(w, price, t)}, w, price)
              /\ AcceptedBid(proxy[l], bids[l], lot[l], s, m, t, w, r)
              /\ price = VisiblePrice(lot[l], px, w, r)
  BY BidWrites
<1>2. PICK r :
        /\ l \in Lots
        /\ proxy' = [proxy EXCEPT ![l] = px]
        /\ lot' = [lot EXCEPT ![l] = AfterBid(l, w, price)]
        /\ bids' = [bids EXCEPT ![l] = @ \cup {NewRow(w, price, t)}]
        /\ FloorOK(px, bids[l] \cup {NewRow(w, price, t)}, w, price)
        /\ AcceptedBid(proxy[l], bids[l], lot[l], s, m, t, w, r)
        /\ price = VisiblePrice(lot[l], px, w, r)
  BY <1>1
<1>3. /\ lot \in [Lots -> Lot] /\ proxy \in [Lots -> [People -> Proxy]]
      /\ bids \in [Lots -> SUBSET BidRow]
  BY DEF FloorInv, TypeOK
<1>4. bids[l] # {} => TopRows(bids[l]) # {}
  BY <1>2 DEF FloorInv, TopRowsExist
<1>5. lot[l].state = "open"
  BY DEF FloorInv, LocksOK, CommitBid
<1>6. px = BidOn(proxy[l], s, m, t)
  BY DEF BidOn
<1>7. /\ l \in Lots
      /\ proxy' = [proxy EXCEPT ![l] = px]
      /\ lot' = [lot EXCEPT ![l] = AfterBid(l, w, price)]
      /\ bids' = [bids EXCEPT ![l] = @ \cup {NewRow(w, price, t)}]
  BY <1>2
<1>8. /\ AcceptedBid(proxy[l], bids[l], lot[l], s, m, t, w, r)
      /\ price = VisiblePrice(lot[l], px, w, r)
      /\ FloorOK(px, bids[l] \cup {NewRow(w, price, t)}, w, price)
  BY <1>2
<1> DEFINE rows == bids[l] \cup {NewRow(w, price, t)}
<1>9. \A k \in Lots \ {l} : lot'[k] = lot[k] /\ proxy'[k] = proxy[k] /\ bids'[k] = bids[k]
  BY <1>7, <1>3
<1>10. lot'[l] = AfterBid(l, w, price)
  BY <1>7, <1>3
<1>11. proxy'[l] = px
  BY <1>7, <1>3
<1>12. bids'[l] = rows
  BY <1>7, <1>3
<1> HIDE DEF l, s, m, px
<1>13. /\ lot'[l] = AfterBid(l, w, price) /\ proxy'[l] = px /\ bids'[l] = rows
       /\ \A k \in Lots \ {l} : lot'[k] = lot[k] /\ proxy'[k] = proxy[k] /\ bids'[k] = bids[k]
  BY <1>9, <1>10, <1>11, <1>12
<1>14. rows = bids[l] \cup {NewRow(w, price, t)} /\ FloorOK(px, rows, w, price)
  BY <1>8
<1> HIDE DEF rows
<1> DEFINE old  == BookOf(lot[l], proxy[l], bids[l])
           new  == BookOf(lot'[l], px, rows)
<1>15. FairBid(proxy[l], px, bids[l], rows, lot[l].current_winner, s, w)
  <2>1. price \in Nat
    OBVIOUS
  <2> QED BY ONLY <1>6, <1>8, <1>14, <1>4, <2>1, BidIsFair
<1>16. LET was == IF bids[l] = {} THEN 0 ELSE TopBid(bids[l]).amount
          top == TopBid(rows).amount
      IN  /\ top \in Nat
          /\ px[s].max >= proxy[l][s].max
          /\ \A b \in People \ {s} : px[b] = proxy[l][b]
          /\ w \in ({lot[l].current_winner} \cap People) \cup {s}
          /\ lot[l].current_winner \in People \ {w} => top > was
          /\ top >= was
          /\ top =< px[w].max
          /\ \A b \in People \ {w} : px[b].max =< top
  BY <1>15 DEF FairBid
<1>17. s \in People /\ rows # {}
  BY <1>8, <1>14 DEF AcceptedBid
<1>18. \A b \in People : px[b].max \in Nat
  <2>1. TypeOK'
    BY BidWrites
  <2>2. px \in [People -> Proxy]
    BY <1>2, <1>13, <2>1 DEF TypeOK
  <2> QED BY <2>2 DEF Proxy
<1>19. /\ lot'[l].state = lot[l].state /\ lot'[l].reserve = lot[l].reserve
       /\ lot'[l].bid_count = lot[l].bid_count + 1
       /\ lot'[l].current_winner = w
       /\ lot'[l].winning_buyer = lot[l].winning_buyer
       /\ lot'[l].winning_amount = lot[l].winning_amount
  BY <1>2, <1>3, <1>13 DEF AfterBid, Lot
<1>20. /\ old.count = lot[l].bid_count /\ old.leader = lot[l].current_winner
       /\ old.price = IF bids[l] = {} THEN 0 ELSE TopBid(bids[l]).amount
       /\ \A b \in People : old.maximum[b] = proxy[l][b].max
       /\ new.count = lot[l].bid_count + 1
       /\ new.leader = w /\ new.price = TopBid(rows).amount
       /\ \A b \in People : new.maximum[b] = px[b].max
  BY <1>17, <1>19 DEF BookOf
<1>21. new \in Sale!Book
  <2>1. /\ lot[l].bid_count + 1 \in Nat /\ w \in People
        /\ TopBid(rows).amount \in Nat /\ rows # {}
    BY <1>2, <1>3, <1>16, <1>17 DEF Lot
  <2>2. \A b \in People : px[b].max \in Nat
    BY <1>18
  <2> QED BY <1>19, <2>1, <2>2 DEF BookOf, Sale!Book
<1>22. SaleBook[l] = old /\ SaleBook'[l] = new /\ SaleBook' = [SaleBook EXCEPT ![l] = new]
  <2>1. old = BookOf(lot[l], proxy[l], bids[l]) /\ new = BookOf(lot'[l], proxy'[l], bids'[l])
    BY <1>13
  <2>2. ASSUME NEW k \in Lots \ {l}
        PROVE  BookOf(lot'[k], proxy'[k], bids'[k]) = BookOf(lot[k], proxy[k], bids[k])
    BY <1>13
  <2>3. /\ SaleBook = [k \in Lots |-> BookOf(lot[k], proxy[k], bids[k])]
        /\ SaleBook' = [k \in Lots |-> BookOf(lot'[k], proxy'[k], bids'[k])]
    BY SaleOf
  <2>4. l \in Lots
    BY <1>7
  <2> HIDE DEF old, new
  <2> QED BY ONLY <2>1, <2>2, <2>3, <2>4
<1>23. SaleStage[l] = "open" /\ UNCHANGED <<SaleStage, SaleReserve, SaleResult>>
  <2>1. \A k \in Lots : /\ SameStage(lot[k], lot'[k]) /\ SameReserve(lot[k], lot'[k])
                        /\ SameResult(lot[k], lot'[k])
    BY <1>13, <1>19 DEF SameStage, SameReserve, SameResult
  <2> QED BY <1>7, <1>5, <2>1, SaleOf, Unseen
<1> HIDE DEF old, new
<1>24. Sale!Priced(new)
  <2>1. w \in People
    BY <1>16, <1>17
  <2> QED BY <1>16, <1>20, <2>1 DEF Sale!Priced
<1>25. Sale!Bid(l, s)
  BY <1>16, <1>17, <1>20, <1>21, <1>22, <1>23, <1>24 DEF Sale!Bid
<1> QED BY <1>2, <1>17, <1>25 DEF SaleStep, SaleVars, Sale!Next

\* closeAuction and runLotAutoClose bring the hammer down on an open lot.
LEMMA HammerFalls ==
  ASSUME FloorInv, NEW l \in Lots, lot[l].state = "open"
  PROVE  LET new == ClosedLot(lot[l], bids[l])
         IN  /\ new.state = "closed"
             /\ SameReserve(lot[l], new) /\ SameBook(lot[l], new)
             /\ ResultOf(new) = Sale!Outcome(SaleBook[l], SaleReserve[l])
<1> DEFINE row  == lot[l]
           rows == bids[l]
           new  == ClosedLot(row, rows)
           book == SaleBook[l]
<1>1. /\ row \in Lot /\ rows \in SUBSET BidRow /\ row.winning_buyer = Nobody
      /\ rows # {} => TopRows(rows) # {}
  BY DEF FloorInv, TypeOK, UnsoldOK, TopRowsExist
<1>2. rows = {} <=> row.current_winner = Nobody
  BY PeopleAssumption DEF FloorInv, FloorsOK, FloorOK, Leads, Foremost, Entered
<1>3. rows # {} => /\ TopBid(rows).amount \in Nat
                   /\ TopBid(rows).bidder = row.current_winner
                   /\ row.current_winner \in People
  <2> SUFFICES ASSUME rows # {} PROVE /\ TopBid(rows).amount \in Nat
                                      /\ TopBid(rows).bidder = row.current_winner
                                      /\ row.current_winner \in People
    OBVIOUS
  <2>1. TopBid(rows) \in rows /\ TopBid(rows) \in TopRows(rows)
    BY <1>1, TopBidIsABid
  <2>2. TopBid(rows).bidder = row.current_winner
    BY <2>1, FloorLeader DEF LeaderIsTopBidder
  <2> QED BY <1>1, <2>1, <2>2 DEF BidRow
<1>4. /\ book.leader = row.current_winner
      /\ book.price = IF rows = {} THEN 0 ELSE TopBid(rows).amount
      /\ SaleReserve[l] = ReserveOf(row)
  BY SaleOf DEF BookOf
<1>5. Sells(rows, row.reserve) <=> book.leader # Nobody /\ book.price >= SaleReserve[l]
  <2> HIDE DEF book
  <2> QED BY <1>1, <1>2, <1>3, <1>4 DEF Sells, ReserveMet, ReserveOf, Lot, Null
<1>6. new.state = "closed" /\ SameReserve(row, new) /\ SameBook(row, new)
  BY <1>1 DEF ClosedLot, Lot, SameReserve, SameBook
<1>7. ResultOf(new) = Sale!Outcome(book, SaleReserve[l])
  <2>1. CASE Sells(rows, row.reserve)
    <3>1. new.winning_buyer = TopBid(rows).bidder /\ new.winning_amount = TopBid(rows).amount
      BY <1>1, <2>1 DEF ClosedLot, Lot
    <3>2. new.winning_buyer = book.leader /\ new.winning_amount = book.price /\ book.leader # Nobody
      BY <1>3, <1>4, <2>1, <3>1, PeopleAssumption DEF Sells
    <3> HIDE DEF new, book
    <3> QED BY <1>5, <2>1, <3>2 DEF ResultOf, Sale!Outcome
  <2>2. CASE ~ Sells(rows, row.reserve)
    <3>1. new.winning_buyer = Nobody
      BY <1>1, <2>2 DEF ClosedLot, Lot
    <3> HIDE DEF new, book
    <3> QED BY <1>5, <2>2, <3>1 DEF ResultOf, Sale!Outcome, Sale!NotSold
  <2> QED BY <2>1, <2>2
<1> QED BY <1>6, <1>7

\* The hammer falls on the lots of S, and no other row is written.
LEMMA HammerOn ==
  ASSUME FloorInv, NEW S \in SUBSET Lots, UNCHANGED <<proxy, bids>>,
         \A l \in S : lot[l].state = "open",
         \A l \in Lots : lot'[l] = IF l \in S THEN ClosedLot(lot[l], bids[l]) ELSE lot[l]
  PROVE  SaleStep
<1>1. \A l \in S : /\ lot'[l].state = "closed"
                   /\ SameReserve(lot[l], lot'[l]) /\ SameBook(lot[l], lot'[l])
                   /\ ResultOf(lot'[l]) = Sale!Outcome(SaleBook[l], SaleReserve[l])
  BY HammerFalls
<1>2. \A l \in S : SaleStage[l] = "open"
  BY SaleOf
<1>3. SaleStage' = [l \in Lots |-> IF l \in S THEN "closed" ELSE SaleStage[l]]
  BY <1>1, SaleOf
<1>4. SaleResult' = [l \in Lots |-> IF l \in S THEN Sale!Outcome(SaleBook[l], SaleReserve[l])
                                               ELSE SaleResult[l]]
  BY <1>1, SaleOf
<1>5. SaleReserve' = SaleReserve /\ SaleBook' = SaleBook
  <2>1. \A l \in Lots : SameReserve(lot[l], lot'[l]) /\ SameBook(lot[l], lot'[l])
    BY <1>1 DEF SameReserve, SameBook
  <2> QED BY <2>1, Unseen
<1>6. Sale!Hammer(S)
  BY <1>2, <1>3, <1>4, <1>5 DEF Sale!Hammer
<1> QED BY <1>6 DEF SaleStep, Sale!Next

LEMMA AutoCloseInTheSale == ASSUME FloorInv, NEW k \in Lots, AutoCloseLot(k) PROVE SaleStep
<1>1. lot \in [Lots -> Lot] /\ UNCHANGED <<proxy, bids>>
  BY DEF FloorInv, TypeOK, AutoCloseLot, floorVars
<1>2. CASE TimeIsUp(k)
  <2>1. lot[k].state = "open" /\ lot' = [lot EXCEPT ![k] = ClosedLot(lot[k], bids[k])]
    BY <1>2 DEF AutoCloseLot, TimeIsUp
  <2>2. {k} \in SUBSET Lots /\ \A l \in {k} : lot[l].state = "open"
    BY <2>1
  <2>3. \A l \in Lots : lot'[l] = IF l \in {k} THEN ClosedLot(lot[l], bids[l]) ELSE lot[l]
    BY <1>1, <2>1
  <2> QED BY <1>1, <2>2, <2>3, HammerOn
<1>3. CASE ~ TimeIsUp(k)
  BY <1>1, <1>3, NothingSold DEF AutoCloseLot, SameStage, SameReserve, SameBook, SameResult
<1> QED BY <1>2, <1>3

LEMMA CloseInTheSale == ASSUME FloorInv, CloseCommit PROVE SaleStep
<1> DEFINE S == { l \in Lots : ClosedByAuction(l) }
<1>1. /\ lot \in [Lots -> Lot] /\ UNCHANGED <<proxy, bids>>
      /\ lot' = [l \in Lots |-> IF ClosedByAuction(l) THEN ClosedLot(lot[l], bids[l]) ELSE lot[l]]
  BY DEF FloorInv, TypeOK, CloseCommit, floorVars
<1>2. \A l \in S : lot[l].state = "open"
  BY <1>1 DEF FloorInv, HeldOK, ClosedByAuction, Catalogued, Lot, LotStates
<1>3. S \in SUBSET Lots /\ \A l \in Lots : lot'[l] = IF l \in S THEN ClosedLot(lot[l], bids[l]) ELSE lot[l]
  BY <1>1
<1> HIDE DEF S
<1> QED BY <1>1, <1>2, <1>3, HammerOn

LEMMA EditInTheSale == ASSUME FloorInv, NEW k \in Lots, EditLot(k) PROVE SaleStep
<1>1. lot \in [Lots -> Lot] /\ UNCHANGED <<proxy, bids>> /\ lot[k].state # "absent"
  BY DEF FloorInv, TypeOK, EditLot, floorVars
<1>2. \A l \in Lots : SameStage(lot[l], lot'[l]) /\ SameBook(lot[l], lot'[l]) /\ SameResult(lot[l], lot'[l])
  BY <1>1 DEF EditLot, Lot, SameStage, SameBook, SameResult
<1>3. \A l \in Lots \ {k} : lot'[l] = lot[l]
  BY <1>1 DEF EditLot
<1>4. SaleReserve' = [SaleReserve EXCEPT ![k] = SaleReserve'[k]]
  BY <1>3, SaleOf
<1>5. UNCHANGED <<SaleStage, SaleBook, SaleResult>> /\ SaleStage[k] # "absent"
  BY <1>1, <1>2, SaleOf, Unseen
<1> QED BY <1>4, <1>5 DEF SaleStep, Sale!Next, Sale!SetReserve

LEMMA AddInTheSale == ASSUME FloorInv, NEW k \in Lots, AddLot(k) PROVE SaleStep
<1>1. /\ lot \in [Lots -> Lot] /\ proxy \in [Lots -> [People -> Proxy]]
      /\ UNCHANGED <<proxy, bids>> /\ lot[k].state = "absent"
  BY DEF FloorInv, TypeOK, AddLot, floorVars
<1>2. /\ \A l \in Lots \ {k} : lot'[l] = lot[l]
      /\ lot'[k].state = "open" /\ lot'[k].bid_count = 0
      /\ lot'[k].current_winner = Nobody /\ lot'[k].winning_buyer = Nobody
  BY <1>1 DEF AddLot, NewLot
<1>3. bids[k] = {} /\ \A b \in People : proxy[k][b].max = 0
  <2>1. bids[k] = {} /\ Entered(proxy[k]) = {}
    BY <1>1 DEF FloorInv, AbsentOK, FloorsOK, FloorOK, Leads
  <2>2. \A b \in People : proxy[k][b].max \in Nat
    BY <1>1 DEF Proxy
  <2> QED BY <2>1, <2>2 DEF Entered
<1>4. BookOf(lot'[k], proxy'[k], bids'[k]) = Sale!NoBids /\ ResultOf(lot'[k]) = Sale!NotSold
  BY <1>1, <1>2, <1>3 DEF BookOf, ResultOf, Sale!NoBids, Sale!NotSold
<1>5. /\ SaleStage[k] = "absent" /\ SaleStage' = [SaleStage EXCEPT ![k] = "open"]
      /\ SaleReserve' = [SaleReserve EXCEPT ![k] = SaleReserve'[k]]
      /\ SaleBook' = [SaleBook EXCEPT ![k] = Sale!NoBids]
      /\ SaleResult' = [SaleResult EXCEPT ![k] = Sale!NotSold]
  BY <1>1, <1>2, <1>4, SaleOf
<1> QED BY <1>5 DEF SaleStep, Sale!Next, Sale!Offer

\* RemoveLot and WithdrawLot.
LEMMA WithdrawInTheSale ==
  ASSUME FloorInv, NEW k \in Lots, lot' = [lot EXCEPT ![k].state = "withdrawn"], UNCHANGED <<proxy, bids>>
  PROVE  SaleStep
<1>1. lot \in [Lots -> Lot]
  BY DEF FloorInv, TypeOK
<1>2. \A l \in Lots : SameReserve(lot[l], lot'[l]) /\ SameBook(lot[l], lot'[l]) /\ SameResult(lot[l], lot'[l])
  BY <1>1 DEF Lot, SameReserve, SameBook, SameResult
<1>3. UNCHANGED <<SaleReserve, SaleBook, SaleResult>>
  BY <1>2, Unseen
<1>4. lot'[k].state = "withdrawn" /\ \A l \in Lots \ {k} : lot'[l] = lot[l]
  BY <1>1 DEF Lot
<1>5. SaleStage' = [SaleStage EXCEPT ![k] = "withdrawn"]
  BY <1>4, SaleOf
<1> QED BY <1>3, <1>5 DEF SaleStep, Sale!Next, Sale!Withdraw

LEMMA FloorStepIsASaleStep == FloorInv /\ [Next]_vars => SaleStep
<1> SUFFICES ASSUME FloorInv, [Next]_vars PROVE SaleStep
  OBVIOUS
<1>q. UNCHANGED <<lot, proxy, bids>> => SaleStep
  BY NothingSold DEF SameStage, SameReserve, SameBook, SameResult
<1>1. CASE UNCHANGED vars
  BY <1>1, <1>q DEF vars
<1>2. PublishAuction => SaleStep
  BY PublishInTheSale
<1>3. BuyerNext => SaleStep
  BY <1>q, BidInTheSale DEF BuyerNext, SubmitBid, LockLot, AbortBid, floorVars
<1>4. SchedulerNext => SaleStep
  BY <1>q, AutoCloseInTheSale DEF SchedulerNext, Tick, PromoteAuction, AutoCloseScan, CloseScan, floorVars
<1>5. CloserNext => SaleStep
  BY <1>q, CloseInTheSale
  DEF CloserNext, AdminClose, CloseBegin, CloseLockLot, AbortClose, StoreSettlement,
      LoseSettlement, floorVars
<1>6. StaffNext => SaleStep
  <2>1. ASSUME NEW l \in Lots, RemoveLot(l) \/ WithdrawLot(l) PROVE SaleStep
    BY <2>1, WithdrawInTheSale DEF RemoveLot, WithdrawLot, floorVars
  <2>2. ASSUME NEW l \in Lots, RemoveLotCheck(l) PROVE SaleStep
    BY <2>2, <1>q DEF RemoveLotCheck, floorVars
  <2>3. UnpublishAuction => SaleStep
    BY <1>q DEF UnpublishAuction, floorVars
  <2> QED BY <2>1, <2>2, <2>3, <1>2, EditInTheSale, AddInTheSale DEF StaffNext
<1> QED BY <1>1, <1>2, <1>3, <1>4, <1>5, <1>6 DEF Next, SaleNext

LEMMA FloorOpensTheSale == Init => Sale!Init
<1> SUFFICES ASSUME Init PROVE Sale!Init
  OBVIOUS
<1>1. \A l \in Lots : /\ lot[l].state \in {"absent", "open"} /\ lot[l].bid_count = 0
                      /\ lot[l].current_winner = Nobody /\ lot[l].winning_buyer = Nobody
  BY DEF Init, NewLot
<1>2. \A l \in Lots : bids[l] = {} /\ \A b \in People : proxy[l][b].max = 0
  BY DEF Init
<1>3. ASSUME NEW l \in Lots
      PROVE  /\ BookOf(lot[l], proxy[l], bids[l]) = Sale!NoBids
             /\ ResultOf(lot[l]) = Sale!NotSold
             /\ ReserveOf(lot[l]) \in Int
  <2>1. lot[l].reserve \in Int
    BY FloorInvInit DEF FloorInv, TypeOK, Lot
  <2> QED BY <1>1, <1>2, <2>1 DEF BookOf, ResultOf, ReserveOf, Sale!NoBids, Sale!NotSold
<1> QED BY <1>1, <1>3, SaleOf DEF Sale!Init

\* Bidding and closing as a whole: behind row locks, clocks and increments, with staff
\* at work, every lot is sold as ProxySale promises.
THEOREM FloorSellsByProxy == Spec => SoldByProxy
<1>1. FloorInv /\ [Next]_vars => SaleStep
  BY FloorStepIsASaleStep
<1> QED BY <1>1, FloorOpensTheSale, FloorInvInit, FloorInvNext, PTL
     DEF Spec, SoldByProxy, Sale!Spec, SaleStep, SaleVars, Sale!vars

\* What a lot was sold for lies between the maximum of its buyer and everyone else's.
SoldToTheHighestMaximum ==
  \A l \in Lots : lot[l].state = "closed" /\ lot[l].winning_buyer # Nobody =>
    /\ lot[l].winning_amount =< proxy[l][lot[l].winning_buyer].max
    /\ \A b \in People \ {lot[l].winning_buyer} : proxy[l][b].max =< lot[l].winning_amount

LedLotsArePriced == \A l \in Lots : SaleBook[l].leader # Nobody => Sale!Priced(SaleBook[l])

LEMMA PricesInTheSale == LedLotsArePriced /\ SaleStep => LedLotsArePriced'
<1> SUFFICES ASSUME LedLotsArePriced, SaleStep, NEW k \in Lots, SaleBook'[k].leader # Nobody
             PROVE  Sale!Priced(SaleBook'[k])
  BY DEF LedLotsArePriced, Sale!Priced
<1>1. SaleBook = [l \in Lots |-> BookOf(lot[l], proxy[l], bids[l])]
  BY SaleOf
<1>2. CASE SaleBook'[k] = SaleBook[k]
  BY <1>2 DEF LedLotsArePriced
<1>3. CASE SaleBook'[k] # SaleBook[k]
  <2>1. SaleBook' # SaleBook
    BY <1>3
  <2>2. PICK l \in Lots : Sale!Offer(l) \/ \E p \in People : Sale!Bid(l, p)
    BY <2>1 DEF SaleStep, SaleVars, Sale!Next, Sale!SetReserve, Sale!Withdraw, Sale!Hammer
  <2>3. CASE Sale!Offer(l)
    BY <1>1, <1>3, <2>3 DEF Sale!Offer, Sale!NoBids
  <2>4. ASSUME NEW p \in People, Sale!Bid(l, p) PROVE Sale!Priced(SaleBook'[k])
    <3>1. Sale!Priced(SaleBook'[l]) /\ SaleBook' = [SaleBook EXCEPT ![l] = SaleBook'[l]]
      BY <2>4 DEF Sale!Bid
    <3>2. k = l
      BY <1>1, <1>3, <3>1
    <3> QED BY <3>1, <3>2
  <2> QED BY <2>2, <2>3, <2>4
<1> QED BY <1>2, <1>3

\* closeAuction and runLotAutoClose: the buyer pays no more than they authorised, and
\* nobody else had authorised more than the buyer pays, even if staff changed the
\* increment or the starting price between the bids.
THEOREM EveryLotGoesToTheHighestMaximum == Spec => []SoldToTheHighestMaximum
<1>1. Init => LedLotsArePriced
  <2>1. Init => \A l \in Lots : SaleBook[l].leader = Nobody
    BY FloorOpensTheSale, SaleOf DEF Sale!Init, Sale!NoBids
  <2> QED BY <2>1 DEF LedLotsArePriced
<1>2. FloorInv /\ LedLotsArePriced => SoldToTheHighestMaximum
  <2> SUFFICES ASSUME FloorInv, LedLotsArePriced, NEW l \in Lots,
                      lot[l].state = "closed", lot[l].winning_buyer # Nobody
               PROVE  /\ lot[l].winning_amount =< proxy[l][lot[l].winning_buyer].max
                      /\ \A b \in People \ {lot[l].winning_buyer} : proxy[l][b].max =< lot[l].winning_amount
    BY DEF SoldToTheHighestMaximum
  <2> DEFINE rows == bids[l]
             book == SaleBook[l]
  <2>1. /\ rows # {} /\ rows \in SUBSET BidRow /\ TopRows(rows) # {}
        /\ lot[l].winning_buyer = TopBid(rows).bidder
        /\ lot[l].winning_amount = TopBid(rows).amount
    BY DEF FloorInv, TypeOK, TopRowsExist, SoldAtTopBid
  <2>2. TopBid(rows) \in TopRows(rows) /\ TopBid(rows).bidder \in People
    BY <2>1, TopBidIsABid DEF BidRow
  <2>3. lot[l].current_winner = lot[l].winning_buyer /\ lot[l].winning_buyer \in People
    BY <2>1, <2>2, FloorLeader DEF LeaderIsTopBidder
  <2>4. /\ book.leader = lot[l].winning_buyer /\ book.price = lot[l].winning_amount
        /\ \A b \in People : book.maximum[b] = proxy[l][b].max
    BY <2>1, <2>3, SaleOf DEF BookOf
  <2>5. Sale!Priced(book)
    BY <2>4 DEF LedLotsArePriced
  <2> HIDE DEF book
  <2> QED BY <2>3, <2>4, <2>5 DEF Sale!Priced
<1> QED BY <1>1, <1>2, PricesInTheSale, FloorStepIsASaleStep, FloorInvInit, FloorInvNext, PTL DEF Spec
=============================================================================
