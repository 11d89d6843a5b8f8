------------------------ MODULE AuctionFloor_proofs ------------------------
(***************************************************************************)
(* Proofs about the auction floor, for any number of lots, bidders, bids   *)
(* and staff interventions.                                                *)
(*                                                                         *)
(* LeaderIsTopBidder is not inductive: a bidder who takes the lead must    *)
(* get a row above every row there is, and that is so only because no row  *)
(* exceeds the old leader's maximum, and because a row that reached the    *)
(* old leader's maximum would have raised the minimum above it.  FloorOK   *)
(* states both.  The rest of the invariant is about row locks: what a bid  *)
(* checked when it locked the lot still holds when it commits.             *)
(***************************************************************************)
EXTENDS AuctionFloor, FiniteSetTheorems, TLAPS

-----------------------------------------------------------------------------
(* The inductive invariant. *)

\* One lot: px are its proxy rows, rows its bid rows, cw and cur the leader and the
\* price the lots row shows.
Authorised(px, rows) == \A r \in rows : r.amount =< px[r.bidder].max
Leads(px, rows, cw)  ==
  /\ rows = {} => cw = Nobody /\ Entered(px) = {}
  /\ rows # {} => cw \in Foremost(px, Entered(px))
Headroom(px, rows, cw, cur) == \A r \in rows : r.amount =< cur \/ r.amount < px[cw].max
LeaderTops(rows, cw) ==
  \A r \in rows : r.bidder # cw => \E q \in rows : q.bidder = cw /\ q.amount > r.amount

FloorOK(px, rows, cw, cur) ==
  /\ Authorised(px, rows)
  /\ Leads(px, rows, cw)
  /\ Headroom(px, rows, cw, cur)
  /\ LeaderTops(rows, cw)

FloorsOK == \A l \in Lots : FloorOK(proxy[l], bids[l], lot[l].current_winner, lot[l].current_bid)

\* There is a top bid as soon as there is a bid.
TopRowsExist == \A l \in Lots : bids[l] # {} => TopRows(bids[l]) # {}

RequestsOK ==
  \A t \in BidNumbers : request[t].phase # "idle" =>
    /\ request[t].lot \in Lots
    /\ request[t].bidder \in Bidders
    /\ request[t].ceiling \in Ceilings

\* A bid that holds a lot holds it alone, and what it checked still holds.
LocksOK ==
  \A t \in BidNumbers : request[t].phase = "locked" =>
    /\ request[t].lot \notin closer.held
    /\ lot[request[t].lot].state = "open"
    /\ request[t].ceiling >= MinimumBid(request[t].lot)
    /\ \A u \in BidNumbers \ {t} : request[u].phase = "locked" => request[u].lot # request[t].lot

\* A proxy row keeps the number of the accepted request that created it, so no two
\* bidders of a lot share one.
ProxiesOK ==
  \A l \in Lots, b \in People : proxy[l][b].max > 0 =>
    /\ proxy[l][b].created \in BidNumbers
    /\ request[proxy[l][b].created].phase = "accepted"
    /\ request[proxy[l][b].created].lot = l
    /\ request[proxy[l][b].created].bidder = b

\* The closing transaction holds open and closed lots only.
HeldOK == closer.held \subseteq { l \in Lots : Catalogued(l) }

\* A lot has no buyer before it is closed.
UnsoldOK == \A l \in Lots : lot[l].state \in {"absent", "open"} => lot[l].winning_buyer = Nobody

\* A lot number that is not in use has no bids.
AbsentOK == \A l \in Lots : lot[l].state = "absent" => bids[l] = {}

FloorInv == /\ TypeOK
            /\ FloorsOK
            /\ TopRowsExist
            /\ RequestsOK
            /\ LocksOK
            /\ ProxiesOK
            /\ HeldOK
            /\ UnsoldOK
            /\ AbsentOK
            /\ SoldAtTopBid

-----------------------------------------------------------------------------
(* Lemmas about the operators. *)

\* Every increment is positive, with an override and without.
LEMMA IncrementPositive ==
  ASSUME NEW cents \in Nat, NEW override \in Nat
  PROVE  effectiveIncrement(cents, override) \in Nat /\ effectiveIncrement(cents, override) > 0
<1> DEFINE Lowest(band) == \A other \in BandsAt(cents) : band.upTo =< other.upTo
<1>1. CASE override > 0
  BY <1>1 DEF effectiveIncrement
<1>2. CASE ~(override > 0) /\ BandsAt(cents) = {}
  BY <1>2 DEF effectiveIncrement, incrementForCents, TOP_INCREMENT
<1>3. CASE ~(override > 0) /\ BandsAt(cents) # {}
  <2>1. \E band \in BandsAt(cents) : Lowest(band)
    <3> DEFINE Band(up, by) == [upTo |-> up, step |-> by]
    <3>1. BandsAt(cents) = { band \in {Band(4999, 100), Band(19999, 500), Band(49999, 1000),
                                       Band(99999, 2500), Band(249999, 5000)} : cents =< band.upTo }
      BY DEF BandsAt, LADDER
    <3>2. \A up, by : Band(up, by).upTo = up
      OBVIOUS
    <3> HIDE DEF Band
    <3>3. CASE cents =< 4999
      BY <3>1, <3>2, <3>3
    <3>4. CASE cents > 4999 /\ cents =< 19999
      BY <3>1, <3>2, <3>4
    <3>5. CASE cents > 19999 /\ cents =< 49999
      BY <3>1, <3>2, <3>5
    <3>6. CASE cents > 49999 /\ cents =< 99999
      BY <3>1, <3>2, <3>6
    <3>7. CASE cents > 99999
      BY <3>1, <3>2, <3>7, <1>3
    <3> QED BY <3>3, <3>4, <3>5, <3>6, <3>7
  <2>2. (CHOOSE band \in BandsAt(cents) : Lowest(band)) \in BandsAt(cents)
    BY <2>1
  <2>3. \A band \in BandsAt(cents) : band.step \in Nat \ {0}
    BY DEF BandsAt, LADDER
  <2> QED BY <1>3, <2>2, <2>3 DEF effectiveIncrement, incrementForCents
<1> QED BY <1>1, <1>2, <1>3

\* The next minimum is above the price and at least the starting price.
LEMMA MinimumAbovePrice ==
  ASSUME NEW starting \in Nat, NEW current \in Nat, NEW override \in Nat
  PROVE  /\ nextMinCents(starting, current, override) \in Nat
         /\ nextMinCents(starting, current, override) > current
         /\ nextMinCents(starting, current, override) >= starting
<1>1. effectiveIncrement(current, override) \in Nat /\ effectiveIncrement(current, override) > 0
  BY IncrementPositive
<1> QED BY <1>1 DEF nextMinCents

\* Adding a row to a lot that has a top bid leaves it with one.
LEMMA TopRowsAfterBid ==
  ASSUME NEW rows \in SUBSET BidRow, NEW new \in BidRow,
         rows # {} => TopRows(rows) # {}
  PROVE  TopRows(rows \cup {new}) # {}
<1>1. CASE rows = {}
  <2>1. new \in TopRows(rows \cup {new})
    BY <1>1 DEF TopRows, BidRow, BidNumbers
  <2> QED BY <2>1
<1>2. CASE rows # {}
  <2>1. PICK top \in rows : \A q \in rows : \/ top.amount > q.amount
                                            \/ top.amount = q.amount /\ top.created =< q.created
    BY <1>2 DEF TopRows
  <2>2. \A q \in rows : q.amount \in Nat /\ q.created \in Int
    BY DEF BidRow, BidNumbers
  <2>3. new.amount \in Nat /\ new.created \in Int
    BY DEF BidRow, BidNumbers
  <2>4. CASE top.amount > new.amount \/ (top.amount = new.amount /\ top.created =< new.created)
    <3>1. top \in TopRows(rows \cup {new})
      BY <2>1, <2>4 DEF TopRows
    <3> QED BY <3>1
  <2>5. CASE ~(top.amount > new.amount \/ (top.amount = new.amount /\ top.created =< new.created))
    <3>1. new \in TopRows(rows \cup {new})
      BY <2>1, <2>2, <2>3, <2>5 DEF TopRows
    <3> QED BY <3>1
  <2> QED BY <2>4, <2>5
<1> QED BY <1>1, <1>2

\* The proxy rows that lead are entered, and nobody's maximum is above theirs.
LEMMA LeaderHasTheMaximum ==
  ASSUME NEW px \in [People -> Proxy], NEW w \in Foremost(px, Entered(px))
  PROVE  /\ w \in People /\ px[w].max > 0
         /\ \A b \in People : px[b].max =< px[w].max
BY DEF Foremost, Entered, Ahead, Proxy

\* The price lies between what it takes to beat the second and the leader's maximum.
LEMMA PriceIsCapped ==
  ASSUME NEW px \in [People -> Proxy], NEW row \in Lot,
         NEW w \in Foremost(px, Entered(px)), NEW r \in SecondTo(px, w),
         r = Nobody => /\ row.starting_bid =< px[w].max
                       /\ row.current_bid =< px[w].max
  PROVE  /\ VisiblePrice(row, px, w, r) \in Nat
         /\ VisiblePrice(row, px, w, r) =< px[w].max
         /\ r # Nobody => /\ r \in Entered(px) \ {w}
                          /\ \A b \in Entered(px) \ {w} : px[b].max =< px[r].max
                          /\ \/ VisiblePrice(row, px, w, r) > px[r].max
                             \/ VisiblePrice(row, px, w, r) = px[w].max
<1>1. \A b \in People : px[b].max \in Nat
  BY DEF Proxy
<1>2. row.starting_bid \in Nat /\ row.current_bid \in Nat /\ row.increment \in Nat
  BY DEF Lot
<1>3. w \in People
  BY LeaderHasTheMaximum
<1>4. CASE r = Nobody
  BY <1>1, <1>2, <1>3, <1>4 DEF VisiblePrice
<1>5. CASE r # Nobody
  <2>1. r \in Entered(px) \ {w} /\ \A b \in Entered(px) \ {w} : px[b].max =< px[r].max
    BY <1>5, <1>1 DEF SecondTo, Foremost, Ahead, Entered
  <2>2. r \in People
    BY <2>1 DEF Entered
  <2>3. /\ effectiveIncrement(px[r].max, row.increment) \in Nat
        /\ effectiveIncrement(px[r].max, row.increment) > 0
    <3>1. px[r].max \in Nat
      BY <2>2, <1>1
    <3> QED BY <3>1, <1>2, IncrementPositive
  <2> QED BY <1>5, <1>1, <1>3, <2>1, <2>2, <2>3 DEF VisiblePrice
<1> QED BY <1>4, <1>5

\* A bid of m by s, numbered t, is accepted on a lot whose proxy rows px, bid rows and
\* lots row are in order; w leads then and r is second.
BidOn(px, s, m, t) == [px EXCEPT ![s] = RaisedMax(@, m, t)]
AcceptedBid(px, rows, row, s, m, t, w, r) ==
  /\ px \in [People -> Proxy] /\ rows \in SUBSET BidRow /\ row \in Lot
  /\ s \in People /\ m \in Nat /\ t \in BidNumbers
  /\ FloorOK(px, rows, row.current_winner, row.current_bid)
  /\ m >= nextMinCents(row.starting_bid, row.current_bid, row.increment)
  /\ \A a, b \in People :
       BidOn(px, s, m, t)[a].max > 0 /\ BidOn(px, s, m, t)[b].max > 0
         /\ BidOn(px, s, m, t)[a].created = BidOn(px, s, m, t)[b].created => a = b
  /\ w \in Foremost(BidOn(px, s, m, t), Entered(BidOn(px, s, m, t)))
  /\ r \in SecondTo(BidOn(px, s, m, t), w)
NewRow(w, price, t) == [bidder |-> w, amount |-> price, created |-> t]

\* Only the bid of s changes the ranking, so the leader stays or s leads.
LEMMA OnlyTheBidderTakesTheLead ==
  ASSUME NEW px, NEW rows, NEW row, NEW s, NEW m, NEW t, NEW w, NEW r,
         AcceptedBid(px, rows, row, s, m, t, w, r)
  PROVE  w = row.current_winner \/ w = s
<1> DEFINE npx == BidOn(px, s, m, t)
           cw  == row.current_winner
<1> SUFFICES ASSUME w # cw, w # s PROVE FALSE
  OBVIOUS
<1>1. /\ px \in [People -> Proxy] /\ s \in People /\ m \in Nat /\ t \in BidNumbers
      /\ FloorOK(px, rows, cw, row.current_bid)
      /\ w \in Foremost(npx, Entered(npx))
      /\ \A a, b \in People : npx[a].max > 0 /\ npx[b].max > 0 /\ npx[a].created = npx[b].created
                                => a = b
  BY DEF AcceptedBid
<1>2. \A b \in People : px[b] \in Proxy /\ px[b].max \in Nat /\ px[b].created \in Nat
  BY <1>1 DEF Proxy
<1>3. /\ RaisedMax(px[s], m, t) \in Proxy
      /\ RaisedMax(px[s], m, t).max >= px[s].max
  BY <1>1, <1>2 DEF RaisedMax, Proxy, BidNumbers
<1>4. /\ npx \in [People -> Proxy]
      /\ npx[s] = RaisedMax(px[s], m, t)
      /\ \A b \in People \ {s} : npx[b] = px[b]
  BY <1>1, <1>3 DEF BidOn
<1> HIDE DEF npx
<1>5. \A b \in People : npx[b].max \in Nat /\ npx[b].max >= px[b].max /\ npx[b].created \in Int
  BY <1>2, <1>3, <1>4 DEF Proxy
<1>6. w \in People /\ npx[w].max > 0 /\ \A b \in People : npx[b].max =< npx[w].max
  BY <1>1, <1>4, LeaderHasTheMaximum
<1>7. w \in Entered(px) /\ rows # {}
  BY <1>1, <1>4, <1>6 DEF Entered, FloorOK, Leads
<1>8. cw \in Foremost(px, Entered(px))
  BY <1>1, <1>7 DEF FloorOK, Leads
<1>9. cw \in People /\ px[cw].max > 0 /\ \A b \in People : px[b].max =< px[cw].max
  BY <1>1, <1>8, LeaderHasTheMaximum
<1>10. npx[w] = px[w] /\ px[w].max =< px[cw].max
  BY <1>4, <1>6, <1>9
<1>11. npx[cw].max >= px[cw].max /\ npx[cw].max =< npx[w].max
  BY <1>5, <1>6, <1>9
<1>12. npx[cw].max = npx[w].max /\ px[w].max = px[cw].max
  BY <1>10, <1>11, <1>2, <1>5, <1>6, <1>9
<1>13. npx[cw].created = px[cw].created
  BY <1>10, <1>12, <1>2, <1>4, <1>9 DEF RaisedMax, Proxy
<1>14. cw \in Entered(px) /\ cw \in Entered(npx)
  BY <1>11, <1>12, <1>6, <1>9 DEF Entered
<1>15. px[cw].created =< px[w].created
  BY <1>12, <1>7, <1>8, <1>9, <1>2, <1>6 DEF Foremost, Ahead
<1>16. npx[w].created =< npx[cw].created
  <2>1. Ahead(npx[w], npx[cw])
    BY <1>1, <1>14 DEF Foremost
  <2> QED BY <2>1, <1>12, <1>5, <1>6, <1>9 DEF Ahead
<1>17. npx[w].created = npx[cw].created
  BY <1>10, <1>13, <1>15, <1>16, <1>5, <1>6, <1>9
<1> QED BY <1>1, <1>17, <1>12, <1>6, <1>9

\* It leaves the lot in order.
LEMMA BidKeepsFloorOK ==
  ASSUME NEW px, NEW rows, NEW row, NEW s, NEW m, NEW t, NEW w, NEW r,
         AcceptedBid(px, rows, row, s, m, t, w, r),
         NEW npx, npx = BidOn(px, s, m, t),
         NEW price, price = VisiblePrice(row, npx, w, r)
  PROVE  /\ npx \in [People -> Proxy]
         /\ w \in People
         /\ price \in Nat
         /\ FloorOK(npx, rows \cup {NewRow(w, price, t)}, w, price)
<1> USE DEF NewRow
<1>h. /\ px \in [People -> Proxy] /\ rows \in SUBSET BidRow /\ row \in Lot
      /\ s \in People /\ m \in Nat /\ t \in BidNumbers
      /\ FloorOK(px, rows, row.current_winner, row.current_bid)
      /\ m >= nextMinCents(row.starting_bid, row.current_bid, row.increment)
      /\ npx = [px EXCEPT ![s] = RaisedMax(@, m, t)]
      /\ w \in Foremost(npx, Entered(npx))
      /\ r \in SecondTo(npx, w)
  BY DEF AcceptedBid, BidOn
<1>u. \A a, b \in People : npx[a].max > 0 /\ npx[b].max > 0 /\ npx[a].created = npx[b].created => a = b
  BY DEF AcceptedBid
<1> DEFINE cw  == row.current_winner
           cur == row.current_bid
           new == NewRow(w, price, t)
<1> USE <1>h
<1>1. /\ cur \in Nat /\ row.starting_bid \in Nat /\ row.increment \in Nat
      /\ \A b \in People : px[b] \in Proxy /\ px[b].max \in Nat /\ px[b].created \in Nat
      /\ \A q \in rows : q.amount \in Nat /\ q.bidder \in People
  BY DEF Lot, Proxy, BidRow
<1>2. m > cur /\ m >= row.starting_bid
  <2> DEFINE least == nextMinCents(row.starting_bid, row.current_bid, row.increment)
  <2>1. least \in Nat /\ least > row.current_bid /\ least >= row.starting_bid
    BY <1>1, MinimumAbovePrice
  <2>2. m >= least
    OBVIOUS
  <2> HIDE DEF least
  <2> QED BY <2>1, <2>2, <1>1
<1>3. /\ RaisedMax(px[s], m, t) \in Proxy
      /\ RaisedMax(px[s], m, t).max >= m
      /\ RaisedMax(px[s], m, t).max >= px[s].max
      /\ RaisedMax(px[s], m, t).max \in {m, px[s].max}
      /\ px[s].max = 0 => RaisedMax(px[s], m, t).max = m
  BY <1>1 DEF RaisedMax, Proxy, BidNumbers
<1>4. /\ npx \in [People -> Proxy]
      /\ npx[s] = RaisedMax(px[s], m, t)
      /\ \A b \in People \ {s} : npx[b] = px[b]
  BY <1>3
<1>5. \A b \in People : npx[b].max \in Nat /\ npx[b].max >= px[b].max /\ npx[b].created \in Int
  BY <1>1, <1>3, <1>4 DEF Proxy
<1>6. w \in People /\ npx[w].max > 0 /\ \A b \in People : npx[b].max =< npx[w].max
  BY <1>4, LeaderHasTheMaximum
<1>7. s \in Entered(npx) /\ m > 0
  BY <1>1, <1>2, <1>3, <1>4 DEF Entered
<1>8. npx[w].max >= m
  BY <1>3, <1>4, <1>5, <1>6
<1>9. /\ price \in Nat /\ price =< npx[w].max
      /\ r # Nobody => /\ r \in Entered(npx) \ {w}
                       /\ \A b \in Entered(npx) \ {w} : npx[b].max =< npx[r].max
                       /\ price > npx[r].max \/ price = npx[w].max
  <2>1. row.starting_bid =< npx[w].max /\ row.current_bid =< npx[w].max
    BY <1>1, <1>2, <1>5, <1>6, <1>8
  <2>2. r = Nobody => row.starting_bid =< npx[w].max /\ row.current_bid =< npx[w].max
    BY <2>1
  <2>3. /\ VisiblePrice(row, npx, w, r) \in Nat
        /\ VisiblePrice(row, npx, w, r) =< npx[w].max
        /\ r # Nobody => /\ r \in Entered(npx) \ {w}
                         /\ \A b \in Entered(npx) \ {w} : npx[b].max =< npx[r].max
                         /\ \/ VisiblePrice(row, npx, w, r) > npx[r].max
                            \/ VisiblePrice(row, npx, w, r) = npx[w].max
    <3>1. /\ npx \in [People -> Proxy] /\ row \in Lot
          /\ w \in Foremost(npx, Entered(npx)) /\ r \in SecondTo(npx, w)
      BY <1>4
    <3> QED BY ONLY <3>1, <2>2, PriceIsCapped
  <2> QED BY <2>3
<1>10. Authorised(npx, rows \cup {new})
  <2>1. \A q \in rows : q.amount =< px[q.bidder].max
    BY DEF FloorOK, Authorised
  <2>2. \A q \in rows : q.amount =< npx[q.bidder].max
    BY <2>1, <1>1, <1>5
  <2> QED BY <2>2, <1>9 DEF Authorised
<1>11. Leads(npx, rows \cup {new}, w)
  BY DEF Leads
<1>12. Headroom(npx, rows \cup {new}, w, price) /\ LeaderTops(rows \cup {new}, w)
  <2>1. CASE rows = {}
    BY <2>1, <1>9 DEF Headroom, LeaderTops
  <2>2. CASE rows # {}
    <3>1. /\ cw \in Foremost(px, Entered(px))
          /\ \A q \in rows : q.amount =< cur \/ q.amount < px[cw].max
          /\ \A q \in rows : q.amount =< px[q.bidder].max
          /\ LeaderTops(rows, cw)
      BY <2>2 DEF FloorOK, Leads, Headroom, Authorised
    <3>2. cw \in People /\ px[cw].max > 0 /\ \A b \in People : px[b].max =< px[cw].max
      BY <3>1, LeaderHasTheMaximum
    <3>3. CASE w = cw
      <4>1. \A q \in rows : q.amount < npx[w].max
        BY <3>1, <3>2, <3>3, <1>1, <1>2, <1>5, <1>8
      <4>2. LeaderTops(rows \cup {new}, w)
        BY <3>1, <3>3 DEF LeaderTops
      <4> QED BY <4>1, <4>2, <1>9 DEF Headroom
    <3>4. CASE w # cw
      <4>1. w = s
        BY <3>4, OnlyTheBidderTakesTheLead
      <4>2. r # Nobody
        <5>1. cw \in Entered(npx) \ {w}
          BY <3>2, <3>4, <1>5, <1>1 DEF Entered
        <5>2. Entered(npx) # {w}
          BY <5>1
        <5>3. r \in People
          BY <5>2 DEF SecondTo, Foremost, Entered
        <5> QED BY <5>3, PeopleAssumption
      <4>3. npx[cw] = px[cw] /\ cw \in Entered(npx) \ {w}
        BY <4>1, <3>2, <3>4, <1>4 DEF Entered
      <4>4. price > px[cw].max \/ price = npx[w].max
        BY <4>2, <4>3, <1>9, <1>1, <1>5, <3>2 DEF Entered
      <4>5. npx[w].max = m \/ npx[w].max = px[w].max
        BY <4>1, <1>3, <1>4
      <4>6. \A q \in rows : q.amount < price
        <5>1. CASE price > px[cw].max
          <6> SUFFICES ASSUME NEW q \in rows PROVE q.amount < price
            OBVIOUS
          <6>1. q.amount =< px[cw].max
            BY <3>1, <3>2, <1>1
          <6> QED BY <5>1, <6>1, <1>1, <1>9, <3>2
        <5>2. CASE price = npx[w].max
          <6> SUFFICES ASSUME NEW q \in rows PROVE q.amount < price
            OBVIOUS
          <6>1. px[cw].max =< npx[w].max
            BY <4>3, <1>6, <3>2
          <6>2. q.amount =< cur \/ q.amount < px[cw].max
            BY <3>1
          <6> QED BY <5>2, <6>1, <6>2, <1>1, <1>2, <1>5, <1>6, <1>8, <3>2
        <5> QED BY <4>4, <5>1, <5>2
      <4>7. Headroom(npx, rows \cup {new}, w, price)
        <5> SUFFICES ASSUME NEW q \in rows \cup {new} PROVE q.amount =< price
          BY DEF Headroom
        <5>1. new.amount =< price
          BY <1>9
        <5>2. CASE q \in rows
          <6>1. q.amount \in Nat /\ q.amount < price
            BY <5>2, <4>6, <1>1
          <6> QED BY <6>1, <1>9
        <5> QED BY <5>1, <5>2
      <4>8. LeaderTops(rows \cup {new}, w)
        <5>1. new.bidder = w /\ new.amount = price
          OBVIOUS
        <5> HIDE DEF new
        <5> QED BY <4>6, <5>1 DEF LeaderTops
      <4> QED BY <4>7, <4>8
    <3> QED BY <3>3, <3>4
  <2> QED BY <2>1, <2>2
<1> QED BY <1>4, <1>6, <1>9, <1>10, <1>11, <1>12 DEF FloorOK

-----------------------------------------------------------------------------
(* The initial states. *)

LEMMA NewLotIsALot ==
  ASSUME NEW state \in LotStates
  PROVE  NewLot(state) \in Lot
BY AmountAssumption DEF NewLot, Lot, Null, NoOverride

LEMMA FloorInvInit == Init => FloorInv
<1> SUFFICES ASSUME Init PROVE FloorInv
  OBVIOUS
<1>1. PICK asked \in [InitialLots -> Reserves \cup {Null}] :
        lot = [l \in Lots |-> IF l \in InitialLots
                                THEN [NewLot("open") EXCEPT !.reserve = asked[l]]
                                ELSE NewLot("absent")]
  BY DEF Init
<1>2. NewLot("open") \in Lot /\ NewLot("absent") \in Lot
  BY NewLotIsALot DEF LotStates
<1>3. \A l \in InitialLots : asked[l] \in Int
  BY <1>1, AmountAssumption DEF Null
<1>4. lot \in [Lots -> Lot]
  BY <1>1, <1>2, <1>3 DEF Lot
<1>5. \A l \in Lots : /\ lot[l].state \in {"open", "absent"}
                      /\ lot[l].current_winner = Nobody
                      /\ lot[l].winning_buyer = Nobody
  BY <1>1 DEF NewLot
<1>6. TypeOK
  <2>1. now \in Nat /\ due \subseteq Lots /\ settling \in BOOLEAN
        /\ removing \subseteq Lots /\ edits \in Nat
    BY DEF Init
  <2>4. auction \in Auction
    BY DEF Init, Auction, AuctionStates, Null
  <2>5. payout \in [Lots -> Int] \cup {NoPayout}
    BY DEF Init
  <2>2. proxy \in [Lots -> [People -> Proxy]] /\ bids \in [Lots -> SUBSET BidRow]
        /\ outbid \in [Lots -> SUBSET People]
    BY DEF Init, Proxy
  <2>3. request \in [BidNumbers -> Request] /\ closer \in Closer
    BY DEF Init, Request, Closer
  <2> QED BY <1>4, <2>1, <2>2, <2>3, <2>4, <2>5 DEF TypeOK
<1>7. FloorsOK /\ TopRowsExist /\ AbsentOK
  BY <1>5 DEF Init, FloorsOK, TopRowsExist, AbsentOK, FloorOK, Authorised, Leads, Headroom,
              LeaderTops, Entered
<1>8. RequestsOK /\ LocksOK /\ ProxiesOK /\ HeldOK
  BY DEF Init, RequestsOK, LocksOK, ProxiesOK, HeldOK
<1>9. UnsoldOK /\ SoldAtTopBid
  BY <1>5 DEF UnsoldOK, SoldAtTopBid
<1> QED BY <1>6, <1>7, <1>8, <1>9 DEF FloorInv

-----------------------------------------------------------------------------
(* Types are preserved. *)

\* The latest close is a number.
LEMMA LatestCloseIsANumber ==
  ASSUME NEW rows \in [Lots -> Lot]
  PROVE  Closes(rows) \subseteq Int /\ LatestClose(rows) \subseteq Int
BY DEF Closes, LatestClose, Lot

\* The top bid of a lot that has one is a bid row.
LEMMA TopBidIsABid ==
  ASSUME NEW rows \in SUBSET BidRow, TopRows(rows) # {}
  PROVE  TopBid(rows) \in rows /\ TopBid(rows) \in TopRows(rows)
BY DEF TopBid, TopRows

\* Closing a lot gives a lot, sold at its top bid or not at all.
LEMMA ClosedLotIsSoldAtTopBid ==
  ASSUME NEW row \in Lot, NEW rows \in SUBSET BidRow, rows # {} => TopRows(rows) # {},
         row.winning_buyer = Nobody,
         NEW new, new = ClosedLot(row, rows)
  PROVE  /\ new \in Lot /\ new.state = "closed"
         /\ new.current_winner = row.current_winner
         /\ new.current_bid = row.current_bid
         /\ IF new.winning_buyer = Nobody
              THEN new.reserve_not_met <=> rows # {}
              ELSE /\ rows # {}
                   /\ new.winning_buyer = TopBid(rows).bidder
                   /\ new.winning_amount = TopBid(rows).amount
<1>1. CASE Sells(rows, row.reserve)
  <2>1. TopBid(rows) \in BidRow /\ rows # {}
    BY <1>1, TopBidIsABid DEF Sells
  <2>2. TopBid(rows).bidder \in People /\ TopBid(rows).amount \in Nat
    BY <2>1 DEF BidRow
  <2>3. new = [row EXCEPT !.state = "closed", !.winning_buyer = TopBid(rows).bidder,
                          !.winning_amount = TopBid(rows).amount, !.reserve_not_met = FALSE]
    BY <1>1 DEF ClosedLot
  <2>4. TopBid(rows).bidder # Nobody
    BY <2>2, PeopleAssumption
  <2>5. new \in Lot
    <3>1. ASSUME NEW buyer \in People, NEW amount \in Int
          PROVE  [row EXCEPT !.state = "closed", !.winning_buyer = buyer,
                             !.winning_amount = amount, !.reserve_not_met = FALSE] \in Lot
      BY DEF Lot, LotStates
    <3>2. TopBid(rows).amount \in Int
      BY <2>2
    <3> QED BY <2>2, <2>3, <3>1, <3>2
  <2>6. /\ new.state = "closed"
        /\ new.current_winner = row.current_winner /\ new.current_bid = row.current_bid
        /\ new.winning_buyer = TopBid(rows).bidder /\ new.winning_amount = TopBid(rows).amount
    BY <2>3 DEF Lot
  <2> QED BY <2>1, <2>4, <2>5, <2>6
<1>2. CASE ~Sells(rows, row.reserve)
  <2>1. LowReserve(rows, row.reserve) \in BOOLEAN /\ (LowReserve(rows, row.reserve) <=> rows # {})
    BY <1>2 DEF Sells, LowReserve
  <2>2. new = [row EXCEPT !.state = "closed", !.reserve_not_met = LowReserve(rows, row.reserve)]
    BY <1>2 DEF ClosedLot
  <2> QED BY <2>1, <2>2 DEF Lot, LotStates
<1> QED BY <1>1, <1>2

\* What a bid writes: the lots row, the bid rows, the proxy rows and the notices of
\* its lot; w leads then, r is second, and price is what the floor shows.
LEMMA BidWrites ==
  ASSUME FloorInv, NEW t \in BidNumbers, CommitBid(t)
  PROVE  /\ TypeOK'
         /\ \E w \in People, price \in Nat : \E r :
              LET l  == request[t].lot
                  s  == request[t].bidder
                  m  == request[t].ceiling
                  px == [proxy[l] EXCEPT ![s] = RaisedMax(@, m, t)]
              IN  /\ l \in Lots
                  /\ proxy' = [proxy EXCEPT ![l] = px]
                  /\ lot' = [lot EXCEPT ![l] = AfterBid(l, w, price)]
                  /\ bids' = [bids EXCEPT ![l] = @ \cup {NewRow(w, price, t)}]
                  /\ outbid' = [outbid EXCEPT ![l] = @ \cup Displaced(l, w)]
                  /\ FloorOK(px, bids[l] \cup {NewRow(w, price, t)}, w, price)
                  /\ AcceptedBid(proxy[l], bids[l], lot[l], s, m, t, w, r)
                  /\ price = VisiblePrice(lot[l], px, w, r)
<1> DEFINE l  == request[t].lot
           s  == request[t].bidder
           m  == request[t].ceiling
           px == [proxy[l] EXCEPT ![s] = RaisedMax(@, m, t)]
<1>1. /\ request[t].phase = "locked" /\ AuctionUnlocked
      /\ l \in Lots /\ s \in People /\ m \in Nat
      /\ lot[l].state = "open" /\ m >= MinimumBid(l)
  <2>1. request[t].phase = "locked" /\ AuctionUnlocked
    BY DEF CommitBid
  <2>2. l \in Lots /\ s \in Bidders /\ m \in Ceilings
    BY <2>1 DEF FloorInv, RequestsOK
  <2>3. lot[l].state = "open" /\ m >= MinimumBid(l)
    BY <2>1 DEF FloorInv, LocksOK
  <2> QED BY <2>1, <2>2, <2>3, AmountAssumption DEF People
<1>2. /\ lot[l] \in Lot /\ proxy[l] \in [People -> Proxy] /\ bids[l] \in SUBSET BidRow
      /\ FloorOK(proxy[l], bids[l], lot[l].current_winner, lot[l].current_bid)
  BY <1>1 DEF FloorInv, TypeOK, FloorsOK
<1>a. PICK w \in Foremost(px, Entered(px)) : \E r \in SecondTo(px, w) :
        LET price == VisiblePrice(lot[l], px, w, r)
        IN  /\ lot' = [lot EXCEPT ![l] = AfterBid(l, w, price)]
            /\ bids' = [bids EXCEPT ![l] = @ \cup {NewRow(w, price, t)}]
            /\ outbid' = [outbid EXCEPT ![l] = @ \cup Displaced(l, w)]
  BY DEF CommitBid, NewRow
<1>3. PICK r \in SecondTo(px, w) :
        LET price == VisiblePrice(lot[l], px, w, r)
        IN  /\ lot' = [lot EXCEPT ![l] = AfterBid(l, w, price)]
            /\ bids' = [bids EXCEPT ![l] = @ \cup {NewRow(w, price, t)}]
            /\ outbid' = [outbid EXCEPT ![l] = @ \cup Displaced(l, w)]
  BY <1>a
<1> DEFINE price == VisiblePrice(lot[l], px, w, r)
<1>4. \A a, b \in People : px[a].max > 0 /\ px[b].max > 0 /\ px[a].created = px[b].created => a = b
  \* t is not accepted yet, so no proxy row carries it.
  <2>1. \A b \in People : proxy[l][b].max > 0 =>
          /\ proxy[l][b].created \in BidNumbers
          /\ request[proxy[l][b].created].phase = "accepted"
          /\ request[proxy[l][b].created].bidder = b
    BY <1>1 DEF FloorInv, ProxiesOK
  <2>2. \A b \in People : proxy[l][b].max > 0 => proxy[l][b].created # t
    BY <2>1, <1>1
  <2>3. \A b \in People \ {s} : px[b] = proxy[l][b]
    BY <1>2
  <2>4. /\ px[s] = RaisedMax(proxy[l][s], m, t)
        /\ proxy[l][s].max \in Nat /\ proxy[l][s] \in Proxy
    BY <1>1, <1>2 DEF Proxy
  <2>5. IF proxy[l][s].max > 0 THEN px[s].created = proxy[l][s].created ELSE px[s].created = t
    BY <2>4 DEF RaisedMax, Proxy
  <2>6. \A b \in People : px[b].max > 0 =>
          \/ px[b].created # t /\ request[px[b].created].bidder = b
          \/ px[b].created = t /\ b = s
    <3> SUFFICES ASSUME NEW b \in People, px[b].max > 0
                 PROVE  \/ px[b].created # t /\ request[px[b].created].bidder = b
                        \/ px[b].created = t /\ b = s
      OBVIOUS
    <3>1. CASE b # s
      BY <3>1, <2>1, <2>2, <2>3
    <3>2. CASE b = s /\ proxy[l][s].max > 0
      <4>1. px[s].created = proxy[l][s].created
        BY <3>2, <2>5
      <4>2. proxy[l][s].created # t /\ request[proxy[l][s].created].bidder = s
        BY <3>2, <2>1, <2>2, <1>1
      <4> HIDE DEF px
      <4> QED BY <3>2, <4>1, <4>2
    <3>3. CASE b = s /\ ~(proxy[l][s].max > 0)
      BY <3>3, <2>5
    <3> QED BY <3>1, <3>2, <3>3
  <2> HIDE DEF px
  <2> QED BY <2>6
<1>5. m >= nextMinCents(lot[l].starting_bid, lot[l].current_bid, lot[l].increment)
  BY <1>1 DEF MinimumBid
<1>6. /\ px \in [People -> Proxy] /\ w \in People /\ price \in Nat
      /\ FloorOK(px, bids[l] \cup {NewRow(w, price, t)}, w, price)
      /\ AcceptedBid(proxy[l], bids[l], lot[l], s, m, t, w, r)
  <2>1. px = BidOn(proxy[l], s, m, t)
    BY DEF BidOn
  <2>2. AcceptedBid(proxy[l], bids[l], lot[l], s, m, t, w, r)
    <3> HIDE DEF l, s, m, px
    <3> QED BY <1>1, <1>2, <1>4, <1>5, <2>1 DEF AcceptedBid
  <2>3. price = VisiblePrice(lot[l], px, w, r)
    OBVIOUS
  <2> HIDE DEF px, price, l, s, m
  <2> QED BY ONLY <2>1, <2>2, <2>3, BidKeepsFloorOK
<1>7. AfterBid(l, w, price) \in Lot
  <2>1. ASSUME NEW row \in Lot, NEW p \in Nat, NEW closes \in Int, NEW count \in Nat, NEW n \in Nat
        PROVE  [row EXCEPT !.current_bid = p, !.current_winner = w, !.bid_count = n,
                           !.closes_at = closes, !.extension_count = count] \in Lot
    BY <1>6 DEF Lot
  <2> DEFINE row == lot[l]
  <2>2. /\ row.bid_count + 1 \in Nat
        /\ (IF Snipes(l) THEN row.closes_at + Extension ELSE row.closes_at) \in Int
        /\ (IF Snipes(l) THEN row.extension_count + 1 ELSE row.extension_count) \in Nat
    BY <1>2 DEF Lot, Extension
  <2>3. row \in Lot /\ price \in Nat
    BY <1>2, <1>6
  <2> HIDE DEF price
  <2> QED BY <2>1, <2>2, <2>3 DEF AfterBid
<1>8. lot' = [lot EXCEPT ![l] = AfterBid(l, w, price)] /\ lot' \in [Lots -> Lot]
  BY <1>3, <1>7 DEF FloorInv, TypeOK
<1>9. /\ bids' = [bids EXCEPT ![l] = @ \cup {NewRow(w, price, t)}]
      /\ bids' \in [Lots -> SUBSET BidRow]
  <2>1. NewRow(w, price, t) \in BidRow
    BY <1>6 DEF BidRow, NewRow
  <2>2. bids' = [bids EXCEPT ![l] = @ \cup {NewRow(w, price, t)}]
    BY <1>3
  <2> HIDE DEF price
  <2> QED BY <1>1, <2>1, <2>2 DEF FloorInv, TypeOK
<1>10. proxy' = [proxy EXCEPT ![l] = px] /\ proxy' \in [Lots -> [People -> Proxy]]
  BY <1>6 DEF CommitBid, FloorInv, TypeOK
<1>11. outbid' \in [Lots -> SUBSET People]
  <2>1. EmailEnabled \subseteq People
    BY PeopleAssumption DEF People
  <2> QED BY <1>3, <2>1 DEF FloorInv, TypeOK, Displaced
<1>12. auction' \in Auction
  <2>1. auction \in Auction /\ auction.end_time \in Int
    BY DEF FloorInv, TypeOK, Auction
  <2>2. PICK end \in IF Snipes(l) THEN EndTimeAfter(lot') ELSE {auction.end_time} :
          auction' = [auction EXCEPT !.end_time = end]
    BY DEF CommitBid
  <2>3. EndTimeAfter(lot') \subseteq Int
    BY <1>8, <2>1, LatestCloseIsANumber DEF EndTimeAfter
  <2> QED BY <2>1, <2>2, <2>3 DEF Auction
<1>13. request' \in [BidNumbers -> Request]
  <2>1. request \in [BidNumbers -> Request] /\ request' = [request EXCEPT ![t].phase = "accepted"]
    BY DEF CommitBid, FloorInv, TypeOK
  <2> QED BY <2>1 DEF Request
<1>14. TypeOK'
  BY <1>8, <1>9, <1>10, <1>11, <1>12, <1>13
  DEF CommitBid, FloorInv, TypeOK, moneyVars, staffVars
<1>15. outbid' = [outbid EXCEPT ![l] = @ \cup Displaced(l, w)]
  BY <1>3
<1> QED BY <1>1, <1>6, <1>8, <1>9, <1>10, <1>14, <1>15

\* The same without the second bidder.
LEMMA BidKeepsTypes ==
  ASSUME FloorInv, NEW t \in BidNumbers, CommitBid(t)
  PROVE  /\ TypeOK'
         /\ \E w \in People, price \in Nat :
              LET l  == request[t].lot
                  px == [proxy[l] EXCEPT ![request[t].bidder] = RaisedMax(@, request[t].ceiling, t)]
              IN  /\ l \in Lots
                  /\ proxy' = [proxy EXCEPT ![l] = px]
                  /\ lot' = [lot EXCEPT ![l] = AfterBid(l, w, price)]
                  /\ bids' = [bids EXCEPT ![l] = @ \cup {NewRow(w, price, t)}]
                  /\ FloorOK(px, bids[l] \cup {NewRow(w, price, t)}, w, price)
BY BidWrites

-----------------------------------------------------------------------------
(* The invariant is preserved: steps that leave the lots, the proxies, the *)
(* bids and the locks of bids alone; steps that write lots rows; steps of  *)
(* a bid; steps of the closing transaction.                                *)

\* A step that changes neither the lots, the bids nor who holds which lock.
LEMMA QuietStep ==
  ASSUME FloorInv, TypeOK', UNCHANGED <<lot, proxy, bids, request>>,
         closer'.held \subseteq closer.held
  PROVE  FloorInv'
<1>1. FloorsOK' /\ TopRowsExist' /\ RequestsOK' /\ ProxiesOK' /\ UnsoldOK' /\ AbsentOK'
  BY DEF FloorInv, FloorsOK, TopRowsExist, RequestsOK, ProxiesOK, UnsoldOK, AbsentOK
<1>2. LocksOK'
  BY DEF FloorInv, LocksOK, MinimumBid
<1>3. HeldOK'
  BY DEF FloorInv, HeldOK, Catalogued
<1>4. SoldAtTopBid'
  BY DEF FloorInv, SoldAtTopBid
<1> QED BY <1>1, <1>2, <1>3, <1>4 DEF FloorInv

\* What a lots row that is written outside a bid must keep: the leader, the price
\* unless there is no bid, and the decision on its sale.
SoldRight(row, rows) ==
  row.state = "closed" =>
    IF row.winning_buyer = Nobody
      THEN row.reserve_not_met <=> rows # {}
      ELSE /\ rows # {}
           /\ row.winning_buyer = TopBid(rows).bidder
           /\ row.winning_amount = TopBid(rows).amount
WrittenRight(l) ==
  /\ lot'[l].current_winner = lot[l].current_winner
  /\ lot'[l].current_bid = lot[l].current_bid \/ bids[l] = {}
  /\ lot'[l].state = "absent" => lot[l].state = "absent"
  /\ lot'[l].state \in {"absent", "open"} => lot'[l].winning_buyer = Nobody
  /\ SoldRight(lot'[l], bids[l])
\* The lot is written by a transaction that waited for its lock, or not at all.
WrittenUnlocked(l) == lot'[l] = lot[l] \/ LotUnlocked(l)

LEMMA LotsStep ==
  ASSUME FloorInv, TypeOK', UNCHANGED <<proxy, bids, request, closer>>,
         \A l \in Lots : WrittenRight(l) /\ WrittenUnlocked(l)
  PROVE  FloorInv'
<1>1. FloorsOK'
  <2> SUFFICES ASSUME NEW l \in Lots
               PROVE  FloorOK(proxy[l], bids[l], lot'[l].current_winner, lot'[l].current_bid)
    BY DEF FloorsOK
  <2>1. FloorOK(proxy[l], bids[l], lot[l].current_winner, lot[l].current_bid)
    BY DEF FloorInv, FloorsOK
  <2>2. lot'[l].current_winner = lot[l].current_winner
    BY DEF WrittenRight
  <2>3. CASE lot'[l].current_bid = lot[l].current_bid
    BY <2>1, <2>2, <2>3
  <2>4. CASE bids[l] = {}
    BY <2>1, <2>2, <2>4 DEF FloorOK, Authorised, Leads, Headroom, LeaderTops
  <2> QED BY <2>3, <2>4 DEF WrittenRight
<1>2. TopRowsExist' /\ RequestsOK' /\ ProxiesOK'
  BY DEF FloorInv, TopRowsExist, RequestsOK, ProxiesOK
<1>3. LocksOK'
  <2> SUFFICES ASSUME NEW t \in BidNumbers, request[t].phase = "locked"
               PROVE  /\ request[t].lot \notin closer.held
                      /\ lot'[request[t].lot].state = "open"
                      /\ request[t].ceiling >= MinimumBid(request[t].lot)'
                      /\ \A u \in BidNumbers \ {t} :
                           request[u].phase = "locked" => request[u].lot # request[t].lot
    BY DEF LocksOK, MinimumBid
  <2>1. request[t].lot \in Lots
    BY DEF FloorInv, RequestsOK
  <2>2. lot'[request[t].lot] = lot[request[t].lot]
    BY <2>1 DEF WrittenUnlocked, LotUnlocked
  <2> QED BY <2>2 DEF FloorInv, LocksOK, MinimumBid
<1>4. UnsoldOK' /\ AbsentOK'
  BY DEF FloorInv, UnsoldOK, AbsentOK, WrittenRight
<1>5. SoldAtTopBid'
  BY DEF SoldAtTopBid, WrittenRight, SoldRight
<1>6. HeldOK'
  <2> SUFFICES ASSUME NEW l \in closer.held
               PROVE  l \in Lots /\ lot'[l].state \notin {"absent", "withdrawn"}
    BY DEF HeldOK, Catalogued
  <2>1. l \in Lots /\ lot[l].state \notin {"absent", "withdrawn"}
    BY DEF FloorInv, HeldOK, Catalogued
  <2>2. lot'[l] = lot[l]
    BY <2>1 DEF WrittenUnlocked, LotUnlocked
  <2> QED BY <2>1, <2>2
<1> QED BY <1>1, <1>2, <1>3, <1>4, <1>5, <1>6 DEF FloorInv

\* A lots row that is not written is in order.
LEMMA UntouchedIsRight ==
  ASSUME FloorInv, NEW l \in Lots, lot'[l] = lot[l]
  PROVE  WrittenRight(l) /\ WrittenUnlocked(l)
BY DEF FloorInv, WrittenRight, WrittenUnlocked, UnsoldOK, SoldAtTopBid, SoldRight

\* The bid steps.
LEMMA SubmitBidStep == ASSUME FloorInv, NEW t \in BidNumbers, SubmitBid(t) PROVE FloorInv'
<1>1. PICK l \in Lots, b \in Bidders, ceiling \in Ceilings :
        request' = [request EXCEPT ![t] = [phase |-> "begun", lot |-> l, bidder |-> b, ceiling |-> ceiling]]
  BY DEF SubmitBid
<1>2. request \in [BidNumbers -> Request] /\ request[t].phase = "idle"
  BY DEF SubmitBid, FloorInv, TypeOK
<1>3. UNCHANGED <<now, auction, lot, due, closer, floorVars, moneyVars, staffVars>>
  BY DEF SubmitBid
<1>4. TypeOK'
  <2>1. [phase |-> "begun", lot |-> l, bidder |-> b, ceiling |-> ceiling] \in Request
    BY AmountAssumption DEF Request, People
  <2> QED BY <1>1, <1>3, <2>1 DEF FloorInv, TypeOK, floorVars, moneyVars, staffVars
<1>5. RequestsOK'
  BY <1>1, <1>2 DEF FloorInv, RequestsOK
<1>6. LocksOK'
  BY <1>1, <1>2, <1>3 DEF FloorInv, LocksOK, MinimumBid
<1>7. ProxiesOK'
  BY <1>1, <1>2, <1>3 DEF FloorInv, ProxiesOK, floorVars
<1>8. FloorsOK' /\ TopRowsExist' /\ HeldOK' /\ UnsoldOK' /\ AbsentOK' /\ SoldAtTopBid'
  BY <1>3 DEF FloorInv, FloorsOK, TopRowsExist, HeldOK, Catalogued, UnsoldOK, AbsentOK,
              SoldAtTopBid, floorVars
<1> QED BY <1>4, <1>5, <1>6, <1>7, <1>8 DEF FloorInv

LEMMA LockLotStep == ASSUME FloorInv, NEW t \in BidNumbers, LockLot(t) PROVE FloorInv'
<1>1. PICK phase \in {"locked", "rejected"} :
        /\ request' = [request EXCEPT ![t].phase = phase]
        /\ phase = "locked" => Acceptable(request[t])
  BY DEF LockLot
<1>2. request \in [BidNumbers -> Request] /\ request[t].phase = "begun" /\ LotUnlocked(request[t].lot)
  BY DEF LockLot, FloorInv, TypeOK
<1>3. UNCHANGED <<now, auction, lot, due, closer, floorVars, moneyVars, staffVars>>
  BY DEF LockLot
<1>4. TypeOK'
  <2>1. request' \in [BidNumbers -> Request]
    BY <1>1, <1>2 DEF Request
  <2> QED BY <1>3, <2>1 DEF FloorInv, TypeOK, floorVars, moneyVars, staffVars
<1>5. /\ \A u \in BidNumbers \ {t} : request'[u] = request[u]
      /\ request'[t].phase = phase /\ request'[t].lot = request[t].lot
      /\ request'[t].bidder = request[t].bidder /\ request'[t].ceiling = request[t].ceiling
  BY <1>1, <1>2 DEF Request
<1>6. RequestsOK'
  BY <1>2, <1>5 DEF FloorInv, RequestsOK
<1>7. LocksOK'
  <2>1. \A l : MinimumBid(l)' = MinimumBid(l)
    BY <1>3 DEF MinimumBid
  <2> QED BY <1>1, <1>2, <1>3, <1>5, <2>1
      DEF FloorInv, LocksOK, LotUnlocked, Acceptable, StillTakingBids
<1>8. ProxiesOK'
  BY <1>2, <1>3, <1>5 DEF FloorInv, ProxiesOK, floorVars
<1>9. FloorsOK' /\ TopRowsExist' /\ HeldOK' /\ UnsoldOK' /\ AbsentOK' /\ SoldAtTopBid'
  BY <1>3 DEF FloorInv, FloorsOK, TopRowsExist, HeldOK, Catalogued, UnsoldOK, AbsentOK,
              SoldAtTopBid, floorVars
<1> QED BY <1>4, <1>6, <1>7, <1>8, <1>9 DEF FloorInv

LEMMA AbortBidStep == ASSUME FloorInv, NEW t \in BidNumbers, AbortBid(t) PROVE FloorInv'
<1>1. /\ request' = [request EXCEPT ![t].phase = "rejected"] /\ request[t].phase = "locked"
      /\ request \in [BidNumbers -> Request]
      /\ UNCHANGED <<now, auction, lot, due, closer, floorVars, moneyVars, staffVars>>
  BY DEF AbortBid, Deadlocked, FloorInv, TypeOK
<1>2. TypeOK'
  <2>1. request' \in [BidNumbers -> Request]
    BY <1>1 DEF Request
  <2> QED BY <1>1, <2>1 DEF FloorInv, TypeOK, floorVars, moneyVars, staffVars
<1>3. /\ \A u \in BidNumbers \ {t} : request'[u] = request[u]
      /\ request'[t].phase = "rejected" /\ request'[t].lot = request[t].lot
      /\ request'[t].bidder = request[t].bidder /\ request'[t].ceiling = request[t].ceiling
  BY <1>1 DEF Request
<1>4. RequestsOK' /\ LocksOK'
  BY <1>1, <1>3 DEF FloorInv, RequestsOK, LocksOK, MinimumBid
<1>5. ProxiesOK'
  BY <1>1, <1>3 DEF FloorInv, ProxiesOK, floorVars
<1>6. FloorsOK' /\ TopRowsExist' /\ HeldOK' /\ UnsoldOK' /\ AbsentOK' /\ SoldAtTopBid'
  BY <1>1 DEF FloorInv, FloorsOK, TopRowsExist, HeldOK, Catalogued, UnsoldOK, AbsentOK,
              SoldAtTopBid, floorVars
<1> QED BY <1>2, <1>4, <1>5, <1>6 DEF FloorInv

LEMMA CommitBidStep == ASSUME FloorInv, NEW t \in BidNumbers, CommitBid(t) PROVE FloorInv'
<1> DEFINE l  == request[t].lot
           s  == request[t].bidder
           px == [proxy[l] EXCEPT ![s] = RaisedMax(@, request[t].ceiling, t)]
<1>1. PICK w \in People, price \in Nat :
        /\ l \in Lots
        /\ proxy' = [proxy EXCEPT ![l] = px]
        /\ lot' = [lot EXCEPT ![l] = AfterBid(l, w, price)]
        /\ bids' = [bids EXCEPT ![l] = @ \cup {NewRow(w, price, t)}]
        /\ FloorOK(px, bids[l] \cup {NewRow(w, price, t)}, w, price)
  BY BidKeepsTypes
<1>2. TypeOK'
  BY BidKeepsTypes
<1>3. /\ request[t].phase = "locked" /\ request' = [request EXCEPT ![t].phase = "accepted"]
      /\ UNCHANGED closer
      /\ request \in [BidNumbers -> Request] /\ proxy \in [Lots -> [People -> Proxy]]
      /\ bids \in [Lots -> SUBSET BidRow] /\ lot \in [Lots -> Lot] /\ lot[l] \in Lot
  BY <1>1 DEF CommitBid, FloorInv, TypeOK
<1>4. /\ s \in People /\ lot[l].state = "open"
      /\ \A u \in BidNumbers \ {t} : request[u].phase = "locked" => request[u].lot # l
  BY <1>3 DEF FloorInv, RequestsOK, LocksOK, People
<1>5. /\ \A k \in Lots \ {l} : lot'[k] = lot[k] /\ bids'[k] = bids[k] /\ proxy'[k] = proxy[k]
      /\ lot'[l] = AfterBid(l, w, price)
      /\ bids'[l] = bids[l] \cup {NewRow(w, price, t)}
      /\ proxy'[l] = px
  BY <1>1, <1>3
<1>6. /\ AfterBid(l, w, price).current_winner = w /\ AfterBid(l, w, price).current_bid = price
      /\ AfterBid(l, w, price).state = lot[l].state
      /\ AfterBid(l, w, price).winning_buyer = lot[l].winning_buyer
  BY <1>3 DEF AfterBid, Lot
<1>7. /\ \A u \in BidNumbers \ {t} : request'[u] = request[u]
      /\ request'[t].phase = "accepted" /\ request'[t].lot = l
      /\ request'[t].bidder = s /\ request'[t].ceiling = request[t].ceiling
  BY <1>3 DEF Request
<1> HIDE DEF px
<1>8. FloorsOK'
  BY <1>1, <1>5, <1>6 DEF FloorInv, FloorsOK
<1>9. TopRowsExist'
  <2>1. NewRow(w, price, t) \in BidRow
    BY DEF NewRow, BidRow
  <2>2. bids[l] \in SUBSET BidRow /\ (bids[l] # {} => TopRows(bids[l]) # {})
    BY <1>1, <1>3 DEF FloorInv, TopRowsExist
  <2>3. TopRows(bids[l] \cup {NewRow(w, price, t)}) # {}
    BY <2>1, <2>2, TopRowsAfterBid
  <2> QED BY <1>5, <2>3 DEF FloorInv, TopRowsExist
<1>10. RequestsOK'
  BY <1>3, <1>7 DEF FloorInv, RequestsOK
<1>11. LocksOK'
  <2> SUFFICES ASSUME NEW u \in BidNumbers, request'[u].phase = "locked"
               PROVE  /\ request'[u].lot \notin closer.held
                      /\ lot'[request'[u].lot].state = "open"
                      /\ request'[u].ceiling >= MinimumBid(request[u].lot)'
                      /\ \A v \in BidNumbers \ {u} :
                           request'[v].phase = "locked" => request'[v].lot # request'[u].lot
    BY <1>3 DEF LocksOK, MinimumBid
  <2>1. u # t /\ request'[u] = request[u]
    BY <1>7
  <2>2. request[u].lot \in Lots \ {l}
    BY <2>1, <1>4 DEF FloorInv, RequestsOK
  <2>3. lot'[request[u].lot] = lot[request[u].lot]
    BY <2>2, <1>5
  <2> QED BY <1>7, <2>1, <2>3 DEF FloorInv, LocksOK, MinimumBid
<1>12. ProxiesOK'
  <2> SUFFICES ASSUME NEW k \in Lots, NEW b \in People, proxy'[k][b].max > 0
               PROVE  /\ proxy'[k][b].created \in BidNumbers
                      /\ request'[proxy'[k][b].created].phase = "accepted"
                      /\ request'[proxy'[k][b].created].lot = k
                      /\ request'[proxy'[k][b].created].bidder = b
    BY DEF ProxiesOK
  <2>1. CASE k # l \/ b # s
    <3>1. proxy'[k][b] = proxy[k][b]
      BY <2>1, <1>3, <1>5 DEF px
    <3>2. /\ proxy[k][b].created \in BidNumbers
          /\ request[proxy[k][b].created].phase = "accepted"
          /\ request[proxy[k][b].created].lot = k
          /\ request[proxy[k][b].created].bidder = b
      BY <3>1 DEF FloorInv, ProxiesOK
    <3> QED BY <3>1, <3>2, <1>3, <1>7
  <2>2. CASE k = l /\ b = s
    <3>1. proxy'[l][s] = RaisedMax(proxy[l][s], request[t].ceiling, t) /\ proxy[l][s] \in Proxy
      BY <1>3, <1>4, <1>5, <1>1 DEF px
    <3>2. CASE proxy[l][s].max = 0
      <4>1. proxy'[l][s].created = t
        BY <3>1, <3>2 DEF RaisedMax
      <4> QED BY <2>2, <4>1, <1>7
    <3>3. CASE proxy[l][s].max # 0
      <4>1. proxy'[l][s].created = proxy[l][s].created /\ proxy[l][s].max > 0
        BY <3>1, <3>3 DEF RaisedMax, Proxy
      <4>2. /\ proxy[l][s].created \in BidNumbers
            /\ request[proxy[l][s].created].phase = "accepted"
            /\ request[proxy[l][s].created].lot = l
            /\ request[proxy[l][s].created].bidder = s
        BY <4>1, <1>1, <1>4 DEF FloorInv, ProxiesOK
      <4> QED BY <2>2, <4>1, <4>2, <1>3, <1>7
    <3> QED BY <3>2, <3>3
  <2> QED BY <2>1, <2>2
<1>13. HeldOK'
  BY <1>3, <1>5, <1>6 DEF FloorInv, HeldOK, Catalogued
<1>14. UnsoldOK' /\ AbsentOK' /\ SoldAtTopBid'
  BY <1>4, <1>5, <1>6 DEF FloorInv, UnsoldOK, AbsentOK, SoldAtTopBid
<1> QED BY <1>2, <1>8, <1>9, <1>10, <1>11, <1>12, <1>13, <1>14 DEF FloorInv

\* The steps of the closing transaction.
LEMMA CloseLockLotStep == ASSUME FloorInv, NEW l \in Lots, CloseLockLot(l) PROVE FloorInv'
<1>1. /\ closer \in Closer
      /\ closer' = [closer EXCEPT !.visited = @ \cup {l},
                                  !.held = IF Catalogued(l) THEN @ \cup {l} ELSE @]
      /\ LotUnlocked(l)
      /\ UNCHANGED <<now, auction, lot, request, due, floorVars, moneyVars, staffVars>>
  BY DEF CloseLockLot, FloorInv, TypeOK
<1>2. closer' \in Closer /\ closer'.held = IF Catalogued(l) THEN closer.held \cup {l} ELSE closer.held
  BY <1>1 DEF Closer
<1>3. TypeOK'
  BY <1>1, <1>2 DEF FloorInv, TypeOK, floorVars, moneyVars, staffVars
<1>4. LocksOK'
  BY <1>1, <1>2 DEF FloorInv, LocksOK, LotUnlocked, MinimumBid
<1>5. HeldOK'
  BY <1>1, <1>2 DEF FloorInv, HeldOK, Catalogued
<1>6. FloorsOK' /\ TopRowsExist' /\ RequestsOK' /\ ProxiesOK' /\ UnsoldOK' /\ AbsentOK' /\ SoldAtTopBid'
  BY <1>1 DEF FloorInv, FloorsOK, TopRowsExist, RequestsOK, ProxiesOK, UnsoldOK, AbsentOK,
              SoldAtTopBid, floorVars
<1> QED BY <1>3, <1>4, <1>5, <1>6 DEF FloorInv

LEMMA CloseCommitStep == ASSUME FloorInv, CloseCommit PROVE FloorInv'
<1>1. /\ closer \in Closer /\ lot \in [Lots -> Lot] /\ bids \in [Lots -> SUBSET BidRow]
      /\ auction \in Auction
      /\ auction' = [auction EXCEPT !.state = "closed"]
      /\ lot' = [l \in Lots |-> IF ClosedByAuction(l) THEN ClosedLot(lot[l], bids[l]) ELSE lot[l]]
      /\ payout' = IF payout = NoPayout THEN HammerOf(closer.held) ELSE payout
      /\ settling' = TRUE
      /\ closer' = [closer EXCEPT !.phase = "idle", !.visited = {}, !.held = {}]
      /\ UNCHANGED <<now, request, due, floorVars, staffVars>>
  BY DEF CloseCommit, FloorInv, TypeOK
<1>2. closer' \in Closer /\ closer'.held = {}
  BY <1>1 DEF Closer
<1>3. \A l \in Lots : ClosedByAuction(l) =>
        /\ lot'[l] \in Lot /\ lot'[l].state = "closed"
        /\ lot'[l].current_winner = lot[l].current_winner
        /\ lot'[l].current_bid = lot[l].current_bid
        /\ SoldRight(lot'[l], bids[l])
  <2> SUFFICES ASSUME NEW l \in Lots, ClosedByAuction(l)
               PROVE  /\ lot'[l] \in Lot /\ lot'[l].state = "closed"
                      /\ lot'[l].current_winner = lot[l].current_winner
                      /\ lot'[l].current_bid = lot[l].current_bid
                      /\ SoldRight(lot'[l], bids[l])
    OBVIOUS
  <2>1. lot[l].state = "open"
    BY <1>1 DEF ClosedByAuction, FloorInv, HeldOK, Catalogued, Lot, LotStates
  <2>2. lot[l] \in Lot /\ bids[l] \in SUBSET BidRow /\ lot[l].winning_buyer = Nobody
        /\ (bids[l] # {} => TopRows(bids[l]) # {})
    BY <1>1, <2>1 DEF FloorInv, UnsoldOK, TopRowsExist
  <2>3. lot'[l] = ClosedLot(lot[l], bids[l])
    BY <1>1
  <2> QED BY <2>2, <2>3, ClosedLotIsSoldAtTopBid DEF SoldRight
<1>4. \A l \in Lots : ~ClosedByAuction(l) => lot'[l] = lot[l]
  BY <1>1
<1>5. \A l \in Lots : HammerOf(closer.held)[l] \in Int
  <2> SUFFICES ASSUME NEW l \in Lots, Sells(bids[l], lot[l].reserve) PROVE TopBid(bids[l]).amount \in Int
    BY DEF HammerOf
  <2>1. bids[l] \in SUBSET BidRow /\ TopRows(bids[l]) # {}
    BY <1>1 DEF FloorInv, TopRowsExist, Sells
  <2>2. TopBid(bids[l]) \in BidRow
    BY <2>1, TopBidIsABid
  <2> QED BY <2>2 DEF BidRow
<1>6. TypeOK'
  <2>1. lot' \in [Lots -> Lot]
    BY <1>1, <1>3, <1>4
  <2>2. payout' \in [Lots -> Int] \cup {NoPayout}
    BY <1>1, <1>5 DEF FloorInv, TypeOK, HammerOf
  <2>3. auction' \in Auction
    BY <1>1 DEF Auction, AuctionStates
  <2> QED BY <1>1, <1>2, <2>1, <2>2, <2>3 DEF FloorInv, TypeOK, floorVars, staffVars
<1>7. FloorsOK'
  BY <1>1, <1>3, <1>4 DEF FloorInv, FloorsOK, floorVars
<1>8. TopRowsExist' /\ RequestsOK' /\ ProxiesOK' /\ HeldOK'
  BY <1>1, <1>2 DEF FloorInv, TopRowsExist, RequestsOK, ProxiesOK, HeldOK, floorVars
<1>9. LocksOK'
  <2>1. \A t \in BidNumbers : request[t].phase = "locked" => ~ClosedByAuction(request[t].lot)
    BY DEF FloorInv, LocksOK, ClosedByAuction
  <2>2. \A t \in BidNumbers : request[t].phase = "locked" => lot'[request[t].lot] = lot[request[t].lot]
    BY <2>1, <1>4 DEF FloorInv, RequestsOK
  <2> QED BY <1>1, <1>2, <2>2 DEF FloorInv, LocksOK, MinimumBid
<1>10. UnsoldOK' /\ AbsentOK'
  BY <1>1, <1>3, <1>4 DEF FloorInv, UnsoldOK, AbsentOK, floorVars
<1>11. SoldAtTopBid'
  BY <1>1, <1>3, <1>4 DEF FloorInv, SoldAtTopBid, SoldRight, floorVars
<1> QED BY <1>6, <1>7, <1>8, <1>9, <1>10, <1>11 DEF FloorInv

\* The steps that write lots rows.
LEMMA PublishAuctionStep == ASSUME FloorInv, PublishAuction PROVE FloorInv'
<1>1. /\ lot \in [Lots -> Lot] /\ auction \in Auction
      /\ \A l \in Lots : LotUnlocked(l)
      /\ lot' = [l \in Lots |-> IF lot[l].state = "open"
                                  THEN [lot[l] EXCEPT !.closes_at = StaggeredClose(l)]
                                  ELSE lot[l]]
      /\ UNCHANGED <<now, request, due, closer, floorVars, moneyVars, staffVars>>
  BY DEF PublishAuction, FloorInv, TypeOK
<1>2. \A l \in Lots : StaggeredClose(l) \in Int
  <2> SUFFICES ASSUME NEW l \in Lots PROVE StaggeredClose(l) \in Int
    OBVIOUS
  <2> DEFINE S == { k \in Lots : k =< l /\ lot[k].state = "open" }
  <2>1. IsFiniteSet(S)
    BY LotsAssumption, FS_Subset
  <2>2. Cardinality(S) \in Nat
    BY <2>1, FS_CardinalityType
  <2> QED BY <2>2, TimeAssumption DEF StaggeredClose, LotCloseInterval
<1>3. lot' \in [Lots -> Lot]
  BY <1>1, <1>2 DEF Lot
<1>4. auction' \in Auction
  <2>1. PICK end \in IF Closes(lot') = {} THEN {auction.end_time} ELSE LatestClose(lot') :
          auction' = [state |-> "published", end_time |-> end]
    BY DEF PublishAuction
  <2>2. end \in Int
    BY <1>1, <1>3, LatestCloseIsANumber DEF Auction
  <2> QED BY <2>1, <2>2 DEF Auction, AuctionStates
<1>5. TypeOK'
  BY <1>1, <1>3, <1>4 DEF FloorInv, TypeOK, floorVars, moneyVars, staffVars
<1>6. \A l \in Lots : /\ lot'[l].state = lot[l].state
                      /\ lot'[l].current_winner = lot[l].current_winner
                      /\ lot'[l].current_bid = lot[l].current_bid
                      /\ lot'[l].winning_buyer = lot[l].winning_buyer
                      /\ lot'[l].winning_amount = lot[l].winning_amount
                      /\ lot'[l].reserve_not_met = lot[l].reserve_not_met
  BY <1>1 DEF Lot
<1>7. \A l \in Lots : WrittenRight(l) /\ WrittenUnlocked(l)
  BY <1>1, <1>6 DEF FloorInv, WrittenRight, WrittenUnlocked, UnsoldOK, SoldAtTopBid, SoldRight
<1> QED BY <1>1, <1>5, <1>7, LotsStep DEF floorVars

LEMMA AutoCloseLotStep == ASSUME FloorInv, NEW l \in Lots, AutoCloseLot(l) PROVE FloorInv'
<1>1. /\ lot \in [Lots -> Lot] /\ LotUnlocked(l) /\ due' = due \ {l}
      /\ bids \in [Lots -> SUBSET BidRow]
      /\ lot' = IF TimeIsUp(l) THEN [lot EXCEPT ![l] = ClosedLot(@, bids[l])] ELSE lot
      /\ UNCHANGED <<now, auction, request, closer, floorVars, moneyVars, staffVars>>
  BY DEF AutoCloseLot, FloorInv, TypeOK
<1>2. CASE ~TimeIsUp(l)
  <2>1. TypeOK'
    BY <1>1, <1>2 DEF FloorInv, TypeOK, floorVars, moneyVars, staffVars
  <2> QED BY <1>1, <1>2, <2>1, QuietStep DEF floorVars
<1>3. CASE TimeIsUp(l)
  <2>1. lot[l] \in Lot /\ bids[l] \in SUBSET BidRow /\ lot[l].winning_buyer = Nobody
        /\ (bids[l] # {} => TopRows(bids[l]) # {})
    BY <1>1, <1>3 DEF TimeIsUp, FloorInv, UnsoldOK, TopRowsExist
  <2>2. lot'[l] = ClosedLot(lot[l], bids[l])
    BY <1>1, <1>3
  <2>3. /\ lot'[l] \in Lot /\ lot'[l].state = "closed"
        /\ lot'[l].current_winner = lot[l].current_winner
        /\ lot'[l].current_bid = lot[l].current_bid
        /\ SoldRight(lot'[l], bids[l])
    BY <2>1, <2>2, ClosedLotIsSoldAtTopBid DEF SoldRight
  <2>4. \A k \in Lots \ {l} : lot'[k] = lot[k]
    BY <1>1
  <2>5. TypeOK'
    <3>1. lot' \in [Lots -> Lot]
      BY <1>1, <1>3, <2>3, <2>4
    <3> QED BY <1>1, <3>1 DEF FloorInv, TypeOK, floorVars, moneyVars, staffVars
  <2>6. WrittenRight(l) /\ WrittenUnlocked(l)
    BY <1>1, <2>3 DEF WrittenRight, WrittenUnlocked
  <2>7. \A k \in Lots : WrittenRight(k) /\ WrittenUnlocked(k)
    BY <2>4, <2>6, UntouchedIsRight
  <2> QED BY <1>1, <2>5, <2>7, LotsStep DEF floorVars
<1> QED BY <1>2, <1>3

\* A staff write of one lots row.
LEMMA StaffWrite ==
  ASSUME FloorInv, NEW l \in Lots, NEW row \in Lot, lot' = [lot EXCEPT ![l] = row],
         WrittenRight(l), WrittenUnlocked(l),
         UNCHANGED <<now, auction, request, due, closer, floorVars, moneyVars>>,
         removing' \subseteq Lots, edits' \in Nat
  PROVE  FloorInv'
<1>1. lot \in [Lots -> Lot]
  BY DEF FloorInv, TypeOK
<1>2. TypeOK'
  BY <1>1 DEF FloorInv, TypeOK, floorVars, moneyVars
<1>3. \A k \in Lots : WrittenRight(k) /\ WrittenUnlocked(k)
  BY <1>1, UntouchedIsRight
<1> QED BY <1>2, <1>3, LotsStep DEF floorVars

LEMMA EditLotStep == ASSUME FloorInv, NEW l \in Lots, EditLot(l) PROVE FloorInv'
<1>1. PICK increment \in Increments, start \in StartPrices,
           closes \in CloseTimes \cup {Null}, reserve \in Reserves \cup {Null} :
        lot' = [lot EXCEPT ![l].increment = increment,
                           ![l].starting_bid = start,
                           ![l].closes_at = IF closes = Null THEN @ ELSE closes,
                           ![l].reserve = IF reserve = Null THEN @ ELSE reserve]
  BY DEF EditLot
<1> DEFINE row == [lot[l] EXCEPT !.increment = increment, !.starting_bid = start,
                                 !.closes_at = IF closes = Null THEN @ ELSE closes,
                                 !.reserve = IF reserve = Null THEN @ ELSE reserve]
<1>2. lot \in [Lots -> Lot] /\ lot[l] \in Lot
  BY DEF FloorInv, TypeOK
<1>3. increment \in Nat /\ start \in Nat /\ closes \in Int /\ reserve \in Int
  BY AmountAssumption, TimeAssumption DEF Null
<1>4. row \in Lot
  BY <1>2, <1>3 DEF Lot
<1>5. lot' = [lot EXCEPT ![l] = row]
  BY <1>1, <1>2
<1>6. /\ row.state = lot[l].state
      /\ row.current_winner = lot[l].current_winner /\ row.current_bid = lot[l].current_bid
      /\ row.winning_buyer = lot[l].winning_buyer /\ row.winning_amount = lot[l].winning_amount
      /\ row.reserve_not_met = lot[l].reserve_not_met
  BY <1>2 DEF Lot
<1> HIDE DEF row
<1>7. lot'[l] = row
  BY <1>2, <1>5
<1>8. WrittenRight(l) /\ WrittenUnlocked(l)
  BY <1>6, <1>7 DEF FloorInv, WrittenRight, WrittenUnlocked, UnsoldOK, SoldAtTopBid, SoldRight, EditLot
<1>9. /\ UNCHANGED <<now, auction, request, due, closer, floorVars, moneyVars>>
      /\ removing' \subseteq Lots /\ edits' \in Nat
  BY DEF EditLot, Intervene, FloorInv, TypeOK
<1> QED BY <1>4, <1>5, <1>8, <1>9, StaffWrite

LEMMA AddLotStep == ASSUME FloorInv, NEW l \in Lots, AddLot(l) PROVE FloorInv'
<1>1. PICK increment \in Increments \cup {NoOverride}, start \in StartPrices \cup {StartPrice},
           reserve \in Reserves \cup {Null} :
        lot' = [lot EXCEPT ![l] = [NewLot("open") EXCEPT !.increment = increment,
                                                         !.starting_bid = start, !.reserve = reserve]]
  BY DEF AddLot
<1> DEFINE row == [NewLot("open") EXCEPT !.increment = increment, !.starting_bid = start,
                                         !.reserve = reserve]
<1>2. lot \in [Lots -> Lot] /\ lot[l].state = "absent"
  BY DEF FloorInv, TypeOK, AddLot
<1>3. increment \in Nat /\ start \in Nat /\ reserve \in Int
  BY AmountAssumption DEF Null, NoOverride
<1>4. row \in Lot
  BY <1>3, NewLotIsALot DEF Lot, LotStates
<1>5. row.state = "open" /\ row.current_winner = Nobody /\ row.winning_buyer = Nobody
  BY DEF NewLot
<1> HIDE DEF row
<1>6. bids[l] = {} /\ lot[l].current_winner = Nobody
  BY <1>2 DEF FloorInv, AbsentOK, FloorsOK, FloorOK, Leads
<1>7. lot'[l] = row
  BY <1>1, <1>2 DEF row
<1>8. LotUnlocked(l)
  BY <1>2 DEF FloorInv, LocksOK, HeldOK, Catalogued, LotUnlocked
<1>9. WrittenRight(l) /\ WrittenUnlocked(l)
  BY <1>5, <1>6, <1>7, <1>8, <1>2 DEF WrittenRight, WrittenUnlocked, SoldRight
<1>10. /\ UNCHANGED <<now, auction, request, due, closer, floorVars, moneyVars>>
       /\ removing' \subseteq Lots /\ edits' \in Nat
  BY DEF AddLot, Intervene, FloorInv, TypeOK
<1>11. lot' = [lot EXCEPT ![l] = row]
  BY <1>1 DEF row
<1> QED BY <1>4, <1>9, <1>10, <1>11, StaffWrite

\* RemoveLot and WithdrawLot.
LEMMA WithdrawStep ==
  ASSUME FloorInv, NEW l \in Lots, lot' = [lot EXCEPT ![l].state = "withdrawn"], LotUnlocked(l),
         UNCHANGED <<now, auction, request, due, closer, floorVars, moneyVars>>,
         removing' \subseteq Lots, edits' \in Nat
  PROVE  FloorInv'
<1> DEFINE row == [lot[l] EXCEPT !.state = "withdrawn"]
<1>1. lot \in [Lots -> Lot] /\ lot[l] \in Lot
  BY DEF FloorInv, TypeOK
<1>2. row \in Lot /\ row.state = "withdrawn" /\ row.current_winner = lot[l].current_winner
      /\ row.current_bid = lot[l].current_bid
  BY <1>1 DEF Lot, LotStates
<1>3. lot' = [lot EXCEPT ![l] = row]
  BY <1>1
<1> HIDE DEF row
<1>4. WrittenRight(l) /\ WrittenUnlocked(l)
  BY <1>1, <1>2, <1>3 DEF WrittenRight, WrittenUnlocked, SoldRight
<1> QED BY <1>2, <1>3, <1>4, StaffWrite

-----------------------------------------------------------------------------
(* The theorems. *)

LEMMA FloorInvNext == FloorInv /\ [Next]_vars => FloorInv'
<1> SUFFICES ASSUME FloorInv, [Next]_vars PROVE FloorInv'
  OBVIOUS
<1> USE DEF floorVars, moneyVars, staffVars
<1>1. CASE UNCHANGED vars
  <2>1. TypeOK'
    BY <1>1 DEF FloorInv, TypeOK, vars
  <2> QED BY <1>1, <2>1, QuietStep DEF vars
<1>2. CASE PublishAuction
  BY <1>2, PublishAuctionStep
<1>3. CASE BuyerNext
  BY <1>3, SubmitBidStep, LockLotStep, CommitBidStep, AbortBidStep DEF BuyerNext
<1>4. CASE SchedulerNext
  <2>1. CASE Tick
    <3>1. TypeOK'
      BY <2>1 DEF Tick, FloorInv, TypeOK
    <3> QED BY <2>1, <3>1, QuietStep DEF Tick
  <2>2. CASE PromoteAuction
    <3>1. TypeOK'
      BY <2>2 DEF PromoteAuction, FloorInv, TypeOK, Auction, AuctionStates
    <3> QED BY <2>2, <3>1, QuietStep DEF PromoteAuction
  <2>3. CASE AutoCloseScan
    <3>1. TypeOK'
      BY <2>3 DEF AutoCloseScan, FloorInv, TypeOK
    <3> QED BY <2>3, <3>1, QuietStep DEF AutoCloseScan
  <2>4. ASSUME NEW l \in Lots, AutoCloseLot(l) PROVE FloorInv'
    BY <2>4, AutoCloseLotStep
  <2>5. CASE CloseScan
    <3>1. TypeOK' /\ closer'.held = closer.held
      BY <2>5 DEF CloseScan, FloorInv, TypeOK, Closer
    <3> QED BY <2>5, <3>1, QuietStep DEF CloseScan
  <2> QED BY <1>4, <2>1, <2>2, <2>3, <2>4, <2>5 DEF SchedulerNext
<1>5. CASE CloserNext
  <2>1. CASE AdminClose
    <3>1. TypeOK' /\ closer'.held = closer.held
      BY <2>1 DEF AdminClose, FloorInv, TypeOK, Closer
    <3> QED BY <2>1, <3>1, QuietStep DEF AdminClose
  <2>2. CASE CloseBegin
    <3>1. TypeOK' /\ closer'.held = closer.held
      BY <2>2 DEF CloseBegin, FloorInv, TypeOK, Closer
    <3> QED BY <2>2, <3>1, QuietStep DEF CloseBegin
  <2>3. ASSUME NEW l \in Lots, CloseLockLot(l) PROVE FloorInv'
    BY <2>3, CloseLockLotStep
  <2>4. CASE CloseCommit
    BY <2>4, CloseCommitStep
  <2>5. CASE AbortClose
    <3>1. TypeOK' /\ closer'.held = {}
      BY <2>5 DEF AbortClose, FloorInv, TypeOK, Closer
    <3> QED BY <2>5, <3>1, QuietStep DEF AbortClose
  <2>6. CASE StoreSettlement
    <3>1. \A l \in Lots : SettledHammer[l] \in Int
      BY DEF SettledHammer, FloorInv, TypeOK, Lot
    <3>2. TypeOK'
      BY <2>6, <3>1 DEF StoreSettlement, SettledHammer, FloorInv, TypeOK
    <3> QED BY <2>6, <3>2, QuietStep DEF StoreSettlement
  <2>7. CASE LoseSettlement
    <3>1. TypeOK'
      BY <2>7 DEF LoseSettlement, FloorInv, TypeOK
    <3> QED BY <2>7, <3>1, QuietStep DEF LoseSettlement
  <2> QED BY <1>5, <2>1, <2>2, <2>3, <2>4, <2>5, <2>6, <2>7 DEF CloserNext
<1>6. ASSUME NEW l \in Lots, EditLot(l) PROVE FloorInv'
  BY <1>6, EditLotStep
<1>7. ASSUME NEW l \in Lots, AddLot(l) PROVE FloorInv'
  BY <1>7, AddLotStep
<1>8. ASSUME NEW l \in Lots, RemoveLotCheck(l) PROVE FloorInv'
  <2>1. TypeOK'
    BY <1>8 DEF RemoveLotCheck, Intervene, FloorInv, TypeOK
  <2> QED BY <1>8, <2>1, QuietStep DEF RemoveLotCheck
<1>9. ASSUME NEW l \in Lots, RemoveLot(l) PROVE FloorInv'
  <2>1. removing' \subseteq Lots /\ edits' \in Nat
    BY <1>9 DEF RemoveLot, FloorInv, TypeOK
  <2> QED BY <1>9, <2>1, WithdrawStep DEF RemoveLot
<1>10. ASSUME NEW l \in Lots, WithdrawLot(l) PROVE FloorInv'
  <2>1. removing' \subseteq Lots /\ edits' \in Nat
    BY <1>10 DEF WithdrawLot, Intervene, FloorInv, TypeOK
  <2> QED BY <1>10, <2>1, WithdrawStep DEF WithdrawLot
<1>11. CASE UnpublishAuction
  <2>1. TypeOK'
    BY <1>11 DEF UnpublishAuction, Intervene, FloorInv, TypeOK, Auction, AuctionStates
  <2> QED BY <1>11, <2>1, QuietStep DEF UnpublishAuction
<1> QED BY <1>1, <1>2, <1>3, <1>4, <1>5, <1>6, <1>7, <1>8, <1>9, <1>10, <1>11
        DEF Next, SaleNext, StaffNext

\* Everything the model holds has its type: in particular the price, the leader and
\* the winner written to a lots row are a number of cents and a user.
THEOREM TypesAreRight == Spec => []TypeOK
<1>1. FloorInv => TypeOK
  BY DEF FloorInv
<1> QED BY <1>1, FloorInvInit, FloorInvNext, PTL DEF Spec

LEMMA FloorLeader == FloorInv => LeaderIsTopBidder
<1> SUFFICES ASSUME FloorInv, NEW l \in Lots, NEW r \in TopRows(bids[l]),
                    r.bidder # lot[l].current_winner
             PROVE  FALSE
  BY DEF LeaderIsTopBidder
<1>1. r \in bids[l] /\ bids[l] \in SUBSET BidRow
  BY DEF TopRows, FloorInv, TypeOK
<1>2. PICK q \in bids[l] : q.amount > r.amount
  BY <1>1 DEF FloorInv, FloorsOK, FloorOK, LeaderTops
<1>3. r.amount \in Nat /\ q.amount \in Nat
  BY <1>1 DEF BidRow
<1> QED BY <1>2, <1>3 DEF TopRows

\* createBid: the leader on the lots row is the bidder of every top bid row.
THEOREM LeaderIsTop == Spec => []LeaderIsTopBidder
BY FloorLeader, FloorInvInit, FloorInvNext, PTL DEF Spec

\* createBid: no bid row exceeds the maximum its bidder authorised.
THEOREM MaximaAreRespected == Spec => []NobodyBidsAboveTheirMaximum
<1>1. FloorInv => NobodyBidsAboveTheirMaximum
  BY DEF FloorInv, FloorsOK, FloorOK, Authorised, NobodyBidsAboveTheirMaximum
<1> QED BY <1>1, FloorInvInit, FloorInvNext, PTL DEF Spec

\* runLotAutoClose and closeAuction: a closed lot is sold at its top bid row, whatever
\* bids and interventions run next to the close.
THEOREM ClosedLotsAreSoldAtTopBid == Spec => []SoldAtTopBid
<1>1. FloorInv => SoldAtTopBid
  BY DEF FloorInv
<1> QED BY <1>1, FloorInvInit, FloorInvNext, PTL DEF Spec

\* closeAuction and runLotAutoClose write a lot only while it is open, and a bid holds
\* only open lots: the result of a closed lot is never rewritten.
LEMMA ResultKept ==
  ASSUME FloorInv, [Next]_vars, NEW l \in Lots, lot[l].state = "closed"
  PROVE  /\ lot'[l].state \in {"closed", "withdrawn"}
         /\ lot'[l].winning_buyer = lot[l].winning_buyer
         /\ lot'[l].winning_amount = lot[l].winning_amount
         /\ bids'[l] = bids[l]
<1> DEFINE Kept == /\ lot'[l].state \in {"closed", "withdrawn"}
                   /\ lot'[l].winning_buyer = lot[l].winning_buyer
                   /\ lot'[l].winning_amount = lot[l].winning_amount
                   /\ bids'[l] = bids[l]
<1> SUFFICES Kept
  OBVIOUS
<1>1. lot \in [Lots -> Lot] /\ lot[l] \in Lot /\ bids \in [Lots -> SUBSET BidRow]
  BY DEF FloorInv, TypeOK
<1>3. CASE PublishAuction
  BY <1>1, <1>3 DEF PublishAuction, floorVars
<1>4. ASSUME NEW t \in BidNumbers, CommitBid(t) PROVE Kept
  <2>1. request[t].lot # l
    BY <1>4 DEF CommitBid, FloorInv, LocksOK
  <2>2. PICK w \in People, price \in Nat :
          /\ lot' = [lot EXCEPT ![request[t].lot] = AfterBid(request[t].lot, w, price)]
          /\ bids' = [bids EXCEPT ![request[t].lot] = @ \cup {NewRow(w, price, t)}]
    BY <1>4, BidKeepsTypes
  <2> QED BY <1>1, <2>1, <2>2
<1>5. ASSUME NEW k \in Lots, AutoCloseLot(k) PROVE Kept
  BY <1>1, <1>5 DEF AutoCloseLot, TimeIsUp, floorVars
<1>6. CASE CloseCommit
  BY <1>1, <1>6 DEF CloseCommit, ClosedByAuction, floorVars
<1>7. ASSUME NEW k \in Lots, EditLot(k) PROVE Kept
  <2>1. lot'[l].state = lot[l].state /\ lot'[l].winning_buyer = lot[l].winning_buyer
        /\ lot'[l].winning_amount = lot[l].winning_amount
    BY <1>1, <1>7 DEF EditLot, Lot
  <2> QED BY <1>7, <2>1 DEF EditLot, floorVars
<1>8. ASSUME NEW k \in Lots, AddLot(k) PROVE Kept
  BY <1>1, <1>8 DEF AddLot, floorVars
<1>9. ASSUME NEW k \in Lots, RemoveLot(k) \/ WithdrawLot(k) PROVE Kept
  BY <1>1, <1>9 DEF RemoveLot, WithdrawLot, floorVars, Lot
<1>10. CASE UNCHANGED vars
  BY <1>10 DEF vars
<1>11. ASSUME NEW t \in BidNumbers, SubmitBid(t) \/ LockLot(t) \/ AbortBid(t) PROVE Kept
  BY <1>11 DEF SubmitBid, LockLot, AbortBid, floorVars
<1>12. CASE Tick \/ PromoteAuction \/ AutoCloseScan \/ CloseScan
  BY <1>12 DEF Tick, PromoteAuction, AutoCloseScan, CloseScan, floorVars
<1>13. CASE \/ AdminClose \/ CloseBegin \/ AbortClose \/ StoreSettlement \/ LoseSettlement
            \/ (\E k \in Lots : CloseLockLot(k))
  BY <1>13 DEF AdminClose, CloseBegin, AbortClose, StoreSettlement, LoseSettlement,
               CloseLockLot, floorVars
<1>14. CASE UnpublishAuction \/ \E k \in Lots : RemoveLotCheck(k)
  BY <1>14 DEF UnpublishAuction, RemoveLotCheck, floorVars
<1> HIDE DEF Kept
<1>15. Kept
  <2>1. BuyerNext => Kept
    BY <1>4, <1>11 DEF BuyerNext
  <2>2. SchedulerNext => Kept
    BY <1>5, <1>12 DEF SchedulerNext
  <2>3. CloserNext => Kept
    BY <1>6, <1>13 DEF CloserNext
  <2>4. StaffNext => Kept
    BY <1>3, <1>7, <1>8, <1>9, <1>14 DEF StaffNext
  <2> QED BY <1>3, <1>10, <2>1, <2>2, <2>3, <2>4 DEF Next, SaleNext
<1> QED BY <1>15

\* The result of a closed lot never changes.
THEOREM ResultsAreFinal == Spec => ResultIsFinal
<1> DEFINE Final == \A l \in Lots : lot[l].state = "closed" =>
                      /\ lot'[l].state \in {"closed", "withdrawn"}
                      /\ lot'[l].winning_buyer = lot[l].winning_buyer
                      /\ lot'[l].winning_amount = lot[l].winning_amount
                      /\ bids'[l] = bids[l]
<1>1. FloorInv /\ [Next]_vars => [Final]_vars
  BY ResultKept
<1> HIDE DEF Final
<1>2. Spec => [][Final]_vars
  BY <1>1, FloorInvInit, FloorInvNext, PTL DEF Spec
<1> QED BY <1>2 DEF Final, ResultIsFinal
=============================================================================
