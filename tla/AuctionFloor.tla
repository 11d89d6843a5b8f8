---------------------------- MODULE AuctionFloor ----------------------------
(***************************************************************************)
(* The auction floor: the bidding, the soft close and the closing of one   *)
(* auction and its lots.                                                   *)
(*                                                                         *)
(*   bidService.createBid                 a buyer bids (proxy bidding)     *)
(*   notificationWorker, lot auto-close   one lot's clock runs out         *)
(*   notificationWorker, state scheduler  the auction starts and ends      *)
(*   auctionService.closeAuction          winners, reserve, seller payout  *)
(*   routes/lots, complianceService       staff and professional sellers   *)
(*                                        edit, add, remove lots, unpublish*)
(*                                                                         *)
(* All of them are separate database transactions.  The unit of atomicity  *)
(* here is the stretch between two lock waits: a bid waits for the lot row *)
(* and then for the auction row (the foreign key of bids.auction_id), the  *)
(* closing transaction for the auction row and then for every lot row.     *)
(* Time is in minutes; a NULL column is the value Null.                    *)
(***************************************************************************)
EXTENDS BidIncrement

CONSTANTS
  Lots,            \* lot numbers
  InitialLots,     \* the lots the seller catalogued before publication
  Bidders,         \* users with an active registration, terms and a card; the seller may be one
  Owner,           \* the seller's own user account
  Nobody,          \* NULL in a user column
  EmailEnabled,    \* bidders whose notification preferences allow email
  Ceilings,        \* whole-dollar amounts bidders submit, in cents
  StartPrice,      \* starting_bid_cents of a new lot
  Increments,      \* flat increment overrides an edit may store
  StartPrices,     \* starting prices an edit may store
  Reserves,        \* reserves an edit may store (Null: no reserve given)
  CloseTimes,      \* closing times an edit may store (Null: none given)
  StartTime,       \* auctions.start_time
  MaxBids,         \* bid requests (bound)
  MaxEdits,        \* staff interventions (bound)
  Horizon          \* the last minute of the clock (bound)

Null == -1
NoPayout == <<>>
BidNumbers == 1 .. MaxBids
People     == Bidders \cup {Owner}

ASSUME LotsAssumption    == /\ Lots \subseteq Nat
                            /\ IsFiniteSet(Lots)
                            /\ InitialLots \subseteq Lots
ASSUME PeopleAssumption  == Nobody \notin People /\ EmailEnabled \subseteq Bidders
ASSUME AmountAssumption  == /\ Ceilings \subseteq Nat \ {0}
                            /\ StartPrice \in Nat \ {0}
                            /\ StartPrices \subseteq Nat \ {0}
                            /\ Increments \subseteq Nat
                            /\ Reserves \subseteq Nat \cup {Null}
ASSUME TimeAssumption    == /\ StartTime \in Nat
                            /\ CloseTimes \subseteq Nat \cup {Null}
ASSUME BoundAssumption   == MaxBids \in Nat /\ MaxEdits \in Nat /\ Horizon \in Nat

VARIABLES
  now,       \* the database clock, in minutes
  auction,   \* the auctions row: state, end_time
  lot,       \* the lots rows
  proxy,     \* lot_proxy_bids: lot -> bidder -> max and created_at (max 0: no row)
  bids,      \* bids: lot -> the set of bid rows
  outbid,    \* notifications_queue: lot -> who has an OUTBID row
  request,   \* bid requests in the order their transactions began
  due,       \* lots of the auto-close pass under way
  closer,    \* the closing transaction
  payout,    \* seller_payouts.gross_revenue_cents, itemised by lot (NoPayout: no row)
  settling,  \* is the post-commit storeSettlement call still to run?
  removing,  \* DELETE /lots requests between their check and their update
  edits      \* staff interventions so far

vars == <<now, auction, lot, proxy, bids, outbid, request, due, closer,
          payout, settling, removing, edits>>
floorVars == <<proxy, bids, outbid>>
staffVars == <<removing, edits>>
moneyVars == <<payout, settling>>

AuctionStates == {"draft", "published", "active", "closed"}
LotStates     == {"absent", "open", "closed", "withdrawn"}

Auction == [state : AuctionStates, end_time : Int]
Lot == [state : LotStates, closes_at : Int, extension_count : Nat,
        starting_bid : Nat, increment : Nat, reserve : Int,
        current_bid : Nat, current_winner : People \cup {Nobody}, bid_count : Nat,
        winning_buyer : People \cup {Nobody}, winning_amount : Int,
        reserve_not_met : BOOLEAN]
Proxy   == [max : Nat, created : Nat]
BidRow  == [bidder : People, amount : Nat, created : BidNumbers]
Request == [phase : {"idle", "begun", "locked", "accepted", "rejected"},
            lot : Lots \cup {Null}, bidder : People \cup {Nobody}, ceiling : Nat]
Closer  == [phase : {"idle", "due", "locking"}, by : {"scheduler", "admin"},
            visited : SUBSET Lots, held : SUBSET Lots]

TypeOK ==
  /\ now \in Nat
  /\ auction \in Auction
  /\ lot \in [Lots -> Lot]
  /\ proxy \in [Lots -> [People -> Proxy]]
  /\ bids \in [Lots -> SUBSET BidRow]
  /\ outbid \in [Lots -> SUBSET People]
  /\ request \in [BidNumbers -> Request]
  /\ due \subseteq Lots
  /\ closer \in Closer
  /\ payout \in [Lots -> Int] \cup {NoPayout}
  /\ settling \in BOOLEAN
  /\ removing \subseteq Lots
  /\ edits \in Nat

-----------------------------------------------------------------------------
\* Row locks.

\* Faults: the closing transaction reads bids under a bidder's lock; a refused bid
\* leaves its transaction open.
LotUnlockedForAnyone(l) == l \notin closer.held
LotLockLeaks(l) ==
  /\ l \notin closer.held
  /\ \A t \in BidNumbers : request[t].phase \in {"locked", "rejected"} => request[t].lot # l

\* SELECT ... FOR UPDATE and UPDATE on a lots row wait for whoever holds it.
LotUnlocked(l) ==
  /\ l \notin closer.held
  /\ \A t \in BidNumbers : request[t].phase = "locked" => request[t].lot # l

\* The closing transaction holds the auctions row FOR UPDATE. Every insert of a
\* row with a foreign key to it, and every update of it, waits.
AuctionUnlocked == closer.phase # "locking"

-----------------------------------------------------------------------------
\* Reading the floor.

\* ORDER BY max_amount_cents DESC, created_at ASC: who may come first among S.
Ahead(p, q) == p.max > q.max \/ (p.max = q.max /\ p.created =< q.created)
Foremost(px, S) == { w \in S : \A b \in S : Ahead(px[w], px[b]) }
Entered(px)     == { b \in People : px[b].max > 0 }
SecondTo(px, w) == IF Entered(px) = {w} THEN {Nobody} ELSE Foremost(px, Entered(px) \ {w})

\* ORDER BY amount_cents DESC, created_at ASC: which rows may be the top bid.
TopRows(rows) ==
  { r \in rows : \A q \in rows : \/ r.amount > q.amount
                                 \/ r.amount = q.amount /\ r.created =< q.created }
TopBid(rows) == CHOOSE r \in TopRows(rows) : TRUE

\* A lot sells when it has a bid and the top bid reaches the reserve, if any.
ReserveMet(rows, reserve) == reserve = Null \/ TopBid(rows).amount >= reserve
Sells(rows, reserve)      == rows # {} /\ ReserveMet(rows, reserve)
LowReserve(rows, reserve) == rows # {} /\ ~ReserveMet(rows, reserve)

Scheduled(l)   == lot[l].closes_at # Null
Catalogued(l)  == lot[l].state \notin {"absent", "withdrawn"}
BiddingOpen    == auction.state \in {"published", "active"}

\* MAX(closes_at) over the lots that are not withdrawn: a set of one element, or of
\* none when every such closes_at is NULL.
Closes(rows) ==
  { rows[l].closes_at : l \in { k \in Lots : rows[k].state \notin {"absent", "withdrawn"} } } \ {Null}
LatestClose(rows) == { last \in Closes(rows) : \A other \in Closes(rows) : other =< last }

-----------------------------------------------------------------------------
NewLot(state) ==
  [state |-> state, closes_at |-> Null, extension_count |-> 0,
   starting_bid |-> StartPrice, increment |-> NoOverride, reserve |-> Null,
   current_bid |-> 0, current_winner |-> Nobody, bid_count |-> 0,
   winning_buyer |-> Nobody, winning_amount |-> Null, reserve_not_met |-> FALSE]

Init ==
  /\ now = 0
  /\ auction = [state |-> "draft", end_time |-> Null]
  /\ \E asked \in [InitialLots -> Reserves \cup {Null}] :
       lot = [l \in Lots |-> IF l \in InitialLots
                               THEN [NewLot("open") EXCEPT !.reserve = asked[l]]
                               ELSE NewLot("absent")]
  /\ proxy = [l \in Lots |-> [b \in People |-> [max |-> 0, created |-> 0]]]
  /\ bids = [l \in Lots |-> {}]
  /\ outbid = [l \in Lots |-> {}]
  /\ request = [t \in BidNumbers |-> [phase |-> "idle", lot |-> Null, bidder |-> Nobody, ceiling |-> 0]]
  /\ due = {}
  /\ closer = [phase |-> "idle", by |-> "scheduler", visited |-> {}, held |-> {}]
  /\ payout = NoPayout
  /\ settling = FALSE
  /\ removing = {}
  /\ edits = 0

-----------------------------------------------------------------------------
\* Publication and the clock.

LotCloseInterval == 1      \* LOT_CLOSE_INTERVAL_SECONDS, in minutes

\* Lots close one after the other: the n-th open lot n intervals after the start.
StaggeredClose(l) ==
  StartTime + LotCloseInterval * Cardinality({ k \in Lots : k =< l /\ lot[k].state = "open" })

\* publishAuction: schedule every open lot and set the auction's end to the last
\* close. Only a published or a closed auction is refused, so a draft and an active
\* one may be published.
PublishAuction ==
  /\ auction.state \notin {"published", "closed"}
  /\ \E l \in Lots : Catalogued(l)
  /\ AuctionUnlocked
  /\ \A l \in Lots : LotUnlocked(l)
  /\ lot' = [l \in Lots |-> IF lot[l].state = "open"
                               THEN [lot[l] EXCEPT !.closes_at = StaggeredClose(l)]
                               ELSE lot[l]]
  /\ \E end \in IF Closes(lot') = {} THEN {auction.end_time} ELSE LatestClose(lot') :
       auction' = [state |-> "published", end_time |-> end]
  /\ UNCHANGED <<now, request, due, closer, floorVars, moneyVars, staffVars>>

\* Fault: the tick must fall on the very minute of the start.
PromoteOnTheMinute ==
  /\ auction.state = "published" /\ StartTime = now - 1
  /\ AuctionUnlocked
  /\ auction' = [auction EXCEPT !.state = "active"]
  /\ UNCHANGED <<now, lot, request, due, closer, floorVars, moneyVars, staffVars>>

\* runAuctionStateTransitions, first statement.
PromoteAuction ==
  /\ auction.state = "published" /\ StartTime =< now
  /\ AuctionUnlocked
  /\ auction' = [auction EXCEPT !.state = "active"]
  /\ UNCHANGED <<now, lot, request, due, closer, floorVars, moneyVars, staffVars>>

Tick ==
  /\ now < Horizon
  /\ now' = now + 1
  /\ UNCHANGED <<auction, lot, request, due, closer, floorVars, moneyVars, staffVars>>

-----------------------------------------------------------------------------
\* Bidding: bidService.createBid, behind POST /api/lots/:lotId/bids.

\* The route reads the lot and the auction without a lock; then createBid begins
\* its transaction, whose start time becomes created_at of every row it inserts.
\* Bids are numbered in the order they begin.
SubmitBid(t) ==
  /\ request[t].phase = "idle"
  /\ \A u \in BidNumbers : u < t => request[u].phase # "idle"
  /\ BiddingOpen
  /\ \E l \in Lots, b \in Bidders, ceiling \in Ceilings :
       /\ lot[l].state = "open"
       /\ Scheduled(l) => now =< lot[l].closes_at
       /\ request' = [request EXCEPT ![t] = [phase |-> "begun", lot |-> l,
                                             bidder |-> b, ceiling |-> ceiling]]
  /\ UNCHANGED <<now, auction, lot, due, closer, floorVars, moneyVars, staffVars>>

\* Fault: only the starting price is checked.
MinimumIsStart(l) == lot[l].starting_bid

MinimumBid(l) == nextMinCents(lot[l].starting_bid, lot[l].current_bid, lot[l].increment)

\* What createBid checks on the locked row: not the seller's own lot, the lot still
\* taking bids, its clock not run out, the amount at least the next minimum.
StillTakingBids(l) == /\ lot[l].state = "open"
                      /\ Scheduled(l) => now =< lot[l].closes_at
Acceptable(r) == /\ r.bidder # Owner
                 /\ StillTakingBids(r.lot)
                 /\ r.ceiling >= MinimumBid(r.lot)

\* SELECT * FROM lots ... FOR UPDATE, then the checks.
LockLot(t) ==
  /\ request[t].phase = "begun"
  /\ LotUnlocked(request[t].lot)
  /\ request' = [request EXCEPT ![t].phase = IF Acceptable(request[t]) THEN "locked" ELSE "rejected"]
  /\ UNCHANGED <<now, auction, lot, due, closer, floorVars, moneyVars, staffVars>>

\* The upsert of lot_proxy_bids: a maximum is only ever raised, and a bidder who
\* raises it keeps the created_at of the first one.
RaisedMax(row, ceiling, t) ==
  IF row.max = 0
    THEN [max |-> ceiling, created |-> t]
    ELSE [row EXCEPT !.max = IF ceiling > @ THEN ceiling ELSE @]

\* Faults: no cap at the leader's maximum; a runner-up below the price resets it.
UncappedPrice(row, px, w, r) ==
  IF r = Nobody THEN row.starting_bid ELSE px[r].max + effectiveIncrement(px[r].max, row.increment)
PriceFromStart(row, px, w, r) ==
  IF r = Nobody \/ px[r].max < row.current_bid THEN row.starting_bid ELSE px[r].max

\* The price the floor shows once w leads and r (Nobody: no one) is second.
VisiblePrice(row, px, w, r) ==
  IF r = Nobody
    THEN IF row.starting_bid > row.current_bid THEN row.starting_bid ELSE row.current_bid
    ELSE LET beat == px[r].max + effectiveIncrement(px[r].max, row.increment)
         IN  IF beat < px[w].max THEN beat ELSE px[w].max

SoftCloseWindow == 2       \* 120000 ms, in minutes
Extension       == 2       \* interval '2 minutes'

\* applyAntiSnipe extends the lot when two minutes or less remain.
Snipes(l) == /\ Scheduled(l)
             /\ lot[l].closes_at - now > 0
             /\ lot[l].closes_at - now =< SoftCloseWindow

\* Faults: the leader of the lots row is never replaced; the price follows a change
\* of leader only.
AfterBidStaleLeader(l, w, price) ==
  [lot[l] EXCEPT !.current_bid = price, !.bid_count = @ + 1,
                 !.current_winner = IF @ = Nobody THEN w ELSE @]
AfterBidStalePrice(l, w, price) ==
  [lot[l] EXCEPT !.current_winner = w, !.bid_count = @ + 1,
                 !.current_bid = IF w = lot[l].current_winner THEN @ ELSE price]

\* The lots row after resolveProxyBid and applyAntiSnipe.
AfterBid(l, w, price) ==
  [lot[l] EXCEPT !.current_bid = price,
                 !.current_winner = w,
                 !.bid_count = @ + 1,
                 !.closes_at = IF Snipes(l) THEN @ + Extension ELSE @,
                 !.extension_count = IF Snipes(l) THEN @ + 1 ELSE @]

\* Fault: the new end is computed from the closes before the extension.
EndTimeStale(rows) ==
  { IF last > auction.end_time THEN last ELSE auction.end_time : last \in LatestClose(lot) }

\* An extension pushes auctions.end_time out to the latest close, never back.
EndTimeAfter(rows) ==
  { IF last > auction.end_time THEN last ELSE auction.end_time : last \in LatestClose(rows) }

\* Faults: only a lot's first change of leader is announced; there is always somebody
\* to tell.
DisplacedOnce(l, w) ==
  IF outbid[l] = {} /\ lot[l].current_winner \notin {Nobody, w} THEN {lot[l].current_winner} \cap EmailEnabled ELSE {}
DisplacedEvenNobody(l, w)  == {lot[l].current_winner} \ {w}

\* An OUTBID row for the leader who has just been displaced, if mail is wanted.
Displaced(l, w) ==
  IF lot[l].current_winner \notin {Nobody, w} THEN {lot[l].current_winner} \cap EmailEnabled ELSE {}

\* resolveProxyBid, applyAntiSnipe and COMMIT. The insert into bids needs a share
\* lock on the auctions row, which the closing transaction does not give.
CommitBid(t) ==
  LET l  == request[t].lot
      b  == request[t].bidder
      px == [proxy[l] EXCEPT ![b] = RaisedMax(@, request[t].ceiling, t)]
  IN  /\ request[t].phase = "locked"
      /\ AuctionUnlocked
      /\ \E w \in Foremost(px, Entered(px)) : \E r \in SecondTo(px, w) :
           LET price == VisiblePrice(lot[l], px, w, r)
           IN  /\ lot' = [lot EXCEPT ![l] = AfterBid(l, w, price)]
               /\ bids' = [bids EXCEPT ![l] = @ \cup {[bidder |-> w, amount |-> price, created |-> t]}]
               /\ outbid' = [outbid EXCEPT ![l] = @ \cup Displaced(l, w)]
      /\ \E end \in IF Snipes(l) THEN EndTimeAfter(lot') ELSE {auction.end_time} :
           auction' = [auction EXCEPT !.end_time = end]
      /\ proxy' = [proxy EXCEPT ![l] = px]
      /\ request' = [request EXCEPT ![t].phase = "accepted"]
      /\ UNCHANGED <<now, due, closer, moneyVars, staffVars>>

-----------------------------------------------------------------------------
\* Closing a lot.

ClosedLot(row, rows) ==
  IF Sells(rows, row.reserve)
    THEN [row EXCEPT !.state = "closed", !.winning_buyer = TopBid(rows).bidder,
                     !.winning_amount = TopBid(rows).amount, !.reserve_not_met = FALSE]
    ELSE [row EXCEPT !.state = "closed", !.reserve_not_met = LowReserve(rows, row.reserve)]

TimeIsUp(l) == /\ lot[l].state = "open"
               /\ Scheduled(l)
               /\ lot[l].closes_at =< now

\* runLotAutoClose, the scan of a pass.
AutoCloseScan ==
  /\ due = {}
  /\ BiddingOpen
  /\ \E l \in Lots : TimeIsUp(l)
  /\ due' = { l \in Lots : TimeIsUp(l) }
  /\ UNCHANGED <<now, auction, lot, request, closer, floorVars, moneyVars, staffVars>>

\* runLotAutoClose, one lot of the pass: re-checked under the row lock.
AutoCloseLot(l) ==
  /\ l \in due
  /\ LotUnlocked(l)
  /\ due' = due \ {l}
  /\ lot' = IF TimeIsUp(l) THEN [lot EXCEPT ![l] = ClosedLot(@, bids[l])] ELSE lot
  /\ UNCHANGED <<now, auction, request, closer, floorVars, moneyVars, staffVars>>

-----------------------------------------------------------------------------
\* Closing the auction: auctionService.closeAuction.

\* Fault: one lot that is not open is enough.
SomeLotNotOpen == \E l \in Lots : lot[l].state \notin {"absent", "open"}

NoOpenLot == /\ \E l \in Lots : lot[l].state # "absent"
             /\ \A l \in Lots : lot[l].state # "open"
EndReached == auction.end_time # Null /\ auction.end_time =< now

\* runAuctionStateTransitions, second statement: the auction is due for closing.
CloseScan ==
  /\ closer.phase = "idle"
  /\ auction.state = "active"
  /\ EndReached \/ NoOpenLot
  /\ closer' = [closer EXCEPT !.phase = "due", !.by = "scheduler"]
  /\ UNCHANGED <<now, auction, lot, request, due, floorVars, moneyVars, staffVars>>

\* POST /api/admin/auctions/:auctionId/close.
AdminClose ==
  /\ closer.phase = "idle"
  /\ BiddingOpen
  /\ closer' = [closer EXCEPT !.phase = "due", !.by = "admin"]
  /\ UNCHANGED <<now, auction, lot, request, due, floorVars, moneyVars, staffVars>>

\* SELECT ... FOR UPDATE OF a and the state checks; the new state is not visible
\* to anyone else before the commit.
CloseBegin ==
  /\ closer.phase = "due"
  /\ closer' = [closer EXCEPT !.phase = IF BiddingOpen THEN "locking" ELSE "idle"]
  /\ UNCHANGED <<now, auction, lot, request, due, floorVars, moneyVars, staffVars>>

\* SELECT ... FROM lots WHERE state != 'withdrawn' FOR UPDATE, row by row in the
\* order the database meets them.
CloseLockLot(l) ==
  /\ closer.phase = "locking"
  /\ l \notin closer.visited
  /\ LotUnlocked(l)
  /\ closer' = [closer EXCEPT !.visited = @ \cup {l},
                              !.held = IF Catalogued(l) THEN @ \cup {l} ELSE @]
  /\ UNCHANGED <<now, auction, lot, request, due, floorVars, moneyVars, staffVars>>

\* Fault: lots below their reserve are paid out too.
HammerOfAllBids(S) ==
  [l \in Lots |-> IF l \in S /\ bids[l] # {} THEN TopBid(bids[l]).amount ELSE 0]

\* What each lot adds to the hammer total, from the results array that closeAuction
\* builds in memory.
HammerOf(S) ==
  [l \in Lots |-> IF l \in S /\ Sells(bids[l], lot[l].reserve) THEN TopBid(bids[l]).amount ELSE 0]

\* A lot the auto-close pass has closed already keeps what that pass wrote.
ClosedByAuction(l) == l \in closer.held /\ lot[l].state # "closed"

CloseCommit ==
  /\ closer.phase = "locking"
  /\ closer.visited = Lots
  /\ auction' = [auction EXCEPT !.state = "closed"]
  /\ lot' = [l \in Lots |-> IF ClosedByAuction(l) THEN ClosedLot(lot[l], bids[l]) ELSE lot[l]]
  /\ payout' = IF payout = NoPayout THEN HammerOf(closer.held) ELSE payout
  /\ settling' = TRUE
  /\ closer' = [closer EXCEPT !.phase = "idle", !.visited = {}, !.held = {}]
  /\ UNCHANGED <<now, request, due, floorVars, staffVars>>

\* The same from what the lots rows carry: billingTermsService.getSettlement.
SettledHammer ==
  [l \in Lots |-> IF lot[l].state = "closed" /\ lot[l].winning_buyer # Nobody
                     THEN lot[l].winning_amount ELSE 0]

\* The post-commit billingTermsService.storeSettlement call, and losing it because
\* the call fails (it swallows the error) or the process stops first.
StoreSettlement ==
  /\ settling
  /\ settling' = FALSE
  /\ payout' = SettledHammer
  /\ UNCHANGED <<now, auction, lot, request, due, closer, floorVars, staffVars>>
LoseSettlement ==
  /\ settling
  /\ settling' = FALSE
  /\ UNCHANGED <<now, auction, lot, request, due, closer, payout, floorVars, staffVars>>

\* A bid that holds a lot waits for the auctions row; the closing transaction that
\* holds the auctions row waits for that lot.  PostgreSQL aborts one of the two.
Deadlocked(t) == /\ closer.phase = "locking"
                 /\ request[t].phase = "locked"
                 /\ request[t].lot \notin closer.visited
AbortBid(t) ==
  /\ Deadlocked(t)
  /\ request' = [request EXCEPT ![t].phase = "rejected"]
  /\ UNCHANGED <<now, auction, lot, due, closer, floorVars, moneyVars, staffVars>>
AbortClose ==
  /\ \E t \in BidNumbers : Deadlocked(t)
  /\ closer' = [closer EXCEPT !.phase = "idle", !.visited = {}, !.held = {}]
  /\ UNCHANGED <<now, auction, lot, request, due, floorVars, moneyVars, staffVars>>

-----------------------------------------------------------------------------
\* Staff, and professional sellers after publication.  None of these handlers
\* looks at the state of the lot.

Intervene == edits < MaxEdits /\ edits' = edits + 1

\* PUT /api/lots/:lotId. The increment and the starting price are overwritten, the
\* reserve and the closing time only when the body has one. auctions.end_time stays.
EditLot(l) ==
  /\ Intervene
  /\ lot[l].state # "absent"
  /\ LotUnlocked(l)
  /\ \E increment \in Increments, start \in StartPrices,
        closes \in CloseTimes \cup {Null}, reserve \in Reserves \cup {Null} :
       lot' = [lot EXCEPT ![l].increment = increment,
                          ![l].starting_bid = start,
                          ![l].closes_at = IF closes = Null THEN @ ELSE closes,
                          ![l].reserve = IF reserve = Null THEN @ ELSE reserve]
  /\ UNCHANGED <<now, auction, request, due, closer, floorVars, moneyVars, removing>>

\* POST /api/lots: the next lot number, open at once, with no closing time.
AddLot(l) ==
  /\ Intervene
  /\ lot[l].state = "absent"
  /\ \A k \in Lots : k < l => lot[k].state # "absent"
  /\ AuctionUnlocked
  /\ \E increment \in Increments \cup {NoOverride}, start \in StartPrices \cup {StartPrice},
        reserve \in Reserves \cup {Null} :
       lot' = [lot EXCEPT ![l] = [NewLot("open") EXCEPT !.increment = increment,
                                                        !.starting_bid = start, !.reserve = reserve]]
  /\ UNCHANGED <<now, auction, request, due, closer, floorVars, moneyVars, removing>>

\* DELETE /api/lots/:lotId: the bid count is read first ...
RemoveLotCheck(l) ==
  /\ Intervene
  /\ l \notin removing
  /\ lot[l].state # "absent"
  /\ lot[l].bid_count = 0
  /\ removing' = removing \cup {l}
  /\ UNCHANGED <<now, auction, lot, request, due, closer, floorVars, moneyVars>>

\* ... and the lot is withdrawn in a second statement.
RemoveLot(l) ==
  /\ l \in removing
  /\ LotUnlocked(l)
  /\ removing' = removing \ {l}
  /\ lot' = [lot EXCEPT ![l].state = "withdrawn"]
  /\ UNCHANGED <<now, auction, request, due, closer, edits, floorVars, moneyVars>>

\* complianceService.withdrawLot.
WithdrawLot(l) ==
  /\ Intervene
  /\ lot[l].state # "absent"
  /\ LotUnlocked(l)
  /\ lot' = [lot EXCEPT ![l].state = "withdrawn"]
  /\ UNCHANGED <<now, auction, request, due, closer, floorVars, moneyVars, removing>>

\* complianceService.unpublishAuction.
UnpublishAuction ==
  /\ Intervene
  /\ BiddingOpen
  /\ AuctionUnlocked
  /\ auction' = [auction EXCEPT !.state = "draft"]
  /\ UNCHANGED <<now, lot, request, due, closer, floorVars, moneyVars, removing>>

-----------------------------------------------------------------------------
BuyerNext ==
  \E t \in BidNumbers : SubmitBid(t) \/ LockLot(t) \/ CommitBid(t) \/ AbortBid(t)

SchedulerNext ==
  \/ Tick
  \/ PromoteAuction
  \/ AutoCloseScan
  \/ \E l \in Lots : AutoCloseLot(l)
  \/ CloseScan

CloserNext ==
  \/ AdminClose
  \/ CloseBegin
  \/ \E l \in Lots : CloseLockLot(l)
  \/ CloseCommit
  \/ AbortClose
  \/ StoreSettlement
  \/ LoseSettlement

\* An auction nobody interferes with once it is published.
SaleNext == \/ auction.state = "draft" /\ PublishAuction
            \/ BuyerNext
            \/ SchedulerNext
            \/ CloserNext

StaffNext ==
  \/ auction.state # "draft" /\ PublishAuction
  \/ \E l \in Lots : EditLot(l) \/ AddLot(l) \/ RemoveLotCheck(l) \/ RemoveLot(l) \/ WithdrawLot(l)
  \/ UnpublishAuction

Next == SaleNext \/ StaffNext

Spec == Init /\ [][Next]_vars

\* The same auction without interventions of staff: what the platform does alone.
SaleSpec == Init /\ [][SaleNext]_vars

-----------------------------------------------------------------------------
(***************************************************************************)
(* Fairness.  The worker's intervals keep firing and the database grants a *)
(* lock to a waiter once its holder is gone; a bid waiting for a lock is   *)
(* queued, so it is served if the lock is released again and again.        *)
(* Buyers need not bid and the administrator need not act.                 *)
(***************************************************************************)
FairSale ==
  /\ SaleSpec
  /\ WF_vars(Tick) /\ WF_vars(PromoteAuction)
  /\ WF_vars(AutoCloseScan) /\ \A l \in Lots : WF_vars(AutoCloseLot(l))
  /\ WF_vars(CloseScan) /\ WF_vars(CloseBegin) /\ WF_vars(CloseCommit)
  /\ \A l \in Lots : WF_vars(CloseLockLot(l))
  /\ \A t \in BidNumbers : SF_vars(LockLot(t)) /\ SF_vars(CommitBid(t))
  /\ WF_vars(AbortClose \/ \E t \in BidNumbers : AbortBid(t))

-----------------------------------------------------------------------------
(* Properties of every behaviour, staff interventions included. *)

\* The user the floor shows as leading is the bidder of the highest bid row, however
\* maxima were raised, tied or re-ranked and however the increment was changed in
\* between. closeAuction reads only the bid rows, the floor shows only the lots row.
LeaderIsTopBidder ==
  \A l \in Lots : \A r \in TopRows(bids[l]) : r.bidder = lot[l].current_winner

\* No bid row, and so no winning amount, is above the maximum its bidder authorised.
NobodyBidsAboveTheirMaximum ==
  \A l \in Lots : \A r \in bids[l] : r.amount =< proxy[l][r.bidder].max

\* A closed lot is sold exactly at its top bid row: no bid slips in between reading
\* the bids and closing the lot, or after, whichever of the two closers closed it.
SoldAtTopBid ==
  \A l \in Lots : lot[l].state = "closed" =>
    IF lot[l].winning_buyer = Nobody
      THEN lot[l].reserve_not_met <=> bids[l] # {}
      ELSE /\ bids[l] # {}
           /\ lot[l].winning_buyer = TopBid(bids[l]).bidder
           /\ lot[l].winning_amount = TopBid(bids[l]).amount

\* Everyone who was ever shown leading and no longer leads has an OUTBID notice
\* queued, unless their preferences turn email off.
DisplacedLeadersAreTold ==
  \A l \in Lots : \A r \in bids[l] :
    r.bidder \in EmailEnabled \ {lot[l].current_winner} => r.bidder \in outbid[l]

\* The result of a closed lot never changes and the lot never takes bids again: the
\* auction-level close leaves alone what the auto-close pass decided, even when the
\* reserve was edited in between.
ResultIsFinal ==
  [][\A l \in Lots : lot[l].state = "closed" =>
       /\ lot'[l].state \in {"closed", "withdrawn"}
       /\ lot'[l].winning_buyer = lot[l].winning_buyer
       /\ lot'[l].winning_amount = lot[l].winning_amount
       /\ bids'[l] = bids[l]]_vars

-----------------------------------------------------------------------------
(* Properties of a sale nobody interferes with. *)

\* Until staff edit something the price on the floor is the price the lot would be
\* sold at, through every raise, tie and cap.
ShownPriceIsTopBid ==
  edits = 0 => \A l \in Lots : IF bids[l] = {} THEN lot[l].current_bid = 0
                                  ELSE lot[l].current_bid = TopBid(bids[l]).amount

\* Until staff edit something a bid never lowers the price, and taking the lead
\* raises it.
PriceOnlyRises ==
  [][edits' = 0 => \A l \in Lots :
       /\ lot'[l].current_bid >= lot[l].current_bid
       /\ lot'[l].current_winner # lot[l].current_winner
            => lot'[l].current_bid > lot[l].current_bid]_vars

\* While bidding is open no open lot runs beyond the auction's end, so the
\* auction-level close is never due before the last extended lot is.
EndCoversOpenLots ==
  BiddingOpen => \A l \in Lots : lot[l].state = "open" => lot[l].closes_at =< auction.end_time

\* The schedulers never close a lot that still has time on its clock; only an
\* administrator's close may.
NoLotClosedEarly ==
  [][\A l \in Lots :
       lot[l].state = "open" /\ lot'[l].state = "closed"
         => \/ Scheduled(l) /\ lot[l].closes_at =< now
            \/ closer.by = "admin" /\ l \in closer.held]_vars

\* The payout row is inserted with the total the lots rows add up to at that commit:
\* what closeAuction computed in memory is what it wrote to the lots.
PayoutAgreesAtClose == [][payout = NoPayout /\ payout' # NoPayout => payout' = SettledHammer']_vars

\* The hammer total of the seller payout is the sum of what the lots were sold for,
\* whether or not the post-commit settlement ran.
PayoutIsSumOfSales == payout # NoPayout => payout = SettledHammer

\* A published auction ends, however late the bids and however often a close is
\* aborted as a deadlock victim.
SaleEnds == auction.state = "published" ~> auction.state = "closed"

\* Every bid request is answered: no bid waits for ever for a row lock, so there is
\* always a later moment at which none is waiting.
EveryBidAnswered ==
  []<>(\A t \in BidNumbers : request[t].phase \notin {"begun", "locked"})

-----------------------------------------------------------------------------
(* What bidding by proxy promises, and what stands for it in the tables. *)

\* The price of a lot is its top bid row; no reserve is a reserve of nothing.
SaleStage   == [l \in Lots |-> lot[l].state]
SaleReserve == [l \in Lots |-> IF lot[l].reserve = Null THEN 0 ELSE lot[l].reserve]
SaleBook    == [l \in Lots |->
                  [count   |-> lot[l].bid_count,
                   maximum |-> [b \in People |-> proxy[l][b].max],
                   leader  |-> lot[l].current_winner,
                   price   |-> IF bids[l] = {} THEN 0 ELSE TopBid(bids[l]).amount]]
SaleResult  == [l \in Lots |->
                  [buyer |-> lot[l].winning_buyer,
                   paid  |-> IF lot[l].winning_buyer = Nobody THEN 0 ELSE lot[l].winning_amount]]

Sale == INSTANCE ProxySale
        WITH stage <- SaleStage, reserve <- SaleReserve, book <- SaleBook, result <- SaleResult

\* Every lot is sold as ProxySale promises: staff, both closers, lock waits, ties and
\* maxima raised in any order leave the hammer on the leader, once, at a price within
\* the leader's maximum that no other maximum exceeded when it was set.
SoldByProxy == Sale!Spec

=============================================================================
