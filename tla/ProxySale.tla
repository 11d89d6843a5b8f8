----------------------------- MODULE ProxySale -----------------------------
(***************************************************************************)
(* What an auction by proxy promises about each lot, said without row      *)
(* locks, clocks, schedulers or increments.  A bidder authorises a         *)
(* maximum; the price is what the leader has to pay to be ahead, and no    *)
(* more than the leader authorised; the hammer falls once, on the leader,  *)
(* at that price, if the reserve is reached.  AuctionFloor implements it.  *)
(***************************************************************************)
EXTENDS Integers

CONSTANTS
  Lots,     \* lot numbers
  People,   \* who may bid
  Nobody    \* no leader, or no buyer

VARIABLES
  stage,     \* lot -> where it is in the sale
  reserve,   \* lot -> the least it may be sold for
  book,      \* lot -> the bids so far: their number, the maxima, the leader, the price
  result     \* lot -> who bought it, and for how much

vars == <<stage, reserve, book, result>>

Book    == [count : Nat, maximum : [People -> Nat], leader : People, price : Nat]
NoBids  == [count |-> 0, maximum |-> [b \in People |-> 0], leader |-> Nobody, price |-> 0]
NotSold == [buyer |-> Nobody, paid |-> 0]

Init ==
  /\ stage \in [Lots -> {"absent", "open"}]
  /\ reserve \in [Lots -> Int]
  /\ book = [l \in Lots |-> NoBids]
  /\ result = [l \in Lots |-> NotSold]

\* A lot joins the sale, with a reserve of the seller's choice.
Offer(l) ==
  /\ stage[l] = "absent"
  /\ stage' = [stage EXCEPT ![l] = "open"]
  /\ reserve' = [reserve EXCEPT ![l] = reserve'[l]]
  /\ book' = [book EXCEPT ![l] = NoBids]
  /\ result' = [result EXCEPT ![l] = NotSold]

\* The seller changes the reserve, perhaps too late to matter.
SetReserve(l) ==
  /\ stage[l] # "absent"
  /\ reserve' = [reserve EXCEPT ![l] = reserve'[l]]
  /\ UNCHANGED <<stage, book, result>>

Withdraw(l) ==
  /\ stage' = [stage EXCEPT ![l] = "withdrawn"]
  /\ UNCHANGED <<reserve, book, result>>

\* The price is within the leader's maximum and no one else's maximum exceeds it.
Priced(b) ==
  /\ b.price =< b.maximum[b.leader]
  /\ \A p \in People \ {b.leader} : b.maximum[p] =< b.price

\* p bids on an open lot. Nobody lowers a maximum or the price; only p may take the
\* lead, and takes it from another by raising the price.
Bid(l, p) ==
  LET old == book[l]
      new == book'[l]
  IN  /\ stage[l] = "open"
      /\ book' = [book EXCEPT ![l] = new]
      /\ new \in Book
      /\ new.count = old.count + 1
      /\ new.maximum[p] >= old.maximum[p]
      /\ \A q \in People \ {p} : new.maximum[q] = old.maximum[q]
      /\ new.leader \in {old.leader, p}
      /\ new.price >= old.price
      /\ old.leader \in People \ {new.leader} => new.price > old.price
      /\ Priced(new)
      /\ UNCHANGED <<stage, reserve, result>>

Outcome(b, least) ==
  IF b.leader # Nobody /\ b.price >= least THEN [buyer |-> b.leader, paid |-> b.price] ELSE NotSold

\* The hammer falls on some of the open lots, on each of them once and for all.
Hammer(S) ==
  /\ \A l \in S : stage[l] = "open"
  /\ stage' = [l \in Lots |-> IF l \in S THEN "closed" ELSE stage[l]]
  /\ result' = [l \in Lots |-> IF l \in S THEN Outcome(book[l], reserve[l]) ELSE result[l]]
  /\ UNCHANGED <<reserve, book>>

Next ==
  \/ \E l \in Lots : \/ Offer(l) \/ SetReserve(l) \/ Withdraw(l)
                     \/ \E p \in People : Bid(l, p)
  \/ \E S \in SUBSET Lots : Hammer(S)

Spec == Init /\ [][Next]_vars
=============================================================================
