------------------------ MODULE BidIncrement_proofs ------------------------
(***************************************************************************)
(* What every caller of the ladder relies on, for every price.             *)
(***************************************************************************)
EXTENDS BidIncrement, TLAPS

\* The table in the header comment of bid-increment.js, in whole dollars.
PublishedStep(dollars) ==
  CASE dollars < 50                       -> 1
    [] dollars >= 50 /\ dollars < 200     -> 5
    [] dollars >= 200 /\ dollars < 500    -> 10
    [] dollars >= 500 /\ dollars < 1000   -> 25
    [] dollars >= 1000 /\ dollars < 2500  -> 50
    [] dollars >= 2500                    -> 100

\* The lowest band a price fits in decides.
LEMMA LowestBand ==
  ASSUME NEW c \in Nat, NEW b \in BandsAt(c),
         \A other \in BandsAt(c) : b.upTo =< other.upTo
  PROVE  incrementForCents(c) = b.step
<1>1. \A x, y \in LADDER : x.upTo = y.upTo => x = y
  BY DEF LADDER
<1>2. \A x \in LADDER : x.upTo \in Int
  BY DEF LADDER
<1> DEFINE Lowest(x) == \A other \in BandsAt(c) : x.upTo =< other.upTo
           pick == CHOOSE x \in BandsAt(c) : Lowest(x)
<1>3. BandsAt(c) \subseteq LADDER
  BY DEF BandsAt
<1>4. pick \in BandsAt(c) /\ Lowest(pick)
  OBVIOUS
<1>5. pick.upTo = b.upTo
  BY <1>2, <1>3, <1>4
<1>6. pick = b
  BY <1>1, <1>3, <1>4, <1>5
<1>7. BandsAt(c) # {}
  OBVIOUS
<1> QED BY <1>6, <1>7 DEF incrementForCents

\* The increment at every price.
Stepped(c) ==
  IF c =< 4999 THEN 100
  ELSE IF c =< 19999 THEN 500
  ELSE IF c =< 49999 THEN 1000
  ELSE IF c =< 99999 THEN 2500
  ELSE IF c =< 249999 THEN 5000
  ELSE 10000

LEMMA IncrementAt ==
  ASSUME NEW c \in Nat
  PROVE  incrementForCents(c) = Stepped(c)
<1> DEFINE b1 == [upTo |-> 4999, step |-> 100]
           b2 == [upTo |-> 19999, step |-> 500]
           b3 == [upTo |-> 49999, step |-> 1000]
           b4 == [upTo |-> 99999, step |-> 2500]
           b5 == [upTo |-> 249999, step |-> 5000]
<1>0. LADDER = {b1, b2, b3, b4, b5}
  BY DEF LADDER
<1>a. \A b : b \in BandsAt(c) <=> b \in {b1, b2, b3, b4, b5} /\ c =< b.upTo
  BY <1>0 DEF BandsAt
<1> HIDE DEF b1, b2, b3, b4, b5
<1>b. /\ b1.upTo = 4999 /\ b2.upTo = 19999 /\ b3.upTo = 49999
      /\ b4.upTo = 99999 /\ b5.upTo = 249999
  BY DEF b1, b2, b3, b4, b5
<1>c. /\ b1.step = 100 /\ b2.step = 500 /\ b3.step = 1000
      /\ b4.step = 2500 /\ b5.step = 5000
  BY DEF b1, b2, b3, b4, b5
<1>1. CASE c =< 4999
  <2>1. b1 \in BandsAt(c) /\ \A other \in BandsAt(c) : b1.upTo =< other.upTo
    BY <1>1, <1>a, <1>b
  <2> QED BY <1>1, <1>c, <2>1, LowestBand DEF Stepped
<1>2. CASE c > 4999 /\ c =< 19999
  <2>1. b2 \in BandsAt(c) /\ \A other \in BandsAt(c) : b2.upTo =< other.upTo
    BY <1>2, <1>a, <1>b
  <2> QED BY <1>2, <1>c, <2>1, LowestBand DEF Stepped
<1>3. CASE c > 19999 /\ c =< 49999
  <2>1. b3 \in BandsAt(c) /\ \A other \in BandsAt(c) : b3.upTo =< other.upTo
    BY <1>3, <1>a, <1>b
  <2> QED BY <1>3, <1>c, <2>1, LowestBand DEF Stepped
<1>4. CASE c > 49999 /\ c =< 99999
  <2>1. b4 \in BandsAt(c) /\ \A other \in BandsAt(c) : b4.upTo =< other.upTo
    BY <1>4, <1>a, <1>b
  <2> QED BY <1>4, <1>c, <2>1, LowestBand DEF Stepped
<1>5. CASE c > 99999 /\ c =< 249999
  <2>1. b5 \in BandsAt(c) /\ \A other \in BandsAt(c) : b5.upTo =< other.upTo
    BY <1>5, <1>a, <1>b
  <2> QED BY <1>5, <1>c, <2>1, LowestBand DEF Stepped
<1>6. CASE c > 249999
  <2>1. BandsAt(c) = {}
    BY <1>6, <1>a, <1>b
  <2> QED BY <1>6, <2>1 DEF incrementForCents, Stepped, TOP_INCREMENT
<1> QED BY <1>1, <1>2, <1>3, <1>4, <1>5, <1>6

\* bid-increment.js: the ladder is the published table, at every whole-dollar price,
\* both sides of every band boundary included.
THEOREM LadderIsPublishedTable ==
  \A dollars \in Nat : incrementForCents(100 * dollars) = 100 * PublishedStep(dollars)
<1>1. SUFFICES ASSUME NEW dollars \in Nat
               PROVE  incrementForCents(100 * dollars) = 100 * PublishedStep(dollars)
  OBVIOUS
<1>2. 100 * dollars \in Nat
  OBVIOUS
<1>3. Stepped(100 * dollars) = 100 * PublishedStep(dollars)
  BY DEF Stepped, PublishedStep
<1> QED BY <1>2, <1>3, IncrementAt

\* bidService, createBid: a higher price never lowers the next minimum, across band
\* boundaries and whatever the override and the starting price, so a client holding an
\* older price can only under-estimate the minimum the server will ask for.
THEOREM NextMinimumNeverFalls ==
  \A start, low, high, override \in Nat :
    low =< high => nextMinCents(start, low, override) =< nextMinCents(start, high, override)
<1>1. SUFFICES ASSUME NEW start \in Nat, NEW low \in Nat, NEW high \in Nat, NEW override \in Nat,
                      low =< high
               PROVE  nextMinCents(start, low, override) =< nextMinCents(start, high, override)
  OBVIOUS
<1>2. Stepped(low) \in Nat /\ Stepped(high) \in Nat /\ Stepped(low) =< Stepped(high)
  BY <1>1 DEF Stepped
<1>3. /\ effectiveIncrement(low, override) \in Nat
      /\ effectiveIncrement(high, override) \in Nat
      /\ effectiveIncrement(low, override) =< effectiveIncrement(high, override)
  BY <1>2, IncrementAt DEF effectiveIncrement
<1> QED BY <1>1, <1>3 DEF nextMinCents

\* createBid accepts whole dollars only: the next minimum is a whole number of dollars
\* when the price, the override and the start are, so it can always be bid.
THEOREM WholeDollarMinimum ==
  \A start, current, override \in Nat :
    \E dollars \in Nat : nextMinCents(100 * start, 100 * current, 100 * override) = 100 * dollars
<1>1. SUFFICES ASSUME NEW start \in Nat, NEW current \in Nat, NEW override \in Nat
               PROVE  \E dollars \in Nat :
                        nextMinCents(100 * start, 100 * current, 100 * override) = 100 * dollars
  OBVIOUS
<1>2. 100 * current \in Nat /\ PublishedStep(current) \in Nat
  BY DEF PublishedStep
<1> DEFINE step == IF override > 0 THEN override ELSE PublishedStep(current)
<1>3. step \in Nat /\ effectiveIncrement(100 * current, 100 * override) = 100 * step
  BY <1>2, LadderIsPublishedTable DEF effectiveIncrement
<1> HIDE DEF step
<1>4. 100 * current + 100 * step = 100 * (current + step)
  BY <1>3
<1>5. nextMinCents(100 * start, 100 * current, 100 * override)
        = 100 * (IF start > current + step THEN start ELSE current + step)
  BY <1>3, <1>4 DEF nextMinCents
<1> QED BY <1>3, <1>5
=============================================================================
