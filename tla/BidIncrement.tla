---------------------------- MODULE BidIncrement ----------------------------
(***************************************************************************)
(* The bid-increment ladder of public/widgets/shared/bid-increment.js: one *)
(* file that the server (bidService) and the browser both run, so that the *)
(* hint a bidder sees and the minimum the server enforces are the same.    *)
(* Amounts are whole cents.                                                *)
(***************************************************************************)
EXTENDS Integers, FiniteSets

\* No flat override configured on the lot, the auction or the auction house.
NoOverride == 0

\* A price band: its largest price (inclusive) and the increment inside it.
LADDER == { [upTo |-> 4999,   step |-> 100],
            [upTo |-> 19999,  step |-> 500],
            [upTo |-> 49999,  step |-> 1000],
            [upTo |-> 99999,  step |-> 2500],
            [upTo |-> 249999, step |-> 5000] }

TOP_INCREMENT == 10000

\* The bands a price does not exceed; the lowest of them is the price's band.
BandsAt(cents) == { band \in LADDER : cents =< band.upTo }

incrementForCents(cents) ==
  IF BandsAt(cents) = {}
    THEN TOP_INCREMENT
    ELSE (CHOOSE band \in BandsAt(cents) :
             \A other \in BandsAt(cents) : band.upTo =< other.upTo).step

\* A positive flat override wins over the ladder.
effectiveIncrement(cents, override) ==
  IF override > 0 THEN override ELSE incrementForCents(cents)

\* The smallest amount the next bid may carry. Both arguments come from stored
\* cents columns, so the rounding and the NaN guards of the code do nothing.
nextMinCents(starting, current, override) ==
  LET raised == current + effectiveIncrement(current, override)
  IN  IF starting > raised THEN starting ELSE raised
=============================================================================
