----------------------------- MODULE UnitLedger -----------------------------
(***************************************************************************)
(* What the store promises about the units of one item, said without       *)
(* buyers, cards, sweepers or administrators: an order takes its units     *)
(* once, gives them back at most once, never while money is being taken    *)
(* for them, and nobody recounts the stock under an open checkout.         *)
(* StorefrontOrders implements it.                                         *)
(***************************************************************************)
EXTENDS Integers

CONSTANTS
  Orders,   \* order ids
  Sizes     \* how many units an order may ask for

VARIABLES
  available,   \* units on offer
  claim        \* claim[o]: what became of the units of order o

Stages == {"none", "held", "charged", "returned", "sold", "refunded"}
Claim  == [stage : Stages, units : Sizes \cup {0}]

Init ==
  /\ available \in Nat
  /\ claim = [o \in Orders |-> [stage |-> "none", units |-> 0]]

\* An order moves from one stage to the next; its size never changes.
Move(o, from, to) ==
  /\ claim[o].stage = from
  /\ claim' = [claim EXCEPT ![o].stage = to]

Reserve(o, n) ==
  /\ claim[o].stage = "none"
  /\ n =< available
  /\ available' = available - n
  /\ claim' = [claim EXCEPT ![o] = [stage |-> "held", units |-> n]]

Charge(o)  == Move(o, "held", "charged") /\ UNCHANGED available
Decline(o) == Move(o, "charged", "held") /\ UNCHANGED available
Sell(o)    == Move(o, "charged", "sold") /\ UNCHANGED available
Refund(o)  == Move(o, "sold", "refunded") /\ UNCHANGED available
Return(o)  == Move(o, "held", "returned") /\ available' = available + claim[o].units

\* The seller recounts the stock, never under an open checkout.
Restock ==
  /\ \A o \in Orders : claim[o].stage \notin {"held", "charged"}
  /\ available' \in Nat
  /\ UNCHANGED claim

Next ==
  \/ \E o \in Orders :
       \/ \E n \in Sizes : Reserve(o, n)
       \/ Charge(o) \/ Decline(o) \/ Sell(o) \/ Refund(o) \/ Return(o)
  \/ Restock

Spec == Init /\ [][Next]_<<available, claim>>
=============================================================================
