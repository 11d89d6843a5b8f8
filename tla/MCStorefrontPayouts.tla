------------------------ MODULE MCStorefrontPayouts ------------------------
(* Instances of StorefrontPayouts for TLC.                                  *)
EXTENDS StorefrontPayouts, TLC

CONSTANTS o1, o2, c1, c2

\* Buyers pay more than the seller receives: a full refund exceeds the proceeds.
MCProceeds == (o1 :> 2) @@ (o2 :> 3)
MCTotal == (o1 :> 3) @@ (o2 :> 4)
MCDifference == (c1 :> -2) @@ (c2 :> 1)
MCNoDifference == [c \in {} |-> 0]
=============================================================================
