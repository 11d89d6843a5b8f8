--------------------------- MODULE MCAuctionFloor ---------------------------
(***************************************************************************)
(* Values for the model checker.  The amounts sit on both sides of the     *)
(* first boundary of the ladder ($49.99), where the increment jumps from   *)
(* one dollar to five.                                                     *)
(***************************************************************************)
EXTENDS AuctionFloor, TLC

CONSTANTS ann, bob, sue

\* Bidders are interchangeable, but for the owner of the auction, whose attempts are refused.
Alike == Permutations(Bidders \ {Owner})
=============================================================================
