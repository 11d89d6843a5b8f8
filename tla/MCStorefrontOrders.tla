------------------------- MODULE MCStorefrontOrders -------------------------
(***************************************************************************)
(* Values for the model checker: two checkouts that compete for two units, *)
(* each asking for one or for both.                                        *)
(***************************************************************************)
EXTENDS StorefrontOrders

CONSTANTS o1, o2
=============================================================================
