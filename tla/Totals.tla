------------------------------- MODULE Totals -------------------------------
(***************************************************************************)
(* Sums of amounts, by counting: the sum of f over S is the number of      *)
(* units there are, each unit being an element of S and a number up to its *)
(* amount.  It equals the sum by folding, and needs no recursion.          *)
(***************************************************************************)
EXTENDS Integers, FiniteSets

UnitsOver(f, S) == UNION {{x} \X (1 .. f[x]) : x \in S}

SumOver(f, S) == Cardinality(UnitsOver(f, S))
=============================================================================
