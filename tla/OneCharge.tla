----------------------------- MODULE OneCharge -----------------------------
(***************************************************************************)
(* What collecting one combined invoice promises: one attempt to pay is    *)
(* charged, none after it, and money received settles the invoice.         *)
(***************************************************************************)
CONSTANT Attempts

VARIABLES
  charged,   \* the attempts whose money the provider has taken
  settled    \* the invoice is recorded as paid

vars == <<charged, settled>>

Init == charged = {} /\ settled = FALSE

Charge(p) ==
  /\ charged = {}
  /\ charged' = {p}
  /\ UNCHANGED settled

Settle ==
  /\ charged # {}
  /\ settled' = TRUE
  /\ UNCHANGED charged

Next == Settle \/ \E p \in Attempts : Charge(p)

Spec == Init /\ [][Next]_vars /\ WF_vars(Settle)
=============================================================================
