-------------------------- MODULE MCWebhookLedger --------------------------
(***************************************************************************)
(* Values for the model checker.  Two attempts per claim are enough for a  *)
(* delivery to run out of them; one remembered event per server is enough  *)
(* for an eviction.                                                        *)
(***************************************************************************)
EXTENDS WebhookLedger

CONSTANTS e1, e2, d1, d2, d3, s1, s2

\* Requests are interchangeable, and so are servers.
Alike == Permutations({d1, d2, d3} \cap Deliveries) \cup Permutations(Servers)
=============================================================================
