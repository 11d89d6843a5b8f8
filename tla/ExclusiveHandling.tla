------------------------- MODULE ExclusiveHandling -------------------------
(***************************************************************************)
(* What the webhook ledger promises about one provider event: at most one  *)
(* delivery works on it at a time, and once it is done nobody works on it  *)
(* again.  An attempt may end without finishing (the handler threw, the    *)
(* server died), and several attempts may be cut off together.             *)
(***************************************************************************)
CONSTANTS Events, Deliveries

VARIABLES
  workers,   \* workers[e]: the deliveries working on event e
  done       \* the events handled for good

vars == <<workers, done>>

Init == /\ workers = [e \in Events |-> {}]
        /\ done \subseteq Events

Begin(e, d) ==
  /\ e \notin done
  /\ workers[e] = {}
  /\ workers' = [workers EXCEPT ![e] = {d}]
  /\ UNCHANGED done

Complete(e) ==
  /\ workers[e] # {}
  /\ workers' = [workers EXCEPT ![e] = {}]
  /\ done' = done \cup {e}

Abandon(cut) ==
  /\ workers' = [e \in Events |-> IF e \in cut THEN {} ELSE workers[e]]
  /\ UNCHANGED done

Next ==
  \/ \E e \in Events, d \in Deliveries : Begin(e, d)
  \/ \E e \in Events : Complete(e)
  \/ \E cut \in SUBSET Events : Abandon(cut)

Spec == Init /\ [][Next]_vars
=============================================================================
