------------------------ MODULE WebhookLedger_proofs ------------------------
(***************************************************************************)
(* Proofs about the webhook ledger, for any number of events, requests and *)
(* servers.  ProcessedWasHandled needs only what the code does; the other  *)
(* properties need the Steady surroundings, where a claimed row stays      *)
(* 'received' until the request that claimed it marks it.                  *)
(***************************************************************************)
EXTENDS WebhookLedger, TLAPS

\* A request past its claim: the row it claimed is still 'received'.
OwnersHold ==
  \A d \in Deliveries, e \in Events : Owns(d, e) => row[e] = "received"

\* A request about to mark its event processed has run the handler.
FinishersHandled ==
  \A d \in Deliveries : At(d, "finish") => EventOf(d) \in handled

\* A legacy row was written after processing by the code before the ledger.
DoneWasHandled ==
  \A e \in Events : row[e] \in {"legacy", "processed"} => e \in handled

RoughInv == TypeOK /\ FinishersHandled /\ DoneWasHandled

\* A row found without a payload may meanwhile have been promoted, nothing else.
PromotersMeetLegacy ==
  \A d \in Deliveries : At(d, "promote") => RowOf(d) \in {"legacy", "processed"}

SteadyInv == /\ TypeOK
             /\ OwnersHold
             /\ OneHandlerAtATime
             /\ CacheIsAuthoritative
             /\ PromotersMeetLegacy

-----------------------------------------------------------------------------
(* The set of processed events.                                            *)

\* Tracking an event keeps the set small and adds no other event.
LEMMA TrackedEvent ==
  ASSUME NEW set \in Seq(Events), Len(set) =< MaxProcessed, NEW e \in Events
  PROVE  /\ Tracked(set, e) \in Seq(Events)
         /\ Len(Tracked(set, e)) =< MaxProcessed
         /\ \A x \in Events : Contains(Tracked(set, e), x) => x = e \/ Contains(set, x)
<1> DEFINE kept == IF Len(set) >= MaxProcessed THEN Tail(set) ELSE set
<1>1. MaxProcessed \in Nat \ {0}
  BY LedgerAssumption
<1>2. kept \in Seq(Events) /\ Len(kept) < MaxProcessed
  <2>1. CASE Len(set) >= MaxProcessed
    BY <1>1, <2>1
  <2>2. CASE Len(set) < MaxProcessed
    BY <1>1, <2>2
  <2> QED
    BY <2>1, <2>2, <1>1
<1>3. \A x \in Events : Contains(kept, x) => Contains(set, x)
  <2>1. CASE Len(set) >= MaxProcessed
    <3> SUFFICES ASSUME NEW x \in Events, NEW i \in 1 .. Len(Tail(set)), Tail(set)[i] = x
                 PROVE  \E j \in 1 .. Len(set) : set[j] = x
      BY <2>1 DEF Contains
    <3>1. Len(Tail(set)) = Len(set) - 1 /\ Tail(set)[i] = set[i + 1]
      BY <1>1, <2>1
    <3>2. i + 1 \in 1 .. Len(set)
      BY <3>1
    <3> QED
      BY <3>1, <3>2
  <2>2. CASE ~(Len(set) >= MaxProcessed)
    BY <2>2
  <2> QED
    BY <2>1, <2>2
<1>4. Tracked(set, e) = IF Contains(kept, e) THEN kept ELSE Append(kept, e)
  BY DEF Tracked
<1> HIDE DEF kept
<1>5. CASE Contains(kept, e)
  BY <1>1, <1>2, <1>3, <1>4, <1>5
<1>6. CASE ~Contains(kept, e)
  <2>1. Tracked(set, e) = Append(kept, e)
    BY <1>4, <1>6
  <2>2. Append(kept, e) \in Seq(Events) /\ Len(Append(kept, e)) = Len(kept) + 1
    BY <1>2
  <2>3. ASSUME NEW x \in Events, Contains(Append(kept, e), x)
        PROVE  x = e \/ Contains(set, x)
    <3>1. PICK i \in 1 .. Len(kept) + 1 : Append(kept, e)[i] = x
      BY <2>2, <2>3 DEF Contains
    <3>2. CASE i = Len(kept) + 1
      BY <1>2, <3>1, <3>2
    <3>3. CASE i # Len(kept) + 1
      <4>1. i \in 1 .. Len(kept) /\ kept[i] = x
        BY <1>2, <3>1, <3>3
      <4> QED
        BY <4>1, <1>3 DEF Contains
    <3> QED
      BY <3>2, <3>3
  <2> QED
    BY <1>1, <1>2, <2>1, <2>2, <2>3
<1> QED
  BY <1>5, <1>6

\* The same for the set of one server when a request tracks its event.
LEMMA TrackKeeps ==
  ASSUME TypeOK, NEW d \in Deliveries, delivery[d] \in Request, Track(d)
  PROVE  /\ cache' \in [Servers -> Seq(Events)]
         /\ \A s \in Servers : Len(cache'[s]) =< MaxProcessed
         /\ \A s \in Servers, x \in Events :
              Contains(cache'[s], x) => x = EventOf(d) \/ Contains(cache[s], x)
<1>1. EventOf(d) \in Events /\ delivery[d].server \in Servers
  BY DEF Request, EventOf
<1>2. cache \in [Servers -> Seq(Events)] /\ \A s \in Servers : Len(cache[s]) =< MaxProcessed
  BY DEF TypeOK
<1>3. cache' = [cache EXCEPT ![delivery[d].server] = Tracked(@, EventOf(d))]
  BY DEF Track
<1>4. ASSUME NEW s \in Servers
      PROVE  /\ cache'[s] \in Seq(Events) /\ Len(cache'[s]) =< MaxProcessed
             /\ \A x \in Events : Contains(cache'[s], x) => x = EventOf(d) \/ Contains(cache[s], x)
  <2>1. CASE s = delivery[d].server
    <3>1. cache'[s] = Tracked(cache[s], EventOf(d))
      BY <1>1, <1>2, <1>3, <2>1
    <3> QED
      BY <3>1, <1>1, <1>2, TrackedEvent
  <2>2. CASE s # delivery[d].server
    <3>1. cache'[s] = cache[s]
      BY <1>1, <1>2, <1>3, <2>2
    <3> QED
      BY <3>1, <1>2
  <2> QED
    BY <2>1, <2>2
<1> QED
  BY <1>2, <1>3, <1>4

-----------------------------------------------------------------------------
(* Requests moving from stage to stage.                                    *)

\* A request that is being served has an event, a server and a stage.
LEMMA BusyIsRequest ==
  ASSUME TypeOK, NEW d \in Deliveries, delivery[d].at # "idle"
  PROVE  /\ delivery[d] \in Request
         /\ EventOf(d) \in Events /\ delivery[d].server \in Servers
         /\ delivery[d].at \in Stages
BY DEF TypeOK, Idle, Request, EventOf

\* Moving to another stage keeps the event, and touches no other request.
LEMMA GoToKeeps ==
  ASSUME TypeOK, NEW d \in Deliveries, delivery[d].at # "idle",
         NEW stage \in Stages, GoTo(d, stage)
  PROVE  /\ delivery' \in [Deliveries -> Request \cup {Idle}]
         /\ delivery'[d].at = stage /\ delivery'[d].event = delivery[d].event
         /\ \A c \in Deliveries \ {d} : delivery'[c] = delivery[c]
<1>1. delivery[d] \in Request
  BY BusyIsRequest
<1>2. [delivery[d] EXCEPT !.at = stage] \in Request
  BY <1>1 DEF Request
<1>3. delivery' = [delivery EXCEPT ![d] = [delivery[d] EXCEPT !.at = stage]]
  BY DEF GoTo
<1>4. delivery \in [Deliveries -> Request \cup {Idle}]
  BY DEF TypeOK
<1>5. delivery'[d] = [delivery[d] EXCEPT !.at = stage]
  BY <1>3, <1>4
<1>6. delivery'[d].at = stage /\ delivery'[d].event = delivery[d].event
  BY <1>1, <1>5 DEF Request
<1> QED
  BY <1>2, <1>3, <1>4, <1>6

\* An answered request is idle, and touches no other request.
LEMMA AnswerKeeps ==
  ASSUME TypeOK, NEW d \in Deliveries, delivery' = [delivery EXCEPT ![d] = Idle]
  PROVE  /\ delivery' \in [Deliveries -> Request \cup {Idle}]
         /\ delivery'[d].at = "idle"
         /\ \A c \in Deliveries \ {d} : delivery'[c] = delivery[c]
BY DEF TypeOK, Idle

\* A new attempt of the claim loop, or the answer that ends it.
LEMMA AgainKeeps ==
  ASSUME TypeOK, NEW d \in Deliveries, delivery[d].at # "idle", Again(d)
  PROVE  /\ delivery' \in [Deliveries -> Request \cup {Idle}]
         /\ delivery'[d].at \in {"idle", "insert"}
         /\ \A c \in Deliveries \ {d} : delivery'[c] = delivery[c]
         /\ acked' \subseteq Events
<1>1. delivery[d] \in Request /\ EventOf(d) \in Events
  BY BusyIsRequest
<1>2. acked \subseteq Events
  BY DEF TypeOK
<1>3. CASE delivery[d].tries < MaxAttempts /\ UNCHANGED acked
           /\ delivery' = [delivery EXCEPT ![d].at = "insert", ![d].tries = @ + 1]
  <2> DEFINE next == [delivery[d] EXCEPT !.at = "insert", !.tries = @ + 1]
  <2>1. delivery[d].tries + 1 \in 1 .. MaxAttempts
    <3>1. delivery[d].tries \in 1 .. MaxAttempts
      BY <1>1 DEF Request
    <3> QED
      BY <3>1, <1>3, LedgerAssumption
  <2>2. next \in Request /\ next.at = "insert"
    BY <1>1, <2>1 DEF Request, Stages
  <2>3. delivery' = [delivery EXCEPT ![d] = next]
    BY <1>1, <1>3 DEF TypeOK, Request
  <2> HIDE DEF next
  <2>4. delivery \in [Deliveries -> Request \cup {Idle}]
    BY DEF TypeOK
  <2> QED
    BY <1>2, <1>3, <2>2, <2>3, <2>4
<1>4. CASE Acknowledge(d)
  BY <1>1, <1>2, <1>4, AnswerKeeps DEF Acknowledge
<1> QED
  BY <1>3, <1>4 DEF Again

-----------------------------------------------------------------------------
(* What a step does to the claims.                                         *)

\* Who owns what afterwards: the same, one more, or without those that are gone.
SameOwners      == \A c \in Deliveries, x \in Events : Owns(c, x)' <=> Owns(c, x)
NewOwner(d, e)  == \A c \in Deliveries, x \in Events :
                     Owns(c, x)' <=> (Owns(c, x) \/ (c = d /\ x = e))
OwnersGone(cut) == \A c \in Deliveries, x \in Events :
                     Owns(c, x)' <=> (Owns(c, x) /\ c \notin cut)

\* No event enters a server's set unless its row says 'processed'.
CacheFollows ==
  \A s \in Servers, x \in Events :
    Contains(cache'[s], x) => Contains(cache[s], x) \/ row'[x] = "processed"

\* A request reaches the promotion only through a legacy row.
PromotersFollow ==
  \A c \in Deliveries : delivery'[c].at = "promote" =>
    \/ delivery[c].at = "promote" /\ delivery'[c].event = delivery[c].event
    \/ row'[delivery'[c].event] = "legacy"

LeavesRows  == SameOwners /\ row' = row
PromotesRow == SameOwners /\ \E e \in Events :
                 row[e] = "legacy" /\ row' = [row EXCEPT ![e] = "processed"]
AgesRow     == SameOwners /\ \E e \in Events :
                 /\ row[e] = "received" /\ Orphaned(e)
                 /\ row' = [row EXCEPT ![e] = "stale"]
ClaimsRow   == \E d \in Deliveries, e \in Events :
                 /\ NewOwner(d, e)
                 /\ row[e] \in {"absent", "failed", "stale"}
                 /\ row' = [row EXCEPT ![e] = "received"]
MarksRow    == \E d \in Deliveries, e \in Events, outcome \in {"processed", "failed"} :
                 /\ OwnersGone({d}) /\ Owns(d, e)
                 /\ row' = [row EXCEPT ![e] = outcome]
DropsOwners == \E cut \in SUBSET Deliveries : OwnersGone(cut) /\ row' = row

Effect == LeavesRows \/ PromotesRow \/ AgesRow \/ ClaimsRow \/ MarksRow \/ DropsOwners

StepOK == TypeOK' /\ CacheFollows /\ PromotersFollow /\ Effect

-----------------------------------------------------------------------------
(* Every step of a request has one of these effects.                       *)

\* Nothing happens to the claims when one request moves between stages that own
\* nothing, or stays among those that do.
LEMMA SameOwnersRule ==
  ASSUME NEW d \in Deliveries,
         \A c \in Deliveries \ {d} : delivery'[c] = delivery[c],
         \/ /\ delivery[d].at \notin {"handle", "finish", "fail"}
            /\ delivery'[d].at \notin {"handle", "finish", "fail"}
         \/ /\ delivery[d].at \in {"handle", "finish", "fail"}
            /\ delivery'[d].at \in {"handle", "finish", "fail"}
            /\ delivery'[d].event = delivery[d].event
  PROVE  SameOwners
BY DEF SameOwners, Owns

\* Only the named request can reach the promotion.
LEMMA PromotersRule ==
  ASSUME NEW d \in Deliveries,
         \A c \in Deliveries \ {d} : delivery'[c] = delivery[c],
         delivery'[d].at # "promote"
  PROVE  PromotersFollow
BY DEF PromotersFollow

LEMMA AcceptOK ==
  ASSUME SteadyInv, NEW d \in Deliveries, NEW e \in Events, NEW s \in Servers, Accept(d, e, s)
  PROVE  StepOK
<1> USE DEF SteadyInv
<1>1. CASE delivery' = [delivery EXCEPT ![d] =
               [at |-> "insert", event |-> e, server |-> s, tries |-> 1]] /\ UNCHANGED acked
  <2>1. [at |-> "insert", event |-> e, server |-> s, tries |-> 1] \in Request
    BY LedgerAssumption DEF Request, Stages
  <2>2. /\ delivery'[d].at = "insert"
        /\ \A c \in Deliveries \ {d} : delivery'[c] = delivery[c]
        /\ delivery' \in [Deliveries -> Request \cup {Idle}]
    BY <1>1, <2>1 DEF TypeOK
  <2>3. SameOwners /\ PromotersFollow
    BY <2>2, SameOwnersRule, PromotersRule DEF Accept, At
  <2> QED
    BY <1>1, <2>2, <2>3 DEF Accept, StepOK, TypeOK, CacheFollows, Effect, LeavesRows
<1>2. CASE acked' \in {acked, acked \cup {e}} /\ UNCHANGED delivery
  BY <1>2 DEF Accept, StepOK, TypeOK, CacheFollows, PromotersFollow, Effect, LeavesRows, SameOwners, Owns
<1> QED
  BY <1>1, <1>2 DEF Accept

LEMMA InsertOK ==
  ASSUME SteadyInv, NEW d \in Deliveries, Insert(d)
  PROVE  StepOK
<1> USE DEF SteadyInv
<1>1. delivery[d].at = "insert" /\ EventOf(d) \in Events
  BY BusyIsRequest DEF Insert, At
<1>2. CASE RowOf(d) = "absent" /\ Mark(d, "received") /\ GoTo(d, "handle")
  <2>1. /\ delivery' \in [Deliveries -> Request \cup {Idle}]
        /\ delivery'[d].at = "handle" /\ delivery'[d].event = EventOf(d)
        /\ \A c \in Deliveries \ {d} : delivery'[c] = delivery[c]
    BY <1>1, <1>2, GoToKeeps DEF Stages, EventOf
  <2>2. NewOwner(d, EventOf(d)) /\ PromotersFollow
    BY <1>1, <2>1, PromotersRule DEF NewOwner, Owns
  <2>3. ClaimsRow
    BY <1>1, <1>2, <2>2 DEF ClaimsRow, Mark, RowOf
  <2> QED
    BY <1>1, <1>2, <2>1, <2>2, <2>3 DEF Insert, StepOK, TypeOK, CacheFollows, Effect, Mark, Statuses
<1>3. CASE GoTo(d, "inspect") /\ UNCHANGED row
  <2>1. /\ delivery' \in [Deliveries -> Request \cup {Idle}]
        /\ delivery'[d].at = "inspect"
        /\ \A c \in Deliveries \ {d} : delivery'[c] = delivery[c]
    BY <1>1, <1>3, GoToKeeps DEF Stages
  <2>2. SameOwners /\ PromotersFollow
    BY <1>1, <2>1, SameOwnersRule, PromotersRule
  <2> QED
    BY <1>3, <2>1, <2>2 DEF Insert, StepOK, TypeOK, CacheFollows, Effect, LeavesRows
<1> QED
  BY <1>2, <1>3 DEF Insert

LEMMA InspectOK ==
  ASSUME SteadyInv, NEW d \in Deliveries, Inspect(d)
  PROVE  StepOK
<1> USE DEF SteadyInv
<1>1. /\ delivery[d].at = "inspect" /\ EventOf(d) \in Events
      /\ delivery[d] \in Request /\ row' = row /\ handled' = handled
  BY BusyIsRequest DEF Inspect, At
<1>2. CASE Again(d) /\ UNCHANGED cache
  <2>1. SameOwners /\ PromotersFollow
    BY <1>1, <1>2, AgainKeeps, SameOwnersRule, PromotersRule
  <2> QED
    BY <1>1, <1>2, <2>1, AgainKeeps DEF StepOK, TypeOK, CacheFollows, Effect, LeavesRows
<1>3. CASE RowOf(d) = "legacy" /\ GoTo(d, "promote") /\ UNCHANGED <<acked, cache>>
  <2>1. /\ delivery' \in [Deliveries -> Request \cup {Idle}]
        /\ delivery'[d].at = "promote" /\ delivery'[d].event = EventOf(d)
        /\ \A c \in Deliveries \ {d} : delivery'[c] = delivery[c]
    BY <1>1, <1>3, GoToKeeps DEF Stages, EventOf
  <2>2. SameOwners
    BY <1>1, <2>1, SameOwnersRule
  <2>3. PromotersFollow
    BY <1>1, <1>3, <2>1 DEF PromotersFollow, RowOf
  <2> QED
    BY <1>1, <1>3, <2>1, <2>2, <2>3 DEF StepOK, TypeOK, CacheFollows, Effect, LeavesRows
<1>4. CASE RowOf(d) = "processed" /\ Track(d) /\ Acknowledge(d)
  <2>1. /\ delivery' \in [Deliveries -> Request \cup {Idle}]
        /\ delivery'[d].at = "idle"
        /\ \A c \in Deliveries \ {d} : delivery'[c] = delivery[c]
        /\ acked' \subseteq Events
    BY <1>1, <1>4, AnswerKeeps DEF Acknowledge, TypeOK
  <2>2. SameOwners /\ PromotersFollow
    BY <1>1, <2>1, SameOwnersRule, PromotersRule
  <2>3. /\ cache' \in [Servers -> Seq(Events)]
        /\ \A s \in Servers : Len(cache'[s]) =< MaxProcessed
        /\ \A s \in Servers, x \in Events :
              Contains(cache'[s], x) => x = EventOf(d) \/ Contains(cache[s], x)
    BY <1>1, <1>4, TrackKeeps
  <2>4. CacheFollows
    BY <1>1, <1>4, <2>3 DEF CacheFollows, RowOf
  <2> QED
    BY <1>1, <2>1, <2>2, <2>3, <2>4 DEF StepOK, TypeOK, Effect, LeavesRows
<1>5. ASSUME NEW stage \in {"reclaim", "takeover"}, GoTo(d, stage), UNCHANGED <<acked, cache>>
      PROVE  StepOK
  <2>1. /\ delivery' \in [Deliveries -> Request \cup {Idle}]
        /\ delivery'[d].at = stage
        /\ \A c \in Deliveries \ {d} : delivery'[c] = delivery[c]
    BY <1>1, <1>5, GoToKeeps DEF Stages
  <2>2. SameOwners /\ PromotersFollow
    BY <1>1, <2>1, SameOwnersRule, PromotersRule
  <2> QED
    BY <1>1, <1>5, <2>1, <2>2 DEF StepOK, TypeOK, CacheFollows, Effect, LeavesRows
<1> QED
  BY <1>2, <1>3, <1>4, <1>5 DEF Inspect

LEMMA PromoteOK ==
  ASSUME SteadyInv, NEW d \in Deliveries, Promote(d)
  PROVE  StepOK
<1> USE DEF SteadyInv
<1>1. /\ delivery[d].at = "promote" /\ EventOf(d) \in Events
      /\ delivery[d] \in Request /\ RowOf(d) \in {"legacy", "processed"}
  BY BusyIsRequest DEF Promote, At, PromotersMeetLegacy
<1>2. /\ delivery' \in [Deliveries -> Request \cup {Idle}]
      /\ delivery'[d].at = "idle"
      /\ \A c \in Deliveries \ {d} : delivery'[c] = delivery[c]
      /\ acked' \subseteq Events
  BY <1>1, AnswerKeeps DEF Promote, Acknowledge, TypeOK
<1>3. SameOwners /\ PromotersFollow
  BY <1>1, <1>2, SameOwnersRule, PromotersRule
<1>4. /\ cache' \in [Servers -> Seq(Events)]
      /\ \A s \in Servers : Len(cache'[s]) =< MaxProcessed
      /\ \A s \in Servers, x \in Events :
            Contains(cache'[s], x) => x = EventOf(d) \/ Contains(cache[s], x)
  BY <1>1, TrackKeeps DEF Promote
<1>5. /\ row' = [row EXCEPT ![EventOf(d)] = IF @ = "legacy" THEN "processed" ELSE @]
      /\ row \in [Events -> Statuses]
  BY DEF Promote, TypeOK
<1>6. row' \in [Events -> Statuses] /\ row'[EventOf(d)] = "processed"
  BY <1>1, <1>5 DEF Statuses, RowOf
<1>7. CacheFollows
  BY <1>4, <1>6 DEF CacheFollows
<1>8. LeavesRows \/ PromotesRow
  <2>1. CASE row[EventOf(d)] = "legacy"
    BY <1>1, <1>3, <1>5, <2>1 DEF PromotesRow
  <2>2. CASE row[EventOf(d)] # "legacy"
    BY <1>3, <1>5, <2>2 DEF LeavesRows
  <2> QED
    BY <2>1, <2>2
<1> QED
  BY <1>2, <1>3, <1>4, <1>6, <1>7, <1>8 DEF StepOK, TypeOK, Effect, Promote

\* The reclaim and the takeover: a free row is claimed, or nothing happens to it.
LEMMA ClaimOK ==
  ASSUME SteadyInv, NEW d \in Deliveries, delivery[d].at \in {"reclaim", "takeover"},
         RowOf(d) \in {"failed", "stale"}, Mark(d, "received"), GoTo(d, "handle"),
         UNCHANGED <<cache, acked, handled>>
  PROVE  StepOK
<1> USE DEF SteadyInv
<1>1. EventOf(d) \in Events
  BY BusyIsRequest
<1>2. /\ delivery' \in [Deliveries -> Request \cup {Idle}]
      /\ delivery'[d].at = "handle" /\ delivery'[d].event = EventOf(d)
      /\ \A c \in Deliveries \ {d} : delivery'[c] = delivery[c]
  BY GoToKeeps DEF Stages, EventOf
<1>3. NewOwner(d, EventOf(d)) /\ PromotersFollow
  BY <1>2, PromotersRule DEF NewOwner, Owns
<1>4. ClaimsRow
  BY <1>1, <1>3 DEF ClaimsRow, Mark, RowOf
<1> QED
  BY <1>1, <1>2, <1>3, <1>4 DEF StepOK, TypeOK, CacheFollows, Effect, Mark, Statuses

LEMMA ReclaimOK ==
  ASSUME SteadyInv, NEW d \in Deliveries, Reclaim(d)
  PROVE  StepOK
<1> USE DEF SteadyInv
<1>1. delivery[d].at = "reclaim"
  BY DEF Reclaim, At
<1>2. CASE RowOf(d) = "failed" /\ Mark(d, "received") /\ GoTo(d, "handle") /\ UNCHANGED acked
  BY <1>1, <1>2, ClaimOK DEF Reclaim
<1>3. CASE Again(d) /\ UNCHANGED row
  <2>1. SameOwners /\ PromotersFollow
    BY <1>1, <1>3, AgainKeeps, SameOwnersRule, PromotersRule
  <2> QED
    BY <1>1, <1>3, <2>1, AgainKeeps DEF Reclaim, StepOK, TypeOK, CacheFollows, Effect, LeavesRows
<1> QED
  BY <1>2, <1>3 DEF Reclaim

LEMMA TakeOverOK ==
  ASSUME SteadyInv, NEW d \in Deliveries, TakeOver(d)
  PROVE  StepOK
<1> USE DEF SteadyInv
<1>1. delivery[d].at = "takeover" /\ EventOf(d) \in Events
  BY BusyIsRequest DEF TakeOver, At
<1>2. CASE RowOf(d) = "stale" /\ Mark(d, "received") /\ GoTo(d, "handle") /\ UNCHANGED acked
  BY <1>1, <1>2, ClaimOK DEF TakeOver
<1>3. CASE Acknowledge(d) /\ UNCHANGED row
  <2>1. /\ delivery' \in [Deliveries -> Request \cup {Idle}]
        /\ delivery'[d].at = "idle"
        /\ \A c \in Deliveries \ {d} : delivery'[c] = delivery[c]
        /\ acked' \subseteq Events
    BY <1>1, <1>3, AnswerKeeps DEF Acknowledge, TypeOK
  <2>2. SameOwners /\ PromotersFollow
    BY <1>1, <2>1, SameOwnersRule, PromotersRule
  <2> QED
    BY <1>3, <2>1, <2>2 DEF TakeOver, StepOK, TypeOK, CacheFollows, Effect, LeavesRows
<1> QED
  BY <1>2, <1>3 DEF TakeOver

LEMMA HandlerOK ==
  ASSUME SteadyInv, NEW d \in Deliveries, HandlerReturns(d) \/ HandlerThrows(d)
  PROVE  StepOK
<1> USE DEF SteadyInv
<1>1. /\ delivery[d].at = "handle" /\ EventOf(d) \in Events
      /\ UNCHANGED <<row, cache, acked>> /\ handled' \subseteq Events
  BY BusyIsRequest DEF HandlerReturns, HandlerThrows, At, TypeOK
<1>2. PICK stage \in {"finish", "fail"} : GoTo(d, stage)
  BY DEF HandlerReturns, HandlerThrows
<1>3. /\ delivery' \in [Deliveries -> Request \cup {Idle}]
      /\ delivery'[d].at = stage /\ delivery'[d].event = delivery[d].event
      /\ \A c \in Deliveries \ {d} : delivery'[c] = delivery[c]
  BY <1>1, <1>2, GoToKeeps DEF Stages
<1>4. SameOwners /\ PromotersFollow
  BY <1>1, <1>3, SameOwnersRule, PromotersRule
<1> QED
  BY <1>1, <1>3, <1>4 DEF StepOK, TypeOK, CacheFollows, Effect, LeavesRows

\* An owner marks its row, which is still there, and is done.
LEMMA MarkOK ==
  ASSUME SteadyInv, NEW d \in Deliveries, NEW outcome \in {"processed", "failed"},
         delivery[d].at \in {"finish", "fail"}, Finalize(d, outcome),
         delivery' = [delivery EXCEPT ![d] = Idle]
  PROVE  /\ MarksRow /\ PromotersFollow
         /\ row' \in [Events -> Statuses] /\ row'[EventOf(d)] = outcome
         /\ delivery' \in [Deliveries -> Request \cup {Idle}]
<1> USE DEF SteadyInv
<1>1. EventOf(d) \in Events /\ Owns(d, EventOf(d))
  BY BusyIsRequest DEF Owns, EventOf
<1>2. row[EventOf(d)] = "received" /\ row \in [Events -> Statuses]
  BY <1>1 DEF OwnersHold, TypeOK
<1>3. row' = [row EXCEPT ![EventOf(d)] = outcome]
  BY <1>2 DEF Finalize
<1>4. /\ delivery' \in [Deliveries -> Request \cup {Idle}]
      /\ delivery'[d].at = "idle"
      /\ \A c \in Deliveries \ {d} : delivery'[c] = delivery[c]
  BY AnswerKeeps
<1>5. OwnersGone({d}) /\ PromotersFollow
  BY <1>4, PromotersRule DEF OwnersGone, Owns
<1> QED
  BY <1>1, <1>2, <1>3, <1>4, <1>5 DEF MarksRow, Statuses

LEMMA MarkProcessedOK ==
  ASSUME SteadyInv, NEW d \in Deliveries, MarkProcessed(d)
  PROVE  StepOK
<1> USE DEF SteadyInv
<1>1. delivery[d].at = "finish" /\ EventOf(d) \in Events /\ delivery[d] \in Request
  BY BusyIsRequest DEF MarkProcessed, At
<1>2. /\ MarksRow /\ PromotersFollow
      /\ row' \in [Events -> Statuses] /\ row'[EventOf(d)] = "processed"
      /\ delivery' \in [Deliveries -> Request \cup {Idle}]
  BY <1>1, MarkOK DEF MarkProcessed, Acknowledge
<1>3. acked' \subseteq Events
  BY <1>1 DEF MarkProcessed, Acknowledge, TypeOK
<1>4. /\ cache' \in [Servers -> Seq(Events)]
      /\ \A s \in Servers : Len(cache'[s]) =< MaxProcessed
      /\ \A s \in Servers, x \in Events :
            Contains(cache'[s], x) => x = EventOf(d) \/ Contains(cache[s], x)
  BY <1>1, TrackKeeps DEF MarkProcessed
<1>5. CacheFollows
  BY <1>2, <1>4 DEF CacheFollows
<1> QED
  BY <1>2, <1>3, <1>4, <1>5 DEF MarkProcessed, StepOK, TypeOK, Effect

LEMMA MarkFailedOK ==
  ASSUME SteadyInv, NEW d \in Deliveries, MarkFailed(d)
  PROVE  StepOK
<1>1. delivery[d].at = "fail"
  BY DEF MarkFailed, At
<1>2. /\ MarksRow /\ PromotersFollow
      /\ row' \in [Events -> Statuses]
      /\ delivery' \in [Deliveries -> Request \cup {Idle}]
  BY <1>1, MarkOK DEF MarkFailed, Refuse
<1> QED
  BY <1>2 DEF SteadyInv, MarkFailed, Refuse, StepOK, TypeOK, CacheFollows, Effect

LEMMA StatementFailsOK ==
  ASSUME SteadyInv, NEW d \in Deliveries, StatementFails(d)
  PROVE  StepOK
<1> USE DEF SteadyInv
<1>1. UNCHANGED <<row, cache, acked, handled>>
  BY DEF StatementFails
<1>2. CASE /\ delivery[d].at \in {"insert", "inspect", "promote", "reclaim", "takeover", "fail"}
           /\ delivery' = [delivery EXCEPT ![d] = Idle]
  <2>1. /\ delivery' \in [Deliveries -> Request \cup {Idle}]
        /\ delivery'[d].at = "idle"
        /\ \A c \in Deliveries \ {d} : delivery'[c] = delivery[c]
    BY <1>2, AnswerKeeps
  <2>2. OwnersGone({d}) /\ PromotersFollow
    BY <2>1, PromotersRule DEF OwnersGone, Owns
  <2> QED
    BY <1>1, <2>1, <2>2 DEF StepOK, TypeOK, CacheFollows, Effect, DropsOwners
<1>3. CASE At(d, "finish") /\ GoTo(d, "fail")
  <2>1. /\ delivery' \in [Deliveries -> Request \cup {Idle}]
        /\ delivery'[d].at = "fail" /\ delivery'[d].event = delivery[d].event
        /\ \A c \in Deliveries \ {d} : delivery'[c] = delivery[c]
    BY <1>3, GoToKeeps DEF Stages, At
  <2>2. SameOwners /\ PromotersFollow
    BY <1>3, <2>1, SameOwnersRule, PromotersRule DEF At
  <2> QED
    BY <1>1, <2>1, <2>2 DEF StepOK, TypeOK, CacheFollows, Effect, LeavesRows
<1> QED
  BY <1>2, <1>3 DEF StatementFails

LEMMA CrashOK ==
  ASSUME SteadyInv, NEW s \in Servers, Crash(s)
  PROVE  StepOK
<1> DEFINE cut == {d \in Deliveries : delivery[d] # Idle /\ delivery[d].server = s}
<1> USE DEF SteadyInv
<1>1. \A d \in Deliveries : delivery'[d] = IF d \in cut THEN Idle ELSE delivery[d]
  BY DEF Crash
<1>2. delivery' \in [Deliveries -> Request \cup {Idle}]
  BY DEF Crash, TypeOK
<1>3. OwnersGone(cut) /\ PromotersFollow
  BY <1>1 DEF OwnersGone, Owns, PromotersFollow, Idle
<1>4. /\ cache' \in [Servers -> Seq(Events)]
      /\ \A t \in Servers : Len(cache'[t]) =< MaxProcessed
  <2>1. <<>> \in Seq(Events) /\ Len(<<>>) = 0
    OBVIOUS
  <2> QED
    BY <2>1, LedgerAssumption DEF Crash, TypeOK
<1>5. CacheFollows
  <2>1. \A x \in Events : ~Contains(<<>>, x)
    BY DEF Contains
  <2> QED
    BY <2>1 DEF CacheFollows, Crash, TypeOK
<1> QED
  BY <1>2, <1>3, <1>4, <1>5 DEF Crash, StepOK, TypeOK, Effect, DropsOwners

LEMMA GrowStaleOK ==
  ASSUME SteadyInv, NEW e \in Events, Orphaned(e), GrowStale(e)
  PROVE  StepOK
<1>1. SameOwners
  BY DEF SameOwners, Owns, GrowStale
<1> QED
  BY <1>1 DEF SteadyInv, GrowStale, StepOK, TypeOK, CacheFollows, PromotersFollow, Effect, AgesRow, Statuses

LEMMA SteadyStep ==
  ASSUME SteadyInv, [Steady]_vars
  PROVE  StepOK
<1>1. CASE UNCHANGED vars
  BY <1>1 DEF vars, SteadyInv, StepOK, TypeOK, CacheFollows, PromotersFollow, Effect, LeavesRows, SameOwners, Owns
<1>2. ASSUME NEW d \in Deliveries, Claims(d) \/ Handles(d) \/ StatementFails(d)
      PROVE  StepOK
  BY <1>2, InsertOK, InspectOK, PromoteOK, ReclaimOK, TakeOverOK, HandlerOK,
     MarkProcessedOK, MarkFailedOK, StatementFailsOK DEF Claims, Handles
<1>3. ASSUME NEW e \in Events, Arrives(e)
      PROVE  StepOK
  BY <1>3, AcceptOK DEF Arrives, Deliver, Resend
<1> QED
  BY <1>1, <1>2, <1>3, CrashOK, GrowStaleOK DEF Steady, Common

-----------------------------------------------------------------------------
(* The inductive invariant of the steady ledger.                           *)

LEMMA SteadyInit ==
  ASSUME Init
  PROVE  SteadyInv
<1>1. TypeOK
  <2>1. <<>> \in Seq(Events) /\ Len(<<>>) = 0
    OBVIOUS
  <2> QED
    BY <2>1, LedgerAssumption DEF Init, TypeOK, Statuses
<1>2. \A d \in Deliveries : delivery[d].at = "idle"
  BY DEF Init, Idle
<1>3. OwnersHold /\ OneHandlerAtATime /\ PromotersMeetLegacy
  BY <1>2 DEF OwnersHold, OneHandlerAtATime, PromotersMeetLegacy, Owns, At
<1>4. CacheIsAuthoritative
  BY DEF Init, CacheIsAuthoritative, Contains
<1> QED
  BY <1>1, <1>3, <1>4 DEF SteadyInv

\* The four parts of the invariant after a step, from what the step does.
LEMMA OwnersStillHold ==
  ASSUME SteadyInv, StepOK
  PROVE  OwnersHold' /\ OneHandlerAtATime'
<1>1. /\ row \in [Events -> Statuses] /\ OwnersHold /\ OneHandlerAtATime /\ Effect
  BY DEF SteadyInv, StepOK, TypeOK
<1>2. CASE LeavesRows \/ PromotesRow \/ DropsOwners
  BY <1>1, <1>2 DEF LeavesRows, PromotesRow, DropsOwners, SameOwners, OwnersGone,
                    OwnersHold, OneHandlerAtATime
<1>3. CASE AgesRow
  BY <1>1, <1>3 DEF AgesRow, SameOwners, Orphaned, OwnersHold, OneHandlerAtATime
<1>4. CASE ClaimsRow
  <2>1. PICK d \in Deliveries, e \in Events :
          /\ NewOwner(d, e)
          /\ row[e] \in {"absent", "failed", "stale"}
          /\ row' = [row EXCEPT ![e] = "received"]
    BY <1>4 DEF ClaimsRow
  <2>2. \A c \in Deliveries : ~Owns(c, e)
    BY <1>1, <2>1 DEF OwnersHold
  <2> QED
    BY <1>1, <2>1, <2>2 DEF NewOwner, OwnersHold, OneHandlerAtATime
<1>5. CASE MarksRow
  <2>1. PICK d \in Deliveries, e \in Events, outcome \in {"processed", "failed"} :
          /\ OwnersGone({d}) /\ Owns(d, e)
          /\ row' = [row EXCEPT ![e] = outcome]
    BY <1>5 DEF MarksRow
  <2>2. \A c \in Deliveries : Owns(c, e)' => FALSE
    BY <1>1, <2>1 DEF OwnersGone, OneHandlerAtATime
  <2> QED
    BY <1>1, <2>1, <2>2 DEF OwnersGone, OwnersHold, OneHandlerAtATime
<1> QED
  BY <1>1, <1>2, <1>3, <1>4, <1>5 DEF Effect

\* Only a row that is nobody's to work on changes without its owner: 'processed'
\* is for ever, and a legacy row can only be promoted.
LEMMA DoneStaysDone ==
  ASSUME SteadyInv, StepOK, NEW e \in Events
  PROVE  /\ row[e] = "processed" => row'[e] = "processed"
         /\ row[e] = "legacy" => row'[e] \in {"legacy", "processed"}
<1>1. /\ row \in [Events -> Statuses] /\ OwnersHold /\ Effect
  BY DEF SteadyInv, StepOK, TypeOK
<1>2. CASE LeavesRows \/ PromotesRow \/ AgesRow \/ ClaimsRow \/ DropsOwners
  BY <1>1, <1>2 DEF LeavesRows, PromotesRow, AgesRow, ClaimsRow, DropsOwners
<1>3. CASE MarksRow
  BY <1>1, <1>3 DEF MarksRow, OwnersHold
<1> QED
  BY <1>1, <1>2, <1>3 DEF Effect

LEMMA CacheStaysAuthoritative ==
  ASSUME SteadyInv, StepOK
  PROVE  CacheIsAuthoritative'
BY DoneStaysDone DEF SteadyInv, StepOK, CacheFollows, CacheIsAuthoritative

LEMMA PromotersStillMeetLegacy ==
  ASSUME SteadyInv, StepOK
  PROVE  PromotersMeetLegacy'
<1> SUFFICES ASSUME NEW d \in Deliveries, delivery'[d].at = "promote"
             PROVE  row'[delivery'[d].event] \in {"legacy", "processed"}
  BY DEF PromotersMeetLegacy, At, RowOf, EventOf
<1>1. CASE delivery[d].at = "promote" /\ delivery'[d].event = delivery[d].event
  <2>1. EventOf(d) \in Events /\ row[EventOf(d)] \in {"legacy", "processed"}
    BY <1>1, BusyIsRequest DEF SteadyInv, PromotersMeetLegacy, At, RowOf
  <2> QED
    BY <1>1, <2>1, DoneStaysDone DEF EventOf
<1>2. CASE row'[delivery'[d].event] = "legacy"
  BY <1>2
<1> QED
  BY <1>1, <1>2 DEF StepOK, PromotersFollow

LEMMA SteadyInductive ==
  ASSUME SteadyInv, [Steady]_vars
  PROVE  SteadyInv'
<1>1. StepOK
  BY SteadyStep
<1> QED
  BY <1>1, OwnersStillHold, CacheStaysAuthoritative, PromotersStillMeetLegacy DEF SteadyInv, StepOK

-----------------------------------------------------------------------------
(* What holds in the steady ledger.                                        *)

\* The rows, requests and sets of processed events have the types the code gives
\* them, and no server remembers more events than it may.
THEOREM LedgerTypes == SteadySpec => []TypeOK
<1>1. SteadyInv => TypeOK
  BY DEF SteadyInv
<1> QED
  BY SteadyInit, SteadyInductive, <1>1, PTL DEF SteadySpec

\* The handler of an event never runs twice at the same time, however deliveries,
\* retries, crashes and takeovers interleave.
THEOREM ClaimsAreExclusive == SteadySpec => []OneHandlerAtATime
<1>1. SteadyInv => OneHandlerAtATime
  BY DEF SteadyInv
<1> QED
  BY SteadyInit, SteadyInductive, <1>1, PTL DEF SteadySpec

\* A hit in a server's in-memory set means that the row is 'processed'.
THEOREM CacheCanBeTrusted == SteadySpec => []CacheIsAuthoritative
<1>1. SteadyInv => CacheIsAuthoritative
  BY DEF SteadyInv
<1> QED
  BY SteadyInit, SteadyInductive, <1>1, PTL DEF SteadySpec

-----------------------------------------------------------------------------
(* The ledger implements exclusive handling.                               *)

Workers == [e \in Events |-> {d \in Deliveries : Owns(d, e)}]
Done    == {e \in Events : row[e] \in {"processed", "legacy"}}

LEMMA PromiseInit ==
  ASSUME Init
  PROVE  Promise!Init
<1>1. \A d \in Deliveries, e \in Events : ~Owns(d, e)
  BY DEF Init, Idle, Owns
<1> QED
  BY <1>1 DEF Promise!Init

LEMMA PromiseStep ==
  ASSUME SteadyInv, StepOK
  PROVE  [Promise!Next]_(Promise!vars)
<1>1. /\ row \in [Events -> Statuses] /\ row' \in [Events -> Statuses]
      /\ OwnersHold /\ OneHandlerAtATime /\ Effect
  BY DEF SteadyInv, StepOK, TypeOK
<1> SUFFICES Promise!Next \/ (Workers' = Workers /\ Done' = Done)
  BY DEF Promise!vars, Workers, Done
<1>2. ASSUME SameOwners PROVE Workers' = Workers
  BY <1>2 DEF SameOwners, Workers
<1>3. CASE LeavesRows \/ PromotesRow \/ AgesRow
  <2>1. Workers' = Workers
    BY <1>2, <1>3 DEF LeavesRows, PromotesRow, AgesRow
  <2>2. Done' = Done
    BY <1>1, <1>3 DEF LeavesRows, PromotesRow, AgesRow, Done
  <2> QED
    BY <2>1, <2>2
<1>4. CASE ClaimsRow
  <2>1. PICK d \in Deliveries, e \in Events :
          /\ NewOwner(d, e)
          /\ row[e] \in {"absent", "failed", "stale"}
          /\ row' = [row EXCEPT ![e] = "received"]
    BY <1>4 DEF ClaimsRow
  <2>2. \A c \in Deliveries : ~Owns(c, e)
    BY <1>1, <2>1 DEF OwnersHold
  <2>3. Workers[e] = {} /\ Workers' = [Workers EXCEPT ![e] = {d}]
    BY <2>1, <2>2 DEF Workers, NewOwner
  <2>4. e \notin Done /\ Done' = Done
    BY <1>1, <2>1 DEF Done
  <2> QED
    BY <2>3, <2>4 DEF Promise!Next, Promise!Begin, Workers, Done
<1>5. CASE MarksRow
  <2>1. PICK d \in Deliveries, e \in Events, outcome \in {"processed", "failed"} :
          /\ OwnersGone({d}) /\ Owns(d, e)
          /\ row' = [row EXCEPT ![e] = outcome]
    BY <1>5 DEF MarksRow
  <2>2. /\ Workers[e] = {d} /\ row[e] = "received"
        /\ \A x \in Events \ {e} : ~Owns(d, x)
    <3>1. \A x \in Events \ {e} : ~Owns(d, x)
      BY <2>1 DEF Owns
    <3>2. row[e] = "received"
      BY <1>1, <2>1 DEF OwnersHold
    <3>3. \A c \in Deliveries : Owns(c, e) <=> c = d
      BY <1>1, <2>1 DEF OneHandlerAtATime
    <3> QED
      BY <3>1, <3>2, <3>3 DEF Workers
  <2>3. Workers' = [Workers EXCEPT ![e] = {}]
    <3>1. ASSUME NEW x \in Events
          PROVE  {c \in Deliveries : Owns(c, x)'} = IF x = e THEN {} ELSE Workers[x]
      <4>1. \A c \in Deliveries : Owns(c, x)' <=> (Owns(c, x) /\ c # d)
        BY <2>1 DEF OwnersGone
      <4>2. CASE x = e
        BY <1>1, <2>1, <4>1, <4>2 DEF OneHandlerAtATime
      <4>3. CASE x # e
        BY <2>2, <4>1, <4>3 DEF Workers
      <4> QED
        BY <4>2, <4>3
    <3> QED
      BY <3>1 DEF Workers
  <2>4. CASE outcome = "processed"
    <3>1. Done' = Done \cup {e}
      BY <1>1, <2>1, <2>4 DEF Done
    <3> QED
      BY <2>2, <2>3, <3>1 DEF Promise!Next, Promise!Complete, Workers, Done
  <2>5. CASE outcome = "failed"
    <3>1. Done' = Done
      BY <1>1, <2>1, <2>2, <2>5 DEF Done
    <3>2. Workers' = [x \in Events |-> IF x \in {e} THEN {} ELSE Workers[x]]
      BY <2>3 DEF Workers
    <3> QED
      BY <3>1, <3>2 DEF Promise!Next, Promise!Abandon, Workers, Done
  <2> QED
    BY <2>4, <2>5
<1>6. CASE DropsOwners
  <2>1. PICK gone \in SUBSET Deliveries : OwnersGone(gone) /\ row' = row
    BY <1>6 DEF DropsOwners
  <2> DEFINE cut == {e \in Events : \E d \in gone : Owns(d, e)}
  <2>2. ASSUME NEW e \in Events
        PROVE  Workers'[e] = IF e \in cut THEN {} ELSE Workers[e]
    BY <1>1, <2>1 DEF Workers, OwnersGone, OneHandlerAtATime
  <2>3. Workers' = [e \in Events |-> IF e \in cut THEN {} ELSE Workers[e]]
    BY <2>2 DEF Workers
  <2>4. Done' = Done
    BY <2>1 DEF Done
  <2>5. cut \in SUBSET Events
    OBVIOUS
  <2> QED
    BY <2>3, <2>4, <2>5 DEF Promise!Next, Promise!Abandon, Workers, Done
<1> QED
  BY <1>1, <1>3, <1>4, <1>5, <1>6 DEF Effect

\* The claim and finalise statements of the ledger, with everything that may come
\* between them, implement one worker per event and none after it is done.
THEOREM LedgerHandlesExclusively == SteadySpec => HandledExclusively
<1>1. SteadyInv /\ [Steady]_vars => [Promise!Next]_(Promise!vars)
  BY SteadyStep, PromiseStep
<1> QED
  BY SteadyInit, SteadyInductive, PromiseInit, <1>1, PTL DEF SteadySpec, HandledExclusively, Promise!Spec

-----------------------------------------------------------------------------
(* What holds whatever the surroundings do.                                *)

LEMMA RoughInit ==
  ASSUME Init
  PROVE  RoughInv
<1>1. TypeOK
  BY SteadyInit DEF SteadyInv
<1> QED
  BY <1>1 DEF RoughInv, Init, FinishersHandled, DoneWasHandled, At, Idle

\* A request about to mark its event processed was there before, or has just run the
\* handler.
FinishersFollow ==
  \A c \in Deliveries : delivery'[c].at = "finish" =>
    \/ delivery[c].at = "finish" /\ delivery'[c].event = delivery[c].event
    \/ delivery'[c].event \in handled'

\* A row becomes 'processed' for a handled event, or from a legacy row.
DoneFollows ==
  \A e \in Events : row'[e] \in {"legacy", "processed"} =>
    row[e] \in {"legacy", "processed"} \/ e \in handled

RoughOK == TypeOK' /\ FinishersFollow /\ DoneFollows /\ handled \subseteq handled'

LEMMA FinishersRule ==
  ASSUME NEW d \in Deliveries,
         \A c \in Deliveries \ {d} : delivery'[c] = delivery[c],
         delivery'[d].at # "finish"
  PROVE  FinishersFollow
BY DEF FinishersFollow

LEMMA ArrivesRough ==
  ASSUME TypeOK, NEW d \in Deliveries, NEW e \in Events, NEW s \in Servers, Accept(d, e, s)
  PROVE  RoughOK
<1>1. /\ UNCHANGED <<row, cache, handled>> /\ acked' \subseteq Events
      /\ delivery \in [Deliveries -> Request \cup {Idle}]
  BY DEF Accept, TypeOK
<1>2. CASE UNCHANGED delivery
  BY <1>1, <1>2 DEF TypeOK, RoughOK, FinishersFollow, DoneFollows
<1>3. CASE delivery' = [delivery EXCEPT ![d] =
               [at |-> "insert", event |-> e, server |-> s, tries |-> 1]]
  <2>1. [at |-> "insert", event |-> e, server |-> s, tries |-> 1] \in Request
    BY LedgerAssumption DEF Request, Stages
  <2>2. /\ delivery' \in [Deliveries -> Request \cup {Idle}]
        /\ delivery'[d].at = "insert"
        /\ \A c \in Deliveries \ {d} : delivery'[c] = delivery[c]
    BY <1>1, <1>3, <2>1
  <2> QED
    BY <1>1, <2>2, FinishersRule DEF TypeOK, RoughOK, DoneFollows
<1> QED
  BY <1>2, <1>3 DEF Accept

\* A step of the claim: the request ends up anywhere but before the update to
\* 'processed', and the only row it makes 'processed' was a legacy one.
LEMMA ClaimsRough ==
  ASSUME TypeOK, NEW d \in Deliveries, Claims(d)
  PROVE  RoughOK
<1>1. /\ delivery[d].at \in {"insert", "inspect", "promote", "reclaim", "takeover"}
      /\ handled' = handled
  BY DEF Claims, Insert, Inspect, Promote, Reclaim, TakeOver, At
<1>2. delivery[d] \in Request /\ EventOf(d) \in Events
  BY <1>1, BusyIsRequest
<1>3. \/ \E stage \in Stages \ {"finish"} : GoTo(d, stage) /\ UNCHANGED acked
      \/ Again(d)
      \/ Acknowledge(d)
  BY DEF Claims, Insert, Inspect, Promote, Reclaim, TakeOver, Stages
<1>4. /\ delivery' \in [Deliveries -> Request \cup {Idle}]
      /\ delivery'[d].at # "finish"
      /\ \A c \in Deliveries \ {d} : delivery'[c] = delivery[c]
      /\ acked' \subseteq Events
  <2>1. CASE \E stage \in Stages \ {"finish"} : GoTo(d, stage) /\ UNCHANGED acked
    BY <1>1, <2>1, GoToKeeps DEF TypeOK
  <2>2. CASE Again(d)
    BY <1>1, <2>2, AgainKeeps
  <2>3. CASE Acknowledge(d)
    BY <1>2, <2>3, AnswerKeeps DEF Acknowledge, TypeOK
  <2> QED
    BY <1>3, <2>1, <2>2, <2>3
<1>5. UNCHANGED cache \/ Track(d)
  BY DEF Claims, Insert, Inspect, Promote, Reclaim, TakeOver
<1>6. /\ cache' \in [Servers -> Seq(Events)]
      /\ \A s \in Servers : Len(cache'[s]) =< MaxProcessed
  BY <1>2, <1>5, TrackKeeps DEF TypeOK
<1>7. /\ row \in [Events -> Statuses]
      /\ \/ row' = row
         \/ row' = [row EXCEPT ![EventOf(d)] = "received"]
         \/ row[EventOf(d)] = "legacy" /\ row' = [row EXCEPT ![EventOf(d)] = "processed"]
  <2>1. row' = [row EXCEPT ![EventOf(d)] = IF @ = "legacy" THEN "processed" ELSE @]
        \/ row' = row \/ Mark(d, "received")
    BY DEF Claims, Insert, Inspect, Promote, Reclaim, TakeOver
  <2> QED
    BY <2>1 DEF Mark, TypeOK
<1>8. row' \in [Events -> Statuses] /\ DoneFollows
  BY <1>2, <1>7 DEF Statuses, DoneFollows
<1>9. FinishersFollow
  BY <1>4, FinishersRule
<1> QED
  BY <1>1, <1>4, <1>6, <1>8, <1>9 DEF TypeOK, RoughOK

\* A step of an owner, or an update whose answer is lost: the update to 'processed'
\* comes from a request that has run the handler.
LEMMA HandlesRough ==
  ASSUME TypeOK, FinishersHandled, NEW d \in Deliveries, Handles(d) \/ ReplyLost(d)
  PROVE  RoughOK
<1>1. /\ delivery[d].at \in {"handle", "finish", "fail"}
      /\ delivery[d] \in Request /\ EventOf(d) \in Events
  BY BusyIsRequest DEF Handles, HandlerReturns, HandlerThrows, MarkProcessed, MarkFailed, ReplyLost, At
<1>2. row \in [Events -> Statuses] /\ handled \subseteq Events /\ acked \subseteq Events
  BY DEF TypeOK
<1>3. CASE HandlerReturns(d) \/ HandlerThrows(d)
  <2>1. PICK stage \in {"finish", "fail"} :
          /\ GoTo(d, stage)
          /\ stage = "finish" => EventOf(d) \in handled'
          /\ handled \subseteq handled' /\ handled' \subseteq Events
          /\ UNCHANGED <<row, cache, acked>>
    BY <1>1, <1>2, <1>3 DEF HandlerReturns, HandlerThrows
  <2>2. /\ delivery' \in [Deliveries -> Request \cup {Idle}]
        /\ delivery'[d].at = stage /\ delivery'[d].event = EventOf(d)
        /\ \A c \in Deliveries \ {d} : delivery'[c] = delivery[c]
    BY <1>1, <2>1, GoToKeeps DEF Stages, EventOf
  <2>3. FinishersFollow
    BY <2>1, <2>2 DEF FinishersFollow
  <2> QED
    BY <2>1, <2>2, <2>3 DEF TypeOK, RoughOK, DoneFollows
<1>4. CASE MarkProcessed(d) \/ MarkFailed(d) \/ ReplyLost(d)
  <2>1. PICK outcome \in {"processed", "failed"} :
          /\ Finalize(d, outcome)
          /\ outcome = "processed" => delivery[d].at = "finish"
    BY <1>4 DEF MarkProcessed, MarkFailed, ReplyLost, At
  <2>2. /\ row' \in [Events -> Statuses]
        /\ \A e \in Events \ {EventOf(d)} : row'[e] = row[e]
        /\ row'[EventOf(d)] \in {"absent", outcome}
    BY <1>1, <1>2, <2>1 DEF Finalize, Statuses
  <2>3. outcome = "processed" => EventOf(d) \in handled
    BY <2>1 DEF FinishersHandled, At
  <2>4. DoneFollows
    BY <2>2, <2>3 DEF DoneFollows
  <2>5. /\ delivery' \in [Deliveries -> Request \cup {Idle}]
        /\ delivery'[d].at # "finish"
        /\ \A c \in Deliveries \ {d} : delivery'[c] = delivery[c]
    <3>1. delivery' = [delivery EXCEPT ![d] = Idle] \/ GoTo(d, "fail")
      BY <1>4 DEF MarkProcessed, MarkFailed, ReplyLost, Acknowledge, Refuse
    <3> QED
      BY <1>1, <3>1, AnswerKeeps, GoToKeeps DEF Stages
  <2>6. FinishersFollow
    BY <2>5, FinishersRule
  <2>7. acked' \subseteq Events /\ handled' = handled
    BY <1>1, <1>2, <1>4 DEF MarkProcessed, MarkFailed, ReplyLost, Acknowledge, Refuse
  <2>8. UNCHANGED cache \/ Track(d)
    BY <1>4 DEF MarkProcessed, MarkFailed, ReplyLost
  <2>9. /\ cache' \in [Servers -> Seq(Events)]
        /\ \A s \in Servers : Len(cache'[s]) =< MaxProcessed
    BY <1>1, <2>8, TrackKeeps DEF TypeOK
  <2> QED
    BY <1>2, <2>2, <2>4, <2>5, <2>6, <2>7, <2>9 DEF TypeOK, RoughOK
<1> QED
  BY <1>3, <1>4 DEF Handles

LEMMA StatementFailsRough ==
  ASSUME TypeOK, NEW d \in Deliveries, StatementFails(d)
  PROVE  RoughOK
<1>1. delivery[d].at # "idle" /\ UNCHANGED <<row, cache, acked, handled>>
  BY DEF StatementFails, At
<1>2. delivery' = [delivery EXCEPT ![d] = Idle] \/ GoTo(d, "fail")
  BY DEF StatementFails
<1>3. /\ delivery' \in [Deliveries -> Request \cup {Idle}]
      /\ delivery'[d].at # "finish"
      /\ \A c \in Deliveries \ {d} : delivery'[c] = delivery[c]
  BY <1>1, <1>2, AnswerKeeps, GoToKeeps DEF Stages
<1> QED
  BY <1>1, <1>3, FinishersRule DEF TypeOK, RoughOK, DoneFollows

LEMMA CrashRough ==
  ASSUME TypeOK, NEW s \in Servers, Crash(s)
  PROVE  RoughOK
<1>1. <<>> \in Seq(Events) /\ Len(<<>>) = 0
  OBVIOUS
<1>2. TypeOK'
  BY <1>1, LedgerAssumption DEF Crash, TypeOK
<1>3. FinishersFollow
  BY DEF Crash, FinishersFollow, Idle
<1> QED
  BY <1>2, <1>3 DEF Crash, RoughOK, DoneFollows

LEMMA RowsRough ==
  ASSUME TypeOK, NEW e \in Events, GrowStale(e) \/ Purge(e)
  PROVE  RoughOK
<1>1. PICK status \in {"stale", "absent"} : row' = [row EXCEPT ![e] = status]
  BY DEF GrowStale, Purge
<1>2. UNCHANGED <<delivery, cache, acked, handled>>
  BY DEF GrowStale, Purge
<1> QED
  BY <1>1, <1>2 DEF TypeOK, RoughOK, FinishersFollow, DoneFollows, Statuses

LEMMA RoughStep ==
  ASSUME RoughInv, [Next]_vars
  PROVE  RoughInv'
<1> USE DEF RoughInv
<1>1. RoughOK
  <2>1. CASE UNCHANGED vars
    BY <2>1 DEF vars, TypeOK, RoughOK, FinishersFollow, DoneFollows
  <2>2. CASE Common
    BY <2>2, ArrivesRough, ClaimsRough, HandlesRough, StatementFailsRough, CrashRough
       DEF Common, Arrives, Deliver, Resend
  <2> QED
    BY <2>1, <2>2, RowsRough, HandlesRough DEF Next
<1>2. FinishersHandled'
  BY <1>1 DEF RoughOK, FinishersFollow, FinishersHandled, At, EventOf
<1>3. DoneWasHandled'
  BY <1>1 DEF RoughOK, DoneFollows, DoneWasHandled
<1> QED
  BY <1>1, <1>2, <1>3 DEF RoughOK

\* An event marked 'processed' has been handled, even when rows are deleted, replies
\* are lost and a handler is still running when its row is taken over.
THEOREM ProcessedMeansHandled == Spec => []ProcessedWasHandled
<1>1. RoughInv => ProcessedWasHandled
  BY DEF RoughInv, DoneWasHandled, ProcessedWasHandled
<1> QED
  BY RoughInit, RoughStep, <1>1, PTL DEF Spec
=============================================================================
