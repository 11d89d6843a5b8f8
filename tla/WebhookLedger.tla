--------------------------- MODULE WebhookLedger ---------------------------
(***************************************************************************)
(* The ledger of Stripe webhook events (paymentService.js,                 *)
(* stripe_webhook_events): claim an event, run its handler, mark it.       *)
(*                                                                         *)
(* Every database statement of the claim commits by itself, so a delivery  *)
(* is at one statement at a time and all the others may run in between.    *)
(* The provider (external) repeats an event until a delivery of it is      *)
(* answered 200; an operator may resend an unfinished event by hand.       *)
(* A row is identified with its status; "stale" is a received row older    *)
(* than STALE_IN_FLIGHT_SECONDS, "legacy" one without a payload.           *)
(***************************************************************************)
EXTENDS Naturals, SequencesExt

CONSTANTS
  Events,        \* event ids
  Deliveries,    \* requests in progress at once (slots, reused)
  Servers,       \* Node processes, each with its own _processedEvents
  MaxAttempts,   \* MAX_ACQUIRE_ATTEMPTS
  MaxProcessed   \* MAX_PROCESSED_EVENTS

ASSUME LedgerAssumption == /\ MaxAttempts \in Nat \ {0}
                           /\ MaxProcessed \in Nat \ {0}

VARIABLES
  row,       \* row[e]: the status of the event's row in stripe_webhook_events
  delivery,  \* delivery[d]: where request d is
  cache,     \* cache[s]: _processedEvents of server s, oldest first
  acked,     \* events the provider believes delivered (external)
  handled    \* events whose handler has run to its end (history)

vars == <<row, delivery, cache, acked, handled>>

Statuses == {"absent", "legacy", "received", "stale", "processed", "failed"}
Stages   == {"insert", "inspect", "promote", "reclaim", "takeover",
             "handle", "finish", "fail"}

Idle    == [at |-> "idle"]
Request == [at : Stages, event : Events, server : Servers, tries : 1 .. MaxAttempts]

TypeOK ==
  /\ row \in [Events -> Statuses]
  /\ delivery \in [Deliveries -> Request \cup {Idle}]
  /\ cache \in [Servers -> Seq(Events)]
  /\ \A s \in Servers : Len(cache[s]) =< MaxProcessed
  /\ acked \subseteq Events
  /\ handled \subseteq Events

Init ==
  /\ row \in [Events -> {"absent", "legacy"}]
  /\ delivery = [d \in Deliveries |-> Idle]
  /\ cache = [s \in Servers |-> <<>>]
  /\ acked = {}
  /\ handled = {e \in Events : row[e] = "legacy"}

-----------------------------------------------------------------------------
At(d, stage) == delivery[d].at = stage
EventOf(d)   == delivery[d].event
RowOf(d)     == row[EventOf(d)]

\* The event d is the owner of: claimed, and not yet marked.
Owns(d, e) == delivery[d].at \in {"handle", "finish", "fail"} /\ delivery[d].event = e
Orphaned(e) == \A d \in Deliveries : ~Owns(d, e)

GoTo(d, stage) == delivery' = [delivery EXCEPT ![d].at = stage]
Mark(d, status) == row' = [row EXCEPT ![EventOf(d)] = status]

\* Fault: the outcome of the handler is not looked at.
FinalizeAnyway(d, outcome) ==
  row' = [row EXCEPT ![EventOf(d)] = IF @ = "absent" THEN @ ELSE "processed"]

\* The update of a finished event finds no row when an operator deleted it.
Finalize(d, outcome) ==
  row' = [row EXCEPT ![EventOf(d)] = IF @ = "absent" THEN @ ELSE outcome]

\* A 200 answer: the provider may have hung up before it arrives.
Acknowledge(d) ==
  /\ delivery' = [delivery EXCEPT ![d] = Idle]
  /\ acked' \in {acked, acked \cup {EventOf(d)}}

\* A 500 answer: the provider will repeat the event.
Refuse(d) == delivery' = [delivery EXCEPT ![d] = Idle] /\ UNCHANGED acked

\* Fault: nothing is evicted.
TrackedForEver(set, e) == IF Contains(set, e) THEN set ELSE Append(set, e)

\* _trackProcessedEvent: a full set loses its oldest member first.
Tracked(set, e) ==
  LET kept == IF Len(set) >= MaxProcessed THEN Tail(set) ELSE set
  IN  IF Contains(kept, e) THEN kept ELSE Append(kept, e)

Track(d) == cache' = [cache EXCEPT ![delivery[d].server] = Tracked(@, EventOf(d))]

-----------------------------------------------------------------------------
(* One request.                                                            *)

Accept(d, e, s) ==
  /\ At(d, "idle")
  /\ IF Contains(cache[s], e)
     THEN /\ acked' \in {acked, acked \cup {e}}
          /\ UNCHANGED delivery
     ELSE /\ delivery' = [delivery EXCEPT ![d] =
               [at |-> "insert", event |-> e, server |-> s, tries |-> 1]]
          /\ UNCHANGED acked
  /\ UNCHANGED <<row, cache, handled>>

Deliver(d, e, s) == e \notin acked /\ Accept(d, e, s)

Resend(d, e, s) == e \in acked /\ row[e] # "processed" /\ Accept(d, e, s)

\* Fault: the loop has no last attempt.
AgainForEver(d) ==
  delivery' = [delivery EXCEPT ![d].at = "insert"] /\ UNCHANGED acked

\* The claim loop starts over, or gives up and answers "in flight".
Again(d) ==
  \/ /\ delivery[d].tries < MaxAttempts
     /\ delivery' = [delivery EXCEPT ![d].at = "insert", ![d].tries = @ + 1]
     /\ UNCHANGED acked
  \/ /\ delivery[d].tries >= MaxAttempts
     /\ Acknowledge(d)

Insert(d) ==
  /\ At(d, "insert")
  /\ \/ RowOf(d) = "absent" /\ Mark(d, "received") /\ GoTo(d, "handle")
     \/ RowOf(d) # "absent" /\ GoTo(d, "inspect") /\ UNCHANGED row
  /\ UNCHANGED <<cache, acked, handled>>

Inspect(d) ==
  /\ At(d, "inspect")
  /\ \/ RowOf(d) = "absent" /\ Again(d) /\ UNCHANGED cache
     \/ RowOf(d) = "legacy" /\ GoTo(d, "promote") /\ UNCHANGED <<acked, cache>>
     \/ RowOf(d) = "processed" /\ Track(d) /\ Acknowledge(d)
     \/ RowOf(d) = "failed" /\ GoTo(d, "reclaim") /\ UNCHANGED <<acked, cache>>
     \/ RowOf(d) \in {"received", "stale"} /\ GoTo(d, "takeover") /\ UNCHANGED <<acked, cache>>
  /\ UNCHANGED <<row, handled>>

Promote(d) ==
  /\ At(d, "promote")
  /\ row' = [row EXCEPT ![EventOf(d)] = IF @ = "legacy" THEN "processed" ELSE @]
  /\ Track(d)
  /\ Acknowledge(d)
  /\ UNCHANGED handled

\* Fault: the reclaiming UPDATE does not repeat the test of the status.
ReclaimUnguarded(d) ==
  /\ At(d, "reclaim")
  /\ Mark(d, "received")
  /\ GoTo(d, "handle")
  /\ UNCHANGED <<cache, acked, handled>>

Reclaim(d) ==
  /\ At(d, "reclaim")
  /\ \/ RowOf(d) = "failed" /\ Mark(d, "received") /\ GoTo(d, "handle") /\ UNCHANGED acked
     \/ RowOf(d) # "failed" /\ Again(d) /\ UNCHANGED row
  /\ UNCHANGED <<cache, handled>>

\* Faults: a row in flight counts as processed; the takeover matches no row
\* (DEFECT-LINEB-1), or a fresh one too.
TakeOverTracks(d) ==
  /\ At(d, "takeover")
  /\ \/ RowOf(d) = "stale" /\ Mark(d, "received") /\ GoTo(d, "handle") /\ UNCHANGED <<acked, cache>>
     \/ RowOf(d) # "stale" /\ Track(d) /\ Acknowledge(d) /\ UNCHANGED row
  /\ UNCHANGED handled

TakeOverNever(d) ==
  /\ At(d, "takeover")
  /\ Acknowledge(d)
  /\ UNCHANGED <<row, cache, handled>>

TakeOverFresh(d) ==
  /\ At(d, "takeover")
  /\ \/ RowOf(d) \in {"stale", "received"} /\ Mark(d, "received") /\ GoTo(d, "handle") /\ UNCHANGED acked
     \/ RowOf(d) \notin {"stale", "received"} /\ Acknowledge(d) /\ UNCHANGED row
  /\ UNCHANGED <<cache, handled>>

TakeOver(d) ==
  /\ At(d, "takeover")
  /\ \/ RowOf(d) = "stale" /\ Mark(d, "received") /\ GoTo(d, "handle") /\ UNCHANGED acked
     \/ RowOf(d) # "stale" /\ Acknowledge(d) /\ UNCHANGED row
  /\ UNCHANGED <<cache, handled>>

HandlerReturns(d) ==
  /\ At(d, "handle")
  /\ GoTo(d, "finish")
  /\ handled' = handled \cup {EventOf(d)}
  /\ UNCHANGED <<row, cache, acked>>

HandlerThrows(d) ==
  /\ At(d, "handle")
  /\ GoTo(d, "fail")
  /\ UNCHANGED <<row, cache, acked, handled>>

MarkProcessed(d) ==
  /\ At(d, "finish")
  /\ Finalize(d, "processed")
  /\ Track(d)
  /\ Acknowledge(d)
  /\ UNCHANGED handled

MarkFailed(d) ==
  /\ At(d, "fail")
  /\ Finalize(d, "failed")
  /\ Refuse(d)
  /\ UNCHANGED <<cache, handled>>

\* A statement fails and changes nothing.  Before the handler has run the
\* error leaves handleWebhookEvent; afterwards the event is marked failed.
StatementFails(d) ==
  /\ \/ /\ delivery[d].at \in {"insert", "inspect", "promote", "reclaim", "takeover", "fail"}
        /\ delivery' = [delivery EXCEPT ![d] = Idle]
     \/ At(d, "finish") /\ GoTo(d, "fail")
  /\ UNCHANGED <<row, cache, acked, handled>>

-----------------------------------------------------------------------------
(* The surroundings.                                                       *)

Crash(s) ==
  /\ delivery' = [d \in Deliveries |->
       IF delivery[d] # Idle /\ delivery[d].server = s THEN Idle ELSE delivery[d]]
  /\ cache' = [cache EXCEPT ![s] = <<>>]
  /\ UNCHANGED <<row, acked, handled>>

GrowStale(e) ==
  /\ row[e] = "received"
  /\ row' = [row EXCEPT ![e] = "stale"]
  /\ UNCHANGED <<delivery, cache, acked, handled>>

\* An operator deletes the row.
Purge(e) ==
  /\ row[e] # "absent"
  /\ row' = [row EXCEPT ![e] = "absent"]
  /\ UNCHANGED <<delivery, cache, acked, handled>>

\* The update to 'processed' commits but its answer is lost.
ReplyLost(d) ==
  /\ At(d, "finish")
  /\ Finalize(d, "processed")
  /\ GoTo(d, "fail")
  /\ UNCHANGED <<cache, acked, handled>>

Claims(d) == Insert(d) \/ Inspect(d) \/ Promote(d) \/ Reclaim(d) \/ TakeOver(d)
Handles(d) == HandlerReturns(d) \/ HandlerThrows(d) \/ MarkProcessed(d) \/ MarkFailed(d)
Arrives(e) == \E d \in Deliveries, s \in Servers : Deliver(d, e, s) \/ Resend(d, e, s)

Common ==
  \/ \E d \in Deliveries : Claims(d) \/ Handles(d) \/ StatementFails(d)
  \/ \E e \in Events : Arrives(e)
  \/ \E s \in Servers : Crash(s)

Next ==
  \/ Common
  \/ \E e \in Events : GrowStale(e) \/ Purge(e)
  \/ \E d \in Deliveries : ReplyLost(d)

Spec == Init /\ [][Next]_vars

(***************************************************************************)
(* What the code takes for granted: a handler is done long before its row  *)
(* is stale, a failed statement has not been executed, nobody deletes rows.*)
(***************************************************************************)
Steady ==
  \/ Common
  \/ \E e \in Events : Orphaned(e) /\ GrowStale(e)

SteadySpec == Init /\ [][Steady]_vars

\* A request that is being served goes on.
RequestsGoOn == \A d \in Deliveries : WF_vars(Claims(d) \/ Handles(d))

FairSpec == Spec /\ RequestsGoOn

\* Time passes, unfinished events are sent again, and no statement fails, no
\* handler throws and no server dies at the same point for ever.
FairSteady ==
  /\ SteadySpec
  /\ RequestsGoOn
  /\ SF_vars(\E d \in Deliveries : Insert(d)) /\ SF_vars(\E d \in Deliveries : Inspect(d))
  /\ SF_vars(\E d \in Deliveries : Promote(d))
  /\ SF_vars(\E d \in Deliveries : Reclaim(d)) /\ SF_vars(\E d \in Deliveries : TakeOver(d))
  /\ SF_vars(\E d \in Deliveries : HandlerReturns(d))
  /\ SF_vars(\E d \in Deliveries : MarkProcessed(d))
  /\ \A e \in Events : WF_vars(Orphaned(e) /\ GrowStale(e)) /\ SF_vars(Arrives(e))

-----------------------------------------------------------------------------
(* Properties.                                                             *)

\* No two deliveries run the handler of one event at the same time: the INSERT,
\* the reclaim of a failed row and the takeover of a stale one have one winner.
OneHandlerAtATime ==
  \A d1, d2 \in Deliveries, e \in Events : Owns(d1, e) /\ Owns(d2, e) => d1 = d2

\* A row says 'processed' only when a handler of the event ran to its end, even
\* with deleted rows, lost replies and handlers slower than the stale threshold.
ProcessedWasHandled ==
  \A e \in Events : row[e] = "processed" => e \in handled

\* _processedEvents is authoritative: an event in a server's set is 'processed'
\* in the table, so the fast path never drops an event that still needs work.
CacheIsAuthoritative ==
  \A s \in Servers, e \in Events : Contains(cache[s], e) => row[e] = "processed"

\* The claim and finalise statements implement exclusive handling: one worker per
\* event at a time, and none after the event is done.
Promise == INSTANCE ExclusiveHandling WITH
  workers <- [e \in Events |-> {d \in Deliveries : Owns(d, e)}],
  done    <- {e \in Events : row[e] \in {"processed", "legacy"}}

HandledExclusively == Promise!Spec

\* Every request is answered: the claim loop ends, whatever others do to the row.
EveryRequestAnswered ==
  \A d \in Deliveries : []<>At(d, "idle")

\* Resent often enough, every event is processed: crashes, failed statements and
\* handlers that throw leave no row that a later delivery cannot pick up.
EveryEventProcessed ==
  \A e \in Events : []<>(row[e] = "processed")

\* As handleWebhookEvent says of a delivery it answers "in flight": if the handler
\* at work fails, the provider still repeats the event.
FailedIsRedelivered ==
  \A e \in Events : row[e] = "failed" => e \notin acked
=============================================================================
