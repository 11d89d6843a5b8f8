------------------------- MODULE ChargeOnce_proofs -------------------------
(***************************************************************************)
(* Proofs about CombinedCharge when the hook can record its intent, the    *)
(* buyer waits to be asked and pays on the page Pay Now has opened, no     *)
(* card is tried before the decline of the last one was handled, and the   *)
(* provider knows its intents: one charge at most.                         *)
(***************************************************************************)
EXTENDS CombinedCharge_proofs

Careful == Mishaps \cap {"attach_lost", "unasked", "hasty", "other_keys", "any_page"} = {}

\* The money of p is, or may any moment be, taken.
Taken(p) == intent[p] \in {"processing", "succeeded"}
Live(p)  == Taken(p) \/ (intent[p] = "open" /\ BeingConfirmed(p))

\* A live intent belongs to the active row.  What the hook did not make is
\* named before it can be charged; a declined intent is not live.
LiveOK ==
  /\ \A p \in Rows : Live(p) => Active(p)
  /\ \A p \in Rows : Taken(p) /\ p # hook.row => p \in named
  /\ \A p \in declines : intent[p] \in {"open", "canceled"} /\ ~Live(p)

\* Confirmations exclude each other; only canceled intents are retired.
TabOnce(t) ==
  /\ tab[t].at = "confirm" => /\ intent[tab[t].row] \in {"open", "canceled"}
                              /\ \A s \in Tabs :
                                   tab[s].at = "confirm" /\ tab[s].row = tab[t].row
                                     => s = t
  /\ tab[t].at = "retire" => intent[tab[t].row] = "canceled"

\* Before the buyer is asked there is only the hook's row; afterwards the
\* hook's intent takes no money.
AskOnce ==
  /\ header = "issued" =>
       /\ \A t \in Tabs : tab[t].at = "idle"
       /\ \A p \in Rows : status[p] # "none" => p = hook.row
  /\ header = "payment_required" /\ hook.row \in Rows => ~Taken(hook.row)

HookOnce ==
  /\ hook.at \in {"insert", "charge"} => header = "issued"
  /\ hook.at = "charge" => /\ Pending(hook.row) /\ intent[hook.row] = "none"
                           /\ hook.row \notin named \cup declines
  /\ uncertain # {} => hook.at = "done"
  /\ hook.at = "note" \/ uncertain # {} =>
       (Pending(hook.row) /\ hook.row \notin named => header = "issued")
  /\ hook.at \in {"decline", "route"} /\ hook.row \in Rows => ~Taken(hook.row)
  /\ hook.at = "fallback" /\ hook.row \in Rows => hook.row \in named

ReviewOnce ==
  /\ review.at = "ask" /\ intent[review.row] = "none" =>
       Pending(review.row) /\ header = "issued"
  /\ \/ review.at \in {"fail", "route"}
     \/ review.at = "attach" /\ review.answer \notin {"succeeded", "processing"}
     => ~Taken(review.row)
  /\ review.at = "route" => ~Pending(review.row)

OnceInv ==
  /\ LiveOK
  /\ \A t \in Tabs : TabOnce(t)
  /\ AskOnce
  /\ HookOnce
  /\ ReviewOnce

-----------------------------------------------------------------------------
(* One lemma for each action: it keeps OnceInv. *)

\* What an off-session request does to its row's intent and to the events.
LEMMA OffSessionEffect ==
  ASSUME TypeOK, NEW p \in Rows, NEW answer, OffSession(p, answer)
  PROVE  /\ \A q \in Rows : q # p => intent'[q] = intent[q]
         /\ intent[p] # "none" => intent'[p] = intent[p] /\ declines' = declines
         /\ declines' = declines \/ (declines' = declines \cup {p} /\ intent'[p] = "open")
         /\ answer = "declined" => intent'[p] \notin {"processing", "succeeded"}
<1>1. PICK state \in IF intent[p] = "none"
                     THEN {"none", "open", "processing", "succeeded"}
                     ELSE {intent[p]} :
         /\ Became(p, state)
         /\ declines' = IF intent[p] = "none" /\ state = "open"
                        THEN declines \cup {p} ELSE declines
         /\ answer \in AnswersFor(state) \cup {"lost"}
  BY DEF OffSession
<1>2. intent'[p] = state /\ \A q \in Rows : q # p => intent'[q] = intent[q]
  BY <1>1 DEF TypeOK, Became
<1>3. answer = "declined" => state \notin {"processing", "succeeded"}
  BY <1>1 DEF AnswersFor
<1> QED
  BY <1>1, <1>2, <1>3 DEF TypeOK

\* The hook starts the invoice's only row, or none.
LEMMA HookInsertKeepsOnce ==
  ASSUME Careful, ChargeInv, OnceInv, HookInsert
  PROVE  OnceInv'
<1>1. /\ hook \in [at : HookAt, row : Rows \cup {NoRow}, answer : Answers]
      /\ hook.at = "insert" /\ hook.row = NoRow /\ header = "issued"
      /\ UNCHANGED <<header, intent, declines, tab, review>>
  BY DEF HookInsert, HookAtStage, provider, ChargeInv, TypeOK, HookOK, OnceInv,
     HookOnce
<1>2. /\ \A q \in Rows : status[q] = "none" /\ intent[q] = "none"
      /\ named = {} /\ declines = {} /\ uncertain = {}
      /\ \A t \in Tabs : tab[t].at = "idle"
      /\ status \in [Rows -> Statuses] /\ review.at = "idle"
  BY <1>1, ChargeAssumption
     DEF ChargeInv, TypeOK, RowsOK, ReviewOK, OnceInv, AskOnce
<1>3. ASSUME NEW p \in Rows, Insert(p, status),
             hook' = [hook EXCEPT !.at = "charge", !.row = p]
      PROVE  OnceInv'
  <2>1. hook' = [at |-> "charge", row |-> p, answer |-> hook.answer]
    BY <1>1, <1>3
  <2>2. status' = [status EXCEPT ![p] = "pending"] /\ UNCHANGED <<named, uncertain>>
    BY <1>3 DEF Insert
  <2>3. LiveOK' /\ \A t \in Tabs : TabOnce(t)'
    BY <1>1, <1>2, <2>2 DEF LiveOK, Live, Taken, BeingConfirmed, TabIs, TabOnce
  <2>4. AskOnce'
    BY <1>1, <1>2, <2>1, <2>2 DEF AskOnce
  <2>5. HookOnce' /\ ReviewOnce'
    BY <1>1, <1>2, <2>1, <2>2 DEF HookOnce, ReviewOnce, Pending
  <2> QED
    BY <2>3, <2>4, <2>5 DEF OnceInv
<1>4. ASSUME NEW stage \in {"route", "done", "fallback"}, HookGo(stage),
             UNCHANGED rows
      PROVE  OnceInv'
  <2>1. hook' = [at |-> stage, row |-> NoRow, answer |-> hook.answer]
    BY <1>1, <1>4 DEF HookGo
  <2>2. UNCHANGED <<status, named, uncertain>>
    BY <1>4 DEF rows
  <2>3. LiveOK' /\ \A t \in Tabs : TabOnce(t)'
    BY <1>1, <1>2, <2>2 DEF LiveOK, Live, Taken, BeingConfirmed, TabIs, TabOnce
  <2>4. AskOnce'
    BY <1>1, <1>2, <2>1, <2>2 DEF AskOnce
  <2>5. HookOnce' /\ ReviewOnce'
    BY <1>1, <1>2, <2>1, <2>2, ChargeAssumption
       DEF HookOnce, ReviewOnce, Pending
  <2> QED
    BY <2>3, <2>4, <2>5 DEF OnceInv
<1> QED
  BY <1>3, <1>4 DEF HookInsert

\* The hook's off-session charge is the invoice's only intent.
LEMMA HookChargeKeepsOnce ==
  ASSUME Careful, ChargeInv, OnceInv, HookCharge
  PROVE  OnceInv'
<1> DEFINE p == hook.row
<1>1. /\ hook \in [at : HookAt, row : Rows \cup {NoRow}, answer : Answers]
      /\ hook.at = "charge" /\ p \in Rows
      /\ UNCHANGED <<header, status, named, uncertain, aged, tab, review>>
  BY DEF HookCharge, HookAtStage, ChargeInv, TypeOK, HookOK, rows
<1>2. PICK answer \in {"succeeded", "processing", "declined", "lost"} :
        /\ OffSession(p, answer)
        /\ CASE answer = "lost"     -> HookGo("note")
             [] answer = "declined" -> HookGo("decline")
             [] OTHER -> hook' = [hook EXCEPT !.at = "attach", !.answer = answer]
  BY DEF HookCharge
<1>3. /\ hook'.row = p
      /\ \/ hook'.at = "note" \/ hook'.at = "attach"
         \/ hook'.at = "decline" /\ answer = "declined"
  BY <1>1, <1>2 DEF HookGo
<1>4. /\ \A q \in Rows : q # p => intent'[q] = intent[q]
      /\ declines' = declines \/ (declines' = declines \cup {p} /\ intent'[p] = "open")
      /\ answer = "declined" => intent'[p] \notin {"processing", "succeeded"}
  BY <1>1, <1>2, OffSessionEffect DEF ChargeInv
<1>5. /\ header = "issued" /\ Pending(p) /\ p \notin named /\ uncertain = {}
      /\ \A t \in Tabs : tab[t].at = "idle"
      /\ review.at = "idle" /\ declines \subseteq Rows \ {p}
  BY <1>1 DEF OnceInv, HookOnce, AskOnce, ChargeInv, ReviewOK, TypeOK
<1>6. LiveOK'
  <2>1. ASSUME NEW q \in Rows
        PROVE  /\ Live(q)' <=> Taken(q)'
               /\ q # p => (Taken(q)' <=> Taken(q))
               /\ Active(q)' <=> Active(q)
    BY <1>1, <1>4, <1>5 DEF Live, Taken, BeingConfirmed, TabIs, Active
  <2>2. Active(p)
    BY <1>5 DEF Active, Pending
  <2>3. \A q \in Rows : (Live(q)' => Active(q)') /\ (Taken(q)' /\ q # p => q \in named)
    BY <2>1, <2>2, <1>1 DEF OnceInv, LiveOK, Live
  <2>4. \A q \in declines' : intent'[q] \in {"open", "canceled"} /\ ~Live(q)'
    BY <1>1, <1>4, <1>5, <2>1 DEF OnceInv, LiveOK, Live, Taken
  <2> QED
    BY <1>1, <1>3, <2>3, <2>4 DEF LiveOK
<1>7. \A t \in Tabs : TabOnce(t)'
  BY <1>1, <1>5 DEF TabOnce
<1>8. AskOnce'
  BY <1>1, <1>3, <1>5 DEF OnceInv, AskOnce
<1>9. HookOnce' /\ ReviewOnce'
  BY <1>1, <1>3, <1>4, <1>5 DEF HookOnce, ReviewOnce, Pending, Taken
<1> QED
  BY <1>6, <1>7, <1>8, <1>9 DEF OnceInv

\* Begin gives up the slot of rows without an intent id: none of them is live.
LEMMA OrphansAreNotLive ==
  ASSUME ChargeInv, OnceInv, header = "payment_required", NEW q \in Orphans
  PROVE  ~Live(q)
<1>1. q \in Rows /\ q \notin named
  BY DEF Orphans, ChargeInv, TypeOK
<1>2. ~Taken(q)
  BY <1>1 DEF OnceInv, LiveOK, AskOnce
<1>3. ~BeingConfirmed(q)
  BY <1>1 DEF BeingConfirmed, TabIs, TabRow, ChargeInv, TabOK
<1> QED
  BY <1>2, <1>3 DEF Live

\* Begin takes the slot of no live intent, and its own row has none.
LEMMA BeginKeepsLive ==
  ASSUME ChargeInv, OnceInv, NEW t \in Tabs, Begin(t)
  PROVE  LiveOK'
<1>1. PICK p \in Rows : Insert(p, Failing(Orphans)) /\ TabGo(t, "create", p)
  BY DEF Begin
<1>2. /\ header = "payment_required" /\ tab[t].at = "begin"
      /\ UNCHANGED <<header, intent, declines, hook>>
  BY DEF Begin, TabIs, provider, OnceInv, AskOnce, ChargeInv, TypeOK, Headers
<1>3. /\ status[p] = "none" /\ UNCHANGED named
      /\ status' = [Failing(Orphans) EXCEPT ![p] = "pending"]
  BY <1>1 DEF Insert
<1>4. \A q \in Rows : q \notin Orphans /\ Active(q) => Active(q)'
  BY <1>3 DEF Failing, Active, Pending
<1>5. ASSUME NEW q \in Rows, Live(q)'
      PROVE  Live(q)
  BY <1>1, <1>2, <1>5
     DEF Live, Taken, BeingConfirmed, TabIs, TabRow, TabGo, ChargeInv, TypeOK
<1>6. \A q \in Rows : Live(q)' => Active(q)'
  BY <1>2, <1>4, <1>5, OrphansAreNotLive DEF OnceInv, LiveOK
<1>7. \A q \in declines : ~Live(q)'
  BY <1>5 DEF OnceInv, LiveOK, ChargeInv, TypeOK
<1> QED
  BY <1>2, <1>3, <1>6, <1>7 DEF OnceInv, LiveOK, Taken

\* A decline routes the invoice to the buyer when its row's intent has ended.
LEMMA DeclinedEventKeepsAsk ==
  ASSUME ChargeInv, OnceInv, NEW p \in Rows, DeclinedEvent(p)
  PROVE  AskOnce'
<1>1. /\ p \in declines /\ p \in named /\ UNCHANGED <<intent, hook, tab>>
      /\ header' = header \/ (header' = "payment_required" /\ header # "paid")
  BY DEF DeclinedEvent, MarkFailed
<1>2. ~Taken(p) /\ status[p] # "none"
  BY <1>1 DEF OnceInv, LiveOK, Live, ChargeInv, RowsOK
<1>3. \A q \in Rows : status'[q] # "none" => status[q] # "none"
  BY DEF DeclinedEvent, Fail, Failing, Pending, ChargeInv, TypeOK
<1>4. header = "issued" => p = hook.row
  BY <1>2 DEF OnceInv, AskOnce
<1> QED
  BY <1>1, <1>2, <1>3, <1>4
     DEF OnceInv, AskOnce, Taken, ChargeInv, TypeOK, Headers

\* An uncertain row's invoice is still unasked.
LEMMA HookNoteKeepsOnce ==
  ASSUME Careful, ChargeInv, OnceInv, HookNote
  PROVE  OnceInv'
<1>1. LiveOK'
  BY DEF HookNote, rows, HookGo, provider, Active, OnceInv, LiveOK, Live,
     Taken, BeingConfirmed, TabIs, TabRow
<1>2. AskOnce'
  BY DEF HookNote, rows, HookGo, provider, OnceInv, AskOnce, Taken
<1>3. HookOnce'
  BY DEF HookNote, HookAtStage, rows, HookGo, Pending, OnceInv, HookOnce
<1>4. /\ \A u \in Tabs : TabOnce(u)'
      /\ ReviewOnce'
  BY DEF HookNote, HookAtStage, provider, ChargeInv, ReviewOK, OnceInv,
     TabOnce, HookOnce, ReviewOnce
<1> QED
  BY <1>1, <1>2, <1>3, <1>4 DEF OnceInv

\* The hook gives up a row whose intent was declined.
LEMMA HookDeclineKeepsOnce ==
  ASSUME Careful, ChargeInv, OnceInv, HookDecline
  PROVE  OnceInv'
<1>1. LiveOK'
  BY DEF HookDecline, HookAtStage, FailNaming, Failing, rows, provider,
     ChargeInv, TabOK, May, Careful, Active, OnceInv, LiveOK, HookOnce, Live, Taken,
     BeingConfirmed, TabIs, TabRow
<1>2. AskOnce'
  BY DEF HookDecline, FailNaming, Failing, rows, HookGo, provider, OnceInv,
     AskOnce, Taken
<1>3. HookOnce'
  BY DEF HookDecline, HookAtStage, FailNaming, rows, HookGo, provider, OnceInv,
     HookOnce, Taken
<1>4. ReviewOnce'
  BY DEF HookDecline, HookAtStage, ChargeInv, ReviewOK, OnceInv, HookOnce,
     ReviewOnce
<1>5. \A u \in Tabs : TabOnce(u)'
  BY DEF HookDecline, provider, OnceInv, TabOnce
<1> QED
  BY <1>1, <1>2, <1>3, <1>4, <1>5 DEF OnceInv

\* The hook's row was named or is named now; the next stage agrees.
LEMMA HookAttachKeepsOnce ==
  ASSUME Careful, ChargeInv, OnceInv, HookAttach
  PROVE  OnceInv'
<1>1. LiveOK'
  BY DEF HookAttach, Name, HookGo, rows, provider, ChargeInv, TypeOK, Active,
     OnceInv, LiveOK, Live, Taken, BeingConfirmed, TabIs, TabRow
<1>2. AskOnce'
  BY DEF HookAttach, Name, HookGo, rows, provider, ChargeInv, TypeOK, OnceInv,
     AskOnce, Taken
<1>3. HookOnce'
  BY DEF HookAttach, HookAtStage, Name, HookGo, May, ChargeInv, TypeOK,
     OnceInv, HookOnce, Careful
<1>4. /\ \A u \in Tabs : TabOnce(u)'
      /\ ReviewOnce'
  BY DEF HookAttach, HookAtStage, provider, ChargeInv, ReviewOK, OnceInv,
     TabOnce, HookOnce, ReviewOnce
<1> QED
  BY <1>1, <1>2, <1>3, <1>4 DEF OnceInv

\* A settled row is still active.
LEMMA HookSettleKeepsOnce ==
  ASSUME Careful, ChargeInv, OnceInv, HookSettle
  PROVE  OnceInv'
<1>1. LiveOK'
  BY DEF HookSettle, SettleCombined, Active, rows, HookGo, provider, ChargeInv,
     TypeOK, OnceInv, LiveOK, Live, Taken, BeingConfirmed, TabIs, TabRow
<1>2. AskOnce'
  BY DEF HookSettle, SettleCombined, rows, HookGo, provider, ChargeInv, TypeOK,
     OnceInv, AskOnce, Taken
<1>3. HookOnce'
  BY DEF HookSettle, HookAtStage, SettleCombined, rows, HookGo, ChargeInv,
     TypeOK, HookOK, OnceInv, HookOnce
<1>4. ReviewOnce'
  BY DEF HookSettle, HookAtStage, ChargeInv, ReviewOK, OnceInv, HookOnce,
     ReviewOnce
<1>5. \A u \in Tabs : TabOnce(u)'
  BY DEF HookSettle, provider, OnceInv, TabOnce
<1> QED
  BY <1>1, <1>2, <1>3, <1>4, <1>5 DEF OnceInv

\* The hook asks the buyer only when its row is named and takes no money.
LEMMA HookFallbackKeepsOnce ==
  ASSUME Careful, ChargeInv, OnceInv, HookFallback
  PROVE  OnceInv'
<1>1. LiveOK'
  BY DEF HookFallback, HookGo, rows, provider, Active, OnceInv, LiveOK, Live,
     Taken, BeingConfirmed, TabIs, TabRow
<1>2. AskOnce'
  BY DEF HookFallback, HookGo, rows, provider, OnceInv, AskOnce, Taken
<1>3. HookOnce'
  BY DEF HookFallback, HookAtStage, HookGo, InFlight, Pending, rows, provider,
     Active, OnceInv, LiveOK, HookOnce, Live, Taken
<1>4. /\ \A u \in Tabs : TabOnce(u)'
      /\ ReviewOnce'
  BY DEF HookFallback, HookAtStage, provider, ChargeInv, ReviewOK, OnceInv,
     TabOnce, HookOnce, ReviewOnce
<1> QED
  BY <1>1, <1>2, <1>3, <1>4 DEF OnceInv

\* The buyer is asked when the hook's intent takes no money.
LEMMA HookRouteKeepsOnce ==
  ASSUME Careful, ChargeInv, OnceInv, HookRoute
  PROVE  OnceInv'
<1>1. LiveOK'
  BY DEF HookRoute, HookGo, rows, provider, Active, OnceInv, LiveOK, Live,
     Taken, BeingConfirmed, TabIs, TabRow
<1>2. AskOnce'
  BY DEF HookRoute, HookAtStage, MarkFailed, HookGo, provider, OnceInv,
     AskOnce, HookOnce, Taken
<1>3. HookOnce'
  BY DEF HookRoute, HookAtStage, HookGo, rows, OnceInv, HookOnce
<1>4. ReviewOnce'
  BY DEF HookRoute, HookAtStage, ChargeInv, ReviewOK, OnceInv, HookOnce,
     ReviewOnce
<1>5. \A u \in Tabs : TabOnce(u)'
  BY DEF HookRoute, provider, OnceInv, TabOnce
<1> QED
  BY <1>1, <1>2, <1>3, <1>4, <1>5 DEF OnceInv

\* A stopped hook asks nothing more.
LEMMA HookDiesKeepsOnce ==
  ASSUME Careful, ChargeInv, OnceInv, HookDies
  PROVE  OnceInv'
<1>1. LiveOK'
  BY DEF HookDies, HookGo, rows, provider, Active, OnceInv, LiveOK, Live,
     Taken, BeingConfirmed, TabIs, TabRow
<1>2. AskOnce'
  BY DEF HookDies, HookGo, rows, provider, OnceInv, AskOnce, Taken
<1>3. HookOnce'
  BY DEF HookDies, HookAtStage, HookGo, rows, OnceInv, HookOnce
<1>4. /\ \A u \in Tabs : TabOnce(u)'
      /\ ReviewOnce'
  BY DEF HookDies, HookAtStage, provider, ChargeInv, ReviewOK, OnceInv,
     TabOnce, HookOnce, ReviewOnce
<1> QED
  BY <1>1, <1>2, <1>3, <1>4 DEF OnceInv

\* Pay Now changes no row.
LEMMA PressKeepsOnce ==
  ASSUME Careful, ChargeInv, OnceInv, NEW t \in Tabs, Press(t)
  PROVE  OnceInv'
<1>1. LiveOK'
  BY DEF Press, TabIs, TabGo, rows, provider, ChargeInv, TypeOK, Active,
     OnceInv, LiveOK, HookOnce, Live, Taken, BeingConfirmed, TabRow
<1>2. ASSUME NEW u \in Tabs
      PROVE  TabOnce(u)'
  BY DEF Press, TabGo, provider, ChargeInv, TypeOK, TabsApart, OnceInv,
     TabOnce, AskOnce, ReviewOnce, BeingConfirmed
<1>3. AskOnce'
  BY DEF Press, May, provider, OnceInv, AskOnce, Taken, Careful
<1>4. HookOnce' /\ ReviewOnce'
  BY DEF Press, Pending, rows, provider, OnceInv, HookOnce, ReviewOnce, Taken
<1> QED
  BY <1>1, <1>2, <1>3, <1>4 DEF OnceInv

\* A request retires only what it has seen canceled.
LEMMA InspectKeepsOnce ==
  ASSUME Careful, ChargeInv, OnceInv, NEW t \in Tabs, Inspect(t)
  PROVE  OnceInv'
<1>1. LiveOK'
  BY ChargeAssumption
     DEF Inspect, TabRow, TabIs, TabGo, TabEnds, NoTab, rows, provider,
        ChargeInv, TypeOK, RowsOK, HookOK, TabOK, TabsApart, ReviewOK,
        PaidMeansCharged, Making, Active, Pending, OnceInv, LiveOK, TabOnce,
        AskOnce, HookOnce, ReviewOnce, Live, Taken, BeingConfirmed
<1>2. ASSUME NEW u \in Tabs
      PROVE  TabOnce(u)'
  BY DEF Inspect, May, Careful, TabGo, TabEnds, NoTab, provider, ChargeInv,
     TypeOK, Making, OnceInv, TabOnce, AskOnce, HookOnce, ReviewOnce
<1>3. AskOnce'
  BY DEF Inspect, TabIs, provider, OnceInv, AskOnce, Taken
<1>4. HookOnce' /\ ReviewOnce'
  BY DEF Inspect, rows, provider, Pending, OnceInv, HookOnce, ReviewOnce, Taken
<1> QED
  BY <1>1, <1>2, <1>3, <1>4 DEF OnceInv

\* The row's intent is canceled, and stays so.
LEMMA CancelKeepsOnce ==
  ASSUME Careful, ChargeInv, OnceInv, NEW t \in Tabs, Cancel(t)
  PROVE  OnceInv'
<1>1. LiveOK'
  BY DEF Cancel, TabRow, TabIs, Became, TabGo, TabEnds, NoTab, rows, ChargeInv,
     TypeOK, PaidMeansCharged, Active, OnceInv, LiveOK, TabOnce, Live, Taken,
     BeingConfirmed
<1>2. ASSUME NEW u \in Tabs
      PROVE  TabOnce(u)'
  BY DEF Cancel, TabRow, TabIs, Became, TabGo, TabEnds, NoTab, ChargeInv,
     TypeOK, TabOK, OnceInv, TabOnce
<1>3. AskOnce'
  BY DEF Cancel, TabIs, Became, ChargeInv, TypeOK, OnceInv, AskOnce, Taken
<1>4. HookOnce'
  BY DEF Cancel, Became, rows, ChargeInv, TypeOK, HookOK, Pending, OnceInv,
     HookOnce, Taken
<1>5. ReviewOnce'
  BY DEF Cancel, Became, rows, ChargeInv, TypeOK, ReviewOK, Pending, OnceInv,
     ReviewOnce, Taken
<1> QED
  BY <1>1, <1>2, <1>3, <1>4, <1>5 DEF OnceInv

\* The retired row's intent was canceled: it is not live.
LEMMA RetireKeepsOnce ==
  ASSUME Careful, ChargeInv, OnceInv, NEW t \in Tabs, Retire(t)
  PROVE  OnceInv'
<1>1. LiveOK'
  BY DEF Retire, TabIs, Fail, Failing, TabRow, TabGo, provider, Active,
     OnceInv, LiveOK, TabOnce, Live, Taken, BeingConfirmed
<1>2. ASSUME NEW u \in Tabs
      PROVE  TabOnce(u)'
  BY DEF Retire, TabGo, provider, OnceInv, TabOnce
<1>3. AskOnce'
  BY DEF Retire, TabIs, provider, OnceInv, AskOnce, Taken
<1>4. HookOnce'
  BY DEF Retire, TabIs, Fail, Failing, Pending, TabRow, provider, ChargeInv,
     TypeOK, RowsOK, HookOK, OnceInv, TabOnce, HookOnce, Taken
<1>5. ReviewOnce'
  BY DEF Retire, TabIs, Fail, Failing, Pending, TabRow, provider, ChargeInv,
     TypeOK, ReviewOK, OnceInv, TabOnce, ReviewOnce, Taken
<1> QED
  BY <1>1, <1>2, <1>3, <1>4, <1>5 DEF OnceInv

\* The new row has no intent; a row that loses its slot had none.
LEMMA BeginKeepsOnce ==
  ASSUME Careful, ChargeInv, OnceInv, NEW t \in Tabs, Begin(t)
  PROVE  OnceInv'
<1>1. LiveOK'
  BY BeginKeepsLive
<1>2. ASSUME NEW u \in Tabs
      PROVE  TabOnce(u)'
  BY DEF Begin, TabGo, provider, OnceInv, TabOnce
<1>3. AskOnce'
  BY DEF Begin, TabIs, provider, OnceInv, AskOnce, Taken
<1>4. HookOnce'
  BY DEF Begin, TabIs, Insert, SlotFree, Pending, provider, ChargeInv, TypeOK,
     RowsOK, HookOK, OnceInv, AskOnce, HookOnce, Taken
<1>5. ReviewOnce'
  BY DEF Begin, TabIs, Insert, SlotFree, Pending, provider, ChargeInv, TypeOK,
     RowsOK, HookOK, ReviewOK, OnceInv, AskOnce, ReviewOnce, Taken
<1> QED
  BY <1>1, <1>2, <1>3, <1>4, <1>5 DEF OnceInv

\* A request creates an open intent, which nobody confirms yet.
LEMMA CreateKeepsOnce ==
  ASSUME Careful, ChargeInv, OnceInv, NEW t \in Tabs, Create(t)
  PROVE  OnceInv'
<1>1. LiveOK'
  BY DEF Create, TabRow, TabIs, Became, TabGo, rows, ChargeInv, TypeOK, TabOK,
     Making, Active, OnceInv, LiveOK, TabOnce, Live, Taken, BeingConfirmed
<1>2. ASSUME NEW u \in Tabs
      PROVE  TabOnce(u)'
  BY ChargeAssumption
     DEF Create, TabRow, TabIs, Became, TabGo, ChargeInv, TypeOK, HookOK,
        TabOK, ReviewOK, PaidMeansCharged, OnceInv, TabOnce, BeingConfirmed
<1>3. AskOnce'
  BY DEF Create, TabIs, Became, ChargeInv, TypeOK, OnceInv, AskOnce, Taken
<1>4. HookOnce'
  BY DEF Create, TabRow, TabIs, Became, rows, ChargeInv, TypeOK, HookOK, TabOK,
     Making, Pending, OnceInv, HookOnce, Taken
<1>5. ReviewOnce'
  BY DEF Create, Became, rows, ChargeInv, TypeOK, ReviewOK, Pending, OnceInv,
     ReviewOnce, Taken
<1> QED
  BY <1>1, <1>2, <1>3, <1>4, <1>5 DEF OnceInv

\* The released row has no intent.
LEMMA ReleaseKeepsOnce ==
  ASSUME Careful, ChargeInv, OnceInv, NEW t \in Tabs, Release(t)
  PROVE  OnceInv'
<1>1. LiveOK'
  BY DEF Release, TabRow, TabIs, rows, Fail, Failing, TabEnds, NoTab, provider,
     ChargeInv, TabOK, Making, Active, OnceInv, LiveOK, Live, Taken,
     BeingConfirmed
<1>2. ASSUME NEW u \in Tabs
      PROVE  TabOnce(u)'
  BY DEF Release, TabEnds, NoTab, provider, OnceInv, TabOnce
<1>3. AskOnce'
  BY DEF Release, TabIs, provider, OnceInv, AskOnce, Taken
<1>4. HookOnce'
  BY DEF Release, TabRow, TabIs, rows, Fail, Failing, Pending, provider,
     ChargeInv, TypeOK, RowsOK, HookOK, TabOK, Making, OnceInv, HookOnce, Taken
<1>5. ReviewOnce'
  BY DEF Release, TabRow, TabIs, rows, Fail, Failing, Pending, provider,
     ChargeInv, TypeOK, RowsOK, TabOK, ReviewOK, Making, OnceInv, ReviewOnce,
     Taken
<1> QED
  BY <1>1, <1>2, <1>3, <1>4, <1>5 DEF OnceInv

\* Naming a row makes its intent no more live.
LEMMA RecordKeepsOnce ==
  ASSUME Careful, ChargeInv, OnceInv, NEW t \in Tabs, Record(t)
  PROVE  OnceInv'
<1>1. LiveOK'
  BY DEF Record, TabIs, Name, TabRow, TabEnds, NoTab, provider, Active,
     OnceInv, LiveOK, Live, Taken, BeingConfirmed
<1>2. ASSUME NEW u \in Tabs
      PROVE  TabOnce(u)'
  BY DEF Record, TabEnds, NoTab, provider, OnceInv, TabOnce
<1>3. AskOnce'
  BY DEF Record, TabIs, provider, OnceInv, AskOnce, Taken
<1>4. HookOnce'
  BY DEF Record, TabIs, Name, TabRow, provider, ChargeInv, TabOK, Making,
     Pending, OnceInv, HookOnce, Taken
<1>5. ReviewOnce'
  BY DEF Record, Name, provider, Pending, OnceInv, ReviewOnce, Taken
<1> QED
  BY <1>1, <1>2, <1>3, <1>4, <1>5 DEF OnceInv

\* A card is posted for an active row, and for no row at two tabs.
LEMMA SubmitKeepsOnce ==
  ASSUME Careful, ChargeInv, OnceInv, NEW t \in Tabs, NEW p \in Rows, Submit(t, p)
  PROVE  OnceInv'
<1>1. LiveOK'
  BY DEF Submit, TabIs, Pending, May, BeingConfirmed, TabRow, TabGo, rows,
     provider, ChargeInv, TypeOK, PaidMeansCharged, Active, OnceInv, LiveOK,
     Live, Taken, Careful
<1>2. ASSUME NEW u \in Tabs
      PROVE  TabOnce(u)'
  BY DEF Submit, TabIs, May, BeingConfirmed, TabRow, TabGo, provider,
     ChargeInv, TypeOK, TabsApart, Active, OnceInv, TabOnce, Careful
<1>3. AskOnce'
  BY DEF Submit, Pending, May, Careful, provider, OnceInv, AskOnce, Taken
<1>4. HookOnce' /\ ReviewOnce'
  BY DEF Submit, Pending, rows, provider, OnceInv, HookOnce, ReviewOnce, Taken
<1> QED
  BY <1>1, <1>2, <1>3, <1>4 DEF OnceInv

\* The confirmed intent was live: its row is active and named.
LEMMA ConfirmKeepsOnce ==
  ASSUME Careful, ChargeInv, OnceInv, NEW t \in Tabs, Confirm(t)
  PROVE  OnceInv'
<1>1. LiveOK'
  BY DEF Confirm, TabRow, TabIs, Became, TabGo, TabEnds, NoTab, rows,
     ChargeInv, TypeOK, TabOK, ReviewOK, Active, OnceInv, LiveOK, TabOnce,
     Live, Taken, BeingConfirmed
<1>2. ASSUME NEW u \in Tabs
      PROVE  TabOnce(u)'
  BY DEF Confirm, TabRow, TabIs, Became, TabGo, TabEnds, NoTab, ChargeInv,
     TypeOK, HookOK, TabOK, OnceInv, TabOnce
<1>3. AskOnce'
  BY DEF Confirm, TabRow, TabIs, Became, ChargeInv, TypeOK, TabOK, May, Careful, OnceInv,
     AskOnce, Taken
<1>4. HookOnce'
  BY DEF Confirm, TabRow, TabIs, Became, rows, ChargeInv, TypeOK, HookOK,
     TabOK, May, Careful, Pending, OnceInv, HookOnce, Taken
<1>5. ReviewOnce'
  BY DEF Confirm, TabRow, TabIs, Became, rows, ChargeInv, TypeOK, RowsOK,
     TabOK, May, Careful, ReviewOK, Pending, OnceInv, ReviewOnce, Taken
<1> QED
  BY <1>1, <1>2, <1>3, <1>4, <1>5 DEF OnceInv

\* A settled row is still active.
LEMMA FinalizeKeepsOnce ==
  ASSUME Careful, ChargeInv, OnceInv, NEW t \in Tabs, Finalize(t)
  PROVE  OnceInv'
<1>1. LiveOK'
  BY DEF Finalize, TabIs, SettleCombined, Active, rows, TabRow, TabEnds, NoTab,
     provider, ChargeInv, TypeOK, OnceInv, LiveOK, Live, Taken, BeingConfirmed
<1>2. ASSUME NEW u \in Tabs
      PROVE  TabOnce(u)'
  BY DEF Finalize, TabEnds, NoTab, provider, OnceInv, TabOnce
<1>3. AskOnce'
  BY DEF Finalize, TabIs, SettleCombined, provider, OnceInv, AskOnce, Taken
<1>4. HookOnce'
  BY DEF Finalize, TabIs, SettleCombined, rows, provider, ChargeInv, TypeOK,
     RowsOK, HookOK, Pending, OnceInv, AskOnce, HookOnce, Taken
<1>5. ReviewOnce'
  BY DEF Finalize, TabIs, SettleCombined, Settles, Active, rows, TabRow,
     provider, ChargeInv, TypeOK, TabOK, ReviewOK, Pending, OnceInv,
     ReviewOnce, Taken
<1> QED
  BY <1>1, <1>2, <1>3, <1>4, <1>5 DEF OnceInv

\* A request that ends confirms nothing.
LEMMA GiveUpKeepsOnce ==
  ASSUME Careful, ChargeInv, OnceInv, NEW t \in Tabs, GiveUp(t)
  PROVE  OnceInv'
<1>1. LiveOK'
  BY DEF GiveUp, TabIs, TabEnds, NoTab, rows, provider, Active, OnceInv,
     LiveOK, Live, Taken, BeingConfirmed, TabRow
<1>2. ASSUME NEW u \in Tabs
      PROVE  TabOnce(u)'
  BY DEF GiveUp, TabEnds, NoTab, provider, OnceInv, TabOnce
<1>3. AskOnce'
  BY DEF GiveUp, TabIs, provider, OnceInv, AskOnce, Taken
<1>4. HookOnce' /\ ReviewOnce'
  BY DEF GiveUp, rows, provider, Pending, OnceInv, HookOnce, ReviewOnce, Taken
<1> QED
  BY <1>1, <1>2, <1>3, <1>4 DEF OnceInv

\* Naming a row makes its intent no more live.
LEMMA AttachByEventKeepsOnce ==
  ASSUME Careful, ChargeInv, OnceInv, NEW p \in Rows, AttachByEvent(p)
  PROVE  OnceInv'
<1>1. LiveOK'
  BY DEF AttachByEvent, Name, provider, Active, OnceInv, LiveOK, Live, Taken,
     BeingConfirmed, TabIs, TabRow
<1>2. HookOnce'
  BY DEF AttachByEvent, Name, provider, Pending, OnceInv, HookOnce, Taken
<1>3. /\ \A u \in Tabs : TabOnce(u)'
      /\ AskOnce'
      /\ ReviewOnce'
  BY DEF AttachByEvent, Name, provider, Pending, OnceInv, TabOnce, AskOnce,
     ReviewOnce, Taken
<1> QED
  BY <1>1, <1>2, <1>3 DEF OnceInv

\* A settled row is still active.
LEMMA SettleByEventKeepsOnce ==
  ASSUME Careful, ChargeInv, OnceInv, NEW p \in Rows, SettleByEvent(p)
  PROVE  OnceInv'
<1>1. LiveOK'
  BY DEF SettleByEvent, Active, SettleCombined, provider, ChargeInv, TypeOK,
     OnceInv, LiveOK, Live, Taken, BeingConfirmed, TabIs, TabRow
<1>2. AskOnce'
  BY DEF SettleByEvent, SettleCombined, AskOnce
<1>3. HookOnce'
  BY ChargeAssumption
     DEF SettleByEvent, SettleCombined, provider, ChargeInv, TypeOK, RowsOK,
        HookOK, Pending, OnceInv, AskOnce, HookOnce, Taken
<1>4. ReviewOnce'
  BY DEF SettleByEvent, Settles, Active, SettleCombined, provider, ChargeInv,
     TypeOK, ReviewOK, Pending, OnceInv, ReviewOnce, Taken
<1>5. \A u \in Tabs : TabOnce(u)'
  BY DEF SettleByEvent, provider, OnceInv, TabOnce
<1> QED
  BY <1>1, <1>2, <1>3, <1>4, <1>5 DEF OnceInv

\* The declined row's intent is not live when its event arrives.
LEMMA DeclinedEventKeepsOnce ==
  ASSUME Careful, ChargeInv, OnceInv, NEW p \in Rows, DeclinedEvent(p)
  PROVE  OnceInv'
<1>1. AskOnce'
  BY DeclinedEventKeepsAsk
<1>2. LiveOK'
  BY DEF DeclinedEvent, Fail, Failing, Active, OnceInv, LiveOK, Live, Taken,
     BeingConfirmed, TabIs, TabRow
<1>3. HookOnce'
  BY ChargeAssumption
     DEF DeclinedEvent, Fail, Failing, Pending, ChargeInv, TypeOK, RowsOK,
        HookOK, OnceInv, AskOnce, HookOnce, Taken
<1>4. ReviewOnce'
  BY DEF DeclinedEvent, Fail, Failing, Pending, ChargeInv, TypeOK, RowsOK,
     ReviewOK, OnceInv, LiveOK, AskOnce, ReviewOnce, Taken
<1>5. \A u \in Tabs : TabOnce(u)'
  BY DEF DeclinedEvent, OnceInv, TabOnce
<1> QED
  BY <1>1, <1>2, <1>3, <1>4, <1>5 DEF OnceInv

\* An early decline only forgets the event.
LEMMA DeclinedEventEarlyKeepsOnce ==
  ASSUME Careful, ChargeInv, OnceInv, NEW p \in Rows, DeclinedEventEarly(p)
  PROVE  OnceInv'
<1>1. LiveOK'
  BY DEF DeclinedEventEarly, rows, Active, OnceInv, LiveOK, Live, Taken,
     BeingConfirmed, TabIs, TabRow
<1>2. HookOnce'
  BY DEF DeclinedEventEarly, rows, Pending, OnceInv, HookOnce, Taken
<1>3. /\ \A u \in Tabs : TabOnce(u)'
      /\ AskOnce'
      /\ ReviewOnce'
  BY DEF DeclinedEventEarly, rows, Pending, OnceInv, TabOnce, AskOnce,
     ReviewOnce, Taken
<1> QED
  BY <1>1, <1>2, <1>3 DEF OnceInv

\* The row given up has a canceled intent.
LEMMA CanceledEventKeepsOnce ==
  ASSUME Careful, ChargeInv, OnceInv, NEW p \in Rows, CanceledEvent(p)
  PROVE  OnceInv'
<1>1. LiveOK'
  BY DEF CanceledEvent, Fail, Failing, provider, Active, OnceInv, LiveOK, Live,
     Taken, BeingConfirmed, TabIs, TabRow
<1>2. AskOnce'
  BY DEF CanceledEvent, Pending, Fail, Failing, provider, OnceInv, AskOnce,
     Taken
<1>3. HookOnce'
  BY DEF CanceledEvent, Pending, Fail, Failing, provider, ChargeInv, TypeOK,
     RowsOK, HookOK, OnceInv, HookOnce, Taken
<1>4. ReviewOnce'
  BY DEF CanceledEvent, Pending, Fail, Failing, provider, ChargeInv, TypeOK,
     ReviewOK, OnceInv, ReviewOnce, Taken
<1>5. \A u \in Tabs : TabOnce(u)'
  BY DEF CanceledEvent, provider, OnceInv, TabOnce
<1> QED
  BY <1>1, <1>2, <1>3, <1>4, <1>5 DEF OnceInv

\* A charge under way is taken by now: it succeeds or opens again.
LEMMA ClearKeepsOnce ==
  ASSUME Careful, ChargeInv, OnceInv, NEW p \in Rows, Clear(p)
  PROVE  OnceInv'
<1>1. LiveOK'
  BY DEF Clear, Became, rows, ChargeInv, TypeOK, Active, OnceInv, LiveOK,
     TabOnce, Live, Taken, BeingConfirmed, TabIs, TabRow
<1>2. ASSUME NEW u \in Tabs
      PROVE  TabOnce(u)'
  BY DEF Clear, Became, ChargeInv, TypeOK, TabOK, OnceInv, TabOnce
<1>3. AskOnce'
  BY DEF Clear, Became, rows, ChargeInv, TypeOK, OnceInv, AskOnce, Taken
<1>4. HookOnce'
  BY DEF Clear, Became, rows, ChargeInv, TypeOK, HookOK, Pending, OnceInv,
     HookOnce, Taken
<1>5. ReviewOnce'
  BY DEF Clear, Became, rows, ChargeInv, TypeOK, ReviewOK, Pending, OnceInv,
     ReviewOnce, Taken
<1> QED
  BY <1>1, <1>2, <1>3, <1>4, <1>5 DEF OnceInv

\* Nothing depends on a row's age.
LEMMA AgeKeepsOnce ==
  ASSUME Careful, ChargeInv, OnceInv, NEW p \in Rows, Age(p)
  PROVE  OnceInv'
<1>1. /\ LiveOK'
      /\ \A u \in Tabs : TabOnce(u)'
      /\ AskOnce'
      /\ HookOnce'
      /\ ReviewOnce'
  BY DEF Age, Pending, provider, Active, OnceInv, LiveOK, TabOnce, AskOnce,
     HookOnce, ReviewOnce, Live, Taken, BeingConfirmed, TabIs, TabRow
<1> QED
  BY <1>1 DEF OnceInv

\* The reconciler picks an uncertain row, whose hook is done.
LEMMA PickKeepsOnce ==
  ASSUME Careful, ChargeInv, OnceInv, NEW p \in Rows, Pick(p)
  PROVE  OnceInv'
<1>1. ReviewOnce'
  BY DEF Pick, Pending, rows, ChargeInv, RowsOK, OnceInv, HookOnce, ReviewOnce
<1>2. /\ LiveOK'
      /\ \A u \in Tabs : TabOnce(u)'
      /\ AskOnce'
      /\ HookOnce'
  BY DEF Pick, rows, provider, ChargeInv, RowsOK, Active, OnceInv, LiveOK,
     TabOnce, AskOnce, HookOnce, Live, Taken, BeingConfirmed, TabIs
<1> QED
  BY <1>1, <1>2 DEF OnceInv

\* A request repeated before the buyer was asked meets no other attempt.
LEMMA RepeatKeepsOnce ==
  ASSUME Careful, ChargeInv, OnceInv, Repeat
  PROVE  OnceInv'
<1>1. LiveOK'
  BY DEF Repeat, ReviewIs, OffSession, Became, rows, ChargeInv, TypeOK, RowsOK,
     TabOK, May, Careful, ReviewOK, Active, Pending, OnceInv, LiveOK, ReviewOnce, Live,
     Taken, BeingConfirmed, TabIs, TabRow
<1>2. ASSUME NEW u \in Tabs
      PROVE  TabOnce(u)'
  BY DEF Repeat, OffSession, Became, OnceInv, TabOnce
<1>3. AskOnce'
  BY DEF Repeat, ReviewIs, OffSession, Became, rows, OnceInv, AskOnce,
     ReviewOnce, Taken
<1>4. HookOnce'
  BY DEF Repeat, ReviewIs, rows, ChargeInv, ReviewOK, Pending, OnceInv,
     HookOnce
<1>5. ReviewOnce'
  BY DEF Repeat, OffSession, Became, AnswersFor, ReviewOnce, Taken
<1> QED
  BY <1>1, <1>2, <1>3, <1>4, <1>5 DEF OnceInv

\* So does one whose answer is lost.
LEMMA RepeatLostKeepsOnce ==
  ASSUME Careful, ChargeInv, OnceInv, RepeatLost
  PROVE  OnceInv'
<1>1. LiveOK'
  BY DEF RepeatLost, ReviewIs, OffSession, Became, rows, ChargeInv, TypeOK,
     RowsOK, TabOK, May, Careful, ReviewOK, Active, Pending, OnceInv, LiveOK, ReviewOnce,
     Live, Taken, BeingConfirmed, TabIs, TabRow
<1>2. ASSUME NEW u \in Tabs
      PROVE  TabOnce(u)'
  BY DEF RepeatLost, OffSession, Became, OnceInv, TabOnce
<1>3. AskOnce'
  BY DEF RepeatLost, ReviewIs, OffSession, Became, rows, OnceInv, AskOnce,
     ReviewOnce, Taken
<1>4. HookOnce'
  BY DEF RepeatLost, ReviewIs, rows, ChargeInv, ReviewOK, Pending, OnceInv,
     HookOnce
<1>5. ReviewOnce'
  BY DEF RepeatLost, NoJob, ReviewOnce
<1> QED
  BY <1>1, <1>2, <1>3, <1>4, <1>5 DEF OnceInv

\* The reconciler gives up only what it has seen take no money.
LEMMA SearchKeepsOnce ==
  ASSUME Careful, ChargeInv, OnceInv, Search
  PROVE  OnceInv'
<1>1. ReviewOnce'
  BY DEF Search, provider, ReviewOnce, Taken
<1>2. /\ LiveOK'
      /\ \A u \in Tabs : TabOnce(u)'
      /\ AskOnce'
      /\ HookOnce'
  BY DEF Search, rows, provider, Active, Pending, OnceInv, LiveOK, TabOnce,
     AskOnce, HookOnce, Live, Taken, BeingConfirmed, TabIs, TabRow
<1> QED
  BY <1>1, <1>2 DEF OnceInv

\* The reconciler gives up no intent that takes money.
LEMMA ReviewAttachKeepsOnce ==
  ASSUME Careful, ChargeInv, OnceInv, ReviewAttach
  PROVE  OnceInv'
<1>1. LiveOK'
  BY DEF ReviewAttach, Name, provider, Active, OnceInv, LiveOK, Live, Taken,
     BeingConfirmed, TabIs, TabRow
<1>2. HookOnce'
  BY DEF ReviewAttach, ReviewIs, Name, ChargeInv, RowsOK, ReviewOK, OnceInv,
     HookOnce
<1>3. ReviewOnce'
  BY DEF ReviewAttach, ReviewIs, ReviewGo, NoJob, provider, ChargeInv, TypeOK,
     OnceInv, ReviewOnce, Taken
<1>4. /\ \A u \in Tabs : TabOnce(u)'
      /\ AskOnce'
  BY DEF ReviewAttach, Name, provider, OnceInv, TabOnce, AskOnce, Taken
<1> QED
  BY <1>1, <1>2, <1>3, <1>4 DEF OnceInv

\* A settled row is still active.
LEMMA ReviewSettleKeepsOnce ==
  ASSUME Careful, ChargeInv, OnceInv, ReviewSettle
  PROVE  OnceInv'
<1>1. LiveOK'
  BY DEF ReviewSettle, SettleCombined, Active, rows, provider, ChargeInv,
     TypeOK, OnceInv, LiveOK, Live, Taken, BeingConfirmed, TabIs, TabRow
<1>2. AskOnce'
  BY DEF ReviewSettle, SettleCombined, rows, provider, OnceInv, AskOnce, Taken
<1>3. HookOnce'
  BY DEF ReviewSettle, ReviewIs, SettleCombined, rows, ChargeInv, RowsOK,
     ReviewOK, OnceInv, HookOnce
<1>4. ReviewOnce'
  BY DEF ReviewSettle, NoJob, ReviewOnce
<1>5. \A u \in Tabs : TabOnce(u)'
  BY DEF ReviewSettle, provider, OnceInv, TabOnce
<1> QED
  BY <1>1, <1>2, <1>3, <1>4, <1>5 DEF OnceInv

\* The row given up takes no money.
LEMMA ReviewFailKeepsOnce ==
  ASSUME Careful, ChargeInv, OnceInv, ReviewFail
  PROVE  OnceInv'
<1>1. LiveOK'
  BY DEF ReviewFail, ReviewIs, FailNaming, Failing, provider, ChargeInv,
     RowsOK, TabOK, May, Careful, ReviewOK, Active, OnceInv, LiveOK, ReviewOnce, Live, Taken,
     BeingConfirmed, TabIs, TabRow
<1>2. AskOnce'
  BY DEF ReviewFail, FailNaming, Failing, Pending, provider, OnceInv, AskOnce,
     Taken
<1>3. HookOnce'
  BY DEF ReviewFail, ReviewIs, FailNaming, Failing, Pending, ChargeInv, TypeOK,
     RowsOK, ReviewOK, OnceInv, HookOnce
<1>4. ReviewOnce'
  BY DEF ReviewFail, ReviewIs, FailNaming, Failing, Pending, ReviewGo,
     provider, ChargeInv, TypeOK, ReviewOK, OnceInv, ReviewOnce, Taken
<1>5. \A u \in Tabs : TabOnce(u)'
  BY DEF ReviewFail, provider, OnceInv, TabOnce
<1> QED
  BY <1>1, <1>2, <1>3, <1>4, <1>5 DEF OnceInv

\* The buyer is asked when the hook's intent takes no money.
LEMMA ReviewRouteKeepsOnce ==
  ASSUME Careful, ChargeInv, OnceInv, ReviewRoute
  PROVE  OnceInv'
<1>1. AskOnce'
  BY DEF ReviewRoute, ReviewIs, MarkFailed, provider, ChargeInv, RowsOK,
     ReviewOK, OnceInv, AskOnce, ReviewOnce, Taken
<1>2. HookOnce'
  BY DEF ReviewRoute, ReviewIs, rows, ChargeInv, RowsOK, ReviewOK, Pending,
     OnceInv, HookOnce, ReviewOnce
<1>3. ReviewOnce'
  BY DEF ReviewRoute, NoJob, ReviewOnce
<1>4. /\ LiveOK'
      /\ \A u \in Tabs : TabOnce(u)'
  BY DEF ReviewRoute, rows, provider, Active, OnceInv, LiveOK, TabOnce, Live,
     Taken, BeingConfirmed, TabIs, TabRow
<1> QED
  BY <1>1, <1>2, <1>3, <1>4 DEF OnceInv

\* A stopped reconciler asks nothing more.
LEMMA ReviewDiesKeepsOnce ==
  ASSUME Careful, ChargeInv, OnceInv, ReviewDies
  PROVE  OnceInv'
<1>1. ReviewOnce'
  BY DEF ReviewDies, NoJob, ReviewOnce
<1>2. /\ LiveOK'
      /\ \A u \in Tabs : TabOnce(u)'
      /\ AskOnce'
      /\ HookOnce'
  BY DEF ReviewDies, rows, provider, Active, Pending, OnceInv, LiveOK, TabOnce,
     AskOnce, HookOnce, Live, Taken, BeingConfirmed, TabIs, TabRow
<1> QED
  BY <1>1, <1>2 DEF OnceInv

-----------------------------------------------------------------------------
(* The theorems. *)

\* Nothing has started, nobody was asked.
LEMMA OnceInvInit ==
  ASSUME Init
  PROVE  OnceInv
<1>1. LiveOK /\ AskOnce
  BY ChargeAssumption DEF Init, LiveOK, Live, Taken, AskOnce, NoTab
<1>2. HookOnce /\ ReviewOnce /\ \A t \in Tabs : TabOnce(t)
  BY ChargeAssumption DEF Init, HookOnce, ReviewOnce, TabOnce, NoTab, NoJob
<1> QED
  BY <1>1, <1>2 DEF OnceInv

\* A stuttering step keeps the invariant.
LEMMA OnceInvStutters ==
  ASSUME OnceInv, UNCHANGED vars
  PROVE  OnceInv'
<1> QED
  BY DEF vars, rows, provider, OnceInv, LiveOK, Live, Taken, BeingConfirmed,
         TabIs, TabRow, Active, Pending, TabOnce, AskOnce, HookOnce, ReviewOnce

\* The invariant is inductive: one lemma for each action.
LEMMA OnceInvStep ==
  ASSUME Careful, ChargeInv, OnceInv, [Next]_vars
  PROVE  OnceInv'
<1>1. CASE HookSteps
  BY <1>1, HookInsertKeepsOnce, HookChargeKeepsOnce, HookNoteKeepsOnce,
     HookDeclineKeepsOnce, HookAttachKeepsOnce, HookSettleKeepsOnce,
     HookFallbackKeepsOnce, HookRouteKeepsOnce
     DEF HookSteps
<1>2. CASE HookDies
  BY <1>2, HookDiesKeepsOnce
<1>3. ASSUME NEW t \in Tabs, TabSteps(t)
      PROVE  OnceInv'
  BY <1>3, PressKeepsOnce, InspectKeepsOnce, CancelKeepsOnce, RetireKeepsOnce,
     BeginKeepsOnce, CreateKeepsOnce, ReleaseKeepsOnce, RecordKeepsOnce,
     SubmitKeepsOnce, ConfirmKeepsOnce, FinalizeKeepsOnce, GiveUpKeepsOnce
     DEF TabSteps
<1>4. ASSUME NEW p \in Rows, Events(p)
      PROVE  OnceInv'
  BY <1>4, AttachByEventKeepsOnce, SettleByEventKeepsOnce,
     DeclinedEventKeepsOnce, CanceledEventKeepsOnce
     DEF Events
<1>5. ASSUME NEW p \in Rows,
             DeclinedEventEarly(p) \/ Clear(p) \/ Age(p) \/ Pick(p)
      PROVE  OnceInv'
  BY <1>5, DeclinedEventEarlyKeepsOnce, ClearKeepsOnce, AgeKeepsOnce,
     PickKeepsOnce
<1>6. CASE ReviewSteps
  BY <1>6, RepeatKeepsOnce, RepeatLostKeepsOnce, SearchKeepsOnce,
     ReviewAttachKeepsOnce, ReviewSettleKeepsOnce, ReviewFailKeepsOnce,
     ReviewRouteKeepsOnce
     DEF ReviewSteps
<1>7. CASE ReviewDies
  BY <1>7, ReviewDiesKeepsOnce
<1>8. CASE UNCHANGED vars
  BY <1>8, OnceInvStutters
<1> QED
  BY <1>1, <1>2, <1>3, <1>4, <1>5, <1>6, <1>7, <1>8 DEF Next

\* The invariant holds in every state, for a careful hook and patient buyers.
THEOREM OnceInvAlways == ASSUME Careful PROVE Spec => [](ChargeInv /\ OnceInv)
<1>1. Init => ChargeInv /\ OnceInv
  BY ChargeInvInit, OnceInvInit
<1>2. ChargeInv /\ OnceInv /\ [Next]_vars => (ChargeInv /\ OnceInv)'
  BY ChargeInvStep, OnceInvStep
<1> QED
  BY <1>1, <1>2, PTL DEF Spec

\* Two intents that took money would belong to two active rows.
LEMMA OneIsCharged ==
  ASSUME ChargeInv, OnceInv
  PROVE  NeverBothPaid
<1> QED
  BY DEF NeverBothPaid, OnceInv, LiveOK, Live, Taken, ChargeInv, RowsOK

\* "Two open PaymentIntents can never both be paid", when nobody is hasty and
\* the hook records its intent.
THEOREM AtMostOneCharge == ASSUME Careful PROVE Spec => []NeverBothPaid
<1>1. ChargeInv /\ OnceInv => NeverBothPaid
  BY OneIsCharged
<1> QED
  BY <1>1, OnceInvAlways, PTL

\* A step writes the header or asks the provider, never both; money taken is
\* not given back.
LEMMA HeaderOrProvider ==
  ASSUME ChargeInv, [Next]_vars
  PROVE  /\ header' = header \/ (intent' = intent /\ hook'.row = hook.row)
         /\ \A p \in Rows : intent[p] = "succeeded" => intent'[p] = "succeeded"
<1> DEFINE Apart == header' = header \/ (intent' = intent /\ hook'.row = hook.row)
           Kept  == \A q \in Rows : intent[q] = "succeeded" => intent'[q] = "succeeded"
<1>1. /\ intent \in [Rows -> Intents]
      /\ hook \in [at : HookAt, row : Rows \cup {NoRow}, answer : Answers]
  BY DEF ChargeInv, TypeOK
<1>2. ASSUME NEW p \in Rows, NEW state, intent[p] # "succeeded", Became(p, state)
      PROVE  Kept
  BY <1>1, <1>2 DEF Became
<1>3. ASSUME NEW p \in Rows, NEW answer, OffSession(p, answer)
      PROVE  Kept
  BY <1>3, OffSessionTypes DEF ChargeInv
<1>4. CASE HookSteps \/ HookDies
  <2>1. HookInsert \/ HookNote \/ HookDecline \/ HookAttach \/ HookFallback \/ HookDies
          => Apart /\ Kept
    BY DEF HookInsert, HookNote, HookDecline, HookAttach, HookFallback,
       HookDies, provider
  <2>2. HookCharge => Apart /\ Kept
    BY <1>3 DEF HookCharge, HookAtStage, ChargeInv, HookOK
  <2>3. HookSettle \/ HookRoute => Apart /\ Kept
    BY <1>1 DEF HookSettle, HookRoute, HookGo, provider
  <2> QED
    BY <1>4, <2>1, <2>2, <2>3 DEF HookSteps
<1>5. ASSUME NEW t \in Tabs, TabSteps(t)
      PROVE  Apart /\ Kept
  <2>1. Press(t) \/ Inspect(t) \/ Retire(t) \/ Begin(t) \/ Release(t) \/ Record(t)
          \/ GiveUp(t) => Apart /\ Kept
    BY DEF Press, Inspect, Retire, Begin, Release, Record, GiveUp, provider
  <2>2. Cancel(t) \/ Create(t) \/ Confirm(t) => Apart /\ Kept
    <3>1. tab[t].at \in {"cancel", "create", "confirm"} => TabRow(t) \in Rows
      BY DEF TabRow, ChargeInv, TabOK
    <3>2. tab[t].at = "create" => intent[TabRow(t)] = "none"
      BY DEF TabRow, ChargeInv, TabOK
    <3> QED
      BY <1>1, <1>2, <3>1, <3>2 DEF Cancel, Create, Confirm, TabIs
  <2>3. ASSUME NEW p \in Rows, Submit(t, p)
        PROVE  Apart /\ Kept
    BY <2>3 DEF Submit, provider
  <2>4. Finalize(t) => Apart /\ Kept
    BY DEF Finalize, provider
  <2> QED
    BY <1>5, <2>1, <2>2, <2>3, <2>4 DEF TabSteps
<1>6. ASSUME NEW p \in Rows,
             Events(p) \/ DeclinedEventEarly(p) \/ Clear(p) \/ Age(p) \/ Pick(p)
      PROVE  Apart /\ Kept
  <2>1. AttachByEvent(p) \/ SettleByEvent(p) \/ DeclinedEvent(p) \/ CanceledEvent(p)
          \/ DeclinedEventEarly(p) \/ Age(p) \/ Pick(p) => Apart /\ Kept
    BY DEF AttachByEvent, SettleByEvent, DeclinedEvent, CanceledEvent,
           DeclinedEventEarly, Age, Pick, provider
  <2>2. Clear(p) => Apart /\ Kept
    BY <1>2 DEF Clear
  <2> QED
    BY <1>6, <2>1, <2>2 DEF Events
<1>7. CASE ReviewSteps \/ ReviewDies
  <2>1. Repeat \/ RepeatLost => Apart /\ Kept
    BY <1>3 DEF Repeat, RepeatLost, ReviewIs, ChargeInv, TypeOK, ReviewOK
  <2>2. Search \/ ReviewAttach \/ ReviewSettle \/ ReviewFail \/ ReviewRoute
          \/ ReviewDies => Apart /\ Kept
    BY DEF Search, ReviewAttach, ReviewSettle, ReviewFail, ReviewRoute,
       ReviewDies, provider
  <2> QED
    BY <1>7, <2>1, <2>2 DEF ReviewSteps
<1>8. CASE UNCHANGED vars
  BY <1>8 DEF vars, provider
<1> QED
  BY <1>4, <1>5, <1>6, <1>7, <1>8 DEF Next

\* "Never tell the buyer to pay again on a guess": when the invoice is routed
\* to the buyer only the hook's row can have an intent, and it is not charged.
LEMMA NobodyAskedOnAGuess ==
  ASSUME ChargeInv, OnceInv, OnceInv', [Next]_vars,
         header = "issued", header' = "payment_required", NEW p \in Rows
  PROVE  intent[p] \notin {"processing", "succeeded"}
<1>1. intent' = intent /\ hook'.row = hook.row
  BY HeaderOrProvider
<1>2. CASE p = hook.row
  BY <1>1, <1>2 DEF OnceInv, AskOnce, Taken
<1>3. CASE p # hook.row
  BY <1>3 DEF OnceInv, AskOnce, ChargeInv, RowsOK
<1> QED
  BY <1>2, <1>3

THEOREM AskedOnlyWhenUncharged == ASSUME Careful PROVE Spec => NeverAskedOnAGuess
<1>1. (ChargeInv /\ OnceInv) /\ (ChargeInv /\ OnceInv)' /\ [Next]_vars =>
        [header = "issued" /\ header' = "payment_required" =>
           \A p \in Rows : intent[p] \notin {"processing", "succeeded"}]_vars
  BY NobodyAskedOnAGuess
<1> QED
  BY <1>1, OnceInvAlways, PTL DEF Spec, NeverAskedOnAGuess

\* Every step charges the first attempt, settles a charged invoice, or changes
\* nothing of the promise.
LEMMA StepsKeepThePromise ==
  ASSUME ChargeInv, OnceInv, ChargeInv', OnceInv', [Next]_vars
  PROVE  [One!Next]_(One!vars)
<1> DEFINE charged == {p \in Rows : intent[p] = "succeeded"}
<1>1. charged \subseteq charged' /\ (header = "paid" => header' = "paid")
  BY HeaderOrProvider, NoStepUndoesAPayment
<1>2. \A p, q \in charged' : p = q
  BY DEF OnceInv, LiveOK, Live, Taken, ChargeInv, RowsOK
<1>3. header' = header \/ charged' = charged
  BY HeaderOrProvider
<1>4. CASE charged' = charged
  <2>1. header' = "paid" => charged # {}
    BY <1>4 DEF ChargeInv, PaidMeansCharged
  <2> QED
    BY <1>1, <1>4, <2>1 DEF One!Next, One!Settle, One!vars
<1>5. CASE charged' # charged
  <2>1. PICK p \in charged' : p \notin charged
    BY <1>1, <1>5
  <2>2. charged = {} /\ charged' = {p}
    BY <1>1, <1>2, <2>1
  <2> QED
    BY <1>3, <1>5, <2>1, <2>2 DEF One!Next, One!Charge, One!vars
<1> QED
  BY <1>4, <1>5

\* The collection implements OneCharge: one charge at most, and only a charge
\* settles the invoice (that it does settle it is left to the runs).
THEOREM ChargesOnce ==
  ASSUME Careful PROVE Spec => One!Init /\ [][One!Next]_(One!vars)
<1>1. Init => One!Init
  BY DEF Init, One!Init
<1>2. (ChargeInv /\ OnceInv) /\ (ChargeInv /\ OnceInv)' /\ [Next]_vars =>
        [One!Next]_(One!vars)
  BY StepsKeepThePromise
<1> QED
  BY <1>1, <1>2, OnceInvAlways, PTL DEF Spec
=============================================================================
