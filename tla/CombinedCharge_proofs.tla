------------------------ MODULE CombinedCharge_proofs ------------------------
(***************************************************************************)
(* Proofs about CombinedCharge, for any number of rows and requests.       *)
(***************************************************************************)
EXTENDS CombinedCharge, TLAPS

-----------------------------------------------------------------------------
(* The inductive invariant, whatever the mishaps. *)

\* A row that is not there yet has no history; the note on unknown outcomes
\* is about the hook's row; one active row at a time.
RowsOK ==
  /\ \A p \in Rows : status[p] = "none" =>
       p \notin named \cup declines /\ intent[p] = "none"
  /\ \A p \in uncertain : p = hook.row
  /\ \A p, q \in Rows : Active(p) /\ Active(q) => p = q

\* A settlement in progress works on a named row that was charged.
HookOK ==
  /\ hook.at = "insert" => hook.row = NoRow
  /\ hook.row \in Rows => status[hook.row] # "none"
  /\ hook.at \in {"charge", "note", "decline", "attach", "settle"} =>
       hook.row \in Rows
  /\ hook.at = "attach" /\ hook.answer = "succeeded" =>
       intent[hook.row] = "succeeded"
  /\ hook.at = "settle" => hook.row \in named /\ intent[hook.row] = "succeeded"

\* A request in these stages is about to create or record its row's intent.
Making == {"create", "release", "attach"}

\* A request works on a row it has seen; one about to settle, on a charged one.
TabOK(t) ==
  /\ tab[t].at \notin {"idle", "begin"} =>
       tab[t].row \in Rows /\ status[tab[t].row] # "none"
  /\ tab[t].at \in {"inspect", "cancel", "confirm", "settle"} =>
       tab[t].row \in named
  /\ tab[t].at = "settle" => intent[tab[t].row] = "succeeded"
  /\ tab[t].at = "create" => intent[tab[t].row] = "none"
  /\ tab[t].at \in Making => tab[t].row # hook.row
  /\ tab[t].at = "confirm" => tab[t].row # hook.row \/ May("any_page")

\* Two requests never make the same row.
TabsApart ==
  \A s, t \in Tabs : /\ tab[s].at \in Making /\ tab[t].at \in Making
                     /\ tab[s].row = tab[t].row
                  => s = t

\* The reconciler works on an uncertain row; about to settle, on a charged one.
ReviewOK ==
  /\ review.at # "idle" => review.row \in uncertain
  /\ review.at = "attach" /\ review.answer = "succeeded" =>
       intent[review.row] = "succeeded"
  /\ review.at = "settle" =>
       review.row \in named /\ intent[review.row] = "succeeded"

ChargeInv ==
  /\ TypeOK
  /\ PaidMeansCharged
  /\ RowsOK
  /\ HookOK
  /\ \A t \in Tabs : TabOK(t)
  /\ TabsApart
  /\ ReviewOK

-----------------------------------------------------------------------------
(* One lemma for each action: it keeps ChargeInv. *)

\* An off-session request changes one intent, never takes money back, and
\* answers "succeeded" only when it is so.
LEMMA OffSessionTypes ==
  ASSUME TypeOK, NEW p \in Rows, NEW answer, OffSession(p, answer)
  PROVE  /\ intent' \in [Rows -> Intents]
         /\ declines' \subseteq declines \cup {p}
         /\ \A q \in Rows : q # p => intent'[q] = intent[q]
         /\ \A q \in Rows : intent[q] = "succeeded" => intent'[q] = "succeeded"
         /\ answer = "succeeded" => intent'[p] = "succeeded"
<1>1. PICK state \in IF intent[p] = "none"
                       THEN {"none", "open", "processing", "succeeded"}
                       ELSE {intent[p]} :
        /\ Became(p, state)
        /\ declines' = IF intent[p] = "none" /\ state = "open"
                         THEN declines \cup {p} ELSE declines
        /\ answer \in AnswersFor(state) \cup {"lost"}
  BY DEF OffSession
<1>2. state \in Intents
  BY <1>1 DEF TypeOK, Intents
<1>3. answer = "succeeded" => state = "succeeded"
  BY <1>1 DEF AnswersFor
<1> QED
  BY <1>1, <1>2, <1>3 DEF TypeOK, Became

\* The hook starts a row of its own, or none.
LEMMA HookInsertKeeps ==
  ASSUME ChargeInv, HookInsert
  PROVE  ChargeInv'
<1>1. /\ hook \in [at : HookAt, row : Rows \cup {NoRow}, answer : Answers]
      /\ hook.at = "insert"
      /\ UNCHANGED <<header, intent, declines, tab, review, dropped>>
  BY DEF HookInsert, HookAtStage, provider, ChargeInv, TypeOK
<1>2. ASSUME NEW p \in Rows, Insert(p, status),
             hook' = [hook EXCEPT !.at = "charge", !.row = p]
      PROVE  ChargeInv'
  <2>1. hook' = [at |-> "charge", row |-> p, answer |-> hook.answer]
    BY <1>1, <1>2
  <2>2. /\ status[p] = "none" /\ SlotFree(status)
        /\ status' = [status EXCEPT ![p] = "pending"]
        /\ UNCHANGED <<named, uncertain, aged>>
    BY <1>2 DEF Insert
  <2>3. uncertain = {}
    BY <1>1, ChargeAssumption DEF ChargeInv, TypeOK, RowsOK, HookOK
  <2>4. TypeOK'
    BY <1>1, <2>1, <2>2 DEF ChargeInv, TypeOK, HookAt, Statuses
  <2>5. PaidMeansCharged'
    BY <1>1, <2>2 DEF ChargeInv, TypeOK, PaidMeansCharged
  <2>6. RowsOK'
    BY <1>1, <2>1, <2>2, <2>3 DEF SlotFree, ChargeInv, TypeOK, RowsOK, Active
  <2>7. HookOK' /\ ReviewOK'
    BY <1>1, <2>1, <2>2 DEF ChargeInv, TypeOK, HookOK, ReviewOK
  <2>8. ASSUME NEW u \in Tabs PROVE TabOK(u)'
    BY <1>1, <2>1, <2>2 DEF ChargeInv, TypeOK, TabOK, Making
  <2>9. TabsApart'
    BY <1>1 DEF ChargeInv, TabsApart
  <2> QED
    BY <2>4, <2>5, <2>6, <2>7, <2>8, <2>9 DEF ChargeInv
<1>3. ASSUME NEW stage \in {"route", "done", "fallback"}, HookGo(stage),
             UNCHANGED rows
      PROVE  ChargeInv'
  <2>1. hook' = [at |-> stage, row |-> hook.row, answer |-> hook.answer]
    BY <1>1, <1>3 DEF HookGo
  <2>2. UNCHANGED <<status, named, uncertain, aged>>
    BY <1>3 DEF rows
  <2>3. TypeOK'
    BY <1>1, <2>1, <2>2 DEF ChargeInv, TypeOK, HookAt
  <2>4. PaidMeansCharged' /\ ReviewOK' /\ TabsApart'
    BY <1>1, <2>2 DEF ChargeInv, PaidMeansCharged, ReviewOK, TabsApart
  <2>5. RowsOK' /\ HookOK'
    BY <1>1, <2>1, <2>2 DEF ChargeInv, RowsOK, HookOK, Active
  <2>6. ASSUME NEW u \in Tabs PROVE TabOK(u)'
    BY <1>1, <2>1, <2>2 DEF ChargeInv, TabOK
  <2> QED
    BY <2>3, <2>4, <2>5, <2>6 DEF ChargeInv
<1> QED
  BY <1>2, <1>3 DEF HookInsert

\* The hook's row is the only one whose intent may change.
LEMMA HookChargeKeeps ==
  ASSUME ChargeInv, HookCharge
  PROVE  ChargeInv'
<1>1. /\ hook \in [at : HookAt, row : Rows \cup {NoRow}, answer : Answers]
      /\ hook.at = "charge" /\ hook.row \in Rows
      /\ UNCHANGED <<header, status, named, uncertain, aged>>
      /\ UNCHANGED <<tab, review, dropped>>
  BY DEF HookCharge, HookAtStage, ChargeInv, TypeOK, HookOK, rows
<1>2. PICK answer \in {"succeeded", "processing", "declined", "lost"} :
        /\ OffSession(hook.row, answer)
        /\ CASE answer = "lost"     -> HookGo("note")
             [] answer = "declined" -> HookGo("decline")
             [] OTHER ->
                  hook' = [hook EXCEPT !.at = "attach", !.answer = answer]
  BY DEF HookCharge
<1>3. \/ hook' = [at |-> "note", row |-> hook.row, answer |-> hook.answer]
      \/ hook' = [at |-> "decline", row |-> hook.row, answer |-> hook.answer]
      \/ /\ hook' = [at |-> "attach", row |-> hook.row, answer |-> answer]
         /\ answer \in {"succeeded", "processing"}
  BY <1>1, <1>2 DEF HookGo
<1>4. /\ intent' \in [Rows -> Intents]
      /\ declines' \subseteq declines \cup {hook.row}
      /\ \A q \in Rows : q # hook.row => intent'[q] = intent[q]
      /\ \A q \in Rows : intent[q] = "succeeded" => intent'[q] = "succeeded"
      /\ answer = "succeeded" => intent'[hook.row] = "succeeded"
  BY <1>1, <1>2, OffSessionTypes DEF ChargeInv
<1>5. TypeOK'
  BY <1>1, <1>3, <1>4 DEF ChargeInv, TypeOK, HookAt, Answers
<1>6. PaidMeansCharged'
  BY <1>1, <1>4 DEF ChargeInv, PaidMeansCharged
<1>7. RowsOK'
  BY <1>1, <1>3, <1>4 DEF ChargeInv, RowsOK, HookOK, Active
<1>8. HookOK'
  BY <1>1, <1>3, <1>4 DEF ChargeInv, HookOK
<1>9. ReviewOK'
  BY <1>1, <1>4 DEF ChargeInv, TypeOK, ReviewOK
<1>10. ASSUME NEW u \in Tabs PROVE TabOK(u)'
  BY <1>1, <1>3, <1>4 DEF ChargeInv, TabOK, Making
<1>11. TabsApart'
  BY <1>1 DEF ChargeInv, TabsApart
<1> QED
  BY <1>5, <1>6, <1>7, <1>8, <1>9, <1>10, <1>11 DEF ChargeInv

\* The note is about a row of the invoice.
LEMMA HookNoteTypes ==
  ASSUME ChargeInv, HookNote
  PROVE  TypeOK'
<1>1. /\ hook.row \in Rows /\ hook.answer \in Answers
      /\ hook' = [at |-> "done", row |-> hook.row, answer |-> hook.answer]
  BY DEF HookNote, HookAtStage, HookGo, ChargeInv, TypeOK, HookOK
<1>2. uncertain' \subseteq Rows /\ dropped' \in BOOLEAN
  BY <1>1 DEF HookNote, rows, ChargeInv, TypeOK
<1>3. UNCHANGED <<header, status, named, aged, intent, declines, tab, review>>
  BY DEF HookNote, rows, provider
<1> QED
  BY <1>1, <1>2, <1>3 DEF ChargeInv, TypeOK, HookAt

\* The hook's row is marked uncertain.
LEMMA HookNoteKeeps ==
  ASSUME ChargeInv, HookNote
  PROVE  ChargeInv'
<1>1. TypeOK'
  BY HookNoteTypes
<1>2. RowsOK'
  BY DEF HookNote, rows, HookGo, provider, ChargeInv, RowsOK, Active
<1>3. HookOK'
  BY DEF HookNote, rows, HookGo, ChargeInv, HookOK
<1>4. ASSUME NEW u \in Tabs
      PROVE  TabOK(u)'
  BY DEF HookNote, rows, HookGo, provider, ChargeInv, TabOK
<1>5. ReviewOK'
  BY DEF HookNote, rows, provider, ChargeInv, ReviewOK
<1>6. PaidMeansCharged' /\ TabsApart'
  BY DEF HookNote, rows, provider, ChargeInv, TabsApart, PaidMeansCharged
<1> QED
  BY <1>1, <1>2, <1>3, <1>4, <1>5, <1>6 DEF ChargeInv

\* The hook gives its pending row up; paid rows are out of reach.
LEMMA HookDeclineKeeps ==
  ASSUME ChargeInv, HookDecline
  PROVE  ChargeInv'
<1>1. TypeOK'
  BY DEF HookDecline, HookAtStage, FailNaming, Failing, rows, HookGo, provider,
     ChargeInv, TypeOK, HookOK, HookAt, Statuses
<1>2. PaidMeansCharged'
  BY DEF HookDecline, FailNaming, Failing, Pending, rows, provider, ChargeInv,
     PaidMeansCharged
<1>3. RowsOK'
  BY DEF HookDecline, FailNaming, Failing, rows, HookGo, provider, ChargeInv,
     RowsOK, Active
<1>4. HookOK'
  BY DEF HookDecline, FailNaming, Failing, rows, HookGo, ChargeInv, HookOK
<1>5. ASSUME NEW u \in Tabs
      PROVE  TabOK(u)'
  BY DEF HookDecline, FailNaming, Failing, rows, HookGo, provider, ChargeInv,
     TabOK
<1>6. ReviewOK'
  BY DEF HookDecline, FailNaming, rows, provider, ChargeInv, ReviewOK
<1>7. TabsApart'
  BY DEF HookDecline, ChargeInv, TabsApart
<1> QED
  BY <1>1, <1>2, <1>3, <1>4, <1>5, <1>6, <1>7 DEF ChargeInv

\* A hook goes on to settle only after the answer "succeeded".
LEMMA HookAttachKeeps ==
  ASSUME ChargeInv, HookAttach
  PROVE  ChargeInv'
<1>1. TypeOK'
  BY DEF HookAttach, HookAtStage, Name, HookGo, rows, provider, ChargeInv,
     TypeOK, HookOK, HookAt
<1>2. PaidMeansCharged'
  BY DEF HookAttach, Name, rows, provider, ChargeInv, PaidMeansCharged
<1>3. RowsOK'
  BY DEF HookAttach, Name, HookGo, rows, provider, ChargeInv, TypeOK, RowsOK,
     HookOK, Active
<1>4. HookOK'
  BY DEF HookAttach, HookAtStage, Name, HookGo, rows, provider, ChargeInv,
     TypeOK, HookOK
<1>5. ASSUME NEW u \in Tabs
      PROVE  TabOK(u)'
  BY DEF HookAttach, Name, HookGo, rows, provider, ChargeInv, TypeOK, TabOK
<1>6. ReviewOK'
  BY DEF HookAttach, Name, rows, provider, ChargeInv, ReviewOK
<1>7. TabsApart'
  BY DEF HookAttach, ChargeInv, TabsApart
<1> QED
  BY <1>1, <1>2, <1>3, <1>4, <1>5, <1>6, <1>7 DEF ChargeInv

\* The hook settles a named row that was charged.
LEMMA HookSettleKeeps ==
  ASSUME ChargeInv, HookSettle
  PROVE  ChargeInv'
<1>1. TypeOK'
  BY DEF HookSettle, SettleCombined, rows, HookGo, provider, ChargeInv, TypeOK,
     HookOK, HookAt, Statuses, Headers
<1>2. PaidMeansCharged'
  BY DEF HookSettle, HookAtStage, SettleCombined, rows, provider, ChargeInv,
     TypeOK, HookOK, PaidMeansCharged
<1>3. RowsOK'
  BY DEF HookSettle, SettleCombined, Settles, Active, rows, HookGo, provider,
     ChargeInv, TypeOK, RowsOK
<1>4. HookOK'
  BY DEF HookSettle, SettleCombined, rows, HookGo, ChargeInv, TypeOK, HookOK
<1>5. ASSUME NEW u \in Tabs
      PROVE  TabOK(u)'
  BY DEF HookSettle, SettleCombined, rows, HookGo, provider, ChargeInv, TypeOK,
     TabOK
<1>6. TabsApart' /\ ReviewOK'
  BY DEF HookSettle, SettleCombined, rows, provider, ChargeInv, TabsApart,
     ReviewOK
<1> QED
  BY <1>1, <1>2, <1>3, <1>4, <1>5, <1>6 DEF ChargeInv

\* The fallback only reads.
LEMMA HookFallbackKeeps ==
  ASSUME ChargeInv, HookFallback
  PROVE  ChargeInv'
<1>1. TypeOK'
  BY DEF HookFallback, HookGo, rows, provider, ChargeInv, TypeOK, HookAt
<1>2. RowsOK'
  BY DEF HookFallback, HookGo, rows, provider, ChargeInv, RowsOK, Active
<1>3. HookOK'
  BY DEF HookFallback, HookGo, rows, ChargeInv, HookOK
<1>4. ASSUME NEW u \in Tabs
      PROVE  TabOK(u)'
  BY DEF HookFallback, HookGo, rows, provider, ChargeInv, TabOK
<1>5. PaidMeansCharged' /\ TabsApart' /\ ReviewOK'
  BY DEF HookFallback, rows, provider, ChargeInv, TabsApart, ReviewOK,
     PaidMeansCharged
<1> QED
  BY <1>1, <1>2, <1>3, <1>4, <1>5 DEF ChargeInv

\* Routing leaves a paid header alone.
LEMMA HookRouteKeeps ==
  ASSUME ChargeInv, HookRoute
  PROVE  ChargeInv'
<1>1. TypeOK'
  BY DEF HookRoute, MarkFailed, HookGo, rows, provider, ChargeInv, TypeOK,
     HookAt, Headers
<1>2. PaidMeansCharged'
  BY DEF HookRoute, MarkFailed, rows, provider, ChargeInv, PaidMeansCharged
<1>3. RowsOK'
  BY DEF HookRoute, HookGo, rows, provider, ChargeInv, RowsOK, Active
<1>4. HookOK'
  BY DEF HookRoute, HookGo, rows, ChargeInv, HookOK
<1>5. ASSUME NEW u \in Tabs
      PROVE  TabOK(u)'
  BY DEF HookRoute, HookGo, rows, provider, ChargeInv, TabOK
<1>6. TabsApart' /\ ReviewOK'
  BY DEF HookRoute, rows, provider, ChargeInv, TabsApart, ReviewOK
<1> QED
  BY <1>1, <1>2, <1>3, <1>4, <1>5, <1>6 DEF ChargeInv

\* A stopped hook holds nothing.
LEMMA HookDiesKeeps ==
  ASSUME ChargeInv, HookDies
  PROVE  ChargeInv'
<1>1. TypeOK'
  BY DEF HookDies, HookGo, rows, provider, ChargeInv, TypeOK, HookAt
<1>2. RowsOK'
  BY DEF HookDies, HookGo, rows, provider, ChargeInv, RowsOK, Active
<1>3. HookOK'
  BY DEF HookDies, HookGo, rows, ChargeInv, HookOK
<1>4. ASSUME NEW u \in Tabs
      PROVE  TabOK(u)'
  BY DEF HookDies, HookGo, rows, provider, ChargeInv, TabOK
<1>5. PaidMeansCharged' /\ TabsApart' /\ ReviewOK'
  BY DEF HookDies, rows, provider, ChargeInv, TabsApart, ReviewOK,
     PaidMeansCharged
<1> QED
  BY <1>1, <1>2, <1>3, <1>4, <1>5 DEF ChargeInv

\* Pay Now looks at a named row or starts a new one.
LEMMA PressKeeps ==
  ASSUME ChargeInv, NEW t \in Tabs, Press(t)
  PROVE  ChargeInv'
<1>1. TypeOK'
  BY DEF Press, TabGo, rows, provider, ChargeInv, TypeOK, TabAt
<1>2. ASSUME NEW u \in Tabs
      PROVE  TabOK(u)'
  BY DEF Press, Pending, TabGo, rows, provider, ChargeInv, TypeOK, TabOK,
     Making
<1>3. TabsApart'
  BY DEF Press, TabGo, ChargeInv, TypeOK, TabsApart, Making
<1>4. PaidMeansCharged' /\ RowsOK' /\ HookOK' /\ ReviewOK'
  BY DEF Press, rows, provider, ChargeInv, RowsOK, HookOK, ReviewOK,
     PaidMeansCharged, Active
<1> QED
  BY <1>1, <1>2, <1>3, <1>4 DEF ChargeInv

\* A request goes on to settle only what it has seen succeed.
LEMMA InspectKeeps ==
  ASSUME ChargeInv, NEW t \in Tabs, Inspect(t)
  PROVE  ChargeInv'
<1>1. TypeOK'
  BY DEF Inspect, TabRow, TabGo, TabEnds, NoTab, rows, provider, ChargeInv,
     TypeOK, TabAt
<1>2. ASSUME NEW u \in Tabs
      PROVE  TabOK(u)'
  BY DEF Inspect, TabRow, TabIs, TabGo, TabEnds, NoTab, rows, provider,
     ChargeInv, TypeOK, TabOK, Making
<1>3. TabsApart'
  BY DEF Inspect, TabGo, TabEnds, NoTab, ChargeInv, TypeOK, TabsApart, Making
<1>4. PaidMeansCharged' /\ RowsOK' /\ HookOK' /\ ReviewOK'
  BY DEF Inspect, rows, provider, ChargeInv, RowsOK, HookOK, ReviewOK,
     PaidMeansCharged, Active
<1> QED
  BY <1>1, <1>2, <1>3, <1>4 DEF ChargeInv

\* A canceled intent was open.
LEMMA CancelKeeps ==
  ASSUME ChargeInv, NEW t \in Tabs, Cancel(t)
  PROVE  ChargeInv'
<1>1. TypeOK'
  BY DEF Cancel, TabRow, Became, TabGo, TabEnds, NoTab, rows, ChargeInv,
     TypeOK, TabAt, Intents
<1>2. PaidMeansCharged'
  BY DEF Cancel, Became, rows, ChargeInv, TypeOK, PaidMeansCharged
<1>3. RowsOK'
  BY DEF Cancel, Became, rows, ChargeInv, TypeOK, RowsOK, Active
<1>4. HookOK'
  BY DEF Cancel, Became, rows, ChargeInv, TypeOK, HookOK
<1>5. ASSUME NEW u \in Tabs
      PROVE  TabOK(u)'
  BY DEF Cancel, TabRow, TabIs, Became, TabGo, TabEnds, NoTab, rows, ChargeInv,
     TypeOK, TabOK, Making
<1>6. TabsApart'
  BY DEF Cancel, TabGo, TabEnds, NoTab, ChargeInv, TypeOK, TabsApart, Making
<1>7. ReviewOK'
  BY DEF Cancel, Became, rows, ChargeInv, TypeOK, ReviewOK
<1> QED
  BY <1>1, <1>2, <1>3, <1>4, <1>5, <1>6, <1>7 DEF ChargeInv

\* A retired row was pending.
LEMMA RetireKeeps ==
  ASSUME ChargeInv, NEW t \in Tabs, Retire(t)
  PROVE  ChargeInv'
<1>1. TypeOK'
  BY DEF Retire, Fail, Failing, TabGo, provider, ChargeInv, TypeOK, TabAt,
     Statuses
<1>2. PaidMeansCharged'
  BY DEF Retire, Fail, Failing, Pending, provider, ChargeInv, PaidMeansCharged
<1>3. RowsOK'
  BY DEF Retire, Fail, Failing, provider, ChargeInv, RowsOK, Active
<1>4. HookOK'
  BY DEF Retire, Fail, Failing, provider, ChargeInv, HookOK
<1>5. ASSUME NEW u \in Tabs
      PROVE  TabOK(u)'
  BY DEF Retire, Fail, Failing, TabGo, provider, ChargeInv, TabOK, Making
<1>6. TabsApart'
  BY DEF Retire, TabGo, ChargeInv, TabsApart, Making
<1>7. ReviewOK'
  BY DEF Retire, Fail, provider, ChargeInv, ReviewOK
<1> QED
  BY <1>1, <1>2, <1>3, <1>4, <1>5, <1>6, <1>7 DEF ChargeInv

\* Begin finds the header unpaid, so no row is paid, and pays none.
LEMMA BeginKeepsPaid ==
  ASSUME ChargeInv, NEW t \in Tabs, Begin(t)
  PROVE  PaidMeansCharged'
<1>1. PICK p \in Rows : Insert(p, Failing(Orphans))
  BY DEF Begin
<1>2. /\ header # "paid" /\ UNCHANGED <<header, intent>>
      /\ status' = [Failing(Orphans) EXCEPT ![p] = "pending"]
  BY <1>1 DEF Begin, Insert, provider
<1>3. \A q \in Rows : status'[q] # "paid"
  BY <1>2 DEF Failing, ChargeInv, PaidMeansCharged
<1> QED
  BY <1>2, <1>3 DEF PaidMeansCharged

\* The new row had no history, and its slot is free.
LEMMA BeginKeeps ==
  ASSUME ChargeInv, NEW t \in Tabs, Begin(t)
  PROVE  ChargeInv'
<1>1. TypeOK'
  BY DEF Begin, Insert, Failing, TabGo, provider, ChargeInv, TypeOK, TabAt,
     Statuses
<1>2. PaidMeansCharged'
  BY BeginKeepsPaid
<1>3. RowsOK'
  BY DEF Begin, Insert, SlotFree, Failing, provider, ChargeInv, RowsOK, Active
<1>4. HookOK'
  BY DEF Begin, Insert, Failing, provider, ChargeInv, HookOK
<1>5. ASSUME NEW u \in Tabs
      PROVE  TabOK(u)'
  BY DEF Begin, Insert, Failing, TabGo, provider, ChargeInv, RowsOK, HookOK,
     TabOK
<1>6. TabsApart'
  BY DEF Begin, Insert, TabGo, ChargeInv, TabOK, TabsApart, Making
<1>7. ReviewOK'
  BY DEF Begin, Insert, provider, ChargeInv, ReviewOK
<1> QED
  BY <1>1, <1>2, <1>3, <1>4, <1>5, <1>6, <1>7 DEF ChargeInv

\* The row's intent is created by its only request.
LEMMA CreateKeeps ==
  ASSUME ChargeInv, NEW t \in Tabs, Create(t)
  PROVE  ChargeInv'
<1>1. TypeOK'
  BY DEF Create, TabRow, Became, TabGo, rows, ChargeInv, TypeOK, TabAt, Intents
<1>2. PaidMeansCharged'
  BY DEF Create, TabRow, TabIs, Became, rows, ChargeInv, TypeOK, TabOK,
     PaidMeansCharged
<1>3. RowsOK'
  BY DEF Create, TabRow, TabIs, Became, rows, ChargeInv, TypeOK, RowsOK, TabOK,
     Active
<1>4. HookOK'
  BY DEF Create, TabRow, TabIs, Became, rows, ChargeInv, TypeOK, HookOK, TabOK
<1>5. ASSUME NEW u \in Tabs
      PROVE  TabOK(u)'
  BY DEF Create, TabRow, TabIs, Became, TabGo, rows, ChargeInv, TypeOK, TabOK,
     TabsApart, Making
<1>6. TabsApart'
  BY DEF Create, TabRow, TabIs, TabGo, ChargeInv, TypeOK, TabsApart, Making
<1>7. ReviewOK'
  BY DEF Create, TabRow, TabIs, Became, rows, ChargeInv, TypeOK, TabOK,
     ReviewOK
<1> QED
  BY <1>1, <1>2, <1>3, <1>4, <1>5, <1>6, <1>7 DEF ChargeInv

\* The row given up has no intent id.
LEMMA ReleaseKeeps ==
  ASSUME ChargeInv, NEW t \in Tabs, Release(t)
  PROVE  ChargeInv'
<1>1. TypeOK'
  BY DEF Release, rows, Fail, Failing, TabEnds, NoTab, provider, ChargeInv,
     TypeOK, TabAt, Statuses
<1>2. PaidMeansCharged'
  BY DEF Release, rows, Fail, Failing, provider, ChargeInv, PaidMeansCharged
<1>3. RowsOK'
  BY DEF Release, rows, Fail, Failing, provider, ChargeInv, RowsOK, Active
<1>4. HookOK'
  BY DEF Release, rows, Fail, Failing, provider, ChargeInv, HookOK
<1>5. ASSUME NEW u \in Tabs
      PROVE  TabOK(u)'
  BY DEF Release, rows, Fail, Failing, TabEnds, NoTab, provider, ChargeInv,
     TabOK, Making
<1>6. TabsApart'
  BY DEF Release, TabEnds, NoTab, ChargeInv, TabsApart, Making
<1>7. ReviewOK'
  BY DEF Release, rows, Fail, provider, ChargeInv, ReviewOK
<1> QED
  BY <1>1, <1>2, <1>3, <1>4, <1>5, <1>6, <1>7 DEF ChargeInv

\* The row is named by its only request.
LEMMA RecordKeeps ==
  ASSUME ChargeInv, NEW t \in Tabs, Record(t)
  PROVE  ChargeInv'
<1>1. TypeOK'
  BY DEF Record, TabIs, Name, TabRow, TabEnds, NoTab, provider, ChargeInv,
     TypeOK, TabOK, TabAt
<1>2. PaidMeansCharged'
  BY DEF Record, Name, provider, ChargeInv, PaidMeansCharged
<1>3. RowsOK'
  BY DEF Record, TabIs, Name, TabRow, provider, ChargeInv, RowsOK, TabOK,
     Active
<1>4. HookOK'
  BY DEF Record, Name, provider, ChargeInv, HookOK
<1>5. ASSUME NEW u \in Tabs
      PROVE  TabOK(u)'
  BY DEF Record, Name, TabEnds, NoTab, provider, ChargeInv, TabOK, Making
<1>6. TabsApart'
  BY DEF Record, TabEnds, NoTab, ChargeInv, TabsApart, Making
<1>7. ReviewOK'
  BY DEF Record, Name, provider, ChargeInv, ReviewOK
<1> QED
  BY <1>1, <1>2, <1>3, <1>4, <1>5, <1>6, <1>7 DEF ChargeInv

\* A card is posted for a named row.
LEMMA SubmitKeeps ==
  ASSUME ChargeInv, NEW t \in Tabs, NEW p \in Rows, Submit(t, p)
  PROVE  ChargeInv'
<1>1. TypeOK'
  BY DEF Submit, TabGo, rows, provider, ChargeInv, TypeOK, TabAt
<1>2. ASSUME NEW u \in Tabs
      PROVE  TabOK(u)'
  BY DEF Submit, Pending, TabGo, rows, provider, ChargeInv, TypeOK, TabOK, Making
<1>3. TabsApart'
  BY DEF Submit, TabGo, ChargeInv, TypeOK, TabsApart, Making
<1>4. PaidMeansCharged' /\ RowsOK' /\ HookOK' /\ ReviewOK'
  BY DEF Submit, rows, provider, ChargeInv, RowsOK, HookOK, ReviewOK,
     PaidMeansCharged, Active
<1> QED
  BY <1>1, <1>2, <1>3, <1>4 DEF ChargeInv

\* A confirmed intent belongs to a named row.
LEMMA ConfirmKeeps ==
  ASSUME ChargeInv, NEW t \in Tabs, Confirm(t)
  PROVE  ChargeInv'
<1>1. TypeOK'
  BY DEF Confirm, TabRow, TabIs, Became, TabGo, TabEnds, NoTab, rows,
     ChargeInv, TypeOK, TabOK, Active, TabAt, Statuses, Intents
<1>2. PaidMeansCharged'
  BY DEF Confirm, Became, rows, ChargeInv, TypeOK, PaidMeansCharged
<1>3. RowsOK'
  BY DEF Confirm, Became, rows, ChargeInv, TypeOK, RowsOK, Active
<1>4. HookOK'
  BY DEF Confirm, Became, rows, ChargeInv, TypeOK, HookOK
<1>5. ASSUME NEW u \in Tabs
      PROVE  TabOK(u)'
  BY DEF Confirm, TabRow, TabIs, Became, TabGo, TabEnds, NoTab, rows,
     ChargeInv, TypeOK, TabOK, Making
<1>6. TabsApart'
  BY DEF Confirm, TabGo, TabEnds, NoTab, ChargeInv, TypeOK, TabsApart, Making
<1>7. ReviewOK'
  BY DEF Confirm, Became, rows, ChargeInv, TypeOK, ReviewOK
<1> QED
  BY <1>1, <1>2, <1>3, <1>4, <1>5, <1>6, <1>7 DEF ChargeInv

\* A request settles a named row that was charged.
LEMMA FinalizeKeeps ==
  ASSUME ChargeInv, NEW t \in Tabs, Finalize(t)
  PROVE  ChargeInv'
<1>1. TypeOK'
  BY DEF Finalize, SettleCombined, rows, TabEnds, NoTab, provider, ChargeInv,
     TypeOK, TabAt, Statuses, Headers
<1>2. PaidMeansCharged'
  BY DEF Finalize, TabIs, SettleCombined, rows, TabRow, provider, ChargeInv,
     TypeOK, TabOK, PaidMeansCharged
<1>3. RowsOK'
  BY DEF Finalize, SettleCombined, Settles, Active, rows, provider, ChargeInv,
     TypeOK, RowsOK
<1>4. HookOK'
  BY DEF Finalize, SettleCombined, rows, provider, ChargeInv, TypeOK, HookOK
<1>5. ASSUME NEW u \in Tabs
      PROVE  TabOK(u)'
  BY DEF Finalize, SettleCombined, rows, TabEnds, NoTab, provider, ChargeInv,
     TypeOK, TabOK, Making
<1>6. TabsApart'
  BY DEF Finalize, TabEnds, NoTab, ChargeInv, TabsApart, Making
<1>7. ReviewOK'
  BY DEF Finalize, SettleCombined, rows, provider, ChargeInv, ReviewOK
<1> QED
  BY <1>1, <1>2, <1>3, <1>4, <1>5, <1>6, <1>7 DEF ChargeInv

\* A request that ends holds nothing.
LEMMA GiveUpKeeps ==
  ASSUME ChargeInv, NEW t \in Tabs, GiveUp(t)
  PROVE  ChargeInv'
<1>1. TypeOK'
  BY DEF GiveUp, TabEnds, NoTab, rows, provider, ChargeInv, TypeOK, TabAt
<1>2. ASSUME NEW u \in Tabs
      PROVE  TabOK(u)'
  BY DEF GiveUp, TabEnds, NoTab, rows, provider, ChargeInv, TabOK, Making
<1>3. TabsApart'
  BY DEF GiveUp, TabEnds, NoTab, ChargeInv, TabsApart, Making
<1>4. PaidMeansCharged' /\ RowsOK' /\ HookOK' /\ ReviewOK'
  BY DEF GiveUp, rows, provider, ChargeInv, RowsOK, HookOK, ReviewOK,
     PaidMeansCharged, Active
<1> QED
  BY <1>1, <1>2, <1>3, <1>4 DEF ChargeInv

\* A row named by its event was charged.
LEMMA AttachByEventKeeps ==
  ASSUME ChargeInv, NEW p \in Rows, AttachByEvent(p)
  PROVE  ChargeInv'
<1>1. TypeOK'
  BY DEF AttachByEvent, Name, provider, ChargeInv, TypeOK
<1>2. PaidMeansCharged'
  BY DEF AttachByEvent, Name, provider, ChargeInv, PaidMeansCharged
<1>3. RowsOK'
  BY DEF AttachByEvent, Name, provider, ChargeInv, RowsOK, Active
<1>4. HookOK'
  BY DEF AttachByEvent, Name, provider, ChargeInv, HookOK
<1>5. ASSUME NEW u \in Tabs
      PROVE  TabOK(u)'
  BY DEF AttachByEvent, Name, provider, ChargeInv, TabOK
<1>6. ReviewOK'
  BY DEF AttachByEvent, Name, provider, ChargeInv, ReviewOK
<1>7. TabsApart'
  BY DEF AttachByEvent, ChargeInv, TabsApart
<1> QED
  BY <1>1, <1>2, <1>3, <1>4, <1>5, <1>6, <1>7 DEF ChargeInv

\* An event settles a named row that was charged.
LEMMA SettleByEventKeeps ==
  ASSUME ChargeInv, NEW p \in Rows, SettleByEvent(p)
  PROVE  ChargeInv'
<1>1. TypeOK'
  BY DEF SettleByEvent, SettleCombined, provider, ChargeInv, TypeOK, Statuses,
     Headers
<1>2. PaidMeansCharged'
  BY DEF SettleByEvent, SettleCombined, provider, ChargeInv, TypeOK,
     PaidMeansCharged
<1>3. RowsOK'
  BY DEF SettleByEvent, Settles, Active, SettleCombined, provider, ChargeInv,
     TypeOK, RowsOK
<1>4. HookOK'
  BY DEF SettleByEvent, SettleCombined, provider, ChargeInv, TypeOK, HookOK
<1>5. ASSUME NEW u \in Tabs
      PROVE  TabOK(u)'
  BY DEF SettleByEvent, SettleCombined, provider, ChargeInv, TypeOK, TabOK
<1>6. TabsApart' /\ ReviewOK'
  BY DEF SettleByEvent, SettleCombined, provider, ChargeInv, TabsApart,
     ReviewOK
<1> QED
  BY <1>1, <1>2, <1>3, <1>4, <1>5, <1>6 DEF ChargeInv

\* A late decline reaches neither paid rows nor a paid header.
LEMMA DeclinedEventKeeps ==
  ASSUME ChargeInv, NEW p \in Rows, DeclinedEvent(p)
  PROVE  ChargeInv'
<1>1. TypeOK'
  BY DEF DeclinedEvent, Fail, Failing, MarkFailed, ChargeInv, TypeOK, Statuses,
     Headers
<1>2. PaidMeansCharged'
  BY DEF DeclinedEvent, Fail, Failing, Pending, MarkFailed, ChargeInv,
     PaidMeansCharged
<1>3. RowsOK'
  BY DEF DeclinedEvent, Fail, Failing, ChargeInv, RowsOK, Active
<1>4. HookOK'
  BY DEF DeclinedEvent, Fail, Failing, ChargeInv, HookOK
<1>5. ASSUME NEW u \in Tabs
      PROVE  TabOK(u)'
  BY DEF DeclinedEvent, Fail, Failing, ChargeInv, TabOK
<1>6. TabsApart' /\ ReviewOK'
  BY DEF DeclinedEvent, Fail, ChargeInv, TabsApart, ReviewOK
<1> QED
  BY <1>1, <1>2, <1>3, <1>4, <1>5, <1>6 DEF ChargeInv

\* An early decline has no effect on rows.
LEMMA DeclinedEventEarlyKeeps ==
  ASSUME ChargeInv, NEW p \in Rows, DeclinedEventEarly(p)
  PROVE  ChargeInv'
<1>1. TypeOK'
  BY DEF DeclinedEventEarly, rows, ChargeInv, TypeOK
<1>2. RowsOK'
  BY DEF DeclinedEventEarly, rows, ChargeInv, RowsOK, Active
<1>3. /\ PaidMeansCharged'
      /\ HookOK'
      /\ \A u \in Tabs : TabOK(u)'
      /\ TabsApart'
      /\ ReviewOK'
  BY DEF DeclinedEventEarly, rows, ChargeInv, HookOK, TabOK, TabsApart,
     ReviewOK, PaidMeansCharged
<1> QED
  BY <1>1, <1>2, <1>3 DEF ChargeInv

\* Only a pending row is given up.
LEMMA CanceledEventKeeps ==
  ASSUME ChargeInv, NEW p \in Rows, CanceledEvent(p)
  PROVE  ChargeInv'
<1>1. TypeOK'
  BY DEF CanceledEvent, Fail, Failing, provider, ChargeInv, TypeOK, Statuses
<1>2. PaidMeansCharged'
  BY DEF CanceledEvent, Fail, Failing, provider, ChargeInv, PaidMeansCharged
<1>3. RowsOK'
  BY DEF CanceledEvent, Fail, Failing, provider, ChargeInv, RowsOK, Active
<1>4. HookOK'
  BY DEF CanceledEvent, Fail, Failing, provider, ChargeInv, HookOK
<1>5. ASSUME NEW u \in Tabs
      PROVE  TabOK(u)'
  BY DEF CanceledEvent, Fail, Failing, provider, ChargeInv, TabOK
<1>6. TabsApart' /\ ReviewOK'
  BY DEF CanceledEvent, Fail, provider, ChargeInv, TabsApart, ReviewOK
<1> QED
  BY <1>1, <1>2, <1>3, <1>4, <1>5, <1>6 DEF ChargeInv

\* Only a charge under way is decided.
LEMMA ClearKeeps ==
  ASSUME ChargeInv, NEW p \in Rows, Clear(p)
  PROVE  ChargeInv'
<1>1. TypeOK'
  BY DEF Clear, Became, rows, ChargeInv, TypeOK, Intents
<1>2. PaidMeansCharged'
  BY DEF Clear, Became, rows, ChargeInv, TypeOK, PaidMeansCharged
<1>3. RowsOK'
  BY DEF Clear, Became, rows, ChargeInv, TypeOK, RowsOK, Active
<1>4. HookOK'
  BY DEF Clear, Became, rows, ChargeInv, TypeOK, HookOK
<1>5. ASSUME NEW u \in Tabs
      PROVE  TabOK(u)'
  BY DEF Clear, Became, rows, ChargeInv, TypeOK, TabOK
<1>6. ReviewOK'
  BY DEF Clear, Became, rows, ChargeInv, TypeOK, ReviewOK
<1>7. TabsApart'
  BY DEF Clear, ChargeInv, TabsApart
<1> QED
  BY <1>1, <1>2, <1>3, <1>4, <1>5, <1>6, <1>7 DEF ChargeInv

\* Nothing depends on a row's age.
LEMMA AgeKeeps ==
  ASSUME ChargeInv, NEW p \in Rows, Age(p)
  PROVE  ChargeInv'
<1>1. TypeOK'
  BY DEF Age, provider, ChargeInv, TypeOK
<1>2. /\ PaidMeansCharged'
      /\ RowsOK'
      /\ HookOK'
      /\ \A u \in Tabs : TabOK(u)'
      /\ TabsApart'
      /\ ReviewOK'
  BY DEF Age, provider, ChargeInv, RowsOK, HookOK, TabOK, TabsApart, ReviewOK,
     PaidMeansCharged, Active
<1> QED
  BY <1>1, <1>2 DEF ChargeInv

\* The reconciler works on an uncertain row, which is the hook's.
LEMMA PickKeeps ==
  ASSUME ChargeInv, NEW p \in Rows, Pick(p)
  PROVE  ChargeInv'
<1>1. TypeOK'
  BY DEF Pick, rows, provider, ChargeInv, TypeOK, ReviewAt, Answers
<1>2. ReviewOK'
  BY DEF Pick, rows, ReviewOK
<1>3. /\ PaidMeansCharged'
      /\ RowsOK'
      /\ HookOK'
      /\ \A u \in Tabs : TabOK(u)'
      /\ TabsApart'
  BY DEF Pick, rows, provider, ChargeInv, RowsOK, HookOK, TabOK, TabsApart,
     PaidMeansCharged, Active
<1> QED
  BY <1>1, <1>2, <1>3 DEF ChargeInv

\* A repeated request finds the same intent.
LEMMA RepeatKeeps ==
  ASSUME ChargeInv, Repeat
  PROVE  ChargeInv'
<1>1. /\ review \in [at : ReviewAt, row : Rows \cup {NoRow}, answer : Answers]
      /\ review.at = "ask" /\ review.row \in uncertain
      /\ review.row \in Rows /\ review.row = hook.row
      /\ UNCHANGED <<header, status, named, uncertain, aged>>
      /\ UNCHANGED <<hook, tab, dropped>>
  BY DEF Repeat, ReviewIs, ChargeInv, TypeOK, ReviewOK, RowsOK, rows
<1>2. PICK answer \in {"succeeded", "processing", "declined"} :
        /\ OffSession(review.row, answer)
        /\ review' = [review EXCEPT !.answer = answer,
                        !.at = IF answer = "declined" THEN "fail" ELSE "attach"]
  BY DEF Repeat
<1>3. \/ review' = [at |-> "fail", row |-> review.row, answer |-> answer]
      \/ review' = [at |-> "attach", row |-> review.row, answer |-> answer]
  BY <1>1, <1>2
<1>4. /\ intent' \in [Rows -> Intents]
      /\ declines' \subseteq declines \cup {review.row}
      /\ \A q \in Rows : q # review.row => intent'[q] = intent[q]
      /\ \A q \in Rows : intent[q] = "succeeded" => intent'[q] = "succeeded"
      /\ answer = "succeeded" => intent'[review.row] = "succeeded"
  BY <1>1, <1>2, OffSessionTypes DEF ChargeInv
<1>5. TypeOK'
  BY <1>1, <1>2, <1>3, <1>4 DEF ChargeInv, TypeOK, ReviewAt, Answers
<1>6. PaidMeansCharged'
  BY <1>1, <1>4 DEF ChargeInv, PaidMeansCharged
<1>7. RowsOK'
  BY <1>1, <1>4 DEF ChargeInv, RowsOK, HookOK, Active
<1>8. HookOK'
  BY <1>1, <1>4 DEF ChargeInv, HookOK
<1>9. ReviewOK'
  BY <1>1, <1>3, <1>4 DEF ReviewOK
<1>10. ASSUME NEW u \in Tabs PROVE TabOK(u)'
  BY <1>1, <1>4 DEF ChargeInv, TabOK, Making
<1>11. TabsApart'
  BY <1>1 DEF ChargeInv, TabsApart
<1> QED
  BY <1>5, <1>6, <1>7, <1>8, <1>9, <1>10, <1>11 DEF ChargeInv

\* So does one whose answer is lost.
LEMMA RepeatLostKeeps ==
  ASSUME ChargeInv, RepeatLost
  PROVE  ChargeInv'
<1>1. TypeOK'
  BY DEF RepeatLost, ReviewIs, OffSession, Became, NoJob, rows, ChargeInv,
     TypeOK, ReviewOK, ReviewAt, Answers, Intents
<1>2. PaidMeansCharged'
  BY DEF RepeatLost, OffSession, Became, rows, ChargeInv, PaidMeansCharged
<1>3. RowsOK'
  BY DEF RepeatLost, ReviewIs, OffSession, Became, rows, ChargeInv, RowsOK,
     HookOK, ReviewOK, Active
<1>4. HookOK'
  BY DEF RepeatLost, OffSession, Became, rows, ChargeInv, HookOK
<1>5. ASSUME NEW u \in Tabs
      PROVE  TabOK(u)'
  BY DEF RepeatLost, ReviewIs, OffSession, Became, rows, ChargeInv, RowsOK,
     TabOK, ReviewOK, Making
<1>6. ReviewOK'
  BY DEF RepeatLost, NoJob, ReviewOK
<1>7. TabsApart'
  BY DEF RepeatLost, ChargeInv, TabsApart
<1> QED
  BY <1>1, <1>2, <1>3, <1>4, <1>5, <1>6, <1>7 DEF ChargeInv

\* What the provider says of an intent is an answer.
LEMMA SearchTypes ==
  ASSUME ChargeInv, Search
  PROVE  TypeOK'
<1>1. /\ review \in [at : ReviewAt, row : Rows \cup {NoRow}, answer : Answers]
      /\ review.row \in Rows
  BY DEF Search, ReviewIs, ChargeInv, TypeOK, ReviewOK
<1>2. intent[review.row] \in Intents
  BY <1>1 DEF ChargeInv, TypeOK
<1>3. PICK stage \in {"fail", "attach"}, answer \in Answers :
        review' = [at |-> stage, row |-> review.row, answer |-> answer]
  BY <1>1, <1>2 DEF Search, Intents, Answers
<1>4. /\ UNCHANGED <<header, status, named, uncertain, aged>>
      /\ UNCHANGED <<intent, declines, hook, tab, dropped>>
  BY DEF Search, rows, provider
<1> QED
  BY <1>1, <1>3, <1>4 DEF ChargeInv, TypeOK, ReviewAt

\* The reconciler has seen the intent it goes on with.
LEMMA SearchKeeps ==
  ASSUME ChargeInv, Search
  PROVE  ChargeInv'
<1>1. TypeOK'
  BY SearchTypes
<1>2. ReviewOK'
  BY DEF Search, ReviewIs, rows, provider, ChargeInv, ReviewOK
<1>3. /\ PaidMeansCharged'
      /\ RowsOK'
      /\ HookOK'
      /\ \A u \in Tabs : TabOK(u)'
      /\ TabsApart'
  BY DEF Search, rows, provider, ChargeInv, RowsOK, HookOK, TabOK, TabsApart,
     PaidMeansCharged, Active
<1> QED
  BY <1>1, <1>2, <1>3 DEF ChargeInv

\* The reconciler settles only after the answer "succeeded".
LEMMA ReviewAttachKeeps ==
  ASSUME ChargeInv, ReviewAttach
  PROVE  ChargeInv'
<1>1. TypeOK'
  BY DEF ReviewAttach, ReviewIs, Name, ReviewGo, NoJob, provider, ChargeInv,
     TypeOK, ReviewOK, ReviewAt, Answers
<1>2. PaidMeansCharged'
  BY DEF ReviewAttach, Name, provider, ChargeInv, PaidMeansCharged
<1>3. RowsOK'
  BY DEF ReviewAttach, ReviewIs, Name, provider, ChargeInv, RowsOK, HookOK,
     ReviewOK, Active
<1>4. HookOK'
  BY DEF ReviewAttach, Name, provider, ChargeInv, HookOK
<1>5. ASSUME NEW u \in Tabs
      PROVE  TabOK(u)'
  BY DEF ReviewAttach, Name, provider, ChargeInv, TabOK
<1>6. ReviewOK'
  BY DEF ReviewAttach, ReviewIs, Name, ReviewGo, NoJob, provider, ChargeInv,
     TypeOK, ReviewOK
<1>7. TabsApart'
  BY DEF ReviewAttach, ChargeInv, TabsApart
<1> QED
  BY <1>1, <1>2, <1>3, <1>4, <1>5, <1>6, <1>7 DEF ChargeInv

\* The reconciler settles a named row that was charged.
LEMMA ReviewSettleKeeps ==
  ASSUME ChargeInv, ReviewSettle
  PROVE  ChargeInv'
<1>1. TypeOK'
  BY DEF ReviewSettle, SettleCombined, rows, NoJob, provider, ChargeInv,
     TypeOK, ReviewAt, Answers, Statuses, Headers
<1>2. PaidMeansCharged'
  BY DEF ReviewSettle, ReviewIs, SettleCombined, rows, provider, ChargeInv,
     TypeOK, ReviewOK, PaidMeansCharged
<1>3. RowsOK'
  BY DEF ReviewSettle, SettleCombined, Settles, Active, rows, provider,
     ChargeInv, TypeOK, RowsOK
<1>4. HookOK'
  BY DEF ReviewSettle, SettleCombined, rows, provider, ChargeInv, TypeOK,
     HookOK
<1>5. ASSUME NEW u \in Tabs
      PROVE  TabOK(u)'
  BY DEF ReviewSettle, SettleCombined, rows, provider, ChargeInv, TypeOK, TabOK
<1>6. ReviewOK'
  BY DEF ReviewSettle, NoJob, ReviewOK
<1>7. TabsApart'
  BY DEF ReviewSettle, ChargeInv, TabsApart
<1> QED
  BY <1>1, <1>2, <1>3, <1>4, <1>5, <1>6, <1>7 DEF ChargeInv

\* The reconciler gives up a pending row.
LEMMA ReviewFailKeeps ==
  ASSUME ChargeInv, ReviewFail
  PROVE  ChargeInv'
<1>1. TypeOK'
  BY DEF ReviewFail, ReviewIs, FailNaming, Failing, ReviewGo, provider,
     ChargeInv, TypeOK, ReviewOK, ReviewAt, Statuses
<1>2. PaidMeansCharged'
  BY DEF ReviewFail, FailNaming, Failing, Pending, provider, ChargeInv,
     PaidMeansCharged
<1>3. RowsOK'
  BY DEF ReviewFail, FailNaming, Failing, provider, ChargeInv, RowsOK, Active
<1>4. HookOK'
  BY DEF ReviewFail, FailNaming, Failing, provider, ChargeInv, HookOK
<1>5. ASSUME NEW u \in Tabs
      PROVE  TabOK(u)'
  BY DEF ReviewFail, FailNaming, Failing, provider, ChargeInv, TabOK
<1>6. ReviewOK'
  BY DEF ReviewFail, ReviewIs, FailNaming, ReviewGo, ChargeInv, ReviewOK
<1>7. TabsApart'
  BY DEF ReviewFail, ChargeInv, TabsApart
<1> QED
  BY <1>1, <1>2, <1>3, <1>4, <1>5, <1>6, <1>7 DEF ChargeInv

\* Routing leaves a paid header alone.
LEMMA ReviewRouteKeeps ==
  ASSUME ChargeInv, ReviewRoute
  PROVE  ChargeInv'
<1>1. TypeOK'
  BY DEF ReviewRoute, MarkFailed, NoJob, rows, provider, ChargeInv, TypeOK,
     ReviewAt, Answers, Headers
<1>2. PaidMeansCharged'
  BY DEF ReviewRoute, MarkFailed, rows, provider, ChargeInv, PaidMeansCharged
<1>3. ReviewOK'
  BY DEF ReviewRoute, NoJob, ReviewOK
<1>4. /\ RowsOK'
      /\ HookOK'
      /\ \A u \in Tabs : TabOK(u)'
      /\ TabsApart'
  BY DEF ReviewRoute, rows, provider, ChargeInv, RowsOK, HookOK, TabOK,
     TabsApart, Active
<1> QED
  BY <1>1, <1>2, <1>3, <1>4 DEF ChargeInv

\* A stopped reconciler holds nothing.
LEMMA ReviewDiesKeeps ==
  ASSUME ChargeInv, ReviewDies
  PROVE  ChargeInv'
<1>1. TypeOK'
  BY DEF ReviewDies, NoJob, rows, provider, ChargeInv, TypeOK, ReviewAt,
     Answers
<1>2. ReviewOK'
  BY DEF ReviewDies, NoJob, ReviewOK
<1>3. /\ PaidMeansCharged'
      /\ RowsOK'
      /\ HookOK'
      /\ \A u \in Tabs : TabOK(u)'
      /\ TabsApart'
  BY DEF ReviewDies, rows, provider, ChargeInv, RowsOK, HookOK, TabOK,
     TabsApart, PaidMeansCharged, Active
<1> QED
  BY <1>1, <1>2, <1>3 DEF ChargeInv

-----------------------------------------------------------------------------
(* The theorems. *)

\* Just after the close nothing has been attempted.
LEMMA ChargeInvInit ==
  ASSUME Init
  PROVE  ChargeInv
<1>1. TypeOK
  BY DEF Init, TypeOK, NoTab, NoJob, Headers, Statuses, Intents, Answers,
         HookAt, TabAt, ReviewAt
<1>2. PaidMeansCharged /\ RowsOK
  BY DEF Init, PaidMeansCharged, RowsOK, Active
<1>3. HookOK /\ ReviewOK /\ TabsApart /\ \A t \in Tabs : TabOK(t)
  BY ChargeAssumption
     DEF Init, HookOK, ReviewOK, TabsApart, TabOK, Making, NoTab, NoJob
<1> QED
  BY <1>1, <1>2, <1>3 DEF ChargeInv

\* Nothing changes: the invariant says nothing of aged and dropped.
LEMMA ChargeInvStutters ==
  ASSUME ChargeInv, UNCHANGED vars
  PROVE  ChargeInv'
<1> QED
  BY DEF vars, rows, provider, ChargeInv, TypeOK, PaidMeansCharged, RowsOK,
         HookOK, TabOK, TabsApart, ReviewOK, Active

\* The invariant is inductive: one lemma for each action.
LEMMA ChargeInvStep ==
  ASSUME ChargeInv, [Next]_vars
  PROVE  ChargeInv'
<1>1. CASE HookSteps
  BY <1>1, HookInsertKeeps, HookChargeKeeps, HookNoteKeeps, HookDeclineKeeps,
     HookAttachKeeps, HookSettleKeeps, HookFallbackKeeps, HookRouteKeeps
     DEF HookSteps
<1>2. CASE HookDies
  BY <1>2, HookDiesKeeps
<1>3. ASSUME NEW t \in Tabs, TabSteps(t)
      PROVE  ChargeInv'
  BY <1>3, PressKeeps, InspectKeeps, CancelKeeps, RetireKeeps, BeginKeeps,
     CreateKeeps, ReleaseKeeps, RecordKeeps, SubmitKeeps, ConfirmKeeps,
     FinalizeKeeps, GiveUpKeeps
     DEF TabSteps
<1>4. ASSUME NEW p \in Rows, Events(p)
      PROVE  ChargeInv'
  BY <1>4, AttachByEventKeeps, SettleByEventKeeps, DeclinedEventKeeps,
     CanceledEventKeeps
     DEF Events
<1>5. ASSUME NEW p \in Rows,
             DeclinedEventEarly(p) \/ Clear(p) \/ Age(p) \/ Pick(p)
      PROVE  ChargeInv'
  BY <1>5, DeclinedEventEarlyKeeps, ClearKeeps, AgeKeeps, PickKeeps
<1>6. CASE ReviewSteps
  BY <1>6, RepeatKeeps, RepeatLostKeeps, SearchKeeps, ReviewAttachKeeps,
     ReviewSettleKeeps, ReviewFailKeeps, ReviewRouteKeeps
     DEF ReviewSteps
<1>7. CASE ReviewDies
  BY <1>7, ReviewDiesKeeps
<1>8. CASE UNCHANGED vars
  BY <1>8, ChargeInvStutters
<1> QED
  BY <1>1, <1>2, <1>3, <1>4, <1>5, <1>6, <1>7, <1>8 DEF Next

\* The invariant holds throughout.
THEOREM ChargeInvAlways == Spec => []ChargeInv
<1>1. Init => ChargeInv
  BY ChargeInvInit
<1>2. ChargeInv /\ [Next]_vars => ChargeInv'
  BY ChargeInvStep
<1> QED
  BY <1>1, <1>2, PTL DEF Spec

\* The header, the rows, the intents and the flows keep their types, whatever
\* is lost, repeated or reordered.
THEOREM ChargeTypes == Spec => []TypeOK
<1>1. ChargeInv => TypeOK
  BY DEF ChargeInv
<1> QED
  BY <1>1, ChargeInvAlways, PTL

\* settleCombined is only reached with the provider's money: the invoice is
\* paid exactly when a row is, and that row's intent succeeded.
THEOREM PaidIsCharged == Spec => []PaidMeansCharged
<1>1. ChargeInv => PaidMeansCharged
  BY DEF ChargeInv
<1> QED
  BY <1>1, ChargeInvAlways, PTL

\* The statements that write the header and the rows: none takes a payment back.
LEMMA NoStepUndoesAPayment ==
  ASSUME ChargeInv, [Next]_vars
  PROVE  /\ header = "paid" => header' = "paid"
         /\ \A p \in Rows : status[p] = "paid" => status'[p] = "paid"
<1> DEFINE Kept == \A q \in Rows : status[q] = "paid" => status'[q] = "paid"
<1>1. status \in [Rows -> Statuses] /\ PaidMeansCharged /\ PaidMeansCharged'
  BY ChargeInvStep DEF ChargeInv, TypeOK
<1>2. ASSUME NEW p \in Rows, SettleCombined(p)
      PROVE  Kept
  BY <1>1, <1>2 DEF SettleCombined, rows
<1>3. ASSUME NEW gone, status' = Failing(gone)
      PROVE  Kept
  BY <1>1, <1>3 DEF Failing, Pending
<1>4. ASSUME NEW p \in Rows, Insert(p, status)
      PROVE  Kept
  BY <1>1, <1>4 DEF Insert
<1>5. ASSUME NEW p \in Rows, Insert(p, Failing(Orphans))
      PROVE  Kept
  BY <1>1, <1>5 DEF Insert, Failing, Pending
<1>6. ASSUME UNCHANGED status
      PROVE  Kept
  BY <1>6
<1>7. ASSUME HookSteps \/ HookDies
      PROVE  Kept
  <2>1. HookInsert => Kept
    BY <1>4, <1>6 DEF HookInsert, rows
  <2>2. HookDecline => Kept
    BY <1>3, <1>6 DEF HookDecline, FailNaming, rows
  <2>3. HookSettle => Kept
    <3>1. SUFFICES ASSUME HookSettle PROVE Kept
      OBVIOUS
    <3>2. CASE hook.row \in Rows
      BY <3>1, <3>2, <1>2, <1>6 DEF HookSettle, rows
    <3>3. CASE hook.row \notin Rows
      BY <3>1, <3>3 DEF HookSettle, HookAtStage, ChargeInv, HookOK
    <3> QED
      BY <3>2, <3>3
  <2>4. HookCharge \/ HookNote \/ HookAttach \/ HookFallback \/ HookRoute
          \/ HookDies => Kept
    BY <1>6 DEF HookCharge, HookNote, HookAttach, Name, HookFallback, HookRoute,
                HookDies, rows
  <2> QED
    BY <1>7, <2>1, <2>2, <2>3, <2>4 DEF HookSteps
<1>8. ASSUME NEW t \in Tabs, TabSteps(t)
      PROVE  Kept
  <2>1. Retire(t) \/ Release(t) => Kept
    BY <1>3, <1>6 DEF Retire, Release, Fail, rows
  <2>2. Begin(t) => Kept
    BY <1>5 DEF Begin
  <2>3. Finalize(t) => Kept
    <3>1. SUFFICES ASSUME Finalize(t) PROVE Kept
      OBVIOUS
    <3>2. TabRow(t) \in Rows
      BY <3>1 DEF Finalize, TabIs, TabRow, ChargeInv, TabOK
    <3> QED
      BY <3>1, <3>2, <1>2 DEF Finalize
  <2>4. ASSUME NEW p \in Rows, Submit(t, p)
        PROVE  Kept
    BY <2>4, <1>6 DEF Submit, rows
  <2>5. Press(t) \/ Inspect(t) \/ Cancel(t) \/ Create(t) \/ Record(t)
          \/ Confirm(t) \/ GiveUp(t) => Kept
    BY <1>6 DEF Press, Inspect, Cancel, Create, Record, Name, Confirm,
                GiveUp, rows
  <2> QED
    BY <1>8, <2>1, <2>2, <2>3, <2>4, <2>5 DEF TabSteps
<1>9. ASSUME NEW p \in Rows,
             Events(p) \/ DeclinedEventEarly(p) \/ Clear(p) \/ Age(p) \/ Pick(p)
      PROVE  Kept
  <2>1. SettleByEvent(p) => Kept
    BY <1>2 DEF SettleByEvent
  <2>2. DeclinedEvent(p) \/ CanceledEvent(p) => Kept
    BY <1>3 DEF DeclinedEvent, CanceledEvent, Fail
  <2>3. AttachByEvent(p) \/ DeclinedEventEarly(p) \/ Clear(p) \/ Age(p)
          \/ Pick(p) => Kept
    BY <1>6 DEF AttachByEvent, Name, DeclinedEventEarly, Clear, Age, Pick, rows
  <2> QED
    BY <1>9, <2>1, <2>2, <2>3 DEF Events
<1>10. ASSUME ReviewSteps \/ ReviewDies
       PROVE  Kept
  <2>1. ReviewSettle => Kept
    <3>1. SUFFICES ASSUME ReviewSettle PROVE Kept
      OBVIOUS
    <3>2. review.row \in Rows
      BY <3>1 DEF ReviewSettle, ReviewIs, ChargeInv, TypeOK, ReviewOK
    <3> QED
      BY <3>1, <3>2, <1>2 DEF ReviewSettle
  <2>2. ReviewFail => Kept
    BY <1>3 DEF ReviewFail, FailNaming
  <2>3. Repeat \/ RepeatLost \/ Search \/ ReviewAttach \/ ReviewRoute
          \/ ReviewDies => Kept
    BY <1>6 DEF Repeat, RepeatLost, Search, ReviewAttach, Name, ReviewRoute,
                ReviewDies, rows
  <2> QED
    BY <1>10, <2>1, <2>2, <2>3 DEF ReviewSteps
<1>11. Kept
  BY <1>6, <1>7, <1>8, <1>9, <1>10 DEF Next, vars, rows
<1>12. header = "paid" => header' = "paid"
  BY <1>1, <1>11 DEF PaidMeansCharged
<1> QED
  BY <1>11, <1>12

\* markFailed, the declined event and the clean-ups never undo a recorded
\* payment.
THEOREM PaymentsAreFinal == Spec => PaymentIsFinal
<1>1. ChargeInv /\ [Next]_vars =>
        [/\ header = "paid" => header' = "paid"
         /\ \A p \in Rows : status[p] = "paid" => status'[p] = "paid"]_vars
  BY NoStepUndoesAPayment
<1> QED
  BY <1>1, ChargeInvAlways, PTL DEF Spec, PaymentIsFinal
=============================================================================
