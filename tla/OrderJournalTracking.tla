------------------------ MODULE OrderJournalTracking ------------------------
(***************************************************************************)
(* Theorems about OrderJournal that need more than types: with saves that  *)
(* succeed, the journal knows every order the exchange has and never       *)
(* reopens a final one; with clients that raise no gateway errors, the     *)
(* journal's final orders are over, so that live ones stay tracked and one *)
(* exit at a time is alive; with a single reconciler and no crash, every   *)
(* execution is booked once (FillLedger).                                  *)
(***************************************************************************)
EXTENDS OrderJournalProofs
-----------------------------------------------------------------------------
(* The journal knows every order: a journal whose saves succeed *)

\* The exchange has the order, or may yet get it, or was told to cancel it.
Posted(o) == exState[o] # "none" \/ o \in wire \/ o \in cancels

\* The file is the memory, every order that left the process has a record, and
\* no two submitters have the same order.
KnownInv ==
  /\ disk.orders = orders
  /\ \A o \in Order : Posted(o) => Recorded(o)
  /\ \A s \in Submitters : /\ sub[s].pc = "checked" => ~Recorded(sub[s].ord)
                           /\ sub[s].pc \notin {"idle", "checked"} => Recorded(sub[s].ord)
                           /\ sub[s].pc = "idle" => sub[s].ord = None
  /\ \A s, r \in Submitters : s # r /\ sub[s].pc # "idle" => sub[s].ord # sub[r].ord
  /\ \A t \in Threads : rc[t].pc = "apply" =>
        Recorded(rc[t].ord) /\ (rc[t].mode # "full" => rc[t].was # "NONE")

\* The exchange has closed the order.
Over(o) == exState[o] \in {"done", "cancel"}

\* Whatever may make the journal call an order final rests on an order that the
\* exchange has closed, or has never taken and never will.
FinalIsOver ==
  \A o \in Order : /\ orders[o].status \in Terminal => ~Live(o) /\ o \notin wire
                   /\ o \in wire => exState[o] = "none"
                   /\ exState[o] = "none" => exVol[o] = 0
                   /\ exVol[o] = Lots => Over(o)
                   /\ o \in cancels => Over(o)

\* A cancellation that was announced has happened.
EventsTrue == \A i \in 1..Len(stream) : stream[i].state = "cancel" => Over(stream[i].ord)

\* Before its POST an order is not at the exchange; a sell that has seen its
\* whole volume executed is over.
SubmitsTrue ==
  \A s \in Submitters :
    /\ sub[s].pc \in {"checked", "recorded"} =>
         exState[sub[s].ord] = "none" /\ sub[s].ord \notin wire
    /\ sub[s].pc = "recorded" => orders[sub[s].ord].status \notin Terminal
    /\ sub[s].pc = "confirm" /\ sub[s].vol = Lots => Over(sub[s].ord)

\* A final answer stays right while a reconciler holds it.
AnswersTrue ==
  \A t \in Threads : rc[t].pc = "apply" =>
    /\ rc[t].ans.state \in {"done", "cancel"} => Over(rc[t].ord)
    /\ rc[t].mode # "full" => rc[t].was \in Unresolved

\* What the journal's last words rest on.
TrackInv == FinalIsOver /\ EventsTrue /\ SubmitsTrue /\ AnswersTrue

\* An order that is, or may become, an open order of the exchange.
Hot(o) == IsUnresolved(o) \/ \E s \in Submitters : sub[s].pc = "checked" /\ sub[s].ord = o

OneHot == \A o, p \in Order \ Buys :
            o # p /\ MarketOf[o] = MarketOf[p] => ~(Hot(o) /\ Hot(p))

\* What a mark writes: a record of an order that had one, in place of it.
MarkOf(o, rec) ==
  /\ orders' = Marked(o, rec)
  /\ Recorded(o) /\ rec \in OrderRec /\ rec.status # "NONE"

\* Evidence: the mark calls final only what was final, or is over or refused.
Evident(o, rec) ==
  rec.status \in Terminal => \/ orders[o].status \in Terminal \/ Over(o)
                             \/ o \in wire \ wire' /\ exState' = exState

\* Some mark that rests on evidence.
MarkStep == \E o \in Order, rec \in OrderRec :
              MarkOf(o, rec) /\ (TrackInv /\ ~GatewayErrors => Evident(o, rec))

\* The file follows the memory, and the memory changes by an intent or a mark.
Journaled ==
  /\ disk'.orders = orders'
  /\ orders' = orders \/ (\E s \in Submitters : RecordIntent(s)) \/ MarkStep

\* With saves that succeed, the file follows the memory.
LEMMA SavedJournal ==
  ASSUME ~SaveMayFail, NEW os, NEW g, Journal(os, g) \/ JournalTwice(os, g)
  PROVE  orders' = os /\ disk'.orders = os
  BY DEF Journal, JournalTwice, File

\* What process_order_fill writes is a mark.
LEMMA FillMarks ==
  ASSUME TypeOK, ~SaveMayFail, NEW o \in Order, Recorded(o), NEW st \in Status,
         NEW vol \in 0..Lots, NEW basis, ProcessOrderFill(o, st, vol, basis)
  PROVE  /\ disk'.orders = orders'
         /\ \E rec \in OrderRec : /\ MarkOf(o, rec)
                                  /\ rec.status \in Terminal => rec.status \in {orders[o].status, st}
<1>0. orders[o] \in OrderRec /\ orders[o].status # "NONE"
  BY DEF TypeOK, Recorded
<1>1. CASE Journal(Marked(o, [orders[o] EXCEPT !.status = "RECONCILIATION_PENDING"]), gate)
  <2> DEFINE rec == [orders[o] EXCEPT !.status = "RECONCILIATION_PENDING"]
  <2>1. rec \in OrderRec /\ rec.status = "RECONCILIATION_PENDING"
    BY <1>0 DEF OrderRec, Status
  <2> HIDE DEF rec
  <2>2. Journal(Marked(o, rec), gate)
    BY <1>1 DEF rec
  <2> QED BY <2>1, <2>2, SavedJournal DEF MarkOf, Terminal
<1>2. CASE Journal(Marked(o, FillRecord(o, st, vol)), gate)
  <2>1. /\ FillRecord(o, st, vol) \in OrderRec
        /\ FillRecord(o, st, vol).status \in {orders[o].status, st}
    BY <1>0 DEF OrderRec, FillRecord, FillStatus
  <2>2. st # "NONE"
    BY DEF Status
  <2> QED BY <1>0, <1>2, <2>1, <2>2, SavedJournal DEF MarkOf
<1> QED BY <1>1, <1>2 DEF ProcessOrderFill

\* A mark that changes the state of the record, and what comes with it.
LEMMA StatusMarks ==
  ASSUME TypeOK, ~SaveMayFail, NEW o \in Order, Recorded(o), NEW rec \in OrderRec,
         rec.status # "NONE", NEW g,
         Journal(Marked(o, rec), g) \/ JournalTwice(Marked(o, rec), g)
  PROVE  disk'.orders = orders' /\ MarkOf(o, rec)
  BY SavedJournal DEF MarkOf

\* A step that leaves the journal and its file alone.
LEMMA NoMark ==
  ASSUME KnownInv, UNCHANGED <<orders, disk>>
  PROVE  disk'.orders = orders'
  BY DEF KnownInv

\* What a submitter writes.
LEMMA SubmitMarks ==
  ASSUME TypeOK, KnownInv, ~SaveMayFail, NEW s \in Submitters, SubmitNext(s)
  PROVE  Journaled
<1> DEFINE o == sub[s].ord
<1>0. /\ sub[s].pc # "idle" => o \in Order /\ orders[o] \in OrderRec
      /\ sub[s].vol \in 0..Lots
      /\ sub[s].pc \notin {"idle", "checked"} => Recorded(o)
  BY DEF TypeOK, SubRec, KnownInv
<1> HIDE DEF o
<1>1. ASSUME NEW p \in Order, SubmitCheck(s, p)
      PROVE  Journaled
  BY <1>1, NoMark DEF SubmitCheck, journalVars, Journaled
<1>2. CASE RecordIntent(s)
  BY <1>2, SavedJournal DEF RecordIntent, Journaled
<1>3. ASSUME CreateOrder(s) \/ ReadExit(s)
      PROVE  Journaled
  BY <1>3, NoMark DEF CreateOrder, ReadExit, journalVars, Journaled
<1>4. ASSUME NEW st \in Status, NEW k \in BOOLEAN, NEW after, sub[s].pc = "posted",
             SubmitEnd(s, [orders[o] EXCEPT !.status = st, !.known = k], after),
             ~GatewayErrors => st \notin Terminal \/ (o \in wire \ wire' /\ exState' = exState)
      PROVE  Journaled
  <2> DEFINE rec == [orders[o] EXCEPT !.status = st, !.known = k]
  <2>1. rec \in OrderRec /\ rec.status = st /\ st # "NONE"
    BY <1>0, <1>4 DEF OrderRec, Status
  <2> HIDE DEF rec
  <2>2. Journal(Marked(o, rec), gate)
    BY <1>4 DEF SubmitEnd, rec, o
  <2>3. disk'.orders = orders' /\ MarkOf(o, rec)
    BY <1>0, <1>4, <2>1, <2>2, StatusMarks
  <2> QED BY <1>0, <1>4, <2>1, <2>3 DEF MarkStep, Evident, Journaled
<1>5. CASE SubmitAck(s)
  BY <1>4, <1>5 DEF SubmitAck, Status, Terminal, o
<1>6. ASSUME NEW st \in {"UNKNOWN", "FAILED"}, sub[s].pc = "posted",
             SubmitEnd(s, [orders[o] EXCEPT !.status = st], SubIdle),
             ~GatewayErrors => st \notin Terminal \/ (o \in wire \ wire' /\ exState' = exState)
      PROVE  Journaled
  <2>1. /\ orders[o].known \in BOOLEAN
        /\ [orders[o] EXCEPT !.status = st]
             = [orders[o] EXCEPT !.status = st, !.known = orders[o].known]
    BY <1>0, <1>6 DEF OrderRec
  <2> QED BY <1>4, <1>6, <2>1 DEF Status
<1>7. CASE SubmitTimeout(s)
  BY <1>6, <1>7 DEF SubmitTimeout, Terminal, o
<1>8. CASE SubmitReject(s)
  BY <1>6, <1>8 DEF SubmitReject, o
<1>9. CASE SubmitGatewayError(s)
  BY <1>6, <1>9 DEF SubmitGatewayError, o
<1>10. CASE RecordExit(s)
  <2> DEFINE st == ConfirmedStatus(sub[s].vol)
  <2>1. st \in Status /\ (st \in Terminal => sub[s].vol = Lots)
    BY DEF ConfirmedStatus, Status, Terminal
  <2> HIDE DEF st
  <2>2. sub[s].pc = "confirm" /\ ProcessOrderFill(o, st, sub[s].vol, TRUE)
    BY <1>10 DEF RecordExit, st, o
  <2>3. TrackInv /\ st \in Terminal => Over(o)
    BY <2>1, <2>2 DEF TrackInv, SubmitsTrue, o
  <2>4. /\ disk'.orders = orders'
        /\ \E rec \in OrderRec : /\ MarkOf(o, rec)
                                 /\ rec.status \in Terminal => rec.status \in {orders[o].status, st}
    BY <1>0, <2>1, <2>2, FillMarks
  <2> QED BY <1>0, <2>2, <2>3, <2>4 DEF MarkStep, Evident, Journaled
<1>11. ASSUME DieInRecordExit(s)
       PROVE  Journaled
  BY <1>11 DEF DieInRecordExit, DieInFill, Reload, KnownInv, Journaled
<1> QED BY <1>1, <1>2, <1>3, <1>5, <1>7, <1>8, <1>9, <1>10, <1>11 DEF SubmitNext

\* What the exchange and the bot's cancels write.
LEMMA CancelMarks ==
  ASSUME TypeOK, KnownInv, ~SaveMayFail, NEW o \in Order,
         ExchangeNext(o) \/ BotCancel(o) \/ MarkByUuid(o)
  PROVE  Journaled
<1>1. CASE MarkByUuid(o)
  <2> DEFINE rec == [orders[o] EXCEPT !.status = "CANCELED"]
  <2>1. rec \in OrderRec /\ rec.status = "CANCELED"
    BY DEF TypeOK, OrderRec, Status
  <2> HIDE DEF rec
  <2>2. o \in cancels /\ Journal(Marked(o, rec), gate)
    BY <1>1 DEF MarkByUuid, rec
  <2>3. Recorded(o)
    BY <2>2 DEF KnownInv, Posted
  <2>4. TrackInv => Over(o)
    BY <2>2 DEF TrackInv, FinalIsOver
  <2>5. disk'.orders = orders' /\ MarkOf(o, rec)
    BY <2>1, <2>2, <2>3, StatusMarks
  <2> QED BY <2>4, <2>5 DEF Journaled, MarkStep, MarkOf, Evident
<1>2. CASE ExchangeNext(o) \/ BotCancel(o)
  <2>1. UNCHANGED <<orders, disk>>
    BY <1>2 DEF ExchangeNext, ExchangeAccept, ExchangeLosePost, ExchangeFill, ExchangeCancel,
       BotCancel, journalVars
  <2> QED BY <2>1, NoMark DEF Journaled
<1> QED BY <1>1, <1>2

\* What an event's record says.
LEMMA EventState ==
  ASSUME TypeOK, NEW e \in Event
  PROVE  /\ EventRecord(e).status \in Status
         /\ EventRecord(e).status \in Terminal => e.state = "cancel"
<1> DEFINE r == [orders[e.ord] EXCEPT !.known = TRUE]
<1>1. r \in OrderRec
  BY DEF TypeOK, OrderRec, Event
<1> HIDE DEF r
<1>2. [r EXCEPT !.status = "OPEN"].status = "OPEN"
  BY <1>1 DEF OrderRec
<1>3. [r EXCEPT !.status = "RECONCILIATION_PENDING"].status = "RECONCILIATION_PENDING"
  BY <1>1 DEF OrderRec
<1> DEFINE c == [r EXCEPT !.status = "CANCELED", !.executed = IF e.vol > 0 THEN e.vol ELSE @]
<1>4. c.status = "CANCELED"
  BY <1>1 DEF OrderRec
<1> QED BY <1>2, <1>3, <1>4 DEF EventRecord, r, Status, Terminal

\* What a private event writes.
LEMMA EventMarks ==
  ASSUME TypeOK, KnownInv, ~SaveMayFail, ApplyPrivateEvent
  PROVE  Journaled
<1> DEFINE e == Head(stream)
<1>1. e \in Event /\ e.ord \in Order /\ 1 \in 1..Len(stream) /\ e = stream[1]
  <2>1. stream # <<>> /\ stream \in Seq(Event)
    BY DEF ApplyPrivateEvent, TypeOK
  <2>2. e \in Event /\ e = stream[1]
    BY <2>1
  <2>3. 1 \in 1..Len(stream)
    BY <2>1
  <2> QED BY <2>2, <2>3 DEF Event
<1>2. /\ EventRecord(e) \in OrderRec /\ EventRecord(e).status # "NONE"
      /\ EventRecord(e).status \in Terminal => e.state = "cancel"
  BY <1>1, EventRecordType, EventState DEF Status
<1>3. TrackInv /\ e.state = "cancel" => Over(e.ord)
  BY <1>1 DEF TrackInv, EventsTrue
<1>4. CASE Recorded(e.ord)
  <2>1. Journal(Marked(e.ord, EventRecord(e)), gate)
    BY <1>4 DEF ApplyPrivateEvent
  <2>2. disk'.orders = orders' /\ MarkOf(e.ord, EventRecord(e))
    BY <1>1, <1>2, <1>4, <2>1, StatusMarks
  <2> QED BY <1>1, <1>2, <1>3, <2>2 DEF Journaled, MarkStep, Evident
<1>5. CASE ~Recorded(e.ord)
  BY <1>5, NoMark DEF ApplyPrivateEvent, journalVars, Journaled
<1> QED BY <1>4, <1>5

\* What a reconciliation step writes when it applies an answer.
LEMMA AnswerMarks ==
  ASSUME TypeOK, KnownInv, ~SaveMayFail, NEW t \in Threads, rc[t].pc = "apply",
         NEW was \in Status,
         was = orders[rc[t].ord].status \/ (rc[t].mode # "full" /\ was = rc[t].was),
         ProcessOrderFill(rc[t].ord, MapState(rc[t].ans.state, was), rc[t].ans.vol,
                          rc[t].ord \notin NoBasis)
  PROVE  Journaled
<1> DEFINE o == rc[t].ord
           a == rc[t].ans
           st == MapState(a.state, was)
<1>1. o \in Order /\ Recorded(o) /\ a.vol \in 0..Lots
  BY DEF TypeOK, RcRec, Answer, KnownInv
<1>2. /\ st \in Status
      /\ st \in Terminal => a.state \in {"done", "cancel"} \/ st = was
  BY StatusTypes DEF MapState, Terminal
<1>3. ProcessOrderFill(o, st, a.vol, o \notin NoBasis)
  OBVIOUS
<1>4. TrackInv => /\ a.state \in {"done", "cancel"} => Over(o)
                  /\ rc[t].mode # "full" => rc[t].was \notin Terminal
  BY DEF TrackInv, AnswersTrue, Terminal, Unresolved
<1>5. was = orders[o].status \/ (rc[t].mode # "full" /\ was = rc[t].was)
  OBVIOUS
<1> HIDE DEF o, a, st
<1>6. /\ disk'.orders = orders'
      /\ \E rec \in OrderRec : /\ MarkOf(o, rec)
                               /\ rec.status \in Terminal => rec.status \in {orders[o].status, st}
  BY <1>1, <1>2, <1>3, FillMarks
<1>7. TrackInv /\ st \in Terminal => Over(o) \/ orders[o].status \in Terminal
  BY <1>2, <1>4, <1>5
<1> QED BY <1>1, <1>6, <1>7 DEF MarkStep, Evident, Journaled

\* What a reconciliation step writes when it parks the order.
LEMMA ParkMarks ==
  ASSUME TypeOK, KnownInv, ~SaveMayFail, NEW o \in Order, Recorded(o), NEW g,
         \/ Journal(Marked(o, [orders[o] EXCEPT !.status = "RECONCILIATION_PENDING"]), g)
         \/ JournalTwice(Marked(o, [orders[o] EXCEPT !.status = "RECONCILIATION_PENDING"]), g)
  PROVE  Journaled
<1> DEFINE rec == [orders[o] EXCEPT !.status = "RECONCILIATION_PENDING"]
<1>1. rec \in OrderRec /\ rec.status = "RECONCILIATION_PENDING"
  BY DEF TypeOK, OrderRec, Status
<1> HIDE DEF rec
<1>2. disk'.orders = orders' /\ MarkOf(o, rec)
  BY <1>1, StatusMarks DEF rec
<1> QED BY <1>1, <1>2 DEF Journaled, MarkStep, MarkOf, Evident, Terminal

\* What a reconciler writes.
LEMMA PassMarks ==
  ASSUME TypeOK, KnownInv, ~SaveMayFail, NEW t \in Threads,
         FullPass(t) \/ SinglePass(t) \/ DieInApply(t)
  PROVE  Journaled
<1>0. rc[t].pc = "apply" => /\ rc[t].ord \in Order /\ Recorded(rc[t].ord)
                            /\ orders[rc[t].ord].status \in Status
                            /\ rc[t].mode # "full" => rc[t].was \in Status
  BY DEF TypeOK, RcRec, OrderRec, KnownInv, Recorded
<1>1. CASE ApplyFull(t)
  BY <1>0, <1>1, AnswerMarks DEF ApplyFull
<1>2. CASE ApplySingle(t)
  BY <1>0, <1>2, AnswerMarks DEF ApplySingle
<1>3. CASE RejectFull(t)
  BY <1>0, <1>3, ParkMarks DEF RejectFull
<1>4. CASE RejectSingle(t)
  BY <1>0, <1>4, ParkMarks DEF RejectSingle
<1>5. CASE EndFull(t)
  BY <1>5 DEF EndFull, File, Journaled
<1>6. CASE Finish(t)
  BY <1>6, NoMark DEF Finish, File, Journaled, KnownInv
<1>7. ASSUME NEW o \in Order, FailSingle(t, o) PROVE Journaled
  BY <1>7, SavedJournal DEF FailSingle, Journaled
<1>8. ASSUME NEW o \in Order, FetchFull(t, o) \/ FailFull(t, o) \/ BeginSingle(t, o)
      PROVE  Journaled
  BY <1>8, NoMark DEF FetchFull, FailFull, BeginSingle, journalVars, Journaled
<1>9. CASE BeginFull(t)
  BY <1>9, NoMark DEF BeginFull, journalVars, Journaled
<1>10. CASE DieInApply(t)
  BY <1>10 DEF DieInApply, DieInFill, Reload, KnownInv, Journaled
<1> QED BY <1>1, <1>2, <1>3, <1>4, <1>5, <1>6, <1>7, <1>8, <1>9, <1>10 DEF FullPass, SinglePass

\* Every step writes an intent, a mark or nothing.
LEMMA StepMarks ==
  ASSUME TypeOK, KnownInv, ~SaveMayFail, [Next]_vars
  PROVE  Journaled
<1>1. CASE UNCHANGED vars
  BY <1>1, NoMark DEF vars, Journaled
<1>2. CASE Restart
  BY <1>2 DEF Restart, Reload, KnownInv, Journaled
<1> QED BY <1>1, <1>2, SubmitMarks, CancelMarks, EventMarks, PassMarks DEF Next

\* The order has a record after the step.
RecordedNext(o) == orders'[o].status # "NONE"

\* No step loses a record or takes an order out of a final state, and only an
\* intent makes a new record.
LEMMA RecordsStay ==
  ASSUME TypeOK, KnownInv, Journaled
  PROVE  /\ \A p \in Order : Recorded(p) => RecordedNext(p)
         /\ \A p \in Order : orders[p].status \in Terminal => orders'[p].status \in Terminal
         /\ \A p \in Order : RecordedNext(p) =>
              Recorded(p) \/ \E s \in Submitters : RecordIntent(s) /\ sub[s].ord = p
<1>0. orders \in [Order -> OrderRec]
  BY DEF TypeOK
<1>1. CASE orders' = orders
  BY <1>1 DEF Recorded, RecordedNext
<1>2. ASSUME NEW s \in Submitters, RecordIntent(s)
      PROVE  /\ \A p \in Order : Recorded(p) => RecordedNext(p)
             /\ \A p \in Order : orders[p].status \in Terminal => orders'[p].status \in Terminal
             /\ \A p \in Order : RecordedNext(p) => Recorded(p) \/ (RecordIntent(s) /\ sub[s].ord = p)
  <2> DEFINE new == [NotRecorded EXCEPT !.status = "PENDING_SUBMISSION"]
             o   == sub[s].ord
  <2>1. new.status # "NONE"
    BY DEF NotRecorded
  <2>2. ~Recorded(o) /\ o \in Order
    BY <1>2 DEF RecordIntent, KnownInv, TypeOK
  <2>3. orders' = [orders EXCEPT ![o] = new]
    BY <1>2 DEF RecordIntent, Journal
  <2> HIDE DEF new, o
  <2>4. \A p \in Order : p # o => orders'[p] = orders[p]
    BY <1>0, <2>3
  <2>5. orders'[o] = new /\ orders[o].status \notin Terminal
    BY <1>0, <2>2, <2>3 DEF Recorded, RecordedNext, Terminal
  <2> QED BY <1>2, <2>1, <2>2, <2>4, <2>5 DEF Recorded, RecordedNext, o
<1>3. ASSUME NEW o \in Order, NEW rec \in OrderRec, MarkOf(o, rec)
      PROVE  /\ \A p \in Order : Recorded(p) => RecordedNext(p)
             /\ \A p \in Order : orders[p].status \in Terminal => orders'[p].status \in Terminal
             /\ \A p \in Order : RecordedNext(p) => Recorded(p)
  <2>1. \A p \in Order : p # o => orders'[p] = orders[p]
    BY <1>0, <1>3 DEF MarkOf, Marked
  <2>2. orders'[o] = rec \/ orders'[o] = orders[o]
    BY <1>0, <1>3 DEF MarkOf, Marked
  <2>3. orders[o].status \in Terminal /\ orders'[o] = rec /\ orders'[o] # orders[o]
          => rec.status \in Terminal
    BY <1>0, <1>3 DEF MarkOf, Marked
  <2> QED BY <1>3, <2>1, <2>2, <2>3 DEF MarkOf, Recorded, RecordedNext
<1> QED BY <1>1, <1>2, <1>3 DEF Journaled, MarkStep

\* A step that is no intent records no order that had no record.
LEMMA NoNewRecord ==
  ASSUME TypeOK, KnownInv, Journaled, \A s \in Submitters : ~RecordIntent(s)
  PROVE  \A p \in Order : Recorded(p) <=> RecordedNext(p)
  BY RecordsStay

-----------------------------------------------------------------------------
(* KnownInv is inductive *)

\* A submitter's step: what its new record must say.
LEMMA SubmitterKnown ==
  ASSUME TypeOK, KnownInv, Journaled, NEW s \in Submitters, NEW r,
         sub' = [sub EXCEPT ![s] = r], UNCHANGED rc,
         \A o \in Order : Posted(o)' => RecordedNext(o),
         r.ord \in Order \cup {None},
         r.pc = "idle" => r.ord = None,
         r.pc = "checked" => ~RecordedNext(r.ord) /\ r.ord \in Order,
         r.pc \notin {"idle", "checked"} => RecordedNext(r.ord) /\ r.ord \in Order,
         \A p \in Submitters : p # s => (sub[p].pc = "checked" => ~RecordedNext(sub[p].ord)),
         r.pc # "idle" => \A p \in Submitters : p # s => sub[p].ord # r.ord
  PROVE  KnownInv'
<1>0. disk'.orders = orders'
  BY DEF Journaled
<1>1. /\ sub'[s] = r
      /\ \A p \in Submitters : p # s => sub'[p] = sub[p]
  BY DEF TypeOK
<1>2. \A p \in Submitters : /\ sub'[p].pc = "checked" => ~(RecordedNext(sub'[p].ord))
                            /\ sub'[p].pc \notin {"idle", "checked"} => RecordedNext(sub'[p].ord)
                            /\ sub'[p].pc = "idle" => sub'[p].ord = None
  BY <1>1, RecordsStay DEF KnownInv, TypeOK
<1>3. \A p, q \in Submitters : p # q /\ sub'[p].pc # "idle" => sub'[p].ord # sub'[q].ord
  <2> SUFFICES ASSUME NEW p \in Submitters, NEW q \in Submitters, p # q, sub'[p].pc # "idle"
               PROVE  sub'[p].ord # sub'[q].ord
    OBVIOUS
  <2>1. CASE p # s /\ q # s
    BY <1>1, <2>1 DEF KnownInv
  <2>2. CASE p = s
    BY <1>1, <2>2
  <2>3. CASE q = s /\ r.pc # "idle"
    BY <1>1, <2>3
  <2>4. CASE q = s /\ r.pc = "idle"
    BY <1>1, <2>4, OrderAssumption DEF TypeOK
  <2> QED BY <2>1, <2>2, <2>3, <2>4
<1>4. \A t \in Threads : rc'[t].pc = "apply" =>
        RecordedNext(rc'[t].ord) /\ (rc'[t].mode # "full" => rc'[t].was # "NONE")
  BY RecordsStay DEF KnownInv, TypeOK
<1> QED BY <1>0, <1>2, <1>3, <1>4 DEF KnownInv, Recorded, RecordedNext

\* A step that leaves the submitters and reconcilers alone.
LEMMA ElsewhereKnown ==
  ASSUME TypeOK, KnownInv, Journaled, UNCHANGED <<sub, rc>>,
         \A s \in Submitters : ~RecordIntent(s),
         \A o \in Order : Posted(o)' => Posted(o)
  PROVE  KnownInv'
<1>1. \A p \in Order : Recorded(p) <=> RecordedNext(p)
  BY NoNewRecord
<1>2. \A s \in Submitters : sub[s].pc # "idle" => sub[s].ord \in Order
  BY DEF TypeOK
<1>3. \A t \in Threads : rc[t].pc = "apply" => rc[t].ord \in Order
  BY DEF TypeOK
<1>4. \A s \in Submitters : /\ sub'[s].pc = "checked" => ~(RecordedNext(sub'[s].ord))
                            /\ sub'[s].pc \notin {"idle", "checked"} => RecordedNext(sub'[s].ord)
                            /\ sub'[s].pc = "idle" => sub'[s].ord = None
  BY <1>1, <1>2 DEF KnownInv
<1>5. \A t \in Threads : rc'[t].pc = "apply" =>
        RecordedNext(rc'[t].ord) /\ (rc'[t].mode # "full" => rc'[t].was # "NONE")
  BY <1>1, <1>3 DEF KnownInv
<1> QED BY <1>1, <1>4, <1>5 DEF KnownInv, Journaled, Recorded, RecordedNext

\* A step of a reconciler: what its new record must say.
LEMMA ReconcilerKnown ==
  ASSUME TypeOK, KnownInv, Journaled, NEW t \in Threads, NEW r,
         rc' = [rc EXCEPT ![t] = r], UNCHANGED <<sub, exState, wire, cancels>>,
         \A s \in Submitters : ~RecordIntent(s),
         r.pc = "apply" => /\ r.ord \in Order /\ Recorded(r.ord)
                           /\ r.mode # "full" => r.was # "NONE"
  PROVE  KnownInv'
<1>1. \A p \in Order : Recorded(p) <=> RecordedNext(p)
  BY NoNewRecord
<1>2. \A s \in Submitters : /\ sub'[s].pc = "checked" => ~(RecordedNext(sub'[s].ord))
                            /\ sub'[s].pc \notin {"idle", "checked"} => RecordedNext(sub'[s].ord)
                            /\ sub'[s].pc = "idle" => sub'[s].ord = None
  BY <1>1 DEF KnownInv, TypeOK
<1>3. \A u \in Threads : rc'[u].pc = "apply" =>
        RecordedNext(rc'[u].ord) /\ (rc'[u].mode # "full" => rc'[u].was # "NONE")
  <2>1. rc'[t] = r /\ \A u \in Threads : u # t => rc'[u] = rc[u]
    BY DEF TypeOK
  <2> QED BY <1>1, <2>1 DEF KnownInv, TypeOK
<1>4. \A o \in Order : Posted(o)' => RecordedNext(o)
  BY <1>1 DEF KnownInv, Posted
<1> QED BY <1>2, <1>3, <1>4 DEF KnownInv, Journaled, Recorded, RecordedNext

\* A death forgets what the threads were doing, not what the exchange has.
LEMMA ReloadKnown ==
  ASSUME TypeOK, KnownInv, Reload
  PROVE  KnownInv'
<1>1. orders' = orders /\ disk' = disk
  BY DEF Reload, KnownInv
<1>2. \A o \in Order : Posted(o)' => Posted(o)
  BY DEF Reload, Posted
<1>3. \A s \in Submitters : sub'[s].pc = "idle" /\ sub'[s].ord = None
  BY DEF Reload, SubIdle
<1>4. \A t \in Threads : rc'[t].pc # "apply"
  BY DEF Reload, RcIdle
<1> QED BY <1>1, <1>2, <1>3, <1>4 DEF KnownInv, Recorded

\* The steps of a submitter.
LEMMA SubmitKnown ==
  ASSUME TypeOK, KnownInv, ~SaveMayFail, NEW s \in Submitters, SubmitNext(s)
  PROVE  KnownInv'
<1> DEFINE o == sub[s].ord
           fresh == [SubIdle EXCEPT !.pc = "checked"]
<1>j. Journaled
  BY SubmitMarks
<1>0. /\ sub[s] \in SubRec /\ (sub[s].pc # "idle" => o \in Order)
      /\ \A p \in Submitters : p # s /\ sub[s].pc # "idle" => sub[p].ord # o
      /\ \A p \in Submitters : sub[p].pc = "checked" => sub[p].ord \in Order
      /\ SubIdle.pc = "idle" /\ SubIdle.ord = None
  BY DEF TypeOK, KnownInv, SubIdle
<1> HIDE DEF o
\* Any step but RecordIntent: no record is new.
<1>a. ASSUME NEW r, sub' = [sub EXCEPT ![s] = r], sub' # sub, r.pc # "recorded", UNCHANGED rc,
             \A p \in Order : Posted(p)' => Recorded(p),
             r.ord \in Order \cup {None},
             r.pc = "idle" => r.ord = None,
             r.pc = "checked" => ~Recorded(r.ord) /\ r.ord \in Order,
             r.pc \notin {"idle", "checked"} => Recorded(r.ord) /\ r.ord \in Order,
             r.pc # "idle" => \A p \in Submitters : p # s => sub[p].ord # r.ord
      PROVE  KnownInv'
  <2>1. \A p \in Submitters : ~RecordIntent(p)
    <3> SUFFICES ASSUME NEW p \in Submitters, RecordIntent(p) PROVE FALSE
      OBVIOUS
    <3>1. sub'[p].pc = "recorded" /\ sub[p].pc = "checked"
      BY DEF RecordIntent, TypeOK, SubRec
    <3> QED BY <1>a, <3>1 DEF TypeOK
  <2>2. \A p \in Order : Recorded(p) <=> RecordedNext(p)
    BY <1>j, <2>1, NoNewRecord
  <2> QED BY <1>0, <1>a, <1>j, <2>2, SubmitterKnown DEF KnownInv
<1>1. ASSUME NEW p \in Order, SubmitCheck(s, p) PROVE KnownInv'
  <2> DEFINE r == [SubIdle EXCEPT !.pc = "checked", !.ord = p]
  <2>1. r.pc = "checked" /\ r.ord = p
    BY DEF SubIdle
  <2>2. sub' = [sub EXCEPT ![s] = r] /\ UNCHANGED <<rc, exState, wire, cancels>>
    BY <1>1 DEF SubmitCheck, exchangeVars
  <2>3. sub[s].pc = "idle" /\ ~Recorded(p) /\ \A q \in Submitters : sub[q].ord # p
    BY <1>1 DEF SubmitCheck, Fresh, Recorded
  <2> HIDE DEF r
  <2>4. sub' # sub
    BY <2>1, <2>2, <2>3 DEF TypeOK
  <2>5. \A q \in Order : Posted(q)' => Recorded(q)
    BY <2>2 DEF Posted, KnownInv
  <2> QED BY <1>a, <2>1, <2>2, <2>3, <2>4, <2>5
<1>2. CASE RecordIntent(s)
  <2> DEFINE r == [sub[s] EXCEPT !.pc = "recorded"]
  <2>1. r.pc = "recorded" /\ r.ord = o
    BY <1>0 DEF SubRec, o
  <2>2. sub' = [sub EXCEPT ![s] = r] /\ UNCHANGED <<rc, exState, wire, cancels>>
    BY <1>2 DEF RecordIntent, exchangeVars
  <2>3. o \in Order /\ sub[s].pc # "idle"
    BY <1>0, <1>2 DEF RecordIntent
  <2>4. RecordedNext(o) /\ \A p \in Order : p # o => (RecordedNext(p) <=> Recorded(p))
    BY <1>2, <2>3 DEF RecordIntent, Journal, TypeOK, RecordedNext, Recorded, NotRecorded, o
  <2> HIDE DEF r
  <2>5. \A q \in Order : Posted(q)' => RecordedNext(q)
    BY <1>j, <2>2, RecordsStay DEF Posted, KnownInv
  <2>6. \A p \in Submitters : p # s => (sub[p].pc = "checked" => ~RecordedNext(sub[p].ord))
    BY <1>0, <2>3, <2>4 DEF KnownInv
  <2> QED BY <1>0, <1>j, <2>1, <2>2, <2>3, <2>4, <2>5, <2>6, SubmitterKnown
<1>3. CASE CreateOrder(s)
  <2> DEFINE r == [sub[s] EXCEPT !.pc = "posted"]
  <2>1. r.pc = "posted" /\ r.ord = o /\ sub[s].pc = "recorded" /\ o \in Order /\ Recorded(o)
    BY <1>0, <1>3 DEF CreateOrder, SubRec, KnownInv, o
  <2>2. sub' = [sub EXCEPT ![s] = r] /\ UNCHANGED <<rc, exState, cancels>> /\ wire' = wire \cup {o}
    BY <1>3 DEF CreateOrder, o
  <2> HIDE DEF r
  <2>4. sub' # sub
    BY <2>1, <2>2 DEF TypeOK
  <2>5. \A q \in Order : Posted(q)' => Recorded(q)
    BY <2>1, <2>2 DEF Posted, KnownInv
  <2> QED BY <1>0, <1>a, <2>1, <2>2, <2>4, <2>5
<1>4. ASSUME NEW r \in {SubIdle, [sub[s] EXCEPT !.pc = "acked"]}, sub' = [sub EXCEPT ![s] = r],
             sub[s].pc \in {"posted", "confirm", "acked"}, sub[s].pc # "acked" \/ r = SubIdle,
             UNCHANGED <<rc, exState, cancels>>, wire' \subseteq wire
      PROVE  KnownInv'
  <2>1. \/ r.pc = "idle" /\ r.ord = None
        \/ r.pc = "acked" /\ r.ord = o /\ r # sub[s]
    BY <1>0, <1>4 DEF SubRec, o
  <2>2. r # sub[s] /\ Recorded(o) /\ o \in Order
    BY <1>0, <1>4, <2>1 DEF KnownInv, o
  <2>3. sub' # sub
    BY <1>4, <2>2 DEF TypeOK
  <2>5. \A q \in Order : Posted(q)' => Recorded(q)
    BY <1>4 DEF Posted, KnownInv
  <2> HIDE DEF o
  <2> QED BY ONLY <1>0, <1>a, <1>4, <2>1, <2>2, <2>3, <2>5
<1>5. CASE SubmitAck(s)
  BY <1>4, <1>5 DEF SubmitAck, SubmitEnd, exchangeVars
<1>6. CASE SubmitTimeout(s) \/ SubmitGatewayError(s)
  BY <1>4, <1>6 DEF SubmitTimeout, SubmitGatewayError, SubmitEnd, exchangeVars
<1>7. CASE SubmitReject(s)
  <2>1. sub[s].pc = "posted" /\ sub' = [sub EXCEPT ![s] = SubIdle]
    BY <1>7 DEF SubmitReject, SubmitEnd
  <2>2. UNCHANGED <<rc, exState, cancels>> /\ wire' \subseteq wire
    BY <1>7 DEF SubmitReject, SubmitEnd
  <2> QED BY <1>4, <2>1, <2>2
<1>8. CASE ReadExit(s)
  <2> DEFINE r == [sub[s] EXCEPT !.pc = "confirm", !.vol = exVol[o]]
  <2>1. sub[s].pc = "acked" /\ UNCHANGED <<rc, exState, cancels, wire>>
    BY <1>8 DEF ReadExit, exchangeVars
  <2>2. CASE sub' = [sub EXCEPT ![s] = SubIdle]
    BY <1>4, <2>1, <2>2
  <2>3. CASE sub' = [sub EXCEPT ![s] = r]
    <3>1. r.pc = "confirm" /\ r.ord = o /\ o \in Order /\ Recorded(o)
      BY <1>0, <2>1 DEF SubRec, KnownInv, o
    <3> HIDE DEF r
    <3>2. sub' # sub
      BY <2>1, <2>3, <3>1 DEF TypeOK
    <3>3. \A q \in Order : Posted(q)' => Recorded(q)
      BY <2>1 DEF Posted, KnownInv
    <3> QED BY <1>0, <1>a, <2>1, <2>3, <3>1, <3>2, <3>3
  <2> QED BY <1>8, <2>2, <2>3 DEF ReadExit, o
<1>9. CASE RecordExit(s)
  BY <1>4, <1>9 DEF RecordExit, exchangeVars
<1>10. CASE DieInRecordExit(s)
  BY <1>10, ReloadKnown DEF DieInRecordExit, DieInFill
<1> QED BY <1>1, <1>2, <1>3, <1>5, <1>6, <1>7, <1>8, <1>9, <1>10 DEF SubmitNext

\* Only the submitters write intents.
LEMMA NotAnIntent ==
  ASSUME TypeOK, UNCHANGED sub
  PROVE  \A s \in Submitters : ~RecordIntent(s)
<1> SUFFICES ASSUME NEW s \in Submitters, RecordIntent(s) PROVE FALSE
  OBVIOUS
<1>1. sub'[s].pc = "recorded" /\ sub[s].pc = "checked"
  BY DEF RecordIntent, TypeOK, SubRec
<1> QED BY <1>1

\* The steps of the exchange, of the bot's cancels and of private events.
LEMMA CancelKnown ==
  ASSUME TypeOK, KnownInv, ~SaveMayFail, NEW o \in Order,
         ExchangeNext(o) \/ BotCancel(o) \/ MarkByUuid(o)
  PROVE  KnownInv'
<1>1. Journaled
  BY CancelMarks
<1>2. UNCHANGED <<sub, rc>>
  BY DEF ExchangeNext, ExchangeAccept, ExchangeLosePost, ExchangeFill, ExchangeCancel,
     BotCancel, MarkByUuid
<1>3. \A p \in Order : Posted(p)' => Posted(p)
  <2>1. CASE ExchangeAccept(o)
    BY <2>1 DEF ExchangeAccept, Posted, TypeOK
  <2>2. CASE ExchangeLosePost(o)
    BY <2>2 DEF ExchangeLosePost, Posted
  <2>3. CASE ExchangeFill(o)
    BY <2>3 DEF ExchangeFill, Posted, Live, TypeOK
  <2>4. CASE ExchangeCancel(o)
    BY <2>4 DEF ExchangeCancel, Posted, Live, TypeOK
  <2>5. CASE BotCancel(o)
    BY <2>5 DEF BotCancel, Posted, Live, TypeOK
  <2>6. CASE MarkByUuid(o)
    BY <2>6 DEF MarkByUuid, Posted, exchangeVars
  <2> QED BY <2>1, <2>2, <2>3, <2>4, <2>5, <2>6 DEF ExchangeNext
<1> QED BY <1>1, <1>2, <1>3, ElsewhereKnown, NotAnIntent

\* An event marks an order that has a record, and moves nothing else.
LEMMA EventKnown ==
  ASSUME TypeOK, KnownInv, ~SaveMayFail, ApplyPrivateEvent
  PROVE  KnownInv'
<1>1. UNCHANGED <<sub, rc>> /\ \A o \in Order : Posted(o)' => Posted(o)
  BY DEF ApplyPrivateEvent, Posted
<1> QED BY <1>1, ElsewhereKnown, EventMarks, NotAnIntent

\* The steps of the reconcilers.
LEMMA PassKnown ==
  ASSUME TypeOK, FillInv, KnownInv, ~SaveMayFail, NEW t \in Threads,
         FullPass(t) \/ SinglePass(t) \/ DieInApply(t)
  PROVE  KnownInv'
<1>j. Journaled
  BY PassMarks
<1>0. rc[t] \in RcRec
  BY DEF TypeOK
<1>a. ASSUME NEW r, rc' = [rc EXCEPT ![t] = r], UNCHANGED <<sub, exState, wire, cancels>>,
             r.pc = "apply" => /\ r.ord \in Order /\ Recorded(r.ord)
                               /\ r.mode # "full" => r.was # "NONE"
      PROVE  KnownInv'
  BY <1>a, <1>j, ReconcilerKnown, NotAnIntent
<1>b. /\ AfterRefusal(t).pc # "apply" /\ RcIdle.pc # "apply"
      /\ \A m : [RcIdle EXCEPT !.pc = "finish", !.mode = m].pc # "apply"
      /\ [RcIdle EXCEPT !.pc = "finish"].pc # "apply"
      /\ [RcIdle EXCEPT !.pc = "scan", !.mode = "full", !.todo = RecordedOrders].pc # "apply"
      /\ [rc[t] EXCEPT !.pc = "scan", !.ord = None, !.ans = EmptyAnswer].pc # "apply"
  BY <1>0 DEF RcIdle, AfterRefusal, RcRec
<1>1. CASE BeginFull(t)
  BY <1>1, <1>a, <1>b DEF BeginFull, exchangeVars
<1>2. ASSUME NEW p \in Order, FetchFull(t, p) PROVE KnownInv'
  <2> DEFINE R(ans) == [rc[t] EXCEPT !.pc = "apply", !.todo = @ \ {p}, !.ord = p, !.ans = ans]
  <2>1. PICK ans \in Answers(p) : rc' = [rc EXCEPT ![t] = R(ans)]
    BY <1>2 DEF FetchFull
  <2>2. /\ R(ans).ord = p
        /\ R(ans).mode = rc[t].mode /\ R(ans).was = rc[t].was
    BY <1>0 DEF RcRec
  <2>3. Recorded(p) /\ UNCHANGED <<sub, exState, wire, cancels>>
    BY <1>2 DEF FetchFull, IsUnresolved, Unresolved, Recorded, exchangeVars
  <2>4. rc[t].mode = "full"
    BY <1>2 DEF FetchFull, FillInv, AnswersWhole
  <2> HIDE DEF R
  <2>5. R(ans).mode = "full"
    BY <2>2, <2>4
  <2> QED BY <1>a, <2>1, <2>2, <2>3, <2>5
<1>3. ASSUME NEW p \in Order, FailFull(t, p) PROVE KnownInv'
  <2> DEFINE r == [rc[t] EXCEPT !.todo = @ \ {p}]
  <2>1. r.pc = "scan" /\ rc' = [rc EXCEPT ![t] = r] /\ UNCHANGED <<sub, exState, wire, cancels>>
    BY <1>0, <1>3 DEF FailFull, RcRec, exchangeVars, TypeOK
  <2> HIDE DEF r
  <2> QED BY <1>a, <2>1
<1>4. CASE ApplyFull(t) \/ RejectFull(t)
  BY <1>4, <1>a, <1>b DEF ApplyFull, RejectFull, exchangeVars
<1>5. CASE EndFull(t)
  BY <1>5, <1>a, <1>b DEF EndFull, exchangeVars
<1>6. ASSUME NEW p \in Order, BeginSingle(t, p) PROVE KnownInv'
  <2> DEFINE R(ans) == [rc[t] EXCEPT !.pc = "apply", !.ord = p, !.ans = ans,
                                     !.was = orders[p].status]
  <2>1. PICK ans \in Answers(p) : rc' = [rc EXCEPT ![t] = R(ans)]
    BY <1>6 DEF BeginSingle
  <2>2. R(ans).ord = p /\ R(ans).was = orders[p].status
    BY <1>0 DEF RcRec
  <2>3. /\ Recorded(p) /\ orders[p].status # "NONE"
        /\ UNCHANGED <<sub, exState, wire, cancels>>
    BY <1>6 DEF BeginSingle, IsUnresolved, Unresolved, Recorded, exchangeVars
  <2> HIDE DEF R
  <2> QED BY <1>a, <2>1, <2>2, <2>3
<1>7. ASSUME NEW p \in Order, FailSingle(t, p) PROVE KnownInv'
  BY <1>7, <1>a, <1>b DEF FailSingle, exchangeVars
<1>8. CASE ApplySingle(t) \/ RejectSingle(t)
  BY <1>8, <1>a, <1>b DEF ApplySingle, RejectSingle, exchangeVars
<1>9. CASE Finish(t)
  BY <1>9, <1>a, <1>b DEF Finish, exchangeVars
<1>10. CASE DieInApply(t)
  BY <1>10, ReloadKnown DEF DieInApply, DieInFill
<1> QED BY <1>1, <1>2, <1>3, <1>4, <1>5, <1>6, <1>7, <1>8, <1>9, <1>10 DEF FullPass, SinglePass

\* The invariant of a journal whose saves succeed.
THEOREM KnownAlways == ASSUME ~SaveMayFail PROVE Spec => []KnownInv
<1>1. Init => KnownInv
  BY DEF Init, KnownInv, File, NotRecorded, Recorded, Posted, SubIdle, RcIdle
<1>2. TypeOK /\ FillInv /\ KnownInv /\ [Next]_vars => KnownInv'
  <2> SUFFICES ASSUME TypeOK, FillInv, KnownInv, [Next]_vars PROVE KnownInv'
    OBVIOUS
  <2>1. CASE UNCHANGED vars
    <3>1. \A o \in Order : Posted(o)' => Posted(o)
      BY <2>1 DEF vars, Posted
    <3> QED BY <2>1, <3>1, StepMarks, NotAnIntent, ElsewhereKnown DEF vars
  <2>2. CASE Restart
    BY <2>2, ReloadKnown DEF Restart
  <2> QED BY <2>1, <2>2, SubmitKnown, CancelKnown, EventKnown, PassKnown DEF Next
<1> QED BY <1>1, <1>2, TypeCorrect, FillAlways, PTL DEF Spec

\* What the exchange knows of the bot's orders, the journal file knows: submit
\* writes the intent before the POST, and no crash loses it.
THEOREM IntentAlwaysDurable == ASSUME ~SaveMayFail PROVE Spec => []IntentIsDurable
<1>1. KnownInv => IntentIsDurable
  BY DEF KnownInv, IntentIsDurable, Posted, Recorded
<1> QED BY <1>1, KnownAlways, PTL

\* A final state is left for no other kind of state: mark() refuses to, an
\* intent is only recorded for an order that has no record, and a crash reloads
\* what was in memory.
THEOREM TerminalStaysFinal == ASSUME ~SaveMayFail PROVE Spec => TerminalIsFinal
<1>1. TypeOK /\ KnownInv /\ [Next]_vars =>
        [\A o \in Order : orders[o].status \in Terminal => orders'[o].status \in Terminal]_vars
  BY StepMarks, RecordsStay
<1> QED BY <1>1, KnownAlways, TypeCorrect, PTL DEF Spec, TerminalIsFinal

-----------------------------------------------------------------------------
(* TrackInv is inductive: a journal whose saves succeed, and an exchange that
   answers every POST it has taken with its order *)

\* How a step may change what the exchange has: an order arrives from the wire,
\* executes, or closes, and a closed order stays as it is.
ExchangeMoves ==
  \A p \in Order :
    /\ p \in wire' => p \in wire \/ \E s \in Submitters : CreateOrder(s) /\ sub[s].ord = p
    /\ \/ exState'[p] = exState[p]
       \/ p \in wire /\ p \notin wire' /\ exState'[p] = "wait" /\ orders' = orders
       \/ Live(p) /\ exState'[p] \in {"trade", "done", "cancel"}
    /\ \/ exVol'[p] = exVol[p]
       \/ Live(p) /\ exState'[p] \in {"trade", "done"} /\ (exVol'[p] = Lots => exState'[p] = "done")
    /\ p \in cancels' => p \in cancels \/ exState'[p] = "cancel"

\* A step of the program that leaves the exchange as it is.
LEMMA ProgramMoves ==
  ASSUME UNCHANGED <<exState, exVol>>, wire' \subseteq wire, cancels' \subseteq cancels
  PROVE  ExchangeMoves
  BY DEF ExchangeMoves

\* A step of one order at the exchange.
LEMMA OrderMoves ==
  ASSUME TypeOK, NEW o \in Order, ExchangeNext(o) \/ BotCancel(o) \/ MarkByUuid(o)
  PROVE  ExchangeMoves
<1>1. CASE ExchangeAccept(o)
  BY <1>1 DEF ExchangeAccept, ExchangeMoves, TypeOK, journalVars
<1>2. CASE ExchangeLosePost(o)
  BY <1>2, ProgramMoves DEF ExchangeLosePost
<1>3. CASE ExchangeFill(o)
  <2>1. /\ Live(o) /\ exState'[o] \in {"trade", "done"}
        /\ exVol'[o] = Lots => exState'[o] = "done"
        /\ \A p \in Order : p # o => exState'[p] = exState[p] /\ exVol'[p] = exVol[p]
        /\ UNCHANGED <<wire, cancels>>
    BY <1>3 DEF ExchangeFill, TypeOK
  <2> QED BY <2>1 DEF ExchangeMoves
<1>4. CASE ExchangeCancel(o)
  BY <1>4 DEF ExchangeCancel, ExchangeMoves, TypeOK
<1>5. CASE BotCancel(o)
  BY <1>5 DEF BotCancel, ExchangeMoves, TypeOK
<1>6. CASE MarkByUuid(o)
  BY <1>6, ProgramMoves DEF MarkByUuid, exchangeVars
<1> QED BY <1>1, <1>2, <1>3, <1>4, <1>5, <1>6 DEF ExchangeNext

\* Every step.
LEMMA StepMoves ==
  ASSUME TypeOK, [Next]_vars
  PROVE  ExchangeMoves
<1>1. CASE UNCHANGED vars
  BY <1>1, ProgramMoves DEF vars
<1>2. ASSUME NEW s \in Submitters, SubmitNext(s) PROVE ExchangeMoves
  <2>1. CASE CreateOrder(s)
    BY <2>1 DEF CreateOrder, ExchangeMoves
  <2>2. CASE DieInRecordExit(s)
    BY <2>2, ProgramMoves DEF DieInRecordExit, DieInFill, Reload
  <2>3. CASE SubmitReject(s)
    BY <2>3, ProgramMoves DEF SubmitReject, SubmitEnd
  <2>4. CASE ~CreateOrder(s) /\ ~DieInRecordExit(s) /\ ~SubmitReject(s)
    <3>1. UNCHANGED <<exState, exVol, wire, cancels>>
      BY <1>2, <2>4 DEF SubmitNext, SubmitCheck, RecordIntent, SubmitEnd, SubmitAck,
         SubmitTimeout, SubmitGatewayError, ReadExit, RecordExit, exchangeVars
    <3> QED BY <3>1, ProgramMoves
  <2> QED BY <2>1, <2>2, <2>3, <2>4
<1>3. ASSUME NEW o \in Order, ExchangeNext(o) \/ BotCancel(o) \/ MarkByUuid(o)
      PROVE  ExchangeMoves
  BY <1>3, OrderMoves
<1>4. CASE ApplyPrivateEvent
  BY <1>4, ProgramMoves DEF ApplyPrivateEvent
<1>5. ASSUME NEW t \in Threads, FullPass(t) \/ SinglePass(t) PROVE ExchangeMoves
  <2>1. UNCHANGED <<exState, exVol, wire, cancels>>
    BY <1>5 DEF FullPass, SinglePass, BeginFull, FetchFull, FailFull, ApplyFull, RejectFull,
       EndFull, BeginSingle, FailSingle, ApplySingle, RejectSingle, Finish, exchangeVars
  <2> QED BY <2>1, ProgramMoves
<1>6. ASSUME NEW t \in Threads, DieInApply(t) PROVE ExchangeMoves
  BY <1>6, ProgramMoves DEF DieInApply, DieInFill, Reload
<1>7. CASE Restart
  BY <1>7, ProgramMoves DEF Restart, Reload
<1> QED BY <1>1, <1>2, <1>3, <1>4, <1>5, <1>6, <1>7 DEF Next

\* A step may call an order final only when it was, when the exchange has
\* closed it, or when its POST has just been refused.
LEMMA FinalsAreEvident ==
  ASSUME TypeOK, KnownInv, TrackInv, ~GatewayErrors, Journaled
  PROVE  \A p \in Order : orders'[p].status \in Terminal =>
           \/ orders[p].status \in Terminal \/ Over(p)
           \/ p \in wire \ wire' /\ exState' = exState
<1>1. CASE orders' = orders
  BY <1>1
<1>2. ASSUME NEW s \in Submitters, RecordIntent(s)
      PROVE  \A p \in Order : orders'[p].status \in Terminal => orders[p].status \in Terminal
  <2>1. [NotRecorded EXCEPT !.status = "PENDING_SUBMISSION"].status \notin Terminal
    BY DEF NotRecorded, Terminal
  <2> DEFINE new == [NotRecorded EXCEPT !.status = "PENDING_SUBMISSION"]
  <2>2. orders' = [orders EXCEPT ![sub[s].ord] = new]
    BY <1>2 DEF RecordIntent, Journal
  <2> HIDE DEF new
  <2> QED BY <2>1, <2>2 DEF TypeOK, new
<1>3. ASSUME NEW o \in Order, NEW rec \in OrderRec, MarkOf(o, rec), Evident(o, rec)
      PROVE  \A p \in Order : orders'[p].status \in Terminal =>
               \/ orders[p].status \in Terminal \/ Over(p)
               \/ p \in wire \ wire' /\ exState' = exState
  <2>1. \A p \in Order : p # o => orders'[p] = orders[p]
    BY <1>3 DEF MarkOf, Marked, TypeOK
  <2>2. orders'[o] = rec \/ orders'[o] = orders[o]
    BY <1>3 DEF MarkOf, Marked, TypeOK
  <2> QED BY <1>3, <2>1, <2>2 DEF Evident
<1> QED BY <1>1, <1>2, <1>3 DEF Journaled, MarkStep

\* An order that is over stays over.
LEMMA OverStays ==
  ASSUME FinalIsOver, ExchangeMoves
  PROVE  \A p \in Order : Over(p) => exState'[p] = exState[p]
  BY DEF FinalIsOver, ExchangeMoves, Over, Live

\* What the journal calls final keeps resting on an order that is over.
LEMMA FinalStep ==
  ASSUME TypeOK, KnownInv, TrackInv, ~GatewayErrors, Journaled, ExchangeMoves
  PROVE  FinalIsOver'
<1> SUFFICES ASSUME NEW o \in Order
             PROVE  /\ orders'[o].status \in Terminal =>
                         ~(exState'[o] \in {"wait", "trade"}) /\ o \notin wire'
                    /\ o \in wire' => exState'[o] = "none"
                    /\ exState'[o] = "none" => exVol'[o] = 0
                    /\ exVol'[o] = Lots => exState'[o] \in {"done", "cancel"}
                    /\ o \in cancels' => exState'[o] \in {"done", "cancel"}
  BY DEF FinalIsOver, Live, Over
<1>1. o \in wire' => o \in wire \/ (exState[o] = "none" /\ orders[o].status \notin Terminal)
  BY DEF ExchangeMoves, CreateOrder, TrackInv, SubmitsTrue
<1>2. /\ orders[o].status \in Terminal => ~Live(o) /\ o \notin wire
      /\ o \in wire => exState[o] = "none"
      /\ exState[o] = "none" => exVol[o] = 0
      /\ exVol[o] = Lots => Over(o)
      /\ o \in cancels => Over(o)
  BY DEF TrackInv, FinalIsOver
<1>3. \/ exState'[o] = exState[o]
      \/ o \in wire /\ o \notin wire' /\ exState'[o] = "wait" /\ orders' = orders
      \/ Live(o) /\ exState'[o] \in {"trade", "done", "cancel"}
  BY DEF ExchangeMoves
<1>4. \/ exVol'[o] = exVol[o]
      \/ Live(o) /\ exState'[o] \in {"trade", "done"} /\ (exVol'[o] = Lots => exState'[o] = "done")
  BY DEF ExchangeMoves
<1>5. o \in cancels' => o \in cancels \/ exState'[o] = "cancel"
  BY DEF ExchangeMoves
<1>6. orders'[o].status \in Terminal =>
           \/ orders[o].status \in Terminal \/ Over(o)
           \/ o \in wire \ wire' /\ exState' = exState
  BY FinalsAreEvident
<1>7. Lots # 0
  BY BoundAssumption
<1>8. o \in wire' => exState'[o] = "none"
  BY <1>1, <1>2, <1>3 DEF Live
<1>9. orders'[o].status \in Terminal => ~(exState'[o] \in {"wait", "trade"}) /\ o \notin wire'
  <2>1. CASE orders[o].status \in Terminal
    BY <1>1, <1>2, <1>3, <2>1 DEF Live
  <2>2. CASE Over(o)
    BY <1>2, <1>3, <1>8, <2>2 DEF Over, Live
  <2>3. CASE o \in wire \ wire' /\ exState' = exState
    BY <1>2, <2>3
  <2> QED BY <1>6, <2>1, <2>2, <2>3
<1>10. exState'[o] = "none" => exVol'[o] = 0
  BY <1>2, <1>3, <1>4
<1>11. exVol'[o] = Lots => exState'[o] \in {"done", "cancel"}
  BY <1>2, <1>3, <1>4, <1>7 DEF Live, Over
<1>12. o \in cancels' => exState'[o] \in {"done", "cancel"}
  BY <1>2, <1>3, <1>5 DEF Live, Over
<1> QED BY <1>8, <1>9, <1>10, <1>11, <1>12

\* Every event in flight is about an order.
LEMMA EventOrders ==
  ASSUME TypeOK
  PROVE  \A i \in 1..Len(stream) : stream[i].ord \in Order
<1>1. stream \in Seq(Event)
  BY DEF TypeOK
<1>2. \A i \in 1..Len(stream) : stream[i] \in Event
  BY <1>1
<1> QED BY <1>2 DEF Event

\* An event says what the exchange did.
LEMMA PushStep ==
  ASSUME TypeOK, EventsTrue, FinalIsOver, ExchangeMoves,
         NEW o \in Order, NEW st \in RawState, NEW vol, Push(o, st, vol),
         st = "cancel" => exState'[o] = "cancel"
  PROVE  EventsTrue'
<1> DEFINE e == [ord |-> o, state |-> st, vol |-> vol]
<1>1. stream \in Seq(Event) /\ Len(stream) \in Nat
  BY DEF TypeOK
<1>2. \A i \in 1..Len(stream) : stream[i].ord \in Order
  BY EventOrders
<1>3. \A i \in 1..Len(stream) : stream[i].state = "cancel" => exState'[stream[i].ord] \in {"done", "cancel"}
  BY <1>2, OverStays DEF EventsTrue, Over
<1>4. CASE UNCHANGED stream
  BY <1>3, <1>4 DEF EventsTrue, Over
<1>5. CASE stream' = Append(stream, e)
  <2>1. e.state = "cancel" => exState'[e.ord] \in {"done", "cancel"}
    OBVIOUS
  <2> HIDE DEF e
  <2>2. /\ Len(stream') = Len(stream) + 1
        /\ stream'[Len(stream) + 1] = e
        /\ \A i \in 1..Len(stream) : stream'[i] = stream[i]
    BY <1>1, <1>5
  <2>3. \A i \in 1..Len(stream') : i \in 1..Len(stream) \/ i = Len(stream) + 1
    BY <1>1, <2>2
  <2> QED BY <1>3, <2>1, <2>2, <2>3 DEF EventsTrue, Over
<1> QED BY <1>4, <1>5 DEF Push

\* The events in flight stay true.
LEMMA EventsStep ==
  ASSUME TypeOK, EventsTrue, FinalIsOver, ExchangeMoves, [Next]_vars
  PROVE  EventsTrue'
<1>1. ASSUME UNCHANGED stream PROVE EventsTrue'
  <2>1. \A i \in 1..Len(stream) : stream[i].ord \in Order
    BY EventOrders
  <2> QED BY <1>1, <2>1, OverStays DEF EventsTrue, Over
<1>2. CASE UNCHANGED vars
  BY <1>1, <1>2 DEF vars
<1>3. ASSUME Reload PROVE EventsTrue'
  BY <1>3 DEF Reload, EventsTrue
<1>4. ASSUME NEW s \in Submitters, SubmitNext(s) PROVE EventsTrue'
  <2>1. CASE DieInRecordExit(s)
    BY <1>3, <2>1 DEF DieInRecordExit, DieInFill
  <2>2. CASE ~DieInRecordExit(s)
    <3>1. UNCHANGED stream
      BY <1>4, <2>2 DEF SubmitNext, SubmitCheck, RecordIntent, CreateOrder, SubmitEnd, SubmitAck,
         SubmitTimeout, SubmitReject, SubmitGatewayError, ReadExit, RecordExit, exchangeVars
    <3> QED BY <1>1, <3>1
  <2> QED BY <2>1, <2>2
<1>5. ASSUME NEW o \in Order, ExchangeNext(o) \/ BotCancel(o) \/ MarkByUuid(o) PROVE EventsTrue'
  <2>1. CASE ExchangeAccept(o)
    <3>1. Push(o, "wait", 0)
      BY <2>1 DEF ExchangeAccept
    <3> QED BY <3>1, PushStep DEF RawState
  <2>2. CASE ExchangeFill(o)
    <3>1. PICK st \in {"done", "trade"}, vol \in Nat : Push(o, st, vol)
      BY <2>2, BoundAssumption DEF ExchangeFill, TypeOK
    <3> QED BY <3>1, PushStep DEF RawState
  <2>3. CASE ExchangeCancel(o) \/ BotCancel(o)
    <3>1. Push(o, "cancel", exVol[o]) /\ exState'[o] = "cancel"
      BY <2>3 DEF ExchangeCancel, BotCancel, TypeOK
    <3> QED BY <3>1, PushStep DEF RawState
  <2>4. CASE ExchangeLosePost(o) \/ MarkByUuid(o)
    BY <1>1, <2>4 DEF ExchangeLosePost, MarkByUuid, exchangeVars
  <2> QED BY <1>5, <2>1, <2>2, <2>3, <2>4 DEF ExchangeNext
<1>6. CASE ApplyPrivateEvent
  <2>1. stream # <<>> /\ stream \in Seq(Event) /\ stream' = Tail(stream) /\ exState' = exState
    BY <1>6 DEF ApplyPrivateEvent, TypeOK
  <2>2. /\ Len(stream') = Len(stream) - 1 /\ Len(stream) \in Nat \ {0}
        /\ \A i \in 1..Len(stream') : stream'[i] = stream[i + 1] /\ i + 1 \in 1..Len(stream)
    BY <2>1
  <2> QED BY <2>1, <2>2 DEF EventsTrue, Over
<1>7. ASSUME NEW t \in Threads, FullPass(t) \/ SinglePass(t) PROVE EventsTrue'
  <2>1. UNCHANGED stream
    BY <1>7 DEF FullPass, SinglePass, BeginFull, FetchFull, FailFull, ApplyFull, RejectFull,
       EndFull, BeginSingle, FailSingle, ApplySingle, RejectSingle, Finish, exchangeVars
  <2> QED BY <1>1, <2>1
<1>8. ASSUME NEW t \in Threads, DieInApply(t) PROVE EventsTrue'
  BY <1>3, <1>8 DEF DieInApply, DieInFill
<1>9. CASE Restart
  BY <1>3, <1>9 DEF Restart
<1> QED BY <1>2, <1>4, <1>5, <1>6, <1>7, <1>8, <1>9 DEF Next

\* A submitter that is not at a POST still holds an order the exchange has not
\* seen, and a fill it has read stays read.
LEMMA SubmitterStays ==
  ASSUME TypeOK, KnownInv, TrackInv, ~GatewayErrors, Journaled, ExchangeMoves,
         NEW s \in Submitters, sub'[s] = sub[s]
  PROVE  /\ sub[s].pc \in {"checked", "recorded"} =>
              exState'[sub[s].ord] = "none" /\ sub[s].ord \notin wire'
         /\ sub[s].pc = "recorded" => orders'[sub[s].ord].status \notin Terminal
         /\ sub[s].pc = "confirm" /\ sub[s].vol = Lots => exState'[sub[s].ord] \in {"done", "cancel"}
<1> DEFINE o == sub[s].ord
<1>0. /\ sub[s].pc # "idle" => o \in Order
      /\ \A r \in Submitters : r # s /\ sub[s].pc # "idle" => sub[r].ord # o
  BY DEF TypeOK, KnownInv
<1>1. ~CreateOrder(s)
  <2> SUFFICES ASSUME CreateOrder(s) PROVE FALSE
    OBVIOUS
  <2>1. sub[s].pc = "recorded" /\ sub'[s].pc = "posted"
    BY DEF CreateOrder, TypeOK, SubRec
  <2> QED BY <2>1
<1>2. /\ sub[s].pc \in {"checked", "recorded"} => exState[o] = "none" /\ o \notin wire
      /\ sub[s].pc = "recorded" => orders[o].status \notin Terminal
      /\ sub[s].pc = "confirm" /\ sub[s].vol = Lots => Over(o)
  BY DEF TrackInv, SubmitsTrue
<1> HIDE DEF o
<1>3. ASSUME sub[s].pc \in {"checked", "recorded"}
      PROVE  exState'[o] = "none" /\ o \notin wire'
  <2>1. o \in Order /\ exState[o] = "none" /\ o \notin wire
    BY <1>0, <1>2, <1>3
  <2>2. exState'[o] = "none"
    BY <2>1 DEF ExchangeMoves, Live
  <2>3. o \notin wire'
    BY <1>0, <1>1, <1>3, <2>1 DEF ExchangeMoves
  <2> QED BY <2>2, <2>3
<1>4. ASSUME sub[s].pc = "recorded" PROVE orders'[o].status \notin Terminal
  <2>1. o \in Order /\ orders[o].status \notin Terminal /\ ~Over(o) /\ o \notin wire
    BY <1>0, <1>2, <1>4 DEF Over
  <2> QED BY <2>1, FinalsAreEvident
<1>5. ASSUME sub[s].pc = "confirm", sub[s].vol = Lots
      PROVE  exState'[o] \in {"done", "cancel"}
  <2>1. o \in Order /\ Over(o)
    BY <1>0, <1>2, <1>5
  <2> QED BY <2>1, OverStays DEF TrackInv, Over
<1> QED BY <1>3, <1>4, <1>5 DEF o

\* What the submitters rest on stays true.
LEMMA SubmitsStep ==
  ASSUME TypeOK, KnownInv, TrackInv, ~GatewayErrors, Journaled, ExchangeMoves, [Next]_vars
  PROVE  SubmitsTrue'
<1> DEFINE True(s) ==
      /\ sub'[s].pc \in {"checked", "recorded"} =>
           exState'[sub'[s].ord] = "none" /\ sub'[s].ord \notin wire'
      /\ sub'[s].pc = "recorded" => orders'[sub'[s].ord].status \notin Terminal
      /\ sub'[s].pc = "confirm" /\ sub'[s].vol = Lots => exState'[sub'[s].ord] \in {"done", "cancel"}
<1>0. (\A s \in Submitters : True(s)) => SubmitsTrue'
  BY DEF SubmitsTrue, Over
<1>1. ASSUME NEW s \in Submitters, sub'[s] = sub[s] PROVE True(s)
  BY <1>1, SubmitterStays
<1>2. ASSUME NEW s \in Submitters, sub'[s].pc \notin {"checked", "recorded", "confirm"} PROVE True(s)
  BY <1>2
<1>3. ASSUME NEW s \in Submitters, SubmitNext(s) PROVE True(s)
  <2>1. ASSUME NEW o \in Order, SubmitCheck(s, o) PROVE True(s)
    <3>1. sub'[s].pc = "checked" /\ sub'[s].ord = o
      BY <2>1 DEF SubmitCheck, TypeOK, SubIdle
    <3>2. exState[o] = "none" /\ o \notin wire /\ UNCHANGED <<exState, wire>>
      BY <2>1 DEF SubmitCheck, Fresh, exchangeVars
    <3> QED BY <3>1, <3>2
  <2>2. CASE RecordIntent(s)
    <3> DEFINE new == [NotRecorded EXCEPT !.status = "PENDING_SUBMISSION"]
               o   == sub[s].ord
    <3>1. sub'[s].pc = "recorded" /\ sub'[s].ord = o /\ sub[s].pc = "checked" /\ o \in Order
      BY <2>2 DEF RecordIntent, TypeOK, SubRec
    <3>2. new.status \notin Terminal
      BY DEF NotRecorded, Terminal
    <3>3. exState[o] = "none" /\ o \notin wire /\ UNCHANGED <<exState, wire>>
      BY <2>2, <3>1 DEF RecordIntent, TrackInv, SubmitsTrue, exchangeVars
    <3>4. orders' = [orders EXCEPT ![o] = new]
      BY <2>2 DEF RecordIntent, Journal
    <3> HIDE DEF new, o
    <3>5. orders'[o] = new
      BY <3>1, <3>4 DEF TypeOK
    <3> QED BY <3>1, <3>2, <3>3, <3>5
  <2>3. CASE ReadExit(s)
    <3> DEFINE o == sub[s].ord
    <3>1. o \in Order /\ UNCHANGED <<exState, exVol>>
      BY <2>3 DEF ReadExit, TypeOK, exchangeVars
    <3>2. CASE exVol[o] > 0
      <4>1. sub'[s].pc = "confirm" /\ sub'[s].ord = o /\ sub'[s].vol = exVol[o]
        BY <2>3, <3>2 DEF ReadExit, TypeOK, SubRec
      <4>2. exVol[o] = Lots => Over(o)
        BY <3>1 DEF TrackInv, FinalIsOver
      <4> QED BY <3>1, <4>1, <4>2 DEF Over
    <3>3. CASE ~(exVol[o] > 0)
      BY <1>2, <2>3, <3>3 DEF ReadExit, TypeOK, SubIdle
    <3> QED BY <3>2, <3>3
  <2>4. CASE CreateOrder(s)
    BY <1>2, <2>4 DEF CreateOrder, TypeOK, SubRec
  <2>5. CASE SubmitAck(s)
    <3>1. sub'[s].pc \in {"acked", "idle"}
      BY <2>5 DEF SubmitAck, SubmitEnd, TypeOK, SubRec, SubIdle
    <3> QED BY <1>2, <3>1
  <2>6. CASE SubmitTimeout(s) \/ SubmitReject(s) \/ SubmitGatewayError(s) \/ RecordExit(s)
             \/ DieInRecordExit(s)
    <3>1. SubIdle.pc = "idle"
      BY DEF SubIdle
    <3>2. sub'[s] = SubIdle
      BY <2>6 DEF SubmitTimeout, SubmitReject, SubmitGatewayError, RecordExit, SubmitEnd,
         DieInRecordExit, DieInFill, Reload, TypeOK
    <3> QED BY <1>2, <3>1, <3>2
  <2> QED BY <1>3, <2>1, <2>2, <2>3, <2>4, <2>5, <2>6 DEF SubmitNext
<1> HIDE DEF True
<1>4. CASE UNCHANGED sub
  BY <1>0, <1>1, <1>4
<1>5. ASSUME Reload PROVE SubmitsTrue'
  BY <1>5 DEF Reload, SubIdle, SubmitsTrue
<1>6. ASSUME NEW s \in Submitters, SubmitNext(s) PROVE SubmitsTrue'
  <2>1. CASE DieInRecordExit(s)
    BY <1>5, <2>1 DEF DieInRecordExit, DieInFill
  <2>2. CASE ~DieInRecordExit(s)
    <3>1. \A r \in Submitters : r # s => sub'[r] = sub[r]
      BY <1>6, <2>2 DEF SubmitNext, SubmitCheck, RecordIntent, CreateOrder, SubmitEnd, SubmitAck,
         SubmitTimeout, SubmitReject, SubmitGatewayError, ReadExit, RecordExit, TypeOK
    <3> QED BY <1>0, <1>1, <1>3, <1>6, <3>1
  <2> QED BY <2>1, <2>2
<1>7. ASSUME NEW o \in Order, ExchangeNext(o) \/ BotCancel(o) \/ MarkByUuid(o) PROVE UNCHANGED sub
  BY <1>7 DEF ExchangeNext, ExchangeAccept, ExchangeLosePost, ExchangeFill, ExchangeCancel,
     BotCancel, MarkByUuid
<1>8. ASSUME NEW t \in Threads, FullPass(t) \/ SinglePass(t) PROVE UNCHANGED sub
  BY <1>8 DEF FullPass, SinglePass, BeginFull, FetchFull, FailFull, ApplyFull, RejectFull,
     EndFull, BeginSingle, FailSingle, ApplySingle, RejectSingle, Finish
<1>9. ASSUME NEW t \in Threads, DieInApply(t) PROVE SubmitsTrue'
  BY <1>5, <1>9 DEF DieInApply, DieInFill
<1>10. CASE Restart
  BY <1>5, <1>10 DEF Restart
<1>11. CASE ApplyPrivateEvent
  BY <1>4, <1>11 DEF ApplyPrivateEvent
<1>12. CASE UNCHANGED vars
  BY <1>4, <1>12 DEF vars
<1> QED BY <1>4, <1>6, <1>7, <1>8, <1>9, <1>10, <1>11, <1>12 DEF Next

\* The answers in flight stay true.
LEMMA AnswersStep ==
  ASSUME TypeOK, FillInv, TrackInv, ExchangeMoves, [Next]_vars
  PROVE  AnswersTrue'
<1> DEFINE True(t) ==
      rc'[t].pc = "apply" =>
        /\ rc'[t].ans.state \in {"done", "cancel"} => exState'[rc'[t].ord] \in {"done", "cancel"}
        /\ rc'[t].mode # "full" => rc'[t].was \in Unresolved
<1>0. (\A t \in Threads : True(t)) => AnswersTrue'
  BY DEF AnswersTrue, Over
<1>1. ASSUME NEW t \in Threads, rc'[t] = rc[t] PROVE True(t)
  <2>1. rc[t].pc = "apply" => rc[t].ord \in Order
    BY DEF TypeOK
  <2> QED BY <1>1, <2>1, OverStays DEF TrackInv, AnswersTrue, Over
<1>2. ASSUME NEW t \in Threads, rc'[t].pc # "apply" PROVE True(t)
  BY <1>2
<1>3. ASSUME NEW o \in Order, NEW a \in Answers(o), a.state \in {"done", "cancel"}
      PROVE  exState[o] = a.state
  <2>1. a # EmptyAnswer
    BY <1>3 DEF EmptyAnswer
  <2>2. PICK v : a = [state |-> exState[o], vol |-> exVol[o], valid |-> v]
    BY <2>1 DEF Answers
  <2> QED BY <2>2
<1>4. ASSUME NEW t \in Threads, FullPass(t) \/ SinglePass(t) PROVE True(t)
  <2>0. rc[t] \in RcRec
    BY DEF TypeOK
  <2>1. ASSUME NEW o \in Order, FetchFull(t, o) PROVE True(t)
    <3> DEFINE R(ans) == [rc[t] EXCEPT !.pc = "apply", !.todo = @ \ {o}, !.ord = o, !.ans = ans]
    <3>1. PICK ans \in Answers(o) : rc' = [rc EXCEPT ![t] = R(ans)]
      BY <2>1 DEF FetchFull
    <3>2. R(ans).ord = o /\ R(ans).ans = ans /\ R(ans).mode = rc[t].mode
      BY <2>0 DEF RcRec
    <3>3. exState' = exState /\ rc[t].mode = "full"
      BY <2>1 DEF FetchFull, exchangeVars, FillInv, AnswersWhole
    <3> HIDE DEF R
    <3>4. rc'[t] = R(ans)
      BY <3>1 DEF TypeOK
    <3> QED BY <1>3, <3>2, <3>3, <3>4
  <2>2. ASSUME NEW o \in Order, BeginSingle(t, o) PROVE True(t)
    <3> DEFINE R(ans) == [rc[t] EXCEPT !.pc = "apply", !.ord = o, !.ans = ans,
                                       !.was = orders[o].status]
    <3>1. PICK ans \in Answers(o) : rc' = [rc EXCEPT ![t] = R(ans)]
      BY <2>2 DEF BeginSingle
    <3>2. R(ans).ord = o /\ R(ans).ans = ans /\ R(ans).was = orders[o].status
      BY <2>0 DEF RcRec
    <3>3. exState' = exState /\ orders[o].status \in Unresolved
      BY <2>2 DEF BeginSingle, exchangeVars, IsUnresolved
    <3> HIDE DEF R
    <3>4. rc'[t] = R(ans)
      BY <3>1 DEF TypeOK
    <3> QED BY <1>3, <3>2, <3>3, <3>4
  <2>3. ASSUME NEW o \in Order, FailFull(t, o) PROVE True(t)
    <3>1. rc'[t].pc = "scan"
      BY <2>0, <2>3 DEF FailFull, TypeOK, RcRec
    <3> QED BY <1>2, <3>1
  <2>4. ASSUME NEW o \in Order, FailSingle(t, o) PROVE True(t)
    <3>1. rc'[t].pc \in {"idle", "finish"}
      BY <2>4 DEF FailSingle, AfterRefusal, TypeOK, RcIdle
    <3> QED BY <1>2, <3>1
  <2>5. CASE ApplyFull(t) \/ RejectFull(t)
    <3> DEFINE r == [rc[t] EXCEPT !.pc = "scan", !.ord = None, !.ans = EmptyAnswer]
    <3>1. r.pc = "scan"
      BY <2>0 DEF RcRec
    <3>2. rc'[t] = r
      BY <2>5 DEF ApplyFull, RejectFull, TypeOK
    <3> QED BY <1>2, <3>1, <3>2
  <2>6. CASE BeginFull(t) \/ EndFull(t)
    <3>1. rc'[t].pc \in {"scan", "finish"}
      BY <2>6 DEF BeginFull, EndFull, TypeOK, RcIdle
    <3> QED BY <1>2, <3>1
  <2>7. CASE ApplySingle(t) \/ RejectSingle(t) \/ Finish(t)
    <3>1. /\ AfterRefusal(t).pc # "apply" /\ RcIdle.pc # "apply"
          /\ \A m : [RcIdle EXCEPT !.pc = "finish", !.mode = m].pc # "apply"
          /\ [RcIdle EXCEPT !.pc = "finish"].pc # "apply"
      BY DEF RcIdle, AfterRefusal
    <3>2. \/ rc'[t] = AfterRefusal(t) \/ rc'[t] = RcIdle
          \/ rc'[t] = [RcIdle EXCEPT !.pc = "finish"]
          \/ \E m : rc'[t] = [RcIdle EXCEPT !.pc = "finish", !.mode = m]
      BY <2>7 DEF ApplySingle, RejectSingle, Finish, TypeOK
    <3> QED BY <1>2, <3>1, <3>2
  <2> QED BY <1>4, <2>1, <2>2, <2>3, <2>4, <2>5, <2>6, <2>7 DEF FullPass, SinglePass
<1> HIDE DEF True
<1>5. CASE UNCHANGED rc
  BY <1>0, <1>1, <1>5
<1>6. ASSUME Reload PROVE AnswersTrue'
  BY <1>6 DEF Reload, RcIdle, AnswersTrue
<1>7. ASSUME NEW t \in Threads, FullPass(t) \/ SinglePass(t) PROVE AnswersTrue'
  <2>1. \A u \in Threads : u # t => rc'[u] = rc[u]
    BY <1>7 DEF FullPass, SinglePass, BeginFull, FetchFull, FailFull, ApplyFull, RejectFull,
       EndFull, BeginSingle, FailSingle, ApplySingle, RejectSingle, Finish, TypeOK
  <2> QED BY <1>0, <1>1, <1>4, <1>7, <2>1
<1>8. ASSUME NEW t \in Threads, DieInApply(t) PROVE AnswersTrue'
  BY <1>6, <1>8 DEF DieInApply, DieInFill
<1>9. CASE Restart
  BY <1>6, <1>9 DEF Restart
<1>10. ASSUME NEW o \in Order, ExchangeNext(o) \/ BotCancel(o) \/ MarkByUuid(o) PROVE UNCHANGED rc
  BY <1>10 DEF ExchangeNext, ExchangeAccept, ExchangeLosePost, ExchangeFill, ExchangeCancel,
     BotCancel, MarkByUuid
<1>11. ASSUME NEW s \in Submitters, SubmitNext(s) PROVE AnswersTrue'
  <2>1. CASE DieInRecordExit(s)
    BY <1>6, <2>1 DEF DieInRecordExit, DieInFill
  <2>2. CASE ~DieInRecordExit(s)
    <3>1. UNCHANGED rc
      BY <1>11, <2>2 DEF SubmitNext, SubmitCheck, RecordIntent, CreateOrder, SubmitEnd, SubmitAck,
         SubmitTimeout, SubmitReject, SubmitGatewayError, ReadExit, RecordExit
    <3> QED BY <1>5, <3>1
  <2> QED BY <2>1, <2>2
<1>12. CASE ApplyPrivateEvent
  BY <1>5, <1>12 DEF ApplyPrivateEvent
<1>13. CASE UNCHANGED vars
  BY <1>5, <1>13 DEF vars
<1> QED BY <1>5, <1>7, <1>8, <1>9, <1>10, <1>11, <1>12, <1>13 DEF Next

\* The invariant that LiveIsTracked rests on.
THEOREM TrackAlways ==
  ASSUME ~SaveMayFail, ~GatewayErrors PROVE Spec => []TrackInv
<1>1. Init => TrackInv
  BY BoundAssumption DEF Init, TrackInv, FinalIsOver, EventsTrue, SubmitsTrue, AnswersTrue,
     NotRecorded, SubIdle, RcIdle, Terminal
<1>2. TypeOK /\ FillInv /\ KnownInv /\ TrackInv /\ [Next]_vars => TrackInv'
  <2> SUFFICES ASSUME TypeOK, FillInv, KnownInv, TrackInv, [Next]_vars PROVE TrackInv'
    OBVIOUS
  <2>1. Journaled /\ ExchangeMoves
    BY StepMarks, StepMoves
  <2> QED BY <2>1, FinalStep, EventsStep, SubmitsStep, AnswersStep DEF TrackInv
<1> QED BY <1>1, <1>2, TypeCorrect, FillAlways, KnownAlways, PTL DEF Spec

\* An order that may still execute is one the journal calls unresolved, so every
\* reconciliation pass asks the exchange about it.
THEOREM LiveAlwaysTracked ==
  ASSUME ~SaveMayFail, ~GatewayErrors PROVE Spec => []LiveIsTracked
<1>1. TypeOK /\ KnownInv /\ TrackInv => LiveIsTracked
  <2> SUFFICES ASSUME TypeOK, KnownInv, TrackInv, NEW o \in Order, Live(o) \/ o \in wire
               PROVE  IsUnresolved(o)
    BY DEF LiveIsTracked
  <2>1. Recorded(o)
    BY DEF KnownInv, Posted, Live
  <2>2. orders[o].status \in Status \ Terminal
    BY <2>1 DEF TrackInv, FinalIsOver, Recorded, TypeOK, OrderRec
  <2> QED BY <2>2 DEF IsUnresolved, Status, Terminal, Unresolved
<1> QED BY <1>1, TypeCorrect, KnownAlways, TrackAlways, PTL

-----------------------------------------------------------------------------
(* Two sells of one market *)

\* Only a check makes an order hot.
LEMMA HotStep ==
  ASSUME TypeOK, KnownInv, Journaled, [Next]_vars, NEW o \in Order, Hot(o)'
  PROVE  Hot(o) \/ \E s \in Submitters : SubmitCheck(s, o)
<1>1. CASE \E s \in Submitters : RecordIntent(s) /\ sub[s].ord = o
  BY <1>1 DEF RecordIntent, Hot
<1>2. CASE IsUnresolved(o)' /\ ~\E s \in Submitters : RecordIntent(s) /\ sub[s].ord = o
  <2>1. orders'[o].status \in Unresolved
    BY <1>2 DEF IsUnresolved
  <2>2. orders'[o].status # "NONE" /\ orders'[o].status \notin Terminal
    BY <2>1 DEF Unresolved, Terminal
  <2>3. orders[o].status # "NONE" /\ orders[o].status \notin Terminal
    BY <1>2, <2>2, RecordsStay DEF Recorded, RecordedNext
  <2>4. orders[o].status \in Unresolved
    BY <2>3 DEF TypeOK, OrderRec, Status, Terminal, Unresolved
  <2> QED BY <2>4 DEF Hot, IsUnresolved
<1>3. ASSUME NEW s \in Submitters, sub'[s].pc = "checked", sub'[s].ord = o
      PROVE  Hot(o) \/ \E r \in Submitters : SubmitCheck(r, o)
  <2>1. sub'[s] = sub[s] \/ \E p \in Order : SubmitCheck(s, p)
    <3>1. CASE UNCHANGED sub
      BY <3>1
    <3>2. ASSUME Reload PROVE FALSE
      BY <1>3, <3>2 DEF Reload, SubIdle
    <3>3. ASSUME NEW r \in Submitters, SubmitNext(r), ~DieInRecordExit(r), r # s
          PROVE  sub'[s] = sub[s]
      BY <3>3 DEF SubmitNext, SubmitCheck, RecordIntent, CreateOrder, SubmitEnd, SubmitAck,
         SubmitTimeout, SubmitReject, SubmitGatewayError, ReadExit, RecordExit, TypeOK
    <3>4. ASSUME SubmitNext(s), ~DieInRecordExit(s), \A p \in Order : ~SubmitCheck(s, p)
          PROVE  FALSE
      <4>0. sub[s] \in SubRec /\ SubIdle.pc = "idle"
        BY DEF TypeOK, SubIdle
      <4>1. CASE RecordIntent(s) \/ CreateOrder(s)
        BY <1>3, <4>0, <4>1 DEF RecordIntent, CreateOrder, TypeOK, SubRec
      <4>2. CASE SubmitAck(s) \/ ReadExit(s)
        <5>1. /\ [sub[s] EXCEPT !.pc = "acked"].pc = "acked"
              /\ \A v : [sub[s] EXCEPT !.pc = "confirm", !.vol = v].pc = "confirm"
          BY <4>0 DEF SubRec
        <5>2. \/ sub'[s] = SubIdle \/ sub'[s] = [sub[s] EXCEPT !.pc = "acked"]
              \/ \E v : sub'[s] = [sub[s] EXCEPT !.pc = "confirm", !.vol = v]
          BY <4>2 DEF SubmitAck, SubmitEnd, ReadExit, TypeOK
        <5> QED BY <1>3, <4>0, <5>1, <5>2
      <4>3. CASE SubmitTimeout(s) \/ SubmitReject(s) \/ SubmitGatewayError(s) \/ RecordExit(s)
        <5>1. sub'[s] = SubIdle
          BY <4>3 DEF SubmitTimeout, SubmitReject, SubmitGatewayError, RecordExit, SubmitEnd, TypeOK
        <5> QED BY <1>3, <4>0, <5>1
      <4> QED BY <3>4, <4>1, <4>2, <4>3 DEF SubmitNext
    <3>5. ASSUME NEW r \in Submitters, DieInRecordExit(r) PROVE FALSE
      BY <3>2, <3>5 DEF DieInRecordExit, DieInFill
    <3>6. ASSUME NEW t \in Threads, DieInApply(t) PROVE FALSE
      BY <3>2, <3>6 DEF DieInApply, DieInFill
    <3>7. ASSUME NEW p \in Order, ExchangeNext(p) \/ BotCancel(p) \/ MarkByUuid(p)
          PROVE  UNCHANGED sub
      BY <3>7 DEF ExchangeNext, ExchangeAccept, ExchangeLosePost, ExchangeFill, ExchangeCancel,
         BotCancel, MarkByUuid
    <3>8. ASSUME NEW t \in Threads, FullPass(t) \/ SinglePass(t) PROVE UNCHANGED sub
      BY <3>8 DEF FullPass, SinglePass, BeginFull, FetchFull, FailFull, ApplyFull, RejectFull,
         EndFull, BeginSingle, FailSingle, ApplySingle, RejectSingle, Finish
    <3>9. CASE Restart
      BY <3>2, <3>9 DEF Restart
    <3>10. CASE ApplyPrivateEvent \/ UNCHANGED vars
      BY <3>1, <3>10 DEF ApplyPrivateEvent, vars
    <3> QED BY <3>1, <3>3, <3>4, <3>5, <3>6, <3>7, <3>8, <3>9, <3>10 DEF Next
  <2>2. CASE sub'[s] = sub[s]
    BY <1>3, <2>2 DEF Hot
  <2>3. ASSUME NEW p \in Order, SubmitCheck(s, p) PROVE p = o
    BY <1>3, <2>3 DEF SubmitCheck, TypeOK, SubIdle
  <2> QED BY <2>1, <2>2, <2>3
<1> QED BY <1>1, <1>2, <1>3 DEF Hot

\* Two sells of one market never execute together, while every submitter of a
\* sell takes the exit lock.
THEOREM OneExitAlive ==
  ASSUME ~SaveMayFail, ~GatewayErrors, LockHolders = Submitters
  PROVE  Spec => []OneLiveExit
<1>1. Init => OneHot
  BY DEF Init, OneHot, Hot, IsUnresolved, NotRecorded, SubIdle, Unresolved
<1>2. TypeOK /\ KnownInv /\ OneHot /\ [Next]_vars => OneHot'
  <2> SUFFICES ASSUME TypeOK, KnownInv, OneHot, [Next]_vars,
                      NEW o \in Order \ Buys, NEW p \in Order \ Buys, o # p,
                      MarketOf[o] = MarketOf[p], Hot(o)', Hot(p)'
               PROVE  FALSE
    BY DEF OneHot
  <2>1. Journaled
    BY StepMarks
  <2>2. ASSUME NEW q \in Order \ Buys, NEW r \in Order \ Buys, q # r, MarketOf[q] = MarketOf[r],
               NEW s \in Submitters, SubmitCheck(s, q)
        PROVE  ~Hot(r)' \/ FALSE
    <3>1. ~IsUnresolved(r)
      BY <2>2 DEF SubmitCheck, HasActiveExitOrder, SameMarket
    <3>2. \A u \in Submitters : sub[u].ord # r
      BY <2>2 DEF SubmitCheck, ExitLockFree, SameMarket
    <3>3. orders' = orders /\ sub' = [sub EXCEPT ![s] = [SubIdle EXCEPT !.pc = "checked", !.ord = q]]
      BY <2>2 DEF SubmitCheck, journalVars
    <3>4. \A u \in Submitters : sub'[u].ord # r
      BY <2>2, <3>2, <3>3 DEF TypeOK, SubIdle
    <3> QED BY <3>1, <3>3, <3>4 DEF Hot, IsUnresolved
  <2>3. Hot(o) /\ Hot(p)
    BY <2>1, <2>2, HotStep
  <2> QED BY <2>3 DEF OneHot
<1>3. TypeOK /\ KnownInv /\ TrackInv /\ OneHot => OneLiveExit
  <2> SUFFICES ASSUME TypeOK, KnownInv, TrackInv, OneHot,
                      NEW o \in Order \ Buys, Live(o) \/ o \in wire,
                      NEW p \in SameMarket(o) \ Buys, p # o, Live(p) \/ p \in wire
               PROVE  FALSE
    BY DEF OneLiveExit
  <2>1. ASSUME NEW q \in Order, Live(q) \/ q \in wire PROVE Hot(q)
    <3>1. Recorded(q)
      BY <2>1 DEF KnownInv, Posted, Live
    <3>2. orders[q].status \in Status \ Terminal
      BY <2>1, <3>1 DEF TrackInv, FinalIsOver, Recorded, TypeOK, OrderRec
    <3> QED BY <3>2 DEF Hot, IsUnresolved, Status, Terminal, Unresolved
  <2>2. p \in Order \ Buys /\ MarketOf[o] = MarketOf[p]
    BY DEF SameMarket
  <2> QED BY <2>1, <2>2 DEF OneHot
<1> QED BY <1>1, <1>2, <1>3, TypeCorrect, KnownAlways, TrackAlways, PTL DEF Spec

-----------------------------------------------------------------------------
(* The books implement FillLedger: one reconciler, no tick thread, no death, and
   a client that raises when an order cannot be looked up *)

\* What the reconciler has booked is what the journal says it has processed,
\* and the answer it holds is not behind either.
OnceInv ==
  /\ \A o \in Order : /\ booked[o] <= exVol[o]
                      /\ orders[o].status \notin Terminal => booked[o] = orders[o].processed
                      /\ ~orders[o].known => orders[o].processed = 0
                      /\ orders[o].status = "NONE" => ~orders[o].known
  /\ \A s \in Submitters : sub[s].pc \notin {"acked", "confirm"}
  /\ \A t \in Threads : rc[t].pc = "apply" =>
        /\ booked[rc[t].ord] = orders[rc[t].ord].processed
        /\ orders[rc[t].ord].processed <= rc[t].ans.vol
        /\ rc[t].ans.vol <= exVol[rc[t].ord]
        /\ ~orders[rc[t].ord].known => rc[t].ans.vol = 0

\* Nothing is booked, and no record changes what it has processed.
Plain ==
  /\ booked' = booked
  /\ \A o \in Order : /\ orders'[o].processed = orders[o].processed
                      /\ orders[o].known => orders'[o].known
                      /\ orders'[o].status = "NONE" => ~orders'[o].known

\* The reconciler uses its answer.
Applies(t) ==
  /\ rc[t].pc = "apply" /\ rc'[t].pc # "apply"
  /\ \E st \in Status, basis \in BOOLEAN :
       ProcessOrderFill(rc[t].ord, st, rc[t].ans.vol, basis)
  /\ UNCHANGED <<exVol, sub>>

\* A mark that changes neither what is processed nor that the order is known.
LEMMA PlainMark ==
  ASSUME TypeOK, OnceInv, NEW o \in Order, NEW rec \in OrderRec, rec.status # "NONE",
         rec.processed = orders[o].processed, orders[o].known => rec.known,
         orders' = Marked(o, rec), booked' = booked
  PROVE  Plain
<1>1. \A p \in Order : orders'[p] = orders[p] \/ (p = o /\ orders'[p] = rec)
  BY DEF Marked, TypeOK
<1> QED BY <1>1 DEF Plain, OnceInv

\* A step that touches neither the records nor the books is plain.
LEMMA PlainStutter ==
  ASSUME OnceInv, UNCHANGED <<orders, booked>>
  PROVE  Plain
  BY DEF Plain, OnceInv

\* The steps of a submitter that never confirms.
LEMMA SubmitOnce ==
  ASSUME TypeOK, KnownInv, OnceInv, TickThreads = {}, MaxCrashes = 0,
         NEW s \in Submitters, SubmitNext(s)
  PROVE  /\ Plain /\ exVol' = exVol /\ UNCHANGED rc
         /\ \A r \in Submitters : sub'[r].pc \notin {"acked", "confirm"}
<1> DEFINE o == sub[s].ord
<1>0. /\ sub[s].pc # "idle" => o \in Order /\ orders[o] \in OrderRec
      /\ sub[s] \in SubRec /\ SubIdle.pc = "idle"
      /\ sub[s].pc \notin {"idle", "checked"} => orders[o].status # "NONE"
      /\ ~(crashes < MaxCrashes)
  BY DEF TypeOK, SubIdle, KnownInv, Recorded
<1>s. ASSUME NEW r, sub' = [sub EXCEPT ![s] = r], r.pc \notin {"acked", "confirm"}
      PROVE  \A p \in Submitters : sub'[p].pc \notin {"acked", "confirm"}
  BY <1>s DEF OnceInv, TypeOK
<1> HIDE DEF o
<1>1. ASSUME NEW p \in Order, SubmitCheck(s, p)
      PROVE  /\ Plain /\ exVol' = exVol /\ UNCHANGED rc
             /\ \A r \in Submitters : sub'[r].pc \notin {"acked", "confirm"}
  <2>1. [SubIdle EXCEPT !.pc = "checked", !.ord = p].pc = "checked"
    BY DEF SubIdle
  <2> QED BY <1>1, <1>s, <2>1, PlainStutter DEF SubmitCheck, journalVars, exchangeVars, ledgerVars
<1>2. CASE RecordIntent(s)
  <2> DEFINE new == [NotRecorded EXCEPT !.status = "PENDING_SUBMISSION"]
  <2>1. orders' = [orders EXCEPT ![o] = new] /\ UNCHANGED <<booked, exVol, rc>>
    BY <1>2 DEF RecordIntent, Journal, exchangeVars, ledgerVars, o
  <2>2. new.processed = 0 /\ new.known = FALSE /\ new.status # "NONE"
    BY DEF NotRecorded
  <2>3. o \in Order /\ orders[o].status = "NONE"
    BY <1>0, <1>2 DEF RecordIntent, KnownInv, Recorded, o
  <2>4. orders[o].known = FALSE /\ orders[o].processed = 0
    BY <2>3 DEF OnceInv, TypeOK, OrderRec
  <2> HIDE DEF new
  <2>5. \A p \in Order : p # o => orders'[p] = orders[p]
    BY <2>1 DEF TypeOK
  <2>6. orders'[o] = new
    BY <2>1, <2>3 DEF TypeOK
  <2>7. Plain
    BY <2>1, <2>2, <2>4, <2>5, <2>6 DEF Plain, OnceInv
  <2>8. [sub[s] EXCEPT !.pc = "recorded"].pc = "recorded"
    BY <1>0 DEF SubRec
  <2>9. sub' = [sub EXCEPT ![s] = [sub[s] EXCEPT !.pc = "recorded"]]
    BY <1>2 DEF RecordIntent
  <2> QED BY <1>s, <2>1, <2>7, <2>8, <2>9
<1>3. CASE CreateOrder(s)
  <2>1. [sub[s] EXCEPT !.pc = "posted"].pc = "posted"
    BY <1>0 DEF SubRec
  <2>2. sub' = [sub EXCEPT ![s] = [sub[s] EXCEPT !.pc = "posted"]]
    BY <1>3 DEF CreateOrder
  <2> QED BY <1>3, <1>s, <2>1, <2>2, PlainStutter DEF CreateOrder, journalVars, ledgerVars
<1>4. ASSUME NEW st \in Status, NEW k \in BOOLEAN, orders[o].known => k, sub[s].pc = "posted",
             SubmitEnd(s, [orders[o] EXCEPT !.status = st, !.known = k], SubIdle), exVol' = exVol
      PROVE  /\ Plain /\ exVol' = exVol /\ UNCHANGED rc
             /\ \A r \in Submitters : sub'[r].pc \notin {"acked", "confirm"}
  <2> DEFINE rec == [orders[o] EXCEPT !.status = st, !.known = k]
  <2>1. /\ rec \in OrderRec /\ rec.status # "NONE" /\ rec.known = k
        /\ rec.processed = orders[o].processed
    BY <1>0, <1>4 DEF OrderRec, Status
  <2> HIDE DEF rec
  <2>2. orders' = Marked(o, rec) /\ UNCHANGED <<booked, rc>>
    BY <1>4 DEF SubmitEnd, Journal, ledgerVars, rec, o
  <2>3. Plain
    BY <1>0, <1>4, <2>1, <2>2, PlainMark
  <2>4. sub' = [sub EXCEPT ![s] = SubIdle]
    BY <1>4 DEF SubmitEnd
  <2> QED BY <1>0, <1>4, <1>s, <2>2, <2>3, <2>4
<1>5. CASE SubmitAck(s)
  BY <1>4, <1>5 DEF SubmitAck, Status, exchangeVars, o
<1>6. CASE SubmitTimeout(s) \/ SubmitReject(s) \/ SubmitGatewayError(s)
  <2>1. PICK st \in {"UNKNOWN", "FAILED"} : SubmitEnd(s, [orders[o] EXCEPT !.status = st], SubIdle)
    BY <1>6 DEF SubmitTimeout, SubmitReject, SubmitGatewayError, o
  <2>2. sub[s].pc = "posted" /\ exVol' = exVol
    BY <1>6 DEF SubmitTimeout, SubmitReject, SubmitGatewayError, exchangeVars
  <2>3. /\ orders[o].known \in BOOLEAN
        /\ [orders[o] EXCEPT !.status = st]
             = [orders[o] EXCEPT !.status = st, !.known = orders[o].known]
    BY <1>0, <2>2 DEF OrderRec
  <2> QED BY <1>4, <2>1, <2>2, <2>3 DEF Status
<1>7. ~ReadExit(s) /\ ~RecordExit(s) /\ ~DieInRecordExit(s)
  BY DEF ReadExit, RecordExit, DieInRecordExit, OnceInv
<1> QED BY <1>1, <1>2, <1>3, <1>5, <1>6, <1>7 DEF SubmitNext

\* The steps of the exchange, the bot's cancels and the private events.
LEMMA ExchangeOnce ==
  ASSUME TypeOK, KnownInv, OnceInv,
         \/ \E o \in Order : ExchangeNext(o) \/ BotCancel(o) \/ MarkByUuid(o)
         \/ ApplyPrivateEvent
  PROVE  /\ Plain /\ UNCHANGED <<sub, rc>>
         /\ exVol' = exVol \/ \E o \in Order : ExchangeFill(o)
<1>1. ASSUME NEW o \in Order, ExchangeNext(o) \/ BotCancel(o)
      PROVE  /\ Plain /\ UNCHANGED <<sub, rc>>
             /\ exVol' = exVol \/ ExchangeFill(o)
  BY <1>1, PlainStutter DEF ExchangeNext, ExchangeAccept, ExchangeLosePost, ExchangeFill,
     ExchangeCancel, BotCancel, journalVars, ledgerVars
<1>2. ASSUME NEW o \in Order, MarkByUuid(o)
      PROVE  Plain /\ UNCHANGED <<sub, rc, exVol>>
  <2> DEFINE rec == [orders[o] EXCEPT !.status = "CANCELED"]
  <2>1. /\ rec \in OrderRec /\ rec.status # "NONE" /\ rec.known = orders[o].known
        /\ rec.processed = orders[o].processed
    BY DEF TypeOK, OrderRec, Status
  <2> HIDE DEF rec
  <2>2. orders' = Marked(o, rec) /\ UNCHANGED <<booked, rc, sub, exVol>>
    BY <1>2 DEF MarkByUuid, Journal, ledgerVars, exchangeVars, rec
  <2> QED BY <2>1, <2>2, PlainMark
<1>3. CASE ApplyPrivateEvent
  <2> DEFINE e == Head(stream)
             r == [orders[e.ord] EXCEPT !.known = TRUE]
             c == [r EXCEPT !.status = "CANCELED", !.executed = IF e.vol > 0 THEN e.vol ELSE @]
  <2>1. e \in Event
    BY <1>3 DEF ApplyPrivateEvent, TypeOK
  <2>2. e.ord \in Order /\ orders[e.ord] \in OrderRec
    BY <2>1 DEF Event, TypeOK
  <2>3. r \in OrderRec /\ r.known = TRUE /\ r.processed = orders[e.ord].processed
    BY <2>2 DEF OrderRec
  <2> HIDE DEF r
  <2>4. /\ [r EXCEPT !.status = "OPEN"].known = TRUE
        /\ [r EXCEPT !.status = "OPEN"].processed = r.processed
    BY <2>3 DEF OrderRec
  <2>5. /\ [r EXCEPT !.status = "RECONCILIATION_PENDING"].known = TRUE
        /\ [r EXCEPT !.status = "RECONCILIATION_PENDING"].processed = r.processed
    BY <2>3 DEF OrderRec
  <2>6. c.known = TRUE /\ c.processed = r.processed
    BY <2>3 DEF OrderRec
  <2>7. EventRecord(e).known = TRUE /\ EventRecord(e).processed = orders[e.ord].processed
    BY <2>3, <2>4, <2>5, <2>6 DEF EventRecord, r
  <2>8. EventRecord(e) \in OrderRec /\ EventRecord(e).status # "NONE"
    BY <2>1, EventRecordType, EventState DEF Status
  <2>9. UNCHANGED <<sub, rc, exVol, booked>>
    BY <1>3 DEF ApplyPrivateEvent, ledgerVars
  <2>10. CASE Recorded(e.ord)
    <3>1. orders' = Marked(e.ord, EventRecord(e))
      BY <1>3, <2>10 DEF ApplyPrivateEvent, Journal
    <3> HIDE DEF e
    <3> QED BY <2>2, <2>7, <2>8, <2>9, <3>1, PlainMark
  <2>11. CASE ~Recorded(e.ord)
    BY <1>3, <2>9, <2>11, PlainStutter DEF ApplyPrivateEvent, journalVars
  <2> QED BY <2>10, <2>11
<1> QED BY <1>1, <1>2, <1>3

\* The reconciler has just read an answer about an order.
Fetches(t) ==
  /\ Plain /\ UNCHANGED <<orders, exVol, sub>>
  /\ \E o \in Order : /\ IsUnresolved(o) /\ rc'[t].ord = o
                      /\ \E a \in Answers(o) : rc'[t].ans = a

\* The steps of the reconciler.
LEMMA PassOnce ==
  ASSUME TypeOK, KnownInv, OnceInv, MaxCrashes = 0, NEW t \in Threads,
         FullPass(t) \/ SinglePass(t) \/ DieInApply(t)
  PROVE  \/ Applies(t) \/ Fetches(t)
         \/ Plain /\ UNCHANGED <<exVol, sub>> /\ rc'[t].pc # "apply"
<1>0. /\ rc[t] \in RcRec /\ ~(crashes < MaxCrashes)
      /\ rc[t].pc = "apply" => rc[t].ord \in Order
  BY DEF TypeOK
<1>w. ASSUME rc[t].pc = "apply"
      PROVE  /\ orders[rc[t].ord].status \in Status
             /\ rc[t].mode # "full" => rc[t].was \in Status
  BY <1>0, <1>w DEF TypeOK, RcRec, OrderRec, KnownInv, Recorded
<1>b. /\ AfterRefusal(t).pc # "apply" /\ RcIdle.pc # "apply"
      /\ \A m : [RcIdle EXCEPT !.pc = "finish", !.mode = m].pc # "apply"
      /\ [RcIdle EXCEPT !.pc = "finish"].pc # "apply"
      /\ [RcIdle EXCEPT !.pc = "scan", !.mode = "full", !.todo = RecordedOrders].pc # "apply"
      /\ [rc[t] EXCEPT !.pc = "scan", !.ord = None, !.ans = EmptyAnswer].pc # "apply"
      /\ \A q : rc[t].pc = "scan" => [rc[t] EXCEPT !.todo = q].pc # "apply"
  BY <1>0 DEF RcIdle, AfterRefusal, RcRec
<1>r. ASSUME NEW r, rc' = [rc EXCEPT ![t] = r] PROVE rc'[t] = r
  BY <1>r DEF TypeOK
<1>p. ASSUME NEW g, rc[t].pc = "apply", booked' = booked,
             LET rec == [orders[rc[t].ord] EXCEPT !.status = "RECONCILIATION_PENDING"]
             IN  Journal(Marked(rc[t].ord, rec), g) \/ JournalTwice(Marked(rc[t].ord, rec), g)
      PROVE  Plain
  <2> DEFINE o   == rc[t].ord
             rec == [orders[o] EXCEPT !.status = "RECONCILIATION_PENDING"]
  <2>1. /\ rec \in OrderRec /\ rec.status # "NONE" /\ rec.known = orders[o].known
        /\ rec.processed = orders[o].processed
    <3>1. orders[o] \in OrderRec
      BY <1>0, <1>p DEF TypeOK
    <3> QED BY <3>1 DEF OrderRec, Status
  <2>2. orders' = Marked(o, rec)
    BY <1>p DEF Journal, JournalTwice
  <2> HIDE DEF rec
  <2> QED BY <1>0, <1>p, <2>1, <2>2, PlainMark
<1>1. CASE BeginFull(t)
  BY <1>1, <1>b, <1>r, PlainStutter DEF BeginFull, journalVars, exchangeVars, ledgerVars
<1>2. ASSUME NEW o \in Order, FetchFull(t, o) PROVE Fetches(t)
  <2> DEFINE R(ans) == [rc[t] EXCEPT !.pc = "apply", !.todo = @ \ {o}, !.ord = o, !.ans = ans]
  <2>1. PICK ans \in Answers(o) : rc' = [rc EXCEPT ![t] = R(ans)]
    BY <1>2 DEF FetchFull
  <2>2. R(ans).ord = o /\ R(ans).ans = ans
    BY <1>0 DEF RcRec
  <2> HIDE DEF R
  <2>3. rc'[t] = R(ans)
    BY <1>r, <2>1
  <2>4. IsUnresolved(o) /\ UNCHANGED <<orders, exVol, sub, booked>>
    BY <1>2 DEF FetchFull, journalVars, exchangeVars, ledgerVars
  <2> QED BY <2>1, <2>2, <2>3, <2>4, PlainStutter DEF Fetches
<1>3. ASSUME NEW o \in Order, FailFull(t, o)
      PROVE  Plain /\ UNCHANGED <<exVol, sub>> /\ rc'[t].pc # "apply"
  <2>1. rc' = [rc EXCEPT ![t] = [rc[t] EXCEPT !.todo = rc[t].todo \ {o}]] /\ rc[t].pc = "scan"
    BY <1>3 DEF FailFull
  <2>2. rc'[t].pc # "apply"
    BY <1>b, <1>r, <2>1
  <2> QED BY <1>3, <2>2, PlainStutter DEF FailFull, journalVars, exchangeVars, ledgerVars
<1>4. CASE ApplyFull(t)
  <2>1. rc'[t].pc # "apply"
    BY <1>4, <1>b, <1>r DEF ApplyFull
  <2>2. MapState(rc[t].ans.state, orders[rc[t].ord].status) \in Status
    BY <1>4, <1>w, StatusTypes DEF ApplyFull
  <2> QED BY <1>4, <2>1, <2>2 DEF ApplyFull, Applies, exchangeVars
<1>5. CASE RejectFull(t)
  <2>1. rc'[t].pc # "apply"
    BY <1>5, <1>b, <1>r DEF RejectFull
  <2>2. Plain
    BY <1>5, <1>p DEF RejectFull, ledgerVars
  <2> QED BY <1>5, <2>1, <2>2 DEF RejectFull, exchangeVars
<1>6. CASE EndFull(t)
  <2>1. rc'[t].pc # "apply"
    <3>1. [RcIdle EXCEPT !.pc = "finish", !.mode = "tail"].pc # "apply"
      BY <1>b
    <3> QED BY <1>6, <1>r, <3>1 DEF EndFull
  <2> QED BY <1>6, <2>1, PlainStutter DEF EndFull, exchangeVars, ledgerVars
<1>7. ASSUME NEW o \in Order, BeginSingle(t, o) PROVE Fetches(t)
  <2> DEFINE R(ans) == [rc[t] EXCEPT !.pc = "apply", !.ord = o, !.ans = ans,
                                     !.was = orders[o].status]
  <2>1. PICK ans \in Answers(o) : rc' = [rc EXCEPT ![t] = R(ans)]
    BY <1>7 DEF BeginSingle
  <2>2. R(ans).ord = o /\ R(ans).ans = ans
    BY <1>0 DEF RcRec
  <2> HIDE DEF R
  <2>3. rc'[t] = R(ans)
    BY <1>r, <2>1
  <2>4. IsUnresolved(o) /\ UNCHANGED <<orders, exVol, sub, booked>>
    BY <1>7 DEF BeginSingle, journalVars, exchangeVars, ledgerVars
  <2> QED BY <2>1, <2>2, <2>3, <2>4, PlainStutter DEF Fetches
<1>8. ASSUME NEW o \in Order, FailSingle(t, o)
      PROVE  Plain /\ UNCHANGED <<exVol, sub>> /\ rc'[t].pc # "apply"
  BY <1>8, <1>b, <1>r, PlainStutter DEF FailSingle, Journal, exchangeVars, ledgerVars
<1>9. CASE ApplySingle(t)
  <2>1. rc'[t].pc # "apply"
    BY <1>9, <1>b, <1>r DEF ApplySingle
  <2>2. MapState(rc[t].ans.state, rc[t].was) \in Status
    BY <1>9, <1>w, StatusTypes DEF ApplySingle
  <2> QED BY <1>9, <2>1, <2>2 DEF ApplySingle, Applies, exchangeVars
<1>10. CASE RejectSingle(t)
  <2>1. rc'[t].pc # "apply"
    BY <1>10, <1>b, <1>r DEF RejectSingle
  <2>2. Plain
    BY <1>10, <1>p DEF RejectSingle, ledgerVars
  <2> QED BY <1>10, <2>1, <2>2 DEF RejectSingle, exchangeVars
<1>11. CASE Finish(t)
  <2>1. rc'[t].pc # "apply"
    BY <1>11, <1>b, <1>r DEF Finish
  <2> QED BY <1>11, <2>1, PlainStutter DEF Finish, exchangeVars, ledgerVars
<1>12. ~DieInApply(t)
  BY <1>0 DEF DieInApply, DieInFill, Reload
<1> QED BY <1>1, <1>2, <1>3, <1>4, <1>5, <1>6, <1>7, <1>8, <1>9, <1>10, <1>11, <1>12
        DEF FullPass, SinglePass

\* What an answer says when clients raise instead of answering nothing.
LEMMA AnswerOnce ==
  ASSUME TypeOK, OnceInv, ~SwallowErrors, NEW o \in Order, IsUnresolved(o), NEW a \in Answers(o)
  PROVE  /\ booked[o] = orders[o].processed
         /\ orders[o].processed <= a.vol /\ a.vol <= exVol[o]
         /\ ~orders[o].known => a.vol = 0
<1>1. booked[o] = orders[o].processed /\ booked[o] <= exVol[o]
  BY DEF OnceInv, IsUnresolved, Unresolved, Terminal
<1>2. exVol[o] \in Nat /\ orders[o].processed \in Nat /\ booked[o] \in Nat
  BY BoundAssumption DEF TypeOK, OrderRec
<1>3. CASE ~orders[o].known
  <2>1. a.vol = 0 /\ orders[o].processed = 0
    BY <1>3 DEF Answers, EmptyAnswer, OnceInv
  <2> QED BY <1>1, <1>2, <2>1
<1>4. CASE orders[o].known
  <2>1. PICK v : a = [state |-> exState[o], vol |-> exVol[o], valid |-> v]
    BY <1>4 DEF Answers
  <2> QED BY <1>1, <1>2, <1>4, <2>1
<1> QED BY <1>3, <1>4

\* What the reconciler books is the volume of its answer, once.
LEMMA AppliesOnce ==
  ASSUME TypeOK, KnownInv, OnceInv, NEW t \in Threads, Applies(t)
  PROVE  LET o == rc[t].ord
             v == rc[t].ans.vol IN
         /\ o \in Order
         /\ \A p \in Order : p # o => orders'[p] = orders[p]
         /\ \/ booked' = booked /\ orders'[o].processed = orders[o].processed
            \/ /\ booked' = [booked EXCEPT ![o] = v]
               /\ orders'[o].processed = v \/ orders'[o].status \in Terminal
               /\ ~orders'[o].known => orders'[o].processed = 0
         /\ orders'[o].status # "NONE"
         /\ orders'[o].known = orders[o].known
<1> DEFINE o == rc[t].ord
           v == rc[t].ans.vol
<1>0. /\ o \in Order /\ orders[o] \in OrderRec /\ v \in 0..Lots
      /\ booked[o] = orders[o].processed /\ orders[o].processed <= v
      /\ ~orders[o].known => v = 0 /\ orders[o].processed = 0
      /\ orders[o].status # "NONE"
  BY DEF Applies, TypeOK, RcRec, Answer, OnceInv, KnownInv, Recorded
<1> PICK st \in Status, basis \in BOOLEAN : ProcessOrderFill(o, st, v, basis)
  BY DEF Applies
<1> HIDE DEF o, v
<1>1. CASE /\ Journal(Marked(o, [orders[o] EXCEPT !.status = "RECONCILIATION_PENDING"]), gate)
           /\ UNCHANGED ledgerVars
  <2> DEFINE rec == [orders[o] EXCEPT !.status = "RECONCILIATION_PENDING"]
  <2>1. /\ rec.status # "NONE" /\ rec.known = orders[o].known
        /\ rec.processed = orders[o].processed
    BY <1>0 DEF OrderRec
  <2>2. orders' = Marked(o, rec) /\ booked' = booked
    BY <1>1 DEF Journal, ledgerVars
  <2> HIDE DEF rec
  <2>3. \A p \in Order : orders'[p] = orders[p] \/ (p = o /\ orders'[p] = rec)
    BY <2>2 DEF Marked, TypeOK
  <2> QED BY <1>0, <2>1, <2>2, <2>3 DEF o, v
<1>2. CASE Book(o, st, v) /\ Journal(Marked(o, FillRecord(o, st, v)), gate)
  <2> DEFINE rec == FillRecord(o, st, v)
  <2>1. /\ rec.status = FillStatus(o, st, v) /\ rec.known = orders[o].known
        /\ rec.processed = v
    BY <1>0 DEF OrderRec, FillRecord
  <2>2. orders' = Marked(o, rec)
    BY <1>2 DEF Journal
  <2>3. booked' = [booked EXCEPT ![o] = v]
    <3>1. /\ v \in Nat /\ booked[o] \in Nat /\ Lots \in Nat /\ MaxBooked \in Nat
          /\ v < MaxBooked /\ orders[o].processed \in Nat
      BY <1>0, BoundAssumption DEF OrderRec
    <3>2. booked[o] + Delta(o, v) = v
      BY <1>0, <3>1 DEF Delta
    <3> QED BY <1>2, <3>1, <3>2 DEF Book
  <2> HIDE DEF rec
  <2>4. \A p \in Order : p # o => orders'[p] = orders[p]
    BY <2>2 DEF Marked, TypeOK
  <2>5. orders'[o] = rec \/ (orders'[o] = orders[o] /\ orders[o].status \in Terminal)
    BY <1>0, <2>2 DEF Marked, TypeOK
  <2>6. rec.status # "NONE"
    BY <1>0, <2>1 DEF FillStatus, Status
  <2> QED BY <1>0, <2>1, <2>3, <2>4, <2>5, <2>6 DEF o, v
<1> QED BY <1>1, <1>2 DEF ProcessOrderFill

\* A step that books nothing keeps the reconciler's answers valid.
LEMMA PlainKeeps ==
  ASSUME TypeOK, KnownInv, OnceInv, Journaled, Plain,
         \A o \in Order : exVol[o] <= exVol'[o],
         \A s \in Submitters : sub'[s].pc \notin {"acked", "confirm"},
         \A t \in Threads :
           rc'[t].pc = "apply" =>
             LET o == rc'[t].ord
                 v == rc'[t].ans.vol IN
             /\ o \in Order /\ v \in Nat
             /\ booked[o] = orders[o].processed
             /\ orders[o].processed <= v /\ v <= exVol[o]
             /\ ~orders[o].known => v = 0,
         exVol' \in [Order -> 0..Lots]
  PROVE  OnceInv'
<1>0. \A o \in Order : exVol[o] \in Nat /\ exVol'[o] \in Nat /\ booked[o] \in Nat /\ orders[o].known \in BOOLEAN
  BY BoundAssumption DEF TypeOK, OrderRec
<1>1. \A o \in Order : /\ booked'[o] = booked[o]
                       /\ orders'[o].processed = orders[o].processed
                       /\ orders[o].known => orders'[o].known
                       /\ orders'[o].status = "NONE" => ~orders'[o].known
                       /\ orders'[o].status \notin Terminal => orders[o].status \notin Terminal
  BY RecordsStay DEF Plain
<1>2. \A o \in Order : /\ booked'[o] <= exVol'[o]
                       /\ orders'[o].status \notin Terminal => booked'[o] = orders'[o].processed
                       /\ ~orders'[o].known => orders'[o].processed = 0
                       /\ orders'[o].status = "NONE" => ~orders'[o].known
  BY <1>0, <1>1 DEF OnceInv
<1>3. ASSUME NEW t \in Threads, rc'[t].pc = "apply"
      PROVE  /\ booked'[rc'[t].ord] = orders'[rc'[t].ord].processed
             /\ orders'[rc'[t].ord].processed <= rc'[t].ans.vol
             /\ rc'[t].ans.vol <= exVol'[rc'[t].ord]
             /\ ~orders'[rc'[t].ord].known => rc'[t].ans.vol = 0
  <2> DEFINE o == rc'[t].ord
             v == rc'[t].ans.vol
  <2>1. /\ o \in Order /\ v \in Nat /\ booked[o] = orders[o].processed
        /\ orders[o].processed <= v /\ v <= exVol[o]
        /\ ~orders[o].known => v = 0
        /\ exVol[o] <= exVol'[o]
    BY <1>3
  <2> HIDE DEF o, v
  <2>2. booked'[o] = orders'[o].processed /\ orders'[o].processed <= v
    BY <1>1, <2>1
  <2>3. v <= exVol'[o]
    BY <1>0, <2>1
  <2>4. ~orders'[o].known => v = 0
    BY <1>1, <2>1
  <2> QED BY <2>2, <2>3, <2>4 DEF o, v
<1> QED BY <1>2, <1>3 DEF OnceInv

\* The volume an order has executed only grows.
LEMMA VolumeGrows ==
  ASSUME TypeOK, TypeOK', exVol' = exVol \/ \E o \in Order : ExchangeFill(o)
  PROVE  \A p \in Order : exVol[p] <= exVol'[p]
<1>1. \A p \in Order : exVol[p] \in Nat
  BY BoundAssumption DEF TypeOK
<1>2. CASE exVol' = exVol
  BY <1>1, <1>2
<1>3. ASSUME NEW o \in Order, ExchangeFill(o) PROVE \A p \in Order : exVol[p] <= exVol'[p]
  <2>1. exVol' = [exVol EXCEPT ![o] = exVol[o] + 1]
    BY <1>3 DEF ExchangeFill
  <2> QED BY <1>1, <2>1 DEF TypeOK
<1> QED BY <1>2, <1>3

\* A step keeps OnceInv, and to the ledger it is an execution, a booking of what
\* was executed, or nothing.
LEMMA OnceStep ==
  ASSUME TypeOK, TypeOK', KnownInv, OnceInv, [Next]_vars,
         ~SaveMayFail, ~SwallowErrors, MaxCrashes = 0, TickThreads = {},
         \A t, u \in Threads : t = u
  PROVE  OnceInv' /\ [Ledger!Next]_<<exVol, booked>>
<1>j. Journaled
  BY StepMarks
<1>0. /\ exVol \in [Order -> 0..Lots] /\ exVol' \in [Order -> 0..Lots]
      /\ Lots \in Nat
      /\ \A o \in Order : exVol[o] \in Nat
  BY BoundAssumption DEF TypeOK
<1>c. ~(crashes < MaxCrashes)
  BY DEF TypeOK
\* A step that books nothing, and leaves the reconciler alone.
<1>p. ASSUME Plain, exVol' = exVol \/ \E o \in Order : ExchangeFill(o),
             \A s \in Submitters : sub'[s].pc \notin {"acked", "confirm"},
             \A t \in Threads :
               rc'[t].pc = "apply" =>
                 LET o == rc'[t].ord
                     v == rc'[t].ans.vol IN
                 /\ o \in Order /\ v \in Nat
                 /\ booked[o] = orders[o].processed
                 /\ orders[o].processed <= v /\ v <= exVol[o]
                 /\ ~orders[o].known => v = 0
      PROVE  OnceInv' /\ [Ledger!Next]_<<exVol, booked>>
  <2>1. OnceInv'
    BY <1>0, <1>j, <1>p, PlainKeeps, VolumeGrows
  <2>2. ASSUME NEW o \in Order, ExchangeFill(o) PROVE Ledger!Execute(o)
    BY <1>p, <2>2 DEF ExchangeFill, Plain, Ledger!Execute
  <2>3. booked' = booked
    BY <1>p DEF Plain
  <2> QED BY <1>p, <2>1, <2>2, <2>3 DEF Ledger!Next
<1>r. ASSUME NEW t \in Threads, rc[t].pc = "apply"
      PROVE  LET o == rc[t].ord
                 v == rc[t].ans.vol IN
             /\ o \in Order /\ v \in Nat
             /\ booked[o] = orders[o].processed
             /\ orders[o].processed <= v /\ v <= exVol[o]
             /\ ~orders[o].known => v = 0
  BY <1>0, <1>r DEF TypeOK, RcRec, Answer, OnceInv
<1>s. \A s \in Submitters : sub[s].pc \notin {"acked", "confirm"}
  BY DEF OnceInv
<1>1. CASE UNCHANGED vars
  <2>1. UNCHANGED <<orders, booked, exVol, rc, sub>>
    BY <1>1 DEF vars
  <2> QED BY <1>p, <1>r, <1>s, <2>1, PlainStutter
<1>2. ASSUME NEW s \in Submitters, SubmitNext(s) PROVE OnceInv' /\ [Ledger!Next]_<<exVol, booked>>
  <2>1. /\ Plain /\ exVol' = exVol /\ UNCHANGED rc
        /\ \A r \in Submitters : sub'[r].pc \notin {"acked", "confirm"}
    BY <1>2, SubmitOnce
  <2> QED BY <1>p, <1>r, <2>1
<1>3. CASE \/ \E o \in Order : ExchangeNext(o) \/ BotCancel(o) \/ MarkByUuid(o)
           \/ ApplyPrivateEvent
  <2>1. /\ Plain /\ UNCHANGED <<sub, rc>>
        /\ exVol' = exVol \/ \E o \in Order : ExchangeFill(o)
    BY <1>3, ExchangeOnce
  <2> QED BY <1>p, <1>r, <1>s, <2>1
<1>4. ASSUME NEW t \in Threads, FullPass(t) \/ SinglePass(t) \/ DieInApply(t)
      PROVE  OnceInv' /\ [Ledger!Next]_<<exVol, booked>>
  <2>1. \A u \in Threads : u = t
    OBVIOUS
  <2>2. CASE Plain /\ UNCHANGED <<exVol, sub>> /\ rc'[t].pc # "apply"
    BY <1>p, <1>s, <2>1, <2>2
  <2>3. CASE Fetches(t)
    <3>1. PICK o \in Order : IsUnresolved(o) /\ rc'[t].ord = o /\ \E a \in Answers(o) : rc'[t].ans = a
      BY <2>3 DEF Fetches
    <3>2. PICK a \in Answers(o) : rc'[t].ans = a
      BY <3>1
    <3>3. /\ booked[o] = orders[o].processed
          /\ orders[o].processed <= a.vol /\ a.vol <= exVol[o]
          /\ ~orders[o].known => a.vol = 0
      BY <3>1, <3>2, AnswerOnce
    <3>4. a.vol \in Nat
      BY <3>2, AnswersType, <1>0 DEF Answer
    <3>5. Plain /\ UNCHANGED <<exVol, sub>>
      BY <2>3 DEF Fetches
    <3>6. \A u \in Threads :
            rc'[u].pc = "apply" =>
                 LET q == rc'[u].ord
                     v == rc'[u].ans.vol IN
                 /\ q \in Order /\ v \in Nat
                 /\ booked[q] = orders[q].processed
                 /\ orders[q].processed <= v /\ v <= exVol[q]
                 /\ ~orders[q].known => v = 0
      BY <2>1, <3>1, <3>2, <3>3, <3>4
    <3> QED BY <1>p, <1>s, <3>5, <3>6
  <2>4. CASE Applies(t)
    <3> DEFINE o == rc[t].ord
               v == rc[t].ans.vol
    <3>1. /\ o \in Order
          /\ \A p \in Order : p # o => orders'[p] = orders[p]
          /\ \/ booked' = booked /\ orders'[o].processed = orders[o].processed
             \/ /\ booked' = [booked EXCEPT ![o] = v]
                /\ orders'[o].processed = v \/ orders'[o].status \in Terminal
                /\ ~orders'[o].known => orders'[o].processed = 0
          /\ orders'[o].status # "NONE"
          /\ orders'[o].known = orders[o].known
      BY <2>4, AppliesOnce
    <3>2. rc[t].pc = "apply" /\ rc'[t].pc # "apply" /\ exVol' = exVol /\ sub' = sub
      BY <2>4 DEF Applies
    <3>3. /\ v \in Nat /\ booked[o] = orders[o].processed
          /\ orders[o].processed <= v /\ v <= exVol[o]
      BY <1>r, <3>2
    <3>4. /\ booked \in [Order -> Nat] /\ booked[o] \in Nat
      BY <3>1, BoundAssumption DEF TypeOK
    <3> HIDE DEF o, v
    <3>5. CASE booked' = booked /\ orders'[o].processed = orders[o].processed
      <4>1. Plain
        BY <3>1, <3>5 DEF Plain, OnceInv
      <4> QED BY <1>p, <1>s, <2>1, <3>2, <4>1
    <3>6. CASE /\ booked' = [booked EXCEPT ![o] = v]
               /\ orders'[o].processed = v \/ orders'[o].status \in Terminal
               /\ ~orders'[o].known => orders'[o].processed = 0
      <4>1. booked'[o] = v /\ \A p \in Order : p # o => booked'[p] = booked[p]
        BY <3>1, <3>4, <3>6
      <4>2. ASSUME NEW p \in Order
            PROVE  /\ booked'[p] <= exVol'[p]
                   /\ orders'[p].status \notin Terminal => booked'[p] = orders'[p].processed
                   /\ ~orders'[p].known => orders'[p].processed = 0
                   /\ orders'[p].status = "NONE" => ~orders'[p].known
        <5>1. CASE p = o
          BY <3>1, <3>2, <3>3, <3>6, <4>1, <5>1
        <5>2. CASE p # o
          BY <3>1, <3>2, <4>1, <5>2 DEF OnceInv
        <5> QED BY <5>1, <5>2
      <4>3. OnceInv'
        BY <1>s, <2>1, <3>2, <4>2 DEF OnceInv
      <4>4. CASE v = booked[o]
        <5>1. booked' = booked
          BY <3>4, <3>6, <4>4
        <5> QED BY <3>2, <4>3, <5>1
      <4>5. CASE v # booked[o]
        <5>1. exVol[o] \in Nat
          BY <1>0, <3>1
        <5>2. booked[o] < exVol[o] /\ v \in (booked[o] + 1)..exVol[o]
          BY <3>3, <3>4, <4>5, <5>1
        <5>3. Ledger!Book(o)
          BY <3>2, <3>6, <5>2 DEF Ledger!Book
        <5> QED BY <3>1, <4>3, <5>3 DEF Ledger!Next
      <4> QED BY <4>4, <4>5
    <3> QED BY <3>1, <3>5, <3>6
  <2> QED BY <1>4, <2>2, <2>3, <2>4, PassOnce
<1>5. ~Restart
  BY <1>c DEF Restart, Reload
<1> QED BY <1>1, <1>2, <1>3, <1>4, <1>5 DEF Next

\* With one reconciler, no tick thread, no death of the process and a client
\* that raises when it cannot look an order up, the journal and its processors
\* implement the ledger: what is executed is booked later, and no lot twice.
THEOREM LedgerImplemented ==
  ASSUME ~SaveMayFail, ~SwallowErrors, MaxCrashes = 0, TickThreads = {},
         \A t, u \in Threads : t = u
  PROVE  Spec => BookedOnce
<1>1. Init => OnceInv /\ Ledger!Init
  BY DEF Init, OnceInv, Ledger!Init, NotRecorded, SubIdle, RcIdle
<1>2. TypeOK /\ TypeOK' /\ KnownInv /\ OnceInv /\ [Next]_vars
        => OnceInv' /\ [Ledger!Next]_<<exVol, booked>>
  BY OnceStep
<1> QED BY <1>1, <1>2, TypeCorrect, KnownAlways, PTL DEF Spec, BookedOnce, Ledger!Spec

=============================================================================
