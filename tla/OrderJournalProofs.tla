------------------------- MODULE OrderJournalProofs -------------------------
(***************************************************************************)
(* Theorems about OrderJournal, for every set of orders, threads and       *)
(* submitters and every setting of the switches: the types, and that an    *)
(* order the journal calls FILLED has been booked in full, whatever        *)
(* threads, events, crashes and failed saves do.  FilledIsBooked alone is  *)
(* not inductive: a reload takes the file's records, and an answer is used *)
(* long after it was read.  FillInv adds what both of them rest on.        *)
(***************************************************************************)
EXTENDS OrderJournal, TLAPS

-----------------------------------------------------------------------------
(* The operators the actions are built from keep their types *)

\* The states of an order and of an exchange answer.
LEMMA StatusTypes ==
  /\ Terminal \subseteq Status /\ Unresolved \subseteq Status
  /\ \A raw, fb : fb \in Status => MapState(raw, fb) \in Status
  /\ \A raw, fb : fb \in Status \cup {"NONE"} => MapState(raw, fb) \in Status \cup {"NONE"}
  BY DEF Terminal, Unresolved, Status, MapState

\* The records that variables start from.
LEMMA InitialTypes ==
  /\ 0 \in 0..Lots /\ 0 \in 0..MaxBooked /\ 0 \in 0..MaxCrashes
  /\ NotRecorded \in OrderRec
  /\ [NotRecorded EXCEPT !.status = "PENDING_SUBMISSION"] \in OrderRec
  /\ EmptyAnswer \in Answer /\ SubIdle \in SubRec /\ RcIdle \in RcRec
  /\ <<>> \in Seq(Event)
<1>1. 0 \in 0..Lots /\ 0 \in 0..MaxBooked /\ 0 \in 0..MaxCrashes
  BY BoundAssumption
<1>2. NotRecorded \in OrderRec
  BY <1>1 DEF NotRecorded, OrderRec
<1>3. [NotRecorded EXCEPT !.status = "PENDING_SUBMISSION"] \in OrderRec
  BY <1>2 DEF OrderRec, Status
<1>4. EmptyAnswer \in Answer
  BY <1>1 DEF EmptyAnswer, Answer, RawState
<1>5. SubIdle \in SubRec
  BY <1>1 DEF SubIdle, SubRec
<1>6. RcIdle \in RcRec
  BY <1>4 DEF RcIdle, RcRec
<1> QED BY <1>1, <1>2, <1>3, <1>4, <1>5, <1>6

\* Writing the journal keeps the journal and its file well typed.
LEMMA JournalType ==
  ASSUME disk \in JournalRec,
         NEW os \in [Order -> OrderRec], NEW g \in GateRec, Journal(os, g)
  PROVE  orders' \in [Order -> OrderRec] /\ gate' \in GateRec /\ disk' \in JournalRec
  BY DEF Journal, File, JournalRec

\* So does writing it twice.
LEMMA JournalTwiceType ==
  ASSUME disk \in JournalRec, gate \in GateRec,
         NEW os \in [Order -> OrderRec], NEW g \in GateRec, JournalTwice(os, g)
  PROVE  orders' \in [Order -> OrderRec] /\ gate' \in GateRec /\ disk' \in JournalRec
<1>1. File(os, g) \in JournalRec /\ File(os, gate) \in JournalRec
  BY DEF File, JournalRec
<1> QED BY <1>1 DEF JournalTwice

\* A mark puts a record in place of a record.
LEMMA MarkedType ==
  ASSUME orders \in [Order -> OrderRec], NEW o \in Order, NEW rec \in OrderRec
  PROVE  Marked(o, rec) \in [Order -> OrderRec]
  BY DEF Marked

\* process_order_fill keeps the journal, the books and their types.
LEMMA FillType ==
  ASSUME TypeOK, NEW o \in Order, NEW st \in Status \cup {"NONE"},
         NEW vol \in 0..Lots, NEW basis, ProcessOrderFill(o, st, vol, basis)
  PROVE  /\ orders' \in [Order -> OrderRec] /\ gate' \in GateRec /\ disk' \in JournalRec
         /\ booked' \in [Order -> 0..MaxBooked] /\ cleared' \subseteq Order
<1>1. CASE /\ Refused(o, vol, basis)
           /\ Journal(Marked(o, [orders[o] EXCEPT !.status = "RECONCILIATION_PENDING"]), gate)
           /\ UNCHANGED ledgerVars
  <2>1. [orders[o] EXCEPT !.status = "RECONCILIATION_PENDING"] \in OrderRec
    BY DEF TypeOK, OrderRec, Status
  <2> QED BY <1>1, <2>1, MarkedType, JournalType DEF TypeOK, ledgerVars
<1>2. CASE Book(o, st, vol) /\ Journal(Marked(o, FillRecord(o, st, vol)), gate)
  <2>1. FillRecord(o, st, vol) \in OrderRec
    BY DEF TypeOK, OrderRec, FillRecord, FillStatus
  <2>2. booked' \in [Order -> 0..MaxBooked] /\ cleared' \subseteq Order
    BY <1>2, BoundAssumption DEF Book, Delta, TypeOK, OrderRec
  <2> QED BY <1>2, <2>1, <2>2, MarkedType, JournalType DEF TypeOK
<1> QED BY <1>1, <1>2 DEF ProcessOrderFill

\* A reload after a crash keeps the types of all it sets.
LEMMA ReloadType ==
  ASSUME TypeOK, Reload,
         booked' \in [Order -> 0..MaxBooked], cleared' \subseteq Order
  PROVE  TypeOK'
<1>1. /\ orders' \in [Order -> OrderRec] /\ gate' \in GateRec /\ disk' \in JournalRec
  BY DEF Reload, TypeOK, JournalRec, GateRec
<1>2. /\ sub' \in [Submitters -> SubRec]
      /\ \A s \in Submitters : sub'[s].pc = "idle"
  BY InitialTypes DEF Reload, SubIdle
<1>3. /\ rc' \in [Threads -> RcRec]
      /\ \A t \in Threads : rc'[t].pc = "idle"
  BY InitialTypes DEF Reload, RcIdle
<1>4. /\ failedNow' \in BOOLEAN /\ cancels' \subseteq Order /\ wire' \subseteq Order
      /\ exState' = exState /\ exVol' = exVol
      /\ stream' \in Seq(Event)
  BY InitialTypes DEF Reload, TypeOK
<1>5. crashes' \in 0..MaxCrashes
  BY BoundAssumption DEF Reload, TypeOK
<1> QED BY <1>1, <1>2, <1>3, <1>4, <1>5 DEF TypeOK

\* A death inside process_order_fill keeps them too.
LEMMA DieType ==
  ASSUME TypeOK, NEW o \in Order, NEW st, NEW vol \in 0..Lots, NEW basis,
         DieInFill(o, st, vol, basis)
  PROVE  TypeOK'
<1>1. booked' \in [Order -> 0..MaxBooked] /\ cleared' \subseteq Order
  BY BoundAssumption DEF DieInFill, Book, Delta, TypeOK, OrderRec
<1> QED BY <1>1, ReloadType DEF DieInFill

-----------------------------------------------------------------------------
(* Type correctness *)

\* The initial state is well typed.
LEMMA InitType ==
  ASSUME Init
  PROVE  TypeOK
<1>1. /\ orders \in [Order -> OrderRec] /\ gate \in GateRec
  BY InitialTypes DEF Init, GateRec
<1>2. disk \in JournalRec
  BY <1>1 DEF Init, JournalRec, File
<1>3. /\ sub \in [Submitters -> SubRec] /\ rc \in [Threads -> RcRec]
      /\ \A s \in Submitters : sub[s].pc = "idle"
      /\ \A t \in Threads : rc[t].pc = "idle"
  BY InitialTypes DEF Init, SubIdle, RcIdle
<1>4. /\ stream \in Seq(Event) /\ booked \in [Order -> 0..MaxBooked]
      /\ exVol \in [Order -> 0..Lots] /\ crashes \in 0..MaxCrashes
  BY InitialTypes DEF Init
<1> QED BY <1>1, <1>2, <1>3, <1>4 DEF Init, TypeOK, RawState

\* The end of a submission.
LEMMA SubmitEndType ==
  ASSUME TypeOK, NEW s \in Submitters, sub[s].pc # "idle",
         NEW rec \in OrderRec, NEW after \in {SubIdle, [sub[s] EXCEPT !.pc = "acked"]},
         SubmitEnd(s, rec, after)
  PROVE  /\ orders' \in [Order -> OrderRec] /\ gate' \in GateRec /\ disk' \in JournalRec
         /\ sub' \in [Submitters -> SubRec]
         /\ \A r \in Submitters : sub'[r].pc # "idle" => sub'[r].ord \in Order
<1>1. sub[s].ord \in Order
  BY DEF TypeOK
<1>2. orders' \in [Order -> OrderRec] /\ gate' \in GateRec /\ disk' \in JournalRec
  BY <1>1, MarkedType, JournalType DEF SubmitEnd, TypeOK
<1>3. after \in SubRec /\ (after.pc # "idle" => after.ord \in Order)
  <2>1. CASE after = SubIdle
    BY <2>1, InitialTypes DEF SubIdle
  <2>2. CASE after = [sub[s] EXCEPT !.pc = "acked"]
    BY <2>2, <1>1 DEF TypeOK, SubRec
  <2> QED BY <2>1, <2>2
<1> QED BY <1>2, <1>3 DEF SubmitEnd, TypeOK

\* The steps of a submitter.
LEMMA SubmitType ==
  ASSUME TypeOK, NEW s \in Submitters, SubmitNext(s)
  PROVE  TypeOK'
<1> DEFINE o == sub[s].ord
<1>0. sub[s].pc # "idle" => o \in Order /\ orders[o] \in OrderRec
  BY DEF TypeOK
<1> HIDE DEF o
<1>1. ASSUME NEW p \in Order, SubmitCheck(s, p) PROVE TypeOK'
  <2>1. /\ [SubIdle EXCEPT !.pc = "checked", !.ord = p] \in SubRec
        /\ [SubIdle EXCEPT !.pc = "checked", !.ord = p].ord = p
    BY InitialTypes DEF SubIdle, SubRec
  <2> QED BY <1>1, <2>1 DEF SubmitCheck, TypeOK, journalVars, exchangeVars, ledgerVars
<1>2. CASE RecordIntent(s)
  <2>1. /\ orders' \in [Order -> OrderRec] /\ gate' \in GateRec /\ disk' \in JournalRec
    BY <1>2, <1>0, InitialTypes, JournalType DEF RecordIntent, TypeOK, o
  <2> QED BY <1>2, <1>0, <2>1 DEF RecordIntent, TypeOK, SubRec, exchangeVars, ledgerVars
<1>3. CASE CreateOrder(s)
  BY <1>3, <1>0 DEF CreateOrder, TypeOK, SubRec, journalVars, ledgerVars, o
<1>4. CASE SubmitAck(s)
  <2>1. [orders[o] EXCEPT !.status = "ACKNOWLEDGED", !.known = TRUE] \in OrderRec
    BY <1>0, <1>4 DEF SubmitAck, OrderRec, Status
  <2> QED BY <1>4, <2>1, SubmitEndType DEF SubmitAck, SubmitEnd, TypeOK, exchangeVars, ledgerVars, o
<1>5. CASE SubmitTimeout(s)
  <2>1. [orders[o] EXCEPT !.status = "UNKNOWN"] \in OrderRec
    BY <1>0, <1>5 DEF SubmitTimeout, OrderRec, Status
  <2> QED BY <1>5, <2>1, SubmitEndType DEF SubmitTimeout, SubmitEnd, TypeOK, exchangeVars, ledgerVars, o
<1>6. CASE SubmitReject(s)
  <2>1. [orders[o] EXCEPT !.status = "FAILED"] \in OrderRec
    BY <1>0, <1>6 DEF SubmitReject, OrderRec, Status
  <2> QED BY <1>6, <2>1, SubmitEndType DEF SubmitReject, SubmitEnd, TypeOK, ledgerVars, o
<1>7. CASE SubmitGatewayError(s)
  <2>1. [orders[o] EXCEPT !.status = "FAILED"] \in OrderRec
    BY <1>0, <1>7 DEF SubmitGatewayError, OrderRec, Status
  <2> QED BY <1>7, <2>1, SubmitEndType DEF SubmitGatewayError, SubmitEnd, TypeOK, exchangeVars, ledgerVars, o
<1>8. CASE ReadExit(s)
  <2>1. CASE exVol[o] > 0
    <3>1. [sub[s] EXCEPT !.pc = "confirm", !.vol = exVol[o]] \in SubRec
      BY <1>8, <1>0 DEF ReadExit, TypeOK, SubRec
    <3> QED BY <1>8, <1>0, <2>1, <3>1 DEF ReadExit, TypeOK, SubRec, journalVars, exchangeVars, ledgerVars, o
  <2>2. CASE ~(exVol[o] > 0)
    BY <1>8, <2>2, InitialTypes DEF ReadExit, TypeOK, SubIdle, journalVars, exchangeVars, ledgerVars, o
  <2> QED BY <2>1, <2>2
<1>9. CASE RecordExit(s)
  <2>1. sub[s].vol \in 0..Lots /\ ConfirmedStatus(sub[s].vol) \in Status
    BY DEF TypeOK, SubRec, ConfirmedStatus, Status
  <2>2. /\ orders' \in [Order -> OrderRec] /\ gate' \in GateRec /\ disk' \in JournalRec
        /\ booked' \in [Order -> 0..MaxBooked] /\ cleared' \subseteq Order
    BY <1>9, <1>0, <2>1, FillType DEF RecordExit, o
  <2> QED BY <1>9, <2>2, BoundAssumption DEF RecordExit, TypeOK, SubRec, SubIdle, exchangeVars
<1>10. CASE DieInRecordExit(s)
  <2>1. sub[s].vol \in 0..Lots
    BY DEF TypeOK, SubRec
  <2> QED BY <1>10, <1>0, <2>1, DieType DEF DieInRecordExit, o
<1> QED BY <1>1, <1>2, <1>3, <1>4, <1>5, <1>6, <1>7, <1>8, <1>9, <1>10 DEF SubmitNext

\* The steps of the exchange, the bot's cancels and the private events.
LEMMA ExchangeType ==
  ASSUME TypeOK, NEW o \in Order, ExchangeNext(o) \/ BotCancel(o) \/ MarkByUuid(o)
  PROVE  TypeOK'
<1>1. ASSUME NEW st \in {"wait", "trade", "done", "cancel"}, NEW vol \in 0..Lots, Push(o, st, vol)
      PROVE  stream' \in Seq(Event)
  <2>1. [ord |-> o, state |-> st, vol |-> vol] \in Event
    BY DEF Event, RawState
  <2>2. Append(stream, [ord |-> o, state |-> st, vol |-> vol]) \in Seq(Event)
    BY <2>1 DEF TypeOK
  <2>3. UNCHANGED stream => stream' \in Seq(Event)
    BY DEF TypeOK
  <2> QED BY <1>1, <2>2, <2>3 DEF Push
<1>2. CASE ExchangeAccept(o)
  <2>1. stream' \in Seq(Event)
    BY <1>1, <1>2, InitialTypes DEF ExchangeAccept
  <2> QED BY <1>2, <2>1 DEF ExchangeAccept, TypeOK, RawState, journalVars, ledgerVars
<1>3. CASE ExchangeLosePost(o)
  BY <1>3 DEF ExchangeLosePost, TypeOK, journalVars, ledgerVars
<1>4. CASE ExchangeFill(o)
  <2>1. exVol[o] + 1 \in 0..Lots
    BY <1>4, BoundAssumption DEF ExchangeFill, TypeOK
  <2>2. stream' \in Seq(Event)
    BY <1>1, <1>4, <2>1 DEF ExchangeFill
  <2> QED BY <1>4, <2>1, <2>2 DEF ExchangeFill, TypeOK, RawState, journalVars, ledgerVars
<1>5. CASE ExchangeCancel(o)
  <2>1. stream' \in Seq(Event)
    BY <1>1, <1>5 DEF ExchangeCancel, TypeOK
  <2> QED BY <1>5, <2>1 DEF ExchangeCancel, TypeOK, RawState, journalVars, ledgerVars
<1>6. CASE BotCancel(o)
  <2>1. stream' \in Seq(Event)
    BY <1>1, <1>6 DEF BotCancel, TypeOK
  <2> QED BY <1>6, <2>1 DEF BotCancel, TypeOK, RawState, journalVars, ledgerVars
<1>7. CASE MarkByUuid(o)
  <2>1. [orders[o] EXCEPT !.status = "CANCELED"] \in OrderRec
    BY DEF TypeOK, OrderRec, Status
  <2>2. orders' \in [Order -> OrderRec] /\ gate' \in GateRec /\ disk' \in JournalRec
    BY <1>7, <2>1, MarkedType, JournalType DEF MarkByUuid, TypeOK
  <2> QED BY <1>7, <2>2 DEF MarkByUuid, TypeOK, exchangeVars, ledgerVars
<1> QED BY <1>2, <1>3, <1>4, <1>5, <1>6, <1>7 DEF ExchangeNext

\* What an event makes of the order's record.
LEMMA EventRecordType ==
  ASSUME TypeOK, NEW e \in Event
  PROVE  EventRecord(e) \in OrderRec
<1> DEFINE r == [orders[e.ord] EXCEPT !.known = TRUE]
<1>1. e.vol \in 0..Lots /\ orders[e.ord] \in OrderRec
  BY DEF Event, TypeOK
<1>r. r \in OrderRec
  BY <1>1 DEF OrderRec
<1> HIDE DEF r
<1>2. [r EXCEPT !.status = "OPEN"] \in OrderRec
  BY <1>r DEF OrderRec, Status
<1>3. [r EXCEPT !.status = "RECONCILIATION_PENDING"] \in OrderRec
  BY <1>r DEF OrderRec, Status
<1>4. [r EXCEPT !.status = "CANCELED", !.executed = IF e.vol > 0 THEN e.vol ELSE @] \in OrderRec
  BY <1>1, <1>r DEF OrderRec, Status
<1> QED BY <1>2, <1>3, <1>4 DEF EventRecord, r

\* A private event is applied.
LEMMA EventType ==
  ASSUME TypeOK, ApplyPrivateEvent
  PROVE  TypeOK'
<1> DEFINE e == Head(stream)
<1>1. e \in Event /\ Tail(stream) \in Seq(Event)
  BY DEF ApplyPrivateEvent, TypeOK
<1>2. EventRecord(e) \in OrderRec
  BY <1>1, EventRecordType
<1>3. orders' \in [Order -> OrderRec] /\ gate' \in GateRec /\ disk' \in JournalRec
  <2>1. CASE Journal(Marked(e.ord, EventRecord(e)), gate)
    BY <1>1, <1>2, <2>1, MarkedType, JournalType DEF Event, TypeOK
  <2>2. CASE UNCHANGED journalVars
    BY <2>2 DEF journalVars, TypeOK
  <2> QED BY <2>1, <2>2 DEF ApplyPrivateEvent
<1> QED BY <1>1, <1>3 DEF ApplyPrivateEvent, TypeOK, ledgerVars

\* What the exchange may answer.
LEMMA AnswersType ==
  ASSUME TypeOK, NEW o \in Order, NEW a \in Answers(o)
  PROVE  a \in Answer
<1>1. CASE a = EmptyAnswer
  BY <1>1, InitialTypes
<1>2. ASSUME NEW v \in BOOLEAN, a = [state |-> exState[o], vol |-> exVol[o], valid |-> v]
      PROVE  a \in Answer
  BY <1>2 DEF TypeOK, Answer
<1> QED BY <1>1, <1>2 DEF Answers

\* A journal file a reconciler may write.
LEMMA FileType ==
  ASSUME TypeOK, NEW g \in GateRec
  PROVE  File(orders, g) \in JournalRec
  BY DEF TypeOK, File, JournalRec

\* The steps of a full pass.
LEMMA FullPassType ==
  ASSUME TypeOK, NEW t \in Threads, FullPass(t)
  PROVE  TypeOK'
<1> DEFINE o == rc[t].ord
           a == rc[t].ans
<1>0. /\ rc[t] \in RcRec
      /\ a.state \in RawState /\ a.vol \in 0..Lots
      /\ rc[t].pc = "apply" => o \in Order /\ orders[o] \in OrderRec
  BY DEF TypeOK, RcRec, Answer
<1>1. [rc[t] EXCEPT !.pc = "scan", !.ord = None, !.ans = EmptyAnswer] \in RcRec
  BY <1>0, InitialTypes DEF RcRec
<1> HIDE DEF o, a
<1>2. CASE BeginFull(t)
  <2>1. [RcIdle EXCEPT !.pc = "scan", !.mode = "full", !.todo = RecordedOrders] \in RcRec
    BY InitialTypes DEF RcRec, RcIdle, RecordedOrders
  <2> QED BY <1>2, <2>1 DEF BeginFull, TypeOK, journalVars, exchangeVars, ledgerVars, RcRec
<1>3. ASSUME NEW p \in Order, FetchFull(t, p) PROVE TypeOK'
  <2> DEFINE R(ans) == [rc[t] EXCEPT !.pc = "apply", !.todo = @ \ {p}, !.ord = p, !.ans = ans]
  <2>1. PICK ans \in Answers(p) : rc' = [rc EXCEPT ![t] = R(ans)]
    BY <1>3 DEF FetchFull
  <2>2. ans \in Answer
    BY <2>1, AnswersType
  <2>3. R(ans) \in RcRec /\ R(ans).ord = p
    BY <1>0, <2>2 DEF RcRec
  <2> HIDE DEF R
  <2>4. /\ rc' \in [Threads -> RcRec]
        /\ \A u \in Threads : rc'[u].pc = "apply" => rc'[u].ord \in Order
    BY <2>1, <2>3 DEF TypeOK
  <2> QED BY <1>3, <2>4 DEF FetchFull, TypeOK, journalVars, exchangeVars, ledgerVars
<1>4. ASSUME NEW p \in Order, FailFull(t, p) PROVE TypeOK'
  BY <1>4, <1>0 DEF FailFull, TypeOK, journalVars, exchangeVars, ledgerVars, RcRec
<1>5. CASE ApplyFull(t)
  <2>1. MapState(a.state, orders[o].status) \in Status \cup {"NONE"}
    BY <1>0, <1>5, StatusTypes DEF ApplyFull, OrderRec
  <2>2. /\ orders' \in [Order -> OrderRec] /\ gate' \in GateRec /\ disk' \in JournalRec
        /\ booked' \in [Order -> 0..MaxBooked] /\ cleared' \subseteq Order
    BY <1>0, <1>5, <2>1, FillType DEF ApplyFull, o, a
  <2> QED BY <1>1, <1>5, <2>2 DEF ApplyFull, TypeOK, exchangeVars, RcRec
<1>6. CASE RejectFull(t)
  <2>1. [orders[o] EXCEPT !.status = "RECONCILIATION_PENDING"] \in OrderRec
    BY <1>0, <1>6 DEF RejectFull, OrderRec, Status
  <2>2. orders' \in [Order -> OrderRec] /\ gate' \in GateRec /\ disk' \in JournalRec
    BY <1>0, <1>6, <2>1, MarkedType, JournalType DEF RejectFull, TypeOK, o
  <2> QED BY <1>1, <1>6, <2>2 DEF RejectFull, TypeOK, exchangeVars, ledgerVars, RcRec
<1>7. CASE EndFull(t)
  <2> DEFINE counted == [gate EXCEPT !.lastFailed = failedNow]
             closed  == [counted EXCEPT !.state = "PENDING"]
  <2>1. counted \in GateRec /\ closed \in GateRec
    BY DEF TypeOK, GateRec
  <2>2. gate' \in {counted, closed} /\ disk' \in {disk, File(orders, counted), File(orders, closed)}
    BY <1>7 DEF EndFull
  <2>3. gate' \in GateRec /\ disk' \in JournalRec
    <3> HIDE DEF counted, closed
    <3>1. disk \in JournalRec
      BY DEF TypeOK
    <3> QED BY <2>1, <2>2, <3>1, FileType
  <2>4. [RcIdle EXCEPT !.pc = "finish", !.mode = "tail"] \in RcRec
    BY InitialTypes DEF RcRec, RcIdle
  <2> QED BY <1>7, <2>3, <2>4 DEF EndFull, TypeOK, exchangeVars, ledgerVars, RcRec
<1> QED BY <1>2, <1>3, <1>4, <1>5, <1>6, <1>7 DEF FullPass

\* The steps of a single order's reconciliation.
LEMMA SinglePassType ==
  ASSUME TypeOK, NEW t \in Threads, SinglePass(t) \/ DieInApply(t)
  PROVE  TypeOK'
<1> DEFINE o == rc[t].ord
           a == rc[t].ans
<1>0. /\ rc[t] \in RcRec
      /\ a.state \in RawState /\ a.vol \in 0..Lots
      /\ rc[t].pc = "apply" => o \in Order /\ orders[o] \in OrderRec
  BY DEF TypeOK, RcRec, Answer
<1>1. /\ RcIdle \in RcRec /\ RcIdle.pc # "apply"
      /\ \A m \in {"both", "single"} : [RcIdle EXCEPT !.pc = "finish", !.mode = m] \in RcRec
      /\ [RcIdle EXCEPT !.pc = "finish"] \in RcRec
  BY InitialTypes DEF RcRec, RcIdle
<1> HIDE DEF o, a
<1>2. ASSUME NEW p \in Order, BeginSingle(t, p) PROVE TypeOK'
  <2>1. PICK ans \in Answers(p) :
          rc' = [rc EXCEPT ![t] = [@ EXCEPT !.pc = "apply", !.ord = p, !.ans = ans,
                                            !.was = orders[p].status]]
    BY <1>2 DEF BeginSingle
  <2>2. ans \in Answer
    BY <2>1, AnswersType
  <2>3. [rc[t] EXCEPT !.pc = "apply", !.ord = p, !.ans = ans, !.was = orders[p].status] \in RcRec
    BY <1>0, <2>2 DEF RcRec, TypeOK, OrderRec
  <2>4. /\ rc' \in [Threads -> RcRec]
        /\ \A u \in Threads : rc'[u].pc = "apply" => rc'[u].ord \in Order
    BY <2>1, <2>3 DEF TypeOK
  <2> QED BY <1>2, <2>4 DEF BeginSingle, TypeOK, journalVars, exchangeVars, ledgerVars
<1>3. ASSUME NEW p \in Order, FailSingle(t, p) PROVE TypeOK'
  <2>1. Suspended \in GateRec
    BY DEF Suspended, TypeOK, GateRec
  <2>2. orders' \in [Order -> OrderRec] /\ gate' \in GateRec /\ disk' \in JournalRec
    BY <1>3, <2>1, JournalType DEF FailSingle, TypeOK
  <2>3. AfterRefusal(t) \in RcRec /\ AfterRefusal(t).pc # "apply"
    BY <1>1 DEF AfterRefusal, RcIdle
  <2> QED BY <1>3, <2>2, <2>3 DEF FailSingle, TypeOK, exchangeVars, ledgerVars
<1>4. CASE ApplySingle(t)
  <2>1. MapState(a.state, rc[t].was) \in Status \cup {"NONE"}
    BY <1>0, StatusTypes DEF RcRec
  <2>2. /\ orders' \in [Order -> OrderRec] /\ gate' \in GateRec /\ disk' \in JournalRec
        /\ booked' \in [Order -> 0..MaxBooked] /\ cleared' \subseteq Order
    BY <1>0, <1>4, <2>1, FillType DEF ApplySingle, o, a
  <2> QED BY <1>1, <1>4, <2>2 DEF ApplySingle, TypeOK, exchangeVars, RcIdle
<1>5. CASE RejectSingle(t)
  <2>1. [orders[o] EXCEPT !.status = "RECONCILIATION_PENDING"] \in OrderRec
    BY <1>0, <1>5 DEF RejectSingle, OrderRec, Status
  <2>2. Suspended \in GateRec
    BY DEF Suspended, TypeOK, GateRec
  <2>3. orders' \in [Order -> OrderRec] /\ gate' \in GateRec /\ disk' \in JournalRec
    BY <1>0, <1>5, <2>1, <2>2, MarkedType, JournalTwiceType DEF RejectSingle, TypeOK, o
  <2>4. AfterRefusal(t) \in RcRec /\ AfterRefusal(t).pc # "apply"
    BY <1>1 DEF AfterRefusal, RcIdle
  <2> QED BY <1>5, <2>3, <2>4 DEF RejectSingle, TypeOK, exchangeVars, ledgerVars
<1>6. CASE Finish(t)
  <2>1. [gate EXCEPT !.state = "READY"] \in GateRec
    BY DEF TypeOK, GateRec
  <2>2. gate' \in GateRec /\ disk' \in JournalRec
    <3> DEFINE ready == [gate EXCEPT !.state = "READY"]
    <3>1. gate' \in {gate, ready} /\ disk' \in {disk, File(orders, ready)}
      BY <1>6 DEF Finish
    <3> HIDE DEF ready
    <3> QED BY <2>1, <3>1, FileType DEF TypeOK, ready
  <2> QED BY <1>1, <1>6, <2>2 DEF Finish, TypeOK, exchangeVars, ledgerVars, RcIdle
<1>7. CASE DieInApply(t)
  BY <1>0, <1>7, DieType DEF DieInApply, o, a
<1> QED BY <1>2, <1>3, <1>4, <1>5, <1>6, <1>7 DEF SinglePass

\* Every reachable state is well typed.
THEOREM TypeCorrect == Spec => []TypeOK
<1>1. Init => TypeOK
  BY InitType
<1>2. TypeOK /\ [Next]_vars => TypeOK'
  <2> SUFFICES ASSUME TypeOK, [Next]_vars PROVE TypeOK'
    OBVIOUS
  <2>1. CASE UNCHANGED vars
    BY <2>1 DEF vars, TypeOK
  <2>2. ASSUME NEW s \in Submitters, SubmitNext(s) PROVE TypeOK'
    BY <2>2, SubmitType
  <2>3. ASSUME NEW o \in Order, ExchangeNext(o) \/ BotCancel(o) \/ MarkByUuid(o) PROVE TypeOK'
    BY <2>3, ExchangeType
  <2>4. CASE ApplyPrivateEvent
    BY <2>4, EventType
  <2>5. ASSUME NEW t \in Threads, FullPass(t) PROVE TypeOK'
    BY <2>5, FullPassType
  <2>6. ASSUME NEW t \in Threads, SinglePass(t) \/ DieInApply(t) PROVE TypeOK'
    BY <2>6, SinglePassType
  <2>7. CASE Restart
    BY <2>7, ReloadType DEF Restart, ledgerVars, TypeOK
  <2> QED BY <2>1, <2>2, <2>3, <2>4, <2>5, <2>6, <2>7 DEF Next
<1> QED BY <1>1, <1>2, PTL DEF Spec


-----------------------------------------------------------------------------
(* The operators the actions are built from keep the journal behind the books *)

\* More bookings never put a journal ahead of the books.
LEMMA BookedGrows ==
  ASSUME NEW os \in [Order -> OrderRec],
         NEW b \in [Order -> 0..MaxBooked], NEW c \in [Order -> 0..MaxBooked],
         Booked(os, b), \A o \in Order : b[o] <= c[o]
  PROVE  Booked(os, c)
<1> SUFFICES ASSUME NEW o \in Order
             PROVE  os[o].processed <= c[o] /\ (os[o].status = "FILLED" => c[o] >= Lots)
  BY DEF Booked
<1>1. os[o].processed \in Nat /\ b[o] \in Nat /\ c[o] \in Nat /\ Lots \in Nat
  BY BoundAssumption DEF OrderRec
<1> QED BY <1>1 DEF Booked

\* Writing a journal that is behind the books, or failing to, leaves both the
\* journal and its file behind the books.
LEMMA JournalBooked ==
  ASSUME NEW os, NEW g, NEW b, Journal(os, g), Booked(os, b), Booked(disk.orders, b)
  PROVE  Booked(orders', b) /\ Booked(disk'.orders, b)
  BY DEF Journal, File

\* A mark that leaves the processed volume behind the books, and completes an
\* order only when it is booked, keeps the journal behind the books.
LEMMA MarkedBooked ==
  ASSUME orders \in [Order -> OrderRec], NEW o \in Order, NEW rec \in OrderRec,
         NEW b, Booked(orders, b), rec.processed <= b[o],
         rec.status = "FILLED" => b[o] >= Lots
  PROVE  Booked(Marked(o, rec), b)
  BY DEF Marked, Booked

\* Booking an answer's new volume brings the books up to the answer.
LEMMA BookReaches ==
  ASSUME TypeOK, NEW o \in Order, NEW st, NEW vol \in 0..Lots, Book(o, st, vol)
  PROVE  /\ booked' \in [Order -> 0..MaxBooked]
         /\ \A p \in Order : booked[p] <= booked'[p]
         /\ orders[o].processed <= booked[o] => vol <= booked'[o]
<1> DEFINE n == IF booked[o] + Delta(o, vol) < MaxBooked
                THEN booked[o] + Delta(o, vol) ELSE MaxBooked
<1>1. /\ Lots \in Nat /\ MaxBooked \in Nat /\ Lots < MaxBooked
      /\ vol \in Nat /\ vol <= Lots
  BY BoundAssumption
<1>2. /\ booked \in [Order -> 0..MaxBooked] /\ booked[o] \in Nat /\ booked[o] <= MaxBooked
      /\ orders[o].processed \in Nat
  BY <1>1 DEF TypeOK, OrderRec
<1>3. Delta(o, vol) \in Nat /\ vol <= Delta(o, vol) + orders[o].processed
  BY <1>1, <1>2 DEF Delta
<1>4. booked' = [booked EXCEPT ![o] = n]
  BY DEF Book
<1>5. n \in 0..MaxBooked /\ booked[o] <= n /\ (orders[o].processed <= booked[o] => vol <= n)
  <2> DEFINE d == Delta(o, vol)
  <2>1. d \in Nat /\ vol <= d + orders[o].processed
    BY <1>3
  <2> HIDE DEF d
  <2> QED BY <1>1, <1>2, <2>1 DEF d
<1> HIDE DEF n
<1>6. \A p \in Order : booked[p] \in Nat
  BY <1>1, <1>2
<1> QED BY <1>2, <1>4, <1>5, <1>6

\* process_order_fill keeps the journal and its file behind the books, if a
\* completion carries the whole volume or is none.
LEMMA FillBooked ==
  ASSUME TypeOK, Booked(orders, booked), Booked(disk.orders, booked),
         NEW o \in Order, NEW st \in Status \cup {"NONE"},
         NEW vol \in 0..Lots, NEW basis, ProcessOrderFill(o, st, vol, basis),
         st = "FILLED" => vol = Lots \/ orders[o].status = "FILLED"
  PROVE  Booked(orders', booked') /\ Booked(disk'.orders, booked')
<1>0. orders[o] \in OrderRec /\ disk.orders \in [Order -> OrderRec]
  BY DEF TypeOK, JournalRec
<1>1. CASE /\ Refused(o, vol, basis)
           /\ Journal(Marked(o, [orders[o] EXCEPT !.status = "RECONCILIATION_PENDING"]), gate)
           /\ UNCHANGED ledgerVars
  <2> DEFINE rec == [orders[o] EXCEPT !.status = "RECONCILIATION_PENDING"]
  <2>1. /\ rec \in OrderRec /\ rec.status # "FILLED"
        /\ rec.processed = orders[o].processed
    BY <1>0 DEF OrderRec, Status
  <2> HIDE DEF rec
  <2>2. Booked(Marked(o, rec), booked)
    BY <2>1, MarkedBooked DEF TypeOK, Booked
  <2>3. booked' = booked
    BY <1>1 DEF ledgerVars
  <2> QED BY <1>1, <2>2, <2>3, JournalBooked DEF rec
<1>2. CASE Book(o, st, vol) /\ Journal(Marked(o, FillRecord(o, st, vol)), gate)
  <2>1. /\ FillRecord(o, st, vol) \in OrderRec
        /\ FillRecord(o, st, vol).processed = vol
        /\ FillRecord(o, st, vol).status = FillStatus(o, st, vol)
    BY <1>0 DEF OrderRec, FillRecord, FillStatus
  <2>2. /\ booked' \in [Order -> 0..MaxBooked]
        /\ \A p \in Order : booked[p] <= booked'[p]
        /\ vol <= booked'[o]
    BY <1>2, BookReaches DEF Booked
  <2>3. Booked(orders, booked') /\ Booked(disk.orders, booked')
    BY <1>0, <2>2, BookedGrows DEF TypeOK
  <2>4. FillStatus(o, st, vol) = "FILLED" => booked'[o] >= Lots
    <3>1. FillStatus(o, st, vol) = "FILLED" => vol = Lots \/ orders[o].status = "FILLED"
      BY DEF FillStatus
    <3> QED BY <2>2, <2>3, <3>1 DEF Booked
  <2>5. Booked(Marked(o, FillRecord(o, st, vol)), booked')
    BY <2>1, <2>2, <2>3, <2>4, MarkedBooked DEF TypeOK
  <2> QED BY <1>2, <2>3, <2>5, JournalBooked
<1> QED BY <1>1, <1>2 DEF ProcessOrderFill

\* A death in the middle of process_order_fill loses journal, not books.
LEMMA DieBooked ==
  ASSUME TypeOK, Booked(disk.orders, booked), NEW o \in Order, NEW st,
         NEW vol \in 0..Lots, NEW basis, DieInFill(o, st, vol, basis)
  PROVE  Booked(orders', booked') /\ Booked(disk'.orders, booked')
<1>1. disk.orders \in [Order -> OrderRec] /\ orders' = disk.orders /\ disk' = disk
  BY DEF TypeOK, JournalRec, DieInFill, Reload
<1>2. booked' \in [Order -> 0..MaxBooked] /\ \A p \in Order : booked[p] <= booked'[p]
  BY BookReaches DEF DieInFill
<1> QED BY <1>1, <1>2, BookedGrows DEF TypeOK

-----------------------------------------------------------------------------
(* FillInv is inductive *)

\* Initially nothing is recorded, executed or booked.
LEMMA InitFill ==
  ASSUME Init
  PROVE  FillInv
  BY BoundAssumption DEF Init, FillInv, Booked, DoneIsWhole, AnswersWhole,
     File, NotRecorded, RcIdle, EmptyAnswer

\* A step of a submitter.
LEMMA SubmitFill ==
  ASSUME TypeOK, FillInv, NEW s \in Submitters, SubmitNext(s)
  PROVE  FillInv'
<1> DEFINE o == sub[s].ord
<1>0. /\ sub[s].pc # "idle" => o \in Order /\ orders[o] \in OrderRec
      /\ sub[s].vol \in 0..Lots
      /\ disk.orders \in [Order -> OrderRec]
  BY DEF TypeOK, SubRec, JournalRec
<1> HIDE DEF o
<1>1. \A b : /\ b \in [Order -> 0..MaxBooked] /\ o \in Order
             => b[o] \in Nat /\ b[o] >= 0
  BY BoundAssumption
<1>2. ASSUME UNCHANGED <<rc, exState, exVol>>,
             Booked(orders', booked'), Booked(disk'.orders, booked')
      PROVE  FillInv'
  BY <1>2 DEF FillInv, DoneIsWhole, AnswersWhole
<1>3. ASSUME UNCHANGED <<rc, exState, exVol, orders, disk, booked>> PROVE FillInv'
  BY <1>3, <1>2 DEF FillInv
<1>4. ASSUME NEW st \in Status \ {"FILLED"}, NEW k \in BOOLEAN, NEW after, sub[s].pc # "idle",
             SubmitEnd(s, [orders[o] EXCEPT !.status = st, !.known = k], after)
      PROVE  Booked(orders', booked') /\ Booked(disk'.orders, booked') /\ rc' = rc
  <2> DEFINE rec == [orders[o] EXCEPT !.status = st, !.known = k]
  <2>1. rec \in OrderRec /\ rec.status # "FILLED" /\ rec.processed = orders[o].processed
    BY <1>0, <1>4 DEF OrderRec
  <2> HIDE DEF rec
  <2>2. Booked(Marked(o, rec), booked)
    BY <1>0, <1>4, <2>1, MarkedBooked DEF TypeOK, FillInv, Booked
  <2> QED BY <1>4, <2>2, JournalBooked DEF SubmitEnd, ledgerVars, FillInv, rec, o
<1>5. ASSUME NEW p \in Order, SubmitCheck(s, p) PROVE FillInv'
  BY <1>3, <1>5 DEF SubmitCheck, journalVars, exchangeVars, ledgerVars
<1>6. CASE RecordIntent(s)
  <2> DEFINE os == [orders EXCEPT ![o] = [NotRecorded EXCEPT !.status = "PENDING_SUBMISSION"]]
  <2>1. Booked(os, booked)
    BY <1>0, <1>1, <1>6 DEF FillInv, TypeOK, Booked, RecordIntent, NotRecorded
  <2> HIDE DEF os
  <2>2. Journal(os, gate) /\ UNCHANGED <<rc, exState, exVol, booked>>
    BY <1>6 DEF RecordIntent, exchangeVars, ledgerVars, os, o
  <2> QED BY <1>2, <2>1, <2>2, JournalBooked DEF FillInv
<1>7. CASE CreateOrder(s)
  BY <1>3, <1>7 DEF CreateOrder, journalVars, ledgerVars
<1>8. CASE SubmitAck(s)
  <2>1. sub[s].pc # "idle" /\ UNCHANGED <<exState, exVol>>
    BY <1>8 DEF SubmitAck, exchangeVars
  <2> QED BY <1>2, <1>4, <1>8, <2>1 DEF SubmitAck, Status, o
<1>9. CASE SubmitTimeout(s) \/ SubmitReject(s) \/ SubmitGatewayError(s)
  <2>1. PICK st \in {"UNKNOWN", "FAILED"} :
          SubmitEnd(s, [orders[o] EXCEPT !.status = st], SubIdle)
    BY <1>9 DEF SubmitTimeout, SubmitReject, SubmitGatewayError, o
  <2>2. sub[s].pc # "idle" /\ UNCHANGED <<exState, exVol>>
    BY <1>9 DEF SubmitTimeout, SubmitReject, SubmitGatewayError, exchangeVars
  <2>3. /\ orders[o].known \in BOOLEAN
        /\ [orders[o] EXCEPT !.status = st]
             = [orders[o] EXCEPT !.status = st, !.known = orders[o].known]
    BY <1>0, <2>2 DEF OrderRec
  <2> QED BY <1>2, <1>4, <2>1, <2>2, <2>3 DEF Status
<1>10. CASE ReadExit(s)
  BY <1>3, <1>10 DEF ReadExit, journalVars, exchangeVars, ledgerVars
<1>11. CASE RecordExit(s)
  <2>1. /\ ConfirmedStatus(sub[s].vol) \in Status
        /\ ConfirmedStatus(sub[s].vol) = "FILLED" => sub[s].vol = Lots
    BY DEF ConfirmedStatus, Status
  <2>2. Booked(orders', booked') /\ Booked(disk'.orders, booked')
    BY <1>0, <1>11, <2>1, FillBooked DEF RecordExit, FillInv, o
  <2> QED BY <1>2, <1>11, <2>2 DEF RecordExit, exchangeVars
<1>12. CASE DieInRecordExit(s)
  <2>1. Booked(orders', booked') /\ Booked(disk'.orders, booked')
    BY <1>0, <1>12, DieBooked DEF DieInRecordExit, FillInv, o
  <2> QED BY <1>12, <2>1 DEF DieInRecordExit, DieInFill, Reload, FillInv,
             DoneIsWhole, AnswersWhole, RcIdle
<1> QED BY <1>5, <1>6, <1>7, <1>8, <1>9, <1>10, <1>11, <1>12 DEF SubmitNext

\* A step of the exchange, a cancel of the bot or a private event.
LEMMA ExchangeFillInv ==
  ASSUME TypeOK, FillInv, NEW o \in Order,
         ExchangeNext(o) \/ BotCancel(o) \/ MarkByUuid(o)
  PROVE  FillInv'
<1>1. ASSUME UNCHANGED <<rc, orders, disk, booked>>, DoneIsWhole' PROVE FillInv'
  BY <1>1 DEF FillInv, AnswersWhole
<1>2. CASE ExchangeAccept(o)
  BY <1>1, <1>2 DEF ExchangeAccept, FillInv, DoneIsWhole, TypeOK, journalVars, ledgerVars
<1>3. CASE ExchangeLosePost(o)
  BY <1>1, <1>3 DEF ExchangeLosePost, FillInv, DoneIsWhole, journalVars, ledgerVars
<1>4. CASE ExchangeFill(o)
  <2>1. DoneIsWhole'
    BY <1>4 DEF ExchangeFill, FillInv, DoneIsWhole, TypeOK
  <2> QED BY <1>1, <1>4, <2>1 DEF ExchangeFill, journalVars, ledgerVars
<1>5. CASE ExchangeCancel(o)
  BY <1>1, <1>5 DEF ExchangeCancel, FillInv, DoneIsWhole, TypeOK, journalVars, ledgerVars
<1>6. CASE BotCancel(o)
  BY <1>1, <1>6 DEF BotCancel, FillInv, DoneIsWhole, TypeOK, journalVars, ledgerVars
<1>7. CASE MarkByUuid(o)
  <2> DEFINE rec == [orders[o] EXCEPT !.status = "CANCELED"]
  <2>1. rec \in OrderRec /\ rec.status # "FILLED" /\ rec.processed = orders[o].processed
    BY DEF TypeOK, OrderRec, Status
  <2> HIDE DEF rec
  <2>2. Booked(Marked(o, rec), booked)
    BY <2>1, MarkedBooked DEF TypeOK, FillInv, Booked
  <2>3. Journal(Marked(o, rec), gate) /\ UNCHANGED <<rc, exState, exVol, booked>>
    BY <1>7 DEF MarkByUuid, exchangeVars, ledgerVars, rec
  <2> QED BY <2>2, <2>3, JournalBooked DEF FillInv, DoneIsWhole, AnswersWhole
<1> QED BY <1>2, <1>3, <1>4, <1>5, <1>6, <1>7 DEF ExchangeNext

\* A private event parks an order that executed, and completes none.
LEMMA EventFillInv ==
  ASSUME TypeOK, FillInv, ApplyPrivateEvent
  PROVE  FillInv'
<1> DEFINE e == Head(stream)
<1>1. e \in Event /\ e.ord \in Order
  <2>1. e \in Event
    BY DEF ApplyPrivateEvent, TypeOK
  <2> QED BY <2>1 DEF Event
<1>2. /\ EventRecord(e) \in OrderRec
      /\ EventRecord(e).processed = orders[e.ord].processed
      /\ EventRecord(e).status # "FILLED"
  <2> DEFINE r == [orders[e.ord] EXCEPT !.known = TRUE]
  <2>1. r \in OrderRec /\ r.processed = orders[e.ord].processed
    BY <1>1 DEF TypeOK, OrderRec
  <2> HIDE DEF r
  <2>2. /\ [r EXCEPT !.status = "OPEN"].processed = r.processed
        /\ [r EXCEPT !.status = "OPEN"].status = "OPEN"
    BY <2>1 DEF OrderRec
  <2>3. /\ [r EXCEPT !.status = "RECONCILIATION_PENDING"].processed = r.processed
        /\ [r EXCEPT !.status = "RECONCILIATION_PENDING"].status = "RECONCILIATION_PENDING"
    BY <2>1 DEF OrderRec
  <2> DEFINE c == [r EXCEPT !.status = "CANCELED", !.executed = IF e.vol > 0 THEN e.vol ELSE @]
  <2>4. c.processed = r.processed /\ c.status = "CANCELED"
    BY <2>1 DEF OrderRec
  <2> QED BY <1>1, <2>1, <2>2, <2>3, <2>4, EventRecordType DEF EventRecord, r
<1>3. Booked(orders', booked) /\ Booked(disk'.orders, booked)
  <2>1. CASE Journal(Marked(e.ord, EventRecord(e)), gate)
    <3>1. Booked(Marked(e.ord, EventRecord(e)), booked)
      BY <1>1, <1>2, MarkedBooked DEF TypeOK, FillInv, Booked
    <3> QED BY <2>1, <3>1, JournalBooked DEF FillInv
  <2>2. CASE UNCHANGED journalVars
    BY <2>2 DEF journalVars, FillInv
  <2> QED BY <2>1, <2>2 DEF ApplyPrivateEvent
<1> QED BY <1>3 DEF ApplyPrivateEvent, FillInv, DoneIsWhole, AnswersWhole, ledgerVars

\* An answer that says "done" says it of the whole volume.
LEMMA AnswersDone ==
  ASSUME DoneIsWhole, NEW o \in Order, NEW a \in Answers(o), a.state = "done"
  PROVE  a.vol = Lots
<1>1. EmptyAnswer.state # "done"
  BY DEF EmptyAnswer
<1>2. PICK v : a = [state |-> exState[o], vol |-> exVol[o], valid |-> v]
  BY <1>1 DEF Answers
<1> QED BY <1>2 DEF DoneIsWhole

\* What a step of reconciler t must show: the others keep their answers.
LEMMA ReconcilerFill ==
  ASSUME TypeOK, FillInv, NEW t \in Threads, NEW r, rc' = [rc EXCEPT ![t] = r],
         UNCHANGED <<exState, exVol>>,
         Booked(orders', booked'), Booked(disk'.orders, booked'),
         r.pc = "scan" => r.mode = "full",
         r.pc = "apply" => /\ r.ans.state = "done" => r.ans.vol = Lots
                           /\ r.mode # "full" => r.was # "FILLED"
  PROVE  FillInv'
<1>1. AnswersWhole'
  BY DEF TypeOK, FillInv, AnswersWhole
<1> QED BY <1>1 DEF FillInv, DoneIsWhole

\* A mark that parks an order keeps the journal behind the books.
LEMMA ParkFill ==
  ASSUME TypeOK, FillInv, NEW o \in Order, NEW g,
         \/ Journal(Marked(o, [orders[o] EXCEPT !.status = "RECONCILIATION_PENDING"]), g)
         \/ JournalTwice(Marked(o, [orders[o] EXCEPT !.status = "RECONCILIATION_PENDING"]), g)
  PROVE  Booked(orders', booked) /\ Booked(disk'.orders, booked)
<1> DEFINE rec == [orders[o] EXCEPT !.status = "RECONCILIATION_PENDING"]
<1>1. rec \in OrderRec /\ rec.status # "FILLED" /\ rec.processed = orders[o].processed
  BY DEF TypeOK, OrderRec, Status
<1> HIDE DEF rec
<1>2. Booked(Marked(o, rec), booked)
  BY <1>1, MarkedBooked DEF TypeOK, FillInv, Booked
<1>3. orders' = Marked(o, rec) /\ disk'.orders \in {disk.orders, Marked(o, rec)}
  BY DEF Journal, JournalTwice, File, rec
<1> QED BY <1>2, <1>3 DEF FillInv

\* A step of a full pass.
LEMMA FullPassFill ==
  ASSUME TypeOK, FillInv, NEW t \in Threads, FullPass(t)
  PROVE  FillInv'
<1> DEFINE o == rc[t].ord
           a == rc[t].ans
           scan == [rc[t] EXCEPT !.pc = "scan", !.ord = None, !.ans = EmptyAnswer]
<1>0. /\ rc[t] \in RcRec /\ a.vol \in 0..Lots
      /\ rc[t].pc = "apply" => o \in Order /\ orders[o] \in OrderRec
                              /\ (a.state = "done" => a.vol = Lots)
  BY DEF TypeOK, RcRec, Answer, FillInv, AnswersWhole
<1>1. scan.pc # "apply" /\ scan.mode = rc[t].mode
  BY <1>0 DEF RcRec
<1> HIDE DEF o, a, scan
<1>2. Booked(orders, booked) /\ Booked(disk.orders, booked)
  BY DEF FillInv
<1>3. CASE BeginFull(t)
  <2> DEFINE r == [RcIdle EXCEPT !.pc = "scan", !.mode = "full", !.todo = RecordedOrders]
  <2>1. rc' = [rc EXCEPT ![t] = r] /\ r.pc # "apply" /\ r.mode = "full"
    BY <1>3 DEF BeginFull, RcIdle
  <2> HIDE DEF r
  <2> QED BY <1>2, <1>3, <2>1, ReconcilerFill DEF BeginFull, journalVars, exchangeVars, ledgerVars
<1>4. ASSUME NEW p \in Order, FetchFull(t, p) PROVE FillInv'
  <2> DEFINE R(ans) == [rc[t] EXCEPT !.pc = "apply", !.todo = @ \ {p}, !.ord = p, !.ans = ans]
  <2>1. PICK ans \in Answers(p) : rc' = [rc EXCEPT ![t] = R(ans)]
    BY <1>4 DEF FetchFull
  <2>2. ans.state = "done" => ans.vol = Lots
    BY <2>1, AnswersDone DEF FillInv
  <2>3. R(ans).pc = "apply" /\ R(ans).ans = ans /\ R(ans).mode = "full"
    BY <1>0, <1>4 DEF FetchFull, FillInv, AnswersWhole, RcRec
  <2> HIDE DEF R
  <2> QED BY <1>2, <1>4, <2>1, <2>2, <2>3, ReconcilerFill
             DEF FetchFull, journalVars, exchangeVars, ledgerVars
<1>5. ASSUME NEW p \in Order, FailFull(t, p) PROVE FillInv'
  BY <1>0, <1>2, <1>5 DEF FailFull, FillInv, DoneIsWhole, AnswersWhole, TypeOK, RcRec,
     journalVars, exchangeVars, ledgerVars
<1>6. CASE ApplyFull(t)
  <2> DEFINE st == MapState(a.state, orders[o].status)
  <2>1. st \in Status \cup {"NONE"}
    BY <1>0, <1>6, StatusTypes DEF ApplyFull, OrderRec
  <2>2. st = "FILLED" => a.vol = Lots \/ orders[o].status = "FILLED"
    BY <1>0, <1>6 DEF ApplyFull, MapState
  <2> HIDE DEF st
  <2>3. ProcessOrderFill(o, st, a.vol, o \notin NoBasis)
    BY <1>6 DEF ApplyFull, st, o, a
  <2>4. Booked(orders', booked') /\ Booked(disk'.orders, booked')
    BY <1>0, <1>2, <1>6, <2>1, <2>2, <2>3, FillBooked DEF ApplyFull
  <2> QED BY <1>1, <1>6, <2>4, ReconcilerFill DEF ApplyFull, exchangeVars, scan
<1>7. CASE RejectFull(t)
  <2>1. Booked(orders', booked) /\ Booked(disk'.orders, booked)
    BY <1>0, <1>7, ParkFill DEF RejectFull, o
  <2> QED BY <1>1, <1>7, <2>1, ReconcilerFill DEF RejectFull, exchangeVars, ledgerVars, scan
<1>8. CASE EndFull(t)
  <2> DEFINE r == [RcIdle EXCEPT !.pc = "finish", !.mode = "tail"]
  <2>1. rc' = [rc EXCEPT ![t] = r] /\ r.pc = "finish" /\ UNCHANGED <<exState, exVol, orders, booked>>
    BY <1>8 DEF EndFull, RcIdle, exchangeVars, ledgerVars
  <2>2. disk'.orders \in {disk.orders, orders}
    BY <1>8 DEF EndFull, File
  <2> HIDE DEF r
  <2> QED BY <1>2, <2>1, <2>2, ReconcilerFill
<1> QED BY <1>3, <1>4, <1>5, <1>6, <1>7, <1>8 DEF FullPass

\* A step of a single order's reconciliation, or the death in one.
LEMMA SinglePassFill ==
  ASSUME TypeOK, FillInv, NEW t \in Threads, SinglePass(t) \/ DieInApply(t)
  PROVE  FillInv'
<1> DEFINE o == rc[t].ord
           a == rc[t].ans
<1>0. /\ rc[t] \in RcRec /\ a.vol \in 0..Lots
      /\ rc[t].pc = "apply" => /\ o \in Order /\ orders[o] \in OrderRec
                               /\ (a.state = "done" => a.vol = Lots)
                               /\ (rc[t].mode # "full" => rc[t].was # "FILLED")
  BY DEF TypeOK, RcRec, Answer, FillInv, AnswersWhole
<1>1. /\ RcIdle.pc = "idle" /\ AfterRefusal(t).pc \in {"idle", "finish"}
      /\ \A m : [RcIdle EXCEPT !.pc = "finish", !.mode = m].pc = "finish"
      /\ [RcIdle EXCEPT !.pc = "finish"].pc = "finish"
  BY DEF RcIdle, AfterRefusal
<1> HIDE DEF o, a
<1>2. Booked(orders, booked) /\ Booked(disk.orders, booked)
  BY DEF FillInv
<1>3. ASSUME NEW p \in Order, BeginSingle(t, p) PROVE FillInv'
  <2> DEFINE R(ans) == [rc[t] EXCEPT !.pc = "apply", !.ord = p, !.ans = ans,
                                     !.was = orders[p].status]
  <2>1. PICK ans \in Answers(p) : rc' = [rc EXCEPT ![t] = R(ans)]
    BY <1>3 DEF BeginSingle
  <2>2. ans.state = "done" => ans.vol = Lots
    BY <2>1, AnswersDone DEF FillInv
  <2>3. R(ans).pc = "apply" /\ R(ans).ans = ans /\ R(ans).was # "FILLED"
    BY <1>0, <1>3 DEF BeginSingle, IsUnresolved, Unresolved, RcRec
  <2> HIDE DEF R
  <2> QED BY <1>2, <1>3, <2>1, <2>2, <2>3, ReconcilerFill
             DEF BeginSingle, journalVars, exchangeVars, ledgerVars
<1>4. ASSUME NEW p \in Order, FailSingle(t, p) PROVE FillInv'
  <2>1. Booked(orders', booked) /\ Booked(disk'.orders, booked)
    BY <1>2, <1>4, JournalBooked DEF FailSingle
  <2> QED BY <1>1, <1>4, <2>1, ReconcilerFill DEF FailSingle, exchangeVars, ledgerVars
<1>5. CASE ApplySingle(t)
  <2> DEFINE st == MapState(a.state, rc[t].was)
  <2>1. st \in Status \cup {"NONE"}
    BY <1>0, StatusTypes DEF RcRec
  <2>2. st = "FILLED" => a.vol = Lots
    BY <1>0, <1>5 DEF ApplySingle, MapState
  <2> HIDE DEF st
  <2>3. ProcessOrderFill(o, st, a.vol, o \notin NoBasis)
    BY <1>5 DEF ApplySingle, st, o, a
  <2>4. Booked(orders', booked') /\ Booked(disk'.orders, booked')
    BY <1>0, <1>2, <1>5, <2>1, <2>2, <2>3, FillBooked DEF ApplySingle
  <2> QED BY <1>1, <1>5, <2>4, ReconcilerFill DEF ApplySingle, exchangeVars
<1>6. CASE RejectSingle(t)
  <2>1. Booked(orders', booked) /\ Booked(disk'.orders, booked)
    BY <1>0, <1>6, ParkFill DEF RejectSingle, o
  <2> QED BY <1>1, <1>6, <2>1, ReconcilerFill DEF RejectSingle, exchangeVars, ledgerVars
<1>7. CASE Finish(t)
  <2>1. orders' = orders /\ disk'.orders \in {disk.orders, orders}
    BY <1>7 DEF Finish, File
  <2>2. PICK r : rc' = [rc EXCEPT ![t] = r] /\ r.pc \in {"idle", "finish"}
    BY <1>1, <1>7 DEF Finish
  <2> QED BY <1>2, <1>7, <2>1, <2>2, ReconcilerFill DEF Finish, exchangeVars, ledgerVars
<1>8. CASE DieInApply(t)
  <2>1. Booked(orders', booked') /\ Booked(disk'.orders, booked')
    BY <1>0, <1>2, <1>8, DieBooked DEF DieInApply, o, a
  <2> QED BY <1>8, <2>1 DEF DieInApply, DieInFill, Reload, FillInv,
             DoneIsWhole, AnswersWhole, RcIdle
<1> QED BY <1>3, <1>4, <1>5, <1>6, <1>7, <1>8 DEF SinglePass

\* A restart reloads a journal that is behind the books.
LEMMA RestartFill ==
  ASSUME FillInv, Restart
  PROVE  FillInv'
  BY DEF Restart, Reload, ledgerVars, FillInv, DoneIsWhole, AnswersWhole, RcIdle

\* The invariant that FilledIsBooked rests on.
THEOREM FillAlways == Spec => []FillInv
<1>1. Init => FillInv
  BY InitFill
<1>2. TypeOK /\ FillInv /\ [Next]_vars => FillInv'
  <2> SUFFICES ASSUME TypeOK, FillInv, [Next]_vars PROVE FillInv'
    OBVIOUS
  <2>1. CASE UNCHANGED vars
    BY <2>1 DEF vars, FillInv, DoneIsWhole, AnswersWhole
  <2>2. ASSUME NEW s \in Submitters, SubmitNext(s) PROVE FillInv'
    BY <2>2, SubmitFill
  <2>3. ASSUME NEW o \in Order, ExchangeNext(o) \/ BotCancel(o) \/ MarkByUuid(o) PROVE FillInv'
    BY <2>3, ExchangeFillInv
  <2>4. CASE ApplyPrivateEvent
    BY <2>4, EventFillInv
  <2>5. ASSUME NEW t \in Threads, FullPass(t) PROVE FillInv'
    BY <2>5, FullPassFill
  <2>6. ASSUME NEW t \in Threads, SinglePass(t) \/ DieInApply(t) PROVE FillInv'
    BY <2>6, SinglePassFill
  <2>7. CASE Restart
    BY <2>7, RestartFill
  <2> QED BY <2>1, <2>2, <2>3, <2>4, <2>5, <2>6, <2>7 DEF Next
<1> QED BY <1>1, <1>2, TypeCorrect, PTL DEF Spec

\* An order the journal calls FILLED has been booked in full: the books have
\* all of it before process_order_fill marks it, and no other step marks it.
THEOREM FilledAlwaysBooked == Spec => []FilledIsBooked
<1>1. FillInv => FilledIsBooked
  BY DEF FillInv, Booked, FilledIsBooked
<1> QED BY <1>1, FillAlways, PTL

-----------------------------------------------------------------------------
(* The trailing state *)

\* The books change in process_order_fill alone, and a completion it books has
\* the whole volume or was booked before.
LEMMA LedgerStep ==
  ASSUME TypeOK, FillInv, [Next]_vars
  PROVE  \/ UNCHANGED ledgerVars
         \/ \E o \in Order, st \in Status \cup {"NONE"}, vol \in 0..Lots :
              /\ Book(o, st, vol)
              /\ st = "FILLED" => vol = Lots \/ orders[o].status = "FILLED"
<1> DEFINE Booking == \E o \in Order, st \in Status \cup {"NONE"}, vol \in 0..Lots :
                        /\ Book(o, st, vol)
                        /\ st = "FILLED" => vol = Lots \/ orders[o].status = "FILLED"
           Fills == \E o \in Order, st \in Status \cup {"NONE"}, vol \in 0..Lots, basis \in BOOLEAN :
                        /\ ProcessOrderFill(o, st, vol, basis) \/ DieInFill(o, st, vol, basis)
                        /\ st = "FILLED" => vol = Lots \/ orders[o].status = "FILLED"
<1>1. Fills => UNCHANGED ledgerVars \/ Booking
  BY DEF ProcessOrderFill, DieInFill
<1> HIDE DEF Booking, Fills
<1>2. CASE UNCHANGED vars
  BY <1>2 DEF vars, ledgerVars
<1>3. ASSUME NEW s \in Submitters, SubmitNext(s) PROVE UNCHANGED ledgerVars \/ Fills
  <2>1. /\ sub[s].vol \in 0..Lots
        /\ sub[s].pc # "idle" => sub[s].ord \in Order
        /\ ConfirmedStatus(sub[s].vol) \in Status
        /\ ConfirmedStatus(sub[s].vol) = "FILLED" => sub[s].vol = Lots
    BY DEF TypeOK, SubRec, ConfirmedStatus, Status
  <2> DEFINE o  == sub[s].ord
             v  == sub[s].vol
             st == ConfirmedStatus(v)
  <2>f. ASSUME o \in Order, ProcessOrderFill(o, st, v, TRUE) \/ DieInFill(o, st, v, TRUE)
        PROVE  Fills
    <3>1. st \in Status /\ v \in 0..Lots /\ (st = "FILLED" => v = Lots)
      BY <2>1
    <3> HIDE DEF o, v, st
    <3> QED BY <2>f, <3>1 DEF Fills
  <2>2. CASE RecordExit(s)
    <3>1. sub[s].pc # "idle" /\ ProcessOrderFill(o, st, v, TRUE)
      BY <2>2 DEF RecordExit
    <3> QED BY <2>1, <2>f, <3>1
  <2>3. CASE DieInRecordExit(s)
    <3>1. sub[s].pc # "idle" /\ DieInFill(o, st, v, TRUE)
      BY <2>3 DEF DieInRecordExit
    <3> QED BY <2>1, <2>f, <3>1
  <2>4. CASE ~RecordExit(s) /\ ~DieInRecordExit(s)
    BY <1>3, <2>4 DEF SubmitNext, SubmitCheck, RecordIntent, CreateOrder, SubmitEnd, SubmitAck,
       SubmitTimeout, SubmitReject, SubmitGatewayError, ReadExit, ledgerVars
  <2> QED BY <2>2, <2>3, <2>4
<1>4. ASSUME NEW o \in Order, ExchangeNext(o) \/ BotCancel(o) \/ MarkByUuid(o)
      PROVE  UNCHANGED ledgerVars
  BY <1>4 DEF ExchangeNext, ExchangeAccept, ExchangeLosePost, ExchangeFill, ExchangeCancel,
     BotCancel, MarkByUuid, ledgerVars
<1>5. CASE ApplyPrivateEvent
  BY <1>5 DEF ApplyPrivateEvent, ledgerVars
<1>6. ASSUME NEW t \in Threads, FullPass(t) \/ SinglePass(t) \/ DieInApply(t)
      PROVE  UNCHANGED ledgerVars \/ Fills
  <2> DEFINE o == rc[t].ord
             a == rc[t].ans
             F(st) == st = "FILLED" => a.vol = Lots \/ orders[o].status = "FILLED"
  <2>1. /\ rc[t] \in RcRec /\ a.vol \in 0..Lots
        /\ rc[t].pc = "apply" => /\ o \in Order /\ orders[o].status \in Status \cup {"NONE"}
                                 /\ (a.state = "done" => a.vol = Lots)
                                 /\ (rc[t].mode # "full" => rc[t].was # "FILLED")
    BY DEF TypeOK, RcRec, Answer, OrderRec, FillInv, AnswersWhole
  <2>2. rc[t].pc = "apply" => /\ MapState(a.state, orders[o].status) \in Status \cup {"NONE"}
                             /\ F(MapState(a.state, orders[o].status))
    BY <2>1, StatusTypes DEF MapState
  <2>3. rc[t].pc = "apply" /\ rc[t].mode # "full" =>
          MapState(a.state, rc[t].was) \in Status \cup {"NONE"} /\ F(MapState(a.state, rc[t].was))
    <3>1. rc[t].was \in Status \cup {"NONE"}
      BY <2>1 DEF RcRec
    <3> QED BY <2>1, <3>1, StatusTypes DEF MapState
  <2>4. CASE ApplyFull(t)
    BY <2>1, <2>2, <2>4 DEF ApplyFull, Fills
  <2>5. CASE ApplySingle(t)
    BY <2>1, <2>3, <2>5 DEF ApplySingle, Fills
  <2>6. CASE DieInApply(t)
    <3> DEFINE st == MapState(a.state, IF rc[t].mode = "full" THEN orders[o].status ELSE rc[t].was)
    <3>1. rc[t].pc = "apply" /\ DieInFill(o, st, a.vol, o \notin NoBasis)
      BY <2>6 DEF DieInApply
    <3>2. st \in Status \cup {"NONE"} /\ F(st)
      BY <2>2, <2>3, <3>1
    <3> QED BY <2>1, <3>1, <3>2 DEF Fills
  <2>7. CASE FullPass(t) /\ ~ApplyFull(t)
    BY <2>7 DEF FullPass, BeginFull, FetchFull, FailFull, RejectFull, EndFull, ledgerVars
  <2>8. CASE SinglePass(t) /\ ~ApplySingle(t)
    BY <2>8 DEF SinglePass, BeginSingle, FailSingle, RejectSingle, Finish, ledgerVars
  <2> QED BY <1>6, <2>4, <2>5, <2>6, <2>7, <2>8
<1>7. CASE Restart
  BY <1>7 DEF Restart, ledgerVars
<1> QED BY <1>1, <1>2, <1>3, <1>4, <1>5, <1>6, <1>7 DEF Next, Booking

\* The trailing state of a position is cleared only by a full exit that has
\* been booked to its last lot.
THEOREM ClearedWhenSold == Spec => []ClearedOnlyWhenSold
<1>1. Init => ClearedOnlyWhenSold
  BY DEF Init, ClearedOnlyWhenSold
<1>2. TypeOK /\ FillInv /\ ClearedOnlyWhenSold /\ [Next]_vars => ClearedOnlyWhenSold'
  <2> SUFFICES ASSUME TypeOK, FillInv, ClearedOnlyWhenSold, [Next]_vars
               PROVE  ClearedOnlyWhenSold'
    OBVIOUS
  <2>1. CASE UNCHANGED ledgerVars
    BY <2>1 DEF ledgerVars, ClearedOnlyWhenSold
  <2>2. ASSUME NEW o \in Order, NEW st \in Status \cup {"NONE"}, NEW vol \in 0..Lots,
               Book(o, st, vol), st = "FILLED" => vol = Lots \/ orders[o].status = "FILLED"
        PROVE  ClearedOnlyWhenSold'
    <3>1. /\ \A p \in Order : booked[p] \in Nat /\ booked'[p] \in Nat /\ booked[p] <= booked'[p]
          /\ vol <= booked'[o]
      BY <2>2, BookReaches, BoundAssumption DEF FillInv, Booked, TypeOK
    <3>2. FillStatus(o, st, vol) = "FILLED" => booked'[o] >= Lots
      <4>1. FillStatus(o, st, vol) = "FILLED" => vol = Lots \/ orders[o].status = "FILLED"
        BY <2>2 DEF FillStatus
      <4>2. orders[o].status = "FILLED" => booked[o] >= Lots
        BY DEF FillInv, Booked
      <4> QED BY <3>1, <4>1, <4>2, BoundAssumption
    <3>3. \A p \in cleared : p \in Order /\ p \notin Buys \cup PartialExits /\ booked'[p] >= Lots
      BY <3>1, BoundAssumption DEF ClearedOnlyWhenSold, TypeOK
    <3>4. \A p \in cleared' : p \in cleared \/ ( /\ p = o /\ p \notin Buys \cup PartialExits
                                                 /\ FillStatus(o, st, vol) = "FILLED")
      BY <2>2 DEF Book
    <3> QED BY <3>2, <3>3, <3>4 DEF ClearedOnlyWhenSold
  <2> QED BY <2>1, <2>2, LedgerStep
<1> QED BY <1>1, <1>2, FillAlways, TypeCorrect, PTL DEF Spec

-----------------------------------------------------------------------------
(* The gate *)

\* The file's gate is open wherever the gate in memory is: a write that takes
\* the memory's gate to the file, or leaves the file alone, keeps it so.
LEMMA JournalReady ==
  ASSUME TypeOK, ReadyIsDurable, NEW os, NEW g \in {gate, Suspended},
         Journal(os, g) \/ JournalTwice(os, g)
  PROVE  ReadyIsDurable'
<1>1. gate' = g /\ (g.state = "READY" => g = gate)
  BY DEF Journal, JournalTwice, Suspended, TypeOK, GateRec
<1>2. disk' = disk \/ disk'.gate = g \/ disk'.gate = gate
  BY DEF Journal, JournalTwice, File
<1> QED BY <1>1, <1>2 DEF ReadyIsDurable

\* The steps that may open the gate or close it with a save that is verified.
LEMMA PassReady ==
  ASSUME TypeOK, ReadyIsDurable, NEW t \in Threads, EndFull(t) \/ Finish(t)
  PROVE  ReadyIsDurable'
<1> DEFINE counted == [gate EXCEPT !.lastFailed = failedNow]
           closed  == [counted EXCEPT !.state = "PENDING"]
           ready   == [gate EXCEPT !.state = "READY"]
<1>1. /\ counted.state = gate.state /\ closed.state = "PENDING" /\ ready.state = "READY"
  BY DEF TypeOK, GateRec
<1> HIDE DEF counted, closed, ready
<1>2. CASE EndFull(t)
  <2>1. \/ /\ gate' = (IF failedNow THEN closed ELSE counted)
           /\ disk'.gate \in {gate', counted}
        \/ gate' = closed
    BY <1>2 DEF EndFull, File, counted, closed
  <2> QED BY <1>1, <2>1 DEF ReadyIsDurable
<1>3. CASE Finish(t)
  <2>1. \/ gate' = ready /\ disk'.gate = ready
        \/ gate' = gate /\ (disk' = disk \/ disk'.gate = ready)
    BY <1>3 DEF Finish, File, ready
  <2> QED BY <1>1, <2>1 DEF ReadyIsDurable
<1> QED BY <1>2, <1>3

\* The gate is open only on a journal file that says so.
THEOREM ReadyAlwaysDurable == Spec => []ReadyIsDurable
<1>1. Init => ReadyIsDurable
  BY DEF Init, ReadyIsDurable
<1>2. TypeOK /\ ReadyIsDurable /\ [Next]_vars => ReadyIsDurable'
  <2> SUFFICES ASSUME TypeOK, ReadyIsDurable, [Next]_vars PROVE ReadyIsDurable'
    OBVIOUS
  <2> DEFINE Writes == \E os, g : /\ g \in {gate, Suspended}
                                  /\ Journal(os, g) \/ JournalTwice(os, g)
  <2>1. Writes => ReadyIsDurable'
    BY JournalReady
  <2>2. UNCHANGED <<gate, disk>> => ReadyIsDurable'
    BY DEF ReadyIsDurable
  <2>3. Reload => ReadyIsDurable'
    BY DEF Reload, ReadyIsDurable, TypeOK, JournalRec, GateRec
  <2>w. \A os : Journal(os, gate) => Writes
    OBVIOUS
  <2>p. \A o, st, vol, basis : ProcessOrderFill(o, st, vol, basis) => Writes
    BY <2>w DEF ProcessOrderFill
  <2> HIDE DEF Writes
  <2>4. CASE UNCHANGED vars
    BY <2>2, <2>4 DEF vars
  <2>5. ASSUME NEW s \in Submitters, SubmitNext(s) PROVE ReadyIsDurable'
    <3>1. CASE RecordExit(s)
      BY <2>1, <2>p, <3>1 DEF RecordExit
    <3>2. CASE DieInRecordExit(s)
      BY <2>3, <3>2 DEF DieInRecordExit, DieInFill
    <3>3. CASE ~RecordExit(s) /\ ~DieInRecordExit(s)
      BY <2>1, <2>2, <2>5, <2>w, <3>3 DEF SubmitNext, SubmitCheck, RecordIntent, CreateOrder,
         SubmitEnd, SubmitAck, SubmitTimeout, SubmitReject, SubmitGatewayError, ReadExit,
         journalVars
    <3> QED BY <3>1, <3>2, <3>3
  <2>6. ASSUME NEW o \in Order, ExchangeNext(o) \/ BotCancel(o) \/ MarkByUuid(o)
        PROVE  ReadyIsDurable'
    BY <2>1, <2>2, <2>6, <2>w DEF ExchangeNext, ExchangeAccept, ExchangeLosePost, ExchangeFill,
       ExchangeCancel, BotCancel, MarkByUuid, journalVars
  <2>7. CASE ApplyPrivateEvent
    BY <2>1, <2>2, <2>7, <2>w DEF ApplyPrivateEvent, journalVars
  <2>8. ASSUME NEW t \in Threads, FullPass(t) \/ SinglePass(t) \/ DieInApply(t)
        PROVE  ReadyIsDurable'
    <3>1. CASE EndFull(t) \/ Finish(t)
      BY <3>1, PassReady
    <3>2. CASE ApplyFull(t) \/ ApplySingle(t)
      BY <2>1, <2>p, <3>2 DEF ApplyFull, ApplySingle
    <3>3. CASE RejectFull(t)
      BY <2>1, <2>w, <3>3 DEF RejectFull
    <3>4. ASSUME \/ RejectSingle(t)
                 \/ \E o \in Order : FailSingle(t, o)
          PROVE  ReadyIsDurable'
      BY <2>1, <3>4 DEF RejectSingle, FailSingle, Writes
    <3>5. CASE DieInApply(t)
      BY <2>3, <3>5 DEF DieInApply, DieInFill
    <3>6. CASE \/ BeginFull(t)
               \/ \E o \in Order : FetchFull(t, o) \/ FailFull(t, o) \/ BeginSingle(t, o)
      BY <2>2, <3>6 DEF BeginFull, FetchFull, FailFull, BeginSingle, journalVars
    <3> QED BY <2>8, <3>1, <3>2, <3>3, <3>4, <3>5, <3>6 DEF FullPass, SinglePass
  <2>9. CASE Restart
    BY <2>3, <2>9 DEF Restart
  <2> QED BY <2>4, <2>5, <2>6, <2>7, <2>8, <2>9 DEF Next
<1> QED BY <1>1, <1>2, TypeCorrect, PTL DEF Spec

=============================================================================
