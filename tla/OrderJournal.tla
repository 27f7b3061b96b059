---------------------------- MODULE OrderJournal ----------------------------
(***************************************************************************)
(* The life of the orders of one exchange: the journal that records them   *)
(* (order_safety/journal.py), the executor that submits them               *)
(* (executor.py), the fill processor that books what they executed         *)
(* (fill_processor.py), the REST reconcilers and private WebSocket events  *)
(* that move them, and the process dying between two of those steps.       *)
(*                                                                         *)
(* Threads.  Submitters call SafeOrderExecutor.submit; those of them that  *)
(* are tick threads then run _confirm_and_record_exit.  CycleThreads run   *)
(* reconcile_orders (a full pass, then at most one single order) and       *)
(* FastThreads are the fast_reconcile_* workers of AckReconcileScheduler.  *)
(* A REST request and the use of its answer are two steps: the journal is  *)
(* not locked between them.                                                *)
(***************************************************************************)
EXTENDS Naturals, Sequences, OrderStatuses

CONSTANTS
  Order,         \* client order ids the run may submit
  None,          \* no order
  Buys,          \* the orders whose side is "bid"
  PartialExits,  \* sells whose exit_reason is PARTIAL_TP_*
  NoBasis,       \* sells submitted without avg_buy_price (panic sell)
  Market,
  MarketOf,      \* order -> market
  Lots,          \* requested volume of every order, in lots
  Submitters, CycleThreads, FastThreads,
  LockHolders,   \* submitters that take the exit lock before a sell
  TickThreads,   \* submitters that confirm the sell they have submitted
  SwallowErrors, \* get_order answers {} when it fails (Bithumb), or raises (Upbit)
  GatewayErrors, \* the POST may answer 5xx although the order was accepted
  SaveMayFail,   \* _save may return False
  MaxEvents,     \* bound: private events in flight
  MaxBooked,     \* bound: the counter of booked lots saturates here
  MaxCrashes     \* bound: process deaths

Threads == CycleThreads \cup FastThreads

ASSUME OrderAssumption  == /\ None \notin Order
                           /\ Buys \subseteq Order
                           /\ PartialExits \subseteq Order \ Buys
                           /\ NoBasis \subseteq Order \ Buys
                           /\ MarketOf \in [Order -> Market]
ASSUME BoundAssumption  == /\ Lots \in Nat \ {0}
                           /\ MaxEvents \in Nat
                           /\ MaxCrashes \in Nat
                           /\ MaxBooked \in Nat /\ MaxBooked > Lots
ASSUME SwitchAssumption == {SwallowErrors, GatewayErrors, SaveMayFail} \subseteq BOOLEAN
ASSUME ThreadAssumption == /\ CycleThreads \cap FastThreads = {}
                           /\ LockHolders \subseteq Submitters
                           /\ TickThreads \subseteq LockHolders

VARIABLES
  orders,    \* the journal's order records
  gate,      \* reconciliation_state and the last_failed_count metric
  failedNow, \* _last_reconcile_failed_count > 0 (volatile, shared)
  disk,      \* the journal file
  sub,       \* what each submitter is doing
  rc,        \* what each reconciler is doing
  cancels,   \* orders the bot has cancelled at the exchange, not yet marked
  wire,      \* POSTs on their way to the exchange
  exState, exVol, \* the exchange's own record of each order
  stream,    \* private WebSocket events not yet applied
  booked,    \* lots of each order booked downstream (P&L, cooldown, memory)
  cleared,   \* full exits whose fill cleared the trailing state
  crashes

journalVars  == <<orders, gate, disk>>
exchangeVars == <<wire, exState, exVol, stream>>
ledgerVars   == <<booked, cleared>>
vars == <<orders, gate, disk, failedNow, sub, rc, cancels, wire, exState, exVol,
          stream, booked, cleared, crashes>>

-----------------------------------------------------------------------------
(* Types *)

OrderRec == [status : Status \cup {"NONE"}, known : BOOLEAN,
             executed : 0..Lots, processed : 0..Lots]
GateRec  == [state : {"PENDING", "READY"}, lastFailed : BOOLEAN]
Answer   == [state : RawState, vol : 0..Lots, valid : BOOLEAN]
Event    == [ord : Order, state : RawState \ {"none"}, vol : 0..Lots]
SubRec   == [pc : {"idle", "checked", "recorded", "posted", "acked", "confirm"},
             ord : Order \cup {None}, vol : 0..Lots]
RcRec    == [pc : {"idle", "scan", "apply", "finish"},
             mode : {"full", "tail", "both", "single"}, todo : SUBSET Order,
             ord : Order \cup {None}, ans : Answer, was : Status \cup {"NONE"}]

NotRecorded == [status |-> "NONE", known |-> FALSE, executed |-> 0, processed |-> 0]
EmptyAnswer == [state |-> "none", vol |-> 0, valid |-> TRUE]
SubIdle     == [pc |-> "idle", ord |-> None, vol |-> 0]
RcIdle      == [pc |-> "idle", mode |-> "single", todo |-> {}, ord |-> None,
                ans |-> EmptyAnswer, was |-> "NONE"]

-----------------------------------------------------------------------------
(* Journal operations *)

Recorded(o)     == orders[o].status # "NONE"
IsUnresolved(o) == orders[o].status \in Unresolved
SameMarket(o)   == {p \in Order : MarketOf[p] = MarketOf[o]}

HasUnknownMarket(o) == \E p \in SameMarket(o) : orders[p].status = "UNKNOWN"
\* Mutant: an acknowledged exit counts as done.
HasActiveExitOrderForgetsAck(o) ==
  \E p \in SameMarket(o) \ Buys : IsUnresolved(p) /\ orders[p].status # "ACKNOWLEDGED"
HasActiveExitOrder(o) == \E p \in SameMarket(o) \ Buys : IsUnresolved(p)
HasEntryBlocking(o) == \E p \in SameMarket(o) : orders[p].status \in EntryBlocking

IsEntryReady(o) == /\ gate.state = "READY"
                   /\ ~gate.lastFailed
                   /\ ~HasEntryBlocking(o)

\* Mutant: mark() without its monotonicity guard.
MarkedAlways(o, rec) == [orders EXCEPT ![o] = rec]

\* mark(): an order in a final state takes only another final state; a
\* refused mark drops its fields too.
Marked(o, rec) == IF orders[o].status \in Terminal /\ rec.status \notin Terminal
                  THEN orders
                  ELSE [orders EXCEPT ![o] = rec]

File(os, g) == [orders |-> os, gate |-> g]

\* The in-memory journal takes a new value and _save() writes it; the result
\* of that _save() is ignored by every caller but EndFull and Finish.
Journal(os, g) ==
  /\ orders' = os
  /\ gate' = g
  /\ disk' \in {File(os, g)} \cup (IF SaveMayFail THEN {disk} ELSE {})

\* A mark and a suspension of the gate, each with a _save() of its own.
JournalTwice(os, g) ==
  /\ orders' = os
  /\ gate' = g
  /\ disk' \in {File(os, g)} \cup (IF SaveMayFail THEN {disk, File(os, gate)} ELSE {})

Suspended == [gate EXCEPT !.state = "PENDING"]

-----------------------------------------------------------------------------
(* OrderFillProcessor.process_order_fill *)

\* Mutant: the answer's cumulative volume taken for an increment.
DeltaWhole(o, vol) == vol

\* fill_delta: how much of an answer's cumulative volume is new.
Delta(o, vol) == IF vol > orders[o].processed THEN vol - orders[o].processed ELSE 0

\* A FILLED answer that brings no new volume does not promote the order.
FillStatus(o, st, vol) == IF st = "FILLED" /\ Delta(o, vol) = 0
                          THEN orders[o].status ELSE st

\* A sell without a price basis is never booked.
Refused(o, vol, basis) == Delta(o, vol) > 0 /\ o \notin Buys /\ ~basis

\* Mutant: an exit that ends in any way clears the trailing state.
BookClearsOnEnd(o, st, vol) ==
  /\ booked' = [booked EXCEPT ![o] = IF @ + Delta(o, vol) < MaxBooked
                                     THEN @ + Delta(o, vol) ELSE MaxBooked]
  /\ cleared' = IF o \notin Buys \cup PartialExits /\ st \in Terminal
                THEN cleared \cup {o} ELSE cleared

\* Step 1 and 2: the new volume reaches the P&L, the cooldown, the loss guard
\* and the trade memory; a completed full exit clears the trailing state.
Book(o, st, vol) ==
  /\ booked' = [booked EXCEPT ![o] = IF @ + Delta(o, vol) < MaxBooked
                                     THEN @ + Delta(o, vol) ELSE MaxBooked]
  /\ cleared' = IF o \notin Buys \cup PartialExits /\ FillStatus(o, st, vol) = "FILLED"
                THEN cleared \cup {o} ELSE cleared

\* Step 3: the answer's volume becomes the processed volume.
FillRecord(o, st, vol) ==
  [orders[o] EXCEPT !.status = FillStatus(o, st, vol), !.executed = vol, !.processed = vol]

ProcessOrderFill(o, st, vol, basis) ==
  \/ /\ Refused(o, vol, basis)
     /\ Journal(Marked(o, [orders[o] EXCEPT !.status = "RECONCILIATION_PENDING"]), gate)
     /\ UNCHANGED ledgerVars
  \/ /\ ~Refused(o, vol, basis)
     /\ Book(o, st, vol)
     /\ Journal(Marked(o, FillRecord(o, st, vol)), gate)

-----------------------------------------------------------------------------
(* SafeOrderExecutor.submit *)

\* A client order id is a fresh UUID, so an id that ever left the process is
\* not used again.
Fresh(o) == /\ orders[o].status = "NONE"
            /\ exState[o] = "none" /\ o \notin wire
            /\ \A s \in Submitters : sub[s].ord # o

\* acquire_exit_lock: the evaluation cycle and the tick thread hold it over
\* the submission of a sell (and its confirmation); the panic sell does not
\* take it.
ExitLockFree(s, o) ==
  s \in LockHolders =>
    \A r \in LockHolders : sub[r].ord \notin SameMarket(o) \ Buys

\* The guards, each under its own hold of the journal lock; the price refresh
\* of a BUY, a REST call, follows them.
SubmitCheck(s, o) ==
  /\ sub[s].pc = "idle" /\ Fresh(o)
  /\ s \in TickThreads => o \notin Buys \cup NoBasis
  /\ o \notin Buys => ExitLockFree(s, o)
  /\ ~HasUnknownMarket(o)
  /\ \/ o \in Buys /\ IsEntryReady(o)
     \/ o \notin Buys /\ ~HasActiveExitOrder(o)
  /\ sub' = [sub EXCEPT ![s] = [SubIdle EXCEPT !.pc = "checked", !.ord = o]]
  /\ UNCHANGED <<journalVars, failedNow, rc, cancels, exchangeVars, ledgerVars, crashes>>

\* Mutant: the intent is recorded in memory only.
RecordIntentUnsaved(s) ==
  /\ sub[s].pc = "checked"
  /\ orders' = [orders EXCEPT ![sub[s].ord] = [NotRecorded EXCEPT !.status = "PENDING_SUBMISSION"]]
  /\ sub' = [sub EXCEPT ![s].pc = "recorded"]
  /\ UNCHANGED <<gate, disk, failedNow, rc, cancels, exchangeVars, ledgerVars, crashes>>

RecordIntent(s) ==
  LET o == sub[s].ord IN
  /\ sub[s].pc = "checked"
  /\ Journal([orders EXCEPT ![o] = [NotRecorded EXCEPT !.status = "PENDING_SUBMISSION"]], gate)
  /\ sub' = [sub EXCEPT ![s].pc = "recorded"]
  /\ UNCHANGED <<failedNow, rc, cancels, exchangeVars, ledgerVars, crashes>>

CreateOrder(s) ==
  /\ sub[s].pc = "recorded"
  /\ wire' = wire \cup {sub[s].ord}
  /\ sub' = [sub EXCEPT ![s].pc = "posted"]
  /\ UNCHANGED <<journalVars, failedNow, rc, cancels, exState, exVol, stream, ledgerVars, crashes>>

\* How create_order ended: the mark and what the submitter does next.
SubmitEnd(s, rec, after) ==
  /\ Journal(Marked(sub[s].ord, rec), gate)
  /\ sub' = [sub EXCEPT ![s] = after]
  /\ UNCHANGED <<failedNow, rc, cancels, ledgerVars, crashes>>

SubmitAck(s) ==
  LET o == sub[s].ord IN
  /\ sub[s].pc = "posted" /\ exState[o] # "none"
  /\ SubmitEnd(s, [orders[o] EXCEPT !.status = "ACKNOWLEDGED", !.known = TRUE],
               IF s \in TickThreads THEN [sub[s] EXCEPT !.pc = "acked"] ELSE SubIdle)
  /\ UNCHANGED exchangeVars

\* Mutant: a lost answer is taken for a refusal.
SubmitTimeoutFailed(s) ==
  /\ sub[s].pc = "posted"
  /\ SubmitEnd(s, [orders[sub[s].ord] EXCEPT !.status = "FAILED"], SubIdle)
  /\ UNCHANGED exchangeVars

SubmitTimeout(s) ==
  /\ sub[s].pc = "posted"
  /\ SubmitEnd(s, [orders[sub[s].ord] EXCEPT !.status = "UNKNOWN"], SubIdle)
  /\ UNCHANGED exchangeVars

\* Any exception but a timeout or a lost connection.
SubmitReject(s) ==
  LET o == sub[s].ord IN
  /\ sub[s].pc = "posted" /\ o \in wire
  /\ wire' = wire \ {o}
  /\ SubmitEnd(s, [orders[o] EXCEPT !.status = "FAILED"], SubIdle)
  /\ UNCHANGED <<exState, exVol, stream>>

\* raise_for_status() on a 5xx of a gateway in front of an exchange that had
\* taken the order.
SubmitGatewayError(s) ==
  LET o == sub[s].ord IN
  /\ GatewayErrors /\ sub[s].pc = "posted" /\ exState[o] # "none"
  /\ SubmitEnd(s, [orders[o] EXCEPT !.status = "FAILED"], SubIdle)
  /\ UNCHANGED exchangeVars

-----------------------------------------------------------------------------
(* The exchange (external) *)

\* A private event is queued, or lost with its connection.
Push(o, st, vol) == \/ /\ Len(stream) < MaxEvents
                       /\ stream' = Append(stream, [ord |-> o, state |-> st, vol |-> vol])
                    \/ UNCHANGED stream

ExchangeAccept(o) ==
  /\ o \in wire
  /\ wire' = wire \ {o}
  /\ exState' = [exState EXCEPT ![o] = "wait"]
  /\ Push(o, "wait", 0)
  /\ UNCHANGED <<journalVars, failedNow, sub, rc, cancels, exVol, ledgerVars, crashes>>

\* The POST is lost before it reaches the exchange.
ExchangeLosePost(o) ==
  /\ o \in wire
  /\ wire' = wire \ {o}
  /\ UNCHANGED <<journalVars, failedNow, sub, rc, cancels, exState, exVol, stream,
                 ledgerVars, crashes>>

Live(o) == exState[o] \in {"wait", "trade"}

ExchangeFill(o) ==
  LET vol == exVol[o] + 1
      st  == IF vol = Lots THEN "done" ELSE "trade" IN
  /\ Live(o) /\ exVol[o] < Lots
  /\ exVol' = [exVol EXCEPT ![o] = vol]
  /\ exState' = [exState EXCEPT ![o] = st]
  /\ Push(o, st, vol)
  /\ UNCHANGED <<journalVars, failedNow, sub, rc, cancels, wire, ledgerVars, crashes>>

\* The exchange ends the order: the user's own cancel, or the rest of an
\* immediate order.
ExchangeCancel(o) ==
  /\ Live(o)
  /\ exState' = [exState EXCEPT ![o] = "cancel"]
  /\ Push(o, "cancel", exVol[o])
  /\ UNCHANGED <<journalVars, failedNow, sub, rc, cancels, wire, exVol, ledgerVars, crashes>>

-----------------------------------------------------------------------------
(* Cancels issued by the bot: cancel_bot_open_orders, clean_stale_orders and
   the cancel half of requote_pending_orders *)

BotCancel(o) ==
  /\ Live(o) /\ orders[o].known /\ o \notin cancels
  /\ exState' = [exState EXCEPT ![o] = "cancel"]
  /\ Push(o, "cancel", exVol[o])
  /\ cancels' = cancels \cup {o}
  /\ UNCHANGED <<journalVars, failedNow, sub, rc, wire, exVol, ledgerVars, crashes>>

MarkByUuid(o) ==
  /\ o \in cancels
  /\ cancels' = cancels \ {o}
  /\ Journal(Marked(o, [orders[o] EXCEPT !.status = "CANCELED"]), gate)
  /\ UNCHANGED <<failedNow, sub, rc, exchangeVars, ledgerVars, crashes>>

-----------------------------------------------------------------------------
(* Private WebSocket: apply_private_order_event with REST confirmation
   required, called by the main loop for each queued event *)

\* Mutant: a completion is applied without REST confirmation.
EventRecordTrusting(e) ==
  [orders[e.ord] EXCEPT !.known = TRUE, !.status = MapState(e.state, @)]

\* wait and cancel are applied as they are; a trade or a completion only
\* parks the order until REST confirms it.
EventRecord(e) ==
  LET r == [orders[e.ord] EXCEPT !.known = TRUE] IN
  CASE e.state = "wait"   -> [r EXCEPT !.status = "OPEN"]
    [] e.state = "cancel" -> [r EXCEPT !.status = "CANCELED",
                                       !.executed = IF e.vol > 0 THEN e.vol ELSE @]
    [] OTHER              -> [r EXCEPT !.status = "RECONCILIATION_PENDING"]

ApplyPrivateEvent ==
  LET e == Head(stream) IN
  /\ stream # <<>>
  /\ stream' = Tail(stream)
  /\ IF Recorded(e.ord) THEN Journal(Marked(e.ord, EventRecord(e)), gate)
                        ELSE UNCHANGED journalVars
  /\ UNCHANGED <<failedNow, sub, rc, cancels, wire, exState, exVol, ledgerVars, crashes>>

-----------------------------------------------------------------------------
(* REST reconciliation *)

\* What the exchange may answer about an order.  An answer whose fill has no
\* usable price, or whose volumes contradict each other, is not valid.  An
\* order without an exchange id is looked up by client id, which no client
\* implements: the adapter answers {}.
Answers(o) ==
  IF ~orders[o].known THEN {EmptyAnswer}
  ELSE {[state |-> exState[o], vol |-> exVol[o], valid |-> v] :
           v \in IF exVol[o] > 0 THEN BOOLEAN ELSE {TRUE}}
       \cup (IF SwallowErrors THEN {EmptyAnswer} ELSE {})

MayRaise(o) == orders[o].known /\ ~SwallowErrors

RecordedOrders == {o \in Order : Recorded(o)}

\* Mutant: the failure count of earlier passes is kept.
BeginFullKeepsFailures(t) ==
  /\ rc[t].pc = "idle"
  /\ rc' = [rc EXCEPT ![t] = [RcIdle EXCEPT !.pc = "scan", !.mode = "full",
                                            !.todo = RecordedOrders]]
  /\ UNCHANGED <<journalVars, failedNow, sub, cancels, exchangeVars, ledgerVars, crashes>>

\* reconcile_exchange_statuses: the pass starts from a snapshot of the list
\* and resets the failure count every thread reads.
BeginFull(t) ==
  /\ rc[t].pc = "idle"
  /\ rc' = [rc EXCEPT ![t] = [RcIdle EXCEPT !.pc = "scan", !.mode = "full",
                                            !.todo = RecordedOrders]]
  /\ failedNow' = FALSE
  /\ UNCHANGED <<journalVars, sub, cancels, exchangeVars, ledgerVars, crashes>>

\* One GET.  The list order of the loop is not told apart: any order may be
\* next.
FetchFull(t, o) ==
  /\ rc[t].pc = "scan" /\ o \in rc[t].todo /\ IsUnresolved(o)
  /\ \E a \in Answers(o) :
       rc' = [rc EXCEPT ![t] = [rc[t] EXCEPT !.pc = "apply", !.todo = @ \ {o},
                                             !.ord = o, !.ans = a]]
  /\ UNCHANGED <<journalVars, failedNow, sub, cancels, exchangeVars, ledgerVars, crashes>>

FailFull(t, o) ==
  /\ rc[t].pc = "scan" /\ o \in rc[t].todo /\ IsUnresolved(o) /\ MayRaise(o)
  /\ rc' = [rc EXCEPT ![t].todo = @ \ {o}]
  /\ failedNow' = TRUE
  /\ UNCHANGED <<journalVars, sub, cancels, exchangeVars, ledgerVars, crashes>>

ApplyFull(t) ==
  LET o == rc[t].ord
      a == rc[t].ans IN
  /\ rc[t].pc = "apply" /\ rc[t].mode = "full" /\ a.valid
  /\ ProcessOrderFill(o, MapState(a.state, orders[o].status), a.vol, o \notin NoBasis)
  /\ rc' = [rc EXCEPT ![t] = [@ EXCEPT !.pc = "scan", !.ord = None, !.ans = EmptyAnswer]]
  /\ UNCHANGED <<failedNow, sub, cancels, exchangeVars, crashes>>

RejectFull(t) ==
  LET o == rc[t].ord IN
  /\ rc[t].pc = "apply" /\ rc[t].mode = "full" /\ ~rc[t].ans.valid
  /\ Journal(Marked(o, [orders[o] EXCEPT !.status = "RECONCILIATION_PENDING"]), gate)
  /\ failedNow' = TRUE
  /\ rc' = [rc EXCEPT ![t] = [@ EXCEPT !.pc = "scan", !.ord = None, !.ans = EmptyAnswer]]
  /\ UNCHANGED <<sub, cancels, exchangeVars, ledgerVars, crashes>>

\* Every order left in the snapshot is in a final state.  The metrics are
\* saved and the save is verified: a failed save, like a failed order, closes
\* the gate with a second save that nobody verifies.
EndFull(t) ==
  LET counted == [gate EXCEPT !.lastFailed = failedNow]
      closed  == [counted EXCEPT !.state = "PENDING"] IN
  /\ rc[t].pc = "scan" /\ \A o \in rc[t].todo : ~IsUnresolved(o)
  /\ \/ /\ gate' = IF failedNow THEN closed ELSE counted
        /\ disk' \in {File(orders, gate')}
                     \cup (IF SaveMayFail THEN {File(orders, counted)} ELSE {})
        /\ UNCHANGED failedNow
     \/ /\ SaveMayFail
        /\ gate' = closed
        /\ disk' \in {disk, File(orders, counted), File(orders, closed)}
        /\ failedNow' = TRUE
  /\ rc' = [rc EXCEPT ![t] = [RcIdle EXCEPT !.pc = "finish", !.mode = "tail"]]
  /\ UNCHANGED <<orders, sub, cancels, exchangeVars, ledgerVars, crashes>>

\* reconcile_client_order, run by a fast thread on its own or by
\* reconcile_orders after the full pass.  The copy of the order record and the
\* GET are one step.
SingleMode(t) == \/ t \in FastThreads /\ rc[t].pc = "idle"
                 \/ rc[t].pc = "finish" /\ rc[t].mode = "tail"

BeginSingle(t, o) ==
  /\ SingleMode(t) /\ IsUnresolved(o)
  /\ \E a \in Answers(o) :
       rc' = [rc EXCEPT ![t] = [@ EXCEPT !.pc = "apply", !.ord = o, !.ans = a,
                                         !.was = orders[o].status]]
  /\ UNCHANGED <<journalVars, failedNow, sub, cancels, exchangeVars, ledgerVars, crashes>>

\* Where a thread goes after a single order that was not applied: the cycle
\* still tries to open the gate, a fast thread ends.
AfterRefusal(t) == IF rc[t].mode = "tail" THEN [RcIdle EXCEPT !.pc = "finish"] ELSE RcIdle

FailSingle(t, o) ==
  /\ SingleMode(t) /\ IsUnresolved(o) /\ MayRaise(o)
  /\ Journal(orders, Suspended)
  /\ rc' = [rc EXCEPT ![t] = AfterRefusal(t)]
  /\ UNCHANGED <<failedNow, sub, cancels, exchangeVars, ledgerVars, crashes>>

ApplySingle(t) ==
  LET o == rc[t].ord
      a == rc[t].ans IN
  /\ rc[t].pc = "apply" /\ rc[t].mode # "full" /\ a.valid
  /\ ProcessOrderFill(o, MapState(a.state, rc[t].was), a.vol, o \notin NoBasis)
  /\ rc' = [rc EXCEPT ![t] = [RcIdle EXCEPT !.pc = "finish", !.mode =
                                 IF rc[t].mode = "tail" THEN "both" ELSE "single"]]
  /\ UNCHANGED <<failedNow, sub, cancels, exchangeVars, crashes>>

RejectSingle(t) ==
  LET o == rc[t].ord IN
  /\ rc[t].pc = "apply" /\ rc[t].mode # "full" /\ ~rc[t].ans.valid
  /\ JournalTwice(Marked(o, [orders[o] EXCEPT !.status = "RECONCILIATION_PENDING"]), Suspended)
  /\ rc' = [rc EXCEPT ![t] = AfterRefusal(t)]
  /\ UNCHANGED <<failedNow, sub, cancels, exchangeVars, ledgerVars, crashes>>

\* complete_reconciliation_if_safe, called once after each applied single
\* order and once at the end of reconcile_orders ("both").
NothingUnresolved == \A o \in Order : ~IsUnresolved(o)
Safe == ~failedNow /\ NothingUnresolved

\* Mutant: the result of the save that opens the gate is ignored.
FinishUnverified(t) ==
  /\ rc[t].pc = "finish"
  /\ IF Safe THEN Journal(orders, [gate EXCEPT !.state = "READY"]) ELSE UNCHANGED journalVars
  /\ rc' = [rc EXCEPT ![t] = RcIdle]
  /\ UNCHANGED <<failedNow, sub, cancels, exchangeVars, ledgerVars, crashes>>

Finish(t) ==
  LET ready == [gate EXCEPT !.state = "READY"] IN
  /\ rc[t].pc = "finish"
  /\ \/ /\ Safe /\ gate.state = "PENDING"
        /\ gate' = ready /\ disk' = File(orders, ready)
     \/ /\ Safe /\ gate.state = "PENDING" /\ SaveMayFail
        /\ UNCHANGED gate
        /\ disk' \in {disk, File(orders, ready)}
     \/ (~Safe \/ gate.state = "READY") /\ UNCHANGED <<gate, disk>>
  /\ rc' = [rc EXCEPT ![t] = IF @.mode = "both" THEN [RcIdle EXCEPT !.pc = "finish"] ELSE RcIdle]
  /\ UNCHANGED <<orders, failedNow, sub, cancels, exchangeVars, ledgerVars, crashes>>

-----------------------------------------------------------------------------
(* _confirm_and_record_exit: the tick thread looks up the sell it has just
   submitted and books what the answer shows, with the price basis it holds *)

\* Two lookups, 50 and 100 ms after the ACK: they show a fill or the thread
\* gives up.
ReadExit(s) ==
  LET o == sub[s].ord IN
  /\ sub[s].pc = "acked"
  /\ sub' = [sub EXCEPT ![s] = IF exVol[o] > 0
                               THEN [@ EXCEPT !.pc = "confirm", !.vol = exVol[o]]
                               ELSE SubIdle]
  /\ UNCHANGED <<journalVars, failedNow, rc, cancels, exchangeVars, ledgerVars, crashes>>

ConfirmedStatus(vol) == IF vol = Lots THEN "FILLED" ELSE "PARTIALLY_FILLED"

RecordExit(s) ==
  /\ sub[s].pc = "confirm"
  /\ ProcessOrderFill(sub[s].ord, ConfirmedStatus(sub[s].vol), sub[s].vol, TRUE)
  /\ sub' = [sub EXCEPT ![s] = SubIdle]
  /\ UNCHANGED <<failedNow, rc, cancels, exchangeVars, crashes>>

-----------------------------------------------------------------------------
(* The process dies and is started again by its watchdog *)

\* _load(): a stored READY is kept only when the last full pass is less than
\* ten minutes old.
Reload ==
  /\ crashes < MaxCrashes /\ crashes' = crashes + 1
  /\ orders' = disk.orders
  /\ gate' \in {disk.gate, [disk.gate EXCEPT !.state = "PENDING"]}
  /\ failedNow' = FALSE
  /\ sub' = [s \in Submitters |-> SubIdle]
  /\ rc' = [t \in Threads |-> RcIdle]
  /\ cancels' = {} /\ stream' = <<>>
  /\ UNCHANGED <<disk, wire, exState, exVol>>

Restart == Reload /\ UNCHANGED ledgerVars

\* Death inside process_order_fill: the risk, cooldown and memory files have
\* the fill, the journal file does not.
DieInFill(o, st, vol, basis) ==
  /\ Delta(o, vol) > 0 /\ ~Refused(o, vol, basis)
  /\ Book(o, st, vol)
  /\ Reload

DieInApply(t) ==
  LET o == rc[t].ord
      a == rc[t].ans IN
  /\ rc[t].pc = "apply" /\ a.valid
  /\ DieInFill(o, MapState(a.state, IF rc[t].mode = "full" THEN orders[o].status
                                    ELSE rc[t].was), a.vol, o \notin NoBasis)

DieInRecordExit(s) ==
  /\ sub[s].pc = "confirm"
  /\ DieInFill(sub[s].ord, ConfirmedStatus(sub[s].vol), sub[s].vol, TRUE)

-----------------------------------------------------------------------------
Init ==
  /\ orders = [o \in Order |-> NotRecorded]
  /\ gate = [state |-> "PENDING", lastFailed |-> FALSE]
  /\ disk = File(orders, gate)
  /\ failedNow = FALSE
  /\ sub = [s \in Submitters |-> SubIdle]
  /\ rc = [t \in Threads |-> RcIdle]
  /\ cancels = {} /\ wire = {}
  /\ exState = [o \in Order |-> "none"]
  /\ exVol = [o \in Order |-> 0]
  /\ stream = <<>>
  /\ booked = [o \in Order |-> 0]
  /\ cleared = {}
  /\ crashes = 0

SubmitNext(s) == \/ \E o \in Order : SubmitCheck(s, o)
                 \/ RecordIntent(s) \/ CreateOrder(s) \/ SubmitAck(s)
                 \/ SubmitTimeout(s) \/ SubmitReject(s) \/ SubmitGatewayError(s)
                 \/ ReadExit(s) \/ RecordExit(s) \/ DieInRecordExit(s)

ExchangeNext(o) == \/ ExchangeAccept(o) \/ ExchangeLosePost(o)
                   \/ ExchangeFill(o) \/ ExchangeCancel(o)

FullPass(t) == \/ t \in CycleThreads /\ BeginFull(t)
               \/ \E o \in Order : FetchFull(t, o) \/ FailFull(t, o)
               \/ ApplyFull(t) \/ RejectFull(t) \/ EndFull(t)

SinglePass(t) == \/ \E o \in Order : BeginSingle(t, o) \/ FailSingle(t, o)
                 \/ ApplySingle(t) \/ RejectSingle(t) \/ Finish(t)

Next == \/ \E s \in Submitters : SubmitNext(s)
        \/ \E o \in Order : ExchangeNext(o) \/ BotCancel(o) \/ MarkByUuid(o)
        \/ ApplyPrivateEvent
        \/ \E t \in Threads : FullPass(t) \/ SinglePass(t) \/ DieInApply(t)
        \/ Restart

Spec == Init /\ [][Next]_vars

\* The scheduler starts a new cycle whenever the last one ended, a cycle runs
\* to its end, the main loop drains the private events, and an order that is
\* asked about again and again is in the end answered with its state.
GoodFetch(t, o) == FetchFull(t, o) /\ rc'[t].ans.valid /\ rc'[t].ans.state # "none"

Fairness == /\ \A t \in CycleThreads : /\ WF_vars(FullPass(t) \/ SinglePass(t))
                                       /\ \A o \in Order : SF_vars(GoodFetch(t, o))
            /\ WF_vars(ApplyPrivateEvent)

FairSpec == Spec /\ Fairness

-----------------------------------------------------------------------------
(* Properties *)

JournalRec == [orders : [Order -> OrderRec], gate : GateRec]

\* Every variable holds a value of its type, a busy thread has an order, and
\* the processed volume of an order never passes its requested volume.
TypeOK ==
  /\ orders \in [Order -> OrderRec]
  /\ gate \in GateRec
  /\ disk \in JournalRec
  /\ failedNow \in BOOLEAN
  /\ sub \in [Submitters -> SubRec]
  /\ rc \in [Threads -> RcRec]
  /\ \A s \in Submitters : sub[s].pc # "idle" => sub[s].ord \in Order
  /\ \A t \in Threads : rc[t].pc = "apply" => rc[t].ord \in Order
  /\ cancels \subseteq Order
  /\ wire \subseteq Order
  /\ exState \in [Order -> RawState]
  /\ exVol \in [Order -> 0..Lots]
  /\ stream \in Seq(Event)
  /\ booked \in [Order -> 0..MaxBooked]
  /\ cleared \subseteq Order
  /\ crashes \in 0..MaxCrashes

\* An order the journal calls FILLED has been booked in full, whichever thread
\* or event made it FILLED and whatever a crash or a failed save lost: FILLED
\* is final, so nothing would book the rest later (process_order_fill, mark).
FilledIsBooked == \A o \in Order : orders[o].status = "FILLED" => booked[o] >= Lots

\* What keeps FilledIsBooked inductive: no journal, in memory or on disk, is
\* ahead of the books, and a completion always carries the whole volume.
Booked(os, b) == \A o \in Order : /\ os[o].processed <= b[o]
                                  /\ os[o].status = "FILLED" => b[o] >= Lots
DoneIsWhole == \A o \in Order : exState[o] = "done" => exVol[o] = Lots
AnswersWhole ==
  \A t \in Threads :
    /\ rc[t].pc = "scan" => rc[t].mode = "full"
    /\ rc[t].pc = "apply" => /\ rc[t].ans.state = "done" => rc[t].ans.vol = Lots
                             /\ rc[t].mode # "full" => rc[t].was # "FILLED"
FillInv == /\ Booked(orders, booked) /\ Booked(disk.orders, booked)
           /\ DoneIsWhole
           /\ AnswersWhole

\* A final state is left for no other kind of state, not even by a crash that
\* reloads the journal (mark, mark_by_uuid, _save, _load).
TerminalIsFinal ==
  [][\A o \in Order : orders[o].status \in Terminal => orders'[o].status \in Terminal]_vars

\* What the exchange knows of the bot's orders, the journal file knows: a crash
\* at any point leaves no order at the exchange without a record (submit writes
\* the intent before the POST).
IntentIsDurable == \A o \in Order : exState[o] # "none" => disk.orders[o].status # "NONE"

\* An order that may still execute is one every reconciliation pass asks
\* about: no thread gives up on it (submit, apply_private_order_event,
\* mark_by_uuid, the reconcilers).
LiveIsTracked == \A o \in Order : Live(o) \/ o \in wire => IsUnresolved(o)

\* Two sells of one market never execute together: together they could sell
\* more than is held (has_active_exit_order, acquire_exit_lock).
OneLiveExit ==
  \A o \in Order \ Buys : Live(o) \/ o \in wire =>
    \A p \in SameMarket(o) \ Buys : p # o => ~(Live(p) \/ p \in wire)

\* The gate that lets BUY orders through is only ever open on a journal file
\* that says so: a save that could not be verified never opens it
\* (complete_reconciliation_if_safe).
ReadyIsDurable == gate.state = "READY" => disk.gate.state = "READY"

\* The trailing state of a position is cleared by full exits that were booked
\* to the last lot and by nothing else (process_order_fill step 2).
ClearedOnlyWhenSold ==
  \A o \in cleared : o \notin Buys \cup PartialExits /\ booked[o] >= Lots

\* No lot of an order is booked twice (fill_delta).
NeverOverbooked == \A o \in Order : booked[o] <= exVol[o]

\* The journal and its processors implement FillLedger: every execution is
\* booked later and once.
Ledger == INSTANCE FillLedger WITH executed <- exVol
BookedOnce == Ledger!Spec

\* A known order that the exchange has closed reaches a final state
\* (reconcile_exchange_statuses).
Closed(o) == exState[o] \in {"done", "cancel"} /\ orders[o].known
ClosedOrderSettles ==
  \A o \in Order : (Closed(o) /\ IsUnresolved(o)) ~> (orders[o].status \in Terminal)

\* Once no order is unresolved, the gate opens for good: no failure of an
\* earlier pass keeps it shut (complete_reconciliation_if_safe, is_entry_ready).
GateReopens ==
  <>[]NothingUnresolved => <>[](\A o \in Order : IsEntryReady(o))

\* A CANCELED order has no executed lot that was never booked: CANCELED is
\* final, so nothing would book it later (apply_private_order_event,
\* mark_by_uuid).
CanceledIsBooked == \A o \in Order : orders[o].status = "CANCELED" => booked[o] >= exVol[o]

\* An order whose submission was ambiguous is resolved by the reconciliation
\* passes (reconcile_exchange_statuses, get_order_by_client_id).
UnknownResolves ==
  \A o \in Order : (orders[o].status = "UNKNOWN") ~> (orders[o].status # "UNKNOWN")

=============================================================================
