----------------------------- MODULE OrderFeed -----------------------------
(***************************************************************************)
(* The private order stream (base_websocket.py, private_websocket_         *)
(* manager.py, upbit_private_websocket.py) and what heals its losses: the  *)
(* entry gate closes when the event queue is full, and REST reconciliation *)
(* comes from the main loop (main.py, main_upbit.py), from the trading     *)
(* cycle and, one order at a time, from the workers of                     *)
(* AckReconcileScheduler (pre_buy_gate.py). The journal is reduced to      *)
(* whether an order is unresolved; OrderJournal has it in full. An order   *)
(* here is a slot: when an order is final and nothing speaks of it any     *)
(* more, the slot takes the next one.                                      *)
(***************************************************************************)
EXTENDS Naturals, Sequences, FiniteSets, SequencesExt

CONSTANTS Order,
          QMax,       \* room in the event queue (1000 in the code)
          MaxWorkers  \* bound: threads of the scheduler at one time

ASSUME OrderFeedAssumption ==
  QMax \in Nat \ {0} /\ MaxWorkers \in Nat /\ IsFiniteSet(Order)

VARIABLES
  truth,    \* the order at the exchange
  book,     \* the order in the journal, "held" for RECONCILIATION_PENDING
  wire,     \* events the exchange has sent and the receiver has not got
  events,   \* _order_event_queue
  refused,  \* the event a full queue has just refused, as a set
  dropped,  \* orders an event was refused of since they were submitted
  gate,     \* reconciliation_state
  reason,   \* last_suspend_reason
  failed,   \* _last_reconcile_failed_count > 0
  recon,    \* where a thread is in reconcile_orders
  acks,     \* the scheduler's _queue
  workers,  \* its threads: asleep, awake, past the interval check
  recent    \* less than min_interval_sec since _last_run_monotonic

streamVars == <<truth, wire, events, refused, dropped>>
bookVars   == <<book, gate, reason, failed>>
ackVars    == <<acks, workers, recent>>
orderVars  == <<streamVars, bookVars, recon, ackVars>>

Threads == {"main", "cycle"}
Events  == [ord : Order, state : {"trade", "done"}]
Unresolved == {o \in Order : book[o] \in {"live", "held"}}
Spoken(o)  == \/ \E i \in 1..Len(wire) : wire[i].ord = o
              \/ \E i \in 1..Len(events) : events[i].ord = o
              \/ \E e \in refused : e.ord = o

\* Mutant: the repeated reason alone makes the suspension a duplicate.
SuspendedOnce(r) ==
  /\ gate' = IF reason = r THEN gate ELSE "PENDING"
  /\ reason' = r

(* suspend_entry_for_reconciliation: the same reason again within a minute *)
(* is not saved again while the gate is closed, which changes nothing.     *)
Suspended(r) == gate' = "PENDING" /\ reason' = r

(* trigger_async: the id is queued once, and a thread starts each time; one *)
(* beyond the bound is a thread that never gets to run.                    *)
Triggered(o) ==
  /\ acks' = IF Contains(acks, o) THEN acks ELSE Append(acks, o)
  /\ workers' = IF workers.asleep + workers.awake + workers.due < MaxWorkers
                THEN [workers EXCEPT !.asleep = @ + 1] ELSE workers

-----------------------------------------------------------------------------
(* A BUY passes the gate, is recorded and acknowledged, and its single     *)
(* reconciliation is scheduled (executor.py).                              *)
Submit(o) ==
  /\ gate = "READY" /\ book[o] \in {"none", "final"} /\ ~Spoken(o)
  /\ book' = [book EXCEPT ![o] = "live"]
  /\ truth' = [truth EXCEPT ![o] = "open"]
  /\ dropped' = dropped \ {o}
  /\ Triggered(o)
  /\ UNCHANGED <<wire, events, refused, gate, reason, failed, recon, recent>>

(* The exchange fills a part or the rest of an order and says so.          *)
Fill(o) ==
  /\ truth[o] \in {"open", "part"}
  /\ \E st \in {"trade", "done"} :
       /\ (truth[o] = "part") => st = "done"
       /\ truth' = [truth EXCEPT ![o] = IF st = "done" THEN "done" ELSE "part"]
       /\ wire' = Append(wire, [ord |-> o, state |-> st])
  /\ UNCHANGED <<events, refused, dropped, bookVars, recon, ackVars>>

(* The connection breaks: what was on the wire is gone for good, and       *)
(* nothing closes the gate.                                                *)
Disconnect ==
  /\ wire # <<>>
  /\ wire' = <<>>
  /\ UNCHANGED <<truth, events, refused, dropped, bookVars, recon, ackVars>>

(* _on_message: put_nowait, or queue.Full.                                 *)
ReceiveEvent ==
  /\ refused = {} /\ wire # <<>>
  /\ wire' = Tail(wire)
  /\ IF Len(events) < QMax
     THEN events' = Append(events, Head(wire)) /\ UNCHANGED refused
     ELSE refused' = {Head(wire)} /\ UNCHANGED events
  /\ UNCHANGED <<truth, dropped, bookVars, recon, ackVars>>

(* _handle_order_queue_overflow: the event is dropped and the gate closed. *)
Overflow ==
  /\ \E e \in refused : dropped' = dropped \cup {e.ord}
  /\ refused' = {}
  /\ Suspended("full")
  /\ UNCHANGED <<truth, wire, events, book, failed, recon, ackVars>>

(* drain_order_events: on_order holds the order for REST and triggers its  *)
(* reconciliation.                                                         *)
DrainEvent ==
  /\ events # <<>>
  /\ LET o == Head(events).ord IN
     /\ book' = [book EXCEPT ![o] = IF @ = "live" THEN "held" ELSE @]
     /\ Triggered(o)
  /\ events' = Tail(events)
  /\ UNCHANGED <<truth, wire, refused, dropped, gate, reason, failed, recon, recent>>

-----------------------------------------------------------------------------
(* _reconcile_after_private_ws_drain, when it goes on to REST.             *)
Recover ==
  /\ reason = "full" /\ gate = "PENDING" /\ events = <<>>
  /\ recon["main"] = "no"
  /\ recon' = [recon EXCEPT !["main"] = "scan"]
  /\ UNCHANGED <<streamVars, bookVars, ackVars>>

(* The trading cycle's reconcile_orders.                                   *)
CycleStarts ==
  /\ recon["cycle"] = "no"
  /\ recon' = [recon EXCEPT !["cycle"] = "scan"]
  /\ UNCHANGED <<streamVars, bookVars, ackVars>>

Booked(o) == IF truth[o] = "done" THEN "final" ELSE "live"

(* The end of a full pass: a lookup that failed closes the gate.           *)
PassEnds(t, S) ==
  /\ failed' = (S # Unresolved)
  /\ IF failed' THEN Suspended("rest") ELSE UNCHANGED <<gate, reason>>
  /\ recon' = [recon EXCEPT ![t] = IF t = "cycle" THEN "acks" ELSE "complete"]

\* Mutant: only the orders an event has held are looked up.
ScanHeld(t, S) ==
  /\ recon[t] = "scan"
  /\ S \subseteq Unresolved
  /\ book' = [o \in Order |-> IF o \in S /\ book[o] = "held" THEN Booked(o) ELSE book[o]]
  /\ PassEnds(t, S)
  /\ UNCHANGED <<streamVars, ackVars>>

(* reconcile_exchange_statuses: the lookups of the orders in S are         *)
(* answered, the others fail.                                              *)
Scan(t, S) ==
  /\ recon[t] = "scan"
  /\ S \subseteq Unresolved
  /\ book' = [o \in Order |-> IF o \in S THEN Booked(o) ELSE book[o]]
  /\ PassEnds(t, S)
  /\ UNCHANGED <<streamVars, ackVars>>

ScanRaises(t) ==
  /\ recon[t] = "scan"
  /\ Suspended("rest")
  /\ recon' = [recon EXCEPT ![t] = "no"]
  /\ UNCHANGED <<streamVars, book, failed, ackVars>>

(* complete_reconciliation_if_safe.                                        *)
Completed(b) == IF failed \/ \E o \in Order : b[o] \in {"live", "held"} THEN gate ELSE "READY"

Complete(t) ==
  /\ recon[t] = "complete"
  /\ gate' = Completed(book)
  /\ recon' = [recon EXCEPT ![t] = "no"]
  /\ UNCHANGED <<streamVars, book, reason, failed, ackVars>>

-----------------------------------------------------------------------------
(* reconcile_client_order for the oldest id, answered or not.              *)
ReconcileNext ==
  /\ acks # <<>>
  /\ LET o == Head(acks) IN
     \/ /\ o \in Unresolved
        /\ book' = [book EXCEPT ![o] = Booked(o)]
        /\ gate' = Completed(book')
        /\ UNCHANGED reason
     \/ /\ o \in Unresolved
        /\ Suspended("ack") /\ UNCHANGED book
     \/ o \notin Unresolved /\ UNCHANGED <<book, gate, reason>>
  /\ acks' = Tail(acks)
  /\ recent' = TRUE

(* A worker sleeps its delay and what the interval has left, then looks at *)
(* the interval once more, and only then takes an id.                      *)
WorkerWakes ==
  /\ workers.asleep > 0 /\ ~recent
  /\ workers' = [workers EXCEPT !.asleep = @ - 1, !.awake = @ + 1]
  /\ UNCHANGED <<streamVars, bookVars, recon, acks, recent>>

WorkerChecks ==
  /\ workers.awake > 0
  /\ workers' = [workers EXCEPT !.awake = @ - 1, !.due = IF recent THEN @ ELSE @ + 1]
  /\ UNCHANGED <<streamVars, bookVars, recon, acks, recent>>

WorkerRuns ==
  /\ workers.due > 0
  /\ workers' = [workers EXCEPT !.due = @ - 1]
  /\ \/ ReconcileNext
     \/ acks = <<>> /\ UNCHANGED <<book, gate, reason, acks, recent>>
  /\ UNCHANGED <<streamVars, failed, recon>>

\* Mutant: the cycle does not hand the scheduler on to reconcile_orders.
CycleSkipsAcks ==
  /\ recon["cycle"] = "acks"
  /\ recon' = [recon EXCEPT !["cycle"] = "complete"]
  /\ UNCHANGED <<streamVars, bookVars, ackVars>>

(* The cycle's reconcile_orders runs one id as well.                       *)
CycleAcks ==
  /\ recon["cycle"] = "acks"
  /\ recon' = [recon EXCEPT !["cycle"] = "complete"]
  /\ \/ ~recent /\ ReconcileNext
     \/ (recent \/ acks = <<>>) /\ UNCHANGED <<book, gate, reason, acks, recent>>
  /\ UNCHANGED <<streamVars, failed, workers>>

IntervalPasses ==
  /\ recent /\ recent' = FALSE
  /\ UNCHANGED <<streamVars, bookVars, recon, acks, workers>>

OrderInit ==
  /\ truth = [o \in Order |-> "unsent"] /\ book = [o \in Order |-> "none"]
  /\ wire = <<>> /\ events = <<>> /\ refused = {} /\ dropped = {}
  /\ gate = "PENDING" /\ reason = "none" /\ failed = FALSE
  /\ recon = [t \in Threads |-> "no"]
  /\ acks = <<>> /\ workers = [asleep |-> 0, awake |-> 0, due |-> 0] /\ recent = FALSE

-----------------------------------------------------------------------------
OrderTypeOK ==
  /\ truth \in [Order -> {"unsent", "open", "part", "done"}]
  /\ book \in [Order -> {"none", "live", "held", "final"}]
  /\ wire \in Seq(Events) /\ events \in Seq(Events) /\ Len(events) <= QMax
  /\ refused \subseteq Events /\ dropped \subseteq Order
  /\ gate \in {"READY", "PENDING"} /\ reason \in {"none", "full", "rest", "ack"}
  /\ failed \in BOOLEAN /\ recent \in BOOLEAN
  /\ recon \in [Threads -> {"no", "scan", "acks", "complete"}]
  /\ acks \in Seq(Order) /\ IsInjective(acks)
  /\ workers \in [asleep : 0..MaxWorkers, awake : 0..MaxWorkers, due : 0..MaxWorkers]

\* From the moment the full queue has cost an order an event, and until REST has
\* resolved that order, no BUY passes the gate: whichever of the four paths to
\* complete_reconciliation_if_safe runs, and however often the queue was full
\* before (suspend_entry_for_reconciliation's duplicate test).
GateCoversDrop == \A o \in dropped : book[o] \in {"live", "held"} => gate = "PENDING"

\* What the exchange has filled is booked in the end, whether its event was
\* delivered, refused by the queue or lost with the connection.
DoneIsBooked == \A o \in Order : truth[o] = "done" ~> book[o] = "final"

\* A scheduled id does not stay in the scheduler's queue: two workers that wake
\* together serve one id, and the other is left to the cycle's reconcile_orders.
AcksAreServed == \A o \in Order : []<>(~Contains(acks, o))
=============================================================================
