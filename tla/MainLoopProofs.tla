--------------------------- MODULE MainLoopProofs ---------------------------
(***************************************************************************)
(* From the moment the full queue has cost an order an event until REST    *)
(* has resolved it, no BUY passes the gate: for any orders, any room in    *)
(* the queue and any number of workers. And a market is marked pending     *)
(* exactly while one callback of its is on its way, for any markets and    *)
(* prices: a step moves it on, from the hands of the receiver to the end   *)
(* of the queue, forward in it, and out of it; none makes a second one.    *)
(***************************************************************************)
EXTENDS MainLoop, FiniteSetTheorems, SequenceTheorems, TLAPS

Books == {"none", "live", "held", "final"}
Open(b) == {o \in Order : b[o] \in {"live", "held"}}

\* GateCoversDrop with the range of the journal, which EXCEPT needs.
GateInv ==
  /\ book \in [Order -> Books]
  /\ dropped \subseteq Order
  /\ refused \subseteq Events
  /\ GateCoversDrop

-----------------------------------------------------------------------------
(* What the operators do to the gate *)

\* The gate opens only over a journal without an unresolved order.
LEMMA OpensOverFinal ==
  ASSUME NEW b, Completed(b) # gate
  PROVE  Open(b) = {}
BY DEF Completed, Open

\* A change of the journal that opens no order keeps the invariant while the
\* gate is left alone, closed, or completed over the new journal.
LEMMA GateKept ==
  ASSUME GateInv, book' \in [Order -> Books], Open(book') \subseteq Open(book),
         gate' \in {gate, "PENDING", Completed(book')},
         UNCHANGED <<dropped, refused>>
  PROVE  GateInv'
<1> SUFFICES ASSUME NEW o \in dropped, book'[o] \in {"live", "held"}
             PROVE  gate' = "PENDING"
  BY DEF GateInv, GateCoversDrop
<1>1. o \in Open(book') /\ o \in Open(book) /\ gate = "PENDING"
  BY DEF GateInv, GateCoversDrop, Open
<1>2. Completed(book') = gate
  BY <1>1, OpensOverFinal
<1> QED BY <1>1, <1>2

-----------------------------------------------------------------------------
(* The order stream *)

LEMMA SubmitGate == ASSUME GateInv, NEW o \in Order, Submit(o) PROVE GateInv'
<1>1. /\ gate = "READY" /\ gate' = gate
      /\ book' = [book EXCEPT ![o] = "live"]
      /\ dropped' = dropped \ {o} /\ refused' = refused
  BY DEF Submit
<1>2. book' \in [Order -> Books] /\ \A i \in dropped' : book'[i] = book[i]
  BY <1>1 DEF GateInv, Books
<1> QED BY <1>1, <1>2 DEF GateInv, GateCoversDrop

LEMMA OverflowGate == ASSUME GateInv, Overflow PROVE GateInv'
<1>1. gate' = "PENDING" /\ book' = book /\ refused' = {}
  BY DEF Overflow, Suspended
<1>2. dropped' \subseteq Order
  BY DEF Overflow, GateInv, Events
<1> QED BY <1>1, <1>2 DEF GateInv, GateCoversDrop

LEMMA DrainGate == ASSUME GateInv, DrainEvent PROVE GateInv'
<1>1. UNCHANGED <<gate, dropped, refused>>
  BY DEF DrainEvent
<1>2. book' \in [Order -> Books] /\ Open(book') \subseteq Open(book)
  BY DEF DrainEvent, GateInv, Open, Books
<1> QED BY <1>1, <1>2, GateKept

LEMMA ScanGate == ASSUME GateInv, NEW t, NEW S, Scan(t, S) PROVE GateInv'
<1>1. UNCHANGED <<dropped, refused>> /\ gate' \in {gate, "PENDING"}
  BY DEF Scan, PassEnds, Suspended, streamVars
<1>2. book' \in [Order -> Books] /\ Open(book') \subseteq Open(book)
  BY DEF Scan, Booked, Unresolved, GateInv, Open, Books
<1> QED BY <1>1, <1>2, GateKept

LEMMA RaiseGate == ASSUME GateInv, NEW t, ScanRaises(t) PROVE GateInv'
  BY DEF ScanRaises, Suspended, streamVars, GateInv, GateCoversDrop

LEMMA CompleteGate == ASSUME GateInv, NEW t, Complete(t) PROVE GateInv'
<1>1. UNCHANGED <<dropped, refused, book>> /\ gate' = Completed(book')
  BY DEF Complete, streamVars, Completed
<1> QED BY <1>1, GateKept DEF GateInv

LEMMA NextIdGate ==
  ASSUME GateInv, ReconcileNext, UNCHANGED <<dropped, refused>> PROVE GateInv'
<1>1. gate' \in {gate, "PENDING", Completed(book')}
  BY DEF ReconcileNext, Suspended
<1>2. book' \in [Order -> Books] /\ Open(book') \subseteq Open(book)
  BY DEF ReconcileNext, Booked, Unresolved, GateInv, Open, Books
<1> QED BY <1>1, <1>2, GateKept

LEMMA IdleGate == ASSUME GateInv, UNCHANGED <<book, gate, dropped, refused>> PROVE GateInv'
  BY DEF GateInv, GateCoversDrop

LEMMA ReceiveGate == ASSUME GateInv, wire \in Seq(Events), ReceiveEvent PROVE GateInv'
<1>1. UNCHANGED <<book, gate, dropped>>
  BY DEF ReceiveEvent, bookVars
<1>2. refused' \subseteq Events
  BY DEF ReceiveEvent, GateInv
<1> QED BY <1>1, <1>2 DEF GateInv, GateCoversDrop

-----------------------------------------------------------------------------
(* The events on the wire *)

WireOK == wire \in Seq(Events)

LEMMA FillWire == ASSUME WireOK, NEW o \in Order, Fill(o) PROVE WireOK'
<1>1. PICK st \in {"trade", "done"} : wire' = Append(wire, [ord |-> o, state |-> st])
  BY DEF Fill
<1>2. [ord |-> o, state |-> st] \in Events
  BY DEF Events
<1> QED BY <1>1, <1>2, AppendProperties DEF WireOK

LEMMA ReceiveWire == ASSUME WireOK, ReceiveEvent PROVE WireOK'
<1>1. wire # <<>> /\ wire' = Tail(wire)
  BY DEF ReceiveEvent
<1> QED BY <1>1, HeadTailProperties DEF WireOK

-----------------------------------------------------------------------------
(* The main loop *)

Inv == GateInv /\ WireOK

LEMMA InitInv == Init => Inv
<1> SUFFICES ASSUME Init PROVE Inv
  OBVIOUS
<1>1. OrderInit
  BY DEF Init
<1>2. wire \in Seq(Events)
  BY <1>1, EmptySeq DEF OrderInit
<1> QED BY <1>1, <1>2 DEF OrderInit, Inv, GateInv, WireOK, GateCoversDrop, Books

\* Steps that leave the wire alone keep its events in order.
LEMMA SameWire == ASSUME WireOK, UNCHANGED wire PROVE WireOK'
  BY DEF WireOK

LEMMA MainInv == ASSUME Inv, Main PROVE Inv'
<1> USE DEF Inv
<1>1. CASE DrainPrices \/ ToOrders \/ ToRecovery \/ NextRound
  <2>1. UNCHANGED <<book, gate, dropped, refused, wire>>
    BY <1>1 DEF DrainPrices, ToOrders, ToRecovery, NextRound, orderVars, streamVars, bookVars
  <2> QED BY <2>1, IdleGate, SameWire
<1>2. CASE StartRecovery
  <2>1. UNCHANGED <<book, gate, dropped, refused, wire>>
    BY <1>2 DEF StartRecovery, Recover, streamVars, bookVars
  <2> QED BY <2>1, IdleGate, SameWire
<1>3. CASE DrainOrders
  <2>1. DrainEvent /\ UNCHANGED wire
    BY <1>3 DEF DrainOrders, DrainEvent
  <2> QED BY <2>1, DrainGate, SameWire
<1> QED BY <1>1, <1>2, <1>3 DEF Main

LEMMA ReconcilingInv == ASSUME Inv, NEW t, Reconciling(t) PROVE Inv'
<1> USE DEF Inv
<1>1. UNCHANGED wire
  BY DEF Reconciling, Scan, ScanRaises, Complete, streamVars
<1>2. GateInv'
  BY ScanGate, RaiseGate, CompleteGate DEF Reconciling
<1> QED BY <1>1, <1>2, SameWire

LEMMA AcksInv == ASSUME Inv, CycleAcks \/ WorkerRuns PROVE Inv'
<1> USE DEF Inv
<1>1. UNCHANGED <<dropped, refused, wire>>
  BY DEF CycleAcks, WorkerRuns, streamVars
<1>2. ReconcileNext \/ UNCHANGED <<book, gate>>
  BY DEF CycleAcks, WorkerRuns
<1> QED BY <1>1, <1>2, NextIdGate, IdleGate, SameWire

LEMMA NextInv == Inv /\ [Next]_vars => Inv'
<1> SUFFICES ASSUME Inv, [Next]_vars PROVE Inv'
  OBVIOUS
<1>1. CASE Main
  BY <1>1, MainInv
<1>2. CASE UNCHANGED orderVars
  <2>1. UNCHANGED <<book, gate, dropped, refused, wire>>
    BY <1>2 DEF orderVars, streamVars, bookVars
  <2> QED BY <2>1, IdleGate, SameWire DEF Inv
<1>3. CASE \E o \in Order : Submit(o)
  <2>1. UNCHANGED wire
    BY <1>3 DEF Submit
  <2> QED BY <1>3, <2>1, SubmitGate, SameWire DEF Inv
<1>4. CASE \E o \in Order : Fill(o)
  <2>1. UNCHANGED <<book, gate, dropped, refused>>
    BY <1>4 DEF Fill, bookVars
  <2> QED BY <1>4, <2>1, IdleGate, FillWire DEF Inv
<1>5. CASE ReceiveEvent
  BY <1>5, ReceiveGate, ReceiveWire DEF Inv, WireOK
<1>6. CASE Disconnect
  <2>1. UNCHANGED <<book, gate, dropped, refused>> /\ wire' = <<>>
    BY <1>6 DEF Disconnect, bookVars
  <2> QED BY <2>1, IdleGate, EmptySeq DEF Inv, WireOK
<1>7. CASE Overflow
  <2>1. UNCHANGED wire
    BY <1>7 DEF Overflow
  <2> QED BY <1>7, <2>1, OverflowGate, SameWire DEF Inv
<1>8. CASE \E t \in Threads : Reconciling(t)
  BY <1>8, ReconcilingInv
<1>9. CASE CycleAcks \/ WorkerRuns
  BY <1>9, AcksInv
<1>10. CASE CycleStarts \/ WorkerWakes \/ WorkerChecks \/ IntervalPasses
  <2>1. UNCHANGED <<book, gate, dropped, refused, wire>>
    BY <1>10 DEF CycleStarts, WorkerWakes, WorkerChecks, IntervalPasses, streamVars, bookVars
  <2> QED BY <2>1, IdleGate, SameWire DEF Inv
<1> QED BY <1>1, <1>2, <1>3, <1>4, <1>5, <1>6, <1>7, <1>8, <1>9, <1>10
        DEF Next, Beside, vars

\* While the journal has an order unresolved that the full queue has cost an
\* event, the entry gate is closed: whichever thread reconciles, completes or
\* raises, and however often the same reason closed it before.
THEOREM GateAlwaysCoversDrop == Spec => []GateCoversDrop
<1>1. Inv => GateCoversDrop
  BY DEF Inv, GateInv
<1> QED BY <1>1, InitInv, NextInv, PTL DEF Spec

-----------------------------------------------------------------------------
(* The callbacks of the prices *)

FeedType ==
  /\ pending \subseteq Market
  /\ queue \in Seq(Ticks)
  /\ receiver \in {Idle} \cup At({"mark", "put"})
  /\ drainer.at = "popped" => drainer \in At({"popped"})

\* One callback on its way for a market that is pending, none for another.
Once(k) == IF k \in pending THEN \E x : Places(k) = {x} ELSE Places(k) = {}
FeedInv == FeedType /\ \A k \in Market : Once(k)

-----------------------------------------------------------------------------
(* Where a callback can be *)

LEMMA OnceIsOnce == FeedInv => OnTheWayOnce
<1>1. \A x : Cardinality({x}) = 1
  BY FS_Singleton
<1>2. Cardinality({}) = 0
  BY FS_EmptySet
<1> QED BY <1>1, <1>2 DEF FeedInv, Once, OnTheWayOnce

\* What keeps the places and the marks keeps the invariant.
LEMMA SamePlaces ==
  ASSUME FeedInv, FeedType', UNCHANGED pending,
         \A k \in Market : Places(k)' = Places(k)
  PROVE  FeedInv'
BY DEF FeedInv, Once

LEMMA TypeParts ==
  ASSUME FeedType
  PROVE  /\ Len(queue) \in Nat
         /\ receiver # Idle => receiver.at \in {"mark", "put"} /\ receiver.tick \in Ticks
         /\ drainer.at = "popped" => drainer.tick \in Ticks
<1>1. Len(queue) \in Nat
  BY LenProperties DEF FeedType
<1> QED BY <1>1 DEF FeedType, At, Idle

LEMMA ReceiveFeed == ASSUME FeedInv, NEW t \in Ticks, ReceiveTick(t) PROVE FeedInv'
<1>1. /\ UNCHANGED <<pending, queue, drainer>> /\ receiver = Idle
      /\ receiver' = Idle \/ receiver' = [at |-> "mark", tick |-> t]
  BY DEF ReceiveTick
<1>2. receiver' \in {Idle} \cup At({"mark", "put"}) /\ receiver.at # "put" /\ receiver'.at # "put"
  BY <1>1 DEF At, Idle
<1>3. \A k \in Market : Places(k)' = Places(k)
  BY <1>1, <1>2 DEF Places
<1> QED BY <1>1, <1>2, <1>3, SamePlaces DEF FeedInv, FeedType

LEMMA MarkFeed == ASSUME FeedInv, MarkPending PROVE FeedInv'
<1> DEFINE m == receiver.tick.market
<1>1. receiver.at = "mark" /\ UNCHANGED <<queue, drainer>>
  BY DEF MarkPending
<1>2. receiver \in At({"mark", "put"}) /\ m \in Market
  BY <1>1 DEF FeedInv, FeedType, At, Idle, Ticks
<1>3. CASE m \in pending
  <2>1. receiver' = Idle /\ UNCHANGED pending
    BY <1>3 DEF MarkPending
  <2>2. receiver'.at # "put"
    BY <2>1 DEF Idle
  <2>3. \A k \in Market : Places(k)' = Places(k)
    BY <1>1, <2>2 DEF Places
  <2> QED BY <1>1, <2>1, <2>3, SamePlaces DEF FeedInv, FeedType
<1>4. CASE m \notin pending
  <2>1. receiver' = [receiver EXCEPT !.at = "put"] /\ pending' = pending \cup {m}
    BY <1>4 DEF MarkPending
  <2>2. receiver' \in At({"mark", "put"}) /\ receiver'.at = "put" /\ receiver'.tick = receiver.tick
    BY <1>2, <2>1 DEF At
  <2>3. FeedType'
    BY <1>1, <1>2, <2>1, <2>2 DEF FeedInv, FeedType
  <2>4. Places(m) = {}
    BY <1>2, <1>4 DEF FeedInv, Once
  <2>5. Places(m)' = {Len(queue) + 1}
    BY <1>1, <2>2, <2>4 DEF Places
  <2>6. \A k \in Market : k # m => Places(k)' = Places(k)
    BY <1>1, <2>2 DEF Places
  <2>7. ASSUME NEW k \in Market PROVE Once(k)'
    <3>1. CASE k = m
      BY <2>1, <2>5, <3>1 DEF Once
    <3>2. CASE k # m
      <4>1. Places(k)' = Places(k) /\ (k \in pending' <=> k \in pending) /\ Once(k)
        BY <2>1, <2>6, <3>2 DEF FeedInv
      <4> QED BY <4>1 DEF Once
    <3> QED BY <3>1, <3>2
  <2> QED BY <2>3, <2>7 DEF FeedInv
<1> QED BY <1>3, <1>4

LEMMA PutFeed == ASSUME FeedInv, PutCallback PROVE FeedInv'
<1>1. /\ receiver.at = "put" /\ receiver' = Idle
      /\ queue' = Append(queue, receiver.tick) /\ UNCHANGED <<pending, drainer>>
  BY DEF PutCallback
<1>2. receiver.tick \in Ticks /\ queue \in Seq(Ticks)
  BY <1>1, TypeParts DEF FeedInv, FeedType, Idle
<1>3. /\ queue' \in Seq(Ticks) /\ Len(queue') = Len(queue) + 1
      /\ \A i \in 1..Len(queue) : queue'[i] = queue[i]
      /\ queue'[Len(queue) + 1] = receiver.tick
      /\ Len(queue) \in Nat
  BY <1>1, <1>2, AppendProperties, LenProperties
<1>4. receiver'.at # "put"
  BY <1>1 DEF Idle
<1>5. ASSUME NEW k \in Market PROVE Places(k)' = Places(k)
  <2>1. {i \in 1..Len(queue') : queue'[i].market = k}
        = {i \in 1..Len(queue) : queue[i].market = k}
          \cup {i \in {Len(queue) + 1} : receiver.tick.market = k}
    BY <1>3
  <2> QED BY <1>1, <1>4, <2>1 DEF Places
<1> QED BY <1>1, <1>3, <1>5, SamePlaces DEF FeedInv, FeedType

LEMMA PopFeed == ASSUME FeedInv, PopCallback PROVE FeedInv'
<1>1. /\ drainer = Idle /\ queue # <<>> /\ queue' = Tail(queue)
      /\ drainer' = [at |-> "popped", tick |-> Head(queue)]
      /\ UNCHANGED <<pending, receiver>>
  BY DEF PopCallback
<1>2. queue \in Seq(Ticks)
  BY DEF FeedInv, FeedType
<1>3. /\ queue' \in Seq(Ticks) /\ Head(queue) \in Ticks
      /\ Len(queue') = Len(queue) - 1 /\ Len(queue) \in Nat \ {0}
      /\ \A i \in 1..Len(queue') : queue'[i] = queue[i + 1]
      /\ Head(queue) = queue[1]
  BY <1>1, <1>2, HeadTailProperties, EmptySeq
<1>4. drainer' \in At({"popped"}) /\ drainer'.at = "popped"
      /\ drainer'.tick = queue[1] /\ drainer.at # "popped"
  BY <1>1, <1>3 DEF At, Idle
<1>5. FeedType'
  BY <1>1, <1>3, <1>4 DEF FeedInv, FeedType
<1>6. ASSUME NEW k \in Market, NEW i \in Int
      PROVE  i \in Places(k)' <=> i + 1 \in Places(k)
  <2>1. i \in {j \in 1..Len(queue') : queue'[j].market = k} \/ i \in {j \in {0} : queue[1].market = k}
        <=> i + 1 \in {j \in 1..Len(queue) : queue[j].market = k}
    BY <1>3
  <2>2. i \in {j \in {Len(queue') + 1} : receiver.at = "put" /\ receiver.tick.market = k}
        <=> i + 1 \in {j \in {Len(queue) + 1} : receiver.at = "put" /\ receiver.tick.market = k}
    BY <1>3
  <2> QED BY <1>1, <1>4, <2>1, <2>2 DEF Places
<1>7. \A k \in Market : Places(k) \subseteq Int /\ Places(k)' \subseteq Int
  BY <1>3 DEF Places
<1>8. ASSUME NEW k \in Market PROVE Once(k)'
  <2>1. CASE k \in pending
    <3>1. PICK x : Places(k) = {x}
      BY <2>1 DEF FeedInv, Once
    <3>2. x \in Int
      BY <1>7, <3>1
    <3>3. Places(k)' = {x - 1}
      BY <1>6, <1>7, <3>1, <3>2
    <3> QED BY <1>1, <2>1, <3>3 DEF Once
  <2>2. CASE k \notin pending
    <3>1. Places(k) = {}
      BY <2>2 DEF FeedInv, Once
    <3>2. Places(k)' = {}
      BY <1>6, <1>7, <3>1
    <3> QED BY <1>1, <2>2, <3>2 DEF Once
  <2> QED BY <2>1, <2>2
<1> QED BY <1>5, <1>8 DEF FeedInv

LEMMA TakeFeed == ASSUME FeedInv, TakeNewest PROVE FeedInv'
<1> DEFINE m == drainer.tick.market
<1>1. /\ drainer.at = "popped" /\ UNCHANGED <<queue, receiver>>
      /\ drainer' = [at |-> "call", tick |-> [market |-> m, price |-> latest[m]]]
      /\ pending' = pending \ {m}
  BY DEF TakeNewest
<1>2. m \in Market /\ drainer'.at # "popped"
  BY <1>1, TypeParts DEF FeedInv, Idle, Ticks
<1>3. FeedType'
  BY <1>1, <1>2 DEF FeedInv, FeedType
<1>4. Places(m)' = {}
  <2>1. 0 \in Places(m) /\ m \in pending
    BY <1>1, <1>2 DEF Places, FeedInv, Once
  <2>2. Places(m) = {0}
    BY <1>2, <2>1 DEF FeedInv, Once
  <2>3. Places(m)' \subseteq Places(m) \ {0}
    BY <1>1, <1>2, TypeParts DEF Places, FeedInv
  <2> QED BY <2>2, <2>3
<1>5. ASSUME NEW k \in Market PROVE Once(k)'
  <2>1. CASE k = m
    BY <1>1, <1>4, <2>1 DEF Once
  <2>2. CASE k # m
    <3>1. Places(k)' = Places(k)
      BY <1>1, <1>2, <2>2 DEF Places
    <3>2. (k \in pending' <=> k \in pending) /\ Once(k)
      BY <1>1, <2>2 DEF FeedInv
    <3> QED BY <3>1, <3>2 DEF Once
  <2> QED BY <2>1, <2>2
<1> QED BY <1>3, <1>5 DEF FeedInv

LEMMA CallFeed == ASSUME FeedInv, CallBack PROVE FeedInv'
<1>1. /\ drainer.at = "call" /\ drainer' = Idle
      /\ UNCHANGED <<pending, queue, receiver>>
  BY DEF CallBack
<1>2. drainer'.at # "popped" /\ drainer.at # "popped"
  BY <1>1 DEF Idle
<1>3. \A k \in Market : Places(k)' = Places(k)
  BY <1>1, <1>2 DEF Places
<1> QED BY <1>1, <1>2, <1>3, SamePlaces DEF FeedInv, FeedType

LEMMA StillFeed == ASSUME FeedInv, UNCHANGED <<pending, queue, receiver, drainer>> PROVE FeedInv'
<1>1. \A k \in Market : Places(k)' = Places(k)
  BY DEF Places
<1> QED BY <1>1, SamePlaces DEF FeedInv, FeedType

-----------------------------------------------------------------------------
(* The main loop *)

LEMMA InitFeed == Init => FeedInv
<1> SUFFICES ASSUME Init PROVE FeedInv
  OBVIOUS
<1>1. pending = {} /\ queue = <<>> /\ receiver = Idle /\ drainer = Idle
  BY DEF Init, PriceInit
<1>2. receiver.at # "put" /\ drainer.at # "popped" /\ Len(queue) = 0 /\ queue \in Seq(Ticks)
  BY <1>1, EmptySeq DEF Idle
<1>3. \A k \in Market : Places(k) = {}
  BY <1>2 DEF Places
<1> QED BY <1>1, <1>2, <1>3 DEF FeedInv, FeedType, Once

LEMMA NextFeed == FeedInv /\ [Next]_vars => FeedInv'
<1> SUFFICES ASSUME FeedInv, [Next]_vars PROVE FeedInv'
  OBVIOUS
<1>1. CASE UNCHANGED <<pending, queue, receiver, drainer>>
  BY <1>1, StillFeed
<1>2. CASE Receive
  BY <1>2, ReceiveFeed DEF Receive
<1>3. CASE Handle
  BY <1>3, MarkFeed, PutFeed DEF Handle
<1>4. CASE Drain
  BY <1>4, PopFeed, TakeFeed, CallFeed DEF Drain
<1>5. CASE Main
  <2>1. Drain \/ UNCHANGED priceVars
    BY <1>5 DEF Main, DrainPrices, ToOrders, DrainOrders, ToRecovery, StartRecovery, NextRound
  <2>2. UNCHANGED priceVars => UNCHANGED <<pending, queue, receiver, drainer>>
    BY DEF priceVars
  <2> QED BY <1>1, <1>4, <2>1, <2>2
<1>6. CASE UNCHANGED priceVars
  BY <1>1, <1>6 DEF priceVars
<1> QED BY <1>2, <1>3, <1>5, <1>6 DEF Next, Beside, vars

\* A market's mark and its one callback go together, for any markets and any
\* prices: the mark never outlives the callback, and there is never a second.
THEOREM AlwaysOnTheWayOnce == Spec => []OnTheWayOnce
BY OnceIsOnce, InitFeed, NextFeed, PTL DEF Spec
=============================================================================
