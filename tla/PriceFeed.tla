----------------------------- MODULE PriceFeed -----------------------------
(***************************************************************************)
(* The public price stream of one exchange (base_websocket.py,             *)
(* websocket_manager.py, upbit_websocket.py). The receiving thread writes  *)
(* the newest price of a market and queues at most one callback per        *)
(* market; the main thread takes the callbacks off the queue and gives the *)
(* exit engine the newest price, not the queued one. Every access to the   *)
(* shared maps is under one lock, and an action here is one critical       *)
(* section or one queue operation. Whale trades have no callback in        *)
(* main.py and main_upbit.py, so prices are all the queue holds.           *)
(***************************************************************************)
EXTENDS Naturals, Sequences, FiniteSets

CONSTANTS Market, Price, NoPrice

ASSUME PriceAssumption == NoPrice \notin Price

VARIABLES
  latest,        \* latest_prices
  lastCallback,  \* _last_callback_prices
  pending,       \* _pending_price_markets
  queue,         \* _callback_queue
  receiver,      \* the message the receiving thread is at, and where
  drainer,       \* the callback the main thread is at, and where
  seen           \* the last price on_price_tick was called with

priceVars == <<latest, lastCallback, pending, queue, receiver, drainer, seen>>

MaybePrice == Price \cup {NoPrice}
Ticks      == [market : Market, price : Price]
At(steps)  == [at : steps, tick : Ticks]
Idle       == [at |-> "idle"]

(* A ticker message of a market: the price is stored whatever it is; a     *)
(* price the last callback was queued for is not queued again. These are   *)
(* two critical sections, but nobody else looks at _last_callback_prices.  *)
ReceiveTick(t) ==
  /\ receiver = Idle
  /\ latest' = [latest EXCEPT ![t.market] = t.price]
  /\ lastCallback' = [lastCallback EXCEPT ![t.market] = t.price]
  /\ receiver' = IF lastCallback[t.market] = t.price THEN Idle ELSE [at |-> "mark", tick |-> t]
  /\ UNCHANGED <<pending, queue, drainer, seen>>

\* Mutant: the market is queued without a look at what is pending.
MarkBlindly ==
  /\ receiver.at = "mark"
  /\ pending' = pending \cup {receiver.tick.market}
  /\ receiver' = [receiver EXCEPT !.at = "put"]
  /\ UNCHANGED <<latest, lastCallback, queue, drainer, seen>>

(* _enqueue_callback: the market's callback is on its way already, or it   *)
(* is marked and put.                                                      *)
MarkPending ==
  /\ receiver.at = "mark"
  /\ LET k == receiver.tick.market IN
     IF k \in pending
     THEN receiver' = Idle /\ UNCHANGED pending
     ELSE /\ pending' = pending \cup {k}
          /\ receiver' = [receiver EXCEPT !.at = "put"]
  /\ UNCHANGED <<latest, lastCallback, queue, drainer, seen>>

(* The queue has room for every market (OnTheWayOnce), so queue.Full and   *)
(* the dropping of the oldest callback are out of reach.                   *)
PutCallback ==
  /\ receiver.at = "put"
  /\ queue' = Append(queue, receiver.tick)
  /\ receiver' = Idle
  /\ UNCHANGED <<latest, lastCallback, pending, drainer, seen>>

(* drain_callbacks, in the main thread.                                    *)
PopCallback ==
  /\ drainer = Idle /\ queue # <<>>
  /\ drainer' = [at |-> "popped", tick |-> Head(queue)]
  /\ queue' = Tail(queue)
  /\ UNCHANGED <<latest, lastCallback, pending, receiver, seen>>

\* Mutant: the callback gets the price that was queued.
TakeQueued ==
  /\ drainer.at = "popped"
  /\ LET k == drainer.tick.market IN
     /\ drainer' = [at |-> "call", tick |-> drainer.tick]
     /\ pending' = pending \ {k}
  /\ UNCHANGED <<latest, lastCallback, queue, receiver, seen>>

(* The newest price and the end of the pending mark, under one lock.       *)
TakeNewest ==
  /\ drainer.at = "popped"
  /\ LET k == drainer.tick.market IN
     /\ drainer' = [at |-> "call", tick |-> [market |-> k, price |-> latest[k]]]
     /\ pending' = pending \ {k}
  /\ UNCHANGED <<latest, lastCallback, queue, receiver, seen>>

(* on_price_tick runs to its end; what it raises is logged.                *)
CallBack ==
  /\ drainer.at = "call"
  /\ seen' = [seen EXCEPT ![drainer.tick.market] = drainer.tick.price]
  /\ drainer' = Idle
  /\ UNCHANGED <<latest, lastCallback, pending, queue, receiver>>

PriceInit ==
  /\ latest = [k \in Market |-> NoPrice]
  /\ lastCallback = latest
  /\ pending = {} /\ queue = <<>>
  /\ receiver = Idle /\ drainer = Idle
  /\ seen = latest

Handle == MarkPending \/ PutCallback
Receive == \E t \in Ticks : ReceiveTick(t)
Drain   == PopCallback \/ TakeNewest \/ CallBack

-----------------------------------------------------------------------------
PriceTypeOK ==
  /\ latest \in [Market -> MaybePrice]
  /\ lastCallback \in [Market -> MaybePrice]
  /\ pending \subseteq Market
  /\ queue \in Seq(Ticks)
  /\ receiver \in {Idle} \cup At({"mark", "put"})
  /\ drainer \in {Idle} \cup At({"popped", "call"})
  /\ seen \in [Market -> MaybePrice]

\* A market is marked pending exactly while one callback of its is on its way:
\* about to be put, in the queue or just popped. Two would fill the queue with
\* stale work, a mark with none would silence the market for good
\* (_enqueue_callback and drain_callbacks take and release the mark in
\* different critical sections from the queue operations).
Places(k) == {i \in 1..Len(queue) : queue[i].market = k}
        \cup {i \in {Len(queue) + 1} : receiver.at = "put" /\ receiver.tick.market = k}
        \cup {i \in {0} : drainer.at = "popped" /\ drainer.tick.market = k}
OnTheWayOnce == \A k \in Market : Cardinality(Places(k)) = IF k \in pending THEN 1 ELSE 0

\* A price that stays the newest reaches the exit engine, although callbacks
\* are merged and the price they were queued with is not used (drain_callbacks).
NewestIsSeen == \A k \in Market : \A p \in Price :
                  latest[k] = p ~> (seen[k] = p \/ latest[k] # p)
=============================================================================
