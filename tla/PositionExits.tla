--------------------------- MODULE PositionExits ---------------------------
(***************************************************************************)
(* One market's position from its BUY to its last sale. Two threads decide *)
(* to sell it: the tick thread at each price (realtime_engine.py) and the  *)
(* cycle, every few minutes (trading_runtime.py). They share the tracker,  *)
(* the exit lock and the journal; each has read the balance at a time of   *)
(* its own. The order itself is one record here, OrderJournal says how it  *)
(* is kept; all of it is sold by market orders of whole lots.              *)
(***************************************************************************)
EXTENDS TrailingTracker

CONSTANTS Lots,        \* what a BUY buys
          Hits,        \* ticks below a stop before it is believed
          MaxCrashes

ASSUME LotsAssumption == Lots \in Nat \ {0} /\ Hits \in Nat \ {0} /\ MaxCrashes \in Nat

VARIABLES
  low,         \* the market is at the hard stop or below
  held,        \* the account's lots at the exchange
  buy,         \* the bot's BUY: "none", "open", "executed" and not booked
  sell,        \* the exit order that is not final in the journal
  left,        \* lots the journal says the bot still has of its last BUY
  trk, file,   \* the tracker's record, in memory and on disk
  dyn,         \* the AI's stop; Hard - 1 is none
  tick, cyc,   \* where the two threads are
  lock,        \* who has the exit lock
  hits,        \* _sl_hit_count
  watch,       \* _active_held_currencies: "unset", or it does or does not have the coin
  cool,        \* the market is in the cooldown of a sale
  crashes,
  sales        \* orders of each stage that sold something of this position

vars == <<low, held, buy, sell, left, trk, file, dyn, tick, cyc, lock,
          hits, watch, cool, crashes, sales>>

NoSell   == [stage |-> 0, vol |-> 0, exec |-> 0, booked |-> 0, open |-> FALSE]
NoStop   == Hard - 1
NoSales  == [s \in 1..2 |-> 0]
TickIdle == [pc |-> "idle", price |-> 0, vol |-> 0, stage |-> 0]
CycIdle  == [pc |-> "idle", price |-> 0, vol |-> 0, stage |-> 0, next |-> "idle"]

Managed    == left > 0                \* has_active_bot_position
ActiveExit == sell.stage # 0          \* has_active_exit_order

Write(t) == trk' = t /\ file' = t     \* _save_state: every change here is saved

PartVolume(mode, stage, vol) ==
  IF mode = "SWING" THEN Min({vol, (Lots * (5 - stage)) \div 10}) ELSE vol \div 2

-----------------------------------------------------------------------------
(* The market, the user, time. *)

Prices == IF low THEN {Hard} ELSE Level \ {Hard}

PriceMoves == /\ low' = ~low
              /\ UNCHANGED <<held, buy, sell, left, trk, file, dyn, tick, cyc,
                             lock, hits, watch, cool, crashes, sales>>

TimePasses == /\ trk.age \in 0..(MaxAge - 1)
              /\ trk' = Older(trk) /\ file' = Older(file)
              /\ UNCHANGED <<low, held, buy, sell, left, dyn, tick, cyc,
                             lock, hits, watch, cool, crashes, sales>>

(* The user sells the coins by hand. Assumed: not while the bot sells some, *)
(* and not between a cycle's snapshot and the turn of the market, when the *)
(* cycle could buy again with the tracker of the position sold.            *)
ManualSell == /\ held > 0 /\ ~ActiveExit /\ buy # "open"
              /\ cyc.pc = "idle" \/ (cyc.pc # "snapshot" /\ cyc.vol > 0)
              /\ held' = 0 /\ sales' = NoSales
              /\ UNCHANGED <<low, buy, sell, left, trk, file, dyn, tick, cyc,
                             lock, hits, watch, cool, crashes>>

(* A tick of another held market reads all balances. *)
OtherTick == /\ watch' = (IF held > 0 THEN "with" ELSE "without")
             /\ UNCHANGED <<low, held, buy, sell, left, trk, file, dyn, tick,
                            cyc, lock, hits, cool, crashes, sales>>

-----------------------------------------------------------------------------
(* The exchange executes. *)

BuyExecutes == /\ buy = "open" /\ buy' = "executed"
               /\ held' = Lots /\ left' = Lots
               /\ UNCHANGED <<low, sell, trk, file, dyn, tick, cyc, lock,
                              hits, watch, cool, crashes, sales>>

SellExecutes ==
  /\ sell.open
  /\ \E n \in 1..(sell.vol - sell.exec) :
       /\ sell' = [sell EXCEPT !.exec = @ + n, !.open = sell.exec + n < sell.vol]
       /\ held' = held - n
  /\ sales' = IF held' = 0 THEN NoSales
              ELSE IF sell.stage < 3 /\ sell.exec = 0
              THEN [sales EXCEPT ![sell.stage] = Min({@ + 1, 2})] ELSE sales
  /\ UNCHANGED <<low, buy, left, trk, file, dyn, tick, cyc, lock, hits,
                 watch, cool, crashes>>

(* The exchange ends an order it cannot execute in full. *)
SellEnds == /\ sell.open /\ sell' = [sell EXCEPT !.open = FALSE]
            /\ UNCHANGED <<low, held, buy, left, trk, file, dyn, tick, cyc, lock,
                           hits, watch, cool, crashes, sales>>

-----------------------------------------------------------------------------
(* process_order_fill, by whichever thread has looked the order up: first  *)
(* the tracker, then the journal. A crash may come between.                *)

Delta == sell.exec - sell.booked

AfterSale == CASE sell.stage < 3 /\ Delta > 0 -> Marked(trk, sell.stage)
               [] sell.stage = 3 /\ sell.exec = sell.vol -> NoPosition
               [] OTHER -> trk

LeftAfter == IF Delta = 0 THEN left
             ELSE IF sell.stage = 3 THEN 0 ELSE Max({0, left - Delta})

Booked == IF sell.open THEN [sell EXCEPT !.booked = sell.exec] ELSE NoSell

(* Assumed: nothing bought after a cycle's snapshot has been sold in part  *)
(* before that cycle reconciles the tracker with it.                       *)
SnapshotUsed == ~(cyc.pc = "snapshot" /\ cyc.vol = 0)

Bookable == /\ ActiveExit /\ SnapshotUsed
            /\ Delta > 0 \/ ~sell.open

BookSell ==
  /\ Bookable
  /\ Write(AfterSale) /\ cool' = (cool \/ Delta > 0)
  /\ dyn' = IF sell.stage = 3 /\ sell.exec = sell.vol THEN NoStop ELSE dyn
  /\ left' = LeftAfter
  /\ sell' = Booked
  /\ UNCHANGED <<low, held, buy, tick, cyc, lock, hits, watch,
                 crashes, sales>>

BookBuy ==
  /\ buy = "executed" /\ buy' = "none"
  /\ \E mode \in Mode : Write(Entered(trk, mode))
  /\ UNCHANGED <<low, held, sell, left, dyn, tick, cyc, lock, hits,
                 watch, cool, crashes, sales>>

-----------------------------------------------------------------------------
(* Both threads sell in the same way: under the exit lock they cancel the  *)
(* market's BUY orders and submit. The executor refuses a second exit, the *)
(* exchange refuses what the account does not have.                        *)

Submit(stage, vol) ==
  sell' = IF ActiveExit \/ vol > held THEN sell
          ELSE [stage |-> stage, vol |-> vol, exec |-> 0, booked |-> 0, open |-> TRUE]

-----------------------------------------------------------------------------
(* on_price_tick. After a sale was tried, ticks of the next five seconds   *)
(* are ignored: a tick may always be.                                      *)

Tick(pc, rest) == /\ tick.pc = pc /\ tick' = rest
                  /\ UNCHANGED <<low, held, buy, left, cyc, cool, crashes, sales>>

TickSees ==
  /\ \E p \in Prices : Tick("idle", [TickIdle EXCEPT !.pc = "seen", !.price = p])
  /\ watch # "without" /\ ~ActiveExit /\ lock = "free" /\ Managed
  /\ UNCHANGED <<sell, trk, file, dyn, lock, hits, watch>>

(* All balances are read, unless the last reading is younger than five     *)
(* seconds; how old the volume gets before it is sold is the same.         *)
ReadsBalance == \/ watch' = IF held > 0 THEN "with" ELSE "without"
                \/ watch # "unset" /\ watch' = watch

TickNothing == /\ held = 0 /\ Tick("seen", TickIdle) /\ ReadsBalance
               /\ UNCHANGED <<sell, trk, file, dyn, lock, hits>>

StopReached(raw) ==
  \/ tick.price <= Hard
  \/ tick.price <= IF BreakevenActive(trk) THEN BreakevenLine ELSE raw

(* A stop must be seen several times, or for three seconds, unless the     *)
(* price is at the hard stop.                                              *)
Believed == tick.price <= Hard \/ hits + 1 >= Hits

TakesLock(stage, vol) ==
  IF lock = "free"
  THEN /\ lock' = "tick"
       /\ Tick("seen", [pc |-> "sell", price |-> 0, vol |-> vol, stage |-> stage])
  ELSE lock' = lock /\ Tick("seen", TickIdle)

TickStop ==
  \E raw \in {Stop, Hard} :
    /\ held > 0 /\ StopReached(raw) /\ ReadsBalance
    /\ Write(Held(trk))
    /\ \/ Believed /\ TakesLock(3, held) /\ hits' = 0
       \/ ~Believed /\ Tick("seen", TickIdle) /\ hits' = hits + 1
          /\ UNCHANGED lock
    /\ UNCHANGED <<sell, dyn>>

TickSignal ==
  \E raw \in {Stop, Hard}, defensive \in BOOLEAN :
    LET t     == Raised(Held(trk), tick.price)
        stage == Signal(t, tick.price, defensive)
        vol   == IF stage = 3 THEN held ELSE PartVolume(trk.mode, stage, held)
    IN  /\ held > 0 /\ ~StopReached(raw) /\ ReadsBalance
        /\ hits' = 0
        /\ Write(t)
        /\ \/ stage # 0 /\ vol > 0 /\ TakesLock(stage, vol)
           \/ (stage = 0 \/ vol = 0) /\ Tick("seen", TickIdle) /\ UNCHANGED lock
        /\ UNCHANGED <<sell, dyn>>

TickSubmits == /\ Tick("sell", [TickIdle EXCEPT !.pc = "confirm"])
               /\ Submit(tick.stage, tick.vol)
               /\ watch' = "unset"
               /\ UNCHANGED <<trk, file, dyn, lock, hits>>

\* Mutant: the lock is kept when the order was refused.
TickReleasesSold == /\ Tick("confirm", TickIdle)
                    /\ lock' = IF ActiveExit THEN "free" ELSE lock
                    /\ UNCHANGED <<sell, trk, file, dyn, hits, watch>>

(* The order is looked up, BookSell books what it has, and the lock goes. *)
TickReleases == /\ Tick("confirm", TickIdle) /\ lock' = "free"
                /\ UNCHANGED <<sell, trk, file, dyn, hits, watch>>

-----------------------------------------------------------------------------
(* The cycle: refresh_portfolio, process_priority_exits, the AI's answer,  *)
(* process_entry_gating, process_cycle_stop_loss, process_buy_execution.   *)

Cycle(pc, rest) ==
  /\ cyc.pc = pc /\ cyc' = rest
  /\ UNCHANGED <<low, held, left, tick, hits, watch, cool, crashes, sales>>

(* reconcile_orders looks up every order that is not final, and books it,  *)
(* before the cycle asks for the balances; assumed: with success. Also     *)
(* assumed: a cooldown lasts at least until the next cycle begins.         *)
Refresh ==
  /\ cyc.pc = "idle" /\ ~Bookable /\ buy # "executed"
  /\ cyc' = [CycIdle EXCEPT !.pc = "snapshot", !.vol = held]
  /\ cool' = FALSE
  /\ UNCHANGED <<low, held, buy, sell, left, trk, file, dyn, tick, lock, hits,
                 watch, crashes, sales>>

ReconcileMarkets ==
  LET t == Reconciled(file, cyc.vol > 0, Managed)
  IN  /\ Cycle("snapshot", [CycIdle EXCEPT !.pc = "market"])
      /\ Write(t)
      /\ dyn' = IF cyc.vol > 0 THEN dyn ELSE NoStop
      /\ UNCHANGED <<buy, sell, lock>>

\* Mutant: the cycle does not ask for the lock.
CycleSellsAnyway(pc, c, stage, vol, next, else) ==
  /\ lock' = "cycle"
  /\ Cycle(pc, [c EXCEPT !.pc = "sell", !.stage = stage, !.vol = vol, !.next = next])

(* The sale goes on under the lock; without it the turn goes on at "else". *)
CycleSells(pc, c, stage, vol, next, else) ==
  IF lock = "free"
  THEN /\ lock' = "cycle"
       /\ Cycle(pc, [c EXCEPT !.pc = "sell", !.stage = stage, !.vol = vol, !.next = next,
                              !.price = IF next = "idle" THEN 0 ELSE @])
  ELSE /\ lock' = lock
       /\ Cycle(pc, IF else = "idle" THEN CycIdle ELSE [c EXCEPT !.pc = else])

NothingToSell == held = 0 \/ ActiveExit

ToGating(pc, c) == Cycle(pc, [c EXCEPT !.pc = "gating"]) /\ UNCHANGED lock

(* What the turn of the market goes on with. *)
Turn(p) == [CycIdle EXCEPT !.vol = held, !.price = p]

NoExit == /\ NothingToSell
          /\ \E p \in IF held = 0 THEN {0} ELSE Prices : ToGating("market", Turn(p))
          /\ UNCHANGED <<buy, sell, trk, file, dyn>>

NotOurs == /\ ~NothingToSell /\ ~Managed
           /\ Cycle("market", CycIdle)
           /\ UNCHANGED <<buy, sell, trk, file, dyn, lock>>

PriorityExits ==
  \E defensive \in BOOLEAN, price \in Prices :
    LET t     == Raised(trk, price)
        stage == Signal(t, price, defensive)
        part  == PartVolume(trk.mode, stage, held)
    IN  /\ ~NothingToSell /\ Managed
        /\ \/ /\ stage \in 1..2 /\ Write(t)
              /\ IF part = 0 THEN ToGating("market", Turn(price))
                             ELSE CycleSells("market", Turn(price), stage, part, "gating", "gating")
           \/ /\ stage = 3 /\ Write(t)
              /\ CycleSells("market", Turn(price), 3, held, "idle", "idle")
           \/ /\ stage = 0 /\ Write(Timed(t))
              /\ Cycle("market", [Turn(price) EXCEPT !.pc = "ai"]) /\ UNCHANGED lock
        /\ UNCHANGED <<buy, sell, dyn>>

(* validate_emergency_exit_safety: never for a position of the user or a   *)
(* swing, and only at a loss; the other guards look at what is not here.   *)
EmergencyAllowed == Managed /\ trk.mode # "SWING" /\ cyc.price <= Stop

AiEmergency ==
  /\ EmergencyAllowed /\ lock = "free"
  /\ CycleSells("ai", cyc, 3, cyc.vol, "idle", "idle")
  /\ UNCHANGED <<buy, sell, trk, file, dyn>>

(* The stop the AI answers, or none. TIGHTEN_STOP keeps a distance to      *)
(* price and breakeven, RUNNER_HOLD takes any stop below the price. A stop *)
(* is only ever raised.                                                    *)
TightStops  == IF cyc.price >= AutoBreakeven THEN BreakevenLine..(cyc.price - Gap) ELSE {}
RunnerStops == Hard..(cyc.price - 1)
AiStops     == {NoStop} \cup TightStops \cup RunnerStops

(* The clock's rules. What candles say is not known here: the trend may be *)
(* broken, the price supported, the AI may want to hold.                   *)
ClockSells(broken, support, wanted) ==
  CASE trk.mode = "SWING"       -> broken
    [] trk.mode = "NEW_LISTING" -> trk.age >= 2 \/ (trk.age = 1 /\ cyc.price = 0)
    [] OTHER ->
         IF cyc.price > 0 THEN trk.age >= 2 /\ ~support
         ELSE /\ broken \/ ~(wanted \/ support)
              /\ \/ trk.age >= 2
                 \/ broken /\ (trk.age >= 1 \/ cyc.price = 0)

LockedIn == trk.mode \notin {"SWING", "NEW_LISTING"} /\ trk.age >= 1 /\ cyc.price > 0

Rules ==
  \E broken, support, wanted \in BOOLEAN, answer \in AiStops :
    LET stop    == Max({dyn, answer})
        stopped == stop # NoStop /\ cyc.price <= stop
        sells   == stopped \/ ClockSells(broken, support, wanted)
    IN  /\ dyn' = stop
        /\ IF LockedIn /\ ~stopped THEN Write(Protected(trk)) ELSE UNCHANGED <<trk, file>>
        /\ IF sells THEN CycleSells("ai", cyc, 3, cyc.vol, "idle", IF stopped THEN "gating" ELSE "idle")
                    ELSE ToGating("ai", cyc)
        /\ UNCHANGED <<buy, sell>>

(* What blocks an entry ends the market's turn, and with it the stop loss. *)
GatesClosed == /\ Cycle("gating", CycIdle)
               /\ UNCHANGED <<buy, sell, trk, file, dyn, lock>>

CycleStop == IF BreakevenActive(trk) THEN BreakevenLine ELSE Stop

CycleStopLoss ==
  /\ cyc.vol > 0
  /\ IF cyc.price <= CycleStop /\ ~ActiveExit
     THEN CycleSells("gating", cyc, 3, cyc.vol, "idle", "idle")
     ELSE Cycle("gating", CycIdle) /\ UNCHANGED lock
  /\ UNCHANGED <<buy, sell, trk, file, dyn>>

\* Mutant: a market that was just sold may be bought again.
SubmitBuyHot ==
  /\ Cycle("gating", CycIdle)
  /\ cyc.vol = 0 /\ held = 0 /\ buy = "none" /\ ~ActiveExit /\ tick.pc = "idle"
  /\ buy' = "open"
  /\ UNCHANGED <<sell, trk, file, dyn, lock>>

(* Assumed: a tick that saw the last position is over when a BUY leaves. *)
SubmitBuy ==
  /\ Cycle("gating", CycIdle)
  /\ cyc.vol = 0 /\ held = 0 /\ buy = "none" /\ ~ActiveExit /\ ~cool /\ tick.pc = "idle"
  /\ buy' = "open"
  /\ UNCHANGED <<sell, trk, file, dyn, lock>>

(* After a partial sale the turn goes on, unless the order was refused. *)
CycleSubmits == /\ Cycle("sell", IF cyc.next = "idle" \/ ActiveExit \/ cyc.vol > held THEN CycIdle
                                 ELSE [cyc EXCEPT !.pc = cyc.next, !.stage = 0, !.next = "idle"])
                /\ Submit(cyc.stage, cyc.vol)
                /\ lock' = "free"
                /\ UNCHANGED <<buy, trk, file, dyn>>

-----------------------------------------------------------------------------
(* A crash loses what is not on disk, and the locks; cooldowns are on disk. *)

Crash(saved, order) ==
  /\ crashes < MaxCrashes /\ crashes' = crashes + 1
  /\ trk' = saved /\ file' = saved /\ dyn' = NoStop
  /\ tick' = TickIdle /\ cyc' = CycIdle /\ lock' = "free"
  /\ hits' = 0 /\ watch' = "unset"
  /\ sell' = order
  /\ UNCHANGED <<low, held, buy, left, cool, sales>>

\* Mutant: the file is not read.
RestartForgets == Crash(NoPosition, sell)

Restart == Crash(file, sell)

\* Mutant: the journal is written first.
DieAfterJournal == Bookable /\ Crash(file, Booked)

DieInFill == \/ Bookable /\ AfterSale # trk /\ Crash(AfterSale, sell)
             \/ buy = "executed" /\ \E mode \in Mode : Crash(Entered(trk, mode), sell)

Init ==
  /\ low = FALSE /\ held = 0 /\ buy = "none" /\ sell = NoSell /\ left = 0
  /\ trk = NoPosition /\ file = NoPosition /\ dyn = NoStop
  /\ tick = TickIdle /\ cyc = CycIdle /\ lock = "free" /\ hits = 0
  /\ watch = "unset" /\ cool = FALSE /\ crashes = 0 /\ sales = NoSales

TickNext  == TickSees \/ TickNothing \/ TickStop \/ TickSignal \/ TickSubmits \/ TickReleases

CycleNext == \/ Refresh \/ ReconcileMarkets \/ NoExit \/ NotOurs \/ PriorityExits
             \/ AiEmergency \/ Rules
             \/ GatesClosed \/ CycleStopLoss \/ SubmitBuy \/ CycleSubmits

FillNext  == BuyExecutes \/ SellExecutes \/ SellEnds \/ BookSell \/ BookBuy

Next == \/ PriceMoves \/ TimePasses \/ ManualSell \/ OtherTick
        \/ FillNext \/ TickNext \/ CycleNext \/ Restart \/ DieInFill

Spec == Init /\ [][Next]_vars

(* Prices keep coming and the tick thread takes them, the cycle is         *)
(* scheduled again and again, market orders are executed if submitted      *)
(* again and again, and looked up.                                         *)
FairSpec == /\ Spec
            /\ WF_vars(TickSees) /\ WF_vars(TickNothing \/ TickStop \/ TickSignal)
            /\ WF_vars(TickSubmits) /\ WF_vars(TickReleases)
            /\ WF_vars(CycleNext) /\ WF_vars(BookSell \/ BookBuy)
            /\ SF_vars(SellExecutes) /\ WF_vars(SellEnds)

-----------------------------------------------------------------------------
\* Every variable keeps its type; what the tracker has in memory is on disk.
TypeOK ==
  /\ low \in BOOLEAN /\ held \in 0..Lots /\ left \in 0..Lots
  /\ buy \in {"none", "open", "executed"}
  /\ sell \in [stage : 0..3, vol : 0..Lots, exec : 0..Lots, booked : 0..Lots, open : BOOLEAN]
  /\ trk \in Tracker /\ file = trk /\ dyn \in NoStop..Top
  /\ lock \in {"free", "tick", "cycle"} /\ hits \in 0..Hits
  /\ watch \in {"unset", "with", "without"} /\ cool \in BOOLEAN /\ crashes \in 0..MaxCrashes
  /\ tick \in [pc : {"idle", "seen", "sell", "confirm"}, price : Level,
               vol : 0..Lots, stage : 0..3]
  /\ cyc \in [pc : {"idle", "snapshot", "market", "ai", "gating", "sell"},
              price : Level, vol : 0..Lots, stage : 0..3,
              next : {"idle", "gating"}]
  /\ sales \in [1..2 -> 0..2]

\* "중복 청산 차단" (realtime_engine.py:362): a stage is sold at most once.
StageSoldOnce == \A s \in 1..2 : sales[s] <= 1

\* What was sold of a position and is booked is marked in its tracker, so that
\* no later price sells it again: not lost in a crash between tracker and
\* journal, nor in a reconciliation (mark_partial_take_profit_filled,
\* process_order_fill, reconcile_markets).
SoldIsMarked == held > 0 /\ ~ActiveExit =>
                  \A s \in 1..2 : sales[s] > 0 => trk.stage >= s

\* A lock is held by the thread that will release it, and by no other
\* (acquire_exit_lock, release_exit_lock): both threads never sell at once.
OneSeller == /\ tick.pc \in {"sell", "confirm"} <=> lock = "tick"
             /\ cyc.pc = "sell" <=> lock = "cycle"

Opens == held = 0 /\ held' > 0

\* A position begins with no stage and no AI stop of the one before it, even
\* if that one was sold by hand, or while the AI was asked (reconcile_markets,
\* clear).
FreshStart == [][Opens => trk.stage = 0 /\ dyn = NoStop]_vars

\* While a position lasts its protection is never taken back, also by a restart:
\* not the stages that are sold, not the breakeven stop (TrailingStopTracker).
ProtectionKept ==
  [][held > 0 /\ held' > 0 /\ left' > 0 =>
       trk'.stage >= trk.stage /\ (BreakevenActive(trk) => BreakevenActive(trk'))]_vars

Falling == held > 0 /\ Managed /\ buy = "none" /\ low

\* A position the tick thread watches does not stay below its hard stop
\* (on_price_tick).
StopWorks == (Falling /\ watch # "without") ~> (~Falling \/ watch = "without")

\* "체결가 수신 시 즉시 … 손절 감시 및 자동 청산" (realtime_engine.py:345): a position
\* never stays below its hard stop, whoever watches it.
StopAlwaysWorks == Falling ~> ~Falling

\* Drop stale trailing state (risk_manager.py:835): no position begins with the
\* breakeven stop of the one before it.
FreshBreakeven == [][Opens => ~trk.be]_vars

\* Less sold than bought leaves a position of the bot (journal.py:380).
RemainderManaged == held > 0 /\ ~ActiveExit => Managed
=============================================================================
