------------------------ MODULE PositionExitsProofs ------------------------
(***************************************************************************)
(* Two threads sell one position: the lock between them is always released *)
(* by the one who took it, what is sold is marked, a position begins with  *)
(* nothing of the one before it and is never less protected while it       *)
(* lasts. For all levels, lots, modes and crashes, in four layers: what an *)
(* operator returns, what an action does (the ...Goes lemmas), what a step *)
(* preserves (the ...Step lemmas), and the theorems.                       *)
(***************************************************************************)
EXTENDS PositionExits, TLAPS

(* The exit order: it never sells more than the account has, and a whole   *)
(* sale is of everything there is.                                         *)
OrderOK ==
  /\ ~ActiveExit => sell = NoSell
  /\ ActiveExit => sell.booked < sell.vol
  /\ sell.booked <= sell.exec /\ sell.exec <= sell.vol
  /\ sell.open => sell.exec < sell.vol /\ sell.vol - sell.exec <= held
  /\ sell.stage = 3 => held = sell.vol - sell.exec

(* What the threads have read: only sales make the account less, so what a *)
(* thread wants to sell of the whole position is enough or too much. After *)
(* a partial sale the turn goes on with a price above the stop.            *)
ThreadsOK ==
  /\ tick.pc = "sell" => tick.stage # 0 /\ tick.vol > 0 /\ (tick.stage = 3 => tick.vol >= held)
  /\ cyc.pc \in {"ai", "sell"} => cyc.vol > 0
  /\ cyc.pc = "ai" => cyc.vol >= held
  /\ cyc.pc = "sell" => cyc.stage # 0 /\ (cyc.stage = 3 => cyc.vol >= held)
  /\ cyc.pc = "sell" /\ cyc.next = "gating" => cyc.price > BreakevenLine
  /\ cyc.pc = "gating" /\ cyc.vol > 0 => cyc.vol >= held \/ cyc.price > BreakevenLine
  /\ cyc.pc \in {"idle", "market"} => cyc.vol = 0

(* A BUY at the exchange: there is no position, no sale, and no trace of a *)
(* position in the tracker.                                                *)
BuyOK ==
  buy = "open" => /\ held = 0 /\ ~ActiveExit /\ cyc.vol = 0 /\ tick.pc \in {"idle", "seen"}
                  /\ trk.stage = 0 /\ dyn = NoStop

(* Why a BUY finds a clean tracker: a position that is gone by a sale      *)
(* leaves a cooldown, and one that was gone before the cycle began is      *)
(* dropped by its reconciliation.                                          *)
FreshOK ==
  /\ held = 0 => sales = NoSales
  /\ ActiveExit /\ held = 0 => Delta > 0 \/ cool
  /\ cyc.pc = "snapshot" /\ cyc.vol > 0 /\ held = 0 => ActiveExit \/ cool
  /\ cyc.pc \in {"market", "gating"} /\ cyc.vol = 0 /\ held = 0 /\ ~ActiveExit /\ ~cool
       => trk.stage = 0 /\ dyn = NoStop

(* What was sold is marked or still to be booked; a reconciliation with a  *)
(* snapshot from before the BUY finds nothing to drop.                     *)
MarkedOK ==
  /\ trk.peak >= AutoBreakeven => trk.be
  /\ held > 0 => \A s \in 1..2 : sales[s] > 0 => trk.stage >= s \/ (sell.stage = s /\ Delta > 0)
  /\ cyc.pc = "snapshot" /\ cyc.vol = 0 /\ held > 0 =>
       /\ trk.stage = 0
       /\ \A s \in 1..2 : sales[s] > 0 => sell.stage = s /\ Delta > 0

IInv == TypeOK /\ OneSeller /\ OrderOK /\ ThreadsOK /\ BuyOK /\ FreshOK /\ MarkedOK

-----------------------------------------------------------------------------
\* Max and Min of two numbers, by cases.
LEMMA MaxOfTwo ==
  ASSUME NEW a \in Int, NEW b \in Int
  PROVE  Max({a, b}) = IF a >= b THEN a ELSE b
BY DEF Max

LEMMA MinOfTwo ==
  ASSUME NEW a \in Int, NEW b \in Int
  PROVE  Min({a, b}) = IF a <= b THEN a ELSE b
BY DEF Min

\* A price that is seen is a level.
LEMMA PricesAreLevels == Prices \subseteq Level /\ 0 \in Level /\ Level \subseteq Int
BY LevelsAssumption DEF Prices, Level

\* A partial sale is of no more than there is (calculate_partial_take_profit_volume).
LEMMA PartVolumeType ==
  ASSUME NEW mode, NEW stage \in 1..2, NEW vol \in 0..Lots
  PROVE  PartVolume(mode, stage, vol) \in 0..Lots /\ PartVolume(mode, stage, vol) <= vol
<1>1. CASE mode = "SWING"
  <2> DEFINE part == (Lots * (5 - stage)) \div 10
  <2>1. part \in Nat
    <3>1. Lots * (5 - stage) \in Nat
      <4>1. CASE stage = 1 BY <4>1, LotsAssumption
      <4>2. CASE stage = 2 BY <4>2, LotsAssumption
      <4> QED BY <4>1, <4>2
    <3> HIDE LotsAssumption
    <3> QED BY <3>1
  <2>2. PartVolume(mode, stage, vol) = Min({vol, part}) BY <1>1 DEF PartVolume
  <2> HIDE DEF part
  <2> QED BY <2>1, <2>2, MinOfTwo, LotsAssumption
<1>2. CASE mode # "SWING" BY <1>2, LotsAssumption DEF PartVolume
<1> QED BY <1>1, <1>2

-----------------------------------------------------------------------------
(* The tracker *)

BeKept(t) == t.peak >= AutoBreakeven => t.be

\* A price raises the peak and may switch breakeven on, nothing else.
LEMMA RaisedType ==
  ASSUME NEW t \in Tracker, NEW p \in Level, BeKept(t)
  PROVE  /\ Raised(t, p) \in Tracker /\ BeKept(Raised(t, p))
         /\ Raised(t, p).stage = t.stage /\ Raised(t, p).mode = t.mode
         /\ t.be => Raised(t, p).be
<1> DEFINE peak == Max({t.peak, p})
<1>1. peak \in 0..Top
  BY MaxOfTwo, LevelsAssumption DEF Tracker, Level
<1>2. Raised(t, p) = [t EXCEPT !.peak = peak, !.be = @ \/ peak >= AutoBreakeven]
  BY DEF Raised
<1> HIDE DEF peak
<1> QED BY <1>1, <1>2 DEF Tracker, BeKept

\* So does the check of the tick thread.
LEMMA HeldType ==
  ASSUME NEW t \in Tracker, BeKept(t)
  PROVE  /\ Held(t) \in Tracker /\ BeKept(Held(t))
         /\ Held(t).stage = t.stage /\ Held(t).mode = t.mode /\ (t.be => Held(t).be)
BY DEF Tracker, Held, BeKept

\* A partial sale is above the breakeven stop.
LEMMA SignalType ==
  ASSUME NEW t, NEW p \in Level, NEW defensive
  PROVE  /\ Signal(t, p, defensive) \in 0..3
         /\ Signal(t, p, defensive) \in 1..2 => p > BreakevenLine
BY LevelsAssumption DEF Signal, Level

\* A mark is never taken back by a later one.
LEMMA MarkedType ==
  ASSUME NEW t \in Tracker, BeKept(t), NEW stage \in 1..2
  PROVE  /\ Marked(t, stage) \in Tracker /\ BeKept(Marked(t, stage))
         /\ Marked(t, stage).stage >= stage /\ Marked(t, stage).stage >= t.stage
         /\ Marked(t, stage).be = t.be
         /\ Marked(t, stage).peak = t.peak
<1> DEFINE top == Max({t.stage, stage})
<1>1. top = IF t.stage >= stage THEN t.stage ELSE stage
  BY MaxOfTwo DEF Tracker
<1>2. Marked(t, stage) = [t EXCEPT !.stage = top] BY DEF Marked
<1> HIDE DEF top
<1> QED BY <1>1, <1>2 DEF Tracker, BeKept

\* Entry, time and protection keep stages and peak.
LEMMA AgedType ==
  ASSUME NEW t \in Tracker, BeKept(t), NEW mode \in Mode
  PROVE  \A u \in {Entered(t, mode), Timed(t), Older(t), Protected(t)} :
           u \in Tracker /\ BeKept(u) /\ u.stage = t.stage /\ u.peak = t.peak /\ (t.be => u.be)
<1> DEFINE Good(u) == /\ u \in Tracker /\ BeKept(u)
                      /\ u.stage = t.stage /\ u.peak = t.peak /\ (t.be => u.be)
<1>1. Good(Entered(t, mode))
  <2> DEFINE u == [t EXCEPT !.age = 0]
  <2>2. u \in Tracker /\ u.stage = t.stage /\ u.peak = t.peak /\ u.be = t.be
    BY LevelsAssumption DEF Tracker
  <2>3. Entered(t, mode) = [u EXCEPT !.mode = mode] BY DEF Entered
  <2> HIDE DEF u
  <2> QED BY <2>2, <2>3 DEF Tracker, BeKept
<1>2. Good(Timed(t)) BY LevelsAssumption DEF Tracker, BeKept, Timed
<1>3. Good(Older(t)) BY LevelsAssumption DEF Tracker, BeKept, Older
<1>4. Good(Protected(t)) BY LevelsAssumption DEF Tracker, BeKept, Protected
<1> QED BY <1>1, <1>2, <1>3, <1>4

\* Reconciliation keeps the breakeven flag, and all of a held position.
LEMMA ReconciledType ==
  ASSUME NEW t \in Tracker, BeKept(t), NEW h \in BOOLEAN, NEW m \in BOOLEAN
  PROVE  /\ Reconciled(t, h, m) \in Tracker /\ BeKept(Reconciled(t, h, m))
         /\ Reconciled(t, h, m).be = t.be
         /\ h => Reconciled(t, h, m).stage = t.stage /\ Reconciled(t, h, m).peak = t.peak
         /\ ~h => Reconciled(t, h, m).stage = 0
<1>1. CASE ~h
  <2> DEFINE u == [t EXCEPT !.peak = 0]
             v == [u EXCEPT !.stage = 0]
  <2>1. u \in Tracker /\ u.peak = 0 /\ u.be = t.be
    BY LevelsAssumption DEF Tracker
  <2>2. v \in Tracker /\ v.stage = 0 /\ v.peak = 0 /\ v.be = t.be
    <3> HIDE DEF u
    <3> QED BY <2>1 DEF Tracker
  <2>3. Reconciled(t, h, m) = [v EXCEPT !.age = -1] BY <1>1 DEF Reconciled
  <2> HIDE DEF u, v
  <2> QED BY <1>1, <2>2, <2>3, LevelsAssumption DEF Tracker, BeKept
<1>2. CASE h /\ m /\ (t.age < 0 \/ t.mode = NoMode)
  <2> DEFINE u == [t EXCEPT !.age = 0]
             v == IF t.mode = NoMode THEN AdoptedMode ELSE t.mode
  <2>2. u \in Tracker /\ u.stage = t.stage /\ u.peak = t.peak /\ u.be = t.be
    BY LevelsAssumption DEF Tracker
  <2>3. Reconciled(t, h, m) = [u EXCEPT !.mode = v] BY <1>2 DEF Reconciled, Tracker
  <2>4. v \in Mode BY LevelsAssumption DEF Tracker
  <2> HIDE DEF u, v
  <2> QED BY <1>2, <2>2, <2>3, <2>4, LevelsAssumption DEF Tracker, BeKept
<1>3. CASE h /\ ~(m /\ (t.age < 0 \/ t.mode = NoMode))
  BY <1>3 DEF Reconciled
<1> QED BY <1>1, <1>2, <1>3

\* The cleared tracker.
LEMMA NoPositionType == NoPosition \in Tracker /\ BeKept(NoPosition) /\ NoPosition.stage = 0
BY LevelsAssumption DEF Tracker, BeKept, NoPosition

-----------------------------------------------------------------------------
(* Booking *)

Orders == [stage : 0..3, vol : 0..Lots, exec : 0..Lots, booked : 0..Lots, open : BOOLEAN]

Tracks == trk \in Tracker /\ file = trk /\ BeKept(trk)

\* Memory and file of the tracker are the same.
LEMMA TracksInv == IInv => Tracks
BY DEF IInv, TypeOK, MarkedOK, Tracks, BeKept

\* What booking an order makes of the tracker and of the journal.
LEMMA BookedType ==
  ASSUME IInv, ActiveExit
  PROVE  /\ AfterSale \in Tracker /\ BeKept(AfterSale)
         /\ held > 0 => AfterSale.stage >= trk.stage /\ (BreakevenActive(trk) => BreakevenActive(AfterSale))
         /\ held > 0 /\ sell.stage < 3 /\ Delta > 0 => AfterSale.stage >= sell.stage
         /\ LeftAfter \in 0..Lots
         /\ Booked \in Orders
<1> USE DEF IInv
<1>1. sell \in Orders /\ left \in 0..Lots /\ held \in 0..Lots BY DEF TypeOK, Orders
<1>2. sell.stage \in 1..3 BY <1>1 DEF ActiveExit, Orders
<1>3. Delta \in 0..Lots BY <1>1, LotsAssumption DEF OrderOK, Orders, Delta
<1>4. LeftAfter \in 0..Lots
  <2>1. left - Delta \in Int /\ 0 \in Int BY <1>1, <1>3, LotsAssumption
  <2>2. Max({0, left - Delta}) = IF 0 >= left - Delta THEN 0 ELSE left - Delta
    BY ONLY <2>1, MaxOfTwo
  <2> QED BY <1>1, <1>3, <2>2, LotsAssumption DEF LeftAfter
<1>5. Booked \in Orders
  BY <1>1, LotsAssumption DEF Booked, Orders, NoSell
<1>6. CASE sell.stage < 3 /\ Delta > 0
  <2>1. AfterSale = Marked(trk, sell.stage) BY <1>6 DEF AfterSale
  <2>2. sell.stage \in 1..2 BY <1>2, <1>6
  <2> QED BY <1>4, <1>5, <2>1, <2>2, TracksInv, MarkedType DEF Tracks, Tracker, BreakevenActive
<1>7. CASE sell.stage = 3 /\ sell.exec = sell.vol
  <2>1. AfterSale = NoPosition BY <1>7 DEF AfterSale
  <2>2. held = 0 BY <1>1, <1>7 DEF OrderOK, Orders
  <2> QED BY <1>4, <1>5, <1>7, <2>1, <2>2, NoPositionType
<1>8. CASE ~(sell.stage < 3 /\ Delta > 0) /\ ~(sell.stage = 3 /\ sell.exec = sell.vol)
  <2>1. AfterSale = trk BY <1>8 DEF AfterSale
  <2> QED BY <1>4, <1>5, <1>8, <2>1, TracksInv, <1>1 DEF Tracks, Tracker
<1> QED BY <1>6, <1>7, <1>8

-----------------------------------------------------------------------------
(* What the two threads do *)

Ticks  == [pc : {"idle", "seen", "sell", "confirm"}, price : Level, vol : 0..Lots, stage : 0..3]
Cycles == [pc : {"idle", "snapshot", "market", "ai", "gating", "sell"},
           price : Level, vol : 0..Lots, stage : 0..3, next : {"idle", "gating"}]

\* The tracker keeps its type, the stages and the breakeven flag.
Keeps == /\ trk' \in Tracker /\ file' = trk' /\ BeKept(trk)'
         /\ trk'.stage = trk.stage /\ (trk.be => trk'.be)

LEMMA TickIdleType == TickIdle \in Ticks
BY PricesAreLevels, LotsAssumption DEF TickIdle, Ticks

\* A price arrives.
LEMMA TickSeesGoes ==
  ASSUME TickSees
  PROVE  /\ tick.pc = "idle" /\ tick' \in Ticks /\ tick'.pc = "seen"
         /\ UNCHANGED <<low, held, buy, left, cyc, cool, crashes, sales>>
         /\ UNCHANGED <<sell, trk, file, dyn, lock, hits, watch>>
<1>1. PICK p \in Prices : Tick("idle", [TickIdle EXCEPT !.pc = "seen", !.price = p])
  BY DEF TickSees
<1>2. p \in Level BY PricesAreLevels
<1> DEFINE u == [TickIdle EXCEPT !.pc = "seen"]
<1>3. u \in Ticks /\ u.pc = "seen" BY TickIdleType DEF Ticks
<1>4. tick' = [u EXCEPT !.price = p] BY <1>1 DEF Tick
<1>5. tick' \in Ticks /\ tick'.pc = "seen"
  <2> HIDE DEF u
  <2> QED BY <1>2, <1>3, <1>4 DEF Ticks
<1> QED BY <1>1, <1>5 DEF TickSees, Tick

\* A tick that sees a price of a held position sells, or is over.
TickGoes ==
  /\ UNCHANGED <<low, held, buy, sell, left, dyn, cyc, cool, crashes, sales>>
  /\ tick.pc = "seen" /\ held > 0
  /\ Keeps /\ hits' \in 0..Hits /\ watch' \in {"unset", "with", "without"}
  /\ \/ tick' = TickIdle /\ lock' = lock
     \/ /\ lock = "free" /\ lock' = "tick" /\ tick' \in Ticks /\ tick'.pc = "sell"
        /\ tick'.vol > 0 /\ tick'.stage # 0 /\ (tick'.stage = 3 => tick'.vol = held)

\* The tick thread takes the lock and sells, or is over.
LEMMA TakesLockGoes ==
  ASSUME NEW stage \in 1..3, NEW vol \in 1..Lots, TakesLock(stage, vol),
         stage = 3 => vol = held
  PROVE  /\ tick.pc = "seen" /\ UNCHANGED <<low, held, buy, left, cyc, cool, crashes, sales>>
         /\ \/ tick' = TickIdle /\ lock' = lock
            \/ /\ lock = "free" /\ lock' = "tick" /\ tick' \in Ticks /\ tick'.pc = "sell"
               /\ tick'.vol > 0 /\ tick'.stage # 0 /\ (tick'.stage = 3 => tick'.vol = held)
<1>1. CASE lock = "free"
  <2>1. /\ lock' = "tick"
        /\ Tick("seen", [pc |-> "sell", price |-> 0, vol |-> vol, stage |-> stage])
    BY <1>1 DEF TakesLock
  <2> QED BY <1>1, <2>1, PricesAreLevels, LotsAssumption DEF Tick, Ticks
<1>2. CASE lock # "free"
  BY <1>2 DEF TakesLock, Tick
<1> QED BY <1>1, <1>2

\* Reading the balances sets the watch.
LEMMA ReadsBalanceType ==
  IInv /\ ReadsBalance => watch' \in {"unset", "with", "without"}
BY DEF IInv, TypeOK, ReadsBalance

\* A tick at a stop.
LEMMA TickStopGoes == IInv /\ TickStop => TickGoes
<1> SUFFICES ASSUME IInv, TickStop PROVE TickGoes OBVIOUS
<1> USE DEF IInv
<1>1. PICK raw \in {Stop, Hard} :
        /\ held > 0 /\ StopReached(raw) /\ ReadsBalance
        /\ Write(Held(trk))
        /\ \/ Believed /\ TakesLock(3, held) /\ hits' = 0
           \/ ~Believed /\ Tick("seen", TickIdle) /\ hits' = hits + 1
              /\ UNCHANGED lock
        /\ UNCHANGED <<sell, dyn>>
  BY DEF TickStop
<1>2. Keeps BY <1>1, TracksInv, HeldType DEF Write, Keeps, Tracks, BeKept
<1>3. watch' \in {"unset", "with", "without"} BY <1>1, ReadsBalanceType
<1>4. held \in 1..Lots BY <1>1, LotsAssumption DEF TypeOK
<1>5. CASE Believed /\ TakesLock(3, held) /\ hits' = 0
  <2>1. /\ tick.pc = "seen" /\ UNCHANGED <<low, held, buy, left, cyc, cool, crashes, sales>>
        /\ \/ tick' = TickIdle /\ lock' = lock
           \/ /\ lock = "free" /\ lock' = "tick" /\ tick' \in Ticks /\ tick'.pc = "sell"
              /\ tick'.vol > 0 /\ tick'.stage # 0 /\ (tick'.stage = 3 => tick'.vol = held)
    BY <1>4, <1>5, TakesLockGoes
  <2> QED BY <1>1, <1>2, <1>3, <1>5, <2>1, LotsAssumption DEF TickGoes
<1>6. CASE ~Believed /\ Tick("seen", TickIdle) /\ hits' = hits + 1 /\ UNCHANGED lock
  <2>1. hits' \in 0..Hits BY <1>6, LotsAssumption DEF Believed, TypeOK
  <2> QED BY <1>1, <1>2, <1>3, <1>6, <2>1 DEF TickGoes, Tick
<1> QED BY <1>1, <1>5, <1>6

\* A tick with an answer of the tracker.
LEMMA TickSignalGoes == IInv /\ TickSignal => TickGoes
<1> SUFFICES ASSUME IInv, TickSignal PROVE TickGoes OBVIOUS
<1> USE DEF IInv
<1>1. PICK raw \in {Stop, Hard}, defensive \in BOOLEAN :
        LET t     == Raised(Held(trk), tick.price)
            stage == Signal(t, tick.price, defensive)
            vol   == IF stage = 3 THEN held ELSE PartVolume(trk.mode, stage, held)
        IN  /\ held > 0 /\ ~StopReached(raw) /\ ReadsBalance
            /\ hits' = 0
            /\ Write(t)
            /\ \/ stage # 0 /\ vol > 0 /\ TakesLock(stage, vol)
               \/ (stage = 0 \/ vol = 0) /\ Tick("seen", TickIdle) /\ UNCHANGED lock
            /\ UNCHANGED <<sell, dyn>>
  BY DEF TickSignal
<1> DEFINE t     == Raised(Held(trk), tick.price)
           stage == Signal(t, tick.price, defensive)
           vol   == IF stage = 3 THEN held ELSE PartVolume(trk.mode, stage, held)
<1>2. tick.price \in Level BY DEF TypeOK
<1>3. Held(trk) \in Tracker /\ BeKept(Held(trk)) /\ Held(trk).stage = trk.stage
      /\ (trk.be => Held(trk).be)
  BY TracksInv, HeldType DEF Tracks
<1>4. Keeps
  <2>1. t \in Tracker /\ BeKept(t) /\ t.stage = trk.stage /\ (trk.be => t.be)
    BY <1>2, <1>3, RaisedType
  <2>2. trk' = t /\ file' = t BY <1>1 DEF Write
  <2> HIDE DEF t
  <2> QED BY <2>1, <2>2 DEF Keeps, BeKept
<1>5. stage \in 0..3 BY <1>2, SignalType
<1>6. watch' \in {"unset", "with", "without"} BY <1>1, ReadsBalanceType
<1>7. CASE stage # 0 /\ vol > 0 /\ TakesLock(stage, vol)
  <2>1. held \in 1..Lots BY <1>1, LotsAssumption DEF TypeOK
  <2>2. vol \in 1..Lots
    <3> HIDE DEF stage
    <3>1. CASE stage = 3 BY <2>1, <3>1
    <3>2. CASE stage # 3
      <4>1. stage \in 1..2 /\ held \in 0..Lots BY <1>5, <1>7, <2>1, <3>2, LotsAssumption
      <4>2. PartVolume(trk.mode, stage, held) \in 0..Lots BY <4>1, PartVolumeType
      <4>3. vol = PartVolume(trk.mode, stage, held) BY <3>2
      <4> HIDE DEF vol
      <4> QED BY <1>7, <4>2, <4>3, LotsAssumption
    <3> QED BY <3>1, <3>2
  <2>3. stage \in 1..3 /\ (stage = 3 => vol = held) BY <1>5, <1>7
  <2> HIDE DEF stage, vol
  <2>4. /\ tick.pc = "seen" /\ UNCHANGED <<low, held, buy, left, cyc, cool, crashes, sales>>
        /\ \/ tick' = TickIdle /\ lock' = lock
           \/ /\ lock = "free" /\ lock' = "tick" /\ tick' \in Ticks /\ tick'.pc = "sell"
              /\ tick'.vol > 0 /\ tick'.stage # 0 /\ (tick'.stage = 3 => tick'.vol = held)
    BY <1>7, <2>2, <2>3, TakesLockGoes
  <2> QED BY <1>1, <1>4, <1>6, <2>4, LotsAssumption DEF TickGoes
<1>8. CASE (stage = 0 \/ vol = 0) /\ Tick("seen", TickIdle) /\ UNCHANGED lock
  <2> HIDE DEF stage, vol
  <2> QED BY <1>1, <1>4, <1>6, <1>8, LotsAssumption DEF TickGoes, Tick
<1> QED BY <1>1, <1>7, <1>8

Sells(vol, stage, price) ==
  /\ lock = "free" /\ lock' = "cycle" /\ cyc' \in Cycles /\ cyc'.pc = "sell"
  /\ cyc'.vol = vol /\ cyc'.stage = stage /\ (cyc'.next = "gating" => cyc'.price = price)

\* The cycle takes the lock and sells, or goes on without.
LEMMA CycleSellsGoes ==
  ASSUME NEW pc, NEW c \in Cycles, NEW stage \in 1..3, NEW vol \in 1..Lots,
         NEW next \in {"idle", "gating"}, NEW else \in {"idle", "gating"},
         CycleSells(pc, c, stage, vol, next, else)
  PROVE  /\ cyc.pc = pc
         /\ UNCHANGED <<low, held, left, tick, hits, watch, cool, crashes, sales>>
         /\ \/ Sells(vol, stage, c.price) /\ cyc'.next = next
            \/ lock' = lock /\ cyc' = CycIdle
            \/ lock' = lock /\ else = "gating" /\ cyc' = [c EXCEPT !.pc = "gating"]
<1>1. CASE lock = "free"
  <2> DEFINE p  == IF next = "idle" THEN 0 ELSE c.price
             u1 == [c EXCEPT !.pc = "sell"]
             u2 == [u1 EXCEPT !.stage = stage]
             u3 == [u2 EXCEPT !.vol = vol]
             u4 == [u3 EXCEPT !.next = next]
             u5 == [u4 EXCEPT !.price = p]
  <2>1. lock' = "cycle" /\ Cycle(pc, u5) BY <1>1 DEF CycleSells
  <2>2. u1 \in Cycles /\ u1.pc = "sell" BY DEF Cycles
  <2>3. u2 \in Cycles /\ u2.pc = "sell" /\ u2.stage = stage
    <3> HIDE DEF u1
    <3> QED BY <2>2 DEF Cycles
  <2>4. u3 \in Cycles /\ u3.pc = "sell" /\ u3.stage = stage /\ u3.vol = vol
    <3> HIDE DEF u2
    <3> QED BY <2>3, LotsAssumption DEF Cycles
  <2>5. u4 \in Cycles /\ u4.pc = "sell" /\ u4.stage = stage /\ u4.vol = vol /\ u4.next = next
    <3> HIDE DEF u3
    <3> QED BY <2>4 DEF Cycles
  <2>6. p \in Level BY PricesAreLevels DEF Cycles
  <2>7. /\ u5 \in Cycles /\ u5.pc = "sell" /\ u5.stage = stage /\ u5.vol = vol
        /\ u5.next = next /\ u5.price = p
    <3> HIDE DEF u4, p
    <3> QED BY <2>5, <2>6 DEF Cycles
  <2> HIDE DEF u5
  <2> QED BY <1>1, <2>1, <2>7 DEF Cycle, Sells
<1>2. CASE lock # "free"
  BY <1>2 DEF CycleSells, Cycle
<1> QED BY <1>1, <1>2

\* A sale of the whole position: the turn ends with it.
LEMMA WholeSaleGoes ==
  ASSUME NEW pc, NEW c \in Cycles, NEW vol \in 1..Lots, NEW else \in {"idle", "gating"},
         CycleSells(pc, c, 3, vol, "idle", else)
  PROVE  /\ cyc.pc = pc
         /\ UNCHANGED <<low, held, left, tick, hits, watch, cool, crashes, sales>>
         /\ \/ Sells(vol, 3, c.price) /\ cyc'.next = "idle"
            \/ lock' = lock /\ cyc' = CycIdle
            \/ lock' = lock /\ else = "gating" /\ cyc' = [c EXCEPT !.pc = "gating"]
<1> DEFINE three == 3
           idle == "idle"
<1>1. three \in 1..3 /\ idle \in {"idle", "gating"} OBVIOUS
<1>2. CycleSells(pc, c, three, vol, idle, else) OBVIOUS
<1> HIDE DEF three, idle
<1>3. /\ cyc.pc = pc
      /\ UNCHANGED <<low, held, left, tick, hits, watch, cool, crashes, sales>>
      /\ \/ Sells(vol, three, c.price) /\ cyc'.next = idle
         \/ lock' = lock /\ cyc' = CycIdle
         \/ lock' = lock /\ else = "gating" /\ cyc' = [c EXCEPT !.pc = "gating"]
  BY <1>1, <1>2, CycleSellsGoes
<1> QED BY <1>3 DEF three, idle

\* The cycle at a market's turn: it goes on, ends, or sells under the lock.
CycleGoes ==
  /\ UNCHANGED <<low, held, buy, sell, left, tick, hits, watch, cool, crashes, sales>>
  /\ cyc.pc \in {"market", "ai", "gating"}
  /\ Keeps /\ dyn' \in NoStop..Top /\ (cyc.pc # "ai" => dyn' = dyn)
  /\ cyc' \in Cycles
  /\ \/ cyc'.pc \in {"idle", "ai", "gating"} /\ lock' = lock
     \/ cyc'.pc = "sell" /\ lock = "free" /\ lock' = "cycle"
  /\ cyc'.pc = "idle" => cyc'.vol = 0
  /\ cyc'.vol > 0 => held > 0 \/ cyc.vol > 0
  /\ cyc'.pc = "ai" => cyc'.vol > 0 /\ cyc'.vol >= held
  /\ cyc'.pc = "sell" => /\ cyc'.vol > 0 /\ cyc'.stage # 0
                         /\ cyc'.stage = 3 => cyc'.vol >= held
                         /\ cyc'.next = "gating" => cyc'.price > BreakevenLine
  /\ cyc'.pc = "gating" => \/ cyc'.vol = 0 /\ held = 0 /\ cyc.pc = "market"
                           \/ cyc'.vol > 0 /\ (cyc'.vol >= held \/ cyc'.price > BreakevenLine)

\* No turn, no tick.
LEMMA CycIdleType == CycIdle \in Cycles
BY PricesAreLevels, LotsAssumption DEF CycIdle, Cycles

\* A turn begins with what the account has.
LEMMA TurnType ==
  ASSUME NEW p \in Level, held \in 0..Lots, NEW pc \in {"market", "ai", "gating"}
  PROVE  /\ Turn(p) \in Cycles /\ Turn(p).vol = held /\ Turn(p).price = p
         /\ [Turn(p) EXCEPT !.pc = pc] \in Cycles
         /\ [Turn(p) EXCEPT !.pc = pc].pc = pc
         /\ [Turn(p) EXCEPT !.pc = pc].vol = held
<1> DEFINE u == [CycIdle EXCEPT !.vol = held]
<1>1. u \in Cycles /\ u.vol = held BY CycIdleType DEF Cycles
<1>2. Turn(p) = [u EXCEPT !.price = p] BY DEF Turn
<1> HIDE DEF u
<1>3. Turn(p) \in Cycles /\ Turn(p).vol = held /\ Turn(p).price = p
  BY <1>1, <1>2 DEF Cycles
<1> QED BY <1>3 DEF Cycles

\* A step that does not write the tracker keeps it.
LEMMA SameTracks == IInv /\ UNCHANGED <<trk, file>> => Keeps
BY TracksInv DEF Keeps, Tracks, BeKept

\* The sale of the whole position, and of a part above breakeven.
LEMMA SellsGoes ==
  ASSUME NEW stage \in 1..3, NEW vol \in 1..Lots, NEW price,
         Sells(vol, stage, price), stage = 3 => vol >= held, held > 0 \/ cyc.vol > 0,
         cyc'.next = "gating" => price > BreakevenLine,
         UNCHANGED <<low, held, buy, sell, left, tick, hits, watch, cool, crashes, sales>>,
         cyc.pc \in {"market", "ai", "gating"}, Keeps,
         dyn' \in NoStop..Top, cyc.pc # "ai" => dyn' = dyn
  PROVE  CycleGoes
BY LotsAssumption DEF Sells, CycleGoes

\* The turn ends.
LEMMA EndsGoes ==
  ASSUME cyc' = CycIdle, lock' = lock,
         UNCHANGED <<low, held, buy, sell, left, tick, hits, watch, cool, crashes, sales>>,
         cyc.pc \in {"market", "ai", "gating"}, Keeps,
         dyn' \in NoStop..Top, cyc.pc # "ai" => dyn' = dyn
  PROVE  CycleGoes
BY CycIdleType DEF CycIdle, CycleGoes

\* Nothing to sell, or not the bot's.
LEMMA NoExitGoes == IInv /\ (NoExit \/ NotOurs) => CycleGoes
<1> SUFFICES ASSUME IInv, NoExit \/ NotOurs PROVE CycleGoes OBVIOUS
<1>0. Keeps /\ dyn' \in NoStop..Top /\ held \in 0..Lots
  BY SameTracks DEF NoExit, NotOurs, IInv, TypeOK
<1>1. CASE NoExit
  <2>1. PICK p \in IF held = 0 THEN {0} ELSE Prices : ToGating("market", Turn(p))
    BY <1>1 DEF NoExit
  <2>2. p \in Level BY <2>1, PricesAreLevels
  <2>3. /\ cyc.pc = "market" /\ cyc' = [Turn(p) EXCEPT !.pc = "gating"] /\ lock' = lock
        /\ UNCHANGED <<low, held, left, tick, hits, watch, cool, crashes, sales>>
    BY <2>1 DEF ToGating, Cycle
  <2>4. UNCHANGED <<buy, sell, dyn>> BY <1>1 DEF NoExit
  <2>5. cyc' \in Cycles /\ cyc'.pc = "gating" /\ cyc'.vol = held
    BY <1>0, <2>2, <2>3, TurnType
  <2> QED BY <1>0, <2>3, <2>4, <2>5, LotsAssumption DEF CycleGoes
<1>2. CASE NotOurs
  BY <1>0, <1>2, EndsGoes DEF NotOurs, Cycle
<1> QED BY <1>1, <1>2

\* The answer of the tracker to the price of the cycle.
LEMMA PriorityExitsGoes == IInv /\ PriorityExits => CycleGoes
<1> SUFFICES ASSUME IInv, PriorityExits PROVE CycleGoes OBVIOUS
<1>1. PICK defensive \in BOOLEAN, price \in Prices :
        LET t     == Raised(trk, price)
            stage == Signal(t, price, defensive)
            part  == PartVolume(trk.mode, stage, held)
        IN  /\ ~NothingToSell /\ Managed
            /\ \/ /\ stage \in 1..2 /\ Write(t)
                  /\ IF part = 0 THEN ToGating("market", Turn(price))
                                 ELSE CycleSells("market", Turn(price), stage, part, "gating", "gating")
               \/ /\ stage = 3 /\ Write(t)
                  /\ CycleSells("market", Turn(price), 3, held, "idle", "idle")
               \/ /\ stage = 0 /\ Write(Timed(t))
                  /\ Cycle("market", [Turn(price) EXCEPT !.pc = "ai"]) /\ UNCHANGED lock
            /\ UNCHANGED <<buy, sell, dyn>>
  BY DEF PriorityExits
<1> DEFINE t     == Raised(trk, price)
           stage == Signal(t, price, defensive)
           part  == PartVolume(trk.mode, stage, held)
<1>2. held \in 1..Lots /\ held \in 0..Lots
  BY <1>1, LotsAssumption DEF NothingToSell, IInv, TypeOK
<1>3. price \in Level BY PricesAreLevels
<1>4. t \in Tracker /\ BeKept(t) /\ t.stage = trk.stage /\ (trk.be => t.be)
  BY <1>3, TracksInv, RaisedType DEF Tracks
<1>5. stage \in 0..3 /\ (stage \in 1..2 => price > BreakevenLine) BY <1>3, SignalType
<1>6. dyn' \in NoStop..Top /\ dyn' = dyn /\ buy' = buy /\ sell' = sell
  BY <1>1 DEF IInv, TypeOK
<1>7. /\ Turn(price) \in Cycles /\ Turn(price).vol = held /\ Turn(price).price = price
      /\ \A pc \in {"ai", "gating"} :
           LET u == [Turn(price) EXCEPT !.pc = pc]
           IN  u \in Cycles /\ u.pc = pc /\ u.vol = held
  BY <1>2, <1>3, TurnType
<1>8. CASE stage \in 1..2 /\ Write(t) /\ IF part = 0 THEN ToGating("market", Turn(price))
                ELSE CycleSells("market", Turn(price), stage, part, "gating", "gating")
  <2>1. Keeps
    <3> HIDE DEF t
    <3> QED BY <1>4, <1>8 DEF Write, Keeps, BeKept
  <2>2. part \in 0..Lots /\ stage \in 1..3
    <3> HIDE DEF stage
    <3> QED BY <1>2, <1>8, PartVolumeType
  <2> HIDE DEF stage, part, t
  <2>3. CASE part = 0
    <3>1. /\ cyc.pc = "market" /\ cyc' = [Turn(price) EXCEPT !.pc = "gating"] /\ lock' = lock
          /\ UNCHANGED <<low, held, left, tick, hits, watch, cool, crashes, sales>>
      BY <1>8, <2>3 DEF ToGating, Cycle
    <3> QED BY <1>2, <1>6, <1>7, <2>1, <3>1, LotsAssumption DEF CycleGoes
  <2>4. CASE part # 0
    <3>1. part \in 1..Lots BY <2>2, <2>4, LotsAssumption
    <3>2. CycleSells("market", Turn(price), stage, part, "gating", "gating") BY <1>8, <2>4
    <3>3. /\ cyc.pc = "market"
          /\ UNCHANGED <<low, held, left, tick, hits, watch, cool, crashes, sales>>
          /\ \/ Sells(part, stage, Turn(price).price)
             \/ lock' = lock /\ cyc' = CycIdle
             \/ lock' = lock /\ cyc' = [Turn(price) EXCEPT !.pc = "gating"]
      BY <1>7, <2>2, <3>1, <3>2, CycleSellsGoes
    <3>4. CASE Sells(part, stage, Turn(price).price)
      BY <1>2, <1>5, <1>6, <1>7, <1>8, <2>1, <2>2, <3>1, <3>3, <3>4, SellsGoes
    <3>5. CASE lock' = lock /\ cyc' = CycIdle
      BY <1>6, <2>1, <3>3, <3>5, EndsGoes
    <3>6. CASE lock' = lock /\ cyc' = [Turn(price) EXCEPT !.pc = "gating"]
      BY <1>2, <1>6, <1>7, <2>1, <3>3, <3>6, LotsAssumption DEF CycleGoes
    <3> QED BY <3>3, <3>4, <3>5, <3>6
  <2> QED BY <2>3, <2>4
<1>9. CASE stage = 3 /\ Write(t) /\ CycleSells("market", Turn(price), 3, held, "idle", "idle")
  <2>1. Keeps
    <3> HIDE DEF t
    <3> QED BY <1>4, <1>9 DEF Write, Keeps, BeKept
  <2> HIDE DEF stage, part, t
  <2>2. /\ cyc.pc = "market"
        /\ UNCHANGED <<low, held, left, tick, hits, watch, cool, crashes, sales>>
        /\ \/ Sells(held, 3, Turn(price).price) /\ cyc'.next = "idle"
           \/ lock' = lock /\ cyc' = CycIdle
    BY <1>2, <1>7, <1>9, WholeSaleGoes
  <2>3. CASE Sells(held, 3, Turn(price).price) /\ cyc'.next = "idle"
    BY <1>2, <1>6, <2>1, <2>2, <2>3, SellsGoes, LotsAssumption
  <2> QED BY <1>6, <2>1, <2>2, <2>3, EndsGoes
<1>10. CASE /\ stage = 0 /\ Write(Timed(t))
            /\ Cycle("market", [Turn(price) EXCEPT !.pc = "ai"]) /\ UNCHANGED lock
  <2>1. Keeps
    <3> HIDE DEF t
    <3>1. /\ Timed(t) \in Tracker /\ BeKept(Timed(t)) /\ Timed(t).stage = t.stage
          /\ (t.be => Timed(t).be)
      BY <1>4, AgedType, LevelsAssumption
    <3> QED BY <1>4, <1>10, <3>1 DEF Write, Keeps, BeKept
  <2> HIDE DEF stage, part, t
  <2>2. /\ cyc.pc = "market" /\ cyc' = [Turn(price) EXCEPT !.pc = "ai"] /\ lock' = lock
        /\ UNCHANGED <<low, held, left, tick, hits, watch, cool, crashes, sales>>
    BY <1>10 DEF Cycle
  <2> QED BY <1>2, <1>6, <1>7, <2>1, <2>2, LotsAssumption DEF CycleGoes
<1> QED BY <1>1, <1>8, <1>9, <1>10

\* The AI's emergency exit.
LEMMA AiEmergencyGoes == IInv /\ AiEmergency => CycleGoes
<1> SUFFICES ASSUME IInv, AiEmergency PROVE CycleGoes OBVIOUS
<1>1. Keeps /\ dyn' \in NoStop..Top /\ UNCHANGED <<buy, sell, dyn>>
  BY SameTracks DEF AiEmergency, IInv, TypeOK
<1>2. cyc \in Cycles /\ cyc.pc = "ai" /\ cyc.vol \in 1..Lots /\ cyc.vol >= held
  BY LotsAssumption DEF AiEmergency, CycleSells, Cycle, IInv, TypeOK, ThreadsOK, Cycles
<1>3. /\ UNCHANGED <<low, held, left, tick, hits, watch, cool, crashes, sales>>
      /\ \/ Sells(cyc.vol, 3, cyc.price) /\ cyc'.next = "idle"
         \/ lock' = lock /\ cyc' = CycIdle
  BY <1>2, WholeSaleGoes DEF AiEmergency
<1>4. CASE Sells(cyc.vol, 3, cyc.price) /\ cyc'.next = "idle"
  BY <1>1, <1>2, <1>3, <1>4, SellsGoes, LotsAssumption
<1> QED BY <1>1, <1>2, <1>3, <1>4, EndsGoes

\* A stop of the AI is a level, or none.
LEMMA AiStopsType ==
  ASSUME cyc.price \in Level
  PROVE  AiStops \subseteq NoStop..Top
BY LevelsAssumption DEF AiStops, TightStops, RunnerStops, NoStop, Level

\* The AI's stop and the clock's rules.
LEMMA RulesGoes == IInv /\ Rules => CycleGoes
<1> SUFFICES ASSUME IInv, Rules PROVE CycleGoes OBVIOUS
<1>1. PICK broken \in BOOLEAN, support \in BOOLEAN, wanted \in BOOLEAN, answer \in AiStops :
        LET stop    == Max({dyn, answer})
            stopped == stop # NoStop /\ cyc.price <= stop
            sells   == stopped \/ ClockSells(broken, support, wanted)
        IN  /\ dyn' = stop
            /\ IF LockedIn /\ ~stopped THEN Write(Protected(trk)) ELSE UNCHANGED <<trk, file>>
            /\ IF sells
               THEN CycleSells("ai", cyc, 3, cyc.vol, "idle", IF stopped THEN "gating" ELSE "idle")
               ELSE ToGating("ai", cyc)
            /\ UNCHANGED <<buy, sell>>
  BY DEF Rules
<1> DEFINE stop    == Max({dyn, answer})
           stopped == stop # NoStop /\ cyc.price <= stop
           sells   == stopped \/ ClockSells(broken, support, wanted)
           else    == IF stopped THEN "gating" ELSE "idle"
<1>2. cyc \in Cycles /\ dyn \in NoStop..Top BY DEF IInv, TypeOK, Cycles
<1>3. dyn' \in NoStop..Top
  <2>1. answer \in NoStop..Top BY <1>2, AiStopsType DEF Cycles
  <2>2. dyn \in Int /\ answer \in Int BY <1>2, <2>1, LevelsAssumption DEF NoStop
  <2>3. dyn' = IF dyn >= answer THEN dyn ELSE answer BY <1>1, <2>2, MaxOfTwo
  <2> QED BY <1>2, <2>1, <2>3
<1>4. Keeps
  <2>1. CASE LockedIn /\ ~stopped
    <3>1. Write(Protected(trk)) BY <1>1, <2>1
    <3>2. /\ Protected(trk) \in Tracker /\ BeKept(Protected(trk))
          /\ Protected(trk).stage = trk.stage /\ (trk.be => Protected(trk).be)
      BY TracksInv, AgedType, LevelsAssumption DEF Tracks
    <3> QED BY <3>1, <3>2 DEF Write, Keeps, BeKept
  <2>2. CASE ~(LockedIn /\ ~stopped)
    BY <1>1, <2>2, SameTracks
  <2> QED BY <2>1, <2>2
<1>5. UNCHANGED <<buy, sell>> BY <1>1
<1>6. CASE sells
  <2>1. CycleSells("ai", cyc, 3, cyc.vol, "idle", else) BY <1>1, <1>6
  <2>2. else \in {"idle", "gating"} OBVIOUS
  <2> HIDE DEF else, sells
  <2>3. cyc.pc = "ai" BY <2>1 DEF CycleSells, Cycle
  <2>4. cyc.vol \in 1..Lots /\ cyc.vol >= held
    BY <1>2, <2>3, LotsAssumption DEF IInv, ThreadsOK, Cycles
  <2>5. /\ UNCHANGED <<low, held, left, tick, hits, watch, cool, crashes, sales>>
        /\ \/ Sells(cyc.vol, 3, cyc.price) /\ cyc'.next = "idle"
           \/ lock' = lock /\ cyc' = CycIdle
           \/ lock' = lock /\ else = "gating" /\ cyc' = [cyc EXCEPT !.pc = "gating"]
    BY <1>2, <2>1, <2>2, <2>4, WholeSaleGoes
  <2>6. CASE Sells(cyc.vol, 3, cyc.price) /\ cyc'.next = "idle"
    BY <1>3, <1>4, <1>5, <2>3, <2>4, <2>5, <2>6, SellsGoes, LotsAssumption
  <2>7. CASE lock' = lock /\ cyc' = CycIdle
    BY <1>3, <1>4, <1>5, <2>3, <2>5, <2>7, EndsGoes
  <2>8. CASE lock' = lock /\ cyc' = [cyc EXCEPT !.pc = "gating"]
    BY <1>2, <1>3, <1>4, <1>5, <2>3, <2>4, <2>5, <2>8, LotsAssumption DEF CycleGoes, Cycles
  <2> QED BY <2>5, <2>6, <2>7, <2>8
<1>7. CASE ~sells
  <2>1. ToGating("ai", cyc) BY <1>1, <1>7
  <2>2. /\ cyc.pc = "ai" /\ cyc' = [cyc EXCEPT !.pc = "gating"] /\ lock' = lock
        /\ UNCHANGED <<low, held, left, tick, hits, watch, cool, crashes, sales>>
    BY <2>1 DEF ToGating, Cycle
  <2>3. cyc.vol > 0 /\ cyc.vol >= held BY <2>2 DEF IInv, ThreadsOK
  <2> QED BY <1>2, <1>3, <1>4, <1>5, <2>2, <2>3, LotsAssumption DEF CycleGoes, Cycles
<1> QED BY <1>6, <1>7

\* The stop of the cycle sells all there is.
LEMMA CycleStopLossGoes == IInv /\ (GatesClosed \/ CycleStopLoss) => CycleGoes
<1> SUFFICES ASSUME IInv, GatesClosed \/ CycleStopLoss PROVE CycleGoes OBVIOUS
<1>1. Keeps /\ dyn' \in NoStop..Top /\ UNCHANGED <<buy, sell, dyn>>
  BY SameTracks DEF GatesClosed, CycleStopLoss, IInv, TypeOK
<1>2. CASE GatesClosed
  BY <1>1, <1>2, EndsGoes DEF GatesClosed, Cycle
<1>3. CASE CycleStopLoss
  <2>1. CASE cyc.price <= CycleStop /\ ~ActiveExit
    <3>1. CycleSells("gating", cyc, 3, cyc.vol, "idle", "idle") /\ cyc.vol > 0
      BY <1>3, <2>1 DEF CycleStopLoss
    <3>2. cyc.pc = "gating" BY <3>1 DEF CycleSells, Cycle
    <3>3. cyc \in Cycles BY DEF IInv, TypeOK, Cycles
    <3>4. cyc.vol \in 1..Lots BY <3>1, <3>3, LotsAssumption DEF Cycles
    <3>5. cyc.price <= BreakevenLine
      BY <2>1, <3>3, LevelsAssumption, PricesAreLevels DEF CycleStop, Cycles
    <3>6. cyc.vol >= held
      <4>1. cyc.vol >= held \/ cyc.price > BreakevenLine
        BY <3>1, <3>2 DEF IInv, ThreadsOK
      <4>2. cyc.price \in Int /\ BreakevenLine \in Int
        BY <3>3, LevelsAssumption, PricesAreLevels DEF Cycles
      <4> QED BY <3>5, <4>1, <4>2
    <3>7. /\ UNCHANGED <<low, held, left, tick, hits, watch, cool, crashes, sales>>
          /\ \/ Sells(cyc.vol, 3, cyc.price) /\ cyc'.next = "idle"
             \/ lock' = lock /\ cyc' = CycIdle
      BY <3>1, <3>3, <3>4, WholeSaleGoes
    <3>8. CASE Sells(cyc.vol, 3, cyc.price) /\ cyc'.next = "idle"
      BY <1>1, <3>2, <3>4, <3>6, <3>7, <3>8, SellsGoes, LotsAssumption
    <3> QED BY <1>1, <3>2, <3>7, <3>8, EndsGoes
  <2>2. CASE ~(cyc.price <= CycleStop /\ ~ActiveExit)
    BY <1>1, <1>3, <2>2, EndsGoes DEF CycleStopLoss, Cycle
  <2> QED BY <2>1, <2>2
<1> QED BY <1>2, <1>3

-----------------------------------------------------------------------------
(* The other steps that write the tracker or end in a crash *)

\* A crash leaves what was on disk, and no thread.
Crashes ==
  /\ trk' \in Tracker /\ file' = trk' /\ BeKept(trk)'
  /\ held > 0 => trk'.stage >= trk.stage /\ (BreakevenActive(trk) => BreakevenActive(trk)')
  /\ held > 0 /\ Delta > 0 /\ sell.stage \in 1..2 /\ trk'.stage < sell.stage => trk'.stage = trk.stage
  /\ crashes' \in 0..MaxCrashes /\ dyn' = NoStop
  /\ tick' = TickIdle /\ cyc' = CycIdle /\ lock' = "free"
  /\ hits' = 0 /\ watch' = "unset"
  /\ UNCHANGED <<low, held, buy, sell, left, cool, sales>>
  /\ ~ActiveExit => trk'.stage = trk.stage

\* What a crash leaves, also one between tracker and journal.
LEMMA CrashGoes == IInv /\ (Restart \/ DieInFill) => Crashes
<1> SUFFICES ASSUME IInv, Restart \/ DieInFill PROVE Crashes OBVIOUS
<1>1. /\ trk \in Tracker /\ file = trk /\ BeKept(trk) /\ crashes \in 0..MaxCrashes
  BY TracksInv DEF Tracks, IInv, TypeOK
<1>2. CASE Restart
  BY <1>1, <1>2, LotsAssumption DEF Restart, Crash, Crashes, BeKept, Tracker, BreakevenActive
<1>3. CASE Bookable /\ AfterSale # trk /\ Crash(AfterSale, sell)
  <2>1. ActiveExit BY <1>3 DEF Bookable
  <2>2. trk' = AfterSale BY <1>3 DEF Crash
  <2>3. /\ trk' \in Tracker /\ BeKept(trk)'
        /\ held > 0 => trk'.stage >= trk.stage /\ (BreakevenActive(trk) => BreakevenActive(trk)')
        /\ held > 0 /\ sell.stage < 3 /\ Delta > 0 => trk'.stage >= sell.stage
    BY <2>1, <2>2, BookedType DEF BreakevenActive, BeKept
  <2> QED BY <1>1, <1>3, <2>1, <2>3, LotsAssumption DEF Crash, Crashes, Tracker, IInv, TypeOK
<1>4. CASE buy = "executed" /\ \E mode \in Mode : Crash(Entered(trk, mode), sell)
  <2>1. PICK mode \in Mode : Crash(Entered(trk, mode), sell) BY <1>4
  <2>2. /\ Entered(trk, mode) \in Tracker /\ BeKept(Entered(trk, mode))
        /\ Entered(trk, mode).stage = trk.stage /\ Entered(trk, mode).peak = trk.peak
        /\ trk.be => Entered(trk, mode).be
    BY <1>1, AgedType
  <2> QED BY <1>1, <2>1, <2>2, LotsAssumption DEF Crash, Crashes, BeKept, Tracker, BreakevenActive
<1> QED BY <1>2, <1>3, <1>4 DEF DieInFill

\* What an order of one thread makes of the journal.
Submits(stage, vol) ==
  /\ sell' \in Orders
  /\ \/ sell' = sell
     \/ /\ ~ActiveExit /\ vol <= held /\ sell'.stage = stage /\ sell'.vol = vol
        /\ sell'.exec = 0 /\ sell'.booked = 0 /\ sell'.open

\* An order is new only if none is there and the account can fill it.
LEMMA SubmitGoes ==
  ASSUME IInv, NEW stage \in 1..3, NEW vol \in 1..Lots, Submit(stage, vol)
  PROVE  Submits(stage, vol)
<1> DEFINE new == [stage |-> stage, vol |-> vol, exec |-> 0, booked |-> 0, open |-> TRUE]
<1>1. sell \in Orders BY DEF IInv, TypeOK, Orders
<1>2. /\ new \in Orders /\ new.stage = stage /\ new.vol = vol
      /\ new.exec = 0 /\ new.booked = 0 /\ new.open
  BY LotsAssumption DEF Orders
<1>3. sell' = IF ActiveExit \/ vol > held THEN sell ELSE new BY DEF Submit
<1>4. held \in Int BY LotsAssumption DEF IInv, TypeOK
<1> HIDE DEF new
<1>5. CASE ActiveExit \/ vol > held BY <1>1, <1>3, <1>5 DEF Submits
<1>6. CASE ~(ActiveExit \/ vol > held) BY <1>2, <1>3, <1>4, <1>6, LotsAssumption DEF Submits
<1> QED BY <1>5, <1>6

\* The order of the tick thread.
LEMMA TickSubmitsGoes ==
  ASSUME IInv, TickSubmits
  PROVE  /\ tick.pc = "sell" /\ tick.stage \in 1..3 /\ tick.vol \in 1..Lots
         /\ tick.stage = 3 => tick.vol >= held
         /\ Submits(tick.stage, tick.vol)
<1>1. tick \in Ticks /\ tick.pc = "sell" BY DEF TickSubmits, Tick, IInv, TypeOK, Ticks
<1>2. tick.stage \in 1..3 /\ tick.vol \in 1..Lots /\ (tick.stage = 3 => tick.vol >= held)
  BY <1>1, LotsAssumption DEF IInv, ThreadsOK, Ticks
<1> QED BY <1>1, <1>2, SubmitGoes DEF TickSubmits

\* The order of the cycle.
LEMMA CycleSubmitsGoes ==
  ASSUME IInv, CycleSubmits
  PROVE  /\ cyc.pc = "sell" /\ cyc.stage \in 1..3 /\ cyc.vol \in 1..Lots
         /\ cyc.stage = 3 => cyc.vol >= held
         /\ Submits(cyc.stage, cyc.vol) /\ cyc' \in Cycles
         /\ \/ cyc' = CycIdle
            \/ cyc'.pc = "gating" /\ cyc'.vol > 0 /\ cyc'.price > BreakevenLine
<1>1. cyc \in Cycles /\ cyc.pc = "sell" BY DEF CycleSubmits, Cycle, IInv, TypeOK, Cycles
<1>2. /\ cyc.stage \in 1..3 /\ cyc.vol \in 1..Lots /\ (cyc.stage = 3 => cyc.vol >= held)
      /\ cyc.next = "gating" => cyc.price > BreakevenLine
  BY <1>1, LotsAssumption DEF IInv, ThreadsOK, Cycles
<1>3. CASE cyc' = CycIdle
  BY <1>1, <1>2, <1>3, SubmitGoes, CycIdleType DEF CycleSubmits
<1>4. CASE cyc.next = "gating" /\ cyc' = [cyc EXCEPT !.pc = cyc.next, !.stage = 0, !.next = "idle"]
  <2> DEFINE u == [cyc EXCEPT !.pc = "gating"]
             v == [u EXCEPT !.stage = 0]
  <2>1. u \in Cycles /\ u.pc = "gating" /\ u.vol = cyc.vol /\ u.price = cyc.price
    BY <1>1 DEF Cycles
  <2>2. v \in Cycles /\ v.pc = "gating" /\ v.vol = cyc.vol /\ v.price = cyc.price
    <3> HIDE DEF u
    <3> QED BY <2>1 DEF Cycles
  <2>3. cyc' = [v EXCEPT !.next = "idle"] BY <1>4
  <2> HIDE DEF v
  <2>4. cyc' \in Cycles /\ cyc'.pc = "gating" /\ cyc'.vol = cyc.vol /\ cyc'.price = cyc.price
    BY <2>2, <2>3 DEF Cycles
  <2> QED BY <1>1, <1>2, <1>4, <2>4, SubmitGoes, LotsAssumption DEF CycleSubmits
<1>5. cyc.next \in {"idle", "gating"} BY <1>1 DEF Cycles
<1>6. cyc' = IF cyc.next = "idle" \/ ActiveExit \/ cyc.vol > held THEN CycIdle
             ELSE [cyc EXCEPT !.pc = cyc.next, !.stage = 0, !.next = "idle"]
  BY DEF CycleSubmits, Cycle
<1> QED BY <1>3, <1>4, <1>5, <1>6

\* An execution sells what the account has.
SellExecs ==
  /\ sell.open /\ sell.stage \in 1..3 /\ sell' \in Orders /\ held' \in 0..Lots
  /\ sell'.stage = sell.stage /\ sell'.vol = sell.vol /\ sell'.booked = sell.booked
  /\ sell'.exec > sell.exec /\ sell'.exec <= sell.vol
  /\ sell'.open <=> sell'.exec < sell.vol
  /\ held' = held - (sell'.exec - sell.exec)

\* An execution, of one lot or more.
LEMMA SellExecsGoes == IInv /\ SellExecutes => SellExecs
<1> SUFFICES ASSUME IInv, SellExecutes PROVE SellExecs OBVIOUS
<1>1. sell \in Orders /\ held \in 0..Lots BY DEF IInv, TypeOK, Orders
<1>2. PICK n \in 1..(sell.vol - sell.exec) :
        /\ sell' = [sell EXCEPT !.exec = @ + n, !.open = sell.exec + n < sell.vol]
        /\ held' = held - n
  BY DEF SellExecutes
<1>3. sell.open /\ sell.vol - sell.exec <= held /\ sell.exec <= sell.vol
  BY DEF SellExecutes, IInv, OrderOK
<1>4. n \in Nat /\ n > 0 /\ sell.exec + n <= sell.vol /\ sell.exec + n \in 0..Lots /\ held - n \in 0..Lots
  BY <1>1, <1>2, <1>3, LotsAssumption DEF Orders
<1> DEFINE u == [sell EXCEPT !.exec = @ + n]
           o == sell.exec + n < sell.vol
<1>5. u \in Orders /\ u.stage = sell.stage /\ u.vol = sell.vol /\ u.booked = sell.booked
      /\ u.exec = sell.exec + n
  BY <1>1, <1>4 DEF Orders
<1>6. sell' = [u EXCEPT !.open = o] BY <1>2
<1>7. o \in BOOLEAN OBVIOUS
<1>8. /\ sell' \in Orders /\ sell'.stage = sell.stage /\ sell'.vol = sell.vol
      /\ sell'.booked = sell.booked /\ sell'.exec = sell.exec + n /\ sell'.open = o
  <2> HIDE DEF u, o
  <2> QED BY <1>5, <1>6, <1>7 DEF Orders
<1>9. sell.stage \in 1..3 BY <1>1, <1>3 DEF IInv, OrderOK, ActiveExit, NoSell, Orders
<1>10. /\ sell'.exec > sell.exec /\ sell'.exec <= sell.vol
       /\ held' \in 0..Lots /\ held' = held - (sell'.exec - sell.exec)
  BY <1>1, <1>2, <1>4, <1>8 DEF Orders
<1>11. sell'.open <=> sell'.exec < sell.vol BY <1>8
<1> HIDE DEF o
<1> QED BY <1>3, <1>8, <1>9, <1>10, <1>11 DEF SellExecs

\* Reconciliation with a snapshot.
LEMMA ReconcileGoes ==
  ASSUME IInv
  PROVE  LET t == Reconciled(file, cyc.vol > 0, Managed)
         IN  /\ t \in Tracker /\ BeKept(t) /\ t.be = trk.be
             /\ cyc.vol > 0 => t.stage = trk.stage /\ t.peak = trk.peak
             /\ cyc.vol = 0 => t.stage = 0
<1> DEFINE h == cyc.vol > 0
           m == Managed
           t == Reconciled(file, h, m)
<1>1. h \in BOOLEAN /\ m \in BOOLEAN BY DEF Managed
<1>2. file \in Tracker /\ file = trk /\ BeKept(file) BY TracksInv DEF Tracks
<1>3. cyc.vol = 0 => ~h OBVIOUS
<1>4. cyc.vol > 0 => h OBVIOUS
<1>5. /\ t \in Tracker /\ BeKept(t) /\ t.be = trk.be
      /\ h => t.stage = trk.stage /\ t.peak = trk.peak
      /\ ~h => t.stage = 0
  <2> HIDE DEF h, m
  <2> QED BY <1>1, <1>2, ReconciledType
<1> QED BY <1>3, <1>4, <1>5

-----------------------------------------------------------------------------
(* Types *)

\* Every action keeps the types.
LEMMA TypeStep == IInv /\ [Next]_vars => TypeOK'
<1> SUFFICES ASSUME IInv, [Next]_vars PROVE TypeOK' OBVIOUS
<1> USE LotsAssumption, LevelsAssumption
<1>0. TypeOK /\ tick \in Ticks /\ cyc \in Cycles /\ sell \in Orders /\ Tracks
  BY TracksInv DEF IInv, TypeOK, Ticks, Cycles, Orders
<1>1. TickIdle \in Ticks /\ CycIdle \in Cycles /\ NoStop \in NoStop..Top
  BY TickIdleType, CycIdleType DEF NoStop
<1>2. CASE PriceMoves \/ OtherTick
  BY <1>0, <1>2 DEF PriceMoves, OtherTick, TypeOK
<1>3. CASE TimePasses
  <2>1. Older(trk) \in Tracker BY <1>0, AgedType DEF Tracks
  <2> QED BY <1>0, <1>3, <2>1 DEF TimePasses, TypeOK
<1>4. CASE ManualSell
  BY <1>0, <1>4 DEF ManualSell, TypeOK, NoSales
<1>5. CASE BuyExecutes
  BY <1>0, <1>5 DEF BuyExecutes, TypeOK
<1>6. CASE SellExecutes
  <2>1. SellExecs BY <1>6, SellExecsGoes
  <2>2. sales' \in [1..2 -> 0..2]
    <3>1. CASE held' = 0 BY <1>6, <3>1 DEF SellExecutes, NoSales
    <3>2. CASE held' # 0 /\ sell.stage < 3 /\ sell.exec = 0
      <4>1. sell.stage \in 1..2 /\ sales[sell.stage] \in 0..2
        BY <1>0, <2>1, <3>2 DEF SellExecs, TypeOK
      <4>2. Min({sales[sell.stage] + 1, 2}) \in 0..2 BY <4>1, MinOfTwo
      <4>3. sales' = [sales EXCEPT ![sell.stage] = Min({sales[sell.stage] + 1, 2})]
        BY <1>6, <3>2 DEF SellExecutes
      <4> HIDE LotsAssumption
      <4> QED BY <1>0, <4>1, <4>2, <4>3 DEF TypeOK
    <3>3. CASE held' # 0 /\ ~(sell.stage < 3 /\ sell.exec = 0)
      BY <1>0, <1>6, <3>3 DEF SellExecutes, TypeOK
    <3> QED BY <3>1, <3>2, <3>3
  <2> QED BY <1>0, <1>6, <2>1, <2>2 DEF SellExecutes, SellExecs, TypeOK, Orders
<1>7. CASE SellEnds
  <2>1. sell' \in Orders BY <1>0, <1>7 DEF SellEnds, Orders
  <2> QED BY <1>0, <1>7, <2>1 DEF SellEnds, TypeOK, Orders
<1>8. CASE BookSell
  <2>1. /\ AfterSale \in Tracker /\ LeftAfter \in 0..Lots /\ Booked \in Orders
    BY <1>8, BookedType DEF BookSell, Bookable
  <2> QED BY <1>0, <1>1, <1>8, <2>1 DEF BookSell, Write, TypeOK, Orders
<1>9. CASE BookBuy
  <2>1. PICK mode \in Mode : Write(Entered(trk, mode)) BY <1>9 DEF BookBuy
  <2>2. Entered(trk, mode) \in Tracker BY <1>0, AgedType DEF Tracks
  <2> QED BY <1>0, <1>9, <2>1, <2>2 DEF BookBuy, Write, TypeOK
<1>10. CASE TickSees
  BY <1>0, <1>10, TickSeesGoes DEF TypeOK, Ticks
<1>11. CASE TickNothing \/ TickReleases
  BY <1>0, <1>1, <1>11, ReadsBalanceType DEF TickNothing, TickReleases, Tick, TypeOK, Ticks
<1>12. CASE TickStop \/ TickSignal
  <2>1. TickGoes BY <1>12, TickStopGoes, TickSignalGoes
  <2> QED BY <1>0, <1>1, <2>1 DEF TickGoes, Keeps, TypeOK, Ticks
<1>13. CASE TickSubmits
  <2>1. sell' \in Orders BY <1>13, TickSubmitsGoes DEF Submits
  <2>2. tick' \in Ticks BY <1>1, <1>13 DEF TickSubmits, Tick, TickIdle, Ticks
  <2> QED BY <1>0, <1>13, <2>1, <2>2 DEF TickSubmits, Tick, TypeOK, Ticks, Orders
<1>14. CASE Refresh
  <2>1. cyc' \in Cycles BY <1>0, <1>1, <1>14 DEF Refresh, CycIdle, Cycles, TypeOK
  <2> QED BY <1>0, <1>14, <2>1 DEF Refresh, TypeOK, Cycles
<1>15. CASE ReconcileMarkets
  <2>1. Reconciled(file, cyc.vol > 0, Managed) \in Tracker BY <1>0, ReconcileGoes
  <2>2. cyc' \in Cycles BY <1>1, <1>15 DEF ReconcileMarkets, Cycle, CycIdle, Cycles
  <2> QED BY <1>0, <1>1, <1>15, <2>1, <2>2 DEF ReconcileMarkets, Cycle, Write, TypeOK, Cycles
<1>16. CASE NoExit \/ NotOurs \/ PriorityExits \/ AiEmergency \/ Rules \/ GatesClosed \/ CycleStopLoss
  <2>1. CycleGoes
    BY <1>16, NoExitGoes, PriorityExitsGoes, AiEmergencyGoes, RulesGoes, CycleStopLossGoes
  <2> QED BY <1>0, <2>1 DEF CycleGoes, Keeps, TypeOK, Cycles
<1>17. CASE SubmitBuy
  BY <1>0, <1>1, <1>17 DEF SubmitBuy, Cycle, TypeOK, Cycles
<1>18. CASE CycleSubmits
  <2>1. sell' \in Orders /\ cyc' \in Cycles BY <1>18, CycleSubmitsGoes DEF Submits
  <2> QED BY <1>0, <1>18, <2>1 DEF CycleSubmits, Cycle, TypeOK, Cycles, Orders
<1>19. CASE Restart \/ DieInFill
  <2>1. Crashes BY <1>19, CrashGoes
  <2> QED BY <1>0, <1>1, <2>1 DEF Crashes, TypeOK, Ticks, Cycles
<1>20. CASE UNCHANGED vars
  BY <1>0, <1>20 DEF vars, TypeOK
<1> QED
  BY <1>2, <1>3, <1>4, <1>5, <1>6, <1>7, <1>8, <1>9, <1>10, <1>11, <1>12, <1>13, <1>14, <1>15,
     <1>16, <1>17, <1>18, <1>19, <1>20 DEF Next, FillNext, TickNext, CycleNext

-----------------------------------------------------------------------------
(* The lock, the order and the threads *)

\* Every action keeps lock and threads together.
LEMMA LockStep == IInv /\ [Next]_vars => OneSeller'
<1> SUFFICES ASSUME IInv, [Next]_vars PROVE OneSeller' OBVIOUS
<1>0. OneSeller BY DEF IInv
<1>1. CASE UNCHANGED <<tick, cyc, lock>> BY <1>0, <1>1 DEF OneSeller
<1>2. CASE TickSees \/ TickNothing
  BY <1>0, <1>2, TickSeesGoes DEF TickNothing, Tick, TickIdle, OneSeller
<1>3. CASE TickStop \/ TickSignal
  BY <1>0, <1>3, TickStopGoes, TickSignalGoes DEF TickGoes, TickIdle, OneSeller
<1>4. CASE TickSubmits BY <1>0, <1>4 DEF TickSubmits, Tick, TickIdle, OneSeller
<1>5. CASE TickReleases BY <1>0, <1>5 DEF TickReleases, Tick, TickIdle, OneSeller
<1>6. CASE Refresh BY <1>0, <1>6 DEF Refresh, CycIdle, OneSeller
<1>7. CASE ReconcileMarkets BY <1>0, <1>7 DEF ReconcileMarkets, Cycle, CycIdle, OneSeller
<1>8. CASE CycleNext /\ ~Refresh /\ ~ReconcileMarkets /\ ~SubmitBuy /\ ~CycleSubmits
  <2>1. CycleGoes
    BY <1>8, NoExitGoes, PriorityExitsGoes, AiEmergencyGoes, RulesGoes, CycleStopLossGoes DEF CycleNext
  <2> QED BY <1>0, <2>1 DEF CycleGoes, OneSeller
<1>9. CASE SubmitBuy BY <1>0, <1>9 DEF SubmitBuy, Cycle, CycIdle, OneSeller
<1>10. CASE CycleSubmits
  <2>1. cyc'.pc # "sell" BY <1>10, CycleSubmitsGoes DEF CycIdle
  <2> QED BY <1>0, <1>10, <2>1 DEF CycleSubmits, Cycle, OneSeller
<1>11. CASE Restart \/ DieInFill
  BY <1>11, CrashGoes DEF Crashes, TickIdle, CycIdle, OneSeller
<1> QED
  BY <1>1, <1>2, <1>3, <1>4, <1>5, <1>6, <1>7, <1>8, <1>9, <1>10, <1>11
     DEF Next, vars, FillNext, TickNext, CycleNext, PriceMoves, TimePasses, ManualSell, OtherTick,
         BuyExecutes, SellExecutes, SellEnds, BookSell, BookBuy

\* Every action keeps the order's volumes in order.
LEMMA OrderStep == IInv /\ [Next]_vars => OrderOK'
<1> SUFFICES ASSUME IInv, [Next]_vars PROVE OrderOK' OBVIOUS
<1> USE LotsAssumption
<1>0. /\ OrderOK /\ BuyOK /\ sell \in Orders /\ held \in 0..Lots
  BY DEF IInv, TypeOK, Orders
<1>1. CASE UNCHANGED <<sell, held>> BY <1>0, <1>1 DEF OrderOK, ActiveExit
<1>2. CASE ManualSell BY <1>0, <1>2 DEF ManualSell, OrderOK, ActiveExit, NoSell
<1>3. CASE BuyExecutes BY <1>0, <1>3 DEF BuyExecutes, BuyOK, OrderOK, ActiveExit, NoSell
<1>4. CASE SellExecutes
  <2>1. SellExecs BY <1>4, SellExecsGoes
  <2> QED BY <1>0, <2>1 DEF SellExecs, OrderOK, ActiveExit, Orders
<1>5. CASE SellEnds
  <2>1. sell' = [sell EXCEPT !.open = FALSE] /\ held' = held /\ sell.open BY <1>5 DEF SellEnds
  <2>2. /\ sell'.stage = sell.stage /\ sell'.vol = sell.vol /\ sell'.exec = sell.exec
        /\ sell'.booked = sell.booked /\ ~sell'.open
    BY <1>0, <2>1 DEF Orders
  <2>3. ActiveExit BY <1>0, <2>1 DEF OrderOK, NoSell
  <2> QED BY <1>0, <2>1, <2>2, <2>3 DEF OrderOK, ActiveExit
<1>6. CASE BookSell
  <2>1. sell' = Booked /\ held' = held BY <1>6 DEF BookSell
  <2>2. CASE sell.open
    <3>1. sell' = [sell EXCEPT !.booked = sell.exec] BY <2>1, <2>2 DEF Booked
    <3>2. /\ sell'.stage = sell.stage /\ sell'.vol = sell.vol /\ sell'.exec = sell.exec
          /\ sell'.booked = sell.exec /\ sell'.open = sell.open
      BY <1>0, <3>1 DEF Orders
    <3>3. ActiveExit BY <1>0, <2>2 DEF OrderOK, NoSell
    <3> QED BY <1>0, <2>1, <2>2, <3>2, <3>3 DEF OrderOK, ActiveExit, Orders
  <2>3. CASE ~sell.open
    <3>1. sell' = NoSell BY <2>1, <2>3 DEF Booked
    <3> QED BY <3>1 DEF OrderOK, ActiveExit, NoSell
  <2> QED BY <2>2, <2>3
<1>7. CASE TickSubmits \/ CycleSubmits
  <2>1. PICK stage \in 1..3, vol \in 1..Lots :
          Submits(stage, vol) /\ (stage = 3 => vol >= held)
    BY <1>7, TickSubmitsGoes, CycleSubmitsGoes
  <2>2. held' = held BY <1>7 DEF TickSubmits, CycleSubmits, Tick, Cycle
  <2> QED BY <1>0, <2>1, <2>2 DEF Submits, OrderOK, ActiveExit, Orders
<1>8. CASE CycleNext /\ ~CycleSubmits
  <2>1. UNCHANGED <<sell, held>>
    BY <1>8, NoExitGoes, PriorityExitsGoes, AiEmergencyGoes, RulesGoes, CycleStopLossGoes
       DEF CycleNext, CycleGoes, Refresh, ReconcileMarkets, SubmitBuy, Cycle
  <2> QED BY <1>1, <2>1
<1>9. CASE TickNext /\ ~TickSubmits
  <2>1. UNCHANGED <<sell, held>>
    BY <1>9, TickStopGoes, TickSignalGoes
       DEF TickNext, TickGoes, TickSees, TickNothing, TickReleases, Tick
  <2> QED BY <1>1, <2>1
<1>10. CASE Restart \/ DieInFill
  BY <1>1, <1>10, CrashGoes DEF Crashes
<1> QED
  BY <1>1, <1>2, <1>3, <1>4, <1>5, <1>6, <1>7, <1>8, <1>9, <1>10
     DEF Next, vars, FillNext, PriceMoves, TimePasses, OtherTick, BookBuy

\* Every action keeps what the threads have read true.
LEMMA ThreadsStep == IInv /\ [Next]_vars => ThreadsOK'
<1> SUFFICES ASSUME IInv, [Next]_vars PROVE ThreadsOK' OBVIOUS
<1> USE LotsAssumption
<1>0. /\ ThreadsOK /\ BuyOK /\ tick \in Ticks /\ cyc \in Cycles /\ held \in 0..Lots
  BY DEF IInv, TypeOK, Ticks, Cycles
<1>1. CASE UNCHANGED <<tick, cyc>> /\ held' <= held /\ held' \in 0..Lots
  BY <1>0, <1>1 DEF ThreadsOK, Ticks, Cycles
<1>2. CASE BuyExecutes
  BY <1>0, <1>2 DEF BuyExecutes, BuyOK, ThreadsOK, Cycles
<1>3. CASE SellExecutes
  <2>1. held' <= held /\ held' \in 0..Lots BY <1>0, <1>3, SellExecsGoes DEF SellExecs, Orders, IInv, TypeOK
  <2> QED BY <1>1, <1>3, <2>1 DEF SellExecutes
<1>4. CASE TickNext
  <2>1. UNCHANGED <<held, cyc>> /\ (tick'.pc = "sell" => tick'.stage # 0 /\ tick'.vol > 0
          /\ (tick'.stage = 3 => tick'.vol >= held))
    <3>1. CASE TickSees BY <3>1, TickSeesGoes
    <3>2. CASE TickNothing \/ TickSubmits \/ TickReleases
      BY <3>2 DEF TickNothing, TickSubmits, TickReleases, Tick, TickIdle
    <3>3. CASE TickStop \/ TickSignal
      BY <1>0, <3>3, TickStopGoes, TickSignalGoes DEF TickGoes, TickIdle
    <3> QED BY <1>4, <3>1, <3>2, <3>3 DEF TickNext
  <2> QED BY <1>0, <2>1 DEF ThreadsOK
<1>5. CASE Refresh \/ ReconcileMarkets \/ SubmitBuy
  <2>1. UNCHANGED <<held, tick>> /\ cyc'.pc \in {"idle", "snapshot", "market"}
        /\ (cyc'.pc \in {"idle", "market"} => cyc'.vol = 0)
    <3>1. CASE Refresh
      <4>1. [CycIdle EXCEPT !.pc = "snapshot", !.vol = held].pc = "snapshot" BY DEF CycIdle
      <4> QED BY <3>1, <4>1 DEF Refresh
    <3>2. CASE ReconcileMarkets BY <3>2 DEF ReconcileMarkets, Cycle, CycIdle
    <3>3. CASE SubmitBuy BY <3>3 DEF SubmitBuy, Cycle, CycIdle
    <3> QED BY <1>5, <3>1, <3>2, <3>3
  <2> QED BY <1>0, <2>1 DEF ThreadsOK
<1>6. CASE CycleSubmits
  <2>1. UNCHANGED <<held, tick>> BY <1>6 DEF CycleSubmits, Cycle
  <2> QED BY <1>0, <1>6, <2>1, CycleSubmitsGoes DEF ThreadsOK, CycIdle
<1>7. CASE CycleNext /\ ~(Refresh \/ ReconcileMarkets \/ SubmitBuy \/ CycleSubmits)
  <2>1. CycleGoes
    BY <1>7, NoExitGoes, PriorityExitsGoes, AiEmergencyGoes, RulesGoes, CycleStopLossGoes DEF CycleNext
  <2> QED BY <1>0, <2>1 DEF CycleGoes, ThreadsOK
<1>8. CASE Restart \/ DieInFill
  BY <1>8, CrashGoes DEF Crashes, TickIdle, CycIdle, ThreadsOK
<1>9. CASE ManualSell
  BY <1>0, <1>1, <1>9 DEF ManualSell
<1> QED
  BY <1>0, <1>1, <1>2, <1>3, <1>4, <1>5, <1>6, <1>7, <1>8, <1>9
     DEF Next, vars, FillNext, PriceMoves, TimePasses, OtherTick, BookBuy, BookSell, SellEnds

-----------------------------------------------------------------------------
(* A position that begins *)

\* The steps of the cycle at a market's turn.
CycleTurn == NoExit \/ NotOurs \/ PriorityExits \/ AiEmergency \/ Rules \/ GatesClosed \/ CycleStopLoss

\* Every one of them is a turn.
LEMMA CycleTurnGoes == IInv /\ CycleTurn => CycleGoes
BY NoExitGoes, PriorityExitsGoes, AiEmergencyGoes, RulesGoes, CycleStopLossGoes DEF CycleTurn

\* The steps that only write the tracker, and no stage of it.
LEMMA TrackerGoes ==
  ASSUME IInv, TimePasses \/ BookBuy
  PROVE  /\ Keeps /\ (buy' = "open" => buy = "open")
         /\ trk.peak = trk'.peak
         /\ UNCHANGED <<low, held, sell, left, dyn, tick, cyc, lock, hits, watch, cool, crashes, sales>>
<1>1. trk \in Tracker /\ file = trk /\ BeKept(trk) BY TracksInv DEF Tracks
<1>2. CASE TimePasses
  <2>1. LET t == Older(trk)
        IN  t \in Tracker /\ BeKept(t) /\ t.stage = trk.stage /\ t.peak = trk.peak /\ (trk.be => t.be)
    BY <1>1, AgedType, LevelsAssumption
  <2> QED BY <1>1, <1>2, <2>1 DEF TimePasses, Keeps, BeKept
<1>3. CASE BookBuy
  <2>1. PICK mode \in Mode : Write(Entered(trk, mode)) BY <1>3 DEF BookBuy
  <2>2. LET t == Entered(trk, mode)
        IN  t \in Tracker /\ BeKept(t) /\ t.stage = trk.stage /\ t.peak = trk.peak /\ (trk.be => t.be)
    BY <1>1, AgedType
  <2> QED BY <1>1, <1>3, <2>1, <2>2 DEF BookBuy, Write, Keeps, BeKept
<1> QED BY <1>2, <1>3

\* A BUY leaves with a clean tracker, and it stays clean until the BUY executes.
LEMMA BuyStep == IInv /\ [Next]_vars => BuyOK'
<1> SUFFICES ASSUME IInv, [Next]_vars, buy' = "open"
             PROVE  /\ held' = 0 /\ ~ActiveExit' /\ cyc'.vol = 0 /\ tick'.pc \in {"idle", "seen"}
                    /\ trk'.stage = 0 /\ dyn' = NoStop
  BY DEF BuyOK
<1> USE LotsAssumption
<1>0. TypeOK /\ OrderOK /\ ThreadsOK /\ BuyOK /\ FreshOK BY DEF IInv
<1>1. CASE SubmitBuy
  BY <1>0, <1>1 DEF SubmitBuy, Cycle, CycIdle, FreshOK, ActiveExit
<1>2. CASE ~SubmitBuy /\ buy # "open"
  <2>1. ~BuyExecutes /\ ~BookBuy BY DEF BuyExecutes, BookBuy
  <2>2. CASE CycleTurn BY <1>2, <2>2, CycleTurnGoes DEF CycleGoes
  <2>3. CASE TickNext
    BY <1>2, <2>3, TickSeesGoes, TickStopGoes, TickSignalGoes
       DEF TickNext, TickGoes, TickNothing, TickSubmits, TickReleases, Tick
  <2>4. CASE Restart \/ DieInFill BY <1>2, <2>4, CrashGoes DEF Crashes
  <2> QED
    BY <1>2, <2>1, <2>2, <2>3, <2>4
       DEF Next, vars, FillNext, CycleNext, CycleTurn, PriceMoves, TimePasses, ManualSell, OtherTick,
           SellExecutes, SellEnds, BookSell, Refresh, ReconcileMarkets, CycleSubmits
<1>3. CASE ~SubmitBuy /\ buy = "open"
  <2>0. /\ held = 0 /\ ~ActiveExit /\ sell = NoSell /\ cyc.vol = 0 /\ tick.pc \in {"idle", "seen"}
        /\ trk.stage = 0 /\ dyn = NoStop /\ cyc.pc \notin {"ai", "sell"}
    BY <1>0, <1>3 DEF BuyOK, OrderOK, ThreadsOK
  <2>1. CASE PriceMoves \/ OtherTick \/ UNCHANGED vars
    BY <2>0, <2>1 DEF PriceMoves, OtherTick, vars, ActiveExit
  <2>2. CASE TimePasses \/ BookBuy
    BY <2>0, <2>2, TrackerGoes DEF ActiveExit, Keeps
  <2>3. ~ManualSell /\ ~BuyExecutes /\ ~SellExecutes /\ ~SellEnds /\ ~BookSell
    BY <2>0 DEF ManualSell, BuyExecutes, SellExecutes, SellEnds, BookSell, Bookable, NoSell
  <2>4. CASE TickSees BY <2>0, <2>4, TickSeesGoes DEF ActiveExit
  <2>5. CASE TickNothing BY <2>0, <2>5 DEF TickNothing, Tick, TickIdle, ActiveExit
  <2>6. ~TickStop /\ ~TickSignal /\ ~TickSubmits /\ ~TickReleases
    BY <2>0 DEF TickStop, TickSignal, TickSubmits, TickReleases, Tick
  <2>7. CASE Refresh BY <2>0, <2>7 DEF Refresh, CycIdle, ActiveExit
  <2>8. CASE ReconcileMarkets
    <3>1. trk' = Reconciled(file, cyc.vol > 0, Managed) BY <2>8 DEF ReconcileMarkets, Write
    <3>2. trk'.stage = 0 BY <2>0, <3>1, ReconcileGoes
    <3> QED BY <2>0, <2>8, <3>2 DEF ReconcileMarkets, Cycle, CycIdle, ActiveExit
  <2>9. CASE CycleTurn
    <3>1. CycleGoes BY <2>9, CycleTurnGoes
    <3>2. cyc'.vol \in Nat BY <3>1 DEF CycleGoes, Cycles
    <3> QED BY <2>0, <3>1, <3>2 DEF CycleGoes, Keeps, ActiveExit
  <2>10. ~CycleSubmits BY <2>0 DEF CycleSubmits, Cycle
  <2>11. CASE Restart \/ DieInFill
    BY <2>0, <2>11, CrashGoes DEF Crashes, TickIdle, CycIdle, ActiveExit
  <2> QED
    BY <1>3, <2>1, <2>2, <2>3, <2>4, <2>5, <2>6, <2>7, <2>8, <2>9, <2>10, <2>11
       DEF Next, FillNext, TickNext, CycleNext, CycleTurn
<1> QED BY <1>1, <1>2, <1>3

\* A cycle that begins has booked every order, so that nothing of a position
\* that is gone is still to be booked.
LEMMA RefreshGoes ==
  ASSUME IInv, Refresh
  PROVE  /\ cyc.pc = "idle" /\ cyc'.pc = "snapshot" /\ cyc'.vol = held /\ ~cool'
         /\ UNCHANGED <<low, held, buy, sell, left, trk, file, dyn, tick, lock, hits, watch, crashes, sales>>
         /\ held = 0 => ~ActiveExit
<1>1. cyc' = [CycIdle EXCEPT !.pc = "snapshot", !.vol = held] /\ cyc.pc = "idle" /\ ~Bookable
      /\ ~cool'
  BY DEF Refresh
<1>2. cyc'.pc = "snapshot" /\ cyc'.vol = held BY <1>1 DEF CycIdle
<1>3. ActiveExit => sell.open BY <1>1 DEF Bookable, SnapshotUsed
<1>4. sell.open => held > 0
  BY LotsAssumption DEF IInv, TypeOK, OrderOK
<1>5. held = 0 => ~ActiveExit BY <1>3, <1>4, LotsAssumption DEF IInv, TypeOK
<1> QED BY <1>1, <1>2, <1>5 DEF Refresh

\* Booking keeps the order while it is at the exchange, and cools the market
\* if something of it was sold.
LEMMA BookSellGoes ==
  ASSUME IInv, BookSell
  PROVE  /\ ActiveExit /\ SnapshotUsed
         /\ ActiveExit' => sell'.stage = sell.stage /\ ~(Delta > 0)'
         /\ held = 0 => cool'
         /\ cool => cool'
         /\ UNCHANGED <<low, held, buy, tick, cyc, lock, hits, watch, crashes, sales>>
         /\ trk' = AfterSale /\ file' = trk'
<1>1. ActiveExit /\ SnapshotUsed /\ sell \in Orders
  BY DEF BookSell, Bookable, IInv, TypeOK, Orders
<1>2. cool' = (cool \/ Delta > 0) /\ sell' = Booked BY DEF BookSell
<1>3. held = 0 => cool' BY <1>1, <1>2 DEF IInv, FreshOK
<1>4. CASE sell.open
  <2>1. sell' = [sell EXCEPT !.booked = sell.exec] BY <1>2, <1>4 DEF Booked
  <2>2. sell'.stage = sell.stage /\ sell'.booked = sell.exec /\ sell'.exec = sell.exec
    BY <1>1, <2>1 DEF Orders
  <2>3. ~(Delta > 0)' BY <1>1, <2>2, LotsAssumption DEF Delta, Orders
  <2> QED BY <1>1, <1>2, <1>3, <2>2, <2>3 DEF BookSell, Write
<1>5. CASE ~sell.open
  <2>1. ~ActiveExit' BY <1>2, <1>5 DEF Booked, ActiveExit, NoSell
  <2> QED BY <1>1, <1>2, <1>3, <2>1 DEF BookSell, Write
<1> QED BY <1>4, <1>5

\* Every action keeps the ways in which a position may be gone.
LEMMA FreshStep == IInv /\ [Next]_vars => FreshOK'
<1> SUFFICES ASSUME IInv, [Next]_vars PROVE FreshOK' OBVIOUS
<1> USE LotsAssumption
<1>0. /\ TypeOK /\ OrderOK /\ ThreadsOK /\ FreshOK
      /\ sell \in Orders /\ cyc \in Cycles /\ held \in 0..Lots
  BY DEF IInv, TypeOK, Orders, Cycles
<1>1. CASE PriceMoves \/ OtherTick \/ UNCHANGED vars
  BY <1>0, <1>1 DEF PriceMoves, OtherTick, vars, FreshOK, ActiveExit, Delta, NoSales
<1>2. CASE TimePasses \/ BookBuy
  BY <1>0, <1>2, TrackerGoes DEF Keeps, FreshOK, ActiveExit, Delta, NoSales
<1>3. CASE ManualSell
  BY <1>0, <1>3 DEF ManualSell, FreshOK, ActiveExit, NoSales
<1>4. CASE BuyExecutes
  <2>1. held' # 0 BY <1>4 DEF BuyExecutes
  <2> QED BY <2>1 DEF FreshOK
<1>5. CASE SellExecutes
  <2>1. SellExecs BY <1>5, SellExecsGoes
  <2>2. ActiveExit' /\ (Delta > 0)'
    BY <1>0, <2>1 DEF SellExecs, ActiveExit, Delta, OrderOK, Orders
  <2>3. held' = 0 => sales' = NoSales BY <1>5 DEF SellExecutes
  <2> QED BY <2>2, <2>3 DEF FreshOK, NoSales
<1>6. CASE SellEnds
  <2>1. held # 0 BY <1>0, <1>6 DEF SellEnds, OrderOK, Orders
  <2>2. held' = held BY <1>6 DEF SellEnds
  <2> QED BY <2>1, <2>2 DEF FreshOK
<1>7. CASE BookSell
  <2>1. held = 0 => cool' BY <1>7, BookSellGoes
  <2>2. UNCHANGED <<held, cyc, sales>> BY <1>7, BookSellGoes
  <2> QED BY <1>0, <2>1, <2>2 DEF FreshOK, NoSales
<1>8. CASE TickSees \/ TickNothing \/ TickReleases
  <2>1. UNCHANGED <<held, sales, sell, cyc, cool, trk, dyn>>
    BY <1>8, TickSeesGoes DEF TickNothing, TickReleases, Tick
  <2> QED BY <1>0, <2>1 DEF FreshOK, ActiveExit, Delta, NoSales
<1>9. CASE TickStop \/ TickSignal
  <2>1. held' # 0 BY <1>9, TickStopGoes, TickSignalGoes DEF TickGoes
  <2> QED BY <2>1 DEF FreshOK
<1>10. CASE TickSubmits \/ CycleSubmits
  <2>1. PICK stage \in 1..3, vol \in 1..Lots : Submits(stage, vol)
    BY <1>10, TickSubmitsGoes, CycleSubmitsGoes
  <2>2. UNCHANGED <<held, sales, cool, trk, dyn>>
    BY <1>10 DEF TickSubmits, Tick, CycleSubmits, Cycle
  <2>3. sell' = sell \/ held # 0 BY <1>0, <2>1 DEF Submits
  <2>4. cyc' = cyc \/ cyc' = CycIdle \/ (cyc'.pc = "gating" /\ cyc'.vol > 0)
    BY <1>10, CycleSubmitsGoes DEF TickSubmits, Tick
  <2>5. CASE held # 0 BY <2>2, <2>5 DEF FreshOK
  <2>6. CASE sell' = sell BY <1>0, <2>2, <2>4, <2>6 DEF FreshOK, ActiveExit, Delta, CycIdle, NoSales
  <2> QED BY <2>3, <2>5, <2>6
<1>11. CASE Refresh
  BY <1>0, <1>11, RefreshGoes DEF FreshOK, ActiveExit, Delta, NoSales
<1>12. CASE ReconcileMarkets
  <2>1. /\ cyc.pc = "snapshot" /\ cyc'.pc = "market" /\ UNCHANGED <<held, sales, sell, cool>>
        /\ trk' = Reconciled(file, cyc.vol > 0, Managed)
        /\ dyn' = IF cyc.vol > 0 THEN dyn ELSE NoStop
    BY <1>12 DEF ReconcileMarkets, Cycle, CycIdle, Write
  <2>2. cyc.vol = 0 => trk'.stage = 0 BY <2>1, ReconcileGoes
  <2>3. cyc.vol = 0 \/ cyc.vol > 0 BY <1>0 DEF Cycles
  <2> QED BY <1>0, <2>1, <2>2, <2>3 DEF FreshOK, ActiveExit, Delta, NoSales
<1>13. CASE CycleTurn
  <2>1. CycleGoes BY <1>13, CycleTurnGoes
  <2>2. cyc'.pc = "gating" /\ cyc'.vol = 0 => cyc.pc = "market" /\ cyc.vol = 0 /\ dyn' = dyn
    BY <1>0, <2>1 DEF CycleGoes, ThreadsOK
  <2> QED BY <1>0, <2>1, <2>2 DEF CycleGoes, Keeps, FreshOK, ActiveExit, Delta, NoSales
<1>14. CASE SubmitBuy
  BY <1>0, <1>14 DEF SubmitBuy, Cycle, CycIdle, FreshOK, ActiveExit, Delta, NoSales
<1>15. CASE Restart \/ DieInFill
  BY <1>0, <1>15, CrashGoes DEF Crashes, CycIdle, FreshOK, ActiveExit, Delta, NoSales
<1> QED
  BY <1>1, <1>2, <1>3, <1>4, <1>5, <1>6, <1>7, <1>8, <1>9, <1>10, <1>11, <1>12, <1>13, <1>14, <1>15
     DEF Next, FillNext, TickNext, CycleNext, CycleTurn

-----------------------------------------------------------------------------
(* What was sold is marked *)

\* Every action keeps what was sold marked.
LEMMA MarkedStep == IInv /\ [Next]_vars => MarkedOK'
<1> SUFFICES ASSUME IInv, [Next]_vars PROVE MarkedOK' OBVIOUS
<1> USE LotsAssumption
<1>0. /\ TypeOK /\ OrderOK /\ ThreadsOK /\ FreshOK /\ MarkedOK /\ BuyOK
      /\ sell \in Orders /\ cyc \in Cycles /\ held \in 0..Lots /\ trk.stage \in 0..2
      /\ \A s \in 1..2 : sales[s] \in 0..2
  BY DEF IInv, TypeOK, Orders, Cycles, Tracker
<1>1. CASE PriceMoves \/ OtherTick \/ UNCHANGED vars
  BY <1>0, <1>1 DEF PriceMoves, OtherTick, vars, MarkedOK, Delta
<1>2. CASE TimePasses \/ BookBuy
  BY <1>0, <1>2, TrackerGoes DEF Keeps, BeKept, MarkedOK, Delta
<1>3. CASE ManualSell
  BY <1>0, <1>3 DEF ManualSell, MarkedOK
<1>4. CASE BuyExecutes
  <2>1. \A s \in 1..2 : sales'[s] = 0
    BY <1>0, <1>4 DEF BuyExecutes, BuyOK, FreshOK, NoSales
  <2>2. trk' = trk /\ cyc' = cyc /\ trk.stage = 0 BY <1>0, <1>4 DEF BuyExecutes, BuyOK
  <2> QED BY <1>0, <2>1, <2>2 DEF MarkedOK
<1>5. CASE SellExecutes
  <2>1. SellExecs BY <1>5, SellExecsGoes
  <2>2. (Delta > 0)' /\ sell'.stage = sell.stage
    BY <1>0, <2>1 DEF SellExecs, Delta, OrderOK, Orders
  <2>3. UNCHANGED <<trk, cyc>> /\ held > 0
    BY <1>0, <1>5, <2>1 DEF SellExecutes, SellExecs, OrderOK, Orders
  <2>4. ASSUME NEW s \in 1..2, held' > 0, sales'[s] > 0
        PROVE  s = sell.stage \/ sales[s] > 0
    <3>1. sales' = IF sell.stage < 3 /\ sell.exec = 0
                   THEN [sales EXCEPT ![sell.stage] = Min({@ + 1, 2})] ELSE sales
      BY <1>5, <2>4 DEF SellExecutes
    <3>2. CASE s # sell.stage
      <4>1. sales'[s] = sales[s] BY <1>0, <3>1, <3>2 DEF TypeOK
      <4> QED BY <2>4, <4>1
    <3> QED BY <3>2
  <2> QED BY <1>0, <2>2, <2>3, <2>4 DEF MarkedOK
<1>6. CASE SellEnds
  <2>1. UNCHANGED <<trk, cyc, held, sales>> /\ sell' = [sell EXCEPT !.open = FALSE]
    BY <1>6 DEF SellEnds
  <2>2. sell'.stage = sell.stage /\ Delta' = Delta BY <1>0, <2>1 DEF Delta, Orders
  <2> QED BY <1>0, <2>1, <2>2 DEF MarkedOK
<1>7. CASE BookSell
  <2>1. /\ ActiveExit /\ SnapshotUsed /\ trk' = AfterSale
        /\ UNCHANGED <<held, cyc, sales>>
    BY <1>7, BookSellGoes
  <2>2. /\ AfterSale \in Tracker /\ BeKept(AfterSale)
        /\ held > 0 => AfterSale.stage >= trk.stage
        /\ held > 0 /\ sell.stage < 3 /\ Delta > 0 => AfterSale.stage >= sell.stage
    BY <2>1, BookedType
  <2>3. ~(cyc.pc = "snapshot" /\ cyc.vol = 0) BY <2>1 DEF SnapshotUsed
  <2>4. AfterSale.stage \in 0..2 BY <2>2 DEF Tracker
  <2> QED BY <1>0, <2>1, <2>2, <2>3, <2>4 DEF MarkedOK, BeKept
<1>8. CASE TickSees \/ TickNothing \/ TickReleases
  <2>1. UNCHANGED <<held, sales, sell, cyc, trk>>
    BY <1>8, TickSeesGoes DEF TickNothing, TickReleases, Tick
  <2> QED BY <1>0, <2>1 DEF MarkedOK, Delta
<1>9. CASE TickStop \/ TickSignal
  <2>1. TickGoes BY <1>9, TickStopGoes, TickSignalGoes
  <2> QED BY <1>0, <2>1 DEF TickGoes, Keeps, BeKept, MarkedOK, Delta
<1>10. CASE TickSubmits \/ CycleSubmits
  <2>1. PICK stage \in 1..3, vol \in 1..Lots : Submits(stage, vol)
    BY <1>10, TickSubmitsGoes, CycleSubmitsGoes
  <2>2. UNCHANGED <<held, sales, trk>>
    BY <1>10 DEF TickSubmits, Tick, CycleSubmits, Cycle
  <2>3. cyc' = cyc \/ cyc'.pc # "snapshot"
    BY <1>10, CycleSubmitsGoes DEF TickSubmits, Tick, CycIdle
  <2>4. CASE sell' = sell
    BY <1>0, <2>2, <2>3, <2>4 DEF MarkedOK, Delta
  <2>5. CASE ~ActiveExit
    <3>1. sell.stage = 0 BY <2>5 DEF ActiveExit
    <3> QED BY <1>0, <2>2, <2>3, <3>1 DEF MarkedOK, Delta
  <2> QED BY <2>1, <2>4, <2>5 DEF Submits
<1>11. CASE Refresh
  BY <1>0, <1>11, RefreshGoes DEF MarkedOK, Delta
<1>12. CASE ReconcileMarkets
  <2>1. /\ cyc.pc = "snapshot" /\ cyc'.pc = "market" /\ UNCHANGED <<held, sales, sell>>
        /\ trk' = Reconciled(file, cyc.vol > 0, Managed)
    BY <1>12 DEF ReconcileMarkets, Cycle, CycIdle, Write
  <2>2. /\ BeKept(trk)' /\ (cyc.vol = 0 => trk'.stage = 0)
        /\ cyc.vol > 0 => trk'.stage = trk.stage
    BY <2>1, ReconcileGoes DEF BeKept
  <2>3. cyc.vol = 0 \/ cyc.vol > 0 BY <1>0 DEF Cycles
  <2> QED BY <1>0, <2>1, <2>2, <2>3 DEF MarkedOK, BeKept, Delta
<1>13. CASE CycleTurn
  <2>1. CycleGoes BY <1>13, CycleTurnGoes
  <2> QED BY <1>0, <2>1 DEF CycleGoes, Keeps, BeKept, MarkedOK, Delta
<1>14. CASE SubmitBuy
  BY <1>0, <1>14 DEF SubmitBuy, Cycle, CycIdle, MarkedOK, Delta
<1>15. CASE Restart \/ DieInFill
  <2>1. Crashes BY <1>15, CrashGoes
  <2>2. trk'.stage \in 0..2 BY <2>1 DEF Crashes, Tracker
  <2> QED BY <1>0, <2>1, <2>2 DEF Crashes, CycIdle, MarkedOK, BeKept, Delta
<1> QED
  BY <1>1, <1>2, <1>3, <1>4, <1>5, <1>6, <1>7, <1>8, <1>9, <1>10, <1>11, <1>12, <1>13, <1>14, <1>15
     DEF Next, FillNext, TickNext, CycleNext, CycleTurn

-----------------------------------------------------------------------------
(* The theorems *)

\* The initial state.
LEMMA InitHolds == Init => IInv
<1> SUFFICES ASSUME Init PROVE IInv OBVIOUS
<1> USE LotsAssumption, LevelsAssumption
<1>1. TypeOK
  <2>1. trk \in Tracker /\ file = trk BY NoPositionType DEF Init
  <2>2. tick \in Ticks /\ cyc \in Cycles BY TickIdleType, CycIdleType DEF Init
  <2>3. sell \in Orders BY DEF Init, NoSell, Orders
  <2>4. dyn \in NoStop..Top BY DEF Init, NoStop
  <2>5. sales \in [1..2 -> 0..2] BY DEF Init, NoSales
  <2>6. /\ held \in 0..Lots /\ left \in 0..Lots /\ buy = "none"
        /\ lock = "free" /\ hits \in 0..Hits /\ watch = "unset"
        /\ crashes \in 0..MaxCrashes
    BY DEF Init
  <2>7. low \in BOOLEAN /\ cool \in BOOLEAN BY DEF Init
  <2> QED BY <2>1, <2>2, <2>3, <2>4, <2>5, <2>6, <2>7 DEF TypeOK, Orders, Ticks, Cycles
<1> USE DEF Init
<1>2. OneSeller BY DEF OneSeller, TickIdle, CycIdle
<1>3. OrderOK BY DEF OrderOK, ActiveExit, NoSell
<1>4. ThreadsOK BY DEF ThreadsOK, TickIdle, CycIdle
<1>5. BuyOK BY DEF BuyOK
<1>6. FreshOK BY DEF FreshOK, ActiveExit, NoSell, CycIdle
<1>7. MarkedOK BY DEF MarkedOK, NoPosition
<1> QED BY <1>1, <1>2, <1>3, <1>4, <1>5, <1>6, <1>7 DEF IInv

\* Every step.
LEMMA Inductive == IInv /\ [Next]_vars => IInv'
BY TypeStep, LockStep, OrderStep, ThreadsStep, BuyStep, FreshStep, MarkedStep DEF IInv

\* The strengthened invariant of every behaviour.
LEMMA Invariance == Spec => []IInv
BY InitHolds, Inductive, PTL DEF Spec

\* Every variable keeps its type, and the tracker on disk is the one in memory:
\* no volume the bot computes is more than a BUY has bought.
THEOREM TypeCorrect == Spec => []TypeOK
<1>1. IInv => TypeOK BY DEF IInv
<1> QED BY <1>1, Invariance, PTL

\* The exit lock is held by the thread that will release it and by no other
\* (acquire_exit_lock, release_exit_lock), whichever turn the cycle takes.
THEOREM LockHasOneHolder == Spec => []OneSeller
<1>1. IInv => OneSeller BY DEF IInv
<1> QED BY <1>1, Invariance, PTL

\* No partial sale that is booked is missing in the tracker: not after a crash
\* between tracker and journal, nor after a reconciliation with an old snapshot
\* (process_order_fill, reconcile_markets).
THEOREM SoldAlwaysMarked == Spec => []SoldIsMarked
<1>1. IInv => SoldIsMarked
  <2> SUFFICES ASSUME IInv, held > 0, ~ActiveExit, NEW s \in 1..2, sales[s] > 0
               PROVE  trk.stage >= s
    BY DEF SoldIsMarked
  <2>1. sell.stage # s BY DEF ActiveExit
  <2> QED BY <2>1 DEF IInv, MarkedOK
<1> QED BY <1>1, Invariance, PTL

\* A position begins with no stage and no AI stop of the one before it, however
\* that one ended (reconcile_markets, clear).
THEOREM PositionsBeginFresh == Spec => FreshStart
<1>1. IInv /\ [Next]_vars => [Opens => trk.stage = 0 /\ dyn = NoStop]_vars
  <2> SUFFICES ASSUME IInv, Next, Opens PROVE trk.stage = 0 /\ dyn = NoStop
    BY DEF vars, Opens
  <2>1. held = 0 /\ held' > 0 BY DEF Opens
  <2>2. CASE BuyExecutes BY <2>2 DEF BuyExecutes, IInv, BuyOK
  <2>3. CASE SellExecutes
    <3>1. held' = held - (sell'.exec - sell.exec) /\ sell'.exec > sell.exec
          /\ sell \in Orders /\ sell' \in Orders
      BY <2>3, SellExecsGoes DEF SellExecs, IInv, TypeOK, Orders
    <3> QED BY <2>1, <3>1, LotsAssumption DEF Orders
  <2>4. CASE TickNext
    BY <2>1, <2>4, TickSeesGoes, TickStopGoes, TickSignalGoes
       DEF TickNext, TickGoes, TickNothing, TickSubmits, TickReleases, Tick
  <2>5. CASE CycleNext
    BY <2>1, <2>5, CycleTurnGoes, RefreshGoes
       DEF CycleNext, CycleTurn, CycleGoes, ReconcileMarkets, SubmitBuy, CycleSubmits, Cycle
  <2>6. CASE Restart \/ DieInFill BY <2>1, <2>6, CrashGoes DEF Crashes
  <2> QED
    BY <2>1, <2>2, <2>3, <2>4, <2>5, <2>6
       DEF Next, FillNext, PriceMoves, TimePasses, ManualSell, OtherTick, SellEnds, BookSell, BookBuy
<1> QED BY <1>1, Invariance, PTL DEF Spec, FreshStart

\* While a position lasts, no step takes a stage or the breakeven stop back: no
\* price, booking, reconciliation or restart.
THEOREM ProtectionAlwaysKept == Spec => ProtectionKept
<1> DEFINE Kept == held > 0 /\ held' > 0 /\ left' > 0 =>
                     /\ trk'.stage >= trk.stage
                     /\ BreakevenActive(trk) => BreakevenActive(trk')
<1>1. IInv /\ [Next]_vars => [Kept]_vars
  <2> SUFFICES ASSUME IInv, Next, held > 0, held' > 0
               PROVE  trk'.stage >= trk.stage /\ (BreakevenActive(trk) => BreakevenActive(trk'))
    BY DEF vars
  <2>0. /\ trk \in Tracker /\ BeKept(trk) /\ file = trk /\ trk.stage \in 0..2
        /\ trk.peak \in Int /\ AutoBreakeven \in Int
    BY TracksInv, LevelsAssumption DEF Tracks, Tracker
  <2>1. CASE trk' = trk BY <2>0, <2>1
  <2>2. CASE Keeps
    <3>1. trk'.stage = trk.stage /\ (trk.be => trk'.be) BY <2>2 DEF Keeps
    <3> QED BY <2>0, <3>1 DEF BeKept, BreakevenActive
  <2>3. CASE TimePasses \/ BookBuy BY <2>2, <2>3, TrackerGoes
  <2>4. CASE BookSell
    BY <2>4, BookSellGoes, BookedType
  <2>5. CASE TickNext
    BY <2>1, <2>2, <2>5, TickSeesGoes, TickStopGoes, TickSignalGoes
       DEF TickNext, TickGoes, TickNothing, TickSubmits, TickReleases, Tick
  <2>6. CASE CycleTurn BY <2>2, <2>6, CycleTurnGoes DEF CycleGoes
  <2>7. CASE ReconcileMarkets
    <3>1. trk' = Reconciled(file, cyc.vol > 0, Managed) /\ cyc.pc = "snapshot"
      BY <2>7 DEF ReconcileMarkets, Cycle, Write
    <3>2. /\ trk'.be = trk.be
          /\ cyc.vol > 0 => trk'.stage = trk.stage
          /\ cyc.vol = 0 => trk'.stage = 0
      BY <3>1, ReconcileGoes
    <3>3. cyc.vol = 0 \/ cyc.vol > 0 BY LotsAssumption DEF IInv, TypeOK
    <3>4. cyc.vol = 0 => trk.stage = 0 BY <3>1 DEF IInv, MarkedOK
    <3>5. trk'.stage = trk.stage /\ trk'.be = trk.be BY <3>2, <3>3, <3>4
    <3> QED BY <2>0, <3>5 DEF BeKept, BreakevenActive
  <2>8. CASE Refresh \/ SubmitBuy \/ CycleSubmits
    BY <2>1, <2>8 DEF Refresh, SubmitBuy, CycleSubmits
  <2>9. CASE Restart \/ DieInFill BY <2>9, CrashGoes DEF Crashes, BreakevenActive
  <2> QED
    BY <2>1, <2>3, <2>4, <2>5, <2>6, <2>7, <2>8, <2>9
       DEF Next, FillNext, CycleNext, CycleTurn, PriceMoves, ManualSell, OtherTick,
           BuyExecutes, SellExecutes, SellEnds
<1> QED BY <1>1, Invariance, PTL DEF Spec, ProtectionKept

=============================================================================
