------------------------- MODULE EntryGuardsProofs --------------------------
(***************************************************************************)
(* Theorems about EntryGuards, for every length of a day and of each pause *)
(* and every number of markets, crashes and trades: the counters and the   *)
(* kill switch survive what interrupts them, a restart changes no answer   *)
(* of the cooldown manager, and no BUY is submitted in a pause.            *)
(* IInv relates each guard's memory to its file and to the exits that are  *)
(* booked; what an exit and an entry know at each of their steps does the  *)
(* rest.                                                                   *)
(***************************************************************************)
EXTENDS EntryGuards, TLAPS

-----------------------------------------------------------------------------
(* The inductive invariant *)

CoolState == [mem : Memory, file : Memory, edited : BOOLEAN]
Zeros     == [m \in Market |-> 0]

\* Loading the file would tell what the memory tells: a day's turn and an
\* expired record may be missing in one of them, nothing else.
Agrees(s) ==
  /\ s.file.date <= s.mem.date /\ s.mem.date <= Today
  /\ s.file.date = s.mem.date => s.file.count = s.mem.count
  /\ s.file.date # s.mem.date => s.mem.count = Zeros
  /\ \A m \in Market : \/ s.mem.rec[m] = s.file.rec[m]
                       \/ s.mem.rec[m] = NoRecord /\ s.file.rec[m].until <= now
Sound(s) == s.file.date <= Today /\ (~s.edited => Agrees(s))

CoolInv == Sound(cool)

\* The trades of an exit that is being booked fit the counters, as often as
\* the process may still die.
Booking == fill.pc \in {"cool", "loss", "mark"}
Counted == risk.past + risk.trades
CountInv ==
  /\ Counted <= MaxTrades
  /\ fill.pc = "risk" => Counted + 1 + (MaxCrashes - crashes) <= MaxTrades
  /\ Booking => Counted + (MaxCrashes - crashes) <= MaxTrades
  /\ Counted >= marked + (IF Booking THEN 1 ELSE 0)
  /\ Counted <= marked + crashes + (IF Booking THEN 1 ELSE 0)

\* The risk file is the memory, but for the switch; a latched switch is of
\* the day the figures are of.
RiskInv ==
  /\ riskFile.past = risk.past /\ riskFile.trades = risk.trades
  /\ riskFile.date = risk.date /\ riskFile.start = risk.start
  /\ riskFile.latched = risk.latched
  /\ risk.latched # NoDay => risk.latched = risk.date /\ risk.start > 0

FillKnown  == fill.pc # "idle" => fill.m \in Market /\ fill.reason \in Reasons
EntryKnown == entry.pc \in {"approved", "checked", "submitted"} => entry.m \in Market

\* What is marked is in the loss guard, and what is about to be marked.
LossInv ==
  /\ lossFile = loss
  /\ "liveStop" \notin Reasons =>
       /\ LossesAreKept
       /\ fill.pc = "mark" /\ Lost(fill) =>
            Pruned(loss)[fill.m].count >= Earlier(lost[fill.m] + 1, MaxCount)

\* The end of the pause the last booked exit of a market owes it.
Due(m) == booked[m].at + Owed(booked[m])
\* What the manager knows of a market's pause: an edited file was emptied.
PauseInv ==
  /\ cool.edited => booked = [m \in Market |-> NeverBooked]
  /\ StopPause <= LimitPause =>
       \A m \in Market : now < Due(m) => cool.mem.rec[m].until >= Due(m)

\* While an exit is booked its market rests, and an entry that passed its
\* last check is of a market that was not closed then.
RestInv ==
  \A m \in Market :
    /\ fill.pc \in {"loss", "mark"} /\ m = fill.m => InCooldown(cool, m)
    /\ entry.pc = "checked" /\ m = entry.m /\ Blacklisted(m) => InCooldown(cool, m)

IInv == TypeOK /\ CoolInv /\ CountInv /\ RiskInv /\ FillKnown /\ EntryKnown
               /\ LossInv /\ PauseInv /\ RestInv

-----------------------------------------------------------------------------
(* The clock and the cooldown manager *)

\* A tick lies within its day, and days do not run backwards.
LEMMA ClockFacts ==
  ASSUME now \in Time
  PROVE  Today \in Nat /\ Midnight \in Nat /\ now \in Nat /\ now < Midnight
  BY ClockAssumption, SMT DEF Time, Today, Day, Midnight

LEMMA DayGrows ==
  ASSUME NEW t \in Nat, NEW u \in Nat, t <= u
  PROVE  Day(t) \in Nat /\ Day(u) \in Nat /\ Day(t) <= Day(u)
  BY ClockAssumption, SMT DEF Day

LEMMA NoRecordType == now \in Time => NoRecord \in ExitRec
  <1>1. ASSUME now \in Time
        PROVE  /\ 0 \in Time
               /\ 0 \in 0..(MaxNow + StopPause + TimePause + ProfitPause + ListingPause + LimitPause)
    BY <1>1, ClockAssumption, PauseAssumption, SMT DEF Time
  <1> QED
    BY <1>1, Zenon DEF NoRecord, ExitRec

\* What a loaded file says.
LEMMA LoadFacts ==
  ASSUME now \in Time, NEW file \in Memory
  PROVE  /\ Load(file) \in Memory /\ Load(file).date = Today
         /\ Load(file).count = IF file.date = Today THEN file.count ELSE Zeros
         /\ \A m \in Market : Load(file).rec[m] = IF Kept(file.rec[m]) THEN file.rec[m]
                                                ELSE NoRecord
  <1>1. Today \in Nat
    BY ClockFacts
  <1>2. NoRecord \in ExitRec /\ Zeros \in [Market -> 0..MaxCount]
    BY NoRecordType, ClockAssumption, SMT DEF Zeros
  <1>3. file.count \in [Market -> 0..MaxCount] /\ file.rec \in [Market -> ExitRec]
    BY DEF Memory
  <1>4. [m \in Market |-> IF Kept(file.rec[m]) THEN file.rec[m] ELSE NoRecord]
          \in [Market -> ExitRec]
    BY <1>2, <1>3
  <1>5. (IF file.date = Today THEN file.count ELSE Zeros) \in [Market -> 0..MaxCount]
    BY <1>2, <1>3
  <1> QED
    BY <1>1, <1>4, <1>5 DEF Load, Memory, Zeros

\* An edited file is taken over; it then agrees with the memory.
LEMMA SyncedFacts ==
  ASSUME now \in Time, NEW s \in CoolState, Sound(s)
  PROVE  /\ Synced(s) \in CoolState /\ ~Synced(s).edited /\ Agrees(Synced(s))
         /\ ~s.edited => Synced(s) = s
         /\ s.edited => Synced(s).mem = Load(s.file)
         /\ Synced(s).file = s.file
  <1>1. CASE ~s.edited
    BY <1>1 DEF Synced, Sound, CoolState
  <1>2. CASE s.edited
    <2> DEFINE mem == Load(s.file)
    <2>1. s.file \in Memory /\ s.file.date \in Nat /\ s.file.rec \in [Market -> ExitRec]
      BY DEF CoolState, Memory
    <2>2. /\ mem \in Memory /\ mem.date = Today
          /\ mem.count = IF s.file.date = Today THEN s.file.count ELSE Zeros
          /\ \A m \in Market : mem.rec[m] = IF Kept(s.file.rec[m]) THEN s.file.rec[m]
                                           ELSE NoRecord
      BY <2>1, LoadFacts
    <2> HIDE DEF mem
    <2>3. Synced(s) = [mem |-> mem, file |-> s.file, edited |-> FALSE]
      BY <1>2 DEF Synced, mem, CoolState
    <2>4. Today \in Nat /\ now \in Nat /\ s.file.date <= Today
      BY ClockFacts DEF Sound
    <2>5. ASSUME NEW m \in Market
          PROVE  \/ mem.rec[m] = s.file.rec[m]
                 \/ mem.rec[m] = NoRecord /\ s.file.rec[m].until <= now
      <3>1. s.file.rec[m].until \in Nat
        BY <2>1, ClockAssumption, PauseAssumption, SMT DEF ExitRec
      <3> QED
        BY <2>2, <2>4, <3>1 DEF Kept
    <2>6. Agrees(Synced(s))
      BY <2>1, <2>2, <2>3, <2>4, <2>5 DEF Agrees
    <2> QED
      BY <1>2, <2>1, <2>2, <2>3, <2>6 DEF CoolState, mem
  <1> QED
    BY <1>1, <1>2 DEF CoolState

\* What is written down agrees with the memory.
LEMMA SavedFacts ==
  ASSUME now \in Time, NEW mem \in Memory, mem.date <= Today
  PROVE  /\ Saved(mem) \in CoolState /\ Saved(mem).mem = mem /\ ~Saved(mem).edited
         /\ Agrees(Saved(mem)) /\ Sound(Saved(mem))
  <1>1. mem.date \in Nat /\ mem.date <= mem.date
    BY DEF Memory
  <1> QED
    BY <1>1 DEF Saved, CoolState, Agrees, Sound

\* A new day keeps every record and starts the counts over.
LEMMA RolledFacts ==
  ASSUME now \in Time, NEW s \in CoolState, Sound(s)
  PROVE  /\ Rolled(s) \in CoolState /\ ~Rolled(s).edited /\ Sound(Rolled(s))
         /\ Rolled(s).mem.date = Today
         /\ Rolled(s).mem.rec = Synced(s).mem.rec
         /\ Rolled(s).mem.count = IF Synced(s).mem.date = Today THEN Synced(s).mem.count
                                  ELSE Zeros
  <1> DEFINE t == Synced(s)
             mem == [t.mem EXCEPT !.date = Today, !.count = [m \in Market |-> 0]]
  <1>1. t \in CoolState /\ ~t.edited /\ Agrees(t)
    BY SyncedFacts
  <1>2. Today \in Nat /\ t.mem \in Memory
    BY <1>1, ClockFacts DEF CoolState
  <1>3. CASE t.mem.date = Today
    <2>1. Rolled(s) = t
      BY <1>3 DEF Rolled
    <2>2. t.file.date <= Today
      BY <1>1, <1>3 DEF Agrees
    <2> QED
      BY <1>1, <1>3, <2>1, <2>2 DEF Sound
  <1>4. CASE t.mem.date # Today
    <2>1. Rolled(s) = Saved(mem)
      BY <1>4 DEF Rolled
    <2> HIDE DEF t
    <2>2. mem.date = Today /\ mem.count = Zeros /\ mem.rec = t.mem.rec
      BY <1>2, SMT DEF Memory, Zeros
    <2>3. mem \in Memory
      <3>1. Today \in Nat /\ [m \in Market |-> 0] \in [Market -> 0..MaxCount]
        BY <1>2, ClockAssumption, SMT
      <3> QED
        BY <1>2, <3>1, Zenon DEF Memory
    <2>4. mem.date <= Today
      BY <1>2, <2>2
    <2> HIDE DEF mem
    <2> QED
      BY <1>4, <2>1, <2>2, <2>3, <2>4, SavedFacts DEF t
  <1> QED
    BY <1>3, <1>4

LEMMA RollTwice ==
  ASSUME NEW s \in CoolState, ~s.edited, s.mem.date = Today
  PROVE  Rolled(s) = s /\ Synced(s) = s
  BY DEF Rolled, Synced

\* What the manager's questions leave behind: at most they forget a record
\* whose pause is over.
Keeps(s, t) ==
  /\ t \in CoolState /\ Sound(t) /\ ~t.edited /\ t.mem.date = Today
  /\ \A m \in Market : \/ t.mem.rec[m] = Synced(s).mem.rec[m]
                       \/ t.mem.rec[m] = NoRecord /\ Synced(s).mem.rec[m].until <= now

LEMMA RolledKeeps ==
  ASSUME now \in Time, NEW s \in CoolState, Sound(s)
  PROVE  Keeps(s, Rolled(s))
  BY RolledFacts DEF Keeps

LEMMA UntilIsNat ==
  ASSUME NEW r \in ExitRec
  PROVE  r.until \in Nat /\ r.at \in Time
  BY ClockAssumption, PauseAssumption, SMT DEF ExitRec

LEMMA ForgetKeeps ==
  ASSUME now \in Time, NEW s \in CoolState, NEW t, Keeps(s, t), NEW m \in Market,
         ~Running(t, m)
  PROVE  Keeps(s, Forget(t, m))
  <1> DEFINE mem == [t.mem EXCEPT !.rec[m] = NoRecord]
  <1>1. t.mem \in Memory /\ t.mem.date = Today /\ NoRecord \in ExitRec
    BY NoRecordType DEF Keeps, CoolState
  <1>2. mem \in Memory /\ mem.date = Today
        /\ \A k \in Market : mem.rec[k] = IF k = m THEN NoRecord ELSE t.mem.rec[k]
    BY <1>1 DEF Memory
  <1>3. Today \in Nat /\ now \in Nat
    BY ClockFacts
  <1>4. t.mem.rec[m].until <= now
    <2>1. t.mem.rec[m].until \in Nat
      BY <1>1, UntilIsNat DEF Memory
    <2> QED
      BY <1>3, <2>1 DEF Running
  <1> HIDE DEF mem
  <1>5. /\ Saved(mem) \in CoolState /\ Saved(mem).mem = mem /\ ~Saved(mem).edited
        /\ Sound(Saved(mem))
    BY <1>2, <1>3, SavedFacts
  <1>6. ASSUME NEW k \in Market
        PROVE  \/ mem.rec[k] = Synced(s).mem.rec[k]
               \/ mem.rec[k] = NoRecord /\ Synced(s).mem.rec[k].until <= now
    BY <1>2, <1>4 DEF Keeps
  <1>7. Forget(t, m) = Saved(mem)
    BY DEF Forget, mem
  <1> QED
    BY <1>2, <1>5, <1>6, <1>7 DEF Keeps

LEMMA InCooldownKeeps ==
  ASSUME now \in Time, NEW s \in CoolState, Sound(s), NEW m \in Market
  PROVE  Keeps(s, AfterInCooldown(s, m))
  BY RolledKeeps, ForgetKeeps DEF AfterInCooldown

LEMMA ReentryKeeps ==
  ASSUME now \in Time, NEW s \in CoolState, Sound(s), NEW m \in Market
  PROVE  Keeps(s, AfterReentry(s, m))
  BY RolledKeeps, ForgetKeeps DEF AfterReentry

LEMMA KeepsTwice ==
  ASSUME NEW s, NEW t, NEW u, Keeps(s, t), Keeps(t, u), now \in Nat
  PROVE  Keeps(s, u)
  <1>1. Synced(t) = t
    BY RollTwice DEF Keeps
  <1>2. NoRecord.until <= now
    BY DEF NoRecord
  <1> QED
    BY <1>1, <1>2 DEF Keeps

\* No question changes which markets rest.
LEMMA KeepsRest ==
  ASSUME now \in Time, NEW s \in CoolState, Sound(s), NEW t, Keeps(s, t), NEW m \in Market
  PROVE  InCooldown(t, m) = InCooldown(s, m)
  <1>1. Rolled(t) = t /\ Rolled(s).mem.rec = Synced(s).mem.rec
    BY RollTwice, RolledFacts DEF Keeps
  <1>2. now \in Nat /\ Synced(s).mem.rec[m].until \in Nat
    BY ClockFacts, SyncedFacts, UntilIsNat DEF CoolState, Memory
  <1>3. NoRecord.until = 0
    BY DEF NoRecord
  <1> QED
    BY <1>1, <1>2, <1>3 DEF InCooldown, Running, Keeps

\* record_exit() closes the market, for at least what its exit owes it, and
\* no other market is touched.
LEMMA RecordExitFacts ==
  ASSUME now \in Time, NEW s \in CoolState, Sound(s), NEW m \in Market, NEW kind \in Kind
  PROVE  LET t == RecordExit(s, m, kind) IN
         /\ t \in CoolState /\ Sound(t) /\ ~t.edited /\ t.mem.date = Today
         /\ \A k \in Market \ {m} : t.mem.rec[k] = Synced(s).mem.rec[k]
         /\ t.mem.rec[m].until > now
         /\ kind # "stop" => t.mem.rec[m].until = now + Pause(kind)
         /\ kind = "stop" /\ StopPause <= LimitPause =>
              t.mem.rec[m].until >= now + Earlier(StopPause, Midnight - now)
  <1> DEFINE mem == Rolled(s).mem
             n == Earlier(mem.count[m] + 1, MaxCount)
             counted == [mem EXCEPT !.count[m] = n]
             t == RecordExit(s, m, kind)
  <1>1. mem \in Memory /\ mem.date = Today /\ mem.rec = Synced(s).mem.rec
    BY RolledFacts DEF CoolState
  <1> HIDE DEF mem
  <1>2. n \in 0..MaxCount
    <2>1. mem.count[m] \in 0..MaxCount /\ MaxCount \in Nat
      BY <1>1, ClockAssumption, Zenon DEF Memory
    <2> QED
      BY <2>1 DEF Earlier
  <1> HIDE DEF n
  <1>3. counted \in Memory /\ counted.date = Today /\ counted.rec = Synced(s).mem.rec
    BY <1>1, <1>2 DEF Memory
  <1> HIDE DEF counted
  <1>4. ASSUME NEW q \in Memory, q.date = Today, q.rec = Synced(s).mem.rec,
               NEW k \in Kind, NEW pause \in 1..(StopPause + TimePause + ProfitPause + ListingPause + LimitPause),
               t = Saved(Written(q, m, k, pause))
        PROVE  /\ t \in CoolState /\ Sound(t) /\ ~t.edited /\ t.mem.date = Today
               /\ \A j \in Market \ {m} : t.mem.rec[j] = Synced(s).mem.rec[j]
               /\ t.mem.rec[m].until = now + pause
               /\ t.mem.rec[m].until > now
    <2> DEFINE r == [kind |-> k, at |-> now, until |-> now + pause]
               w == [q EXCEPT !.rec[m] = r]
    <2>1. r \in ExitRec /\ r.until = now + pause
      <3>1. now + pause \in 0..(MaxNow + StopPause + TimePause + ProfitPause + ListingPause + LimitPause)
        BY <1>4, ClockAssumption, PauseAssumption, SMT DEF Time
      <3> QED
        BY <3>1 DEF ExitRec
    <2> HIDE DEF r
    <2>2. w \in Memory /\ w.date = Today
          /\ \A j \in Market : w.rec[j] = IF j = m THEN r ELSE q.rec[j]
      BY <1>4, <2>1 DEF Memory
    <2>3. Written(q, m, k, pause) = w
      BY DEF Written, r
    <2> HIDE DEF w
    <2>4. Today \in Nat /\ now \in Nat
      BY ClockFacts
    <2>5. t.mem = w /\ t \in CoolState /\ ~t.edited /\ Sound(t)
      BY <1>4, <2>2, <2>3, <2>4, SavedFacts
    <2> HIDE DEF t
    <2>6. /\ \A j \in Market \ {m} : t.mem.rec[j] = Synced(s).mem.rec[j]
          /\ t.mem.rec[m].until = now + pause
      BY <1>4, <2>1, <2>2, <2>5
    <2> QED
      BY <1>4, <2>2, <2>4, <2>5, <2>6, ClockAssumption, PauseAssumption
  <1>5. CASE kind # "stop"
    <2>1. Pause(kind) \in 1..(StopPause + TimePause + ProfitPause + ListingPause + LimitPause)
      BY ClockAssumption, PauseAssumption, SMT DEF Pause
    <2>2. t = Saved(Written(mem, m, kind, Pause(kind)))
      BY <1>5 DEF RecordExit, mem
    <2> QED
      BY <1>1, <1>4, <1>5, <2>1, <2>2
  <1>6. CASE kind = "stop" /\ n >= MaxLosses
    <2> DEFINE pause == Earlier(LimitPause, Midnight - now)
    <2>1. pause \in 1..(StopPause + TimePause + ProfitPause + ListingPause + LimitPause)
          /\ (StopPause <= LimitPause => pause >= Earlier(StopPause, Midnight - now))
      BY ClockFacts, ClockAssumption, PauseAssumption, SMT DEF Earlier
    <2>2. t = Saved(Written(counted, m, "limit", pause)) /\ "limit" \in Kind
      BY <1>6 DEF RecordExit, mem, counted, n, Kind
    <2> HIDE DEF pause
    <2>3. t.mem.rec[m].until = now + pause
      BY <1>3, <1>4, <2>1, <2>2
    <2>4. Earlier(StopPause, Midnight - now) \in Int /\ now \in Nat
      BY ClockFacts, PauseAssumption, SMT DEF Earlier
    <2>5. StopPause <= LimitPause => t.mem.rec[m].until >= now + Earlier(StopPause, Midnight - now)
      BY <2>1, <2>3, <2>4
    <2> QED
      BY <1>3, <1>4, <1>6, <2>1, <2>2, <2>5
  <1>7. CASE kind = "stop" /\ ~(n >= MaxLosses)
    <2>1. StopPause \in 1..(StopPause + TimePause + ProfitPause + ListingPause + LimitPause)
          /\ StopPause >= Earlier(StopPause, Midnight - now)
          /\ Earlier(StopPause, Midnight - now) \in Int /\ now \in Nat
      BY ClockFacts, ClockAssumption, PauseAssumption, SMT DEF Earlier
    <2>2. t = Saved(Written(counted, m, "stop", StopPause)) /\ "stop" \in Kind
      BY <1>7 DEF RecordExit, mem, counted, n, Kind
    <2>3. t.mem.rec[m].until = now + StopPause
      BY <1>3, <1>4, <2>1, <2>2
    <2>4. t.mem.rec[m].until >= now + Earlier(StopPause, Midnight - now)
      BY <2>1, <2>3
    <2> QED
      BY <1>3, <1>4, <1>7, <2>1, <2>2, <2>4
  <1> QED
    BY <1>5, <1>6, <1>7


-----------------------------------------------------------------------------
(* The day's figures *)

\* A latched switch is of the day the figures are of, and of a day that
\* started with something.
Dated(r) == r.latched # NoDay => r.latched = r.date /\ r.start > 0

\* A day's turn loses no trade and opens no switch that was latched today.
LEMMA StartedFacts ==
  ASSUME now \in Time, risk \in RiskRec, NEW equity \in Nat, Dated(risk),
         Counted <= MaxTrades
  PROVE  LET r == DayStarted(equity) IN
         /\ r \in RiskRec /\ r.date = Today /\ Dated(r)
         /\ r.past + r.trades = Counted
         /\ risk.killed /\ risk.latched = Today => r.killed /\ r.latched = Today
  <1> DEFINE r == DayStarted(equity)
             turned == risk.date # Today /\ risk.date # NoDay
  <1>1. Today \in Nat /\ MaxTrades \in Nat /\ MinStart \in Nat /\ NoDay \notin Nat
    BY ClockFacts, RiskAssumption
  <1>2. risk.past \in 0..MaxTrades /\ risk.trades \in 0..MaxTrades /\ risk.start \in Nat
        /\ risk.pnl \in Int
    BY DEF RiskRec
  <1>3. CASE risk.date # Today \/ risk.start <= 0
    <2>1. PICK p \in Int : p = (IF turned THEN 0 ELSE risk.pnl)
      BY <1>2
    <2>2. PICK q \in 0..MaxTrades :
            q = (IF turned THEN risk.past + risk.trades ELSE risk.past)
      BY <1>1, <1>2 DEF Counted
    <2>3. PICK t \in 0..MaxTrades : t = (IF turned THEN 0 ELSE risk.trades)
      BY <1>1, <1>2
    <2>4. r = [risk EXCEPT !.date = Today, !.start = equity, !.killed = FALSE,
                           !.latched = NoDay, !.pnl = p, !.past = q, !.trades = t]
      BY <1>3, <2>1, <2>2, <2>3 DEF DayStarted
    <2>5. Today \in Nat \cup {NoDay} /\ NoDay \in Nat \cup {NoDay} /\ FALSE \in BOOLEAN
      BY <1>1
    <2> HIDE DEF r
    <2>6. r \in RiskRec
      BY <2>4, <2>5, Zenon DEF RiskRec
    <2>7. r.date = Today /\ r.past = q /\ r.trades = t /\ r.latched = NoDay
      BY <2>4, SMT DEF RiskRec
    <2>8. q + t = Counted
      BY <1>2, <2>2, <2>3 DEF Counted
    <2>9. risk.latched # Today
      BY <1>1, <1>2, <1>3 DEF Dated
    <2> QED
      BY <2>6, <2>7, <2>8, <2>9 DEF Dated, r
  <1>4. CASE risk.date = Today /\ ~(risk.start <= 0) /\ risk.start < MinStart /\ equity >= MinStart
    <2>1. r = [risk EXCEPT !.start = equity]
      BY <1>4 DEF DayStarted
    <2> HIDE DEF r
    <2>2. r \in RiskRec /\ r.date = risk.date /\ r.past = risk.past /\ r.trades = risk.trades
          /\ r.latched = risk.latched /\ r.killed = risk.killed /\ r.start = equity
      BY <2>1 DEF RiskRec
    <2>3. r.start > 0
      BY <1>1, <1>2, <1>4, <2>2
    <2> QED
      BY <1>4, <2>2, <2>3 DEF Dated, Counted, r
  <1>5. CASE risk.date = Today /\ ~(risk.start <= 0) /\ ~(risk.start < MinStart /\ equity >= MinStart)
    <2>1. r = risk
      BY <1>5 DEF DayStarted
    <2> QED
      BY <1>5, <2>1 DEF Counted
  <1> QED
    BY <1>3, <1>4, <1>5

LEMMA LatchedFacts ==
  ASSUME now \in Time, NEW f \in RiskRec, NEW open, Dated(f), f.date = Today
  PROVE  LET r == Latched(f, open) IN
         /\ r \in RiskRec /\ Dated(r) /\ r.past = f.past /\ r.trades = f.trades
         /\ f.killed /\ f.latched = Today => r.killed
  <1>1. Today \in Nat \cup {NoDay}
    BY ClockFacts
  <1>2. PICK b \in BOOLEAN : b = (f.latched = Today)
    OBVIOUS
  <1>3. CASE LimitReached(f, open) /\ f.killed
    BY <1>3 DEF Latched
  <1>4. CASE LimitReached(f, open) /\ ~f.killed
    <2> DEFINE r == [f EXCEPT !.killed = TRUE, !.latched = Today]
    <2>1. Latched(f, open) = r
      BY <1>4 DEF Latched
    <2>2. r \in RiskRec
      BY <1>1, Zenon DEF RiskRec
    <2>3. r.date = f.date /\ r.start = f.start /\ r.past = f.past /\ r.trades = f.trades
          /\ r.latched = Today
      BY SMT DEF RiskRec
    <2>4. f.start > 0
      BY <1>4, Zenon DEF LimitReached
    <2> HIDE DEF r
    <2> QED
      BY <1>4, <2>1, <2>2, <2>3, <2>4 DEF Dated
  <1>5. CASE ~LimitReached(f, open)
    <2> DEFINE r == [f EXCEPT !.killed = b]
    <2>1. Latched(f, open) = r
      BY <1>2, <1>5 DEF Latched
    <2>2. r \in RiskRec
      BY <1>2, Zenon DEF RiskRec
    <2>3. r.date = f.date /\ r.start = f.start /\ r.past = f.past /\ r.trades = f.trades
          /\ r.latched = f.latched
      BY SMT DEF RiskRec
    <2>4. r.killed = b
      BY Zenon DEF RiskRec
    <2> HIDE DEF r
    <2> QED
      BY <1>2, <2>1, <2>2, <2>3, <2>4, Zenon DEF Dated
  <1> QED
    BY <1>3, <1>4, <1>5


LEMMA AddFacts ==
  ASSUME risk \in RiskRec, NEW pnl \in {-1, 1}, AddRealizedTrade(pnl), Counted + 1 <= MaxTrades
  PROVE  /\ risk' \in RiskRec /\ riskFile' = risk'
         /\ risk'.past = risk.past /\ risk'.trades = risk.trades + 1
         /\ risk'.date = risk.date /\ risk'.start = risk.start /\ risk'.latched = risk.latched
         /\ risk'.killed = risk.killed
  <1>1. MaxTrades \in Nat /\ risk.past \in 0..MaxTrades /\ risk.trades \in 0..MaxTrades
        /\ risk.pnl \in Int /\ risk.losses \in 0..2
    BY RiskAssumption DEF RiskRec
  <1>2. PICK p \in Int : p = risk.pnl + pnl
    BY <1>1
  <1>3. PICK t \in 0..MaxTrades : t = risk.trades + 1
    BY <1>1 DEF Counted
  <1>4. PICK l \in 0..2 : l = (IF pnl > 0 THEN 0 ELSE Earlier(risk.losses + 1, 2))
    BY <1>1 DEF Earlier
  <1>5. risk' = [risk EXCEPT !.pnl = p, !.trades = t, !.losses = l] /\ riskFile' = risk'
    BY <1>2, <1>3, <1>4, Zenon DEF AddRealizedTrade, Keep
  <1>6. risk' \in RiskRec
    BY <1>5, Zenon DEF RiskRec
  <1>7. /\ risk'.past = risk.past /\ risk'.trades = t
        /\ risk'.date = risk.date /\ risk'.start = risk.start /\ risk'.latched = risk.latched
    BY <1>5, SMT DEF RiskRec
  <1>8. risk'.killed = risk.killed
    BY <1>5, Zenon DEF RiskRec
  <1> QED
    BY <1>3, <1>5, <1>6, <1>7, <1>8

\* What one step does to the figures: a trade is added, a cycle values the
\* account, the process dies, or nothing.
LEMMA RiskMoves ==
  ASSUME IInv, Next
  PROVE  /\ RiskType' /\ RiskInv'
         /\ \/ FillRisk /\ Counted' = Counted + 1
            \/ ~FillRisk /\ Counted' = Counted
         /\ risk.killed /\ risk.latched = Day(now') => risk'.killed
  <1> USE DEF IInv, TypeOK
  <1>1. risk \in RiskRec /\ riskFile \in RiskRec /\ Dated(risk) /\ now \in Time
    BY DEF RiskType, RiskInv, Dated
  <1>2. CASE FillRisk
    <2>1. fill.pnl \in {-1, 1} /\ AddRealizedTrade(fill.pnl) /\ now' = now
      BY <1>2 DEF FillRisk, FillRec
    <2>2. Counted + 1 <= MaxTrades
      <3>1. Counted + 1 + (MaxCrashes - crashes) <= MaxTrades
        BY <1>2 DEF FillRisk, CountInv
      <3>2. Counted \in Nat /\ MaxTrades \in Nat /\ MaxCrashes \in Nat /\ crashes \in 0..MaxCrashes
        BY <1>1, RiskAssumption, GuardAssumption DEF Counted, RiskRec
      <3> QED
        BY <3>1, <3>2
    <2>3. /\ risk' \in RiskRec /\ riskFile' = risk'
          /\ risk'.past = risk.past /\ risk'.trades = risk.trades + 1
          /\ risk'.date = risk.date /\ risk'.start = risk.start /\ risk'.latched = risk.latched
          /\ risk'.killed = risk.killed
      BY <1>1, <2>1, <2>2, AddFacts
    <2>4. risk.past \in Nat /\ risk.trades \in Nat
      BY <1>1 DEF RiskRec
    <2>5. Counted' = Counted + 1
      BY <2>3, <2>4 DEF Counted
    <2>6. RiskType' /\ RiskInv'
      BY <1>1, <2>3, Zenon DEF RiskType, RiskInv, Dated
    <2>7. risk.killed /\ risk.latched = Day(now') => risk'.killed
      BY <2>3, Zenon
    <2> QED
      BY <1>2, <2>5, <2>6, <2>7
  <1>3. CASE BeginCycle
    <2>1. PICK equity \in Equities, open \in Unrealized : UpdateDailyEquity(equity, open)
      BY <1>3 DEF BeginCycle
    <2> DEFINE r == DayStarted(equity)
               l == Latched(r, open)
    <2>2. risk' = l /\ riskFile' = l /\ now' = now
      BY <1>3, <2>1 DEF BeginCycle, UpdateDailyEquity, Keep
    <2>9. ~FillRisk
      BY <1>3, SMT DEF BeginCycle, FillRisk, entryVars, NoEntry
    <2>3. equity \in Nat /\ Counted <= MaxTrades
      BY RiskAssumption DEF CountInv
    <2>4. /\ r \in RiskRec /\ r.date = Today /\ Dated(r)
          /\ r.past + r.trades = Counted
          /\ risk.killed /\ risk.latched = Today => r.killed /\ r.latched = Today
      BY <1>1, <2>3, StartedFacts
    <2> HIDE DEF r
    <2>5. /\ l \in RiskRec /\ Dated(l) /\ l.past = r.past /\ l.trades = r.trades
          /\ r.killed /\ r.latched = Today => l.killed
      BY <1>1, <2>4, LatchedFacts
    <2> HIDE DEF l
    <2>6. risk.killed /\ risk.latched = Day(now') => risk'.killed
      BY <2>2, <2>4, <2>5, Zenon DEF Today
    <2>7. l.past + l.trades = Counted /\ Counted \in Nat
      BY <1>1, <2>4, <2>5 DEF Counted, RiskRec
    <2>8. Counted' = Counted
      BY <2>2, <2>7 DEF Counted
    <2> QED
      BY <2>2, <2>5, <2>6, <2>7, <2>8, <2>9 DEF RiskType, RiskInv, Dated
  <1>4. CASE Restart
    <2>1. PICK b \in BOOLEAN : b = (riskFile.latched = Today)
      OBVIOUS
    <2>2. risk' = [riskFile EXCEPT !.killed = b] /\ riskFile' = riskFile /\ now' = now
      BY <1>4, <2>1 DEF Restart, RiskRestart
    <2>3. risk' \in RiskRec
      BY <1>1, <2>2, Zenon DEF RiskRec
    <2>4. risk'.past = riskFile.past /\ risk'.trades = riskFile.trades
          /\ risk'.date = riskFile.date /\ risk'.start = riskFile.start
          /\ risk'.latched = riskFile.latched
      BY <1>1, <2>2, SMT DEF RiskRec
    <2>5. risk'.killed = b
      BY <1>1, <2>2, Zenon DEF RiskRec
    <2>6. risk.killed /\ risk.latched = Day(now') => risk'.killed
      BY <2>1, <2>2, <2>5, Zenon DEF Today, RiskInv
    <2>7. ~FillRisk
      BY <1>4, GuardAssumption, SMT DEF Restart, FillRisk
    <2>8. Counted' = Counted /\ Counted \in Nat
      BY <1>1, <2>4 DEF Counted, RiskInv, RiskRec
    <2> QED
      BY <1>1, <2>2, <2>3, <2>4, <2>6, <2>7, <2>8 DEF RiskType, RiskInv
  <1>5. CASE UNCHANGED riskVars
    <2>1. risk' = risk /\ riskFile' = riskFile
      BY <1>5 DEF riskVars
    <2>2. ~FillRisk
      <3>1. ASSUME FillRisk PROVE FALSE
        <4>1. fill.pnl \in {-1, 1} /\ AddRealizedTrade(fill.pnl)
          BY <3>1 DEF FillRisk, FillRec
        <4>2. risk'.trades = risk.trades + 1 /\ risk.trades \in Nat
          <5>1. risk' = [risk EXCEPT !.pnl = @ + fill.pnl, !.trades = @ + 1,
                            !.losses = IF fill.pnl > 0 THEN 0 ELSE Earlier(@ + 1, 2)]
            BY <4>1 DEF AddRealizedTrade, Keep
          <5> QED
            BY <1>1, <5>1, SMT DEF RiskRec
        <4> QED
          BY <2>1, <4>2
      <3> QED
        BY <3>1
    <2>3. Counted \in Nat
      BY <1>1 DEF Counted, RiskRec
    <2> QED
      BY <2>1, <2>2, <2>3 DEF RiskType, RiskInv, Counted
  <1> QED
    BY <1>2, <1>3, <1>4, <1>5 DEF Next, Fill, Entry, ExitConfirmed, FillCool, FillLoss,
       FillMark, Approve, PreBuy, SubmitGate, EndEntry, TimePasses, ResetCooldowns


-----------------------------------------------------------------------------
(* The exit and the entry *)

LEMMA CountStep ==
  ASSUME IInv, Next
  PROVE  CountInv'
  <1>1. /\ Counted \in Nat /\ MaxTrades \in Nat /\ MaxCrashes \in Nat
        /\ crashes \in 0..MaxCrashes /\ marked \in Nat
        /\ risk.past + risk.trades = Counted
    BY RiskAssumption, GuardAssumption DEF Counted, IInv, TypeOK, RiskType, RiskRec
  <1>2. fill \in FillRec /\ CountInv
    BY DEF IInv, TypeOK
  <1>3. \/ FillRisk /\ Counted' = Counted + 1
        \/ ~FillRisk /\ Counted' = Counted
    BY RiskMoves
  <1>4. CASE ExitConfirmed
    <2>1. /\ fill.pc = "idle" /\ fill'.pc = "risk" /\ Counted' = Counted
          /\ Counted + MaxCrashes < MaxTrades /\ crashes' = crashes /\ marked' = marked
      BY <1>1, <1>3, <1>4 DEF ExitConfirmed, FillRisk
    <2> QED
      BY <1>1, <1>2, <2>1 DEF CountInv, Booking
  <1>5. CASE FillRisk
    <2>1. /\ fill.pc = "risk" /\ fill'.pc = "cool" /\ Counted' = Counted + 1
          /\ crashes' = crashes /\ marked' = marked
      BY <1>2, <1>3, <1>5 DEF FillRisk, FillRec
    <2> QED
      BY <1>1, <1>2, <2>1 DEF CountInv, Booking
  <1>6. CASE FillCool \/ FillLoss
    <2>1. /\ Booking /\ Booking' /\ fill'.pc # "risk" /\ Counted' = Counted
          /\ crashes' = crashes /\ marked' = marked
      BY <1>2, <1>3, <1>6 DEF FillCool, FillLoss, FillRisk, FillRec, Booking
    <2> QED
      BY <1>1, <1>2, <2>1 DEF CountInv
  <1>7. CASE FillMark
    <2>1. /\ Booking /\ ~Booking' /\ fill'.pc # "risk" /\ Counted' = Counted
          /\ crashes' = crashes /\ marked' = marked + 1
      BY <1>3, <1>7 DEF FillMark, FillRisk, NoFill, Booking
    <2> QED
      BY <1>1, <1>2, <2>1 DEF CountInv
  <1>8. CASE Restart
    <2>1. crashes' = crashes + 1 /\ crashes < MaxCrashes /\ marked' = marked /\ Counted' = Counted
      BY <1>1, <1>3, <1>8, SMT DEF Restart, FillRisk
    <2>2. ~Booking' /\ (fill.pc = "idle" => fill'.pc = "idle")
          /\ (fill.pc # "idle" => fill'.pc = "risk")
      BY <1>2, <1>8 DEF Restart, Booking, FillRec
    <2>3. fill.pc # "idle" => fill.pc = "risk" \/ Booking
      BY <1>2 DEF FillRec, Booking
    <2> QED
      BY <1>1, <1>2, <2>1, <2>2, <2>3 DEF CountInv, Booking
  <1>9. CASE UNCHANGED <<fill, crashes, marked>>
    <2>1. fill' = fill /\ crashes' = crashes /\ marked' = marked
      BY <1>9
    <2>2. Counted' = Counted
      BY <1>2, <1>3, <2>1 DEF FillRisk, FillRec
    <2> QED
      BY <1>1, <1>2, <2>1, <2>2 DEF CountInv, Booking
  <1> QED
    BY <1>4, <1>5, <1>6, <1>7, <1>8, <1>9 DEF Next, Fill, Entry, BeginCycle, Approve, PreBuy,
       SubmitGate, EndEntry, TimePasses, ResetCooldowns

\* The types of what the exit and the entry keep for themselves.
LEMMA KindOfType ==
  ASSUME fill \in FillRec
  PROVE  KindOf(fill) \in Kind
  BY DEF KindOf, Kind, FillRec, Reason

OwnTypes == /\ now \in Time /\ fill \in FillRec /\ entry \in EntryRec
            /\ shut \in BOOLEAN /\ crashes \in 0..MaxCrashes
            /\ booked \in [Market -> [at : Time, kind : Kind \cup {"none"}]]
            /\ marked \in Nat /\ lost \in [Market -> Nat]
            /\ FillKnown /\ EntryKnown

LEMMA OwnStep ==
  ASSUME IInv, Next
  PROVE  OwnTypes'
  <1>1. OwnTypes
    BY DEF IInv, TypeOK, OwnTypes
  <1> USE DEF OwnTypes, FillKnown, EntryKnown
  <1>2. CASE ExitConfirmed
    BY <1>1, <1>2, GuardAssumption DEF ExitConfirmed, FillRec, entryVars
  <1>3. CASE FillRisk
    BY <1>1, <1>3 DEF FillRisk, FillRec, entryVars
  <1>4. CASE FillCool
    <2>1. KindOf(fill) \in Kind
      BY <1>1, KindOfType
    <2> HIDE DEF KindOf
    <2>2. booked' \in [Market -> [at : Time, kind : Kind \cup {"none"}]]
      BY <1>1, <1>4, <2>1 DEF FillCool
    <2>3. fill' \in FillRec /\ FillKnown'
      BY <1>1, <1>4 DEF FillCool, FillRec
    <2> QED
      BY <1>1, <1>4, <2>2, <2>3 DEF FillCool, entryVars
  <1>5. CASE FillLoss
    BY <1>1, <1>5 DEF FillLoss, FillRec, entryVars
  <1>6. CASE FillMark
    <2>1. NoFill \in FillRec /\ NoFill.pc = "idle"
      BY DEF NoFill, FillRec, Reason
    <2>2. ASSUME NEW n \in Nat
          PROVE  Earlier(n + 1, MaxCount) \in Nat
      BY ClockAssumption DEF Earlier
    <2>3. lost' \in [Market -> Nat]
      BY <1>1, <1>6, <2>2 DEF FillMark
    <2> QED
      BY <1>1, <1>6, <2>1, <2>3 DEF FillMark, entryVars
  <1>7. CASE BeginCycle
    <2>1. entry' \in EntryRec /\ entry'.pc = "cycle"
      BY <1>7 DEF BeginCycle, EntryRec, NoEntry, Path, Gap
    <2>2. shut' \in BOOLEAN
      <3>1. risk' \in RiskRec
        BY RiskMoves DEF RiskType
      <3> QED
        BY <1>7, <3>1, Zenon DEF BeginCycle, RiskRec
    <2> QED
      BY <1>1, <1>7, <2>1, <2>2 DEF BeginCycle
  <1>8. CASE Approve
    <2>1. PICK m \in Market, path \in Path, gap \in Gap :
            entry' \in {entry, [pc |-> "approved", m |-> m, path |-> path, gap |-> gap]}
      BY <1>8 DEF Approve
    <2>2. entry' \in EntryRec /\ EntryKnown'
      BY <1>1, <2>1 DEF EntryRec
    <2> QED
      BY <1>1, <1>8, <2>2 DEF Approve
  <1>9. CASE PreBuy \/ SubmitGate \/ EndEntry
    <2>1. NoEntry \in EntryRec /\ NoEntry.pc = "idle"
      BY DEF NoEntry, EntryRec, Path, Gap
    <2>2. entry.pc # "idle" /\ (entry.pc # "cycle" => entry.m \in Market)
      BY <1>1, <1>9 DEF PreBuy, SubmitGate, EndEntry, EntryRec
    <2>3. \/ entry' = NoEntry
          \/ entry.pc # "cycle" /\ \E pc \in {"checked", "submitted"} : entry' = [entry EXCEPT !.pc = pc]
      BY <1>9 DEF PreBuy, SubmitGate, EndEntry
    <2>4. entry' \in EntryRec /\ EntryKnown'
      BY <1>1, <2>1, <2>2, <2>3 DEF EntryRec
    <2> QED
      BY <1>1, <1>9, <2>4 DEF PreBuy, SubmitGate, EndEntry
  <1>10. CASE TimePasses
    <2>1. now' \in Time
      BY <1>1, <1>10, ClockAssumption, SMT DEF TimePasses, Tick, Time
    <2>2. lost' \in [Market -> Nat]
      BY <1>1, <1>10 DEF TimePasses
    <2> QED
      BY <1>1, <1>10, <2>1, <2>2 DEF TimePasses, entryVars
  <1>11. CASE ResetCooldowns
    <2>1. NeverBooked \in [at : Time, kind : Kind \cup {"none"}]
      BY ClockAssumption, SMT DEF NeverBooked, Time
    <2> QED
      BY <1>1, <1>11, <2>1 DEF ResetCooldowns, entryVars
  <1>12. CASE Restart
    <2>1. NoEntry \in EntryRec /\ NoEntry.pc = "idle"
      BY DEF NoEntry, EntryRec, Path, Gap
    <2>2. fill' \in FillRec /\ FillKnown'
      BY <1>1, <1>12 DEF Restart, FillRec
    <2>3. crashes' \in 0..MaxCrashes
      BY <1>1, <1>12, GuardAssumption DEF Restart
    <2> QED
      BY <1>1, <1>12, <2>1, <2>2, <2>3 DEF Restart
  <1> QED
    BY <1>2, <1>3, <1>4, <1>5, <1>6, <1>7, <1>8, <1>9, <1>10, <1>11, <1>12
    DEF Next, Fill, Entry


-----------------------------------------------------------------------------
(* The cooldown manager, step by step *)

LEMMA CoolKnown ==
  ASSUME IInv
  PROVE  cool \in CoolState /\ Sound(cool) /\ now \in Time /\ now \in Nat
  BY ClockFacts DEF IInv, TypeOK, CoolType, CoolState, CoolInv

\* What one step does to the manager: it is asked, records an exit, is
\* loaded again, finds its file emptied, or nothing.
LEMMA CoolMoves ==
  ASSUME IInv, Next
  PROVE  \/ UNCHANGED <<cool, booked>>
         \/ Keeps(cool, cool') /\ UNCHANGED <<now, booked>>
         \/ FillCool \/ ResetCooldowns \/ Restart
  <1>1. cool \in CoolState /\ Sound(cool) /\ now \in Time /\ now \in Nat
    BY CoolKnown
  <1>2. CASE Approve
    <2>1. PICK m \in Market, gap \in Gap :
            LET first == ReentryAllowed(cool, m, gap, FALSE)
                seen  == IF first THEN AfterReentry(cool, m) ELSE Rolled(cool)
            IN  cool' \in {seen, AfterInCooldown(seen, m)}
      BY <1>2 DEF Approve
    <2> DEFINE seen == IF ReentryAllowed(cool, m, gap, FALSE) THEN AfterReentry(cool, m)
                       ELSE Rolled(cool)
    <2>2. cool' \in {seen, AfterInCooldown(seen, m)}
      BY <2>1
    <2>3. Keeps(cool, seen)
      BY <1>1, RolledKeeps, ReentryKeeps
    <2> HIDE DEF seen
    <2>4. Keeps(seen, AfterInCooldown(seen, m))
      BY <1>1, <2>3, InCooldownKeeps DEF Keeps
    <2>5. Keeps(cool, cool')
      BY <1>1, <2>2, <2>3, <2>4, KeepsTwice
    <2> QED
      BY <1>2, <2>5 DEF Approve
  <1>3. CASE SubmitGate
    <2> DEFINE m    == entry.m
               seen == AfterInCooldown(cool, m)
    <2>1. cool' \in {seen, AfterReentry(seen, m)} /\ UNCHANGED <<now, booked>>
      BY <1>3 DEF SubmitGate
    <2>2. m \in Market
      BY <1>3 DEF SubmitGate, IInv, EntryKnown
    <2> HIDE DEF m
    <2>3. Keeps(cool, seen)
      BY <1>1, <2>2, InCooldownKeeps
    <2> HIDE DEF seen
    <2>4. Keeps(seen, AfterReentry(seen, m))
      BY <1>1, <2>2, <2>3, ReentryKeeps DEF Keeps
    <2>5. Keeps(cool, cool')
      BY <1>1, <2>1, <2>3, <2>4, KeepsTwice
    <2> QED
      BY <2>1, <2>5
  <1>4. CASE ExitConfirmed \/ FillRisk \/ FillLoss \/ FillMark \/ BeginCycle \/ PreBuy
             \/ EndEntry \/ TimePasses
    BY <1>4 DEF ExitConfirmed, FillRisk, FillLoss, FillMark, BeginCycle, PreBuy, EndEntry,
       TimePasses
  <1> QED
    BY <1>2, <1>3, <1>4 DEF Next, Fill, Entry

LEMMA NowMoves ==
  ASSUME IInv, Next
  PROVE  now' = now \/ (TimePasses /\ now' = now + 1)
  BY DEF Next, Fill, Entry, ExitConfirmed, FillRisk, FillCool, FillLoss, FillMark, BeginCycle,
     Approve, PreBuy, SubmitGate, EndEntry, TimePasses, Tick, ResetCooldowns, Restart

\* Loading the file once more changes no more than loading an edited one.
LEMMA RestartFacts ==
  ASSUME IInv, Restart
  PROVE  /\ cool' \in CoolState /\ ~cool'.edited /\ Sound(cool')
         /\ cool'.mem = Load(cool.file) /\ now' = now /\ booked' = booked
  <1>1. cool \in CoolState /\ Sound(cool) /\ now \in Time
    BY CoolKnown
  <1> DEFINE s == [cool EXCEPT !.edited = TRUE]
  <1>2. s \in CoolState /\ s.edited /\ s.file = cool.file /\ s.mem = cool.mem
    BY <1>1 DEF CoolState
  <1>3. Sound(s)
    BY <1>1, <1>2 DEF Sound
  <1> HIDE DEF s
  <1>4. /\ Synced(s) \in CoolState /\ ~Synced(s).edited /\ Agrees(Synced(s))
        /\ Synced(s).mem = Load(s.file) /\ Synced(s).file = s.file
    BY <1>1, <1>2, <1>3, SyncedFacts
  <1>5. cool' = [cool EXCEPT !.mem = Load(cool.file), !.edited = FALSE]
    BY DEF Restart, CoolRestart
  <1>6. Synced(s) = [s EXCEPT !.mem = Load(cool.file), !.edited = FALSE]
    BY <1>2 DEF Synced
  <1>7. /\ cool'.mem = Load(cool.file) /\ cool'.file = cool.file /\ cool'.edited = FALSE
        /\ DOMAIN cool' = {"mem", "file", "edited"}
    BY <1>1, <1>5, Zenon DEF CoolState
  <1>8. Load(cool.file) \in Memory /\ cool.file \in Memory
    BY <1>1, LoadFacts DEF CoolState
  <1>9. cool' \in CoolState
    BY <1>1, <1>5, <1>8, Zenon DEF CoolState
  <1>10. Agrees(cool')
    BY <1>2, <1>4, <1>7 DEF Agrees
  <1> QED
    BY <1>1, <1>7, <1>9, <1>10 DEF Sound, Restart

LEMMA OwedFacts ==
  ASSUME NEW b \in [at : Time, kind : Kind \cup {"none"}]
  PROVE  b.at \in Nat /\ Owed(b) \in Int /\ (b = NeverBooked => b.at + Owed(b) = 0)
  <1>1. b.at \in Nat /\ Day(b.at) \in Nat /\ DayLength \in Nat \ {0}
    BY DayGrows, ClockAssumption DEF Time
  <1>2. (Day(b.at) + 1) * DayLength - b.at \in Int
    BY <1>1
  <1>3. Pause(b.kind) \in Nat /\ StopPause \in Nat
    BY PauseAssumption DEF Pause
  <1> QED
    BY <1>1, <1>2, <1>3 DEF Owed, Earlier, NeverBooked

\* What the manager knows of a market that is owed a pause.
LEMMA PauseKnown ==
  ASSUME IInv, StopPause <= LimitPause, NEW m \in Market, now < Due(m)
  PROVE  /\ ~cool.edited /\ cool.mem.rec[m].until >= Due(m)
         /\ Due(m) \in Int /\ cool.mem.rec[m].until \in Nat
  <1>1. booked[m] \in [at : Time, kind : Kind \cup {"none"}]
    BY DEF IInv, TypeOK
  <1>2. now \in Nat /\ Due(m) \in Int /\ (booked[m] = NeverBooked => Due(m) = 0)
    BY <1>1, CoolKnown, OwedFacts DEF Due
  <1>3. ~cool.edited
    BY <1>2 DEF IInv, PauseInv
  <1>4. cool.mem.rec[m].until \in Nat
    BY CoolKnown, UntilIsNat DEF CoolState, Memory
  <1> QED
    BY <1>2, <1>3, <1>4 DEF IInv, PauseInv


LEMMA CoolStep ==
  ASSUME IInv, Next
  PROVE  CoolType' /\ CoolInv'
  <1>1. cool \in CoolState /\ Sound(cool) /\ now \in Time /\ now \in Nat
    BY CoolKnown
  <1>2. \/ UNCHANGED <<cool, booked>>
        \/ Keeps(cool, cool') /\ UNCHANGED <<now, booked>>
        \/ FillCool \/ ResetCooldowns \/ Restart
    BY CoolMoves
  <1>3. CASE now' = now /\ cool' \in CoolState /\ Sound(cool')
    BY <1>3 DEF CoolType, CoolState, CoolInv, Sound, Agrees, Today
  <1>4. CASE UNCHANGED <<cool, booked>>
    <2>1. now' \in Nat /\ now <= now' /\ cool' = cool
      BY <1>1, <1>4, NowMoves
    <2>2. Today \in Nat /\ Today' \in Nat /\ Today <= Today'
      BY <1>1, <2>1, DayGrows DEF Today
    <2>3. cool.file \in Memory /\ cool.mem \in Memory
      BY <1>1 DEF CoolState
    <2>4. cool.file.date \in Nat /\ cool.mem.date \in Nat
          /\ \A m \in Market : cool.file.rec[m].until \in Nat
      BY <2>3, UntilIsNat DEF Memory
    <2>5. ASSUME Agrees(cool)
          PROVE  Agrees(cool)'
      <3>1. /\ cool.file.date <= cool.mem.date /\ cool.mem.date <= Today'
        BY <2>2, <2>4, <2>5 DEF Agrees
      <3>2. ASSUME NEW m \in Market
            PROVE  \/ cool.mem.rec[m] = cool.file.rec[m]
                   \/ cool.mem.rec[m] = NoRecord /\ cool.file.rec[m].until <= now'
        BY <1>1, <2>1, <2>4, <2>5 DEF Agrees
      <3> QED
        BY <2>1, <2>5, <3>1, <3>2, Zenon DEF Agrees, Zeros, NoRecord
    <2>6. cool.file.date <= Today'
      BY <1>1, <2>2, <2>4 DEF Sound
    <2> QED
      BY <1>1, <2>1, <2>5, <2>6, Zenon DEF CoolType, CoolState, CoolInv, Sound
  <1>5. CASE Keeps(cool, cool') /\ UNCHANGED <<now, booked>>
    BY <1>3, <1>5 DEF Keeps
  <1>6. CASE FillCool
    <2>1. /\ cool' = RecordExit(cool, fill.m, KindOf(fill)) /\ now' = now
          /\ fill.m \in Market /\ KindOf(fill) \in Kind
      BY <1>6, KindOfType DEF FillCool, IInv, TypeOK, FillKnown
    <2> QED
      BY <1>1, <1>3, <2>1, RecordExitFacts
  <1>7. CASE ResetCooldowns
    <2>1. cool' = [cool EXCEPT !.file = Empty(Today), !.edited = TRUE] /\ now' = now
      BY <1>7 DEF ResetCooldowns, OperatorReset
    <2>2. Empty(Today) \in Memory /\ Empty(Today).date = Today
      <3>1. Today \in Nat /\ Zeros \in [Market -> 0..MaxCount] /\ NoRecord \in ExitRec
        BY <1>1, ClockFacts, NoRecordType, ClockAssumption, SMT DEF Zeros
      <3> QED
        BY <3>1 DEF Empty, Memory, Zeros
    <2>3. cool' \in CoolState
      BY <1>1, <2>1, <2>2, Zenon DEF CoolState
    <2>4. cool'.file = Empty(Today) /\ cool'.edited = TRUE
      BY <1>1, <2>1, Zenon DEF CoolState
    <2>5. Sound(cool')
      BY <1>1, <2>2, <2>4, ClockFacts DEF Sound
    <2> QED
      BY <1>3, <2>1, <2>3, <2>5
  <1>8. CASE Restart
    BY <1>3, <1>8, RestartFacts
  <1> QED
    BY <1>2, <1>4, <1>5, <1>6, <1>7, <1>8

\* The last booked exit of every market is known to the manager until the
\* pause it owes is over.
LEMMA PauseStep ==
  ASSUME IInv, Next
  PROVE  PauseInv'
  <1>1. cool \in CoolState /\ Sound(cool) /\ now \in Time /\ now \in Nat
    BY CoolKnown
  <1>2. \/ UNCHANGED <<cool, booked>>
        \/ Keeps(cool, cool') /\ UNCHANGED <<now, booked>>
        \/ FillCool \/ ResetCooldowns \/ Restart
    BY CoolMoves
  <1>3. CASE UNCHANGED <<cool, booked>>
    <2>1. now' \in Nat /\ now <= now'
      BY <1>1, <1>3, NowMoves
    <2>2. ASSUME StopPause <= LimitPause, NEW m \in Market, now' < Due(m)'
          PROVE  cool'.mem.rec[m].until >= Due(m)'
      <3>1. Due(m)' = Due(m)
        BY <1>3 DEF Due, Owed, Pause, Day, Earlier
      <3>2. Due(m) \in Int
        <4>1. booked[m] \in [at : Time, kind : Kind \cup {"none"}]
          BY DEF IInv, TypeOK
        <4> QED
          BY <4>1, OwedFacts DEF Due
      <3>3. now < Due(m)
        BY <1>1, <2>1, <2>2, <3>1, <3>2
      <3> QED
        BY <1>3, <2>2, <3>1, <3>3, PauseKnown
    <2>3. cool'.edited => booked' = [m \in Market |-> NeverBooked]
      BY <1>3 DEF IInv, PauseInv
    <2> QED
      BY <2>2, <2>3 DEF PauseInv, NeverBooked
  <1>4. CASE /\ now' = now /\ booked' = booked /\ ~cool'.edited
             /\ \A m \in Market : now < cool.mem.rec[m].until /\ ~cool.edited =>
                  cool'.mem.rec[m] = cool.mem.rec[m]
    <2>1. ASSUME StopPause <= LimitPause, NEW m \in Market, now' < Due(m)'
          PROVE  cool'.mem.rec[m].until >= Due(m)'
      <3>1. Due(m)' = Due(m)
        BY <1>4 DEF Due, Owed, Pause, Day, Earlier
      <3>2. /\ ~cool.edited /\ cool.mem.rec[m].until >= Due(m)
            /\ Due(m) \in Int /\ cool.mem.rec[m].until \in Nat
        BY <1>4, <2>1, <3>1, PauseKnown
      <3> QED
        BY <1>1, <1>4, <2>1, <3>1, <3>2
    <2> QED
      BY <1>4, <2>1 DEF PauseInv
  <1>5. CASE Keeps(cool, cool') /\ UNCHANGED <<now, booked>>
    <2>1. ASSUME NEW m \in Market, now < cool.mem.rec[m].until, ~cool.edited
          PROVE  cool'.mem.rec[m] = cool.mem.rec[m]
      <3>1. Synced(cool) = cool
        BY <1>1, <2>1, SyncedFacts
      <3>2. cool.mem.rec[m].until \in Nat
        BY <1>1, UntilIsNat DEF CoolState, Memory
      <3> QED
        BY <1>1, <1>5, <2>1, <3>1, <3>2 DEF Keeps
    <2> QED
      BY <1>4, <1>5, <2>1 DEF Keeps
  <1>6. CASE FillCool
    <2> DEFINE k == KindOf(fill)
               t == RecordExit(cool, fill.m, k)
    <2>1. /\ cool' = t /\ now' = now /\ fill.m \in Market /\ k \in Kind
          /\ booked' = [booked EXCEPT ![fill.m] = [at |-> now, kind |-> k]]
      BY <1>6, KindOfType DEF FillCool, IInv, TypeOK, FillKnown
    <2> HIDE DEF k
    <2>2. /\ ~t.edited /\ t.mem.date = Today
          /\ \A m \in Market \ {fill.m} : t.mem.rec[m] = Synced(cool).mem.rec[m]
          /\ t.mem.rec[fill.m].until > now
          /\ k # "stop" => t.mem.rec[fill.m].until = now + Pause(k)
          /\ k = "stop" /\ StopPause <= LimitPause =>
               t.mem.rec[fill.m].until >= now + Earlier(StopPause, Midnight - now)
      BY <1>1, <2>1, RecordExitFacts
    <2> HIDE DEF t
    <2>3. booked \in [Market -> [at : Time, kind : Kind \cup {"none"}]]
      BY DEF IInv, TypeOK
    <2>4. booked'[fill.m] = [at |-> now, kind |-> k]
          /\ \A m \in Market \ {fill.m} : booked'[m] = booked[m]
      BY <2>1, <2>3
    <2>5. ASSUME StopPause <= LimitPause, NEW m \in Market \ {fill.m}, now' < Due(m)'
          PROVE  cool'.mem.rec[m].until >= Due(m)'
      <3>1. Due(m)' = Due(m)
        BY <2>4 DEF Due, Owed, Pause, Day, Earlier
      <3>2. ~cool.edited /\ cool.mem.rec[m].until >= Due(m)
        BY <2>1, <2>5, <3>1, PauseKnown
      <3>3. Synced(cool) = cool
        BY <1>1, <3>2, SyncedFacts
      <3> QED
        BY <2>1, <2>2, <2>5, <3>1, <3>2, <3>3
    <2>6. ASSUME StopPause <= LimitPause, NEW m \in {fill.m}
          PROVE  cool'.mem.rec[m].until >= Due(m)'
      <3> DEFINE b == [at |-> now, kind |-> k]
      <3>1. Due(m)' = b.at + Owed(b)
        BY <2>4 DEF Due, Owed, Pause, Day, Earlier
      <3>2. CASE k = "stop"
        <4>1. Owed(b) = Earlier(StopPause, Midnight - now)
          BY <3>2 DEF Owed, Midnight, Today
        <4> QED
          BY <2>1, <2>2, <2>6, <3>1, <3>2, <4>1
      <3>3. CASE k # "stop"
        <4>1. Owed(b) = Pause(k)
          BY <2>1, <3>3 DEF Owed, Kind
        <4>2. Pause(k) \in Nat
          BY PauseAssumption DEF Pause
        <4> QED
          BY <1>1, <2>1, <2>2, <3>1, <3>3, <4>1, <4>2
      <3> QED
        BY <3>2, <3>3
    <2> QED
      BY <2>1, <2>2, <2>5, <2>6 DEF PauseInv
  <1>7. CASE ResetCooldowns
    <2>1. booked' = [m \in Market |-> NeverBooked] /\ now' = now
      BY <1>7 DEF ResetCooldowns
    <2>2. ASSUME NEW m \in Market
          PROVE  ~(now' < Due(m)')
      <3>1. NeverBooked \in [at : Time, kind : Kind \cup {"none"}]
        BY ClockAssumption, SMT DEF NeverBooked, Time
      <3>2. NeverBooked.at + Owed(NeverBooked) = 0
        BY <3>1, OwedFacts
      <3>3. Due(m)' = NeverBooked.at + Owed(NeverBooked)
        BY <2>1 DEF Due, Owed, Pause, Day, Earlier
      <3> QED
        BY <1>1, <2>1, <3>2, <3>3
    <2> QED
      BY <2>1, <2>2 DEF PauseInv, NeverBooked
  <1>8. CASE Restart
    <2>1. ~cool'.edited /\ now' = now /\ booked' = booked /\ cool'.mem = Load(cool.file)
      BY <1>8, RestartFacts
    <2>2. ASSUME NEW m \in Market, now < cool.mem.rec[m].until, ~cool.edited
          PROVE  cool'.mem.rec[m] = cool.mem.rec[m]
      <3>1. \/ cool.mem.rec[m] = cool.file.rec[m]
            \/ cool.mem.rec[m] = NoRecord
        BY <1>1, <2>2 DEF Sound, Agrees
      <3>2. cool.mem.rec[m] = cool.file.rec[m]
        BY <1>1, <2>2, <3>1 DEF NoRecord
      <3>3. Kept(cool.file.rec[m])
        <4>1. cool.mem.rec[m].until \in Nat
          BY <1>1, UntilIsNat DEF CoolState, Memory
        <4> QED
          BY <1>1, <2>2, <3>2, <4>1 DEF Kept
      <3>4. cool'.mem.rec[m] = cool.file.rec[m]
        BY <1>1, <2>1, <3>3, LoadFacts DEF CoolState
      <3> QED
        BY <3>2, <3>4
    <2> QED
      BY <1>4, <2>1, <2>2
  <1> QED
    BY <1>2, <1>3, <1>5, <1>6, <1>7, <1>8


-----------------------------------------------------------------------------
(* The loss guard, step by step *)

LEMMA PrunedFacts ==
  ASSUME now \in Time, NEW recs \in [Market -> LossRec]
  PROVE  /\ Pruned(recs) \in [Market -> LossRec]
         /\ \A m \in Market : Pruned(recs)[m] = IF recs[m].date = Today THEN recs[m] ELSE NoLoss
         /\ Pruned(Pruned(recs)) = Pruned(recs)
         /\ \A m \in Market : Pruned(recs)[m].count \in 0..MaxCount
  <1>1. NoLoss \in LossRec
    <2>1. 0 \in Time /\ 0 \in 0..MaxCount
      BY ClockAssumption, SMT DEF Time
    <2> QED
      BY <2>1 DEF NoLoss, LossRec
  <1>2. Pruned(recs) \in [Market -> LossRec]
    BY <1>1 DEF Pruned
  <1>3. \A m \in Market : Pruned(recs)[m] = IF recs[m].date = Today THEN recs[m] ELSE NoLoss
    BY DEF Pruned
  <1>4. \A m \in Market : (IF Pruned(recs)[m].date = Today THEN Pruned(recs)[m] ELSE NoLoss)
                            = Pruned(recs)[m]
    BY <1>3 DEF NoLoss
  <1>5. Pruned(Pruned(recs)) = [m \in Market |-> Pruned(recs)[m]]
    BY <1>4 DEF Pruned
  <1>6. Pruned(recs) = [m \in Market |-> Pruned(recs)[m]]
    BY <1>2
  <1>7. \A m \in Market : Pruned(recs)[m].count \in 0..MaxCount
    BY <1>2, Zenon DEF LossRec
  <1> QED
    BY <1>2, <1>3, <1>5, <1>6, <1>7

\* What one step does to the losses: the old ones are dropped, one is
\* recorded, or nothing.
LEMMA LossMoves ==
  ASSUME IInv, Next
  PROVE  \/ UNCHANGED <<loss, lossFile>>
         \/ loss' = Pruned(loss) /\ lossFile' = loss' /\ UNCHANGED <<now, fill, lost, marked>>
         \/ loss' = Pruned(loss) /\ lossFile' = loss' /\ Restart
         \/ FillLoss /\ Qualifies(fill) /\ RecordLoss(fill.m)
  <1>1. lossFile = loss
    BY DEF IInv, LossInv
  <1>2. CASE Approve
    BY <1>2 DEF Approve, AskLoss, lossVars
  <1>3. CASE PreBuy
    BY <1>3 DEF PreBuy, AskLoss
  <1>4. CASE Restart
    BY <1>1, <1>4 DEF Restart, LossRestart
  <1>5. CASE FillLoss
    BY <1>5 DEF FillLoss, lossVars
  <1>6. CASE UNCHANGED lossVars
    BY <1>6 DEF lossVars
  <1> QED
    BY <1>2, <1>3, <1>4, <1>5, <1>6 DEF Next, Fill, Entry, ExitConfirmed, FillRisk, FillCool,
       FillMark, BeginCycle, SubmitGate, EndEntry, TimePasses, ResetCooldowns

\* A recorded loss is one more loss of its market today.
LEMMA RecordLossFacts ==
  ASSUME now \in Time, now' = now, loss \in [Market -> LossRec], NEW m \in Market, RecordLoss(m)
  PROVE  /\ loss' \in [Market -> LossRec] /\ lossFile' = loss'
         /\ Pruned(loss')[m].count = Earlier(Pruned(loss)[m].count + 1, MaxCount)
         /\ \A k \in Market \ {m} : loss'[k] = Pruned(loss)[k]
  <1> DEFINE recs == Pruned(loss)
             n    == Earlier(recs[m].count + 1, MaxCount)
             rec  == [date |-> Today, at |-> now, count |-> n]
  <1>1. recs \in [Market -> LossRec] /\ recs[m].count \in 0..MaxCount
    BY PrunedFacts
  <1>2. n \in 0..MaxCount /\ Today \in Nat
    BY <1>1, ClockAssumption, ClockFacts DEF Earlier
  <1>3. loss' = [recs EXCEPT ![m] = rec] /\ lossFile' = loss'
    BY DEF RecordLoss
  <1> HIDE DEF n
  <1>4. rec \in LossRec
    BY <1>2 DEF LossRec
  <1> HIDE DEF recs
  <1>5. loss' \in [Market -> LossRec] /\ loss'[m] = rec
        /\ \A k \in Market \ {m} : loss'[k] = recs[k]
    BY <1>1, <1>3, <1>4
  <1>6. Pruned(loss')[m] = rec
    BY <1>5 DEF Pruned
  <1> QED
    BY <1>3, <1>5, <1>6 DEF recs, n

LEMMA LossStep ==
  ASSUME IInv, Next
  PROVE  LossType' /\ LossInv'
  <1>1. /\ now \in Time /\ now \in Nat /\ loss \in [Market -> LossRec] /\ lossFile = loss
        /\ fill \in FillRec /\ lost \in [Market -> Nat] /\ MaxCount \in Nat
    BY CoolKnown, ClockAssumption DEF IInv, TypeOK, LossType, LossInv
  <1> DEFINE New == Pruned(loss)'
  <1>2. LossType' /\ lossFile' = loss'
    <2>1. CASE FillLoss /\ Qualifies(fill) /\ RecordLoss(fill.m)
      <3>1. fill.m \in Market /\ now' = now
        BY <2>1 DEF FillLoss, IInv, FillKnown
      <3> QED
        BY <1>1, <2>1, <3>1, RecordLossFacts DEF LossType
    <2> QED
      BY <1>1, <2>1, LossMoves, PrunedFacts DEF LossType
  <1>3. SUFFICES ASSUME "liveStop" \notin Reasons
                 PROVE  /\ \A m \in Market : New[m].count >= lost'[m]
                        /\ fill'.pc = "mark" /\ Lost(fill') =>
                             New[fill'.m].count >= Earlier(lost'[fill'.m] + 1, MaxCount)
    BY <1>2 DEF LossInv, LossesAreKept, Lost
  <1>4. /\ \A m \in Market : Pruned(loss)[m].count >= lost[m]
        /\ fill.pc = "mark" /\ Lost(fill) =>
             Pruned(loss)[fill.m].count >= Earlier(lost[fill.m] + 1, MaxCount)
    BY <1>3 DEF IInv, LossInv, LossesAreKept
  <1>5. ASSUME now' = now
        PROVE  New = Pruned(loss')
    BY <1>5 DEF Pruned, Today, NoLoss
  <1>6. CASE FillLoss
    <2>1. /\ fill.pc = "loss" /\ fill.m \in Market /\ fill.reason \in Reasons /\ now' = now
          /\ fill' = [fill EXCEPT !.pc = "mark"] /\ lost' = lost
      BY <1>6 DEF FillLoss, IInv, FillKnown
    <2>2. fill'.m = fill.m /\ fill'.pnl = fill.pnl /\ fill'.reason = fill.reason
      BY <1>1, <2>1 DEF FillRec
    <2>3. Lost(fill') <=> Qualifies(fill)
      BY <1>3, <2>1, <2>2 DEF Lost, Qualifies
    <2>4. CASE Qualifies(fill)
      <3>1. RecordLoss(fill.m)
        BY <1>6, <2>4 DEF FillLoss
      <3>2. /\ loss' \in [Market -> LossRec]
            /\ Pruned(loss')[fill.m].count = Earlier(Pruned(loss)[fill.m].count + 1, MaxCount)
            /\ \A k \in Market \ {fill.m} : loss'[k] = Pruned(loss)[k]
        BY <1>1, <2>1, <3>1, RecordLossFacts
      <3>3. ASSUME NEW k \in Market \ {fill.m}
            PROVE  Pruned(loss')[k] = Pruned(loss)[k]
        BY <1>1, <3>2, PrunedFacts
      <3>4. Pruned(loss)[fill.m].count \in 0..MaxCount
            /\ Pruned(loss)[fill.m].count >= lost[fill.m] /\ lost[fill.m] \in Nat
        BY <1>1, <1>4, <2>1, PrunedFacts
      <3>5. /\ Pruned(loss')[fill.m].count >= Earlier(lost[fill.m] + 1, MaxCount)
            /\ Pruned(loss')[fill.m].count >= lost[fill.m]
        BY <1>1, <3>2, <3>4 DEF Earlier
      <3> HIDE DEF New
      <3>6. New = Pruned(loss')
        BY <1>5, <2>1 DEF New
      <3> QED
        BY <1>4, <2>1, <2>2, <3>3, <3>5, <3>6
    <2>5. CASE ~Qualifies(fill)
      <3>1. loss' = loss
        BY <1>6, <2>5 DEF FillLoss, lossVars
      <3> HIDE DEF New
      <3>2. New = Pruned(loss)
        BY <1>5, <2>1, <3>1 DEF New
      <3> QED
        BY <1>4, <2>1, <2>3, <2>5, <3>2
    <2> QED
      BY <2>4, <2>5
  <1>7. CASE FillMark
    <2>1. /\ fill.pc = "mark" /\ fill.m \in Market /\ fill'.pc = "idle" /\ loss' = loss /\ now' = now
          /\ lost' = [lost EXCEPT ![fill.m] = IF Lost(fill) THEN Earlier(lost[fill.m] + 1, MaxCount)
                                              ELSE lost[fill.m]]
      BY <1>7 DEF FillMark, IInv, FillKnown, lossVars, NoFill
    <2> HIDE DEF New
    <2>2. New = Pruned(loss)
      BY <1>5, <2>1 DEF New
    <2> QED
      BY <1>1, <1>4, <2>1, <2>2
  <1>8. CASE TimePasses
    <2>1. /\ fill' = fill /\ fill.pc \in {"idle", "risk"} /\ loss' = loss
          /\ lost' = IF Today' = Today THEN lost ELSE [m \in Market |-> 0]
      BY <1>8 DEF TimePasses, lossVars, Today
    <2>2. CASE Today' = Today
      <3>1. New = Pruned(loss)
        BY <2>1, <2>2 DEF Pruned, NoLoss
      <3> HIDE DEF New
      <3> QED
        BY <1>4, <2>1, <2>2, <3>1
    <2>3. CASE Today' # Today
      <3>1. now' \in Time
        BY OwnStep, <1>8 DEF OwnTypes
      <3>2. \A m \in Market : New[m].count \in Nat
        <4>1. NoLoss.count \in Nat /\ \A m \in Market : loss[m].count \in Nat
          BY <1>1 DEF NoLoss, LossRec
        <4>2. \A m \in Market : New[m] = IF loss[m].date = Today' THEN loss[m] ELSE NoLoss
          BY <2>1 DEF Pruned, NoLoss
        <4> HIDE DEF New
        <4> QED
          BY <4>1, <4>2
      <3> HIDE DEF New
      <3> QED
        BY <2>1, <2>3, <3>2
    <2> QED
      BY <2>2, <2>3
  <1>9. CASE /\ loss' \in {loss, Pruned(loss)} /\ now' = now /\ lost' = lost
             /\ fill' = fill \/ fill'.pc # "mark"
    <2>1. Pruned(loss') = Pruned(loss)
      BY <1>1, <1>9, PrunedFacts
    <2> HIDE DEF New
    <2>2. New = Pruned(loss)
      BY <1>5, <1>9, <2>1 DEF New
    <2> QED
      BY <1>4, <1>9, <2>2
  <1>10. CASE Restart
    <2>1. fill'.pc # "mark"
      BY <1>1, <1>10 DEF Restart, FillRec
    <2>2. loss' = Pruned(loss) /\ now' = now /\ lost' = lost
      BY <1>1, <1>10 DEF Restart, LossRestart
    <2> QED
      BY <1>9, <2>1, <2>2
  <1>11. CASE ExitConfirmed \/ FillRisk \/ FillCool
    <2>1. fill'.pc # "mark"
      BY <1>1, <1>11 DEF ExitConfirmed, FillRisk, FillCool, FillRec
    <2> QED
      BY <1>9, <1>11, <2>1 DEF ExitConfirmed, FillRisk, FillCool, lossVars
  <1>12. CASE Entry \/ ResetCooldowns
    <2>1. fill' = fill /\ lost' = lost /\ now' = now
      BY <1>12 DEF Entry, BeginCycle, Approve, PreBuy, SubmitGate, EndEntry, ResetCooldowns
    <2>2. loss' \in {loss, Pruned(loss)}
      BY <1>12 DEF Entry, BeginCycle, Approve, PreBuy, SubmitGate, EndEntry, ResetCooldowns,
         AskLoss, lossVars
    <2> QED
      BY <1>9, <2>1, <2>2
  <1> QED
    BY <1>6, <1>7, <1>8, <1>10, <1>11, <1>12 DEF Next, Fill


-----------------------------------------------------------------------------
(* The market of an exit rests until the exit is marked *)

LEMMA RecordExitRests ==
  ASSUME now \in Time, NEW s \in CoolState, Sound(s), NEW m \in Market, NEW kind \in Kind,
         NEW k \in Market
  PROVE  InCooldown(RecordExit(s, m, kind), k) = (k = m \/ InCooldown(s, k))
  <1> DEFINE t == RecordExit(s, m, kind)
  <1>1. /\ t \in CoolState /\ ~t.edited /\ t.mem.date = Today
        /\ \A j \in Market \ {m} : t.mem.rec[j] = Synced(s).mem.rec[j]
        /\ t.mem.rec[m].until > now
    BY RecordExitFacts
  <1> HIDE DEF t
  <1>2. Rolled(t) = t
    BY <1>1, RollTwice
  <1>3. Rolled(s).mem.rec = Synced(s).mem.rec
    BY RolledFacts
  <1>4. InCooldown(t, k) = (k = m \/ InCooldown(s, k))
    <2>1. CASE k = m
      BY <1>1, <1>2, <2>1 DEF InCooldown, Running
    <2>2. CASE k # m
      BY <1>1, <1>2, <1>3, <2>2 DEF InCooldown, Running
    <2> QED
      BY <2>1, <2>2
  <1> QED
    BY <1>4 DEF t

\* The answers do not depend on what an action leaves alone.
LEMMA SameAnswers ==
  ASSUME now' = now
  PROVE  /\ \A m \in Market : InCooldown(cool, m)' = InCooldown(cool', m)
         /\ loss' = loss => \A m \in Market : Blacklisted(m)' = Blacklisted(m)
  BY DEF InCooldown, Running, Rolled, Synced, Load, Kept, Saved, NoRecord, Today, Blacklisted,
     Pruned, NoLoss, Midnight, Earlier

LEMMA ClosedByPruned ==
  ASSUME now' = now, now \in Time, loss \in [Market -> LossRec], NEW m \in Market,
         Pruned(loss')[m] = Pruned(loss)[m], loss'[m] \in {loss[m], Pruned(loss)[m]}
  PROVE  Blacklisted(m)' <=> Blacklisted(m)
  <1>1. Blacklisted(m)' <=> /\ Pruned(loss')[m].count >= 2
                            /\ now < Earlier(loss'[m].at + LimitPause, Midnight)
    BY DEF Blacklisted, Pruned, NoLoss, Midnight, Today, Earlier
  <1>2. Pruned(loss)[m].count >= 2 => Pruned(loss)[m] = loss[m]
    BY PrunedFacts DEF NoLoss
  <1>3. Pruned(loss)[m].count >= 2 => loss'[m] = loss[m]
    BY <1>2
  <1> QED
    BY <1>1, <1>3 DEF Blacklisted

\* A market is closed for its losses only by a loss that is recorded.
LEMMA ClosedMoves ==
  ASSUME IInv, Next, ~TimePasses, ~Restart, NEW m \in Market
  PROVE  \/ Blacklisted(m)' <=> Blacklisted(m)
         \/ FillLoss /\ m = fill.m
  <1>1. now' = now /\ now \in Time /\ loss \in [Market -> LossRec]
    BY NowMoves, CoolKnown DEF IInv, TypeOK, LossType
  <1>2. CASE loss' = loss
    BY <1>1, <1>2, SameAnswers
  <1>3. CASE loss' = Pruned(loss)
    <2>1. Pruned(loss') = Pruned(loss)
      BY <1>1, <1>3, PrunedFacts
    <2> QED
      BY <1>1, <1>3, <2>1, ClosedByPruned
  <1>4. CASE FillLoss /\ RecordLoss(fill.m) /\ m # fill.m
    <2>1. fill.m \in Market
      BY <1>4 DEF FillLoss, IInv, FillKnown
    <2>2. loss'[m] = Pruned(loss)[m]
      BY <1>1, <1>4, <2>1, RecordLossFacts
    <2>3. Pruned(loss')[m] = Pruned(loss)[m]
      BY <1>1, <2>2, PrunedFacts DEF Pruned, NoLoss
    <2> QED
      BY <1>1, <2>2, <2>3, ClosedByPruned
  <1> QED
    BY <1>2, <1>3, <1>4, LossMoves

LEMMA RestStep ==
  ASSUME IInv, Next
  PROVE  RestInv'
  <1>1. /\ cool \in CoolState /\ Sound(cool) /\ now \in Time
        /\ fill \in FillRec /\ entry \in EntryRec /\ FillKnown /\ EntryKnown
    BY CoolKnown DEF IInv, TypeOK
  <1>2. /\ fill.pc \in {"loss", "mark"} => InCooldown(cool, fill.m)
        /\ entry.pc = "checked" /\ Blacklisted(entry.m) => InCooldown(cool, entry.m)
    <2>1. fill.pc \in {"loss", "mark"} => fill.m \in Market
      BY <1>1 DEF FillKnown
    <2>2. entry.pc = "checked" => entry.m \in Market
      BY <1>1 DEF EntryKnown
    <2> QED
      BY <2>1, <2>2 DEF IInv, RestInv
  <1>3. CASE TimePasses \/ Restart
    <2>1. fill'.pc \notin {"loss", "mark"} /\ entry'.pc = "idle"
      BY <1>1, <1>3 DEF TimePasses, Restart, FillRec, NoEntry, entryVars
    <2> QED
      BY <2>1 DEF RestInv
  <1>4. CASE ResetCooldowns
    <2>1. fill'.pc = "idle" /\ entry'.pc = "idle"
      BY <1>4 DEF ResetCooldowns, entryVars
    <2> QED
      BY <2>1 DEF RestInv
  <1>5. ASSUME ~TimePasses, ~Restart, ~ResetCooldowns
        PROVE  RestInv'
    <2>1. now' = now
      BY <1>5, NowMoves
    <2>2. \/ UNCHANGED <<cool, booked>>
          \/ Keeps(cool, cool')
          \/ FillCool
      BY <1>5, CoolMoves
    <2>3. ASSUME NEW m \in Market, InCooldown(cool, m)
          PROVE  InCooldown(cool', m)
      <3>1. CASE Keeps(cool, cool')
        BY <1>1, <2>3, <3>1, KeepsRest
      <3>2. CASE FillCool
        <4>1. cool' = RecordExit(cool, fill.m, KindOf(fill)) /\ fill.m \in Market
              /\ KindOf(fill) \in Kind
          BY <1>1, <3>2, KindOfType DEF FillCool, FillKnown
        <4> QED
          BY <1>1, <2>3, <4>1, RecordExitRests
      <3> QED
        BY <2>2, <2>3, <3>1, <3>2
    <2>4. ASSUME fill'.pc \in {"loss", "mark"}
          PROVE  InCooldown(cool', fill'.m)
      <3>1. CASE FillCool
        <4>1. cool' = RecordExit(cool, fill.m, KindOf(fill)) /\ fill.m \in Market
              /\ KindOf(fill) \in Kind /\ fill'.m = fill.m
          BY <1>1, <3>1, KindOfType DEF FillCool, FillKnown, FillRec
        <4> QED
          BY <1>1, <4>1, RecordExitRests
      <3>2. CASE fill.pc \in {"loss", "mark"} /\ fill'.m = fill.m
        BY <1>1, <1>2, <2>3, <3>2 DEF FillKnown
      <3>3. CASE ExitConfirmed \/ FillRisk \/ FillMark
        BY <1>1, <2>4, <3>3 DEF ExitConfirmed, FillRisk, FillMark, FillRec, NoFill
      <3>4. CASE FillLoss
        BY <1>1, <3>2, <3>4 DEF FillLoss, FillRec
      <3>5. CASE Entry
        <4>1. fill' = fill
          BY <3>5 DEF Entry, BeginCycle, Approve, PreBuy, SubmitGate, EndEntry
        <4> QED
          BY <2>4, <3>2, <4>1
      <3> QED
        BY <1>5, <3>1, <3>3, <3>4, <3>5 DEF Next, Fill
    <2>5. ASSUME NEW m \in Market, entry'.pc = "checked", m = entry'.m, Blacklisted(m)'
          PROVE  InCooldown(cool', m)
      <3>1. CASE PreBuy
        <4>1. entry.m = m /\ ~LossBlocked(m, entry.path = "momentum")
          BY <1>1, <2>5, <3>1 DEF PreBuy, EntryRec, NoEntry
        <4>2. ~Blacklisted(m)
          BY <4>1 DEF LossBlocked
        <4>3. ~FillLoss
          BY <1>1, <3>1 DEF PreBuy, FillLoss, FillRec
        <4> QED
          BY <1>5, <2>5, <4>2, <4>3, ClosedMoves
      <3>2. CASE entry' = entry
        <4>1. CASE Blacklisted(m)
          BY <1>2, <2>3, <2>5, <3>2, <4>1
        <4>2. CASE ~Blacklisted(m)
          <5>1. FillLoss /\ m = fill.m
            BY <1>5, <2>5, <4>2, ClosedMoves
          <5> QED
            BY <1>2, <2>3, <5>1 DEF FillLoss
        <4> QED
          BY <4>1, <4>2
      <3>3. CASE Fill
        BY <3>2, <3>3 DEF Fill, ExitConfirmed, FillRisk, FillCool, FillLoss, FillMark, entryVars
      <3>4. CASE BeginCycle \/ Approve \/ SubmitGate \/ EndEntry
        <4>1. entry' = entry \/ entry'.pc # "checked"
          <5>1. CASE Approve
            <6>1. PICK k \in Market, path \in Path, gap \in Gap :
                    entry' \in {entry, [pc |-> "approved", m |-> k, path |-> path, gap |-> gap]}
              BY <5>1 DEF Approve
            <6> QED
              BY <6>1
          <5>2. CASE BeginCycle \/ EndEntry
            BY <5>2 DEF BeginCycle, EndEntry, NoEntry
          <5>3. CASE SubmitGate
            <6>1. entry' \in {[entry EXCEPT !.pc = "submitted"], NoEntry}
              BY <5>3 DEF SubmitGate
            <6> QED
              BY <1>1, <6>1 DEF NoEntry, EntryRec
          <5> QED
            BY <3>4, <5>1, <5>2, <5>3
        <4> QED
          BY <2>5, <3>2, <4>1
      <3> QED
        BY <1>5, <3>1, <3>3, <3>4 DEF Next, Entry
    <2>6. \A m \in Market : InCooldown(cool, m)' = InCooldown(cool', m)
      BY <2>1, SameAnswers
    <2> QED
      BY <2>4, <2>5, <2>6 DEF RestInv
  <1> QED
    BY <1>3, <1>4, <1>5


-----------------------------------------------------------------------------
(* The theorems *)

LEMMA InitInv == Init => IInv
  <1> SUFFICES ASSUME Init PROVE IInv
    OBVIOUS
  <1> USE DEF Init
  <1>1. /\ now = 0 /\ 0 \in Time /\ Today = 0 /\ MaxTrades \in Nat /\ MaxCrashes \in Nat
        /\ MaxCount \in Nat
    <2>1. 0 \in Time /\ Today = 0
      BY ClockAssumption, SMT DEF Time, Today, Day
    <2> QED
      BY <2>1, ClockAssumption, RiskAssumption, GuardAssumption
  <1>2. Empty(0) \in Memory /\ NoRecord \in ExitRec
    <2>1. NoRecord \in ExitRec /\ Zeros \in [Market -> 0..MaxCount]
      BY <1>1, NoRecordType, SMT DEF Zeros
    <2> QED
      BY <2>1 DEF Empty, Memory, Zeros
  <1>3. CoolType /\ CoolInv /\ ~cool.edited
    <2>1. Empty(0).date = 0
      BY DEF Empty
    <2>2. cool = [mem |-> Empty(0), file |-> Empty(0), edited |-> FALSE]
      BY DEF CoolInit
    <2> QED
      BY <1>1, <1>2, <2>1, <2>2 DEF CoolType, CoolInv, Sound, Agrees
  <1>4. RiskType /\ RiskInv /\ Counted = 0
    <2>1. FirstDay \in RiskRec
      BY <1>1 DEF FirstDay, RiskRec
    <2> QED
      BY <2>1 DEF RiskInit, RiskType, RiskInv, Counted, FirstDay
  <1>5. LossType /\ LossInv
    <2>1. loss = [m \in Market |-> NoLoss] /\ lossFile = loss
      BY DEF LossInit
    <2>2. NoLoss \in LossRec /\ NoLoss.count = 0 /\ NoLoss.date = 0
      BY <1>1 DEF NoLoss, LossRec
    <2>3. \A m \in Market : Pruned(loss)[m] = NoLoss
      BY <2>1 DEF Pruned
    <2> QED
      BY <2>1, <2>2, <2>3 DEF LossType, LossInv, LossesAreKept, NoFill
  <1>6. fill \in FillRec /\ entry \in EntryRec /\ fill.pc = "idle" /\ entry.pc = "idle"
    BY DEF NoFill, NoEntry, FillRec, EntryRec, Reason, Path, Gap
  <1>7. NeverBooked \in [at : Time, kind : Kind \cup {"none"}]
        /\ \A m \in Market : Due(m) = 0
    <2>1. NeverBooked \in [at : Time, kind : Kind \cup {"none"}]
      BY <1>1 DEF NeverBooked
    <2> QED
      BY <2>1, OwedFacts DEF Due
  <1>8. TypeOK
    <2>1. booked \in [Market -> [at : Time, kind : Kind \cup {"none"}]]
      BY <1>7
    <2>2. marked \in Nat /\ crashes \in 0..MaxCrashes
      BY <1>1
    <2>3. lost \in [Market -> Nat]
      OBVIOUS
    <2>4. shut \in BOOLEAN
      OBVIOUS
    <2> QED
      BY <1>1, <1>3, <1>4, <1>5, <1>6, <2>1, <2>2, <2>3, <2>4 DEF TypeOK
  <1>9. CountInv
    BY <1>1, <1>4, <1>6 DEF CountInv, Booking
  <1>10. FillKnown /\ EntryKnown /\ RestInv
    BY <1>6 DEF FillKnown, EntryKnown, RestInv
  <1>11. PauseInv
    BY <1>1, <1>3, <1>7 DEF PauseInv
  <1> QED
    BY <1>3, <1>4, <1>5, <1>8, <1>9, <1>10, <1>11 DEF IInv

LEMMA StepInv == IInv /\ [Next]_vars => IInv'
  <1>1. ASSUME IInv, Next
        PROVE  IInv'
    <2>1. CoolType' /\ CoolInv'
      BY <1>1, CoolStep
    <2>2. RiskType' /\ RiskInv'
      BY <1>1, RiskMoves
    <2>3. CountInv'
      BY <1>1, CountStep
    <2>4. LossType' /\ LossInv'
      BY <1>1, LossStep
    <2>5. OwnTypes'
      BY <1>1, OwnStep
    <2>6. PauseInv' /\ RestInv'
      BY <1>1, PauseStep, RestStep
    <2>7. TypeOK'
      BY <2>1, <2>2, <2>4, <2>5 DEF TypeOK, OwnTypes
    <2> QED
      BY <2>1, <2>2, <2>3, <2>4, <2>5, <2>6, <2>7 DEF IInv, OwnTypes
  <1>2. ASSUME IInv, UNCHANGED vars
        PROVE  IInv'
    BY <1>2 DEF vars, IInv, TypeOK, CoolType, RiskType, LossType, CoolInv, Sound, Agrees, Today,
       CountInv, Counted, Booking, RiskInv, FillKnown, EntryKnown, LossInv, LossesAreKept, Lost,
       Pruned, NoLoss, PauseInv, Due, Owed, RestInv, InCooldown, Running, Rolled, Synced, Load,
       Kept, Saved, NoRecord, NeverBooked, Blacklisted, Midnight
  <1> QED
    BY <1>1, <1>2

\* The types of TypeOK hold in every reachable state.
THEOREM TypeCorrect == Spec => []TypeOK
  <1>1. IInv => TypeOK
    BY DEF IInv
  <1> QED
    BY InitInv, StepInv, <1>1, PTL DEF Spec

\* Every marked exit is in the daily statistics, and a crash counts no more
\* than the exit it hit a second time (add_realized_trade, mark_fill_processed).
THEOREM ExitsAlwaysCounted == Spec => []ExitsAreCounted
  <1>1. ASSUME IInv
        PROVE  ExitsAreCounted
    <2>1. Booking <=> fill.pc \notin {"idle", "risk"}
      BY <1>1 DEF IInv, TypeOK, FillRec, Booking
    <2>2. Counted \in Nat /\ marked \in Nat /\ crashes \in Nat
      BY <1>1, RiskAssumption, GuardAssumption DEF IInv, TypeOK, RiskType, RiskRec, Counted
    <2>3. /\ Counted >= marked + (IF Booking THEN 1 ELSE 0)
          /\ Counted <= marked + crashes + (IF Booking THEN 1 ELSE 0)
      BY <1>1 DEF IInv, CountInv
    <2>4. /\ Counted >= marked
          /\ Counted <= marked + crashes + (IF fill.pc \in {"idle", "risk"} THEN 0 ELSE 1)
      BY <2>1, <2>2, <2>3
    <2> QED
      BY <2>4 DEF ExitsAreCounted, Counted
  <1> QED
    BY InitInv, StepInv, <1>1, PTL DEF Spec

\* A marked loss of the day is in the loss guard, whatever died in between,
\* when every loss's reason carries a code.
THEOREM LossesAlwaysKept ==
  ASSUME "liveStop" \notin Reasons
  PROVE  Spec => []LossesAreKept
  <1>1. IInv => LossesAreKept
    BY DEF IInv, LossInv
  <1> QED
    BY InitInv, StepInv, <1>1, PTL DEF Spec

\* The kill switch of a day holds until that day ends: no rebound, no empty
\* account and no restart opens it (update_daily_equity, _load_state).
THEOREM KillSwitchAlwaysHolds == Spec => KillSwitchHolds
  <1>1. IInv /\ [Next]_vars =>
          [risk.killed /\ risk.latched = Day(now') => risk'.killed]_vars
    <2>1. ASSUME IInv, Next
          PROVE  risk.killed /\ risk.latched = Day(now') => risk'.killed
      BY <2>1, RiskMoves, Zenon
    <2> QED
      BY <2>1
  <1> QED
    BY InitInv, StepInv, <1>1, PTL DEF Spec, KillSwitchHolds

\* A submitted BUY is of the market that passed the last check, and that
\* market does not rest (evaluate_pre_buy_submit_gate).
LEMMA SubmitsFacts ==
  ASSUME IInv, Next, Submits
  PROVE  /\ SubmitGate /\ now' = now /\ booked' = booked /\ loss' = loss
         /\ entry.pc = "checked" /\ entry'.m = entry.m /\ entry.m \in Market
         /\ ~InCooldown(cool, entry.m)
  <1>1. entry \in EntryRec /\ EntryKnown
    BY DEF IInv, TypeOK
  <1>2. SubmitGate
    <2>1. CASE Fill \/ TimePasses \/ ResetCooldowns
      BY <2>1 DEF Submits, Fill, ExitConfirmed, FillRisk, FillCool, FillLoss, FillMark, TimePasses,
         ResetCooldowns, entryVars
    <2>2. CASE BeginCycle \/ EndEntry \/ Restart
      BY <2>2 DEF Submits, BeginCycle, EndEntry, Restart, NoEntry
    <2>3. CASE Approve
      <3>1. PICK k \in Market, path \in Path, gap \in Gap :
              entry' \in {entry, [pc |-> "approved", m |-> k, path |-> path, gap |-> gap]}
        BY <2>3 DEF Approve
      <3> QED
        BY <3>1 DEF Submits
    <2>4. CASE PreBuy
      <3>1. entry' \in {NoEntry, [entry EXCEPT !.pc = "checked"]}
        BY <2>4 DEF PreBuy
      <3> QED
        BY <1>1, <3>1 DEF Submits, NoEntry, EntryRec
    <2> QED
      BY <2>1, <2>2, <2>3, <2>4 DEF Next, Entry
  <1>3. entry' = [entry EXCEPT !.pc = "submitted"] /\ ~InCooldown(cool, entry.m)
    BY <1>2 DEF SubmitGate, Submits, NoEntry
  <1>4. entry.pc = "checked" /\ entry'.m = entry.m /\ entry.m \in Market
    BY <1>1, <1>2, <1>3 DEF SubmitGate, EntryRec, EntryKnown
  <1> QED
    BY <1>2, <1>3, <1>4 DEF SubmitGate, lossVars

\* Two losses of the day close a market to every path for the pause of the
\* limit, also when the second is booked while the entry is on its way
\* (check_reentry_blocked, record_exit, the submit gate).
THEOREM TwoLossesAlwaysBlock == Spec => TwoLossesBlock
  <1>1. IInv /\ [Next]_vars => [Submits => ~Blacklisted(entry'.m)]_vars
    <2>1. ASSUME IInv, Next, Submits
          PROVE  ~Blacklisted(entry'.m)
      BY <2>1, SubmitsFacts DEF IInv, RestInv
    <2> QED
      BY <2>1
  <1> QED
    BY InitInv, StepInv, <1>1, PTL DEF Spec, TwoLossesBlock

\* No BUY is submitted in the pause the market's last booked exit owes it,
\* though the exit may have been booked after the entry was decided, the
\* process may have died since and a new day may have begun; a stop's pause
\* is no longer than the limit's.
THEOREM NeverBoughtInPause ==
  ASSUME StopPause <= LimitPause
  PROVE  Spec => NoBuyInPause
  <1>1. IInv /\ [Next]_vars =>
          [Submits => LET b == booked[entry'.m] IN now >= b.at + Owed(b)]_vars
    <2>1. ASSUME IInv, Next, Submits
          PROVE  now >= booked[entry'.m].at + Owed(booked[entry'.m])
      <3>1. entry'.m = entry.m /\ entry.m \in Market /\ ~InCooldown(cool, entry.m)
        BY <2>1, SubmitsFacts
      <3>2. cool \in CoolState /\ Sound(cool) /\ now \in Time /\ now \in Nat
        BY <2>1, CoolKnown
      <3>3. Due(entry.m) \in Int
        <4>1. booked[entry.m] \in [at : Time, kind : Kind \cup {"none"}]
          BY <2>1, <3>1 DEF IInv, TypeOK
        <4> QED
          BY <4>1, OwedFacts DEF Due
      <3>4. ASSUME now < Due(entry.m)
            PROVE  FALSE
        <4>1. /\ ~cool.edited /\ cool.mem.rec[entry.m].until >= Due(entry.m)
              /\ cool.mem.rec[entry.m].until \in Nat
          BY <2>1, <3>1, <3>4, PauseKnown
        <4>2. Rolled(cool).mem.rec[entry.m] = cool.mem.rec[entry.m]
          BY <3>2, <4>1, RolledFacts, SyncedFacts
        <4> QED
          BY <3>1, <3>2, <3>3, <3>4, <4>1, <4>2 DEF InCooldown, Running
      <3> QED
        BY <3>1, <3>2, <3>3, <3>4 DEF Due
    <2> QED
      BY <2>1
  <1> QED
    BY InitInv, StepInv, <1>1, PTL DEF Spec, NoBuyInPause

\* A restart changes no answer of the cooldown manager: which markets rest,
\* and how many stop losses they had today (_save, _load, the day's turn).
THEOREM RestartAlwaysKeeps == Spec => []RestartKeepsCooldowns
  <1>1. ASSUME IInv
        PROVE  RestartKeepsCooldowns
    <2> DEFINE loaded == [cool EXCEPT !.mem = Load(cool.file), !.edited = FALSE]
    <2>1. cool \in CoolState /\ Sound(cool) /\ now \in Time /\ now \in Nat
      BY <1>1, CoolKnown
    <2>2. /\ Load(cool.file) \in Memory /\ Load(cool.file).date = Today
          /\ Load(cool.file).count = IF cool.file.date = Today THEN cool.file.count ELSE Zeros
          /\ \A m \in Market : Load(cool.file).rec[m] =
                 IF Kept(cool.file.rec[m]) THEN cool.file.rec[m] ELSE NoRecord
      BY <2>1, LoadFacts DEF CoolState
    <2>3. loaded \in CoolState
      BY <2>1, <2>2, Zenon DEF CoolState
    <2>4. loaded.mem = Load(cool.file) /\ loaded.edited = FALSE
      BY <2>1, Zenon DEF CoolState
    <2> HIDE DEF loaded
    <2>5. Rolled(loaded) = loaded
      BY <2>2, <2>3, <2>4, RollTwice
    <2>6. /\ Rolled(cool).mem.rec = Synced(cool).mem.rec
          /\ Rolled(cool).mem.count = IF Synced(cool).mem.date = Today THEN Synced(cool).mem.count
                                      ELSE Zeros
      BY <2>1, RolledFacts
    <2>7. ASSUME NEW m \in Market
          PROVE  /\ InCooldown(loaded, m) = InCooldown(cool, m)
                 /\ Rolled(loaded).mem.count[m] = Rolled(cool).mem.count[m]
      <3>1. CASE cool.edited
        <4>1. Synced(cool).mem = Load(cool.file)
          BY <2>1, <3>1, SyncedFacts
        <4> QED
          BY <2>2, <2>4, <2>5, <2>6, <4>1 DEF InCooldown, Running
      <3>2. CASE ~cool.edited
        <4>1. Synced(cool) = cool /\ Agrees(cool)
          BY <2>1, <3>2, SyncedFacts DEF Sound
        <4>2. cool.file \in Memory /\ cool.mem \in Memory /\ Today \in Nat
          BY <2>1, ClockFacts DEF CoolState
        <4>3. cool.file.date \in Nat /\ cool.mem.date \in Nat
              /\ cool.file.rec[m].until \in Nat /\ cool.mem.rec[m].until \in Nat
          BY <4>2, UntilIsNat DEF Memory
        <4>4. InCooldown(loaded, m) = InCooldown(cool, m)
          <5>1. InCooldown(loaded, m) <=> Load(cool.file).rec[m].until > now
            BY <2>4, <2>5 DEF InCooldown, Running
          <5>2. InCooldown(cool, m) <=> cool.mem.rec[m].until > now
            BY <2>6, <4>1 DEF InCooldown, Running
          <5>3. NoRecord.until = 0
            BY DEF NoRecord
          <5>4. Load(cool.file).rec[m].until > now <=> cool.file.rec[m].until > now
            BY <2>1, <2>2, <4>3, <5>3 DEF Kept
          <5>5. cool.file.rec[m].until > now <=> cool.mem.rec[m].until > now
            BY <2>1, <4>1, <4>3, <5>3 DEF Agrees
          <5> QED
            BY <5>1, <5>2, <5>4, <5>5 DEF InCooldown, Running
        <4>5. Rolled(loaded).mem.count = Rolled(cool).mem.count
          BY <2>2, <2>4, <2>5, <2>6, <4>1, <4>2, <4>3 DEF Agrees
        <4> QED
          BY <4>4, <4>5
      <3> QED
        BY <3>1, <3>2
    <2> QED
      BY <2>7 DEF RestartKeepsCooldowns, loaded
  <1> QED
    BY InitInv, StepInv, <1>1, PTL DEF Spec

=============================================================================
