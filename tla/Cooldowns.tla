----------------------------- MODULE Cooldowns ------------------------------
(***************************************************************************)
(* CooldownManager (order_safety/cooldown.py): how long a market rests     *)
(* after an exit, how many stop losses it had today, and what the price    *)
(* has to do before it is bought again.  Every method runs under one lock  *)
(* and first takes over an edited file and a new day, so an operation is a *)
(* function of the manager: its memory, its file and whether the file has  *)
(* been edited by hand since it was last read or written.                  *)
(***************************************************************************)
EXTENDS DayClock

CONSTANTS
  StopPause, TimePause, ProfitPause, ListingPause,
  Retain,      \* 7200 s: the price filter, and what _load keeps
  KnifeExtra,  \* 3600 s more of price filter after a limit's pause
  MaxLosses    \* stop losses of a market in a day before the limit

ASSUME PauseAssumption ==
  /\ {StopPause, TimePause, ProfitPause, ListingPause} \subseteq Nat \ {0}
  /\ Retain \in Nat /\ KnifeExtra \in Nat
  /\ MaxLosses \in Nat \ {0} /\ MaxCount > MaxLosses

VARIABLE cool

\* What the text of an exit_type tells the manager: a stop loss, a market at
\* its daily limit, a time stop, a time stop of a new listing, a profit
\* ("TRAILING" or "TP") or none of these.
Kind == {"stop", "limit", "time", "listing", "profit", "other"}
\* Where the price is: 1.5% or more below the exit price, below it, less
\* than 1.5% above it, higher.
Gap == {"drop", "dip", "rise", "surge"}

NoRecord == [kind |-> "none", at |-> 0, until |-> 0]
ExitRec  == [kind : Kind \cup {"none"}, at : Time, until : 0..(MaxNow + StopPause
             + TimePause + ProfitPause + ListingPause + LimitPause)]
Memory   == [date : Nat, count : [Market -> 0..MaxCount], rec : [Market -> ExitRec]]
Empty(d) == [date |-> d, count |-> [m \in Market |-> 0], rec |-> [m \in Market |-> NoRecord]]

CoolType == cool \in [mem : Memory, file : Memory, edited : BOOLEAN]

-----------------------------------------------------------------------------
Saved(mem) == [mem |-> mem, file |-> mem, edited |-> FALSE]

\* Mutant: a record is loaded by its age alone.
KeptByAge(r) == now - r.at < Retain
Kept(r) == r.until > now \/ now - r.at < Retain

Load(file) ==
  [date  |-> Today,
   count |-> IF file.date = Today THEN file.count ELSE [m \in Market |-> 0],
   rec   |-> [m \in Market |-> IF Kept(file.rec[m]) THEN file.rec[m] ELSE NoRecord]]

Synced(s) == IF s.edited THEN [s EXCEPT !.mem = Load(s.file), !.edited = FALSE] ELSE s

Rolled(s) ==
  LET t == Synced(s) IN
  IF t.mem.date = Today THEN t
  ELSE Saved([t.mem EXCEPT !.date = Today, !.count = [m \in Market |-> 0]])

Pause(kind) == CASE kind = "listing" -> ListingPause
                 [] kind = "time"    -> TimePause
                 [] OTHER            -> ProfitPause

Written(mem, m, kind, pause) ==
  [mem EXCEPT !.rec[m] = [kind |-> kind, at |-> now, until |-> now + pause]]

\* record_exit()
RecordExit(s, m, kind) ==
  LET mem == Rolled(s).mem
      n   == Earlier(mem.count[m] + 1, MaxCount)
      counted == [mem EXCEPT !.count[m] = n]
  IN  Saved(IF kind # "stop" THEN Written(mem, m, kind, Pause(kind))
            ELSE IF n >= MaxLosses
                 THEN Written(counted, m, "limit", Earlier(LimitPause, Midnight - now))
                 ELSE Written(counted, m, "stop", StopPause))

Forget(s, m) == Saved([s.mem EXCEPT !.rec[m] = NoRecord])
Running(s, m) == s.mem.rec[m].until > now

\* is_in_cooldown(): the answer, and the manager after it.
InCooldown(s, m) == Running(Rolled(s), m)
AfterInCooldown(s, m) ==
  LET t == Rolled(s)
      r == t.mem.rec[m]
  IN  IF r # NoRecord /\ ~Running(t, m) /\ now - r.at >= Retain THEN Forget(t, m) ELSE t

FilterLength(r) == IF r.kind = "limit" THEN Later(Retain, (r.until - r.at) + KnifeExtra)
                   ELSE Retain
GapRefuses(kind, gap) == \/ kind \in {"stop", "limit"} /\ gap = "drop"
                         \/ kind \in {"time", "listing"} /\ gap \in {"dip", "rise"}
                         \/ kind = "profit" /\ gap # "surge"

\* The shakeout exemption: a stop below the daily limit whose price is back.
Reclaimed(s, m, gap) == /\ s.mem.rec[m].kind = "stop"
                        /\ s.mem.count[m] < MaxLosses
                        /\ gap \in {"rise", "surge"}

\* check_reentry_allowed(): the answer, and the manager after it.
ReentryAllowed(s, m, gap, reclaim) ==
  LET t == Rolled(s)
      r == t.mem.rec[m]
  IN  IF Running(t, m) THEN reclaim /\ Reclaimed(t, m, gap)
      ELSE r # NoRecord /\ now - r.at < FilterLength(r) => ~GapRefuses(r.kind, gap)
AfterReentry(s, m) ==
  LET t == Rolled(s)
      r == t.mem.rec[m]
  IN  IF r # NoRecord /\ ~Running(t, m) /\ now - r.at >= FilterLength(r)
      THEN Forget(t, m) ELSE t

CoolInit    == cool = [mem |-> Empty(0), file |-> Empty(0), edited |-> FALSE]
CoolRestart == cool' = [cool EXCEPT !.mem = Load(cool.file), !.edited = FALSE]
\* The operator empties the file by hand.
OperatorReset == cool' = [cool EXCEPT !.file = Empty(Today), !.edited = TRUE]

=============================================================================
