---------------------------- MODULE EntryGuards -----------------------------
(***************************************************************************)
(* The guards a new BUY has to pass (trading_runtime.py, pre_buy_gate.py)  *)
(* and the confirmed exits that feed them (fill_processor.py).             *)
(*                                                                         *)
(* Two threads: the cycle takes the portfolio's snapshot, decides on an    *)
(* entry, checks it again before the order and passes the submit gate; a   *)
(* reconciler books a confirmed exit in one guard after the other and then *)
(* marks it in the journal.  The process may die between any two steps;    *)
(* an exit that was not marked is booked again from the start.  Booking an *)
(* exit, and an entry from its decision to its order, take less than a     *)
(* tick (minutes); an exit may wait for its booking longer.                *)
(***************************************************************************)
EXTENDS Cooldowns, DailyRisk, LossReentry

CONSTANTS
  None,
  Reasons,    \* the exit reasons of the run, from Reason
  MayReset,   \* the operator may empty the cooldown file
  MaxCrashes  \* bound: process deaths

\* What the reason of an exit order tells the guards: a stop loss with a code
\* ("STOP_LOSS", "AI_TIGHTENED_STOP"), one of the real-time engine ("...
\* Hard-Stop ..." or its Korean name), a time stop, one of a new listing, a
\* trailing or partial take profit, anything else.
Reason == {"stop", "liveStop", "time", "listing", "profit", "other"}

ASSUME GuardAssumption == /\ None \notin Market /\ MaxCrashes \in Nat
                          /\ MayReset \in BOOLEAN /\ Reasons \subseteq Reason

VARIABLES
  fill,     \* the exit being booked
  entry,    \* the entry being decided
  shut,     \* the cycle's snapshot of the kill switch
  crashes,
  booked,   \* history: per market, the last exit the cooldown manager took
  marked,   \* history: exits marked in the journal
  lost      \* history: per market, the day's losses that are marked

coolVars  == <<cool, booked>>
riskVars  == <<risk, riskFile>>
lossVars  == <<loss, lossFile>>
entryVars == <<entry, shut>>
vars == <<now, cool, risk, riskFile, loss, lossFile, fill, entry, shut, crashes,
          booked, marked, lost>>

\* How an entry comes about: on a shakeout sweep ("momentum" when the market
\* is a momentum candidate and the regime RISK_OFF, where nothing else is left
\* to it), or another way.
Path   == {"momentum", "sweep", "plain"}

FillRec  == [pc : {"idle", "risk", "cool", "loss", "mark"}, m : Market \cup {None},
             reason : Reason, pnl : {-1, 1}]
EntryRec == [pc : {"idle", "cycle", "approved", "checked", "submitted"},
             m : Market \cup {None}, path : Path, gap : Gap]
NoFill   == [pc |-> "idle", m |-> None, reason |-> "other", pnl |-> 1]
NoEntry  == [pc |-> "idle", m |-> None, path |-> "plain", gap |-> "surge"]
NeverBooked == [at |-> 0, kind |-> "none"]

-----------------------------------------------------------------------------
(* A confirmed exit: process_order_fill, one guard after the other *)

\* A stop loss that won counts as no stop loss.
KindOf(f) == CASE f.reason \in {"stop", "liveStop"} -> IF f.pnl > 0 THEN "other" ELSE "stop"
               [] OTHER -> f.reason

\* qualifies_risk_off_loss_reentry_record(): a loss whose reason carries a code.
Qualifies(f) == f.pnl < 0 /\ f.reason \in {"stop", "time", "listing"}
\* A loss that closes the market to momentum for the day.
Lost(f) == f.pnl < 0 /\ f.reason \in {"stop", "liveStop", "time", "listing"}

\* The exit waits in the journal, executed and not booked.
ExitConfirmed ==
  /\ fill.pc = "idle"
  /\ risk.past + risk.trades + MaxCrashes < MaxTrades
  /\ \E m \in Market, reason \in Reasons, pnl \in {-1, 1} :
       fill' = [pc |-> "risk", m |-> m, reason |-> reason, pnl |-> pnl]
  /\ UNCHANGED <<now, cool, riskVars, lossVars, entryVars, crashes, booked, marked, lost>>

FillRisk ==
  /\ fill.pc = "risk"
  /\ AddRealizedTrade(fill.pnl)
  /\ fill' = [fill EXCEPT !.pc = "cool"]
  /\ UNCHANGED <<now, cool, lossVars, entryVars, crashes, booked, marked, lost>>

FillCool ==
  /\ fill.pc = "cool"
  /\ cool' = RecordExit(cool, fill.m, KindOf(fill))
  /\ booked' = [booked EXCEPT ![fill.m] = [at |-> now, kind |-> KindOf(fill)]]
  /\ fill' = [fill EXCEPT !.pc = "loss"]
  /\ UNCHANGED <<now, riskVars, lossVars, entryVars, crashes, marked, lost>>

FillLoss ==
  /\ fill.pc = "loss"
  /\ IF Qualifies(fill) THEN RecordLoss(fill.m) ELSE UNCHANGED lossVars
  /\ fill' = [fill EXCEPT !.pc = "mark"]
  /\ UNCHANGED <<now, cool, riskVars, entryVars, crashes, booked, marked, lost>>

FillMark ==
  /\ fill.pc = "mark"
  /\ fill' = NoFill
  /\ marked' = marked + 1
  /\ lost' = [lost EXCEPT ![fill.m] = IF Lost(fill) THEN Earlier(@ + 1, MaxCount) ELSE @]
  /\ UNCHANGED <<now, cool, riskVars, lossVars, entryVars, crashes, booked>>

-----------------------------------------------------------------------------
(* An entry *)

\* refresh_portfolio(): the snapshot of the cycle
BeginCycle ==
  /\ entry.pc = "idle"
  /\ \E equity \in Equities, open \in Unrealized : UpdateDailyEquity(equity, open)
  /\ shut' = risk'.killed
  /\ entry' = [NoEntry EXCEPT !.pc = "cycle"]
  /\ UNCHANGED <<now, cool, lossVars, fill, crashes, booked, marked, lost>>

\* process_entry_gating(): the reentry check, for a sweep the check with the
\* shakeout exemption; a signal the local rules do not back (never a sweep)
\* asks the manager once more; then the loss guard.
Approve ==
  /\ entry.pc = "cycle" /\ ~shut
  /\ \E m \in Market, path \in Path, gap \in Gap, backed \in BOOLEAN :
       /\ path = "plain" \/ backed
       /\ LET first == ReentryAllowed(cool, m, gap, FALSE)
              seen  == IF first THEN AfterReentry(cool, m) ELSE Rolled(cool)
              asked == first /\ (path # "plain" => ReentryAllowed(seen, m, gap, TRUE))
              may   == asked /\ ~LossBlocked(m, path = "momentum")
          IN  /\ cool' = IF first /\ ~backed THEN AfterInCooldown(seen, m) ELSE seen
              /\ entry' = IF may THEN [pc |-> "approved", m |-> m, path |-> path, gap |-> gap]
                          ELSE entry
              /\ IF asked THEN AskLoss(m, path = "momentum") ELSE UNCHANGED lossVars
  /\ UNCHANGED <<now, riskVars, fill, shut, crashes, booked, marked, lost>>

\* process_buy(): the snapshot and the loss guard once more
PreBuy ==
  /\ entry.pc = "approved"
  /\ entry' = IF LossBlocked(entry.m, entry.path = "momentum") THEN NoEntry
              ELSE [entry EXCEPT !.pc = "checked"]
  /\ AskLoss(entry.m, entry.path = "momentum")
  /\ UNCHANGED <<now, cool, riskVars, fill, shut, crashes, booked, marked, lost>>

\* evaluate_pre_buy_submit_gate(): is_in_cooldown, then the plain reentry check
\* Mutant: the submit gate is skipped.
SubmitGateOpen ==
  /\ entry.pc = "checked"
  /\ entry' = [entry EXCEPT !.pc = "submitted"]
  /\ UNCHANGED <<now, cool, riskVars, lossVars, fill, shut, crashes, booked, marked, lost>>
SubmitGate ==
  /\ entry.pc = "checked"
  /\ LET m    == entry.m
         seen == AfterInCooldown(cool, m)
         may  == ~InCooldown(cool, m) /\ ReentryAllowed(seen, m, entry.gap, FALSE)
     IN  /\ cool' = IF may THEN AfterReentry(seen, m) ELSE seen
         /\ entry' = IF may THEN [entry EXCEPT !.pc = "submitted"] ELSE NoEntry
  /\ UNCHANGED <<now, riskVars, lossVars, fill, shut, crashes, booked, marked, lost>>

EndEntry ==
  /\ entry.pc \in {"cycle", "submitted"}
  /\ entry' = NoEntry
  /\ UNCHANGED <<now, cool, riskVars, lossVars, fill, shut, crashes, booked, marked, lost>>

-----------------------------------------------------------------------------
(* Time, the operator and the process *)

TimePasses ==
  /\ entry.pc = "idle" /\ fill.pc \in {"idle", "risk"}
  /\ Tick
  /\ lost' = IF Day(now') = Today THEN lost
             ELSE [m \in Market |-> 0]
  /\ UNCHANGED <<cool, riskVars, lossVars, fill, entryVars, crashes, booked, marked>>

\* The operator does not edit the file while an exit is booked or an entry
\* is on its way.
ResetCooldowns ==
  /\ MayReset /\ fill.pc = "idle" /\ entry.pc = "idle"
  /\ ~cool.edited /\ cool.file # Empty(Today)
  /\ OperatorReset
  /\ booked' = [m \in Market |-> NeverBooked]
  /\ UNCHANGED <<now, riskVars, lossVars, fill, entryVars, crashes, marked, lost>>

Restart ==
  /\ crashes < MaxCrashes
  /\ crashes' = crashes + 1
  /\ CoolRestart /\ RiskRestart /\ LossRestart
  /\ fill' = IF fill.pc = "idle" THEN fill ELSE [fill EXCEPT !.pc = "risk"]
  /\ entry' = NoEntry
  /\ shut' = FALSE
  /\ UNCHANGED <<now, booked, marked, lost>>

Fill  == ExitConfirmed \/ FillRisk \/ FillCool \/ FillLoss \/ FillMark
Entry == BeginCycle \/ Approve \/ PreBuy \/ SubmitGate \/ EndEntry
Next  == Fill \/ Entry \/ TimePasses \/ ResetCooldowns \/ Restart

Init ==
  /\ now = 0
  /\ CoolInit /\ RiskInit /\ LossInit
  /\ fill = NoFill /\ entry = NoEntry /\ shut = FALSE /\ crashes = 0
  /\ booked = [m \in Market |-> NeverBooked]
  /\ marked = 0
  /\ lost = [m \in Market |-> 0]

Spec == Init /\ [][Next]_vars

-----------------------------------------------------------------------------
(* Properties *)

\* Every guard holds what its code can hold.
TypeOK == /\ now \in Time
          /\ CoolType /\ RiskType /\ LossType
          /\ fill \in FillRec /\ entry \in EntryRec
          /\ shut \in BOOLEAN /\ crashes \in 0..MaxCrashes
          /\ booked \in [Market -> [at : Time, kind : Kind \cup {"none"}]]
          /\ marked \in Nat /\ lost \in [Market -> Nat]

Submits == entry.pc # "submitted" /\ entry'.pc = "submitted"

\* The pause an exit owes its market: the manager's, except that the limit's
\* pause ends at midnight even when an ordinary stop's would be longer.
Owed(b) == CASE b.kind = "none" -> 0
             [] b.kind = "stop" -> Earlier(StopPause, (Day(b.at) + 1) * DayLength - b.at)
             [] OTHER -> Pause(b.kind)

\* No BUY is submitted in the pause the market's last booked exit owes it,
\* though the exit may have been booked after the entry was decided, the
\* process may have died since and a new day may have begun (the submit gate,
\* record_exit, _load).
NoBuyInPause == [][Submits => LET b == booked[entry'.m] IN now >= b.at + Owed(b)]_vars

\* "COOLDOWN_STOP_LOSS_SEC ... 손절 후 쿨다운 30분 (연속 손절 방어)": every
\* stop loss keeps its market closed for the pause of a stop loss.
StopRests ==
  [][Submits => LET b == booked[entry'.m] IN b.kind = "stop" => now >= b.at + StopPause]_vars

\* A restart changes no answer of the cooldown manager: which markets rest,
\* and how many stop losses they had today (_save, _load, the day's turn).
RestartKeepsCooldowns ==
  LET loaded == [cool EXCEPT !.mem = Load(cool.file), !.edited = FALSE]
  IN  \A m \in Market : /\ InCooldown(loaded, m) = InCooldown(cool, m)
                        /\ Rolled(loaded).mem.count[m] = Rolled(cool).mem.count[m]

\* A marked loss of today is in the loss guard, whatever died in between.
LossesAreKept == \A m \in Market : Pruned(loss)[m].count >= lost[m]

\* Every marked exit is in the daily statistics; a crash counts the one it
\* hit a second time, and nothing else is counted twice.
ExitsAreCounted ==
  LET counted == risk.past + risk.trades IN
  /\ counted >= marked
  /\ counted <= marked + crashes + (IF fill.pc \in {"idle", "risk"} THEN 0 ELSE 1)

\* The kill switch of a day holds until that day ends: no rebound, no empty
\* account and no restart opens it.
KillSwitchHolds == [][risk.killed /\ risk.latched = Day(now') => risk'.killed]_vars

\* Two losses of the day close a market to every path for the pause of the
\* limit, also when the second is booked while the entry is on its way.
TwoLossesBlock ==
  [][Submits => ~Blacklisted(entry'.m)]_vars

\* "... 1회 손실 시: RISK_OFF + MOMENTUM_BREAKOUT 재진입 차단": a loss of the
\* day closes the momentum path of RISK_OFF for the rest of it.
LossBlocksMomentum == [][Submits => entry'.path # "momentum" \/ lost[entry'.m] = 0]_vars

=============================================================================
