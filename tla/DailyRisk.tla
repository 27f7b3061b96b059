----------------------------- MODULE DailyRisk ------------------------------
(***************************************************************************)
(* DailyRiskManager (risk_manager.py): the realized result of the day and  *)
(* the kill switch that latches for the rest of it.  Money is counted in   *)
(* units of which LossUnits lose the day's limit per unit of equity:       *)
(* pnl / start <= -max_loss_pct is LossUnits * pnl <= -start.              *)
(***************************************************************************)
EXTENDS DayClock, Integers

CONSTANTS
  NoDay,      \* "": no date yet
  Equities,   \* what the bot's equity may read (0: nothing could be valued)
  Unrealized, \* what the open positions may be worth against their cost
  MinStart,   \* 5000 KRW: below it the start of the day is not taken
  LossUnits,  \* 1 / max_loss_pct
  MaxTrades   \* bound: trades the counters hold

ASSUME RiskAssumption == /\ NoDay \notin Nat
                         /\ Equities \subseteq Nat
                         /\ Unrealized \subseteq Int
                         /\ {MinStart, LossUnits, MaxTrades} \subseteq Nat

VARIABLES risk, riskFile

RiskRec == [date : Nat \cup {NoDay}, start : Nat, pnl : Int, trades : 0..MaxTrades,
            losses : 0..2, past : 0..MaxTrades, latched : Nat \cup {NoDay},
            killed : BOOLEAN]
RiskType == risk \in RiskRec /\ riskFile \in RiskRec

FirstDay == [date |-> NoDay, start |-> 0, pnl |-> 0, trades |-> 0, losses |-> 0,
             past |-> 0, latched |-> NoDay, killed |-> FALSE]

Keep(r) == risk' = r /\ riskFile' = r

\* add_realized_trade().  Only 0, 1 and more consecutive losses are told
\* apart (get_risk_scale_factor).
AddRealizedTrade(pnl) ==
  Keep([risk EXCEPT !.pnl = @ + pnl, !.trades = @ + 1,
                    !.losses = IF pnl > 0 THEN 0 ELSE Earlier(@ + 1, 2)])

\* The day's figures before the loss is looked at: a new day (or a day that
\* started at nothing) starts over, an empty account takes its first deposit.
\* Mutant: the new day forgets the trades of the last one.
DayStartedForgetting(equity) ==
  IF risk.date # Today
  THEN [FirstDay EXCEPT !.date = Today, !.start = equity, !.past = risk.past]
  ELSE [risk EXCEPT !.start = IF @ < MinStart THEN equity ELSE @]
DayStarted(equity) ==
  IF risk.date # Today \/ risk.start <= 0
  THEN LET turned == risk.date # Today /\ risk.date # NoDay
       IN  [risk EXCEPT !.date = Today, !.start = equity,
                        !.killed = FALSE, !.latched = NoDay,
                        !.pnl    = IF turned THEN 0 ELSE @,
                        !.past   = IF turned THEN @ + risk.trades ELSE @,
                        !.trades = IF turned THEN 0 ELSE @]
  ELSE IF risk.start < MinStart /\ equity >= MinStart
       THEN [risk EXCEPT !.start = equity]
       ELSE risk

LimitReached(r, open) == r.start > 0 /\ LossUnits * (r.pnl + open) <= -r.start

\* What the kill switch becomes: once it is latched for today it stays.
Latched(r, open) ==
  IF LimitReached(r, open)
  THEN IF r.killed THEN r ELSE [r EXCEPT !.killed = TRUE, !.latched = Today]
  ELSE [r EXCEPT !.killed = (r.latched = Today)]

\* update_daily_equity()
UpdateDailyEquity(equity, open) == Keep(Latched(DayStarted(equity), open))

RiskInit    == risk = FirstDay /\ riskFile = FirstDay
\* Mutant: the switch is not restored.
RiskRestartOpen == /\ risk' = [riskFile EXCEPT !.killed = FALSE]
                   /\ UNCHANGED riskFile
\* _load_state(): the switch itself is not read, only the day it latched on.
RiskRestart == /\ risk' = [riskFile EXCEPT !.killed = (riskFile.latched = Today)]
               /\ UNCHANGED riskFile

=============================================================================
