--------------------------- MODULE EntryDecision ---------------------------
(***************************************************************************)
(* TradingRuntime.process_entry_gating, the way from a market's snapshot   *)
(* to BUY or HOLD, as functions: what stops a market early, which of the   *)
(* signals is selected, who decides (a rule of the bot or the AI), what    *)
(* the guards leave of the answer, and the share of a slot it may use, in  *)
(* percent; the signals themselves are EntrySignal's. Both exchanges'      *)
(* profiles set every gate on.                                             *)
(***************************************************************************)
EXTENDS EntrySignal, FiniteSets, FiniteSetsExt

CONSTANTS Kind,       \* candidate types of the screener
          Direct,     \* ENABLE_AI_DIRECT_ENTRY
          Promising,  \* AI_DIRECT_ENTRY_MIN_ALPHA, where the levels divide
          Enforced    \* NEW_LISTING_ENFORCEMENT

ASSUME DecisionAssumption == Kind \subseteq SignalKind /\ Promising \in {50, 75, 85}

Phase == {"EARLY", "CONFIRMED", "EXTENDED"}

Full == 100                      \* of dyn_max_pos_pct
Reduced == 35
SweepShare == 70
BreakoutShare == 50
ExtendedShare == 30
DirectShare == 50
ListingShare == 15
FearShare == 105

-----------------------------------------------------------------------------
(* The gates before any signal. m is what the market's turn started with:  *)
(* kind, phase, holding, cash (enough for an order), regime, cooling (the  *)
(* account is in its loss cooldown), closed (paused, kill switch or the    *)
(* journal's gate for this market).                                        *)

GateFact == [rested : BOOLEAN,      \* check_reentry_allowed
             age    : {"MATURE", "NEW_LISTING", "INSUFFICIENT"},
             listed : BOOLEAN,      \* the listing path is enabled, the market eligible
             data   : BOOLEAN,      \* enough completed candles
             trend  : BOOLEAN]      \* 4H EMA20 holds

ListedNow(f, m) == f.age = "NEW_LISTING" /\ f.listed /\ m.regime # "CRASH"

Stopped(m, f) ==
  \/ m.closed
  \/ ~m.holding /\ ~m.cash
  \/ ~f.rested
  \/ ~f.data \/ f.age = "INSUFFICIENT"
  \/ f.age = "NEW_LISTING" /\ ~ListedNow(f, m)
  \/ f.age = "MATURE" /\ m.kind = "SWING" /\ ~m.holding /\ ~f.trend

TypeNow(m, f) == IF f.age = "NEW_LISTING" THEN "NEW_LISTING" ELSE m.kind

-----------------------------------------------------------------------------
(* The signals and the one that is selected. *)

\* s: an Outcome of EntrySignal and feed, the price feed's health.

Listing(d) == d.kind = "NEW_LISTING"
Crash(m)   == m.regime = "CRASH"

SweepSignal(d, s) ==
  IF d.kind = "SHAKEOUT_SWEEP" THEN s.local
  ELSE s.sweep /\ ~s.local /\ ~Crash(d) /\ ~d.holding /\ ~Listing(d)

RecoverySignal(d, s) == s.recovery /\ ~Listing(d)

UsesSweep(d, s) == SweepSignal(d, s) /\ s.feed /\ ~Crash(d) /\ ~d.holding /\ ~Listing(d)

RecoveryLooksAtSlot(d, s) ==
  /\ d.cooling /\ ~Crash(d) /\ s.feed /\ ~d.holding /\ ~Listing(d)
  /\ d.kind # "MOMENTUM_BREAKOUT" /\ ~s.local /\ RecoverySignal(d, s)

\* taken: has_recovery_entry_since
SlotFree(d, s, taken) == RecoveryLooksAtSlot(d, s) => ~taken

\* Mutant: the slot is not looked up.
UsesRecoveryAgain(d, s, taken) ==
  /\ d.cooling /\ ~Crash(d) /\ s.feed /\ ~Listing(d) /\ ~UsesSweep(d, s)
  /\ d.kind # "MOMENTUM_BREAKOUT" /\ ~s.local /\ RecoverySignal(d, s)

UsesRecovery(d, s, taken) ==
  /\ d.cooling /\ ~Crash(d) /\ s.feed /\ ~Listing(d) /\ ~UsesSweep(d, s)
  /\ d.kind # "MOMENTUM_BREAKOUT" /\ ~s.local /\ RecoverySignal(d, s)
  /\ SlotFree(d, s, taken)

Selected(d, s, taken) ==
  CASE UsesSweep(d, s)           -> "sweep"
    [] UsesRecovery(d, s, taken) -> "recovery"
    [] OTHER                     -> "local"

Allows(d, s, taken) == s.local \/ Selected(d, s, taken) # "local"

BaseSafety(d, s) == ~d.holding /\ ~Crash(d) /\ s.feed /\ s.floor

-----------------------------------------------------------------------------
(* Who decides. d.use, d.allow, d.alpha, d.base are the signal's outcome;  *)
(* budget says the cycle may still ask the AI, blocked that an AI failure  *)
(* has closed the entries.                                                 *)

AskFact == [fit : BOOLEAN,          \* the pre-qualification
            liquid : BOOLEAN]

AsksAI(d, budget, blocked, a) ==
  /\ d.use # "recovery" /\ budget /\ d.base
  /\ \/ d.allow
     \/ Direct /\ d.regime = "NORMAL" /\ a.fit /\ a.liquid /\ d.alpha >= Promising
     \/ blocked

Breakout(d) == d.kind = "MOMENTUM_BREAKOUT" /\ d.base /\ d.allow

Autonomous(d, a) == d.allow /\ d.base /\ d.alpha >= 75 /\ a.fit

Answer(by, action, share) == [by |-> by, action |-> action, share |-> share]

\* What the strategy record says, when the AI is not asked.
RuleAnswer(d, a) ==
  CASE d.use = "recovery" -> Answer("recovery", "BUY", Reduced)
    [] d.use = "sweep"    -> Answer("sweep", "BUY", SweepShare)
    [] OTHER -> IF Breakout(d) THEN Answer("breakout", "BUY", BreakoutShare)
                ELSE IF Autonomous(d, a) THEN Answer("auto", "BUY", Full)
                ELSE Answer("none", "HOLD", 0)

AIAnswers == {Answer("ai", "HOLD", 0), Answer("ai", "BUY", Full), Answer("ai", "BUY", Reduced)}

\* is_ai_buy_signal: asked, or the reason has a word like "AI" in it, as the
\* text of the autonomous rule has
ConfirmedByAI(r) == r.action = "BUY" /\ r.by \in {"ai", "auto"}

-----------------------------------------------------------------------------
(* What is left of the answer. *)

GuardFact == [dip   : BOOLEAN,      \* %B below its cap
              turn  : BOOLEAN,      \* RISK_OFF: rebound, order book and MACD
              trend : BOOLEAN,      \* evaluate_swing_trend_entry
              sure  : BOOLEAN,      \* the AI's alpha reaches what the path wants
              lossy : BOOLEAN]      \* check_reentry_blocked

RiskOffOk(d, g)   == d.regime = "RISK_OFF" => g.turn /\ (d.alpha >= 80 \/ g.sure)
SwingOk(d, g)     == d.kind = "SWING" => g.trend
LocalGuards(d, g) == g.dip /\ RiskOffOk(d, g) /\ SwingOk(d, g)

\* AI alone, against a local HOLD
Adopted(d, r, g) ==
  /\ r.action = "BUY" /\ ~d.allow
  /\ Direct /\ ConfirmedByAI(r) /\ d.base /\ LocalGuards(d, g)
  /\ d.regime = "NORMAL" /\ g.sure

Passes(d, r, g) == r.action = "BUY" /\ (IF d.allow THEN LocalGuards(d, g) ELSE Adopted(d, r, g))

\* slot: no momentum order in this cycle yet
MomentumOk(d, r, g, slot) ==
  (d.kind = "MOMENTUM_BREAKOUT" /\ ~d.holding) =>
     IF d.phase = "EARLY" THEN slot ELSE ConfirmedByAI(r) /\ g.sure /\ d.allow

ListingOk(d, r, slot) ==
  (Listing(d) /\ ~d.holding) => d.phase # "EXTENDED" /\ ConfirmedByAI(r) /\ Enforced /\ slot

\* blocked: the AI's failure, looked at once more at the end
Buys(d, r, g, slot, blocked) ==
  /\ Passes(d, r, g) /\ MomentumOk(d, r, g, slot) /\ ListingOk(d, r, slot)
  /\ d.holding \/ ~g.lossy
  /\ SwingOk(d, g)
  /\ d.holding \/ ~blocked

ByAlpha(d, share) == IF d.alpha >= 85 THEN 130 ELSE IF d.alpha < 75 THEN 70 ELSE share

Capped(d, r, g, fear) ==
  LET s1 == ByAlpha(d, r.share)
      s2 == IF fear THEN Min({s1, FearShare}) ELSE s1
      s3 == IF Adopted(d, r, g) THEN Min({s2, DirectShare}) ELSE s2
      s4 == IF d.kind = "MOMENTUM_BREAKOUT"
            THEN Min({s3, IF d.phase = "EXTENDED" THEN ExtendedShare ELSE BreakoutShare})
            ELSE IF d.kind = "SHAKEOUT_SWEEP" \/ d.use = "sweep" THEN Min({s3, SweepShare})
            ELSE s3
  IN IF Listing(d) THEN Min({s4, ListingShare}) ELSE IF d.kind = "SWING" THEN Full ELSE s4

Share(d, r, g, fear, night) ==
  IF night THEN Capped(d, r, g, fear) \div 2 ELSE Capped(d, r, g, fear)

ModeNow(d) == IF d.kind \in {"SWING", "NEW_LISTING"} THEN d.kind ELSE "SCALP"
============================================================================
