---------------------------- MODULE EntrySignal ----------------------------
(***************************************************************************)
(* The entry signals of strategy_engine.py. Candles, indicators and the    *)
(* order book are the gates the code makes of them; what is told apart is  *)
(* which gates a kind of signal needs, in which regime, and the score it   *)
(* must reach there. Scores are the thresholds themselves and one below    *)
(* all. BULL_TREND is NORMAL with thresholds of its own.                   *)
(***************************************************************************)
EXTENDS Integers

Regime == {"NORMAL", "RISK_OFF", "CRASH"}
Score  == {60, 70, 72, 75, 78, 80, 85}

\* Kinds of candidates, with what the cycle makes of a market without history.
SignalKind == {"CONFIRMED", "CONFIRMED_FALLBACK", "SWING", "MOMENTUM_BREAKOUT",
               "SHAKEOUT_SWEEP", "NEW_LISTING"}

-----------------------------------------------------------------------------
(* The gates, by the signal that asks for them first. *)

Priced   == {"history", "price"}
Core     == {"rsi", "bb", "ma", "disparity", "shadow"}
Hard     == Core \union {"mtf", "orderbook"}
Pullback == {"ma", "rsiRange", "zone", "nearLow", "belowHigh", "bullish"}
Momentum == {"breakout", "volume", "bullish", "momentumRsi",
             "momentumMtf", "momentumDisparity", "shadow", "orderbook"}
Sweep    == {"swept", "reclaimed", "lowerShadow", "upperShadow", "sweepVolume",
             "sweepRsi", "sweepPctB", "turnaround"}
Listing1 == {"breakout", "volume", "bullish", "listingRsi", "strength"}
Rebound  == {"mtfRecovery", "strong", "liquid", "zone", "nearLow", "belowHigh", "bullish"}
Gates    == UNION {Priced, Hard, Pullback, Momentum, Sweep, Listing1, Rebound,
                   {"macd", "recovers"}}

\* A gate is missed with every stricter one on the same quantity: the 1H EMA20
\* at 0.970, 0.980 and 0.990, the MA20 at 1.050 and 1.035, RSI and %B bands.
MissedWith(g) ==
  CASE g = "momentumMtf"       -> {g, "mtf", "mtfRecovery"}
    [] g = "mtf"               -> {g, "mtfRecovery"}
    [] g = "momentumDisparity" -> {g, "disparity"}
    [] g = "rsi"               -> {g, "rsiRange"}
    [] g = "bb"                -> {g, "zone"}
    [] OTHER                   -> {g}

\* What a market's candles miss: nothing or one gate, with or without one of
\* the sweep's; missing more leaves no other signals.
Picture == {x \union y : x \in {{}} \union {MissedWith(g) : g \in Gates}, y \in {{}, {"swept"}}}

-----------------------------------------------------------------------------
(* The score a signal must reach. *)

ConfirmedScore(r, bull, night) ==
  IF r = "RISK_OFF" THEN 80 ELSE IF night THEN 75 ELSE IF bull THEN 72 ELSE 70

MomentumScore(bull, night, weekend) ==
  IF night \/ weekend THEN 78 ELSE IF bull THEN 75 ELSE 72

SweepScore(r, night) == (IF r = "RISK_OFF" THEN 75 ELSE 70) + (IF night THEN 5 ELSE 0)

ListingScore(r, night) == 75 + (IF r = "RISK_OFF" THEN 5 ELSE 0) + (IF night THEN 5 ELSE 0)

RecoveryScore(night) ==
  IF ConfirmedScore("RISK_OFF", FALSE, night) > 75
  THEN ConfirmedScore("RISK_OFF", FALSE, night) ELSE 75

-----------------------------------------------------------------------------
(* The signals. p: the picture, n: the score, c: night, weekend, bull. *)

\* a green candle, and the last close regained unless the score is good
Rebounds(p, n) == "bullish" \notin p /\ ("recovers" \notin p \/ n >= 70)

Confirmed(r, p, n, c) ==
  /\ p \intersect (Priced \union Hard \union Pullback) = {}
  /\ r = "RISK_OFF" => "macd" \notin p
  /\ Rebounds(p, n)
  /\ n >= ConfirmedScore(r, c.bull, c.night)

\* Mutant: the regime does not stop breakouts.
BreaksOutAnyway(r, p, n, c) ==
  /\ p \intersect (Priced \union Momentum) = {}
  /\ n >= MomentumScore(c.bull, c.night, c.weekend)

BreaksOut(r, p, n, c) ==
  /\ r # "RISK_OFF"
  /\ p \intersect (Priced \union Momentum) = {}
  /\ n >= MomentumScore(c.bull, c.night, c.weekend)

Sweeps(r, p, n, c) ==
  p \intersect (Priced \union Sweep) = {} /\ n >= SweepScore(r, c.night)

Lists(r, p, n, c) ==
  p \intersect (Priced \union Listing1) = {} /\ n >= ListingScore(r, c.night)

\* entry_signal of a candidate of this kind
LocalSignal(kind, r, p, n, c) ==
  /\ r # "CRASH"
  /\ CASE kind = "MOMENTUM_BREAKOUT" -> BreaksOut(r, p, n, c)
       [] kind = "SHAKEOUT_SWEEP"    -> Sweeps(r, p, n, c)
       [] kind = "NEW_LISTING"       -> Lists(r, p, n, c)
       [] OTHER                      -> Confirmed(r, p, n, c)

\* recovery_rebound_signal: the core of the confirmed gates, a stricter 1H
\* trend, strength and turnover; order book, MACD and the narrow RSI band are
\* not asked for
ReboundSignal(r, p, n, c) ==
  /\ r = "RISK_OFF"
  /\ p \intersect (Priced \union Core \union Rebound) = {}
  /\ Rebounds(p, n)
  /\ n >= RecoveryScore(c.night)

-----------------------------------------------------------------------------
\* What later steps tell apart of a score.
Level(r, n) == IF n >= 85 THEN 90 ELSE IF n >= 80 /\ r = "RISK_OFF" THEN 82
               ELSE IF n >= 75 THEN 78 ELSE 70

Session == [night : BOOLEAN, weekend : BOOLEAN, bull : BOOLEAN]

\* The outcomes a candidate can have.
Outcome ==
  [kind \in SignalKind |-> [r \in Regime |->
     {[local    |-> LocalSignal(kind, r, p, n, c),
       sweep    |-> LocalSignal("SHAKEOUT_SWEEP", r, p, n, c),
       recovery |-> ReboundSignal(r, p, n, c),
       alpha    |-> Level(r, n),
       floor    |-> "price" \notin p] : p \in Picture, n \in Score, c \in Session}]]
=============================================================================
