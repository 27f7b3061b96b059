---------------------------- MODULE MarketRegime ----------------------------
(***************************************************************************)
(* TradingOrchestrator.classify_market_regime: the regime a cycle works    *)
(* in. BTC's candles give one, a macro shock pauses entries for half an    *)
(* hour unless a rebound ends it, and two opinions (the market analysis of *)
(* Groq, the diagnosis of the AI) may make it worse, or a NORMAL one       *)
(* better.                                                                 *)
(***************************************************************************)

\* drop: of the last quarter of an hour. hour: what the 1H candles show,
\* "short" when there are fewer than twenty.
BTCFact == [drop : {"none", "shock", "crash"},
            hour : {"short", "shock", "weak", "flat", "bull"}]

\* classify_btc_regime
Shocks(f) == f.drop # "none" \/ f.hour = "shock"

FromCandles(f) ==
  IF f.drop = "crash" THEN "CRASH"
  ELSE IF Shocks(f) \/ f.hour = "weak" THEN "RISK_OFF"
  ELSE IF f.hour = "bull" THEN "BULL_TREND" ELSE "NORMAL"

\* What a rebound (check_macro_shock_v_shape_release) leaves of the regime.
Released(f) == IF Shocks(f) \/ FromCandles(f) = "RISK_OFF" THEN "NORMAL" ELSE FromCandles(f)

ShockAfter(f, shock, rebound) == IF shock THEN ~rebound ELSE Shocks(f)

Felt(f, shock, rebound) == IF shock /\ rebound THEN Released(f) ELSE FromCandles(f)

Opinion == {"none", "crash", "cautious", "bull"}

\* Mutant: a good opinion outweighs a weak market.
ToldBoldly(r, o) ==
  IF r = "CRASH" \/ o = "crash" THEN "CRASH"
  ELSE IF o = "cautious" THEN "RISK_OFF" ELSE IF o = "bull" THEN "BULL_TREND" ELSE r

Told(r, o) ==
  IF r = "CRASH" \/ o = "crash" THEN "CRASH"
  ELSE IF o = "cautious" THEN "RISK_OFF"
  ELSE IF o = "bull" /\ r = "NORMAL" THEN "BULL_TREND" ELSE r

RegimeOf(f, shock, rebound, groq, ai) == Told(Told(Felt(f, shock, rebound), groq), ai)

-----------------------------------------------------------------------------
\* strategy_engine.py:1239 calls CRASH the regime that stops all new buys; the
\* code does not keep it when a rebound ends a pause the crash has hit.
CrashIsKept == \A f \in BTCFact : f.drop = "crash" => Felt(f, TRUE, TRUE) = "CRASH"
=============================================================================
