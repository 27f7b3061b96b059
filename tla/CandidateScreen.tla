-------------------------- MODULE CandidateScreen --------------------------
(***************************************************************************)
(* What the screener (market_screener.py) makes of a market that is not    *)
(* held: the kind of candidate and its phase. Prices, turnover and order   *)
(* book are bands and Booleans; the ranking only says which candidates     *)
(* make the list, and any of them may.                                     *)
(***************************************************************************)

Candidate(kind, phase) == [kind |-> kind, phase |-> phase]

\* rate: the day's change. "low" and "near" are below the confirmed minimum,
\* "near" above the early one; "rise" is below what a leader needs, "surge"
\* above what still counts as early.
Ticker == [rate   : {"out", "low", "near", "rise", "lead", "surge"},
           strong : BOOLEAN,        \* against BTC, for a breakout
           grace  : BOOLEAN,        \* the reset's session, and ten percent up
           dip    : BOOLEAN]        \* off the low, with turnover

Listed(t) == t.rate \in {"rise", "lead", "surge"}

LeaderOf(t) == t.strong /\ t.rate \in {"lead", "surge"}

PhaseOf(t) == IF t.grace \/ t.rate = "surge" THEN "EXTENDED" ELSE "EARLY"

\* scan_markets. The fallback takes what the rest left out, by turnover.
Screened(t) ==
  IF Listed(t)
  THEN {IF LeaderOf(t) THEN Candidate("MOMENTUM_BREAKOUT", PhaseOf(t))
        ELSE Candidate("CONFIRMED", IF t.grace THEN "EXTENDED" ELSE "CONFIRMED")}
  ELSE IF t.rate = "near" /\ t.strong THEN {Candidate("MOMENTUM_BREAKOUT", "EARLY")}
  ELSE IF t.rate \in {"low", "near"} /\ t.dip THEN {Candidate("SHAKEOUT_SWEEP", "CONFIRMED")}
  ELSE {}

Fallback == Candidate("CONFIRMED_FALLBACK", "CONFIRMED")

\* scan_swing_markets: its candidate takes the place of the other
Swings(regime) == IF regime = "CRASH" THEN {} ELSE {Candidate("SWING", "CONFIRMED")}

\* A market of MARKETS, and one that is held, comes with no candidate.
Plain == Candidate("CONFIRMED", "CONFIRMED")

CandidatesIn(regime) ==
  (UNION {Screened(t) : t \in Ticker}) \union {Fallback, Plain} \union Swings(regime)
============================================================================
