----------------------------- MODULE BuySizing -----------------------------
(***************************************************************************)
(* What a BUY spends (the middle of TradingRuntime.process_buy_execution)  *)
(* and what RiskGuard.validate_buy lets it spend. Amounts are percents of  *)
(* the account's equity; the smallest order is below one percent and       *)
(* counts as one.                                                          *)
(***************************************************************************)
EXTENDS Integers, FiniteSets, FiniteSetsExt

CONSTANTS Slots,      \* dyn_max_positions
          MaxShare,   \* dyn_max_pos_pct
          Ceiling,    \* dynamic_safety_max_positions
          Exposure,   \* max_total_exposure_pct and the regime's
          SwingCap,   \* swings a regime allows
          ListingCap  \* max_new_listing_positions, 0 for any number

ASSUME SizingAssumption ==
  /\ Slots \in Nat \ {0} /\ MaxShare \in 1..100 /\ Ceiling \in Nat \ {0}
  /\ Exposure \in 1..100 /\ SwingCap \in Nat /\ ListingCap \in Nat
  /\ 100 \div Slots <= MaxShare      \* as get_dynamic_portfolio_tiers sets them

Smallest == 1
Slot     == 100 \div Slots
AltLow   == 10
AltHigh(regime, night) == IF regime = "RISK_OFF" THEN 12 ELSE IF night THEN 10 ELSE 15

\* risk: calculate_risk_position_size, 0 when below the smallest order
Wanted(cash, share, risk) ==
  LET slot == Min({cash, IF share < 100 THEN (Slot * share) \div 100 ELSE Slot})
  IN Min({cash, slot, IF risk > 0 THEN risk ELSE slot})

\* the clamp of an alt that is no swing
Levelled(cash, budget, mode, regime, night) ==
  IF mode = "SWING" THEN budget
  ELSE LET low == IF regime = "RISK_OFF" THEN Smallest ELSE AltLow
       IN Min({cash, Max({low, Min({budget, AltHigh(regime, night)})})})

Raised(cash, budget) ==
  IF budget < Smallest /\ cash >= Smallest THEN Min({cash, Max({Slot, Smallest})}) ELSE budget

Headroom(cash) == Max({0, cash - (100 - Exposure)})

Budget(cash, share, risk, mode, regime, night) ==
  Min({Headroom(cash),
       Raised(cash, Levelled(cash, Wanted(cash, share, risk), mode, regime, night))})

-----------------------------------------------------------------------------
(* validate_buy with dynamic slots. base: the equity of the isolated       *)
(* budget, 0 when it is off; held, swings, listings as the caller has them.       *)

Equity(base) == IF base > 0 THEN base ELSE 100

ShareLimit(mode) ==
  CASE mode = "SWING"       -> Max({MaxShare, 35})
    [] mode = "NEW_LISTING" -> (MaxShare * 15) \div 100
    [] OTHER                -> MaxShare

TooBig(budget, mode, base) == budget * 100 > Equity(base) * ShareLimit(mode)

Exposed(cash, budget, base) ==
  LET have == IF base > 0 THEN Min({cash, base}) ELSE cash
  IN Equity(base) - Max({0, have - budget})

GuardAllows(m, budget, cash, base, mode, held, swings, listings) ==
  /\ budget >= Smallest /\ budget <= cash
  /\ ~TooBig(budget, mode, base)
  /\ Cardinality(held) < Ceiling \/ m \in held
  /\ mode = "SWING" => SwingCap > 0 /\ (Cardinality(swings) < SwingCap \/ m \in swings)
  /\ (mode = "NEW_LISTING" /\ ListingCap > 0)
       => Cardinality(listings) < ListingCap \/ m \in listings
  /\ Exposed(cash, budget, base) * 100 <= Exposure * Equity(base)
============================================================================
