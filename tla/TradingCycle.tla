---------------------------- MODULE TradingCycle ----------------------------
(***************************************************************************)
(* The evaluation cycle of trading_runtime.py: a prefix that reconciles,   *)
(* takes the portfolio's snapshot and selects markets, then one market     *)
(* after the other: exits, entry decision (EntryDecision), size and limits *)
(* (BuySizing), the last gate and the order. While the cycle works, orders *)
(* execute and positions are closed by the tick thread; the pause flag,    *)
(* the kill switch, the journal's gate and the AI's health may answer      *)
(* differently each time they are read.                                    *)
(***************************************************************************)
EXTENDS EntryDecision, CandidateScreen, MarketRegime, BuySizing, Sequences, SequencesExt

CONSTANTS Market,
          Caps,        \* MAX_CYCLE_MARKETS, read anew by each cycle
          MaxAI,       \* MAX_AI_CANDIDATES_PER_CYCLE
          CashLevel,   \* what the account may have
          Manual,      \* shares of the equity the user holds himself
          OrdersCross  \* a BUY may be live when a cycle starts: it was requoted

ASSUME CycleAssumption ==
  /\ IsFiniteSet(Market)
  /\ Caps \subseteq Nat \ {0} /\ MaxAI \in Nat /\ CashLevel \subseteq 0..100
  /\ Manual \subseteq 0..99 /\ OrdersCross \in BOOLEAN

VARIABLES
  held, live, mode,    \* the bot's positions, its open BUYs, their strategy modes
  base,                \* risk_guard.bot_allocated_budget, 0 for none
  recovered,           \* rebound BUYs of the current window
  shock,               \* the pause of a macro shock
  cyc,                 \* the cycle
  d                    \* the market under decision

vars == <<held, live, mode, base, recovered, shock, cyc, d>>

Idle == [pc |-> "idle", shut |-> FALSE, regime |-> "NORMAL", cooling |-> FALSE,
         held |-> {}, seen |-> {}, todo |-> <<>>, limit |-> 0, calls |-> 0,
         slot |-> TRUE, unseen |-> {}, bought |-> <<>>]
Nobody == [market |-> "none"]

HeldAs(k) == {m \in held : mode[m] = k}

-----------------------------------------------------------------------------
(* Around the cycle. *)

\* The steps from the exits to the decision neither read nor write positions
\* and orders: what happens during them may as well happen before or after.
Apart == cyc.pc \notin {"exits", "gate", "signals", "ask", "decide"}

Executes(m) == /\ m \in live /\ Apart
               /\ live' = live \ {m} /\ held' = held \union {m}
               /\ UNCHANGED <<mode, base, recovered, shock, cyc, d>>

Closes(m) == /\ m \in held /\ Apart
             /\ held' = held \ {m} /\ mode' = [mode EXCEPT ![m] = "SCALP"]
             /\ UNCHANGED <<live, base, recovered, shock, cyc, d>>

WindowEnds == /\ cyc.pc = "idle" /\ recovered > 0
              /\ recovered' = 0
              /\ UNCHANGED <<held, live, mode, base, shock, cyc, d>>

ShockEnds == /\ shock /\ Apart
             /\ shock' = FALSE
             /\ UNCHANGED <<held, live, mode, base, recovered, cyc, d>>

-----------------------------------------------------------------------------
(* The prefix and the loop. *)

\* Mutant: the cap counts from the front.
CappedFromFront(own, new, cap) == SubSeq(own \o new, 1, Min({cap, Len(own \o new)}))

\* cap_cycle_target_markets: what is held stays, the rest fills up to the cap
CapTargets(own, new, cap) ==
  own \o SubSeq(new, 1, Min({Len(new), Max({0, cap - Len(own)})}))

\* select_target_markets: what is held, then the screener's candidates
Selection(mine) ==
  {[own |-> own, new |-> new] : own \in SetToSeqs(mine),
                                new \in UNION {SetToSeqs(c) : c \in SUBSET (Market \ mine)}}

\* The equity the guard divides by, when the user holds a share of it himself;
\* nothing resets it when he sells.
BaseNow(manual) == IF manual > 0 THEN 100 - manual ELSE base

\* The shock and the regime the classification leaves; what cannot be read is
\* a crash.
Read(f, rebound, groq, ai) ==
  [shock |-> ShockAfter(f, shock, rebound), regime |-> RegimeOf(f, shock, rebound, groq, ai)]
Readings == {[shock |-> shock, regime |-> "CRASH"]}
            \union {Read(f, rebound, groq, ai) : f \in BTCFact, rebound \in BOOLEAN,
                                                groq \in Opinion, ai \in Opinion}

Coarse(r) == IF r = "BULL_TREND" THEN "NORMAL" ELSE r

Prefix == /\ cyc.pc = "idle"
          /\ \E crossing \in IF OrdersCross THEN SUBSET live ELSE {{}} : live' = crossing
          /\ \E manual \in Manual : base' = BaseNow(manual)
          /\ \E shut, c \in BOOLEAN, r \in Readings, targets \in Selection(held), cap \in Caps :
               /\ shock' = r.shock
               /\ cyc' = [Idle EXCEPT !.pc = "loop", !.shut = shut, !.cooling = c,
                                      !.regime = Coarse(r.regime),
                                      !.held = held, !.seen = held, !.unseen = held,
                                      !.todo = CapTargets(targets.own, targets.new, cap)]
          /\ mode' = [m \in Market |-> IF m \in held \union live' THEN mode[m] ELSE "SCALP"]
          /\ UNCHANGED <<held, recovered, d>>

BeginLoop == /\ cyc.pc = "loop"
             /\ \E paused \in BOOLEAN, quota \in 0..MaxAI :
                  cyc' = [cyc EXCEPT !.pc = "next", !.shut = @ \/ paused,
                            !.limit = IF paused \/ cyc.shut \/ cyc.regime = "CRASH"
                                      THEN 0 ELSE quota]
             /\ UNCHANGED <<held, live, mode, base, recovered, shock, d>>

Next1  == [cyc EXCEPT !.pc = "next"]

Skip   == d' = Nobody /\ cyc' = Next1
Quiet  == UNCHANGED <<held, live, mode, base, recovered, shock>>

KindsOf(m) == IF m \in cyc.held THEN {Plain.kind}
              ELSE {c.kind : c \in CandidatesIn(cyc.regime)} \intersect Kind

\* load_market_snapshot: the balances may be those of the market before
StartMarket ==
  /\ cyc.pc = "next" /\ cyc.todo # <<>>
  /\ Quiet
  /\ LET m    == Head(cyc.todo)
         turn == [cyc EXCEPT !.todo = Tail(@), !.unseen = @ \ {m}]
     IN \/ cyc' = turn /\ d' = d                \* the snapshot fails
        \/ \E seen \in {cyc.seen, held}, k \in KindsOf(m), cash \in CashLevel :
             /\ cyc' = [turn EXCEPT !.pc = "exits", !.seen = seen]
             /\ d' = [market |-> m, kind |-> k, holding |-> m \in seen,
                      cash |-> cash, regime |-> cyc.regime, cooling |-> cyc.cooling]

\* process_priority_exits: PositionExits has what it does
Exits == /\ cyc.pc = "exits"
         /\ Quiet
         /\ \/ d.holding /\ Skip
            \/ cyc' = [cyc EXCEPT !.pc = "gate"] /\ d' = d

\* Mutant: a listing leaves the slot to the next.
BreakoutTakesSlot(k) == k = "MOMENTUM_BREAKOUT"

TakesSlot(k) == k \in {"MOMENTUM_BREAKOUT", "NEW_LISTING"}

\* the phase is the candidate's; only breakouts and listings are asked for it
PhasesOf(kind) == {c.phase : c \in {x \in CandidatesIn("NORMAL") : x.kind = kind}}

Gate == /\ cyc.pc = "gate"
        /\ Quiet
        /\ \E f \in GateFact, ready \in BOOLEAN :
             LET m    == [kind |-> d.kind, holding |-> d.holding, cash |-> d.cash > 0,
                          regime |-> d.regime, closed |-> cyc.shut \/ ~ready]
                 kind == TypeNow(m, f)
             IN IF Stopped(m, f) THEN Skip
                ELSE /\ cyc' = [cyc EXCEPT !.pc = "signals"]
                     /\ \E ph \in IF TakesSlot(kind) THEN PhasesOf(d.kind) ELSE {"CONFIRMED"} :
                          d' = [market |-> d.market, kind |-> kind, phase |-> ph,
                                holding |-> d.holding, cash |-> d.cash,
                                regime |-> d.regime, cooling |-> d.cooling]

Seen(o, feed) == [local |-> o.local, sweep |-> o.sweep, recovery |-> o.recovery,
                  alpha |-> o.alpha, floor |-> o.floor, feed |-> feed]

Signals == /\ cyc.pc = "signals"
           /\ Quiet
           /\ \E o \in Outcome[d.kind][d.regime], feed \in BOOLEAN :
                LET s == Seen(o, feed) IN
                d' = [market |-> d.market, kind |-> d.kind, phase |-> d.phase,
                      holding |-> d.holding, cash |-> d.cash, regime |-> d.regime,
                      use |-> Selected(d, s, recovered > 0), allow |-> Allows(d, s, recovered > 0),
                      alpha |-> s.alpha, base |-> BaseSafety(d, s)]
           /\ cyc' = [cyc EXCEPT !.pc = "ask"]

Answered(r) == d' = [market |-> d.market, kind |-> d.kind, phase |-> d.phase,
                     holding |-> d.holding, cash |-> d.cash, regime |-> d.regime,
                     use |-> d.use, allow |-> d.allow, alpha |-> d.alpha, base |-> d.base, r |-> r]

Charged(c) == [c EXCEPT !.calls = @ + 1]

Ask == /\ cyc.pc = "ask"
       /\ Quiet
       /\ \E a \in {x \in AskFact : x.fit => ~shock}, blocked \in BOOLEAN :
            IF AsksAI(d, cyc.calls < cyc.limit, blocked, a)
            THEN \/ \E r \in AIAnswers :
                      Answered(r) /\ cyc' = [Charged(cyc) EXCEPT !.pc = "decide"]
                 \/ cyc' = [Charged(cyc) EXCEPT !.pc = "next"] /\ d' = Nobody  \* INACTIVE
            ELSE Answered(RuleAnswer(d, a)) /\ cyc' = [cyc EXCEPT !.pc = "decide"]

\* the stop of a position held comes first, process_cycle_stop_loss
Decide ==
  /\ cyc.pc = "decide"
  /\ Quiet
  /\ \/ d.holding /\ Skip
     \/ \E g \in GuardFact, blocked \in BOOLEAN :
          IF ~Buys(d, d.r, g, cyc.slot, blocked) THEN Skip
          ELSE /\ cyc' = [cyc EXCEPT !.pc = "buy", !.slot = @ /\ ~TakesSlot(d.kind)]
               /\ \E fear, night \in BOOLEAN :
                  d' = [market |-> d.market, kind |-> d.kind, phase |-> d.phase,
                        cash |-> d.cash, regime |-> d.regime, use |-> d.use,
                        share |-> Share(d, d.r, g, fear, night), night |-> night,
                        mode |-> ModeNow(d)]

-----------------------------------------------------------------------------
(* process_buy_execution. *)

\* Mutant: what the account has is not compared.
NotNowUnlessLive(m) == m \in live \/ cyc.shut \/ cyc.regime = "CRASH"

NotNow(m) == \/ m \in live                       \* has_unresolved_market
             \/ cyc.shut
             \/ m \in cyc.seen                   \* already has a position
             \/ cyc.regime = "CRASH"

Size == /\ cyc.pc = "buy"
        /\ Quiet
        /\ \/ Skip                               \* the gate, a loss of today, a lost trend
           \/ \E risk \in {0, 3} :
                IF NotNow(d.market) THEN Skip
                ELSE /\ cyc' = [cyc EXCEPT !.pc = "sized"]
                     /\ d' = [market |-> d.market, kind |-> d.kind, phase |-> d.phase,
                              cash |-> d.cash, use |-> d.use, mode |-> d.mode,
                              budget |-> Budget(d.cash, d.share, risk, d.mode, d.regime, d.night)]

\* an exception in the market's turn; refused by budget, order book, guard or
\* the last gate
TurnEnds == /\ cyc.pc \in {"exits", "gate", "signals", "ask", "decide", "buy", "sized"}
            /\ Quiet /\ Skip

Submit ==
  /\ cyc.pc = "sized"
  /\ d.budget >= Smallest
  /\ GuardAllows(d.market, d.budget, d.cash, base, d.mode, cyc.held,
                 HeldAs("SWING"), HeldAs("NEW_LISTING"))
  /\ live' = live \union {d.market}
  /\ mode' = [mode EXCEPT ![d.market] = d.mode]
  /\ recovered' = recovered + (IF d.use = "recovery" THEN 1 ELSE 0)
  /\ cyc' = [Next1 EXCEPT !.bought = Append(@, <<d.kind, d.phase>>)]
  /\ d' = Nobody
  /\ UNCHANGED <<held, base, shock>>

Suffix == /\ cyc.pc = "next" /\ cyc.todo = <<>>
          /\ cyc' = Idle
          /\ UNCHANGED <<held, live, mode, base, recovered, shock, d>>

CycleFails == /\ cyc.pc = "loop"                 \* an exception of the prefix
              /\ cyc' = Idle
              /\ UNCHANGED <<held, live, mode, base, recovered, shock, d>>

-----------------------------------------------------------------------------
Init == /\ held \in SUBSET Market /\ live = {} /\ mode = [m \in Market |-> "SCALP"]
        /\ base = 0 /\ recovered = 0 /\ shock = FALSE
        /\ cyc = Idle /\ d = Nobody

Around == \/ WindowEnds \/ ShockEnds
          \/ \E m \in Market : Executes(m) \/ Closes(m)

Cycle == \/ Prefix \/ BeginLoop \/ StartMarket \/ Exits \/ Gate \/ Signals \/ Ask \/ Decide
         \/ Size \/ TurnEnds \/ Submit \/ Suffix \/ CycleFails

Next == Around \/ Cycle

Spec == Init /\ [][Next]_vars

-----------------------------------------------------------------------------
Pcs == {"idle", "loop", "next", "exits", "gate", "signals", "ask", "decide", "buy", "sized"}

IsMomentum(b) == b[1] \in {"MOMENTUM_BREAKOUT", "NEW_LISTING"}

\* Every variable has its type: among them, a market is under decision exactly
\* between its snapshot and its order (run_market_loop).
TypeOK ==
  /\ {shock, cyc.shut, cyc.slot, cyc.cooling} \subseteq BOOLEAN
  /\ {held, live, cyc.held, cyc.seen, cyc.unseen} \subseteq SUBSET Market
  /\ mode \in [Market -> {"SCALP", "SWING", "NEW_LISTING"}]
  /\ base \in 0..100 /\ recovered \in Nat
  /\ cyc.pc \in Pcs /\ cyc.regime \in Regime /\ cyc.calls \in Nat /\ cyc.limit \in 0..MaxAI
  /\ (d = Nobody) = (cyc.pc \in {"idle", "loop", "next"})
  /\ d # Nobody => d.market \in Market

\* No position the cycle found is left without a look at its exits: neither
\* the cap on markets nor a failed market nor a blocked entry before it keeps
\* run_market_loop from taking its turn.
HeldAreVisited == cyc.pc = "next" /\ cyc.todo = <<>> => cyc.unseen = {}

\* After the order of a breakout or a new listing, the same cycle orders no
\* early breakout and no new listing, whatever paths its markets take
\* (momentum_entry_slot_available).
SlotIsTaken ==
  \A i, j \in DOMAIN cyc.bought :
    i < j /\ IsMomentum(cyc.bought[i]) /\ IsMomentum(cyc.bought[j])
      => cyc.bought[j] \in {"MOMENTUM_BREAKOUT"} \X {"CONFIRMED", "EXTENDED"}

\* The bot does not buy what it has or is buying: balances read before the
\* AI's answer, the journal's unresolved orders and the orders of the last
\* cycle, cancelled at the start of this one, together leave no gap.
OnePosition == live \intersect held = {}

\* One rebound BUY while the account is in its loss cooldown, however many
\* markets and cycles see the signal (has_recovery_entry_since).
OneRecovery == recovered <= 1

\* In RISK_OFF nothing is bought on the AI's word alone, and a breakout only
\* when its candles are a sweep too, whichever of the four ways to a BUY the
\* market takes (entry_signal, the AI's call, its adoption, the last guards).
OwnSignalInRiskOff ==
  [][cyc.pc = "decide" /\ cyc'.pc = "buy" /\ d.regime = "RISK_OFF"
       => d.allow /\ (d.kind = "MOMENTUM_BREAKOUT" => d.use = "sweep")]_vars

\* The cycle that sets the pause of a macro shock works in RISK_OFF or CRASH,
\* whatever the market analysis and the AI's diagnosis say of the market
\* (classify_market_regime).
ShockIsDefensive == [][~shock /\ shock' => cyc'.regime # "NORMAL"]_vars

-----------------------------------------------------------------------------
(* What the repository says and the code does not do. *)

\* trading_runtime.py:3146: the slot prevents several breakout or listing orders
\* in one cycle; breakouts past their early phase do not ask for it.
OneMomentum == Len(SelectSeq(cyc.bought, IsMomentum)) <= 1

\* strategy-and-risk.md:36: the number of positions held at the same time is
\* strictly limited.
WithinCeiling == Cardinality(held \union live) <= Ceiling

\* trading_runtime.py:2151: the new listing path needs the AI's BUY.
ListingNeedsAI == cyc.pc = "decide" /\ Listing(d) /\ d.r.by # "ai" =>
                     \A g \in GuardFact : ~Buys(d, d.r, g, cyc.slot, FALSE)

\* strategy_engine.py:628: the rebound policy is used with a reduced share only.
RecoveryIsReduced == cyc.pc = "buy" /\ d.use = "recovery" => d.share <= Reduced
=============================================================================
