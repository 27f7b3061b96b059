------------------------- MODULE TradingCycleProofs -------------------------
(***************************************************************************)
(* Theorems about TradingCycle, for every finite set of markets, cap,      *)
(* budget and kind of candidate: every position the cycle found has its    *)
(* turn, the momentum slot and the rebound are used once, what is decided  *)
(* in RISK_OFF has a signal of its own, and, when no order outlives the    *)
(* cycle that placed it, nothing is bought that is held or being bought.   *)
(* IInv says what a market's turn knows at each step, that every market    *)
(* has one turn, and that no market has an order before it.                *)
(***************************************************************************)
EXTENDS TradingCycle, FiniteSetTheorems, SequenceTheorems, TLAPS

-----------------------------------------------------------------------------
(* The inductive invariant *)

CycleRec ==
  [pc : Pcs, shut : BOOLEAN, regime : Regime, cooling : BOOLEAN, held : SUBSET Market,
   seen : SUBSET Market, todo : Seq(Market), limit : 0..MaxAI, calls : Nat, slot : BOOLEAN,
   unseen : SUBSET Market, bought : Seq(SignalKind \X Phase)]

\* A market's turn, before and after it has a signal.
Deciding == cyc.pc \in {"exits", "gate", "signals", "ask", "decide"}
Buying   == cyc.pc \in {"buy", "sized"}
InTurn   == Deciding \/ Buying

TurnKnown ==
  /\ InTurn => d.market \in Market /\ d.kind \in SignalKind
  /\ ~InTurn => d = Nobody
  /\ Deciding => d.regime \in Regime /\ d.holding = (d.market \in cyc.seen)
  /\ cyc.pc \in {"signals", "ask", "decide"} \/ Buying => d.phase \in Phase
  /\ Buying => d.mode \in {"SCALP", "SWING", "NEW_LISTING"}

CycleTypes ==
  /\ shock \in BOOLEAN /\ held \subseteq Market /\ live \subseteq Market
  /\ mode \in [Market -> {"SCALP", "SWING", "NEW_LISTING"}]
  /\ base \in 0..100 /\ recovered \in Nat
  /\ cyc \in CycleRec

\* The market's turn is still to come, or is now.
Ahead(m) == (\E i \in 1..Len(cyc.todo) : cyc.todo[i] = m) \/ (InTurn /\ m = d.market)

\* A position the cycle found and has not looked at has its turn to come.
VisitInv == \A m \in cyc.unseen : \E i \in 1..Len(cyc.todo) : cyc.todo[i] = m

\* Every market has one turn.
OneTurn ==
  /\ \A i, j \in 1..Len(cyc.todo) : i # j => cyc.todo[i] # cyc.todo[j]
  /\ InTurn => \A i \in 1..Len(cyc.todo) : cyc.todo[i] # d.market

\* Without orders of an earlier cycle, no market has an order before its turn,
\* and none is held that the balances the cycle decides by do not show.
PositionInv ==
  /\ OnePosition
  /\ \A m \in Market : Ahead(m) => m \notin live /\ (m \in held => m \in cyc.seen)

SizedInv == cyc.pc = "sized" => d.market \notin cyc.seen

RecoveryInv ==
  /\ recovered \in 0..1
  /\ (cyc.pc \in {"ask", "decide"} \/ Buying) /\ d.use = "recovery" =>
        recovered = 0 \/ d.market \in cyc.seen

SlotInv ==
  /\ SlotIsTaken
  /\ \A i \in 1..Len(cyc.bought) : IsMomentum(cyc.bought[i]) => ~cyc.slot
  /\ Buying /\ TakesSlot(d.kind) => ~cyc.slot
  /\ Buying /\ TakesSlot(d.kind) /\ (d.kind = "MOMENTUM_BREAKOUT" => d.phase = "EARLY") =>
        d.market \in cyc.seen \/ \A i \in 1..Len(cyc.bought) : ~IsMomentum(cyc.bought[i])

\* What the signal of a breakout is worth in RISK_OFF.
SignalInv ==
  cyc.pc \in {"ask", "decide"} /\ d.regime = "RISK_OFF" /\ d.kind = "MOMENTUM_BREAKOUT" /\ d.allow =>
     d.use = "sweep"

\* What is known of the cycle's markets, and of the market under decision.
MarketsInv == CycleTypes /\ VisitInv /\ OneTurn /\ (~OrdersCross => PositionInv)
TurnInv    == TurnKnown /\ SizedInv /\ RecoveryInv /\ SlotInv /\ SignalInv
IInv       == MarketsInv /\ TurnInv

-----------------------------------------------------------------------------
(* The markets of a cycle *)

\* The smaller of two numbers.
LEMMA MinOfTwo ==
  ASSUME NEW a \in Int, NEW b \in Int
  PROVE  Min({a, b}) = IF a <= b THEN a ELSE b
<1>1. CASE a <= b
  <2>1. a \in {a, b} /\ \A y \in {a, b} : a <= y
    BY <1>1
  <2>2. \A x \in {a, b} : (\A y \in {a, b} : x <= y) => x = a
    BY <1>1
  <2> QED BY <1>1, <2>1, <2>2 DEF Min
<1>2. CASE ~(a <= b)
  <2>1. b \in {a, b} /\ \A y \in {a, b} : b <= y
    BY <1>2
  <2>2. \A x \in {a, b} : (\A y \in {a, b} : x <= y) => x = b
    BY <1>2
  <2> QED BY <1>2, <2>1, <2>2 DEF Min
<1> QED BY <1>1, <1>2

\* The larger of two numbers.
LEMMA MaxOfTwo ==
  ASSUME NEW a \in Int, NEW b \in Int
  PROVE  Max({a, b}) = IF a >= b THEN a ELSE b
<1>1. CASE a >= b
  <2>1. a \in {a, b} /\ \A y \in {a, b} : a >= y
    BY <1>1
  <2>2. \A x \in {a, b} : (\A y \in {a, b} : x >= y) => x = a
    BY <1>1
  <2> QED BY <1>1, <2>1, <2>2 DEF Max
<1>2. CASE ~(a >= b)
  <2>1. b \in {a, b} /\ \A y \in {a, b} : b >= y
    BY <1>2
  <2>2. \A x \in {a, b} : (\A y \in {a, b} : x >= y) => x = b
    BY <1>2
  <2> QED BY <1>2, <2>1, <2>2 DEF Max
<1> QED BY <1>1, <1>2

\* A list of a finite set has each of its elements once.
LEMMA ListsOnce ==
  ASSUME NEW S, IsFiniteSet(S), NEW q \in SetToSeqs(S)
  PROVE  /\ q \in Seq(S)
         /\ \A i, j \in 1..Len(q) : i # j => q[i] # q[j]
         /\ \A x \in S : \E i \in 1..Len(q) : q[i] = x
<1> DEFINE n == Cardinality(S)
<1>1. n \in Nat
  BY FS_CardinalityType
<1>2. q \in [1..n -> S] /\ \A i, j \in 1..n : i # j => q[i] # q[j]
  BY DEF SetToSeqs
<1>3. q \in Seq(S) /\ Len(q) = n
  BY <1>1, <1>2
<1>4. IsFiniteSet(1..n) /\ Cardinality(1..n) = n
  BY <1>1, FS_Interval
<1>5. q \in Injection(1..n, S)
  BY <1>2 DEF Injection, IsInjective
<1>6. q \in Surjection(1..n, S)
  BY <1>4, <1>5, FS_Injection
<1>7. \A x \in S : \E i \in 1..n : q[i] = x
  BY <1>6 DEF Surjection
<1> QED BY <1>2, <1>3, <1>7

\* The cap keeps what is held, and names no market twice.
LEMMA CapKeepsHeld ==
  ASSUME NEW mine \in SUBSET Market, NEW t \in Selection(mine), NEW cap \in Caps
  PROVE  LET q == CapTargets(t.own, t.new, cap)
         IN  /\ q \in Seq(Market)
             /\ \A i, j \in 1..Len(q) : i # j => q[i] # q[j]
             /\ \A m \in mine : \E i \in 1..Len(q) : q[i] = m
<1>0. PICK own \in SetToSeqs(mine), new \in UNION {SetToSeqs(c) : c \in SUBSET (Market \ mine)} :
         t = [own |-> own, new |-> new]
  BY DEF Selection
<1>1. PICK c \in SUBSET (Market \ mine) : new \in SetToSeqs(c)
  BY <1>0
<1>2. IsFiniteSet(mine) /\ IsFiniteSet(c)
  BY CycleAssumption, FS_Subset
<1>3. /\ own \in Seq(mine)
      /\ \A i, j \in 1..Len(own) : i # j => own[i] # own[j]
      /\ \A x \in mine : \E i \in 1..Len(own) : own[i] = x
  BY <1>2, ListsOnce
<1>4. /\ new \in Seq(c)
      /\ \A i, j \in 1..Len(new) : i # j => new[i] # new[j]
  BY <1>1, <1>2, ListsOnce
<1> DEFINE room == Max({0, cap - Len(own)})
           k == Min({Len(new), room})
<1>5. k \in 0..Len(new)
  <2>1. Len(new) \in Nat /\ cap - Len(own) \in Int
    BY <1>3, <1>4, CycleAssumption
  <2>2. room \in Nat
    BY <2>1, MaxOfTwo
  <2>3. k = IF Len(new) <= room THEN Len(new) ELSE room
    <3> HIDE DEF room
    <3> QED BY <2>1, <2>2, MinOfTwo
  <2> QED BY <2>1, <2>2, <2>3
<1> DEFINE rest == SubSeq(new, 1, k)
<1>6. rest \in Seq(c) /\ Len(rest) = k /\ \A i \in 1..k : rest[i] = new[i]
  <2> HIDE DEF k
  <2> QED BY <1>4, <1>5, SubSeqProperties
<1> DEFINE q == own \o rest
<1>7. /\ q \in Seq(Market) /\ Len(q) = Len(own) + k
      /\ \A i \in 1..Len(own) : q[i] = own[i]
      /\ \A i \in Len(own) + 1 .. Len(own) + k : q[i] = new[i - Len(own)]
  <2> HIDE DEF rest, k
  <2>1. own \in Seq(Market) /\ rest \in Seq(Market)
    BY <1>3, <1>6
  <2>2. q \in Seq(Market) /\ Len(q) = Len(own) + k
    BY <2>1, <1>6
  <2>3. \A i \in 1..Len(own) : q[i] = own[i]
    BY <2>1
  <2>4. ASSUME NEW i \in Len(own) + 1 .. Len(own) + k PROVE q[i] = new[i - Len(own)]
    <3>1. i - Len(own) \in 1..k
      BY <1>5, <2>1
    <3> QED BY <3>1, <2>1, <1>6
  <2> QED BY <2>2, <2>3, <2>4
<1> HIDE DEF q, k
<1>8. ASSUME NEW i \in 1..Len(q), NEW j \in 1..Len(q), i # j PROVE q[i] # q[j]
  <2>0. Len(own) \in Nat /\ k \in Nat /\ k <= Len(new) /\ Len(new) \in Nat
    BY <1>3, <1>4, <1>5
  <2>1. CASE i <= Len(own) /\ j <= Len(own)
    <3>1. i \in 1..Len(own) /\ j \in 1..Len(own)
      BY <2>1, <2>0, <1>7
    <3> QED BY <3>1, <1>3, <1>7, <1>8
  <2>2. ASSUME NEW a \in 1..Len(q), NEW b \in 1..Len(q), a <= Len(own), ~(b <= Len(own))
        PROVE  q[a] # q[b]
    <3>1. a \in 1..Len(own) /\ b \in Len(own) + 1 .. Len(own) + k /\ b - Len(own) \in 1..Len(new)
      BY <2>2, <2>0, <1>7
    <3>2. q[a] = own[a] /\ own[a] \in mine
      BY <3>1, <1>3, <1>7
    <3>3. q[b] = new[b - Len(own)] /\ new[b - Len(own)] \in c
      BY <3>1, <1>4, <1>7
    <3> QED BY <3>2, <3>3
  <2>3. CASE ~(i <= Len(own)) /\ ~(j <= Len(own))
    <3>1. /\ i \in Len(own) + 1 .. Len(own) + k /\ j \in Len(own) + 1 .. Len(own) + k
          /\ i - Len(own) \in 1..Len(new) /\ j - Len(own) \in 1..Len(new)
          /\ i - Len(own) # j - Len(own)
      BY <2>3, <2>0, <1>7, <1>8
    <3> QED BY <3>1, <1>4, <1>7
  <2> QED BY <2>1, <2>2, <2>3
<1>9. ASSUME NEW m \in mine PROVE \E i \in 1..Len(q) : q[i] = m
  <2>1. PICK i \in 1..Len(own) : own[i] = m
    BY <1>3
  <2>2. i \in 1..Len(q) /\ q[i] = m
    BY <2>1, <1>3, <1>5, <1>7
  <2> QED BY <2>2
<1>10. CapTargets(t.own, t.new, cap) = q
  BY <1>0 DEF CapTargets, q, k, room, rest
<1> QED BY <1>7, <1>8, <1>9, <1>10

-----------------------------------------------------------------------------
(* The turn of a market *)

\* What every step of a market's turn leaves alone.
Carries == /\ cyc'.seen = cyc.seen /\ cyc'.todo = cyc.todo
           /\ cyc'.unseen = cyc.unseen /\ cyc'.bought = cyc.bought

\* The turn is over; it goes on.
Ends   == cyc'.pc = "next" /\ d' = Nobody
GoesOn == cyc'.pc \in {"gate", "signals", "ask", "decide", "buy", "sized"} /\ d'.market = d.market

\* A step of a market's turn that places no order.
Turns == /\ Quiet /\ InTurn /\ Carries /\ cyc' \in CycleRec /\ (Ends \/ GoesOn)
         /\ cyc'.slot => cyc.slot

\* The candidates have the kinds and phases the strategy knows.
LEMMA CandidateTypes ==
  \A r \in Regime : \A c \in CandidatesIn(r) : c.kind \in SignalKind /\ c.phase \in Phase
<1> DEFINE Known(c) == c.kind \in SignalKind /\ c.phase \in Phase
<1>1. \A k \in SignalKind, p \in Phase : Known(Candidate(k, p))
  BY DEF Candidate
<1> HIDE DEF Known
<1>2. \A t \in Ticker : PhaseOf(t) \in Phase
  BY DEF PhaseOf, Phase
<1>3. "CONFIRMED" \in Phase /\ "EXTENDED" \in Phase /\ "EARLY" \in Phase
  BY DEF Phase
<1>4. {"CONFIRMED", "CONFIRMED_FALLBACK", "SWING", "MOMENTUM_BREAKOUT", "SHAKEOUT_SWEEP"}
         \subseteq SignalKind
  BY DEF SignalKind
<1>5. \A t \in Ticker : \A c \in Screened(t) : Known(c)
  BY <1>1, <1>2, <1>3, <1>4 DEF Screened
<1>6. Known(Fallback) /\ Known(Plain) /\ \A r \in Regime : \A c \in Swings(r) : Known(c)
  BY <1>1, <1>3, <1>4 DEF Fallback, Plain, Swings
<1>7. \A r \in Regime : \A c \in CandidatesIn(r) : Known(c)
  BY <1>5, <1>6 DEF CandidatesIn
<1> QED BY <1>7 DEF Known

\* A market whose turn ends.
LEMMA SkipTurns ==
  ASSUME CycleTypes, InTurn, Quiet, Skip
  PROVE  Turns /\ Ends
<1>1. /\ cyc' = [cyc EXCEPT !.pc = "next"] /\ cyc \in CycleRec /\ "next" \in Pcs
  BY DEF Skip, Next1, CycleTypes, Pcs
<1>2. cyc' \in CycleRec /\ Carries /\ cyc'.slot = cyc.slot /\ cyc'.pc = "next"
  BY <1>1 DEF CycleRec, Carries
<1> QED BY <1>2 DEF Turns, Ends, Skip

\* A market's exits: the turn ends or goes on as it is.
LEMMA ExitsTurns ==
  ASSUME CycleTypes, TurnKnown, Exits
  PROVE  Turns /\ (Ends \/ (cyc'.pc = "gate" /\ d' = d))
<1>1. cyc.pc = "exits" /\ InTurn /\ Quiet
  BY DEF Exits, InTurn, Deciding
<1>2. CASE Skip
  BY <1>1, <1>2, SkipTurns
<1>3. CASE cyc' = [cyc EXCEPT !.pc = "gate"] /\ d' = d
  <2>1. cyc' \in CycleRec /\ Carries /\ cyc'.slot = cyc.slot /\ cyc'.pc = "gate"
    BY <1>3 DEF CycleRec, Carries, CycleTypes, Pcs
  <2> QED BY <1>1, <1>3, <2>1 DEF Turns, GoesOn
<1> QED BY <1>2, <1>3 DEF Exits

\* The gate types the candidate.
LEMMA GateTurns ==
  ASSUME CycleTypes, TurnKnown, Gate
  PROVE  /\ Turns
         /\ \/ Ends
            \/ /\ cyc'.pc = "signals" /\ GoesOn /\ d'.kind \in SignalKind /\ d'.phase \in Phase
               /\ d'.holding = d.holding /\ d'.regime = d.regime
<1>1. /\ cyc.pc = "gate" /\ InTurn /\ Quiet /\ d.kind \in SignalKind
      /\ cyc \in CycleRec
  BY DEF Gate, InTurn, Deciding, TurnKnown, CycleTypes
<1>2. CASE Skip
  BY <1>1, <1>2, SkipTurns
<1>3. ASSUME NEW kind, kind \in {"NEW_LISTING", d.kind},
             cyc' = [cyc EXCEPT !.pc = "signals"],
             NEW ph \in IF TakesSlot(kind) THEN PhasesOf(d.kind) ELSE {"CONFIRMED"},
             d' = [market |-> d.market, kind |-> kind, phase |-> ph,
                   holding |-> d.holding, cash |-> d.cash,
                   regime |-> d.regime, cooling |-> d.cooling]
      PROVE  /\ Turns
             /\ cyc'.pc = "signals" /\ GoesOn /\ d'.kind \in SignalKind /\ d'.phase \in Phase
             /\ d'.holding = d.holding /\ d'.regime = d.regime
  <2>1. cyc' \in CycleRec /\ Carries /\ cyc'.slot = cyc.slot /\ cyc'.pc = "signals"
    BY <1>1, <1>3 DEF CycleRec, Carries, Pcs
  <2>2. ph \in Phase
    BY <1>3, CandidateTypes DEF PhasesOf, Phase, Regime
  <2>3. kind \in SignalKind
    BY <1>1, <1>3 DEF SignalKind
  <2>4. /\ d'.market = d.market /\ d'.kind = kind /\ d'.phase = ph /\ d'.holding = d.holding
        /\ d'.regime = d.regime
    BY <1>3
  <2> QED BY <1>1, <2>1, <2>2, <2>3, <2>4 DEF Turns, GoesOn
<1>4. PICK f \in GateFact, ready \in BOOLEAN :
        LET m    == [kind |-> d.kind, holding |-> d.holding, cash |-> d.cash > 0,
                     regime |-> d.regime, closed |-> cyc.shut \/ ~ready]
            kind == TypeNow(m, f)
        IN IF Stopped(m, f) THEN Skip
           ELSE /\ cyc' = [cyc EXCEPT !.pc = "signals"]
                /\ \E ph \in IF TakesSlot(kind) THEN PhasesOf(d.kind) ELSE {"CONFIRMED"} :
                     d' = [market |-> d.market, kind |-> kind, phase |-> ph,
                           holding |-> d.holding, cash |-> d.cash,
                           regime |-> d.regime, cooling |-> d.cooling]
  BY DEF Gate
<1> DEFINE m    == [kind |-> d.kind, holding |-> d.holding, cash |-> d.cash > 0,
                    regime |-> d.regime, closed |-> cyc.shut \/ ~ready]
           kind == TypeNow(m, f)
<1>5. kind \in {"NEW_LISTING", d.kind}
  BY DEF TypeNow
<1> HIDE DEF kind
<1>6. CASE ~Stopped(m, f)
  <2>1. /\ cyc' = [cyc EXCEPT !.pc = "signals"]
        /\ \E ph \in IF TakesSlot(kind) THEN PhasesOf(d.kind) ELSE {"CONFIRMED"} :
             d' = [market |-> d.market, kind |-> kind, phase |-> ph,
                   holding |-> d.holding, cash |-> d.cash,
                   regime |-> d.regime, cooling |-> d.cooling]
    BY <1>4, <1>6 DEF kind
  <2> QED BY <1>3, <1>5, <2>1
<1> QED BY <1>2, <1>4, <1>6

\* What the signals make of the market, and what selecting one of them means.
LEMMA SignalsTurns ==
  ASSUME CycleTypes, TurnKnown, Signals
  PROVE  /\ Turns /\ GoesOn /\ cyc'.pc = "ask" /\ d'.kind = d.kind /\ d'.phase = d.phase
         /\ d'.holding = d.holding /\ d'.regime = d.regime
         /\ d'.use = "recovery" => recovered = 0 \/ d.holding
         /\ d.regime = "RISK_OFF" /\ d.kind = "MOMENTUM_BREAKOUT" /\ d'.allow => d'.use = "sweep"
<1>1. /\ cyc.pc = "signals" /\ InTurn /\ Deciding /\ Quiet /\ cyc' = [cyc EXCEPT !.pc = "ask"]
      /\ d.kind \in SignalKind /\ d.regime \in Regime /\ cyc \in CycleRec
      /\ d.holding = (d.market \in cyc.seen)
  BY DEF Signals, InTurn, Deciding, TurnKnown, CycleTypes
<1>2. cyc' \in CycleRec /\ Carries /\ cyc'.slot = cyc.slot /\ cyc'.pc = "ask"
  BY <1>1 DEF CycleRec, Carries, Pcs
<1>3. PICK o \in Outcome[d.kind][d.regime], feed \in BOOLEAN :
        LET s == Seen(o, feed) IN
        d' = [market |-> d.market, kind |-> d.kind, phase |-> d.phase,
              holding |-> d.holding, cash |-> d.cash, regime |-> d.regime,
              use |-> Selected(d, s, recovered > 0), allow |-> Allows(d, s, recovered > 0),
              alpha |-> s.alpha, base |-> BaseSafety(d, s)]
  BY DEF Signals
<1> DEFINE s == Seen(o, feed)
<1>4. /\ d'.market = d.market /\ d'.kind = d.kind /\ d'.phase = d.phase
      /\ d'.holding = d.holding /\ d'.regime = d.regime
      /\ d'.use = Selected(d, s, recovered > 0) /\ d'.allow = Allows(d, s, recovered > 0)
  BY <1>3
<1>5. s.local = o.local
  BY DEF Seen
<1> HIDE DEF s
<1>6. Selected(d, s, recovered > 0) = "recovery" => recovered = 0 \/ d.holding
  <2>1. SUFFICES ASSUME Selected(d, s, recovered > 0) = "recovery" PROVE recovered = 0 \/ d.holding
    OBVIOUS
  <2>2. UsesRecovery(d, s, recovered > 0)
    BY <2>1 DEF Selected
  <2>3. CASE d.holding
    BY <2>3
  <2>4. CASE ~d.holding
    <3>1. ~(recovered > 0)
      BY <2>2, <2>4 DEF UsesRecovery, SlotFree, RecoveryLooksAtSlot
    <3>2. recovered \in Nat
      BY DEF CycleTypes
    <3> QED BY <3>1, <3>2
  <2> QED BY <2>3, <2>4
<1>7. d.regime = "RISK_OFF" /\ d.kind = "MOMENTUM_BREAKOUT" =>
         o.local = FALSE
  <2>1. SUFFICES ASSUME d.regime = "RISK_OFF", d.kind = "MOMENTUM_BREAKOUT" PROVE o.local = FALSE
    OBVIOUS
  <2>2. o \in Outcome["MOMENTUM_BREAKOUT"]["RISK_OFF"]
    BY <1>3, <2>1
  <2>3. PICK p \in Picture, n \in Score, c \in Session :
          o = [local    |-> LocalSignal("MOMENTUM_BREAKOUT", "RISK_OFF", p, n, c),
               sweep    |-> LocalSignal("SHAKEOUT_SWEEP", "RISK_OFF", p, n, c),
               recovery |-> ReboundSignal("RISK_OFF", p, n, c),
               alpha    |-> Level("RISK_OFF", n),
               floor    |-> "price" \notin p]
    BY <2>2 DEF Outcome, SignalKind, Regime
  <2>4. o.local = LocalSignal("MOMENTUM_BREAKOUT", "RISK_OFF", p, n, c)
    BY <2>3
  <2>5. LocalSignal("MOMENTUM_BREAKOUT", "RISK_OFF", p, n, c) = FALSE
    BY DEF LocalSignal, BreaksOut
  <2> QED BY <2>4, <2>5
<1>8. d.regime = "RISK_OFF" /\ d.kind = "MOMENTUM_BREAKOUT" /\ Allows(d, s, recovered > 0) =>
         Selected(d, s, recovered > 0) = "sweep"
  BY <1>5, <1>7 DEF Allows, Selected, UsesRecovery
<1> QED BY <1>1, <1>2, <1>4, <1>6, <1>8 DEF Turns, GoesOn

\* The AI's answer leaves the signal as it was.
LEMMA AskTurns ==
  ASSUME CycleTypes, TurnKnown, Ask
  PROVE  /\ Turns
         /\ \/ Ends
            \/ /\ GoesOn /\ cyc'.pc = "decide" /\ d'.kind = d.kind /\ d'.phase = d.phase
               /\ d'.holding = d.holding /\ d'.regime = d.regime /\ d'.use = d.use
               /\ d'.allow = d.allow
<1>1. cyc.pc = "ask" /\ InTurn /\ Quiet /\ cyc \in CycleRec
  BY DEF Ask, InTurn, Deciding, CycleTypes
<1> DEFINE c == Charged(cyc)
<1>2. \/ \E r : Answered(r) /\ (cyc' = [c EXCEPT !.pc = "decide"] \/ cyc' = [cyc EXCEPT !.pc = "decide"])
      \/ cyc' = [c EXCEPT !.pc = "next"] /\ d' = Nobody
  <2> HIDE DEF c
  <2>1. PICK a \in {x \in AskFact : x.fit => ~shock}, blocked \in BOOLEAN :
          IF AsksAI(d, cyc.calls < cyc.limit, blocked, a)
          THEN \/ \E r \in AIAnswers : Answered(r) /\ cyc' = [c EXCEPT !.pc = "decide"]
               \/ cyc' = [c EXCEPT !.pc = "next"] /\ d' = Nobody
          ELSE Answered(RuleAnswer(d, a)) /\ cyc' = [cyc EXCEPT !.pc = "decide"]
    BY DEF Ask, c
  <2> QED BY <2>1
<1>3. c \in CycleRec /\ c.seen = cyc.seen /\ c.todo = cyc.todo /\ c.unseen = cyc.unseen
      /\ c.bought = cyc.bought /\ c.slot = cyc.slot
  <2>1. PICK n \in Nat : n = cyc.calls + 1
    BY <1>1 DEF CycleRec
  <2>2. c = [cyc EXCEPT !.calls = n]
    BY <2>1 DEF Charged
  <2> HIDE DEF c
  <2> QED BY <1>1, <2>2 DEF CycleRec
<1> HIDE DEF c
<1>4. ASSUME NEW e \in {c, cyc}, NEW pc \in {"decide", "next"}, cyc' = [e EXCEPT !.pc = pc]
      PROVE  cyc' \in CycleRec /\ Carries /\ cyc'.slot = cyc.slot /\ cyc'.pc = pc
  <2>1. e \in CycleRec /\ e.seen = cyc.seen /\ e.todo = cyc.todo /\ e.unseen = cyc.unseen
        /\ e.bought = cyc.bought /\ e.slot = cyc.slot
    BY <1>1, <1>3, <1>4
  <2> QED BY <2>1, <1>4 DEF CycleRec, Carries, Pcs
<1>5. CASE d' = Nobody /\ cyc' = [c EXCEPT !.pc = "next"]
  BY <1>1, <1>4, <1>5 DEF Turns, Ends
<1>6. ASSUME NEW r, Answered(r), NEW e \in {c, cyc}, cyc' = [e EXCEPT !.pc = "decide"]
      PROVE  /\ Turns /\ GoesOn /\ cyc'.pc = "decide" /\ d'.kind = d.kind /\ d'.phase = d.phase
             /\ d'.holding = d.holding /\ d'.regime = d.regime /\ d'.use = d.use
             /\ d'.allow = d.allow
  <2>1. /\ d'.market = d.market /\ d'.kind = d.kind /\ d'.phase = d.phase
        /\ d'.holding = d.holding /\ d'.regime = d.regime /\ d'.use = d.use /\ d'.allow = d.allow
    BY <1>6 DEF Answered
  <2>2. cyc' \in CycleRec /\ Carries /\ cyc'.slot = cyc.slot /\ cyc'.pc = "decide"
    BY <1>4, <1>6
  <2> QED BY <1>1, <2>1, <2>2 DEF Turns, GoesOn
<1> QED BY <1>2, <1>5, <1>6

\* A decision to buy: what the guards leave of it in RISK_OFF, and the slot.
LEMMA DecideTurns ==
  ASSUME CycleTypes, TurnKnown, Decide
  PROVE  /\ Turns
         /\ \/ Ends
            \/ /\ GoesOn /\ cyc'.pc = "buy" /\ d'.kind = d.kind /\ d'.phase = d.phase
               /\ d'.use = d.use /\ d'.mode \in {"SCALP", "SWING", "NEW_LISTING"}
               /\ TakesSlot(d.kind) => ~cyc'.slot
               /\ TakesSlot(d.kind) /\ (d.kind = "MOMENTUM_BREAKOUT" => d.phase = "EARLY") =>
                     cyc.slot \/ d.holding
               /\ d.regime = "RISK_OFF" => d.allow
<1>1. cyc.pc = "decide" /\ InTurn /\ Quiet /\ cyc \in CycleRec
      /\ d.holding = (d.market \in cyc.seen)
  BY DEF Decide, InTurn, Deciding, CycleTypes, TurnKnown
<1>2. CASE Skip
  BY <1>1, <1>2, SkipTurns
<1>3. ASSUME NEW g \in GuardFact, NEW blocked \in BOOLEAN, Buys(d, d.r, g, cyc.slot, blocked),
             cyc' = [cyc EXCEPT !.pc = "buy", !.slot = @ /\ ~TakesSlot(d.kind)],
             NEW fear \in BOOLEAN, NEW night \in BOOLEAN,
             d' = [market |-> d.market, kind |-> d.kind, phase |-> d.phase,
                   cash |-> d.cash, regime |-> d.regime, use |-> d.use,
                   share |-> Share(d, d.r, g, fear, night), night |-> night,
                   mode |-> ModeNow(d)]
      PROVE  /\ Turns
             /\ GoesOn /\ cyc'.pc = "buy" /\ d'.kind = d.kind /\ d'.phase = d.phase
             /\ d'.use = d.use /\ d'.mode \in {"SCALP", "SWING", "NEW_LISTING"}
             /\ TakesSlot(d.kind) => ~cyc'.slot
             /\ TakesSlot(d.kind) /\ (d.kind = "MOMENTUM_BREAKOUT" => d.phase = "EARLY") =>
                   cyc.slot \/ d.holding
             /\ d.regime = "RISK_OFF" => d.allow
  <2>1. PICK slot \in BOOLEAN : slot = (cyc.slot /\ ~TakesSlot(d.kind))
    OBVIOUS
  <2>2. cyc' = [cyc EXCEPT !.pc = "buy", !.slot = slot]
    BY <1>3, <2>1
  <2>3. cyc' \in CycleRec /\ Carries /\ cyc'.pc = "buy" /\ cyc'.slot = slot
    BY <1>1, <2>2 DEF CycleRec, Carries, Pcs
  <2>4. /\ d'.market = d.market /\ d'.kind = d.kind /\ d'.phase = d.phase /\ d'.use = d.use
        /\ d'.mode = ModeNow(d)
    BY <1>3
  <2>5. d'.mode \in {"SCALP", "SWING", "NEW_LISTING"}
    BY <2>4 DEF ModeNow
  <2>6. MomentumOk(d, d.r, g, cyc.slot) /\ ListingOk(d, d.r, cyc.slot) /\ Passes(d, d.r, g)
    BY <1>3 DEF Buys
  <2>7. TakesSlot(d.kind) /\ (d.kind = "MOMENTUM_BREAKOUT" => d.phase = "EARLY") =>
           cyc.slot \/ d.holding
    BY <2>6 DEF TakesSlot, MomentumOk, ListingOk, Listing
  <2>8. d.regime = "RISK_OFF" => d.allow
    BY <2>6 DEF Passes, Adopted
  <2>9. (TakesSlot(d.kind) => ~cyc'.slot) /\ (cyc'.slot => cyc.slot)
    BY <2>1, <2>3
  <2>10. Turns /\ GoesOn
    BY <1>1, <2>3, <2>4, <2>9 DEF Turns, GoesOn
  <2> QED BY <2>3, <2>4, <2>5, <2>7, <2>8, <2>9, <2>10
<1>4. \/ Skip
      \/ \E g \in GuardFact, blocked \in BOOLEAN :
           /\ Buys(d, d.r, g, cyc.slot, blocked)
           /\ cyc' = [cyc EXCEPT !.pc = "buy", !.slot = @ /\ ~TakesSlot(d.kind)]
           /\ \E fear, night \in BOOLEAN :
                d' = [market |-> d.market, kind |-> d.kind, phase |-> d.phase,
                      cash |-> d.cash, regime |-> d.regime, use |-> d.use,
                      share |-> Share(d, d.r, g, fear, night), night |-> night,
                      mode |-> ModeNow(d)]
  BY DEF Decide
<1> QED BY <1>2, <1>3, <1>4

\* A BUY that has a size: the bot neither has nor buys the market.
LEMMA SizeTurns ==
  ASSUME CycleTypes, TurnKnown, Size
  PROVE  /\ Turns
         /\ \/ Ends
            \/ /\ GoesOn /\ cyc'.pc = "sized" /\ d'.kind = d.kind /\ d'.phase = d.phase
               /\ d'.use = d.use /\ d'.mode = d.mode /\ d.market \notin cyc.seen
<1>1. cyc.pc = "buy" /\ InTurn /\ Quiet /\ cyc \in CycleRec
  BY DEF Size, InTurn, Buying, CycleTypes
<1>2. CASE Skip
  BY <1>1, <1>2, SkipTurns
<1>3. ASSUME NEW risk \in {0, 3}, ~NotNow(d.market), cyc' = [cyc EXCEPT !.pc = "sized"],
             d' = [market |-> d.market, kind |-> d.kind, phase |-> d.phase,
                   cash |-> d.cash, use |-> d.use, mode |-> d.mode,
                   budget |-> Budget(d.cash, d.share, risk, d.mode, d.regime, d.night)]
      PROVE  /\ Turns
             /\ GoesOn /\ cyc'.pc = "sized" /\ d'.kind = d.kind /\ d'.phase = d.phase
             /\ d'.use = d.use /\ d'.mode = d.mode /\ d.market \notin cyc.seen
  <2>1. cyc' \in CycleRec /\ Carries /\ cyc'.slot = cyc.slot /\ cyc'.pc = "sized"
    BY <1>1, <1>3 DEF CycleRec, Carries, Pcs
  <2>2. /\ d'.market = d.market /\ d'.kind = d.kind /\ d'.phase = d.phase /\ d'.use = d.use
        /\ d'.mode = d.mode
    BY <1>3
  <2>3. d.market \notin cyc.seen
    BY <1>3 DEF NotNow
  <2> QED BY <1>1, <2>1, <2>2, <2>3 DEF Turns, GoesOn
<1>4. \/ Skip
      \/ \E risk \in {0, 3} :
           /\ ~NotNow(d.market) /\ cyc' = [cyc EXCEPT !.pc = "sized"]
           /\ d' = [market |-> d.market, kind |-> d.kind, phase |-> d.phase,
                    cash |-> d.cash, use |-> d.use, mode |-> d.mode,
                    budget |-> Budget(d.cash, d.share, risk, d.mode, d.regime, d.night)]
  BY DEF Size
<1> QED BY <1>2, <1>3, <1>4

\* A turn that an exception or a limit ends.
LEMMA FailedTurns ==
  ASSUME CycleTypes, TurnEnds
  PROVE  Turns /\ Ends
BY SkipTurns DEF TurnEnds, InTurn, Deciding, Buying

-----------------------------------------------------------------------------
(* The steps of a turn keep the invariant *)

\* A market's turn changes nothing of the other markets.
LEMMA TurnKeepsMarkets ==
  ASSUME MarketsInv, TurnKnown, Turns
  PROVE  MarketsInv'
<1>1. /\ UNCHANGED <<held, live, mode, base, recovered, shock>> /\ cyc' \in CycleRec
      /\ cyc'.seen = cyc.seen /\ cyc'.todo = cyc.todo /\ cyc'.unseen = cyc.unseen
      /\ InTurn /\ (InTurn' => d'.market = d.market)
  BY DEF Turns, Quiet, Carries, Ends, GoesOn, InTurn, Deciding, Buying
<1>2. CycleTypes'
  BY <1>1 DEF MarketsInv, CycleTypes
<1>3. VisitInv'
  BY <1>1 DEF MarketsInv, VisitInv
<1>4. OneTurn'
  BY <1>1 DEF MarketsInv, OneTurn
<1>5. ASSUME ~OrdersCross PROVE PositionInv'
  BY <1>1, <1>5 DEF MarketsInv, PositionInv, OnePosition, Ahead
<1> QED BY <1>2, <1>3, <1>4, <1>5 DEF MarketsInv

\* The orders of the cycle say what they said, and the slot is not given back.
LEMMA TurnKeepsSlot ==
  ASSUME SlotInv, Turns
  PROVE  /\ SlotIsTaken'
         /\ (\A i \in 1..Len(cyc.bought) : IsMomentum(cyc.bought[i]) => ~cyc.slot)'
BY DEF SlotInv, Turns, Carries, SlotIsTaken

\* The end of a turn leaves nothing to know of it.
LEMMA EndKeeps ==
  ASSUME IInv, Turns, Ends
  PROVE  TurnInv'
<1>1. cyc'.pc = "next" /\ d' = Nobody /\ recovered' = recovered
  BY DEF Ends, Turns, Quiet
<1>2. TurnKnown' /\ SizedInv' /\ SignalInv'
  BY <1>1 DEF TurnKnown, SizedInv, SignalInv, InTurn, Deciding, Buying
<1>3. RecoveryInv'
  BY <1>1 DEF IInv, TurnInv, RecoveryInv, Buying
<1>4. SlotInv'
  BY <1>1, TurnKeepsSlot DEF IInv, TurnInv, SlotInv, Buying
<1> QED BY <1>2, <1>3, <1>4 DEF TurnInv

\* The turn as far as the AI's answer.
LEMMA DecidingKeeps ==
  ASSUME IInv, Exits \/ Gate \/ Signals \/ Ask
  PROVE  IInv'
<1>1. CycleTypes /\ TurnKnown /\ MarketsInv /\ SlotInv /\ recovered \in 0..1
  BY DEF IInv, MarketsInv, TurnInv, RecoveryInv
<1>2. Turns
  BY <1>1, ExitsTurns, GateTurns, SignalsTurns, AskTurns
<1>3. MarketsInv'
  BY <1>1, <1>2, TurnKeepsMarkets
<1>4. CASE Ends
  BY <1>2, <1>3, <1>4, EndKeeps DEF IInv
<1>5. CASE ~Ends
  <2>1. /\ recovered' = recovered /\ cyc'.seen = cyc.seen /\ d'.market = d.market
        /\ d.market \in Market /\ d.kind \in SignalKind
        /\ d.regime \in Regime /\ d.holding = (d.market \in cyc.seen) /\ Deciding
        /\ cyc'.pc \in {"gate", "signals", "ask", "decide"}
    <3>1. Deciding /\ cyc'.pc \in {"gate", "signals", "ask", "decide"} /\ d'.market = d.market
      BY <1>1, <1>5, ExitsTurns, GateTurns, SignalsTurns, AskTurns
         DEF Exits, Gate, Signals, Ask, Deciding, GoesOn
    <3> QED BY <3>1, <1>1, <1>2 DEF TurnKnown, InTurn, Turns, Quiet, Carries
  <2>2. /\ d'.kind \in SignalKind /\ d'.regime = d.regime /\ d'.holding = d.holding
        /\ cyc'.pc \in {"signals", "ask", "decide"} => d'.phase \in Phase
    <3>1. CASE Exits
      BY <3>1, <1>1, <1>5, <2>1, ExitsTurns
    <3>2. CASE Gate
      BY <3>2, <1>1, <1>5, <2>1, GateTurns
    <3>3. CASE Signals
      BY <3>3, <1>1, <1>5, <2>1, SignalsTurns DEF TurnKnown, Signals
    <3>4. CASE Ask
      BY <3>4, <1>1, <1>5, <2>1, AskTurns DEF TurnKnown, Ask
    <3> QED BY <3>1, <3>2, <3>3, <3>4
  <2>3. TurnKnown'
    BY <2>1, <2>2 DEF TurnKnown, InTurn, Deciding, Buying
  <2>4. SizedInv'
    BY <2>1 DEF SizedInv
  <2>5. SlotInv'
    BY <1>1, <1>2, <2>1, TurnKeepsSlot DEF SlotInv, Buying
  <2>6. RecoveryInv' /\ SignalInv'
    <3>1. CASE Exits
      <4>1. cyc'.pc = "gate"
        BY <3>1, <1>1, <1>5, ExitsTurns
      <4> QED BY <4>1, <1>1, <2>1 DEF RecoveryInv, SignalInv, Buying
    <3>2. CASE Gate
      <4>1. cyc'.pc = "signals"
        BY <3>2, <1>1, <1>5, GateTurns
      <4> QED BY <4>1, <1>1, <2>1 DEF RecoveryInv, SignalInv, Buying
    <3>3. CASE Signals
      <4>1. /\ d'.use = "recovery" => recovered = 0 \/ d.holding
            /\ d.regime = "RISK_OFF" /\ d.kind = "MOMENTUM_BREAKOUT" /\ d'.allow => d'.use = "sweep"
            /\ d'.kind = d.kind
        BY <3>3, <1>1, SignalsTurns
      <4> QED BY <4>1, <1>1, <2>1, <2>2 DEF RecoveryInv, SignalInv
    <3>4. CASE Ask
      <4>1. d'.use = d.use /\ d'.allow = d.allow /\ d'.kind = d.kind /\ cyc.pc = "ask"
        BY <3>4, <1>1, <1>5, AskTurns DEF Ask
      <4>2. RecoveryInv /\ SignalInv
        BY DEF IInv, TurnInv
      <4> QED BY <4>1, <4>2, <2>1, <2>2 DEF RecoveryInv, SignalInv
    <3> QED BY <3>1, <3>2, <3>3, <3>4
  <2> QED BY <1>3, <2>3, <2>4, <2>5, <2>6 DEF IInv, TurnInv
<1> QED BY <1>4, <1>5

\* The decision to buy, its size, and what ends the turn without an order.
LEMMA BuyingKeeps ==
  ASSUME IInv, Decide \/ Size \/ TurnEnds
  PROVE  IInv'
<1>1. CycleTypes /\ TurnKnown /\ MarketsInv /\ SlotInv /\ RecoveryInv
  BY DEF IInv, MarketsInv, TurnInv
<1>2. Turns
  BY <1>1, DecideTurns, SizeTurns, FailedTurns
<1>3. MarketsInv'
  BY <1>1, <1>2, TurnKeepsMarkets
<1>4. CASE Ends
  BY <1>2, <1>3, <1>4, EndKeeps DEF IInv
<1>5. CASE ~Ends
  <2>1. /\ recovered' = recovered /\ cyc'.seen = cyc.seen /\ cyc'.bought = cyc.bought
        /\ d'.market = d.market /\ d.market \in Market /\ d.kind \in SignalKind
        /\ cyc'.pc \in {"buy", "sized"} /\ cyc.pc \in {"decide", "buy"}
        /\ d'.kind = d.kind /\ d'.phase = d.phase /\ d'.use = d.use /\ d.phase \in Phase
        /\ d'.mode \in {"SCALP", "SWING", "NEW_LISTING"}
    <3>1. CASE Decide
      BY <3>1, <1>1, <1>5, DecideTurns
         DEF Decide, Turns, GoesOn, Quiet, Carries, TurnKnown, InTurn, Deciding
    <3>2. CASE Size
      BY <3>2, <1>1, <1>5, SizeTurns
         DEF Size, Turns, GoesOn, Quiet, Carries, TurnKnown, InTurn, Buying
    <3>3. CASE TurnEnds
      BY <3>3, <1>1, <1>5, FailedTurns
    <3> QED BY <3>1, <3>2, <3>3
  <2>2. TurnKnown' /\ SignalInv'
    BY <2>1 DEF TurnKnown, SignalInv, InTurn, Deciding, Buying
  <2>3. SizedInv'
    <3>1. CASE Decide
      BY <3>1, <1>1, <1>5, DecideTurns DEF SizedInv
    <3>2. CASE Size
      BY <3>2, <2>1, <1>1, <1>5, SizeTurns DEF SizedInv
    <3>3. CASE TurnEnds
      BY <3>3, <1>1, <1>5, FailedTurns
    <3> QED BY <3>1, <3>2, <3>3
  <2>4. RecoveryInv'
    BY <2>1, <1>1 DEF RecoveryInv, Buying
  <2>5. SlotInv'
    <3>1. SlotIsTaken' /\ (\A i \in 1..Len(cyc.bought) : IsMomentum(cyc.bought[i]) => ~cyc.slot)'
      BY <1>1, <1>2, TurnKeepsSlot
    <3>2. TakesSlot(d.kind) => ~cyc'.slot
      <4>1. CASE Decide
        BY <4>1, <1>1, <1>5, DecideTurns
      <4>2. CASE Size
        BY <4>2, <1>1, <1>2 DEF Size, SlotInv, Buying, Turns
      <4>3. CASE TurnEnds
        BY <4>3, <1>1, <1>5, FailedTurns
      <4> QED BY <4>1, <4>2, <4>3
    <3>3. TakesSlot(d.kind) /\ (d.kind = "MOMENTUM_BREAKOUT" => d.phase = "EARLY") =>
             d.market \in cyc.seen \/ \A i \in 1..Len(cyc.bought) : ~IsMomentum(cyc.bought[i])
      <4>1. CASE Decide
        <5>1. d.holding = (d.market \in cyc.seen)
          BY <4>1, <1>1 DEF Decide, TurnKnown, Deciding
        <5>2. TakesSlot(d.kind) /\ (d.kind = "MOMENTUM_BREAKOUT" => d.phase = "EARLY") =>
                 cyc.slot \/ d.holding
          BY <4>1, <1>1, <1>5, DecideTurns
        <5> QED BY <5>1, <5>2, <1>1 DEF SlotInv
      <4>2. CASE Size
        BY <4>2, <1>1 DEF Size, SlotInv, Buying
      <4>3. CASE TurnEnds
        BY <4>3, <1>1, <1>5, FailedTurns
      <4> QED BY <4>1, <4>2, <4>3
    <3> QED BY <2>1, <3>1, <3>2, <3>3 DEF SlotInv
  <2> QED BY <1>3, <2>2, <2>3, <2>4, <2>5 DEF IInv, TurnInv
<1> QED BY <1>4, <1>5

-----------------------------------------------------------------------------
(* A market's turn begins, and ends with an order *)

\* The next market's turn begins: it is taken from what is to come.
LEMMA StartKeeps ==
  ASSUME IInv, StartMarket
  PROVE  IInv'
<1> DEFINE m == Head(cyc.todo)
           rest == Tail(cyc.todo)
           turn == [cyc EXCEPT !.todo = Tail(@), !.unseen = @ \ {m}]
<1>1. /\ cyc.pc = "next" /\ cyc.todo # <<>> /\ Quiet /\ cyc \in CycleRec
      /\ TurnKnown /\ VisitInv /\ OneTurn /\ RecoveryInv /\ SlotInv /\ CycleTypes
  BY DEF StartMarket, IInv, MarketsInv, TurnInv, CycleTypes
<1>2. /\ cyc.todo \in Seq(Market) /\ m \in Market /\ m = cyc.todo[1] /\ 1 \in 1..Len(cyc.todo)
      /\ rest \in Seq(Market)
      /\ \A i \in 1..Len(rest) : i + 1 \in 1..Len(cyc.todo) /\ rest[i] = cyc.todo[i + 1]
      /\ \A i \in 1..Len(cyc.todo) : i # 1 => i - 1 \in 1..Len(rest) /\ rest[i - 1] = cyc.todo[i]
  <2>1. cyc.todo \in Seq(Market)
    BY <1>1 DEF CycleRec
  <2> QED BY <2>1, <1>1
<1> HIDE DEF m, rest
<1>3. turn \in CycleRec /\ turn.pc = "next" /\ turn.todo = rest /\ turn.unseen = cyc.unseen \ {m}
      /\ turn.seen = cyc.seen /\ turn.bought = cyc.bought /\ turn.slot = cyc.slot
      /\ turn.regime = cyc.regime
  <2>1. turn = [cyc EXCEPT !.todo = rest, !.unseen = cyc.unseen \ {m}]
    BY DEF rest
  <2> HIDE DEF turn
  <2> QED BY <2>1, <1>1, <1>2 DEF CycleRec
<1> HIDE DEF turn
<1>4. \/ cyc' = turn /\ d' = d
      \/ \E seen \in {cyc.seen, held}, k \in KindsOf(m), cash \in CashLevel :
           /\ cyc' = [turn EXCEPT !.pc = "exits", !.seen = seen]
           /\ d' = [market |-> m, kind |-> k, holding |-> m \in seen,
                    cash |-> cash, regime |-> cyc.regime, cooling |-> cyc.cooling]
  BY DEF StartMarket, m, turn
<1>5. /\ cyc' \in CycleRec /\ cyc'.todo = rest /\ cyc'.unseen = cyc.unseen \ {m}
      /\ cyc'.seen \in {cyc.seen, held} /\ cyc'.bought = cyc.bought /\ cyc'.slot = cyc.slot
      /\ \/ cyc'.pc = "next" /\ d' = d
         \/ /\ cyc'.pc = "exits" /\ d'.market = m /\ d'.kind \in SignalKind
            /\ d'.regime \in Regime /\ d'.holding = (m \in cyc'.seen)
  <2>1. CASE cyc' = turn /\ d' = d
    BY <2>1, <1>3
  <2>2. ASSUME NEW seen \in {cyc.seen, held}, NEW k \in KindsOf(m), NEW cash \in CashLevel,
               cyc' = [turn EXCEPT !.pc = "exits", !.seen = seen],
               d' = [market |-> m, kind |-> k, holding |-> m \in seen,
                     cash |-> cash, regime |-> cyc.regime, cooling |-> cyc.cooling]
        PROVE  /\ cyc' \in CycleRec /\ cyc'.todo = rest /\ cyc'.unseen = cyc.unseen \ {m}
               /\ cyc'.seen \in {cyc.seen, held} /\ cyc'.bought = cyc.bought /\ cyc'.slot = cyc.slot
               /\ cyc'.pc = "exits" /\ d'.market = m /\ d'.kind \in SignalKind
               /\ d'.regime \in Regime /\ d'.holding = (m \in cyc'.seen)
    <3>1. seen \in SUBSET Market
      BY <1>1 DEF CycleTypes, CycleRec
    <3>2. /\ cyc' \in CycleRec /\ cyc'.todo = rest /\ cyc'.unseen = cyc.unseen \ {m}
          /\ cyc'.seen = seen /\ cyc'.bought = cyc.bought /\ cyc'.slot = cyc.slot
          /\ cyc'.pc = "exits"
      BY <3>1, <2>2, <1>3 DEF CycleRec, Pcs
    <3>3. k \in SignalKind
      BY DecisionAssumption DEF KindsOf, Plain, Candidate, SignalKind
    <3>4. cyc.regime \in Regime
      BY <1>1 DEF CycleRec
    <3>5. d'.market = m /\ d'.kind = k /\ d'.regime = cyc.regime /\ d'.holding = (m \in seen)
      BY <2>2
    <3> QED BY <3>2, <3>3, <3>4, <3>5
  <2> QED BY <1>4, <2>1, <2>2
<1>6. CycleTypes'
  BY <1>1, <1>5 DEF CycleTypes, Quiet
<1>7. VisitInv'
  <2>1. ASSUME NEW x \in cyc.unseen \ {m} PROVE \E i \in 1..Len(rest) : rest[i] = x
    <3>1. PICK i \in 1..Len(cyc.todo) : cyc.todo[i] = x
      BY <1>1 DEF VisitInv
    <3> QED BY <3>1, <1>2
  <2> QED BY <2>1, <1>5 DEF VisitInv
<1>8. OneTurn'
  <2>1. \A i, j \in 1..Len(rest) : i # j => rest[i] # rest[j]
    BY <1>1, <1>2 DEF OneTurn
  <2>2. \A i \in 1..Len(rest) : rest[i] # m
    BY <1>1, <1>2 DEF OneTurn
  <2> QED BY <2>1, <2>2, <1>5 DEF OneTurn, InTurn, Deciding, Buying
<1>9. ASSUME ~OrdersCross PROVE PositionInv'
  <2>1. \A x : Ahead(x)' => Ahead(x)
    BY <1>1, <1>2, <1>5 DEF Ahead, InTurn, Deciding, Buying
  <2>2. PositionInv /\ held' = held /\ live' = live
    BY <1>1, <1>9 DEF IInv, MarketsInv, Quiet
  <2> QED BY <2>1, <2>2, <1>5 DEF PositionInv, OnePosition
<1>10. TurnKnown' /\ SizedInv' /\ SignalInv'
  BY <1>1, <1>2, <1>5 DEF TurnKnown, SizedInv, SignalInv, InTurn, Deciding, Buying
<1>11. RecoveryInv' /\ SlotInv'
  BY <1>1, <1>5 DEF RecoveryInv, SlotInv, SlotIsTaken, Buying, Quiet
<1> QED BY <1>6, <1>7, <1>8, <1>9, <1>10, <1>11 DEF IInv, MarketsInv, TurnInv

\* The order: its market is not held, and its slot was taken when decided.
LEMMA SubmitKeeps ==
  ASSUME IInv, Submit
  PROVE  IInv'
<1> DEFINE b == <<d.kind, d.phase>>
           orders == Append(cyc.bought, b)
<1>1. /\ cyc.pc = "sized" /\ Buying /\ InTurn /\ cyc \in CycleRec /\ UNCHANGED <<held, base, shock>>
      /\ CycleTypes /\ VisitInv /\ OneTurn /\ RecoveryInv /\ SlotInv
      /\ d.market \in Market /\ d.kind \in SignalKind /\ d.phase \in Phase
      /\ d.mode \in {"SCALP", "SWING", "NEW_LISTING"} /\ d.market \notin cyc.seen
  BY DEF Submit, IInv, MarketsInv, TurnInv, CycleTypes, TurnKnown, InTurn, Buying, SizedInv
<1>2. /\ live' = live \union {d.market} /\ mode' = [mode EXCEPT ![d.market] = d.mode]
      /\ recovered' = recovered + (IF d.use = "recovery" THEN 1 ELSE 0) /\ d' = Nobody
      /\ cyc' = [Next1 EXCEPT !.bought = orders]
  BY DEF Submit, Next1
<1>3. cyc.bought \in Seq(SignalKind \X Phase) /\ b \in SignalKind \X Phase
  BY <1>1 DEF CycleRec
<1>4. /\ orders \in Seq(SignalKind \X Phase) /\ Len(orders) = Len(cyc.bought) + 1
      /\ Len(cyc.bought) \in Nat /\ orders[Len(orders)] = b
      /\ \A i \in 1..Len(cyc.bought) : orders[i] = cyc.bought[i]
  <2> HIDE DEF b
  <2> QED BY <1>3
<1> HIDE DEF orders
<1>5. /\ cyc' \in CycleRec /\ cyc'.pc = "next" /\ cyc'.seen = cyc.seen /\ cyc'.todo = cyc.todo
      /\ cyc'.unseen = cyc.unseen /\ cyc'.slot = cyc.slot /\ cyc'.bought = orders
  BY <1>1, <1>2, <1>4 DEF CycleRec, Next1, Pcs
<1>6. RecoveryInv'
  <2>1. recovered' \in 0..1
    BY <1>1, <1>2 DEF RecoveryInv
  <2> QED BY <2>1, <1>5 DEF RecoveryInv, Buying
<1>7. CycleTypes'
  BY <1>1, <1>2, <1>5, <1>6 DEF CycleTypes, RecoveryInv
<1>8. VisitInv' /\ OneTurn'
  BY <1>1, <1>5 DEF VisitInv, OneTurn, InTurn, Deciding, Buying
<1>9. ASSUME ~OrdersCross PROVE PositionInv'
  <2>1. PositionInv
    BY <1>9 DEF IInv, MarketsInv
  <2>2. d.market \notin held
    BY <2>1, <1>1 DEF PositionInv, Ahead
  <2>3. \A x : Ahead(x)' => Ahead(x) /\ x # d.market
    BY <1>1, <1>5 DEF Ahead, OneTurn, InTurn, Deciding, Buying
  <2> QED BY <2>1, <2>2, <2>3, <1>1, <1>2, <1>5 DEF PositionInv, OnePosition
<1>10. TurnKnown' /\ SizedInv' /\ SignalInv'
  BY <1>2, <1>5 DEF TurnKnown, SizedInv, SignalInv, InTurn, Deciding, Buying
<1>11. SlotInv'
  <2>1. /\ IsMomentum(b) => TakesSlot(d.kind) /\ ~cyc.slot
    BY <1>1 DEF IsMomentum, TakesSlot, SlotInv
  <2>2. ASSUME NEW i \in 1..Len(orders) PROVE IsMomentum(orders[i]) => ~cyc.slot
    <3>1. CASE i = Len(orders)
      BY <3>1, <2>1, <1>4
    <3>2. CASE i # Len(orders)
      <4>1. i \in 1..Len(cyc.bought)
        BY <3>2, <1>4
      <4> QED BY <4>1, <1>1, <1>4 DEF SlotInv
    <3> QED BY <3>1, <3>2
  <2>3. ASSUME NEW i \in 1..Len(orders), NEW j \in 1..Len(orders), i < j,
               IsMomentum(orders[i]), IsMomentum(orders[j])
        PROVE  orders[j] \in {"MOMENTUM_BREAKOUT"} \X {"CONFIRMED", "EXTENDED"}
    <3>1. i \in 1..Len(cyc.bought) /\ orders[i] = cyc.bought[i]
      BY <2>3, <1>4
    <3>2. CASE j = Len(orders)
      <4>1. orders[j] = b /\ TakesSlot(d.kind)
        BY <3>2, <1>4, <2>1, <2>3
      <4>2. ~(d.kind = "MOMENTUM_BREAKOUT" => d.phase = "EARLY")
        BY <4>1, <3>1, <2>3, <1>1 DEF SlotInv
      <4>3. d.phase \in {"CONFIRMED", "EXTENDED"} /\ d.kind = "MOMENTUM_BREAKOUT"
        BY <4>2, <1>1 DEF Phase
      <4> QED BY <4>1, <4>3
    <3>3. CASE j # Len(orders)
      <4>1. j \in 1..Len(cyc.bought) /\ orders[j] = cyc.bought[j]
        BY <3>3, <1>4
      <4>2. DOMAIN cyc.bought = 1..Len(cyc.bought)
        BY <1>3
      <4> QED BY <4>1, <4>2, <3>1, <2>3, <1>1 DEF SlotInv, SlotIsTaken
    <3> QED BY <3>2, <3>3
  <2>4. DOMAIN orders = 1..Len(orders)
    BY <1>4
  <2> QED BY <2>2, <2>3, <2>4, <1>5 DEF SlotInv, SlotIsTaken, Buying
<1> QED BY <1>6, <1>7, <1>8, <1>9, <1>10, <1>11 DEF IInv, MarketsInv, TurnInv

-----------------------------------------------------------------------------
(* The cycle begins and ends *)

\* What the regime's readings are, and that a pause they begin is defensive.
LEMMA ReadingTypes ==
  ASSUME shock \in BOOLEAN, NEW r \in Readings
  PROVE  /\ r.shock \in BOOLEAN /\ Coarse(r.regime) \in Regime
         /\ ~shock /\ r.shock => Coarse(r.regime) # "NORMAL"
<1> DEFINE Known == {"NORMAL", "BULL_TREND", "RISK_OFF", "CRASH"}
<1>1. CASE r = [shock |-> shock, regime |-> "CRASH"]
  <2>1. r.shock = shock /\ r.regime = "CRASH"
    BY <1>1
  <2> QED BY <2>1 DEF Coarse, Regime
<1>2. ASSUME NEW f \in BTCFact, NEW rebound \in BOOLEAN, NEW groq \in Opinion, NEW ai \in Opinion,
             r = Read(f, rebound, groq, ai)
      PROVE  /\ r.shock \in BOOLEAN /\ Coarse(r.regime) \in Regime
             /\ ~shock /\ r.shock => Coarse(r.regime) # "NORMAL"
  <2> DEFINE felt == Felt(f, shock, rebound)
             told == Told(felt, groq)
  <2>1. r.shock = ShockAfter(f, shock, rebound) /\ r.regime = Told(told, ai)
    BY <1>2 DEF Read, RegimeOf
  <2>2. r.shock \in BOOLEAN
    BY <2>1 DEF ShockAfter, Shocks
  <2>3. \A x \in Known, o \in Opinion : Told(x, o) \in Known
    BY DEF Told
  <2>4. felt \in Known
    BY DEF Felt, Released, FromCandles
  <2>5. r.regime \in Known
    <3> HIDE DEF felt
    <3>1. told \in Known
      BY <2>3, <2>4
    <3> HIDE DEF told
    <3> QED BY <2>1, <2>3, <3>1
  <2>6. ASSUME ~shock, r.shock PROVE r.regime \in {"RISK_OFF", "CRASH"}
    <3>1. Shocks(f)
      BY <2>1, <2>6 DEF ShockAfter
    <3>2. felt \in {"RISK_OFF", "CRASH"}
      <4>1. felt = FromCandles(f)
        BY <2>6 DEF Felt
      <4>2. FromCandles(f) = IF f.drop = "crash" THEN "CRASH" ELSE "RISK_OFF"
        BY <3>1 DEF FromCandles
      <4> QED BY <4>1, <4>2
    <3>3. \A x \in {"RISK_OFF", "CRASH"}, o \in Opinion : Told(x, o) \in {"RISK_OFF", "CRASH"}
      BY DEF Told
    <3> HIDE DEF felt
    <3>4. told \in {"RISK_OFF", "CRASH"}
      BY <3>2, <3>3
    <3> HIDE DEF told
    <3> QED BY <2>1, <3>3, <3>4
  <2>7. Coarse(r.regime) \in Regime
    BY <2>5 DEF Coarse, Regime
  <2> QED BY <2>2, <2>6, <2>7 DEF Coarse
<1> QED BY <1>1, <1>2 DEF Readings

\* What the prefix leaves: the capped markets, and nothing looked at yet.
LEMMA PrefixBegins ==
  ASSUME CycleTypes, Prefix
  PROVE  /\ cyc' \in CycleRec /\ cyc'.pc = "loop" /\ cyc'.seen = held /\ cyc'.unseen = held
         /\ cyc'.bought = <<>> /\ shock' \in BOOLEAN
         /\ ~shock /\ shock' => cyc'.regime # "NORMAL"
         /\ \A i, j \in 1..Len(cyc'.todo) : i # j => cyc'.todo[i] # cyc'.todo[j]
         /\ \A m \in held : \E i \in 1..Len(cyc'.todo) : cyc'.todo[i] = m
<1>1. PICK shut \in BOOLEAN, c \in BOOLEAN, r \in Readings, targets \in Selection(held), cap \in Caps :
        /\ shock' = r.shock
        /\ cyc' = [Idle EXCEPT !.pc = "loop", !.shut = shut, !.cooling = c,
                               !.regime = Coarse(r.regime),
                               !.held = held, !.seen = held, !.unseen = held,
                               !.todo = CapTargets(targets.own, targets.new, cap)]
  BY DEF Prefix
<1>2. held \in SUBSET Market /\ shock \in BOOLEAN
  BY DEF CycleTypes
<1> DEFINE q == CapTargets(targets.own, targets.new, cap)
           g == Coarse(r.regime)
<1>3. /\ q \in Seq(Market)
      /\ \A i, j \in 1..Len(q) : i # j => q[i] # q[j]
      /\ \A m \in held : \E i \in 1..Len(q) : q[i] = m
  BY <1>2, CapKeepsHeld
<1>4. r.shock \in BOOLEAN /\ g \in Regime /\ (~shock /\ r.shock => g # "NORMAL")
  BY <1>2, ReadingTypes
<1> HIDE DEF q, g
<1>5. cyc' = [pc |-> "loop", shut |-> shut, regime |-> g, cooling |-> c, held |-> held,
              seen |-> held, todo |-> q, limit |-> 0, calls |-> 0, slot |-> TRUE,
              unseen |-> held, bought |-> <<>>]
  BY <1>1 DEF Idle, q, g
<1>6. "loop" \in Pcs /\ 0 \in 0..MaxAI /\ 0 \in Nat /\ <<>> \in Seq(SignalKind \X Phase)
  BY CycleAssumption DEF Pcs
<1>7. cyc' \in CycleRec
  BY <1>2, <1>3, <1>4, <1>5, <1>6 DEF CycleRec
<1>8. /\ cyc'.pc = "loop" /\ cyc'.seen = held /\ cyc'.unseen = held /\ cyc'.todo = q
      /\ cyc'.bought = <<>> /\ cyc'.regime = g
  BY <1>5
<1> QED BY <1>1, <1>3, <1>4, <1>7, <1>8

\* A cycle begins.
LEMMA PrefixKeeps ==
  ASSUME IInv, Prefix
  PROVE  IInv'
<1>1. /\ CycleTypes /\ RecoveryInv /\ TurnKnown /\ cyc.pc = "idle"
      /\ UNCHANGED <<held, recovered, d>> /\ (~OrdersCross => PositionInv)
  BY DEF Prefix, IInv, MarketsInv, TurnInv
<1>2. /\ cyc' \in CycleRec /\ cyc'.pc = "loop" /\ cyc'.seen = held /\ cyc'.unseen = held
      /\ cyc'.bought = <<>> /\ shock' \in BOOLEAN
      /\ \A i, j \in 1..Len(cyc'.todo) : i # j => cyc'.todo[i] # cyc'.todo[j]
      /\ \A m \in held : \E i \in 1..Len(cyc'.todo) : cyc'.todo[i] = m
  BY <1>1, PrefixBegins
<1>3. CycleTypes'
  <2>1. live' \subseteq Market
    BY <1>1 DEF Prefix, CycleTypes
  <2>2. base' \in 0..100
    <3>1. PICK manual \in Manual : base' = BaseNow(manual)
      BY DEF Prefix
    <3>2. manual \in 0..99 /\ base \in 0..100
      BY <1>1, CycleAssumption DEF CycleTypes
    <3> QED BY <3>1, <3>2 DEF BaseNow
  <2>3. mode' \in [Market -> {"SCALP", "SWING", "NEW_LISTING"}]
    BY <1>1 DEF Prefix, CycleTypes
  <2> QED BY <2>1, <2>2, <2>3, <1>1, <1>2 DEF CycleTypes
<1>4. VisitInv' /\ OneTurn'
  BY <1>1, <1>2 DEF VisitInv, OneTurn, InTurn, Deciding, Buying
<1>5. ASSUME ~OrdersCross PROVE PositionInv'
  <2>1. live' = {}
    BY <1>5 DEF Prefix
  <2> QED BY <1>1, <1>2, <2>1 DEF PositionInv, OnePosition
<1>6. TurnKnown' /\ SizedInv' /\ SignalInv' /\ RecoveryInv'
  BY <1>1, <1>2 DEF TurnKnown, SizedInv, SignalInv, RecoveryInv, InTurn, Deciding, Buying
<1>7. SlotInv'
  BY <1>2 DEF SlotInv, SlotIsTaken, Buying
<1> QED BY <1>3, <1>4, <1>5, <1>6, <1>7 DEF IInv, MarketsInv, TurnInv

\* The loop begins with its share of the AI's calls.
LEMMA BeginLoopKeeps ==
  ASSUME IInv, BeginLoop
  PROVE  IInv'
<1>1. /\ CycleTypes /\ cyc \in CycleRec /\ cyc.pc = "loop"
      /\ UNCHANGED <<held, live, mode, base, recovered, shock, d>>
  BY DEF BeginLoop, IInv, MarketsInv, CycleTypes
<1>2. PICK paused \in BOOLEAN, quota \in 0..MaxAI :
        cyc' = [cyc EXCEPT !.pc = "next", !.shut = @ \/ paused,
                  !.limit = IF paused \/ cyc.shut \/ cyc.regime = "CRASH" THEN 0 ELSE quota]
  BY DEF BeginLoop
<1>3. PICK shut \in BOOLEAN, limit \in 0..MaxAI :
        cyc' = [cyc EXCEPT !.pc = "next", !.shut = shut, !.limit = limit]
  <2>1. (cyc.shut \/ paused) \in BOOLEAN
    OBVIOUS
  <2>2. (IF paused \/ cyc.shut \/ cyc.regime = "CRASH" THEN 0 ELSE quota) \in 0..MaxAI
    BY CycleAssumption
  <2> QED BY <1>2, <2>1, <2>2
<1>4. /\ cyc' \in CycleRec /\ cyc'.pc = "next" /\ cyc'.seen = cyc.seen /\ cyc'.todo = cyc.todo
      /\ cyc'.unseen = cyc.unseen /\ cyc'.slot = cyc.slot /\ cyc'.bought = cyc.bought
  BY <1>1, <1>3 DEF CycleRec, Pcs
<1>5. CycleTypes' /\ VisitInv' /\ OneTurn'
  BY <1>1, <1>4 DEF IInv, MarketsInv, CycleTypes, VisitInv, OneTurn, InTurn, Deciding, Buying
<1>6. ASSUME ~OrdersCross PROVE PositionInv'
  BY <1>1, <1>4, <1>6
     DEF IInv, MarketsInv, PositionInv, OnePosition, Ahead, InTurn, Deciding, Buying
<1>7. TurnInv'
  BY <1>1, <1>4 DEF IInv, TurnInv, TurnKnown, SizedInv, RecoveryInv, SlotInv, SlotIsTaken,
                    SignalInv, InTurn, Deciding, Buying
<1> QED BY <1>5, <1>6, <1>7 DEF IInv, MarketsInv

\* A cycle that is not working.
LEMMA IdleType == Idle \in CycleRec /\ Idle.pc = "idle" /\ Idle.todo = <<>>
                  /\ Idle.unseen = {} /\ Idle.bought = <<>>
<1>1. "idle" \in Pcs /\ "NORMAL" \in Regime /\ 0 \in 0..MaxAI /\ 0 \in Nat
      /\ <<>> \in Seq(Market) /\ <<>> \in Seq(SignalKind \X Phase) /\ {} \in SUBSET Market
  BY CycleAssumption DEF Pcs, Regime
<1>2. Idle \in CycleRec
  BY <1>1 DEF Idle, CycleRec
<1> QED BY <1>2 DEF Idle

\* A cycle ends, or fails before its loop.
LEMMA EndOfCycleKeeps ==
  ASSUME IInv, Suffix \/ CycleFails
  PROVE  IInv'
<1>1. /\ cyc' = Idle /\ CycleTypes /\ RecoveryInv /\ TurnKnown /\ cyc.pc \in {"next", "loop"}
      /\ UNCHANGED <<held, live, mode, base, recovered, shock, d>>
  BY DEF Suffix, CycleFails, IInv, MarketsInv, TurnInv
<1>2. cyc' \in CycleRec /\ cyc'.pc = "idle" /\ cyc'.todo = <<>> /\ cyc'.unseen = {}
      /\ cyc'.bought = <<>>
  BY <1>1, IdleType
<1>3. CycleTypes' /\ VisitInv' /\ OneTurn'
  BY <1>1, <1>2 DEF CycleTypes, VisitInv, OneTurn, InTurn, Deciding, Buying
<1>4. ASSUME ~OrdersCross PROVE PositionInv'
  BY <1>1, <1>2, <1>4
     DEF IInv, MarketsInv, PositionInv, OnePosition, Ahead, InTurn, Deciding, Buying
<1>5. TurnInv'
  BY <1>1, <1>2 DEF TurnInv, TurnKnown, SizedInv, RecoveryInv, SlotInv, SlotIsTaken,
                    SignalInv, InTurn, Deciding, Buying
<1> QED BY <1>3, <1>4, <1>5 DEF IInv, MarketsInv

-----------------------------------------------------------------------------
(* Around the cycle *)

\* Orders execute, positions close, windows and pauses end.
LEMMA AroundKeeps ==
  ASSUME IInv, Around
  PROVE  IInv'
<1>1. /\ UNCHANGED <<base, cyc, d>> /\ CycleTypes /\ VisitInv /\ OneTurn /\ TurnInv
  BY DEF Around, WindowEnds, ShockEnds, Executes, Closes, IInv, MarketsInv
<1>2. CycleTypes'
  <2>1. CASE WindowEnds
    BY <1>1, <2>1 DEF WindowEnds, CycleTypes
  <2>2. CASE ShockEnds
    BY <1>1, <2>2 DEF ShockEnds, CycleTypes
  <2>3. ASSUME NEW m \in Market, Executes(m) PROVE CycleTypes'
    BY <1>1, <2>3 DEF Executes, CycleTypes
  <2>4. ASSUME NEW m \in Market, Closes(m) PROVE CycleTypes'
    BY <1>1, <2>4 DEF Closes, CycleTypes
  <2> QED BY <2>1, <2>2, <2>3, <2>4 DEF Around
<1>3. VisitInv' /\ OneTurn'
  BY <1>1 DEF VisitInv, OneTurn, InTurn, Deciding, Buying
<1>4. TurnInv'
  <2>1. recovered' \in {recovered, 0}
    BY DEF Around, WindowEnds, ShockEnds, Executes, Closes
  <2> QED BY <1>1, <2>1 DEF TurnInv, TurnKnown, SizedInv, RecoveryInv, SlotInv, SlotIsTaken,
                            SignalInv, InTurn, Deciding, Buying
<1>5. ASSUME ~OrdersCross PROVE PositionInv'
  <2>1. PositionInv /\ \A m \in Market : Ahead(m)' => Ahead(m)
    BY <1>1, <1>5 DEF IInv, MarketsInv, Ahead, InTurn, Deciding, Buying
  <2>2. CASE WindowEnds \/ ShockEnds
    BY <1>1, <2>1, <2>2 DEF WindowEnds, ShockEnds, PositionInv, OnePosition
  <2>3. ASSUME NEW m \in Market, Executes(m) PROVE PositionInv'
    BY <1>1, <2>1, <2>3 DEF Executes, PositionInv, OnePosition
  <2>4. ASSUME NEW m \in Market, Closes(m) PROVE PositionInv'
    BY <1>1, <2>1, <2>4 DEF Closes, PositionInv, OnePosition
  <2> QED BY <2>2, <2>3, <2>4 DEF Around
<1> QED BY <1>2, <1>3, <1>4, <1>5 DEF IInv, MarketsInv

-----------------------------------------------------------------------------
(* The theorems *)

\* What the cycle knows of its markets, its orders and the market under
\* decision, through every interleaving of executions and closed positions.
THEOREM CycleInvariant == Spec => []IInv
<1>1. Init => IInv
  <2> SUFFICES ASSUME Init PROVE IInv
    OBVIOUS
  <2>1. /\ cyc = Idle /\ d = Nobody /\ held \in SUBSET Market /\ live = {}
        /\ mode = [m \in Market |-> "SCALP"] /\ base = 0 /\ recovered = 0 /\ shock = FALSE
    BY DEF Init
  <2>2. cyc \in CycleRec /\ cyc.pc = "idle" /\ cyc.todo = <<>> /\ cyc.unseen = {}
        /\ cyc.bought = <<>>
    BY <2>1, IdleType
  <2>3. MarketsInv
    <3>1. CycleTypes
      <4>1. mode \in [Market -> {"SCALP", "SWING", "NEW_LISTING"}]
        BY <2>1
      <4>2. base \in 0..100 /\ recovered \in Nat /\ live \subseteq Market /\ held \subseteq Market
        BY <2>1
      <4>3. shock \in BOOLEAN
        BY <2>1
      <4> QED BY <2>2, <4>1, <4>2, <4>3 DEF CycleTypes
    <3>2. VisitInv /\ OneTurn
      BY <2>2 DEF VisitInv, OneTurn, InTurn, Deciding, Buying
    <3>3. PositionInv
      BY <2>1, <2>2 DEF PositionInv, OnePosition, Ahead, InTurn, Deciding, Buying
    <3> QED BY <3>1, <3>2, <3>3 DEF MarketsInv
  <2>4. TurnInv
    BY <2>1, <2>2 DEF TurnInv, TurnKnown, SizedInv, RecoveryInv, SlotInv, SlotIsTaken,
                      SignalInv, InTurn, Deciding, Buying
  <2> QED BY <2>3, <2>4 DEF IInv
<1>2. IInv /\ [Next]_vars => IInv'
  <2> SUFFICES ASSUME IInv, [Next]_vars PROVE IInv'
    OBVIOUS
  <2>1. CASE Around
    BY <2>1, AroundKeeps
  <2>2. CASE Prefix
    BY <2>2, PrefixKeeps
  <2>3. CASE BeginLoop
    BY <2>3, BeginLoopKeeps
  <2>4. CASE StartMarket
    BY <2>4, StartKeeps
  <2>5. CASE Exits \/ Gate \/ Signals \/ Ask
    BY <2>5, DecidingKeeps
  <2>6. CASE Decide \/ Size \/ TurnEnds
    BY <2>6, BuyingKeeps
  <2>7. CASE Submit
    BY <2>7, SubmitKeeps
  <2>8. CASE Suffix \/ CycleFails
    BY <2>8, EndOfCycleKeeps
  <2>9. CASE UNCHANGED vars
    <3>1. UNCHANGED <<held, live, mode, base, recovered, shock, cyc, d>>
      BY <2>9 DEF vars
    <3>2. MarketsInv'
      BY <3>1 DEF IInv, MarketsInv, CycleTypes, VisitInv, OneTurn, PositionInv, OnePosition,
                  Ahead, InTurn, Deciding, Buying
    <3>3. TurnInv'
      BY <3>1 DEF IInv, TurnInv, TurnKnown, SizedInv, RecoveryInv, SlotInv, SlotIsTaken,
                  SignalInv, InTurn, Deciding, Buying
    <3> QED BY <3>2, <3>3 DEF IInv
  <2> QED BY <2>1, <2>2, <2>3, <2>4, <2>5, <2>6, <2>7, <2>8, <2>9 DEF Next, Cycle
<1> QED BY <1>1, <1>2, PTL DEF Spec

\* run_market_loop looks at the exits of every position the cycle found: what
\* is unseen is still to come, so that nothing is unseen when nothing is.
THEOREM HeldAlwaysVisited == Spec => []HeldAreVisited
<1>1. IInv => HeldAreVisited
  BY DEF IInv, MarketsInv, VisitInv, HeldAreVisited
<1> QED BY <1>1, CycleInvariant, PTL

\* momentum_entry_slot_available: after a breakout or a listing the cycle orders
\* no early breakout and no listing.
THEOREM SlotAlwaysTaken == Spec => []SlotIsTaken
<1>1. IInv => SlotIsTaken
  BY DEF IInv, TurnInv, SlotInv
<1> QED BY <1>1, CycleInvariant, PTL

\* has_recovery_entry_since: one rebound BUY in a window.
THEOREM OneRecoveryAlways == Spec => []OneRecovery
<1>1. IInv => OneRecovery
  BY DEF IInv, TurnInv, RecoveryInv, OneRecovery
<1> QED BY <1>1, CycleInvariant, PTL

\* When a cycle starts with no order of the last one, process_buy_execution
\* buys nothing that the bot has or is buying.
THEOREM OnePositionAlways == ASSUME ~OrdersCross PROVE Spec => []OnePosition
<1>1. IInv => OnePosition
  BY DEF IInv, MarketsInv, PositionInv
<1> QED BY <1>1, CycleInvariant, PTL

\* In RISK_OFF every decision to buy has a signal of the market's own.
THEOREM AlwaysOwnSignal == Spec => OwnSignalInRiskOff
<1>1. IInv /\ [Next]_vars =>
        [cyc.pc = "decide" /\ cyc'.pc = "buy" /\ d.regime = "RISK_OFF"
           => d.allow /\ (d.kind = "MOMENTUM_BREAKOUT" => d.use = "sweep")]_vars
  <2> SUFFICES ASSUME IInv, Next, cyc.pc = "decide", cyc'.pc = "buy", d.regime = "RISK_OFF"
               PROVE  d.allow /\ (d.kind = "MOMENTUM_BREAKOUT" => d.use = "sweep")
    BY DEF vars
  <2>1. Decide
    <3>1. ~Around
      BY DEF Around, WindowEnds, ShockEnds, Executes, Closes
    <3>2. CycleTypes /\ InTurn
      BY DEF IInv, MarketsInv, InTurn, Deciding
    <3>3. ~TurnEnds
      BY <3>2, FailedTurns DEF Ends
    <3> QED BY <3>1, <3>3 DEF Next, Cycle, Prefix, BeginLoop, StartMarket, Exits, Gate, Signals, Ask,
                              Size, Submit, Suffix, CycleFails
  <2>2. CycleTypes /\ TurnKnown /\ SignalInv
    BY DEF IInv, MarketsInv, TurnInv
  <2>3. d.allow
    BY <2>1, <2>2, DecideTurns DEF Ends
  <2>4. d.kind = "MOMENTUM_BREAKOUT" => d.use = "sweep"
    BY <2>2, <2>3 DEF SignalInv
  <2> QED BY <2>3, <2>4
<1> QED BY <1>1, CycleInvariant, PTL DEF Spec, OwnSignalInRiskOff

\* classify_market_regime: whoever pauses for a shock does not work in NORMAL.
THEOREM ShockAlwaysDefensive == Spec => ShockIsDefensive
<1>1. IInv /\ [Next]_vars => [~shock /\ shock' => cyc'.regime # "NORMAL"]_vars
  <2> SUFFICES ASSUME IInv, Next, ~shock, shock' PROVE cyc'.regime # "NORMAL"
    BY DEF vars
  <2>1. Prefix
    BY DEF Next, Around, Cycle, WindowEnds, ShockEnds, Executes, Closes, BeginLoop, StartMarket,
           Exits, Gate, Signals, Ask, Decide, Size, TurnEnds, Submit, Suffix, CycleFails, Quiet
  <2> QED BY <2>1, PrefixBegins DEF IInv, MarketsInv
<1> QED BY <1>1, CycleInvariant, PTL DEF Spec, ShockIsDefensive

=============================================================================
