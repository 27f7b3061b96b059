-------------------------- MODULE TrailingTracker --------------------------
(***************************************************************************)
(* TrailingStopTracker of risk_manager.py: what the bot remembers of one   *)
(* position, and what a price makes of it. Prices are levels of distance   *)
(* to the average buy price, which is level 0. A record of the tracker is  *)
(* kept in memory and written to position_state.json; the AI's stop is     *)
(* kept in memory only, by the module that uses this one.                  *)
(***************************************************************************)
EXTENDS Integers, FiniteSetsExt

CONSTANTS Mode,           \* strategy modes of a position
          NoMode, AdoptedMode,
          Hard, Stop,     \* levels of the hard stop and of the stop, below 0
          Top,            \* the highest level
          BreakevenLine,  \* the stop of a position that is held to breakeven
          AutoBreakeven,  \* a peak that holds the position to breakeven
          Tp1, Tp2,       \* levels of the two partial sales
          Start, Defence, \* where trailing starts: normally, in a BTC crash
          Drop, Gap,      \* distance of the trailing stop to the peak
          Buffer,         \* the least profit a trailing stop keeps
          MaxAge          \* 0 new, 1 past the time stop, 2 past the longest hold

ASSUME LevelsAssumption ==
  /\ {Hard, Stop, Top, BreakevenLine, AutoBreakeven} \subseteq Int
  /\ {Tp1, Tp2, Start, Defence, Drop, Gap, Buffer} \subseteq Int
  /\ Hard <= Stop /\ Stop < 0 /\ 0 <= BreakevenLine /\ BreakevenLine < AutoBreakeven
  /\ AutoBreakeven <= Top /\ BreakevenLine < Tp1 /\ Tp1 < Tp2 /\ 0 <= Gap /\ MaxAge \in Nat
  /\ NoMode \notin Mode /\ AdoptedMode \in Mode

Level == Hard..Top

Tracker == [peak : 0..Top, stage : 0..2, be : BOOLEAN,
            age : -1..MaxAge, mode : Mode \cup {NoMode}]

NoPosition == [peak |-> 0, stage |-> 0, be |-> FALSE, age |-> -1, mode |-> NoMode]

(* The peak and the breakeven flag after a price, saved at once. *)
Raised(t, p) ==
  LET peak == Max({t.peak, p})
  IN  [t EXCEPT !.peak = peak, !.be = @ \/ peak >= AutoBreakeven]

BreakevenActive(t) == t.stage >= 1 \/ t.be \/ t.peak >= AutoBreakeven

Held(t) == IF BreakevenActive(t) /\ t.stage < 1 THEN [t EXCEPT !.be = TRUE] ELSE t

TrailStart(defensive) == IF defensive THEN Defence ELSE Start

TrailStop(peak) ==
  LET stop == Max({peak - Drop, Buffer})
  IN  IF peak - Gap > Buffer THEN Min({stop, peak - Gap}) ELSE stop

Trails(t, p, defensive) ==
  /\ \/ Max({t.peak, p}) >= TrailStart(defensive)
     \/ t.stage >= 1
  /\ p <= TrailStop(Max({t.peak, p}))

(* What check_position answers: a stage to sell (3 is the whole position), *)
(* or 0. A stage is done only when its sale is confirmed.                  *)
Signal(t, p, defensive) ==
  IF p >= Tp1 /\ t.stage < 1 THEN 1
  ELSE IF p >= Tp2 /\ t.stage < 2 THEN 2
  ELSE IF Trails(t, p, defensive) THEN 3 ELSE 0

Entered(t, mode) == [t EXCEPT !.age = 0, !.mode = mode]
Timed(t)         == IF t.age < 0 THEN [t EXCEPT !.age = 0] ELSE t
Marked(t, stage) == [t EXCEPT !.stage = Max({@, stage})]
Protected(t)     == [t EXCEPT !.be = TRUE]
Older(t)         == IF t.age \in 0..(MaxAge - 1) THEN [t EXCEPT !.age = @ + 1] ELSE t

(* reconcile_markets reads the file again; then it drops what belongs to a *)
(* market that is not held (all but the breakeven flag and the mode) or    *)
(* adopts a held position the journal says the bot has bought.             *)
Reconciled(saved, isHeld, isManaged) ==
  IF ~isHeld
  THEN [saved EXCEPT !.peak = 0, !.stage = 0, !.age = -1]
  ELSE IF isManaged /\ (saved.age < 0 \/ saved.mode = NoMode)
       THEN [saved EXCEPT !.age = 0, !.mode = IF @ = NoMode THEN AdoptedMode ELSE @]
       ELSE saved
============================================================================
