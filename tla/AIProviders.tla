----------------------------- MODULE AIProviders -----------------------------
(***************************************************************************)
(* The AI behind the entries of one exchange (ai_provider.py, the callers  *)
(* in gemini_analyzer.py and run_market_loop's budget): the models of a    *)
(* list are tried in order by the cycle and by a second thread (market     *)
(* diagnosis, briefing), under a daily quota counted per model, a cooldown *)
(* per model, and a latch that closes the entries while the last entry     *)
(* analysis has failed. Time is in ticks, one for a short cooldown; the    *)
(* provider counts from one midnight of its own to the next.               *)
(***************************************************************************)
EXTENDS Integers, FiniteSets, FiniteSetsExt, Sequences, SequencesExt, Folds

CONSTANTS Exchanges,    \* a subset of {"upbit", "bithumb"}
          Order,        \* the models, best first
          Limit,        \* the provider's quota of a model
          Normal,       \* 95 % of it
          Emergency,    \* 98 % of it
          Day,          \* ticks
          MaxAI         \* MAX_AI_CANDIDATES_PER_CYCLE

Place == 1..Len(Order)
Model == {Order[i] : i \in Place}

ASSUME ProviderAssumption ==
  /\ Exchanges \subseteq {"upbit", "bithumb"}
  /\ Day \in Nat \ {0, 1} /\ MaxAI \in 1..4
  /\ {Limit, Normal, Emergency} \subseteq Nat
  /\ 0 < Normal /\ Normal < Emergency /\ Emergency <= Limit
  /\ Order \in Seq(Model) /\ \A i, j \in Place : Order[i] = Order[j] => i = j

VARIABLES
  exchange,
  toNight,     \* ticks to the provider's midnight
  sent,        \* requests the provider counts today, per model
  calls,       \* requests the telemetry has recorded
  yesterday,   \* calls are those of the day before (Bithumb)
  cool,        \* the cooldown of a model
  found,       \* the model discovery of this process had an answer
  latch,       \* entry_safety: new entries are closed
  cyc,         \* the cycle
  job          \* the request each thread has under way, at the first place of
               \* those it has left

vars == <<exchange, toNight, sent, calls, yesterday, cool, found, latch, cyc, job>>

Worker  == {"cycle", "side"}
NoJob   == [ctx |-> "none", rest |-> {}, old |-> FALSE]
NoCycle == [pc |-> "idle", budget |-> 0, held |-> FALSE]
Zero    == [m \in Model |-> 0]

Upbit == exchange = "upbit"
Total == FoldFunctionOnSet(+, 0, calls, Model)
Whole == Limit * Len(Order)

-----------------------------------------------------------------------------
(* can_call_model_safety: the local quota comes first; it sets a cooldown  *)
(* of its own when used up, and takes it back when there is room.          *)

Urgent(ctx) == ctx \in {"holding", "briefing"}

Room(m, urgent) == calls[m] < (IF urgent THEN Emergency ELSE Normal)

Checked(m, urgent) ==
  CASE ~Room(m, urgent)                     -> "quota"
    [] Room(m, urgent) /\ cool[m] = "quota" -> "none"
    [] OTHER                                -> cool[m]

CanCall(m, urgent) == Room(m, urgent) /\ cool[m] \in {"none", "quota"}

\* models_for, or get_candidate_models when the discovery has failed
Listed(urgent) ==
  {i \in Place : IF found THEN CanCall(Order[i], urgent)
                 ELSE cool[Order[i]] = "none" /\ (Upbit => Room(Order[i], urgent))}

\* the first of a list that can be called, with what follows it
Callable(list, urgent) ==
  LET ok == {i \in list : CanCall(Order[i], urgent)}
  IN {i \in list : ok # {} /\ Min(ok) <= i}

\* set_model_cooldown: only the local quota's cooldown resists a shorter one
Cooled(m, new) == IF cool[m] = "quota" THEN cool ELSE [cool EXCEPT ![m] = new]

-----------------------------------------------------------------------------
(* The latch and the telemetry.                                            *)

\* Mutant: an evaluation of a holding closes the entries and no other opens them.
EntryClosesOnly(ctx, ok) == latch \/ (ctx \in {"entry", "holding"} /\ ~ok)

\* record_entry_safety: the diagnosis, the briefing and the ranking do not count
EntrySafety(ctx, ok) == IF ctx \in {"entry", "holding"} THEN ~ok ELSE latch

Today == IF yesterday THEN Zero ELSE calls

\* Mutant: only answers are counted.
CountedAnswers(m, outcome) ==
  IF outcome = "ok" THEN [Today EXCEPT ![m] = @ + 1] ELSE Today

\* record, record_http_attempt: every request counts; Bithumb's telemetry
\* empties yesterday's counters first
Counted(m, outcome) == [Today EXCEPT ![m] = @ + 1]

\* Mutant: looking at the counters leaves them as they are.
SnapshotAsIs == UNCHANGED <<calls, yesterday>>

\* snapshot, by get_daily_quota_budget
Snapshot == calls' = Today /\ yesterday' = FALSE

\* the calls get_daily_quota_budget and get_pacing_budget go by: Bithumb's look
\* for them under a name the snapshot does not have, and find none
Seen == IF Upbit THEN Total ELSE 0

\* candidates a cycle for what is left of the day, in tenths
Pace(used) ==
  LET left  == Max({0, (Whole * 95) \div 100 - used})
      ideal == (left * 10) \div toNight
  IN CASE ideal >= 25 -> 4 [] ideal \in 18..24 -> 3 [] ideal \in 10..17 -> 2
       [] ideal \in 4..9 -> 1 [] OTHER -> 0

Budget(used) ==
  CASE used >= (Whole * 90) \div 100 -> 0
    [] used \in ((Whole * 70) \div 100)..((Whole * 90) \div 100 - 1) -> 1
    [] OTHER -> Min({MaxAI, Pace(used)})

-----------------------------------------------------------------------------
(* One request after the other: complete_json, complete_text.              *)

Idle(w)  == job[w] = NoJob
Asked(w) == Order[Min(job[w].rest)]

\* The next request of thread w, after the cooldowns c, or its failed end.
Proceed(w, ctx, list, c) ==
  LET rest   == Callable(list, Urgent(ctx))
      listed == {Order[i] : i \in list}
  IN /\ cool' = [m \in Model |-> IF m \in listed /\ c[m] = cool[m]
                                 THEN Checked(m, Urgent(ctx)) ELSE c[m]]
     /\ IF rest = {}
        THEN job' = [job EXCEPT ![w] = NoJob] /\ latch' = EntrySafety(ctx, FALSE) /\ UNCHANGED sent
        ELSE /\ job' = [job EXCEPT ![w] = [ctx |-> ctx, rest |-> rest, old |-> FALSE]]
             /\ sent' = [sent EXCEPT ![Order[Min(rest)]] = @ + 1]
             /\ UNCHANGED latch

\* bad: no JSON or not the schema; short: server error or timeout; slow: a 429
\* without a word of the day's quota; daily: a 429 with one
Outcomes == {"ok", "bad", "short", "slow", "daily"}

\* the local check counts as such a word: it also refuses a model that
\* another thread's answer has just cooled
Wait(m, outcome, urgent) ==
  CASE outcome = "slow" -> IF CanCall(m, urgent) THEN "short" ELSE "daily"
    [] OTHER            -> outcome

Answer(w) ==
  LET j == job[w]
      m == Asked(w)
  IN
  /\ ~Idle(w)
  /\ \E outcome \in Outcomes :
       /\ calls' = Counted(m, outcome) /\ yesterday' = FALSE
       /\ IF outcome = "ok"
          THEN /\ job' = [job EXCEPT ![w] = NoJob] /\ latch' = EntrySafety(j.ctx, TRUE)
               /\ UNCHANGED <<sent, cool>>
          ELSE Proceed(w, j.ctx, j.rest \ {Min(j.rest)},
                       IF outcome = "bad" THEN cool
                       ELSE Cooled(m, Wait(m, outcome, Urgent(j.ctx))))
  /\ UNCHANGED <<exchange, toNight, found, cyc>>

AnswersWell == job["cycle"].ctx = "entry" /\ Answer("cycle") /\ job'["cycle"] = NoJob /\ ~latch'

-----------------------------------------------------------------------------
(* The cycle and the second thread.                                        *)

Inside == UNCHANGED <<exchange, toNight, found>>

\* run_cycle_prefix may rank the candidates
StartCycle ==
  /\ cyc.pc = "idle" /\ Idle("cycle")
  /\ cyc' = [NoCycle EXCEPT !.pc = "prefix"]
  /\ \/ UNCHANGED <<cool, job, latch, sent>>
     \/ Listed(FALSE) # {} /\ Proceed("cycle", "rank", Listed(FALSE), cool)
  /\ UNCHANGED <<calls, yesterday>>
  /\ Inside

\* run_market_loop; closed entries (pause, crash, cash) need no analysis
BeginLoop ==
  /\ cyc.pc = "prefix" /\ Idle("cycle")
  /\ Snapshot
  /\ \E b \in {0, Budget(Seen)} :
       cyc' = [cyc EXCEPT !.pc = "loop", !.budget = b]
  /\ UNCHANGED <<sent, cool, latch, job>>
  /\ Inside

\* evaluate_holding_position; its answers are kept for several cycles
Holding ==
  /\ cyc.pc = "loop" /\ Idle("cycle") /\ ~cyc.held
  /\ cyc' = [cyc EXCEPT !.held = TRUE]
  /\ Upbit => Total < (Whole * 98) \div 100
  /\ Listed(TRUE) # {}
  /\ Proceed("cycle", "holding", Listed(TRUE), cool)
  /\ UNCHANGED <<calls, yesterday>>
  /\ Inside

HasBudget == cyc.budget > 0

\* process_entry_gating, for a candidate or, while latched, for any market
Entry ==
  /\ cyc.pc = "loop" /\ Idle("cycle") /\ HasBudget
  /\ cyc' = [cyc EXCEPT !.budget = @ - 1]
  /\ IF Upbit /\ Total >= (Whole * 95) \div 100 THEN UNCHANGED <<job, cool, latch, sent>>
     ELSE Proceed("cycle", "entry", Listed(FALSE), cool)
  /\ UNCHANGED <<calls, yesterday>>
  /\ Inside

Asks == Entry /\ job'["cycle"] # NoJob

MayAsk == cyc.pc = "loop" /\ Idle("cycle") /\ HasBudget
          /\ Callable(Listed(FALSE), FALSE) # {}

EndCycle ==
  /\ cyc.pc = "loop" /\ Idle("cycle")
  /\ cyc' = NoCycle
  /\ UNCHANGED <<sent, calls, yesterday, cool, latch, job>>
  /\ Inside

\* the second thread
Side ==
  /\ Idle("side")
  /\ \E ctx \in {"macro", "briefing"} : Proceed("side", ctx, Place, cool)
  /\ UNCHANGED <<calls, yesterday, cyc>>
  /\ Inside

-----------------------------------------------------------------------------
(* Time and a restart.                                                     *)

Reopened == [m \in Model |-> IF cool[m] \in {"quota", "daily"} THEN "none" ELSE cool[m]]

\* a short cooldown and a request last less than a tick
Tick ==
  /\ \A w \in Worker : Idle(w)
  /\ toNight > 1
  /\ toNight' = toNight - 1
  /\ cool' = [m \in Model |-> IF cool[m] = "short" THEN "none" ELSE cool[m]]
  /\ UNCHANGED <<exchange, sent, calls, yesterday, found, latch, cyc, job>>

\* what is under way is counted by the provider before, by the telemetry after
Midnight ==
  /\ toNight = 1 /\ \A w \in Worker : ~job[w].old
  /\ toNight' = Day /\ cool' = Reopened /\ sent' = Zero
  /\ calls' = IF Upbit THEN Zero ELSE calls
  /\ yesterday' = (~Upbit /\ calls # Zero)
  /\ job' = [w \in Worker |-> IF Idle(w) THEN NoJob ELSE [job[w] EXCEPT !.old = TRUE]]
  /\ UNCHANGED <<exchange, found, latch, cyc>>

Lost(m) == Cardinality({w \in Worker : ~Idle(w) /\ ~job[w].old /\ Asked(w) = m})

\* The counters and the latch are in files, the cooldowns are not. A request
\* under way is known to nobody, and taken off the provider's count. A failed
\* discovery closes the entries and is not repeated.
Restart ==
  /\ cool' = [m \in Model |-> "none"]
  /\ found' \in BOOLEAN /\ latch' = (latch \/ ~found')
  /\ sent' = [m \in Model |-> sent[m] - Lost(m)]
  /\ Snapshot
  /\ cyc' = NoCycle /\ job' = [w \in Worker |-> NoJob]
  /\ UNCHANGED <<exchange, toNight>>

-----------------------------------------------------------------------------
Init == /\ exchange \in Exchanges /\ toNight = Day
        /\ sent = Zero /\ calls = Zero /\ yesterday = FALSE
        /\ cool = [m \in Model |-> "none"]
        /\ found \in BOOLEAN /\ latch = ~found
        /\ cyc = NoCycle /\ job = [w \in Worker |-> NoJob]

CycleRuns == StartCycle \/ BeginLoop \/ Holding \/ Entry \/ EndCycle \/ Answer("cycle")

Next == CycleRuns \/ Side \/ Answer("side") \/ Tick \/ Midnight \/ Restart

Spec == Init /\ [][Next]_vars

\* The scheduler's loop goes on, a request ends by its own timeout, and time
\* passes; a cycle that may ask has a candidate now and then, and the provider
\* answers some of what it is asked for entries.
FairSpec == /\ Spec
            /\ WF_vars(CycleRuns) /\ WF_vars(Answer("side")) /\ SF_vars(Tick \/ Midnight)
            /\ SF_vars(Asks) /\ SF_vars(AnswersWell)

-----------------------------------------------------------------------------
Cools == {"none", "quota", "daily", "short"}

\* Every variable has its type; a cycle's analyses never go below zero.
TypeOK ==
  /\ exchange \in Exchanges /\ toNight \in 1..Day
  /\ calls \in [Model -> Nat] /\ sent \in [Model -> Nat]
  /\ cool \in [Model -> Cools]
  /\ {found, latch, yesterday} \subseteq BOOLEAN
  /\ cyc \in [pc : {"idle", "prefix", "loop"}, budget : 0..MaxAI, held : BOOLEAN]
  /\ \A w \in Worker : job[w].rest \subseteq Place /\ (job[w].rest = {} <=> Idle(w))

\* The provider is never sent more than its quota of a day: not by two threads
\* that check before either is counted, not after its midnight with yesterday's
\* counters, not by a restarted process (can_call_model_safety).
QuotaKept == \A m \in Model : sent[m] <= Limit

\* However a model was closed, it is asked or can be asked again and again:
\* neither yesterday's counters, left by a process that asks for nothing now,
\* nor the cooldown they set (of two threads that wrote one over the other)
\* keeps it closed for good.
NewDayReopens ==
  \A m \in Model : []<>(CanCall(m, FALSE) \/ \E w \in Worker : ~Idle(w) /\ Asked(w) = m)

\* The entries do not stay closed while cycles go on finding a model they may
\* ask, and the provider answers some of what they ask: whatever had closed the
\* latch (a failed discovery, an entry, a holding, a process before this one)
\* and whatever the diagnosis and the briefing do meanwhile.
LatchReopens == []<>MayAsk => []<>~latch

-----------------------------------------------------------------------------
(* What the repository says and the code does not do. *)

\* ai_provider.py:955: a model in cooldown is not called. What the provider has
\* refused for the day is open again before midnight when another thread's
\* timeout, or the local quota's own cooldown, has replaced the refusal.
RefusedStaysClosed ==
  [][\A m \in Model : cool[m] = "daily" => cool'[m] = "daily" \/ toNight' > toNight \/ Restart]_vars

\* trading_runtime.py:2902: from 90 % of the quota on, a cycle asks for no entry.
CriticalAsksNobody ==
  [][(cyc.pc = "prefix" /\ cyc'.pc = "loop" /\ Total >= (Whole * 90) \div 100)
       => cyc'.budget = 0]_vars
=============================================================================
