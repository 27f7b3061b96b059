------------------------------ MODULE Settings ------------------------------
(***************************************************************************)
(* The common settings of the service: what .env holds, what the dashboard *)
(* holds, and what the bot trades with, while the processes of Supervision *)
(* come and go. The slots of the positions stand for all settings that a   *)
(* bot reads from .env when it is started and is told of afterwards        *)
(* (runtime_config.py, dashboard_server.py, bot_controller.py). What the   *)
(* trading cycle reads from .env again is left out.                        *)
(***************************************************************************)
EXTENDS Supervision

CONSTANTS
  SlotChoices,  \* the numbers of slots an operator may choose for a key
  SaveMayFail   \* .env may refuse to be written

Slots == {"scalp", "swing", "listing"}
Keys  == Slots \cup {"open"}
Unset == -1
None  == [k \in Keys |-> Unset]

ASSUME SettingsAssumption ==
  /\ SlotChoices \in [Slots -> SUBSET Nat] /\ SaveMayFail \in BOOLEAN
  /\ \A k \in Slots : SlotChoices[k] # {}
  /\ 0 \notin SlotChoices["scalp"]

VARIABLES
  env,     \* .env
  dash,    \* os.environ of the dashboard
  limits,  \* of each bot: its RiskGuard, None until it has read .env
  save     \* the save under way, and what the last one told of the bot

svars == <<env, dash, limits, save>>
allvars == <<vars, svars>>

AtLeastOne(n) == IF n < 1 THEN 1 ELSE n
Least(a, b) == IF a < b THEN a ELSE b
Positive(n) == IF n < 0 THEN 0 ELSE n

(* RiskGuard.max_scalp_positions: what the other slots leave of the sum.   *)
Left(open, swing, listing) == Positive(open - (swing + listing))

(* The scalp slots of a file may never have been written.                  *)
ScalpOf(e) == IF e.scalp = Unset THEN Left(e.open, e.swing, e.listing) ELSE e.scalp

(* The bounds of the schema. *)
Valid(new) == new.scalp \in 0..10 /\ new.swing \in 0..5 /\ new.listing \in 0..5

(* update_settings: what was entered, the rest as the process has it, and  *)
(* the sum.                                                                *)
\* Mutant: the sum that was shown is saved, not that of the new slots.
NormalizedNot(new, old) == [new EXCEPT !.open = old.open]

Normalized(new, old) ==
  [new EXCEPT !.open = AtLeastOne(new.scalp + new.swing + new.listing)]

(* main.py: the limits of a bot that starts with this file. Its scalp      *)
(* slots are what the others leave.                                        *)
AtStart(e) ==
  LET swing   == Least(e.open, e.swing)
      listing == Least(e.open, e.listing)
  IN  [open |-> e.open, swing |-> swing, listing |-> listing,
       scalp |-> Left(e.open, swing, listing)]

(* RiskGuard.update_limits: with scalp slots the sum is made of the slots, *)
(* whatever sum was sent.                                                  *)
\* Mutant: the sum is made before the other slots are set.
UpdatedEarly(g, new) ==
  [new EXCEPT !.open = new.scalp + g.swing + g.listing]

Updated(g, new) == [new EXCEPT !.open = new.scalp + new.swing + new.listing]

-----------------------------------------------------------------------------
(* A bot that answers at /api/config; the server is started in the boot    *)
(* and closed by a shutdown.                                               *)
MayAnswer(b)  == proc[b] \in {"boot", "up", "hung"}
MustAnswer(b) == proc[b] = "up"

LoadEnv(b) ==
  /\ proc[b] = "loading" /\ limits[b] = None
  /\ limits' = [limits EXCEPT ![b] = AtStart(env)]
  /\ UNCHANGED <<vars, env, dash, save>>

(* get_common_config: the slots of a bot that answers, else the            *)
(* dashboard's own.                                                        *)
OwnSlots == [k \in Slots |-> IF k = "scalp" THEN ScalpOf(dash) ELSE dash[k]]
BotSlots(b) == [k \in Slots |-> limits[b][k]]
Shown == {BotSlots(b) : b \in {c \in Bots : MayAnswer(c)}}
         \cup (IF \E b \in Bots : MustAnswer(b) THEN {} ELSE {OwnSlots})

(* The page has the sum as it was until it is saved.                       *)
Entered(page, k, n) == [i \in Keys |-> CASE i = k      -> n
                                         [] i = "open" -> dash.open
                                         [] OTHER      -> page[i]]

(* .env is replaced at once, or cannot be written at all.                  *)
Written(new) ==
  \/ /\ env' = new
     /\ save' = [save EXCEPT !.step = "saved"]
  \/ /\ SaveMayFail
     /\ UNCHANGED <<env, save>>

(* The page is saved with one slot changed. The dashboard takes it over    *)
(* before .env is written, and keeps it when that fails.                   *)
Enter ==
  /\ save.step = "idle"
  /\ \E page \in Shown, k \in Slots : \E n \in SlotChoices[k] :
       /\ Valid(Entered(page, k, n))
       /\ dash' = Normalized(Entered(page, k, n), dash)
       /\ Written(Normalized(Entered(page, k, n), dash))
  /\ UNCHANGED <<vars, limits>>

HotReload(b) == limits' = [limits EXCEPT ![b] = Updated(limits[b], dash)]
Told(what) == save' = [step |-> "idle", told |-> what]

(* POST to the bot: it takes the values and the answer comes; it takes     *)
(* them and the answer is late; or it is not reached. The reply to the     *)
(* page names the outcome.                                                 *)
Post ==
  /\ save.step = "saved"
  /\ \/ /\ \E b \in Bots : MayAnswer(b) /\ HotReload(b)
        /\ Told("applied") \/ Told("failed")
     \/ UNCHANGED limits /\ Told("failed")
  /\ UNCHANGED <<vars, env, dash>>

DashboardRestarts ==
  /\ dash' = env
  /\ save' = IF save.step = "idle" THEN save ELSE [step |-> "idle", told |-> "failed"]
  /\ UNCHANGED <<vars, env, limits>>

(* A step of the processes: who is gone has no limits, and no bot is past  *)
(* its loading before it has read .env.                                    *)
Process ==
  /\ Next
  /\ \A b \in Pid : proc'[b] \in Trading \ {"loading"} => limits[b] # None
  /\ limits' = [b \in Pid |-> IF proc'[b] \in Trading THEN limits[b] ELSE None]
  /\ UNCHANGED <<env, dash, save>>

-----------------------------------------------------------------------------
SettingsInit ==
  /\ Init
  /\ env = [scalp |-> Unset, swing |-> 1, listing |-> 1, open |-> 3]
  /\ dash = env
  /\ limits = [b \in Pid |-> None]
  /\ save = [step |-> "idle", told |-> "nothing"]

SettingsNext ==
  \/ Process
  \/ \E b \in Pid : LoadEnv(b)
  \/ Enter \/ Post \/ DashboardRestarts

(* The processes' own fairness; a bot that is loading reads .env.          *)
SettingsSpec ==
  /\ SettingsInit /\ [][SettingsNext]_allvars
  /\ Fairness
  /\ WF_allvars(\E b \in Pid : LoadEnv(b))

(* A bot that trades with other limits than a start would give it is one   *)
(* the reply to the last save named as failed, or that save has not been   *)
(* answered yet (dashboard_server.py:1126).                                *)
StaleIsReported ==
  \A b \in Bots : limits[b] \notin {None, AtStart(env)} =>
    save.step = "saved" \/ save.told = "failed"
=============================================================================
