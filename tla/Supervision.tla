---------------------------- MODULE Supervision ----------------------------
(***************************************************************************)
(* The processes of one exchange: the watchdog (trading_watchdog.py) that  *)
(* starts the bot again when it dies or its heartbeat goes stale, the bot  *)
(* (trading_bot_bootstrap.py), and the operators' start and stop           *)
(* (process_manager.py), which know of each other only by what the pid     *)
(* file, the lock's owner file and the heartbeat name. A file that names   *)
(* nobody is 0. Process numbers are not used again while a file or an      *)
(* operator holds them.                                                    *)
(***************************************************************************)
EXTENDS Integers, FiniteSets, FiniteSetsExt, Functions

CONSTANTS N,          \* process numbers are 1..N
          Operators,  \* who runs start and stop, at most one command each
          Signals,    \* SIGTERM may reach the bot from elsewhere
          EarlyKill   \* a watchdog may be lost before its bot's first heartbeat

ASSUME ProcessAssumption ==
  /\ N \in Nat \ {0} /\ Operators # {} /\ IsFiniteSet(Operators)
  /\ Signals \in BOOLEAN /\ EarlyKill \in BOOLEAN

Pid == 1..N
Cmd == {"check", "clean", "spawn", "write", "kill", "pids", "sweep", "again", "files", "stopped"}

VARIABLES
  proc,     \* what a process is doing, "dead" when there is none
  parent,   \* who started it, while that one lives
  pidFile,  \* .watchdog.pid.json
  owner,    \* .watchdog.lock.owner.json
  lock,     \* who holds the .watchdog.lock now at its path, or 0
  beat,     \* .heartbeat: its writer and whether it is recent
  op        \* the command of each operator

vars == <<proc, parent, pidFile, owner, lock, beat, op>>
files == <<pidFile, owner, lock, beat>>

Early    == {"launched", "named", "checked", "locked"}
Loop     == {"free", "spawning", "forked", "watching", "killing"}
Watching == Early \cup Loop
Booting  == {"loading", "boot"}
Beating  == {"up", "deaf"}
Trading  == Booting \cup Beating \cup {"hung"}

Alive(p) == p # 0 /\ proc[p] # "dead"
Alives   == {p \in Pid : Alive(p)}
Bots     == {p \in Pid : proc[p] \in Trading}
Watchers == {p \in Pid : proc[p] \in Watching}
Children(w) == {b \in Alives : parent[b] = w}

NoBeat == [pid |-> 0, fresh |-> FALSE]
Idle   == [step |-> "idle", pids |-> {}]

(* A number nobody holds; the system hands them out upwards.               *)
Fresh == {p \in Pid : /\ ~Alive(p)
                      /\ p \notin {pidFile, owner, lock, beat.pid}
                      /\ \A o \in Operators : p \notin op[o].pids}
NewPid == Min(Fresh)

(* Processes end: their locks go and what they started has no parent.      *)
Kill(S) ==
  /\ proc' = [p \in Pid |-> IF p \in S THEN "dead" ELSE proc[p]]
  /\ parent' = [p \in Pid |-> IF p \in S \/ parent[p] \in S THEN 0 ELSE parent[p]]

LockWithout(S) == IF lock \in S THEN 0 ELSE lock
Start(p, what, by) ==
  /\ proc' = [proc EXCEPT ![p] = what]
  /\ parent' = [parent EXCEPT ![p] = by]

Goes(p, from, to) ==
  /\ proc[p] = from
  /\ proc' = [proc EXCEPT ![p] = to]

-----------------------------------------------------------------------------
(* The watchdog names itself in the pid file before it knows whether it    *)
(* may run; the owner file and the lock decide.                            *)

NameSelf(w) ==
  /\ Goes(w, "launched", "named")
  /\ pidFile' = w
  /\ UNCHANGED <<parent, owner, lock, beat, op>>

Leaves(w) == Kill({w}) /\ lock' = LockWithout({w})

CheckOwner(w) ==
  /\ proc[w] = "named"
  /\ IF Alive(owner) /\ owner # w
     THEN Leaves(w)
     ELSE Goes(w, "named", "checked") /\ UNCHANGED <<parent, lock>>
  /\ UNCHANGED <<pidFile, owner, beat, op>>

TakeLock(w) ==
  /\ proc[w] = "checked"
  /\ IF lock \in Pid
     THEN /\ Kill({w})
          /\ lock' = IF owner # 0 /\ ~Alive(owner) THEN 0 ELSE lock
     ELSE /\ Goes(w, "checked", "locked")
          /\ lock' = w
          /\ UNCHANGED parent
  /\ UNCHANGED <<pidFile, owner, beat, op>>

Own(w) ==
  /\ Goes(w, "locked", "free")
  /\ owner' = w
  /\ UNCHANGED <<parent, pidFile, lock, beat, op>>

(* One turn of its loop: the heartbeat is removed, the bot started and     *)
(* only then known to the signal handler.                                  *)
Spawn(w) ==
  /\ Goes(w, "free", "spawning")
  /\ beat' = NoBeat
  /\ UNCHANGED <<parent, pidFile, owner, lock, op>>

Fork(w) ==
  /\ proc[w] = "spawning"
  /\ Fresh # {}
  /\ proc' = [proc EXCEPT ![w] = "forked", ![NewPid] = "loading"]
  /\ parent' = [parent EXCEPT ![NewPid] = w]
  /\ UNCHANGED <<files, op>>

ForkFails(w) ==
  /\ Goes(w, "spawning", "free")
  /\ UNCHANGED <<parent, files, op>>

Assign(w) ==
  /\ Goes(w, "forked", "watching")
  /\ UNCHANGED <<parent, files, op>>

\* Mutant: a heartbeat that is there is healthy, however old.
UnhealthyIfMissing == beat.pid = 0

Unhealthy == ~beat.fresh

(* After the grace period the heartbeat decides: terminate, wait, kill.    *)
Terminated(S) == [b \in Pid |->
  CASE b \in S /\ proc[b] \in Booting -> "dead"
    [] b \in S /\ proc[b] = "up"      -> "deaf"
    [] OTHER                          -> proc[b]]

Parents(after) == [p \in Pid |-> IF after[p] = "dead" THEN 0 ELSE parent[p]]

SeesHang(w) ==
  /\ proc[w] = "watching"
  /\ Children(w) # {} /\ Unhealthy
  /\ proc' = [Terminated(Children(w)) EXCEPT ![w] = "killing"]
  /\ parent' = Parents(Terminated(Children(w)))
  /\ UNCHANGED <<files, op>>

KillHung(w) ==
  /\ proc[w] = "killing"
  /\ proc' = [p \in Pid |-> CASE p \in Children(w) -> "dead"
                              [] p = w             -> "free"
                              [] OTHER             -> proc[p]]
  /\ parent' = [p \in Pid |-> IF parent[p] = w THEN 0 ELSE parent[p]]
  /\ UNCHANGED <<files, op>>

SeesExit(w) ==
  /\ Children(w) = {}
  /\ Goes(w, "watching", "free")
  /\ UNCHANGED <<parent, files, op>>

Monitor(w) == SeesHang(w) \/ KillHung(w) \/ SeesExit(w)

Known(w) == IF proc[w] \in {"watching", "killing"} THEN Children(w) ELSE {}

(* Unless EarlyKill, a watchdog is not lost before its bot's first         *)
(* heartbeat, nor within a launch by hand.                                 *)
MayLose(w) ==
  EarlyKill \/ /\ \A b \in Children(w) : proc[b] # "loading"
               /\ \A v \in Watchers \ {w} : proc[v] \in Loop

(* SIGTERM: the handler ends the bot it knows of, and the watchdog.        *)
EndWatchdog(w) ==
  /\ proc[w] \in Loop /\ MayLose(w)
  /\ Kill({w} \cup Known(w))
  /\ lock' = LockWithout({w})
  /\ UNCHANGED <<pidFile, owner, beat, op>>

LoseWatchdog(w) ==
  /\ proc[w] \in Watching /\ MayLose(w)
  /\ Leaves(w)
  /\ UNCHANGED <<pidFile, owner, beat, op>>

-----------------------------------------------------------------------------
(* The bot: a first heartbeat, then a boot in which it writes none, then   *)
(* one every fifteen seconds of the main loop.                             *)

Writes(b) == beat' = [pid |-> b, fresh |-> TRUE]

FirstBeat(b) ==
  /\ Goes(b, "loading", "boot")
  /\ Writes(b)
  /\ UNCHANGED <<parent, pidFile, owner, lock, op>>

Booted(b) ==
  /\ Goes(b, "boot", "up")
  /\ Writes(b)
  /\ UNCHANGED <<parent, pidFile, owner, lock, op>>

Beat(b) ==
  /\ proc[b] \in Beating
  /\ Writes(b)
  /\ UNCHANGED <<proc, parent, pidFile, owner, lock, op>>

Hang(b) ==
  /\ Goes(b, "up", "hung")
  /\ UNCHANGED <<parent, files, op>>

Crash(b) ==
  /\ proc[b] \in Trading
  /\ Kill({b})
  /\ UNCHANGED <<files, op>>

(* Time: a heartbeat that nobody renews becomes old.                       *)
Ages ==
  /\ beat.fresh
  /\ \A b \in Bots : proc[b] \notin Beating
  /\ beat' = [beat EXCEPT !.fresh = FALSE]
  /\ UNCHANGED <<proc, parent, pidFile, owner, lock, op>>

(* SIGTERM to the bot alone. In the main loop _handle_exit stops all its   *)
(* services, and the SystemExit it ends with is caught by the loop, which  *)
(* calls _handle_exit again, finds it has been called, and goes on.        *)
TermBot(b) ==
  /\ Signals
  /\ proc[b] \in Booting \cup {"up"}
  /\ proc' = Terminated({b})
  /\ parent' = Parents(Terminated({b}))
  /\ UNCHANGED <<files, op>>

-----------------------------------------------------------------------------
(* process_manager.py: find_bot_processes is what the three files name.    *)

\* Mutant: the heartbeat is not looked at.
FoundByFiles == {p \in {pidFile, owner} : Alive(p)}
\* Mutant: the lock's owner file is not looked at.
FoundUnowned == {p \in {pidFile, beat.pid} : Alive(p)}

Found == {p \in {pidFile, owner, beat.pid} : Alive(p)}

Step(o, from, to, pids) ==
  /\ op[o].step = from
  /\ op' = [op EXCEPT ![o] = [step |-> to, pids |-> pids]]

StartChecks(o) ==
  /\ Step(o, "idle", IF Found = {} THEN "clean" ELSE "idle", {})
  /\ UNCHANGED <<proc, parent, files>>

StartCleans(o) ==
  /\ Step(o, "clean", "spawn", {})
  /\ beat' = NoBeat /\ lock' = 0 /\ owner' = 0 /\ pidFile' = 0
  /\ UNCHANGED <<proc, parent>>

StartSpawns(o) ==
  /\ Fresh # {}
  /\ Step(o, "spawn", "write", {NewPid})
  /\ Start(NewPid, "launched", 0)
  /\ UNCHANGED files

StartFails(o) ==
  /\ Step(o, "spawn", "idle", {})
  /\ UNCHANGED <<proc, parent, files>>

StartWrites(o) ==
  /\ Step(o, "write", "idle", {})
  /\ pidFile' = Min(op[o].pids)
  /\ UNCHANGED <<proc, parent, owner, lock, beat>>

(* stop: what the files name, then all that run the scripts, listed twice  *)
(* (psutil, pgrep); the files go last.                                     *)
StopFinds(o) ==
  /\ Step(o, "idle", IF Found = {} THEN "sweep" ELSE "kill", Found)
  /\ UNCHANGED <<proc, parent, files>>

(* _kill_pid takes the children it saw; one just forked may be missed.     *)
StopKills(o) == \E p \in op[o].pids :
  /\ Step(o, "kill", IF op[o].pids = {p} THEN "pids" ELSE "kill", op[o].pids \ {p})
  /\ \E seen \in {Children(p), IF proc[p] = "forked" THEN {} ELSE Children(p)} :
       Kill({p} \cup seen)
  /\ lock' = LockWithout({p})
  /\ UNCHANGED <<pidFile, owner, beat>>

StopUnlinksPid(o) ==
  /\ Step(o, "pids", "sweep", {})
  /\ pidFile' = 0
  /\ UNCHANGED <<proc, parent, owner, lock, beat>>

\* Mutant: stop ends what the files name and looks no further.
ListedNone == {}

Listed == Alives

StopLists(o) ==
  /\ Step(o, "sweep", "again", Listed)
  /\ UNCHANGED <<proc, parent, files>>

(* The listed ones end; the second listing takes what they have started.   *)
StopSweeps(o) ==
  /\ Step(o, "again", "files", Listed \ op[o].pids)
  /\ Kill(op[o].pids)
  /\ lock' = LockWithout(op[o].pids)
  /\ UNCHANGED <<pidFile, owner, beat>>

StopCleans(o) ==
  /\ Step(o, "files", "stopped", {})
  /\ Kill(op[o].pids)
  /\ beat' = NoBeat /\ lock' = 0 /\ owner' = 0
  /\ UNCHANGED pidFile

StopEnds(o) ==
  /\ Step(o, "stopped", "idle", {})
  /\ UNCHANGED <<proc, parent, files>>

(* No command and no launch while a watchdog is still being launched.      *)
Settled == \A w \in Watchers : proc[w] \in Loop

Command(o) == Settled /\ (StartChecks(o) \/ StopFinds(o))

Proceeds(o) == \/ StartCleans(o) \/ StartSpawns(o) \/ StartFails(o)
              \/ StartWrites(o)
              \/ StopKills(o) \/ StopUnlinksPid(o) \/ StopLists(o)
              \/ StopSweeps(o) \/ StopCleans(o) \/ StopEnds(o)

(* watchdog.py run by hand beside a service that is up, never beside a     *)
(* command, nor beside a bot that has lost its watchdog.                   *)
LaunchByHand ==
  /\ \A o \in Operators : op[o].step = "idle"
  /\ Settled /\ Watchers # {}
  /\ \A b \in Bots : parent[b] # 0
  /\ Fresh # {}
  /\ Start(NewPid, "launched", 0)
  /\ UNCHANGED <<files, op>>

PowerLoss ==
  /\ Alives # {}
  /\ Kill(Pid)
  /\ lock' = LockWithout(Pid)
  /\ op' = [o \in Operators |-> Idle]
  /\ UNCHANGED <<pidFile, owner, beat>>
-----------------------------------------------------------------------------
Init ==
  /\ proc = [p \in Pid |-> "dead"]
  /\ parent = [p \in Pid |-> 0]
  /\ pidFile = 0 /\ owner = 0
  /\ lock = 0
  /\ beat = NoBeat
  /\ op = [o \in Operators |-> Idle]

WatchdogStep(w) ==
  \/ NameSelf(w) \/ CheckOwner(w) \/ TakeLock(w) \/ Own(w)
  \/ Spawn(w) \/ Fork(w) \/ ForkFails(w) \/ Assign(w) \/ Monitor(w)
  \/ EndWatchdog(w) \/ LoseWatchdog(w)

BotStep(b) == FirstBeat(b) \/ Booted(b) \/ Beat(b) \/ Hang(b) \/ Crash(b) \/ TermBot(b)

Next == \/ \E p \in Pid : WatchdogStep(p) \/ BotStep(p)
        \/ \E o \in Operators : Command(o) \/ Proceeds(o)
        \/ Ages \/ LaunchByHand \/ PowerLoss

Spec == Init /\ [][Next]_vars

Runs(w) == \/ NameSelf(w) \/ CheckOwner(w) \/ TakeLock(w) \/ Own(w)
           \/ Spawn(w) \/ Assign(w) \/ Monitor(w)

(* The watchdog and a command run on; starting a bot and its boot come     *)
(* through sooner or later although each may fail many times.              *)
Fairness ==
  /\ \A p \in Pid : WF_vars(Runs(p))
  /\ \A o \in Operators : WF_vars(Proceeds(o))
  /\ WF_vars(Ages)
  /\ SF_vars(\E w \in Pid : Fork(w))
  /\ SF_vars(\E b \in Pid : FirstBeat(b))
  /\ SF_vars(\E b \in Pid : Booted(b))

FairSpec == Spec /\ Fairness

-----------------------------------------------------------------------------
(* Each file names a process number or nobody.                             *)
TypeOK ==
  /\ proc \in [Pid -> {"dead"} \cup Watching \cup Trading]
  /\ parent \in [Pid -> Pid \cup {0}]
  /\ {pidFile, owner, beat.pid} \subseteq Pid \cup {0} /\ beat.fresh \in BOOLEAN
  /\ lock \in Pid \cup {0}
  /\ op \in [Operators -> [step : Cmd \cup {"idle"}, pids : SUBSET Pid]]

(* Never two bots on one account: not after a crash, a loss of the         *)
(* watchdog, a second launch, or a start that finds the service up.        *)
OneTrader == Cardinality(Bots) <= 1

(* When stop reports that it is done nothing is left running, whatever the *)
(* watchdog was about to start (process_manager.py:508).                   *)
StopIsFinal == \A o \in Operators : op[o].step = "stopped" => Alives = {}

(* While anything runs, the three files let the next command find it.      *)
Findable ==
  (\A o \in Operators : op[o].step = "idle") /\ Alives # {} => Found # {}

(* Under a watchdog some bot is always back in its main loop sooner or     *)
(* later, however often bots crash, hang or are slow to boot               *)
(* (trading_watchdog.py:181).                                              *)
Watched == \E w \in Pid : proc[w] \in Loop
Recovers == Watched ~> (\E b \in Pid : proc[b] \in Beating) \/ ~Watched

(* watchdog.py:3 of a bot that trades no more: it is ended within seconds  *)
(* and started again.                                                      *)
StoppedIsReplaced ==
  \A b \in Pid : (proc[b] = "deaf" /\ Watched) ~> proc[b] # "deaf" \/ ~Watched
=============================================================================
