--------------------------- MODULE SettingsProofs ---------------------------
(***************************************************************************)
(* Theorems about Supervision and Settings, for any number of processes    *)
(* and any slots. One operator's commands, crashes and launches by hand    *)
(* never lead to two bots, a stop leaves nothing behind, and what runs can *)
(* be found (SupInv: what the lock and the three files say of the          *)
(* processes). A bot with other limits than .env's is one the reply to the *)
(* save has named as failed (SettingsInv: the sum is the sum of the slots, *)
(* so that hot reload and start arrive at the same limits).                *)
(***************************************************************************)
EXTENDS Settings, FiniteSetTheorems, WellFoundedInduction, TLAPS

-----------------------------------------------------------------------------
(* The processes: the inductive invariant *)

Coming   == {"launched", "named"}
Stopping == {"kill", "pids", "sweep", "again", "files"}
Does(steps) == \E o \in Operators : op[o].step \in steps

\* A bot that has a parent is the child of a watchdog past its fork.
ParentInv == \A b \in Pid : parent[b] # 0 =>
  /\ parent[b] \in Pid
  /\ proc[b] \in Trading /\ proc[parent[b]] \in {"forked", "watching", "killing"}

\* Of two watchdogs one is new and the other in its loop.
OneWatchdog == \A v, w \in Watchers : v # w =>
  \/ proc[v] \in Coming /\ proc[w] \in Loop
  \/ proc[w] \in Coming /\ proc[v] \in Loop

\* The watchdog in its loop is the one the owner file names.
OwnerInv == \A w \in Pid : proc[w] \in Loop => owner = w

\* One bot; the heartbeat is its own once it is past loading, and when it has
\* lost its watchdog there is none, and it is not loading but for a stop.
BotInv ==
  /\ \A b, c \in Bots : b = c
  /\ \A b \in Bots : parent[b] = 0 => Watchers = {}
  /\ \A b \in Bots : proc[b] # "loading" => beat.pid = b
  /\ \A b \in Bots : parent[b] = 0 /\ proc[b] = "loading" => Does(Stopping)

\* A watchdog that is being launched is in the pid file, beside another one, or
\* known to the command that launches it.
LaunchInv == \A w \in Pid : proc[w] \in Early =>
  \/ \E v \in Watchers : v # w
  \/ pidFile = w
  \/ Does({"write"})

\* What a command knows of the processes at each of its steps.
CommandInv == \A o \in Operators :
  /\ op[o].step \in {"clean", "spawn", "stopped"} => Alives = {}
  /\ op[o].step = "write" => /\ op[o].pids # {} /\ \A p, q \in op[o].pids : p = q
                             /\ Watchers \subseteq op[o].pids
  /\ op[o].step \in Stopping => Settled
  /\ op[o].step = "again" => Watchers \subseteq op[o].pids
  /\ op[o].step = "files" => Alives \subseteq op[o].pids /\ Watchers = {}

SupInv ==
  TypeOK /\ ParentInv /\ OneWatchdog /\ OwnerInv /\ BotInv /\ LaunchInv /\ CommandInv

\* One operator gives commands, and no watchdog is lost before its bot's first
\* heartbeat or during a launch by hand.
Alone == ~EarlyKill /\ \A o, p \in Operators : o = p

-----------------------------------------------------------------------------
(* The processes: numbers, what a launch makes of them, what is found *)

\* The least of a set of numbers is one of them.
LEMMA MinIsIn ==
  ASSUME NEW S \in SUBSET Nat, S # {}
  PROVE  Min(S) \in S
<1> DEFINE R == {z \in Nat \X Nat : z[1] < z[2]}
<1>1. IsWellFoundedOn(R, Nat)
  BY NatLessThanWellFounded DEF OpToRel
<1>2. \E n \in S : \A m \in S : ~ (<<m, n>> \in R)
  <2> HIDE DEF R
  <2> QED BY <1>1, WFMin
<1>3. PICK n \in S : \A m \in S : ~ (<<m, n>> \in R)
  BY <1>2
<1>4. ASSUME NEW m \in S PROVE n <= m
  <2>1. <<m, n>> \in Nat \X Nat /\ <<m, n>>[1] = m /\ <<m, n>>[2] = n
    OBVIOUS
  <2>2. ~(m < n)
    BY <1>3, <2>1
  <2> QED BY <2>2
<1> QED BY <1>4 DEF Min

\* The number handed out is one that nobody has and nobody is known by.
LEMMA NewPidIsFresh ==
  ASSUME Fresh # {}
  PROVE  /\ NewPid \in Pid /\ proc[NewPid] = "dead"
         /\ NewPid \notin {0, pidFile, owner, lock, beat.pid}
         /\ \A o \in Operators : NewPid \notin op[o].pids
<1>1. Fresh \in SUBSET Nat /\ Fresh \subseteq Pid
  BY ProcessAssumption DEF Fresh, Pid
<1>2. NewPid \in Fresh
  BY <1>1, MinIsIn DEF NewPid
<1>3. NewPid # 0
  BY <1>1, <1>2, ProcessAssumption DEF Pid
<1> QED BY <1>1, <1>2, <1>3 DEF Fresh, Alive

\* A start with nothing alive: the new process is the only one.
LEMMA LaunchedIsOnlyOne ==
  ASSUME Alone, TypeOK, ParentInv, CommandInv, NEW o \in Operators, StartSpawns(o)
  PROVE  /\ NewPid \in Pid
         /\ \A p \in Pid : proc'[p] = IF p = NewPid THEN "launched" ELSE "dead"
         /\ \A p \in Pid : parent'[p] = 0
         /\ \A q \in Operators : op'[q] = [step |-> "write", pids |-> {NewPid}]
         /\ UNCHANGED files
<1>1. Alives = {} /\ NewPid \in Pid
  BY NewPidIsFresh DEF StartSpawns, Step, CommandInv
<1>2. \A p \in Pid : proc[p] = "dead"
  BY <1>1, ProcessAssumption DEF Alives, Alive, Pid
<1>3. \A p \in Pid : parent[p] = 0
  BY <1>2 DEF ParentInv, Trading, Booting, Beating
<1>4. \A q \in Operators : q = o
  BY DEF Alone
<1>5. op'[o] = [step |-> "write", pids |-> {NewPid}]
  BY DEF StartSpawns, Step, TypeOK
<1> QED BY <1>1, <1>2, <1>3, <1>4, <1>5 DEF StartSpawns, Start, TypeOK

\* Nothing but a watchdog numbered n, in the hands of the command that launched it.
LaunchedAlone(n) ==
  /\ \A p \in Pid : proc'[p] = IF p = n THEN "launched" ELSE "dead"
  /\ \A p \in Pid : parent'[p] = 0
  /\ \A q \in Operators : op'[q] = [step |-> "write", pids |-> {n}]
  /\ UNCHANGED files

LEMMA LaunchesAlone ==
  ASSUME Alone, TypeOK, ParentInv, CommandInv, NEW o \in Operators, StartSpawns(o)
  PROVE  \E n \in Pid : LaunchedAlone(n)
BY LaunchedIsOnlyOne DEF LaunchedAlone

\* While no command runs, whatever is alive can be found.
LEMMA FoundIfAlive ==
  ASSUME TypeOK, ParentInv, OneWatchdog, OwnerInv, BotInv, LaunchInv,
         \A o \in Operators : op[o].step = "idle", NEW p \in Alives
  PROVE  Found # {}
<1>1. \A w \in Pid : proc[w] \in Loop => owner \in Found
  BY ProcessAssumption DEF OwnerInv, Found, Alive, Pid, Loop
<1>2. CASE proc[p] \in Early
  <2>1. (\E v \in Watchers : v # p) \/ pidFile = p
    BY <1>2 DEF LaunchInv, Does, Alives
  <2>2. ASSUME NEW v \in Watchers, v # p PROVE proc[v] \in Loop
    BY <1>2, <2>2 DEF OneWatchdog, Watchers, Watching, Early, Loop, Coming, Alives
  <2>3. pidFile = p => p \in Found
    BY DEF Alives, Found
  <2> QED BY <1>1, <2>1, <2>2, <2>3 DEF Watchers
<1>3. CASE proc[p] \in Loop
  BY <1>1, <1>3 DEF Alives
<1>4. CASE proc[p] \in Trading
  <2>1. CASE parent[p] # 0
    BY <1>1, <2>1 DEF ParentInv, Loop, Alives
  <2>2. CASE parent[p] = 0
    <3>1. beat.pid = p
      BY <1>4, <2>2 DEF BotInv, Bots, Does, Stopping, Alives
    <3> QED BY <3>1 DEF Alives, Found
  <2> QED BY <2>1, <2>2
<1> QED BY <1>2, <1>3, <1>4 DEF Alives, Alive, TypeOK, Watching

-----------------------------------------------------------------------------
(* The processes: types *)

\* The domains of the functions, which is all of TypeOK that most steps need.
Shape == /\ DOMAIN proc = Pid /\ DOMAIN parent = Pid /\ DOMAIN op = Operators
         /\ \A o \in Operators : op[o].pids \subseteq Pid

LEMMA ShapeOK == TypeOK => Shape
BY DEF TypeOK, Shape

Commands == [step : Cmd \cup {"idle"}, pids : SUBSET Pid]

\* What a step makes of the files and processes keeps its type.
FileType ==
  {pidFile, owner, beat.pid, lock} \subseteq Pid \cup {0} /\ beat.fresh \in BOOLEAN
ProcType ==
  /\ proc \in [Pid -> {"dead"} \cup Watching \cup Trading]
  /\ parent \in [Pid -> Pid \cup {0}]

LEMMA KillType ==
  ASSUME TypeOK PROVE \A S : Kill(S) => ProcType'
BY DEF TypeOK, Kill, ProcType

LEMMA BeatType ==
  /\ NoBeat.pid = 0 /\ NoBeat.fresh \in BOOLEAN
  /\ \A b : [pid |-> b, fresh |-> TRUE].pid = b /\ [pid |-> b, fresh |-> TRUE].fresh \in BOOLEAN
BY Zenon DEF NoBeat

LEMMA TypeOKStep ==
  ASSUME TypeOK, ParentInv, CommandInv, Alone, Next
  PROVE  TypeOK'
<1>1. ASSUME NEW w \in Pid, WatchdogStep(w) PROVE ProcType' /\ FileType' /\ op' = op
  <2>1. CASE NameSelf(w) \/ Own(w) \/ Spawn(w)
    BY <2>1, BeatType
    DEF NameSelf, Own, Spawn, Goes, TypeOK, ProcType, FileType, Watching, Early, Loop
  <2>2. CASE CheckOwner(w)
    BY <2>2, KillType
    DEF CheckOwner, Leaves, Goes, LockWithout, TypeOK, ProcType, FileType, Watching, Early
  <2>3. CASE TakeLock(w)
    BY <2>3, KillType DEF TakeLock, Goes, TypeOK, ProcType, FileType, Watching, Early
  <2>4. CASE Fork(w)
    BY <2>4, NewPidIsFresh
    DEF Fork, files, TypeOK, ProcType, FileType, Watching, Loop, Trading, Booting
  <2>5. CASE ForkFails(w) \/ Assign(w) \/ SeesExit(w)
    BY <2>5
    DEF ForkFails, Assign, SeesExit, Goes, files, TypeOK, ProcType, FileType, Watching, Loop
  <2>6. CASE SeesHang(w)
    BY <2>6
    DEF SeesHang, Terminated, Parents, files, TypeOK, ProcType, FileType, Watching, Loop,
                Trading, Beating
  <2>7. CASE KillHung(w)
    BY <2>7 DEF KillHung, files, TypeOK, ProcType, FileType, Watching, Loop
  <2>8. CASE EndWatchdog(w) \/ LoseWatchdog(w)
    BY <2>8, KillType DEF EndWatchdog, LoseWatchdog, Leaves, LockWithout, TypeOK, FileType
  <2> QED BY <1>1, <2>1, <2>2, <2>3, <2>4, <2>5, <2>6, <2>7, <2>8 DEF WatchdogStep, Monitor
<1>2. ASSUME NEW b \in Pid, BotStep(b) PROVE ProcType' /\ FileType' /\ op' = op
  <2>1. CASE FirstBeat(b) \/ Booted(b) \/ Beat(b)
    <3>1. beat'.pid \in Pid /\ beat'.fresh \in BOOLEAN
      BY <2>1, BeatType, Zenon DEF FirstBeat, Booted, Beat, Writes
    <3> QED BY <2>1, <3>1
    DEF FirstBeat, Booted, Beat, Goes, TypeOK, ProcType, FileType, Trading, Booting, Beating
  <2>2. CASE Hang(b)
    BY <2>2 DEF Hang, Goes, files, TypeOK, ProcType, FileType, Trading
  <2>3. CASE Crash(b)
    BY <2>3, KillType DEF Crash, files, TypeOK, FileType
  <2>4. CASE TermBot(b)
    BY <2>4
    DEF TermBot, Terminated, Parents, files, TypeOK, ProcType, FileType, Trading, Beating
  <2> QED BY <1>2, <2>1, <2>2, <2>3, <2>4 DEF BotStep
<1>3. ASSUME NEW o \in Operators, Command(o) \/ Proceeds(o)
      PROVE  /\ ProcType' /\ FileType'
             /\ \E to \in Cmd \cup {"idle"}, pids \in SUBSET Pid :
                  op' = [op EXCEPT ![o] = [step |-> to, pids |-> pids]]
  <2>1. CASE StartSpawns(o)
    BY <2>1, NewPidIsFresh
    DEF StartSpawns, Step, Start, files, TypeOK, ProcType, FileType, Watching, Early, Cmd
  <2>2. CASE StartWrites(o)
    <3>1. op[o].pids \in SUBSET Pid /\ Pid \subseteq Nat /\ op[o].pids # {}
      BY <2>2, ProcessAssumption DEF StartWrites, Step, TypeOK, CommandInv, Pid
    <3>2. Min(op[o].pids) \in Pid
      BY <3>1, MinIsIn
    <3> QED BY <2>2, <3>2 DEF StartWrites, Step, TypeOK, ProcType, FileType, Cmd
  <2>3. CASE StopKills(o)
    <3>1. PICK p \in op[o].pids :
            /\ Step(o, "kill", IF op[o].pids = {p} THEN "pids" ELSE "kill", op[o].pids \ {p})
            /\ \E S : Kill(S)
            /\ lock' = LockWithout({p}) /\ UNCHANGED <<pidFile, owner, beat>>
      BY <2>3 DEF StopKills
    <3>2. op[o].pids \ {p} \in SUBSET Pid
      BY DEF TypeOK
    <3> QED BY <3>1, <3>2, KillType DEF Step, LockWithout, TypeOK, FileType, Cmd
  <2>4. CASE StopSweeps(o)
    BY <2>4
    DEF StopSweeps, Step, Listed, Alives, Kill, LockWithout, TypeOK, ProcType, FileType, Cmd
  <2>5. CASE StopCleans(o)
    BY <2>5, BeatType DEF StopCleans, Step, Kill, TypeOK, ProcType, FileType, Cmd
  <2>6. CASE StopLists(o)
    BY <2>6 DEF StopLists, Step, Listed, Alives, files, TypeOK, ProcType, FileType, Cmd
  <2>7. CASE StartChecks(o) \/ StopFinds(o)
    BY <2>7
    DEF StartChecks, StopFinds, Step, Found, Alive, files, TypeOK, ProcType, FileType, Cmd
  <2>8. CASE StartCleans(o) \/ StartFails(o) \/ StopUnlinksPid(o) \/ StopEnds(o)
    BY <2>8, BeatType
    DEF StartCleans, StartFails, StopUnlinksPid, StopEnds, Step, files, TypeOK,
                ProcType, FileType, Cmd
  <2> QED BY <1>3, <2>1, <2>2, <2>3, <2>4, <2>5, <2>6, <2>7, <2>8 DEF Command, Proceeds
<1>4. CASE Ages
  BY <1>4 DEF Ages, TypeOK
<1>5. CASE LaunchByHand
  BY <1>5, NewPidIsFresh DEF LaunchByHand, Start, files, TypeOK, Watching, Early
<1>6. CASE PowerLoss
  <2>1. Idle \in Commands
    BY DEF Idle, Commands
  <2>2. op' \in [Operators -> Commands]
    BY <1>6, <2>1 DEF PowerLoss
  <2> QED BY <1>6, <2>2 DEF PowerLoss, Kill, LockWithout, TypeOK, Commands
<1>7. ASSUME NEW o \in Operators, Command(o) \/ Proceeds(o) PROVE op' \in [Operators -> Commands]
  <2>1. PICK to \in Cmd \cup {"idle"}, pids \in SUBSET Pid :
          op' = [op EXCEPT ![o] = [step |-> to, pids |-> pids]]
    BY <1>3, <1>7
  <2>2. op \in [Operators -> Commands] /\ [step |-> to, pids |-> pids] \in Commands
    BY DEF TypeOK, Commands
  <2> QED BY <2>1, <2>2
<1>8. ProcType' /\ FileType' /\ op' \in [Operators -> Commands] => TypeOK'
  BY DEF ProcType, FileType, TypeOK, Commands
<1>9. op \in [Operators -> Commands]
  BY DEF TypeOK, Commands
<1> QED BY <1>1, <1>2, <1>3, <1>4, <1>5, <1>6, <1>7, <1>8, <1>9 DEF Next

-----------------------------------------------------------------------------
(* The processes: what a step preserves *)

LEMMA SupInitInv == Init => SupInv
<1> SUFFICES ASSUME Init PROVE SupInv
  OBVIOUS
<1>1. TypeOK
  BY DEF Init, TypeOK, NoBeat, Idle, Cmd
<1>2. ParentInv /\ OneWatchdog /\ OwnerInv /\ BotInv /\ LaunchInv
  BY DEF Init, ParentInv, OneWatchdog, OwnerInv, BotInv, LaunchInv, Watchers, Bots, Watching,
         Loop, Early, Trading, Booting, Beating
<1>3. CommandInv
  BY DEF Init, CommandInv, Idle, Stopping
<1> QED BY <1>1, <1>2, <1>3 DEF SupInv

\* A bot's parent is the watchdog that started it, at a step where it has one.
LEMMA ParentInvStep ==
  ASSUME Alone, TypeOK, Shape, ParentInv, CommandInv, Next
  PROVE  ParentInv'
<1>1. ASSUME NEW w \in Pid,
             NameSelf(w) \/ CheckOwner(w) \/ TakeLock(w) \/ Own(w) \/ Spawn(w) \/ Fork(w) \/
             ForkFails(w) \/ Assign(w)
      PROVE  ParentInv'
  BY <1>1, ProcessAssumption, NewPidIsFresh
  DEF NameSelf, CheckOwner, TakeLock, Own, Spawn, Fork, ForkFails, Assign, Goes, Leaves,
      Kill, Shape, ParentInv, Trading, Booting, Beating
<1>2. ASSUME NEW w \in Pid, SeesHang(w) PROVE ParentInv'
  BY <1>2 DEF SeesHang, Terminated, Parents, ParentInv, Trading, Booting, Beating
<1>3. ASSUME NEW w \in Pid, KillHung(w) PROVE ParentInv'
  BY <1>3 DEF KillHung, Children, ParentInv, Trading, Booting, Beating, Pid
<1>4. ASSUME NEW w \in Pid, SeesExit(w) PROVE ParentInv'
  BY <1>4
  DEF SeesExit, Goes, Children, ParentInv, Alives, Alive, Trading, Booting, Beating, Pid
<1>5. ASSUME NEW w \in Pid, EndWatchdog(w) \/ LoseWatchdog(w) PROVE ParentInv'
  BY <1>5 DEF EndWatchdog, LoseWatchdog, Kill, Leaves, ParentInv
<1>6. ASSUME NEW b \in Pid, FirstBeat(b) PROVE ParentInv'
  BY <1>6 DEF FirstBeat, Goes, ParentInv, Trading, Booting
<1>7. ASSUME NEW b \in Pid, Booted(b) PROVE ParentInv'
  BY <1>7 DEF Booted, Goes, ParentInv, Trading, Beating
<1>8. ASSUME NEW b \in Pid, Beat(b) \/ Crash(b) \/ TermBot(b) PROVE ParentInv'
  BY <1>8
  DEF Beat, Crash, TermBot, Kill, Terminated, Parents, ParentInv, Trading, Booting, Beating
<1>9. ASSUME NEW b \in Pid, Hang(b) PROVE ParentInv'
  BY <1>9 DEF Hang, Goes, ParentInv, Trading
<1>10. ASSUME NEW o \in Operators, Settled, StartChecks(o) \/ StopFinds(o) PROVE ParentInv'
  BY <1>10 DEF StartChecks, StopFinds, ParentInv
<1>11. ASSUME NEW o \in Operators,
              StartCleans(o) \/ StartFails(o) \/ StartWrites(o) \/ StopUnlinksPid(o) \/
              StopLists(o) \/ StopSweeps(o) \/ StopCleans(o) \/ StopEnds(o)
       PROVE  ParentInv'
  BY <1>11
  DEF StartCleans, StartFails, StartWrites, StopUnlinksPid, StopLists, StopSweeps,
      StopCleans, StopEnds, Kill, ParentInv
<1>12. ASSUME NEW o \in Operators, StartSpawns(o) PROVE ParentInv'
  <2>1. PICK n \in Pid : LaunchedAlone(n)
    BY <1>12, LaunchesAlone
  <2> QED BY <2>1, ProcessAssumption DEF LaunchedAlone, files, ParentInv
<1>13. ASSUME NEW o \in Operators, StopKills(o) PROVE ParentInv'
  BY <1>13 DEF StopKills, Kill, ParentInv
<1>14. ASSUME Ages \/ LaunchByHand \/ PowerLoss PROVE ParentInv'
  BY <1>14, NewPidIsFresh DEF Ages, LaunchByHand, PowerLoss, Start, Kill, Shape, ParentInv
<1> QED BY <1>1, <1>2, <1>3, <1>4, <1>5, <1>6, <1>7, <1>8, <1>9, <1>10, <1>11, <1>12, <1>13,
           <1>14
     DEF Next, WatchdogStep, Monitor, BotStep, Command, Proceeds

\* Two watchdogs are a new one and one in its loop: the owner file and the lock let
\* no second one through.
LEMMA OneWatchdogStep ==
  ASSUME Alone, TypeOK, Shape, ParentInv, OneWatchdog, OwnerInv, CommandInv, Next
  PROVE  OneWatchdog'
<1>1. ASSUME NEW w \in Pid,
             NameSelf(w) \/ TakeLock(w) \/ Own(w) \/ Spawn(w) \/ Fork(w) \/ ForkFails(w) \/
             Assign(w) \/ SeesHang(w) \/ KillHung(w) \/ SeesExit(w) \/ EndWatchdog(w) \/
             LoseWatchdog(w)
      PROVE  OneWatchdog'
  BY <1>1
  DEF NameSelf, TakeLock, Own, Spawn, Fork, ForkFails, Assign, SeesHang, KillHung, SeesExit,
      EndWatchdog, LoseWatchdog, Goes, Kill, Terminated, Leaves, Shape, OneWatchdog,
      OwnerInv, Coming, Watchers, Loop, Watching, Early
<1>2. ASSUME NEW w \in Pid, CheckOwner(w) PROVE OneWatchdog'
  BY <1>2, ProcessAssumption
  DEF CheckOwner, Goes, Leaves, Kill, Shape, OneWatchdog, OwnerInv, Watchers, Alive, Loop,
      Watching, Early, Pid
<1>3. ASSUME NEW b \in Pid, FirstBeat(b) PROVE OneWatchdog'
  BY <1>3 DEF FirstBeat, Goes, OneWatchdog, Watchers, Loop, Watching, Early
<1>4. ASSUME NEW b \in Pid, Booted(b) PROVE OneWatchdog'
  BY <1>4 DEF Booted, Goes, OneWatchdog, Watchers, Loop, Watching, Early
<1>5. ASSUME NEW b \in Pid, Beat(b) \/ Crash(b) \/ TermBot(b) PROVE OneWatchdog'
  BY <1>5
  DEF Beat, Crash, TermBot, Kill, Terminated, OneWatchdog, Watchers, Loop, Watching, Early
<1>6. ASSUME NEW b \in Pid, Hang(b) PROVE OneWatchdog'
  BY <1>6 DEF Hang, Goes, OneWatchdog, Watchers, Loop, Watching, Early
<1>7. ASSUME NEW o \in Operators, Settled, StartChecks(o) \/ StopFinds(o) PROVE OneWatchdog'
  BY <1>7 DEF StartChecks, StopFinds, OneWatchdog, Watchers
<1>8. ASSUME NEW o \in Operators,
             StartCleans(o) \/ StartFails(o) \/ StartWrites(o) \/ StopUnlinksPid(o) \/
             StopLists(o) \/ StopSweeps(o) \/ StopCleans(o) \/ StopEnds(o)
      PROVE  OneWatchdog'
  BY <1>8
  DEF StartCleans, StartFails, StartWrites, StopUnlinksPid, StopLists, StopSweeps,
      StopCleans, StopEnds, Kill, OneWatchdog, Watchers, Loop, Watching, Early
<1>9. ASSUME NEW o \in Operators, StartSpawns(o) PROVE OneWatchdog'
  <2>1. PICK n \in Pid : LaunchedAlone(n)
    BY <1>9, LaunchesAlone
  <2> QED BY <2>1, ProcessAssumption DEF LaunchedAlone, files, OneWatchdog, Watchers, Loop,
       Watching, Early
<1>10. ASSUME NEW o \in Operators, StopKills(o) PROVE OneWatchdog'
  BY <1>10 DEF StopKills, Kill, OneWatchdog, Watchers, Loop, Watching, Early
<1>11. ASSUME Ages \/ PowerLoss PROVE OneWatchdog'
  BY <1>11 DEF Ages, PowerLoss, Kill, OneWatchdog, Watchers, Loop, Watching, Early
<1>12. ASSUME LaunchByHand PROVE OneWatchdog'
  BY <1>12 DEF LaunchByHand, Start, OneWatchdog, Coming, Watchers, Settled
<1> QED BY <1>1, <1>2, <1>3, <1>4, <1>5, <1>6, <1>7, <1>8, <1>9, <1>10, <1>11, <1>12
     DEF Next, WatchdogStep, Monitor, BotStep, Command, Proceeds

\* The owner file names the watchdog in its loop: only who holds the lock writes it,
\* and a command removes it when nothing is alive.
LEMMA OwnerInvStep ==
  ASSUME Alone, TypeOK, Shape, ParentInv, OneWatchdog, OwnerInv, CommandInv, Next
  PROVE  OwnerInv'
<1>1. ASSUME NEW w \in Pid,
             NameSelf(w) \/ CheckOwner(w) \/ TakeLock(w) \/ Spawn(w) \/ Fork(w) \/
             ForkFails(w) \/ Assign(w) \/ SeesHang(w) \/ KillHung(w) \/ SeesExit(w) \/
             EndWatchdog(w) \/ LoseWatchdog(w)
      PROVE  OwnerInv'
  BY <1>1
  DEF NameSelf, CheckOwner, TakeLock, Spawn, Fork, ForkFails, Assign, SeesHang, KillHung,
      SeesExit, EndWatchdog, LoseWatchdog, Goes, Leaves, Kill, files, Terminated, Shape,
      OwnerInv, Loop
<1>2. ASSUME NEW w \in Pid, Own(w) PROVE OwnerInv'
  BY <1>2 DEF Own, Goes, OneWatchdog, OwnerInv, Coming, Watchers, Watching, Early
<1>3. ASSUME NEW b \in Pid, FirstBeat(b) PROVE OwnerInv'
  BY <1>3 DEF FirstBeat, Goes, OwnerInv, Loop
<1>4. ASSUME NEW b \in Pid, Booted(b) PROVE OwnerInv'
  BY <1>4 DEF Booted, Goes, OwnerInv, Loop
<1>5. ASSUME NEW b \in Pid, Beat(b) \/ Crash(b) \/ TermBot(b) PROVE OwnerInv'
  BY <1>5 DEF Beat, Crash, TermBot, Kill, files, Terminated, OwnerInv, Loop
<1>6. ASSUME NEW b \in Pid, Hang(b) PROVE OwnerInv'
  BY <1>6 DEF Hang, Goes, files, OwnerInv, Loop
<1>7. ASSUME NEW o \in Operators, Settled, StartChecks(o) \/ StopFinds(o) PROVE OwnerInv'
  BY <1>7 DEF StartChecks, StopFinds, files, OwnerInv
<1>8. ASSUME NEW o \in Operators,
             StartCleans(o) \/ StartFails(o) \/ StartWrites(o) \/ StopUnlinksPid(o) \/
             StopLists(o) \/ StopSweeps(o) \/ StopCleans(o) \/ StopEnds(o)
      PROVE  OwnerInv'
  BY <1>8
  DEF StartCleans, StartFails, StartWrites, StopUnlinksPid, StopLists, StopSweeps,
      StopCleans, StopEnds, Step, files, Kill, OwnerInv, CommandInv, Alives, Alive, Loop
<1>9. ASSUME NEW o \in Operators, StartSpawns(o) PROVE OwnerInv'
  <2>1. PICK n \in Pid : LaunchedAlone(n)
    BY <1>9, LaunchesAlone
  <2> QED BY <2>1, ProcessAssumption DEF LaunchedAlone, files, OwnerInv, Loop
<1>10. ASSUME NEW o \in Operators, StopKills(o) PROVE OwnerInv'
  BY <1>10 DEF StopKills, Kill, OwnerInv, Loop
<1>11. ASSUME Ages \/ PowerLoss PROVE OwnerInv'
  BY <1>11 DEF Ages, PowerLoss, Kill, OwnerInv, Loop
<1>12. ASSUME LaunchByHand PROVE OwnerInv'
  BY <1>12 DEF LaunchByHand, Start, files, OwnerInv, Loop
<1> QED BY <1>1, <1>2, <1>3, <1>4, <1>5, <1>6, <1>7, <1>8, <1>9, <1>10, <1>11, <1>12
     DEF Next, WatchdogStep, Monitor, BotStep, Command, Proceeds

\* One bot at most: a watchdog starts one when it has none and nobody else's is left.
\* A bot without a watchdog is known by its heartbeat.
LEMMA BotInvStep ==
  ASSUME Alone, TypeOK, Shape, ParentInv, OwnerInv, BotInv, CommandInv, Next
  PROVE  BotInv'
<1>1. ASSUME NEW w \in Pid,
             NameSelf(w) \/ CheckOwner(w) \/ TakeLock(w) \/ Own(w)
      PROVE  BotInv'
  BY <1>1, ProcessAssumption
  DEF NameSelf, CheckOwner, TakeLock, Own, Goes, Leaves, Kill, Shape, ParentInv, BotInv,
      Watchers, Bots, Watching, Early, Trading, Booting, Beating
<1>2. ASSUME NEW w \in Pid, Spawn(w) PROVE BotInv'
  BY <1>2
  DEF Spawn, Goes, ParentInv, OwnerInv, BotInv, Watchers, Bots, Loop, Watching, Trading,
      Booting, Beating
<1>3. ASSUME NEW w \in Pid, Fork(w) PROVE BotInv'
  BY <1>3
  DEF Fork, Shape, ParentInv, OwnerInv, BotInv, Watchers, Bots, Loop, Watching, Trading,
      Booting, Beating, Pid
<1>4. ASSUME NEW w \in Pid, ForkFails(w) PROVE BotInv'
  BY <1>4
  DEF ForkFails, Goes, files, BotInv, Watchers, Bots, Loop, Watching, Trading, Booting,
      Beating
<1>5. ASSUME NEW w \in Pid, Assign(w) PROVE BotInv'
  BY <1>5
  DEF Assign, Goes, files, BotInv, Watchers, Bots, Loop, Watching, Trading, Booting, Beating
<1>6. ASSUME NEW w \in Pid, SeesHang(w) PROVE BotInv'
  BY <1>6
  DEF SeesHang, Terminated, Parents, files, BotInv, Watchers, Bots, Loop, Watching, Trading,
      Booting, Beating
<1>7. ASSUME NEW w \in Pid, KillHung(w) PROVE BotInv'
  BY <1>7
  DEF KillHung, Children, files, BotInv, Watchers, Bots, Alives, Alive, Loop, Watching,
      Trading, Booting, Beating, Pid
<1>8. ASSUME NEW w \in Pid, SeesExit(w) PROVE BotInv'
  BY <1>8
  DEF SeesExit, Goes, Children, ParentInv, OwnerInv, BotInv, Watchers, Bots, Alives, Alive,
      Loop, Watching, Trading, Booting, Beating, Pid
<1>9. ASSUME NEW w \in Pid, EndWatchdog(w) PROVE BotInv'
  BY <1>9
  DEF EndWatchdog, MayLose, Kill, Children, Alone, ParentInv, OwnerInv, BotInv, Watchers,
      Bots, Alives, Alive, Loop, Watching, Early, Trading, Booting, Beating, Pid
<1>10. ASSUME NEW w \in Pid, LoseWatchdog(w) PROVE BotInv'
  BY <1>10
  DEF LoseWatchdog, MayLose, Leaves, Kill, Children, Alone, ParentInv, OwnerInv, BotInv,
      Watchers, Bots, Alives, Alive, Loop, Watching, Early, Trading, Booting, Beating, Pid
<1>11. ASSUME NEW b \in Pid, FirstBeat(b) PROVE BotInv'
  BY <1>11
  DEF FirstBeat, Goes, Writes, BotInv, Does, Watchers, Bots, Loop, Watching, Early, Trading,
      Booting
<1>12. ASSUME NEW b \in Pid, Booted(b) PROVE BotInv'
  BY <1>12
  DEF Booted, Goes, Writes, BotInv, Watchers, Bots, Loop, Watching, Early, Trading, Booting
<1>13. ASSUME NEW b \in Pid, Beat(b) \/ Crash(b) PROVE BotInv'
  BY <1>13 DEF Beat, Crash, Writes, Kill, BotInv, Watchers, Bots, Trading, Booting, Beating
<1>14. ASSUME NEW b \in Pid, Hang(b) PROVE BotInv'
  BY <1>14
  DEF Hang, Goes, files, BotInv, Watchers, Bots, Loop, Watching, Early, Trading, Beating
<1>15. ASSUME NEW b \in Pid, TermBot(b) PROVE BotInv'
  BY <1>15
  DEF TermBot, Terminated, Parents, files, BotInv, Watchers, Bots, Loop, Watching, Early,
      Trading, Booting, Beating
<1>16. ASSUME NEW o \in Operators, Settled, StartChecks(o) PROVE BotInv'
  BY <1>16 DEF StartChecks, Step, files, BotInv, Stopping, Does, Watchers, Bots
<1>17. ASSUME NEW o \in Operators, StartCleans(o) PROVE BotInv'
  BY <1>17
  DEF StartCleans, Step, BotInv, CommandInv, Bots, Alives, Alive, Trading, Booting, Beating,
      Pid
<1>18. ASSUME NEW o \in Operators, StartSpawns(o) PROVE BotInv'
  <2>1. PICK n \in Pid : LaunchedAlone(n)
    BY <1>18, LaunchesAlone
  <2> QED BY <2>1, ProcessAssumption DEF LaunchedAlone, files, BotInv, Bots, Trading,
       Booting, Beating
<1>19. ASSUME NEW o \in Operators, StartFails(o) PROVE BotInv'
  BY <1>19 DEF StartFails, Step, files, BotInv, Stopping, Does, Watchers, Bots
<1>20. ASSUME NEW o \in Operators, StartWrites(o) PROVE BotInv'
  BY <1>20 DEF StartWrites, Step, BotInv, Stopping, Does, Watchers, Bots
<1>21. ASSUME NEW o \in Operators, Settled, StopFinds(o) PROVE BotInv'
  BY <1>21 DEF StopFinds, Step, files, BotInv, Stopping, Does, Watchers, Bots
<1>22. ASSUME NEW o \in Operators, StopKills(o) PROVE BotInv'
  BY <1>22
  DEF StopKills, Step, Kill, ParentInv, OwnerInv, BotInv, CommandInv, Stopping, Does,
      Watchers, Bots, Settled, Loop, Watching, Early, Trading, Booting, Beating
<1>23. ASSUME NEW o \in Operators, StopUnlinksPid(o) PROVE BotInv'
  BY <1>23 DEF StopUnlinksPid, Step, BotInv, Stopping, Does, Watchers, Bots
<1>24. ASSUME NEW o \in Operators, StopLists(o) PROVE BotInv'
  BY <1>24 DEF StopLists, Step, files, BotInv, Stopping, Does, Watchers, Bots
<1>25. ASSUME NEW o \in Operators, StopSweeps(o) PROVE BotInv'
  BY <1>25
  DEF StopSweeps, Step, Kill, BotInv, CommandInv, Stopping, Does, Watchers, Bots, Loop,
      Watching, Early, Trading, Booting, Beating
<1>26. ASSUME NEW o \in Operators, StopCleans(o) PROVE BotInv'
  BY <1>26
  DEF StopCleans, Step, Kill, BotInv, CommandInv, Bots, Alives, Alive, Trading, Booting,
      Beating, Pid
<1>27. ASSUME NEW o \in Operators, StopEnds(o) PROVE BotInv'
  BY <1>27 DEF StopEnds, Step, files, BotInv, Stopping, Does, Watchers, Bots
<1>28. ASSUME Ages PROVE BotInv'
  BY <1>28 DEF Ages, BotInv, Does, Watchers, Bots
<1>29. ASSUME LaunchByHand \/ PowerLoss PROVE BotInv'
  BY <1>29
  DEF LaunchByHand, PowerLoss, Start, files, Kill, Shape, BotInv, Bots, Trading, Booting,
      Beating
<1> QED BY <1>1, <1>2, <1>3, <1>4, <1>5, <1>6, <1>7, <1>8, <1>9, <1>10, <1>11, <1>12, <1>13,
           <1>14, <1>15, <1>16, <1>17, <1>18, <1>19, <1>20, <1>21, <1>22, <1>23, <1>24,
           <1>25, <1>26, <1>27, <1>28, <1>29
     DEF Next, WatchdogStep, Monitor, BotStep, Command, Proceeds

\* A watchdog that is not in its loop yet is known by the pid file, by who is writing
\* it, or comes beside another one.
LEMMA LaunchInvStep ==
  ASSUME Alone, TypeOK, Shape, ParentInv, OneWatchdog, LaunchInv, CommandInv, Next
  PROVE  LaunchInv'
<1>1. ASSUME NEW w \in Pid,
             NameSelf(w) \/ CheckOwner(w) \/ TakeLock(w) \/ Own(w) \/ Spawn(w) \/ Fork(w) \/
             ForkFails(w) \/ Assign(w) \/ SeesExit(w)
      PROVE  LaunchInv'
  BY <1>1
  DEF NameSelf, CheckOwner, TakeLock, Own, Spawn, Fork, ForkFails, Assign, SeesExit, Goes,
      Leaves, Kill, Shape, OneWatchdog, LaunchInv, Does, Watchers, Loop, Watching, Early
<1>2. ASSUME NEW w \in Pid,
             SeesHang(w) \/ KillHung(w) \/ EndWatchdog(w) \/ LoseWatchdog(w)
      PROVE  LaunchInv'
  BY <1>2
  DEF SeesHang, KillHung, EndWatchdog, LoseWatchdog, Terminated, MayLose, Kill, Alone,
      Leaves, LaunchInv, Watchers, Loop, Watching, Early
<1>3. ASSUME NEW b \in Pid, FirstBeat(b) PROVE LaunchInv'
  BY <1>3 DEF FirstBeat, Goes, LaunchInv, Does, Watchers, Loop, Watching, Early
<1>4. ASSUME NEW b \in Pid, Booted(b) PROVE LaunchInv'
  BY <1>4 DEF Booted, Goes, LaunchInv, Does, Watchers, Loop, Watching, Early
<1>5. ASSUME NEW b \in Pid, Beat(b) PROVE LaunchInv'
  BY <1>5 DEF Beat, LaunchInv, Does, Watchers
<1>6. ASSUME NEW b \in Pid, Hang(b) PROVE LaunchInv'
  BY <1>6 DEF Hang, Goes, files, LaunchInv, Does, Watchers, Loop, Watching, Early
<1>7. ASSUME NEW b \in Pid, Crash(b) \/ TermBot(b) PROVE LaunchInv'
  BY <1>7
  DEF Crash, TermBot, Kill, files, Terminated, LaunchInv, Does, Watchers, Loop, Watching,
      Early, Trading, Booting, Beating
<1>8. ASSUME NEW o \in Operators, Settled, StartChecks(o) \/ StopFinds(o) PROVE LaunchInv'
  BY <1>8 DEF StartChecks, StopFinds, LaunchInv, Watchers, Settled, Loop, Watching, Early
<1>9. ASSUME NEW o \in Operators,
             StartCleans(o) \/ StopSweeps(o) \/ StopCleans(o)
      PROVE  LaunchInv'
  BY <1>9
  DEF StartCleans, StopSweeps, StopCleans, Step, Kill, LaunchInv, CommandInv, Watchers,
      Alives, Alive, Watching, Early
<1>10. ASSUME NEW o \in Operators, StartSpawns(o) PROVE LaunchInv'
  <2>1. PICK n \in Pid : LaunchedAlone(n)
    BY <1>10, LaunchesAlone
  <2> QED BY <2>1, ProcessAssumption DEF LaunchedAlone, files, LaunchInv, Does
<1>11. ASSUME NEW o \in Operators, StartFails(o) PROVE LaunchInv'
  BY <1>11 DEF StartFails, Step, files, LaunchInv, Does, Watchers
<1>12. ASSUME NEW o \in Operators, StartWrites(o) \/ StopUnlinksPid(o) PROVE LaunchInv'
  BY <1>12, MinIsIn
  DEF StartWrites, StopUnlinksPid, Step, LaunchInv, CommandInv, Stopping, Watchers, Settled,
      Loop, Watching, Early, Pid
<1>13. ASSUME NEW o \in Operators, StopKills(o) PROVE LaunchInv'
  BY <1>13
  DEF StopKills, Step, Kill, LaunchInv, CommandInv, Stopping, Watchers, Settled, Loop,
      Watching, Early, Pid
<1>14. ASSUME NEW o \in Operators, StopLists(o) PROVE LaunchInv'
  BY <1>14 DEF StopLists, Step, files, LaunchInv, Does, Watchers
<1>15. ASSUME NEW o \in Operators, StopEnds(o) PROVE LaunchInv'
  BY <1>15 DEF StopEnds, Step, files, LaunchInv, Does, Watchers
<1>16. ASSUME Ages \/ PowerLoss PROVE LaunchInv'
  BY <1>16 DEF Ages, PowerLoss, Kill, LaunchInv, Does, Watchers, Early
<1>17. ASSUME LaunchByHand PROVE LaunchInv'
  BY <1>17, NewPidIsFresh
  DEF LaunchByHand, Start, files, LaunchInv, Does, Watchers, Settled, Loop
<1> QED BY <1>1, <1>2, <1>3, <1>4, <1>5, <1>6, <1>7, <1>8, <1>9, <1>10, <1>11, <1>12, <1>13,
           <1>14, <1>15, <1>16, <1>17
     DEF Next, WatchdogStep, Monitor, BotStep, Command, Proceeds

\* What a command knows of the processes stays true while others go on.
LEMMA CommandInvStep ==
  ASSUME Alone, TypeOK, Shape, ParentInv, OneWatchdog, OwnerInv, BotInv, LaunchInv,
       CommandInv, Next
  PROVE  CommandInv'
<1>1. ASSUME NEW w \in Pid,
             NameSelf(w) \/ CheckOwner(w) \/ TakeLock(w) \/ Own(w) \/ Spawn(w) \/
             ForkFails(w) \/ Assign(w) \/ SeesHang(w) \/ KillHung(w) \/ SeesExit(w) \/
             EndWatchdog(w) \/ LoseWatchdog(w)
      PROVE  CommandInv'
  BY <1>1
  DEF NameSelf, CheckOwner, TakeLock, Own, Spawn, ForkFails, Assign, SeesHang, KillHung,
      SeesExit, EndWatchdog, LoseWatchdog, Goes, Leaves, Kill, Terminated, Shape,
      CommandInv, Watchers, Alives, Alive, Settled, Loop, Watching, Early
<1>2. ASSUME NEW w \in Pid, Fork(w) PROVE CommandInv'
  BY <1>2
  DEF Fork, Shape, CommandInv, Watchers, Alives, Alive, Settled, Loop, Watching, Early, Pid
<1>3. ASSUME NEW b \in Pid, FirstBeat(b) PROVE CommandInv'
  BY <1>3
  DEF FirstBeat, Goes, CommandInv, Watchers, Alives, Alive, Settled, Loop, Watching, Early
<1>4. ASSUME NEW b \in Pid, Booted(b) PROVE CommandInv'
  BY <1>4
  DEF Booted, Goes, CommandInv, Watchers, Alives, Alive, Settled, Loop, Watching, Early
<1>5. ASSUME NEW b \in Pid, Beat(b) \/ Crash(b) \/ TermBot(b) PROVE CommandInv'
  BY <1>5
  DEF Beat, Crash, TermBot, Kill, Terminated, CommandInv, Watchers, Alives, Alive, Settled,
      Loop, Watching, Early
<1>6. ASSUME NEW b \in Pid, Hang(b) PROVE CommandInv'
  BY <1>6 DEF Hang, Goes, CommandInv, Watchers, Alives, Alive, Settled, Loop, Watching, Early
<1>7. ASSUME NEW o \in Operators, Settled, StartChecks(o) PROVE CommandInv'
  BY <1>7, FoundIfAlive DEF StartChecks, Step, Alone, CommandInv, Stopping, Alives, Alive
<1>8. ASSUME NEW o \in Operators,
             StartCleans(o) \/ StartFails(o) \/ StartWrites(o) \/ StopUnlinksPid(o) \/
             StopCleans(o) \/ StopEnds(o)
      PROVE  CommandInv'
  BY <1>8
  DEF StartCleans, StartFails, StartWrites, StopUnlinksPid, StopCleans, StopEnds, Step,
      Alone, Kill, Shape, CommandInv, Stopping, Watchers, Alives, Alive, Settled
<1>9. ASSUME NEW o \in Operators, StartSpawns(o) PROVE CommandInv'
  <2>1. PICK n \in Pid : LaunchedAlone(n)
    BY <1>9, LaunchesAlone
  <2> QED BY <2>1, ProcessAssumption DEF LaunchedAlone, files, CommandInv, Stopping,
       Watchers, Loop, Watching, Early
<1>10. ASSUME NEW o \in Operators, Settled, StopFinds(o) PROVE CommandInv'
  BY <1>10 DEF StopFinds, Step, CommandInv, Watchers, Alives, Alive, Settled
<1>11. ASSUME NEW o \in Operators, StopKills(o) PROVE CommandInv'
  BY <1>11
  DEF StopKills, Step, Kill, CommandInv, Stopping, Watchers, Alives, Alive, Settled, Loop,
      Watching, Early
<1>12. ASSUME NEW o \in Operators, StopLists(o) PROVE CommandInv'
  BY <1>12
  DEF StopLists, Step, Listed, CommandInv, Stopping, Watchers, Alives, Alive, Settled, Loop,
      Pid
<1>13. ASSUME NEW o \in Operators, StopSweeps(o) PROVE CommandInv'
  BY <1>13
  DEF StopSweeps, Step, Kill, Listed, CommandInv, Watchers, Alives, Alive, Settled, Loop,
      Watching, Early
<1>14. ASSUME Ages \/ LaunchByHand \/ PowerLoss PROVE CommandInv'
  BY <1>14
  DEF Ages, LaunchByHand, PowerLoss, Idle, CommandInv, Stopping, Watchers, Alives, Alive,
      Settled
<1> QED BY <1>1, <1>2, <1>3, <1>4, <1>5, <1>6, <1>7, <1>8, <1>9, <1>10, <1>11, <1>12, <1>13,
           <1>14
     DEF Next, WatchdogStep, Monitor, BotStep, Command, Proceeds

\* One step of the processes, or none.
LEMMA SupStep == ASSUME Alone PROVE SupInv /\ [Next]_vars => SupInv'
<1> SUFFICES ASSUME SupInv, [Next]_vars PROVE SupInv'
  OBVIOUS
<1>1. /\ TypeOK /\ Shape /\ ParentInv /\ OneWatchdog /\ OwnerInv
      /\ BotInv /\ LaunchInv /\ CommandInv
  BY ShapeOK DEF SupInv
<1>2. CASE Next
  <2>1. TypeOK' /\ ParentInv'
    BY <1>1, <1>2, TypeOKStep, ParentInvStep
  <2>2. OneWatchdog' /\ OwnerInv'
    BY <1>1, <1>2, OneWatchdogStep, OwnerInvStep
  <2>3. BotInv' /\ LaunchInv' /\ CommandInv'
    BY <1>1, <1>2, BotInvStep, LaunchInvStep, CommandInvStep
  <2> QED BY <2>1, <2>2, <2>3 DEF SupInv
<1>3. CASE UNCHANGED vars
  BY <1>1, <1>3 DEF vars, SupInv, TypeOK, ParentInv, OneWatchdog, OwnerInv, BotInv, LaunchInv,
     CommandInv, Watchers, Bots, Alives, Alive, Settled, Does
<1> QED BY <1>2, <1>3

\* A bot for each number that trades; of one there is one number.
LEMMA OneBotIsOneTrader == BotInv => OneTrader
<1> SUFFICES ASSUME BotInv PROVE Cardinality(Bots) <= 1
  BY DEF OneTrader
<1>1. CASE Bots = {}
  <2>1. Cardinality({}) = 0
    BY FS_EmptySet
  <2> QED BY <1>1, <2>1
<1>2. CASE \E b \in Bots : Bots = {b}
  <2>1. PICK b \in Bots : Bots = {b}
    BY <1>2
  <2>2. Cardinality({b}) = 1
    BY FS_Singleton
  <2> QED BY <2>1, <2>2
<1> QED BY <1>1, <1>2 DEF BotInv

LEMMA SupFindable == SupInv => Findable
BY FoundIfAlive DEF SupInv, Findable

LEMMA SupStopIsFinal == SupInv => StopIsFinal
BY DEF SupInv, CommandInv, StopIsFinal

-----------------------------------------------------------------------------
(* The theorems about the processes *)

\* The processes go on beside the settings as they do without them.
LEMMA Invariance == ASSUME Alone PROVE SettingsSpec => []SupInv
<1>1. [SettingsNext]_allvars => [Next]_vars
  BY DEF SettingsNext, Process, LoadEnv, Enter, Post, DashboardRestarts, allvars
<1>2. SettingsInit => SupInv
  BY SupInitInv DEF SettingsInit
<1> QED BY <1>1, <1>2, SupStep, PTL DEF SettingsSpec

\* No second bot on the account (trading_watchdog.py's lock and owner file): for
\* any number of processes, signals, crashes, losses of watchdogs and of power,
\* launches by hand and commands of one operator.
THEOREM OneAlwaysTrades == ASSUME Alone PROVE SettingsSpec => []OneTrader
<1>1. SupInv => OneTrader
  BY OneBotIsOneTrader DEF SupInv
<1> QED BY <1>1, Invariance, PTL

\* After stop nothing runs: what was forked while it listed and killed has no
\* watchdog left, and is in the second listing (process_manager.py).
THEOREM StopAlwaysFinal == ASSUME Alone PROVE SettingsSpec => []StopIsFinal
BY SupStopIsFinal, Invariance, PTL

\* What runs while no command does is named by the pid file, the owner file or
\* the heartbeat (find_bot_processes).
THEOREM AlwaysFindable == ASSUME Alone PROVE SettingsSpec => []Findable
BY SupFindable, Invariance, PTL

-----------------------------------------------------------------------------
(* The settings: what files and limits have in common *)

Whole(g) ==
  /\ g \in [Keys -> Nat]
  /\ g.scalp >= 1
  /\ g.open = g.scalp + g.swing + g.listing

File(e) ==
  /\ e \in [Keys -> Int]
  /\ {e.swing, e.listing, e.open} \subseteq Nat /\ e.scalp \in Nat \cup {Unset}
  /\ ScalpOf(e) >= 1
  /\ e.open = ScalpOf(e) + e.swing + e.listing

Answers == {"nothing", "applied", "failed"}

SettingsInv ==
  /\ File(env) /\ File(dash)
  /\ limits \in [Pid -> [Keys -> Int]]
  /\ \A b \in Pid : limits[b] = None \/ Whole(limits[b])
  /\ \A b \in Pid : proc[b] \notin Trading => limits[b] = None
  /\ \A b \in Pid : MayAnswer(b) => limits[b] # None
  /\ save \in [step : {"idle", "saved"}, told : Answers]
  /\ save.step = "saved" => env = dash /\ Whole(dash)

-----------------------------------------------------------------------------
(* The operators *)

\* A bot that starts with a file takes its slots over as they are.
LEMMA StartTakesFile ==
  ASSUME NEW e, File(e)
  PROVE  /\ AtStart(e) = [k \in Keys |-> IF k = "scalp" THEN ScalpOf(e) ELSE e[k]]
         /\ Whole(AtStart(e))
<1> DEFINE sc == ScalpOf(e)
<1>1. /\ e.swing \in Nat /\ e.listing \in Nat /\ e.open \in Nat
      /\ sc \in Nat /\ sc >= 1
      /\ e.open = sc + e.swing + e.listing
  BY DEF File, ScalpOf, Left, Positive, Unset
<1>2. /\ Least(e.open, e.swing) = e.swing
      /\ Least(e.open, e.listing) = e.listing
      /\ Left(e.open, e.swing, e.listing) = sc
  <2> HIDE DEF sc
  <2> QED BY <1>1 DEF Least, Left, Positive
<1>3. AtStart(e) = [open |-> e.open, swing |-> e.swing, listing |-> e.listing, scalp |-> sc]
  <2> HIDE DEF sc
  <2> QED BY <1>2 DEF AtStart
<1>4. AtStart(e) = [k \in Keys |-> IF k = "scalp" THEN sc ELSE e[k]]
  <2> HIDE DEF sc
  <2> QED BY <1>3 DEF Keys, Slots
<1>5. Whole(AtStart(e))
  <2> HIDE DEF sc
  <2> QED BY <1>1, <1>3 DEF Whole, Keys, Slots
<1> QED BY <1>4, <1>5

\* Hot reload of what was saved arrives where a start with it would.
LEMMA ReloadIsStart ==
  ASSUME NEW e, NEW g, File(e), Whole(e)
  PROVE  Updated(g, e) = AtStart(e)
<1>1. ScalpOf(e) = e.scalp
  BY DEF Whole, ScalpOf, Keys, Slots, Unset
<1>2. e \in [Keys -> Nat] /\ e.open = e.scalp + e.swing + e.listing
  BY DEF Whole
<1>3. AtStart(e) = [k \in Keys |-> IF k = "scalp" THEN e.scalp ELSE e[k]]
  BY <1>1, StartTakesFile
<1>4. AtStart(e) = e
  BY <1>2, <1>3 DEF Keys, Slots
<1>5. Updated(g, e) = e
  BY <1>2 DEF Updated, Keys, Slots
<1> QED BY <1>4, <1>5

\* A page saved with one slot changed makes a file with the sum of its slots.
LEMMA PageIsFile ==
  ASSUME NEW page \in [Slots -> Nat], page.scalp >= 1,
         NEW k \in Slots, NEW n \in SlotChoices[k], NEW old
  PROVE  /\ File(Normalized(Entered(page, k, n), old))
         /\ Whole(Normalized(Entered(page, k, n), old))
<1> DEFINE from == Entered(page, k, n)
           sum == from.scalp + from.swing + from.listing
           new == [i \in Keys |-> IF i = "open" THEN sum ELSE from[i]]
<1>1. n \in Nat /\ (k = "scalp" => n >= 1)
  BY SettingsAssumption DEF Slots
<1>2. /\ from.scalp \in Nat /\ from.scalp >= 1
      /\ from.swing \in Nat /\ from.listing \in Nat
  BY <1>1 DEF Entered, Keys, Slots
<1>3. sum \in Nat /\ sum >= 1 /\ AtLeastOne(sum) = sum
  <2> HIDE DEF from
  <2> QED BY <1>2 DEF AtLeastOne
<1>4. Normalized(from, old) = new
  <2>1. Normalized(from, old) = [from EXCEPT !.open = AtLeastOne(sum)]
    BY DEF Normalized
  <2>2. [from EXCEPT !.open = sum] = new
    <3> HIDE DEF sum
    <3> QED BY DEF Entered, Keys
  <2> QED BY <2>1, <2>2, <1>3
<1>5. /\ new.open = sum /\ new.scalp = from.scalp
      /\ new.swing = from.swing /\ new.listing = from.listing
      /\ new \in [Keys -> Nat]
  <2>1. \A i \in Keys \ {"open"} : from[i] \in Nat
    <3> HIDE DEF from
    <3> QED BY <1>2 DEF Keys, Slots
  <2> HIDE DEF from, sum
  <2> QED BY <1>3, <2>1 DEF Keys, Slots
<1>6. Whole(new)
  <2> HIDE DEF from, new
  <2> QED BY <1>2, <1>5 DEF Whole
<1>7. ScalpOf(new) = new.scalp
  <2> HIDE DEF from, new
  <2> QED BY <1>2, <1>5 DEF ScalpOf, Unset
<1>8. File(new)
  <2> HIDE DEF from, new
  <2> QED BY <1>2, <1>5, <1>6, <1>7 DEF File, Whole
<1> QED BY <1>4, <1>6, <1>8

-----------------------------------------------------------------------------
(* The invariant *)

\* .env as it is shipped.
LEMMA SettingsInitInv == SettingsInit => SettingsInv
<1> SUFFICES ASSUME SettingsInit PROVE SettingsInv
  OBVIOUS
<1>1. File(env)
  BY DEF SettingsInit, File, ScalpOf, Left, Positive, Keys, Slots, Unset
<1>2. None \in [Keys -> Int]
  BY DEF None, Unset
<1>3. \A b \in Pid : ~MayAnswer(b)
  BY DEF SettingsInit, Init, MayAnswer
<1> QED BY <1>1, <1>2, <1>3 DEF SettingsInit, SettingsInv, Answers

\* What the page shows are slots, at least one of them for scalps.
LEMMA ShownAreSlots ==
  ASSUME SettingsInv, NEW page \in Shown
  PROVE  page \in [Slots -> Nat] /\ page.scalp >= 1
<1>1. CASE page = OwnSlots
  <2>1. ScalpOf(dash) \in Nat /\ ScalpOf(dash) >= 1
    BY DEF SettingsInv, File, ScalpOf, Left, Positive, Unset
  <2> QED BY <1>1, <2>1 DEF OwnSlots, SettingsInv, File, Slots, Keys
<1>2. CASE \E b \in Bots : MayAnswer(b) /\ page = [k \in Slots |-> limits[b][k]]
  <2>1. PICK b \in Bots : MayAnswer(b) /\ page = [k \in Slots |-> limits[b][k]]
    BY <1>2
  <2>2. Whole(limits[b])
    BY <2>1 DEF SettingsInv, Bots
  <2> QED BY <2>1, <2>2 DEF Whole, Slots, Keys
<1> QED BY <1>1, <1>2 DEF Shown, BotSlots

LEMMA SettingsStep == SettingsInv /\ [SettingsNext]_allvars => SettingsInv'
<1> SUFFICES ASSUME SettingsInv, [SettingsNext]_allvars PROVE SettingsInv'
  OBVIOUS
<1> USE DEF SettingsInv
<1>0. None \in [Keys -> Int]
  BY DEF None, Unset
<1>1. CASE Process
  BY <1>0, <1>1 DEF Process, MayAnswer, Trading, Booting, Beating
<1>2. CASE \E b \in Pid : LoadEnv(b)
  <2>1. PICK b \in Pid : LoadEnv(b)
    BY <1>2
  <2>2. Whole(AtStart(env)) /\ AtStart(env) \in [Keys -> Int] /\ AtStart(env) # None
    BY StartTakesFile DEF Whole, None, Unset, Keys, Slots
  <2> QED BY <2>1, <2>2 DEF LoadEnv, vars, MayAnswer, Trading, Booting
<1>3. CASE Enter
  <2>1. PICK page \in Shown, k \in Slots : \E n \in SlotChoices[k] :
          dash' = Normalized(Entered(page, k, n), dash)
    BY <1>3 DEF Enter, Written
  <2>2. page \in [Slots -> Nat] /\ page.scalp >= 1
    BY ShownAreSlots
  <2>3. File(dash') /\ Whole(dash')
    BY <2>1, <2>2, PageIsFile
  <2>4. /\ UNCHANGED <<vars, limits>>
        /\ save'.step = "saved" => env' = dash'
        /\ env' = dash' \/ env' = env
        /\ save' \in [step : {"idle", "saved"}, told : Answers]
    BY <1>3 DEF Enter, Written
  <2> QED BY <2>3, <2>4 DEF vars, MayAnswer
<1>4. CASE Post
  <2>1. UNCHANGED <<vars, env, dash>> /\ save' \in [step : {"idle", "saved"}, told : Answers]
        /\ save'.step = "idle"
    BY <1>4 DEF Post, Told, Answers
  <2>2. \A g : Whole(Updated(g, dash)) /\ Updated(g, dash) # None
                /\ Updated(g, dash) \in [Keys -> Int]
    BY <1>4, ReloadIsStart, StartTakesFile DEF Post, Whole, None, Unset, Keys, Slots
  <2>3. \/ UNCHANGED limits
        \/ \E b \in Bots : MayAnswer(b) /\ limits' = [limits EXCEPT ![b] = Updated(limits[b], dash)]
    BY <1>4 DEF Post, HotReload, Told
  <2>4. CASE UNCHANGED limits
    BY <2>1, <2>4 DEF vars, MayAnswer
  <2>5. CASE \E b \in Bots : MayAnswer(b) /\ limits' = [limits EXCEPT ![b] = Updated(limits[b], dash)]
    <3>1. PICK b \in Bots : limits' = [limits EXCEPT ![b] = Updated(limits[b], dash)]
      BY <2>5
    <3>2. proc' = proc /\ b \in Pid /\ proc[b] \in Trading
      BY <2>1 DEF vars, Bots
    <3>3. \A c \in Pid : c # b => limits'[c] = limits[c]
      BY <3>1
    <3>4. limits'[b] = Updated(limits[b], dash) /\ limits' \in [Pid -> [Keys -> Int]]
      BY <2>2, <3>1, <3>2
    <3> QED BY <2>1, <2>2, <3>2, <3>3, <3>4 DEF MayAnswer
  <2> QED BY <2>3, <2>4, <2>5
<1>5. CASE DashboardRestarts
  <2>1. /\ UNCHANGED <<vars, env, limits>> /\ dash' = env
        /\ save' \in [step : {"idle", "saved"}, told : Answers]
        /\ save'.step = "idle"
    BY <1>5 DEF DashboardRestarts, Answers
  <2> QED BY <2>1 DEF vars, MayAnswer
<1>6. CASE UNCHANGED allvars
  BY <1>6 DEF allvars, svars, vars, MayAnswer
<1> QED BY <1>1, <1>2, <1>3, <1>4, <1>5, <1>6 DEF SettingsNext

-----------------------------------------------------------------------------
(* The theorem about the settings *)

\* Two bots of a set of one are the same bot.
LEMMA OneIsTheSame ==
  ASSUME OneTrader, NEW b \in Bots, NEW c \in Bots
  PROVE  b = c
<1>1. IsFiniteSet(Pid) /\ Bots \in SUBSET Pid
  BY FS_Interval, ProcessAssumption DEF Pid, Bots
<1>2. IsFiniteSet(Bots) /\ {b, c} \in SUBSET Bots
  BY <1>1, FS_Subset
<1>3. Cardinality({b, c}) <= 1 /\ IsFiniteSet({b, c})
  <2>1. Cardinality({b, c}) <= Cardinality(Bots) /\ IsFiniteSet({b, c})
    BY <1>2, FS_Subset
  <2>2. Cardinality(Bots) \in Nat /\ Cardinality({b, c}) \in Nat
    BY <1>2, <2>1, FS_CardinalityType
  <2> QED BY <2>1, <2>2 DEF OneTrader
<1>4. SUFFICES ASSUME b # c PROVE FALSE
  OBVIOUS
<1>5. Cardinality({b, c} \ {b}) = Cardinality({b, c}) - 1
  BY <1>3, FS_RemoveElement
<1>6. {b, c} \ {b} = {c}
  BY <1>4
<1>7. Cardinality({c}) = 1
  BY FS_Singleton
<1>8. Cardinality({b, c}) \in Nat
  BY <1>3, FS_CardinalityType
<1>9. Cardinality({b, c}) - 1 = 1
  BY <1>5, <1>6, <1>7
<1> QED BY <1>3, <1>8, <1>9

LEMMA ReportedStep ==
  SettingsInv /\ OneTrader /\ StaleIsReported /\ [SettingsNext]_allvars => StaleIsReported'
<1> SUFFICES ASSUME SettingsInv, OneTrader, StaleIsReported, [SettingsNext]_allvars,
                    NEW b \in Bots', limits'[b] \notin {None, AtStart(env')}
             PROVE  save'.step = "saved" \/ save'.told = "failed"
  BY DEF StaleIsReported
<1>0. b \in Pid
  BY DEF Bots, Pid
<1>1. CASE Process
  <2>1. limits'[b] = limits[b] /\ UNCHANGED <<env, save>>
    BY <1>0, <1>1 DEF Process
  <2>2. b \in Bots
    BY <1>0, <2>1 DEF SettingsInv, Bots
  <2> QED BY <2>1, <2>2 DEF StaleIsReported
<1>2. CASE \E c \in Pid : LoadEnv(c)
  <2>1. PICK c \in Pid : LoadEnv(c)
    BY <1>2
  <2>2. c # b
    BY <1>0, <2>1 DEF LoadEnv, SettingsInv
  <2>3. limits'[b] = limits[b] /\ UNCHANGED <<env, save>> /\ b \in Bots
    BY <2>1, <2>2 DEF LoadEnv, vars, Bots
  <2> QED BY <2>3 DEF StaleIsReported
<1>3. CASE Enter
  <2>1. save'.step = "saved" \/ UNCHANGED <<vars, env, limits, save>>
    BY <1>3 DEF Enter, Written, SettingsInv
  <2> QED BY <2>1 DEF StaleIsReported, vars, Bots
<1>4. CASE Post
  <2>1. CASE save'.told = "failed"
    BY <2>1
  <2>2. CASE save'.told # "failed"
    <3>1. PICK c \in Bots : limits' = [limits EXCEPT ![c] = Updated(limits[c], dash)]
      BY <1>4, <2>2 DEF Post, HotReload, Told
    <3>2. UNCHANGED vars /\ UNCHANGED env /\ save.step = "saved"
      BY <1>4 DEF Post, HotReload, Told
    <3>3. b = c
      BY <3>2, OneIsTheSame DEF Bots, vars
    <3>4. limits'[b] = Updated(limits[b], dash)
      BY <1>0, <3>1, <3>3 DEF SettingsInv
    <3>5. limits'[b] = AtStart(env')
      BY <3>2, <3>4, ReloadIsStart DEF SettingsInv
    <3> QED BY <3>5
  <2> QED BY <2>1, <2>2
<1>5. CASE DashboardRestarts
  <2>1. UNCHANGED <<vars, env, limits>> /\ ((save' = save /\ save.step = "idle") \/ save'.told = "failed")
    BY <1>5 DEF DashboardRestarts
  <2> QED BY <2>1 DEF StaleIsReported, vars, Bots
<1>6. CASE UNCHANGED allvars
  BY <1>6 DEF allvars, svars, vars, StaleIsReported, Bots
<1> QED BY <1>1, <1>2, <1>3, <1>4, <1>5, <1>6 DEF SettingsNext

\* While there is one bot at most, no bot trades with other limits than the
\* saved ones unless the operator was told so or a save is under way.
LEMMA OneIsReported == SettingsSpec /\ []OneTrader => []StaleIsReported
<1>1. SettingsInit => StaleIsReported
  BY DEF SettingsInit, StaleIsReported, Bots, Init, Trading, Booting, Beating
<1> QED BY <1>1, SettingsInitInv, SettingsStep, ReportedStep, PTL DEF SettingsSpec

\* No bot trades with other limits than the saved ones unless the operator was
\* told so or a save is under way (update_settings, update_limits): for any
\* choice of slots, any number of processes, and any failures.
THEOREM StaleAlwaysReported == ASSUME Alone PROVE SettingsSpec => []StaleIsReported
BY OneAlwaysTrades, OneIsReported, PTL
=============================================================================
