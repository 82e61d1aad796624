------------------------------ MODULE Activation ------------------------------
(***************************************************************************)
(* Installing, rolling back and removing the gateway: the commands of       *)
(* apps/gateway/src/cli.ts, over installation.ts (staged runtimes, the      *)
(* pointer current.json, the activation history) and service.ts (the launch *)
(* agent, systemd unit or scheduled task).                                  *)
(*                                                                         *)
(* A command is a list of steps, each of which writes one thing: a file,    *)
(* or a call to the service manager.  Any step may fail, and the command    *)
(* then reverts as its catch block does; it may be killed, or the machine   *)
(* restarted, between any two.  A command that refuses at its start changes *)
(* nothing and is no action.                                               *)
(*                                                                         *)
(* Abstracted: what a payload and a configuration hold (a configuration is  *)
(* one of Setting), the listeners of other programs, services of another    *)
(* root, runtimes older than the readiness instance, the wording.           *)
(***************************************************************************)
EXTENDS Integers, FiniteSets, Sequences, SequencesExt

CONSTANTS
  Version,        (* staged runtimes, by name of their directory             *)
  Setting,        (* configurations an install may ask for                   *)
  Platform,       (* "linux", "darwin", "win32"                              *)
  None,
  RetentionLimit, (* RUNTIME_RETENTION_LIMIT                                 *)
  HistoryLimit,   (* ACTIVATION_HISTORY_LIMIT                                *)
  MaxCommands,    (* bound: commands run                                     *)
  MaxRotations,   (* bound: commands that rotate the token                   *)
  MaxFaults       (* bound: failed steps, kills, restarts, damage            *)

ASSUME ActivationAssumption ==
  /\ None \notin Version \cup Setting
  /\ Platform \subseteq {"linux", "darwin", "win32"}
  /\ {RetentionLimit, HistoryLimit} \subseteq Nat \ {0, 1}
  /\ {MaxCommands, MaxRotations, MaxFaults} \subseteq Nat

VARIABLES
  disk,    (* the files of the installation                                  *)
  manager, (* what the service manager has loaded and runs                   *)
  op,      (* the command under way, or how the last one ended               *)
  spent    (* how much of each bound is used up                              *)

vars == <<disk, manager, op, spent>>

Disk ==
  [config : Setting \cup {None},     (* config.json                           *)
   token : Nat,                      (* readiness-token                       *)
   staged : SUBSET Version,          (* versions/                             *)
   pointer : Version \cup {None},    (* current.json                          *)
   history : Seq(Version),           (* history.json                          *)
   damaged : BOOLEAN,                (* history.json cannot be read           *)
   definition : Version \cup {None}] (* the service definition's program      *)

(* A running gateway has read its files when it was started.                  *)
Process == [version : Version, token : Nat, config : Setting \cup {None}]

Manager ==
  [platform : Platform,
   registered : Version \cup {None}, (* unit, job or task the manager holds    *)
   running : Process \cup {None}]

Step == {"configure", "stage", "rotate", "define", "stop", "load", "start", "ready",
         "point", "record", "prune", "restore", "halt", "disable", "remove"}

Op ==
  [cmd : {"none", "install", "rollback", "rotate", "uninstall"},
   todo : Seq(Step),
   way : {"forward", "revert"},
   target : Version \cup {None},   (* runtime being put in place               *)
   start : BOOLEAN,                (* the service is to be started             *)
   settings : Setting \cup {None}, (* configuration an install asks for        *)
   installed : BOOLEAN, active : BOOLEAN,   (* priorService, or service        *)
   prior : Version \cup {None},    (* priorRuntime; what the pointer named     *)
   config : Setting \cup {None},   (* configSnapshot                           *)
   touched : BOOLEAN,              (* serviceAttempted                         *)
   errors : BOOLEAN,               (* the revert failed too                    *)
   proven : SUBSET Version,        (* runtimes that answered in this command   *)
   outcome : {"none", "ok", "failed", "incomplete", "killed"}]

TypeOK ==
  /\ disk \in Disk /\ Len(disk.history) <= HistoryLimit
  /\ manager \in Manager
  /\ op \in Op
  /\ spent \in [commands : Nat, rotations : Nat, faults : Nat]

NoOp ==
  [cmd |-> "none", todo |-> <<>>, way |-> "forward", target |-> None, start |-> FALSE,
   settings |-> None, installed |-> FALSE, active |-> FALSE, prior |-> None,
   config |-> None, touched |-> FALSE, errors |-> FALSE, proven |-> {},
   outcome |-> "none"]

Init ==
  /\ disk = [config |-> None, token |-> 0, staged |-> {}, pointer |-> None,
             history |-> <<>>, damaged |-> FALSE, definition |-> None]
  /\ manager \in [platform : Platform, registered : {None}, running : {None}]
  /\ op = NoOp
  /\ spent = [commands |-> 0, rotations |-> 0, faults |-> 0]

Idle == op.todo = <<>>

(* userServiceStatus: systemd keeps an enabled unit, launchd a file and the job   *)
(* it has loaded, the task scheduler its own copy.                               *)
Installed ==
  CASE manager.platform = "linux" -> disk.definition # None /\ manager.registered # None
    [] manager.platform = "darwin" -> disk.definition # None
    [] OTHER -> manager.registered # None

Active == IF manager.platform = "darwin" THEN manager.registered # None
                                         ELSE manager.running # None

-----------------------------------------------------------------------------
(* History: which activation preceded which.                                   *)

LastIndex(v) == LET at == {i \in 1 .. Len(disk.history) : disk.history[i] = v}
                IN CHOOSE i \in at : \A j \in at : j <= i

(* recordedPredecessor of the active version: the nearest other entry before its  *)
(* last one.                                                                    *)
Predecessors ==
  IF disk.damaged \/ disk.pointer \notin ToSet(disk.history) THEN {}
  ELSE LET before == SubSeq(disk.history, 1, LastIndex(disk.pointer) - 1)
           others == {i \in DOMAIN before : before[i] # disk.pointer}
       IN {before[i] : i \in {i \in others : \A j \in others : j <= i}}

(* Mutant of Retained: the window is one too short.                                *)
RetainedFewer ==
  {v \in ToSet(disk.history) :
     Cardinality({disk.history[i] : i \in (LastIndex(v) + 1) .. Len(disk.history)})
       < RetentionLimit - 1}

(* The versions pruning keeps: the most recent distinct activations, whatever the  *)
(* service definition names.                                                     *)
Retained ==
  {v \in ToSet(disk.history) :
     Cardinality({disk.history[i] : i \in (LastIndex(v) + 1) .. Len(disk.history)})
       < RetentionLimit}
  \cup {disk.definition}

-----------------------------------------------------------------------------
(* The steps of installUserService, in order, for a service to start or not.       *)
ServiceSteps(start) ==
  <<"define", "stop", "load">> \o (IF start THEN <<"start", "ready">> ELSE <<>>)

(* Mutant of Committed: the pointer moves before the runtime has answered.           *)
CommittedEarly(start) ==
  <<"define", "stop", "load">>
    \o (IF start THEN <<"start", "point", "ready", "record">> ELSE <<"point", "record">>)

(* activateRuntime, after the service has proven ready.                             *)
Committed(start) == ServiceSteps(start) \o <<"point", "record">>

UninstallSteps(active) ==
  (IF manager.platform # "linux" /\ active THEN <<"halt">> ELSE <<>>)
    \o <<"disable", "remove">>

Begin(new) ==
  /\ Idle
  /\ spent.commands < MaxCommands
  /\ op' = new
  /\ spent' = [spent EXCEPT !.commands = @ + 1]
  /\ UNCHANGED <<disk, manager>>

(* What every command reads first.                                                *)
Read(cmd) ==
  [NoOp EXCEPT !.cmd = cmd, !.installed = Installed, !.active = Active,
               !.prior = disk.pointer, !.config = disk.config]

(* runInstall.                                                                    *)
Install(v, start, settings) ==
  /\ start \/ ~Active
  /\ disk.config # None => /\ Active => Installed
                           /\ Installed => disk.pointer \in disk.staged
  /\ Begin([Read("install") EXCEPT
              !.target = v, !.start = start, !.settings = settings,
              !.todo = <<"configure", "stage">> \o Committed(start)
                         \o (IF start THEN <<"prune">> ELSE <<>>)])

(* Mutant of RollbackTargets: any recorded activation will do.                       *)
RollbackRecorded == ToSet(disk.history) \ {disk.pointer}

(* resolveRollbackTarget: a named version, or the recorded predecessor if it is       *)
(* still installed, which is one of them.                                           *)
RollbackTargets == disk.staged \ {disk.pointer}

(* runRollback.                                                                    *)
Rollback(v) ==
  /\ disk.config # None /\ Installed
  /\ disk.pointer # None /\ Cardinality(disk.staged) >= 2
  /\ v \in RollbackTargets
  /\ Begin([Read("rollback") EXCEPT
              !.target = v, !.start = Active, !.touched = TRUE,
              !.todo = Committed(Active)])

(* runRotateToken.                                                                  *)
Rotate ==
  /\ disk.config # None /\ spent.rotations < MaxRotations
  /\ Active => Installed /\ disk.pointer \in disk.staged
  /\ Idle /\ spent.commands < MaxCommands
  /\ op' = [Read("rotate") EXCEPT
              !.target = disk.pointer, !.start = Active,
              !.todo = <<"rotate">> \o (IF Active THEN ServiceSteps(TRUE) ELSE <<>>)]
  /\ spent' = [spent EXCEPT !.commands = @ + 1, !.rotations = @ + 1]
  /\ UNCHANGED <<disk, manager>>

(* runUninstall.                                                                    *)
Uninstall ==
  /\ disk.definition # None \/ manager.registered # None
  /\ Begin([Read("uninstall") EXCEPT !.touched = TRUE, !.todo = UninstallSteps(Active)])

-----------------------------------------------------------------------------
(* One step of a command is done.                                                  *)

Ended(o) ==
  IF o.todo # <<>> THEN o
  ELSE [o EXCEPT !.outcome = IF o.errors THEN "incomplete"
                             ELSE IF o.way = "revert" THEN "failed" ELSE "ok"]

(* gatewayReady: a gateway runs and proves that it knows the token.                   *)
Answers == IF manager.running = None THEN FALSE ELSE manager.running.token = disk.token

(* An install that finds a service, or a gateway, it has no configuration of.        *)
Barred ==
  /\ op.cmd = "install" /\ op.way = "forward" /\ op.config = None
  /\ op.installed \/ Answers

(* Steps that throw by themselves: a barred install; a running task that would be     *)
(* replaced by a stopped one (assertServiceInstallPreflight); a gateway that does not *)
(* run, or runs with another token, asked for its proof.                             *)
Throws(step) ==
  \/ step = "stage" /\ Barred
  \/ step = "define" /\ ~op.start /\ manager.platform = "win32" /\ manager.running # None
  \/ step = "ready" /\ ~Answers

Did(step) == ~Idle /\ Head(op.todo) = step /\ ~Throws(step)

Done == op' = Ended([op EXCEPT !.todo = Tail(@)])

Touched == op' = Ended([op EXCEPT !.todo = Tail(@), !.touched = TRUE])

Configure ==
  /\ Did("configure") /\ Done
  /\ disk' = [disk EXCEPT !.config = op.settings]
  /\ UNCHANGED <<manager, spent>>

Stage ==
  /\ Did("stage") /\ Touched
  /\ disk' = [disk EXCEPT !.staged = @ \cup {op.target}]
  /\ UNCHANGED <<manager, spent>>

RotateToken ==
  /\ Did("rotate") /\ Touched
  /\ disk' = [disk EXCEPT !.token = @ + 1]
  /\ UNCHANGED <<manager, spent>>

Define ==
  /\ Did("define") /\ Done
  /\ disk' = [disk EXCEPT !.definition = op.target]
  /\ UNCHANGED <<manager, spent>>

(* launchctl bootout, or the end of the running task; systemd stops nothing here.   *)
Stop ==
  /\ Did("stop") /\ Done
  /\ manager' = CASE manager.platform = "linux" -> manager
                  [] manager.platform = "darwin" ->
                       IF op.start THEN [manager EXCEPT !.registered = None, !.running = None]
                                   ELSE manager
                  [] OTHER -> [manager EXCEPT !.running = None]
  /\ UNCHANGED <<disk, spent>>

(* daemon-reload and enable, or the creation of the task.                           *)
Load ==
  /\ Did("load") /\ Done
  /\ manager' = IF manager.platform = "darwin" THEN manager
                ELSE [manager EXCEPT !.registered = disk.definition]
  /\ UNCHANGED <<disk, spent>>

Process0(v) == [version |-> v, token |-> disk.token, config |-> disk.config]

(* systemctl restart or start, launchctl bootstrap, schtasks /Run.                   *)
Start ==
  /\ Did("start") /\ Done
  /\ manager' = LET v == IF manager.platform = "darwin" THEN disk.definition
                                                        ELSE manager.registered
                IN [manager EXCEPT !.registered = v, !.running = Process0(v)]
  /\ UNCHANGED <<disk, spent>>

(* waitForGateway: the instance that this command defined answers with the token.    *)
Ready ==
  /\ Did("ready")
  /\ op' = Ended([op EXCEPT !.todo = Tail(@), !.proven = @ \cup {manager.running.version}])
  /\ UNCHANGED <<disk, manager, spent>>

Point ==
  /\ Did("point") /\ Done
  /\ disk' = [disk EXCEPT !.pointer = op.target]
  /\ UNCHANGED <<manager, spent>>

Recent(history) ==
  IF Len(history) > HistoryLimit THEN Tail(history) ELSE history

(* appendActivation: a history that cannot be read is begun again.                   *)
Record ==
  /\ Did("record") /\ Done
  /\ LET old == IF disk.damaged THEN <<>> ELSE disk.history
     IN disk' = IF old # <<>> /\ Last(old) = op.target THEN disk
                ELSE [disk EXCEPT !.history = Recent(Append(old, op.target)), !.damaged = FALSE]
  /\ UNCHANGED <<manager, spent>>

(* pruneSupersededRuntimes: best effort, so any part of what it may remove.          *)
Prune ==
  /\ Did("prune") /\ Done
  /\ LET committed == ~disk.damaged /\ disk.history # <<>> /\ Last(disk.history) = disk.pointer
         victims == IF committed THEN disk.staged \ Retained ELSE {}
     IN \E gone \in SUBSET victims : disk' = [disk EXCEPT !.staged = @ \ gone]
  /\ UNCHANGED <<manager, spent>>

Restore ==
  /\ Did("restore") /\ Done
  /\ disk' = [disk EXCEPT !.config = op.config]
  /\ UNCHANGED <<manager, spent>>

(* stopUserService, and the same calls of uninstallUserService.                       *)
Halt ==
  /\ Did("halt") /\ Done
  /\ manager' = [manager EXCEPT !.running = None,
                                !.registered = IF manager.platform = "darwin" THEN None ELSE @]
  /\ UNCHANGED <<disk, spent>>

(* systemctl disable --now, schtasks /Delete.                                         *)
Disable ==
  /\ Did("disable") /\ Done
  /\ manager' = CASE manager.platform = "linux" ->
                       [manager EXCEPT !.registered = None, !.running = None]
                  [] manager.platform = "win32" -> [manager EXCEPT !.registered = None]
                  [] OTHER -> manager
  /\ UNCHANGED <<disk, spent>>

RemoveDefinition ==
  /\ Did("remove") /\ Done
  /\ disk' = [disk EXCEPT !.definition = None]
  /\ UNCHANGED <<manager, spent>>

-----------------------------------------------------------------------------
(* A step fails: the catch blocks.                                                   *)

(* What an install does to the service after it has restored the configuration.       *)
RevertedService(o) ==
  IF ~o.touched THEN [o EXCEPT !.todo = <<>>]
  ELSE IF ~o.installed THEN [o EXCEPT !.todo = UninstallSteps(Active)]
  ELSE [o EXCEPT !.todo = Committed(o.active), !.target = o.prior, !.start = o.active]

(* Mutant of RevertedInstall: the configuration is left as the install wrote it.        *)
RevertedServiceOnly == Ended(RevertedService([op EXCEPT !.way = "revert"]))

RevertedInstall ==
  LET o == RevertedService([op EXCEPT !.way = "revert"])
  IN [o EXCEPT !.todo = <<"restore">> \o @]

(* Mutant of RevertedRollback: the definition is rebuilt from what was to be.          *)
RevertedToTarget ==
  [op EXCEPT !.way = "revert", !.todo = ServiceSteps(op.active)]

(* The definition is rebuilt from the pointer.                                        *)
RevertedRollback ==
  [op EXCEPT !.way = "revert", !.todo = ServiceSteps(op.active), !.target = disk.pointer]

(* The restore of the configuration failed: the service is not put back either.        *)
Unrestored ==
  [op EXCEPT !.errors = TRUE,
             !.todo = IF op.touched /\ ~op.installed THEN Tail(@) ELSE <<>>]

(* Mutant of HaltedRotation: the gateway is left as the failed restart left it.          *)
UnhaltedRotation == [op EXCEPT !.way = "revert", !.todo = <<>>]

(* The token is kept and the service stopped.                                          *)
HaltedRotation == [op EXCEPT !.way = "revert", !.todo = IF Active THEN <<"halt">> ELSE <<>>]

Failed ==
  CASE op.way = "revert" /\ Head(op.todo) = "restore" -> Unrestored
    [] op.way = "revert" /\ Head(op.todo) # "restore" ->
         [op EXCEPT !.errors = TRUE, !.todo = <<>>]
    [] op.way = "forward" /\ op.cmd = "install" -> RevertedInstall
    [] op.way = "forward" /\ op.cmd = "rollback" -> RevertedRollback
    [] op.way = "forward" /\ op.cmd = "rotate" /\ Head(op.todo) # "rotate" ->
         HaltedRotation
    [] OTHER -> [op EXCEPT !.way = "revert", !.todo = <<>>]

Fails ==
  /\ ~Idle /\ Head(op.todo) # "prune"
  /\ op' = Ended(Failed)
  /\ Throws(Head(op.todo)) \/ spent.faults < MaxFaults
  /\ spent' = [spent EXCEPT !.faults = IF Throws(Head(op.todo)) THEN @ ELSE @ + 1]
  /\ UNCHANGED <<disk, manager>>

-----------------------------------------------------------------------------
(* The world around a command.                                                       *)

Fault == spent.faults < MaxFaults /\ spent' = [spent EXCEPT !.faults = @ + 1]

Killed ==
  /\ Fault /\ ~Idle
  /\ op' = [op EXCEPT !.todo = <<>>, !.outcome = "killed"]
  /\ UNCHANGED <<disk, manager>>

Dies ==
  /\ Fault /\ manager.running # None
  /\ manager' = [manager EXCEPT !.running = None]
  /\ UNCHANGED <<disk, op>>

(* The machine restarts, or the user logs in: the manager starts what it holds, of     *)
(* which systemd and launchd read the file again.                                     *)
Reboot ==
  /\ Fault
  /\ op' = IF Idle THEN op ELSE [op EXCEPT !.todo = <<>>, !.outcome = "killed"]
  /\ manager' = LET v == IF ~Installed THEN None
                         ELSE IF manager.platform = "win32" THEN manager.registered
                         ELSE disk.definition
                IN [manager EXCEPT !.registered = v,
                                   !.running = IF v = None THEN None ELSE Process0(v)]
  /\ UNCHANGED disk

Damage ==
  /\ Fault /\ disk.history # <<>> /\ ~disk.damaged
  /\ disk' = [disk EXCEPT !.damaged = TRUE]
  /\ UNCHANGED <<manager, op>>

-----------------------------------------------------------------------------
Commands ==
  \/ \E v \in Version, start \in BOOLEAN, s \in Setting : Install(v, start, s)
  \/ \E v \in Version : Rollback(v)
  \/ Rotate
  \/ Uninstall

Steps ==
  \/ Configure \/ Stage \/ RotateToken
  \/ Define \/ Stop \/ Load \/ Start \/ Ready
  \/ Point \/ Record \/ Prune
  \/ Restore \/ Halt \/ Disable \/ RemoveDefinition

Next == Commands \/ Steps \/ Fails \/ Killed \/ Dies \/ Reboot \/ Damage

Spec == Init /\ [][Next]_vars

-----------------------------------------------------------------------------
(* What is needed is there: the runtime the pointer names, the one the service          *)
(* definition executes, the one the manager holds, the one that runs and, while the     *)
(* history is sound, the one rollback would choose are staged, whatever commands were   *)
(* stopped in the middle and pruned since.                                            *)
NeededIsStaged ==
  /\ {disk.pointer, disk.definition, manager.registered} \subseteq disk.staged \cup {None}
  /\ manager.running # None => manager.running.version \in disk.staged
  /\ Idle /\ disk.history # <<>> /\ Last(disk.history) = disk.pointer
       => Predecessors \subseteq disk.staged

Concluded == Idle /\ op.outcome \in {"ok", "failed"}

(* A failed install over an installed service that was stopped: see LeavesStopped.      *)
OverStopped ==
  op.cmd = "install" /\ op.outcome = "failed" /\ op.installed /\ ~op.active

(* The pointer is the authority: when an install or a rollback is over, done or         *)
(* reverted, the service definition executes the version that current.json names, and   *)
(* a gateway that runs is that version, with the token and the configuration on disk.   *)
(* A rotation that has replaced the token leaves no gateway running with the old one.   *)
SettledAgrees ==
  Concluded /\ op.touched =>
    /\ op.cmd \in {"install", "rollback"} =>
         /\ disk.definition \in {None, disk.pointer}
         /\ manager.running # None /\ ~OverStopped
              => manager.running = Process0(disk.pointer)
    /\ op.cmd = "rotate" /\ manager.running # None => manager.running.token = disk.token

(* A failed install that reports nothing else is undone: the configuration is the one   *)
(* before it, the pointer and the definition name the runtime before it, and a service  *)
(* that was not there is not there.                                                    *)
FailedInstallUndone ==
  Idle /\ op.cmd = "install" /\ op.outcome = "failed" =>
    /\ disk.config = op.config
    /\ op.installed => disk.pointer = op.prior
    /\ op.installed /\ op.touched => disk.definition = op.prior
    /\ ~op.installed /\ op.touched => disk.definition = None /\ manager.running = None

(* Nothing becomes authoritative before it was seen to work: the pointer moves to a      *)
(* runtime that answered the readiness proof of the same command, unless the command    *)
(* leaves the service stopped.                                                         *)
AuthorityIsProven ==
  [][disk'.pointer # disk.pointer => ~op.start \/ disk'.pointer \in op.proven]_vars

(* A failed install restores the state the service was in: one that was stopped is not  *)
(* left running.                                                                       *)
LeavesStopped ==
  [][~Idle /\ op'.cmd = "install" /\ op'.outcome = "failed" /\ op'.installed /\ ~op'.active
       => manager'.running = None]_vars
=============================================================================
