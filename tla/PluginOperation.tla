--------------------------- MODULE PluginOperation ---------------------------
(* How the manager starts games and changes SimHub's plug-ins              *)
(* (launcher/manager_main.cpp): it verifies the package under a read lock  *)
(* and has the launcher, or by UAC an elevated helper (the manager's own   *)
(* program), use it.  The helper verifies again under a lock of its own and*)
(* starts PowerShell on the installer or the uninstaller, which verifies a *)
(* third time, tells the manager so by an event and then changes SimHub's  *)
(* folder under a lease.  Any of these processes may be killed, the manager*)
(* may lose track of what it started and may be closed and opened again;   *)
(* anybody may edit the files of the package while nobody has them locked. *)
EXTENDS Naturals, Sequences

CONSTANTS MaxOps, MaxOpenings   \* bounds: elevated operations, openings of the manager

ASSUME PluginConstants == MaxOps \in Nat /\ MaxOpenings \in Nat

Ops == 1..MaxOps

VARIABLES
  package,    \* the files of the package against its manifest and signatures
  locks,      \* PackageReadLock: who has the files open, without write sharing
  pc,         \* what the window is doing
  plan,       \* what the click still asks for, the first of it being done
  doubt,      \* operation_in_doubt_
  ops,        \* elevated operations so far; the last one is the manager's
  mine,       \* what this manager has started and not seen end
  openings,   \* openings of the manager so far
  helper,     \* the elevated helper of an operation
  code,       \* its exit code
  script,     \* its PowerShell script
  event,      \* operations whose invocation event is set
  removals,   \* uninstallers that may still find nothing to remove
  lease,      \* operations that hold the mutation lease of SimHub's folder
  launcher,   \* the launcher that was started last: "idle" until then and when ended
  told        \* operations reported to the user as done

managerVars == <<pc, plan, doubt, ops, mine, openings, told>>
helperVars  == <<helper, code>>
scriptVars  == <<script, event, removals, lease>>
vars == <<package, locks, managerVars, helperVars, scriptVars, launcher>>

Manager    == <<"manager", 0>>
Helper(o)  == <<"helper", o>>
Script(o)  == <<"script", o>>
Launcher   == <<"launcher", 0>>

Steps == {"install", "retry", "uninstall", "launch"}   \* retry: install_plugin(false)
Plans == {<<"install">>, <<"uninstall">>, <<"launch">>, <<"install", "launch">>}

HelperAlive(o) == helper[o] \in {"started", "verifying", "waiting"}
ScriptAlive(o) == script[o] \notin {"none", "ended", "succeeded"}

Init ==
  /\ package \in {"intact", "altered"} /\ locks = {}
  /\ pc = "closed" /\ plan = <<>> /\ doubt = FALSE /\ ops = 0 /\ mine = {} /\ openings = 0
  /\ helper = [o \in Ops |-> "none"] /\ code = [o \in Ops |-> 1]
  /\ script = [o \in Ops |-> "none"] /\ event = {} /\ removals = {} /\ lease = {}
  /\ launcher = "idle" /\ told = {}

(* Somebody writes a file of the package, or puts the original back.       *)
EditPackage ==
  /\ locks = {}
  /\ package' \in {"intact", "altered"} \ {package}
  /\ UNCHANGED <<locks, managerVars, helperVars, scriptVars, launcher>>

(***************************************************************************)
(* The manager.                                                            *)
(***************************************************************************)
OpenManager ==
  /\ pc = "closed" /\ openings < MaxOpenings
  /\ pc' = "ready" /\ openings' = openings + 1
  /\ UNCHANGED <<package, locks, plan, doubt, ops, mine, told, helperVars, scriptVars, launcher>>

(* Its handles are the system's to close.  A busy window ignores WM_CLOSE, *)
(* a kill does not ask.                                                    *)
Gone ==
  /\ pc' = "closed" /\ plan' = <<>> /\ doubt' = FALSE /\ mine' = {} /\ locks' = locks \ {Manager}
  /\ UNCHANGED <<package, ops, openings, told, helperVars, scriptVars, launcher>>
CloseManager == pc = "ready" /\ Gone
KillManager  == pc \notin {"closed", "ready"} /\ Gone

(* A button: in doubt the three that change something are disabled.        *)
Click ==
  /\ pc = "ready" /\ ~doubt
  /\ plan' \in Plans /\ pc' = "checking"
  /\ UNCHANGED <<package, locks, doubt, ops, mine, openings, told, helperVars, scriptVars, launcher>>

Done == pc' = "ready" /\ plan' = <<>>

(* collect_readiness, without a lock, and the questions after it.          *)
Check ==
  /\ pc = "checking"
  /\ \/ package = "intact" /\ pc' = "locking" /\ UNCHANGED plan
     \/ Done
  /\ UNCHANGED <<package, locks, doubt, ops, mine, openings, told, helperVars, scriptVars, launcher>>

(* A run failed: after an installation the user may have the old version   *)
(* removed and the new one installed, once.                                *)
Failed ==
  /\ locks' = locks \ {Manager}
  /\ \/ Done
     \/ Head(plan) = "install" /\ plan' = <<"uninstall", "retry">> \o Tail(plan) /\ pc' = "locking"

(* A run succeeded: the next installation checks first, a launch does not. *)
Succeeded ==
  /\ locks' = locks \ {Manager}
  /\ \/ Tail(plan) = <<>> /\ Done
     \/ /\ Tail(plan) # <<>> /\ plan' = Tail(plan)
        /\ pc' = IF plan[2] = "retry" THEN "checking" ELSE "locking"
     \/ Tail(plan) # <<>> /\ plan[2] = "launch" /\ Done   \* SimHub's pipe did not come up

LockPackage ==
  /\ pc = "locking"
  /\ \/ locks' = locks \cup {Manager} /\ pc' = "verifying" /\ UNCHANGED plan
     \/ Failed
  /\ UNCHANGED <<package, doubt, ops, mine, openings, told, helperVars, scriptVars, launcher>>

VerifyPackage ==
  /\ pc = "verifying"
  /\ IF package = "intact" THEN pc' = "starting" /\ UNCHANGED <<plan, locks>> ELSE Failed
  /\ UNCHANGED <<package, doubt, ops, mine, openings, told, helperVars, scriptVars, launcher>>

(* A new invocation event and, unless the user declines, the helper.       *)
StartHelper ==
  /\ pc = "starting" /\ Head(plan) # "launch"
  /\ \/ /\ ops < MaxOps /\ ops' = ops + 1
        /\ helper' = [helper EXCEPT ![ops + 1] = "started"] /\ mine' = mine \cup {Helper(ops + 1)}
        /\ removals' = IF Head(plan) = "uninstall" THEN removals \cup {ops + 1} ELSE removals
        /\ pc' = "waiting" /\ UNCHANGED <<plan, locks>>
     \/ Failed /\ UNCHANGED <<ops, helper, removals, mine>>
  /\ UNCHANGED <<package, doubt, openings, told, code, script, event, lease, launcher>>

StartLauncher ==
  /\ pc = "starting" /\ Head(plan) = "launch"
  /\ \/ /\ launcher' = "running" /\ mine' = mine \cup {Launcher}
        /\ pc' = "waiting" /\ UNCHANGED <<plan, locks>>
     \/ Failed /\ UNCHANGED <<launcher, mine>>
  /\ UNCHANGED <<package, doubt, ops, openings, told, helperVars, scriptVars>>

(* The helper has ended: its work counts if the script has confirmed its   *)
(* validation and the exit code is 0.                                      *)
Counts(o) == o \in event /\ code[o] = 0
HelperAnswers ==
  /\ pc = "waiting" /\ Head(plan) # "launch" /\ ~HelperAlive(ops)
  /\ mine' = mine \ {Helper(ops)}
  /\ IF Counts(ops) THEN Succeeded /\ told' = told \cup {ops} ELSE Failed /\ UNCHANGED told
  /\ UNCHANGED <<package, doubt, ops, openings, helperVars, scriptVars, launcher>>

LauncherAnswers ==
  /\ pc = "waiting" /\ Head(plan) = "launch" /\ launcher = "idle"
  /\ mine' = mine \ {Launcher} /\ Done /\ locks' = locks \ {Manager}
  /\ UNCHANGED <<package, doubt, ops, openings, told, helperVars, scriptVars, launcher>>

(* Variant with a fault: a wait that ended counts as an operation that did.*)
AssumeOver == UNCHANGED doubt /\ locks' = locks \ {Manager}

(* The wait ends without an answer, by its time limit or an error: the     *)
(* manager keeps its lock and changes nothing any more.                    *)
KeepInDoubt == doubt' = TRUE /\ UNCHANGED locks
LoseTrack ==
  /\ pc = "waiting"
  /\ KeepInDoubt /\ Done
  /\ UNCHANGED <<package, ops, mine, openings, told, helperVars, scriptVars, launcher>>

(***************************************************************************)
(* The elevated helper of operation o.                                     *)
(***************************************************************************)

(* The invocation event lives while somebody has a handle to it.           *)
EventHeld(o) ==
  \/ pc = "waiting" /\ Head(plan) # "launch" /\ o = ops
  \/ helper[o] \in {"verifying", "waiting"}

HelperExits(o, c) ==
  /\ helper' = [helper EXCEPT ![o] = "ended"] /\ code' = [code EXCEPT ![o] = c]
  /\ locks' = locks \ {Helper(o)} /\ removals' = removals \ {o}

(* It finds itself elevated and in its place, and the event there and unset.*)
HelperStarts(o) ==
  /\ helper[o] = "started"
  /\ \/ /\ EventHeld(o) /\ o \notin event
        /\ locks' = locks \cup {Helper(o)} /\ helper' = [helper EXCEPT ![o] = "verifying"]
        /\ UNCHANGED <<code, removals>>
     \/ HelperExits(o, 1)
  /\ UNCHANGED <<package, managerVars, script, event, lease, launcher>>

(* Variant with a fault: verified, the helper lets go of the package.      *)
HelperVerifiesAndUnlocks(o) ==
  /\ helper[o] = "verifying"
  /\ \/ /\ package = "intact" /\ locks' = locks \ {Helper(o)}
        /\ helper' = [helper EXCEPT ![o] = "waiting"] /\ script' = [script EXCEPT ![o] = "started"]
        /\ UNCHANGED <<code, removals>>
     \/ HelperExits(o, 1) /\ UNCHANGED script
  /\ UNCHANGED <<package, managerVars, event, lease, launcher>>

HelperVerifies(o) ==
  /\ helper[o] = "verifying"
  /\ \/ /\ package = "intact"
        /\ helper' = [helper EXCEPT ![o] = "waiting"] /\ script' = [script EXCEPT ![o] = "started"]
        /\ UNCHANGED <<code, removals, locks>>
     \/ HelperExits(o, 1) /\ UNCHANGED script
  /\ UNCHANGED <<package, managerVars, event, lease, launcher>>

(* Variant with a fault: the exit code says that PowerShell has run.       *)
ExitCodeOfRun(o) == 0

(* It waits for PowerShell without a limit.                                *)
ExitCode(o) == IF script[o] = "succeeded" THEN 0 ELSE 1
HelperReturns(o) ==
  /\ helper[o] = "waiting" /\ ~ScriptAlive(o)
  /\ HelperExits(o, ExitCode(o))
  /\ UNCHANGED <<package, managerVars, script, event, lease, launcher>>

(***************************************************************************)
(* Its PowerShell script.                                                  *)
(***************************************************************************)
ScriptTo(o, s) == script' = [script EXCEPT ![o] = s]
ScriptEnds(o, s) ==
  /\ ScriptTo(o, s) /\ removals' = removals \ {o}
  /\ lease' = lease \ {o} /\ locks' = locks \ {Script(o)}

(* PowerShell reads the script; a file that was altered may do anything.   *)
ScriptIsRead(o) ==
  /\ script[o] = "started"
  /\ \/ package = "intact" /\ ScriptTo(o, "read") /\ UNCHANGED removals
     \/ package = "altered" /\ ScriptTo(o, "foreign") /\ removals' = removals \ {o}
  /\ UNCHANGED <<package, locks, managerVars, helperVars, event, lease, launcher>>

(* It locks and verifies the package and opens the event.                  *)
ScriptVerifies(o) ==
  /\ script[o] = "read"
  /\ \/ /\ package = "intact" /\ EventHeld(o)
        /\ locks' = locks \cup {Script(o)} /\ ScriptTo(o, "verified")
        /\ UNCHANGED <<removals, lease>>
     \/ ScriptEnds(o, "ended")
  /\ UNCHANGED <<package, managerVars, helperVars, event, launcher>>

ScriptConfirms(o) ==
  /\ script[o] = "verified"
  /\ \/ event' = event \cup {o} /\ ScriptTo(o, "confirmed") /\ UNCHANGED <<removals, lease, locks>>
     \/ ScriptEnds(o, "ended") /\ UNCHANGED event
  /\ UNCHANGED <<package, managerVars, helperVars, launcher>>

(* Variant with a fault: the lease can be shared.                          *)
ShareLease(o) == lease' = lease \cup {o}

(* The lease is a file opened without sharing: one script at a time.  An   *)
(* uninstaller that finds no state file has nothing to remove, and succeeds*)
(* without it.                                                             *)
TakeLease(o) == lease = {} /\ lease' = {o}
ScriptMutates(o) ==
  /\ script[o] = "confirmed"
  /\ \/ TakeLease(o) /\ ScriptTo(o, "mutating") /\ removals' = removals \ {o} /\ UNCHANGED locks
     \/ o \in removals /\ ScriptEnds(o, "succeeded")
     \/ ScriptEnds(o, "ended")
  /\ UNCHANGED <<package, managerVars, helperVars, event, launcher>>

ScriptFinishes(o) ==
  /\ script[o] = "mutating"
  /\ \E s \in {"succeeded", "ended"} : ScriptEnds(o, s)
  /\ UNCHANGED <<package, managerVars, helperVars, event, launcher>>

(***************************************************************************)
(* The launcher, and deaths.                                               *)
(***************************************************************************)
LauncherEnds ==
  /\ launcher = "running"
  /\ launcher' = "idle"
  /\ UNCHANGED <<package, locks, managerVars, helperVars, scriptVars>>

(* Killing the helper does not kill its PowerShell.                        *)
KillHelper(o) ==
  /\ HelperAlive(o)
  /\ helper' = [helper EXCEPT ![o] = "killed"] /\ code' = [code EXCEPT ![o] = 1]
  /\ locks' = locks \ {Helper(o)}
  /\ removals' = IF ScriptAlive(o) THEN removals ELSE removals \ {o}
  /\ UNCHANGED <<package, managerVars, script, event, lease, launcher>>

KillScript(o) ==
  /\ ScriptAlive(o)
  /\ ScriptEnds(o, "ended")
  /\ UNCHANGED <<package, managerVars, helperVars, event, launcher>>

Next ==
  \/ EditPackage \/ OpenManager \/ CloseManager \/ KillManager
  \/ Click \/ Check \/ LockPackage \/ VerifyPackage \/ StartHelper \/ StartLauncher
  \/ HelperAnswers \/ LauncherAnswers \/ LoseTrack
  \/ \E o \in Ops : \/ HelperStarts(o) \/ HelperVerifies(o) \/ HelperReturns(o) \/ KillHelper(o)
                    \/ ScriptIsRead(o) \/ ScriptVerifies(o) \/ ScriptConfirms(o)
                    \/ ScriptMutates(o) \/ ScriptFinishes(o) \/ KillScript(o)
  \/ LauncherEnds

Spec == Init /\ [][Next]_vars

(***************************************************************************)
(* Properties.                                                             *)
(***************************************************************************)
TypeOK ==
  /\ package \in {"intact", "altered"}
  /\ locks \subseteq {Manager} \cup {Helper(o) : o \in Ops} \cup {Script(o) : o \in Ops}
  /\ pc \in {"closed", "ready", "checking", "locking", "verifying", "starting", "waiting"}
  /\ plan \in Seq(Steps) /\ (plan = <<>> <=> pc \in {"closed", "ready"})
  /\ doubt \in BOOLEAN /\ ops \in 0..MaxOps /\ openings \in 0..MaxOpenings
  /\ mine \subseteq {Launcher} \cup {Helper(o) : o \in Ops}
  /\ helper \in [Ops -> {"none", "started", "verifying", "waiting", "ended", "killed"}]
  /\ code \in [Ops -> {0, 1}]
  /\ script \in [Ops -> {"none", "started", "read", "foreign", "verified", "confirmed", "mutating",
                         "succeeded", "ended"}]
  /\ event \subseteq Ops /\ removals \subseteq Ops /\ lease \subseteq Ops /\ told \subseteq Ops
  /\ launcher \in {"idle", "running"}

(* What runs is what was verified: a script that has verified the package  *)
(* and a launcher whose manager lives work on files nobody has altered since,*)
(* and PowerShell reads an altered script only if its helper was killed.   *)
RunsTheVerified ==
  /\ \A o \in Ops : /\ script[o] \in {"verified", "confirmed", "mutating"} => package = "intact"
                    /\ script[o] = "foreign" => helper[o] = "killed"
  /\ launcher = "running" /\ Launcher \in mine => package = "intact"

(* A manager does not forget what it started: while that may still run, the*)
(* manager waits for it or is in doubt, with the package locked, and it does*)
(* not start a second operation beside it.                                 *)
StartsOneAtATime ==
  /\ mine # {} => Manager \in locks /\ (pc = "waiting" \/ (doubt /\ pc = "ready"))
  /\ \A p, q \in mine : p = q

(* Even after a manager was closed or a helper killed, and its script was  *)
(* left alone, one script at a time changes SimHub's folder.               *)
OneMutator == \A o, p \in Ops : script[o] = "mutating" /\ script[p] = "mutating" => o = p

(* The user is told that a plug-in was installed or removed only when the  *)
(* script had verified the package and finished.                           *)
SuccessIsEarned == \A o \in told : o \in event /\ script[o] = "succeeded"
=============================================================================
