---------------------------- MODULE ManagerProofs ----------------------------
(* Proofs about PluginOperation, for any number of elevated operations and *)
(* of openings of the manager: whoever is killed, whatever wait ends early *)
(* and whenever the package is edited. The safety properties follow from   *)
(* what the manager knows of its own work (Tracked) and from what helper   *)
(* and script of an operation know of each other (Handed).                 *)
(* Proofs about PluginFiles, for any packages, any number of runs of the   *)
(* two scripts and any edits of the user: no file of the user's is lost,   *)
(* and a script that ends by itself has done all of its work or none.      *)
(* Proofs about ProfileStore, for any limit and any identifiers: what was  *)
(* typed for a profile stays there, but for the folder that New takes over,*)
(* and the window and the registry agree.                                  *)
EXTENDS MCManager, FiniteSetTheorems, SequenceTheorems, TLAPS

(***************************************************************************)
(* Types.                                                                  *)
(***************************************************************************)
PlanType == plan \in Seq(Steps) /\ (plan = <<>> <=> pc \in {"closed", "ready"})

OtherTypes ==
  /\ package \in {"intact", "altered"}
  /\ locks \subseteq {Manager} \cup {Helper(o) : o \in Ops} \cup {Script(o) : o \in Ops}
  /\ pc \in {"closed", "ready", "checking", "locking", "verifying", "starting", "waiting"}
  /\ doubt \in BOOLEAN /\ ops \in 0..MaxOps /\ openings \in 0..MaxOpenings
  /\ mine \subseteq {Launcher} \cup {Helper(o) : o \in Ops}
  /\ helper \in [Ops -> {"none", "started", "verifying", "waiting", "ended", "killed"}]
  /\ code \in [Ops -> {0, 1}]
  /\ script \in [Ops -> {"none", "started", "read", "foreign", "verified", "confirmed", "mutating",
                         "succeeded", "ended"}]
  /\ event \subseteq Ops /\ removals \subseteq Ops /\ lease \subseteq Ops /\ told \subseteq Ops
  /\ launcher \in {"idle", "running"}

(* The steps of the helpers, of the scripts and of the world.              *)
OperationStep(o) ==
  \/ HelperStarts(o) \/ HelperVerifies(o) \/ HelperReturns(o) \/ KillHelper(o)
  \/ ScriptIsRead(o) \/ ScriptVerifies(o) \/ ScriptConfirms(o)
  \/ ScriptMutates(o) \/ ScriptFinishes(o) \/ KillScript(o)

(* The steps of the window.                                                *)
WindowStep ==
  \/ OpenManager \/ CloseManager \/ KillManager
  \/ Click \/ Check \/ LockPackage \/ VerifyPackage \/ StartHelper \/ StartLauncher
  \/ HelperAnswers \/ LauncherAnswers \/ LoseTrack

(* Every step is one of the world, the window or an operation.             *)
LEMMA KindsOfStep == Next <=> EditPackage \/ LauncherEnds \/ WindowStep \/ \E o \in Ops : OperationStep(o)
BY DEF Next, WindowStep, OperationStep

(* What a click asks for stays a sequence of steps, empty when nothing is  *)
(* being done.                                                             *)
LEMMA FailedPlan ==
  ASSUME PlanType, plan # <<>>, Failed
  PROVE  PlanType'
<1>1. Tail(plan) \in Seq(Steps) BY DEF PlanType
<1>2. CASE Done BY <1>2 DEF Done, PlanType
<1>3. CASE plan' = <<"uninstall", "retry">> \o Tail(plan) /\ pc' = "locking"
  <2>1. <<"uninstall", "retry">> \in Seq(Steps) BY DEF Steps
  <2>2. plan' \in Seq(Steps) /\ plan' # <<>> BY <1>1, <1>3, <2>1
  <2>3. QED BY <1>3, <2>2 DEF PlanType
<1>4. QED BY <1>2, <1>3 DEF Failed

(* After a success too.                                                    *)
LEMMA SucceededPlan ==
  ASSUME PlanType, plan # <<>>, Succeeded
  PROVE  PlanType'
<1>1. Tail(plan) \in Seq(Steps) BY DEF PlanType
<1>2. CASE Done BY <1>2 DEF Done, PlanType
<1>3. CASE /\ Tail(plan) # <<>> /\ plan' = Tail(plan)
           /\ pc' = IF plan[2] = "retry" THEN "checking" ELSE "locking"
  BY <1>1, <1>3 DEF PlanType
<1>4. QED BY <1>2, <1>3 DEF Succeeded

(* After every step of the window.                                         *)
LEMMA WindowPlan ==
  ASSUME PlanType, WindowStep
  PROVE  PlanType'
<1>0. Done => PlanType' BY DEF Done, PlanType
<1>1. CASE OpenManager BY <1>1 DEF OpenManager, PlanType
<1>2. CASE CloseManager \/ KillManager
  <2>1. pc' = "closed" /\ plan' = <<>> BY <1>2 DEF CloseManager, KillManager, Gone
  <2>2. <<>> \in Seq(Steps) OBVIOUS
  <2>3. QED BY <2>1, <2>2 DEF PlanType
<1>3. CASE Click
  <2>1. \A p \in Plans : p \in Seq(Steps) /\ p # <<>>
    <3>1. <<"install">> \in Seq(Steps) /\ <<"uninstall">> \in Seq(Steps) BY DEF Steps
    <3>2. <<"launch">> \in Seq(Steps) /\ <<"install", "launch">> \in Seq(Steps) BY DEF Steps
    <3>3. <<"install">> # <<>> /\ <<"uninstall">> # <<>> /\ <<"launch">> # <<>> /\ <<"install", "launch">> # <<>>
      OBVIOUS
    <3>4. QED BY <3>1, <3>2, <3>3 DEF Plans
  <2>2. plan' \in Plans /\ pc' = "checking" BY <1>3 DEF Click
  <2>3. QED BY <2>1, <2>2 DEF PlanType
<1>4. CASE Check
  <2>1. CASE Done BY <1>0, <2>1
  <2>2. CASE pc' = "locking" /\ UNCHANGED plan BY <1>4, <2>2 DEF Check, PlanType
  <2>3. QED BY <1>4, <2>1, <2>2 DEF Check
<1>5. CASE LockPackage
  <2>1. plan # <<>> BY <1>5 DEF LockPackage, PlanType
  <2>2. QED BY <1>5, <2>1, FailedPlan DEF LockPackage, PlanType
<1>6. CASE VerifyPackage
  <2>1. plan # <<>> BY <1>6 DEF VerifyPackage, PlanType
  <2>2. QED BY <1>6, <2>1, FailedPlan DEF VerifyPackage, PlanType
<1>7. CASE StartHelper
  <2>1. plan # <<>> BY <1>7 DEF StartHelper, PlanType
  <2>2. QED BY <1>7, <2>1, FailedPlan DEF StartHelper, PlanType
<1>8. CASE StartLauncher
  <2>1. plan # <<>> BY <1>8 DEF StartLauncher, PlanType
  <2>2. QED BY <1>8, <2>1, FailedPlan DEF StartLauncher, PlanType
<1>9. CASE HelperAnswers
  <2>1. plan # <<>> BY <1>9 DEF HelperAnswers, PlanType
  <2>2. QED BY <1>9, <2>1, FailedPlan, SucceededPlan DEF HelperAnswers
<1>10. CASE LauncherAnswers \/ LoseTrack BY <1>0, <1>10 DEF LauncherAnswers, LoseTrack
<1>11. QED
  BY <1>1, <1>2, <1>3, <1>4, <1>5, <1>6, <1>7, <1>8, <1>9, <1>10 DEF WindowStep

(* The window keeps the other types.                                       *)
LEMMA WindowTypes ==
  ASSUME OtherTypes, WindowStep
  PROVE  OtherTypes'
<1> USE PluginConstants DEF OtherTypes, helperVars, scriptVars, Done, Failed, Ops
<1>1. CASE OpenManager BY <1>1 DEF OpenManager
<1>2. CASE CloseManager \/ KillManager BY <1>2 DEF CloseManager, KillManager, Gone
<1>3. CASE Click BY <1>3 DEF Click
<1>4. CASE Check BY <1>4 DEF Check
<1>5. CASE LockPackage BY <1>5 DEF LockPackage
<1>6. CASE VerifyPackage BY <1>6 DEF VerifyPackage
<1>7. CASE StartHelper
  <2>1. CASE Failed /\ UNCHANGED <<ops, helper, removals, mine>>
    <3>1. pc' \in {"ready", "locking"} /\ locks' \subseteq locks BY <2>1
    <3>2. QED BY <1>7, <2>1, <3>1 DEF StartHelper
  <2>2. CASE /\ ops < MaxOps /\ ops' = ops + 1
             /\ helper' = [helper EXCEPT ![ops + 1] = "started"] /\ mine' = mine \cup {Helper(ops + 1)}
             /\ removals' = IF Head(plan) = "uninstall" THEN removals \cup {ops + 1} ELSE removals
             /\ pc' = "waiting" /\ UNCHANGED <<plan, locks>>
    <3>1. ops' \in 0..MaxOps /\ ops + 1 \in Ops BY <2>2
    <3>2. UNCHANGED <<package, doubt, openings, told, code, script, event, lease, launcher>>
      BY <1>7 DEF StartHelper
    <3>3. mine' \subseteq {Launcher} \cup {Helper(o) : o \in Ops} BY <2>2, <3>1
    <3>4. removals' \subseteq Ops BY <2>2, <3>1
    <3>5. QED BY <2>2, <3>1, <3>2, <3>3, <3>4
  <2>3. QED BY <1>7, <2>1, <2>2 DEF StartHelper
<1>8. CASE StartLauncher BY <1>8 DEF StartLauncher
<1>9. CASE HelperAnswers
  <2>1. told' \subseteq Ops
    BY <1>9 DEF HelperAnswers, Counts
  <2>2. pc' \in {"ready", "locking", "checking"} /\ locks' \subseteq locks /\ mine' \subseteq mine
    BY <1>9 DEF HelperAnswers, Succeeded
  <2>3. QED BY <1>9, <2>1, <2>2 DEF HelperAnswers
<1>10. CASE LauncherAnswers BY <1>10 DEF LauncherAnswers
<1>11. CASE LoseTrack BY <1>11 DEF LoseTrack, KeepInDoubt
<1>12. QED
  BY <1>1, <1>2, <1>3, <1>4, <1>5, <1>6, <1>7, <1>8, <1>9, <1>10, <1>11 DEF WindowStep

(* Helpers and scripts keep all types.                                     *)
LEMMA OperationTypes ==
  ASSUME TypeOK, NEW o \in Ops, OperationStep(o)
  PROVE  TypeOK'
<1>1. PlanType /\ OtherTypes BY DEF TypeOK, PlanType, OtherTypes
<1>2. UNCHANGED <<pc, plan>>
  BY DEF OperationStep, HelperStarts, HelperVerifies, HelperReturns, KillHelper, ScriptIsRead,
         ScriptVerifies, ScriptConfirms, ScriptMutates, ScriptFinishes, KillScript, managerVars
<1>3. PlanType' BY <1>1, <1>2 DEF PlanType
<1>4. OtherTypes'
  <2> USE <1>1 DEF OtherTypes, managerVars, helperVars, scriptVars, HelperExits, ScriptTo, ScriptEnds
  <2>1. CASE HelperStarts(o) BY <2>1 DEF HelperStarts
  <2>2. CASE HelperVerifies(o) BY <2>2 DEF HelperVerifies
  <2>3. CASE HelperReturns(o) BY <2>3 DEF HelperReturns, ExitCode
  <2>4. CASE KillHelper(o) BY <2>4 DEF KillHelper
  <2>5. CASE ScriptIsRead(o) BY <2>5 DEF ScriptIsRead
  <2>6. CASE ScriptVerifies(o) BY <2>6 DEF ScriptVerifies
  <2>7. CASE ScriptConfirms(o) BY <2>7 DEF ScriptConfirms
  <2>8. CASE ScriptMutates(o) BY <2>8 DEF ScriptMutates, TakeLease
  <2>9. CASE ScriptFinishes(o) BY <2>9 DEF ScriptFinishes
  <2>10. CASE KillScript(o) BY <2>10 DEF KillScript
  <2>11. QED
    BY <2>1, <2>2, <2>3, <2>4, <2>5, <2>6, <2>7, <2>8, <2>9, <2>10 DEF OperationStep
<1>5. QED BY <1>3, <1>4 DEF TypeOK, PlanType, OtherTypes

(* Every variable of the manager, its helpers and scripts has its type.    *)
THEOREM OperationTypesHold == Spec => []TypeOK
<1>1. Init => TypeOK
  <2> SUFFICES ASSUME Init PROVE TypeOK OBVIOUS
  <2>1. PlanType BY DEF Init, PlanType
  <2>2. OtherTypes
    <3>1. ops \in 0..MaxOps /\ openings \in 0..MaxOpenings BY PluginConstants DEF Init
    <3>2. doubt \in BOOLEAN BY DEF Init
    <3>3. QED BY <3>1, <3>2 DEF Init, OtherTypes
  <2>3. QED BY <2>1, <2>2 DEF TypeOK, PlanType, OtherTypes
<1>2. TypeOK /\ [Next]_vars => TypeOK'
  <2> SUFFICES ASSUME TypeOK, [Next]_vars PROVE TypeOK' OBVIOUS
  <2>1. PlanType /\ OtherTypes BY DEF TypeOK, PlanType, OtherTypes
  <2>2. CASE EditPackage \/ LauncherEnds
    <3>1. UNCHANGED <<pc, plan>> BY <2>2 DEF EditPackage, LauncherEnds, managerVars
    <3>2. OtherTypes'
      BY <2>1, <2>2 DEF EditPackage, LauncherEnds, managerVars, helperVars, scriptVars, OtherTypes
    <3>3. QED BY <2>1, <3>1, <3>2 DEF TypeOK, PlanType, OtherTypes
  <2>3. CASE WindowStep
    <3>1. PlanType' /\ OtherTypes' BY <2>1, <2>3, WindowPlan, WindowTypes
    <3>2. QED BY <3>1 DEF TypeOK, PlanType, OtherTypes
  <2>4. CASE \E o \in Ops : OperationStep(o) BY <2>4, OperationTypes
  <2>5. CASE UNCHANGED vars
    BY <2>5 DEF vars, managerVars, helperVars, scriptVars, TypeOK
  <2>6. QED BY <2>2, <2>3, <2>4, <2>5, KindsOfStep
<1>3. QED BY <1>1, <1>2, PTL DEF Spec

(***************************************************************************)
(* What the manager knows of its own work, and what helper and script of   *)
(* an operation know of each other.                                        *)
(***************************************************************************)

(* The manager has verified what it starts and keeps it locked until it    *)
(* has seen the end of it.                                                 *)
Tracked ==
  /\ pc \in {"verifying", "starting"} => Manager \in locks
  /\ pc = "starting" => package = "intact"
  /\ pc = "waiting" => mine = {IF Head(plan) = "launch" THEN Launcher ELSE Helper(ops)}
  /\ mine # {} => /\ Manager \in locks /\ package = "intact"
                  /\ pc = "waiting" \/ (doubt /\ pc = "ready")
  /\ \A p, q \in mine : p = q

(* A script comes from a helper that has verified the package and holds it *)
(* until the script has ended or the helper is killed; from its own        *)
(* verification on the script holds it itself.                             *)
HandedOver(o) ==
  /\ o > ops => helper[o] = "none"
  /\ helper[o] \in {"verifying", "waiting"} => Helper(o) \in locks
  /\ helper[o] = "waiting" => package = "intact"
  /\ helper[o] \in {"none", "started", "verifying"} => script[o] = "none"
  /\ script[o] = "started" => helper[o] \in {"waiting", "killed"}
  /\ script[o] \in {"verified", "confirmed", "mutating"} =>
       Script(o) \in locks /\ package = "intact"
  /\ script[o] = "foreign" => helper[o] = "killed"
  /\ script[o] = "mutating" => lease = {o}
  /\ code[o] = 0 => script[o] = "succeeded"

Handed == \A o \in Ops : HandedOver(o)

(* The holders of the package are told apart.                              *)
LEMMA HoldersDiffer ==
  \A o, p \in Ops : /\ Helper(o) # Manager /\ Script(o) # Manager /\ Launcher # Manager
                    /\ Helper(o) # Script(p) /\ Helper(o) # Launcher /\ Script(o) # Launcher
                    /\ (Helper(o) = Helper(p) => o = p) /\ (Script(o) = Script(p) => o = p)
BY DEF Helper, Script, Manager, Launcher

(* A manager that is not waiting and not in doubt has nothing to track.    *)
LEMMA NothingMine ==
  ASSUME Tracked, pc \in {"closed", "checking", "locking", "verifying", "starting"} \/ (pc = "ready" /\ ~doubt)
  PROVE  mine = {}
BY DEF Tracked

(* The window starts nothing beside what it tracks.                        *)
LEMMA WindowTracks ==
  ASSUME TypeOK, Tracked, WindowStep
  PROVE  Tracked'
<1> USE DEF Tracked
<1>1. CASE OpenManager BY <1>1, NothingMine DEF OpenManager
<1>2. CASE CloseManager \/ KillManager BY <1>2 DEF CloseManager, KillManager, Gone
<1>3. CASE Click BY <1>3, NothingMine DEF Click
<1>4. CASE Check BY <1>4, NothingMine DEF Check, Done
<1>5. CASE LockPackage BY <1>5, NothingMine DEF LockPackage, Failed, Done
<1>6. CASE VerifyPackage BY <1>6, NothingMine DEF VerifyPackage, Failed, Done
<1>7. CASE StartHelper
  <2>1. mine = {} /\ Manager \in locks /\ package = "intact" BY <1>7, NothingMine DEF StartHelper
  <2>2. CASE Failed /\ UNCHANGED mine BY <2>1, <2>2 DEF Failed, Done
  <2>3. CASE ops' = ops + 1 /\ mine' = mine \cup {Helper(ops + 1)} /\ pc' = "waiting" /\ UNCHANGED <<plan, locks>>
    <3>1. mine' = {Helper(ops)'} BY <2>1, <2>3 DEF Helper
    <3>2. Head(plan') # "launch" BY <1>7, <2>3 DEF StartHelper
    <3>3. package' = "intact" /\ (Manager \in locks)' BY <1>7, <2>1, <2>3 DEF StartHelper, Manager
    <3>4. QED BY <2>3, <3>1, <3>2, <3>3
  <2>4. QED BY <1>7, <2>2, <2>3 DEF StartHelper
<1>8. CASE StartLauncher
  <2>1. mine = {} /\ Manager \in locks /\ package = "intact" BY <1>8, NothingMine DEF StartLauncher
  <2>2. CASE Failed /\ UNCHANGED mine BY <2>1, <2>2 DEF Failed, Done
  <2>3. CASE mine' = mine \cup {Launcher} /\ pc' = "waiting" /\ UNCHANGED <<plan, locks>>
    <3>1. mine' = {Launcher'} BY <2>1, <2>3 DEF Launcher
    <3>2. package' = "intact" /\ (Manager \in locks)' BY <1>8, <2>1, <2>3 DEF StartLauncher, Manager
    <3>3. Head(plan') = "launch" BY <1>8, <2>3 DEF StartLauncher
    <3>4. QED BY <2>3, <3>1, <3>2, <3>3
  <2>4. QED BY <1>8, <2>2, <2>3 DEF StartLauncher
<1>9. CASE HelperAnswers
  <2>1. mine' = {} BY <1>9 DEF HelperAnswers
  <2>2. pc' \in {"ready", "locking", "checking"} BY <1>9 DEF HelperAnswers, Failed, Succeeded, Done
  <2>3. QED BY <2>1, <2>2
<1>10. CASE LauncherAnswers
  <2>1. mine' = {} /\ pc' = "ready" BY <1>10 DEF LauncherAnswers, Done
  <2>2. QED BY <2>1
<1>11. CASE LoseTrack
  <2>1. mine # {} /\ mine' = mine /\ doubt' = TRUE /\ pc' = "ready" /\ UNCHANGED <<locks, package>>
    BY <1>11 DEF LoseTrack, KeepInDoubt, Done
  <2>2. (Manager \in locks)' <=> Manager \in locks BY <2>1 DEF Manager
  <2>3. doubt' BY <2>1
  <2>4. QED BY <2>1, <2>2, <2>3
<1>12. QED
  BY <1>1, <1>2, <1>3, <1>4, <1>5, <1>6, <1>7, <1>8, <1>9, <1>10, <1>11 DEF WindowStep

(* Helpers and scripts change nothing that the manager tracks.             *)
LEMMA OperationTracks ==
  ASSUME TypeOK, Tracked, NEW o \in Ops, OperationStep(o)
  PROVE  Tracked'
<1>1. UNCHANGED <<package, pc, plan, doubt, ops, mine>>
  BY DEF OperationStep, HelperStarts, HelperVerifies, HelperReturns, KillHelper, ScriptIsRead,
         ScriptVerifies, ScriptConfirms, ScriptMutates, ScriptFinishes, KillScript, managerVars
<1>2. Manager \in locks => Manager \in locks'
  <2>1. locks' = locks \/ locks' = locks \cup {Helper(o)} \/ locks' = locks \cup {Script(o)}
        \/ locks' = locks \ {Helper(o)} \/ locks' = locks \ {Script(o)}
    BY DEF OperationStep, HelperStarts, HelperVerifies, HelperReturns, KillHelper, ScriptIsRead,
           ScriptVerifies, ScriptConfirms, ScriptMutates, ScriptFinishes, KillScript, HelperExits, ScriptEnds
  <2>2. QED BY <2>1, HoldersDiffer
<1>3. Manager' = Manager /\ Launcher' = Launcher /\ Helper(ops)' = Helper(ops)
  BY <1>1 DEF Manager, Launcher, Helper
<1>4. QED BY <1>1, <1>2, <1>3 DEF Tracked, Helper

(* Each step of an operation hands over what the next one relies on, and   *)
(* disturbs no other operation.                                            *)
LEMMA OperationHands ==
  ASSUME TypeOK, Handed, NEW o \in Ops, OperationStep(o)
  PROVE  Handed'
<1> SUFFICES ASSUME NEW p \in Ops PROVE HandedOver(p)'
  BY DEF Handed
<1>1. HandedOver(o) /\ HandedOver(p) BY DEF Handed
<1>2. /\ Helper(o) # Script(p) /\ Script(o) # Helper(p)
      /\ (Helper(o) = Helper(p) => o = p) /\ (Script(o) = Script(p) => o = p)
  BY HoldersDiffer
<1>3. package' = package /\ ops' = ops
  BY DEF OperationStep, HelperStarts, HelperVerifies, HelperReturns, KillHelper, ScriptIsRead,
         ScriptVerifies, ScriptConfirms, ScriptMutates, ScriptFinishes, KillScript, managerVars
<1>4. Helper(p)' = Helper(p) /\ Script(p)' = Script(p) BY DEF Helper, Script
<1> USE <1>1, <1>2, <1>3, <1>4 DEF TypeOK, HandedOver, managerVars, helperVars, scriptVars,
        HelperExits, ScriptTo, ScriptEnds, HelperAlive, ScriptAlive
<1>5. CASE HelperStarts(o) BY <1>5 DEF HelperStarts
<1>6. CASE HelperVerifies(o) BY <1>6 DEF HelperVerifies
<1>7. CASE HelperReturns(o) BY <1>7 DEF HelperReturns, ExitCode
<1>8. CASE KillHelper(o) BY <1>8 DEF KillHelper
<1>9. CASE ScriptIsRead(o) BY <1>9 DEF ScriptIsRead
<1>10. CASE ScriptVerifies(o) BY <1>10 DEF ScriptVerifies
<1>11. CASE ScriptConfirms(o) BY <1>11 DEF ScriptConfirms
<1>12. CASE ScriptMutates(o) BY <1>12 DEF ScriptMutates, TakeLease
<1>13. CASE ScriptFinishes(o) BY <1>13 DEF ScriptFinishes
<1>14. CASE KillScript(o) BY <1>14 DEF KillScript
<1>15. QED
  BY <1>5, <1>6, <1>7, <1>8, <1>9, <1>10, <1>11, <1>12, <1>13, <1>14 DEF OperationStep

(* The window creates helpers and gives up its own lock, no one else's.    *)
LEMMA WindowHands ==
  ASSUME TypeOK, Handed, WindowStep
  PROVE  Handed'
<1>1. UNCHANGED <<package, code, script, lease>>
  BY DEF WindowStep, OpenManager, CloseManager, KillManager, Gone, Click, Check, LockPackage,
         VerifyPackage, StartHelper, StartLauncher, HelperAnswers, LauncherAnswers, LoseTrack,
         helperVars, scriptVars
<1>2. locks' \in {locks, locks \cup {Manager}, locks \ {Manager}}
  BY DEF WindowStep, OpenManager, CloseManager, KillManager, Gone, Click, Check, LockPackage,
         VerifyPackage, StartHelper, StartLauncher, HelperAnswers, LauncherAnswers, LoseTrack,
         Failed, Succeeded, KeepInDoubt
<1>3. \/ UNCHANGED <<helper, ops>>
      \/ ops < MaxOps /\ ops' = ops + 1 /\ helper' = [helper EXCEPT ![ops + 1] = "started"]
  BY DEF WindowStep, OpenManager, CloseManager, KillManager, Gone, Click, Check, LockPackage,
         VerifyPackage, StartHelper, StartLauncher, HelperAnswers, LauncherAnswers, LoseTrack,
         helperVars
<1> SUFFICES ASSUME NEW o \in Ops PROVE HandedOver(o)'
  BY DEF Handed
<1>4. HandedOver(o) BY DEF Handed
<1>5. /\ (Helper(o) \in locks)' <=> Helper(o) \in locks
      /\ (Script(o) \in locks)' <=> Script(o) \in locks
  BY <1>2, HoldersDiffer DEF Helper, Script
<1>6. CASE UNCHANGED <<helper, ops>>
  BY <1>1, <1>4, <1>5, <1>6 DEF HandedOver
<1>7. CASE ops < MaxOps /\ ops' = ops + 1 /\ helper' = [helper EXCEPT ![ops + 1] = "started"]
  <2>1. ops \in Nat /\ o \in Nat BY PluginConstants DEF TypeOK, Ops
  <2>2. CASE o = ops + 1
    <3>1. helper[o] = "none" /\ script[o] = "none" /\ ~(o > ops')
      BY <1>4, <1>7, <2>1, <2>2 DEF HandedOver
    <3>2. helper'[o] = "started" BY <1>7, <2>2 DEF TypeOK
    <3>3. QED BY <1>1, <1>4, <1>5, <3>1, <3>2 DEF HandedOver
  <2>3. CASE o # ops + 1
    <3>1. helper'[o] = helper[o] BY <1>7, <2>3 DEF TypeOK
    <3>2. o > ops' => o > ops BY <1>7, <2>1
    <3>3. QED BY <1>1, <1>4, <1>5, <3>1, <3>2 DEF HandedOver
  <2>4. QED BY <2>2, <2>3
<1>8. QED BY <1>3, <1>6, <1>7

Knowledge == Tracked /\ Handed

(* The knowledge of manager, helpers and scripts holds at every step.      *)
LEMMA KnowledgeHolds == Spec => []Knowledge
<1>1. Init => Knowledge
  <2> SUFFICES ASSUME Init PROVE Knowledge OBVIOUS
  <2>1. Tracked BY DEF Init, Tracked
  <2>2. Handed BY DEF Init, Handed, HandedOver
  <2>3. QED BY <2>1, <2>2 DEF Knowledge
<1>2. TypeOK /\ Knowledge /\ [Next]_vars => Knowledge'
  <2> SUFFICES ASSUME TypeOK, Knowledge, [Next]_vars PROVE Knowledge' OBVIOUS
  <2> USE DEF Knowledge
  <2>1. CASE EditPackage
    <3>1. mine = {} /\ pc \notin {"verifying", "starting", "waiting"}
      BY <2>1 DEF EditPackage, Tracked
    <3>2. Tracked' BY <2>1, <3>1 DEF EditPackage, Tracked, managerVars
    <3>3. Handed'
      BY <2>1 DEF EditPackage, Handed, HandedOver, managerVars, helperVars, scriptVars, Helper, Script
    <3>4. QED BY <3>2, <3>3
  <2>2. CASE LauncherEnds \/ UNCHANGED vars
    <3>1. UNCHANGED <<package, locks, managerVars, helperVars, scriptVars>>
      BY <2>2 DEF LauncherEnds, vars
    <3>2. Tracked' BY <3>1 DEF Tracked, managerVars, Helper, Launcher, Manager
    <3>3. Handed'
      BY <3>1 DEF Handed, HandedOver, managerVars, helperVars, scriptVars, Helper, Script
    <3>4. QED BY <3>2, <3>3
  <2>3. CASE WindowStep BY <2>3, WindowTracks, WindowHands
  <2>4. CASE \E o \in Ops : OperationStep(o) BY <2>4, OperationTracks, OperationHands
  <2>5. QED BY <2>1, <2>2, <2>3, <2>4, KindsOfStep
<1>3. QED BY <1>1, <1>2, OperationTypesHold, PTL DEF Spec

(* PowerShell and the launcher work on the files that were verified.       *)
THEOREM VerifiedRuns == Spec => []RunsTheVerified
<1>1. TypeOK /\ Knowledge => RunsTheVerified
  BY DEF Knowledge, Tracked, Handed, HandedOver, RunsTheVerified
<1>2. QED BY <1>1, OperationTypesHold, KnowledgeHolds, PTL

(* A manager tracks what it started and starts nothing beside it.          *)
THEOREM OneIsStarted == Spec => []StartsOneAtATime
<1>1. Knowledge => StartsOneAtATime
  BY DEF Knowledge, Tracked, StartsOneAtATime
<1>2. QED BY <1>1, KnowledgeHolds, PTL

(* One script at a time changes SimHub's folder.                           *)
THEOREM OneMutates == Spec => []OneMutator
<1>1. Knowledge => OneMutator
  <2> SUFFICES ASSUME Knowledge, NEW o \in Ops, NEW p \in Ops, script[o] = "mutating", script[p] = "mutating"
               PROVE  o = p
    BY DEF OneMutator
  <2>1. lease = {o} /\ lease = {p} BY DEF Knowledge, Handed, HandedOver
  <2>2. QED BY <2>1
<1>2. QED BY <1>1, KnowledgeHolds, PTL

(* An operation reported as done was verified, confirmed and finished.     *)
THEOREM SuccessEarned == Spec => []SuccessIsEarned
<1>1. Init => SuccessIsEarned BY DEF Init, SuccessIsEarned
<1>2. TypeOK /\ Knowledge /\ SuccessIsEarned /\ [Next]_vars => SuccessIsEarned'
  <2> SUFFICES ASSUME TypeOK, Knowledge, SuccessIsEarned, [Next]_vars PROVE SuccessIsEarned' OBVIOUS
  <2>1. \A o \in told : o \in Ops BY DEF TypeOK
  <2>2. CASE EditPackage \/ LauncherEnds \/ UNCHANGED vars
    BY <2>2 DEF EditPackage, LauncherEnds, vars, managerVars, scriptVars, SuccessIsEarned
  <2>3. CASE WindowStep
    <3>1. UNCHANGED <<event, script>>
      BY <2>3 DEF WindowStep, OpenManager, CloseManager, KillManager, Gone, Click, Check, LockPackage,
             VerifyPackage, StartHelper, StartLauncher, HelperAnswers, LauncherAnswers, LoseTrack,
             scriptVars
    <3>2. told' = told \/ (told' = told \cup {ops} /\ Counts(ops))
      BY <2>3 DEF WindowStep, OpenManager, CloseManager, KillManager, Gone, Click, Check, LockPackage,
             VerifyPackage, StartHelper, StartLauncher, HelperAnswers, LauncherAnswers, LoseTrack
    <3>3. Counts(ops) => ops \in event /\ script[ops] = "succeeded"
      BY DEF Counts, Knowledge, Handed, HandedOver, TypeOK
    <3>4. QED BY <3>1, <3>2, <3>3 DEF SuccessIsEarned
  <2>4. CASE \E o \in Ops : OperationStep(o)
    <3>1. PICK o \in Ops : OperationStep(o) BY <2>4
    <3>2. event \subseteq event' /\ told' = told
      BY <3>1 DEF OperationStep, HelperStarts, HelperVerifies, HelperReturns, KillHelper, ScriptIsRead,
         ScriptVerifies, ScriptConfirms, ScriptMutates, ScriptFinishes, KillScript, managerVars, scriptVars
    <3>3. \A p \in Ops : script[p] = "succeeded" => script'[p] = "succeeded"
      <4> SUFFICES ASSUME NEW p \in Ops, script[p] = "succeeded" PROVE script'[p] = "succeeded"
        OBVIOUS
      <4>1. helper[p] # "verifying" BY DEF Knowledge, Handed, HandedOver
      <4> USE DEF TypeOK, ScriptTo, ScriptEnds, ScriptAlive, scriptVars
      <4>2. CASE HelperStarts(o) \/ HelperReturns(o) \/ KillHelper(o)
        BY <4>2 DEF HelperStarts, HelperReturns, KillHelper
      <4>3. CASE HelperVerifies(o) BY <4>1, <4>3 DEF HelperVerifies
      <4>4. CASE ScriptIsRead(o) \/ ScriptVerifies(o) \/ ScriptConfirms(o)
        BY <4>4 DEF ScriptIsRead, ScriptVerifies, ScriptConfirms
      <4>5. CASE ScriptMutates(o) \/ ScriptFinishes(o) \/ KillScript(o)
        BY <4>5 DEF ScriptMutates, ScriptFinishes, KillScript
      <4>6. QED BY <3>1, <4>2, <4>3, <4>4, <4>5 DEF OperationStep
    <3>4. QED BY <2>1, <3>2, <3>3 DEF SuccessIsEarned
  <2>5. QED BY <2>2, <2>3, <2>4, KindsOfStep
<1>3. QED BY <1>1, <1>2, OperationTypesHold, KnowledgeHolds, PTL DEF Spec

(***************************************************************************)
(* The files of the plug-in.                                               *)
(***************************************************************************)

Content == F!Contents \union {F!NoFile}
Paths   == [F!Slots -> Content]

(* What is in a backup of f; all that is the user's of f is there.         *)
Backups(f) == {backups[f][s] : s \in F!Slots}
Kept(f)    == users[f] \subseteq Backups(f)

(* The backups of a file are those with the first k paths.                 *)
First(b, k) == \A s \in F!Slots : b[s] # F!NoFile <=> s < k

(* What was in the places and in the backups when the script was started.  *)
Place(f)    == before[1][f]
Old(f)      == before[2][f]
Original(f) == dest[f] = Place(f) /\ backups[f] = Old(f)

(* The script has moved the old file of f, if there was one, to path s.    *)
Taken(f, s) ==
  /\ Kept(f)
  /\ IF s = F!NoSlot
     THEN Place(f) = F!NoFile /\ backups[f] = Old(f)
     ELSE /\ s \in F!Slots /\ s < runs /\ First(Old(f), s)
          /\ Place(f) \notin {F!NoFile, F!Package(version)}
          /\ backups[f] = [Old(f) EXCEPT ![s] = Place(f)]

(* What a record says of a file that has been installed.                   *)
Installed(f, r) ==
  /\ r.installed = F!Package(version)
  /\ IF r.changed
     THEN Taken(f, r.backup) /\ r.old = Place(f)
     ELSE r.backup = F!NoSlot /\ Place(f) = F!Package(version) /\ backups[f] = Old(f)

Placed(i) == Installed(i, changes[i]) /\ dest[i] = F!Package(version)
Undone(i) == /\ Installed(i, changes[i]) /\ dest[i] = F!NoFile
             /\ changes[i].changed /\ changes[i].backup # F!NoSlot

(* An installation, up to the record of it.                                *)
Forward    == {"backingUp", "copying", "puttingBack", "saving"}
Installing == Forward \union {"removing", "movingBack"}

InstallInv ==
  scriptPc \in Installing =>
    /\ state = F!NoState /\ before[3] = F!NoState
    /\ \A i \in DOMAIN changes :
         IF scriptPc = "movingBack" /\ i = Len(changes) THEN Undone(i) ELSE Placed(i)
    /\ scriptPc \in Forward => clean
    /\ scriptPc \in {"backingUp", "copying", "puttingBack"} => F!Current \in F!Files
    /\ scriptPc \in {"copying", "puttingBack"} =>
         dest[F!Current] = F!NoFile /\ Taken(F!Current, slot)
    /\ scriptPc = "saving" => Len(changes) = 2
    /\ scriptPc = "movingBack" => changes # <<>>
    /\ \A f \in F!Files :
         f > Len(changes) /\ clean /\ ~(scriptPc \in {"copying", "puttingBack"} /\ f = F!Current)
           => Original(f)

(* What a recorded installation says of a file, whoever edits it.          *)
RecordHolds(f, r) ==
  /\ r.installed \in {F!Package(v) : v \in Packages}
  /\ r.changed =>
       /\ r.old = replaced[f] /\ r.old # r.installed
       /\ r.old = F!NoFile <=> r.backup = F!NoSlot
       /\ dest[f] = r.installed => Kept(f)
  /\ r.backup # F!NoSlot =>
       /\ r.changed /\ r.backup \in F!Slots /\ r.backup < runs
       /\ First(backups[f], r.backup) \/ First(backups[f], r.backup + 1)

(* The uninstallation began with files that are those it has a record of.  *)
Checked(f, r) ==
  /\ r.changed => Place(f) \in {F!NoFile, r.installed}
  /\ r.backup # F!NoSlot => Old(f)[r.backup] = r.old

(* How far an uninstallation has come with f.                              *)
Moved(f) ==
  LET r == before[3][f] IN
  /\ f \in aside => r.changed /\ Place(f) = r.installed
  /\ IF f \in restored
     THEN /\ r.changed /\ r.backup # F!NoSlot /\ dest[f] = r.old
          /\ f \notin aside => Place(f) = F!NoFile
          /\ backups[f] = [Old(f) EXCEPT ![r.backup] = F!NoFile]
     ELSE /\ dest[f] = IF f \in aside THEN F!NoFile ELSE Place(f)
          /\ backups[f] = Old(f)

Untouched(f) == f \notin aside \union restored
Uninstalled(f) == dest[f] = IF before[3][f].changed THEN replaced[f] ELSE Place(f)

Uninstalling == {"staging", "restoring", "dropping", "unrestoring", "unstaging"}

RecordKept ==
  /\ scriptPc \in Uninstalling \union {"deleting"} => before[3] \in [F!Files -> F!Record]
  /\ scriptPc \in Uninstalling =>
       state = before[3] /\ \A f \in F!Files : Checked(f, before[3][f])

(* Up to the file in hand, the plug-in is gone and the old file is back.   *)
TakingOut ==
  /\ scriptPc \in {"staging", "restoring", "dropping"} =>
       /\ hand \in 1..3 /\ clean
       /\ \A f \in F!Files : /\ Moved(f)
                             /\ f > hand => Untouched(f)
                             /\ f < hand => Uninstalled(f)
  /\ scriptPc = "staging" /\ hand \in F!Files => Untouched(hand)
  /\ scriptPc = "restoring" =>
       /\ hand \in F!Files /\ before[3][hand].changed
       /\ dest[hand] = F!NoFile /\ hand \notin restored
  /\ scriptPc = "dropping" => hand = 3
  /\ scriptPc = "deleting" => state = F!NoState /\ \A f \in F!Files : Uninstalled(f)

(* Beyond the file in hand, everything is as it was.                       *)
TakingBack ==
  /\ scriptPc \in {"unrestoring", "unstaging"} =>
       /\ hand \in 0..2
       /\ \A f \in F!Files : f < hand => Moved(f)
       /\ \A f \in F!Files : f > hand /\ clean => Original(f)
  /\ scriptPc = "unrestoring" /\ hand > 0 => Moved(hand)
  /\ scriptPc = "unstaging" =>
       /\ hand > 0
       /\ clean => /\ backups[hand] = Old(hand)
                   /\ dest[hand] = IF hand \in aside THEN F!NoFile ELSE Place(hand)
                   /\ hand \in aside => Place(hand) = before[3][hand].installed

UninstallInv == RecordKept /\ TakingOut /\ TakingBack

(* All that is the user's is in its place or in a backup.                  *)
Safe(f)   == F!NoFile \notin users[f] /\ users[f] \subseteq {dest[f]} \union Backups(f)
UsersSafe == \A f \in F!Files : Safe(f)

Ordered(f) == \E k \in 0..runs : First(backups[f], k)
InOrder    == \A f \in F!Files : Ordered(f)

Recorded == state # F!NoState => \A f \in F!Files : RecordHolds(f, state[f])

(* What is remembered of the beginning of a run.                           *)
Remembered ==
  ~F!Idle =>
    /\ runs > 0
    /\ before = <<before[1], before[2], before[3]>>
    /\ before[1] \in [F!Files -> Content] /\ before[2] \in [F!Files -> Paths]
    /\ \A f \in F!Files : \E k \in 0..(runs - 1) : First(Old(f), k)

FilesInv ==
  /\ F!TypeOK /\ UsersSafe /\ InOrder /\ Recorded /\ Remembered
  /\ InstallInv /\ UninstallInv /\ F!AllOrNothing

(***************************************************************************)
(* Places and backups.                                                     *)
(***************************************************************************)

(* The path that Get-BackupPath finds is the first one that is free.       *)
LEMMA FreeSlotIsNext ==
  ASSUME NEW f, NEW k \in F!Slots, First(backups[f], k)
  PROVE  F!FreeSlot(f) = k
<1>1. backups[f][k] = F!NoFile /\ \A r \in F!Slots : r < k => backups[f][r] # F!NoFile
  BY FilesConstants DEF First, F!Slots
<1>2. \A s \in F!Slots :
        backups[f][s] = F!NoFile /\ (\A r \in F!Slots : r < s => backups[f][r] # F!NoFile) => s = k
  BY <1>1, FilesConstants DEF First, F!Slots
<1>3. QED BY <1>1, <1>2 DEF F!FreeSlot

(* A backup more, or one less.                                             *)
LEMMA OneMore ==
  ASSUME NEW b \in Paths, NEW k \in F!Slots, First(b, k), NEW c \in Content, c # F!NoFile
  PROVE  First([b EXCEPT ![k] = c], k + 1) /\ [b EXCEPT ![k] = c] \in Paths
BY FilesConstants DEF First, F!Slots, Paths

LEMMA OneLess ==
  ASSUME NEW b \in Paths, NEW k \in F!Slots, First(b, k) \/ First(b, k + 1)
  PROVE  First([b EXCEPT ![k] = F!NoFile], k) /\ [b EXCEPT ![k] = F!NoFile] \in Paths
BY FilesConstants DEF First, F!Slots, Paths, Content

(* What is written to a path of one file leaves the other file's alone.    *)
LEMMA WriteBackup ==
  ASSUME backups \in [F!Files -> Paths], NEW f \in F!Files, NEW s \in F!Slots, NEW c \in Content,
         backups' = [backups EXCEPT ![f][s] = c]
  PROVE  /\ backups' \in [F!Files -> Paths]
         /\ backups'[f] = [backups[f] EXCEPT ![s] = c]
         /\ \A g \in F!Files \ {f} : backups'[g] = backups[g]
BY DEF Paths

(* What was kept by its place is kept by the backup it is moved to.        *)
LEMMA MovedAway ==
  ASSUME NEW b \in Paths, NEW k \in F!Slots, b[k] = F!NoFile, NEW c, NEW U,
         F!NoFile \notin U, U \subseteq {c} \union {b[s] : s \in F!Slots}
  PROVE  U \subseteq {[b EXCEPT ![k] = c][s] : s \in F!Slots}
<1> SUFFICES ASSUME NEW u \in U PROVE \E s \in F!Slots : [b EXCEPT ![k] = c][s] = u
  OBVIOUS
<1>1. [b EXCEPT ![k] = c][k] = c /\ \A s \in F!Slots \ {k} : [b EXCEPT ![k] = c][s] = b[s]
  BY DEF Paths
<1>2. QED BY <1>1

(* And by its place again when it is moved back.                           *)
LEMMA MovedIn ==
  ASSUME NEW b \in Paths, NEW k \in F!Slots, NEW c, NEW U,
         U \subseteq {b[s] : s \in F!Slots}
  PROVE  U \subseteq {b[k]} \union {[b EXCEPT ![k] = c][s] : s \in F!Slots}
<1>1. [b EXCEPT ![k] = c][k] = c /\ \A s \in F!Slots \ {k} : [b EXCEPT ![k] = c][s] = b[s]
  BY DEF Paths
<1>2. QED BY <1>1

LEMMA FileTypes ==
  ASSUME FilesInv
  PROVE  /\ dest \in [F!Files -> Content] /\ backups \in [F!Files -> Paths]
         /\ changes \in Seq(F!Record) /\ Len(changes) \in 0..2
         /\ runs \in Nat /\ runs <= MaxRuns
         /\ version \in Packages
         /\ \A v \in Packages : F!Package(v) \in Content /\ F!Package(v) # F!NoFile
<1> F!TypeOK BY DEF FilesInv
<1>1. dest \in [F!Files -> Content] /\ backups \in [F!Files -> Paths]
  BY DEF F!TypeOK, Content, Paths
<1>3. changes \in Seq(F!Record) /\ Len(changes) <= 2 /\ version \in Packages
  BY DEF F!TypeOK
<1>4. Len(changes) \in 0..2
  <2>1. PICK n : n = Len(changes) OBVIOUS
  <2>2. n \in Nat /\ n <= 2 BY <1>3, <2>1
  <2>3. n \in 0..2 BY <2>2
  <2>4. QED BY <2>1, <2>3
<1>5. runs \in Nat /\ runs <= MaxRuns
  BY FilesConstants DEF F!TypeOK
<1>2. \A v \in Packages : F!Package(v) \in Content /\ F!Package(v) # F!NoFile
  BY DEF Content, F!Contents, F!Package, F!NoFile
<1>6. QED BY <1>1, <1>2, <1>3, <1>4, <1>5

(***************************************************************************)
(* Installation.                                                           *)
(***************************************************************************)

(* A record of a file that a step does not touch goes on to hold.          *)
LEMMA InstalledStays ==
  ASSUME NEW f, NEW r, backups'[f] = backups[f], UNCHANGED <<version, before, runs, users>>
  PROVE  /\ Installed(f, r)' <=> Installed(f, r)
         /\ \A s : Taken(f, s)' <=> Taken(f, s)
<1>1. \A s : Taken(f, s)' <=> Taken(f, s)
  BY DEF Taken, Kept, Backups, Place, Old
<1>2. QED BY <1>1 DEF Installed, Place, Old

(* An installation that goes on has to keep its own invariant.             *)
LEMMA InstallGoesOn ==
  ASSUME FilesInv, scriptPc \in Installing, scriptPc' \in Installing,
         UNCHANGED <<state, runs, before>>, F!TypeOK', UsersSafe', InOrder', InstallInv'
  PROVE  FilesInv'
<1>1. Recorded' BY DEF FilesInv, InstallInv, Recorded
<1>2. Remembered'
  BY DEF FilesInv, Remembered, F!Idle, Installing, Forward, Old
<1>3. UninstallInv' /\ F!AllOrNothing'
  BY DEF UninstallInv, RecordKept, TakingOut, TakingBack, Uninstalling, F!AllOrNothing, Installing, Forward
<1>4. QED BY <1>1, <1>2, <1>3 DEF FilesInv

(* The record of the current file is added, and the next file is begun.    *)
LEMMA RecordAdded ==
  ASSUME FilesInv, scriptPc \in {"backingUp", "copying"}, NEW r \in F!Record, F!Recorded(r),
         UNCHANGED <<backups, state, version, clean, before, users, runs>>,
         NEW f \in F!Files, f = F!Current, Installed(f, r)',
         dest' \in [F!Files -> Content], dest'[f] = F!Package(version),
         \A g \in F!Files \ {f} : dest'[g] = dest[g]
  PROVE  /\ changes' \in Seq(F!Record) /\ Len(changes') \in 0..2
         /\ scriptPc' \in {"backingUp", "saving"} /\ InstallInv'
<1>1. /\ InstallInv /\ f = Len(changes) + 1
      /\ changes \in Seq(F!Record) /\ Len(changes) \in 0..1
      /\ scriptPc \in Installing /\ scriptPc \in Forward
  BY FileTypes DEF FilesInv, InstallInv, F!Current, F!Files, Installing, Forward
<1>2. /\ changes' = Append(changes, r) /\ changes' \in Seq(F!Record)
      /\ Len(changes') = Len(changes) + 1
      /\ changes'[f] = r /\ \A i \in DOMAIN changes : changes'[i] = changes[i]
      /\ DOMAIN changes' = DOMAIN changes \union {f}
      /\ DOMAIN changes = 1..Len(changes) /\ DOMAIN changes \subseteq F!Files
  BY <1>1 DEF F!Recorded, F!Files
<1>3. /\ scriptPc' \in {"backingUp", "saving"}
      /\ scriptPc' = "backingUp" => Len(changes) = 0
      /\ scriptPc' = "saving" => Len(changes) = 1
  BY <1>1 DEF F!Recorded, F!Files
<1>4. state = F!NoState /\ before[3] = F!NoState /\ clean
  BY <1>1 DEF InstallInv
<1>5. ASSUME NEW i \in DOMAIN changes, NEW q, q = changes[i]
      PROVE  Installed(i, q)' /\ dest'[i] = F!Package(version) /\ changes'[i] = q
  <2>1. Placed(i) BY <1>1, <1>2, <1>5 DEF InstallInv, Forward
  <2>2. Installed(i, q)' BY <1>5, <2>1, InstalledStays DEF Placed
  <2>3. i # f /\ i \in F!Files BY <1>1, <1>2, <1>5
  <2>4. QED BY <1>2, <1>5, <2>1, <2>2, <2>3 DEF Placed
<1>6. \A i \in DOMAIN changes' : Placed(i)'
  <2> SUFFICES ASSUME NEW i \in DOMAIN changes' PROVE Placed(i)'
    OBVIOUS
  <2>1. CASE i = f BY <1>2, <2>1 DEF Placed
  <2>2. CASE i \in DOMAIN changes
    <3>1. PICK q : q = changes[i] OBVIOUS
    <3>2. Installed(i, q)' /\ dest'[i] = F!Package(version) /\ changes'[i] = q
      BY <1>5, <2>2, <3>1
    <3>3. QED BY <3>2 DEF Placed
  <2>3. QED BY <1>2, <2>1, <2>2
<1>7. \A g \in F!Files : g > Len(changes') => Original(g)'
  <2> SUFFICES ASSUME NEW g \in F!Files, g > Len(changes') PROVE Original(g)'
    OBVIOUS
  <2>1. g > Len(changes) /\ g # f BY <1>1, <1>2 DEF F!Files
  <2>2. Original(g) BY <1>1, <1>4, <2>1 DEF InstallInv
  <2>3. QED BY <2>1, <2>2 DEF Original, Place, Old
<1>8. InstallInv'
  <2>1. F!Current' = Len(changes) + 2 BY <1>1, <1>2 DEF F!Current
  <2>2. scriptPc' = "backingUp" => F!Current' \in F!Files BY <1>3, <2>1 DEF F!Files
  <2>3. scriptPc' = "saving" => Len(changes') = 2 BY <1>1, <1>2, <1>3
  <2>4. QED BY <1>3, <1>4, <1>6, <1>7, <2>2, <2>3 DEF InstallInv, Forward
<1>9. QED BY <1>1, <1>2, <1>3, <1>8

(* A step that leaves the record and the user's files alone.               *)
LEMMA InstallTypes ==
  ASSUME FilesInv, dest' \in [F!Files -> Content], backups' \in [F!Files -> Paths],
         changes' \in Seq(F!Record), Len(changes') \in 0..2,
         slot' \in F!Slots \union {F!NoSlot}, clean' \in BOOLEAN,
         scriptPc' \in Installing \union {"failed"},
         UNCHANGED <<staged, state, version, hand, aside, restored, users, runs, edits>>
  PROVE  F!TypeOK'
<1>1. F!TypeOK BY DEF FilesInv
<1>2. /\ dest' \in [F!Files -> F!Contents \union {F!NoFile}]
      /\ backups' \in [F!Files -> [F!Slots -> F!Contents \union {F!NoFile}]]
  BY DEF Content, Paths
<1>3. Len(changes') <= 2
  <2>1. PICK n \in 0..2 : n = Len(changes') OBVIOUS
  <2>2. n <= 2 OBVIOUS
  <2>3. QED BY <2>1, <2>2
<1>4. /\ staged' \in [F!Files -> SUBSET F!Contents]
      /\ state' = F!NoState \/ state' \in [F!Files -> F!Record]
      /\ version' \in Packages /\ hand' \in 0..3 /\ aside' \subseteq F!Files
      /\ restored' \subseteq F!Files /\ runs' \in 0..MaxRuns /\ edits' \in 0..MaxEdits
      /\ users' \in [F!Files -> SUBSET F!Contents]
  BY <1>1 DEF F!TypeOK
<1>5. scriptPc' \in {"idle", "installed", "uninstalled", "failed",
             "backingUp", "copying", "puttingBack", "saving", "removing", "movingBack",
             "staging", "restoring", "dropping", "unrestoring", "unstaging", "deleting"}
  BY DEF Installing, Forward
<1>6. QED BY <1>2, <1>3, <1>4, <1>5 DEF F!TypeOK

(* A file that a step does not touch is as safe as before.                 *)
LEMMA OthersStay ==
  ASSUME UsersSafe, InOrder, NEW f, UNCHANGED <<users, runs>>,
         \A g \in F!Files \ {f} : dest'[g] = dest[g] /\ backups'[g] = backups[g],
         f \in F!Files => Safe(f)' /\ Ordered(f)'
  PROVE  UsersSafe' /\ InOrder'
<1> SUFFICES ASSUME NEW g \in F!Files PROVE Safe(g)' /\ Ordered(g)'
  BY DEF UsersSafe, InOrder
<1>1. CASE g = f BY <1>1
<1>2. CASE g # f
  <2>1. Safe(g) /\ Ordered(g) BY DEF UsersSafe, InOrder
  <2>2. QED BY <1>2, <2>1 DEF Safe, Ordered, Backups
<1>3. QED BY <1>1, <1>2

(* The run is over.                                                        *)
LEMMA RunEnds ==
  ASSUME scriptPc' \in {"idle", "installed", "uninstalled", "failed"},
         F!TypeOK', UsersSafe', InOrder', Recorded', F!AllOrNothing'
  PROVE  FilesInv'
<1>1. InstallInv' BY DEF InstallInv, Installing, Forward
<1>2. UninstallInv' BY DEF UninstallInv, RecordKept, TakingOut, TakingBack, Uninstalling
<1>3. Remembered' BY DEF Remembered, F!Idle
<1>4. QED BY <1>1, <1>2, <1>3 DEF FilesInv

(* The roll-back of an installation begins: what is not recorded has been  *)
(* put back, unless that has failed.                                       *)
LEMMA RollBackBegins ==
  ASSUME FilesInv, scriptPc \in Forward, scriptPc' = "removing",
         UNCHANGED <<state, version, changes, before, users, runs>>,
         \A f \in DOMAIN changes : dest'[f] = dest[f] /\ backups'[f] = backups[f],
         clean' => \A f \in F!Files : f > Len(changes) => Original(f)'
  PROVE  InstallInv'
<1>1. InstallInv /\ scriptPc \in Installing /\ scriptPc # "movingBack"
  BY DEF FilesInv, Installing, Forward
<1>2. \A i \in DOMAIN changes : Placed(i)'
  <2> SUFFICES ASSUME NEW i \in DOMAIN changes PROVE Placed(i)'
    OBVIOUS
  <2>1. Placed(i) BY <1>1 DEF InstallInv
  <2>2. PICK q : q = changes[i] OBVIOUS
  <2>3. Installed(i, q)' BY <2>1, <2>2, InstalledStays DEF Placed
  <2>4. changes'[i] = q /\ dest'[i] = F!Package(version') BY <2>1, <2>2 DEF Placed
  <2>5. QED BY <2>3, <2>4 DEF Placed
<1>3. QED BY <1>1, <1>2 DEF InstallInv, Forward

(* Where an installation is, with what it knows of the file in hand.       *)
LEMMA InHand ==
  ASSUME FilesInv, scriptPc \in {"backingUp", "copying", "puttingBack"}
  PROVE  /\ F!Current \in F!Files /\ F!Current = Len(changes) + 1
         /\ DOMAIN changes \subseteq F!Files \ {F!Current}
         /\ state = F!NoState /\ clean
         /\ \A g \in F!Files : g > F!Current => Original(g)
         /\ scriptPc = "backingUp" => Original(F!Current)
         /\ scriptPc # "backingUp" => dest[F!Current] = F!NoFile /\ Taken(F!Current, slot)
<1>1. /\ InstallInv /\ Len(changes) \in 0..2 /\ changes \in Seq(F!Record)
      /\ scriptPc \in Installing /\ scriptPc \in Forward
  BY FileTypes DEF FilesInv, Installing, Forward
<1>2. /\ F!Current \in F!Files /\ state = F!NoState /\ clean
      /\ scriptPc # "backingUp" => dest[F!Current] = F!NoFile /\ Taken(F!Current, slot)
  BY <1>1 DEF InstallInv
<1>3. PICK n \in 0..2 : n = Len(changes) BY <1>1
<1>4. F!Current = n + 1 /\ DOMAIN changes = 1..n
  BY <1>1, <1>3 DEF F!Current
<1>5. DOMAIN changes \subseteq F!Files \ {F!Current}
  BY <1>2, <1>4 DEF F!Files
<1>6. \A g \in F!Files : g > n /\ ~(scriptPc # "backingUp" /\ g = F!Current) => Original(g)
  BY <1>1, <1>2, <1>3 DEF InstallInv
<1>7. \A g \in F!Files : g > F!Current => Original(g)
  BY <1>4, <1>6 DEF F!Files
<1>8. scriptPc = "backingUp" => Original(F!Current)
  BY <1>2, <1>4, <1>6 DEF F!Files
<1>9. QED BY <1>2, <1>3, <1>4, <1>5, <1>7, <1>8

(* A file that is no longer in its place is the user's only in a backup.   *)
LEMMA KeptWithoutPlace ==
  ASSUME FilesInv, NEW f \in F!Files, dest[f] = F!NoFile \/ Kept(f)
  PROVE  Kept(f) /\ F!NoFile \notin users[f]
BY DEF FilesInv, UsersSafe, Safe, Kept

(* Get-BackupPath in a run: a path below the number of runs.               *)
LEMMA NextSlot ==
  ASSUME FilesInv, ~F!Idle, NEW f \in F!Files, Original(f)
  PROVE  /\ F!FreeSlot(f) \in F!Slots /\ F!FreeSlot(f) < runs
         /\ First(Old(f), F!FreeSlot(f)) /\ backups[f][F!FreeSlot(f)] = F!NoFile
<1>1. runs \in Nat /\ runs <= MaxRuns /\ runs > 0 BY FileTypes DEF FilesInv, Remembered
<1>2. PICK k \in 0..(runs - 1) : First(Old(f), k) BY DEF FilesInv, Remembered
<1>3. k \in F!Slots /\ k < runs BY <1>1, FilesConstants DEF F!Slots
<1>4. First(backups[f], k) /\ backups[f] = Old(f) BY <1>2 DEF Original
<1>5. F!FreeSlot(f) = k BY <1>3, <1>4, FreeSlotIsNext
<1>6. backups[f][k] = F!NoFile BY <1>3, <1>4, FilesConstants DEF First, F!Slots
<1>7. QED BY <1>3, <1>4, <1>5, <1>6

LEMMA SlotFacts ==
  /\ F!NoSlot \notin F!Slots
  /\ \A s \in F!Slots : s # F!NoSlot /\ s \in Nat
  /\ F!NoFile \notin F!Contents
BY FilesConstants DEF F!NoSlot, F!Slots, F!NoFile, F!Contents, F!Package, F!Own

(* The old file is moved away, if there is one.                            *)
LEMMA BackUpKeeps ==
  ASSUME FilesInv, F!BackUp
  PROVE  FilesInv'
<1> PICK f : f = F!Current OBVIOUS
<1>1. /\ f \in F!Files /\ state = F!NoState /\ clean /\ Original(f)
      /\ \A g \in F!Files : g > f => Original(g)
      /\ DOMAIN changes \subseteq F!Files \ {f} /\ f = Len(changes) + 1
  BY InHand DEF F!BackUp
<1>2. /\ scriptPc = "backingUp" /\ scriptPc \in Installing /\ scriptPc \in Forward /\ ~F!Idle
      /\ UNCHANGED <<staged, state, version, hand, aside, restored, clean, before, replaced,
                     users, runs, edits>>
  BY DEF F!BackUp, F!uninstallVars, F!historyVars, Installing, Forward, F!Idle
<1>3. /\ dest \in [F!Files -> Content] /\ backups \in [F!Files -> Paths]
      /\ changes \in Seq(F!Record) /\ Len(changes) \in 0..2 /\ version \in Packages
      /\ F!Package(version) \in Content /\ F!Package(version) # F!NoFile
      /\ clean' \in BOOLEAN /\ slot \in F!Slots \union {F!NoSlot}
      /\ F!Package(version) \in F!Contents
  BY FileTypes, <1>2 DEF FilesInv, F!TypeOK, F!Contents
<1>4. UsersSafe /\ InOrder /\ Safe(f) /\ Ordered(f) /\ InstallInv
  BY <1>1 DEF FilesInv, UsersSafe, InOrder
<1>5. \/ /\ dest[f] = F!Package(version)
         /\ F!Recorded([backup |-> F!NoSlot, old |-> F!NoFile, installed |-> F!Package(version), changed |-> FALSE])
         /\ UNCHANGED <<dest, backups, slot>>
      \/ /\ dest[f] = F!NoFile
         /\ slot' = F!NoSlot /\ scriptPc' = "copying" /\ UNCHANGED <<dest, backups, changes>>
      \/ /\ dest[f] \notin {F!NoFile, F!Package(version)}
         /\ slot' = F!FreeSlot(f) /\ scriptPc' = "copying"
         /\ backups' = [backups EXCEPT ![f][F!FreeSlot(f)] = dest[f]]
         /\ dest' = [dest EXCEPT ![f] = F!NoFile] /\ UNCHANGED changes
      \/ scriptPc' = "removing" /\ UNCHANGED <<dest, backups, slot, changes>>
  BY DEF F!BackUp
<1>6. CASE /\ dest[f] = F!Package(version)
           /\ F!Recorded([backup |-> F!NoSlot, old |-> F!NoFile, installed |-> F!Package(version), changed |-> FALSE])
           /\ UNCHANGED <<dest, backups, slot>>
  <2>1. PICK r : r = [backup |-> F!NoSlot, old |-> F!NoFile, installed |-> F!Package(version), changed |-> FALSE]
    OBVIOUS
  <2>2. r \in F!Record BY <2>1, <1>3 DEF F!Record
  <2>3. Installed(f, r) BY <1>1, <1>6, <2>1 DEF Installed, Original
  <2>4. Installed(f, r)' BY <1>2, <1>6, <2>3, InstalledStays
  <2>5. /\ changes' \in Seq(F!Record) /\ Len(changes') \in 0..2
        /\ scriptPc' \in {"backingUp", "saving"} /\ InstallInv'
    BY <1>1, <1>2, <1>3, <1>6, <2>1, <2>2, <2>4, RecordAdded
  <2>6. scriptPc' \in Installing BY <2>5 DEF Installing, Forward
  <2>7. F!TypeOK' BY <1>2, <1>3, <1>6, <2>5, <2>6, InstallTypes
  <2>8. UsersSafe' /\ InOrder'
    BY <1>2, <1>4, <1>6 DEF UsersSafe, InOrder, Safe, Ordered, Backups
  <2>9. QED BY <1>2, <2>5, <2>6, <2>7, <2>8, InstallGoesOn
<1>7. CASE /\ dest[f] = F!NoFile
           /\ slot' = F!NoSlot /\ scriptPc' = "copying" /\ UNCHANGED <<dest, backups, changes>>
  <2>1. Kept(f) BY <1>1, <1>7, KeptWithoutPlace
  <2>2. Taken(f, F!NoSlot) BY <1>1, <1>7, <2>1 DEF Taken, Original
  <2>3. Taken(f, slot)' BY <1>2, <1>7, <2>2 DEF Taken, Kept, Backups, Place, Old
  <2>4. scriptPc' \in Installing BY <1>7 DEF Installing, Forward
  <2>5. F!TypeOK' BY <1>2, <1>3, <1>7, <2>4, InstallTypes
  <2>6. UsersSafe' /\ InOrder'
    BY <1>2, <1>4, <1>7 DEF UsersSafe, InOrder, Safe, Ordered, Backups
  <2>7. InstallInv'
    <3>1. F!Current' = f BY <1>7 DEF F!Current
    <3>2. \A i \in DOMAIN changes : Placed(i)
      BY <1>2, <1>4 DEF InstallInv
    <3>3. \A i \in DOMAIN changes' : Placed(i)'
      BY <1>2, <1>7, <3>2 DEF Placed, Installed, Taken, Kept, Backups, Place, Old
    <3>4. \A g \in F!Files : g > Len(changes) => Original(g)
      BY <1>1, <1>2, <1>4 DEF InstallInv, Forward
    <3>5. \A g \in F!Files : g > Len(changes') => Original(g)'
      BY <1>2, <1>7, <3>4 DEF Original, Place, Old
    <3>6. before[3] = F!NoState BY <1>2, <1>4 DEF InstallInv
    <3>7. QED BY <1>1, <1>2, <1>7, <2>3, <3>1, <3>3, <3>5, <3>6 DEF InstallInv
  <2>8. QED BY <1>2, <1>7, <2>4, <2>5, <2>6, <2>7, InstallGoesOn
<1>8. CASE /\ dest[f] \notin {F!NoFile, F!Package(version)}
           /\ slot' = F!FreeSlot(f) /\ scriptPc' = "copying"
           /\ backups' = [backups EXCEPT ![f][F!FreeSlot(f)] = dest[f]]
           /\ dest' = [dest EXCEPT ![f] = F!NoFile] /\ UNCHANGED changes
  <2>1. PICK s : s = F!FreeSlot(f) OBVIOUS
  <2>2. s \in F!Slots /\ s < runs /\ First(Old(f), s) /\ backups[f][s] = F!NoFile
    BY <1>1, <1>2, <2>1, NextSlot
  <2>3. PICK c \in Content : c = dest[f] BY <1>1, <1>3
  <2>4. /\ backups' \in [F!Files -> Paths] /\ backups'[f] = [backups[f] EXCEPT ![s] = c]
        /\ \A g \in F!Files \ {f} : backups'[g] = backups[g]
    BY <1>1, <1>3, <1>8, <2>1, <2>2, <2>3, WriteBackup
  <2>5. /\ dest' \in [F!Files -> Content] /\ dest'[f] = F!NoFile
        /\ \A g \in F!Files \ {f} : dest'[g] = dest[g]
    BY <1>1, <1>3, <1>8 DEF Content
  <2>6. backups[f] \in Paths /\ Old(f) = backups[f] /\ Place(f) = dest[f]
    BY <1>1, <1>3 DEF Original
  <2>7. F!NoFile \notin users[f] /\ users[f] \subseteq {c} \union {backups[f][t] : t \in F!Slots}
    BY <1>4, <2>3 DEF Safe, Backups
  <2>8. users[f] \subseteq {backups'[f][t] : t \in F!Slots}
    <3>1. PICK b : b = backups[f] OBVIOUS
    <3>2. PICK U : U = users[f] OBVIOUS
    <3>3. b \in Paths /\ b[s] = F!NoFile BY <2>2, <2>6, <3>1
    <3>4. F!NoFile \notin U /\ U \subseteq {c} \union {b[t] : t \in F!Slots} BY <2>7, <3>1, <3>2
    <3>5. U \subseteq {[b EXCEPT ![s] = c][t] : t \in F!Slots} BY <2>2, <3>3, <3>4, MovedAway
    <3>6. QED BY <2>4, <3>1, <3>2, <3>5
  <2>9. Kept(f)' /\ Safe(f)' BY <1>2, <2>7, <2>8 DEF Kept, Safe, Backups
  <2>10. Ordered(f)'
    <3>1. First(backups'[f], s + 1)
      <4>1. PICK b : b = backups[f] OBVIOUS
      <4>2. b \in Paths /\ First(b, s) /\ c # F!NoFile BY <1>8, <2>2, <2>3, <2>6, <4>1
      <4>3. First([b EXCEPT ![s] = c], s + 1) BY <2>2, <4>2, OneMore
      <4>4. QED BY <2>4, <4>1, <4>3
    <3>2. s + 1 \in 0..runs BY <2>2, FileTypes, FilesConstants DEF F!Slots
    <3>3. QED BY <1>2, <3>1, <3>2 DEF Ordered
  <2>11. UsersSafe' /\ InOrder' BY <1>2, <1>4, <2>4, <2>5, <2>9, <2>10, OthersStay
  <2>12. Taken(f, slot)'
    <3>1. slot' = s /\ s # F!NoSlot /\ s \in F!Slots /\ s < runs' /\ First(Old(f)', s)
      BY <1>2, <1>8, <2>1, <2>2, SlotFacts DEF Old
    <3>2. Place(f)' \notin {F!NoFile, F!Package(version')} BY <1>2, <1>8, <2>6 DEF Place
    <3>3. backups'[f] = [Old(f)' EXCEPT ![s] = Place(f)']
      BY <1>2, <2>3, <2>4, <2>6 DEF Old, Place
    <3>4. QED BY <2>9, <3>1, <3>2, <3>3 DEF Taken
  <2>13. InstallInv'
    <3>1. F!Current' = f BY <1>8 DEF F!Current
    <3>2. \A i \in DOMAIN changes' : Placed(i)'
      <4> SUFFICES ASSUME NEW i \in DOMAIN changes PROVE Placed(i)'
        BY <1>8
      <4>1. Placed(i) BY <1>2, <1>4 DEF InstallInv
      <4>2. PICK q : q = changes[i] OBVIOUS
      <4>3. i \in F!Files \ {f} BY <1>1
      <4>4. Installed(i, q)' BY <1>2, <2>4, <4>1, <4>2, <4>3, InstalledStays DEF Placed
      <4>5. changes'[i] = q /\ dest'[i] = F!Package(version')
        BY <1>2, <1>8, <2>5, <4>1, <4>2, <4>3 DEF Placed
      <4>6. QED BY <4>4, <4>5 DEF Placed
    <3>3. \A g \in F!Files : g > Len(changes') /\ g # f => Original(g)'
      <4>1. \A g \in F!Files : g > Len(changes) => Original(g)
        BY <1>1, <1>2, <1>4 DEF InstallInv, Forward
      <4>2. QED BY <1>2, <1>8, <2>4, <2>5, <4>1 DEF Original, Place, Old
    <3>4. before[3] = F!NoState BY <1>2, <1>4 DEF InstallInv
    <3>5. dest'[f] = F!NoFile BY <2>5
    <3>6. QED BY <1>1, <1>2, <1>8, <2>12, <3>1, <3>2, <3>3, <3>4, <3>5 DEF InstallInv
  <2>14. scriptPc' \in Installing BY <1>8 DEF Installing, Forward
  <2>15. F!TypeOK' BY <1>2, <1>3, <1>8, <2>1, <2>2, <2>4, <2>5, <2>14, InstallTypes
  <2>16. QED BY <1>2, <2>11, <2>13, <2>14, <2>15, InstallGoesOn
<1>9. CASE scriptPc' = "removing" /\ UNCHANGED <<dest, backups, slot, changes>>
  <2>1. \A g \in F!Files : g > Len(changes) => Original(g)
    BY <1>1, <1>2, <1>4 DEF InstallInv, Forward
  <2>2. \A g \in F!Files : g > Len(changes) => Original(g)'
    BY <1>2, <1>9, <2>1 DEF Original, Place, Old
  <2>3. InstallInv' BY <1>2, <1>9, <2>2, RollBackBegins
  <2>4. scriptPc' \in Installing BY <1>9 DEF Installing
  <2>5. F!TypeOK' BY <1>2, <1>3, <1>9, <2>4, InstallTypes
  <2>6. UsersSafe' /\ InOrder'
    BY <1>2, <1>4, <1>9 DEF UsersSafe, InOrder, Safe, Ordered, Backups
  <2>7. QED BY <1>2, <2>3, <2>4, <2>5, <2>6, InstallGoesOn
<1>10. QED BY <1>5, <1>6, <1>7, <1>8, <1>9

(* A file is moved back from its backup: the user's part of it stays safe. *)
LEMMA FromBackupKeeps ==
  ASSUME FilesInv, NEW f \in F!Files, NEW s \in F!Slots, Kept(f), F!FromBackup(f, s), users' = users
  PROVE  /\ dest' \in [F!Files -> Content] /\ backups' \in [F!Files -> Paths]
         /\ dest'[f] = backups[f][s] /\ backups'[f] = [backups[f] EXCEPT ![s] = F!NoFile]
         /\ \A g \in F!Files \ {f} : dest'[g] = dest[g] /\ backups'[g] = backups[g]
         /\ Safe(f)'
<1>1. /\ dest \in [F!Files -> Content] /\ backups \in [F!Files -> Paths]
      /\ F!NoFile \in Content /\ backups[f] \in Paths /\ backups[f][s] \in Content
  BY FileTypes DEF Paths, Content
<1>2. /\ backups' \in [F!Files -> Paths] /\ backups'[f] = [backups[f] EXCEPT ![s] = F!NoFile]
      /\ \A g \in F!Files \ {f} : backups'[g] = backups[g]
  BY <1>1, WriteBackup DEF F!FromBackup
<1>3. /\ dest' \in [F!Files -> Content] /\ dest'[f] = backups[f][s]
      /\ \A g \in F!Files \ {f} : dest'[g] = dest[g]
  BY <1>1 DEF F!FromBackup
<1>4. F!NoFile \notin users[f] /\ users[f] \subseteq Backups(f)
  BY KeptWithoutPlace DEF Kept
<1>5. Safe(f)'
  <2>1. PICK b : b = backups[f] OBVIOUS
  <2>2. PICK U : U = users[f] OBVIOUS
  <2>3. U \subseteq {b[t] : t \in F!Slots} BY <1>4, <2>1, <2>2 DEF Backups
  <2>4. b \in Paths BY <1>1, <2>1
  <2>5. U \subseteq {b[s]} \union {[b EXCEPT ![s] = F!NoFile][t] : t \in F!Slots}
    BY <2>3, <2>4, MovedIn
  <2>6. QED BY <1>2, <1>3, <1>4, <2>1, <2>2, <2>5 DEF Safe, Backups
<1>6. QED BY <1>2, <1>3, <1>5

(* The new file comes into the place of the old one.                       *)
LEMMA CopyNewKeeps ==
  ASSUME FilesInv, F!CopyNew
  PROVE  FilesInv'
<1> PICK f : f = F!Current OBVIOUS
<1>1. /\ f \in F!Files /\ state = F!NoState /\ clean /\ dest[f] = F!NoFile /\ Taken(f, slot)
      /\ DOMAIN changes \subseteq F!Files \ {f} /\ f = Len(changes) + 1
  BY InHand DEF F!CopyNew
<1>2. /\ scriptPc = "copying" /\ scriptPc \in Installing /\ scriptPc \in Forward
      /\ UNCHANGED <<backups, staged, state, version, slot, hand, aside, restored, clean, before,
                     replaced, users, runs, edits>>
  BY DEF F!CopyNew, F!uninstallVars, F!historyVars, Installing, Forward
<1>3. /\ dest \in [F!Files -> Content] /\ backups \in [F!Files -> Paths]
      /\ changes \in Seq(F!Record) /\ Len(changes) \in 0..2 /\ version \in Packages
      /\ F!Package(version) \in Content /\ F!Package(version) # F!NoFile
      /\ clean' \in BOOLEAN /\ slot \in F!Slots \union {F!NoSlot} /\ slot' = slot
      /\ F!Package(version) \in F!Contents
  BY FileTypes, <1>2 DEF FilesInv, F!TypeOK, F!Contents
<1>4. UsersSafe /\ InOrder /\ Safe(f) /\ Ordered(f) /\ InstallInv /\ Kept(f)
  BY <1>1 DEF FilesInv, UsersSafe, InOrder, Taken
<1>5. PICK old : old = IF slot = F!NoSlot THEN F!NoFile ELSE backups[f][slot] OBVIOUS
<1>6. \/ /\ dest' = [dest EXCEPT ![f] = F!Package(version)]
         /\ F!Recorded([backup |-> slot, old |-> old, installed |-> F!Package(version), changed |-> TRUE])
      \/ scriptPc' = "puttingBack" /\ UNCHANGED <<dest, changes>>
  BY <1>5 DEF F!CopyNew
<1>7. old \in Content /\ old = Place(f)
  <2>1. CASE slot = F!NoSlot
    BY <1>1, <1>5, <2>1 DEF Taken, Content
  <2>2. CASE slot # F!NoSlot
    <3>1. slot \in F!Slots /\ backups[f] = [Old(f) EXCEPT ![slot] = Place(f)]
      BY <1>1, <2>2 DEF Taken
    <3>2. backups[f] \in Paths BY <1>1, <1>3
    <3>3. DOMAIN Old(f) = F!Slots BY <3>1, <3>2 DEF Paths
    <3>4. backups[f][slot] = Place(f) BY <3>1, <3>3
    <3>5. QED BY <1>5, <2>2, <3>1, <3>2, <3>4 DEF Paths
  <2>3. QED BY <2>1, <2>2
<1>8. CASE /\ dest' = [dest EXCEPT ![f] = F!Package(version)]
           /\ F!Recorded([backup |-> slot, old |-> old, installed |-> F!Package(version), changed |-> TRUE])
  <2>1. PICK r : r = [backup |-> slot, old |-> old, installed |-> F!Package(version), changed |-> TRUE]
    OBVIOUS
  <2>2. r \in F!Record BY <2>1, <1>3, <1>7 DEF F!Record, Content
  <2>3. Installed(f, r) BY <1>1, <1>7, <2>1 DEF Installed
  <2>4. Installed(f, r)' BY <1>2, <2>3, InstalledStays
  <2>5. /\ dest' \in [F!Files -> Content] /\ dest'[f] = F!Package(version)
        /\ \A g \in F!Files \ {f} : dest'[g] = dest[g]
    BY <1>1, <1>3, <1>8
  <2>6. /\ changes' \in Seq(F!Record) /\ Len(changes') \in 0..2
        /\ scriptPc' \in {"backingUp", "saving"} /\ InstallInv'
    BY <1>1, <1>2, <1>8, <2>1, <2>2, <2>4, <2>5, RecordAdded
  <2>7. scriptPc' \in Installing BY <2>6 DEF Installing, Forward
  <2>8. F!TypeOK' BY <1>2, <1>3, <2>5, <2>6, <2>7, InstallTypes
  <2>9. Safe(f)' /\ Ordered(f)'
    BY <1>2, <1>4 DEF Safe, Ordered, Kept, Backups
  <2>10. UsersSafe' /\ InOrder' BY <1>2, <1>4, <2>5, <2>9, OthersStay
  <2>11. QED BY <1>2, <2>6, <2>7, <2>8, <2>10, InstallGoesOn
<1>9. CASE scriptPc' = "puttingBack" /\ UNCHANGED <<dest, changes>>
  <2>1. scriptPc' \in Installing BY <1>9 DEF Installing, Forward
  <2>2. F!TypeOK' BY <1>2, <1>3, <1>9, <2>1, InstallTypes
  <2>3. UsersSafe' /\ InOrder'
    BY <1>2, <1>4, <1>9 DEF UsersSafe, InOrder, Safe, Ordered, Backups
  <2>4. InstallInv'
    <3>1. F!Current' = f BY <1>9 DEF F!Current
    <3>2. \A i \in DOMAIN changes : Placed(i) BY <1>2, <1>4 DEF InstallInv
    <3>3. \A i \in DOMAIN changes' : Placed(i)'
      BY <1>2, <1>9, <3>2 DEF Placed, Installed, Taken, Kept, Backups, Place, Old
    <3>4. \A g \in F!Files : g > Len(changes) /\ g # f => Original(g)
      BY <1>1, <1>2, <1>4 DEF InstallInv, Forward
    <3>5. \A g \in F!Files : g > Len(changes') /\ g # f => Original(g)'
      BY <1>2, <1>9, <3>4 DEF Original, Place, Old
    <3>6. before[3] = F!NoState BY <1>2, <1>4 DEF InstallInv
    <3>7. Taken(f, slot)' BY <1>1, <1>2 DEF Taken, Kept, Backups, Place, Old
    <3>8. dest'[f] = F!NoFile BY <1>1, <1>9
    <3>9. QED BY <1>1, <1>2, <1>9, <3>1, <3>3, <3>5, <3>6, <3>7, <3>8 DEF InstallInv
  <2>5. QED BY <1>2, <2>1, <2>2, <2>3, <2>4, InstallGoesOn
<1>10. QED BY <1>6, <1>8, <1>9

(* The old file is put back after a copy that failed.                      *)
LEMMA PutBackKeeps ==
  ASSUME FilesInv, F!PutBack
  PROVE  FilesInv'
<1> PICK f : f = F!Current OBVIOUS
<1>1. /\ f \in F!Files /\ state = F!NoState /\ clean /\ dest[f] = F!NoFile /\ Taken(f, slot)
      /\ DOMAIN changes \subseteq F!Files \ {f} /\ f = Len(changes) + 1
      /\ \A g \in F!Files : g > f => Original(g)
  BY InHand DEF F!PutBack
<1>2. /\ scriptPc = "puttingBack" /\ scriptPc \in Installing /\ scriptPc \in Forward
      /\ scriptPc' = "removing" /\ scriptPc' \in Installing
      /\ UNCHANGED <<staged, state, version, changes, slot, hand, aside, restored, before,
                     replaced, users, runs, edits>>
  BY DEF F!PutBack, F!installVars, F!uninstallVars, F!historyVars, Installing, Forward
<1>3. /\ dest \in [F!Files -> Content] /\ backups \in [F!Files -> Paths]
      /\ changes \in Seq(F!Record) /\ Len(changes) \in 0..2
      /\ clean \in BOOLEAN /\ slot \in F!Slots \union {F!NoSlot} /\ slot' = slot
  BY FileTypes, <1>2 DEF FilesInv, F!TypeOK
<1>4. UsersSafe /\ InOrder /\ Safe(f) /\ Ordered(f) /\ Kept(f)
  BY <1>1 DEF FilesInv, UsersSafe, InOrder, Taken
<1>5. \A g \in F!Files : g > Len(changes) => g = f \/ g > f
  BY <1>1, <1>3 DEF F!Files
<1>6. \/ slot = F!NoSlot /\ UNCHANGED <<dest, backups, clean>>
      \/ slot # F!NoSlot /\ F!FromBackup(f, slot) /\ UNCHANGED clean
      \/ slot # F!NoSlot /\ clean' = FALSE /\ UNCHANGED <<dest, backups>>
  BY DEF F!PutBack
<1>7. CASE slot = F!NoSlot /\ UNCHANGED <<dest, backups, clean>>
  <2>1. Original(f) BY <1>1, <1>7 DEF Original, Taken
  <2>2. \A g \in F!Files : g > Len(changes) => Original(g)'
    BY <1>1, <1>2, <1>5, <1>7, <2>1 DEF Original, Place, Old
  <2>3. InstallInv' BY <1>2, <1>7, <2>2, RollBackBegins
  <2>4. F!TypeOK' BY <1>2, <1>3, <1>7, InstallTypes
  <2>5. UsersSafe' /\ InOrder'
    BY <1>2, <1>4, <1>7 DEF UsersSafe, InOrder, Safe, Ordered, Backups
  <2>6. QED BY <1>2, <2>3, <2>4, <2>5, InstallGoesOn
<1>8. CASE slot # F!NoSlot /\ F!FromBackup(f, slot) /\ UNCHANGED clean
  <2>1. /\ slot \in F!Slots /\ slot < runs /\ First(Old(f), slot)
        /\ backups[f] = [Old(f) EXCEPT ![slot] = Place(f)]
    BY <1>1, <1>8 DEF Taken
  <2>2. /\ dest' \in [F!Files -> Content] /\ backups' \in [F!Files -> Paths]
        /\ dest'[f] = backups[f][slot] /\ backups'[f] = [backups[f] EXCEPT ![slot] = F!NoFile]
        /\ \A g \in F!Files \ {f} : dest'[g] = dest[g] /\ backups'[g] = backups[g]
        /\ Safe(f)'
    BY <1>1, <1>2, <1>4, <1>8, <2>1, FromBackupKeeps
  <2>3. Old(f) \in Paths
    BY <1>1, <1>2 DEF FilesInv, Remembered, F!Idle, Old
  <2>4. dest'[f] = Place(f) /\ backups'[f] = Old(f)
    <3>1. PICK b : b = Old(f) OBVIOUS
    <3>2. b \in Paths /\ b[slot] = F!NoFile
      BY <2>1, <2>3, <3>1, FilesConstants DEF First, F!Slots
    <3>3. backups[f] = [b EXCEPT ![slot] = Place(f)] BY <2>1, <3>1
    <3>4. backups[f][slot] = Place(f) BY <2>1, <3>2, <3>3 DEF Paths
    <3>5. [[b EXCEPT ![slot] = Place(f)] EXCEPT ![slot] = F!NoFile] = b
      BY <2>1, <3>2 DEF Paths
    <3>6. QED BY <2>2, <3>1, <3>3, <3>4, <3>5
  <2>5. Original(f)' BY <1>2, <2>4 DEF Original, Place, Old
  <2>6. \A g \in F!Files : g > f => g \in F!Files \ {f} BY <1>1 DEF F!Files
  <2>7. \A g \in F!Files : g > f => Original(g)'
    BY <1>1, <1>2, <2>2, <2>6 DEF Original, Place, Old
  <2>8. \A g \in F!Files : g > Len(changes) => Original(g)' BY <1>5, <2>5, <2>7
  <2>9. InstallInv' BY <1>1, <1>2, <2>2, <2>8, RollBackBegins
  <2>10. F!TypeOK' BY <1>2, <1>3, <1>8, <2>2, InstallTypes
  <2>11. Ordered(f)'
    <3>1. slot \in 0..runs BY <2>1, FileTypes, FilesConstants DEF F!Slots
    <3>2. First(backups'[f], slot) BY <2>1, <2>4
    <3>3. QED BY <1>2, <3>1, <3>2 DEF Ordered
  <2>12. UsersSafe' /\ InOrder' BY <1>2, <1>4, <2>2, <2>11, OthersStay
  <2>13. QED BY <1>2, <2>9, <2>10, <2>12, InstallGoesOn
<1>9. CASE slot # F!NoSlot /\ clean' = FALSE /\ UNCHANGED <<dest, backups>>
  <2>1. InstallInv' BY <1>2, <1>9, RollBackBegins
  <2>2. F!TypeOK' BY <1>2, <1>3, <1>9, InstallTypes
  <2>3. UsersSafe' /\ InOrder'
    BY <1>2, <1>4, <1>9 DEF UsersSafe, InOrder, Safe, Ordered, Backups
  <2>4. QED BY <1>2, <2>1, <2>2, <2>3, InstallGoesOn
<1>10. QED BY <1>6, <1>7, <1>8, <1>9

(* A record that is saved tells the truth.                                 *)
LEMMA SavedRecordHolds ==
  ASSUME FilesInv, scriptPc = "saving", NEW f \in F!Files, replaced' = before[1],
         UNCHANGED <<dest, backups, users, runs>>, NEW r \in F!Record, r = changes[f]
  PROVE  RecordHolds(f, r)' /\ dest[f] = F!Package(version)
<1>1. InstallInv /\ scriptPc \in Installing /\ scriptPc # "movingBack"
  BY DEF FilesInv, Installing, Forward
<1>2. Len(changes) = 2 /\ changes \in Seq(F!Record) BY <1>1, FileTypes DEF InstallInv
<1>3. f \in DOMAIN changes BY <1>2 DEF F!Files
<1>4. Placed(f) BY <1>1, <1>3 DEF InstallInv
<1>5. /\ dest[f] = F!Package(version) /\ Installed(f, r) /\ version \in Packages
      /\ F!Package(version) # F!NoFile /\ r.changed \in BOOLEAN /\ Place(f) = before[1][f]
  BY <1>4, FileTypes DEF Placed, F!Record, Place
<1>6. CASE ~r.changed
  <2>1. r.installed = F!Package(version) /\ r.backup = F!NoSlot BY <1>5, <1>6 DEF Installed
  <2>2. QED BY <1>5, <1>6, <2>1 DEF RecordHolds
<1>7. CASE r.changed
  <2>1. r.installed = F!Package(version) /\ Taken(f, r.backup) /\ r.old = Place(f) /\ Kept(f)
    BY <1>5, <1>7 DEF Installed, Taken
  <2>2. CASE r.backup = F!NoSlot
    <3>1. Place(f) = F!NoFile BY <2>1, <2>2 DEF Taken
    <3>2. QED BY <1>5, <1>7, <2>1, <2>2, <3>1 DEF RecordHolds, Kept, Backups
  <2>3. CASE r.backup # F!NoSlot
    <3>1. /\ r.backup \in F!Slots /\ r.backup < runs /\ First(Old(f), r.backup)
          /\ Place(f) \notin {F!NoFile, F!Package(version)}
          /\ backups[f] = [Old(f) EXCEPT ![r.backup] = Place(f)]
      BY <2>1, <2>3 DEF Taken
    <3>2. Old(f) \in Paths /\ Place(f) \in Content
      BY DEF FilesInv, Remembered, F!Idle, Old, Place
    <3>3. First(backups[f], r.backup + 1)
      <4>1. PICK b : b = Old(f) OBVIOUS
      <4>2. PICK c : c = Place(f) OBVIOUS
      <4>3. PICK s : s = r.backup OBVIOUS
      <4>4. b \in Paths /\ First(b, s) /\ c \in Content /\ c # F!NoFile /\ s \in F!Slots
        BY <3>1, <3>2, <4>1, <4>2, <4>3
      <4>5. First([b EXCEPT ![s] = c], s + 1) BY <4>4, OneMore
      <4>6. QED BY <3>1, <4>1, <4>2, <4>3, <4>5
    <3>4. r.old # F!NoFile /\ r.old # r.installed BY <2>1, <3>1
    <3>5. First(backups'[f], r.backup + 1) BY <3>3
    <3>6. Kept(f)' BY <2>1 DEF Kept, Backups
    <3>7. QED BY <1>5, <1>7, <2>1, <2>3, <3>1, <3>4, <3>5, <3>6 DEF RecordHolds
  <2>4. QED BY <2>2, <2>3
<1>8. QED BY <1>6, <1>7

(* The record is saved.                                                    *)
LEMMA SaveStateKeeps ==
  ASSUME FilesInv, F!SaveState
  PROVE  FilesInv'
<1>1. /\ scriptPc = "saving" /\ scriptPc \in Installing /\ scriptPc \in Forward
      /\ UNCHANGED <<dest, backups, staged, version, changes, slot, hand, aside, restored, clean,
                     before, users, runs, edits>>
  BY DEF F!SaveState, F!installVars, F!uninstallVars, Installing, Forward
<1>2. /\ dest \in [F!Files -> Content] /\ backups \in [F!Files -> Paths]
      /\ changes \in Seq(F!Record) /\ Len(changes) \in 0..2
      /\ clean \in BOOLEAN /\ slot \in F!Slots \union {F!NoSlot}
  BY FileTypes DEF FilesInv, F!TypeOK
<1>3. UsersSafe' /\ InOrder'
  BY <1>1 DEF FilesInv, UsersSafe, InOrder, Safe, Ordered, Backups
<1>4. InstallInv /\ F!TypeOK /\ Len(changes) = 2
  BY <1>1 DEF FilesInv, InstallInv
<1>5. CASE state' = changes /\ replaced' = before[1] /\ scriptPc' = "installed"
  <2>1. changes \in [F!Files -> F!Record]
    <3>1. changes \in Seq(F!Record) BY <1>2
    <3>2. changes \in [1..Len(changes) -> F!Record] BY <3>1
    <3>3. PICK n : n = Len(changes) OBVIOUS
    <3>4. changes \in [1..n -> F!Record] BY <3>2, <3>3
    <3>5. n = 2 BY <1>4, <3>3
    <3>6. QED BY <3>4, <3>5 DEF F!Files
  <2>2. F!TypeOK' BY <1>1, <1>4, <1>5, <2>1 DEF F!TypeOK
  <2>3. \A f \in F!Files : RecordHolds(f, state[f])' /\ dest[f] = F!Package(version)
    <3> SUFFICES ASSUME NEW f \in F!Files
                 PROVE  RecordHolds(f, state[f])' /\ dest[f] = F!Package(version)
      OBVIOUS
    <3>1. PICK r \in F!Record : r = changes[f] BY <2>1
    <3>2. RecordHolds(f, r)' /\ dest[f] = F!Package(version) BY <1>1, <1>5, <3>1, SavedRecordHolds
    <3>3. state'[f] = r BY <1>5, <3>1
    <3>4. QED BY <3>2, <3>3
  <2>4. Recorded' BY <2>3 DEF Recorded
  <2>5. F!AllOrNothing' BY <1>1, <1>5, <2>3 DEF F!AllOrNothing, F!Package
  <2>6. QED BY <1>3, <1>5, <2>2, <2>4, <2>5, RunEnds
<1>6. CASE scriptPc' = "removing" /\ UNCHANGED <<state, replaced>>
  <2>1. \A g \in F!Files : ~(g > Len(changes)) BY <1>4 DEF F!Files
  <2>2. InstallInv' BY <1>1, <1>6, <2>1, RollBackBegins
  <2>3. scriptPc' \in Installing BY <1>6 DEF Installing
  <2>4. F!TypeOK' BY <1>1, <1>2, <1>6, <2>3, InstallTypes
  <2>5. QED BY <1>1, <1>3, <1>6, <2>2, <2>3, <2>4, InstallGoesOn
<1>7. QED BY <1>5, <1>6 DEF F!SaveState

(* The last record is dropped, its file is as it was: the roll-back of the *)
(* installation goes on.                                                   *)
LEMMA RecordDropped ==
  ASSUME FilesInv, scriptPc \in {"removing", "movingBack"}, scriptPc' = "removing",
         F!Pop, changes # <<>>, NEW f \in F!Files, f = Len(changes),
         UNCHANGED <<state, version, before, users, runs, clean>>,
         \A g \in F!Files \ {f} : dest'[g] = dest[g] /\ backups'[g] = backups[g],
         Original(f)'
  PROVE  InstallInv' /\ changes' \in Seq(F!Record) /\ Len(changes') \in 0..2
<1>1. /\ InstallInv /\ scriptPc \in Installing
      /\ changes \in Seq(F!Record) /\ Len(changes) \in 0..2
  BY FileTypes DEF FilesInv, Installing
<1>2. /\ changes' \in Seq(F!Record) /\ DOMAIN changes' = 1..(f - 1) /\ Len(changes') = f - 1
      /\ \A i \in DOMAIN changes' : changes'[i] = changes[i] /\ i \in F!Files \ {f}
      /\ DOMAIN changes = 1..f
  BY <1>1 DEF F!Pop, F!Files
<1>3. \A i \in DOMAIN changes' : Placed(i)'
  <2> SUFFICES ASSUME NEW i \in DOMAIN changes' PROVE Placed(i)'
    OBVIOUS
  <2>1. i \in DOMAIN changes /\ i # Len(changes) /\ i \in F!Files \ {f} BY <1>2 DEF F!Files
  <2>2. Placed(i) BY <1>1, <2>1 DEF InstallInv
  <2>3. PICK q : q = changes[i] OBVIOUS
  <2>4. Installed(i, q)' BY <2>1, <2>2, <2>3, InstalledStays DEF Placed
  <2>5. changes'[i] = q /\ dest'[i] = F!Package(version') BY <1>2, <2>1, <2>2, <2>3 DEF Placed
  <2>6. QED BY <2>4, <2>5 DEF Placed
<1>4. ASSUME clean PROVE \A g \in F!Files : g > Len(changes') => Original(g)'
  <2> SUFFICES ASSUME NEW g \in F!Files, g > Len(changes') PROVE Original(g)'
    OBVIOUS
  <2>1. CASE g = f BY <2>1
  <2>2. CASE g # f
    <3>1. g > Len(changes) BY <1>2, <2>2 DEF F!Files
    <3>2. Original(g) BY <1>1, <1>4, <3>1 DEF InstallInv
    <3>3. QED BY <2>2, <3>2 DEF Original, Place, Old
  <2>3. QED BY <2>1, <2>2
<1>5. Len(changes') \in 0..2 BY <1>2 DEF F!Files
<1>6. InstallInv' BY <1>1, <1>3, <1>4 DEF InstallInv, Forward
<1>7. QED BY <1>2, <1>5, <1>6

(* Installed files are removed again, the last one first.                  *)
LEMMA RemoveNewKeeps ==
  ASSUME FilesInv, F!RemoveNew
  PROVE  FilesInv'
<1>1. /\ scriptPc = "removing" /\ scriptPc \in Installing /\ scriptPc # "movingBack"
      /\ UNCHANGED <<backups, staged, state, version, slot, hand, aside, restored, before, replaced,
                     users, runs, edits>>
  BY DEF F!RemoveNew, F!uninstallVars, F!historyVars, Installing
<1>2. /\ dest \in [F!Files -> Content] /\ backups \in [F!Files -> Paths]
      /\ changes \in Seq(F!Record) /\ Len(changes) \in 0..2
      /\ clean \in BOOLEAN /\ slot \in F!Slots \union {F!NoSlot} /\ slot' = slot
      /\ F!NoFile \in Content /\ FALSE \in BOOLEAN
  BY FileTypes, <1>1 DEF FilesInv, F!TypeOK, Content
<1>3. UsersSafe /\ InOrder /\ InstallInv /\ state = F!NoState
  BY <1>1 DEF FilesInv, InstallInv
<1>4. Recorded' BY <1>1, <1>3 DEF Recorded
<1>5. CASE changes = <<>> /\ scriptPc' = "failed" /\ UNCHANGED <<dest, changes, clean>>
  <2>1. F!TypeOK' BY <1>1, <1>2, <1>5, InstallTypes
  <2>2. UsersSafe' /\ InOrder'
    BY <1>1, <1>3, <1>5 DEF UsersSafe, InOrder, Safe, Ordered, Backups
  <2>3. ASSUME clean PROVE <<dest, backups, state>> = before
    <3>1. \A g \in F!Files : g > Len(changes) BY <1>5 DEF F!Files
    <3>2. \A g \in F!Files : Original(g) BY <1>1, <1>3, <2>3, <3>1 DEF InstallInv
    <3>3. /\ before = <<before[1], before[2], before[3]>>
          /\ before[1] \in [F!Files -> Content] /\ before[2] \in [F!Files -> Paths]
          /\ before[3] = state
      BY <1>1, <1>3 DEF FilesInv, Remembered, F!Idle, InstallInv
    <3>4. dest = before[1] BY <1>2, <3>2, <3>3 DEF Original, Place
    <3>5. backups = before[2] BY <1>2, <3>2, <3>3 DEF Original, Old
    <3>6. QED BY <3>3, <3>4, <3>5
  <2>4. F!AllOrNothing' BY <1>1, <1>5, <2>3 DEF F!AllOrNothing
  <2>5. QED BY <1>4, <1>5, <2>1, <2>2, <2>4, RunEnds
<1>6. ASSUME changes # <<>>, NEW f, f = Len(changes), NEW r, r = changes[f],
             \/ ~r.changed /\ F!Pop /\ UNCHANGED <<scriptPc, dest, clean>>
             \/ /\ r.changed /\ dest' = [dest EXCEPT ![f] = F!NoFile] /\ UNCHANGED clean
                /\ IF r.backup = F!NoSlot THEN F!Pop /\ UNCHANGED scriptPc
                                          ELSE scriptPc' = "movingBack" /\ UNCHANGED changes
             \/ r.changed /\ clean' = FALSE /\ scriptPc' = "failed" /\ UNCHANGED <<dest, changes>>
      PROVE  FilesInv'
  <2>1. f \in F!Files /\ f \in DOMAIN changes /\ r \in F!Record /\ DOMAIN changes = 1..f
    BY <1>2, <1>6 DEF F!Files
  <2>2. Placed(f) BY <1>1, <1>3, <2>1 DEF InstallInv
  <2>3. Installed(f, r) /\ dest[f] = F!Package(version) /\ Safe(f) /\ Ordered(f)
    BY <1>3, <1>6, <2>1, <2>2 DEF Placed, UsersSafe, InOrder
  <2>4. CASE ~r.changed /\ F!Pop /\ UNCHANGED <<scriptPc, dest, clean>>
    <3>1. Original(f)' BY <1>1, <2>3, <2>4 DEF Original, Installed, Place, Old
    <3>2. InstallInv' /\ changes' \in Seq(F!Record) /\ Len(changes') \in 0..2
      BY <1>1, <1>6, <2>1, <2>4, <3>1, RecordDropped
    <3>3. F!TypeOK' BY <1>1, <1>2, <2>4, <3>2, InstallTypes
    <3>4. UsersSafe' /\ InOrder'
      BY <1>1, <1>3, <2>4 DEF UsersSafe, InOrder, Safe, Ordered, Backups
    <3>5. QED BY <1>1, <2>4, <3>2, <3>3, <3>4, InstallGoesOn
  <2>5. CASE /\ r.changed /\ dest' = [dest EXCEPT ![f] = F!NoFile] /\ UNCHANGED clean
             /\ IF r.backup = F!NoSlot THEN F!Pop /\ UNCHANGED scriptPc
                                       ELSE scriptPc' = "movingBack" /\ UNCHANGED changes
    <3>1. /\ dest' \in [F!Files -> Content] /\ dest'[f] = F!NoFile
          /\ \A g \in F!Files \ {f} : dest'[g] = dest[g] /\ backups'[g] = backups[g]
          /\ \A g \in F!Files \ {f} : dest'[g] = dest[g]
      BY <1>1, <1>2, <2>1, <2>5
    <3>2. Taken(f, r.backup) /\ Kept(f) BY <2>3, <2>5 DEF Installed, Taken
    <3>3. Safe(f)' /\ Ordered(f)'
      BY <1>1, <2>3, <3>2 DEF Safe, Ordered, Kept, Backups
    <3>4. UsersSafe' /\ InOrder' BY <1>1, <1>3, <3>1, <3>3, OthersStay
    <3>5. CASE r.backup = F!NoSlot
      <4>1. F!Pop /\ UNCHANGED scriptPc BY <2>5, <3>5
      <4>2. Original(f)' BY <1>1, <3>1, <3>2, <3>5 DEF Original, Taken, Place, Old
      <4>3. InstallInv' /\ changes' \in Seq(F!Record) /\ Len(changes') \in 0..2
        BY <1>1, <1>6, <2>1, <2>5, <3>1, <4>1, <4>2, RecordDropped
      <4>4. F!TypeOK' BY <1>1, <1>2, <2>5, <3>1, <4>1, <4>3, InstallTypes
      <4>5. QED BY <1>1, <3>4, <4>1, <4>3, <4>4, InstallGoesOn
    <3>6. CASE r.backup # F!NoSlot
      <4>1. scriptPc' = "movingBack" /\ UNCHANGED changes BY <2>5, <3>6
      <4>2. Undone(f)'
        <5>1. Installed(f, r)' BY <1>1, <2>3, InstalledStays
        <5>2. changes'[f] = r BY <1>6, <4>1
        <5>3. QED BY <2>5, <3>1, <3>6, <5>1, <5>2 DEF Undone
      <4>3. ASSUME NEW i \in DOMAIN changes', i # f PROVE Placed(i)'
        <5>1. i \in DOMAIN changes /\ i \in F!Files \ {f} BY <2>1, <4>1, <4>3 DEF F!Files
        <5>2. Placed(i) BY <1>1, <1>3, <5>1 DEF InstallInv
        <5>3. PICK q : q = changes[i] OBVIOUS
        <5>4. Installed(i, q)' BY <1>1, <5>1, <5>2, <5>3, InstalledStays DEF Placed
        <5>5. changes'[i] = q /\ dest'[i] = F!Package(version') BY <1>1, <3>1, <4>1, <5>1, <5>2, <5>3 DEF Placed
        <5>6. QED BY <5>4, <5>5 DEF Placed
      <4>4. ASSUME clean PROVE \A g \in F!Files : g > Len(changes) => Original(g)'
        <5> SUFFICES ASSUME NEW g \in F!Files, g > Len(changes) PROVE Original(g)'
          OBVIOUS
        <5>1. Original(g) /\ g # f BY <1>1, <1>3, <1>6, <4>4 DEF InstallInv, F!Files
        <5>2. QED BY <1>1, <3>1, <5>1 DEF Original, Place, Old
      <4>5. state' = F!NoState /\ before'[3] = F!NoState BY <1>1, <1>3 DEF InstallInv
      <4>6. InstallInv' BY <1>6, <2>5, <4>1, <4>2, <4>3, <4>4, <4>5 DEF InstallInv, Forward
      <4>7. scriptPc' \in Installing BY <4>1 DEF Installing
      <4>8. F!TypeOK' BY <1>1, <1>2, <2>5, <3>1, <4>1, <4>7, InstallTypes
      <4>9. QED BY <1>1, <3>4, <4>6, <4>7, <4>8, InstallGoesOn
    <3>7. QED BY <3>5, <3>6
  <2>6. CASE r.changed /\ clean' = FALSE /\ scriptPc' = "failed" /\ UNCHANGED <<dest, changes>>
    <3>1. F!TypeOK' BY <1>1, <1>2, <2>6, InstallTypes
    <3>2. UsersSafe' /\ InOrder'
      BY <1>1, <1>3, <2>6 DEF UsersSafe, InOrder, Safe, Ordered, Backups
    <3>3. F!AllOrNothing' BY <2>6 DEF F!AllOrNothing
    <3>4. QED BY <1>4, <2>6, <3>1, <3>2, <3>3, RunEnds
  <2>7. QED BY <1>6, <2>4, <2>5, <2>6
<1>7. QED BY <1>5, <1>6 DEF F!RemoveNew, F!AllUndone

(* The backup is moved back into the place of the new file.                *)
LEMMA MoveBackKeeps ==
  ASSUME FilesInv, F!MoveBack
  PROVE  FilesInv'
<1>1. /\ scriptPc = "movingBack" /\ scriptPc \in Installing
      /\ UNCHANGED <<staged, state, version, slot, hand, aside, restored, before, replaced,
                     users, runs, edits>>
  BY DEF F!MoveBack, F!uninstallVars, F!historyVars, Installing
<1>2. /\ dest \in [F!Files -> Content] /\ backups \in [F!Files -> Paths]
      /\ changes \in Seq(F!Record) /\ Len(changes) \in 0..2
      /\ clean \in BOOLEAN /\ slot \in F!Slots \union {F!NoSlot} /\ slot' = slot
      /\ FALSE \in BOOLEAN
  BY FileTypes, <1>1 DEF FilesInv, F!TypeOK
<1>3. UsersSafe /\ InOrder /\ InstallInv /\ state = F!NoState /\ changes # <<>>
  BY <1>1 DEF FilesInv, InstallInv
<1> PICK f : f = Len(changes) OBVIOUS
<1>4. f \in F!Files /\ f \in DOMAIN changes BY <1>2, <1>3 DEF F!Files
<1>5. PICK r : r = changes[f] OBVIOUS
<1>6. PICK s : s = r.backup OBVIOUS
<1>7. Undone(f) BY <1>1, <1>3, <1>4 DEF InstallInv
<1>8. Taken(f, s) /\ s # F!NoSlot /\ Kept(f) BY <1>5, <1>6, <1>7 DEF Undone, Installed, Taken
<1>9. /\ s \in F!Slots /\ s < runs /\ First(Old(f), s)
      /\ backups[f] = [Old(f) EXCEPT ![s] = Place(f)]
  BY <1>8 DEF Taken
<1>10. CASE F!FromBackup(f, s) /\ F!Pop /\ scriptPc' = "removing" /\ UNCHANGED clean
  <2>1. /\ dest' \in [F!Files -> Content] /\ backups' \in [F!Files -> Paths]
        /\ dest'[f] = backups[f][s] /\ backups'[f] = [backups[f] EXCEPT ![s] = F!NoFile]
        /\ \A g \in F!Files \ {f} : dest'[g] = dest[g] /\ backups'[g] = backups[g]
        /\ Safe(f)'
    BY <1>1, <1>4, <1>8, <1>9, <1>10, FromBackupKeeps
  <2>2. Old(f) \in Paths
    BY <1>1, <1>4 DEF FilesInv, Remembered, F!Idle, Old
  <2>3. dest'[f] = Place(f) /\ backups'[f] = Old(f)
    <3>1. PICK b : b = Old(f) OBVIOUS
    <3>2. b \in Paths /\ b[s] = F!NoFile
      BY <1>9, <2>2, <3>1, FilesConstants DEF First, F!Slots
    <3>3. backups[f] = [b EXCEPT ![s] = Place(f)] BY <1>9, <3>1
    <3>4. backups[f][s] = Place(f) BY <1>9, <3>2, <3>3 DEF Paths
    <3>5. [[b EXCEPT ![s] = Place(f)] EXCEPT ![s] = F!NoFile] = b
      BY <1>9, <3>2 DEF Paths
    <3>6. QED BY <2>1, <3>1, <3>3, <3>4, <3>5
  <2>4. Original(f)' BY <1>1, <2>3 DEF Original, Place, Old
  <2>5. InstallInv' /\ changes' \in Seq(F!Record) /\ Len(changes') \in 0..2
    BY <1>1, <1>3, <1>4, <1>10, <2>1, <2>4, RecordDropped
  <2>6. scriptPc' \in Installing BY <1>10 DEF Installing
  <2>7. F!TypeOK' BY <1>1, <1>2, <1>10, <2>1, <2>5, <2>6, InstallTypes
  <2>8. Ordered(f)'
    <3>1. s \in 0..runs BY <1>9, FileTypes, FilesConstants DEF F!Slots
    <3>2. First(backups'[f], s) BY <1>9, <2>3
    <3>3. QED BY <1>1, <3>1, <3>2 DEF Ordered
  <2>9. UsersSafe' /\ InOrder' BY <1>1, <1>3, <2>1, <2>8, OthersStay
  <2>10. QED BY <1>1, <2>5, <2>6, <2>7, <2>9, InstallGoesOn
<1>11. CASE clean' = FALSE /\ scriptPc' = "failed" /\ UNCHANGED <<dest, backups, changes>>
  <2>1. F!TypeOK' BY <1>1, <1>2, <1>11, InstallTypes
  <2>2. UsersSafe' /\ InOrder'
    BY <1>1, <1>3, <1>11 DEF UsersSafe, InOrder, Safe, Ordered, Backups
  <2>3. F!AllOrNothing' BY <1>11 DEF F!AllOrNothing
  <2>4. Recorded' BY <1>1, <1>3 DEF Recorded
  <2>5. QED BY <1>11, <2>1, <2>2, <2>3, <2>4, RunEnds
<1>12. QED BY <1>5, <1>6, <1>10, <1>11 DEF F!MoveBack

(***************************************************************************)
(* Between the runs, and the beginning of one.                             *)
(***************************************************************************)

(* What a record says of a file does not depend on later runs.             *)
LEMMA RecordStays ==
  ASSUME FilesInv, UNCHANGED <<dest, backups, state, replaced, users>>, runs' \in Nat, runs <= runs'
  PROVE  Recorded' /\ UsersSafe' /\ InOrder'
<1>1. runs \in Nat BY FileTypes
<1>2. UsersSafe' BY DEF FilesInv, UsersSafe, Safe, Backups
<1>3. InOrder'
  <2> SUFFICES ASSUME NEW f \in F!Files PROVE Ordered(f)'
    BY DEF InOrder
  <2>1. PICK k \in 0..runs : First(backups[f], k) BY DEF FilesInv, InOrder, Ordered
  <2>2. k \in 0..runs' BY <1>1
  <2>3. QED BY <2>1, <2>2 DEF Ordered
<1>4. Recorded'
  <2> SUFFICES ASSUME state # F!NoState, NEW f \in F!Files PROVE RecordHolds(f, state[f])'
    BY DEF Recorded
  <2>1. PICK r : r = state[f] OBVIOUS
  <2>2. RecordHolds(f, r) BY <2>1 DEF FilesInv, Recorded
  <2>3. r.backup # F!NoSlot => r.backup < runs'
    BY <1>1, <2>2, FilesConstants DEF RecordHolds, F!Slots
  <2>4. RecordHolds(f, r)' BY <2>2, <2>3 DEF RecordHolds, Kept, Backups
  <2>5. state'[f] = r BY <2>1
  <2>6. QED BY <2>4, <2>5
<1>5. QED BY <1>2, <1>3, <1>4

(* A run begins: it remembers what it finds.                               *)
LEMMA RunBegins ==
  ASSUME FilesInv, NEW p, F!Begins(p), ~F!Idle'
  PROVE  /\ Recorded' /\ UsersSafe' /\ InOrder' /\ Remembered'
         /\ runs' \in 0..MaxRuns /\ clean'
         /\ \A f \in F!Files : Original(f)' /\ Place(f)' = dest[f] /\ Old(f)' = backups[f]
         /\ before'[3] = state
<1>1. /\ runs \in Nat /\ runs' = runs + 1 /\ runs < MaxRuns
      /\ before' = <<dest, backups, state>> /\ clean' = TRUE
      /\ UNCHANGED <<dest, backups, staged, state, replaced, users, edits>>
      /\ dest \in [F!Files -> Content] /\ backups \in [F!Files -> Paths]
  BY FileTypes DEF F!Begins
<1>2. runs' \in Nat /\ runs <= runs' /\ runs' > 0 /\ runs' - 1 = runs /\ runs' \in 0..MaxRuns
  BY <1>1, FilesConstants
<1>3. Recorded' /\ UsersSafe' /\ InOrder' BY <1>1, <1>2, RecordStays
<1>4. /\ before'[1] = dest /\ before'[2] = backups /\ before'[3] = state
      /\ before' = <<before'[1], before'[2], before'[3]>>
  BY <1>1
<1>5. \A f \in F!Files : Original(f)' /\ Place(f)' = dest[f] /\ Old(f)' = backups[f]
  BY <1>1, <1>4 DEF Original, Place, Old
<1>6. Remembered'
  <2>1. ASSUME NEW f \in F!Files PROVE \E k \in 0..(runs' - 1) : First(Old(f)', k)
    <3>1. PICK k \in 0..runs : First(backups[f], k) BY DEF FilesInv, InOrder, Ordered
    <3>2. k \in 0..(runs' - 1) BY <1>2
    <3>3. QED BY <1>5, <3>1, <3>2
  <2>2. before'[1] \in [F!Files -> Content] /\ before'[2] \in [F!Files -> Paths]
    BY <1>1, <1>4
  <2>3. QED BY <1>2, <1>4, <2>1, <2>2 DEF Remembered
<1>7. QED BY <1>1, <1>2, <1>3, <1>4, <1>5, <1>6

LEMMA BeginInstallKeeps ==
  ASSUME FilesInv, F!BeginInstall
  PROVE  FilesInv'
<1>1. /\ state = F!NoState /\ F!Begins("backingUp") /\ scriptPc' = "backingUp"
      /\ version' \in Packages /\ changes' = <<>> /\ slot' = F!NoSlot
      /\ UNCHANGED <<dest, backups, staged, state, replaced, users, edits, hand, aside, restored>>
  BY DEF F!BeginInstall, F!Begins, F!uninstallVars
<1>2. /\ Recorded' /\ UsersSafe' /\ InOrder' /\ Remembered'
      /\ runs' \in 0..MaxRuns /\ clean' /\ \A f \in F!Files : Original(f)'
      /\ before'[3] = state
  BY <1>1, RunBegins DEF F!Idle
<1>3. clean' = TRUE BY <1>1 DEF F!Begins
<1>4. changes' \in Seq(F!Record) /\ Len(changes') = 0 /\ DOMAIN changes' = {}
  BY <1>1
<1>5. F!TypeOK'
  <2>1. F!TypeOK BY DEF FilesInv
  <2>2. Len(changes') <= 2 BY <1>4
  <2>3. QED BY <1>1, <1>2, <1>3, <1>4, <2>1, <2>2 DEF F!TypeOK
<1>6. InstallInv'
  <2>1. F!Current' \in F!Files BY <1>4 DEF F!Current, F!Files
  <2>2. state' = F!NoState /\ before'[3] = F!NoState BY <1>1, <1>2
  <2>3. QED BY <1>1, <1>2, <1>4, <2>1, <2>2 DEF InstallInv, Forward
<1>7. UninstallInv' /\ F!AllOrNothing'
  BY <1>1 DEF UninstallInv, RecordKept, TakingOut, TakingBack, Uninstalling, F!AllOrNothing
<1>8. QED BY <1>2, <1>5, <1>6, <1>7 DEF FilesInv

(* The user writes or deletes a file; a package is nothing the user writes.*)
LEMMA UserEditsKeeps ==
  ASSUME FilesInv, NEW f \in F!Files, F!UserEdits(f)
  PROVE  FilesInv'
<1>1. /\ scriptPc' = "idle" /\ edits < MaxEdits /\ edits' = edits + 1
      /\ UNCHANGED <<backups, staged, state, version, changes, slot, hand, aside, restored, clean,
                     before, replaced, runs>>
  BY DEF F!UserEdits, F!installVars, F!uninstallVars
<1>2. F!TypeOK /\ UsersSafe /\ InOrder /\ Safe(f) /\ Ordered(f)
      /\ dest \in [F!Files -> Content] /\ edits \in 0..MaxEdits
  BY FileTypes DEF FilesInv, UsersSafe, InOrder, F!TypeOK
<1>3. PICK c \in {F!NoFile, F!Own(edits + 1)} :
        /\ dest' = [dest EXCEPT ![f] = c]
        /\ users' = [users EXCEPT ![f] = (users[f] \ {dest[f]}) \union ({c} \ {F!NoFile})]
  BY DEF F!UserEdits
<1>4. edits' \in 0..MaxEdits /\ c \in Content /\ \A v \in Packages : c # F!Package(v)
  <2>1. edits + 1 \in 0..MaxEdits BY <1>1, <1>2, FilesConstants
  <2>2. c \in Content BY <2>1 DEF Content, F!Contents
  <2>3. \A v \in Packages : c # F!Package(v) BY DEF F!Package, F!Own, F!NoFile
  <2>4. QED BY <1>1, <2>1, <2>2, <2>3
<1>5. /\ dest' \in [F!Files -> Content] /\ dest'[f] = c
      /\ \A g \in F!Files \ {f} : dest'[g] = dest[g]
  BY <1>2, <1>3, <1>4
<1>6. F!TypeOK'
  <2>1. users \in [F!Files -> SUBSET F!Contents] BY <1>2 DEF F!TypeOK
  <2>2. {c} \ {F!NoFile} \subseteq F!Contents BY <1>4 DEF Content
  <2>3. users' \in [F!Files -> SUBSET F!Contents] BY <1>3, <2>1, <2>2
  <2>4. QED BY <1>1, <1>2, <1>4, <1>5, <2>3 DEF F!TypeOK, Content
<1>7. InOrder' BY <1>1, <1>2 DEF InOrder, Ordered
<1>8. ASSUME NEW g \in F!Files PROVE Safe(g)'
  <2>1. Safe(g) BY <1>2 DEF UsersSafe
  <2>2. CASE g # f
    <3>1. users'[g] = users[g] BY <1>3, <2>2
    <3>2. QED BY <1>1, <1>5, <2>1, <2>2, <3>1 DEF Safe, Backups
  <2>3. CASE g = f
    <3>1. users'[f] \subseteq (users[f] \ {dest[f]}) \union ({c} \ {F!NoFile})
      BY <1>2, <1>3 DEF F!TypeOK
    <3>2. QED BY <1>1, <1>5, <2>1, <2>3, <3>1 DEF Safe, Backups
  <2>4. QED BY <2>2, <2>3
<1>9. Recorded'
  <2> SUFFICES ASSUME state # F!NoState, NEW g \in F!Files PROVE RecordHolds(g, state[g])'
    BY <1>1 DEF Recorded
  <2>1. PICK r : r = state[g] OBVIOUS
  <2>2. RecordHolds(g, r) BY <2>1 DEF FilesInv, Recorded
  <2>3. CASE g # f
    <3>1. users'[g] = users[g] BY <1>3, <2>3
    <3>2. RecordHolds(g, r)' BY <1>1, <1>5, <2>2, <2>3, <3>1 DEF RecordHolds, Kept, Backups
    <3>3. QED BY <1>1, <2>1, <3>2
  <2>4. CASE g = f
    <3>1. dest'[g] # r.installed BY <1>4, <1>5, <2>2, <2>4 DEF RecordHolds
    <3>2. RecordHolds(g, r)' BY <1>1, <2>2, <3>1 DEF RecordHolds
    <3>3. QED BY <1>1, <2>1, <3>2
  <2>5. QED BY <2>3, <2>4
<1>10. F!AllOrNothing' BY <1>1 DEF F!AllOrNothing
<1>11. QED BY <1>1, <1>6, <1>7, <1>8, <1>9, <1>10, RunEnds DEF UsersSafe

(* The script stops.                                                       *)
LEMMA KillKeeps ==
  ASSUME FilesInv, F!Kill
  PROVE  FilesInv'
<1>1. /\ scriptPc' = "idle"
      /\ UNCHANGED <<dest, backups, staged, state, version, changes, slot, hand, aside, restored, clean,
                     before, replaced, users, runs, edits>>
  BY DEF F!Kill, F!installVars, F!uninstallVars, F!historyVars
<1>2. F!TypeOK' BY <1>1 DEF FilesInv, F!TypeOK
<1>3. runs' \in Nat /\ runs <= runs' BY <1>1, FileTypes
<1>4. Recorded' /\ UsersSafe' /\ InOrder' BY <1>1, <1>3, RecordStays
<1>5. F!AllOrNothing' BY <1>1 DEF F!AllOrNothing
<1>6. QED BY <1>1, <1>2, <1>4, <1>5, RunEnds

(***************************************************************************)
(* Uninstallation.                                                         *)
(***************************************************************************)

LEMMA UninstallTypes ==
  ASSUME FilesInv, dest' \in [F!Files -> Content], backups' \in [F!Files -> Paths],
         staged' \in [F!Files -> SUBSET F!Contents],
         state' = F!NoState \/ state' \in [F!Files -> F!Record],
         hand' \in 0..3, aside' \subseteq F!Files, restored' \subseteq F!Files, clean' \in BOOLEAN,
         scriptPc' \in Uninstalling \union {"deleting", "uninstalled", "failed"},
         UNCHANGED <<version, changes, slot, users, runs, edits>>
  PROVE  F!TypeOK'
<1>1. F!TypeOK BY DEF FilesInv
<1>2. /\ dest' \in [F!Files -> F!Contents \union {F!NoFile}]
      /\ backups' \in [F!Files -> [F!Slots -> F!Contents \union {F!NoFile}]]
  BY DEF Content, Paths
<1>3. /\ version' \in Packages /\ changes' \in Seq(F!Record) /\ Len(changes') <= 2
      /\ slot' \in F!Slots \union {F!NoSlot}
      /\ runs' \in 0..MaxRuns /\ edits' \in 0..MaxEdits /\ users' \in [F!Files -> SUBSET F!Contents]
  BY <1>1 DEF F!TypeOK
<1>4. scriptPc' \in {"idle", "installed", "uninstalled", "failed",
             "backingUp", "copying", "puttingBack", "saving", "removing", "movingBack",
             "staging", "restoring", "dropping", "unrestoring", "unstaging", "deleting"}
  BY DEF Uninstalling
<1>5. QED BY <1>2, <1>3, <1>4 DEF F!TypeOK

(* What an uninstallation knows of the record.                             *)
LEMMA RecordAtHand ==
  ASSUME FilesInv, scriptPc \in Uninstalling
  PROVE  /\ state = before[3] /\ state \in [F!Files -> F!Record] /\ state # F!NoState
         /\ \A f \in F!Files : Checked(f, state[f]) /\ RecordHolds(f, state[f])
         /\ \A f \in F!Files : Old(f) \in Paths /\ Place(f) \in Content
         /\ ~F!Idle
<1>1. RecordKept /\ Recorded /\ Remembered BY DEF FilesInv, UninstallInv
<1>2. /\ before[3] \in [F!Files -> F!Record] /\ state = before[3]
      /\ \A f \in F!Files : Checked(f, before[3][f])
  BY <1>1 DEF RecordKept
<1>3. state # F!NoState
  <2>1. DOMAIN state = F!Files /\ 1 \in F!Files BY <1>2 DEF F!Files
  <2>2. DOMAIN F!NoState = {} BY DEF F!NoState
  <2>3. QED BY <2>1, <2>2
<1>4. ~F!Idle BY DEF F!Idle, Uninstalling
<1>5. \A f \in F!Files : Old(f) \in Paths /\ Place(f) \in Content
  BY <1>1, <1>4 DEF Remembered, Old, Place
<1>6. \A f \in F!Files : RecordHolds(f, state[f]) BY <1>1, <1>3 DEF Recorded
<1>7. QED BY <1>2, <1>3, <1>4, <1>5, <1>6

(* A file that a step does not touch is as far as before.                  *)
LEMMA FileStays ==
  ASSUME NEW g, dest'[g] = dest[g], backups'[g] = backups[g], UNCHANGED <<before, replaced>>,
         g \in aside' <=> g \in aside, g \in restored' <=> g \in restored
  PROVE  /\ Moved(g)' <=> Moved(g)
         /\ Untouched(g)' <=> Untouched(g)
         /\ Uninstalled(g)' <=> Uninstalled(g)
         /\ Original(g)' <=> Original(g)
<1>1. Place(g)' = Place(g) /\ Old(g)' = Old(g) BY DEF Place, Old
<1>2. Moved(g)' <=> Moved(g) BY <1>1 DEF Moved
<1>3. Untouched(g)' <=> Untouched(g) BY DEF Untouched
<1>4. Uninstalled(g)' <=> Uninstalled(g) BY <1>1 DEF Uninstalled
<1>5. Original(g)' <=> Original(g) BY <1>1 DEF Original
<1>6. QED BY <1>2, <1>3, <1>4, <1>5

LEMMA RecordOfOthersStays ==
  ASSUME FilesInv, scriptPc \in Uninstalling, UNCHANGED <<state, replaced, users, runs>>, NEW f,
         \A g \in F!Files \ {f} : dest'[g] = dest[g] /\ backups'[g] = backups[g],
         NEW r, r = state[f], f \in F!Files => RecordHolds(f, r)'
  PROVE  Recorded'
<1> SUFFICES ASSUME NEW g \in F!Files PROVE RecordHolds(g, state[g])'
  BY DEF Recorded
<1>1. CASE g = f
  <2>1. state'[g] = r BY <1>1
  <2>2. RecordHolds(g, r)' BY <1>1
  <2>3. QED BY <2>1, <2>2
<1>2. CASE g # f
  <2>1. PICK q : q = state[g] OBVIOUS
  <2>2. RecordHolds(g, q) BY <2>1, RecordAtHand
  <2>3. RecordHolds(g, q)' BY <1>2, <2>2 DEF RecordHolds, Kept, Backups
  <2>4. state'[g] = q BY <2>1
  <2>5. QED BY <2>3, <2>4
<1>3. QED BY <1>1, <1>2

(* An uninstallation that goes on has to keep its own invariant.           *)
LEMMA UninstallGoesOn ==
  ASSUME FilesInv, scriptPc \in Uninstalling, scriptPc' \in Uninstalling,
         UNCHANGED <<state, runs, before>>, F!TypeOK', UsersSafe', InOrder', Recorded',
         TakingOut', TakingBack'
  PROVE  FilesInv'
<1>1. InstallInv' BY DEF InstallInv, Installing, Forward, Uninstalling
<1>2. Remembered'
  <2>1. ~F!Idle BY RecordAtHand
  <2>2. QED BY <2>1 DEF FilesInv, Remembered, Old
<1>3. RecordKept' BY DEF FilesInv, UninstallInv, RecordKept, Checked, Place, Old
<1>4. F!AllOrNothing' BY DEF Uninstalling, F!AllOrNothing
<1>5. QED BY <1>1, <1>2, <1>3, <1>4 DEF FilesInv, UninstallInv

(* The script begins with files and backups that are those it recorded.    *)
LEMMA BeginUninstallKeeps ==
  ASSUME FilesInv, F!BeginUninstall
  PROVE  FilesInv'
<1>1. /\ state # F!NoState /\ \A f \in F!Files : F!Unaltered(f)
      /\ F!Begins("staging") /\ scriptPc' = "staging" /\ hand' = 1 /\ aside' = {} /\ restored' = {}
      /\ UNCHANGED <<dest, backups, staged, state, replaced, users, edits, version, changes, slot>>
  BY DEF F!BeginUninstall, F!Begins, F!installVars
<1>2. /\ Recorded' /\ UsersSafe' /\ InOrder' /\ Remembered'
      /\ runs' \in 0..MaxRuns /\ clean'
      /\ \A f \in F!Files : Original(f)' /\ Place(f)' = dest[f] /\ Old(f)' = backups[f]
      /\ before'[3] = state
  BY <1>1, RunBegins DEF F!Idle
<1>3. clean' = TRUE BY <1>1 DEF F!Begins
<1>4. F!TypeOK /\ state \in [F!Files -> F!Record] BY <1>1 DEF FilesInv, F!TypeOK
<1>5. F!TypeOK' BY <1>1, <1>2, <1>3, <1>4 DEF F!TypeOK
<1>6. InstallInv' BY <1>1 DEF InstallInv, Installing, Forward
<1>7. ASSUME NEW f \in F!Files, NEW r, r = state[f]
      PROVE  /\ r.changed => dest[f] \in {F!NoFile, r.installed}
             /\ r.backup # F!NoSlot => backups[f][r.backup] = r.old
  <2>1. F!Unaltered(f) BY <1>1
  <2>2. RecordHolds(f, r) BY <1>1, <1>7 DEF FilesInv, Recorded
  <2>3. QED BY <1>7, <2>1, <2>2 DEF F!Unaltered, RecordHolds
<1>8. RecordKept'
  <2>1. \A f \in F!Files : Checked(f, before[3][f])'
    BY <1>2, <1>7 DEF Checked
  <2>2. state' = before'[3] BY <1>1, <1>2
  <2>3. QED BY <1>1, <1>2, <1>4, <2>1, <2>2 DEF RecordKept, Uninstalling
<1>9. TakingOut'
  <2>1. \A f \in F!Files : Moved(f)' /\ Untouched(f)'
    BY <1>1, <1>2 DEF Moved, Untouched, Original
  <2>2. \A f \in F!Files : ~(f < hand') BY <1>1 DEF F!Files
  <2>3. hand' \in 1..3 BY <1>1
  <2>4. QED BY <1>1, <1>2, <2>1, <2>2, <2>3 DEF TakingOut
<1>10. TakingBack' /\ F!AllOrNothing' BY <1>1 DEF TakingBack, F!AllOrNothing
<1>11. QED BY <1>2, <1>5, <1>6, <1>8, <1>9, <1>10 DEF FilesInv, UninstallInv

(* The plug-in's file of the file in hand is moved aside.                  *)
LEMMA StageKeeps ==
  ASSUME FilesInv, F!Stage
  PROVE  FilesInv'
<1>1. /\ scriptPc = "staging" /\ scriptPc \in Uninstalling
      /\ UNCHANGED <<backups, state, version, changes, slot, restored, clean, before, replaced,
                     users, runs, edits>>
  BY DEF F!Stage, F!installVars, F!historyVars, Uninstalling
<1>2. /\ dest \in [F!Files -> Content] /\ backups \in [F!Files -> Paths]
      /\ staged \in [F!Files -> SUBSET F!Contents]
      /\ aside \subseteq F!Files /\ restored \subseteq F!Files /\ clean \in BOOLEAN
      /\ F!NoFile \in Content
  BY FileTypes DEF FilesInv, F!TypeOK, Content
<1>3. /\ state = before[3] /\ state \in [F!Files -> F!Record] /\ state # F!NoState
      /\ \A f \in F!Files : Checked(f, state[f]) /\ RecordHolds(f, state[f])
  BY <1>1, RecordAtHand
<1>4. /\ UsersSafe /\ InOrder /\ Recorded /\ TakingOut
      /\ hand \in 1..3 /\ clean
      /\ \A f \in F!Files : Moved(f) /\ (f > hand => Untouched(f)) /\ (f < hand => Uninstalled(f))
      /\ hand \in F!Files => Untouched(hand)
  BY <1>1 DEF FilesInv, UninstallInv, TakingOut
<1> PICK h : h = hand OBVIOUS
<1>5. ASSUME UNCHANGED <<dest, staged, aside>>
      PROVE  /\ UsersSafe' /\ InOrder' /\ Recorded'
             /\ \A g \in F!Files : /\ Moved(g)' <=> Moved(g)
                                   /\ Untouched(g)' <=> Untouched(g)
                                   /\ Uninstalled(g)' <=> Uninstalled(g)
                                   /\ Original(g)' <=> Original(g)
  <2>1. runs' \in Nat /\ runs <= runs' BY <1>1, FileTypes
  <2>2. UsersSafe' /\ InOrder' /\ Recorded' BY <1>1, <1>5, <2>1, RecordStays
  <2>3. QED BY <1>1, <1>5, <2>2, FileStays
<1>6. CASE hand \notin F!Files /\ scriptPc' = "dropping" /\ UNCHANGED <<dest, staged, hand, aside>>
  <2>1. hand' = 3 BY <1>4, <1>6 DEF F!Files
  <2>2. TakingOut' BY <1>1, <1>4, <1>5, <1>6, <2>1 DEF TakingOut
  <2>3. TakingBack' BY <1>6 DEF TakingBack
  <2>4. scriptPc' \in Uninstalling BY <1>6 DEF Uninstalling
  <2>5. F!TypeOK' BY <1>1, <1>2, <1>3, <1>6, <2>1, <2>4, UninstallTypes
  <2>6. QED BY <1>1, <1>5, <1>6, <2>2, <2>3, <2>4, <2>5, UninstallGoesOn
<1>7. CASE /\ hand \in F!Files /\ ~state[hand].changed
           /\ hand' = hand + 1 /\ UNCHANGED <<scriptPc, dest, staged, aside>>
  <2>1. hand' = h + 1 /\ h \in F!Files /\ hand' \in 1..3 /\ hand' \in 0..3 BY <1>7 DEF F!Files
  <2>2. Uninstalled(h)
    <3>1. Moved(h) /\ Untouched(h) BY <1>4, <2>1
    <3>2. dest[h] = Place(h) BY <3>1 DEF Moved, Untouched
    <3>3. QED BY <1>3, <1>7, <3>2 DEF Uninstalled
  <2>3. \A g \in F!Files : g < hand' => g < h \/ g = h BY <2>1 DEF F!Files
  <2>4. \A g \in F!Files : (g > hand' => g > h) /\ (g = hand' => g > h) BY <2>1 DEF F!Files
  <2>5. \A g \in F!Files : /\ Moved(g)' /\ (g < hand' => Uninstalled(g)')
                           /\ (g > hand' => Untouched(g)') /\ (g = hand' => Untouched(g)')
    BY <1>4, <1>5, <1>7, <2>2, <2>3, <2>4
  <2>6. TakingOut' BY <1>1, <1>4, <1>7, <2>1, <2>5 DEF TakingOut
  <2>7. TakingBack' BY <1>1, <1>7 DEF TakingBack
  <2>8. scriptPc' \in Uninstalling BY <1>1, <1>7
  <2>9. F!TypeOK' BY <1>1, <1>2, <1>3, <1>7, <2>1, <2>8, UninstallTypes
  <2>10. QED BY <1>1, <1>5, <1>7, <2>6, <2>7, <2>8, <2>9, UninstallGoesOn
<1>8. CASE /\ hand \in F!Files /\ state[hand].changed /\ dest[hand] = F!NoFile
           /\ scriptPc' = "restoring" /\ UNCHANGED <<dest, staged, hand, aside>>
  <2>1. hand' \in F!Files /\ hand' \in 1..3 /\ hand' \in 0..3 BY <1>8 DEF F!Files
  <2>2. hand \notin restored BY <1>4, <1>8 DEF Untouched
  <2>3. TakingOut' BY <1>1, <1>3, <1>4, <1>5, <1>8, <2>1, <2>2 DEF TakingOut
  <2>4. TakingBack' BY <1>8 DEF TakingBack
  <2>5. scriptPc' \in Uninstalling BY <1>8 DEF Uninstalling
  <2>6. F!TypeOK' BY <1>1, <1>2, <1>3, <1>8, <2>1, <2>5, UninstallTypes
  <2>7. QED BY <1>1, <1>5, <1>8, <2>3, <2>4, <2>5, <2>6, UninstallGoesOn
<1>9. CASE /\ hand \in F!Files /\ state[hand].changed /\ dest[hand] # F!NoFile
           /\ dest' = [dest EXCEPT ![hand] = F!NoFile]
           /\ staged' = [staged EXCEPT ![hand] = staged[hand] \union {dest[hand]}]
           /\ aside' = aside \union {hand} /\ scriptPc' = "restoring"
           /\ UNCHANGED hand
  <2>1. /\ h \in F!Files /\ hand' = h /\ hand' \in 1..3 /\ hand' \in 0..3 /\ Untouched(h) /\ Moved(h)
        /\ state[h].changed /\ aside' \subseteq F!Files
    BY <1>2, <1>4, <1>9 DEF F!Files
  <2>2. PICK r \in F!Record : r = state[h] BY <1>3, <2>1
  <2>3. Checked(h, r) /\ RecordHolds(h, r) /\ r.changed BY <1>3, <2>1, <2>2
  <2>4. dest[h] = Place(h) /\ backups[h] = Old(h) /\ Place(h) = r.installed
    BY <1>9, <2>1, <2>3 DEF Moved, Untouched, Checked
  <2>5. r.installed \in F!Contents /\ r.installed # F!NoFile BY SlotFacts DEF F!Record
  <2>6. /\ dest' \in [F!Files -> Content] /\ dest'[h] = F!NoFile
        /\ \A g \in F!Files \ {h} : dest'[g] = dest[g] /\ backups'[g] = backups[g]
    BY <1>1, <1>2, <1>9, <2>1
  <2>7. staged' \in [F!Files -> SUBSET F!Contents] BY <1>2, <1>9, <2>1, <2>4, <2>5
  <2>8. Kept(h) BY <2>3, <2>4 DEF RecordHolds
  <2>9. Safe(h) /\ Ordered(h) BY <1>4, <2>1 DEF UsersSafe, InOrder
  <2>10. Safe(h)' /\ Ordered(h)' BY <1>1, <2>8, <2>9 DEF Safe, Ordered, Kept, Backups
  <2>11. UsersSafe' /\ InOrder' BY <1>1, <1>4, <2>6, <2>10, OthersStay
  <2>12. RecordHolds(h, r)' BY <1>1, <2>3, <2>5, <2>6 DEF RecordHolds
  <2>13. Recorded' BY <1>1, <2>2, <2>6, <2>12, RecordOfOthersStays
  <2>14. Moved(h)'
    <3>1. before[3][h] = r BY <1>3, <2>2
    <3>2. h \in aside' /\ h \notin restored' BY <1>1, <1>9, <2>1 DEF Untouched
    <3>3. backups'[h] = Old(h)' /\ Place(h)' = r.installed BY <1>1, <2>4 DEF Old, Place
    <3>4. QED BY <1>1, <2>3, <2>6, <3>1, <3>2, <3>3 DEF Moved
  <2>15. ASSUME NEW g \in F!Files, g # h
         PROVE  /\ Moved(g)' /\ (g < hand' => Uninstalled(g)') /\ (g > hand' => Untouched(g)')
    <3>1. dest'[g] = dest[g] /\ backups'[g] = backups[g] BY <2>6, <2>15
    <3>2. g \in aside' <=> g \in aside BY <1>9, <2>15
    <3>3. g \in restored' <=> g \in restored BY <1>1
    <3>4. QED BY <1>1, <1>4, <2>1, <3>1, <3>2, <3>3, FileStays
  <2>16. \A g \in F!Files : /\ Moved(g)' /\ (g < hand' => Uninstalled(g)')
                            /\ (g > hand' => Untouched(g)')
    <3>1. ~(h < hand') /\ ~(h > hand') BY <2>1 DEF F!Files
    <3>2. QED BY <2>14, <2>15, <3>1
  <2>17. TakingOut'
    <3>1. before'[3][hand'].changed /\ dest'[hand'] = F!NoFile /\ hand' \notin restored'
      BY <1>1, <1>3, <2>1, <2>6 DEF Untouched
    <3>2. QED BY <1>1, <1>4, <1>9, <2>1, <2>16, <3>1 DEF TakingOut
  <2>18. TakingBack' BY <1>9 DEF TakingBack
  <2>19. scriptPc' \in Uninstalling BY <1>9 DEF Uninstalling
  <2>20. F!TypeOK' BY <1>1, <1>2, <1>3, <2>1, <2>6, <2>7, <2>19, UninstallTypes
  <2>21. QED BY <1>1, <2>11, <2>13, <2>17, <2>18, <2>19, <2>20, UninstallGoesOn
<1>10. CASE /\ hand \in F!Files /\ scriptPc' = "unrestoring"
            /\ UNCHANGED <<dest, staged, aside, hand>>
  <2>1. hand' \in 0..2 /\ hand' \in 0..3 BY <1>10 DEF F!Files
  <2>2. \A g \in F!Files : g > hand => Original(g)
    BY <1>4 DEF Moved, Untouched, Original
  <2>3. \A g \in F!Files : Moved(g)' /\ (g > hand' => Original(g)')
    BY <1>4, <1>5, <1>10, <2>2
  <2>4. TakingBack' BY <1>10, <2>1, <2>3 DEF TakingBack
  <2>5. TakingOut' BY <1>10 DEF TakingOut
  <2>6. scriptPc' \in Uninstalling BY <1>10 DEF Uninstalling
  <2>7. F!TypeOK' BY <1>1, <1>2, <1>3, <1>10, <2>1, <2>6, UninstallTypes
  <2>8. QED BY <1>1, <1>5, <1>10, <2>4, <2>5, <2>6, <2>7, UninstallGoesOn
<1>11. QED BY <1>6, <1>7, <1>8, <1>9, <1>10 DEF F!Stage

(* The old file of a file comes back from its backup.                      *)
LEMMA RestoreKeeps ==
  ASSUME FilesInv, F!Restore
  PROVE  FilesInv'
<1>1. /\ scriptPc = "restoring" /\ scriptPc \in Uninstalling
      /\ UNCHANGED <<staged, state, version, changes, slot, aside, clean, before, replaced,
                     users, runs, edits>>
  BY DEF F!Restore, F!installVars, F!historyVars, Uninstalling
<1>2. /\ dest \in [F!Files -> Content] /\ backups \in [F!Files -> Paths]
      /\ staged \in [F!Files -> SUBSET F!Contents]
      /\ aside \subseteq F!Files /\ restored \subseteq F!Files /\ clean \in BOOLEAN
      /\ F!NoFile \in Content
  BY FileTypes DEF FilesInv, F!TypeOK, Content
<1>3. /\ state = before[3] /\ state \in [F!Files -> F!Record] /\ state # F!NoState
      /\ \A f \in F!Files : Checked(f, state[f]) /\ RecordHolds(f, state[f])
      /\ \A f \in F!Files : Old(f) \in Paths /\ Place(f) \in Content
  BY <1>1, RecordAtHand
<1> PICK h : h = hand OBVIOUS
<1>4. /\ UsersSafe /\ InOrder /\ Recorded /\ TakingOut
      /\ clean /\ h \in F!Files /\ state[h].changed /\ dest[h] = F!NoFile /\ h \notin restored
      /\ \A f \in F!Files : Moved(f) /\ (f > h => Untouched(f)) /\ (f < h => Uninstalled(f))
  BY <1>1, <1>3 DEF FilesInv, UninstallInv, TakingOut
<1>5. PICK r \in F!Record : r = state[h] BY <1>3, <1>4
<1>6. Checked(h, r) /\ RecordHolds(h, r) /\ r.changed /\ before[3][h] = r BY <1>3, <1>4, <1>5
<1>7. backups[h] = Old(h) /\ (h \notin aside => Place(h) = F!NoFile)
  BY <1>4 DEF Moved
<1>8. PICK s : s = r.backup OBVIOUS
<1>9. CASE s = F!NoSlot /\ hand' = hand + 1 /\ scriptPc' = "staging" /\ UNCHANGED <<dest, backups, restored>>
  <2>1. hand' = h + 1 /\ hand' \in 1..3 /\ hand' \in 0..3 BY <1>4, <1>9 DEF F!Files
  <2>2. Uninstalled(h)
    <3>1. r.old = F!NoFile /\ r.old = replaced[h] BY <1>6, <1>8, <1>9 DEF RecordHolds
    <3>2. QED BY <1>4, <1>6, <3>1 DEF Uninstalled
  <2>3. \A g \in F!Files : g < hand' => g < h \/ g = h BY <1>4, <2>1 DEF F!Files
  <2>4. \A g \in F!Files : (g > hand' => g > h) /\ (g = hand' => g > h) BY <1>4, <2>1 DEF F!Files
  <2>5. \A g \in F!Files : /\ Moved(g)' <=> Moved(g)
                           /\ Untouched(g)' <=> Untouched(g)
                           /\ Uninstalled(g)' <=> Uninstalled(g)
    BY <1>1, <1>9, FileStays
  <2>6. \A g \in F!Files : /\ Moved(g)' /\ (g < hand' => Uninstalled(g)')
                           /\ (g > hand' => Untouched(g)') /\ (g = hand' => Untouched(g)')
    BY <1>4, <2>2, <2>3, <2>4, <2>5
  <2>7. TakingOut' BY <1>1, <1>4, <1>9, <2>1, <2>6 DEF TakingOut
  <2>8. TakingBack' BY <1>9 DEF TakingBack
  <2>9. scriptPc' \in Uninstalling BY <1>9 DEF Uninstalling
  <2>10. F!TypeOK' BY <1>1, <1>2, <1>3, <1>9, <2>1, <2>9, UninstallTypes
  <2>11. runs' \in Nat /\ runs <= runs' BY <1>1, FileTypes
  <2>12. UsersSafe' /\ InOrder' /\ Recorded' BY <1>1, <1>9, <2>11, RecordStays
  <2>13. QED BY <1>1, <2>7, <2>8, <2>9, <2>10, <2>12, UninstallGoesOn
<1>10. CASE /\ s # F!NoSlot /\ F!FromBackup(h, s) /\ restored' = restored \union {hand}
            /\ hand' = hand + 1 /\ scriptPc' = "staging"
  <2>1. /\ hand' = h + 1 /\ hand' \in 1..3 /\ hand' \in 0..3
        /\ restored' = restored \union {h} /\ restored' \subseteq F!Files
    BY <1>2, <1>4, <1>10 DEF F!Files
  <2>2. /\ s \in F!Slots /\ s < runs /\ Old(h)[s] = r.old
        /\ First(backups[h], s) \/ First(backups[h], s + 1)
        /\ r.old = replaced[h] /\ r.old # r.installed
    BY <1>6, <1>8, <1>10 DEF RecordHolds, Checked
  <2>3. Safe(h) BY <1>4 DEF UsersSafe
  <2>4. Kept(h) BY <1>4, KeptWithoutPlace
  <2>5. /\ dest' \in [F!Files -> Content] /\ backups' \in [F!Files -> Paths]
        /\ dest'[h] = backups[h][s] /\ backups'[h] = [backups[h] EXCEPT ![s] = F!NoFile]
        /\ \A g \in F!Files \ {h} : dest'[g] = dest[g] /\ backups'[g] = backups[g]
        /\ Safe(h)'
    BY <1>1, <1>4, <1>10, <2>2, <2>4, FromBackupKeeps
  <2>6. dest'[h] = r.old BY <1>7, <2>2, <2>5
  <2>7. First(backups'[h], s)
    <3>1. PICK b : b = backups[h] OBVIOUS
    <3>2. b \in Paths /\ (First(b, s) \/ First(b, s + 1)) BY <1>3, <1>4, <1>7, <2>2, <3>1
    <3>3. First([b EXCEPT ![s] = F!NoFile], s) BY <2>2, <3>2, OneLess
    <3>4. QED BY <2>5, <3>1, <3>3
  <2>8. Ordered(h)'
    <3>1. s \in 0..runs' BY <1>1, <2>2, FileTypes, FilesConstants DEF F!Slots
    <3>2. QED BY <2>7, <3>1 DEF Ordered
  <2>9. UsersSafe' /\ InOrder' BY <1>1, <1>4, <2>5, <2>8, OthersStay
  <2>10. RecordHolds(h, r)'
    <3>1. First(backups'[h], r.backup) BY <1>8, <2>7
    <3>2. dest'[h] # r.installed BY <2>2, <2>6
    <3>3. QED BY <1>1, <1>6, <3>1, <3>2 DEF RecordHolds
  <2>11. Recorded' BY <1>1, <1>5, <2>5, <2>10, RecordOfOthersStays
  <2>12. Moved(h)'
    <3>1. before'[3][h] = r /\ h \in restored' /\ (h \in aside' <=> h \in aside) BY <1>1, <1>6, <2>1
    <3>2. Place(h)' = Place(h) /\ Old(h)' = Old(h) BY <1>1 DEF Place, Old
    <3>3. h \in aside => Place(h) = r.installed BY <1>4, <1>6 DEF Moved
    <3>4. backups'[h] = [Old(h)' EXCEPT ![r.backup] = F!NoFile] BY <1>7, <1>8, <2>5, <3>2
    <3>5. QED BY <1>6, <1>7, <1>8, <1>10, <2>6, <3>1, <3>2, <3>3, <3>4 DEF Moved
  <2>13. Uninstalled(h)' BY <1>1, <1>6, <2>2, <2>6 DEF Uninstalled
  <2>14. ASSUME NEW g \in F!Files, g # h
         PROVE  /\ Moved(g)' <=> Moved(g)
                /\ Untouched(g)' <=> Untouched(g)
                /\ Uninstalled(g)' <=> Uninstalled(g)
    <3>1. dest'[g] = dest[g] /\ backups'[g] = backups[g] BY <2>5, <2>14
    <3>2. g \in aside' <=> g \in aside BY <1>1
    <3>3. g \in restored' <=> g \in restored BY <2>1, <2>14
    <3>4. QED BY <1>1, <3>1, <3>2, <3>3, FileStays
  <2>15. \A g \in F!Files : g < hand' => g < h \/ g = h BY <1>4, <2>1 DEF F!Files
  <2>16. \A g \in F!Files : /\ (g > hand' => g > h /\ g # h) /\ (g = hand' => g > h /\ g # h)
                            /\ (g < h => g # h)
    BY <1>4, <2>1 DEF F!Files
  <2>17. \A g \in F!Files : /\ Moved(g)' /\ (g < hand' => Uninstalled(g)')
                            /\ (g > hand' => Untouched(g)') /\ (g = hand' => Untouched(g)')
    BY <1>4, <2>12, <2>13, <2>14, <2>15, <2>16
  <2>18. TakingOut' BY <1>1, <1>4, <1>10, <2>1, <2>17 DEF TakingOut
  <2>19. TakingBack' BY <1>10 DEF TakingBack
  <2>20. scriptPc' \in Uninstalling BY <1>10 DEF Uninstalling
  <2>21. F!TypeOK' BY <1>1, <1>2, <1>3, <2>1, <2>5, <2>20, UninstallTypes
  <2>22. QED BY <1>1, <2>9, <2>11, <2>18, <2>19, <2>20, <2>21, UninstallGoesOn
<1>11. CASE s # F!NoSlot /\ scriptPc' = "unrestoring" /\ UNCHANGED <<dest, backups, restored, hand>>
  <2>1. hand' = h /\ hand' \in 0..2 /\ hand' \in 0..3 BY <1>4, <1>11 DEF F!Files
  <2>2. \A g \in F!Files : g > h => Original(g)
    BY <1>4 DEF Moved, Untouched, Original
  <2>3. \A g \in F!Files : (Moved(g)' <=> Moved(g)) /\ (Original(g)' <=> Original(g))
    BY <1>1, <1>11, FileStays
  <2>4. \A g \in F!Files : Moved(g)' /\ (g > hand' => Original(g)')
    BY <1>4, <2>1, <2>2, <2>3
  <2>5. TakingBack' BY <1>4, <1>11, <2>1, <2>4 DEF TakingBack
  <2>6. TakingOut' BY <1>11 DEF TakingOut
  <2>7. scriptPc' \in Uninstalling BY <1>11 DEF Uninstalling
  <2>8. F!TypeOK' BY <1>1, <1>2, <1>3, <1>11, <2>1, <2>7, UninstallTypes
  <2>9. runs' \in Nat /\ runs <= runs' BY <1>1, FileTypes
  <2>10. UsersSafe' /\ InOrder' /\ Recorded' BY <1>1, <1>11, <2>9, RecordStays
  <2>11. QED BY <1>1, <2>5, <2>6, <2>7, <2>8, <2>10, UninstallGoesOn
<1>12. QED BY <1>5, <1>8, <1>9, <1>10, <1>11 DEF F!Restore

(* All files are done: the record is dropped.                              *)
LEMMA DropStateKeeps ==
  ASSUME FilesInv, F!DropState
  PROVE  FilesInv'
<1>1. /\ scriptPc = "dropping" /\ scriptPc \in Uninstalling
      /\ UNCHANGED <<dest, backups, staged, version, changes, slot, aside, restored, clean, before,
                     replaced, users, runs, edits>>
  BY DEF F!DropState, F!installVars, F!historyVars, Uninstalling
<1>2. /\ dest \in [F!Files -> Content] /\ backups \in [F!Files -> Paths]
      /\ staged \in [F!Files -> SUBSET F!Contents] /\ hand \in 0..3
      /\ aside \subseteq F!Files /\ restored \subseteq F!Files /\ clean \in BOOLEAN
  BY FileTypes DEF FilesInv, F!TypeOK
<1>3. /\ state = before[3] /\ state \in [F!Files -> F!Record] /\ ~F!Idle
  BY <1>1, RecordAtHand
<1>4. /\ hand = 3 /\ \A f \in F!Files : Moved(f) /\ (f < hand => Uninstalled(f))
  BY <1>1 DEF FilesInv, UninstallInv, TakingOut
<1>5. \A g \in F!Files : /\ Moved(g)' <=> Moved(g)
                         /\ Uninstalled(g)' <=> Uninstalled(g)
  BY <1>1, FileStays
<1>6. UsersSafe' /\ InOrder'
  BY <1>1 DEF FilesInv, UsersSafe, InOrder, Safe, Ordered, Backups
<1>7. CASE state' = F!NoState /\ scriptPc' = "deleting" /\ UNCHANGED hand
  <2>1. F!TypeOK' BY <1>1, <1>2, <1>7, UninstallTypes
  <2>2. Recorded' BY <1>7 DEF Recorded
  <2>3. InstallInv' BY <1>7 DEF InstallInv, Installing, Forward
  <2>4. RecordKept' BY <1>1, <1>3, <1>7 DEF RecordKept, Uninstalling
  <2>5. \A g \in F!Files : Uninstalled(g)' BY <1>4, <1>5 DEF F!Files
  <2>6. TakingOut' BY <1>7, <2>5 DEF TakingOut
  <2>7. TakingBack' /\ F!AllOrNothing' BY <1>7 DEF TakingBack, F!AllOrNothing
  <2>8. Remembered' BY <1>1, <1>3 DEF FilesInv, Remembered, Old
  <2>9. QED BY <1>6, <2>1, <2>2, <2>3, <2>4, <2>6, <2>7, <2>8 DEF FilesInv, UninstallInv
<1>8. CASE scriptPc' = "unrestoring" /\ hand' = Len(state) /\ UNCHANGED state
  <2>1. hand' = 2
    <3>1. PICK q : q = state OBVIOUS
    <3>2. q \in [1..2 -> F!Record] BY <1>3, <3>1 DEF F!Files
    <3>3. q \in Seq(F!Record) BY <3>2, SeqDef
    <3>4. Len(q) \in Nat /\ DOMAIN q = 1..Len(q) /\ DOMAIN q = 1..2 BY <3>2, <3>3, LenProperties
    <3>5. PICK n : n = Len(q) OBVIOUS
    <3>7. n \in Nat /\ 1..n = 1..2 BY <3>4, <3>5
    <3>8. n = 2
      <4>1. 2 \in 1..n /\ ~(n > 2) BY <3>7
      <4>2. QED BY <3>7, <4>1
    <3>6. QED BY <1>8, <3>1, <3>5, <3>8
  <2>2. hand' \in 0..2 /\ hand' \in 0..3 /\ hand' \in F!Files BY <2>1 DEF F!Files
  <2>3. \A g \in F!Files : Moved(g)' /\ ~(g > hand') BY <1>4, <1>5, <2>1 DEF F!Files
  <2>4. TakingBack' BY <1>8, <2>2, <2>3 DEF TakingBack
  <2>5. TakingOut' BY <1>8 DEF TakingOut
  <2>6. scriptPc' \in Uninstalling BY <1>8 DEF Uninstalling
  <2>7. F!TypeOK' BY <1>1, <1>2, <1>3, <1>8, <2>2, <2>6, UninstallTypes
  <2>8. runs' \in Nat /\ runs <= runs' BY <1>1, FileTypes
  <2>9. Recorded' BY <1>1, <1>8, <2>8, RecordStays
  <2>10. QED BY <1>1, <1>6, <1>8, <2>4, <2>5, <2>6, <2>7, <2>9, UninstallGoesOn
<1>9. QED BY <1>7, <1>8 DEF F!DropState

(* The old file of the file in hand goes back to its backup.               *)
LEMMA UnrestoreKeeps ==
  ASSUME FilesInv, F!Unrestore
  PROVE  FilesInv'
<1>1. /\ scriptPc = "unrestoring" /\ scriptPc \in Uninstalling
      /\ UNCHANGED <<staged, state, version, changes, slot, hand, aside, restored, before,
                     replaced, users, runs, edits>>
  BY DEF F!Unrestore, F!installVars, F!uninstallVars, F!historyVars, Uninstalling
<1>2. /\ dest \in [F!Files -> Content] /\ backups \in [F!Files -> Paths]
      /\ staged \in [F!Files -> SUBSET F!Contents] /\ hand \in 0..3
      /\ aside \subseteq F!Files /\ restored \subseteq F!Files /\ clean \in BOOLEAN
      /\ F!NoFile \in Content
  BY FileTypes DEF FilesInv, F!TypeOK, Content
<1>3. /\ state = before[3] /\ state \in [F!Files -> F!Record] /\ ~F!Idle /\ state # F!NoState
      /\ \A f \in F!Files : Checked(f, state[f]) /\ RecordHolds(f, state[f])
      /\ \A f \in F!Files : Old(f) \in Paths /\ Place(f) \in Content
  BY <1>1, RecordAtHand
<1> PICK h : h = hand OBVIOUS
<1>4. /\ UsersSafe /\ InOrder /\ h \in 0..2
      /\ \A f \in F!Files : (f < h => Moved(f)) /\ (f > h /\ clean => Original(f))
      /\ h > 0 => Moved(h)
  BY <1>1 DEF FilesInv, UninstallInv, TakingBack
<1>5. hand' = h /\ hand' \in 0..2 /\ hand' \in 0..3 BY <1>1, <1>2, <1>4
<1>6. ASSUME UNCHANGED <<dest, backups>>
      PROVE  /\ UsersSafe' /\ InOrder' /\ Recorded'
             /\ \A g \in F!Files : /\ Moved(g)' <=> Moved(g)
                                   /\ Original(g)' <=> Original(g)
  <2>1. runs' \in Nat /\ runs <= runs' BY <1>1, FileTypes
  <2>2. UsersSafe' /\ InOrder' /\ Recorded' BY <1>1, <1>6, <2>1, RecordStays
  <2>3. QED BY <1>1, <1>6, <2>2, FileStays
<1>7. CASE h = 0 /\ scriptPc' = "failed" /\ UNCHANGED <<dest, backups, clean>>
  <2>1. F!TypeOK' BY <1>1, <1>2, <1>3, <1>7, UninstallTypes
  <2>2. ASSUME clean PROVE <<dest, backups, state>> = before
    <3>1. \A g \in F!Files : Original(g) BY <1>4, <1>7, <2>2 DEF F!Files
    <3>2. /\ before = <<before[1], before[2], before[3]>>
          /\ before[1] \in [F!Files -> Content] /\ before[2] \in [F!Files -> Paths]
      BY <1>3 DEF FilesInv, Remembered
    <3>3. dest = before[1] BY <1>2, <3>1, <3>2 DEF Original, Place
    <3>4. backups = before[2] BY <1>2, <3>1, <3>2 DEF Original, Old
    <3>5. QED BY <1>3, <3>2, <3>3, <3>4
  <2>3. F!AllOrNothing' BY <1>1, <1>7, <2>2 DEF F!AllOrNothing
  <2>4. QED BY <1>6, <1>7, <2>1, <2>3, RunEnds
<1>8. ASSUME h > 0, scriptPc' = "unstaging", dest' \in [F!Files -> Content],
             backups' \in [F!Files -> Paths], clean' \in BOOLEAN, clean' => clean,
             \A g \in F!Files \ {h} : dest'[g] = dest[g] /\ backups'[g] = backups[g],
             clean' => /\ backups'[h] = Old(h)
                       /\ dest'[h] = IF h \in aside THEN F!NoFile ELSE Place(h),
             UsersSafe', InOrder', Recorded'
      PROVE  FilesInv'
  <2>1. h \in F!Files BY <1>4, <1>8 DEF F!Files
  <2>2. ASSUME NEW g \in F!Files, g # h
        PROVE  (Moved(g)' <=> Moved(g)) /\ (Original(g)' <=> Original(g))
    <3>1. dest'[g] = dest[g] /\ backups'[g] = backups[g] BY <1>8, <2>2
    <3>2. QED BY <1>1, <3>1, FileStays
  <2>3. \A g \in F!Files : (g < h => g # h) /\ (g > h => g # h) BY <1>4 DEF F!Files
  <2>4. \A g \in F!Files : (g < hand' => Moved(g)') /\ (g > hand' /\ clean' => Original(g)')
    BY <1>4, <1>5, <1>8, <2>2, <2>3
  <2>5. h \in aside => Place(h) = before[3][h].installed BY <1>4, <1>8 DEF Moved
  <2>6. ASSUME clean'
        PROVE  /\ backups'[h] = Old(h)'
               /\ dest'[h] = IF h \in aside' THEN F!NoFile ELSE Place(h)'
               /\ h \in aside' => Place(h)' = before'[3][h].installed
    <3>1. Old(h)' = Old(h) /\ Place(h)' = Place(h) BY <1>1 DEF Old, Place
    <3>2. QED BY <1>1, <1>8, <2>5, <2>6, <3>1
  <2>7. TakingBack' BY <1>5, <1>8, <2>4, <2>6 DEF TakingBack, Old, Place
  <2>8. TakingOut' BY <1>8 DEF TakingOut
  <2>9. scriptPc' \in Uninstalling BY <1>8 DEF Uninstalling
  <2>10. F!TypeOK' BY <1>1, <1>2, <1>3, <1>5, <1>8, <2>9, UninstallTypes
  <2>11. QED BY <1>1, <1>8, <2>7, <2>8, <2>9, <2>10, UninstallGoesOn
<1>9. CASE h > 0 /\ scriptPc' = "unstaging" /\ h \notin restored /\ UNCHANGED <<dest, backups, clean>>
  <2>1. backups[h] = Old(h) /\ dest[h] = IF h \in aside THEN F!NoFile ELSE Place(h)
    BY <1>4, <1>9 DEF Moved
  <2>2. QED BY <1>2, <1>6, <1>8, <1>9, <2>1
<1>10. CASE h > 0 /\ scriptPc' = "unstaging" /\ h \in restored /\ clean' = FALSE /\ UNCHANGED <<dest, backups>>
  BY <1>2, <1>6, <1>8, <1>10
<1>11. CASE /\ h > 0 /\ scriptPc' = "unstaging" /\ h \in restored
            /\ backups' = [backups EXCEPT ![h][state[h].backup] = dest[h]]
            /\ dest' = [dest EXCEPT ![h] = F!NoFile] /\ UNCHANGED clean
  <2>1. h \in F!Files BY <1>4, <1>11 DEF F!Files
  <2>2. PICK r \in F!Record : r = state[h] BY <1>3, <2>1
  <2>3. Checked(h, r) /\ RecordHolds(h, r) /\ before[3][h] = r BY <1>3, <2>1, <2>2
  <2>4. /\ r.changed /\ r.backup # F!NoSlot /\ dest[h] = r.old
        /\ h \notin aside => Place(h) = F!NoFile
        /\ backups[h] = [Old(h) EXCEPT ![r.backup] = F!NoFile]
    BY <1>4, <1>11, <2>3 DEF Moved
  <2>5. PICK s : s = r.backup OBVIOUS
  <2>6. /\ s \in F!Slots /\ s < runs /\ Old(h)[s] = r.old /\ r.old # F!NoFile
        /\ First(backups[h], s) \/ First(backups[h], s + 1)
    BY <2>3, <2>4, <2>5 DEF RecordHolds, Checked
  <2>7. PICK c \in Content : c = dest[h] BY <1>2, <2>1
  <2>8. /\ backups' \in [F!Files -> Paths] /\ backups'[h] = [backups[h] EXCEPT ![s] = c]
        /\ \A g \in F!Files \ {h} : backups'[g] = backups[g]
    BY <1>2, <1>11, <2>1, <2>2, <2>5, <2>6, <2>7, WriteBackup
  <2>9. /\ dest' \in [F!Files -> Content] /\ dest'[h] = F!NoFile
        /\ \A g \in F!Files \ {h} : dest'[g] = dest[g]
    BY <1>2, <1>11, <2>1
  <2>10. PICK b : b = Old(h) OBVIOUS
  <2>11. b \in Paths /\ b[s] = c /\ backups[h] = [b EXCEPT ![s] = F!NoFile] /\ c # F!NoFile
    BY <1>3, <2>1, <2>4, <2>5, <2>6, <2>7, <2>10
  <2>12. backups[h][s] = F!NoFile /\ backups[h] \in Paths
    BY <1>2, <2>1, <2>6, <2>11 DEF Paths
  <2>13. backups'[h] = b
    <3>1. [[b EXCEPT ![s] = F!NoFile] EXCEPT ![s] = c] = b BY <2>6, <2>11 DEF Paths
    <3>2. QED BY <2>8, <2>11, <3>1
  <2>14. Safe(h)'
    <3>1. Safe(h) BY <1>4, <2>1 DEF UsersSafe
    <3>2. PICK p : p = backups[h] OBVIOUS
    <3>3. PICK U : U = users[h] OBVIOUS
    <3>4. p \in Paths /\ p[s] = F!NoFile BY <2>12, <3>2
    <3>5. F!NoFile \notin U /\ U \subseteq {c} \union {p[t] : t \in F!Slots}
      BY <2>7, <3>1, <3>2, <3>3 DEF Safe, Backups
    <3>6. U \subseteq {[p EXCEPT ![s] = c][t] : t \in F!Slots} BY <2>6, <3>4, <3>5, MovedAway
    <3>7. QED BY <1>1, <2>8, <3>2, <3>3, <3>5, <3>6 DEF Safe, Backups
  <2>15. Ordered(h)'
    <3>1. PICK k \in 0..(runs - 1) : First(Old(h), k) BY <1>3, <2>1 DEF FilesInv, Remembered
    <3>2. k \in 0..runs' BY <1>1, FileTypes
    <3>3. First(backups'[h], k) BY <2>10, <2>13, <3>1
    <3>4. QED BY <3>2, <3>3 DEF Ordered
  <2>16. UsersSafe' /\ InOrder' BY <1>1, <1>4, <2>8, <2>9, <2>14, <2>15, OthersStay
  <2>17. First(backups'[h], s + 1)
    <3>1. PICK p : p = backups[h] OBVIOUS
    <3>2. First(p, s) BY <2>6, <2>12, <3>1, FilesConstants DEF First, F!Slots
    <3>3. First([p EXCEPT ![s] = c], s + 1) BY <2>6, <2>11, <2>12, <3>1, <3>2, OneMore
    <3>4. QED BY <2>8, <3>1, <3>3
  <2>18. RecordHolds(h, r)'
    <3>1. dest'[h] # r.installed BY <2>9, SlotFacts DEF F!Record
    <3>2. First(backups'[h], r.backup + 1) BY <2>5, <2>17
    <3>3. QED BY <1>1, <2>3, <3>1, <3>2 DEF RecordHolds
  <2>19. \A g \in F!Files \ {h} : dest'[g] = dest[g] /\ backups'[g] = backups[g] BY <2>8, <2>9
  <2>20. Recorded' BY <1>1, <2>2, <2>18, <2>19, RecordOfOthersStays
  <2>21. backups'[h] = Old(h) /\ dest'[h] = IF h \in aside THEN F!NoFile ELSE Place(h)
    BY <2>4, <2>9, <2>10, <2>13
  <2>22. QED BY <1>2, <1>8, <1>11, <2>8, <2>9, <2>16, <2>19, <2>20, <2>21
<1>12. QED BY <1>7, <1>9, <1>10, <1>11 DEF F!Unrestore

(* And the plug-in's file, if it was moved aside, to its place.            *)
LEMMA UnstageKeeps ==
  ASSUME FilesInv, F!Unstage
  PROVE  FilesInv'
<1> PICK h : h = hand OBVIOUS
<1>1. /\ scriptPc = "unstaging" /\ scriptPc \in Uninstalling
      /\ scriptPc' = "unrestoring" /\ scriptPc' \in Uninstalling /\ hand' = h - 1
      /\ UNCHANGED <<backups, state, version, changes, slot, aside, restored, before,
                     replaced, users, runs, edits>>
  BY DEF F!Unstage, F!installVars, F!historyVars, Uninstalling
<1>2. /\ dest \in [F!Files -> Content] /\ backups \in [F!Files -> Paths]
      /\ staged \in [F!Files -> SUBSET F!Contents]
      /\ aside \subseteq F!Files /\ restored \subseteq F!Files /\ clean \in BOOLEAN
      /\ FALSE \in BOOLEAN
  BY FileTypes DEF FilesInv, F!TypeOK
<1>3. /\ state = before[3] /\ state \in [F!Files -> F!Record]
      /\ \A f \in F!Files : Checked(f, state[f]) /\ RecordHolds(f, state[f])
  BY <1>1, RecordAtHand
<1>4. /\ UsersSafe /\ InOrder /\ h \in 0..2 /\ h > 0
      /\ \A f \in F!Files : (f < h => Moved(f)) /\ (f > h /\ clean => Original(f))
      /\ clean => /\ backups[h] = Old(h)
                  /\ dest[h] = IF h \in aside THEN F!NoFile ELSE Place(h)
                  /\ h \in aside => Place(h) = before[3][h].installed
  BY <1>1 DEF FilesInv, UninstallInv, TakingBack
<1>5. h \in F!Files /\ hand' \in 0..2 /\ hand' \in 0..3 BY <1>1, <1>4 DEF F!Files
<1>6. PICK r \in F!Record : r = state[h] BY <1>3, <1>5
<1>7. RecordHolds(h, r) /\ before[3][h] = r /\ r.installed \in F!Contents BY <1>3, <1>5, <1>6 DEF F!Record
<1>8. Safe(h) /\ Ordered(h) BY <1>4, <1>5 DEF UsersSafe, InOrder
<1>9. ASSUME dest' \in [F!Files -> Content], staged' \in [F!Files -> SUBSET F!Contents],
             clean' \in BOOLEAN, clean' => clean,
             \A g \in F!Files \ {h} : dest'[g] = dest[g],
             clean' => Original(h)', UsersSafe', InOrder', Recorded'
      PROVE  FilesInv'
  <2>1. ASSUME NEW g \in F!Files, g # h
        PROVE  (Moved(g)' <=> Moved(g)) /\ (Original(g)' <=> Original(g))
    <3>1. dest'[g] = dest[g] /\ backups'[g] = backups[g] BY <1>1, <1>9, <2>1
    <3>2. QED BY <1>1, <3>1, FileStays
  <2>2. \A g \in F!Files : /\ (g < hand' => g < h /\ g # h) /\ (g = hand' => g < h /\ g # h)
                           /\ (g > hand' => g = h \/ (g > h /\ g # h))
    BY <1>1, <1>4 DEF F!Files
  <2>3. \A g \in F!Files : /\ (g < hand' => Moved(g)') /\ (g = hand' => Moved(g)')
                           /\ (g > hand' /\ clean' => Original(g)')
    BY <1>4, <1>9, <2>1, <2>2
  <2>4. hand' > 0 => hand' \in F!Files BY <1>5 DEF F!Files
  <2>5. TakingBack' BY <1>1, <1>5, <2>3, <2>4 DEF TakingBack
  <2>6. TakingOut' BY <1>1 DEF TakingOut
  <2>7. F!TypeOK' BY <1>1, <1>2, <1>3, <1>5, <1>9, UninstallTypes
  <2>8. QED BY <1>1, <1>9, <2>5, <2>6, <2>7, UninstallGoesOn
<1>10. ASSUME UNCHANGED dest PROVE UsersSafe' /\ InOrder' /\ Recorded'
  <2>1. runs' \in Nat /\ runs <= runs' BY <1>1, FileTypes
  <2>2. QED BY <1>1, <1>10, <2>1, RecordStays
<1>11. CASE ~(h \in aside /\ dest[h] = F!NoFile) /\ UNCHANGED <<dest, staged, clean>>
  <2>1. clean => dest[h] = Place(h) /\ backups[h] = Old(h) BY <1>4, <1>11
  <2>2. clean' => Original(h)' BY <1>1, <1>11, <2>1 DEF Original, Place, Old
  <2>3. QED BY <1>2, <1>9, <1>10, <1>11, <2>2
<1>12. CASE /\ h \in aside /\ dest[h] = F!NoFile
            /\ dest' = [dest EXCEPT ![h] = r.installed]
            /\ staged' = [staged EXCEPT ![h] = staged[h] \ {r.installed}] /\ UNCHANGED clean
  <2>1. /\ dest' \in [F!Files -> Content] /\ dest'[h] = r.installed
        /\ \A g \in F!Files \ {h} : dest'[g] = dest[g] /\ backups'[g] = backups[g]
        /\ \A g \in F!Files \ {h} : dest'[g] = dest[g]
    BY <1>1, <1>2, <1>5, <1>7, <1>12 DEF Content
  <2>2. staged' \in [F!Files -> SUBSET F!Contents] BY <1>2, <1>5, <1>12
  <2>3. Kept(h) BY <1>5, <1>12, KeptWithoutPlace
  <2>4. Safe(h)' /\ Ordered(h)' BY <1>1, <1>8, <2>3 DEF Safe, Ordered, Kept, Backups
  <2>5. UsersSafe' /\ InOrder' BY <1>1, <1>4, <2>1, <2>4, OthersStay
  <2>6. Kept(h)' BY <1>1, <2>3 DEF Kept, Backups
  <2>7. RecordHolds(h, r)' BY <1>1, <1>7, <2>6 DEF RecordHolds
  <2>8. Recorded' BY <1>1, <1>6, <2>1, <2>7, RecordOfOthersStays
  <2>9. clean' => Original(h)'
    <3>1. clean => Place(h) = r.installed /\ backups[h] = Old(h) BY <1>4, <1>7, <1>12
    <3>2. QED BY <1>1, <1>12, <2>1, <3>1 DEF Original, Place, Old
  <2>10. clean' \in BOOLEAN /\ (clean' => clean) BY <1>2, <1>12
  <2>11. QED BY <1>9, <2>1, <2>2, <2>5, <2>8, <2>9, <2>10
<1>13. CASE clean' = FALSE /\ UNCHANGED <<dest, staged>>
  BY <1>2, <1>9, <1>10, <1>13
<1>14. QED BY <1>6, <1>11, <1>12, <1>13 DEF F!Unstage

(* Copies moved aside are deleted; nothing depends on them any more.       *)
LEMMA DeleteStagedKeeps ==
  ASSUME FilesInv, F!DeleteStaged
  PROVE  FilesInv'
<1>1. /\ scriptPc = "deleting" /\ scriptPc' = "uninstalled"
      /\ UNCHANGED <<dest, backups, state, version, changes, slot, hand, aside, restored, clean,
                     before, replaced, users, runs, edits>>
  BY DEF F!DeleteStaged, F!installVars, F!uninstallVars, F!historyVars
<1>2. PICK D \in SUBSET aside :
        staged' = [f \in F!Files |-> IF f \in D THEN staged[f] \ {before[3][f].installed} ELSE staged[f]]
  BY DEF F!DeleteStaged
<1>3. F!TypeOK BY DEF FilesInv
<1>4. staged' \in [F!Files -> SUBSET F!Contents]
  <2>1. staged \in [F!Files -> SUBSET F!Contents] BY <1>3 DEF F!TypeOK
  <2>2. ASSUME NEW f \in F!Files PROVE staged'[f] \in SUBSET F!Contents
    <3>1. CASE f \in D BY <1>2, <2>1, <3>1
    <3>2. CASE f \notin D BY <1>2, <2>1, <3>2
    <3>3. QED BY <3>1, <3>2
  <2>3. QED BY <1>2, <2>2
<1>5. F!TypeOK' BY <1>1, <1>3, <1>4 DEF F!TypeOK
<1>6. \A f \in F!Files : Uninstalled(f) BY <1>1 DEF FilesInv, UninstallInv, TakingOut
<1>7. F!AllOrNothing' BY <1>1, <1>6 DEF F!AllOrNothing, Uninstalled, Place
<1>8. runs' \in Nat /\ runs <= runs' BY <1>1, FileTypes
<1>9. Recorded' /\ UsersSafe' /\ InOrder' BY <1>1, <1>8, RecordStays
<1>10. QED BY <1>1, <1>5, <1>7, <1>9, RunEnds

(***************************************************************************)
(* The theorems.                                                           *)
(***************************************************************************)

(* Nothing is installed and nothing is backed up at first.                 *)
LEMMA FilesBegin ==
  ASSUME ManagerInit
  PROVE  FilesInv
<1>1. F!Init BY DEF ManagerInit
<1>2. /\ dest \in [F!Files -> Content]
      /\ backups = [f \in F!Files |-> [s \in F!Slots |-> F!NoFile]]
      /\ scriptPc = "idle" /\ state = F!NoState /\ runs = 0
      /\ users = [f \in F!Files |-> {dest[f]} \ {F!NoFile}]
  <2>1. F!Own(0) \in F!Contents BY FilesConstants DEF F!Contents
  <2>2. {F!NoFile, F!Own(0)} \union {F!Package(v) : v \in Packages} \subseteq Content
    BY <2>1 DEF Content, F!Contents
  <2>3. dest \in [F!Files -> Content] BY <1>1, <2>2 DEF F!Init
  <2>4. QED BY <1>1, <2>3 DEF F!Init
<1>3. F!TypeOK
  <2>1. backups \in [F!Files -> [F!Slots -> F!Contents \union {F!NoFile}]] BY <1>2
  <2>2. dest \in [F!Files -> F!Contents \union {F!NoFile}] BY <1>2 DEF Content
  <2>3. changes \in Seq(F!Record) /\ Len(changes) <= 2 BY <1>1 DEF F!Init
  <2>4. staged \in [F!Files -> SUBSET F!Contents] BY <1>1 DEF F!Init
  <2>5. users \in [F!Files -> SUBSET F!Contents]
    <3>1. \A f \in F!Files : {dest[f]} \ {F!NoFile} \subseteq F!Contents BY <2>2
    <3>2. QED BY <1>2, <3>1
  <2>6. slot \in F!Slots \union {F!NoSlot} /\ hand \in 0..3 /\ runs \in 0..MaxRuns /\ edits \in 0..MaxEdits
        /\ aside \subseteq F!Files /\ restored \subseteq F!Files /\ clean \in BOOLEAN /\ version \in Packages
    BY <1>1, FilesConstants DEF F!Init
  <2>7. QED BY <1>2, <2>1, <2>2, <2>3, <2>4, <2>5, <2>6 DEF F!TypeOK
<1>4. UsersSafe BY <1>2 DEF UsersSafe, Safe
<1>5. InOrder
  <2> SUFFICES ASSUME NEW f \in F!Files PROVE Ordered(f)
    BY DEF InOrder
  <2>1. First(backups[f], 0) BY <1>2, FilesConstants DEF First, F!Slots
  <2>2. 0 \in 0..runs BY <1>2
  <2>3. QED BY <2>1, <2>2 DEF Ordered
<1>6. Recorded BY <1>2 DEF Recorded
<1>7. Remembered BY <1>2 DEF Remembered, F!Idle
<1>8. InstallInv BY <1>2 DEF InstallInv, Installing, Forward
<1>9. UninstallInv BY <1>2 DEF UninstallInv, RecordKept, TakingOut, TakingBack, Uninstalling
<1>10. F!AllOrNothing BY <1>2 DEF F!AllOrNothing
<1>11. QED BY <1>3, <1>4, <1>5, <1>6, <1>7, <1>8, <1>9, <1>10 DEF FilesInv

LEMMA FilesRest ==
  ASSUME FilesInv, UNCHANGED fileVars
  PROVE  FilesInv'
<1>1. UNCHANGED <<dest, backups, staged, state, scriptPc, version, changes, slot, hand,
                  aside, restored, before, clean, replaced, users, runs, edits>>
  BY DEF fileVars
<1>2. F!TypeOK' BY <1>1 DEF FilesInv, F!TypeOK
<1>3. runs' \in Nat /\ runs <= runs' BY <1>1, FileTypes
<1>4. Recorded' /\ UsersSafe' /\ InOrder' BY <1>1, <1>3, RecordStays
<1>5. Remembered' BY <1>1 DEF FilesInv, Remembered, F!Idle, Old
<1>6. F!AllOrNothing' BY <1>1 DEF FilesInv, F!AllOrNothing
<1>7. InstallInv'
  <2>1. InstallInv BY DEF FilesInv
  <2>2. \A f : Place(f)' = Place(f) /\ Old(f)' = Old(f) BY <1>1 DEF Place, Old
  <2>3. \A f : Kept(f)' <=> Kept(f) BY <1>1 DEF Kept, Backups
  <2>4. \A f, s : Taken(f, s)' <=> Taken(f, s) BY <1>1, <2>2, <2>3 DEF Taken
  <2>5. \A f, r : Installed(f, r)' <=> Installed(f, r) BY <1>1, <2>2, <2>4 DEF Installed
  <2>6. \A i : (Placed(i)' <=> Placed(i)) /\ (Undone(i)' <=> Undone(i))
    BY <1>1, <2>5 DEF Placed, Undone
  <2>7. \A f : Original(f)' <=> Original(f) BY <1>1, <2>2 DEF Original
  <2>8. F!Current' = F!Current BY <1>1 DEF F!Current
  <2>9. QED BY <1>1, <2>1, <2>4, <2>6, <2>7, <2>8 DEF InstallInv
<1>8. UninstallInv'
  <2>1. \A g : /\ Moved(g)' <=> Moved(g)
               /\ Untouched(g)' <=> Untouched(g)
               /\ Uninstalled(g)' <=> Uninstalled(g)
               /\ Original(g)' <=> Original(g)
    BY <1>1, FileStays
  <2>2. \A g, r : Checked(g, r)' <=> Checked(g, r) BY <1>1 DEF Checked, Place, Old
  <2>3. RecordKept' BY <1>1, <2>2 DEF FilesInv, UninstallInv, RecordKept
  <2>4. TakingOut' BY <1>1, <2>1 DEF FilesInv, UninstallInv, TakingOut
  <2>5. TakingBack'
    <3>1. TakingBack BY DEF FilesInv, UninstallInv
    <3>2. Moved(hand)' <=> Moved(hand) BY <1>1 DEF Moved, Place, Old
    <3>3. QED BY <1>1, <2>1, <3>1, <3>2 DEF TakingBack, Place, Old
  <2>6. QED BY <2>3, <2>4, <2>5 DEF UninstallInv
<1>9. QED BY <1>2, <1>4, <1>5, <1>6, <1>7, <1>8 DEF FilesInv

(* Every step keeps the invariant.                                         *)
LEMMA FilesStep ==
  ASSUME FilesInv, [ManagerNext]_<<part, vars, profileVars, fileVars>>
  PROVE  FilesInv'
<1>1. CASE UNCHANGED fileVars BY <1>1, FilesRest
<1>2. CASE F!Next
  BY <1>2, UserEditsKeeps, BeginInstallKeeps, BackUpKeeps, CopyNewKeeps, PutBackKeeps, SaveStateKeeps,
     RemoveNewKeeps, MoveBackKeeps, BeginUninstallKeeps, StageKeeps, RestoreKeeps, DropStateKeeps,
     UnrestoreKeeps, UnstageKeeps, DeleteStagedKeeps, KillKeeps DEF F!Next
<1>3. QED BY <1>1, <1>2 DEF ManagerNext

LEMMA FilesInvariant == ManagerSpec => []FilesInv
<1>1. ManagerInit => FilesInv BY FilesBegin
<1>2. FilesInv /\ [ManagerNext]_<<part, vars, profileVars, fileVars>> => FilesInv' BY FilesStep
<1>3. QED BY <1>1, <1>2, PTL DEF ManagerSpec

(* Wherever the scripts of Install-SimHubPlugin.ps1 and Uninstall-... are  *)
(* killed and whatever fails, no file of the user's is lost.               *)
THEOREM NoFileIsLost == ManagerSpec => []NothingLost
<1>1. FilesInv => NothingLost
  BY DEF FilesInv, NothingLost, F!NothingLost, UsersSafe, Safe, Backups
<1>2. QED BY <1>1, FilesInvariant, PTL

(* A script that ends by itself has done all of its work, or its roll-back *)
(* has put everything back, unless a step of that has failed as well.      *)
THEOREM ScriptsDoAllOrNothing == ManagerSpec => []AllOrNothing
<1>1. FilesInv => AllOrNothing
  BY DEF FilesInv, AllOrNothing
<1>2. QED BY <1>1, FilesInvariant, PTL

(***************************************************************************)
(* The profiles.                                                           *)
(***************************************************************************)

(* What may be in profile id: defaults, what was typed for it, and the     *)
(* SimHub folder of any profile.                                           *)
HomeContent(id) == [name : P!OwnTexts(id), game : P!OwnTexts(id), folder : P!Texts]

(* What load leaves as it is.                                              *)
HasName(c) == P!Named(c) = c

Profile == [id : Ids, content : P!Contents]

RegistryFits(s) ==
  /\ IsFiniteSet(DOMAIN s) /\ DOMAIN s \subseteq Ids
  /\ \A id \in DOMAIN s : s[id] \in HomeContent(id)

Listed(ps) == {ps[i].id : i \in DOMAIN ps}

ListFits(ps) ==
  /\ ps \in Seq(Profile) /\ Len(ps) <= MaximumProfiles
  /\ \A i \in DOMAIN ps : ps[i].content \in HomeContent(ps[i].id)
  /\ \A i, j \in DOMAIN ps : ps[i].id = ps[j].id => i = j

(* What is listed has a key, and the list has all keys but the unsure ones *)
(* and says of them what they hold.                                        *)
Matches(s, ps, u) ==
  /\ Listed(ps) \subseteq DOMAIN s /\ DOMAIN s \ u \subseteq Listed(ps)
  /\ \A i \in DOMAIN ps : ps[i].id \notin u => P!Named(s[ps[i].id]) = ps[i].content

WindowSound ==
  /\ ListFits(profiles) /\ Matches(store, profiles, unsure)
  /\ current \in DOMAIN profiles /\ form \in HomeContent(P!CurrentId)
  /\ combo = [items |-> P!Names(profiles), at |-> current]
  /\ P!ActiveId \notin unsure => active = P!CurrentId

WindowShut ==
  profiles = <<>> /\ current = 1 /\ combo = [items |-> <<>>, at |-> 1] /\ form = P!Nothing

ProfilesInv ==
  /\ RegistryFits(store) /\ active \in Ids \union {P!NoId} /\ open \in BOOLEAN
  /\ unsure \subseteq Ids \union {P!ActiveId}
  /\ IF open THEN WindowSound ELSE WindowShut
  /\ P!LoadsAgain

(* The keys of the registry in their order.                                *)
LEMMA IncreasingIsBijective ==
  ASSUME NEW S \in SUBSET Nat, IsFiniteSet(S), NEW n \in Nat, n = Cardinality(S),
         NEW f \in [1..n -> S], \A i, j \in 1..n : i < j => f[i] < f[j]
  PROVE  /\ \A i, j \in 1..n : f[i] = f[j] => i = j
         /\ \A x \in S : \E i \in 1..n : f[i] = x
<1>1. ASSUME NEW i \in 1..n, NEW j \in 1..n, f[i] = f[j] PROVE i = j
  <2>1. f[i] \in Nat /\ f[j] \in Nat BY <1>1
  <2>2. ~(f[i] < f[j]) /\ ~(f[j] < f[i]) BY <1>1, <2>1
  <2>3. ~(i < j) /\ ~(j < i) BY <2>2
  <2>4. QED BY <2>3
<1>2. f \in Injection(1..n, S) BY <1>1 DEF Injection, IsInjective
<1>3. Cardinality(1..n) = n /\ IsFiniteSet(1..n) BY FS_Interval
<1>4. f \in Surjection(1..n, S) BY <1>2, <1>3, FS_Injection
<1>5. \A x \in S : \E i \in 1..n : f[i] = x BY <1>4 DEF Surjection
<1>6. QED BY <1>1, <1>5

(* A finite set of numbers can be walked in increasing order: the place of *)
(* a number is how many are not above it.                                  *)
LEMMA IncreasingExists ==
  ASSUME NEW S \in SUBSET Nat, IsFiniteSet(S), NEW n \in Nat, n = Cardinality(S)
  PROVE  \E f \in [1..n -> S] : \A i, j \in 1..n : i < j => f[i] < f[j]
<1>1. PICK place : place = [x \in S |-> Cardinality({y \in S : y <= x})] OBVIOUS
<1>2. ASSUME NEW x \in S
      PROVE  IsFiniteSet({y \in S : y <= x}) /\ place[x] \in 1..n
  <2>1. PICK T : T = {y \in S : y <= x} OBVIOUS
  <2>2. T \subseteq S /\ x \in T BY <2>1
  <2>3. IsFiniteSet(T) /\ Cardinality(T) <= n BY <2>2, FS_Subset
  <2>4. Cardinality(T) \in Nat /\ Cardinality(T) # 0
    BY <2>2, <2>3, FS_CardinalityType, FS_EmptySet
  <2>5. QED BY <1>1, <2>1, <2>3, <2>4
<1>3. ASSUME NEW x \in S, NEW z \in S, x < z PROVE place[x] < place[z]
  <2>1. PICK T : T = {y \in S : y <= x} OBVIOUS
  <2>2. PICK U : U = {y \in S : y <= z} OBVIOUS
  <2>3. T \subseteq U /\ z \in U /\ z \notin T
    <3>1. \A y \in S : y \in Nat OBVIOUS
    <3>2. x \in Nat /\ z \in Nat BY <3>1
    <3>3. \A y \in Nat : y <= x => y <= z BY <1>3, <3>2
    <3>4. z <= z /\ ~(z <= x) BY <1>3, <3>2
    <3>5. QED BY <2>1, <2>2, <3>1, <3>3, <3>4
  <2>4. IsFiniteSet(U) /\ place[x] = Cardinality(T) /\ place[z] = Cardinality(U)
    BY <1>1, <1>2, <2>1, <2>2
  <2>5. Cardinality(T) <= Cardinality(U) /\ Cardinality(T) # Cardinality(U)
    BY <2>3, <2>4, FS_Subset
  <2>6. place[x] \in Nat /\ place[z] \in Nat
    <3>1. place[x] \in 1..n /\ place[z] \in 1..n BY <1>2
    <3>2. QED BY <3>1
  <2>7. QED BY <2>4, <2>5, <2>6
<1>4. place \in [S -> 1..n] BY <1>1, <1>2
<1>5. ASSUME NEW x \in S, NEW z \in S, place[x] = place[z] PROVE x = z
  <2>1. place[x] \in 1..n /\ place[z] \in 1..n BY <1>2
  <2>2. ~(x < z) /\ ~(z < x) BY <1>3, <1>5, <2>1
  <2>3. x \in Nat /\ z \in Nat OBVIOUS
  <2>4. QED BY <2>2, <2>3
<1>6. place \in Injection(S, 1..n) BY <1>4, <1>5 DEF Injection, IsInjective
<1>7. Cardinality(1..n) = n /\ IsFiniteSet(1..n) BY FS_Interval
<1>8. place \in Surjection(S, 1..n) BY <1>6, <1>7, FS_Injection
<1>9. \A i \in 1..n : \E x \in S : place[x] = i BY <1>8 DEF Surjection
<1>10. PICK f : f = [i \in 1..n |-> CHOOSE x \in S : place[x] = i] OBVIOUS
<1>11. \A i \in 1..n : f[i] \in S /\ place[f[i]] = i BY <1>9, <1>10
<1>12. f \in [1..n -> S] BY <1>10, <1>11
<1>13. ASSUME NEW i \in 1..n, NEW j \in 1..n, i < j PROVE f[i] < f[j]
  <2>1. f[i] \in S /\ f[j] \in S /\ place[f[i]] = i /\ place[f[j]] = j BY <1>11
  <2>2. f[i] # f[j] BY <1>13, <2>1
  <2>3. ~(f[j] < f[i])
    <3>1. f[j] < f[i] => place[f[j]] < place[f[i]] BY <1>3, <2>1
    <3>2. QED BY <1>13, <2>1, <3>1
  <2>4. f[i] \in Nat /\ f[j] \in Nat BY <2>1
  <2>5. QED BY <2>2, <2>3, <2>4
<1>14. QED BY <1>12, <1>13

LEMMA SameCount == ASSUME NEW S PROVE P!Cardinality(S) = Cardinality(S)
BY DEF P!Cardinality, Cardinality

LEMMA KeysAreWalked ==
  ASSUME RegistryFits(store), NEW n \in Nat, n = Cardinality(DOMAIN store)
  PROVE  /\ P!Keys \in [1..n -> DOMAIN store]
         /\ \A i, j \in 1..n : P!Keys[i] = P!Keys[j] => i = j
         /\ \A id \in DOMAIN store : \E i \in 1..n : P!Keys[i] = id
<1>1. PICK S : S = DOMAIN store OBVIOUS
<1>2. S \subseteq Nat /\ IsFiniteSet(S) BY <1>1, ProfilesConstants DEF RegistryFits
<1>3. PICK g \in [1..n -> S] : \A i, j \in 1..n : i < j => g[i] < g[j]
  BY <1>1, <1>2, IncreasingExists
<1>4. \E f \in [1..n -> S] : \A i, j \in DOMAIN f : i < j => f[i] < f[j]
  BY <1>3
<1>5. P!Keys = CHOOSE f \in [1..n -> S] : \A i, j \in DOMAIN f : i < j => f[i] < f[j]
  BY <1>1, SameCount DEF P!Keys
<1>6. PICK k : k = P!Keys OBVIOUS
<1>7. k \in [1..n -> S] /\ \A i, j \in DOMAIN k : i < j => k[i] < k[j]
  BY <1>4, <1>5, <1>6
<1>8. \A i, j \in 1..n : i < j => k[i] < k[j] BY <1>7
<1>9. n = Cardinality(S) BY <1>1
<1>10. /\ \A i, j \in 1..n : k[i] = k[j] => i = j
       /\ \A x \in S : \E i \in 1..n : k[i] = x
  BY <1>2, <1>7, <1>8, <1>9, IncreasingIsBijective
<1>11. QED BY <1>1, <1>6, <1>7, <1>10

(* What becomes of the registry.                                           *)
LEMMA HomeIsTyped ==
  ASSUME NEW id \in Ids
  PROVE  /\ HomeContent(id) \subseteq P!Contents
         /\ P!DefaultContent \in HomeContent(id) /\ P!Nothing \in HomeContent(id)
         /\ \A folder \in P!Texts : P!NewContent(folder) \in HomeContent(id)
         /\ \A c \in HomeContent(id) : P!Named(c) \in HomeContent(id)
         /\ \A c \in HomeContent(id) : c.name # P!NoText => HasName(c)
         /\ HasName(P!DefaultContent)
         /\ \A folder \in P!Texts : HasName(P!NewContent(folder))
<1>1. P!OwnTexts(id) \subseteq P!Texts BY DEF P!OwnTexts, P!Texts
<1>2. /\ P!NoText \in P!OwnTexts(id) /\ P!DefaultText \in P!OwnTexts(id)
      /\ P!NoText \in P!Texts /\ P!DefaultText \in P!Texts
  BY DEF P!OwnTexts, P!Texts
<1>3. HomeContent(id) \subseteq P!Contents BY <1>1 DEF HomeContent, P!Contents
<1>4. /\ P!DefaultContent \in HomeContent(id) /\ P!Nothing \in HomeContent(id)
      /\ \A folder \in P!Texts : P!NewContent(folder) \in HomeContent(id)
  BY <1>2 DEF HomeContent, P!DefaultContent, P!NewContent, P!Nothing
<1>5. ASSUME NEW c \in HomeContent(id) PROVE P!Named(c) \in HomeContent(id)
  BY <1>2 DEF HomeContent, P!Named
<1>6. P!DefaultText # P!NoText BY DEF P!DefaultText, P!NoText
<1>7. HasName(P!DefaultContent) /\ \A folder \in P!Texts : HasName(P!NewContent(folder))
  BY <1>6 DEF P!DefaultContent, P!NewContent, P!Named, HasName
<1>8. \A c \in HomeContent(id) : c.name # P!NoText => HasName(c) BY DEF P!Named, HasName
<1>9. QED BY <1>3, <1>4, <1>5, <1>7, <1>8

Stores(s, id, c, n, t) ==
  /\ RegistryFits(t)
  /\ n = 0 => t = s
  /\ n # 0 => DOMAIN t = DOMAIN s \union {id}
  /\ \A i \in DOMAIN s \ {id} : t[i] = s[i]
  /\ n >= 4 => t[id] = c
  /\ n \in 1..3 => t[id].folder = IF id \in DOMAIN s THEN s[id].folder ELSE P!NoText

LEMMA StoringFits ==
  ASSUME NEW s, RegistryFits(s), NEW id \in Ids, NEW c \in HomeContent(id), NEW n \in 0..5,
         NEW t, t = P!Stored(s, id, c, n)
  PROVE  Stores(s, id, c, n, t)
<1>1. CASE n = 0 BY <1>1 DEF P!Stored, Stores
<1>2. CASE n # 0
  <2>1. PICK old : old = IF id \in DOMAIN s THEN s[id] ELSE P!Nothing OBVIOUS
  <2>2. PICK new : new = [name |-> IF n >= 2 THEN c.name ELSE old.name,
                          game |-> IF n >= 3 THEN c.game ELSE old.game,
                          folder |-> IF n >= 4 THEN c.folder ELSE old.folder]
    OBVIOUS
  <2>3. t = [i \in DOMAIN s \union {id} |-> IF i = id THEN new ELSE s[i]]
    BY <1>2, <2>1, <2>2 DEF P!Stored, P!AllValues
  <2>4. old \in HomeContent(id) BY <2>1, HomeIsTyped DEF RegistryFits
  <2>5. new \in HomeContent(id) BY <2>2, <2>4 DEF HomeContent
  <2>6. n >= 4 => new = c BY <2>2 DEF HomeContent
  <2>7. IsFiniteSet(DOMAIN s \union {id}) BY FS_AddElement DEF RegistryFits
  <2>8. DOMAIN t = DOMAIN s \union {id} BY <2>3
  <2>9. \A i \in DOMAIN t : t[i] = IF i = id THEN new ELSE s[i] BY <2>3
  <2>10. RegistryFits(t) BY <2>5, <2>7, <2>8, <2>9 DEF RegistryFits
  <2>11. n \in 1..3 => t[id].folder = IF id \in DOMAIN s THEN s[id].folder ELSE P!NoText
    <3>1. n \in 1..3 => new.folder = old.folder BY <2>2
    <3>2. id \notin DOMAIN s => old.folder = P!NoText BY <2>1 DEF P!Nothing
    <3>3. id \in DOMAIN s => old.folder = s[id].folder BY <2>1
    <3>4. t[id] = new BY <2>8, <2>9
    <3>5. QED BY <3>1, <3>2, <3>3, <3>4
  <2>12. QED BY <1>2, <2>6, <2>8, <2>9, <2>10, <2>11 DEF Stores
<1>3. QED BY <1>1, <1>2

Erases(s, id, t) ==
  RegistryFits(t) /\ DOMAIN t = DOMAIN s \ {id} /\ \A i \in DOMAIN t : t[i] = s[i]

LEMMA ErasingFits ==
  ASSUME NEW s, RegistryFits(s), NEW id, NEW t, t = P!Erased(s, id)
  PROVE  Erases(s, id, t)
<1>1. DOMAIN t = DOMAIN s \ {id} /\ \A i \in DOMAIN t : t[i] = s[i] BY DEF P!Erased
<1>2. IsFiniteSet(DOMAIN t) BY <1>1, FS_RemoveElement DEF RegistryFits
<1>3. QED BY <1>1, <1>2 DEF Erases, RegistryFits

(* A list has no more ids than the limit, so neither has a registry that   *)
(* follows it.                                                             *)
LEMMA ListedAreFew ==
  ASSUME NEW ps, ListFits(ps), NEW S, S \subseteq Listed(ps)
  PROVE  P!Cardinality(S) <= MaximumProfiles
<1>1. PICK n \in Nat : n = Len(ps) BY LenProperties DEF ListFits
<1>2. DOMAIN ps = 1..n /\ n <= MaximumProfiles BY <1>1, LenProperties DEF ListFits
<1>3. PICK L : L = Listed(ps) OBVIOUS
<1>4. PICK f : f = [i \in 1..n |-> ps[i].id] OBVIOUS
<1>5. f \in Surjection(1..n, L) BY <1>2, <1>3, <1>4 DEF Surjection, Listed
<1>6. IsFiniteSet(1..n) /\ Cardinality(1..n) = n BY FS_Interval
<1>7. IsFiniteSet(L) /\ Cardinality(L) <= n BY <1>5, <1>6, FS_Surjection
<1>8. IsFiniteSet(S) /\ Cardinality(S) <= Cardinality(L) BY <1>3, <1>7, FS_Subset
<1>9. Cardinality(S) \in Nat /\ Cardinality(L) \in Nat BY <1>7, <1>8, FS_CardinalityType
<1>10. Cardinality(S) <= MaximumProfiles BY <1>2, <1>7, <1>8, <1>9, ProfilesConstants
<1>11. QED BY <1>10, SameCount

(* What becomes of the list.                                               *)
LEMMA IndexFits ==
  ASSUME NEW ps, 1 \in DOMAIN ps, NEW id
  PROVE  /\ P!IndexOf(ps, id) \in DOMAIN ps
         /\ id \in Listed(ps) => ps[P!IndexOf(ps, id)].id = id
BY DEF P!IndexOf, Listed

LEMMA LoadedFits ==
  ASSUME RegistryFits(store), DOMAIN store # {}, P!Cardinality(DOMAIN store) <= MaximumProfiles,
         NEW ps, ps = P!Loaded
  PROVE  ListFits(ps) /\ 1 \in DOMAIN ps /\ Listed(ps) = DOMAIN store /\ Matches(store, ps, {})
<1>1. IsFiniteSet(DOMAIN store) BY DEF RegistryFits
<1>2. PICK n \in Nat : n = Cardinality(DOMAIN store) BY <1>1, FS_CardinalityType
<1>3. n # 0 /\ n <= MaximumProfiles BY <1>1, <1>2, FS_EmptySet, SameCount
<1>4. PICK k : k = P!Keys OBVIOUS
<1>5. /\ k \in [1..n -> DOMAIN store]
      /\ \A i, j \in 1..n : k[i] = k[j] => i = j
      /\ \A id \in DOMAIN store : \E i \in 1..n : k[i] = id
  BY <1>2, <1>4, KeysAreWalked
<1>6. ps = [i \in 1..n |-> [id |-> k[i], content |-> P!Named(store[k[i]])]]
  <2>1. DOMAIN k = 1..n BY <1>5
  <2>2. QED BY <1>4, <2>1, Zenon DEF P!Loaded
<1>7. ASSUME NEW i \in 1..n
      PROVE  /\ ps[i].id = k[i] /\ ps[i].content = P!Named(store[k[i]])
             /\ ps[i].content \in HomeContent(k[i]) /\ ps[i] \in Profile
  <2>1. k[i] \in DOMAIN store /\ k[i] \in Ids /\ store[k[i]] \in HomeContent(k[i])
    BY <1>5 DEF RegistryFits
  <2>2. P!Named(store[k[i]]) \in HomeContent(k[i]) /\ P!Named(store[k[i]]) \in P!Contents
    BY <2>1, HomeIsTyped
  <2>3. ps[i] = [id |-> k[i], content |-> P!Named(store[k[i]])] BY <1>6
  <2>4. QED BY <2>1, <2>2, <2>3 DEF Profile
<1>8. DOMAIN ps = 1..n BY <1>6
<1>9. ps \in Seq(Profile) /\ Len(ps) = n
  <2>1. ps \in [1..n -> Profile] BY <1>6, <1>7
  <2>2. QED BY <2>1
<1>10. ListFits(ps) BY <1>3, <1>5, <1>7, <1>8, <1>9 DEF ListFits
<1>11. Listed(ps) = DOMAIN store
  <2>1. \A i \in 1..n : ps[i].id = k[i] /\ k[i] \in DOMAIN store BY <1>5, <1>7
  <2>2. Listed(ps) \subseteq DOMAIN store BY <1>8, <2>1 DEF Listed
  <2>3. ASSUME NEW id \in DOMAIN store PROVE id \in Listed(ps)
    <3>1. PICK i \in 1..n : k[i] = id BY <1>5
    <3>2. QED BY <1>8, <2>1, <3>1 DEF Listed
  <2>4. QED BY <2>2, <2>3
<1>12. Matches(store, ps, {}) BY <1>7, <1>8, <1>11 DEF Matches
<1>13. QED BY <1>3, <1>8, <1>10, <1>11, <1>12

Appends(ps, id, c, t) ==
  /\ ListFits(t) /\ 1 \in DOMAIN t /\ Listed(t) = Listed(ps) \union {id}
  /\ \A i \in DOMAIN t : \/ t[i].id = id /\ t[i].content = c
                         \/ i \in DOMAIN ps /\ t[i] = ps[i]

LEMMA AppendingFits ==
  ASSUME NEW ps, ListFits(ps), Len(ps) < MaximumProfiles, NEW id \in Ids, id \notin Listed(ps),
         NEW c \in HomeContent(id), NEW r, r = [id |-> id, content |-> c], NEW t, t = Append(ps, r)
  PROVE  Appends(ps, id, c, t)
<1>1. r \in Profile /\ r.id = id /\ r.content = c /\ c \in HomeContent(id)
  BY HomeIsTyped DEF Profile
<1>2. PICK n \in Nat : n = Len(ps) BY LenProperties DEF ListFits
<1>3. DOMAIN ps = 1..n BY <1>2, LenProperties DEF ListFits
<1>4. t \in Seq(Profile) /\ Len(t) = n + 1 /\ t[n + 1] = r /\ \A i \in 1..n : t[i] = ps[i]
  BY <1>1, <1>2, AppendProperties DEF ListFits
<1>5. DOMAIN t = 1..n + 1 BY <1>4, LenProperties
<1>6. \A i \in 1..n + 1 : i = n + 1 \/ i \in 1..n OBVIOUS
<1>7. \A i \in 1..n : ps[i].id # id BY <1>3 DEF Listed
<1>8. \A i \in 1..n : ps[i].content \in HomeContent(ps[i].id)
  BY <1>3 DEF ListFits
<1>9. \A i, j \in 1..n : ps[i].id = ps[j].id => i = j BY <1>3 DEF ListFits
<1>10. \A i \in 1..n + 1 : t[i].content \in HomeContent(t[i].id)
  BY <1>1, <1>4, <1>6, <1>8
<1>11. \A i, j \in 1..n + 1 : t[i].id = t[j].id => i = j
  BY <1>1, <1>4, <1>6, <1>7, <1>9
<1>12. n + 1 <= MaximumProfiles BY <1>2, ProfilesConstants
<1>13. ListFits(t) BY <1>4, <1>5, <1>10, <1>11, <1>12 DEF ListFits
<1>14. n + 1 \in 1..n + 1 /\ 1 \in 1..n + 1 /\ \A i \in 1..n : i \in 1..n + 1 OBVIOUS
<1>15. Listed(t) = Listed(ps) \union {id}
  BY <1>1, <1>3, <1>4, <1>5, <1>6, <1>14 DEF Listed
<1>16. QED BY <1>1, <1>3, <1>4, <1>5, <1>6, <1>13, <1>14, <1>15 DEF Appends

LEMMA SingleFits ==
  ASSUME NEW id \in Ids, NEW t, t = <<[id |-> id, content |-> P!DefaultContent]>>
  PROVE  /\ ListFits(t) /\ 1 \in DOMAIN t /\ Listed(t) = {id}
         /\ \A i \in DOMAIN t : t[i].id = id /\ t[i].content = P!DefaultContent
<1>1. PICK r : r = [id |-> id, content |-> P!DefaultContent] OBVIOUS
<1>2. r \in Profile /\ r.id = id /\ r.content = P!DefaultContent
      /\ P!DefaultContent \in HomeContent(id)
  BY <1>1, HomeIsTyped DEF Profile
<1>3. t = <<r>> /\ t \in Seq(Profile) /\ Len(t) = 1 /\ t[1] = r BY <1>1, <1>2
<1>4. DOMAIN t = {1} BY <1>3
<1>5. ListFits(t) BY <1>2, <1>3, <1>4, ProfilesConstants DEF ListFits
<1>6. QED BY <1>2, <1>3, <1>4, <1>5 DEF Listed

LEMMA CurrentIsListed ==
  ASSUME WindowSound
  PROVE  /\ P!CurrentId \in Ids /\ P!CurrentId \in Listed(profiles)
         /\ \A i \in DOMAIN profiles : profiles[i].id = P!CurrentId <=> i = current
         /\ \A i \in DOMAIN profiles : profiles[i].id \in Ids /\ profiles[i].id \in Listed(profiles)
<1>1. profiles \in Seq(Profile) /\ current \in DOMAIN profiles
      /\ \A i, j \in DOMAIN profiles : profiles[i].id = profiles[j].id => i = j
  BY DEF WindowSound, ListFits
<1>2. \A i \in DOMAIN profiles : profiles[i] \in Profile
  BY <1>1, LenProperties, ElementOfSeq
<1>3. \A i \in DOMAIN profiles : profiles[i].id \in Ids BY <1>2 DEF Profile
<1>4. QED BY <1>1, <1>3 DEF P!CurrentId, Listed

(* profiles_ with what the form shows.                                     *)
LEMMA SavedFits ==
  ASSUME WindowSound, NEW ps, ps = P!SavedCurrent
  PROVE  /\ ListFits(ps) /\ DOMAIN ps = DOMAIN profiles /\ Len(ps) = Len(profiles)
         /\ Listed(ps) = Listed(profiles)
         /\ \A i \in DOMAIN ps : /\ ps[i].id = profiles[i].id
                                 /\ ps[i].content = IF i = current THEN form ELSE profiles[i].content
<1>1. profiles \in Seq(Profile) /\ current \in DOMAIN profiles /\ ListFits(profiles)
  BY DEF WindowSound, ListFits
<1>2. PICK n \in Nat : n = Len(profiles) BY <1>1, LenProperties
<1>3. DOMAIN profiles = 1..n /\ profiles \in [1..n -> Profile] BY <1>1, <1>2, LenProperties
<1>4. form \in HomeContent(P!CurrentId) /\ P!CurrentId = profiles[current].id
  BY DEF WindowSound, P!CurrentId
<1>5. form \in P!Contents BY <1>4, CurrentIsListed, HomeIsTyped
<1>6. PICK old \in Profile : old = profiles[current] BY <1>1, <1>3
<1>7. PICK new : new = [old EXCEPT !.content = form] OBVIOUS
<1>8. new \in Profile /\ new.id = old.id /\ new.content = form BY <1>5, <1>7 DEF Profile
<1>9. ps = [profiles EXCEPT ![current] = new]
  BY <1>6, <1>7 DEF P!SavedCurrent
<1>10. ps \in Seq(Profile) /\ Len(ps) = n
       /\ \A i \in 1..n : ps[i] = IF i = current THEN new ELSE profiles[i]
  BY <1>1, <1>2, <1>3, <1>8, <1>9, ExceptSeq
<1>11. DOMAIN ps = 1..n BY <1>10, LenProperties
<1>12. \A i \in 1..n : /\ ps[i].id = profiles[i].id
                       /\ ps[i].content = IF i = current THEN form ELSE profiles[i].content
  BY <1>6, <1>8, <1>10
<1>13. ListFits(ps)
  <2>1. \A i \in 1..n : ps[i].content \in HomeContent(ps[i].id)
    BY <1>1, <1>3, <1>4, <1>12 DEF ListFits
  <2>2. \A i, j \in 1..n : ps[i].id = ps[j].id => i = j BY <1>1, <1>3, <1>12 DEF ListFits
  <2>3. n <= MaximumProfiles BY <1>1, <1>2 DEF ListFits
  <2>4. QED BY <1>10, <1>11, <2>1, <2>2, <2>3 DEF ListFits
<1>14. Listed(ps) = Listed(profiles) BY <1>3, <1>11, <1>12 DEF Listed
<1>15. QED BY <1>2, <1>3, <1>10, <1>11, <1>12, <1>13, <1>14

(* A write of the shown profile that was not completed, and one that was.  *)
LEMMA StoppedMatches ==
  ASSUME RegistryFits(store), WindowSound, NEW n \in 0..5, NEW u,
         unsure \ {P!ActiveId} \subseteq u, n # 0 => P!CurrentId \in u,
         NEW t, t = P!Stored(store, P!CurrentId, form, n)
  PROVE  RegistryFits(t) /\ Matches(t, profiles, u)
<1>1. P!CurrentId \in Ids /\ form \in HomeContent(P!CurrentId)
  BY CurrentIsListed DEF WindowSound
<1>2. /\ RegistryFits(t) /\ (n = 0 => t = store)
      /\ n # 0 => DOMAIN t = DOMAIN store \union {P!CurrentId}
      /\ \A i \in DOMAIN store \ {P!CurrentId} : t[i] = store[i]
  <2>1. Stores(store, P!CurrentId, form, n, t) BY <1>1, StoringFits
  <2>2. QED BY <2>1 DEF Stores
<1>3. P!ActiveId \notin Ids BY ProfilesConstants DEF P!ActiveId
<1>4. \A i \in Ids \ u : i \notin unsure BY <1>3
<1>5. Matches(store, profiles, unsure) BY DEF WindowSound
<1>6. Listed(profiles) \subseteq DOMAIN t BY <1>2, <1>5 DEF Matches
<1>7. DOMAIN t \ u \subseteq Listed(profiles)
  <2>1. DOMAIN store \ unsure \subseteq Listed(profiles) BY <1>5 DEF Matches
  <2>2. DOMAIN store \subseteq Ids BY DEF RegistryFits
  <2>3. P!CurrentId \in Listed(profiles) BY CurrentIsListed
  <2>4. DOMAIN t \subseteq DOMAIN store \union {P!CurrentId} BY <1>2
  <2>5. QED BY <1>4, <2>1, <2>2, <2>3, <2>4
<1>8. ASSUME NEW i \in DOMAIN profiles, profiles[i].id \notin u
      PROVE  P!Named(t[profiles[i].id]) = profiles[i].content
  <2>1. profiles[i].id \in Ids /\ profiles[i].id \in DOMAIN store
    BY <1>5, CurrentIsListed DEF Matches
  <2>2. t[profiles[i].id] = store[profiles[i].id] BY <1>2, <1>8, <2>1
  <2>3. QED BY <1>4, <1>5, <1>8, <2>1, <2>2 DEF Matches
<1>9. QED BY <1>2, <1>6, <1>7, <1>8 DEF Matches

LEMMA SavedMatches ==
  ASSUME RegistryFits(store), WindowSound, form.name # P!NoText, NEW n \in 4..5, NEW u,
         unsure \ {P!CurrentId, P!ActiveId} \subseteq u,
         NEW t, t = P!Stored(store, P!CurrentId, form, n), NEW ps, ps = P!SavedCurrent
  PROVE  RegistryFits(t) /\ Matches(t, ps, u) /\ DOMAIN t = DOMAIN store
<1>1. P!CurrentId \in Ids /\ form \in HomeContent(P!CurrentId)
  BY CurrentIsListed DEF WindowSound
<1>2. /\ RegistryFits(t) /\ DOMAIN t = DOMAIN store \union {P!CurrentId}
      /\ \A i \in DOMAIN store \ {P!CurrentId} : t[i] = store[i]
      /\ t[P!CurrentId] = form
  <2>1. n \in 0..5 OBVIOUS
  <2>2. Stores(store, P!CurrentId, form, n, t) BY <1>1, <2>1, StoringFits
  <2>3. QED BY <2>2 DEF Stores
<1>3. P!ActiveId \notin Ids BY ProfilesConstants DEF P!ActiveId
<1>4. \A i \in Ids \ u : i # P!CurrentId => i \notin unsure BY <1>3
<1>5. Matches(store, profiles, unsure) BY DEF WindowSound
<1>6. /\ DOMAIN ps = DOMAIN profiles /\ Listed(ps) = Listed(profiles)
      /\ \A i \in DOMAIN ps : /\ ps[i].id = profiles[i].id
                              /\ ps[i].content = IF i = current THEN form ELSE profiles[i].content
  BY SavedFits
<1>7. DOMAIN t = DOMAIN store BY <1>2, <1>5, CurrentIsListed DEF Matches
<1>8. Listed(ps) \subseteq DOMAIN t BY <1>5, <1>6, <1>7 DEF Matches
<1>9. DOMAIN t \ u \subseteq Listed(ps)
  <2>1. DOMAIN store \ unsure \subseteq Listed(profiles) BY <1>5 DEF Matches
  <2>2. DOMAIN store \subseteq Ids BY DEF RegistryFits
  <2>3. P!CurrentId \in Listed(profiles) BY CurrentIsListed
  <2>4. QED BY <1>4, <1>6, <1>7, <2>1, <2>2, <2>3
<1>10. ASSUME NEW i \in DOMAIN ps, ps[i].id \notin u
       PROVE  P!Named(t[ps[i].id]) = ps[i].content
  <2>1. CASE i = current
    <3>1. ps[i].id = P!CurrentId /\ ps[i].content = form BY <1>6, <2>1 DEF P!CurrentId
    <3>2. QED BY <1>1, <1>2, <3>1, HomeIsTyped DEF HasName
  <2>2. CASE i # current
    <3>1. /\ ps[i].id \in Ids /\ ps[i].id \in DOMAIN store /\ ps[i].id # P!CurrentId
      BY <1>5, <1>6, <2>2, CurrentIsListed DEF Matches
    <3>2. t[ps[i].id] = store[ps[i].id] /\ ps[i].id \notin unsure BY <1>2, <1>4, <1>10, <3>1
    <3>3. QED BY <1>5, <1>6, <2>2, <3>2 DEF Matches
  <2>3. QED BY <2>1, <2>2
<1>11. QED BY <1>2, <1>7, <1>8, <1>9, <1>10 DEF Matches

(* A new profile, added to a list.                                         *)
LEMMA AddedMatches ==
  ASSUME NEW s, RegistryFits(s), NEW ps, NEW u, Matches(s, ps, u),
         NEW id \in Ids \ DOMAIN s, NEW c \in HomeContent(id), HasName(c),
         NEW n \in 0..5, NEW t, t = P!Stored(s, id, c, n)
  PROVE  /\ RegistryFits(t)
         /\ \A v : u \subseteq v /\ (n # 0 => id \in v) => Matches(t, ps, v)
         /\ \A qs : /\ n = 5 /\ Listed(qs) = Listed(ps) \union {id}
                    /\ \A i \in DOMAIN qs : \/ qs[i].id = id /\ qs[i].content = c
                                            \/ i \in DOMAIN ps /\ qs[i] = ps[i]
                    => \A v : u \ {id} \subseteq v => Matches(t, qs, v)
<1>1. c \in HomeContent(id) /\ P!Named(c) = c BY DEF HasName
<1>2. /\ RegistryFits(t) /\ (n = 0 => t = s) /\ (n # 0 => DOMAIN t = DOMAIN s \union {id})
      /\ \A i \in DOMAIN s : t[i] = s[i]
      /\ n = 5 => t[id] = c
  <2>1. Stores(s, id, c, n, t) BY <1>1, StoringFits
  <2>2. QED BY <2>1 DEF Stores
<1>3. /\ Listed(ps) \subseteq DOMAIN s /\ DOMAIN s \ u \subseteq Listed(ps)
      /\ \A i \in DOMAIN ps : /\ ps[i].id \in DOMAIN s
                              /\ ps[i].id \notin u => P!Named(s[ps[i].id]) = ps[i].content
  BY DEF Matches, Listed
<1>4. ASSUME NEW v, u \subseteq v, n # 0 => id \in v PROVE Matches(t, ps, v)
  BY <1>2, <1>3, <1>4 DEF Matches
<1>5. ASSUME NEW qs, n = 5, Listed(qs) = Listed(ps) \union {id},
             \A i \in DOMAIN qs : \/ qs[i].id = id /\ qs[i].content = c
                                  \/ i \in DOMAIN ps /\ qs[i] = ps[i],
             NEW v, u \ {id} \subseteq v
      PROVE  Matches(t, qs, v)
  <2>1. Listed(qs) \subseteq DOMAIN t /\ DOMAIN t \ v \subseteq Listed(qs)
    BY <1>2, <1>3, <1>5
  <2>2. ASSUME NEW i \in DOMAIN qs, qs[i].id \notin v
        PROVE  P!Named(t[qs[i].id]) = qs[i].content
    <3>1. CASE qs[i].id = id /\ qs[i].content = c BY <1>1, <1>2, <1>5, <3>1
    <3>2. CASE i \in DOMAIN ps /\ qs[i] = ps[i]
      <4>1. ps[i].id \in DOMAIN s /\ ps[i].id # id /\ ps[i].id \notin u
        BY <1>3, <1>5, <2>2, <3>2
      <4>2. QED BY <1>2, <1>3, <3>2, <4>1
    <3>3. QED BY <1>5, <3>1, <3>2
  <2>3. QED BY <2>1, <2>2 DEF Matches
<1>6. QED BY <1>2, <1>4, <1>5

(* The list without the shown profile.                                     *)
LEMMA WithoutFits ==
  ASSUME WindowSound, Len(profiles) > 1, NEW ps, ps = P!Without(current)
  PROVE  /\ ListFits(ps) /\ 1 \in DOMAIN ps /\ Listed(ps) = Listed(profiles) \ {P!CurrentId}
         /\ \A i \in DOMAIN ps : \E k \in DOMAIN profiles : k # current /\ ps[i] = profiles[k]
<1>1. profiles \in Seq(Profile) /\ current \in DOMAIN profiles /\ ListFits(profiles)
  BY DEF WindowSound, ListFits
<1>2. PICK n \in Nat : n = Len(profiles) BY <1>1, LenProperties
<1>3. DOMAIN profiles = 1..n /\ profiles \in [1..n -> Profile] /\ n > 1 /\ n <= MaximumProfiles
  BY <1>1, <1>2, LenProperties DEF ListFits
<1>4. PICK c \in 1..n : c = current BY <1>1, <1>3
<1>5. PICK from : from = [j \in 1..n - 1 |-> IF j < c THEN j ELSE j + 1] OBVIOUS
<1>6. \A j \in 1..n - 1 : from[j] \in 1..n /\ from[j] # c BY <1>5
<1>7. \A i, j \in 1..n - 1 : from[i] = from[j] => i = j BY <1>5
<1>8. \A k \in 1..n : k # c => \E j \in 1..n - 1 : from[j] = k
  <2> SUFFICES ASSUME NEW k \in 1..n, k # c PROVE \E j \in 1..n - 1 : from[j] = k
    OBVIOUS
  <2>1. CASE k < c
    <3>1. k \in 1..n - 1 /\ from[k] = k BY <1>5, <2>1
    <3>2. QED BY <3>1
  <2>2. CASE k > c
    <3>1. k - 1 \in 1..n - 1 /\ from[k - 1] = k BY <1>5, <2>2
    <3>2. QED BY <3>1
  <2>3. QED BY <2>1, <2>2
<1>9. ps = [j \in 1..n - 1 |-> profiles[from[j]]]
  BY <1>2, <1>4, <1>5 DEF P!Without
<1>10. DOMAIN ps = 1..n - 1 /\ ps \in [1..n - 1 -> Profile] BY <1>3, <1>6, <1>9
<1>11. ps \in Seq(Profile) /\ Len(ps) = n - 1
  <2>1. n - 1 \in Nat BY <1>3
  <2>2. QED BY <1>10, <2>1
<1>12. \A j \in 1..n - 1 : ps[j] = profiles[from[j]] BY <1>9
<1>13. ListFits(ps)
  <2>1. n - 1 <= MaximumProfiles BY <1>3, ProfilesConstants
  <2>2. \A i \in 1..n - 1 : ps[i].content \in HomeContent(ps[i].id)
    BY <1>1, <1>3, <1>6, <1>12 DEF ListFits
  <2>3. \A i, j \in 1..n : profiles[i].id = profiles[j].id => i = j
    BY <1>1, <1>3 DEF ListFits
  <2>4. ASSUME NEW i \in 1..n - 1, NEW j \in 1..n - 1, ps[i].id = ps[j].id PROVE i = j
    <3>1. profiles[from[i]].id = profiles[from[j]].id BY <1>12, <2>4
    <3>2. from[i] = from[j] BY <1>6, <2>3, <3>1
    <3>3. QED BY <1>7, <3>2
  <2>5. QED BY <1>10, <1>11, <2>1, <2>2, <2>4 DEF ListFits
<1>14. Listed(ps) = Listed(profiles) \ {P!CurrentId}
  <2>1. \A k \in 1..n : profiles[k].id = P!CurrentId <=> k = c
    BY <1>3, <1>4, CurrentIsListed
  <2>2. Listed(ps) \subseteq Listed(profiles) \ {P!CurrentId}
    BY <1>3, <1>6, <1>10, <1>12, <2>1 DEF Listed
  <2>3. ASSUME NEW id \in Listed(profiles) \ {P!CurrentId} PROVE id \in Listed(ps)
    <3>1. PICK k \in 1..n : profiles[k].id = id BY <1>3 DEF Listed
    <3>2. PICK j \in 1..n - 1 : from[j] = k BY <1>8, <2>1, <2>3, <3>1
    <3>3. QED BY <1>10, <1>12, <3>1, <3>2 DEF Listed
  <2>4. QED BY <2>2, <2>3
<1>15. 1 \in 1..n - 1 BY <1>3
<1>16. QED BY <1>3, <1>4, <1>6, <1>10, <1>12, <1>13, <1>14, <1>15

LEMMA MatchesMore ==
  ASSUME NEW s, NEW ps, NEW u, NEW v, Matches(s, ps, u), u \subseteq v
  PROVE  Matches(s, ps, v)
BY DEF Matches

(* What is left to show of a handler that leaves the window open, or shut. *)
LEMMA OpenEnds ==
  ASSUME open' = TRUE, RegistryFits(store'), active' \in Ids \union {P!NoId},
         unsure' \subseteq Ids \union {P!ActiveId}, WindowSound'
  PROVE  ProfilesInv'
<1>1. PICK S : S = DOMAIN store' \ unsure' OBVIOUS
<1>2. PICK ps : ps = profiles' OBVIOUS
<1>3. ListFits(ps) /\ S \subseteq Listed(ps) BY <1>1, <1>2 DEF WindowSound, Matches
<1>4. P!LoadsAgain' BY <1>1, <1>3, ListedAreFew DEF P!LoadsAgain
<1>5. QED BY <1>4 DEF ProfilesInv

LEMMA ShutEnds ==
  ASSUME P!Shut, RegistryFits(store'), active' \in Ids \union {P!NoId},
         unsure' \subseteq Ids \union {P!ActiveId},
         NEW ps, ListFits(ps), DOMAIN store' \ unsure' \subseteq Listed(ps)
  PROVE  ProfilesInv'
<1>1. PICK S : S = DOMAIN store' \ unsure' OBVIOUS
<1>2. P!LoadsAgain' BY <1>1, ListedAreFew DEF P!LoadsAgain
<1>3. open' = FALSE /\ WindowShut' BY DEF P!Shut, WindowShut
<1>4. QED BY <1>2, <1>3 DEF ProfilesInv

LEMMA ShowingEnds ==
  ASSUME NEW ps, ListFits(ps), 1 \in DOMAIN ps, NEW id, P!Show(ps, id), open' = TRUE,
         RegistryFits(store'), Matches(store', ps, unsure'), active' \in Ids \union {P!NoId},
         unsure' \subseteq Ids \union {P!ActiveId},
         P!ActiveId \notin unsure' => id \in Listed(ps) /\ active' = id
  PROVE  ProfilesInv'
<1>1. PICK i : i = P!IndexOf(ps, id) OBVIOUS
<1>2. i \in DOMAIN ps /\ (id \in Listed(ps) => ps[i].id = id) BY <1>1, IndexFits
<1>3. profiles' = ps /\ current' = i /\ combo' = [items |-> P!Names(ps), at |-> i]
      /\ form' = ps[i].content
  BY <1>1 DEF P!Show
<1>4. form' \in HomeContent(ps[i].id) BY <1>2, <1>3 DEF ListFits
<1>5. P!CurrentId' = ps[i].id BY <1>3 DEF P!CurrentId
<1>6. combo' = [items |-> P!Names(profiles)', at |-> current'] BY <1>3 DEF P!Names
<1>7. WindowSound'
  BY <1>2, <1>3, <1>4, <1>5, <1>6 DEF WindowSound
<1>8. QED BY <1>7, OpenEnds

(* A default profile is made where no other one is left.                   *)
LEMMA DefaultIsMade ==
  ASSUME NEW s, RegistryFits(s), NEW u, u \subseteq Ids \union {P!ActiveId}, DOMAIN s \subseteq u,
         NEW id \in Ids \ DOMAIN s, NEW n \in 0..5, active \in Ids \union {P!NoId},
         store' = P!Stored(s, id, P!DefaultContent, n), active' = P!Activated(id, n),
         unsure' = P!Unsure(u, id, n, P!WithActive),
         IF n = 5 THEN P!Show(<<[id |-> id, content |-> P!DefaultContent]>>, id) /\ open' = TRUE
         ELSE P!Shut
  PROVE  ProfilesInv'
<1>1. PICK none : none = <<>> OBVIOUS
<1>2. P!DefaultContent \in HomeContent(id) /\ HasName(P!DefaultContent) BY HomeIsTyped
<1>3. DOMAIN none = {} /\ Listed(none) = {} BY <1>1 DEF Listed
<1>4. Matches(s, none, u) BY <1>3 DEF Matches
<1>5. PICK ps : ps = <<[id |-> id, content |-> P!DefaultContent]>> OBVIOUS
<1>6. /\ ListFits(ps) /\ 1 \in DOMAIN ps /\ Listed(ps) = {id}
      /\ \A i \in DOMAIN ps : ps[i].id = id /\ ps[i].content = P!DefaultContent
  BY <1>5, SingleFits
<1>7. PICK t : t = store' OBVIOUS
<1>8. PICK v : v = unsure' OBVIOUS
<1>9. v = IF n = 5 THEN u \ {id, P!ActiveId} ELSE IF n = 0 THEN u ELSE u \union {id}
  BY <1>8 DEF P!Unsure, P!WithActive
<1>10. v \subseteq Ids \union {P!ActiveId} BY <1>9
<1>11. active' \in Ids \union {P!NoId} /\ (n = 5 => active' = id)
  BY DEF P!Activated, P!WithActive
<1>12. RegistryFits(t) BY <1>4, <1>7, <1>2, AddedMatches
<1>13. CASE n = 5
  <2>1. Matches(t, ps, u \ {id}) BY <1>3, <1>4, <1>6, <1>7, <1>13, <1>2, AddedMatches
  <2>2. P!ActiveId \notin Ids BY ProfilesConstants DEF P!ActiveId
  <2>3. Matches(t, ps, v)
    <3>1. \A i \in DOMAIN ps : ps[i].id \in Ids BY <1>6
    <3>2. DOMAIN t \subseteq Ids BY <1>12 DEF RegistryFits
    <3>3. \A i \in Ids : i \in v <=> i \in u \ {id} BY <1>9, <1>13, <2>2
    <3>4. QED BY <2>1, <3>1, <3>2, <3>3 DEF Matches
  <2>4. P!Show(ps, id) /\ open' = TRUE BY <1>5, <1>13
  <2>5. QED BY <1>6, <1>7, <1>8, <1>10, <1>11, <1>12, <1>13, <2>3, <2>4, ShowingEnds
<1>14. CASE n # 5
  <2>1. Matches(t, none, v) BY <1>4, <1>7, <1>9, <1>14, <1>2, AddedMatches
  <2>2. DOMAIN t \ v \subseteq Listed(ps) BY <1>3, <2>1 DEF Matches
  <2>3. P!Shut BY <1>14
  <2>4. QED BY <1>6, <1>7, <1>8, <1>10, <1>11, <1>12, <2>2, <2>3, ShutEnds
<1>15. QED BY <1>13, <1>14

LEMMA OpenWindowKeeps ==
  ASSUME ProfilesInv, P!OpenWindow
  PROVE  ProfilesInv'
<1>1. RegistryFits(store) /\ active \in Ids \union {P!NoId} BY DEF ProfilesInv
<1>2. CASE DOMAIN store # {}
  <2>1. /\ P!Cardinality(DOMAIN store) <= MaximumProfiles /\ P!Show(P!Loaded, active)
        /\ open' = TRUE /\ UNCHANGED <<store, active>>
        /\ unsure' = IF active \in DOMAIN store THEN {} ELSE {P!ActiveId}
    BY <1>2 DEF P!OpenWindow
  <2>2. PICK ps : ps = P!Loaded OBVIOUS
  <2>3. ListFits(ps) /\ 1 \in DOMAIN ps /\ Listed(ps) = DOMAIN store /\ Matches(store, ps, {})
    BY <1>1, <1>2, <2>1, <2>2, LoadedFits
  <2>4. PICK u : u = unsure' OBVIOUS
  <2>5. Matches(store, ps, u) BY <2>3, MatchesMore
  <2>6. P!Show(ps, active) BY <2>1, <2>2
  <2>7. u \subseteq Ids \union {P!ActiveId} /\ (P!ActiveId \notin u => active \in Listed(ps))
    BY <2>1, <2>3, <2>4
  <2>8. QED BY <1>1, <2>1, <2>3, <2>4, <2>5, <2>6, <2>7, ShowingEnds
<1>3. CASE DOMAIN store = {}
  <2>1. PICK id \in Ids \ {active}, n \in 0..P!WithActive :
          /\ store' = P!Stored(store, id, P!DefaultContent, n) /\ active' = P!Activated(id, n)
          /\ unsure' = P!Unsure({}, id, n, P!WithActive)
          /\ IF n = P!WithActive
             THEN P!Show(<<[id |-> id, content |-> P!DefaultContent]>>, id) /\ open' = TRUE
             ELSE P!Shut
    BY <1>3, Zenon DEF P!OpenWindow
  <2>2. n \in 0..5 /\ P!WithActive = 5 BY <2>1 DEF P!WithActive
  <2>3. id \in Ids \ DOMAIN store BY <1>3
  <2>4. {} \subseteq Ids \union {P!ActiveId} /\ DOMAIN store \subseteq {} BY <1>3
  <2>5. IF n = 5 THEN P!Show(<<[id |-> id, content |-> P!DefaultContent]>>, id) /\ open' = TRUE
        ELSE P!Shut
    BY <2>1, <2>2, Zenon
  <2>6. QED BY <1>1, <2>1, <2>2, <2>3, <2>4, <2>5, DefaultIsMade
<1>4. QED BY <1>2, <1>3

(* What an open window stands for.                                         *)
LEMMA OpenIsSound ==
  ASSUME ProfilesInv, open
  PROVE  /\ RegistryFits(store) /\ active \in Ids \union {P!NoId} /\ open = TRUE
         /\ unsure \subseteq Ids \union {P!ActiveId} /\ WindowSound
         /\ ListFits(profiles) /\ Matches(store, profiles, unsure) /\ current \in DOMAIN profiles
         /\ form \in HomeContent(P!CurrentId) /\ P!CurrentId \in Ids
         /\ combo = [items |-> P!Names(profiles), at |-> current]
         /\ P!ActiveId \notin unsure => active = P!CurrentId
<1>1. open = TRUE /\ WindowSound BY DEF ProfilesInv
<1>2. QED BY <1>1, CurrentIsListed DEF ProfilesInv, WindowSound

LEMMA CloseWindowKeeps ==
  ASSUME ProfilesInv, P!CloseWindow
  PROVE  ProfilesInv'
<1>1. open /\ P!Shut /\ UNCHANGED <<store, active, unsure>> BY DEF P!CloseWindow
<1>2. RegistryFits(store) /\ active \in Ids \union {P!NoId}
      /\ unsure \subseteq Ids \union {P!ActiveId}
      /\ ListFits(profiles) /\ Matches(store, profiles, unsure)
  BY <1>1, OpenIsSound
<1>3. PICK ps : ps = profiles OBVIOUS
<1>4. ListFits(ps) /\ DOMAIN store \ unsure \subseteq Listed(ps) BY <1>2, <1>3 DEF Matches
<1>5. QED BY <1>1, <1>2, <1>4, ShutEnds

LEMMA TypeKeeps ==
  ASSUME ProfilesInv, P!Type
  PROVE  ProfilesInv'
<1>1. open /\ UNCHANGED <<store, active, open, profiles, current, combo, unsure>>
  BY DEF P!Type
<1>2. /\ RegistryFits(store) /\ active \in Ids \union {P!NoId} /\ open = TRUE
      /\ unsure \subseteq Ids \union {P!ActiveId} /\ WindowSound
      /\ form \in HomeContent(P!CurrentId)
  BY <1>1, OpenIsSound
<1>3. PICK id : id = P!CurrentId OBVIOUS
<1>4. form' \in HomeContent(id)
  <2>1. form \in HomeContent(id) /\ id \in Ids BY <1>1, <1>2, <1>3, OpenIsSound
  <2>2. ASSUME NEW t \in P!Typed(id),
               form' \in {[form EXCEPT !.name = t, !.game = t], [form EXCEPT !.folder = t]}
        PROVE  form' \in HomeContent(id)
    <3>1. t \in P!OwnTexts(id) /\ t \in P!Texts BY <2>1 DEF P!OwnTexts, P!Texts
    <3>2. QED BY <2>1, <2>2, <3>1 DEF HomeContent
  <2>3. ASSUME form' = [form EXCEPT !.name = P!NoText] PROVE form' \in HomeContent(id)
    <3>1. P!NoText \in P!OwnTexts(id) BY DEF P!OwnTexts
    <3>2. QED BY <2>1, <2>3, <3>1 DEF HomeContent
  <2>4. QED BY <1>3, <2>2, <2>3 DEF P!Type
<1>5. P!CurrentId' = id BY <1>1, <1>3 DEF P!CurrentId
<1>6. P!Names(profiles)' = P!Names(profiles) BY <1>1 DEF P!Names
<1>7. /\ ListFits(profiles) /\ Matches(store, profiles, unsure) /\ current \in DOMAIN profiles
      /\ combo = [items |-> P!Names(profiles), at |-> current]
      /\ P!ActiveId \notin unsure => active = id
  BY <1>2, <1>3 DEF WindowSound
<1>8. form' \in HomeContent(P!CurrentId') BY <1>4, <1>5
<1>9. ListFits(profiles') /\ Matches(store', profiles', unsure') BY <1>1, <1>7
<1>10. combo' = [items |-> P!Names(profiles)', at |-> current'] BY <1>1, <1>6, <1>7
<1>11. current' \in DOMAIN profiles' /\ (P!ActiveId \notin unsure' => active' = P!CurrentId')
  BY <1>1, <1>5, <1>7
<1>12. WindowSound' BY <1>8, <1>9, <1>10, <1>11 DEF WindowSound
<1>13. QED BY <1>1, <1>2, <1>12, OpenEnds

(* A write that stops: a message box, or the end of the manager.           *)
LEMMA StoppingKeeps ==
  ASSUME ProfilesInv, open, NEW n \in 0..5, store' = P!Stored(store, P!CurrentId, form, n),
         UNCHANGED active, unsure' = IF n = 0 THEN unsure ELSE unsure \union {P!CurrentId},
         P!Fails
  PROVE  ProfilesInv'
<1>1. /\ RegistryFits(store) /\ active \in Ids \union {P!NoId} /\ open = TRUE
      /\ unsure \subseteq Ids \union {P!ActiveId} /\ WindowSound
      /\ ListFits(profiles) /\ P!CurrentId \in Ids
  BY OpenIsSound
<1>2. PICK u : u = unsure' OBVIOUS
<1>3. PICK t : t = store' OBVIOUS
<1>4. RegistryFits(t) /\ Matches(t, profiles, u) BY <1>1, <1>2, <1>3, StoppedMatches
<1>5. unsure' \subseteq Ids \union {P!ActiveId} /\ unsure \subseteq unsure' BY <1>1
<1>6. CASE P!Stays
  <2>1. UNCHANGED <<open, profiles, current, combo, form>> BY <1>6 DEF P!Stays, P!windowVars
  <2>2. P!CurrentId' = P!CurrentId BY <2>1 DEF P!CurrentId
  <2>3. P!Names(profiles)' = P!Names(profiles) BY <2>1 DEF P!Names
  <2>4. WindowSound' BY <1>1, <1>2, <1>3, <1>4, <1>5, <2>1, <2>2, <2>3 DEF WindowSound
  <2>5. QED BY <1>1, <1>3, <1>4, <1>5, <2>1, <2>4, OpenEnds
<1>7. CASE P!Shut
  <2>1. PICK ps : ps = profiles OBVIOUS
  <2>2. ListFits(ps) /\ DOMAIN store' \ unsure' \subseteq Listed(ps)
    BY <1>1, <1>2, <1>3, <1>4, <2>1 DEF Matches
  <2>3. QED BY <1>1, <1>3, <1>4, <1>5, <1>7, <2>2, ShutEnds
<1>8. QED BY <1>6, <1>7 DEF P!Fails

(* The shown profile has been saved and is shown still.                    *)
LEMMA RelabellingIsSound ==
  ASSUME WindowSound, NEW ps, ps = P!SavedCurrent
  PROVE  P!Relabelled(ps) = [items |-> P!Names(ps), at |-> current]
<1>1. PICK c : c = current OBVIOUS
<1>2. PICK old : old = P!Names(profiles) OBVIOUS
<1>3. combo = [items |-> old, at |-> c] BY <1>1, <1>2 DEF WindowSound
<1>4. /\ DOMAIN ps = DOMAIN profiles /\ c \in DOMAIN profiles
      /\ \A i \in DOMAIN ps : i # c => ps[i].content = profiles[i].content
  BY <1>1, SavedFits DEF WindowSound
<1>5. PICK text : text = ps[c].content.name OBVIOUS
<1>6. [old EXCEPT ![c] = text] = P!Names(ps) BY <1>2, <1>4, <1>5 DEF P!Names
<1>7. PICK new : new = [old EXCEPT ![c] = text] OBVIOUS
<1>8. P!Relabelled(ps) = [combo EXCEPT !.items[c] = text, !.at = c]
  BY <1>1, <1>5 DEF P!Relabelled
<1>9. [combo EXCEPT !.items[c] = text] = [items |-> new, at |-> c]
  BY <1>3, <1>7
<1>10. P!Relabelled(ps) = [items |-> new, at |-> c]
  BY <1>3, <1>7, <1>8, <1>9
<1>11. QED BY <1>1, <1>6, <1>7, <1>10

LEMMA SavingEnds ==
  ASSUME WindowSound, open = TRUE, form.name # P!NoText, profiles' = P!SavedCurrent,
         combo' = P!Relabelled(P!SavedCurrent), UNCHANGED <<open, current, form>>,
         RegistryFits(store'), NEW ps, ps = P!SavedCurrent, Matches(store', ps, unsure'),
         unsure' \subseteq Ids \union {P!ActiveId}, active' = P!CurrentId
  PROVE  ProfilesInv'
<1>1. /\ ListFits(ps) /\ DOMAIN ps = DOMAIN profiles
      /\ \A i \in DOMAIN ps : ps[i].id = profiles[i].id
  BY SavedFits
<1>2. current \in DOMAIN profiles /\ form \in HomeContent(P!CurrentId) /\ P!CurrentId \in Ids
  BY CurrentIsListed DEF WindowSound
<1>3. profiles' = ps /\ combo' = [items |-> P!Names(ps), at |-> current]
  BY RelabellingIsSound
<1>4. P!CurrentId' = P!CurrentId BY <1>1, <1>2, <1>3 DEF P!CurrentId
<1>5. P!Names(profiles)' = P!Names(ps) BY <1>3 DEF P!Names
<1>6. WindowSound' BY <1>1, <1>2, <1>3, <1>4, <1>5 DEF WindowSound
<1>7. QED BY <1>2, <1>6, OpenEnds

LEMMA SaveCurrentKeeps ==
  ASSUME ProfilesInv, P!SaveCurrent
  PROVE  ProfilesInv'
<1>1. open BY DEF P!SaveCurrent
<1>2. /\ RegistryFits(store) /\ open = TRUE /\ unsure \subseteq Ids \union {P!ActiveId}
      /\ WindowSound
  BY <1>1, OpenIsSound
<1>3. ASSUME NEW n \in 0..P!AllValues, P!SaveStops(n) PROVE ProfilesInv'
  <2>1. n \in 0..5 /\ n # P!WithActive BY <1>3 DEF P!AllValues, P!WithActive
  <2>2. QED BY <1>1, <1>3, <2>1, StoppingKeeps DEF P!SaveStops, P!Unsure
<1>4. CASE /\ form.name # P!NoText
           /\ store' = P!Stored(store, P!CurrentId, form, P!WithActive) /\ active' = P!CurrentId
           /\ unsure' = P!Unsure(unsure, P!CurrentId, P!WithActive, P!WithActive)
           /\ profiles' = P!SavedCurrent /\ combo' = P!Relabelled(P!SavedCurrent)
           /\ UNCHANGED <<open, current, form>>
  <2>1. PICK u : u = unsure' OBVIOUS
  <2>2. PICK t : t = store' OBVIOUS
  <2>3. PICK ps : ps = P!SavedCurrent OBVIOUS
  <2>4. u = unsure \ {P!CurrentId, P!ActiveId} BY <1>4, <2>1 DEF P!Unsure
  <2>5. t = P!Stored(store, P!CurrentId, form, 5) /\ 5 \in 4..5 BY <1>4, <2>2 DEF P!WithActive
  <2>6. RegistryFits(t) /\ Matches(t, ps, u) BY <1>2, <1>4, <2>3, <2>4, <2>5, SavedMatches
  <2>7. unsure' \subseteq Ids \union {P!ActiveId} BY <1>2, <2>1, <2>4
  <2>8. QED BY <1>2, <1>4, <2>1, <2>2, <2>3, <2>6, <2>7, SavingEnds
<1>5. CASE UNCHANGED P!vars
  <2>1. UNCHANGED <<store, active, open, profiles, current, combo, form, unsure>>
    BY <1>5 DEF P!vars, P!windowVars
  <2>2. QED BY <2>1 DEF ProfilesInv, WindowSound, WindowShut, P!LoadsAgain, P!CurrentId, P!Names
<1>6. QED BY <1>3, <1>4, <1>5 DEF P!SaveCurrent

(* Another profile is shown after the first one has been saved.            *)
LEMMA EnteringEnds ==
  ASSUME WindowSound, open' = TRUE, NEW i \in DOMAIN profiles, P!EnterProfile(i),
         RegistryFits(store'), NEW ps, ps = P!SavedCurrent, Matches(store', ps, unsure'),
         unsure' \subseteq Ids \union {P!ActiveId}, active' \in Ids \union {P!NoId},
         P!ActiveId \notin unsure' => active' = profiles[i].id
  PROVE  ProfilesInv'
<1>1. /\ ListFits(ps) /\ DOMAIN ps = DOMAIN profiles
      /\ \A j \in DOMAIN ps : ps[j].id = profiles[j].id
  BY SavedFits
<1>2. profiles' = ps /\ current' = i /\ combo' = [items |-> P!Names(ps), at |-> i]
      /\ form' = ps[i].content
  BY DEF P!EnterProfile
<1>3. form' \in HomeContent(ps[i].id) BY <1>1, <1>2 DEF ListFits
<1>4. P!CurrentId' = ps[i].id /\ ps[i].id = profiles[i].id BY <1>1, <1>2 DEF P!CurrentId
<1>5. combo' = [items |-> P!Names(profiles)', at |-> current'] BY <1>2 DEF P!Names
<1>6. current' \in DOMAIN profiles' /\ form' \in HomeContent(P!CurrentId') BY <1>1, <1>2, <1>3, <1>4
<1>7. ListFits(profiles') /\ Matches(store', profiles', unsure') BY <1>1, <1>2
<1>8. P!ActiveId \notin unsure' => active' = P!CurrentId' BY <1>4
<1>9. WindowSound' BY <1>5, <1>6, <1>7, <1>8 DEF WindowSound
<1>10. QED BY <1>9, OpenEnds

LEMMA SelectKeeps ==
  ASSUME ProfilesInv, NEW i \in DOMAIN profiles, P!Select(i)
  PROVE  ProfilesInv'
<1>1. open /\ form.name # P!NoText BY DEF P!Select
<1>2. /\ RegistryFits(store) /\ active \in Ids \union {P!NoId} /\ open = TRUE
      /\ unsure \subseteq Ids \union {P!ActiveId} /\ WindowSound
  BY <1>1, OpenIsSound
<1>3. ASSUME NEW n \in 0..(P!AllValues - 1), P!LeaveProfile(n), P!Fails PROVE ProfilesInv'
  <2>1. n \in 0..5 /\ n # P!AllValues BY <1>3 DEF P!AllValues
  <2>2. QED BY <1>1, <1>3, <2>1, StoppingKeeps DEF P!LeaveProfile, P!Unsure
<1>4. ASSUME NEW u, u = unsure', unsure \ {P!CurrentId, P!ActiveId} \subseteq u,
             u \subseteq unsure \union {P!ActiveId},
             store' = P!Stored(store, P!CurrentId, form, P!AllValues),
             active' \in Ids \union {P!NoId},
             P!ActiveId \notin u => active' = profiles[i].id,
             (P!EnterProfile(i) /\ UNCHANGED open) \/ P!Shut
      PROVE  ProfilesInv'
  <2>1. PICK t : t = store' OBVIOUS
  <2>2. PICK ps : ps = P!SavedCurrent OBVIOUS
  <2>3. t = P!Stored(store, P!CurrentId, form, 4) /\ 4 \in 4..5 BY <1>4, <2>1 DEF P!AllValues
  <2>4. RegistryFits(t) /\ Matches(t, ps, u) BY <1>1, <1>2, <1>4, <2>2, <2>3, SavedMatches
  <2>5. u \subseteq Ids \union {P!ActiveId} BY <1>2, <1>4
  <2>6. CASE P!EnterProfile(i) /\ UNCHANGED open
    BY <1>2, <1>4, <2>1, <2>2, <2>4, <2>5, <2>6, EnteringEnds
  <2>7. CASE P!Shut
    <3>1. ListFits(ps) /\ DOMAIN t \ u \subseteq Listed(ps)
      BY <1>2, <2>2, <2>4, SavedFits DEF Matches
    <3>2. QED BY <1>4, <2>1, <2>4, <2>5, <2>7, <3>1, ShutEnds
  <2>8. QED BY <1>4, <2>6, <2>7
<1>5. CASE /\ store' = P!Stored(store, P!CurrentId, form, P!AllValues)
           /\ active' = profiles[i].id /\ P!EnterProfile(i) /\ UNCHANGED open
           /\ unsure' = P!Unsure(unsure, P!CurrentId, P!AllValues, P!AllValues) \ {P!ActiveId}
  <2>1. PICK u : u = unsure' OBVIOUS
  <2>2. u = unsure \ {P!CurrentId, P!ActiveId} BY <1>5, <2>1 DEF P!Unsure, P!AllValues, P!WithActive
  <2>3. profiles[i].id \in Ids BY <1>2, CurrentIsListed
  <2>4. QED BY <1>4, <1>5, <2>1, <2>2, <2>3
<1>6. CASE /\ store' = P!Stored(store, P!CurrentId, form, P!AllValues) /\ UNCHANGED active
           /\ (P!EnterProfile(i) /\ UNCHANGED open) \/ P!Shut
           /\ unsure' = P!Unsure(unsure, P!CurrentId, P!AllValues, P!AllValues) \union {P!ActiveId}
  <2>1. PICK u : u = unsure' OBVIOUS
  <2>2. u = (unsure \ {P!CurrentId}) \union {P!ActiveId}
    BY <1>6, <2>1 DEF P!Unsure, P!AllValues, P!WithActive
  <2>3. QED BY <1>2, <1>4, <1>6, <2>1, <2>2
<1>7. QED BY <1>3, <1>5, <1>6, Zenon DEF P!Select

LEMMA AddProfileKeeps ==
  ASSUME ProfilesInv, open, form.name # P!NoText, P!HasRoom,
         NEW id \in Ids \ (DOMAIN store \union {active}), NEW n \in 0..5, P!AddProfile(id, n)
  PROVE  ProfilesInv'
<1>1. /\ RegistryFits(store) /\ active \in Ids \union {P!NoId} /\ open = TRUE
      /\ unsure \subseteq Ids \union {P!ActiveId} /\ WindowSound
      /\ Matches(store, profiles, unsure) /\ P!CurrentId \in Ids
  BY OpenIsSound
<1>2. PICK saved : saved = P!Stored(store, P!CurrentId, form, P!WithActive) OBVIOUS
<1>3. PICK ps : ps = P!SavedCurrent OBVIOUS
<1>4. PICK w : w = unsure \ {P!CurrentId, P!ActiveId} OBVIOUS
<1>5. PICK t : t = store' OBVIOUS
<1>6. PICK u : u = unsure' OBVIOUS
<1>7. PICK c : c = P!NewContent(form.folder) OBVIOUS
<1>8. /\ t = P!Stored(saved, id, c, n)
      /\ active' = IF n = 5 THEN id ELSE P!CurrentId
      /\ u = IF n = 5 THEN w \ {id, P!ActiveId} ELSE IF n = 0 THEN w ELSE w \union {id}
      /\ IF n = 5
         THEN P!Show(Append(ps, [id |-> id, content |-> c]), id) /\ UNCHANGED open
         ELSE \/ /\ profiles' = ps /\ combo' = P!Relabelled(ps)
                 /\ UNCHANGED <<open, current, form>>
              \/ P!Shut
  BY <1>2, <1>3, <1>4, <1>5, <1>6, <1>7 DEF P!AddProfile, P!Unsure, P!WithActive
<1>9. RegistryFits(saved) /\ Matches(saved, ps, w) /\ DOMAIN saved = DOMAIN store
  <2>1. saved = P!Stored(store, P!CurrentId, form, 5) /\ 5 \in 4..5 BY <1>2 DEF P!WithActive
  <2>2. QED BY <1>1, <1>3, <1>4, <2>1, SavedMatches
<1>10. ListFits(ps) /\ Len(ps) = Len(profiles) /\ Listed(ps) = Listed(profiles)
  BY <1>1, <1>3, SavedFits
<1>11. id \in Ids \ DOMAIN saved /\ id \notin Listed(ps)
  BY <1>1, <1>9, <1>10 DEF Matches
<1>12. c \in HomeContent(id) /\ HasName(c)
  <2>1. form \in HomeContent(P!CurrentId) BY <1>1 DEF WindowSound
  <2>2. form.folder \in P!Texts BY <2>1 DEF HomeContent
  <2>3. QED BY <1>7, <2>2, HomeIsTyped
<1>13. RegistryFits(t) BY <1>8, <1>9, <1>11, <1>12, AddedMatches
<1>14. u \subseteq Ids \union {P!ActiveId} /\ active' \in Ids \union {P!NoId}
  BY <1>1, <1>4, <1>8
<1>15. CASE n = 5
  <2>1. PICK r : r = [id |-> id, content |-> c] OBVIOUS
  <2>2. PICK qs : qs = Append(ps, r) OBVIOUS
  <2>3. Len(ps) < MaximumProfiles BY <1>10 DEF P!HasRoom
  <2>4. /\ ListFits(qs) /\ 1 \in DOMAIN qs /\ Listed(qs) = Listed(ps) \union {id}
        /\ \A i \in DOMAIN qs : \/ qs[i].id = id /\ qs[i].content = c
                                \/ i \in DOMAIN ps /\ qs[i] = ps[i]
    <3>1. ListFits(ps) /\ id \in Ids /\ id \notin Listed(ps) BY <1>10, <1>11
    <3>2. Appends(ps, id, c, qs) BY <1>12, <2>1, <2>2, <2>3, <3>1, AppendingFits
    <3>3. QED BY <3>2 DEF Appends
  <2>5. w \ {id} \subseteq u BY <1>4, <1>8, <1>15
  <2>6. Matches(t, qs, u) BY <1>8, <1>9, <1>11, <1>15, <1>12, <2>4, <2>5, AddedMatches
  <2>7. P!Show(qs, id) /\ open' = TRUE /\ active' = id BY <1>1, <1>8, <1>15, <2>1, <2>2
  <2>8. QED BY <1>5, <1>6, <1>13, <1>14, <2>4, <2>6, <2>7, ShowingEnds
<1>16. CASE n # 5
  <2>1. Matches(t, ps, u)
    <3>1. w \subseteq u /\ (n # 0 => id \in u) BY <1>8, <1>16
    <3>2. QED BY <1>8, <1>9, <1>11, <1>12, <3>1, AddedMatches
  <2>2. CASE profiles' = ps /\ combo' = P!Relabelled(ps) /\ UNCHANGED <<open, current, form>>
    <3>1. active' = P!CurrentId BY <1>8, <1>16
    <3>2. profiles' = P!SavedCurrent /\ combo' = P!Relabelled(P!SavedCurrent) BY <1>3, <2>2
    <3>3. QED BY <1>1, <1>3, <1>5, <1>6, <1>13, <1>14, <2>1, <2>2, <3>1, <3>2, SavingEnds
  <2>3. CASE P!Shut
    <3>1. DOMAIN t \ u \subseteq Listed(ps) BY <2>1 DEF Matches
    <3>2. QED BY <1>5, <1>6, <1>10, <1>13, <1>14, <2>3, <3>1, ShutEnds
  <2>4. QED BY <1>8, <1>16, <2>2, <2>3
<1>17. QED BY <1>15, <1>16

LEMMA NewProfileKeeps ==
  ASSUME ProfilesInv, P!NewProfile
  PROVE  ProfilesInv'
<1>1. open /\ P!HasRoom /\ form.name # P!NoText BY DEF P!NewProfile
<1>2. ASSUME NEW n \in 0..P!AllValues, P!SaveStops(n) PROVE ProfilesInv'
  <2>1. n \in 0..5 /\ n # P!WithActive BY <1>2 DEF P!AllValues, P!WithActive
  <2>2. QED BY <1>1, <1>2, <2>1, StoppingKeeps DEF P!SaveStops, P!Unsure
<1>3. ASSUME NEW id \in Ids \ (DOMAIN store \union {active}), NEW n \in 0..P!WithActive,
             P!AddProfile(id, n)
      PROVE  ProfilesInv'
  <2>1. n \in 0..5 BY DEF P!WithActive
  <2>2. QED BY <1>1, <1>3, <2>1, AddProfileKeeps
<1>4. QED BY <1>2, <1>3, Zenon DEF P!NewProfile

LEMMA DeleteOthersLeftKeeps ==
  ASSUME ProfilesInv, open, Len(profiles) > 1, P!DeleteOthersLeft
  PROVE  ProfilesInv'
<1>1. /\ RegistryFits(store) /\ active \in Ids \union {P!NoId} /\ open = TRUE
      /\ unsure \subseteq Ids \union {P!ActiveId} /\ WindowSound
      /\ Matches(store, profiles, unsure) /\ P!CurrentId \in Ids
  BY OpenIsSound
<1>2. PICK left : left = P!Without(current) OBVIOUS
<1>3. PICK id : id = left[1].id OBVIOUS
<1>4. PICK t : t = store' OBVIOUS
<1>5. PICK u : u = unsure' OBVIOUS
<1>6. /\ t = P!Erased(store, P!CurrentId)
      /\ \/ /\ active' = id /\ P!Show(left, id) /\ UNCHANGED open
            /\ u = unsure \ {P!CurrentId, P!ActiveId}
         \/ /\ UNCHANGED active /\ ((P!Show(left, id) /\ UNCHANGED open) \/ P!Shut)
            /\ u = (unsure \ {P!CurrentId}) \union {P!ActiveId}
  BY <1>2, <1>3, <1>4, <1>5, Zenon DEF P!DeleteOthersLeft
<1>7. RegistryFits(t) /\ DOMAIN t = DOMAIN store \ {P!CurrentId} /\ \A i \in DOMAIN t : t[i] = store[i]
  <2>1. RegistryFits(store) /\ t = P!Erased(store, P!CurrentId) BY <1>1, <1>6
  <2>2. Erases(store, P!CurrentId, t) BY <2>1, ErasingFits
  <2>3. QED BY <2>2 DEF Erases
<1>8. /\ ListFits(left) /\ 1 \in DOMAIN left /\ Listed(left) = Listed(profiles) \ {P!CurrentId}
      /\ \A i \in DOMAIN left : \E k \in DOMAIN profiles : k # current /\ left[i] = profiles[k]
  BY <1>1, <1>2, WithoutFits
<1>9. id \in Listed(left) BY <1>3, <1>8 DEF Listed
<1>10. id \in Ids
  <2>1. \A x \in Listed(profiles) : x \in Ids BY <1>1, CurrentIsListed DEF Listed
  <2>2. QED BY <1>8, <1>9, <2>1
<1>11. P!ActiveId \notin Ids BY ProfilesConstants DEF P!ActiveId
<1>12. u \subseteq Ids \union {P!ActiveId} /\ active' \in Ids \union {P!NoId}
  BY <1>1, <1>6, <1>10
<1>13. \A x \in Ids : x \notin u => x \notin unsure \/ x = P!CurrentId BY <1>6, <1>11
<1>14. Matches(t, left, u)
  <2>1. Listed(left) \subseteq DOMAIN t BY <1>1, <1>7, <1>8 DEF Matches
  <2>2. DOMAIN t \ u \subseteq Listed(left)
    <3>1. DOMAIN store \subseteq Ids BY <1>1 DEF RegistryFits
    <3>2. DOMAIN store \ unsure \subseteq Listed(profiles) BY <1>1 DEF Matches
    <3>3. QED BY <1>7, <1>8, <1>13, <3>1, <3>2
  <2>3. ASSUME NEW i \in DOMAIN left, left[i].id \notin u
        PROVE  P!Named(t[left[i].id]) = left[i].content
    <3>1. PICK k \in DOMAIN profiles : k # current /\ left[i] = profiles[k] BY <1>8
    <3>2. profiles[k].id \in Ids /\ profiles[k].id # P!CurrentId BY <1>1, <3>1, CurrentIsListed
    <3>3. profiles[k].id \notin unsure BY <1>13, <2>3, <3>1, <3>2
    <3>4. P!Named(store[profiles[k].id]) = profiles[k].content BY <1>1, <3>3 DEF Matches
    <3>5. left[i].id \in DOMAIN t BY <2>1 DEF Listed
    <3>6. QED BY <1>7, <3>1, <3>4, <3>5
  <2>4. QED BY <2>1, <2>2, <2>3 DEF Matches
<1>15. CASE P!Show(left, id) /\ UNCHANGED open
  <2>1. P!ActiveId \notin u => active' = id BY <1>6
  <2>2. open' = TRUE BY <1>1, <1>15
  <2>3. QED BY <1>4, <1>5, <1>7, <1>8, <1>9, <1>12, <1>14, <1>15, <2>1, <2>2, ShowingEnds
<1>16. CASE P!Shut
  <2>1. DOMAIN t \ u \subseteq Listed(left) BY <1>14 DEF Matches
  <2>2. QED BY <1>4, <1>5, <1>7, <1>8, <1>12, <1>16, <2>1, ShutEnds
<1>17. QED BY <1>6, <1>15, <1>16

LEMMA DeleteLastKeeps ==
  ASSUME ProfilesInv, open, ~(Len(profiles) > 1), P!DeleteLast
  PROVE  ProfilesInv'
<1>1. /\ RegistryFits(store) /\ active \in Ids \union {P!NoId} /\ open = TRUE
      /\ unsure \subseteq Ids \union {P!ActiveId} /\ WindowSound /\ current \in DOMAIN profiles
      /\ Matches(store, profiles, unsure) /\ P!CurrentId \in Ids /\ ListFits(profiles)
  BY OpenIsSound
<1>2. PICK s : s = P!Erased(store, P!CurrentId) OBVIOUS
<1>3. PICK u : u = unsure \ {P!CurrentId} OBVIOUS
<1>4. RegistryFits(s) /\ DOMAIN s = DOMAIN store \ {P!CurrentId}
  BY <1>1, <1>2, ErasingFits DEF Erases
<1>5. Listed(profiles) = {P!CurrentId}
  <2>1. PICK n \in Nat : n = Len(profiles) BY <1>1, LenProperties DEF ListFits
  <2>2. DOMAIN profiles = 1..n /\ ~(n > 1) BY <1>1, <2>1, LenProperties DEF ListFits
  <2>3. PICK c \in 1..n : c = current BY <1>1, <2>2
  <2>4. \A i \in 1..n : i = c BY <2>2, <2>3
  <2>5. \A i \in DOMAIN profiles : profiles[i].id = P!CurrentId BY <2>2, <2>3, <2>4 DEF P!CurrentId
  <2>6. QED BY <1>1, <2>5 DEF Listed, P!CurrentId
<1>6. DOMAIN s \subseteq u
  <2>1. DOMAIN store \ unsure \subseteq Listed(profiles) BY <1>1 DEF Matches
  <2>2. QED BY <1>3, <1>4, <1>5, <2>1
<1>7. u \subseteq Ids \union {P!ActiveId} BY <1>1, <1>3
<1>8. PICK id \in Ids \ (DOMAIN store \union {active}), n \in 0..P!WithActive :
        /\ store' = P!Stored(s, id, P!DefaultContent, n) /\ active' = P!Activated(id, n)
        /\ unsure' = P!Unsure(u, id, n, P!WithActive)
        /\ IF n = P!WithActive
           THEN P!Show(<<[id |-> id, content |-> P!DefaultContent]>>, id) /\ UNCHANGED open
           ELSE P!Shut
  BY <1>2, <1>3, Zenon DEF P!DeleteLast
<1>9. n \in 0..5 /\ P!WithActive = 5 BY <1>8 DEF P!WithActive
<1>10. id \in Ids \ DOMAIN s BY <1>4
<1>11. IF n = 5 THEN P!Show(<<[id |-> id, content |-> P!DefaultContent]>>, id) /\ open' = TRUE
       ELSE P!Shut
  <2>1. UNCHANGED open => open' = TRUE BY <1>1
  <2>2. QED BY <1>8, <1>9, <2>1, Zenon
<1>12. QED BY <1>1, <1>4, <1>6, <1>7, <1>8, <1>9, <1>10, <1>11, DefaultIsMade

LEMMA DeleteProfileKeeps ==
  ASSUME ProfilesInv, P!DeleteProfile
  PROVE  ProfilesInv'
<1>1. open BY DEF P!DeleteProfile
<1>2. IF Len(profiles) > 1 THEN P!DeleteOthersLeft ELSE P!DeleteLast BY DEF P!DeleteProfile
<1>3. CASE Len(profiles) > 1 BY <1>1, <1>2, <1>3, DeleteOthersLeftKeeps
<1>4. CASE ~(Len(profiles) > 1) BY <1>1, <1>2, <1>4, DeleteLastKeeps
<1>5. QED BY <1>3, <1>4

LEMMA ProfilesBegin == ManagerInit => ProfilesInv
<1> SUFFICES ASSUME ManagerInit PROVE ProfilesInv
  OBVIOUS
<1>1. P!Init BY DEF ManagerInit
<1>2. DOMAIN store = {} /\ active = P!NoId /\ unsure = {} /\ open = FALSE
      /\ profiles = <<>> /\ current = 1 /\ combo = [items |-> <<>>, at |-> 1] /\ form = P!Nothing
  BY <1>1 DEF P!Init
<1>3. RegistryFits(store) BY <1>2, FS_EmptySet DEF RegistryFits
<1>4. P!LoadsAgain
  <2>1. DOMAIN store \ unsure = {} BY <1>2
  <2>2. P!Cardinality({}) = 0 BY SameCount, FS_EmptySet
  <2>3. QED BY <2>1, <2>2, ProfilesConstants DEF P!LoadsAgain
<1>5. QED BY <1>2, <1>3, <1>4 DEF ProfilesInv, WindowShut

LEMMA ProfilesRest ==
  ASSUME ProfilesInv, UNCHANGED profileVars
  PROVE  ProfilesInv'
BY DEF profileVars, ProfilesInv, WindowSound, WindowShut, P!LoadsAgain, P!CurrentId, P!Names

LEMMA ProfilesStep ==
  ASSUME ProfilesInv, [ManagerNext]_<<part, vars, profileVars, fileVars>>
  PROVE  ProfilesInv'
<1>1. CASE UNCHANGED profileVars BY <1>1, ProfilesRest
<1>2. CASE P!Next
  BY <1>2, OpenWindowKeeps, TypeKeeps, SaveCurrentKeeps, NewProfileKeeps, DeleteProfileKeeps,
     CloseWindowKeeps, SelectKeeps
  DEF P!Next
<1>3. QED BY <1>1, <1>2 DEF ManagerNext

LEMMA ProfilesInvariant == ManagerSpec => []ProfilesInv
<1>1. ManagerInit => ProfilesInv BY ProfilesBegin
<1>2. ProfilesInv /\ [ManagerNext]_<<part, vars, profileVars, fileVars>> => ProfilesInv'
  BY ProfilesStep
<1>3. QED BY <1>1, <1>2, PTL DEF ManagerSpec

(* Only the shown profile can be written in part, and the folder in the    *)
(* form is of the shown profile's own texts, or what it holds already.     *)
FoldersInv ==
  open => /\ \A i \in DOMAIN profiles : profiles[i].id \in unsure => i = current
          /\ form.folder \in P!OwnTexts(P!CurrentId) \union {store[P!CurrentId].folder}

OwnFolders ==
  \A id \in DOMAIN store' : store'[id].folder \in P!OwnTexts(id) \/ P!InheritsFolder(id)

(* What a write of the form, complete or not, leaves of the folders.       *)
SavesShown(t, n) ==
  /\ DOMAIN t = DOMAIN store /\ P!CurrentId \in DOMAIN store
  /\ \A i \in DOMAIN store : i # P!CurrentId => t[i] = store[i]
  /\ t[P!CurrentId].folder \in P!OwnTexts(P!CurrentId) \union {store[P!CurrentId].folder}
  /\ form.folder \in P!OwnTexts(P!CurrentId) \union {t[P!CurrentId].folder}
  /\ n >= 4 => t[P!CurrentId] = form

LEMMA ShownIsSaved ==
  ASSUME ProfilesInv, FoldersInv, open, NEW n \in 0..5,
         NEW t, t = P!Stored(store, P!CurrentId, form, n)
  PROVE  SavesShown(t, n) /\ RegistryFits(t)
<1>1. PICK c : c = P!CurrentId OBVIOUS
<1>2. /\ RegistryFits(store) /\ WindowSound /\ Matches(store, profiles, unsure)
      /\ c \in Ids /\ form \in HomeContent(c)
  BY <1>1, OpenIsSound
<1>3. c \in DOMAIN store BY <1>1, <1>2, CurrentIsListed DEF Matches
<1>4. form.folder \in P!OwnTexts(c) \union {store[c].folder} BY <1>1 DEF FoldersInv
<1>5. Stores(store, c, form, n, t) BY <1>1, <1>2, StoringFits
<1>6. /\ RegistryFits(t) /\ DOMAIN t = DOMAIN store
      /\ \A i \in DOMAIN store : i # c => t[i] = store[i]
      /\ n >= 4 => t[c] = form
      /\ n < 4 => t[c].folder = store[c].folder
  BY <1>3, <1>5 DEF Stores
<1>7. CASE n >= 4 BY <1>1, <1>3, <1>4, <1>6, <1>7 DEF SavesShown
<1>8. CASE n < 4 BY <1>1, <1>3, <1>4, <1>6, <1>8 DEF SavesShown
<1>9. QED BY <1>7, <1>8

LEMMA SavingOwnFolders ==
  ASSUME NEW n \in 0..5, SavesShown(store', n)
  PROVE  OwnFolders
BY DEF SavesShown, OwnFolders, P!InheritsFolder

(* Every other listed profile is written as it is listed, so its folder is *)
(* the one the registry holds when it comes to be shown.                   *)
LEMMA ShowingTheStored ==
  ASSUME ProfilesInv', open' => /\ \A i \in DOMAIN profiles' : profiles'[i].id \notin unsure'
                                /\ form' = profiles'[current'].content
  PROVE  FoldersInv'
<1> SUFFICES ASSUME open' PROVE FoldersInv'
  BY DEF FoldersInv
<1>1. PICK k : k = current' OBVIOUS
<1>2. PICK id : id = profiles'[k].id OBVIOUS
<1>3. PICK c : c = store'[id] OBVIOUS
<1>4. WindowSound' /\ RegistryFits(store') BY DEF ProfilesInv
<1>5. Matches(store', profiles', unsure') /\ k \in DOMAIN profiles' BY <1>1, <1>4 DEF WindowSound
<1>6. id \in DOMAIN store' /\ P!Named(c) = form'
  BY <1>1, <1>2, <1>3, <1>5 DEF Matches, Listed
<1>7. c \in HomeContent(id) BY <1>3, <1>4, <1>6 DEF RegistryFits
<1>8. P!Named(c).folder = c.folder BY <1>7 DEF P!Named, HomeContent
<1>9. P!CurrentId' = id BY <1>1, <1>2 DEF P!CurrentId
<1>10. form'.folder = store'[P!CurrentId'].folder BY <1>3, <1>6, <1>8, <1>9
<1>11. QED BY <1>10 DEF FoldersInv

LEMMA ListedIsNoActiveId ==
  ASSUME ProfilesInv, FoldersInv, open, NEW i \in DOMAIN profiles
  PROVE  /\ profiles[i].id \in Ids /\ profiles[i].id # P!ActiveId
         /\ profiles[i].id # P!CurrentId => profiles[i].id \notin unsure
<1>1. WindowSound BY OpenIsSound
<1>2. profiles[i].id \in Ids BY <1>1, CurrentIsListed
<1>3. P!ActiveId \notin Ids BY ProfilesConstants DEF P!ActiveId
<1>4. profiles[i].id \in unsure => i = current BY DEF FoldersInv
<1>5. QED BY <1>2, <1>3, <1>4 DEF P!CurrentId

(* A default profile has a default folder.                                 *)
LEMMA DefaultOwnFolders ==
  ASSUME NEW s, RegistryFits(s), DOMAIN s \subseteq DOMAIN store, \A i \in DOMAIN s : s[i] = store[i],
         NEW id \in Ids \ DOMAIN store, NEW n \in 0..5, store' = P!Stored(s, id, P!DefaultContent, n)
  PROVE  OwnFolders
<1>1. PICK c : c = P!DefaultContent OBVIOUS
<1>2. c \in HomeContent(id) /\ c.folder = P!DefaultText
  BY <1>1, HomeIsTyped DEF P!DefaultContent, P!NewContent
<1>3. PICK t : t = store' OBVIOUS
<1>4. t = P!Stored(s, id, c, n) BY <1>1, <1>3
<1>5. Stores(s, id, c, n, t) BY <1>2, <1>4, StoringFits
<1>6. id \notin DOMAIN s OBVIOUS
<1>7. \A i \in DOMAIN t : i # id => i \in DOMAIN store /\ t[i] = store[i]
  BY <1>5 DEF Stores
<1>8. id \in DOMAIN t => t[id].folder \in P!OwnTexts(id)
  <2>1. n # 0 \/ id \notin DOMAIN t BY <1>5, <1>6 DEF Stores
  <2>2. n \in 1..3 => t[id].folder = P!NoText BY <1>5, <1>6 DEF Stores
  <2>3. n >= 4 => t[id].folder = P!DefaultText BY <1>2, <1>5 DEF Stores
  <2>4. QED BY <2>1, <2>2, <2>3 DEF P!OwnTexts
<1>9. QED BY <1>3, <1>7, <1>8 DEF OwnFolders, P!InheritsFolder

LEMMA FoldersAtOpening ==
  ASSUME ProfilesInv, ProfilesInv', P!OpenWindow
  PROVE  FoldersInv' /\ OwnFolders
<1>1. P!ActiveId \notin Ids BY ProfilesConstants DEF P!ActiveId
<1>2. CASE DOMAIN store # {}
  <2>1. P!Show(P!Loaded, active) /\ open' = TRUE /\ unsure' \subseteq {P!ActiveId} /\ store' = store
    BY <1>2 DEF P!OpenWindow
  <2>2. form' = profiles'[current'].content BY <2>1 DEF P!Show
  <2>3. \A i \in DOMAIN profiles' : profiles'[i].id \notin unsure'
    <3>1. WindowSound' BY <2>1 DEF ProfilesInv
    <3>2. \A i \in DOMAIN profiles' : profiles'[i].id \in Listed(profiles') BY DEF Listed
    <3>3. Listed(profiles') \subseteq DOMAIN store' BY <3>1 DEF WindowSound, Matches
    <3>4. DOMAIN store' \subseteq Ids BY DEF ProfilesInv, RegistryFits
    <3>5. QED BY <1>1, <2>1, <3>2, <3>3, <3>4
  <2>4. OwnFolders BY <2>1 DEF OwnFolders, P!InheritsFolder
  <2>5. QED BY <2>2, <2>3, <2>4, ShowingTheStored
<1>3. CASE DOMAIN store = {}
  <2>1. PICK id \in Ids \ {active}, n \in 0..P!WithActive :
          /\ store' = P!Stored(store, id, P!DefaultContent, n) /\ active' = P!Activated(id, n)
          /\ unsure' = P!Unsure({}, id, n, P!WithActive)
          /\ IF n = P!WithActive
             THEN P!Show(<<[id |-> id, content |-> P!DefaultContent]>>, id) /\ open' = TRUE
             ELSE P!Shut
    BY <1>3, Zenon DEF P!OpenWindow
  <2>2. n \in 0..5 /\ P!WithActive = 5 BY <2>1 DEF P!WithActive
  <2>3. RegistryFits(store) /\ id \in Ids \ DOMAIN store BY <1>3 DEF ProfilesInv
  <2>4. OwnFolders BY <2>1, <2>2, <2>3, DefaultOwnFolders
  <2>5. CASE n = 5
    <3>1. P!Show(<<[id |-> id, content |-> P!DefaultContent]>>, id) BY <2>1, <2>2, <2>5
    <3>2. unsure' = {} BY <2>1, <2>2, <2>5 DEF P!Unsure
    <3>3. form' = profiles'[current'].content BY <3>1 DEF P!Show
    <3>4. QED BY <2>4, <3>2, <3>3, ShowingTheStored
  <2>6. CASE n # 5
    <3>1. open' = FALSE BY <2>1, <2>2, <2>6 DEF P!Shut
    <3>2. QED BY <2>4, <3>1 DEF FoldersInv
  <2>7. QED BY <2>5, <2>6
<1>4. QED BY <1>2, <1>3

LEMMA FoldersAsTyped ==
  ASSUME ProfilesInv, FoldersInv, P!Type
  PROVE  FoldersInv' /\ OwnFolders
<1>1. open /\ UNCHANGED <<store, active, open, profiles, current, combo, unsure>>
  BY DEF P!Type
<1>2. PICK id : id = P!CurrentId OBVIOUS
<1>3. form \in HomeContent(id) BY <1>1, <1>2, OpenIsSound
<1>4. form.folder \in P!OwnTexts(id) \union {store[id].folder} BY <1>1, <1>2 DEF FoldersInv
<1>5. form'.folder = form.folder \/ form'.folder \in P!OwnTexts(id)
  <2>1. ASSUME NEW t \in P!Typed(id),
               form' \in {[form EXCEPT !.name = t, !.game = t], [form EXCEPT !.folder = t]}
        PROVE  form'.folder = form.folder \/ form'.folder \in P!OwnTexts(id)
    BY <1>3, <2>1 DEF HomeContent, P!OwnTexts
  <2>2. ASSUME form' = [form EXCEPT !.name = P!NoText] PROVE form'.folder = form.folder
    BY <1>3, <2>2 DEF HomeContent
  <2>3. QED BY <1>2, <2>1, <2>2 DEF P!Type
<1>6. P!CurrentId' = id BY <1>1, <1>2 DEF P!CurrentId
<1>7. form'.folder \in P!OwnTexts(P!CurrentId') \union {store'[P!CurrentId'].folder}
  BY <1>1, <1>4, <1>5, <1>6
<1>8. \A i \in DOMAIN profiles' : profiles'[i].id \in unsure' => i = current'
  BY <1>1 DEF FoldersInv
<1>9. OwnFolders BY <1>1 DEF OwnFolders, P!InheritsFolder
<1>10. FoldersInv'
  <2>1. P!OwnTexts(P!CurrentId)' = P!OwnTexts(P!CurrentId') BY DEF P!OwnTexts, P!Typed
  <2>2. QED BY <1>7, <1>8, <2>1 DEF FoldersInv
<1>11. QED BY <1>9, <1>10

LEMMA FoldersOfStopped ==
  ASSUME ProfilesInv, FoldersInv, open, NEW n \in 0..5, store' = P!Stored(store, P!CurrentId, form, n),
         unsure' \subseteq unsure \union {P!CurrentId}, P!Fails
  PROVE  FoldersInv' /\ OwnFolders
<1>1. PICK t : t = store' OBVIOUS
<1>2. SavesShown(t, n) BY <1>1, ShownIsSaved
<1>3. OwnFolders BY <1>1, <1>2, SavingOwnFolders
<1>4. CASE P!Stays
  <2>1. UNCHANGED <<open, profiles, current, combo, form>> BY <1>4 DEF P!Stays, P!windowVars
  <2>2. P!CurrentId' = P!CurrentId BY <2>1 DEF P!CurrentId
  <2>3. form'.folder \in P!OwnTexts(P!CurrentId) \union {store'[P!CurrentId].folder}
    BY <1>1, <1>2, <2>1 DEF SavesShown
  <2>4. ASSUME NEW i \in DOMAIN profiles', profiles'[i].id \in unsure' PROVE i = current'
    <3>1. WindowSound BY OpenIsSound
    <3>2. profiles[i].id = P!CurrentId => i = current BY <2>1, <3>1, CurrentIsListed
    <3>3. profiles[i].id \in unsure => i = current BY <2>1 DEF FoldersInv
    <3>4. QED BY <2>1, <2>4, <3>2, <3>3
  <2>5. QED BY <1>3, <2>2, <2>3, <2>4 DEF FoldersInv
<1>5. CASE P!Shut
  <2>1. open' = FALSE BY <1>5 DEF P!Shut
  <2>2. QED BY <1>3, <2>1 DEF FoldersInv
<1>6. QED BY <1>4, <1>5 DEF P!Fails

LEMMA FoldersOfSaved ==
  ASSUME ProfilesInv, FoldersInv, P!SaveCurrent
  PROVE  FoldersInv' /\ OwnFolders
<1>1. open BY DEF P!SaveCurrent
<1>2. ASSUME NEW n \in 0..P!AllValues, P!SaveStops(n) PROVE FoldersInv' /\ OwnFolders
  <2>1. n \in 0..5 /\ n # P!WithActive BY <1>2 DEF P!AllValues, P!WithActive
  <2>2. unsure' \subseteq unsure \union {P!CurrentId} BY <1>2, <2>1 DEF P!SaveStops, P!Unsure
  <2>3. QED BY <1>1, <1>2, <2>1, <2>2, FoldersOfStopped DEF P!SaveStops
<1>3. CASE /\ store' = P!Stored(store, P!CurrentId, form, P!WithActive)
           /\ unsure' = P!Unsure(unsure, P!CurrentId, P!WithActive, P!WithActive)
           /\ profiles' = P!SavedCurrent /\ UNCHANGED <<open, current, form>>
  <2>1. PICK t : t = store' OBVIOUS
  <2>2. t = P!Stored(store, P!CurrentId, form, 5) BY <1>3, <2>1 DEF P!WithActive
  <2>3. SavesShown(t, 5) BY <1>1, <2>2, ShownIsSaved
  <2>4. PICK ps : ps = P!SavedCurrent OBVIOUS
  <2>5. WindowSound /\ current \in DOMAIN profiles BY <1>1, OpenIsSound
  <2>6. DOMAIN ps = DOMAIN profiles /\ \A i \in DOMAIN ps : ps[i].id = profiles[i].id
    BY <2>4, <2>5, SavedFits
  <2>7. unsure' \subseteq unsure BY <1>3 DEF P!Unsure
  <2>8. profiles' = ps /\ current' = current /\ form' = form BY <1>3, <2>4
  <2>9. P!CurrentId' = P!CurrentId BY <2>5, <2>6, <2>8 DEF P!CurrentId
  <2>10. \A i \in DOMAIN profiles' : profiles'[i].id \in unsure' => i = current'
    BY <1>1, <2>6, <2>7, <2>8 DEF FoldersInv
  <2>11. form'.folder \in P!OwnTexts(P!CurrentId) \union {store'[P!CurrentId].folder}
    BY <2>1, <2>3, <2>8 DEF SavesShown
  <2>12. OwnFolders BY <2>1, <2>3, SavingOwnFolders
  <2>13. QED BY <2>9, <2>10, <2>11, <2>12 DEF FoldersInv
<1>4. CASE UNCHANGED P!vars
  <2>1. UNCHANGED <<store, open, profiles, current, form, unsure>>
    BY <1>4 DEF P!vars, P!windowVars
  <2>2. OwnFolders BY <2>1 DEF OwnFolders, P!InheritsFolder
  <2>3. QED BY <2>1, <2>2 DEF FoldersInv, P!CurrentId
<1>5. QED BY <1>2, <1>3, <1>4 DEF P!SaveCurrent

LEMMA FoldersOfSelected ==
  ASSUME ProfilesInv, FoldersInv, ProfilesInv', NEW i \in DOMAIN profiles, P!Select(i)
  PROVE  FoldersInv' /\ OwnFolders
<1>1. open BY DEF P!Select
<1>2. WindowSound BY <1>1, OpenIsSound
<1>3. ASSUME NEW n \in 0..(P!AllValues - 1), P!LeaveProfile(n), P!Fails
      PROVE  FoldersInv' /\ OwnFolders
  <2>1. n \in 0..5 /\ n # P!AllValues BY <1>3 DEF P!AllValues
  <2>2. unsure' \subseteq unsure \union {P!CurrentId} BY <1>3, <2>1 DEF P!LeaveProfile, P!Unsure
  <2>3. QED BY <1>1, <1>3, <2>1, <2>2, FoldersOfStopped DEF P!LeaveProfile
<1>4. ASSUME store' = P!Stored(store, P!CurrentId, form, P!AllValues),
             unsure' \subseteq (unsure \ {P!CurrentId}) \union {P!ActiveId},
             (P!EnterProfile(i) /\ UNCHANGED open) \/ P!Shut
      PROVE  FoldersInv' /\ OwnFolders
  <2>1. PICK t : t = store' OBVIOUS
  <2>2. t = P!Stored(store, P!CurrentId, form, 4) BY <1>4, <2>1 DEF P!AllValues
  <2>3. SavesShown(t, 4) BY <1>1, <2>2, ShownIsSaved
  <2>4. OwnFolders BY <2>1, <2>3, SavingOwnFolders
  <2>5. CASE P!EnterProfile(i)
    <3>1. PICK ps : ps = P!SavedCurrent OBVIOUS
    <3>2. DOMAIN ps = DOMAIN profiles /\ \A j \in DOMAIN ps : ps[j].id = profiles[j].id
      BY <1>2, <3>1, SavedFits
    <3>3. profiles' = ps /\ form' = profiles'[current'].content BY <2>5, <3>1 DEF P!EnterProfile
    <3>4. ASSUME NEW j \in DOMAIN profiles' PROVE profiles'[j].id \notin unsure'
      <4>1. j \in DOMAIN profiles /\ profiles'[j].id = profiles[j].id BY <3>2, <3>3, <3>4
      <4>2. /\ profiles[j].id # P!ActiveId
            /\ profiles[j].id # P!CurrentId => profiles[j].id \notin unsure
        BY <1>1, <4>1, ListedIsNoActiveId
      <4>3. QED BY <1>4, <4>1, <4>2
    <3>5. QED BY <2>4, <3>3, <3>4, ShowingTheStored
  <2>6. CASE P!Shut
    <3>1. open' = FALSE BY <2>6 DEF P!Shut
    <3>2. QED BY <2>4, <3>1 DEF FoldersInv
  <2>7. QED BY <1>4, <2>5, <2>6
<1>5. P!Unsure(unsure, P!CurrentId, P!AllValues, P!AllValues) = unsure \ {P!CurrentId}
  BY DEF P!Unsure, P!AllValues, P!WithActive
<1>6. CASE /\ store' = P!Stored(store, P!CurrentId, form, P!AllValues)
           /\ P!EnterProfile(i) /\ UNCHANGED open
           /\ unsure' = P!Unsure(unsure, P!CurrentId, P!AllValues, P!AllValues) \ {P!ActiveId}
  <2>1. unsure' \subseteq (unsure \ {P!CurrentId}) \union {P!ActiveId} BY <1>5, <1>6
  <2>2. QED BY <1>4, <1>6, <2>1
<1>7. CASE /\ store' = P!Stored(store, P!CurrentId, form, P!AllValues)
           /\ (P!EnterProfile(i) /\ UNCHANGED open) \/ P!Shut
           /\ unsure' = P!Unsure(unsure, P!CurrentId, P!AllValues, P!AllValues) \union {P!ActiveId}
  <2>1. unsure' \subseteq (unsure \ {P!CurrentId}) \union {P!ActiveId} BY <1>5, <1>7
  <2>2. QED BY <1>4, <1>7, <2>1
<1>8. QED BY <1>3, <1>6, <1>7, Zenon DEF P!Select

(* The new profile has the folder of the one shown, which is saved in the  *)
(* same step.                                                              *)
LEMMA FoldersOfAdded ==
  ASSUME ProfilesInv, FoldersInv, ProfilesInv', open, P!HasRoom,
         NEW id \in Ids \ (DOMAIN store \union {active}), NEW n \in 0..5, P!AddProfile(id, n)
  PROVE  FoldersInv' /\ OwnFolders
<1>1. PICK k : k = P!CurrentId OBVIOUS
<1>2. WindowSound /\ Matches(store, profiles, unsure) /\ k \in Ids /\ form \in HomeContent(k)
      /\ current \in DOMAIN profiles
  BY <1>1, OpenIsSound
<1>3. PICK saved : saved = P!Stored(store, P!CurrentId, form, P!WithActive) OBVIOUS
<1>4. SavesShown(saved, 5) /\ RegistryFits(saved)
  <2>1. saved = P!Stored(store, P!CurrentId, form, 5) BY <1>3 DEF P!WithActive
  <2>2. QED BY <2>1, ShownIsSaved
<1>5. PICK c : c = P!NewContent(form.folder) OBVIOUS
<1>6. c \in HomeContent(id) /\ c.folder = form.folder
  <2>1. form.folder \in P!Texts BY <1>2 DEF HomeContent
  <2>2. QED BY <1>5, <2>1, HomeIsTyped DEF P!NewContent
<1>7. PICK t : t = store' OBVIOUS
<1>8. t = P!Stored(saved, id, c, n) BY <1>3, <1>5, <1>7 DEF P!AddProfile
<1>9. Stores(saved, id, c, n, t) BY <1>4, <1>6, <1>8, StoringFits
<1>10. /\ DOMAIN saved = DOMAIN store /\ k \in DOMAIN store /\ saved[k] = form
       /\ \A i \in DOMAIN store : i # k => saved[i] = store[i]
       /\ form.folder \in P!OwnTexts(k) \union {store[k].folder}
  BY <1>1, <1>4 DEF SavesShown
<1>11. id \notin DOMAIN saved /\ id # k BY <1>10
<1>12. /\ DOMAIN t \subseteq DOMAIN store \union {id} /\ (n = 0 => id \notin DOMAIN t)
       /\ \A i \in DOMAIN saved : t[i] = saved[i]
       /\ n \in 1..3 => t[id].folder = P!NoText
       /\ n >= 4 => t[id] = c
  BY <1>9, <1>10, <1>11 DEF Stores
<1>13. t[k].folder = form.folder BY <1>10, <1>12
<1>14. OwnFolders
  <2>1. ASSUME NEW i \in DOMAIN store PROVE t[i].folder \in P!OwnTexts(i) \/ t[i].folder = store[i].folder
    <3>1. CASE i = k BY <1>10, <1>13, <3>1
    <3>2. CASE i # k BY <1>10, <1>12, <3>2
    <3>3. QED BY <3>1, <3>2
  <2>2. id \in DOMAIN t => t[id].folder = P!NoText \/ t[id].folder = t[k].folder
    BY <1>6, <1>12, <1>13
  <2>3. P!NoText \in P!OwnTexts(id) BY DEF P!OwnTexts
  <2>4. id \notin DOMAIN store /\ k \in DOMAIN store BY <1>10
  <2>5. QED BY <1>1, <1>7, <1>12, <2>1, <2>2, <2>3, <2>4 DEF OwnFolders, P!InheritsFolder
<1>15. PICK ps : ps = P!SavedCurrent OBVIOUS
<1>16. /\ ListFits(ps) /\ DOMAIN ps = DOMAIN profiles /\ Len(ps) = Len(profiles)
       /\ Listed(ps) = Listed(profiles) /\ \A i \in DOMAIN ps : ps[i].id = profiles[i].id
  BY <1>2, <1>15, SavedFits
<1>17. \A i \in DOMAIN profiles : profiles[i].id # id /\ profiles[i].id # P!ActiveId
                                  /\ (profiles[i].id # k => profiles[i].id \notin unsure)
  <2>1. Listed(profiles) \subseteq DOMAIN store BY <1>2 DEF Matches
  <2>2. \A i \in DOMAIN profiles : profiles[i].id \in DOMAIN store BY <2>1 DEF Listed
  <2>3. QED BY <1>1, <2>2, ListedIsNoActiveId
<1>18. CASE n = 5
  <2>1. PICK r : r = [id |-> id, content |-> c] OBVIOUS
  <2>2. PICK qs : qs = Append(ps, r) OBVIOUS
  <2>3. P!Show(qs, id) BY <1>5, <1>15, <1>18, <2>1, <2>2 DEF P!AddProfile, P!WithActive
  <2>4. profiles' = qs /\ form' = profiles'[current'].content BY <2>3 DEF P!Show
  <2>5. \A i \in DOMAIN qs : qs[i].id = id \/ (i \in DOMAIN ps /\ qs[i] = ps[i])
    <3>1. Len(ps) < MaximumProfiles BY <1>16 DEF P!HasRoom
    <3>2. id \notin Listed(ps) BY <1>16, <1>17 DEF Listed
    <3>3. Appends(ps, id, c, qs) BY <1>6, <1>16, <2>1, <2>2, <3>1, <3>2, AppendingFits
    <3>4. QED BY <3>3 DEF Appends
  <2>6. unsure' \subseteq unsure \ {k, id}
    BY <1>1, <1>18 DEF P!AddProfile, P!Unsure, P!WithActive
  <2>7. ASSUME NEW i \in DOMAIN profiles' PROVE profiles'[i].id \notin unsure'
    <3>1. CASE qs[i].id = id BY <2>4, <2>6, <3>1
    <3>2. CASE i \in DOMAIN ps /\ qs[i] = ps[i]
      <4>1. i \in DOMAIN profiles /\ profiles'[i].id = profiles[i].id BY <1>16, <2>4, <3>2
      <4>2. QED BY <1>17, <2>6, <4>1
    <3>3. QED BY <2>4, <2>5, <2>7, <3>1, <3>2
  <2>8. QED BY <1>14, <2>4, <2>7, ShowingTheStored
<1>19. CASE n # 5
  <2>1. unsure' \subseteq unsure \union {id}
    BY <1>19 DEF P!AddProfile, P!Unsure, P!WithActive
  <2>2. CASE profiles' = ps /\ UNCHANGED <<open, current, form>>
    <3>1. P!CurrentId' = k BY <1>1, <1>2, <1>16, <2>2 DEF P!CurrentId
    <3>2. form'.folder = store'[P!CurrentId'].folder BY <1>7, <1>13, <2>2, <3>1
    <3>3. ASSUME NEW i \in DOMAIN profiles', profiles'[i].id \in unsure' PROVE i = current'
      <4>1. i \in DOMAIN profiles /\ profiles'[i].id = profiles[i].id BY <1>16, <2>2, <3>3
      <4>2. profiles[i].id \in unsure BY <1>17, <2>1, <3>3, <4>1
      <4>3. QED BY <2>2, <4>1, <4>2 DEF FoldersInv
    <3>4. QED BY <1>14, <3>2, <3>3 DEF FoldersInv
  <2>3. CASE P!Shut
    <3>1. open' = FALSE BY <2>3 DEF P!Shut
    <3>2. QED BY <1>14, <3>1 DEF FoldersInv
  <2>4. QED BY <1>15, <1>19, <2>2, <2>3 DEF P!AddProfile, P!WithActive
<1>20. QED BY <1>18, <1>19

LEMMA FoldersOfNew ==
  ASSUME ProfilesInv, FoldersInv, ProfilesInv', P!NewProfile
  PROVE  FoldersInv' /\ OwnFolders
<1>1. open /\ P!HasRoom BY DEF P!NewProfile
<1>2. ASSUME NEW n \in 0..P!AllValues, P!SaveStops(n) PROVE FoldersInv' /\ OwnFolders
  <2>1. n \in 0..5 /\ n # P!WithActive BY <1>2 DEF P!AllValues, P!WithActive
  <2>2. unsure' \subseteq unsure \union {P!CurrentId} BY <1>2, <2>1 DEF P!SaveStops, P!Unsure
  <2>3. QED BY <1>1, <1>2, <2>1, <2>2, FoldersOfStopped DEF P!SaveStops
<1>3. ASSUME NEW id \in Ids \ (DOMAIN store \union {active}), NEW n \in 0..P!WithActive,
             P!AddProfile(id, n)
      PROVE  FoldersInv' /\ OwnFolders
  <2>1. n \in 0..5 BY DEF P!WithActive
  <2>2. QED BY <1>1, <1>3, <2>1, FoldersOfAdded
<1>4. QED BY <1>2, <1>3, Zenon DEF P!NewProfile

LEMMA FoldersOfDeleted ==
  ASSUME ProfilesInv, FoldersInv, ProfilesInv', P!DeleteProfile
  PROVE  FoldersInv' /\ OwnFolders
<1>1. open /\ (IF Len(profiles) > 1 THEN P!DeleteOthersLeft ELSE P!DeleteLast)
  BY DEF P!DeleteProfile
<1>2. WindowSound /\ RegistryFits(store) BY <1>1, OpenIsSound
<1>3. PICK s : s = P!Erased(store, P!CurrentId) OBVIOUS
<1>4. RegistryFits(s) /\ DOMAIN s = DOMAIN store \ {P!CurrentId} /\ \A i \in DOMAIN s : s[i] = store[i]
  BY <1>2, <1>3, ErasingFits DEF Erases
<1>5. CASE Len(profiles) > 1
  <2>1. PICK left : left = P!Without(current) OBVIOUS
  <2>2. /\ Listed(left) = Listed(profiles) \ {P!CurrentId}
        /\ \A i \in DOMAIN left : \E j \in DOMAIN profiles : j # current /\ left[i] = profiles[j]
    BY <1>2, <1>5, <2>1, WithoutFits
  <2>3. /\ store' = s /\ (P!Show(left, left[1].id) \/ P!Shut)
        /\ unsure' \subseteq (unsure \ {P!CurrentId}) \union {P!ActiveId}
    BY <1>1, <1>3, <1>5, <2>1 DEF P!DeleteOthersLeft
  <2>4. OwnFolders BY <1>4, <2>3 DEF OwnFolders, P!InheritsFolder
  <2>5. CASE P!Show(left, left[1].id)
    <3>1. profiles' = left /\ form' = profiles'[current'].content BY <2>5 DEF P!Show
    <3>2. ASSUME NEW i \in DOMAIN profiles' PROVE profiles'[i].id \notin unsure'
      <4>1. PICK j \in DOMAIN profiles : j # current /\ left[i] = profiles[j] BY <2>2, <3>1, <3>2
      <4>2. profiles[j].id # P!CurrentId BY <1>2, <4>1, CurrentIsListed
      <4>3. QED BY <1>1, <2>3, <3>1, <4>1, <4>2, ListedIsNoActiveId
    <3>3. QED BY <2>4, <3>1, <3>2, ShowingTheStored
  <2>6. CASE P!Shut
    <3>1. open' = FALSE BY <2>6 DEF P!Shut
    <3>2. QED BY <2>4, <3>1 DEF FoldersInv
  <2>7. QED BY <2>3, <2>5, <2>6
<1>6. CASE ~(Len(profiles) > 1)
  <2>1. PICK id \in Ids \ (DOMAIN store \union {active}), n \in 0..P!WithActive :
          /\ store' = P!Stored(s, id, P!DefaultContent, n)
          /\ unsure' = P!Unsure(unsure \ {P!CurrentId}, id, n, P!WithActive)
          /\ IF n = P!WithActive
             THEN P!Show(<<[id |-> id, content |-> P!DefaultContent]>>, id) /\ UNCHANGED open
             ELSE P!Shut
    BY <1>1, <1>3, <1>6, Zenon DEF P!DeleteLast
  <2>2. n \in 0..5 /\ P!WithActive = 5 BY <2>1 DEF P!WithActive
  <2>3. id \in Ids \ DOMAIN store /\ DOMAIN s \subseteq DOMAIN store BY <1>4
  <2>4. OwnFolders BY <1>4, <2>1, <2>2, <2>3, DefaultOwnFolders
  <2>5. CASE n = 5
    <3>1. PICK ps : ps = <<[id |-> id, content |-> P!DefaultContent]>> OBVIOUS
    <3>2. P!Show(ps, id) BY <2>1, <2>2, <2>5, <3>1
    <3>3. id \notin unsure' BY <2>1, <2>2, <2>5 DEF P!Unsure
    <3>4. \A i \in DOMAIN ps : ps[i].id = id BY <3>1, SingleFits
    <3>5. profiles' = ps /\ form' = profiles'[current'].content BY <3>2 DEF P!Show
    <3>6. QED BY <2>4, <3>3, <3>4, <3>5, ShowingTheStored
  <2>6. CASE n # 5
    <3>1. open' = FALSE BY <2>1, <2>2, <2>6 DEF P!Shut
    <3>2. QED BY <2>4, <3>1 DEF FoldersInv
  <2>7. QED BY <2>5, <2>6
<1>7. QED BY <1>5, <1>6

LEMMA FoldersStep ==
  ASSUME ProfilesInv, FoldersInv, [ManagerNext]_<<part, vars, profileVars, fileVars>>
  PROVE  FoldersInv' /\ (OwnFolders \/ UNCHANGED profileVars)
<1>1. ProfilesInv' BY ProfilesStep
<1>2. CASE UNCHANGED profileVars
  <2>1. UNCHANGED <<store, open, profiles, current, form, unsure>> BY <1>2 DEF profileVars
  <2>2. QED BY <1>2, <2>1 DEF FoldersInv, P!CurrentId
<1>3. CASE P!Next
  <2>1. CASE P!CloseWindow
    <3>1. open' = FALSE /\ store' = store BY <2>1 DEF P!CloseWindow, P!Shut
    <3>2. QED BY <3>1 DEF FoldersInv, OwnFolders, P!InheritsFolder
  <2>2. QED
    BY <1>1, <1>3, <2>1, FoldersAtOpening, FoldersAsTyped, FoldersOfSaved, FoldersOfNew,
       FoldersOfDeleted, FoldersOfSelected
    DEF P!Next
<1>4. QED BY <1>2, <1>3 DEF ManagerNext

LEMMA FoldersInvariant == ManagerSpec => []FoldersInv
<1>1. ManagerInit => FoldersInv BY DEF ManagerInit, P!Init, FoldersInv
<1>2. ProfilesInv /\ FoldersInv /\ [ManagerNext]_<<part, vars, profileVars, fileVars>> => FoldersInv'
  BY FoldersStep
<1>3. QED BY <1>1, <1>2, ProfilesInvariant, PTL DEF ManagerSpec

(* Whatever was typed, saved, selected or deleted, with every write free to*)
(* stop half-way and the manager free to end there, the name and the game  *)
(* of a profile in the registry are defaults or its own texts, and a step  *)
(* gives it the SimHub folder of another profile only when New makes it,   *)
(* from the one shown.                                                     *)
THEOREM EditsAlwaysStayHome == ManagerSpec => EditsStayHome
<1>1. ASSUME ProfilesInv, FoldersInv, [ManagerNext]_<<part, vars, profileVars, fileVars>>
      PROVE  [\A id \in DOMAIN store' : P!OwnContent(id)]_(P!vars)
  <2>1. ProfilesInv' BY <1>1, ProfilesStep
  <2>2. ASSUME OwnFolders, NEW id \in DOMAIN store' PROVE P!OwnContent(id)
    <3>1. store'[id] \in HomeContent(id) BY <2>1, <2>2 DEF ProfilesInv, RegistryFits
    <3>2. {store'[id].name, store'[id].game} \subseteq P!OwnTexts(id) BY <3>1 DEF HomeContent
    <3>3. store'[id].folder \in P!OwnTexts(id) \/ P!InheritsFolder(id) BY <2>2 DEF OwnFolders
    <3>4. QED BY <3>2, <3>3 DEF P!OwnContent
  <2>3. UNCHANGED profileVars => UNCHANGED P!vars BY DEF profileVars, P!vars, P!windowVars
  <2>4. OwnFolders \/ UNCHANGED profileVars BY <1>1, FoldersStep
  <2>5. QED BY <2>2, <2>3, <2>4
<1>2. QED BY <1>1, ProfilesInvariant, FoldersInvariant, PTL
  DEF ManagerSpec, EditsStayHome, P!EditsStayHome

(* List, combo box and index agree in every open window, whatever failed;  *)
(* the registry holds what the window lists and its active profile is the  *)
(* one shown, except where a write was not completed; and what was written *)
(* completely never exceeds the limit above which load refuses to open.    *)
THEOREM StoreAlwaysFollows == ManagerSpec => []StoreFollowsTheList
<1>1. ProfilesInv => P!LoadsAgain BY DEF ProfilesInv
<1>2. ASSUME ProfilesInv PROVE P!WindowAgrees
  BY <1>2, OpenIsSound DEF P!WindowAgrees, ListFits
<1>3. ASSUME ProfilesInv PROVE P!StoreFollowsTheList
  <2> SUFFICES ASSUME open PROVE P!StoreFollowsTheList
    BY DEF P!StoreFollowsTheList
  <2>1. Matches(store, profiles, unsure) /\ (P!ActiveId \notin unsure => active = P!CurrentId)
    BY <1>3, OpenIsSound
  <2>2. PICK listed : listed = {profiles[i].id : i \in DOMAIN profiles} OBVIOUS
  <2>3. listed \subseteq DOMAIN store /\ DOMAIN store \ unsure \subseteq listed
        /\ \A i \in DOMAIN profiles :
             profiles[i].id \notin unsure => P!Named(store[profiles[i].id]) = profiles[i].content
    BY <2>1, <2>2 DEF Matches, Listed
  <2>4. (DOMAIN store \union listed) \ unsure \subseteq DOMAIN store \intersect listed BY <2>3
  <2>5. QED BY <2>1, <2>2, <2>3, <2>4, Zenon DEF P!StoreFollowsTheList
<1>4. ASSUME ProfilesInv PROVE P!TypeOK
  <2>1. \A id \in DOMAIN store : id \in Ids /\ store[id] \in P!Contents
    BY <1>4, HomeIsTyped DEF ProfilesInv, RegistryFits
  <2>2. CASE open
    <3>1. /\ ListFits(profiles) /\ current \in DOMAIN profiles /\ form \in HomeContent(P!CurrentId)
          /\ P!CurrentId \in Ids /\ combo = [items |-> P!Names(profiles), at |-> current]
      BY <1>4, <2>2, OpenIsSound
    <3>2. profiles \in Seq([id : Ids, content : P!Contents]) /\ Len(profiles) <= MaximumProfiles
      BY <3>1 DEF ListFits, Profile
    <3>3. PICK n \in Nat : n = Len(profiles) BY <3>2, LenProperties
    <3>4. DOMAIN profiles = 1..n /\ profiles \in [1..n -> [id : Ids, content : P!Contents]]
      BY <3>2, <3>3, LenProperties
    <3>5. current \in Nat \ {0} BY <3>1, <3>4
    <3>6. P!Names(profiles) \in Seq(P!Texts)
      <4>1. \A i \in 1..n : profiles[i].content.name \in P!Texts BY <3>4 DEF P!Contents
      <4>2. P!Names(profiles) \in [1..n -> P!Texts] BY <3>4, <4>1 DEF P!Names
      <4>3. QED BY <4>2
    <3>7. form \in P!Contents BY <3>1, HomeIsTyped
    <3>8. QED BY <1>4, <2>1, <2>2, <3>1, <3>2, <3>5, <3>6, <3>7 DEF P!TypeOK, ProfilesInv
  <2>3. CASE ~open
    <3>1. profiles = <<>> /\ current = 1 /\ combo = [items |-> <<>>, at |-> 1] /\ form = P!Nothing
      BY <1>4, <2>3 DEF ProfilesInv, WindowShut
    <3>2. form \in P!Contents BY <3>1 DEF P!Nothing, P!Contents, P!Texts
    <3>3. profiles \in Seq([id : Ids, content : P!Contents]) /\ Len(profiles) = 0 BY <3>1
    <3>4. combo \in [items : Seq(P!Texts), at : Nat \ {0}] BY <3>1
    <3>5. 0 <= MaximumProfiles BY ProfilesConstants
    <3>6. QED BY <1>4, <2>1, <3>1, <3>2, <3>3, <3>4, <3>5 DEF P!TypeOK, ProfilesInv
  <2>4. QED BY <2>2, <2>3
<1>5. ProfilesInv => StoreFollowsTheList
  BY <1>1, <1>2, <1>3, <1>4 DEF StoreFollowsTheList
<1>6. QED BY <1>5, ProfilesInvariant, PTL
=============================================================================
