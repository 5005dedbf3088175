----------------------------- MODULE MCLauncher ------------------------------
(* Instances of the launcher and of the hook it loads for one run of TLC.  *)
(* They share no variable, so part chooses, once, which of them takes steps.*)
EXTENDS Launcher

CONSTANTS GameModules, Callers, Cycles

VARIABLES
  part,
  refs, own, slot, writable, state, patcherAt, todo, mod, old, missed, answer, cycles, other, otherAt,
  otherOld

hookVars == <<refs, own, slot, writable, state, patcherAt, todo, mod, old, missed, answer, cycles,
              other, otherAt, otherOld>>

H == INSTANCE ImportHook WITH Modules <- GameModules, at <- patcherAt

LaunchingInit == part \in {"launcher", "hook"} /\ Init /\ H!Init

LaunchingNext ==
  /\ \/ part = "launcher" /\ Next /\ UNCHANGED hookVars
     \/ part = "hook" /\ H!Next /\ UNCHANGED vars
  /\ UNCHANGED part

LaunchingSpec ==
  /\ LaunchingInit /\ [][LaunchingNext]_<<part, vars, hookVars>>
  /\ WF_vars(part = "launcher" /\ LaunchStep) /\ WF_vars(part = "launcher" /\ Tick)

(* Threads are finitely many, and no caller is the module monitor.         *)
ASSUME HookConstants == IsFiniteSet(Callers) /\ H!Monitor \notin Callers /\ Cycles \in Nat

(* The hook touches only modules it keeps mapped, counts no reference below*)
(* zero or twice, and answers 1 only once the imports lead to it.          *)
HookIsSound == H!TypeOK /\ H!WorksOnMapped /\ H!ReadyIsPatched

(* No step takes back what is given away or used up: an import that another*)
(* component has taken stays with it, and the launcher never gets back to a*)
(* phase it has left nor a wait the time that has passed.                  *)
NothingIsTakenBack == NeverWaitsAnew /\ H!LeavesOthersImports
=============================================================================
