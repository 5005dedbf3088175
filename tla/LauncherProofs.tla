--------------------------- MODULE LauncherProofs ----------------------------
(* Proofs about Launcher, for any set of modules and any patience: the types*)
(* of its variables, and that a game begins hooked and is never left behind*)
(* half prepared.  The safety properties are not inductive: Phases says what*)
(* each point of launch_offline_game knows about the game.  And about      *)
(* ImportHook, for any callers: its patching is sound, and leaves alone    *)
(* what others wrote.                                                      *)
EXTENDS MCLauncher, FiniteSetTheorems, TLAPS

(***************************************************************************)
(* Types.                                                                  *)
(***************************************************************************)

(* A flag that a step sets, clears or keeps stays a Boolean.                *)
LEMMA BooleanStep ==
  \A to, from : from \in BOOLEAN /\ (to = TRUE \/ to = FALSE \/ to = from) => to \in BOOLEAN
OBVIOUS

(* Debug events are recorded with modules of the game only.                *)
LEMMA ObserveTypes ==
  ASSUME TypeOK, Observe
  PROVE  known' \subseteq AllModules
<1>1. CASE event.kind = "load"
  <2>1. event.module \in AllModules
    BY <1>1 DEF TypeOK, NoEvent, Ev, ModuleEv, ExitOfRemote
  <2>2. QED BY <1>1, <2>1 DEF TypeOK, Observe
<1>2. CASE event.kind = "unload"
  BY <1>2 DEF TypeOK, Observe
<1>3. CASE event.kind \notin {"load", "unload"}
  BY <1>3 DEF TypeOK, Observe
<1>4. QED BY <1>1, <1>2, <1>3

(* The steps of the game keep the types.                                   *)
LEMMA GameTypes ==
  ASSUME TypeOK, Game
  PROVE  TypeOK'
<1> USE DEF TypeOK, gameVars, launcherVars
<1>1. CASE LoadModule       BY <1>1 DEF LoadModule, AllModules
<1>2. CASE UnloadModule     BY <1>2 DEF UnloadModule, AllModules
<1>3. CASE LoaderBreaks     BY <1>3 DEF LoaderBreaks
<1>4. CASE OtherEvent       BY <1>4 DEF OtherEvent
<1>5. CASE ReachEntry       BY <1>5 DEF ReachEntry
<1>6. CASE ExecuteEntry     BY <1>6 DEF ExecuteEntry
<1>7. CASE RunOnTorn        BY <1>7 DEF RunOnTorn
<1>8. CASE RemoteLoads      BY <1>8 DEF RemoteLoads, AllModules
<1>9. CASE RemoteInitialises BY <1>9 DEF RemoteInitialises
<1>10. CASE RemoteReturns   BY <1>10 DEF RemoteReturns
<1>11. CASE GameExits       BY <1>11 DEF GameExits
<1>12. CASE GameIsOver      BY <1>12 DEF GameIsOver
<1>13. QED
  BY <1>1, <1>2, <1>3, <1>4, <1>5, <1>6, <1>7, <1>8, <1>9, <1>10, <1>11, <1>12 DEF Game

(* The steps of the launcher, its death and its clock keep the types.      *)
LEMMA LauncherTypes ==
  ASSUME TypeOK, LaunchStep \/ WaitFails \/ KillLauncher \/ Tick
  PROVE  TypeOK'
<1> USE DEF TypeOK, gameVars, launcherVars, Waits, Finished
<1>1. CASE CheckRequest     BY <1>1 DEF CheckRequest
<1>2. CASE CreateGame       BY <1>2, LauncherConstants DEF CreateGame
<1>3. CASE StartingEvent
  <2>1. known' \subseteq AllModules BY <1>3, ObserveTypes DEF StartingEvent
  <2>2. pc' \in {"starting", "preparing", "failing"} /\ event' \in {event, NoEvent}
    BY <1>3 DEF StartingEvent, Continue, ArmEntry, LeaveEntryHeld
  <2>3. byte' \in {"code", "trap"} /\ at' \in {at, "entry"}
    BY <1>3 DEF StartingEvent, ArmEntry, LeaveEntryHeld
  <2>4. armed' \in BOOLEAN /\ held' \in BOOLEAN
    <3>1. (armed' = TRUE \/ armed' = armed) /\ (held' = TRUE \/ held' = held)
      BY <1>3, Zenon DEF StartingEvent, ArmEntry, LeaveEntryHeld
    <3>2. armed \in BOOLEAN /\ held \in BOOLEAN OBVIOUS
    <3>3. QED BY <3>1, <3>2, BooleanStep
  <2>5. UNCHANGED <<left, killOnExit, result, game, begun, remote, hook, loaded>>
    BY <1>3 DEF StartingEvent, KeepsDeadline
  <2>6. QED BY <2>1, <2>2, <2>3, <2>4, <2>5
<1>4. CASE LoadHook         BY <1>4, LauncherConstants DEF LoadHook, StartRemote
<1>5. CASE InitialiseHook   BY <1>5, LauncherConstants DEF InitialiseHook, StartRemote
<1>6. CASE RemoteEvent
  <2>1. known' \subseteq AllModules BY <1>6, ObserveTypes DEF RemoteEvent
  <2>2. pc' \in {"loading", "initialising", "finding", "detaching", "failing"} /\ event' \in {event, NoEvent}
    BY <1>6 DEF RemoteEvent, Continue, AfterRemote
  <2>3. QED BY <1>6, <2>1, <2>2 DEF RemoteEvent, KeepsDeadline
<1>7. CASE DetachGame
  <2>1. killOnExit' \in BOOLEAN
    <3>1. killOnExit' = FALSE \/ killOnExit' = killOnExit BY <1>7, Zenon DEF DetachGame
    <3>2. killOnExit \in BOOLEAN OBVIOUS
    <3>3. QED BY <3>1, <3>2, BooleanStep
  <2>2. pc' \in {"resuming", "failing"} BY <1>7 DEF DetachGame
  <2>3. UNCHANGED <<left, known, armed, result, game, at, held, byte, begun, remote, hook, loaded, event>>
    BY <1>7 DEF DetachGame
  <2>4. QED BY <2>1, <2>2, <2>3
<1>8. CASE ResumeGame
  <2>1. held' \in BOOLEAN
    <3>1. held' = FALSE \/ held' = held BY <1>8, Zenon DEF ResumeGame
    <3>2. held \in BOOLEAN OBVIOUS
    <3>3. QED BY <3>1, <3>2, BooleanStep
  <2>2. pc' \in {"leaving", "failing"} /\ result' \in {result, "ok"}
    BY <1>8 DEF ResumeGame
  <2>3. UNCHANGED <<left, known, armed, killOnExit, game, at, byte, begun, remote, hook, loaded, event>>
    BY <1>8 DEF ResumeGame
  <2>4. QED BY <2>1, <2>2, <2>3
<1>9. CASE Leave            BY <1>9 DEF Leave
<1>10. CASE TimeOut \/ WaitFails BY <1>10 DEF TimeOut, WaitFails, GiveUp
<1>11. CASE AbandonGame     BY <1>11 DEF AbandonGame
<1>12. CASE KillLauncher    BY <1>12 DEF KillLauncher
<1>13. CASE Tick            BY <1>13, LauncherConstants DEF Tick
<1>14. QED
  BY <1>1, <1>2, <1>3, <1>4, <1>5, <1>6, <1>7, <1>8, <1>9, <1>10, <1>11, <1>12, <1>13 DEF LaunchStep

LEMMA TypesStart == Init => TypeOK
<1> SUFFICES ASSUME Init PROVE TypeOK OBVIOUS
<1>1. left \in 0..Patience BY LauncherConstants DEF Init
<1>2. armed \in BOOLEAN /\ killOnExit \in BOOLEAN /\ held \in BOOLEAN BY DEF Init
<1>3. QED BY <1>1, <1>2 DEF Init, TypeOK

LEMMA TypesStay == TypeOK /\ [Next]_vars => TypeOK'
<1> SUFFICES ASSUME TypeOK, [Next]_vars PROVE TypeOK' OBVIOUS
<1>1. CASE Next BY <1>1, GameTypes, LauncherTypes DEF Next
<1>2. CASE UNCHANGED vars
  BY <1>2 DEF vars, launcherVars, gameVars, TypeOK
<1>3. QED BY <1>1, <1>2

(* Every variable of the launcher and its game has its type.               *)
THEOREM LaunchTypes == Spec => []TypeOK
BY TypesStart, TypesStay, PTL DEF Spec

(***************************************************************************)
(* What the launcher knows of the game at each point.                      *)
(***************************************************************************)

(* A game that exits runs nothing any more, so its hook does not matter.   *)
Hooked  == hook = "ready" \/ game = "exiting"
Fresh   == killOnExit = TRUE /\ begun = "no" /\ hook = "absent" /\ remote = "none"
Unarmed == /\ armed = FALSE /\ byte = "code" /\ held = FALSE
           /\ \/ at = "loader" /\ event.kind # "breakpoint"
              \/ at = "routines" /\ event = Ev("breakpoint")
Armed   == /\ armed = TRUE /\ byte = "trap" /\ held = FALSE
           /\ at \in {"routines", "entry"} \/ (at = "behind" /\ event = Ev("trap"))
AtEntry == held = TRUE /\ byte = "code" /\ at = "entry" /\ begun = "no"
Whole   == /\ byte = "code" /\ at \in {"entry", "program"}
           /\ begun = "no" \/ (begun = "whole" /\ hook = "ready")

Phases ==
  /\ event.kind = "threadExit" /\ event.code = 1 => Hooked
  /\ remote = "LoadLibrary" => hook # "ready"
  /\ game = "absent" => begun = "no"
  /\ pc \in {"checking", "creating"} =>
       game = "absent" /\ Fresh /\ Unarmed /\ at = "loader"
  /\ pc = "starting" => game # "absent" /\ Fresh /\ (Unarmed \/ Armed)
  /\ pc = "preparing" => game # "absent" /\ Fresh /\ AtEntry
  /\ pc \in {"loading", "finding", "initialising", "detaching"} =>
       game # "absent" /\ killOnExit = TRUE /\ AtEntry
  /\ pc \in {"detaching", "resuming"} => Hooked
  /\ pc = "resuming" => game # "absent" /\ AtEntry
  /\ pc = "leaving" => game # "absent" /\ Whole /\ Hooked /\ held = FALSE /\ result = "ok"
  /\ pc = "failing" => game # "absent" /\ (killOnExit = TRUE \/ (AtEntry /\ Hooked))
  /\ pc \in Finished => \/ game \in {"absent", "dead"}
                        \/ /\ Whole /\ Hooked
                           /\ pc = "ended" => held = FALSE /\ result = "ok"

(* The launcher and its game start in a phase.                             *)
LEMMA PhasesStart == Init => Phases
BY DEF Init, Phases, Finished, Fresh, Unarmed, NoEvent

(* The steps of the game leave every phase.                                *)
LEMMA GamePhases ==
  ASSUME TypeOK, Phases, Game
  PROVE  Phases'
<1> USE DEF Phases, Hooked, Fresh, Unarmed, Armed, AtEntry, Whole, Finished, launcherVars,
            Runs, MainRuns, NoEvent, Ev, ModuleEv, ExitOfRemote
<1>1. CASE LoadModule       BY <1>1 DEF LoadModule
<1>2. CASE UnloadModule     BY <1>2 DEF UnloadModule
<1>3. CASE LoaderBreaks     BY <1>3 DEF LoaderBreaks
<1>4. CASE OtherEvent       BY <1>4 DEF OtherEvent
<1>5. CASE ReachEntry       BY <1>5 DEF ReachEntry
<1>6. CASE ExecuteEntry     BY <1>6 DEF ExecuteEntry
<1>7. CASE RunOnTorn        BY <1>7 DEF RunOnTorn
<1>8. CASE RemoteLoads      BY <1>8 DEF RemoteLoads
<1>9. CASE RemoteInitialises BY <1>9 DEF RemoteInitialises
<1>10. CASE RemoteReturns   BY <1>10 DEF RemoteReturns
<1>11. CASE GameExits       BY <1>11 DEF GameExits
<1>12. CASE GameIsOver      BY <1>12 DEF GameIsOver
<1>13. QED
  BY <1>1, <1>2, <1>3, <1>4, <1>5, <1>6, <1>7, <1>8, <1>9, <1>10, <1>11, <1>12 DEF Game

(* The steps of the launcher lead from each phase to the next.             *)
LEMMA LauncherPhases ==
  ASSUME TypeOK, Phases, LaunchStep \/ WaitFails \/ KillLauncher \/ Tick
  PROVE  Phases'
<1> USE DEF Phases, Hooked, Fresh, Unarmed, Armed, AtEntry, Whole, Waits, Finished, gameVars,
            NoEvent, Ev
<1>1. CASE CheckRequest     BY <1>1 DEF CheckRequest
<1>2. CASE CreateGame       BY <1>2 DEF CreateGame
<1>3. CASE StartingEvent    BY <1>3 DEF StartingEvent, Continue, ArmEntry, LeaveEntryHeld
<1>4. CASE LoadHook         BY <1>4 DEF LoadHook, StartRemote
<1>5. CASE InitialiseHook   BY <1>5 DEF InitialiseHook, StartRemote
<1>6. CASE RemoteEvent      BY <1>6 DEF RemoteEvent, Continue, AfterRemote
<1>7. CASE DetachGame       BY <1>7 DEF DetachGame
<1>8. CASE ResumeGame       BY <1>8 DEF ResumeGame
<1>9. CASE Leave            BY <1>9 DEF Leave
<1>10. CASE TimeOut \/ WaitFails BY <1>10 DEF TimeOut, WaitFails, GiveUp
<1>11. CASE AbandonGame     BY <1>11 DEF AbandonGame
<1>12. CASE KillLauncher
  <2>1. CASE killOnExit = TRUE
    <3>1. game' \in {"dead", "absent"} /\ (game' = "absent" => begun' = "no")
      <4>1. killOnExit /\ begun' = begun BY <1>12, <2>1, Zenon DEF KillLauncher
      <4>2. game' = IF game # "absent" THEN "dead" ELSE game BY <1>12, <4>1, Zenon DEF KillLauncher
      <4>3. QED BY <4>1, <4>2
    <3>2. pc' = "killed" /\ event' = NoEvent /\ remote' = remote /\ hook' = hook
      BY <1>12 DEF KillLauncher
    <3>3. QED BY <3>1, <3>2
  <2>2. CASE killOnExit # TRUE
    <3>1. ~killOnExit
      <4>1. killOnExit \in BOOLEAN BY DEF TypeOK
      <4>2. QED BY <2>2, <4>1
    <3>2. game' = game BY <1>12, <3>1, Zenon DEF KillLauncher
    <3>3. pc' = "killed" /\ event' = NoEvent /\ pc \notin Finished \cup {"checking"}
      BY <1>12 DEF KillLauncher
    <3>4. UNCHANGED <<held, at, byte, begun, remote, hook, result>> BY <1>12, Zenon DEF KillLauncher
    <3>5. pc \in {"resuming", "leaving", "failing"}
      <4>1. pc \in Waits \cup {"creating", "preparing", "finding", "detaching"} => killOnExit = TRUE
        OBVIOUS
      <4>2. pc \in Waits \cup {"creating", "preparing", "finding", "detaching",
                             "resuming", "leaving", "failing"}
        BY <3>3 DEF TypeOK
      <4>3. QED BY <2>2, <4>1, <4>2
    <3>6. Whole /\ Hooked BY <2>2, <3>5
    <3>7. Whole' /\ Hooked' BY <3>2, <3>4, <3>6
    <3>8. remote' = "LoadLibrary" => hook' # "ready" BY <3>4
    <3>9. game' # "absent" BY <3>2, <3>5
    <3>10. QED BY <3>3, <3>7, <3>8, <3>9
  <2>3. QED BY <2>1, <2>2
<1>13. CASE Tick            BY <1>13 DEF Tick
<1>14. QED
  BY <1>1, <1>2, <1>3, <1>4, <1>5, <1>6, <1>7, <1>8, <1>9, <1>10, <1>11, <1>12, <1>13 DEF LaunchStep

(* They stay in the phases.                                                *)
LEMMA PhasesHold == Spec => []Phases
<1>1. TypeOK /\ Phases /\ [Next]_vars => Phases'
  <2> SUFFICES ASSUME TypeOK, Phases, [Next]_vars PROVE Phases' OBVIOUS
  <2>1. CASE Next BY <2>1, GamePhases, LauncherPhases DEF Next
  <2>2. CASE UNCHANGED vars
    BY <2>2 DEF vars, launcherVars, gameVars, Phases, Hooked, Fresh, Unarmed, Armed, AtEntry, Whole, Finished
  <2>3. QED BY <2>1, <2>2
<1>2. QED BY <1>1, PhasesStart, LaunchTypes, PTL DEF Spec

(* The program of the game begins with the hook initialised and with its own*)
(* first instruction, unless the launcher has given the game up.           *)
THEOREM BeginsHooked == Spec => []ProgramBeginsHooked
<1>1. TypeOK /\ Phases => ProgramBeginsHooked
  BY DEF TypeOK, Phases, ProgramBeginsHooked, Waits, Finished, Hooked, Fresh, AtEntry, Whole
<1>2. QED BY <1>1, LaunchTypes, PhasesHold, PTL

(* Whatever fails and whenever the launcher is killed, it leaves no game   *)
(* behind that lives without its hook.                                     *)
THEOREM NoneLeftBehind == Spec => []NoGameLeftBehind
<1>1. TypeOK /\ Phases => NoGameLeftBehind
  BY DEF TypeOK, Phases, NoGameLeftBehind, Finished, Hooked, Whole
<1>2. QED BY <1>1, LaunchTypes, PhasesHold, PTL

(***************************************************************************)
(* Time.                                                                   *)
(***************************************************************************)

(* A step that keeps the phase does not give the wait more time; any other *)
(* goes to a later phase.                                                  *)
Onward == Ahead' <= Ahead /\ (Ahead' = Ahead => pc' = pc /\ left' <= left)

LEMMA Stays ==
  ASSUME TypeOK, UNCHANGED pc, left' <= left
  PROVE  Onward
BY DEF TypeOK, Onward, Ahead, Waits, Finished

(* What is ahead of each phase, and how a step may change it.              *)
LEMMA GoesOn ==
  ASSUME TypeOK, Ahead' < Ahead, Ahead \in Nat, Ahead' \in Nat
  PROVE  Onward
BY DEF Onward

LEMMA LaunchGoesOn ==
  ASSUME TypeOK, LaunchStep \/ WaitFails \/ KillLauncher \/ Tick
  PROVE  Onward
<1>1. left \in Nat BY DEF TypeOK
<1>2. CASE CheckRequest     BY <1>2, GoesOn DEF CheckRequest, Ahead, Finished
<1>3. CASE CreateGame       BY <1>3, GoesOn DEF CreateGame, Ahead, Finished
<1>4. CASE StartingEvent
  <2>1. pc = "starting" /\ pc' \in {"starting", "preparing", "failing"} /\ left' = left
    BY <1>4 DEF StartingEvent, Continue, ArmEntry, LeaveEntryHeld, KeepsDeadline
  <2>2. CASE pc' = pc BY <1>1, <2>1, <2>2, Stays
  <2>3. CASE pc' # pc BY <2>1, <2>3, GoesOn DEF Ahead, Finished
  <2>4. QED BY <2>2, <2>3
<1>5. CASE LoadHook         BY <1>5, GoesOn DEF LoadHook, StartRemote, Ahead, Finished
<1>6. CASE InitialiseHook   BY <1>6, GoesOn DEF InitialiseHook, StartRemote, Ahead, Finished
<1>7. CASE RemoteEvent
  <2>1. left' = left /\ pc \in {"loading", "initialising"} BY <1>7 DEF RemoteEvent, KeepsDeadline
  <2>2. pc = "loading" => pc' \in {"loading", "finding", "failing"}
    BY <1>7 DEF RemoteEvent, Continue, AfterRemote
  <2>3. pc = "initialising" => pc' \in {"initialising", "detaching", "failing"}
    BY <1>7 DEF RemoteEvent, Continue, AfterRemote
  <2>4. CASE pc' = pc BY <1>1, <2>1, <2>4, Stays
  <2>5. CASE pc' # pc BY <2>1, <2>2, <2>3, <2>5, GoesOn DEF Ahead, Finished
  <2>6. QED BY <2>4, <2>5
<1>8. CASE DetachGame       BY <1>8, GoesOn DEF DetachGame, Ahead, Finished
<1>9. CASE ResumeGame       BY <1>9, GoesOn DEF ResumeGame, Ahead, Finished
<1>10. CASE Leave \/ AbandonGame BY <1>10, GoesOn DEF Leave, AbandonGame, Ahead, Finished
<1>11. CASE TimeOut \/ WaitFails
  BY <1>11, GoesOn DEF TimeOut, WaitFails, GiveUp, Waits, Ahead, Finished
<1>12. CASE KillLauncher    BY <1>12, GoesOn DEF KillLauncher, TypeOK, Waits, Ahead, Finished
<1>13. CASE Tick            BY <1>1, <1>13, Stays DEF Tick
<1>14. QED
  BY <1>2, <1>3, <1>4, <1>5, <1>6, <1>7, <1>8, <1>9, <1>10, <1>11, <1>12, <1>13 DEF LaunchStep

LEMMA StepsGoOn == TypeOK /\ [Next]_vars => [Onward]_vars
<1> SUFFICES ASSUME TypeOK, Next PROVE Onward OBVIOUS
<1>1. CASE Game
  <2>1. UNCHANGED <<pc, left>> /\ left \in Nat
    BY <1>1 DEF Game, LoadModule, UnloadModule, LoaderBreaks, OtherEvent, ReachEntry,
                ExecuteEntry, RunOnTorn, RemoteLoads, RemoteInitialises, RemoteReturns,
                GameExits, GameIsOver, launcherVars, TypeOK
  <2>2. QED BY <2>1, Stays
<1>2. QED BY <1>1, LaunchGoesOn DEF Next

(***************************************************************************)
(* The hook: who holds a module, and what a scan has still to do.          *)
(***************************************************************************)
Pinned     == {"protect", "exchange", "restore", "unpin"}
Unpatched  == {"pin", "protect", "exchange"}
InModule   == {"pin"} \union Pinned
Scanning   == {"pick"} \union InModule

Holders(m) == {p \in H!Patchers : patcherAt[p] \in Pinned /\ mod[p] = m}
Bit(b)     == IF b THEN 1 ELSE 0

(* Who works on a module knows it, and every reference to one is the game's*)
(* or that of a patcher which works on it.                                 *)
RefsAreHeld ==
  /\ \A p \in H!Patchers : patcherAt[p] \in InModule => mod[p] \in GameModules
  /\ \A m \in GameModules : refs[m] = Bit(m \in own) + Cardinality(Holders(m))

(* At most one patcher is at work: the caller that took the state from 0 to*)
(* 1, or the monitor, which that caller starts when it has nothing to do   *)
(* any more but to answer.                                                 *)
Busy(p)    == patcherAt[p] \notin {"idle", "answer"}
Handed     == state = 2 \/ \E c \in Callers : patcherAt[c] = "answer"

OneScans ==
  /\ \A c \in Callers : patcherAt[c] # "idle" => state = 1
  /\ \A c, d \in Callers : patcherAt[c] # "idle" /\ patcherAt[d] # "idle" => c = d
  /\ patcherAt[H!Monitor] \notin {"resolve", "answer"}
  /\ patcherAt[H!Monitor] # "idle" \/ cycles > 0 => Handed
  /\ \A c \in Callers : answer[c] = 1 => state = 2

(* A mapped module that could be patched and whose import still leads to   *)
(* the system is one that the scan has not come to or is about to patch.   *)
Left(p) == todo[p] \union {m \in GameModules : patcherAt[p] \in Unpatched /\ mod[p] = m}
Settled(M) == \A m \in H!Mapped \ missed : m \in M \/ slot[m] # "system"

ScanCovers ==
  /\ \A p \in H!Patchers : patcherAt[p] \in Scanning => Settled(Left(p))
  /\ \A p \in H!Patchers : patcherAt[p] = "done" => Settled({})
  /\ Handed /\ patcherAt[H!Monitor] = "idle" => Settled({})

(* The types, without the bound on the counts of references.               *)
HookTypes ==
  /\ own \subseteq GameModules /\ refs \in [GameModules -> Nat]
  /\ slot \in [GameModules -> H!Imports] /\ writable \subseteq GameModules
  /\ missed \subseteq GameModules /\ state \in 0..2
  /\ patcherAt \in [H!Patchers -> {"idle", "resolve", "snapshot", "pick", "pin", "protect",
                                   "exchange", "restore", "unpin", "done", "answer"}]
  /\ todo \in [H!Patchers -> SUBSET GameModules]
  /\ mod \in [H!Patchers -> GameModules \union {H!NoModule}]
  /\ old \in [H!Patchers -> BOOLEAN] /\ answer \in [Callers -> {0, 1, 10, 11, 12}]
  /\ cycles \in 0..Cycles
  /\ other \in GameModules \union {H!NoModule} /\ otherAt \in {"idle", "write", "restore"}
  /\ otherOld \in BOOLEAN
  /\ otherAt # "idle" => other \in GameModules

HookInv == HookTypes /\ RefsAreHeld /\ OneScans /\ ScanCovers

LEMMA PatchersAreFinite == IsFiniteSet(H!Patchers)
BY HookConstants, FS_AddElement DEF H!Patchers

(* Whoever else holds a module still does when one patcher has moved.      *)
LEMMA HoldersTally ==
  ASSUME HookTypes, NEW p \in H!Patchers, NEW m,
         \A q \in H!Patchers \ {p} : patcherAt'[q] = patcherAt[q] /\ mod'[q] = mod[q]
  PROVE  /\ Cardinality(Holders(m)) \in Nat /\ Cardinality(Holders(m)') \in Nat
         /\ Cardinality(Holders(m)') - Bit(p \in Holders(m)')
              = Cardinality(Holders(m)) - Bit(p \in Holders(m))
<1>1. PICK S : S = Holders(m) OBVIOUS
<1>2. PICK T : T = Holders(m)' OBVIOUS
<1>3. S \subseteq H!Patchers /\ T \subseteq H!Patchers
  BY <1>1, <1>2 DEF Holders
<1>4. S \ {p} = T \ {p}
  BY <1>1, <1>2 DEF Holders
<1>5. IsFiniteSet(S) /\ IsFiniteSet(T)
  BY <1>3, PatchersAreFinite, FS_Subset
<1>6. /\ Cardinality(S \ {p}) = Cardinality(S) - Bit(p \in S)
      /\ Cardinality(T \ {p}) = Cardinality(T) - Bit(p \in T)
  BY <1>5, FS_RemoveElement, FS_CardinalityType DEF Bit
<1>7. Cardinality(S) \in Nat /\ Cardinality(T) \in Nat
  BY <1>5, FS_CardinalityType
<1>8. Cardinality(T) - Bit(p \in T) = Cardinality(S) - Bit(p \in S)
  BY <1>4, <1>6
<1>9. QED BY <1>1, <1>2, <1>7, <1>8

(* Two patchers that are at work are one.                                  *)
LEMMA OneIsAtWork ==
  ASSUME OneScans, NEW p \in H!Patchers, NEW q \in H!Patchers, Busy(p), Busy(q)
  PROVE  p = q
BY DEF OneScans, Busy, Handed, H!Patchers

(* A step of a patcher that neither pins nor lets go of its module.        *)
LEMMA HoldingStays ==
  ASSUME HookTypes, RefsAreHeld, NEW p \in H!Patchers, NEW next,
         patcherAt' = [patcherAt EXCEPT ![p] = next],
         \A q \in H!Patchers \ {p} : mod'[q] = mod[q],
         next \in Pinned <=> patcherAt[p] \in Pinned,
         next \in Pinned => mod'[p] = mod[p],
         next = "pin" => mod'[p] \in GameModules,
         UNCHANGED <<refs, own>>
  PROVE  RefsAreHeld'
<1>1. patcherAt'[p] = next /\ \A q \in H!Patchers \ {p} : patcherAt'[q] = patcherAt[q]
  BY DEF HookTypes
<1>2. \A q \in H!Patchers : patcherAt'[q] \in InModule => mod'[q] \in GameModules
  BY <1>1 DEF RefsAreHeld, InModule
<1>3. \A m : Holders(m)' = Holders(m)
  BY <1>1 DEF Holders
<1>4. QED BY <1>2, <1>3 DEF RefsAreHeld

(* A patcher that is at work stays the only one.                           *)
LEMMA WorkGoesOn ==
  ASSUME HookTypes, OneScans, NEW p \in H!Patchers,
         NEW next, next \notin {"idle", "resolve", "answer"}, Busy(p),
         patcherAt' = [patcherAt EXCEPT ![p] = next], UNCHANGED <<state, cycles, answer>>
  PROVE  OneScans'
<1>1. patcherAt'[p] = next /\ \A q \in H!Patchers \ {p} : patcherAt'[q] = patcherAt[q]
  BY DEF HookTypes
<1>2. \A c \in Callers : patcherAt'[c] # "idle" => patcherAt[c] # "idle"
  BY <1>1 DEF H!Patchers, Busy
<1>3. patcherAt'[H!Monitor] # "idle" => patcherAt[H!Monitor] # "idle"
  BY <1>1 DEF H!Patchers, Busy
<1>4. patcherAt'[H!Monitor] \notin {"resolve", "answer"}
  BY <1>1 DEF H!Patchers, OneScans
<1>5. Handed' <=> Handed
  BY <1>1 DEF Handed, Busy, H!Patchers
<1>6. QED BY <1>2, <1>3, <1>4, <1>5 DEF OneScans

(* What is to be shown of a scan is to be shown of the one that scans.     *)
LEMMA ScanGoesOn ==
  ASSUME HookTypes, OneScans, NEW p \in H!Patchers, NEW next, next \notin {"idle", "answer"},
         Busy(p), patcherAt' = [patcherAt EXCEPT ![p] = next], UNCHANGED state,
         next \in Scanning => Settled(Left(p))', next = "done" => Settled({})'
  PROVE  ScanCovers'
<1>1. patcherAt'[p] = next /\ \A q \in H!Patchers \ {p} : patcherAt'[q] = patcherAt[q]
  BY DEF HookTypes
<1>2. \A q \in H!Patchers \ {p} : patcherAt'[q] \in {"idle", "answer"}
  <2>1. \A q \in H!Patchers \ {p} : ~Busy(q) BY OneIsAtWork
  <2>2. QED BY <1>1, <2>1 DEF Busy
<1>3. Handed' => p = H!Monitor
  <2>1. Handed' => Handed BY <1>1 DEF Handed, H!Patchers
  <2>2. QED BY <2>1 DEF OneScans, Handed, Busy, H!Patchers
<1>4. \A q \in H!Patchers : patcherAt'[q] \in Scanning => q = p
  BY <1>2 DEF Scanning, InModule, Pinned
<1>5. \A q \in H!Patchers : patcherAt'[q] = "done" => q = p
  BY <1>2
<1>6. Handed' /\ patcherAt'[H!Monitor] = "idle" => Settled({})'
  BY <1>1, <1>3
<1>7. \A q \in H!Patchers : patcherAt'[q] \in Scanning => Settled(Left(q))'
  BY <1>1, <1>4
<1>8. \A q \in H!Patchers : patcherAt'[q] = "done" => Settled({})'
  BY <1>1, <1>5
<1>9. QED BY <1>6, <1>7, <1>8 DEF ScanCovers

LEMMA TakeSnapshotStep ==
  ASSUME HookInv, NEW p \in H!Patchers, H!TakeSnapshot(p)
  PROVE  HookInv'
<1>1. /\ HookTypes /\ RefsAreHeld /\ OneScans /\ ScanCovers /\ patcherAt[p] = "snapshot"
      /\ UNCHANGED <<refs, own, slot, writable, state, mod, old, answer, cycles,
                     other, otherAt, otherOld>>
  BY DEF HookInv, H!TakeSnapshot, H!otherVars
<1>2. CASE /\ todo' = [todo EXCEPT ![p] = H!Mapped] /\ missed' = {}
           /\ patcherAt' = [patcherAt EXCEPT ![p] = "pick"]
  <2>1. H!Mapped \subseteq GameModules /\ H!Mapped' = H!Mapped BY <1>1 DEF H!Mapped
  <2>2. HookTypes' BY <1>1, <1>2, <2>1 DEF HookTypes
  <2>3. RefsAreHeld' BY <1>1, <1>2, HoldingStays DEF Pinned
  <2>4. OneScans' BY <1>1, <1>2, WorkGoesOn DEF Busy
  <2>5. Settled(Left(p))' BY <1>1, <1>2, <2>1 DEF Settled, Left, HookTypes
  <2>6. ScanCovers' BY <1>1, <1>2, <2>5, ScanGoesOn DEF Busy
  <2>7. QED BY <2>2, <2>3, <2>4, <2>6 DEF HookInv
<1>3. CASE /\ missed' = GameModules /\ todo' = todo
           /\ patcherAt' = [patcherAt EXCEPT ![p] = "done"]
  <2>1. HookTypes' BY <1>1, <1>3 DEF HookTypes
  <2>2. RefsAreHeld' BY <1>1, <1>3, HoldingStays DEF Pinned
  <2>3. OneScans' BY <1>1, <1>3, WorkGoesOn DEF Busy
  <2>4. Settled({})' BY <1>3 DEF Settled, H!Mapped
  <2>5. ScanCovers' BY <1>1, <1>3, <2>4, ScanGoesOn DEF Busy, Scanning, InModule, Pinned
  <2>6. QED BY <2>1, <2>2, <2>3, <2>5 DEF HookInv
<1>4. QED BY <1>2, <1>3 DEF H!TakeSnapshot, H!Snapshot, H!Step

LEMMA PickStep ==
  ASSUME HookInv, NEW p \in H!Patchers, H!Pick(p)
  PROVE  HookInv'
<1>1. /\ HookTypes /\ RefsAreHeld /\ OneScans /\ ScanCovers /\ patcherAt[p] = "pick"
      /\ UNCHANGED <<refs, own, slot, writable, state, old, missed, answer, cycles,
                     other, otherAt, otherOld>>
  BY DEF HookInv, H!Pick, H!otherVars
<1>2. Settled(todo[p]) /\ H!Mapped' = H!Mapped
  BY <1>1 DEF ScanCovers, Scanning, Left, Unpatched, Settled, H!Mapped
<1>3. CASE /\ todo[p] = {} /\ patcherAt' = [patcherAt EXCEPT ![p] = "done"]
           /\ UNCHANGED <<todo, mod>>
  <2>1. HookTypes' BY <1>1, <1>3 DEF HookTypes
  <2>2. RefsAreHeld' BY <1>1, <1>3, HoldingStays DEF Pinned
  <2>3. OneScans' BY <1>1, <1>3, WorkGoesOn DEF Busy
  <2>4. Settled({})' BY <1>1, <1>2, <1>3 DEF Settled
  <2>5. ScanCovers' BY <1>1, <1>3, <2>4, ScanGoesOn DEF Busy, Scanning, InModule, Pinned
  <2>6. QED BY <2>1, <2>2, <2>3, <2>5 DEF HookInv
<1>4. CASE \E m \in todo[p] : /\ mod' = [mod EXCEPT ![p] = m]
                              /\ todo' = [todo EXCEPT ![p] = @ \ {m}]
                              /\ patcherAt' = [patcherAt EXCEPT ![p] = "pin"]
  <2>1. PICK m \in todo[p] : /\ mod' = [mod EXCEPT ![p] = m]
                             /\ todo' = [todo EXCEPT ![p] = todo[p] \ {m}]
                             /\ patcherAt' = [patcherAt EXCEPT ![p] = "pin"]
    BY <1>4
  <2>2. m \in GameModules BY <1>1, <2>1 DEF HookTypes
  <2>3. HookTypes' BY <1>1, <2>1, <2>2 DEF HookTypes
  <2>4. RefsAreHeld'
    <3>1. mod'[p] = m /\ \A q \in H!Patchers \ {p} : mod'[q] = mod[q]
      BY <1>1, <2>1 DEF HookTypes
    <3>2. QED BY <1>1, <2>1, <2>2, <3>1, HoldingStays DEF Pinned
  <2>5. OneScans' BY <1>1, <2>1, WorkGoesOn DEF Busy
  <2>6. Settled(Left(p))'
    <3>1. todo'[p] = todo[p] \ {m} /\ patcherAt'[p] = "pin" /\ mod'[p] = m
      BY <1>1, <2>1 DEF HookTypes
    <3>2. Left(p)' = todo[p]
      BY <1>1, <2>1, <2>2, <3>1 DEF Left, Unpatched, HookTypes
    <3>3. QED BY <1>1, <1>2, <3>2 DEF Settled
  <2>7. ScanCovers' BY <1>1, <2>1, <2>6, ScanGoesOn DEF Busy
  <2>8. QED BY <2>3, <2>4, <2>5, <2>7 DEF HookInv
<1>5. QED BY <1>3, <1>4 DEF H!Pick, H!Step

(* A module that is mapped gets one reference more, the patcher's.         *)
LEMMA PinStep ==
  ASSUME HookInv, NEW p \in H!Patchers, H!Pin(p)
  PROVE  HookInv'
<1>1. /\ HookTypes /\ RefsAreHeld /\ OneScans /\ ScanCovers /\ patcherAt[p] = "pin"
      /\ UNCHANGED <<own, slot, writable, state, todo, mod, old, missed, answer, cycles, other,
                     otherAt, otherOld>>
  BY DEF HookInv, H!Pin, H!otherVars
<1>2. Settled(todo[p] \union {mod[p]}) /\ mod[p] \in GameModules
  BY <1>1 DEF ScanCovers, Scanning, InModule, Left, Settled, RefsAreHeld
<1>3. CASE refs[mod[p]] > 0
  <2>1. PICK m \in GameModules : m = mod[p] BY <1>2
  <2>2. /\ refs' = [refs EXCEPT ![m] = refs[m] + 1]
        /\ patcherAt' = [patcherAt EXCEPT ![p] = "protect"]
    BY <1>3, <2>1, Zenon DEF H!Pin, H!Step
  <2>3. HookTypes' BY <1>1, <2>2 DEF HookTypes
  <2>4. RefsAreHeld'
    <3>1. \A q \in H!Patchers \ {p} : patcherAt'[q] = patcherAt[q] /\ mod'[q] = mod[q]
      BY <1>1, <2>2 DEF HookTypes
    <3>2. patcherAt'[p] = "protect" BY <1>1, <2>2 DEF HookTypes
    <3>3. \A n \in GameModules : p \notin Holders(n) /\ (p \in Holders(n)' <=> n = m)
      BY <1>1, <2>1, <3>2 DEF Holders, Pinned
    <3>4. \A n \in GameModules : refs'[n] = refs[n] + Bit(n = m)
      BY <1>1, <2>2 DEF HookTypes, Bit
    <3>5. ASSUME NEW n \in GameModules
          PROVE  refs'[n] = Bit(n \in own') + Cardinality(Holders(n)')
      <4>1. /\ Cardinality(Holders(n)) \in Nat /\ Cardinality(Holders(n)') \in Nat
            /\ Cardinality(Holders(n)') - Bit(p \in Holders(n)')
                 = Cardinality(Holders(n)) - Bit(p \in Holders(n))
        BY <1>1, <3>1, HoldersTally
      <4>2. Cardinality(Holders(n)') = Cardinality(Holders(n)) + Bit(n = m)
        BY <3>3, <4>1 DEF Bit
      <4>3. refs[n] = Bit(n \in own) + Cardinality(Holders(n))
        BY <1>1 DEF RefsAreHeld
      <4>4. QED BY <1>1, <3>4, <4>1, <4>2, <4>3 DEF Bit
    <3>6. \A q \in H!Patchers : patcherAt'[q] \in InModule => mod'[q] \in GameModules
      BY <1>1, <1>2, <3>1 DEF RefsAreHeld
    <3>7. QED BY <3>5, <3>6 DEF RefsAreHeld
  <2>5. OneScans' BY <1>1, <2>2, WorkGoesOn DEF Busy
  <2>6. Settled(Left(p))'
    <3>1. H!Mapped' = H!Mapped BY <1>1, <1>3, <2>1, <2>2 DEF H!Mapped, HookTypes
    <3>2. Left(p)' = todo[p] \union {mod[p]}
      BY <1>1, <1>2, <2>2 DEF Left, Unpatched, HookTypes
    <3>3. QED BY <1>1, <1>2, <3>1, <3>2 DEF Settled
  <2>7. ScanCovers' BY <1>1, <2>2, <2>6, ScanGoesOn DEF Busy
  <2>8. QED BY <2>3, <2>4, <2>5, <2>7 DEF HookInv
<1>4. CASE ~(refs[mod[p]] > 0)
  <2>1. refs' = refs /\ patcherAt' = [patcherAt EXCEPT ![p] = "pick"]
    BY <1>4, Zenon DEF H!Pin, H!Step
  <2>2. HookTypes' BY <1>1, <2>1 DEF HookTypes
  <2>3. RefsAreHeld' BY <1>1, <2>1, HoldingStays DEF Pinned
  <2>4. OneScans' BY <1>1, <2>1, WorkGoesOn DEF Busy
  <2>5. Settled(Left(p))'
    <3>1. mod[p] \notin H!Mapped /\ H!Mapped' = H!Mapped BY <1>4, <2>1 DEF H!Mapped
    <3>2. Left(p)' = todo[p]
      BY <1>1, <2>1 DEF Left, Unpatched, HookTypes
    <3>3. QED BY <1>1, <1>2, <3>1, <3>2 DEF Settled
  <2>6. ScanCovers' BY <1>1, <2>1, <2>5, ScanGoesOn DEF Busy
  <2>7. QED BY <2>2, <2>3, <2>4, <2>6 DEF HookInv
<1>5. QED BY <1>3, <1>4

LEMMA ProtectStep ==
  ASSUME HookInv, NEW p \in H!Patchers, H!Protect(p)
  PROVE  HookInv'
<1>1. /\ HookTypes /\ RefsAreHeld /\ OneScans /\ ScanCovers /\ patcherAt[p] = "protect"
      /\ UNCHANGED <<refs, own, slot, state, todo, mod, answer, cycles, other, otherAt, otherOld>>
  BY DEF HookInv, H!Protect, H!otherVars
<1>2. /\ Settled(todo[p] \union {mod[p]}) /\ mod[p] \in GameModules /\ H!Mapped' = H!Mapped
  BY <1>1 DEF ScanCovers, Scanning, InModule, Pinned, Left, Settled, RefsAreHeld, H!Mapped
<1>3. /\ writable' \subseteq GameModules /\ old' \in [H!Patchers -> BOOLEAN]
      /\ \/ missed' = missed /\ patcherAt' = [patcherAt EXCEPT ![p] = "exchange"]
         \/ /\ missed' = missed \union {mod[p]}
            /\ patcherAt' = [patcherAt EXCEPT ![p] = "unpin"]
  <2>1. CASE /\ old' = [old EXCEPT ![p] = mod[p] \in writable]
             /\ writable' = writable \union {mod[p]} /\ missed' = missed
             /\ patcherAt' = [patcherAt EXCEPT ![p] = "exchange"]
    <3>1. old' = [old EXCEPT ![p] = TRUE] \/ old' = [old EXCEPT ![p] = FALSE]
      <4>1. CASE mod[p] \in writable BY <2>1, <4>1
      <4>2. CASE mod[p] \notin writable
        <5>1. (mod[p] \in writable) = FALSE BY <4>2
        <5>2. old' = [old EXCEPT ![p] = FALSE] BY <2>1, <5>1, Zenon
        <5>3. QED BY <5>2
      <4>3. QED BY <4>1, <4>2
    <3>2. old' \in [H!Patchers -> BOOLEAN] BY <1>1, <3>1 DEF HookTypes
    <3>3. QED BY <1>1, <1>2, <2>1, <3>2 DEF HookTypes
  <2>2. CASE /\ missed' = missed \union {mod[p]} /\ UNCHANGED <<old, writable>>
             /\ patcherAt' = [patcherAt EXCEPT ![p] = "unpin"]
    BY <1>1, <2>2 DEF HookTypes
  <2>3. QED BY <2>1, <2>2, Zenon DEF H!Protect, H!Step
<1>4. CASE missed' = missed /\ patcherAt' = [patcherAt EXCEPT ![p] = "exchange"]
  <2>1. HookTypes' BY <1>1, <1>3, <1>4 DEF HookTypes
  <2>2. RefsAreHeld' BY <1>1, <1>4, HoldingStays DEF Pinned
  <2>3. OneScans' BY <1>1, <1>4, WorkGoesOn DEF Busy
  <2>4. Settled(Left(p))'
    <3>1. Left(p)' = todo[p] \union {mod[p]}
      BY <1>1, <1>2, <1>4 DEF Left, Unpatched, HookTypes
    <3>2. QED BY <1>1, <1>2, <1>4, <3>1 DEF Settled
  <2>5. ScanCovers' BY <1>1, <1>4, <2>4, ScanGoesOn DEF Busy
  <2>6. QED BY <2>1, <2>2, <2>3, <2>5 DEF HookInv
<1>5. CASE missed' = missed \union {mod[p]} /\ patcherAt' = [patcherAt EXCEPT ![p] = "unpin"]
  <2>1. HookTypes' BY <1>1, <1>2, <1>3, <1>5 DEF HookTypes
  <2>2. RefsAreHeld' BY <1>1, <1>5, HoldingStays DEF Pinned
  <2>3. OneScans' BY <1>1, <1>5, WorkGoesOn DEF Busy
  <2>4. Settled(Left(p))'
    <3>1. Left(p)' = todo[p] BY <1>1, <1>5 DEF Left, Unpatched, HookTypes
    <3>2. QED BY <1>1, <1>2, <1>5, <3>1 DEF Settled
  <2>5. ScanCovers' BY <1>1, <1>5, <2>4, ScanGoesOn DEF Busy
  <2>6. QED BY <2>1, <2>2, <2>3, <2>5 DEF HookInv
<1>6. QED BY <1>3, <1>4, <1>5

LEMMA ExchangeStep ==
  ASSUME HookInv, NEW p \in H!Patchers, H!Exchange(p)
  PROVE  HookInv'
<1>1. /\ HookTypes /\ RefsAreHeld /\ OneScans /\ ScanCovers /\ patcherAt[p] = "exchange"
      /\ UNCHANGED <<refs, own, writable, state, todo, mod, old, answer, cycles,
                     other, otherAt, otherOld>>
  BY DEF HookInv, H!Exchange, H!otherVars
<1>2. /\ Settled(todo[p] \union {mod[p]}) /\ mod[p] \in GameModules /\ H!Mapped' = H!Mapped
  BY <1>1 DEF ScanCovers, Scanning, InModule, Pinned, Left, Settled, RefsAreHeld, H!Mapped
<1>3. PICK m \in GameModules : m = mod[p] BY <1>2
<1>4. CASE m \in writable
  <2>1. /\ slot' = [slot EXCEPT ![m] = H!Exchanged(m)] /\ missed' = missed
        /\ patcherAt' = [patcherAt EXCEPT ![p] = "restore"]
    BY <1>3, <1>4, Zenon DEF H!Exchange, H!Step
  <2>2. H!Exchanged(m) \in H!Imports /\ H!Exchanged(m) # "system"
    BY <1>1 DEF H!Exchanged, H!Imports, HookTypes
  <2>3. HookTypes' BY <1>1, <2>1, <2>2 DEF HookTypes
  <2>4. RefsAreHeld' BY <1>1, <2>1, HoldingStays DEF Pinned
  <2>5. OneScans' BY <1>1, <2>1, WorkGoesOn DEF Busy
  <2>6. Settled(Left(p))'
    <3>1. Left(p)' = todo[p] BY <1>1, <2>1 DEF Left, Unpatched, HookTypes
    <3>2. \A k \in GameModules : slot'[k] = IF k = m THEN H!Exchanged(m) ELSE slot[k]
      BY <1>1, <2>1 DEF HookTypes
    <3>3. QED BY <1>1, <1>2, <1>3, <2>1, <2>2, <3>1, <3>2 DEF Settled, H!Mapped
  <2>7. ScanCovers' BY <1>1, <2>1, <2>6, ScanGoesOn DEF Busy
  <2>8. QED BY <2>3, <2>4, <2>5, <2>7 DEF HookInv
<1>5. CASE m \notin writable
  <2>1. /\ missed' = missed \union {m} /\ slot' = slot
        /\ patcherAt' = [patcherAt EXCEPT ![p] = "unpin"]
    BY <1>3, <1>5, Zenon DEF H!Exchange, H!Step
  <2>2. HookTypes' BY <1>1, <2>1 DEF HookTypes
  <2>3. RefsAreHeld' BY <1>1, <2>1, HoldingStays DEF Pinned
  <2>4. OneScans' BY <1>1, <2>1, WorkGoesOn DEF Busy
  <2>5. Settled(Left(p))'
    <3>1. Left(p)' = todo[p] BY <1>1, <2>1 DEF Left, Unpatched, HookTypes
    <3>2. QED BY <1>1, <1>2, <1>3, <2>1, <3>1 DEF Settled
  <2>6. ScanCovers' BY <1>1, <2>1, <2>5, ScanGoesOn DEF Busy
  <2>7. QED BY <2>2, <2>3, <2>4, <2>6 DEF HookInv
<1>6. QED BY <1>4, <1>5

LEMMA RestoreStep ==
  ASSUME HookInv, NEW p \in H!Patchers, H!Restore(p)
  PROVE  HookInv'
<1>1. /\ HookTypes /\ RefsAreHeld /\ OneScans /\ ScanCovers /\ patcherAt[p] = "restore"
      /\ patcherAt' = [patcherAt EXCEPT ![p] = "unpin"]
      /\ UNCHANGED <<refs, own, slot, state, todo, mod, old, missed, answer, cycles,
                     other, otherAt, otherOld>>
  BY DEF HookInv, H!Restore, H!Step, H!otherVars
<1>2. Settled(todo[p]) /\ mod[p] \in GameModules /\ H!Mapped' = H!Mapped
  BY <1>1 DEF ScanCovers, Scanning, InModule, Pinned, Unpatched, Left, Settled, RefsAreHeld, H!Mapped
<1>3. writable' \subseteq GameModules
  BY <1>1, <1>2 DEF H!Restore, HookTypes
<1>4. HookTypes' BY <1>1, <1>3 DEF HookTypes
<1>5. RefsAreHeld' BY <1>1, HoldingStays DEF Pinned
<1>6. OneScans' BY <1>1, WorkGoesOn DEF Busy
<1>7. Settled(Left(p))'
  <2>1. Left(p)' = todo[p] BY <1>1 DEF Left, Unpatched, HookTypes
  <2>2. QED BY <1>1, <1>2, <2>1 DEF Settled
<1>8. ScanCovers' BY <1>1, <1>7, ScanGoesOn DEF Busy
<1>9. QED BY <1>4, <1>5, <1>6, <1>8 DEF HookInv

(* The patcher lets go of what it had pinned, and of nothing else.         *)
LEMMA UnpinStep ==
  ASSUME HookInv, NEW p \in H!Patchers, H!Unpin(p)
  PROVE  HookInv'
<1>1. /\ HookTypes /\ RefsAreHeld /\ OneScans /\ ScanCovers /\ patcherAt[p] = "unpin"
      /\ patcherAt' = [patcherAt EXCEPT ![p] = "pick"]
      /\ mod' = [mod EXCEPT ![p] = H!NoModule] /\ old' = [old EXCEPT ![p] = FALSE]
      /\ refs' = [refs EXCEPT ![mod[p]] = refs[mod[p]] - 1]
      /\ UNCHANGED <<own, slot, writable, state, todo, missed, answer, cycles,
                     other, otherAt, otherOld>>
  BY DEF HookInv, H!Unpin, H!Step, H!otherVars
<1>2. Settled(todo[p]) /\ mod[p] \in GameModules
  BY <1>1 DEF ScanCovers, Scanning, InModule, Pinned, Unpatched, Left, Settled, RefsAreHeld
<1>3. PICK m \in GameModules : m = mod[p] BY <1>2
<1>4. refs' = [refs EXCEPT ![m] = refs[m] - 1] BY <1>1, <1>3
<1>5. \A q \in H!Patchers \ {p} : patcherAt'[q] = patcherAt[q] /\ mod'[q] = mod[q]
  BY <1>1 DEF HookTypes
<1>6. patcherAt'[p] = "pick" BY <1>1 DEF HookTypes
<1>7. \A n \in GameModules : p \notin Holders(n)' /\ (p \in Holders(n) <=> n = m)
  BY <1>1, <1>3, <1>6 DEF Holders, Pinned
<1>8. ASSUME NEW n \in GameModules
      PROVE  /\ Cardinality(Holders(n)') = Cardinality(Holders(n)) - Bit(n = m)
             /\ Cardinality(Holders(n)') \in Nat
             /\ refs[n] = Bit(n \in own) + Cardinality(Holders(n))
             /\ Cardinality(Holders(n)) \in Nat
  <2>1. /\ Cardinality(Holders(n)) \in Nat /\ Cardinality(Holders(n)') \in Nat
        /\ Cardinality(Holders(n)') - Bit(p \in Holders(n)')
             = Cardinality(Holders(n)) - Bit(p \in Holders(n))
    BY <1>1, <1>5, HoldersTally
  <2>2. Cardinality(Holders(n)') = Cardinality(Holders(n)) - Bit(n = m)
    BY <1>7, <2>1 DEF Bit
  <2>3. QED BY <1>1, <2>1, <2>2 DEF RefsAreHeld
<1>9. refs[m] \in Nat \ {0}
  BY <1>8 DEF Bit
<1>10. HookTypes' BY <1>1, <1>4, <1>9 DEF HookTypes
<1>11. RefsAreHeld'
  <2>1. \A n \in GameModules : refs'[n] = refs[n] - Bit(n = m)
    BY <1>1, <1>4 DEF HookTypes, Bit
  <2>2. \A n \in GameModules : refs'[n] = Bit(n \in own') + Cardinality(Holders(n)')
    BY <1>1, <1>8, <2>1 DEF Bit
  <2>3. \A q \in H!Patchers : patcherAt'[q] \in InModule => mod'[q] \in GameModules
    BY <1>1, <1>5, <1>6 DEF RefsAreHeld, InModule, Pinned
  <2>4. QED BY <2>2, <2>3 DEF RefsAreHeld
<1>12. OneScans' BY <1>1, WorkGoesOn DEF Busy
<1>13. Settled(Left(p))'
  <2>1. Left(p)' = todo[p] BY <1>1, <1>6 DEF Left, Unpatched
  <2>2. H!Mapped' \subseteq H!Mapped BY <1>1, <1>4, <1>9 DEF H!Mapped, HookTypes
  <2>3. QED BY <1>1, <1>2, <2>1, <2>2 DEF Settled
<1>14. ScanCovers' BY <1>1, <1>13, ScanGoesOn DEF Busy
<1>15. QED BY <1>10, <1>11, <1>12, <1>14 DEF HookInv

LEMMA CallStep ==
  ASSUME HookInv, NEW c \in Callers, H!Call(c)
  PROVE  HookInv'
<1>1. /\ HookTypes /\ RefsAreHeld /\ OneScans /\ ScanCovers /\ patcherAt[c] = "idle"
      /\ UNCHANGED <<refs, own, slot, writable, todo, mod, old, missed, cycles,
                     other, otherAt, otherOld>>
      /\ c \in H!Patchers /\ c # H!Monitor
  BY HookConstants DEF HookInv, H!Call, H!otherVars, H!Patchers
<1>2. CASE state # 0 /\ answer' = [answer EXCEPT ![c] = H!Early] /\ UNCHANGED <<state, patcherAt>>
  <2>1. H!Early \in {1, 12} /\ (H!Early = 1 => state = 2) BY DEF H!Early
  <2>2. HookTypes' BY <1>1, <1>2, <2>1 DEF HookTypes
  <2>3. RefsAreHeld' BY <1>1, <1>2 DEF RefsAreHeld, Holders
  <2>4. \A d \in Callers : answer'[d] = 1 => state' = 2
    BY <1>1, <1>2, <2>1 DEF OneScans, HookTypes
  <2>5. OneScans' BY <1>1, <1>2, <2>4 DEF OneScans, Handed
  <2>6. ScanCovers' BY <1>1, <1>2 DEF ScanCovers, Handed, Settled, Left, H!Mapped
  <2>7. QED BY <2>2, <2>3, <2>5, <2>6 DEF HookInv
<1>3. CASE /\ state = 0 /\ state' = 1 /\ answer' = answer
           /\ patcherAt' = [patcherAt EXCEPT ![c] = "resolve"]
  <2>1. HookTypes' BY <1>1, <1>3 DEF HookTypes
  <2>2. RefsAreHeld' BY <1>1, <1>3, HoldingStays DEF Pinned
  <2>3. \A p \in H!Patchers : patcherAt[p] = "idle"
    BY <1>1, <1>3 DEF OneScans, Handed, H!Patchers
  <2>4. patcherAt'[c] = "resolve" /\ \A p \in H!Patchers \ {c} : patcherAt'[p] = "idle"
    BY <1>1, <1>3, <2>3 DEF HookTypes
  <2>5. OneScans'
    <3>1. \A d \in Callers : patcherAt'[d] # "idle" => d = c BY <2>4 DEF H!Patchers
    <3>2. patcherAt'[H!Monitor] = "idle" BY <1>1, <2>4 DEF H!Patchers
    <3>3. cycles = 0 /\ \A d \in Callers : answer[d] # 1
      BY <1>1, <1>3, <2>3 DEF OneScans, Handed, HookTypes, H!Patchers
    <3>4. QED BY <1>1, <1>3, <3>1, <3>2, <3>3 DEF OneScans
  <2>6. ScanCovers'
    <3>1. \A p \in H!Patchers : patcherAt'[p] \in {"resolve", "idle"} BY <2>4
    <3>2. QED BY <1>3, <3>1 DEF ScanCovers, Handed, Scanning, InModule, Pinned, H!Patchers
  <2>7. QED BY <2>1, <2>2, <2>5, <2>6 DEF HookInv
<1>4. QED BY <1>2, <1>3 DEF H!Call, H!Step

LEMMA ResolveStep ==
  ASSUME HookInv, NEW c \in Callers, H!Resolve(c)
  PROVE  HookInv'
<1>1. /\ HookTypes /\ RefsAreHeld /\ OneScans /\ ScanCovers /\ patcherAt[c] = "resolve"
      /\ UNCHANGED <<refs, own, slot, writable, todo, mod, old, missed, cycles,
                     other, otherAt, otherOld>>
      /\ c \in H!Patchers /\ c # H!Monitor /\ state = 1
  BY HookConstants DEF HookInv, H!Resolve, H!otherVars, H!Patchers, OneScans
<1>2. CASE patcherAt' = [patcherAt EXCEPT ![c] = "snapshot"] /\ UNCHANGED <<state, answer>>
  <2>1. HookTypes' BY <1>1, <1>2 DEF HookTypes
  <2>2. RefsAreHeld' BY <1>1, <1>2, HoldingStays DEF Pinned
  <2>3. OneScans' BY <1>1, <1>2, WorkGoesOn DEF Busy
  <2>4. ScanCovers' BY <1>1, <1>2, ScanGoesOn DEF Busy, Scanning, InModule, Pinned
  <2>5. QED BY <2>1, <2>2, <2>3, <2>4 DEF HookInv
<1>3. CASE /\ state' = 0 /\ patcherAt' = [patcherAt EXCEPT ![c] = "idle"]
           /\ \E e \in {10, 11} : answer' = [answer EXCEPT ![c] = e]
  <2>1. PICK e \in {10, 11} : answer' = [answer EXCEPT ![c] = e] BY <1>3
  <2>2. HookTypes' BY <1>1, <1>3, <2>1 DEF HookTypes
  <2>3. RefsAreHeld' BY <1>1, <1>3, HoldingStays DEF Pinned
  <2>4. \A p \in H!Patchers : patcherAt'[p] = "idle"
    <3>1. \A p \in H!Patchers \ {c} : patcherAt[p] = "idle"
      BY <1>1 DEF OneScans, Handed, H!Patchers
    <3>2. QED BY <1>1, <1>3, <3>1 DEF HookTypes
  <2>5. OneScans'
    <3>1. \A d \in Callers : answer'[d] # 1
      BY <1>1, <2>1 DEF OneScans, HookTypes
    <3>2. cycles' = 0
      <4>1. ~Handed BY <1>1 DEF OneScans, Handed
      <4>2. QED BY <1>1, <4>1 DEF OneScans, HookTypes
    <3>3. QED BY <2>4, <3>1, <3>2 DEF OneScans, H!Patchers
  <2>6. ScanCovers' BY <1>3, <2>4 DEF ScanCovers, Handed, Scanning, InModule, Pinned, H!Patchers
  <2>7. QED BY <2>2, <2>3, <2>5, <2>6 DEF HookInv
<1>4. QED BY <1>2, <1>3 DEF H!Resolve, H!Step

(* The caller starts the monitor with everything settled, and leaves the   *)
(* rest to it.                                                             *)
LEMMA StartMonitorStep ==
  ASSUME HookInv, NEW c \in Callers, H!StartMonitor(c)
  PROVE  HookInv'
<1>1. /\ HookTypes /\ RefsAreHeld /\ OneScans /\ ScanCovers /\ patcherAt[c] = "done"
      /\ UNCHANGED <<refs, own, slot, writable, state, todo, mod, old, missed, answer, other, otherAt,
                     otherOld>>
      /\ c \in H!Patchers /\ c # H!Monitor /\ state = 1 /\ cycles' \in {0, Cycles}
      /\ patcherAt' = [patcherAt EXCEPT ![c] = "answer"]
  BY HookConstants DEF HookInv, H!StartMonitor, H!Step, H!otherVars, H!Patchers, OneScans
<1>2. HookTypes' BY <1>1, HookConstants DEF HookTypes
<1>3. RefsAreHeld' BY <1>1, HoldingStays DEF Pinned
<1>4. patcherAt'[c] = "answer" /\ \A p \in H!Patchers \ {c} : patcherAt'[p] = "idle"
  <2>1. \A p \in H!Patchers \ {c} : patcherAt[p] = "idle"
    BY <1>1 DEF OneScans, Handed, H!Patchers
  <2>2. QED BY <1>1, <2>1 DEF HookTypes
<1>5. OneScans'
  <2>1. patcherAt'[H!Monitor] = "idle" /\ Handed' BY <1>1, <1>4 DEF Handed, H!Patchers
  <2>2. \A d \in Callers : patcherAt'[d] # "idle" => d = c BY <1>4 DEF H!Patchers
  <2>3. \A d \in Callers : answer'[d] = 1 => state' = 2 BY <1>1 DEF OneScans
  <2>4. QED BY <1>1, <2>1, <2>2, <2>3 DEF OneScans
<1>6. Settled({})' BY <1>1 DEF ScanCovers, Settled, H!Mapped
<1>7. \A p \in H!Patchers : patcherAt'[p] \in {"idle", "answer"} BY <1>4
<1>8. ScanCovers' BY <1>6, <1>7 DEF ScanCovers, Scanning, InModule, Pinned
<1>9. QED BY <1>2, <1>3, <1>5, <1>8 DEF HookInv

(* The caller answers 1, with the monitor wherever it may be.              *)
LEMMA AnswerStep ==
  ASSUME HookInv, NEW c \in Callers, H!Answer(c)
  PROVE  HookInv'
<1>1. /\ HookTypes /\ RefsAreHeld /\ OneScans /\ ScanCovers /\ patcherAt[c] = "answer"
      /\ UNCHANGED <<refs, own, slot, writable, todo, mod, old, missed, cycles,
                     other, otherAt, otherOld>>
      /\ c \in H!Patchers /\ c # H!Monitor /\ state' = 2
      /\ answer' = [answer EXCEPT ![c] = 1] /\ patcherAt' = [patcherAt EXCEPT ![c] = "idle"]
  BY HookConstants DEF HookInv, H!Answer, H!Step, H!otherVars, H!Patchers
<1>2. HookTypes' BY <1>1 DEF HookTypes
<1>3. RefsAreHeld' BY <1>1, HoldingStays DEF Pinned
<1>4. /\ \A p \in H!Patchers \ {c} : patcherAt'[p] = patcherAt[p]
      /\ \A d \in Callers : patcherAt'[d] = "idle"
  BY <1>1 DEF HookTypes, OneScans, H!Patchers
<1>5. Handed /\ Handed' BY <1>1 DEF Handed
<1>6. patcherAt'[H!Monitor] = patcherAt[H!Monitor] BY <1>1, <1>4 DEF H!Patchers
<1>7. OneScans' BY <1>1, <1>4, <1>5, <1>6 DEF OneScans
<1>8. ScanCovers'
  <2>1. \A M : Settled(M) => Settled(M)' BY <1>1 DEF Settled, H!Mapped
  <2>2. ASSUME NEW p \in H!Patchers, patcherAt'[p] \in Scanning PROVE Settled(Left(p))'
    <3>1. p # c BY <1>1, <1>4, <2>2 DEF Scanning, InModule, Pinned
    <3>2. patcherAt'[p] = patcherAt[p] BY <1>4, <3>1
    <3>3. Settled(Left(p)) BY <1>1, <2>2, <3>2 DEF ScanCovers
    <3>4. Left(p)' = Left(p) BY <1>1, <3>2 DEF Left
    <3>5. QED BY <1>1, <3>3, <3>4 DEF Settled, H!Mapped
  <2>3. ASSUME NEW p \in H!Patchers, patcherAt'[p] = "done" PROVE Settled({})'
    <3>1. p # c BY <1>1, <1>4, <2>3
    <3>2. QED BY <1>1, <1>4, <2>1, <2>3, <3>1 DEF ScanCovers
  <2>4. patcherAt'[H!Monitor] = "idle" => Settled({})' BY <1>1, <1>5, <1>6, <2>1 DEF ScanCovers
  <2>5. QED BY <2>2, <2>3, <2>4 DEF ScanCovers
<1>9. QED BY <1>2, <1>3, <1>7, <1>8 DEF HookInv

LEMMA MonitorStep ==
  ASSUME HookInv, H!Awake \/ H!Sleep
  PROVE  HookInv'
<1>1. /\ HookTypes /\ RefsAreHeld /\ OneScans /\ ScanCovers
      /\ UNCHANGED <<refs, own, slot, writable, state, todo, mod, old, missed, answer, other, otherAt,
                     otherOld>>
      /\ H!Monitor \in H!Patchers /\ Handed
  BY DEF HookInv, H!Awake, H!Sleep, H!otherVars, H!Patchers, OneScans
<1>2. PICK next \in {"snapshot", "idle"} :
        /\ patcherAt' = [patcherAt EXCEPT ![H!Monitor] = next]
        /\ patcherAt[H!Monitor] \in {"idle", "done"}
        /\ cycles' \in 0..Cycles
  <2>1. CASE H!Awake
    <3>1. cycles' \in 0..Cycles BY <1>1, <2>1, HookConstants DEF H!Awake, HookTypes
    <3>2. QED BY <2>1, <3>1 DEF H!Awake, H!Step
  <2>2. CASE H!Sleep
    BY <1>1, <2>2 DEF H!Sleep, H!Step, HookTypes
  <2>3. QED BY <2>1, <2>2
<1>3. HookTypes' BY <1>1, <1>2 DEF HookTypes
<1>4. RefsAreHeld' BY <1>1, <1>2, HoldingStays DEF Pinned
<1>5. \A c \in Callers : patcherAt[c] \in {"idle", "answer"} /\ c # H!Monitor
  BY <1>1, HookConstants DEF OneScans, Handed, H!Patchers
<1>6. patcherAt'[H!Monitor] = next /\ \A c \in Callers : patcherAt'[c] = patcherAt[c]
  BY <1>1, <1>2, <1>5 DEF HookTypes, H!Patchers
<1>7. Handed' BY <1>1, <1>6 DEF Handed
<1>8. OneScans' BY <1>1, <1>6, <1>7 DEF OneScans
<1>9. Settled({})'
  <2>1. Settled({}) BY <1>1, <1>2 DEF ScanCovers
  <2>2. QED BY <1>1, <2>1 DEF Settled, H!Mapped
<1>10. \A p \in H!Patchers : patcherAt'[p] \in {"snapshot", "idle", "answer"}
  BY <1>5, <1>6 DEF H!Patchers
<1>11. ScanCovers' BY <1>9, <1>10 DEF ScanCovers, Scanning, InModule, Pinned
<1>12. QED BY <1>3, <1>4, <1>8, <1>11 DEF HookInv

(***************************************************************************)
(* The game around the hook.                                               *)
(***************************************************************************)

(* What is mapped and not missed was so before, and is patched if it was.  *)
LEMMA OthersStep ==
  ASSUME HookInv, HookTypes', RefsAreHeld',
         UNCHANGED <<patcherAt, todo, mod, state, cycles, answer>>,
         \A m \in H!Mapped' \ missed' : /\ m \in H!Mapped \ missed
                                        /\ slot[m] # "system" => slot'[m] # "system"
  PROVE  HookInv'
<1>1. OneScans' /\ (Handed' <=> Handed) BY DEF HookInv, OneScans, Handed
<1>2. \A M : Settled(M) => \A m \in H!Mapped' \ missed' : m \in M \/ slot'[m] # "system"
  BY DEF Settled
<1>3. \A p : Left(p)' = Left(p) BY DEF Left
<1>4. ScanCovers'
  <2>1. ASSUME NEW p \in H!Patchers, patcherAt'[p] \in Scanning PROVE Settled(Left(p))'
    <3>1. Settled(Left(p)) BY <2>1 DEF HookInv, ScanCovers
    <3>2. QED BY <1>2, <1>3, <3>1 DEF Settled
  <2>2. ASSUME Settled({}) PROVE Settled({})'
    BY <1>2, <2>2 DEF Settled
  <2>3. QED BY <1>1, <2>1, <2>2 DEF HookInv, ScanCovers
<1>5. QED BY <1>1, <1>4 DEF HookInv

LEMMA GameSteps ==
  ASSUME HookInv, NEW m \in GameModules, H!Load(m) \/ H!Unload(m) \/ H!OtherStarts(m)
  PROVE  HookInv'
<1>1. /\ HookTypes /\ RefsAreHeld
      /\ UNCHANGED <<state, patcherAt, todo, mod, old, answer, cycles>>
  BY DEF HookInv, H!Load, H!Unload, H!OtherStarts, H!patcherVars
<1>2. \A n \in GameModules :
        /\ Cardinality(Holders(n)) \in Nat /\ Holders(n)' = Holders(n)
        /\ refs[n] = Bit(n \in own) + Cardinality(Holders(n))
  <2>1. \A n : Holders(n) \subseteq H!Patchers /\ Holders(n)' = Holders(n) BY <1>1 DEF Holders
  <2>2. QED BY <1>1, <2>1, PatchersAreFinite, FS_Subset, FS_CardinalityType DEF RefsAreHeld
<1>3. \A q \in H!Patchers : patcherAt'[q] \in InModule => mod'[q] \in GameModules
  BY <1>1 DEF RefsAreHeld
<1>4. CASE H!Load(m)
  <2>1. /\ m \notin own /\ own' = own \union {m} /\ refs' = [refs EXCEPT ![m] = refs[m] + 1]
        /\ UNCHANGED <<other, otherAt, otherOld>>
    BY <1>4 DEF H!Load, H!otherVars
  <2>2. /\ slot' \in [GameModules -> H!Imports] /\ writable' \subseteq GameModules
        /\ missed' \subseteq GameModules
    BY <1>1, <1>4 DEF H!Load, HookTypes, H!Imports
  <2>3. HookTypes'
    <3>1. refs' \in [GameModules -> Nat] /\ own' \subseteq GameModules
      BY <1>1, <2>1 DEF HookTypes
    <3>2. QED BY <1>1, <2>1, <2>2, <3>1 DEF HookTypes
  <2>4. \A n \in GameModules : refs'[n] = refs[n] + Bit(n = m)
    BY <1>1, <2>1 DEF HookTypes, Bit
  <2>5. \A n \in GameModules : refs'[n] = Bit(n \in own') + Cardinality(Holders(n)')
    BY <1>2, <2>1, <2>4 DEF Bit
  <2>6. RefsAreHeld' BY <1>3, <2>5 DEF RefsAreHeld
  <2>7. \A n \in H!Mapped' \ missed' : /\ n \in H!Mapped \ missed
                                       /\ slot[n] # "system" => slot'[n] # "system"
    <3>1. CASE refs[m] > 0
      <4>1. UNCHANGED <<slot, missed>> BY <1>4, <3>1, Zenon DEF H!Load
      <4>2. QED BY <1>1, <2>4, <3>1, <4>1 DEF H!Mapped, Bit, HookTypes
    <3>2. CASE ~(refs[m] > 0)
      <4>1. slot' = [slot EXCEPT ![m] = "system"] /\ missed' = missed \union {m}
        BY <1>4, <3>2, Zenon DEF H!Load
      <4>2. QED BY <1>1, <2>4, <4>1 DEF H!Mapped, Bit, HookTypes
    <3>3. QED BY <3>1, <3>2
  <2>8. QED BY <1>1, <2>3, <2>6, <2>7, OthersStep
<1>5. CASE H!Unload(m)
  <2>1. /\ m \in own /\ own' = own \ {m} /\ refs' = [refs EXCEPT ![m] = refs[m] - 1]
        /\ UNCHANGED <<slot, writable, missed, other, otherAt, otherOld>>
    BY <1>5 DEF H!Unload, H!otherVars
  <2>2. refs[m] \in Nat \ {0} BY <1>2, <2>1 DEF Bit
  <2>3. HookTypes' BY <1>1, <2>1, <2>2 DEF HookTypes
  <2>4. \A n \in GameModules : refs'[n] = refs[n] - Bit(n = m)
    BY <1>1, <2>1 DEF HookTypes, Bit
  <2>5. \A n \in GameModules : refs'[n] = Bit(n \in own') + Cardinality(Holders(n)')
    BY <1>2, <2>1, <2>4 DEF Bit
  <2>6. RefsAreHeld' BY <1>3, <2>5 DEF RefsAreHeld
  <2>7. H!Mapped' \subseteq H!Mapped BY <1>1, <2>2, <2>4 DEF H!Mapped, Bit, HookTypes
  <2>8. QED BY <1>1, <2>1, <2>3, <2>6, <2>7, OthersStep
<1>6. CASE H!OtherStarts(m)
  <2>1. HookTypes' BY <1>1, <1>6 DEF H!OtherStarts, HookTypes
  <2>2. UNCHANGED <<refs, own, slot, missed>> BY <1>6 DEF H!OtherStarts
  <2>3. RefsAreHeld' BY <1>2, <1>3, <2>2 DEF RefsAreHeld
  <2>4. H!Mapped' = H!Mapped BY <2>2 DEF H!Mapped
  <2>5. QED BY <1>1, <2>1, <2>2, <2>3, <2>4, OthersStep
<1>7. QED BY <1>4, <1>5, <1>6

LEMMA OtherPatches ==
  ASSUME HookInv, H!OtherWrites \/ H!OtherRestores
  PROVE  HookInv'
<1>1. /\ HookTypes /\ RefsAreHeld /\ otherAt # "idle"
      /\ UNCHANGED <<refs, own, state, patcherAt, todo, mod, old, missed, answer, cycles>>
  BY DEF HookInv, H!OtherWrites, H!OtherRestores, H!patcherVars
<1>2. PICK m \in GameModules : m = other BY <1>1 DEF HookTypes
<1>3. HookTypes' /\ \A n \in GameModules : slot[n] # "system" => slot'[n] # "system"
  <2>1. CASE H!OtherWrites
    BY <1>1, <1>2, <2>1 DEF H!OtherWrites, HookTypes, H!Imports
  <2>2. CASE H!OtherRestores
    BY <1>1, <1>2, <2>2 DEF H!OtherRestores, HookTypes
  <2>3. QED BY <2>1, <2>2
<1>4. RefsAreHeld' BY <1>1 DEF RefsAreHeld, Holders
<1>5. H!Mapped' = H!Mapped /\ H!Mapped \subseteq GameModules BY <1>1 DEF H!Mapped
<1>6. QED BY <1>1, <1>3, <1>4, <1>5, OthersStep

LEMMA HookInit == H!Init => HookInv
<1> SUFFICES ASSUME H!Init PROVE HookInv
  OBVIOUS
<1>1. HookTypes
  <2>1. /\ own \subseteq GameModules /\ writable \subseteq GameModules /\ missed \subseteq GameModules
        /\ state \in 0..2 /\ cycles \in 0..Cycles
    BY HookConstants DEF H!Init
  <2>2. refs \in [GameModules -> Nat] /\ slot \in [GameModules -> H!Imports]
    BY DEF H!Init, H!Imports
  <2>3. /\ todo \in [H!Patchers -> SUBSET GameModules] /\ old \in [H!Patchers -> BOOLEAN]
        /\ mod \in [H!Patchers -> GameModules \union {H!NoModule}]
        /\ answer \in [Callers -> {0, 1, 10, 11, 12}]
    BY DEF H!Init
  <2>4. patcherAt \in [H!Patchers -> {"idle", "resolve", "snapshot", "pick", "pin", "protect",
                                     "exchange", "restore", "unpin", "done", "answer"}]
    BY DEF H!Init
  <2>5. other = H!NoModule /\ otherAt = "idle" /\ otherOld \in BOOLEAN BY DEF H!Init
  <2>6. QED BY <2>1, <2>2, <2>3, <2>4, <2>5 DEF HookTypes
<1>2. \A m : Holders(m) = {} BY DEF H!Init, Holders, Pinned
<1>3. RefsAreHeld
  BY <1>2, FS_EmptySet DEF H!Init, RefsAreHeld, InModule, Pinned, Bit
<1>4. OneScans BY DEF H!Init, OneScans, H!Patchers
<1>5. ScanCovers BY DEF H!Init, ScanCovers, Handed, Scanning, InModule, Pinned, H!Patchers
<1>6. QED BY <1>1, <1>3, <1>4, <1>5 DEF HookInv

LEMMA HookStep == HookInv /\ [H!Next]_hookVars => HookInv'
<1> SUFFICES ASSUME HookInv, [H!Next]_hookVars PROVE HookInv'
  OBVIOUS
<1>1. ASSUME NEW m \in GameModules, H!Load(m) \/ H!Unload(m) \/ H!OtherStarts(m) PROVE HookInv'
  BY <1>1, GameSteps
<1>2. CASE H!OtherWrites \/ H!OtherRestores BY <1>2, OtherPatches
<1>3. ASSUME NEW c \in Callers, H!Call(c) \/ H!Resolve(c) \/ H!StartMonitor(c) \/ H!Answer(c)
      PROVE  HookInv'
  BY <1>3, CallStep, ResolveStep, StartMonitorStep, AnswerStep
<1>4. ASSUME NEW p \in H!Patchers, H!Patch(p) PROVE HookInv'
  BY <1>4, TakeSnapshotStep, PickStep, PinStep, ProtectStep, ExchangeStep, RestoreStep, UnpinStep
  DEF H!Patch
<1>5. CASE H!Awake \/ H!Sleep BY <1>5, MonitorStep
<1>6. CASE UNCHANGED hookVars
  <2>1. UNCHANGED <<refs, own, slot, writable, state, patcherAt, todo, mod, old, missed, answer,
                    cycles, other, otherAt, otherOld>>
    BY <1>6 DEF hookVars
  <2>2. HookTypes' /\ RefsAreHeld' /\ H!Mapped' = H!Mapped
    BY <2>1 DEF HookInv, HookTypes, RefsAreHeld, Holders, H!Mapped
  <2>3. QED BY <2>1, <2>2, OthersStep
<1>7. QED BY <1>1, <1>2, <1>3, <1>4, <1>5, <1>6 DEF H!Next

(* A count of references is bounded by the patchers there are.             *)
LEMMA HookInvMeans == HookInv => HookIsSound
<1> SUFFICES ASSUME HookInv PROVE HookIsSound
  OBVIOUS
<1>1. \A S : H!Cardinality(S) = Cardinality(S)
  BY DEF Cardinality, H!Cardinality
<1>2. ASSUME NEW m \in GameModules
      PROVE  /\ refs[m] \in 0..(1 + Cardinality(H!Patchers))
             /\ \A p \in Holders(m) : refs[m] > 0
  <2>1. Holders(m) \subseteq H!Patchers BY DEF Holders
  <2>2. /\ Cardinality(Holders(m)) \in Nat /\ Cardinality(H!Patchers) \in Nat
        /\ Cardinality(Holders(m)) <= Cardinality(H!Patchers)
    BY <2>1, PatchersAreFinite, FS_Subset, FS_CardinalityType
  <2>3. Cardinality(Holders(m)) = 0 => Holders(m) = {}
    BY <2>1, PatchersAreFinite, FS_Subset, FS_EmptySet
  <2>4. refs[m] = Bit(m \in own) + Cardinality(Holders(m))
    BY DEF HookInv, RefsAreHeld
  <2>5. QED BY <2>2, <2>3, <2>4 DEF Bit
<1>3. H!TypeOK
  <2>1. refs \in [GameModules -> 0..(1 + H!Cardinality(H!Patchers))]
    <3>1. PICK n : n = 1 + Cardinality(H!Patchers) OBVIOUS
    <3>2. \A m \in GameModules : refs[m] \in 0..n BY <1>2, <3>1
    <3>3. refs \in [GameModules -> 0..n] BY <3>2 DEF HookInv, HookTypes
    <3>4. QED BY <1>1, <3>1, <3>3
  <2>2. QED BY <2>1 DEF HookInv, HookTypes, H!TypeOK
<1>4. H!WorksOnMapped
  <2> SUFFICES ASSUME NEW p \in H!Patchers, patcherAt[p] \in Pinned PROVE refs[mod[p]] > 0
    BY DEF H!WorksOnMapped, Pinned
  <2>1. mod[p] \in GameModules BY DEF HookInv, RefsAreHeld, InModule
  <2>2. p \in Holders(mod[p]) BY DEF Holders
  <2>3. QED BY <1>2, <2>1, <2>2
<1>5. H!ReadyIsPatched
  <2> SUFFICES ASSUME NEW c \in Callers, answer[c] = 1, patcherAt[H!Monitor] \in {"idle", "done"}
               PROVE  Settled({})
    BY DEF H!ReadyIsPatched, Settled
  <2>1. Handed BY DEF HookInv, OneScans, Handed
  <2>2. QED BY <2>1 DEF HookInv, ScanCovers, H!Patchers
<1>6. QED BY <1>3, <1>4, <1>5 DEF HookIsSound

LEMMA HookHolds == LaunchingSpec => []HookInv
<1>1. LaunchingInit => HookInv BY HookInit DEF LaunchingInit
<1>2. HookInv /\ [LaunchingNext]_<<part, vars, hookVars>> => HookInv'
  <2> SUFFICES ASSUME HookInv, [LaunchingNext]_<<part, vars, hookVars>> PROVE HookInv'
    OBVIOUS
  <2>1. [H!Next]_hookVars BY DEF LaunchingNext
  <2>2. QED BY <2>1, HookStep
<1>3. QED BY <1>1, <1>2, PTL DEF LaunchingSpec

(* However many threads call FFBHookInitialize at once, and whatever modules*)
(* the game loads, unloads and patches meanwhile: the hook works on modules*)
(* it keeps mapped only, and has answered 1 only when every import that    *)
(* could be patched leads away from the system's function.                 *)
THEOREM HookStaysSound == LaunchingSpec => []HookIsSound
BY HookHolds, HookInvMeans, PTL

(* No scan, of whichever thread, takes an import from a component of the   *)
(* game that took it first, even if it did so between two steps of a patch.*)
LEMMA OthersKeepTheirImports == LaunchingSpec => H!LeavesOthersImports
<1>1. HookInv /\ [LaunchingNext]_<<part, vars, hookVars>>
        => [\A m \in GameModules : slot[m] = "other" => slot'[m] # "hook"]_slot
  <2> SUFFICES ASSUME HookInv, [LaunchingNext]_<<part, vars, hookVars>>, slot' # slot,
                      NEW m \in GameModules, slot[m] = "other"
               PROVE  slot'[m] # "hook"
    OBVIOUS
  <2>1. H!Next /\ HookTypes BY DEF LaunchingNext, hookVars, HookInv
  <2>2. CASE \E n \in GameModules : H!Load(n) \/ H!Unload(n) \/ H!OtherStarts(n)
    BY <2>1, <2>2 DEF H!Load, H!Unload, H!OtherStarts, HookTypes
  <2>3. CASE H!OtherWrites \/ H!OtherRestores
    BY <2>1, <2>3 DEF H!OtherWrites, H!OtherRestores, HookTypes
  <2>4. CASE \E c \in Callers : H!Call(c) \/ H!Resolve(c) \/ H!StartMonitor(c) \/ H!Answer(c)
    BY <2>4 DEF H!Call, H!Resolve, H!StartMonitor, H!Answer
  <2>5. ASSUME NEW p \in H!Patchers, H!Patch(p) PROVE slot'[m] # "hook"
    <3>1. CASE H!Exchange(p)
      <4>1. PICK n : n = mod[p] OBVIOUS
      <4>2. slot' = [slot EXCEPT ![n] = H!Exchanged(n)]
        BY <2>1, <3>1, <4>1 DEF H!Exchange
      <4>3. QED BY <2>1, <4>2 DEF H!Exchanged, HookTypes
    <3>2. CASE ~H!Exchange(p)
      BY <2>5, <3>2 DEF H!Patch, H!TakeSnapshot, H!Pick, H!Pin, H!Protect, H!Restore, H!Unpin
    <3>3. QED BY <3>1, <3>2
  <2>6. CASE H!Awake \/ H!Sleep BY <2>6 DEF H!Awake, H!Sleep
  <2>7. QED BY <2>1, <2>2, <2>3, <2>4, <2>5, <2>6 DEF H!Next
<1>2. QED BY <1>1, HookHolds, PTL DEF LaunchingSpec, H!LeavesOthersImports

(* Whatever the game does and whichever call fails, the launcher never goes*)
(* back to a phase (pause_after_loader_initialization, run_remote_thread)  *)
(* and gives no wait more time; and no step of the hook overwrites what    *)
(* another component put into an import.                                   *)
THEOREM NothingIsEverTakenBack == LaunchingSpec => NothingIsTakenBack
<1>1. LaunchingInit => TypeOK BY TypesStart DEF LaunchingInit
<1>2. [LaunchingNext]_<<part, vars, hookVars>> => [Next]_vars BY DEF LaunchingNext
<1>3. LaunchingSpec => NeverWaitsAnew
  BY <1>1, <1>2, TypesStay, StepsGoOn, PTL DEF LaunchingSpec, NeverWaitsAnew, Onward
<1>4. QED BY <1>3, OthersKeepTheirImports DEF NothingIsTakenBack
=============================================================================
