------------------------------ MODULE Launcher -------------------------------
(* The offline launcher (launcher/injector.cpp): it creates a game as its  *)
(* debuggee, stops the main thread at the entry of the program with a      *)
(* one-byte breakpoint, has two remote threads load the hook and call its  *)
(* FFBHookInitialize, and only then lets the main thread go.  The debuggee *)
(* is the environment: its threads run whenever no debug event is pending, *)
(* may load and unload modules, raise exceptions, hang and exit, and every *)
(* call of the launcher to Windows may fail.  The launcher may be killed.  *)
EXTENDS Naturals, FiniteSets

CONSTANTS
  Modules,   \* the modules of the program besides kernel32 and the hook
  Patience   \* ticks of kStartupTimeoutMs and of kRemoteCallTimeoutMs

ASSUME LauncherConstants == Patience \in Nat

VARIABLES
  pc,          \* where the launcher is in launch_offline_game
  left,        \* ticks left until the deadline of the current wait
  known,       \* DebugSession::modules
  armed,       \* initial_breakpoint_seen, the breakpoint is written
  killOnExit,  \* the death of the launcher kills its debuggee
  result,      \* what launch_offline_game returned
  game,        \* the process of the game
  at,          \* where its main thread is
  held,        \* its main thread is suspended
  byte,        \* the first byte of the program's entry
  begun,       \* how the main thread has begun the program
  remote,      \* the remote thread, by the function it runs
  hook,        \* the state of the hook in the game
  loaded,      \* the modules mapped into the game
  event        \* the debug event the game waits on, if any

launcherVars == <<pc, left, known, armed, killOnExit, result>>
gameVars     == <<game, at, held, byte, begun, remote, hook, loaded, event>>
vars         == <<launcherVars, gameVars>>

AllModules == Modules \cup {"kernel32", "Hook"}
NoEvent    == [kind |-> "none"]
Ev(kind)   == [kind |-> kind]
ModuleEv(kind, m) == [kind |-> kind, module |-> m]
ExitOfRemote(code) == [kind |-> "threadExit", code |-> code]

Waits    == {"starting", "loading", "initialising"}
Finished == {"ended", "killed"}

Init ==
  /\ pc = "checking" /\ left = 0 /\ known = {} /\ armed = FALSE
  /\ killOnExit = TRUE /\ result = "none"
  /\ game = "absent" /\ at = "loader" /\ held = FALSE /\ byte = "code" /\ begun = "no"
  /\ remote = "none" /\ hook = "absent" /\ loaded = {} /\ event = NoEvent

(***************************************************************************)
(* The debuggee.                                                           *)
(***************************************************************************)
Runs     == game = "alive" /\ event = NoEvent    \* its threads are not stopped by an event
MainRuns == Runs /\ ~held

(* Modules come with the loader, later with any thread; the program may    *)
(* bring modules of its own at any time and drop them again.               *)
LoadModule ==
  /\ Runs /\ (at = "loader" => ~held)
  /\ \E m \in (Modules \cup {"kernel32"}) \ loaded :
       loaded' = loaded \cup {m} /\ event' = ModuleEv("load", m)
  /\ UNCHANGED <<launcherVars, game, at, held, byte, begun, remote, hook>>

UnloadModule ==
  /\ Runs /\ at # "loader"
  /\ \E m \in Modules \cap loaded :
       loaded' = loaded \ {m} /\ event' = ModuleEv("unload", m)
  /\ UNCHANGED <<launcherVars, game, at, held, byte, begun, remote, hook>>

(* The breakpoint of the loader, once the static imports are mapped and    *)
(* before any initialisation routine has run.                              *)
LoaderBreaks ==
  /\ MainRuns /\ at = "loader" /\ "kernel32" \in loaded
  /\ at' = "routines" /\ event' = Ev("breakpoint")
  /\ UNCHANGED <<launcherVars, game, held, byte, begun, remote, hook, loaded>>

(* Any other event: a thread starts or ends, an exception of the program.  *)
OtherEvent ==
  /\ Runs /\ at # "loader"
  /\ event' = Ev("other")
  /\ UNCHANGED <<launcherVars, game, at, held, byte, begun, remote, hook, loaded>>

ReachEntry ==
  /\ MainRuns /\ at = "routines"
  /\ at' = "entry"
  /\ UNCHANGED <<launcherVars, game, held, byte, begun, remote, hook, loaded, event>>

(* The main thread executes the first byte of the program: the breakpoint, *)
(* that leaves it one byte behind the entry, or the program's own code.    *)
ExecuteEntry ==
  /\ MainRuns /\ at = "entry"
  /\ IF byte = "trap" THEN at' = "behind" /\ event' = Ev("trap") /\ UNCHANGED begun
                      ELSE at' = "program" /\ begun' = "whole" /\ UNCHANGED event
  /\ UNCHANGED <<launcherVars, game, held, byte, remote, hook, loaded>>

(* Left behind the entry, it goes on in the middle of an instruction.      *)
RunOnTorn ==
  /\ MainRuns /\ at = "behind"
  /\ at' = "program" /\ begun' = "torn"
  /\ UNCHANGED <<launcherVars, game, held, byte, remote, hook, loaded, event>>

(* The first remote thread: LoadLibraryW maps the hook, or fails.          *)
RemoteLoads ==
  /\ Runs /\ remote = "LoadLibrary" /\ "Hook" \notin loaded
  /\ loaded' = loaded \cup {"Hook"} /\ event' = ModuleEv("load", "Hook") /\ hook' = "loaded"
  /\ UNCHANGED <<launcherVars, game, at, held, byte, begun, remote>>

(* The second: FFBHookInitialize patches the imports (code 1) or reports   *)
(* 10, 11 or 12.                                                           *)
RemoteInitialises ==
  /\ Runs /\ remote = "Initialize" /\ hook = "loaded"
  /\ hook' \in {"ready", "refused"}
  /\ UNCHANGED <<launcherVars, game, at, held, byte, begun, remote, loaded, event>>

RemoteReturns ==
  /\ Runs
  /\ remote = "LoadLibrary" \/ (remote = "Initialize" /\ hook # "loaded")
  /\ remote' = "none"
  /\ event' = ExitOfRemote(IF hook = "ready" THEN 1 ELSE 10)
  /\ UNCHANGED <<launcherVars, game, at, held, byte, begun, hook, loaded>>

(* The process exits with any code, by itself or after an unhandled        *)
(* exception: its remote thread ends with that code, then the process.     *)
GameExits ==
  /\ Runs /\ at # "loader"
  /\ game' = "exiting"
  /\ IF remote = "none" THEN event' = Ev("exit")
                        ELSE \E code \in {0, 1} : event' = ExitOfRemote(code)
  /\ remote' = "none"
  /\ UNCHANGED <<launcherVars, at, held, byte, begun, hook, loaded>>

GameIsOver ==
  /\ game = "exiting" /\ event = NoEvent
  /\ event' = Ev("exit")
  /\ UNCHANGED <<launcherVars, game, at, held, byte, begun, remote, hook, loaded>>

Game ==
  \/ LoadModule \/ UnloadModule \/ LoaderBreaks \/ OtherEvent \/ ReachEntry \/ ExecuteEntry
  \/ RunOnTorn \/ RemoteLoads \/ RemoteInitialises \/ RemoteReturns \/ GameExits \/ GameIsOver

(***************************************************************************)
(* The launcher.                                                           *)
(***************************************************************************)

(* The request is refused before any process exists: an elevated launcher, *)
(* a game that is no local .exe outside the Windows directory, no hook beside*)
(* the launcher on a local disk, or an architecture that is not its own.   *)
Facts == {"elevated", "gameFile", "gameLocal", "gameIsExe", "gameInWindows",
          "hookFile", "hookLocal", "gameArch", "hookArch"}
Acceptable(facts) == Facts \ facts = {"elevated", "gameInWindows"}

CheckRequest ==
  /\ pc = "checking"
  /\ \E facts \in SUBSET Facts :
       IF Acceptable(facts) THEN pc' = "creating" /\ UNCHANGED result
                            ELSE pc' = "ended" /\ result' = "failed"
  /\ UNCHANGED <<left, known, armed, killOnExit, gameVars>>

(* CreateProcessW with DEBUG_ONLY_THIS_PROCESS; its first event names the  *)
(* image.                                                                  *)
CreateGame ==
  /\ pc = "creating"
  /\ \/ /\ game' = "alive" /\ event' = Ev("other") /\ pc' = "starting" /\ left' = Patience
        /\ UNCHANGED result
     \/ pc' = "ended" /\ result' = "failed" /\ UNCHANGED <<game, event, left>>
  /\ UNCHANGED <<known, armed, killOnExit, at, held, byte, begun, remote, hook, loaded>>

(* observe_debug_event: a module whose path cannot be read is not recorded.*)
Observe ==
  CASE event.kind = "load"   -> known' \in {known, known \cup {event.module}}
    [] event.kind = "unload" -> known' = known \ {event.module}
    [] OTHER                 -> UNCHANGED known

(* ContinueDebugEvent, or its failure, which leaves the game stopped.      *)
Continue(next) ==
  \/ event' = NoEvent /\ pc' = next
  \/ UNCHANGED event /\ pc' = "failing"

(* The loader's breakpoint: write the breakpoint over the entry.  A failure*)
(* continues the event all the same; the byte may have been written before *)
(* the instruction cache or the protection failed.                         *)
ArmEntry ==
  \/ byte' = "trap" /\ armed' = TRUE /\ Continue("starting")
  \/ byte' \in {"code", "trap"} /\ UNCHANGED armed /\ event' = NoEvent /\ pc' = "failing"

(* Variant with a fault: the thread is not rewound.                        *)
LeaveEntryBehind ==
  \/ byte' = "code" /\ UNCHANGED at /\ held' = TRUE /\ Continue("preparing")
  \/ event' = NoEvent /\ pc' = "failing" /\ UNCHANGED <<held, byte, at>>

(* The main thread has hit it: restore the byte, rewind the thread, suspend*)
(* it.  Each of the three may fail, which continues the event.             *)
LeaveEntryHeld ==
  \/ byte' = "code" /\ at' = "entry" /\ held' = TRUE /\ Continue("preparing")
  \/ /\ event' = NoEvent /\ pc' = "failing" /\ UNCHANGED held
     /\ \/ byte' \in {"code", "trap"} /\ UNCHANGED at
        \/ byte' = "code" /\ at' = "entry"

(* A turn of a wait leaves its deadline alone.  With a fault, it renews it.*)
RenewsDeadline == left' = Patience
KeepsDeadline  == UNCHANGED left

(* One turn of pause_after_loader_initialization.                          *)
StartingEvent ==
  /\ pc = "starting" /\ left > 0 /\ event # NoEvent
  /\ Observe
  /\ \/ event.kind = "exit" /\ event' = NoEvent /\ pc' = "failing" /\ UNCHANGED <<byte, armed, at, held>>
     \/ event.kind = "breakpoint" /\ ~armed /\ ArmEntry /\ UNCHANGED <<at, held>>
     \/ event.kind = "trap" /\ armed /\ LeaveEntryHeld /\ UNCHANGED armed
     \/ /\ event.kind \notin {"exit", "breakpoint", "trap"}
        /\ Continue("starting") /\ UNCHANGED <<byte, armed, at, held>>
  /\ KeepsDeadline /\ UNCHANGED <<killOnExit, result, game, begun, remote, hook, loaded>>

(* find_debug_module, by name and, of the hook, by path; and the address of*)
(* LoadLibraryW in the game, which is where the launcher has it.           *)
Finds(m) == m \in known
FindsLoadLibrary == Finds("kernel32")

(* CreateRemoteThread, with a deadline of its own.                         *)
StartRemote(function, next) ==
  \/ remote' = function /\ left' = Patience /\ pc' = next
  \/ pc' = "failing" /\ UNCHANGED <<remote, left>>

(* Pass the path of the hook to the game and call LoadLibraryW there.      *)
LoadHook ==
  /\ pc = "preparing"
  /\ IF FindsLoadLibrary THEN StartRemote("LoadLibrary", "loading")
                         ELSE pc' = "failing" /\ UNCHANGED <<remote, left>>
  /\ UNCHANGED <<known, armed, killOnExit, result, game, at, held, byte, begun, hook, loaded, event>>

(* Find the hook among the modules seen, and the place of its initialiser, *)
(* and call it.                                                            *)
InitialiseHook ==
  /\ pc = "finding"
  /\ IF Finds("Hook") THEN StartRemote("Initialize", "initialising")
                      ELSE pc' = "failing" /\ UNCHANGED <<remote, left>>
  /\ UNCHANGED <<known, armed, killOnExit, result, game, at, held, byte, begun, hook, loaded, event>>

(* What follows the end of a remote thread: the exit code of LoadLibraryW is*)
(* not looked at, that of FFBHookInitialize must be 1.                     *)
AfterRemote(code) ==
  IF pc = "loading" THEN "finding" ELSE IF code = 1 THEN "detaching" ELSE "failing"

(* One turn of run_remote_thread.                                          *)
RemoteEvent ==
  /\ pc \in {"loading", "initialising"} /\ left > 0 /\ event # NoEvent
  /\ Observe
  /\ Continue(CASE event.kind = "exit"       -> "failing"
                [] event.kind = "threadExit" -> AfterRemote(event.code)
                [] OTHER                     -> pc)
  /\ KeepsDeadline /\ UNCHANGED <<armed, killOnExit, result, game, at, held, byte, begun, remote, hook, loaded>>

(* From here on the game outlives the launcher.                            *)
DetachGame ==
  /\ pc = "detaching"
  /\ \/ killOnExit' = FALSE /\ pc' = "resuming"
     \/ pc' = "failing" /\ UNCHANGED killOnExit
  /\ UNCHANGED <<left, known, armed, result, gameVars>>

ResumeGame ==
  /\ pc = "resuming"
  /\ \/ held' = FALSE /\ result' = "ok" /\ pc' = "leaving"
     \/ pc' = "failing" /\ UNCHANGED <<held, result>>
  /\ UNCHANGED <<left, known, armed, killOnExit, game, at, byte, begun, remote, hook, loaded, event>>

(* The launcher exits: its debuggee is detached and its event continued.   *)
Leave ==
  /\ pc = "leaving"
  /\ pc' = "ended" /\ event' = NoEvent
  /\ UNCHANGED <<left, known, armed, killOnExit, result, game, at, held, byte, begun, remote, hook, loaded>>

GiveUp == pc \in Waits /\ pc' = "failing" /\ UNCHANGED <<left, known, armed, killOnExit, result, gameVars>>

TimeOut == left = 0 /\ GiveUp

(* WaitForDebugEvent, or WaitForSingleObject, fails before that.           *)
WaitFails == left > 0 /\ GiveUp

(* Variant with a fault: the return forgets the game.                      *)
AbandonToItself ==
  /\ pc = "failing"
  /\ event' = NoEvent /\ pc' = "ended" /\ result' = "failed"
  /\ UNCHANGED <<left, known, armed, killOnExit, game, at, held, byte, begun, remote, hook, loaded>>

(* ~SuspendedChild on every return but the successful one.                 *)
AbandonGame ==
  /\ pc = "failing"
  /\ game' = "dead" /\ event' = NoEvent
  /\ pc' = "ended" /\ result' = "failed"
  /\ UNCHANGED <<left, known, armed, killOnExit, at, held, byte, begun, remote, hook, loaded>>

(* The launcher is killed from outside.                                    *)
KillLauncher ==
  /\ pc \notin Finished \cup {"checking"}
  /\ pc' = "killed" /\ event' = NoEvent
  /\ game' = IF killOnExit /\ game # "absent" THEN "dead" ELSE game
  /\ UNCHANGED <<left, known, armed, killOnExit, result, at, held, byte, begun, remote, hook, loaded>>

Tick ==
  /\ pc \in Waits /\ left > 0
  /\ left' = left - 1
  /\ UNCHANGED <<pc, known, armed, killOnExit, result, gameVars>>

LaunchStep ==
  \/ CheckRequest \/ CreateGame \/ StartingEvent \/ LoadHook \/ InitialiseHook \/ RemoteEvent
  \/ DetachGame \/ ResumeGame \/ Leave \/ TimeOut \/ AbandonGame

Next == Game \/ LaunchStep \/ WaitFails \/ KillLauncher \/ Tick

(* The launcher's thread is scheduled and its clock goes on.  Nothing is   *)
(* assumed of the game: its threads may hang.                              *)
Fairness == WF_vars(LaunchStep) /\ WF_vars(Tick)

Spec == Init /\ [][Next]_vars /\ Fairness

(***************************************************************************)
(* Properties.                                                             *)
(***************************************************************************)
TypeOK ==
  /\ pc \in Waits \cup Finished \cup {"checking", "creating", "preparing", "finding",
                                      "detaching", "resuming", "leaving", "failing"}
  /\ left \in 0..Patience /\ known \subseteq AllModules /\ loaded \subseteq AllModules
  /\ armed \in BOOLEAN /\ killOnExit \in BOOLEAN /\ held \in BOOLEAN
  /\ result \in {"none", "ok", "failed"}
  /\ game \in {"absent", "alive", "exiting", "dead"}
  /\ at \in {"loader", "routines", "entry", "behind", "program"}
  /\ byte \in {"code", "trap"} /\ begun \in {"no", "whole", "torn"}
  /\ remote \in {"none", "LoadLibrary", "Initialize"}
  /\ hook \in {"absent", "loaded", "ready", "refused"}
  /\ event \in {NoEvent, Ev("breakpoint"), Ev("trap"), Ev("other"), Ev("exit")}
               \cup {ModuleEv(k, m) : k \in {"load", "unload"}, m \in AllModules}
               \cup {ExitOfRemote(c) : c \in {0, 1, 10}}

(* The program begins with the hook in place and with the code it was built*)
(* with: its first instruction is executed whole, once the breakpoint is out*)
(* and FFBHookInitialize has succeeded.  Only a game the launcher has given*)
(* up may run on in any other way, until it is terminated.                 *)
ProgramBeginsHooked ==
  begun # "no" => \/ begun = "whole" /\ byte = "code" /\ hook = "ready"
                  \/ pc = "failing" \/ game = "dead"

(* However the launcher ends, it leaves no game that is not hooked: a failed*)
(* launch leaves none, a successful one a game that is hooked and goes on, *)
(* and the death of the launcher takes every game with it that is not      *)
(* hooked.  A game that exits by itself is nobody's.                       *)
NoGameLeftBehind ==
  pc \in Finished /\ game = "alive" =>
    /\ hook = "ready" /\ byte = "code" /\ at \in {"entry", "program"}
    /\ pc = "ended" => result = "ok" /\ ~held

(* What is still ahead of the launcher: its phases follow one another in   *)
(* this order, though any may be the last but one.                         *)
Ahead ==
  CASE pc = "checking"     -> 10 [] pc = "creating"  -> 9 [] pc = "starting"     -> 8
    [] pc = "preparing"    -> 7  [] pc = "loading"   -> 6 [] pc = "finding"      -> 5
    [] pc = "initialising" -> 4  [] pc = "detaching" -> 3 [] pc = "resuming"     -> 2
    [] pc \in {"leaving", "failing"} -> 1
    [] pc \in Finished               -> 0

(* No debug event, module, exception or call that fails takes the launcher *)
(* back to a phase it has left, or gives a wait of pause_after_loader_     *)
(* initialization or run_remote_thread more time than it had: whatever the *)
(* game does, a launch waits three times at most, each within one deadline.*)
NeverWaitsAnew ==
  [][/\ Ahead' <= Ahead
     /\ Ahead' = Ahead => pc' = pc /\ left' <= left]_vars

(* Every launch ends, whatever the game does or fails to do: the deadlines *)
(* are those of the whole wait, not of one event.                          *)
LaunchEnds == pc # "checking" ~> pc \in Finished
=============================================================================
