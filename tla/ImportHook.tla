----------------------------- MODULE ImportHook ------------------------------
(* The hook inside the game (src/hook_dll.cpp, src/iat_hook.cpp):          *)
(* FFBHookInitialize and, after it, the module monitor go through the      *)
(* modules of the process and turn every import of DirectInput8Create from *)
(* the system's function to the hook's.  Meanwhile other threads of the    *)
(* game load and unload modules, and another component of the game patches *)
(* imports in the same way.  A module is its import slot, the protection of*)
(* the page the slot lies on and its reference count.                      *)
EXTENDS Naturals, FiniteSets

CONSTANTS
  Modules,   \* modules that import DirectInput8Create
  Callers,   \* threads that call FFBHookInitialize
  Cycles     \* turns of the module monitor (720)

Monitor  == "monitor"
Patchers == Callers \cup {Monitor}

VARIABLES
  refs,      \* references to a module; an unmapped module has none
  own,       \* modules that the game holds a reference to
  slot,      \* where the import of a module points
  writable,  \* modules whose import page is writable
  state,     \* g_initialization_state
  at,        \* what a patcher is about to do
  todo,      \* the rest of a patcher's module snapshot
  mod,       \* the module a patcher works on
  old,       \* old_protection: the page was writable before
  missed,    \* modules a patcher could not patch, or loaded after its snapshot
  answer,    \* what FFBHookInitialize returned to a caller
  cycles,    \* turns the monitor has left
  other,     \* the other component: the module it patches, if any
  otherAt,   \* what it is about to do
  otherOld   \* it found the page writable

patcherVars == <<at, todo, mod, old>>
otherVars   == <<other, otherAt, otherOld>>
vars == <<refs, own, slot, writable, state, patcherVars, missed, answer, cycles, otherVars>>

NoModule == "noModule"
Mapped   == {m \in Modules : refs[m] > 0}
Imports  == {"system", "hook", "other"}

Init ==
  /\ own \in SUBSET Modules /\ refs = [m \in Modules |-> IF m \in own THEN 1 ELSE 0]
  /\ slot = [m \in Modules |-> "system"] /\ writable = {}
  /\ state = 0
  /\ at = [p \in Patchers |-> "idle"] /\ todo = [p \in Patchers |-> {}]
  /\ mod = [p \in Patchers |-> NoModule] /\ old = [p \in Patchers |-> FALSE]
  /\ missed = {} /\ answer = [c \in Callers |-> 0] /\ cycles = 0
  /\ other = NoModule /\ otherAt = "idle" /\ otherOld = FALSE

(***************************************************************************)
(* The other threads of the game.                                          *)
(***************************************************************************)

(* The first reference maps a module, its import resolved to the system's  *)
(* function; the last one to go unmaps it.                                 *)
Load(m) ==
  /\ m \notin own
  /\ refs' = [refs EXCEPT ![m] = @ + 1] /\ own' = own \cup {m}
  /\ IF refs[m] > 0 THEN UNCHANGED <<slot, writable, missed>>
                    ELSE /\ slot' = [slot EXCEPT ![m] = "system"]
                         /\ writable' = writable \ {m} /\ missed' = missed \cup {m}
  /\ UNCHANGED <<state, patcherVars, answer, cycles, otherVars>>

Unload(m) ==
  /\ m \in own /\ other # m
  /\ refs' = [refs EXCEPT ![m] = @ - 1] /\ own' = own \ {m}
  /\ UNCHANGED <<slot, writable, state, patcherVars, missed, answer, cycles, otherVars>>

(* Another component patches an import of a module it holds: it makes the  *)
(* page writable, writes and puts the protection back that it found.       *)
OtherStarts(m) ==
  /\ otherAt = "idle" /\ m \in own
  /\ other' = m /\ otherAt' = "write"
  /\ otherOld' = (m \in writable) /\ writable' = writable \cup {m}
  /\ UNCHANGED <<refs, own, slot, state, patcherVars, missed, answer, cycles>>

OtherWrites ==
  /\ otherAt = "write" /\ other \in writable
  /\ slot' = [slot EXCEPT ![other] = "other"] /\ otherAt' = "restore"
  /\ UNCHANGED <<refs, own, writable, state, patcherVars, missed, answer, cycles, other, otherOld>>

OtherRestores ==
  /\ otherAt = "restore"
  /\ writable' = IF otherOld THEN writable \cup {other} ELSE writable \ {other}
  /\ other' = NoModule /\ otherAt' = "idle" /\ otherOld' = FALSE
  /\ UNCHANGED <<refs, own, slot, state, patcherVars, missed, answer, cycles>>

(***************************************************************************)
(* patch_loaded_direct_input_imports by a patcher p.                       *)
(***************************************************************************)
Step(p, next) == at' = [at EXCEPT ![p] = next]

(* CreateToolhelp32Snapshot, the hook itself excluded.  It may fail.       *)
Snapshot(p) ==
  \/ todo' = [todo EXCEPT ![p] = Mapped] /\ missed' = {} /\ Step(p, "pick")
  \/ missed' = Modules /\ Step(p, "done") /\ UNCHANGED todo

TakeSnapshot(p) ==
  /\ at[p] = "snapshot"
  /\ Snapshot(p)
  /\ UNCHANGED <<refs, own, slot, writable, state, mod, old, answer, cycles, otherVars>>

Pick(p) ==
  /\ at[p] = "pick"
  /\ \/ todo[p] = {} /\ Step(p, "done") /\ UNCHANGED <<todo, mod>>
     \/ \E m \in todo[p] : /\ mod' = [mod EXCEPT ![p] = m]
                           /\ todo' = [todo EXCEPT ![p] = @ \ {m}] /\ Step(p, "pin")
  /\ UNCHANGED <<refs, own, slot, writable, state, old, missed, answer, cycles, otherVars>>

(* Variant with a fault: the module is looked up, not referenced.          *)
LookUp(p) ==
  /\ at[p] = "pin"
  /\ IF refs[mod[p]] > 0 THEN Step(p, "protect") ELSE Step(p, "pick")
  /\ UNCHANGED <<refs, own, slot, writable, state, todo, mod, old, missed, answer, cycles, otherVars>>

(* GetModuleHandleExW: whatever is mapped there now gets a reference.      *)
Pin(p) ==
  /\ at[p] = "pin"
  /\ IF refs[mod[p]] > 0
       THEN refs' = [refs EXCEPT ![mod[p]] = @ + 1] /\ Step(p, "protect")
       ELSE Step(p, "pick") /\ UNCHANGED refs
  /\ UNCHANGED <<own, slot, writable, state, todo, mod, old, missed, answer, cycles, otherVars>>

(* patch_pointer: VirtualProtect, or its failure ...                       *)
Protect(p) ==
  /\ at[p] = "protect"
  /\ \/ /\ old' = [old EXCEPT ![p] = mod[p] \in writable]
        /\ writable' = writable \cup {mod[p]} /\ Step(p, "exchange") /\ UNCHANGED missed
     \/ missed' = missed \cup {mod[p]} /\ Step(p, "unpin") /\ UNCHANGED <<old, writable>>
  /\ UNCHANGED <<refs, own, slot, state, todo, mod, answer, cycles, otherVars>>

(* ... the exchange of exactly the system's function ...                   *)
Overwritten(m) == "hook"    \* with a fault: a plain write
Exchanged(m) == IF slot[m] = "system" THEN "hook" ELSE slot[m]

(* ... which faults, and ends the patch of this module (__except), when    *)
(* somebody else has made the page read-only again.                        *)
Exchange(p) ==
  /\ at[p] = "exchange"
  /\ IF mod[p] \in writable
       THEN slot' = [slot EXCEPT ![mod[p]] = Exchanged(mod[p])] /\ Step(p, "restore") /\ UNCHANGED missed
       ELSE missed' = missed \cup {mod[p]} /\ Step(p, "unpin") /\ UNCHANGED slot
  /\ UNCHANGED <<refs, own, writable, state, todo, mod, old, answer, cycles, otherVars>>

(* ... and the protection found before.                                    *)
Restore(p) ==
  /\ at[p] = "restore"
  /\ writable' = IF old[p] THEN writable \cup {mod[p]} ELSE writable \ {mod[p]}
  /\ Step(p, "unpin")
  /\ UNCHANGED <<refs, own, slot, state, todo, mod, old, missed, answer, cycles, otherVars>>

(* FreeLibrary: the hook may be the last to let go of the module.          *)
Unpin(p) ==
  /\ at[p] = "unpin"
  /\ refs' = [refs EXCEPT ![mod[p]] = @ - 1]
  /\ mod' = [mod EXCEPT ![p] = NoModule] /\ old' = [old EXCEPT ![p] = FALSE] /\ Step(p, "pick")
  /\ UNCHANGED <<own, slot, writable, state, todo, missed, answer, cycles, otherVars>>

(***************************************************************************)
(* FFBHookInitialize and module_monitor.                                   *)
(***************************************************************************)
EarlySuccess == 1    \* with a fault: begun counts as done
Early == IF state = 2 THEN 1 ELSE 12
Call(c) ==
  /\ at[c] = "idle" /\ answer[c] # 1
  /\ \/ state # 0 /\ answer' = [answer EXCEPT ![c] = Early] /\ UNCHANGED <<state, at>>
     \/ state = 0 /\ state' = 1 /\ Step(c, "resolve") /\ UNCHANGED answer
  /\ UNCHANGED <<refs, own, slot, writable, todo, mod, old, missed, cycles, otherVars>>

(* The system's dinput8.dll and its DirectInput8Create, or errors 10 and 11,*)
(* after which another call may try again.                                 *)
Resolve(c) ==
  /\ at[c] = "resolve"
  /\ \/ Step(c, "snapshot") /\ UNCHANGED <<state, answer>>
     \/ /\ state' = 0 /\ Step(c, "idle")
        /\ \E e \in {10, 11} : answer' = [answer EXCEPT ![c] = e]
  /\ UNCHANGED <<refs, own, slot, writable, todo, mod, old, missed, cycles, otherVars>>

(* The first scan is over: start the monitor, if a thread can be had ...   *)
StartMonitor(c) ==
  /\ at[c] = "done"
  /\ cycles' \in {0, Cycles} /\ Step(c, "answer")
  /\ UNCHANGED <<refs, own, slot, writable, state, todo, mod, old, missed, answer, otherVars>>

(* ... which may have begun before the answer is given.                    *)
Answer(c) ==
  /\ at[c] = "answer"
  /\ state' = 2 /\ answer' = [answer EXCEPT ![c] = 1] /\ Step(c, "idle")
  /\ UNCHANGED <<refs, own, slot, writable, todo, mod, old, missed, cycles, otherVars>>

Awake ==
  /\ at[Monitor] = "idle" /\ cycles > 0
  /\ cycles' = cycles - 1 /\ Step(Monitor, "snapshot")
  /\ UNCHANGED <<refs, own, slot, writable, state, todo, mod, old, missed, answer, otherVars>>

Sleep ==
  /\ at[Monitor] = "done"
  /\ Step(Monitor, "idle")
  /\ UNCHANGED <<refs, own, slot, writable, state, todo, mod, old, missed, answer, cycles, otherVars>>

Patch(p) == TakeSnapshot(p) \/ Pick(p) \/ Pin(p) \/ Protect(p) \/ Exchange(p) \/ Restore(p) \/ Unpin(p)

Next ==
  \/ \E m \in Modules : Load(m) \/ Unload(m) \/ OtherStarts(m)
  \/ OtherWrites \/ OtherRestores
  \/ \E c \in Callers : Call(c) \/ Resolve(c) \/ StartMonitor(c) \/ Answer(c)
  \/ \E p \in Patchers : Patch(p)
  \/ Awake \/ Sleep

Spec == Init /\ [][Next]_vars

(***************************************************************************)
(* Properties.                                                             *)
(***************************************************************************)
TypeOK ==
  /\ own \subseteq Modules /\ refs \in [Modules -> 0..(1 + Cardinality(Patchers))] /\ slot \in [Modules -> Imports]
  /\ writable \subseteq Modules /\ missed \subseteq Modules /\ state \in 0..2
  /\ at \in [Patchers -> {"idle", "resolve", "snapshot", "pick", "pin", "protect", "exchange",
                          "restore", "unpin", "done", "answer"}]
  /\ todo \in [Patchers -> SUBSET Modules] /\ mod \in [Patchers -> Modules \cup {NoModule}]
  /\ old \in [Patchers -> BOOLEAN] /\ answer \in [Callers -> {0, 1, 10, 11, 12}]
  /\ cycles \in 0..Cycles
  /\ other \in Modules \cup {NoModule} /\ otherAt \in {"idle", "write", "restore"}
  /\ otherOld \in BOOLEAN

(* The hook reads and writes only modules that are mapped: one that left   *)
(* after the snapshot is skipped, one that is worked on cannot leave.      *)
WorksOnMapped ==
  \A p \in Patchers : at[p] \in {"protect", "exchange", "restore", "unpin"} => refs[mod[p]] > 0

(* Once FFBHookInitialize has answered 1, to whichever caller, every import*)
(* of a module that was there at the last scan and could be patched leads to*)
(* the hook, or to the component that had taken it first, except while the *)
(* monitor is in a scan of its own.                                        *)
ReadyIsPatched ==
  (\E c \in Callers : answer[c] = 1) /\ at[Monitor] \in {"idle", "done"} =>
    \A m \in Mapped \ missed : slot[m] # "system"

(* The hook never takes an import away from a component that took it first,*)
(* whenever that wrote it.                                                 *)
LeavesOthersImports == [][\A m \in Modules : slot[m] = "other" => slot'[m] # "hook"]_slot
=============================================================================
