----------------------------- MODULE PluginFiles -----------------------------
(* What the two scripts do to SimHub's folder while they hold its lease    *)
(* (simhub/launcher-portable/Install-SimHubPlugin.ps1, Uninstall-...): for *)
(* each of the two plug-in files the old one is moved to a backup and the  *)
(* new one copied into its place, and the state file records it all; or the*)
(* plug-in is moved aside, the backup moved back and the state dropped.    *)
(* Every operation on a file may fail, which starts a roll-back, whose own *)
(* operations may fail as well, and the script may be killed between any   *)
(* two of them.  Between scripts the user may write or delete the files.   *)
EXTENDS Naturals, Sequences

CONSTANTS
  Packages,   \* versions of the plug-in that packages bring
  MaxRuns,    \* bound: runs of a script
  MaxEdits    \* bound: what the user does to the files

Files == 1..2          \* FFBInterceptor.SimHub.dll, FFBInterceptor.Core.dll, in this order
Slots == 0..MaxRuns    \* numbers of the paths of Get-BackupPath

VARIABLES
  dest,      \* the plug-in files
  backups,   \* the backups of each file, by the number of their path
  staged,    \* copies of each file that an uninstallation has moved aside
  state,     \* the recorded installation
  pc,        \* what the script is about to do
  version,   \* the package of the script
  changes,   \* the records of the files it has installed
  slot,      \* the backup of the file it is installing
  hand,      \* the file it is uninstalling
  aside,     \* files with PlugInStaged
  restored,  \* files with BackupRestored
  before,    \* dest, backups and state before the run
  clean,     \* nothing has failed in the roll-back of the run
  replaced,  \* dest before the recorded installation
  mine,      \* of each file, what the user put there and has not removed
  runs, edits

installVars   == <<version, changes, slot>>
uninstallVars == <<hand, aside, restored>>
historyVars   == <<before, replaced, mine, runs, edits>>
vars == <<dest, backups, staged, state, pc, installVars, uninstallVars, clean, historyVars>>

NoFile     == <<"none", 0>>
Package(v) == <<"package", v>>
Own(n)     == <<"own", n>>
Contents   == {Package(v) : v \in Packages} \cup {Own(n) : n \in 0..MaxEdits}
NoSlot     == MaxRuns + 1
NoState    == <<>>

Init ==
  /\ dest \in [Files -> {NoFile, Own(0)} \cup {Package(v) : v \in Packages}]
  /\ backups = [f \in Files |-> [s \in Slots |-> NoFile]]
  /\ staged = [f \in Files |-> {}] /\ state = NoState
  /\ pc = "idle" /\ version \in Packages /\ changes = <<>> /\ slot = NoSlot
  /\ hand = 1 /\ aside = {} /\ restored = {} /\ clean = TRUE
  /\ before = <<dest, backups, state>> /\ replaced = dest
  /\ mine = [f \in Files |-> {dest[f]} \ {NoFile}] /\ runs = 0 /\ edits = 0

(* No script runs.                                                         *)
Idle == pc \in {"idle", "installed", "uninstalled", "failed"}

(* SimHub is closed while a script runs, so only the user writes the files,*)
(* and not meanwhile.                                                      *)
UserEdits(f) ==
  /\ Idle /\ edits < MaxEdits /\ edits' = edits + 1 /\ pc' = "idle"
  /\ \E c \in {NoFile, Own(edits + 1)} :
       /\ dest' = [dest EXCEPT ![f] = c]
       /\ mine' = [mine EXCEPT ![f] = (@ \ {dest[f]}) \cup ({c} \ {NoFile})]
  /\ UNCHANGED <<backups, staged, state, installVars, uninstallVars, clean, before, replaced, runs>>

Begins(p) ==
  /\ Idle /\ runs < MaxRuns /\ runs' = runs + 1 /\ pc' = p
  /\ before' = <<dest, backups, state>> /\ clean' = TRUE
  /\ UNCHANGED <<dest, backups, staged, state, replaced, mine, edits>>

(***************************************************************************)
(* Installation.                                                           *)
(***************************************************************************)

(* Over a recorded installation the script ends at once.                   *)
BeginInstall ==
  /\ state = NoState /\ Begins("backingUp")
  /\ version' \in Packages /\ changes' = <<>> /\ slot' = NoSlot
  /\ UNCHANGED uninstallVars

Current     == Len(changes) + 1
Recorded(r) ==
  /\ changes' = Append(changes, r)
  /\ pc' = IF Current \in Files /\ Current + 1 \in Files THEN "backingUp" ELSE "saving"

(* Variant with a fault: the backup path is always the same.               *)
FirstSlot(f) == 0

(* Get-BackupPath: the first path that does not exist.                     *)
FreeSlot(f) == CHOOSE s \in Slots : backups[f][s] = NoFile /\ \A r \in Slots : r < s => backups[f][r] # NoFile

(* Move the old file away, unless there is none or it is the package's.    *)
BackUp ==
  LET f == Current IN
  /\ pc = "backingUp"
  /\ \/ /\ dest[f] = Package(version)
        /\ Recorded([backup |-> NoSlot, old |-> NoFile, installed |-> Package(version), changed |-> FALSE])
        /\ UNCHANGED <<dest, backups, slot>>
     \/ /\ dest[f] = NoFile
        /\ slot' = NoSlot /\ pc' = "copying" /\ UNCHANGED <<dest, backups, changes>>
     \/ /\ dest[f] \notin {NoFile, Package(version)}
        /\ slot' = FreeSlot(f) /\ pc' = "copying"
        /\ backups' = [backups EXCEPT ![f][FreeSlot(f)] = dest[f]]
        /\ dest' = [dest EXCEPT ![f] = NoFile] /\ UNCHANGED changes
     \/ pc' = "removing" /\ UNCHANGED <<dest, backups, slot, changes>>
  /\ UNCHANGED <<staged, state, version, uninstallVars, clean, historyVars>>

(* Copy the new file to a temporary name and move it into place.           *)
CopyNew ==
  LET f == Current
      old == IF slot = NoSlot THEN NoFile ELSE backups[f][slot] IN
  /\ pc = "copying"
  /\ \/ /\ dest' = [dest EXCEPT ![f] = Package(version)]
        /\ Recorded([backup |-> slot, old |-> old, installed |-> Package(version), changed |-> TRUE])
     \/ pc' = "puttingBack" /\ UNCHANGED <<dest, changes>>
  /\ UNCHANGED <<backups, staged, state, version, slot, uninstallVars, clean, historyVars>>

FromBackup(f, s) ==
  /\ dest' = [dest EXCEPT ![f] = backups[f][s]]
  /\ backups' = [backups EXCEPT ![f][s] = NoFile]

(* The handler of a failed copy; a failure of its own is ignored.          *)
PutBack ==
  /\ pc = "puttingBack" /\ pc' = "removing"
  /\ \/ slot = NoSlot /\ UNCHANGED <<dest, backups, clean>>
     \/ slot # NoSlot /\ FromBackup(Current, slot) /\ UNCHANGED clean
     \/ slot # NoSlot /\ clean' = FALSE /\ UNCHANGED <<dest, backups>>
  /\ UNCHANGED <<staged, state, installVars, uninstallVars, historyVars>>

(* Save-FFBPluginState writes a temporary file and moves it into place.    *)
SaveState ==
  /\ pc = "saving"
  /\ \/ state' = changes /\ replaced' = before[1] /\ pc' = "installed"
     \/ pc' = "removing" /\ UNCHANGED <<state, replaced>>
  /\ UNCHANGED <<dest, backups, staged, installVars, uninstallVars, clean, before, mine, runs, edits>>

Pop == changes' = SubSeq(changes, 1, Len(changes) - 1)

(* Variant with a fault: the roll-back leaves out the first file.          *)
AllButOneUndone == Len(changes) <= 1

(* Roll-back from the last record to the first.                            *)
AllUndone == changes = <<>>
RemoveNew ==
  /\ pc = "removing"
  /\ \/ AllUndone /\ pc' = "failed" /\ UNCHANGED <<dest, changes, clean>>
     \/ /\ ~AllUndone
        /\ LET f == Len(changes)  r == changes[f] IN
           \/ ~r.changed /\ Pop /\ UNCHANGED <<pc, dest, clean>>
           \/ /\ r.changed /\ dest' = [dest EXCEPT ![f] = NoFile] /\ UNCHANGED clean
              /\ IF r.backup = NoSlot THEN Pop /\ UNCHANGED pc ELSE pc' = "movingBack" /\ UNCHANGED changes
           \/ r.changed /\ clean' = FALSE /\ pc' = "failed" /\ UNCHANGED <<dest, changes>>
  /\ UNCHANGED <<backups, staged, state, version, slot, uninstallVars, historyVars>>

MoveBack ==
  LET f == Len(changes) IN
  /\ pc = "movingBack"
  /\ \/ FromBackup(f, changes[f].backup) /\ Pop /\ pc' = "removing" /\ UNCHANGED clean
     \/ clean' = FALSE /\ pc' = "failed" /\ UNCHANGED <<dest, backups, changes>>
  /\ UNCHANGED <<staged, state, version, slot, uninstallVars, historyVars>>

(***************************************************************************)
(* Uninstallation.                                                         *)
(***************************************************************************)

(* The script refuses files and backups that are not those it recorded.    *)
Unaltered(f) ==
  LET r == state[f] IN
  r.changed => /\ dest[f] \in {NoFile, r.installed}
               /\ r.backup # NoSlot => backups[f][r.backup] = r.old

BeginUninstall ==
  /\ state # NoState /\ \A f \in Files : Unaltered(f)
  /\ Begins("staging")
  /\ hand' = 1 /\ aside' = {} /\ restored' = {}
  /\ UNCHANGED installVars

Stage ==
  /\ pc = "staging"
  /\ \/ hand \notin Files /\ pc' = "dropping" /\ UNCHANGED <<dest, staged, hand, aside>>
     \/ /\ hand \in Files /\ ~state[hand].changed
        /\ hand' = hand + 1 /\ UNCHANGED <<pc, dest, staged, aside>>
     \/ /\ hand \in Files /\ state[hand].changed /\ dest[hand] = NoFile
        /\ pc' = "restoring" /\ UNCHANGED <<dest, staged, hand, aside>>
     \/ /\ hand \in Files /\ state[hand].changed /\ dest[hand] # NoFile
        /\ \/ /\ dest' = [dest EXCEPT ![hand] = NoFile]
              /\ staged' = [staged EXCEPT ![hand] = @ \cup {dest[hand]}]
              /\ aside' = aside \cup {hand} /\ pc' = "restoring"
           \/ pc' = "unrestoring" /\ UNCHANGED <<dest, staged, aside>>
        /\ UNCHANGED hand
  /\ UNCHANGED <<backups, state, installVars, restored, clean, historyVars>>

Restore ==
  LET s == state[hand].backup IN
  /\ pc = "restoring"
  /\ \/ s = NoSlot /\ hand' = hand + 1 /\ pc' = "staging" /\ UNCHANGED <<dest, backups, restored>>
     \/ /\ s # NoSlot /\ FromBackup(hand, s) /\ restored' = restored \cup {hand}
        /\ hand' = hand + 1 /\ pc' = "staging"
     \/ s # NoSlot /\ pc' = "unrestoring" /\ UNCHANGED <<dest, backups, restored, hand>>
  /\ UNCHANGED <<staged, state, installVars, aside, clean, historyVars>>

DropState ==
  /\ pc = "dropping"
  /\ \/ state' = NoState /\ pc' = "deleting" /\ UNCHANGED hand
     \/ pc' = "unrestoring" /\ hand' = Len(state) /\ UNCHANGED state
  /\ UNCHANGED <<dest, backups, staged, installVars, aside, restored, clean, historyVars>>

(* Roll-back from the last file to the first, whatever fails in it.        *)
Unrestore ==
  /\ pc = "unrestoring"
  /\ \/ hand = 0 /\ pc' = "failed" /\ UNCHANGED <<dest, backups, clean>>
     \/ /\ hand > 0 /\ pc' = "unstaging"
        /\ \/ hand \notin restored /\ UNCHANGED <<dest, backups, clean>>
           \/ /\ hand \in restored
              /\ backups' = [backups EXCEPT ![hand][state[hand].backup] = dest[hand]]
              /\ dest' = [dest EXCEPT ![hand] = NoFile] /\ UNCHANGED clean
           \/ hand \in restored /\ clean' = FALSE /\ UNCHANGED <<dest, backups>>
  /\ UNCHANGED <<staged, state, installVars, uninstallVars, historyVars>>

Unstage ==
  LET c == state[hand].installed
      mayMove == hand \in aside /\ dest[hand] = NoFile IN
  /\ pc = "unstaging" /\ pc' = "unrestoring" /\ hand' = hand - 1
  /\ \/ ~mayMove /\ UNCHANGED <<dest, staged, clean>>
     \/ /\ mayMove /\ dest' = [dest EXCEPT ![hand] = c]
        /\ staged' = [staged EXCEPT ![hand] = @ \ {c}] /\ UNCHANGED clean
     \/ mayMove /\ clean' = FALSE /\ UNCHANGED <<dest, staged>>
  /\ UNCHANGED <<backups, state, installVars, aside, restored, historyVars>>

(* The copies moved aside are deleted, as far as that succeeds.            *)
DeleteStaged ==
  /\ pc = "deleting" /\ pc' = "uninstalled"
  /\ \E D \in SUBSET aside :
       staged' = [f \in Files |-> IF f \in D THEN staged[f] \ {before[3][f].installed} ELSE staged[f]]
  /\ UNCHANGED <<dest, backups, state, installVars, uninstallVars, clean, historyVars>>

(***************************************************************************)
(* The script or the machine stops.                                        *)
(***************************************************************************)
Kill ==
  /\ ~Idle /\ pc' = "idle"
  /\ UNCHANGED <<dest, backups, staged, state, installVars, uninstallVars, clean, historyVars>>

Next ==
  \/ \E f \in Files : UserEdits(f)
  \/ BeginInstall \/ BackUp \/ CopyNew \/ PutBack \/ SaveState \/ RemoveNew \/ MoveBack
  \/ BeginUninstall \/ Stage \/ Restore \/ DropState \/ Unrestore \/ Unstage \/ DeleteStaged
  \/ Kill

Spec == Init /\ [][Next]_vars

(***************************************************************************)
(* Properties.                                                             *)
(***************************************************************************)
Record == [backup : Slots \cup {NoSlot}, old : Contents \cup {NoFile},
           installed : Contents, changed : BOOLEAN]

TypeOK ==
  /\ dest \in [Files -> Contents \cup {NoFile}]
  /\ backups \in [Files -> [Slots -> Contents \cup {NoFile}]]
  /\ staged \in [Files -> SUBSET Contents]
  /\ state = NoState \/ state \in [Files -> Record]
  /\ pc \in {"idle", "installed", "uninstalled", "failed",
             "backingUp", "copying", "puttingBack", "saving", "removing", "movingBack",
             "staging", "restoring", "dropping", "unrestoring", "unstaging", "deleting"}
  /\ version \in Packages /\ changes \in Seq(Record) /\ Len(changes) <= 2
  /\ slot \in Slots \cup {NoSlot}
  /\ hand \in 0..3 /\ aside \subseteq Files /\ restored \subseteq Files
  /\ clean \in BOOLEAN /\ runs \in 0..MaxRuns /\ edits \in 0..MaxEdits
  /\ mine \in [Files -> SUBSET Contents]

(* Wherever scripts are killed and whatever fails, roll-backs included, no *)
(* file of the user's is lost: it is in its place, in a backup or aside.   *)
NothingLost ==
  \A f \in Files :
    mine[f] \subseteq {dest[f]} \cup {backups[f][s] : s \in Slots} \cup staged[f]

(* A run that ends by itself has done all or nothing, unless a step of its *)
(* roll-back failed: the whole plug-in of the package is in place, or what *)
(* was there before the installation is back, or nothing has changed at all.*)
AllOrNothing ==
  /\ pc = "installed" => \A f \in Files : dest[f] = Package(version)
  /\ pc = "uninstalled" =>
       \A f \in Files : dest[f] = IF before[3][f].changed THEN replaced[f] ELSE before[1][f]
  /\ pc = "failed" /\ clean => <<dest, backups, state>> = before
=============================================================================
