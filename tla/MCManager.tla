------------------------------ MODULE MCManager ------------------------------
(* Instances of the manager's operations, of what their scripts do to the  *)
(* plug-in's files and of the manager's profiles for one run of TLC.  They *)
(* share no variable, so part chooses, once, which of them takes steps.    *)
EXTENDS PluginOperation

CONSTANTS Ids, MaximumProfiles, Versions, Packages, MaxRuns, MaxEdits

ASSUME FilesConstants == MaxRuns \in Nat /\ MaxEdits \in Nat

ASSUME ProfilesConstants == Ids \subseteq Nat \ {0} /\ MaximumProfiles \in Nat \ {0}

VARIABLES
  part,
  store, active, open, profiles, current, combo, form, unsure,            \* ProfileStore
  dest, backups, staged, state, scriptPc, version, changes, slot, hand,   \* PluginFiles
  aside, restored, before, clean, replaced, users, runs, edits

profileVars == <<store, active, open, profiles, current, combo, form, unsure>>

fileVars ==
  <<dest, backups, staged, state, scriptPc, version, changes, slot, hand,
    aside, restored, before, clean, replaced, users, runs, edits>>

P == INSTANCE ProfileStore

F == INSTANCE PluginFiles WITH pc <- scriptPc, mine <- users

(* A part that takes no steps needs one initial state only.                *)
ManagerInit ==
  /\ part \in {"operations", "profiles", "files"}
  /\ Init /\ P!Init /\ F!Init
  /\ part # "operations" => package = "intact"
  /\ part # "files" => dest = [f \in F!Files |-> F!NoFile] /\ version = 1

ManagerNext ==
  /\ \/ part = "operations" /\ Next /\ UNCHANGED <<profileVars, fileVars>>
     \/ part = "profiles" /\ P!Next /\ UNCHANGED <<vars, fileVars>>
     \/ part = "files" /\ F!Next /\ UNCHANGED <<vars, profileVars>>
  /\ UNCHANGED part

ManagerSpec == ManagerInit /\ [][ManagerNext]_<<part, vars, profileVars, fileVars>>

(* What was typed for one profile never becomes part of another one, but   *)
(* for the SimHub folder that a new profile starts with.                   *)
EditsStayHome == P!EditsStayHome

(* List, combo box and index agree between handlers, the registry holds    *)
(* what the window lists, and a manager can be opened again, except where  *)
(* a write has failed.                                                     *)
StoreFollowsTheList == P!TypeOK /\ P!WindowAgrees /\ P!StoreFollowsTheList /\ P!LoadsAgain

(* No file that the user had in the plug-in's place is lost.               *)
NothingLost == F!TypeOK /\ F!NothingLost

(* A script that ends by itself has done all of its work or none of it.    *)
AllOrNothing == F!AllOrNothing
=============================================================================
